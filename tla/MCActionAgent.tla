--------------------------- MODULE MCActionAgent ---------------------------
(* Instances of ActionAgent for TLC. *)
EXTENDS ActionAgent, TLC

CONSTANTS h1, h2, c1, c2, c3, c4, k1

SlackOnly == {"slack"}
AllSlack == [k \in Keys |-> "slack"]

(* Three threads of one host, which share its breaker, and one of another. *)
TwoHosts == [c \in Callers |-> IF c = c4 THEN h2 ELSE h1]
Threads == Permutations({c1, c2, c3})
=============================================================================
