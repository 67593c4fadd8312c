--------------------------- MODULE MCHumanReview ---------------------------
(* Instances of HumanReview for TLC. *)
EXTENDS HumanReview, TLC

CONSTANTS h1, h2, r1, r2, r3, r4, p1, p2, p3

OneStep == <<"slack">>
TwoSteps == <<"jira", "legacy", "slack">>
ActionTypes == {"slack", "jira"}
OwnType == [k \in ActionKeys |-> k]
OneHost == [r \in Requests |-> h1]
TwoHosts == [r \in Requests |-> IF r = r1 THEN h1 ELSE h2]

ReviewerSymmetry == Permutations(Reviewers)
Symmetry == Permutations(Requests) \cup Permutations(Reviewers)
=============================================================================
