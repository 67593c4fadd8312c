--------------------------- MODULE ApprovalChain ---------------------------
(***************************************************************************)
(* What an approval chain promises (docs/human_in_the_loop.md and the      *)
(* docstrings of submit_verdict and ApprovalStatus), with nothing of how   *)
(* requests are served:                                                    *)
(*   - tiers are signed one at a time, each by somebody who has not signed *)
(*     before;                                                             *)
(*   - withheld actions run only when every tier is signed, each at most   *)
(*     once, and before the chain is declared approved;                    *)
(*   - a rejection ends the chain, and an ended chain never changes again. *)
(***************************************************************************)
EXTENDS Naturals, FiniteSets

CONSTANTS Reviewers, NTiers, Actions

VARIABLES
  status,   \* "pending", "approved" or "rejected"
  tier,     \* tiers whose signature has been counted
  signers,  \* who has signed
  ran       \* how often each withheld action took effect

chainVars == <<status, tier, signers, ran>>

Complete == Cardinality(signers) = NTiers

ChainInit ==
  /\ status = "pending"
  /\ tier = 0
  /\ signers = {}
  /\ ran = [a \in Actions |-> 0]

(* The awaited tier is signed. *)
Sign(p) ==
  /\ status = "pending"
  /\ Cardinality(signers) = tier /\ p \notin signers
  /\ signers' = signers \cup {p}
  /\ UNCHANGED <<status, tier, ran>>

(* A signature below the last tier is counted: the next tier is awaited. *)
Count ==
  /\ status = "pending"
  /\ Cardinality(signers) = tier + 1 /\ ~Complete
  /\ tier' = tier + 1
  /\ UNCHANGED <<status, signers, ran>>

Run(a) ==
  /\ status = "pending" /\ Complete
  /\ ran[a] = 0
  /\ ran' = [ran EXCEPT ![a] = 1]
  /\ UNCHANGED <<status, tier, signers>>

Finish ==
  /\ status = "pending" /\ Complete
  /\ status' = "approved" /\ tier' = NTiers
  /\ UNCHANGED <<signers, ran>>

Reject ==
  /\ status = "pending" /\ Cardinality(signers) = tier
  /\ status' = "rejected"
  /\ UNCHANGED <<tier, signers, ran>>

ChainNext ==
  \/ \E p \in Reviewers : Sign(p)
  \/ \E a \in Actions : Run(a)
  \/ Count \/ Finish \/ Reject

ChainSpec == ChainInit /\ [][ChainNext]_chainVars

=============================================================================
