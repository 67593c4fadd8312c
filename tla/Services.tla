------------------------------ MODULE Services ------------------------------
(***************************************************************************)
(* The services beside the investigation and its approval, and what they   *)
(* promise together. Their models share no variables: a behaviour of the   *)
(* system is one of each.                                                  *)
(***************************************************************************)
EXTENDS BusinessGraph, CalibrationLedger, Curation, Access, LLMService, Delivery,
        Connectors, Composition

(* What was decided last, under the conditions each part names: of the      *)
(* calibration, the recalibration served undisturbed, or the one adopted or *)
(* restored last if nothing overlapped, failed or took a version twice; of  *)
(* an incident's memory, what the last curation to end left if no two of    *)
(* them met on it (learning_agent.py:218, 297, enterprise_memory.py:404).   *)
LastDecisionApplies == LastAdoptedApplies /\ MemoryIsAsCurated

(* No verdict on a proposal and no decision on a rule is replaced by a      *)
(* later one (learning_agent.py:449, policy_agent.py:223).                  *)
DecidedOnce == LateVerdictRefused /\ RuleDecidedOnce

(* Calls of the outside world are reported as what they did: deliveries,    *)
(* and the failures the language model's breaker counts                     *)
(* (action_agent.py:374, llm_service.py:94).                                *)
OutsideCallsSound == DeliverySound /\ BreakerFollowsFailures

=============================================================================
