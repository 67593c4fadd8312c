---------------------------- MODULE HumanReview ----------------------------
(***************************************************************************)
(* aeam/governance/human_review.py: the approval chain of one incident.    *)
(*                                                                         *)
(* Every verdict is an HTTP request served by a thread of its own          *)
(* (api/review.py, sync handlers), on any host. submit_verdict takes no    *)
(* lock and opens no transaction: it reads the approval row, looks for an  *)
(* earlier approval of the same principal, appends its verdict, and then   *)
(* acts on the row AS IT READ IT. Each of these is a step here, and the    *)
(* released steps run through ActionAgent in between.                      *)
(***************************************************************************)
EXTENDS Naturals, FiniteSets, Sequences

CONSTANTS
  Requests,      \* verdict requests that reach the service
  Reviewers,     \* principals
  NTiers,        \* length of the approval chain (required_tiers)
  Steps,         \* pending_actions, in runbook order
  Unregistered,  \* steps whose action type ActionAgent does not know
  Hosts, HostOf, Types, TypeOf, NoKey,      \* see ActionAgent
  MaxAttempts, FailureThreshold, LostReplies,
  MaxFaults,
  DatabaseErrors \* may a database statement fail?

VARIABLES
  approval,   \* the incident_approvals row
  verdicts,   \* the review_verdicts rows
  req,        \* local state of each request
  breaker, idem, redisUp, call, faults, delivered, cause  \* see ActionAgent

(* Steps that reach a handler: their idempotency key is the step, since     *)
(* incident and parameters are those recorded with it.                      *)
StepSet == {Steps[i] : i \in 1..Len(Steps)}
ActionKeys == StepSet \ Unregistered

Agent == INSTANCE ActionAgent WITH Callers <- Requests, Keys <- ActionKeys,
                                   MaxCalls <- Len(Steps)

ASSUME ReviewConstants ==
  /\ IsFiniteSet(Reviewers)
  /\ NTiers \in Nat \ {0}           \* parse_tier_chain never yields no tier
  /\ Steps \in Seq(StepSet)
  /\ \A i, j \in 1..Len(Steps) : i # j => Steps[i] # Steps[j]
  /\ DatabaseErrors \in BOOLEAN

ASSUME AgentConstants == Agent!AgentConstants

reviewVars == <<approval, verdicts, req>>
agentVars == <<breaker, idem, redisUp, call, faults, delivered, cause>>
vars == <<approval, verdicts, req,
          breaker, idem, redisUp, call, faults, delivered, cause>>

-----------------------------------------------------------------------------
(* State. "noted" stands for changes_requested and escalated.               *)

VerdictKinds == {"approved", "rejected", "noted"}

(* Mutant: a rejected chain still accepts verdicts. *)
TerminalWithoutRejected == {"approved"}
Terminal == {"approved", "rejected"}

Approval == [status : {"pending", "approved", "rejected"}, tier : 0..NTiers,
             executed : SUBSET StepSet, skipped : SUBSET StepSet]

VerdictRow == [req : Requests, reviewer : Reviewers, tier : 0..NTiers,
               verdict : VerdictKinds]

(* tier is the current_tier this request read; pos the pending step it is   *)
(* at; executed and skipped what it collected so far.                       *)
Request == [pc : {"new", "vet", "record", "apply", "run", "done", "dead"},
            reviewer : Reviewers, verdict : VerdictKinds, tier : 0..NTiers,
            pos : 1..(Len(Steps) + 1),
            executed : SUBSET StepSet, skipped : SUBSET StepSet]

Fresh(p) == [pc |-> "new", reviewer |-> p, verdict |-> "noted", tier |-> 0,
             pos |-> 1, executed |-> {}, skipped |-> {}]

(* record_pending_approval has written the row. *)
ReviewInit ==
  /\ approval = [status |-> "pending", tier |-> 0, executed |-> {}, skipped |-> {}]
  /\ verdicts = {}
  /\ req \in [Requests -> {Fresh(p) : p \in Reviewers}]

Init == ReviewInit /\ Agent!AgentInit

(* Principals that have cast an approval on this chain. *)
Approvals == {v \in verdicts : v.verdict = "approved"}
Signers == {v.reviewer : v \in Approvals}

IsLast(r) == req[r].tier + 1 >= NTiers
Goto(r, pc) == req' = [req EXCEPT ![r].pc = pc]

-----------------------------------------------------------------------------
(* One request. *)

(* get_by_incident, then the terminal-state check: a verdict on a finished  *)
(* chain is answered (idempotent or 409) and changes nothing.               *)
ReadApproval(r, v) ==
  /\ req[r].pc = "new"
  /\ req' = [req EXCEPT ![r].verdict = v, ![r].tier = approval.tier,
                        ![r].pc = IF approval.status \in Terminal THEN "done"
                                  ELSE IF v = "approved" THEN "vet" ELSE "record"]
  /\ UNCHANGED <<approval, verdicts>> /\ UNCHANGED agentVars

(* Mutant: the earlier approval is not looked for. *)
FindAdvancingSkipped(r) ==
  /\ req[r].pc = "vet"
  /\ Goto(r, "record")
  /\ UNCHANGED <<approval, verdicts>> /\ UNCHANGED agentVars

(* find_advancing_by_reviewer: a second approval of one principal is a      *)
(* no-op.                                                                   *)
FindAdvancing(r) ==
  /\ req[r].pc = "vet"
  /\ Goto(r, IF req[r].reviewer \in Signers THEN "done" ELSE "record")
  /\ UNCHANGED <<approval, verdicts>> /\ UNCHANGED agentVars

(* The verdict row is appended at the tier this request read. *)
RecordVerdict(r) ==
  /\ req[r].pc = "record"
  /\ verdicts' = verdicts \cup {[req |-> r, reviewer |-> req[r].reviewer,
                                 tier |-> req[r].tier, verdict |-> req[r].verdict]}
  /\ Goto(r, IF req[r].verdict = "approved" /\ IsLast(r) THEN "run" ELSE "apply")
  /\ UNCHANGED approval /\ UNCHANGED agentVars

(* Mutant: a status outside ApprovalStatus is saved. *)
SaveRejectionMisspelt(r) ==
  /\ req[r].pc = "apply" /\ req[r].verdict = "rejected"
  /\ approval' = [approval EXCEPT !.status = "halted", !.skipped = StepSet]
  /\ Goto(r, "done")
  /\ UNCHANGED verdicts /\ UNCHANGED agentVars

(* A rejection: status and skipped_actions are saved, nothing runs. *)
SaveRejection(r) ==
  /\ req[r].pc = "apply" /\ req[r].verdict = "rejected"
  /\ approval' = [approval EXCEPT !.status = "rejected", !.skipped = StepSet]
  /\ Goto(r, "done")
  /\ UNCHANGED verdicts /\ UNCHANGED agentVars

(* changes_requested / escalated: recorded, the chain stays where it is. *)
NoteOnly(r) ==
  /\ req[r].pc = "apply" /\ req[r].verdict = "noted"
  /\ Goto(r, "done")
  /\ UNCHANGED <<approval, verdicts>> /\ UNCHANGED agentVars

(* Mutant: the row's own tier is incremented, not the one that was read. *)
AdvanceTierInPlace(r) ==
  /\ req[r].pc = "apply" /\ req[r].verdict = "approved"
  /\ approval' = [approval EXCEPT !.tier = @ + 1]
  /\ Goto(r, "done")
  /\ UNCHANGED verdicts /\ UNCHANGED agentVars

(* Mutant: the whole row is written back as it was read. *)
AdvanceTierWholeRow(r) ==
  /\ req[r].pc = "apply" /\ req[r].verdict = "approved"
  /\ approval' = [approval EXCEPT !.tier = req[r].tier + 1, !.status = "pending"]
  /\ Goto(r, "done")
  /\ UNCHANGED verdicts /\ UNCHANGED agentVars

(* An approval below the last tier saves the tier after the one it read;    *)
(* save_progress writes no other column.                                    *)
AdvanceTier(r) ==
  /\ req[r].pc = "apply" /\ req[r].verdict = "approved"
  /\ approval' = [approval EXCEPT !.tier = req[r].tier + 1]
  /\ Goto(r, "done")
  /\ UNCHANGED verdicts /\ UNCHANGED agentVars

(* _execute_pending: the recorded steps, in order, through ActionAgent.     *)
AtStep(r) == req[r].pc = "run" /\ req[r].pos <= Len(Steps)
StepOf(r) == Steps[req[r].pos]

CallAgent(r) ==
  /\ AtStep(r) /\ StepOf(r) \notin Unregistered
  /\ Agent!Admit(r, StepOf(r)) \/ Agent!Refuse(r, StepOf(r))
  /\ UNCHANGED reviewVars

AgentStep(r) ==
  /\ req[r].pc = "run"
  /\ Agent!CallStep(r)
  /\ UNCHANGED reviewVars

(* Mutant: ALREADY_EXECUTED is reported as executed. *)
CollectLenient(r) ==
  LET ok == call[r].status \in {"SUCCESS", "ALREADY_EXECUTED"} IN
  /\ AtStep(r)
  /\ Agent!Return(r)
  /\ req' = [req EXCEPT ![r].pos = @ + 1,
                        ![r].executed = @ \cup (IF ok THEN {StepOf(r)} ELSE {}),
                        ![r].skipped = @ \cup (IF ok THEN {} ELSE {StepOf(r)})]
  /\ UNCHANGED <<approval, verdicts>>

(* Only SUCCESS counts as executed; any other result is a skipped step. *)
Collect(r) ==
  LET ok == call[r].status = "SUCCESS" IN
  /\ AtStep(r)
  /\ Agent!Return(r)
  /\ req' = [req EXCEPT ![r].pos = @ + 1,
                        ![r].executed = @ \cup (IF ok THEN {StepOf(r)} ELSE {}),
                        ![r].skipped = @ \cup (IF ok THEN {} ELSE {StepOf(r)})]
  /\ UNCHANGED <<approval, verdicts>>

(* execute() raises ValueError for an unknown type: the step is skipped. *)
SkipUnregistered(r) ==
  /\ AtStep(r) /\ StepOf(r) \in Unregistered
  /\ req' = [req EXCEPT ![r].pos = @ + 1, ![r].skipped = @ \cup {StepOf(r)}]
  /\ UNCHANGED <<approval, verdicts>> /\ UNCHANGED agentVars

(* Mutant: the row is saved only if every step was executed. *)
SaveApprovalIfAllRan(r) ==
  /\ req[r].pc = "run" /\ ~AtStep(r) /\ req[r].skipped = {}
  /\ approval' = [status |-> "approved", tier |-> req[r].tier + 1,
                  executed |-> req[r].executed, skipped |-> {}]
  /\ Goto(r, "done")
  /\ UNCHANGED verdicts /\ UNCHANGED agentVars

(* All steps tried: the row becomes approved, whatever it is by now. *)
SaveApproval(r) ==
  /\ req[r].pc = "run" /\ ~AtStep(r)
  /\ approval' = [status |-> "approved", tier |-> req[r].tier + 1,
                  executed |-> req[r].executed, skipped |-> req[r].skipped]
  /\ Goto(r, "done")
  /\ UNCHANGED verdicts /\ UNCHANGED agentVars

-----------------------------------------------------------------------------
(* Failures: a database statement of a request raises (the request ends as  *)
(* a 500, what it wrote before stays), or a whole process dies.             *)

DatabaseError(r) ==
  /\ \/ req[r].pc \in {"vet", "record", "apply"}
     \/ req[r].pc = "run" /\ ~AtStep(r)
  /\ DatabaseErrors
  /\ Goto(r, "dead")
  /\ UNCHANGED <<approval, verdicts>> /\ UNCHANGED agentVars

Restart(h) ==
  /\ Agent!AgentRestart(h)
  /\ req' = [r \in Requests |-> IF HostOf[r] = h /\ req[r].pc # "new"
                                  THEN [req[r] EXCEPT !.pc = "dead"] ELSE req[r]]
  /\ UNCHANGED <<approval, verdicts>>

-----------------------------------------------------------------------------

RequestStep(r) ==
  \/ FindAdvancing(r) \/ RecordVerdict(r)
  \/ SaveRejection(r) \/ NoteOnly(r) \/ AdvanceTier(r)
  \/ CallAgent(r) \/ AgentStep(r) \/ Collect(r) \/ SkipUnregistered(r)
  \/ SaveApproval(r)

Arrive(r) == \E v \in VerdictKinds : ReadApproval(r, v)

Environment == Agent!Environment /\ UNCHANGED reviewVars

Next ==
  \/ \E r \in Requests : Arrive(r) \/ RequestStep(r) \/ DatabaseError(r)
  \/ \E h \in Hosts : Restart(h)
  \/ Environment

Spec == Init /\ [][Next]_vars

(* A thread that has started keeps running until it is done or dies; no     *)
(* reviewer is obliged to send anything.                                    *)
Fairness == \A r \in Requests : WF_vars(RequestStep(r))
FairSpec == Spec /\ Fairness

(* Requests one after the other: what the tests exercise. *)
Idle(r) == req[r].pc \in {"new", "done", "dead"}
SerialNext ==
  \/ \E r \in Requests : Arrive(r) /\ \A q \in Requests : Idle(q)
  \/ \E r \in Requests : RequestStep(r)
  \/ Environment
SerialSpec == Init /\ [][SerialNext]_vars

-----------------------------------------------------------------------------
(* Properties. *)

ReviewTypeOK ==
  /\ approval \in Approval
  /\ verdicts \in SUBSET VerdictRow
  /\ req \in [Requests -> Request]

(* Every variable holds a value of its kind, those of the agent included;   *)
(* no request reads or writes a tier beyond the last one.                   *)
TypeOK == ReviewTypeOK /\ Agent!AgentTypeOK

(* Withheld steps are being released, or were. *)
Released == \/ approval.status = "approved"
            \/ \E r \in Requests : req[r].pc = "run"
            \/ \E k \in ActionKeys : delivered[k] > 0

(* docs/human_in_the_loop.md, "the one-principal rule": the chain needs as  *)
(* many different people as it has tiers, however their requests interleave *)
(* and whatever requests die half-way: nothing is released before NTiers    *)
(* distinct principals have approved.                                       *)
DistinctApprovers == Released => Cardinality(Signers) >= NTiers

(* Every tier below the one the chain awaits carries an approval recorded   *)
(* at that very tier; a released chain has one at each of its tiers.        *)
SignedAt(t) == \E v \in Approvals : v.tier = t
EveryTierSigned ==
  /\ \A t \in 0..NTiers - 1 : t < approval.tier => SignedAt(t)
  /\ Released => \A t \in 0..NTiers - 1 : SignedAt(t)

(* A finished chain is never reopened, by any late request. *)
NeverReopened ==
  [][approval.status \in Terminal => approval'.status \in Terminal]_vars

(* What the approval row reports as executed has taken effect. *)
ExecutedIsTrue ==
  \A s \in approval.executed : s \in ActionKeys /\ delivered[s] > 0

(* A request that releases the last tier brings the chain to an end unless  *)
(* it dies itself: no interleaving with late requests, no handler outcome   *)
(* and no outage leaves a released chain pending.                           *)
LastSignOffSettles ==
  \A r \in Requests :
    req[r].pc = "run" ~> approval.status \in Terminal \/ req[r].pc = "dead"

(* Served one at a time, requests implement what the chain promises; the    *)
(* approvals recorded so far are the signatures, current_tier the count.    *)
Chain == INSTANCE ApprovalChain WITH
           Actions <- ActionKeys, status <- approval.status,
           tier <- approval.tier, signers <- Signers, ran <- delivered
KeepsThePromise == Chain!ChainSpec

(* human_review.py: a rejection "halts the chain permanently ... Nothing    *)
(* executes, ever, for this incident".                                      *)
RejectionIsFinal ==
  [][approval.status = "rejected" =>
       approval'.status = "rejected" /\ delivered' = delivered]_vars

=============================================================================
