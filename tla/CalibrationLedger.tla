------------------------- MODULE CalibrationLedger -------------------------
(***************************************************************************)
(* The ledger of confidence calibrations and the proposals people decide   *)
(* on (agents/learning/learning_agent.py, api/learning.py).                *)
(*                                                                         *)
(* The handlers are asynchronous and never await: an instance serves one   *)
(* request after the other, two instances interleave between statements,   *)
(* each of which commits by itself. Whether a fit is usable is Calibration.*)
(***************************************************************************)
EXTENDS Integers, Sequences, FiniteSets

CONSTANTS
  LedgerInstances,   \* application instances
  Proposals,         \* identifiers of proposals
  MaxLedgerRequests  \* bound: requests that are begun

ASSUME LedgerAssumption == MaxLedgerRequests \in Nat

VARIABLES
  calibrations,  \* calibration_models, in order of insertion: [version, status]
  proposals,     \* learning_proposals: proposal -> status, "none" before it is made
  learner,       \* instance -> the request it serves, or NoRequest
  inForce,       \* history: the row last adopted or restored, 0 for none
  ledgerFault,   \* history: requests overlapped, or a statement failed
  disturbed,     \* history: they did so since a request began with none at work
  served,        \* history: the last request for a calibration was served undisturbed,
                 \* and with no choice: "no", "yes" or "sole"
  ledgerRequests

ledgerVars == <<calibrations, proposals, learner, inForce, ledgerFault, disturbed, served,
                ledgerRequests>>

-----------------------------------------------------------------------------
NoRequest == [op |-> "none"]

Verdicts == {"approved", "rejected"}

Rows == DOMAIN calibrations

ActiveRows == {r \in Rows : calibrations[r].status = "active"}

(* active_calibration: an active row of the highest version, 0 if none.     *)
ActiveCalibration ==
  IF ActiveRows = {} THEN {0}
  ELSE {r \in ActiveRows : \A s \in ActiveRows : calibrations[s].version <= calibrations[r].version}

AtRest == \A i \in LedgerInstances : learner[i] = NoRequest

LedgerInit ==
  /\ calibrations = <<>>
  /\ proposals = [p \in Proposals |-> "none"]
  /\ learner = [i \in LedgerInstances |-> NoRequest]
  /\ inForce = 0 /\ ledgerFault = FALSE /\ ledgerRequests = 0
  /\ disturbed = FALSE /\ served = "no"

Begin(i, request) ==
  /\ learner[i] = NoRequest
  /\ ledgerRequests < MaxLedgerRequests
  /\ ledgerRequests' = ledgerRequests + 1
  /\ learner' = [learner EXCEPT ![i] = request]
  /\ ledgerFault' = (ledgerFault \/ ~AtRest)
  /\ disturbed' = ~AtRest
  /\ served' = IF request.op \in {"recalibrate", "restore"} THEN "no" ELSE served

(* recalibrate, once the fit is usable and to be kept; otherwise nothing is *)
(* written and the request ends at once.                                    *)
Recalibrate(i) ==
  /\ \E keep \in BOOLEAN :
       Begin(i, IF keep THEN [op |-> "recalibrate", at |-> "active", target |-> 0, current |-> 0,
                              sole |-> TRUE]
                ELSE NoRequest)
  /\ UNCHANGED <<calibrations, proposals, inForce>>

(* No other row has this one's version, and at most one row is active.      *)
Sole(row) ==
  /\ \A r \in Rows \ {row} : calibrations[r].version # calibrations[row].version
  /\ \A r, s \in ActiveRows : r = s

(* restore_calibration: any row of that version; an unknown one is a 404.   *)
(* The history keeps whether there is a choice.                             *)
RestoreCalibration(i) ==
  /\ \E target \in Rows :
       Begin(i, [op |-> "restore", at |-> "active", target |-> target, current |-> 0,
                 sole |-> Sole(target)])
  /\ UNCHANGED <<calibrations, proposals, inForce>>

(* The row in force is read; an error is logged and reads as none.          *)
ReadActive(i) ==
  /\ learner[i].op \in {"recalibrate", "restore"} /\ learner[i].at = "active"
  /\ \/ \E r \in ActiveCalibration :
          learner' = [learner EXCEPT ![i].at = "supersede", ![i].current = r]
        /\ UNCHANGED <<ledgerFault, disturbed>>
     \/ /\ learner' = [learner EXCEPT ![i].at = "supersede", ![i].current = 0]
        /\ ledgerFault' = TRUE /\ disturbed' = TRUE
  /\ UNCHANGED <<calibrations, proposals, inForce, served, ledgerRequests>>

(* Mutant: restoring leaves the calibration in force alone.                 *)
SupersedeWhenRecalibrating(i) ==
  LET r == learner[i]
  IN /\ r.op \in {"recalibrate", "restore"} /\ r.at = "supersede"
     /\ calibrations' = IF r.current # 0 /\ r.op = "recalibrate"
                        THEN [calibrations EXCEPT ![r.current].status = "superseded"]
                        ELSE calibrations
     /\ learner' = [learner EXCEPT ![i].at = "adopt"]
     /\ UNCHANGED <<proposals, inForce, ledgerFault, disturbed, served, ledgerRequests>>

(* The row that was read as in force is superseded, unless it has the very  *)
(* version that is to be restored.                                          *)
Supersede(i) ==
  LET r == learner[i]
      other == r.op = "recalibrate"
               \/ (r.current # 0 /\ calibrations[r.current].version # calibrations[r.target].version)
  IN /\ r.op \in {"recalibrate", "restore"} /\ r.at = "supersede"
     /\ calibrations' = IF r.current # 0 /\ other
                        THEN [calibrations EXCEPT ![r.current].status = "superseded"]
                        ELSE calibrations
     /\ learner' = [learner EXCEPT ![i].at = "adopt"]
     /\ UNCHANGED <<proposals, inForce, ledgerFault, disturbed, served, ledgerRequests>>

(* A new row with the version after the one that was in force, or the row   *)
(* to restore is active again.                                              *)
Adopt(i) ==
  LET r == learner[i]
      version == IF r.current = 0 THEN 1 ELSE calibrations[r.current].version + 1
  IN /\ r.op \in {"recalibrate", "restore"} /\ r.at = "adopt"
     /\ IF r.op = "recalibrate"
        THEN /\ calibrations' = Append(calibrations, [version |-> version, status |-> "active"])
             /\ inForce' = Len(calibrations) + 1
        ELSE /\ calibrations' = [calibrations EXCEPT ![r.target].status = "active"]
             /\ inForce' = r.target
     /\ served' = IF disturbed THEN "no" ELSE IF r.sole THEN "sole" ELSE "yes"
     /\ learner' = [learner EXCEPT ![i] = NoRequest]
     /\ UNCHANGED <<proposals, ledgerFault, disturbed, ledgerRequests>>

ProposeThreshold(i) ==
  /\ \E p \in Proposals : /\ proposals[p] = "none"
                          /\ proposals' = [proposals EXCEPT ![p] = "pending"]
  /\ Begin(i, NoRequest)
  /\ UNCHANGED <<calibrations, inForce>>

(* decide_proposal is asked for; the history keeps whether the proposal was *)
(* decided by then.                                                         *)
AskVerdict(i) ==
  /\ \E p \in Proposals, v \in Verdicts :
       Begin(i, [op |-> "decide", at |-> "look", proposal |-> p, verdict |-> v,
                 late |-> proposals[p] \in Verdicts])
  /\ UNCHANGED <<calibrations, proposals, inForce>>

(* Mutant: only an unknown proposal is refused.                             *)
LookForAny(i) ==
  LET r == learner[i]
  IN /\ r.op = "decide" /\ r.at = "look"
     /\ learner' = [learner EXCEPT ![i] =
                      IF proposals[r.proposal] # "none" THEN [r EXCEPT !.at = "record"]
                      ELSE NoRequest]
     /\ UNCHANGED <<calibrations, proposals, inForce, ledgerFault, disturbed, served,
                    ledgerRequests>>

(* ... its status is looked at: an unknown proposal is a 404, a decided one *)
(* a 409 ...                                                                *)
LookAtProposal(i) ==
  LET r == learner[i]
  IN /\ r.op = "decide" /\ r.at = "look"
     /\ learner' = [learner EXCEPT ![i] =
                      IF proposals[r.proposal] = "pending" THEN [r EXCEPT !.at = "record"]
                      ELSE NoRequest]
     /\ UNCHANGED <<calibrations, proposals, inForce, ledgerFault, disturbed, served,
                    ledgerRequests>>

(* ... and the verdict is written, whatever the row holds by now.           *)
DecideProposal(i) ==
  LET r == learner[i]
  IN /\ r.op = "decide" /\ r.at = "record"
     /\ proposals' = [proposals EXCEPT ![r.proposal] = r.verdict]
     /\ learner' = [learner EXCEPT ![i] = NoRequest]
     /\ UNCHANGED <<calibrations, inForce, ledgerFault, disturbed, served, ledgerRequests>>

(* A statement fails and the answer is a 500, or the instance dies.         *)
LedgerRequestFails(i) ==
  /\ learner[i] # NoRequest
  /\ learner' = [learner EXCEPT ![i] = NoRequest]
  /\ ledgerFault' = TRUE /\ disturbed' = TRUE
  /\ UNCHANGED <<calibrations, proposals, inForce, served, ledgerRequests>>

LedgerNext ==
  \E i \in LedgerInstances :
     \/ Recalibrate(i) \/ RestoreCalibration(i) \/ ReadActive(i) \/ Supersede(i) \/ Adopt(i)
     \/ ProposeThreshold(i) \/ AskVerdict(i) \/ LookAtProposal(i) \/ DecideProposal(i)
     \/ LedgerRequestFails(i)

LedgerSpec == LedgerInit /\ [][LedgerNext]_ledgerVars

-----------------------------------------------------------------------------
(* Properties *)

VersionsUnique ==
  \A r, s \in Rows : calibrations[r].version = calibrations[s].version => r = s

(* A recalibration that was served undisturbed is what applies to new       *)
(* incidents until the next is asked for, whatever overlapped, failed or    *)
(* was numbered twice before it; and so is a restored calibration, if it is *)
(* the only one of its version and at most one row was active               *)
(* (learning_agent.py:218, 297).                                            *)
LastServedApplies == served = "sole" => ActiveCalibration = {inForce}

(* As long as requests never overlapped nor failed and no version was given *)
(* twice, what was adopted or restored last is also the only active row     *)
(* (learning_agent.py:225, 311).                                            *)
OneAppliesUndisturbed ==
  AtRest /\ ~ledgerFault /\ VersionsUnique =>
    /\ ActiveCalibration = {inForce}
    /\ Cardinality(ActiveRows) <= 1

LastAdoptedApplies == LastServedApplies /\ OneAppliesUndisturbed

(* migrations/versions/0007_learning_calibration.py:19: exactly one row is  *)
(* active at a time. Requests that neither overlap nor fail suffice to      *)
(* break it: a version given twice is restored over its namesake, and which *)
(* of the two then applies is open.                                         *)
OneActiveAtATime ==
  AtRest /\ ~ledgerFault => Cardinality(ActiveRows) <= 1

(* learning_agent.py:285-290: restoring makes that version active, and the  *)
(* active one is what applies. Where an earlier overlap or failure left two *)
(* active rows only the newer is superseded and the other can outrank the   *)
(* restored one, and a version given twice can apply in its namesake.       *)
RestoredApplies == served # "no" => ActiveCalibration = {inForce}

(* Whoever asks after a verdict was recorded is refused: only requests that *)
(* overlapped the first can replace it (learning_agent.py:449).             *)
LateVerdictRefused ==
  [][\A i \in LedgerInstances :
       learner[i].op = "decide" /\ learner[i].late /\ learner'[i] # learner[i]
         => proposals' = proposals]_ledgerVars

=============================================================================
