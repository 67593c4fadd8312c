------------------------- MODULE ReviewAgentProofs -------------------------
(***************************************************************************)
(* HumanReview, for any number of requests, people and tiers: nothing is   *)
(* released before NTiers different people have approved, and every tier   *)
(* counted carries an approval of its own.                                 *)
(*                                                                         *)
(* The argument. Say the verdicts V COVER n when n different people have   *)
(* approved in V and each of the tiers 0..n-1 has an approval in V.        *)
(* Verdicts are only ever added, so what is covered stays covered. The     *)
(* tier in the approval row is covered; so is the tier a request has read, *)
(* however stale it is by now; and once a request has recorded an approval *)
(* at tier t, t + 1 is covered, because its reviewer was not among those   *)
(* who had covered t when it checked. The check and the record are two     *)
(* steps: what survives the interleaving in between is that t people OTHER *)
(* than this reviewer have approved (the third conjunct of Good).          *)
(*                                                                         *)
(* HumanReview runs the withheld steps through ActionAgent. Seen from the  *)
(* agent, the requests are callers that make at most one call per step:    *)
(* every behaviour of the review is a behaviour of the agent on its own,   *)
(* so what is proved of the agent (ActionAgentProofs) holds in the review. *)
(*                                                                         *)
(* The last part shows that verdicts served one by one implement the       *)
(* abstract ApprovalChain: its signatures are the approvals recorded, its  *)
(* count is current_tier, and every other step stutters.                   *)
(***************************************************************************)
EXTENDS HumanReview, FiniteSetTheorems, TLAPS

USE ReviewConstants

Active == {"vet", "record", "apply", "run"}

Who(V) == {v.reviewer : v \in {w \in V : w.verdict = "approved"}}

Covered(n, V) ==
  /\ Cardinality(Who(V)) >= n
  /\ \A t \in 0..NTiers - 1 : t < n =>
       \E v \in V : v.verdict = "approved" /\ v.tier = t

(* What holds of a request x when the verdicts are V. *)
Good(x, V) ==
  /\ x.pc \in Active => x.tier < NTiers /\ Covered(x.tier, V)
  /\ x.pc = "vet" => x.verdict = "approved"
  /\ x.pc = "record" /\ x.verdict = "approved" =>
       Cardinality(Who(V) \ {x.reviewer}) >= x.tier
  /\ x.pc \in {"apply", "run"} /\ x.verdict = "approved" => Covered(x.tier + 1, V)
  /\ x.pc = "apply" /\ x.verdict = "approved" => x.tier + 1 < NTiers
  /\ x.pc = "run" => x.verdict = "approved" /\ x.tier + 1 = NTiers

RowInv ==
  /\ approval.status = "pending" => approval.tier < NTiers
  /\ Covered(approval.tier, verdicts)
  /\ approval.status = "approved" => Covered(NTiers, verdicts)

ReqInv == \A r \in Requests : Good(req[r], verdicts)

RunInv == (\E k \in ActionKeys : delivered[k] > 0) => Covered(NTiers, verdicts)

ReviewInv == ReviewTypeOK /\ RowInv /\ ReqInv /\ RunInv

-----------------------------------------------------------------------------
(* Verdicts, and who cast them. *)

(* The people who approved are finitely many. *)
LEMMA WhoFinite ==
  ASSUME NEW V, V \subseteq VerdictRow
  PROVE  Who(V) \subseteq Reviewers /\ IsFiniteSet(Who(V))
<1>1. Who(V) \subseteq Reviewers BY DEF Who, VerdictRow
<1> QED BY <1>1, FS_Subset

(* More approvals, as least as many people. *)
LEMMA WhoGrows ==
  ASSUME NEW V, NEW W, V \subseteq W, W \subseteq VerdictRow, NEW S
  PROVE  /\ Cardinality(Who(V) \ S) \in Nat /\ Cardinality(Who(W) \ S) \in Nat
         /\ Cardinality(Who(V) \ S) <= Cardinality(Who(W) \ S)
<1>1. IsFiniteSet(Who(W) \ S) BY WhoFinite, FS_Subset
<1>2. Who(V) \ S \subseteq Who(W) \ S BY DEF Who
<1> QED BY <1>1, <1>2, FS_Subset, FS_CardinalityType

(* What is covered stays covered when verdicts are added. *)
LEMMA CoveredGrows ==
  ASSUME NEW V, NEW W, V \subseteq W, W \subseteq VerdictRow,
         NEW n \in Nat, Covered(n, V)
  PROVE  Covered(n, W)
<1>1. Who(V) = Who(V) \ {} /\ Who(W) = Who(W) \ {} OBVIOUS
<1>2. Cardinality(Who(V)) \in Nat /\ Cardinality(Who(W)) \in Nat
        /\ Cardinality(Who(V)) <= Cardinality(Who(W))
  BY <1>1, WhoGrows
<1>3. Cardinality(Who(W)) >= n BY <1>2 DEF Covered
<1> QED BY <1>3 DEF Covered

(* So does everything that is said of a request. *)
LEMMA GoodGrows ==
  ASSUME NEW V, NEW W, V \subseteq W, W \subseteq VerdictRow,
         NEW x \in Request, Good(x, V)
  PROVE  Good(x, W)
<1>1. x.tier \in Nat /\ x.tier + 1 \in Nat BY DEF Request
<1>2. Covered(x.tier, V) => Covered(x.tier, W) BY <1>1, CoveredGrows
<1>3. Covered(x.tier + 1, V) => Covered(x.tier + 1, W) BY <1>1, CoveredGrows
<1>4. Cardinality(Who(V) \ {x.reviewer}) >= x.tier =>
        Cardinality(Who(W) \ {x.reviewer}) >= x.tier
  <2> DEFINE S == {x.reviewer}
  <2>1. /\ Cardinality(Who(V) \ S) \in Nat /\ Cardinality(Who(W) \ S) \in Nat
        /\ Cardinality(Who(V) \ S) <= Cardinality(Who(W) \ S)
    <3> HIDE DEF S
    <3> QED BY WhoGrows
  <2> QED BY <1>1, <2>1
<1> QED BY <1>2, <1>3, <1>4 DEF Good

(* A reviewer's approval, recorded at tier t on top of t other people's,    *)
(* covers one tier more.                                                    *)
LEMMA RecordCovers ==
  ASSUME NEW V, NEW v \in VerdictRow, V \subseteq VerdictRow,
         v.verdict = "approved", Covered(v.tier, V),
         Cardinality(Who(V) \ {v.reviewer}) >= v.tier
  PROVE  Covered(v.tier + 1, V \cup {v})
<1> DEFINE W == V \cup {v}
           others == Who(V) \ {v.reviewer}
<1>0. v.tier \in Nat BY DEF VerdictRow
<1>1. W \subseteq VerdictRow OBVIOUS
<1>2. IsFiniteSet(others) BY WhoFinite, FS_Subset
<1>3. Who(W) = others \cup {v.reviewer} BY DEF Who
<1>4. Cardinality(Who(W)) = Cardinality(others) + 1
  BY <1>2, <1>3, FS_AddElement
<1>5. Cardinality(Who(W)) >= v.tier + 1
  BY <1>0, <1>2, <1>4, FS_CardinalityType
<1>6. ASSUME NEW t \in 0..NTiers - 1, t < v.tier + 1
      PROVE  \E w \in W : w.verdict = "approved" /\ w.tier = t
  <2>1. CASE t < v.tier BY <2>1 DEF Covered
  <2>2. CASE t = v.tier BY <2>2
  <2> QED BY <1>0, <1>6, <2>1, <2>2
<1> QED BY <1>5, <1>6 DEF Covered

-----------------------------------------------------------------------------
(* What a step leaves alone stays true. *)

(* A step of request r that makes it x, in a good state. *)
LEMMA OneRequest ==
  ASSUME ReviewTypeOK, ReqInv, NEW r \in Requests, NEW x \in Request,
         req' = [req EXCEPT ![r] = x],
         verdicts \subseteq verdicts', verdicts' \subseteq VerdictRow,
         Good(x, verdicts')
  PROVE  req' \in [Requests -> Request] /\ ReqInv'
<1>1. req' \in [Requests -> Request] BY DEF ReviewTypeOK
<1>2. ASSUME NEW q \in Requests PROVE Good(req'[q], verdicts')
  <2>1. CASE q = r BY <2>1 DEF ReviewTypeOK
  <2>2. CASE q # r
    <3>1. req'[q] = req[q] BY <2>2 DEF ReviewTypeOK
    <3>2. req[q] \in Request /\ Good(req[q], verdicts) BY DEF ReviewTypeOK, ReqInv
    <3> QED BY <3>1, <3>2, GoodGrows
  <2> QED BY <2>1, <2>2
<1> QED BY <1>1, <1>2 DEF ReqInv

(* The approval row is left alone. *)
LEMMA SameRow ==
  ASSUME ReviewTypeOK, RowInv, approval' = approval,
         verdicts \subseteq verdicts', verdicts' \subseteq VerdictRow
  PROVE  RowInv'
<1>1. approval.tier \in Nat /\ NTiers \in Nat BY DEF ReviewTypeOK, Approval
<1>2. Covered(approval.tier, verdicts) => Covered(approval.tier, verdicts')
  BY <1>1, CoveredGrows
<1>3. Covered(NTiers, verdicts) => Covered(NTiers, verdicts') BY <1>1, CoveredGrows
<1> QED BY <1>2, <1>3 DEF RowInv

(* No effect happens. *)
LEMMA SameRun ==
  ASSUME RunInv, delivered' = delivered,
         verdicts \subseteq verdicts', verdicts' \subseteq VerdictRow
  PROVE  RunInv'
<1>1. Covered(NTiers, verdicts) => Covered(NTiers, verdicts') BY CoveredGrows
<1> QED BY <1>1 DEF RunInv

(* Nothing that ReviewInv speaks of changes. *)
LEMMA SameAll ==
  ASSUME ReviewInv, UNCHANGED reviewVars, delivered' = delivered
  PROVE  ReviewInv'
BY DEF ReviewInv, ReviewTypeOK, RowInv, ReqInv, RunInv, reviewVars

-----------------------------------------------------------------------------
(* The steps of one request. *)

LEMMA InitGood == ASSUME Init PROVE ReviewInv
<1>2. Cardinality(Who({})) = 0 BY FS_EmptySet DEF Who
<1>3. Covered(0, {}) BY <1>2 DEF Covered
<1>4. verdicts = {} /\ approval.status = "pending" /\ approval.tier = 0
  BY DEF Init, ReviewInit
<1>5. ReviewTypeOK
  <2>1. approval \in Approval BY DEF Init, ReviewInit, Approval
  <2>2. ASSUME NEW p \in Reviewers PROVE Fresh(p) \in Request
    BY DEF Fresh, Request, VerdictKinds
  <2>3. req \in [Requests -> Request] BY <2>2 DEF Init, ReviewInit
  <2> QED BY <1>4, <2>1, <2>3 DEF ReviewTypeOK
<1>6. ReqInv
  <2>1. ASSUME NEW r \in Requests PROVE req[r].pc = "new" /\ req[r].verdict = "noted"
    BY DEF Init, ReviewInit, Fresh
  <2> QED BY <2>1 DEF ReqInv, Good, Active
<1>7. RunInv BY DEF Init, Agent!AgentInit, RunInv
<1> QED BY <1>3, <1>4, <1>5, <1>6, <1>7 DEF ReviewInv, RowInv

(* A step of r that changes nothing but r's own state. *)
LEMMA OwnStep ==
  ASSUME ReviewInv, NEW r \in Requests, NEW x \in Request,
         req' = [req EXCEPT ![r] = x], Good(x, verdicts),
         approval' = approval, verdicts' = verdicts, delivered' = delivered
  PROVE  ReviewInv'
<1>1. verdicts \subseteq verdicts' /\ verdicts' \subseteq VerdictRow
  BY DEF ReviewInv, ReviewTypeOK
<1>2. Good(x, verdicts') OBVIOUS
<1>3. req' \in [Requests -> Request] /\ ReqInv'
  BY <1>1, <1>2, OneRequest DEF ReviewInv
<1> QED BY <1>1, <1>3, SameRow, SameRun DEF ReviewInv, ReviewTypeOK

(* The end of a request is always good. *)
LEMMA EndGood ==
  ASSUME ReviewTypeOK, NEW r \in Requests, NEW V, NEW p \in {"done", "dead"}
  PROVE  /\ [req[r] EXCEPT !.pc = p] \in Request
         /\ Good([req[r] EXCEPT !.pc = p], V)
<1>1. req[r] \in Request BY DEF ReviewTypeOK
<1> QED BY <1>1 DEF Request, Good, Active

LEMMA ReadGood ==
  ASSUME ReviewInv, NEW r \in Requests, NEW v \in VerdictKinds, ReadApproval(r, v)
  PROVE  ReviewInv'
<1> DEFINE x == [req[r] EXCEPT !.verdict = v, !.tier = approval.tier,
                   !.pc = IF approval.status \in Terminal THEN "done"
                          ELSE IF v = "approved" THEN "vet" ELSE "record"]
<1>1. req' = [req EXCEPT ![r] = x] BY DEF ReadApproval
<1>2. approval' = approval /\ verdicts' = verdicts /\ delivered' = delivered
  BY DEF ReadApproval, agentVars
<1>3. req[r] \in Request /\ approval \in Approval BY DEF ReviewTypeOK, ReviewInv
<1>4. x \in Request /\ x.tier = approval.tier /\ x.verdict = v
        /\ x.pc \in {"done", "vet", "record"}
        /\ (x.pc \in {"vet", "record"} => approval.status = "pending")
        /\ (x.pc = "vet" <=> x.pc # "done" /\ v = "approved")
  BY <1>3 DEF Request, Approval, Terminal
<1>5. Good(x, verdicts) BY <1>4 DEF Good, Active, RowInv, ReviewInv
<1> HIDE DEF x
<1> QED BY <1>1, <1>2, <1>4, <1>5, OwnStep

(* The reviewer is not among those who have approved: they all are others.  *)
LEMMA FindGood ==
  ASSUME ReviewInv, NEW r \in Requests, FindAdvancing(r)
  PROVE  ReviewInv'
<1>0. approval' = approval /\ verdicts' = verdicts /\ delivered' = delivered
  BY DEF FindAdvancing, agentVars
<1>1. req[r] \in Request /\ Good(req[r], verdicts) BY DEF ReviewInv, ReviewTypeOK, ReqInv
<1>2. Signers = Who(verdicts) BY DEF Signers, Approvals, Who
<1>3. CASE req[r].reviewer \in Signers
  <2>1. req' = [req EXCEPT ![r] = [req[r] EXCEPT !.pc = "done"]]
    BY <1>3 DEF FindAdvancing, Goto
  <2> QED BY <1>0, <2>1, EndGood, OwnStep DEF ReviewInv
<1>4. CASE req[r].reviewer \notin Signers
  <2> DEFINE x == [req[r] EXCEPT !.pc = "record"]
  <2>1. req' = [req EXCEPT ![r] = x] BY <1>4 DEF FindAdvancing, Goto
  <2>2. x \in Request /\ x.pc = "record" /\ x.tier = req[r].tier
          /\ x.reviewer = req[r].reviewer
    BY <1>1 DEF Request
  <2>3. Who(verdicts) \ {x.reviewer} = Who(verdicts) BY <1>2, <1>4, <2>2
  <2>4. Good(x, verdicts)
    BY <1>1, <2>2, <2>3 DEF Good, Active, FindAdvancing, Covered
  <2> HIDE DEF x
  <2> QED BY <1>0, <2>1, <2>2, <2>4, OwnStep
<1> QED BY <1>3, <1>4

LEMMA RecordGood ==
  ASSUME ReviewInv, NEW r \in Requests, RecordVerdict(r)
  PROVE  ReviewInv'
<1> DEFINE v == [req |-> r, reviewer |-> req[r].reviewer,
                 tier |-> req[r].tier, verdict |-> req[r].verdict]
           last == req[r].verdict = "approved" /\ IsLast(r)
           x == [req[r] EXCEPT !.pc = IF last THEN "run" ELSE "apply"]
<1>1. req[r] \in Request /\ Good(req[r], verdicts) /\ req[r].pc = "record"
        /\ verdicts \subseteq VerdictRow
  BY DEF ReviewInv, ReviewTypeOK, ReqInv, RecordVerdict
<1>2. req' = [req EXCEPT ![r] = x] /\ verdicts' = verdicts \cup {v}
        /\ approval' = approval /\ delivered' = delivered
  BY DEF RecordVerdict, Goto, agentVars
<1>3. v \in VerdictRow /\ v.tier = req[r].tier /\ v.reviewer = req[r].reviewer
        /\ v.verdict = req[r].verdict
  BY <1>1 DEF VerdictRow, Request
<1>4. verdicts \subseteq verdicts' /\ verdicts' \subseteq VerdictRow BY <1>1, <1>2, <1>3
<1>5. x \in Request /\ x.tier = req[r].tier /\ x.verdict = req[r].verdict
        /\ x.pc = (IF last THEN "run" ELSE "apply")
  BY <1>1 DEF Request
<1>6. req[r].tier \in Nat /\ req[r].tier < NTiers /\ Covered(req[r].tier, verdicts)
  BY <1>1 DEF Good, Active, Request
<1>7. Covered(x.tier, verdicts') BY <1>4, <1>5, <1>6, CoveredGrows
<1>8. x.verdict = "approved" => Covered(x.tier + 1, verdicts')
  <2>1. ASSUME req[r].verdict = "approved"
        PROVE  Covered(v.tier + 1, verdicts \cup {v})
    <3>1. Cardinality(Who(verdicts) \ {v.reviewer}) >= v.tier
      BY <1>1, <1>3, <2>1 DEF Good
    <3>2. Covered(v.tier, verdicts) BY <1>3, <1>6
    <3>3. v.verdict = "approved" BY <1>3, <2>1
    <3> HIDE DEF v
    <3> QED BY <1>1, <1>3, <3>1, <3>2, <3>3, RecordCovers
  <2> QED BY <1>2, <1>3, <1>5, <2>1
<1>9. Good(x, verdicts')
  BY <1>5, <1>6, <1>7, <1>8 DEF Good, Active, IsLast
<1> HIDE DEF x, v
<1>10. req' \in [Requests -> Request] /\ ReqInv'
  BY <1>2, <1>4, <1>5, <1>9, OneRequest DEF ReviewInv
<1>11. verdicts' \in SUBSET VerdictRow BY <1>4
<1> QED BY <1>2, <1>4, <1>10, <1>11, SameRow, SameRun DEF ReviewInv, ReviewTypeOK

(* A step of r that ends it, rewrites the row and reads no more. *)
LEMMA WriteRow ==
  ASSUME ReviewInv, NEW r \in Requests, Goto(r, "done"),
         verdicts' = verdicts, delivered' = delivered,
         approval' \in Approval, RowInv'
  PROVE  ReviewInv'
<1>1. verdicts \subseteq verdicts' /\ verdicts' \subseteq VerdictRow
  BY DEF ReviewInv, ReviewTypeOK
<1> DEFINE x == [req[r] EXCEPT !.pc = "done"]
<1>2. req' = [req EXCEPT ![r] = x] BY DEF Goto
<1>3. x \in Request /\ Good(x, verdicts') BY EndGood DEF ReviewInv
<1> HIDE DEF x
<1>4. req' \in [Requests -> Request] /\ ReqInv'
  BY <1>1, <1>2, <1>3, OneRequest DEF ReviewInv
<1> QED BY <1>1, <1>4, SameRun DEF ReviewInv, ReviewTypeOK

LEMMA RejectGood ==
  ASSUME ReviewInv, NEW r \in Requests, SaveRejection(r)
  PROVE  ReviewInv'
<1>1. approval \in Approval /\ RowInv BY DEF ReviewInv, ReviewTypeOK
<1>2. Goto(r, "done") /\ verdicts' = verdicts /\ delivered' = delivered
  BY DEF SaveRejection, agentVars
<1>3. approval' \in Approval /\ approval'.status = "rejected"
        /\ approval'.tier = approval.tier
  BY <1>1 DEF SaveRejection, Approval
<1>4. RowInv' BY <1>1, <1>2, <1>3 DEF RowInv
<1> QED BY <1>2, <1>3, <1>4, WriteRow

LEMMA AdvanceGood ==
  ASSUME ReviewInv, NEW r \in Requests, AdvanceTier(r)
  PROVE  ReviewInv'
<1>1. approval \in Approval /\ RowInv /\ req[r] \in Request /\ Good(req[r], verdicts)
  BY DEF ReviewInv, ReviewTypeOK, ReqInv
<1>2. Goto(r, "done") /\ verdicts' = verdicts /\ delivered' = delivered
  BY DEF AdvanceTier, agentVars
<1>3. req[r].tier \in Nat /\ req[r].tier + 1 < NTiers /\ Covered(req[r].tier + 1, verdicts)
  BY <1>1 DEF AdvanceTier, Good, Request
<1>4. approval' \in Approval /\ approval'.status = approval.status
        /\ approval'.tier = req[r].tier + 1
  BY SMTT(30), <1>1, <1>3 DEF AdvanceTier, Approval
<1>5. RowInv' BY <1>1, <1>2, <1>3, <1>4 DEF RowInv
<1> QED BY <1>2, <1>4, <1>5, WriteRow

LEMMA ApproveGood ==
  ASSUME ReviewInv, NEW r \in Requests, SaveApproval(r)
  PROVE  ReviewInv'
<1>1. req[r] \in Request /\ Good(req[r], verdicts) /\ req[r].pc = "run"
  BY DEF ReviewInv, ReviewTypeOK, ReqInv, SaveApproval
<1>2. Goto(r, "done") /\ verdicts' = verdicts /\ delivered' = delivered
  BY DEF SaveApproval, agentVars
<1>3. req[r].tier + 1 = NTiers /\ Covered(NTiers, verdicts) BY <1>1 DEF Good
<1>4. approval' \in Approval /\ approval'.status = "approved" /\ approval'.tier = NTiers
  BY <1>1, <1>3 DEF SaveApproval, Approval, Request
<1>5. RowInv' BY <1>2, <1>3, <1>4 DEF RowInv
<1> QED BY <1>2, <1>4, <1>5, WriteRow

(* One of the withheld steps has been dealt with. *)
LEMMA NextStepGood ==
  ASSUME ReviewInv, NEW r \in Requests, Collect(r) \/ SkipUnregistered(r)
  PROVE  ReviewInv'
<1>1. req[r] \in Request /\ Good(req[r], verdicts) /\ AtStep(r)
  BY DEF ReviewInv, ReviewTypeOK, ReqInv, Collect, SkipUnregistered
<1>2. approval' = approval /\ verdicts' = verdicts /\ delivered' = delivered
  BY DEF Collect, SkipUnregistered, agentVars, Agent!Return
<1>3. StepOf(r) \in StepSet /\ Len(Steps) \in Nat
  BY SMTT(30), <1>1 DEF AtStep, StepOf, StepSet, Request
<1>4. PICK E, S \in SUBSET StepSet :
        req' = [req EXCEPT ![r].pos = @ + 1, ![r].executed = E, ![r].skipped = S]
  <2>1. CASE Collect(r)
    <3> DEFINE ok == call[r].status = "SUCCESS"
               E == req[r].executed \cup (IF ok THEN {StepOf(r)} ELSE {})
               S == req[r].skipped \cup (IF ok THEN {} ELSE {StepOf(r)})
    <3>1. E \in SUBSET StepSet /\ S \in SUBSET StepSet BY <1>1, <1>3 DEF Request
    <3>2. req' = [req EXCEPT ![r].pos = @ + 1, ![r].executed = E, ![r].skipped = S]
      BY <2>1 DEF Collect
    <3> QED BY <3>1, <3>2
  <2>2. CASE SkipUnregistered(r)
    <3> DEFINE E == req[r].executed
               S == req[r].skipped \cup {StepOf(r)}
    <3>1. E \in SUBSET StepSet /\ S \in SUBSET StepSet BY <1>1, <1>3 DEF Request
    <3>2. req' = [req EXCEPT ![r].pos = @ + 1, ![r].executed = E, ![r].skipped = S]
      BY <2>2 DEF SkipUnregistered
    <3> QED BY <3>1, <3>2
  <2> QED BY <2>1, <2>2
<1> DEFINE x == [req[r] EXCEPT !.pos = @ + 1, !.executed = E, !.skipped = S]
<1>5. req' = [req EXCEPT ![r] = x] BY <1>4
<1>6. req[r].pos + 1 \in 1..(Len(Steps) + 1) BY <1>1, <1>3 DEF AtStep, Request
<1>7. x \in Request BY <1>1, <1>6 DEF Request
<1>8. x.pc = req[r].pc /\ x.verdict = req[r].verdict
        /\ x.tier = req[r].tier /\ x.reviewer = req[r].reviewer
  BY <1>1 DEF Request
<1>9. Good(x, verdicts) BY <1>1, <1>8 DEF Good
<1> HIDE DEF x
<1> QED BY <1>2, <1>5, <1>7, <1>9, OwnStep

-----------------------------------------------------------------------------
(* The agent delivers an effect only on behalf of a request that has been   *)
(* allowed to run the steps.                                                *)
LEMMA AgentStepGood ==
  ASSUME ReviewInv, NEW r \in Requests, AgentStep(r)
  PROVE  ReviewInv'
<1>1. UNCHANGED reviewVars BY DEF AgentStep
<1>2. Good(req[r], verdicts) /\ req[r].pc = "run" /\ req[r] \in Request
  BY DEF ReviewInv, ReqInv, ReviewTypeOK, AgentStep
<1>3. Covered(NTiers, verdicts) BY <1>2 DEF Good
<1> QED BY <1>1, <1>3
       DEF ReviewInv, ReviewTypeOK, RowInv, ReqInv, RunInv, reviewVars

(* A request ends without writing anything. *)
LEMMA EndsGood ==
  ASSUME ReviewInv, NEW r \in Requests, NoteOnly(r) \/ DatabaseError(r)
  PROVE  ReviewInv'
<1>0. PICK p \in {"done", "dead"} : Goto(r, p)
  BY DEF NoteOnly, DatabaseError
<1> DEFINE x == [req[r] EXCEPT !.pc = p]
<1>1. req' = [req EXCEPT ![r] = x] /\ approval' = approval
        /\ verdicts' = verdicts /\ delivered' = delivered
  BY <1>0 DEF NoteOnly, DatabaseError, Goto, agentVars
<1>2. x \in Request /\ Good(x, verdicts) BY EndGood DEF ReviewInv
<1> HIDE DEF x
<1> QED BY <1>1, <1>2, OwnStep

LEMMA RestartGood ==
  ASSUME ReviewInv, NEW h \in Hosts, Restart(h)
  PROVE  ReviewInv'
<1>1. approval' = approval /\ verdicts' = verdicts /\ delivered' = delivered
  BY DEF Restart, Agent!AgentRestart
<1>2. ASSUME NEW r \in Requests
      PROVE  req'[r] \in Request /\ Good(req'[r], verdicts')
  <2>1. CASE req'[r] = req[r] BY <1>1, <2>1 DEF ReviewInv, ReqInv, ReviewTypeOK
  <2>2. CASE req'[r] = [req[r] EXCEPT !.pc = "dead"]
    BY ZenonT(60), <2>2, EndGood DEF ReviewInv
  <2> QED BY <2>1, <2>2 DEF Restart
<1>3. req' \in [Requests -> Request] BY <1>2 DEF Restart
<1> QED BY <1>1, <1>2, <1>3 DEF ReviewInv, ReviewTypeOK, RowInv, ReqInv, RunInv

LEMMA StepGood == ReviewInv /\ [Next]_vars => ReviewInv'
<1> SUFFICES ASSUME ReviewInv, [Next]_vars PROVE ReviewInv'
  OBVIOUS
<1>1. ASSUME NEW r \in Requests, Arrive(r) PROVE ReviewInv'
  BY <1>1, ReadGood DEF Arrive
<1>2. ASSUME NEW r \in Requests, CallAgent(r) PROVE ReviewInv'
  <2>1. UNCHANGED reviewVars /\ delivered' = delivered
    BY <1>2 DEF CallAgent, Agent!Admit, Agent!Refuse
  <2> QED BY <2>1, SameAll
<1>3. ASSUME NEW r \in Requests, RequestStep(r) PROVE ReviewInv'
  BY <1>2, <1>3, FindGood, RecordGood, RejectGood, EndsGood, AdvanceGood,
     AgentStepGood, NextStepGood, ApproveGood DEF RequestStep
<1>4. ASSUME NEW r \in Requests, DatabaseError(r) PROVE ReviewInv'
  BY <1>4, EndsGood
<1>5. ASSUME NEW h \in Hosts, Restart(h) PROVE ReviewInv'
  BY <1>5, RestartGood
<1>6. CASE Environment
  <2>1. UNCHANGED reviewVars /\ delivered' = delivered
    BY <1>6 DEF Environment, Agent!Environment, Agent!CooldownElapses,
                Agent!RedisFails, Agent!RedisReturns, Agent!Expire
  <2> QED BY <2>1, SameAll
<1>7. CASE UNCHANGED vars
  BY <1>7, SameAll DEF vars, reviewVars
<1> QED BY <1>1, <1>3, <1>4, <1>5, <1>6, <1>7 DEF Next

(* The invariant holds in every reachable state. *)
LEMMA ReviewInvariant == Spec => []ReviewInv
BY InitGood, StepGood, PTL DEF Spec

(* Whatever the number of tiers, people, requests and hosts, however the    *)
(* requests interleave and whichever of them die: the withheld steps are    *)
(* released only after as many different people as there are tiers have     *)
(* approved.                                                                *)
THEOREM PeopleRule == Spec => []DistinctApprovers
<1>1. ReviewInv => DistinctApprovers
  <2> SUFFICES ASSUME ReviewInv, Released
               PROVE  Covered(NTiers, verdicts) /\ Signers = Who(verdicts)
    BY DEF DistinctApprovers, Covered
  <2>1. Signers = Who(verdicts) BY DEF Signers, Approvals, Who
  <2>2. ASSUME NEW r \in Requests, req[r].pc = "run" PROVE Covered(NTiers, verdicts)
    BY <2>2 DEF ReviewInv, ReviewTypeOK, ReqInv, Good, Request
  <2> QED BY <2>1, <2>2 DEF Released, ReviewInv, RowInv, RunInv
<1> QED BY <1>1, ReviewInvariant, PTL

(* Every tier that counts as passed has an approval recorded at that tier.  *)
THEOREM TierRule == Spec => []EveryTierSigned
<1>1. ReviewInv => EveryTierSigned
  <2> SUFFICES ASSUME ReviewInv PROVE EveryTierSigned
    OBVIOUS
  <2>1. ASSUME NEW n \in Nat, Covered(n, verdicts), NEW t \in 0..NTiers - 1, t < n
        PROVE  SignedAt(t)
    BY <2>1 DEF Covered, SignedAt, Approvals
  <2>2. ASSUME NEW r \in Requests, req[r].pc = "run" PROVE Covered(NTiers, verdicts)
    BY <2>2 DEF ReviewInv, ReviewTypeOK, ReqInv, Good, Request
  <2>3. Released => Covered(NTiers, verdicts)
    BY <2>2 DEF Released, ReviewInv, RowInv, RunInv
  <2>4. Covered(approval.tier, verdicts) /\ approval.tier \in Nat
    BY DEF ReviewInv, RowInv, ReviewTypeOK, Approval
  <2> QED BY <2>1, <2>3, <2>4 DEF EveryTierSigned
<1> QED BY <1>1, ReviewInvariant, PTL

(* No late request reopens a chain that has ended. *)
THEOREM EndIsEnd == Spec => NeverReopened
<1>1. ReviewInv /\ [Next]_vars =>
        [approval.status \in Terminal => approval'.status \in Terminal]_vars
  <2> SUFFICES ASSUME ReviewInv, Next, approval.status \in Terminal
               PROVE  approval'.status \in Terminal
    OBVIOUS
  <2>1. approval \in Approval BY DEF ReviewInv, ReviewTypeOK
  <2>2. CASE approval' = approval BY <2>2
  <2>3. CASE \E r \in Requests : SaveRejection(r) \/ AdvanceTier(r) \/ SaveApproval(r)
    <3>1. CASE \E r \in Requests : SaveRejection(r)
      BY <2>1, <3>1 DEF SaveRejection, Approval, Terminal
    <3>2. CASE \E r \in Requests : AdvanceTier(r)
      <4>1. approval'.status = approval.status
        BY <2>1, <3>2 DEF AdvanceTier, Approval
      <4> QED BY <4>1
    <3>3. CASE \E r \in Requests : SaveApproval(r)
      BY <3>3 DEF SaveApproval, Terminal
    <3> QED BY <2>3, <3>1, <3>2, <3>3
  <2> QED BY <2>2, <2>3
       DEF Next, Arrive, RequestStep, ReadApproval, FindAdvancing, RecordVerdict,
           NoteOnly, CallAgent, AgentStep, Collect, SkipUnregistered,
           DatabaseError, Restart, Environment, reviewVars
<1> QED BY <1>1, ReviewInvariant, PTL DEF Spec, NeverReopened

-----------------------------------------------------------------------------
(* The review as its agent sees it. *)

AP == INSTANCE ActionAgentProofs WITH Callers <- Requests, Keys <- ActionKeys,
                                      MaxCalls <- Len(Steps)

(* A request calls the agent for the step it is at, once; before it runs    *)
(* the steps it has not called at all.                                      *)
CallOK(r) ==
  /\ req[r].pc \in {"new", "vet", "record", "apply"} =>
       req[r].pos = 1 /\ call[r].pc = "idle" /\ call[r].used = 0
  /\ req[r].pc = "run" /\ call[r].pc = "idle" => call[r].used <= req[r].pos - 1
  /\ req[r].pc = "run" /\ call[r].pc # "idle" =>
       AtStep(r) /\ call[r].key = StepOf(r) /\ call[r].used <= req[r].pos

CallsInv == \A r \in Requests : CallOK(r)

-----------------------------------------------------------------------------
(* The agent's actions are the same whichever way it is instantiated.       *)

LEMMA SameConstants == AP!AgentConstants
BY AgentConstants DEF Agent!AgentConstants, AP!AgentConstants

LEMMA SameInit == Agent!AgentInit <=> AP!AgentInit
BY DEF Agent!AgentInit, AP!AgentInit, Agent!FreshBreaker, AP!FreshBreaker,
       Agent!NoCall, AP!NoCall

LEMMA SameCall ==
  ASSUME NEW r \in Requests, NEW k \in ActionKeys
  PROVE  /\ Agent!Admit(r, k) => AP!Admit(r, k)
         /\ Agent!Refuse(r, k) => AP!Refuse(r, k)
         /\ Agent!Return(r) => AP!Return(r)
<1>1. Agent!Admit(r, k) => AP!Admit(r, k)
  BY DEF Agent!Admit, AP!Admit, Agent!BreakerOf, AP!BreakerOf,
         Agent!Allows, AP!Allows, Agent!AfterAllow, AP!AfterAllow
<1>2. Agent!Refuse(r, k) => AP!Refuse(r, k)
  BY DEF Agent!Refuse, AP!Refuse, Agent!BreakerOf, AP!BreakerOf,
         Agent!Allows, AP!Allows
<1>3. Agent!Return(r) => AP!Return(r)
  BY DEF Agent!Return, AP!Return, Agent!NoCall, AP!NoCall
<1> QED BY <1>1, <1>2, <1>3

LEMMA SameCallStep ==
  ASSUME NEW r \in Requests
  PROVE  Agent!CallStep(r) => AP!CallStep(r)
<1>1. Agent!Duplicate(r) => AP!Duplicate(r)
  BY DEF Agent!Duplicate, AP!Duplicate, Agent!Recorded, AP!Recorded
<1>2. Agent!Proceed(r) => AP!Proceed(r)
  BY DEF Agent!Proceed, AP!Proceed, Agent!Recorded, AP!Recorded,
         Agent!Overlaps, AP!Overlaps, Agent!InFlight, AP!InFlight
<1>3. Agent!Settle(r) => AP!Settle(r)
  BY DEF Agent!Settle, AP!Settle, Agent!BreakerOf, AP!BreakerOf,
         Agent!AfterSuccess, AP!AfterSuccess, Agent!AfterFailure, AP!AfterFailure,
         Agent!Trips, AP!Trips
<1>4. Agent!Store(r) => AP!Store(r)
  BY DEF Agent!Store, AP!Store
<1>5. Agent!AttemptSucceeds(r) => AP!AttemptSucceeds(r)
  BY DEF Agent!AttemptSucceeds, AP!AttemptSucceeds
<1>6. Agent!AttemptInvalid(r) => AP!AttemptInvalid(r)
  BY DEF Agent!AttemptInvalid, AP!AttemptInvalid
<1>7. ASSUME NEW lost \in BOOLEAN, Agent!AttemptRaises(r, lost)
      PROVE  AP!AttemptRaises(r, lost)
  BY <1>7 DEF Agent!AttemptRaises, AP!AttemptRaises
<1> QED BY <1>1, <1>2, <1>3, <1>4, <1>5, <1>6, <1>7 DEF Agent!CallStep, AP!CallStep

LEMMA SameRestart ==
  ASSUME NEW h \in Hosts
  PROVE  Agent!AgentRestart(h) => AP!AgentRestart(h)
BY DEF Agent!AgentRestart, AP!AgentRestart, Agent!Fault, AP!Fault,
       Agent!Orphaned, AP!Orphaned, Agent!InFlight, AP!InFlight,
       Agent!NoCall, AP!NoCall, Agent!FreshBreaker, AP!FreshBreaker

LEMMA SameEnvironment == Agent!Environment => AP!Environment
<1>1. ASSUME NEW b \in Hosts \X Types, Agent!CooldownElapses(b)
      PROVE  AP!CooldownElapses(b)
  BY <1>1 DEF Agent!CooldownElapses, AP!CooldownElapses
<1>2. Agent!RedisFails => AP!RedisFails
  BY DEF Agent!RedisFails, AP!RedisFails, Agent!Fault, AP!Fault
<1>3. Agent!RedisReturns => AP!RedisReturns
  BY DEF Agent!RedisReturns, AP!RedisReturns
<1>4. ASSUME NEW k \in ActionKeys, Agent!Expire(k)
      PROVE  AP!Expire(k)
  BY <1>4 DEF Agent!Expire, AP!Expire, Agent!Fault, AP!Fault
<1> QED BY <1>1, <1>2, <1>3, <1>4 DEF Agent!Environment, AP!Environment

LEMMA SameTypes == Agent!AgentTypeOK <=> AP!AgentTypeOK
BY DEF Agent!AgentTypeOK, AP!AgentTypeOK, Agent!Breaker, AP!Breaker,
       Agent!Call, AP!Call, Agent!CallRecord, AP!CallRecord,
       Agent!Statuses, AP!Statuses, Agent!Results, AP!Results,
       Agent!Causes, AP!Causes

-----------------------------------------------------------------------------
(* What a step of the agent does to the state of its calls. *)

LEMMA CallTyped ==
  ASSUME Agent!AgentTypeOK, NEW r \in Requests
  PROVE  /\ call \in [Requests -> Agent!CallRecord]
         /\ call[r].used \in Nat
BY DEF Agent!AgentTypeOK, Agent!Call, Agent!CallRecord

LEMMA AdmitShape ==
  ASSUME Agent!AgentTypeOK, NEW r \in Requests, NEW k \in ActionKeys,
         Agent!Admit(r, k) \/ Agent!Refuse(r, k)
  PROVE  /\ \A q \in Requests \ {r} : call'[q] = call[q]
         /\ call[r].pc = "idle" /\ call'[r].pc # "idle"
         /\ call'[r].key = k /\ call'[r].used = call[r].used + 1
BY CallTyped DEF Agent!Admit, Agent!Refuse

LEMMA StepShape ==
  ASSUME Agent!AgentTypeOK, NEW r \in Requests, Agent!CallStep(r)
  PROVE  /\ \A q \in Requests \ {r} : call'[q] = call[q]
         /\ call[r].pc # "idle" /\ call'[r].pc # "idle"
         /\ call'[r].key = call[r].key /\ call'[r].used = call[r].used
<1>0. call \in [Requests -> Agent!CallRecord] BY CallTyped
<1>1. CASE Agent!Duplicate(r) \/ Agent!Proceed(r) \/ Agent!Settle(r) \/ Agent!Store(r)
  BY <1>0, <1>1 DEF Agent!Duplicate, Agent!Proceed, Agent!Settle, Agent!Store,
                    Agent!CallRecord
<1>2. CASE Agent!AttemptSucceeds(r) \/ Agent!AttemptInvalid(r)
  BY <1>0, <1>2 DEF Agent!AttemptSucceeds, Agent!AttemptInvalid, Agent!CallRecord
<1>3. ASSUME NEW lost \in BOOLEAN, Agent!AttemptRaises(r, lost)
      PROVE  /\ \A q \in Requests \ {r} : call'[q] = call[q]
             /\ call[r].pc # "idle" /\ call'[r].pc # "idle"
             /\ call'[r].key = call[r].key /\ call'[r].used = call[r].used
  BY <1>0, <1>3 DEF Agent!AttemptRaises, Agent!CallRecord
<1> QED BY <1>1, <1>2, <1>3 DEF Agent!CallStep

LEMMA ReturnShape ==
  ASSUME Agent!AgentTypeOK, NEW r \in Requests, Agent!Return(r)
  PROVE  /\ \A q \in Requests \ {r} : call'[q] = call[q]
         /\ call'[r].pc = "idle" /\ call'[r].used = call[r].used
BY CallTyped DEF Agent!Return, Agent!NoCall, Agent!CallRecord

-----------------------------------------------------------------------------
(* The invariant, and the refinement. *)

(* A step of request r that leaves all calls alone and takes r from one     *)
(* state before the steps to another, or to its end.                        *)
LEMMA NoCallStep ==
  ASSUME CallsInv, ReviewTypeOK, NEW r \in Requests, call' = call, NEW p,
         req' = [req EXCEPT ![r].pc = p],
         \/ p \in {"done", "dead"}
         \/ /\ req[r].pc \in {"new", "vet", "record", "apply"}
            /\ p \in {"vet", "record", "apply", "run"}
  PROVE  CallsInv'
<1> SUFFICES ASSUME NEW q \in Requests
             PROVE  CallOK(q)'
  BY DEF CallsInv
<1>1. CallOK(q) /\ req[q] \in Request BY DEF CallsInv, ReviewTypeOK
<1>2. CASE q # r
  <2>1. req'[q] = req[q] BY <1>2 DEF ReviewTypeOK
  <2> QED BY <1>1, <2>1 DEF CallOK, AtStep, StepOf
<1>3. CASE q = r
  <2>1. req'[q] = [req[q] EXCEPT !.pc = p] BY <1>3 DEF ReviewTypeOK
  <2>2. req'[q].pc = p /\ req'[q].pos = req[q].pos BY <1>1, <2>1 DEF Request
  <2> QED BY <1>1, <1>3, <2>2 DEF CallOK
<1> QED BY <1>2, <1>3

(* A step of request r that leaves the others and their calls alone. *)
LEMMA OthersOK ==
  ASSUME CallsInv, ReviewTypeOK, NEW r \in Requests, CallOK(r)',
         \A q \in Requests \ {r} : call'[q] = call[q] /\ req'[q] = req[q]
  PROVE  CallsInv'
<1> SUFFICES ASSUME NEW q \in Requests \ {r} PROVE CallOK(q)'
  BY DEF CallsInv
<1>1. call'[q] = call[q] /\ req'[q] = req[q] /\ CallOK(q) BY DEF CallsInv
<1> QED BY <1>1 DEF CallOK, AtStep, StepOf

LEMMA AgentCallOK ==
  ASSUME CallsInv, ReviewTypeOK, Agent!AgentTypeOK, NEW r \in Requests,
         CallAgent(r) \/ AgentStep(r) \/ Collect(r) \/ SkipUnregistered(r)
  PROVE  CallsInv'
<1>0. req[r] \in Request /\ CallOK(r) /\ call[r].used \in Nat /\ req[r].pos \in Nat
  BY CallTyped DEF CallsInv, ReviewTypeOK, Request
<1>1. CASE CallAgent(r)
  <2>1. StepOf(r) \in ActionKeys /\ AtStep(r)
    BY <1>0, <1>1 DEF CallAgent, AtStep, StepOf, ActionKeys, StepSet, Request
  <2>2. req' = req BY <1>1 DEF CallAgent, reviewVars
  <2>3. /\ \A q \in Requests \ {r} : call'[q] = call[q]
        /\ call[r].pc = "idle" /\ call'[r].pc # "idle"
        /\ call'[r].key = StepOf(r) /\ call'[r].used = call[r].used + 1
    BY <1>1, <2>1, AdmitShape DEF CallAgent
  <2>4. CallOK(r)' BY <1>0, <2>1, <2>2, <2>3 DEF CallOK, AtStep, StepOf
  <2> QED BY <2>2, <2>3, <2>4, OthersOK
<1>2. CASE AgentStep(r)
  <2>1. req' = req BY <1>2 DEF AgentStep, reviewVars
  <2>2. /\ \A q \in Requests \ {r} : call'[q] = call[q]
        /\ call[r].pc # "idle" /\ call'[r].pc # "idle"
        /\ call'[r].key = call[r].key /\ call'[r].used = call[r].used
    BY <1>2, StepShape DEF AgentStep
  <2>3. CallOK(r)' BY <1>0, <1>2, <2>1, <2>2 DEF CallOK, AtStep, StepOf, AgentStep
  <2> QED BY <2>1, <2>2, <2>3, OthersOK
<1>3. CASE Collect(r)
  <2>1. /\ \A q \in Requests \ {r} : call'[q] = call[q]
        /\ call'[r].pc = "idle" /\ call'[r].used = call[r].used
        /\ call[r].pc # "idle"
    BY <1>3, ReturnShape DEF Collect, Agent!Return
  <2>2. /\ \A q \in Requests \ {r} : req'[q] = req[q]
        /\ req'[r].pos = req[r].pos + 1 /\ req'[r].pc = "run"
    BY <1>0, <1>3 DEF Collect, ReviewTypeOK, Request, AtStep
  <2>3. call[r].used <= req[r].pos BY <1>0, <1>3, <2>1 DEF CallOK, Collect, AtStep
  <2>4. CallOK(r)' BY <1>0, <2>1, <2>2, <2>3 DEF CallOK
  <2> QED BY <2>1, <2>2, <2>4, OthersOK
<1>4. CASE SkipUnregistered(r)
  <2>1. call' = call BY <1>4 DEF SkipUnregistered, agentVars
  <2>2. /\ \A q \in Requests \ {r} : req'[q] = req[q]
        /\ req'[r].pos = req[r].pos + 1 /\ req'[r].pc = "run"
    BY <1>0, <1>4 DEF SkipUnregistered, ReviewTypeOK, Request, AtStep
  <2>3. call[r].pc = "idle"
    <3>1. call[r].pc # "idle" => call[r].key \in ActionKeys
      BY DEF Agent!AgentTypeOK, Agent!Call
    <3> QED BY <1>0, <1>4, <3>1 DEF CallOK, SkipUnregistered, AtStep, ActionKeys
  <2>4. CallOK(r)' BY <1>0, <1>4, <2>1, <2>2, <2>3 DEF CallOK, SkipUnregistered, AtStep
  <2> QED BY <2>1, <2>2, <2>4, OthersOK
<1> QED BY <1>1, <1>2, <1>3, <1>4

LEMMA CallsStep ==
  ReviewInv /\ Agent!AgentTypeOK /\ CallsInv /\ [Next]_vars => CallsInv'
<1> SUFFICES ASSUME ReviewInv, Agent!AgentTypeOK, CallsInv, [Next]_vars
             PROVE  CallsInv'
  OBVIOUS
<1>0. ReviewTypeOK BY DEF ReviewInv
<1>1. ASSUME NEW r \in Requests, NEW v \in VerdictKinds, ReadApproval(r, v)
      PROVE  CallsInv'
  <2>1. call' = call /\ \A q \in Requests \ {r} : req'[q] = req[q]
    BY <1>0, <1>1 DEF ReadApproval, agentVars, ReviewTypeOK
  <2>2. req[r] \in Request /\ CallOK(r) BY <1>0 DEF CallsInv, ReviewTypeOK
  <2>3. req'[r].pos = req[r].pos /\ req'[r].pc \in {"done", "vet", "record"}
    BY <1>0, <1>1, <2>2 DEF ReadApproval, ReviewTypeOK, Request
  <2>4. CallOK(r)' BY <1>1, <2>1, <2>2, <2>3 DEF CallOK, ReadApproval
  <2> QED BY <1>0, <2>1, <2>4, OthersOK
<1>2. ASSUME NEW r \in Requests,
             \/ FindAdvancing(r) \/ RecordVerdict(r) \/ SaveRejection(r)
             \/ NoteOnly(r) \/ AdvanceTier(r) \/ SaveApproval(r) \/ DatabaseError(r)
      PROVE  CallsInv'
  <2>1. call' = call
    BY <1>2 DEF FindAdvancing, RecordVerdict, SaveRejection, NoteOnly, AdvanceTier,
                SaveApproval, DatabaseError, agentVars
  <2>2. CASE FindAdvancing(r) \/ RecordVerdict(r)
    <3>1. PICK p \in {"done", "record", "run", "apply"} : req' = [req EXCEPT ![r].pc = p]
      BY <2>2 DEF FindAdvancing, RecordVerdict, Goto
    <3>2. req[r].pc \in {"vet", "record"} BY <2>2 DEF FindAdvancing, RecordVerdict
    <3> QED BY <1>0, <2>1, <3>1, <3>2, NoCallStep
  <2>3. CASE \/ SaveRejection(r) \/ NoteOnly(r) \/ AdvanceTier(r)
             \/ SaveApproval(r) \/ DatabaseError(r)
    <3>1. PICK p \in {"done", "dead"} : req' = [req EXCEPT ![r].pc = p]
      BY <2>3 DEF SaveRejection, NoteOnly, AdvanceTier, SaveApproval, DatabaseError, Goto
    <3> QED BY <1>0, <2>1, <3>1, NoCallStep
  <2> QED BY <1>2, <2>2, <2>3
<1>3. ASSUME NEW r \in Requests,
             CallAgent(r) \/ AgentStep(r) \/ Collect(r) \/ SkipUnregistered(r)
      PROVE  CallsInv'
  BY <1>0, <1>3, AgentCallOK
<1>4. ASSUME NEW h \in Hosts, Restart(h) PROVE CallsInv'
  <2> SUFFICES ASSUME NEW r \in Requests PROVE CallOK(r)'
    BY DEF CallsInv
  <2>1. req[r] \in Request /\ CallOK(r) BY <1>0 DEF CallsInv, ReviewTypeOK
  <2>2. CASE HostOf[r] # h
    <3>1. call'[r] = call[r] /\ req'[r] = req[r]
      BY <1>4, <2>2 DEF Restart, Agent!AgentRestart
    <3> QED BY <2>1, <3>1 DEF CallOK, AtStep, StepOf
  <2>3. CASE HostOf[r] = h
    <3>1. call'[r] = [Agent!NoCall EXCEPT !.used = call[r].used]
      BY <1>4, <2>3 DEF Restart, Agent!AgentRestart
    <3>2. call'[r].pc = "idle" /\ call'[r].used = call[r].used
      BY <3>1 DEF Agent!NoCall
    <3>3. CASE req[r].pc = "new"
      <4>1. req'[r] = req[r] BY <1>4, <3>3 DEF Restart
      <4> QED BY <2>1, <3>2, <3>3, <4>1 DEF CallOK
    <3>4. CASE req[r].pc # "new"
      <4>1. req'[r] = [req[r] EXCEPT !.pc = "dead"] BY <1>4, <2>3, <3>4 DEF Restart
      <4>2. req'[r].pc = "dead" BY <2>1, <4>1 DEF Request
      <4> QED BY <4>2 DEF CallOK
    <3> QED BY <3>3, <3>4
  <2> QED BY <2>2, <2>3
<1>5. CASE Environment \/ UNCHANGED vars
  <2>1. call' = call /\ req' = req
    BY <1>5 DEF Environment, vars, reviewVars, Agent!Environment,
                Agent!CooldownElapses, Agent!RedisFails, Agent!RedisReturns, Agent!Expire
  <2> QED BY <2>1 DEF CallsInv, CallOK, AtStep, StepOf
<1> QED BY <1>1, <1>2, <1>3, <1>4, <1>5 DEF Next, Arrive, RequestStep

(* Every step of the review is a step of the agent alone, or leaves it be.  *)
LEMMA AgentRefinedStep ==
  ReviewInv /\ Agent!AgentTypeOK /\ CallsInv /\ [Next]_vars
    => [AP!AgentNext]_AP!agentVars
<1> SUFFICES ASSUME ReviewInv, Agent!AgentTypeOK, CallsInv, [Next]_vars
             PROVE  AP!AgentNext \/ UNCHANGED AP!agentVars
  OBVIOUS
<1>1. ASSUME NEW r \in Requests, CallAgent(r) PROVE AP!AgentNext
  <2>1. req[r] \in Request /\ CallOK(r) /\ call[r].used \in Nat
    BY CallTyped DEF CallsInv, ReviewTypeOK, ReviewInv
  <2>2. StepOf(r) \in ActionKeys /\ req[r].pos <= Len(Steps) /\ req[r].pc = "run"
    BY <1>1, <2>1 DEF CallAgent, AtStep, StepOf, ActionKeys, StepSet, Request
  <2>3. call[r].pc = "idle"
    BY <1>1 DEF CallAgent, Agent!Admit, Agent!Refuse
  <2>4. call[r].used < Len(Steps)
    <3>1. Len(Steps) \in Nat /\ req[r].pos \in Nat BY <2>1 DEF Request
    <3> QED BY <2>1, <2>2, <2>3, <3>1 DEF CallOK
  <2> QED BY <1>1, <2>2, <2>4, SameCall DEF CallAgent, AP!AgentNext
<1>2. ASSUME NEW r \in Requests, AgentStep(r) PROVE AP!AgentNext
  BY <1>2, SameCallStep DEF AgentStep, AP!AgentNext
<1>3. ASSUME NEW r \in Requests, Collect(r) PROVE AP!AgentNext
  <2>1. AP!Return(r)
    BY <1>3 DEF Collect, Agent!Return, AP!Return, Agent!NoCall, AP!NoCall
  <2> QED BY <2>1 DEF AP!AgentNext
<1>4. ASSUME NEW h \in Hosts, Restart(h) PROVE AP!AgentNext
  BY <1>4, SameRestart DEF Restart, AP!AgentNext
<1>5. CASE Environment
  BY <1>5, SameEnvironment DEF Environment, AP!AgentNext
<1>6. ASSUME UNCHANGED agentVars PROVE UNCHANGED AP!agentVars
  BY <1>6 DEF agentVars, AP!agentVars
<1>7. CASE \E r \in Requests :
             \/ Arrive(r) \/ FindAdvancing(r) \/ RecordVerdict(r) \/ SaveRejection(r)
             \/ NoteOnly(r) \/ AdvanceTier(r) \/ SkipUnregistered(r)
             \/ SaveApproval(r) \/ DatabaseError(r)
  <2>1. UNCHANGED agentVars
    BY <1>7 DEF Arrive, ReadApproval, FindAdvancing, RecordVerdict, SaveRejection,
                NoteOnly, AdvanceTier, SkipUnregistered, SaveApproval, DatabaseError
  <2> QED BY <1>6, <2>1
<1>8. CASE UNCHANGED vars
  BY <1>6, <1>8 DEF vars, agentVars
<1> QED BY <1>1, <1>2, <1>3, <1>4, <1>5, <1>7, <1>8 DEF Next, RequestStep

(* The three invariants hold together. *)
WholeInv == ReviewInv /\ Agent!AgentTypeOK /\ CallsInv

LEMMA WholeInvariant == Spec => []WholeInv
<1>1. Init => WholeInv
  <2> SUFFICES ASSUME Init PROVE WholeInv
    OBVIOUS
  <2>1. Agent!AgentTypeOK
    BY AgentConstants
       DEF Init, Agent!AgentInit, Agent!AgentConstants, Agent!FreshBreaker, Agent!NoCall,
           Agent!AgentTypeOK, Agent!Breaker, Agent!Call, Agent!CallRecord
  <2>2. CallsInv
    BY DEF Init, ReviewInit, Fresh, Agent!AgentInit, Agent!NoCall, CallsInv, CallOK
  <2> QED BY <2>1, <2>2, InitGood DEF WholeInv
<1>2. WholeInv /\ [Next]_vars => WholeInv'
  <2> SUFFICES ASSUME WholeInv, [Next]_vars PROVE WholeInv'
    OBVIOUS
  <2>1. ReviewInv' BY StepGood DEF WholeInv
  <2>2. CallsInv' BY CallsStep DEF WholeInv
  <2>3. [AP!AgentNext]_AP!agentVars BY AgentRefinedStep DEF WholeInv
  <2>4. AP!AgentTypeOK BY SameTypes DEF WholeInv
  <2>5. AP!AgentTypeOK' BY <2>3, <2>4, SameConstants, AP!AgentTypingStep
  <2>6. Agent!AgentTypeOK'
    BY <2>5 DEF Agent!AgentTypeOK, AP!AgentTypeOK, Agent!Breaker, AP!Breaker,
       Agent!Call, AP!Call, Agent!CallRecord, AP!CallRecord,
       Agent!Statuses, AP!Statuses, Agent!Results, AP!Results,
       Agent!Causes, AP!Causes
  <2> QED BY <2>1, <2>2, <2>6 DEF WholeInv
<1> QED BY <1>1, <1>2, PTL DEF Spec

(* Every variable of the review and of the agent below it keeps its type:   *)
(* in particular no request ever writes a tier beyond the last one.         *)
THEOREM ReviewTyping == Spec => []TypeOK
<1>1. WholeInv => TypeOK BY DEF WholeInv, ReviewInv, TypeOK
<1> QED BY <1>1, WholeInvariant, PTL

(* The review implements the action agent's own specification: it drives    *)
(* the agent only in ways the agent's theorems allow for.                   *)
THEOREM ReviewUsesAgent == Spec => AP!AgentSpec
<1>1. Init => AP!AgentInit BY SameInit DEF Init
<1>2. WholeInv /\ [Next]_vars => [AP!AgentNext]_AP!agentVars
  BY AgentRefinedStep DEF WholeInv
<1> QED BY <1>1, <1>2, WholeInvariant, PTL DEF Spec, AP!AgentSpec

(* So a withheld step takes effect twice only for one of the agent's named  *)
(* causes, however many approvals release it.                               *)
THEOREM ReviewRepeats == Spec => []Agent!RepeatHasCause
<1>1. AP!RepeatHasCause <=> Agent!RepeatHasCause
  BY DEF AP!RepeatHasCause, Agent!RepeatHasCause
<1>2. AP!AgentSpec => []AP!RepeatHasCause BY SameConstants, AP!AtMostOnce
<1> QED BY <1>1, <1>2, ReviewUsesAgent, PTL

-----------------------------------------------------------------------------
(* What is reported as executed was. *)

Happened(S) == \A s \in S : s \in ActionKeys /\ delivered[s] > 0

ReportInv ==
  /\ Happened(approval.executed)
  /\ \A r \in Requests : Happened(req[r].executed)
  /\ \A r \in Requests : call[r].status = "SUCCESS" => Happened({call[r].key})

(* Effects are never taken back. *)
LEMMA DeliveredGrows ==
  ASSUME Agent!AgentTypeOK, [Next]_vars, NEW k \in ActionKeys
  PROVE  delivered[k] > 0 => delivered'[k] > 0
<1>1. delivered \in [ActionKeys -> Nat] BY DEF Agent!AgentTypeOK
<1>2. CASE delivered' = delivered BY <1>1, <1>2
<1>3. ASSUME NEW r \in Requests, AgentStep(r) PROVE delivered[k] > 0 => delivered'[k] > 0
  <2>1. CASE UNCHANGED delivered BY <2>1
  <2>2. CASE Agent!AttemptSucceeds(r) BY <1>1, <2>2 DEF Agent!AttemptSucceeds
  <2>3. ASSUME NEW lost \in BOOLEAN, Agent!AttemptRaises(r, lost)
        PROVE  delivered[k] > 0 => delivered'[k] > 0
    BY <1>1, <2>3 DEF Agent!AttemptRaises
  <2> QED BY <1>3, <2>1, <2>2, <2>3
       DEF AgentStep, Agent!CallStep, Agent!Duplicate, Agent!Proceed, Agent!Settle,
           Agent!Store, Agent!AttemptInvalid
<1> QED BY <1>2, <1>3
     DEF Next, Arrive, RequestStep, ReadApproval, FindAdvancing, RecordVerdict,
         SaveRejection, NoteOnly, AdvanceTier, SaveApproval, CallAgent, Collect,
         SkipUnregistered, DatabaseError, Restart, Environment, vars, agentVars,
         Agent!Admit, Agent!Refuse, Agent!Return, Agent!AgentRestart,
         Agent!Environment, Agent!CooldownElapses, Agent!RedisFails,
         Agent!RedisReturns, Agent!Expire

LEMMA StaysHappened ==
  ASSUME Agent!AgentTypeOK, [Next]_vars, NEW S, Happened(S)
  PROVE  \A s \in S : s \in ActionKeys /\ delivered'[s] > 0
BY DeliveredGrows DEF Happened

(* The calls' part of the invariant. *)
LEMMA CallReport ==
  ASSUME WholeInv, ReportInv, [Next]_vars, NEW r \in Requests,
         call'[r].status = "SUCCESS"
  PROVE  call'[r].key \in ActionKeys /\ delivered'[call'[r].key] > 0
<1>0. Agent!AgentTypeOK /\ call \in [Requests -> Agent!CallRecord]
  BY CallTyped DEF WholeInv
<1>1. CASE call'[r].status = call[r].status /\ call'[r].key = call[r].key
  <2>1. Happened({call[r].key}) BY <1>1 DEF ReportInv
  <2> QED BY <1>0, <1>1, <2>1, StaysHappened
<1>2. CASE AgentStep(r) /\ Agent!AttemptSucceeds(r)
  <2>1. call[r].key \in ActionKeys /\ delivered \in [ActionKeys -> Nat]
    BY <1>0, <1>2 DEF Agent!AgentTypeOK, Agent!Call, Agent!AttemptSucceeds
  <2>2. call'[r].key = call[r].key
    BY <1>0, <1>2 DEF Agent!AttemptSucceeds, Agent!CallRecord
  <2> QED BY <1>2, <2>1, <2>2 DEF Agent!AttemptSucceeds
<1>3. CASE AgentStep(r) /\ ~Agent!AttemptSucceeds(r)
  <2>1. CASE Agent!AttemptInvalid(r) \/ Agent!Duplicate(r)
    BY <1>0, <2>1 DEF Agent!AttemptInvalid, Agent!Duplicate, Agent!CallRecord
  <2>2. CASE Agent!Proceed(r) \/ Agent!Settle(r) \/ Agent!Store(r)
    BY <1>0, <1>1, <2>2 DEF Agent!Proceed, Agent!Settle, Agent!Store, Agent!CallRecord
  <2>3. ASSUME NEW lost \in BOOLEAN, Agent!AttemptRaises(r, lost)
        PROVE  call'[r].key \in ActionKeys /\ delivered'[call'[r].key] > 0
    <3>1. \/ call'[r].status = "FAILED"
          \/ call'[r].status = call[r].status /\ call'[r].key = call[r].key
      BY <1>0, <2>3 DEF Agent!AttemptRaises, Agent!CallRecord
    <3> QED BY <1>1, <3>1
  <2> QED BY <1>3, <2>1, <2>2, <2>3 DEF AgentStep, Agent!CallStep
<1>4. CASE CallAgent(r)
  BY <1>0, <1>4 DEF CallAgent, Agent!Admit, Agent!Refuse
<1>5. CASE Collect(r)
  BY <1>0, <1>5 DEF Collect, Agent!Return, Agent!NoCall
<1>6. CASE \E h \in Hosts : Restart(h)
  <2>1. \/ call'[r] = call[r]
        \/ call'[r] = [Agent!NoCall EXCEPT !.used = call[r].used]
    BY <1>6 DEF Restart, Agent!AgentRestart
  <2> QED BY <1>1, <2>1 DEF Agent!NoCall
<1>7. CASE call'[r] = call[r] BY <1>1, <1>7
<1>8. ASSUME NEW q \in Requests \ {r}, CallAgent(q) \/ AgentStep(q) \/ Collect(q)
      PROVE  call'[r] = call[r]
  <2>1. CASE CallAgent(q)
    BY <1>0, <2>1 DEF CallAgent, Agent!Admit, Agent!Refuse
  <2>2. CASE AgentStep(q) BY <1>0, <2>2, StepShape DEF AgentStep
  <2>3. CASE Collect(q) BY <1>0, <2>3, ReturnShape DEF Collect
  <2> QED BY <1>8, <2>1, <2>2, <2>3
<1>9. ASSUME NEW q \in Requests, Arrive(q) \/ RequestStep(q) \/ DatabaseError(q)
      PROVE  call'[r].key \in ActionKeys /\ delivered'[call'[r].key] > 0
  <2>1. CASE q # r /\ (CallAgent(q) \/ AgentStep(q) \/ Collect(q)) BY <1>7, <1>8, <2>1
  <2>2. CASE CallAgent(r) \/ AgentStep(r) \/ Collect(r) BY <1>2, <1>3, <1>4, <1>5, <2>2
  <2>3. CASE UNCHANGED call BY <1>7, <2>3
  <2>4. ~(CallAgent(q) \/ AgentStep(q) \/ Collect(q)) => UNCHANGED call
    BY <1>9 DEF Arrive, RequestStep, ReadApproval, FindAdvancing, RecordVerdict, SaveRejection,
                NoteOnly, AdvanceTier, SaveApproval, SkipUnregistered, DatabaseError, agentVars
  <2> QED BY <2>1, <2>2, <2>3, <2>4
<1>10. CASE Environment \/ UNCHANGED vars
  BY <1>7, <1>10 DEF Environment, vars, agentVars, Agent!Environment, Agent!CooldownElapses,
                     Agent!RedisFails, Agent!RedisReturns, Agent!Expire
<1> QED BY <1>6, <1>9, <1>10 DEF Next

(* What a request collected, after a step. *)
LEMMA CollectReport ==
  ASSUME WholeInv, ReportInv, [Next]_vars, NEW r \in Requests, NEW s \in req'[r].executed
  PROVE  s \in ActionKeys /\ delivered'[s] > 0
<1>0. /\ Agent!AgentTypeOK /\ ReviewTypeOK /\ req[r] \in Request /\ CallOK(r)
      /\ Happened(req[r].executed)
  BY DEF WholeInv, ReviewInv, ReviewTypeOK, CallsInv, ReportInv
<1>1. CASE s \in req[r].executed BY <1>0, <1>1, StaysHappened
<1>2. CASE Collect(r) /\ s \notin req[r].executed
  <2>1. call[r].status = "SUCCESS" /\ s = StepOf(r)
    BY <1>0, <1>2 DEF Collect, ReviewTypeOK, Request
  <2>2. call[r].key = StepOf(r) BY <1>0, <1>2 DEF Collect, Agent!Return, AtStep, CallOK
  <2>3. Happened({call[r].key}) BY <2>1 DEF ReportInv
  <2> QED BY <1>0, <2>1, <2>2, <2>3, StaysHappened
<1>3. CASE req'[r].executed = req[r].executed BY <1>1, <1>3
<1>4. ASSUME NEW q \in Requests, ~(q = r /\ Collect(q)),
             Arrive(q) \/ RequestStep(q) \/ DatabaseError(q)
      PROVE  req'[r].executed = req[r].executed
  <2>0. req \in [Requests -> Request] BY <1>0 DEF ReviewTypeOK
  <2>1. CASE Arrive(q) BY <2>0, <2>1 DEF Arrive, ReadApproval, Request
  <2>2. ASSUME NEW p, req' = [req EXCEPT ![q].pc = p]
        PROVE  req'[r].executed = req[r].executed
    BY <2>0, <2>2 DEF Request
  <2>3. CASE \/ FindAdvancing(q) \/ RecordVerdict(q) \/ SaveRejection(q) \/ NoteOnly(q)
             \/ AdvanceTier(q) \/ SaveApproval(q) \/ DatabaseError(q)
    BY <2>2, <2>3 DEF FindAdvancing, RecordVerdict, SaveRejection, NoteOnly,
                      AdvanceTier, SaveApproval, DatabaseError, Goto
  <2>4. CASE CallAgent(q) \/ AgentStep(q)
    BY <2>4 DEF CallAgent, AgentStep, reviewVars
  <2>5. CASE SkipUnregistered(q)
    BY <2>0, <2>5 DEF SkipUnregistered, Request
  <2>6. CASE Collect(q)
    <3>1. q # r BY <1>4, <2>6
    <3> QED BY <2>0, <2>6, <3>1 DEF Collect
  <2> QED BY <1>4, <2>1, <2>3, <2>4, <2>5, <2>6 DEF RequestStep
<1>5. CASE \E h \in Hosts : Restart(h)
  <2>1. req'[r] = req[r] \/ req'[r] = [req[r] EXCEPT !.pc = "dead"]
    BY <1>5 DEF Restart
  <2> QED BY <1>0, <1>3, <2>1 DEF Request
<1>6. CASE Environment \/ UNCHANGED vars
  BY <1>3, <1>6 DEF Environment, reviewVars, vars
<1> QED BY <1>2, <1>1, <1>3, <1>4, <1>5, <1>6 DEF Next

(* The approval row's part. *)
LEMMA RowReport ==
  ASSUME WholeInv, ReportInv, [Next]_vars, NEW s \in approval'.executed
  PROVE  s \in ActionKeys /\ delivered'[s] > 0
<1>0. Agent!AgentTypeOK /\ approval \in Approval /\ Happened(approval.executed)
  BY DEF WholeInv, ReviewInv, ReviewTypeOK, ReportInv
<1>1. CASE approval'.executed = approval.executed BY <1>0, <1>1, StaysHappened
<1>2. CASE \E r \in Requests : approval'.executed = req[r].executed
  BY <1>0, <1>2, StaysHappened DEF ReportInv
<1>3. ASSUME NEW r \in Requests, SaveRejection(r) \/ AdvanceTier(r)
      PROVE  approval'.executed = approval.executed
  BY <1>0, <1>3 DEF SaveRejection, AdvanceTier, Approval
<1>4. ASSUME NEW r \in Requests, SaveApproval(r)
      PROVE  approval'.executed = req[r].executed
  BY <1>4 DEF SaveApproval
<1> QED BY <1>1, <1>2, <1>3, <1>4
     DEF Next, Arrive, RequestStep, ReadApproval, FindAdvancing, RecordVerdict,
         NoteOnly, CallAgent, AgentStep, Collect, SkipUnregistered,
         DatabaseError, Restart, Environment, vars, reviewVars

(* What the approval row reports as executed has taken effect: whatever     *)
(* the interleaving, and although requests overwrite each other's report.   *)
THEOREM HonestReport == Spec => []ExecutedIsTrue
<1>1. Init => ReportInv
  BY DEF Init, ReviewInit, Fresh, Agent!AgentInit, Agent!NoCall, ReportInv, Happened
<1>2. WholeInv /\ ReportInv /\ [Next]_vars => ReportInv'
  <2> SUFFICES ASSUME WholeInv, ReportInv, [Next]_vars PROVE ReportInv'
    OBVIOUS
  <2>1. Happened(approval.executed)' BY RowReport DEF Happened
  <2>2. ASSUME NEW r \in Requests PROVE Happened(req[r].executed)'
    BY CollectReport DEF Happened
  <2>3. ASSUME NEW r \in Requests, call'[r].status = "SUCCESS"
        PROVE  Happened({call[r].key})'
    BY <2>3, CallReport DEF Happened
  <2> QED BY <2>1, <2>2, <2>3 DEF ReportInv
<1>3. ReportInv => ExecutedIsTrue BY DEF ReportInv, Happened, ExecutedIsTrue
<1> QED BY <1>1, <1>2, <1>3, WholeInvariant, PTL DEF Spec

-----------------------------------------------------------------------------
(* Served one at a time, requests keep the promise of the chain. The        *)
(* argument: whoever works does so alone, on a row that is as it was read;  *)
(* the signatures are as many as the tiers counted, and one more from the   *)
(* moment an approval is recorded until it is counted; and a step has taken *)
(* effect only if the request that runs the steps is past it.               *)

Working(r) == req[r].pc \in Active

Alone(r) == \A q \in Requests \ {r} : ~Working(q)

(* Whether the call for the step a request is at has come to its result.    *)
HasResult(r) == AtStep(r) /\ call[r].pc \in {"settle", "store", "done"}

(* Request r has dealt with step k.                                         *)
Past(r, k) ==
  \E j \in 1..req[r].pos : Steps[j] = k /\ (j = req[r].pos => HasResult(r))

Uncounted(r) ==
  IF req[r].pc \in {"apply", "run"} /\ req[r].verdict = "approved" THEN 1 ELSE 0

(* What holds when no request but r may be at work.                         *)
Kept(r) ==
  /\ Working(r) => approval.status = "pending" /\ req[r].tier = approval.tier
  /\ approval.status = "pending" =>
       /\ Cardinality(Signers) = approval.tier + Uncounted(r)
       /\ \A k \in ActionKeys : delivered[k] = 0 \/ (req[r].pc = "run" /\ Past(r, k))
  /\ req[r].pc = "record" /\ req[r].verdict = "approved" => req[r].reviewer \notin Signers

SerialInv ==
  /\ \A q, r \in Requests : Working(q) /\ Working(r) => q = r
  /\ \A r \in Requests : Alone(r) => Kept(r)

Mapped == [Chain!ChainNext]_Chain!chainVars

LEMMA SameCardinality == \A S : Chain!Cardinality(S) = Cardinality(S)
  BY DEF Chain!Cardinality, Cardinality

LEMMA SerialIsReview == [SerialNext]_vars => [Next]_vars
  BY DEF SerialNext, Next

(* A step that changes neither the row, the approvals nor the effects.      *)
LEMMA Stutters ==
  ASSUME approval' = approval, Signers' = Signers, delivered' = delivered
  PROVE  Mapped
  BY DEF Mapped, Chain!chainVars

(* A request changes no other request.                                      *)
LEMMA OthersStay ==
  ASSUME ReviewTypeOK, NEW r \in Requests, Arrive(r) \/ RequestStep(r)
  PROVE  \A q \in Requests \ {r} : req'[q] = req[q]
<1>1. req \in [Requests -> Request] BY DEF ReviewTypeOK
<1>2. CASE Arrive(r) BY <1>1, <1>2 DEF Arrive, ReadApproval
<1>3. CASE \/ FindAdvancing(r) \/ RecordVerdict(r) \/ SaveRejection(r) \/ NoteOnly(r)
           \/ AdvanceTier(r) \/ SaveApproval(r)
  BY <1>1, <1>3 DEF FindAdvancing, RecordVerdict, SaveRejection, NoteOnly, AdvanceTier,
                    SaveApproval, Goto
<1>4. CASE CallAgent(r) \/ AgentStep(r) BY <1>4 DEF CallAgent, AgentStep, reviewVars
<1>5. CASE Collect(r) \/ SkipUnregistered(r)
  BY <1>1, <1>5 DEF Collect, SkipUnregistered
<1> QED BY <1>2, <1>3, <1>4, <1>5 DEF RequestStep

(* When a step of r leaves what was said of r true, it leaves all true.     *)
LEMMA SerialGoesOn ==
  ASSUME SerialInv, NEW r \in Requests, Alone(r), Kept(r)',
         \A q \in Requests \ {r} : req'[q] = req[q]
  PROVE  SerialInv'
<1>1. \A q \in Requests \ {r} : ~Working(q)' BY DEF Alone, Working
<1>2. \A q, s \in Requests : Working(q)' /\ Working(s)' => q = s BY <1>1
<1>3. ASSUME NEW q \in Requests \ {r}, Alone(q)' PROVE Kept(q)'
  <2>1. ~Working(r)' /\ ~Working(q)' BY <1>1, <1>3 DEF Alone
  <2>2. /\ req'[r].pc \notin {"vet", "record", "apply", "run"}
        /\ req'[q].pc \notin {"vet", "record", "apply", "run"}
    BY <2>1 DEF Working, Active
  <2>3. Uncounted(r)' = 0 /\ Uncounted(q)' = 0 BY <2>2 DEF Uncounted
  <2> QED BY <2>1, <2>2, <2>3 DEF Kept
<1> QED BY <1>2, <1>3 DEF SerialInv

(* What each lemma on a step of r starts from.                              *)
Starting(r) ==
  /\ req[r] \in Request /\ req \in [Requests -> Request] /\ approval \in Approval
  /\ Good(req[r], verdicts) /\ Signers = Who(verdicts)
  /\ IsFiniteSet(Signers) /\ Cardinality(Signers) \in Nat
  /\ delivered \in [ActionKeys -> Nat]
  /\ Kept(r)

LEMMA Starts ==
  ASSUME WholeInv, NEW r \in Requests, Kept(r)
  PROVE  Starting(r)
<1>1. /\ req \in [Requests -> Request] /\ approval \in Approval /\ verdicts \subseteq VerdictRow
      /\ Good(req[r], verdicts) /\ delivered \in [ActionKeys -> Nat]
  BY DEF WholeInv, ReviewInv, ReviewTypeOK, ReqInv, Agent!AgentTypeOK
<1>2. Signers = Who(verdicts) BY DEF Signers, Approvals, Who
<1>3. IsFiniteSet(Signers) BY <1>1, <1>2, WhoFinite
<1> QED BY <1>1, <1>2, <1>3, FS_CardinalityType DEF Starting

LEMMA SerialRead ==
  ASSUME NEW r \in Requests, Starting(r), ~Working(r), Arrive(r)
  PROVE  Kept(r)' /\ Mapped
<1>1. PICK v \in VerdictKinds : ReadApproval(r, v) BY DEF Arrive
<1>2. /\ approval' = approval /\ verdicts' = verdicts /\ delivered' = delivered
      /\ Signers' = Signers
  BY <1>1 DEF ReadApproval, agentVars, Signers, Approvals
<1>3. /\ req'[r].tier = approval.tier
      /\ req'[r].pc \in {"done", "vet", "record"}
      /\ req'[r].pc \in {"vet", "record"} => approval.status = "pending"
      /\ req'[r].pc = "record" => req'[r].verdict # "approved"
  BY <1>1 DEF ReadApproval, Starting, Request, Approval, Terminal
<1>4. Uncounted(r) = 0 /\ Uncounted(r)' = 0 BY <1>3 DEF Uncounted, Working, Active
<1>5. req[r].pc # "run" BY DEF Working, Active
<1>6. Kept(r)' BY <1>2, <1>3, <1>4, <1>5 DEF Kept, Starting, Working, Active
<1> QED BY <1>2, <1>6, Stutters

LEMMA SerialFind ==
  ASSUME NEW r \in Requests, Starting(r), FindAdvancing(r)
  PROVE  Kept(r)' /\ Mapped
<1>1. /\ approval' = approval /\ verdicts' = verdicts /\ delivered' = delivered
      /\ Signers' = Signers
  BY DEF FindAdvancing, agentVars, Signers, Approvals
<1>2. /\ req[r].pc = "vet" /\ req'[r].tier = req[r].tier /\ req'[r].reviewer = req[r].reviewer
      /\ req'[r].pc = IF req[r].reviewer \in Signers THEN "done" ELSE "record"
  BY DEF FindAdvancing, Goto, Starting, Request
<1>3. Uncounted(r) = 0 /\ Uncounted(r)' = 0 BY <1>2 DEF Uncounted
<1>4. Kept(r)' BY <1>1, <1>2, <1>3 DEF Kept, Starting, Working, Active
<1> QED BY <1>1, <1>4, Stutters

LEMMA SerialRecord ==
  ASSUME NEW r \in Requests, Starting(r), RecordVerdict(r)
  PROVE  Kept(r)' /\ Mapped
<1> DEFINE v == [req |-> r, reviewer |-> req[r].reviewer,
                 tier |-> req[r].tier, verdict |-> req[r].verdict]
<1>1. /\ approval' = approval /\ delivered' = delivered /\ verdicts' = verdicts \cup {v}
  BY DEF RecordVerdict, agentVars
<1>2. /\ req[r].pc = "record" /\ req'[r].pc \in {"apply", "run"}
      /\ req'[r].tier = req[r].tier /\ req'[r].verdict = req[r].verdict
  BY DEF RecordVerdict, Goto, Starting, Request
<1>3. /\ approval.status = "pending" /\ Cardinality(Signers) = approval.tier
      /\ \A k \in ActionKeys : delivered[k] = 0
      /\ req[r].verdict = "approved" => req[r].reviewer \notin Signers
      /\ req[r].tier = approval.tier
  BY <1>2 DEF Starting, Kept, Uncounted, Working, Active, Approval
<1>4. CASE req[r].verdict = "approved"
  <2>1. Signers' = Signers \cup {req[r].reviewer}
    <3>1. Approvals' = Approvals \cup {v} BY <1>1, <1>4 DEF Approvals
    <3>2. v.reviewer = req[r].reviewer OBVIOUS
    <3> HIDE DEF v
    <3> QED BY <3>1, <3>2 DEF Signers
  <2>2. Cardinality(Signers') = approval.tier + 1
    <3>1. IsFiniteSet(Signers) /\ req[r].reviewer \notin Signers BY <1>3, <1>4 DEF Starting
    <3>2. Cardinality(Signers \cup {req[r].reviewer}) = Cardinality(Signers) + 1
      BY <3>1, FS_AddElement
    <3> QED BY <1>3, <2>1, <3>2
  <2>3. Uncounted(r)' = 1 BY <1>2, <1>4 DEF Uncounted
  <2>4. Kept(r)' BY <1>1, <1>2, <1>3, <2>2, <2>3 DEF Kept
  <2>5. Chain!Sign(req[r].reviewer) BY <1>1, <1>3, <1>4, <2>1, SameCardinality DEF Chain!Sign
  <2>6. req[r].reviewer \in Reviewers BY DEF Starting, Request
  <2> QED BY <2>4, <2>5, <2>6 DEF Mapped, Chain!ChainNext
<1>5. CASE req[r].verdict # "approved"
  <2>1. Signers' = Signers BY <1>1, <1>5 DEF Signers, Approvals
  <2>2. Uncounted(r)' = 0 BY <1>2, <1>5 DEF Uncounted
  <2>3. Kept(r)' BY <1>1, <1>2, <1>3, <2>1, <2>2 DEF Kept, Starting, Approval
  <2> QED BY <1>1, <2>1, <2>3, Stutters
<1> QED BY <1>4, <1>5

LEMMA SerialApply ==
  ASSUME NEW r \in Requests, Starting(r), SaveRejection(r) \/ NoteOnly(r) \/ AdvanceTier(r)
  PROVE  Kept(r)' /\ Mapped
<1>1. /\ req[r].pc = "apply" /\ verdicts' = verdicts /\ delivered' = delivered
      /\ Signers' = Signers
  BY DEF SaveRejection, NoteOnly, AdvanceTier, agentVars, Signers, Approvals
<1>2. req'[r].pc = "done"
  BY DEF SaveRejection, NoteOnly, AdvanceTier, Goto, Starting, Request
<1>3. /\ approval.status = "pending" /\ req[r].tier = approval.tier /\ approval.tier \in Nat
      /\ Cardinality(Signers) = approval.tier + (IF req[r].verdict = "approved" THEN 1 ELSE 0)
      /\ \A k \in ActionKeys : delivered[k] = 0
  BY <1>1 DEF Starting, Kept, Uncounted, Working, Active, Approval
<1>4. Uncounted(r)' = 0 /\ ~Working(r)' BY <1>2 DEF Uncounted, Working, Active
<1>5. CASE SaveRejection(r)
  <2>1. req[r].verdict = "rejected" /\ approval'.status = "rejected" /\ approval'.tier = approval.tier
    BY <1>5 DEF SaveRejection, Starting, Approval
  <2>2. Chain!Reject BY <1>1, <1>3, <2>1, SameCardinality DEF Chain!Reject
  <2>3. Kept(r)' BY <1>2, <1>4, <2>1 DEF Kept
  <2> QED BY <2>2, <2>3 DEF Mapped, Chain!ChainNext
<1>6. CASE NoteOnly(r)
  <2>1. req[r].verdict = "noted" /\ approval' = approval BY <1>6 DEF NoteOnly
  <2>2. Kept(r)' BY <1>1, <1>2, <1>3, <1>4, <2>1 DEF Kept
  <2> QED BY <1>1, <2>1, <2>2, Stutters
<1>7. CASE AdvanceTier(r)
  <2>1. /\ req[r].verdict = "approved" /\ approval'.status = approval.status
        /\ approval'.tier = approval.tier + 1
    BY <1>3, <1>7 DEF AdvanceTier, Starting, Approval
  <2>2. approval.tier + 1 < NTiers BY <1>1, <1>3, <2>1 DEF Starting, Good
  <2>3. Chain!Count
    BY <1>1, <1>3, <2>1, <2>2, SameCardinality DEF Chain!Count, Chain!Complete
  <2>4. Kept(r)' BY <1>1, <1>2, <1>3, <1>4, <2>1 DEF Kept
  <2> QED BY <2>3, <2>4 DEF Mapped, Chain!ChainNext
<1> QED BY <1>5, <1>6, <1>7

LEMMA SerialApprove ==
  ASSUME NEW r \in Requests, Starting(r), SaveApproval(r)
  PROVE  Kept(r)' /\ Mapped
<1>1. /\ req[r].pc = "run" /\ Signers' = Signers /\ delivered' = delivered
      /\ approval'.status = "approved" /\ approval'.tier = req[r].tier + 1
  BY DEF SaveApproval, agentVars, Signers, Approvals
<1>2. req'[r].pc = "done" BY DEF SaveApproval, Goto, Starting, Request
<1>3. /\ approval.status = "pending" /\ req[r].tier = approval.tier
      /\ req[r].verdict = "approved" /\ req[r].tier + 1 = NTiers
      /\ Cardinality(Signers) = approval.tier + 1
  BY <1>1 DEF Starting, Kept, Good, Uncounted, Working, Active
<1>4. Chain!Finish BY <1>1, <1>3, SameCardinality DEF Chain!Finish, Chain!Complete
<1>5. Kept(r)' BY <1>1, <1>2 DEF Kept, Working, Active
<1> QED BY <1>4, <1>5 DEF Mapped, Chain!ChainNext

(* A step of a request that runs: the row and the approvals stay, what is   *)
(* past stays past, and nothing but a step that is past takes effect.       *)
LEMMA SerialRuns ==
  ASSUME NEW r \in Requests, Starting(r), req[r].pc = "run",
         req'[r].pc = "run", req'[r].tier = req[r].tier, req'[r].verdict = req[r].verdict,
         approval' = approval, Signers' = Signers,
         \A k \in ActionKeys : Past(r, k) => Past(r, k)',
         \A k \in ActionKeys : delivered'[k] = delivered[k] \/ Past(r, k)'
  PROVE  Kept(r)'
<1>1. Uncounted(r)' = Uncounted(r) BY DEF Uncounted
<1>2. /\ approval.status = "pending" /\ req[r].tier = approval.tier
      /\ Cardinality(Signers) = approval.tier + Uncounted(r)
  BY DEF Starting, Kept, Working, Active
<1>3. \A k \in ActionKeys : delivered[k] = 0 \/ Past(r, k)
  BY <1>2 DEF Starting, Kept
<1>4. \A k \in ActionKeys : delivered'[k] = 0 \/ Past(r, k)' BY <1>3
<1> QED BY <1>1, <1>2, <1>4 DEF Kept

LEMMA SerialCall ==
  ASSUME WholeInv, NEW r \in Requests, Starting(r), CallAgent(r)
  PROVE  Kept(r)' /\ Mapped
<1>1. /\ approval' = approval /\ verdicts' = verdicts /\ req' = req /\ delivered' = delivered
      /\ Signers' = Signers /\ req[r].pc = "run" /\ call[r].pc = "idle"
  BY DEF CallAgent, reviewVars, Agent!Admit, Agent!Refuse, AtStep, Signers, Approvals
<1>2. ~HasResult(r) BY <1>1 DEF HasResult
<1>3. \A k \in ActionKeys : Past(r, k) => Past(r, k)' BY <1>1, <1>2 DEF Past
<1>4. Kept(r)' BY <1>1, <1>3, SerialRuns
<1> QED BY <1>1, <1>4, Stutters

LEMMA SerialCollect ==
  ASSUME WholeInv, NEW r \in Requests, Starting(r), Collect(r) \/ SkipUnregistered(r)
  PROVE  Kept(r)' /\ Mapped
<1>1. /\ approval' = approval /\ verdicts' = verdicts /\ delivered' = delivered
      /\ Signers' = Signers /\ AtStep(r) /\ req[r].pc = "run"
  BY DEF Collect, SkipUnregistered, agentVars, Agent!Return, AtStep, Signers, Approvals
<1>2. /\ req'[r].pc = "run" /\ req'[r].tier = req[r].tier /\ req'[r].verdict = req[r].verdict
      /\ req'[r].pos = req[r].pos + 1
  <2>1. CASE Collect(r) BY <1>1, <2>1 DEF Collect, Starting, Request
  <2>2. CASE SkipUnregistered(r) BY <1>1, <2>2 DEF SkipUnregistered, Starting, Request
  <2> QED BY <2>1, <2>2
<1>3. req[r].pos \in Nat /\ Len(Steps) \in Nat BY DEF Starting, Request
<1>4. ASSUME NEW k \in ActionKeys, Past(r, k) PROVE Past(r, k)'
  <2>1. PICK j \in 1..req[r].pos : Steps[j] = k BY <1>4 DEF Past
  <2>2. j \in 1..req'[r].pos /\ j # req'[r].pos BY <1>2, <1>3
  <2> QED BY <2>1, <2>2 DEF Past
<1>5. Kept(r)' BY <1>1, <1>2, <1>4, SerialRuns
<1> QED BY <1>1, <1>5, Stutters

(* The first effect of a step is its only one: the call makes no attempt    *)
(* after one that took effect.                                              *)
LEMMA SerialAgent ==
  ASSUME LostReplies = FALSE, WholeInv, NEW r \in Requests, Starting(r), AgentStep(r)
  PROVE  Kept(r)' /\ Mapped
<1>1. /\ approval' = approval /\ verdicts' = verdicts /\ req' = req /\ Signers' = Signers
      /\ req[r].pc = "run" /\ req[r].pos \in Nat
  BY DEF AgentStep, reviewVars, Signers, Approvals, Starting, Request
<1>2. /\ call \in [Requests -> Agent!CallRecord] /\ Agent!AgentTypeOK
  BY CallTyped DEF WholeInv
<1>3. /\ call[r].pc # "idle" /\ AtStep(r) /\ call[r].key = StepOf(r) /\ StepOf(r) \in ActionKeys
  <2>1. call[r].pc # "idle" BY <1>2, StepShape DEF AgentStep
  <2>2. call[r].key \in ActionKeys BY <1>2, <2>1 DEF Agent!AgentTypeOK, Agent!Call
  <2> QED BY <1>1, <2>1, <2>2 DEF WholeInv, CallsInv, CallOK
<1>4. req[r].pos \in 1..Len(Steps) BY <1>3 DEF AtStep, Starting, Request
<1>5. ASSUME HasResult(r) => HasResult(r)', NEW k \in ActionKeys, Past(r, k)
      PROVE  Past(r, k)'
  BY <1>1, <1>5 DEF Past
<1>6. CASE Agent!AttemptSucceeds(r)
  <2>1. /\ call[r].pc = "attempt" /\ call'[r].pc = "settle"
        /\ delivered' = [delivered EXCEPT ![StepOf(r)] = delivered[StepOf(r)] + 1]
    BY <1>2, <1>3, <1>6 DEF Agent!AttemptSucceeds, Agent!CallRecord
  <2>2. ~HasResult(r) /\ HasResult(r)' BY <1>1, <1>3, <2>1 DEF HasResult, AtStep
  <2>3. \A k \in ActionKeys : k = StepOf(r) => Past(r, k)'
    BY <1>1, <1>4, <2>2 DEF Past, StepOf
  <2>4. ~Past(r, StepOf(r))
    <3> SUFFICES ASSUME NEW j \in 1..req[r].pos, Steps[j] = Steps[req[r].pos],
                        j = req[r].pos => HasResult(r)
                 PROVE  FALSE
      BY DEF Past, StepOf
    <3>1. j # req[r].pos BY <2>2
    <3>2. j \in 1..Len(Steps) BY <1>4
    <3> QED BY <1>4, <3>1, <3>2, ReviewConstants
  <2>5. /\ approval.status = "pending" /\ delivered[StepOf(r)] = 0
        /\ Cardinality(Signers) = req[r].tier + 1 /\ req[r].tier + 1 = NTiers
    BY <1>1, <1>3, <2>4 DEF Starting, Kept, Good, Working, Active, Uncounted
  <2>6. Kept(r)'
    <3>1. ASSUME NEW k \in ActionKeys PROVE delivered'[k] = delivered[k] \/ Past(r, k)'
      <4>1. CASE k = StepOf(r) BY <2>3, <4>1
      <4>2. CASE k # StepOf(r) BY <2>1, <4>2 DEF Starting
      <4> QED BY <4>1, <4>2
    <3>2. \A k \in ActionKeys : Past(r, k) => Past(r, k)' BY <1>5, <2>2
    <3> QED BY <1>1, <3>1, <3>2, SerialRuns
  <2>7. Chain!Run(StepOf(r))
    BY <1>1, <2>1, <2>5, SameCardinality DEF Chain!Run, Chain!Complete
  <2> QED BY <1>3, <2>6, <2>7 DEF Mapped, Chain!ChainNext
<1>7. CASE ~Agent!AttemptSucceeds(r)
  <2>1. /\ delivered' = delivered
        /\ call[r].pc \in {"settle", "store", "done"} => call'[r].pc \in {"settle", "store", "done"}
    <3>1. CASE Agent!Duplicate(r) \/ Agent!Proceed(r) \/ Agent!AttemptInvalid(r)
      BY <1>2, <3>1 DEF Agent!Duplicate, Agent!Proceed, Agent!AttemptInvalid
    <3>2. CASE Agent!Settle(r) \/ Agent!Store(r)
      BY <1>2, <3>2 DEF Agent!Settle, Agent!Store, Agent!CallRecord
    <3>3. ASSUME NEW lost \in BOOLEAN, Agent!AttemptRaises(r, lost)
          PROVE  delivered' = delivered /\ call[r].pc = "attempt"
      BY <3>3 DEF Agent!AttemptRaises
    <3> QED BY <1>7, <3>1, <3>2, <3>3 DEF AgentStep, Agent!CallStep
  <2>2. HasResult(r) => HasResult(r)' BY <1>1, <2>1 DEF HasResult, AtStep
  <2>3. \A k \in ActionKeys : Past(r, k) => Past(r, k)' BY <1>5, <2>2
  <2>4. Kept(r)' BY <1>1, <2>1, <2>3, SerialRuns
  <2> QED BY <1>1, <2>1, <2>4, Stutters
<1> QED BY <1>6, <1>7

LEMMA SerialStep ==
  ASSUME LostReplies = FALSE, WholeInv, SerialInv, [SerialNext]_vars
  PROVE  SerialInv' /\ Mapped
<1>0. ReviewTypeOK BY DEF WholeInv, ReviewInv
<1>1. ASSUME NEW r \in Requests, Arrive(r), \A q \in Requests : Idle(q)
      PROVE  SerialInv' /\ Mapped
  <2>1. Alone(r) /\ ~Working(r) BY <1>1 DEF Alone, Working, Active, Idle
  <2>2. Starting(r) BY <2>1, Starts DEF SerialInv
  <2>3. Kept(r)' /\ Mapped BY <1>1, <2>1, <2>2, SerialRead
  <2> QED BY <1>0, <1>1, <2>1, <2>3, OthersStay, SerialGoesOn
<1>2. ASSUME NEW r \in Requests, RequestStep(r)
      PROVE  SerialInv' /\ Mapped
  <2>1. Working(r)
    BY <1>2 DEF RequestStep, FindAdvancing, RecordVerdict, SaveRejection, NoteOnly, AdvanceTier,
                CallAgent, AgentStep, Collect, SkipUnregistered, SaveApproval, AtStep, Working,
                Active
  <2>2. Alone(r) BY <2>1 DEF SerialInv, Alone
  <2>3. Starting(r) BY <2>2, Starts DEF SerialInv
  <2>4. Kept(r)' /\ Mapped
    BY <1>2, <2>3, SerialFind, SerialRecord, SerialApply, SerialApprove, SerialCall,
       SerialCollect, SerialAgent DEF RequestStep
  <2> QED BY <1>0, <1>2, <2>2, <2>4, OthersStay, SerialGoesOn
<1>3. CASE Environment \/ UNCHANGED vars
  <2>1. /\ UNCHANGED <<approval, verdicts, req, delivered>> /\ call' = call
    BY <1>3 DEF Environment, vars, reviewVars, Agent!Environment, Agent!CooldownElapses,
                Agent!RedisFails, Agent!RedisReturns, Agent!Expire
  <2>2. Signers' = Signers BY <2>1 DEF Signers, Approvals
  <2>3. SerialInv'
    BY <2>1, <2>2 DEF SerialInv, Alone, Working, Kept, Uncounted, Past, HasResult, AtStep
  <2> QED BY <2>1, <2>2, <2>3, Stutters
<1> QED BY <1>1, <1>2, <1>3 DEF SerialNext

(* Served one at a time, and unless an effect happens although its call     *)
(* raised, requests implement ApprovalChain: the approvals recorded are the *)
(* signatures, current_tier is the count, and a withheld step runs once and *)
(* only when all tiers are signed (human_review.py, submit_verdict).        *)
THEOREM PromiseKept ==
  ASSUME LostReplies = FALSE
  PROVE  SerialSpec => KeepsThePromise
<1>1. Init => Chain!ChainInit /\ SerialInv
  <2> SUFFICES ASSUME Init PROVE Chain!ChainInit /\ SerialInv
    OBVIOUS
  <2>1. /\ approval.status = "pending" /\ approval.tier = 0 /\ Signers = {}
        /\ delivered = [k \in ActionKeys |-> 0]
        /\ \A r \in Requests : req[r].pc = "new"
    BY DEF Init, ReviewInit, Agent!AgentInit, Signers, Approvals, Fresh
  <2>2. Cardinality(Signers) = 0 BY <2>1, FS_EmptySet
  <2>3. \A r \in Requests : Uncounted(r) = 0 /\ ~Working(r)
    BY <2>1 DEF Uncounted, Working, Active
  <2>4. SerialInv BY <2>1, <2>2, <2>3 DEF SerialInv, Kept
  <2> QED BY <2>1, <2>4 DEF Chain!ChainInit
<1>2. SerialSpec => Spec BY SerialIsReview, PTL DEF SerialSpec, Spec
<1>3. WholeInv /\ SerialInv /\ [SerialNext]_vars =>
        SerialInv' /\ [Chain!ChainNext]_Chain!chainVars
  BY SerialStep DEF Mapped
<1> QED
  BY <1>1, <1>2, <1>3, WholeInvariant, PTL DEF SerialSpec, KeepsThePromise, Chain!ChainSpec

=============================================================================
