------------------------- MODULE InvestigationProofs -------------------------
(***************************************************************************)
(* Proofs about Investigation, for any threads, metrics, runbook, outcomes *)
(* of the passes, outages and bounds: reachable states are well typed, an  *)
(* hour of a metric is investigated once, gated steps wait for approval,   *)
(* and the record of an incident accounts for its runbook. Course, the     *)
(* invariant of the last part, ties the findings and the state of the      *)
(* state machine to where a thread is: every evidence stage speaks once,   *)
(* no transition is ever refused, and a root cause is replaced by a        *)
(* grounded one only.                                                      *)
(***************************************************************************)
EXTENDS Investigation, TLAPS

USE Constants

(* What the thread t has become, in a step that changes no other thread.    *)
Becomes(t, x) == x \in Run /\ run' = [run EXCEPT ![t] = x]

Passes == {"begin", "gather", "rag", "kpi", "reason", "evaluate", "finalize"}
Acts == {"act", "approve"}

Books(x) == <<x.gate, x.pos, x.executed, x.skipped, x.pending>>

(* The investigation goes on or raises, by a step that only concerns itself. *)
Thinks(t, x) ==
  /\ run[t].pc \in Passes /\ x.pc \in Passes \cup {"raised"}
  /\ x.event = run[t].event /\ Books(x) = Books(run[t])
  /\ x.pc = "begin" => x.depth < MaxDepth
  /\ Becomes(t, x) /\ Local

(* A busy thread holds an event of its own, in the state the thread is in.  *)
Owns(t) ==
  /\ run[t].pc # "idle" => run[t].event \in EventIds
  /\ run[t].pc \in {"check", "publish"} =>
       event[run[t].event].fate = "new" /\ run[t].depth = 0
  /\ run[t].pc \in Passes \cup Acts \cup {"raised"} => event[run[t].event].fate = "open"
  /\ run[t].pc = "begin" => run[t].depth < MaxDepth

Alone(t, u) == run[t].pc # "idle" /\ run[u].pc # "idle" => run[t].event # run[u].event

Owned == /\ \A t \in Threads : Owns(t)
         /\ \A t, u \in Threads : t # u => Alone(t, u)

Keys == MetricHours \cup {"none"}

RunType == run \in [Threads -> Run]
EventType == event \in [EventIds -> Event]
RestType == /\ claimed \subseteq Keys
            /\ row \in [EventIds -> Row] /\ approval \in [EventIds -> Approval]
            /\ called \subseteq (EventIds \X StepSet) /\ sensitive \subseteq EventIds
            /\ deaths \in 0..MaxDeaths

LEMMA TypeParts == TypeOK <=> RunType /\ EventType /\ RestType
BY DEF TypeOK, RunType, EventType, RestType, Keys

LEMMA TypePartsNext == RunType' /\ EventType' /\ RestType' => TypeOK'
BY DEF TypeOK, RunType, EventType, RestType, Keys

-----------------------------------------------------------------------------
(* The steps of a pass. *)

LEMMA InvestigateShape ==
  ASSUME TypeOK, Owned, NEW t \in Threads, Investigate(t)
  PROVE  \E x : Thinks(t, x)
<1> DEFINE p == After(t, "INVESTIGATING", "gather")
           x == [run[t] EXCEPT !.pc = p, !.fsm = "DECIDING", !.depth = run[t].depth + 1]
<1>1. run[t] \in Run /\ run[t].pc = "begin" /\ run[t].depth < MaxDepth
  BY DEF TypeOK, Owned, Owns, Investigate, At
<1>2. p \in {"gather", "raised"} BY DEF After
<1>3. run[t].depth + 1 \in 0..MaxDepth BY <1>1 DEF Run
<1> HIDE DEF p
<1>4. x \in Run BY <1>1, <1>2, <1>3 DEF Run, FsmStates
<1>5. run' = [run EXCEPT ![t] = x] BY DEF Investigate, TypeOK, p
<1>6. x.pc = p /\ x.event = run[t].event /\ Books(x) = Books(run[t])
  BY <1>1 DEF Run, Books
<1>7. Local BY DEF Investigate
<1> QED BY <1>1, <1>2, <1>4, <1>5, <1>6, <1>7 DEF Thinks, Becomes, Passes

LEMMA GatherShape ==
  ASSUME TypeOK, Owned, NEW t \in Threads, Gather(t)
  PROVE  \E x : Thinks(t, x)
<1> DEFINE f == [s \in Stages |-> IF run[t].found[s] = 0 THEN 1 ELSE run[t].found[s]]
           x == [run[t] EXCEPT !.pc = "rag", !.found = f]
<1>1. run[t] \in Run /\ run[t].pc = "gather" BY DEF TypeOK, Gather, At
<1>2. f \in [Stages -> 0..MaxDepth] BY <1>1 DEF Run
<1>3. run' = [run EXCEPT ![t] = x] BY DEF Gather, TypeOK
<1> HIDE DEF f
<1>4. x \in Run BY <1>1, <1>2 DEF Run
<1>5. x.pc = "rag" /\ x.event = run[t].event /\ Books(x) = Books(run[t])
  BY <1>1 DEF Run, Books
<1> QED BY <1>1, <1>3, <1>4, <1>5 DEF Thinks, Becomes, Passes, Gather

LEMMA Found ==
  ASSUME TypeOK, NEW t \in Threads, NEW p \in {"kpi", "reason", "evaluate"},
         NEW c \in Causes, NEW n \in 0..3, NEW s \in BOOLEAN, NEW h \in BOOLEAN,
         run[t].pc \in {"rag", "kpi", "reason"}, Local,
         run' = [run EXCEPT ![t] = [run[t] EXCEPT !.pc = p, !.cause = c, !.sure = s,
                                                  !.evidence = n, !.human = h]]
  PROVE  \E x : Thinks(t, x)
<1> DEFINE x == [run[t] EXCEPT !.pc = p, !.cause = c, !.sure = s, !.evidence = n, !.human = h]
<1>1. run[t] \in Run BY DEF TypeOK
<1>2. x \in Run BY <1>1 DEF Run
<1>3. x.pc = p /\ x.event = run[t].event /\ Books(x) = Books(run[t])
  BY <1>1 DEF Run, Books
<1> QED BY <1>2, <1>3 DEF Thinks, Becomes, Passes

LEMMA GotoShape ==
  ASSUME TypeOK, NEW t \in Threads, NEW p \in {"kpi", "evaluate", "raised"},
         run[t].pc \in {"begin", "rag", "reason"}, Local, Goto(t, p)
  PROVE  \E x : Thinks(t, x)
<1> DEFINE x == [run[t] EXCEPT !.pc = p]
<1>1. run[t] \in Run BY DEF TypeOK
<1>2. x \in Run BY <1>1 DEF Run
<1>3. x.pc = p /\ x.event = run[t].event /\ Books(x) = Books(run[t])
  BY <1>1 DEF Run, Books
<1>4. run' = [run EXCEPT ![t] = x] BY DEF Goto, TypeOK
<1> QED BY <1>2, <1>3, <1>4 DEF Thinks, Becomes, Passes

LEMMA RagShape ==
  ASSUME TypeOK, NEW t \in Threads, Rag(t)
  PROVE  \E x : Thinks(t, x)
<1>1. run[t] \in Run /\ run[t].pc = "rag" /\ Local BY DEF TypeOK, Rag, At
<1>2. CASE Goto(t, "kpi") BY <1>1, <1>2, GotoShape
<1>3. ASSUME NEW o \in RagOutcomes,
             run' = [run EXCEPT ![t].pc = "kpi",
                                ![t].cause = IF o.cause THEN "rag" ELSE @,
                                ![t].sure = @ \/ (o.cause /\ o.sure),
                                ![t].evidence = AtMostThree(@ + o.evidence),
                                ![t].human = @ \/ o.human]
      PROVE  \E x : Thinks(t, x)
  <2> DEFINE c == IF o.cause THEN "rag" ELSE run[t].cause
             n == AtMostThree(run[t].evidence + o.evidence)
             s == run[t].sure \/ (o.cause /\ o.sure)
             h == run[t].human \/ o.human
  <2>1. o.evidence \in 0..3 BY DEF Outcome
  <2>2. n \in 0..3 BY <1>1, <2>1 DEF Run, AtMostThree
  <2>3. c \in Causes BY <1>1 DEF Run, Causes
  <2>4. s \in BOOLEAN /\ h \in BOOLEAN BY Zenon
  <2>5. run' = [run EXCEPT ![t] = [run[t] EXCEPT !.pc = "kpi", !.cause = c, !.sure = s,
                                                  !.evidence = n, !.human = h]]
    BY <1>3 DEF TypeOK
  <2> HIDE DEF c, n, s, h
  <2> QED BY <1>1, <2>2, <2>3, <2>4, <2>5, Found
<1> QED BY <1>2, <1>3 DEF Rag

LEMMA KpiShape ==
  ASSUME TypeOK, NEW t \in Threads, KpiPass(t)
  PROVE  \E x : Thinks(t, x)
<1>1. run[t] \in Run /\ run[t].pc = "kpi" /\ Local BY DEF TypeOK, KpiPass, At
<1>2. PICK o \in KpiOutcomes :
        run' = [run EXCEPT ![t].pc = "reason",
                           ![t].cause = IF o.cause /\ @ = "none" THEN "kpi_analysis" ELSE @,
                           ![t].sure = @ \/ o.sure,
                           ![t].evidence = AtMostThree(@ + o.evidence)]
  BY DEF KpiPass
<1> DEFINE c == IF o.cause /\ run[t].cause = "none" THEN "kpi_analysis" ELSE run[t].cause
           n == AtMostThree(run[t].evidence + o.evidence)
           s == run[t].sure \/ o.sure
<1>3. o.evidence \in 0..3 BY DEF Outcome
<1>4. c \in Causes /\ n \in 0..3 /\ s \in BOOLEAN /\ run[t].human \in BOOLEAN
  BY <1>1, <1>3 DEF Run, Causes, AtMostThree
<1>5. run' = [run EXCEPT ![t] = [run[t] EXCEPT !.pc = "reason", !.cause = c, !.sure = s,
                                               !.evidence = n]]
  BY <1>2 DEF TypeOK
<1> HIDE DEF c, n, s
<1>6. run' = [run EXCEPT ![t] = [run[t] EXCEPT !.pc = "reason", !.cause = c, !.sure = s,
                                               !.evidence = n, !.human = run[t].human]]
  BY <1>1, <1>5 DEF Run
<1> QED BY <1>1, <1>4, <1>6, Found

LEMMA ReasonShape ==
  ASSUME TypeOK, NEW t \in Threads, Reason(t)
  PROVE  \E x : Thinks(t, x)
<1>1. run[t] \in Run /\ run[t].pc = "reason" /\ Local BY DEF TypeOK, Reason, At
<1>2. CASE Goto(t, "evaluate") BY <1>1, <1>2, GotoShape
<1>3. ASSUME NEW sure \in BOOLEAN,
             run' = [run EXCEPT ![t].pc = "evaluate", ![t].cause = "llm_reasoning",
                                ![t].sure = @ \/ sure]
      PROVE  \E x : Thinks(t, x)
  <2> DEFINE s == run[t].sure \/ sure
  <2>1. s \in BOOLEAN /\ run[t].evidence \in 0..3 /\ run[t].human \in BOOLEAN
    BY <1>1 DEF Run
  <2>2. run' = [run EXCEPT ![t] = [run[t] EXCEPT !.pc = "evaluate", !.cause = "llm_reasoning",
                                                  !.sure = s, !.evidence = run[t].evidence,
                                                  !.human = run[t].human]]
    BY ZenonT(60), <1>1, <1>3 DEF TypeOK, Run
  <2> HIDE DEF s
  <2>3. "llm_reasoning" \in Causes BY DEF Causes
  <2> QED BY <1>1, <2>1, <2>2, <2>3, Found
<1> QED BY <1>2, <1>3 DEF Reason

LEMMA EvaluateShape ==
  ASSUME TypeOK, NEW t \in Threads, Evaluate(t)
  PROVE  \E x : Thinks(t, x)
<1> DEFINE over == run[t].depth >= MaxDepth
           p == IF over \/ Resolved(run[t]) THEN "finalize" ELSE "begin"
           h == run[t].human \/ over
           x == [run[t] EXCEPT !.pc = p, !.human = h]
<1>1. run[t] \in Run /\ run[t].pc = "evaluate" /\ Local BY DEF TypeOK, Evaluate, At
<1>2. h \in BOOLEAN /\ p \in {"finalize", "begin"} BY <1>1
<1>3. p = "begin" => run[t].depth < MaxDepth BY <1>1 DEF Run
<1>4. run' = [run EXCEPT ![t] = x] BY DEF Evaluate, TypeOK
<1> HIDE DEF over, p, h
<1>5. x \in Run BY <1>1, <1>2 DEF Run
<1>6. /\ x.pc = p /\ x.event = run[t].event /\ x.depth = run[t].depth
      /\ Books(x) = Books(run[t])
  BY <1>1 DEF Run, Books
<1> QED BY <1>1, <1>2, <1>3, <1>4, <1>5, <1>6 DEF Thinks, Becomes, Passes

Pass(t) ==
  \/ Investigate(t) \/ DecideFails(t) \/ Gather(t) \/ Rag(t) \/ KpiPass(t)
  \/ Reason(t) \/ Evaluate(t)

LEMMA PassShape ==
  ASSUME TypeOK, Owned, NEW t \in Threads, Pass(t)
  PROVE  \E x : Thinks(t, x)
<1>1. CASE DecideFails(t) BY <1>1, GotoShape DEF DecideFails, At
<1> QED BY <1>1, InvestigateShape, GatherShape, RagShape, KpiShape, ReasonShape, EvaluateShape
        DEF Pass

-----------------------------------------------------------------------------
(* Typing and ownership. *)

LEMMA RestTyped == Rest \in Run
<1>1. 0 \in 0..MaxEvents /\ 0 \in 0..MaxDepth /\ 1 \in 1..(Len(Plan) + 1)
  OBVIOUS
<1>2. [s \in Stages |-> 0] \in [Stages -> 0..MaxDepth] OBVIOUS
<1> QED BY <1>1, <1>2 DEF Rest, Run, FsmStates, Causes

LEMMA FateTyped ==
  ASSUME EventType, NEW e \in EventIds, NEW f \in Fates, Fate(e, f)
  PROVE  /\ EventType' /\ event'[e].fate = f /\ Key(e)' = Key(e)
         /\ event'[e].manual = event[e].manual
         /\ \A d \in EventIds : d # e => event'[d] = event[d] /\ Key(d)' = Key(d)
  BY DEF EventType, Event, Fate, Key

(* A thread that keeps its event. *)
LEMMA KeepsOwned ==
  ASSUME RunType, EventType, Owned, NEW t \in Threads, NEW x, Becomes(t, x),
         run[t].pc # "idle", x.pc # "idle", x.event = run[t].event, NEW f \in Fates,
         \/ UNCHANGED event /\ f = event[run[t].event].fate
         \/ Fate(run[t].event, f),
         x.pc \in {"check", "publish"} => f = "new" /\ x.depth = 0,
         x.pc \in Passes \cup Acts \cup {"raised"} => f = "open",
         x.pc = "begin" => x.depth < MaxDepth
  PROVE  RunType' /\ EventType' /\ Owned'
<1> DEFINE e == run[t].event
<1>1. e \in EventIds BY DEF Owned, Owns
<1>2. /\ EventType' /\ event'[e].fate = f
      /\ \A d \in EventIds : d # e => event'[d] = event[d]
  BY <1>1, FateTyped DEF EventType
<1>3. RunType' /\ run'[t] = x /\ \A u \in Threads : u # t => run'[u] = run[u]
  BY DEF RunType, Becomes
<1>4. Owns(t)' BY <1>1, <1>2, <1>3 DEF Owns
<1>5. ASSUME NEW u \in Threads, u # t PROVE Owns(u)' /\ Alone(t, u)' /\ Alone(u, t)'
  <2>1. Owns(u) /\ Alone(t, u) /\ run'[u] = run[u] BY <1>3, <1>5 DEF Owned
  <2>2. run[u].pc # "idle" => event'[run[u].event] = event[run[u].event]
    BY <1>2, <2>1 DEF Owns, Alone
  <2>3. Owns(u)' BY <2>1, <2>2 DEF Owns, Passes, Acts
  <2> QED BY <1>3, <2>1, <2>3 DEF Alone
<1>6. ASSUME NEW u \in Threads, NEW v \in Threads, u # v PROVE Alone(u, v)'
  <2>1. CASE u # t /\ v # t BY <1>3, <1>6, <2>1 DEF Owned, Alone
  <2> QED BY <1>5, <1>6, <2>1
<1> QED BY <1>2, <1>3, <1>4, <1>5, <1>6 DEF Owned

(* A thread that lets its event go. *)
LEMMA LeavesOwned ==
  ASSUME RunType, EventType, Owned, NEW t \in Threads, run[t].pc # "idle",
         run' = [run EXCEPT ![t] = Rest], NEW f \in Fates, Fate(run[t].event, f)
  PROVE  RunType' /\ EventType' /\ Owned'
<1> DEFINE e == run[t].event
<1>1. e \in EventIds BY DEF Owned, Owns
<1>2. EventType' /\ \A d \in EventIds : d # e => event'[d] = event[d]
  BY <1>1, FateTyped
<1>3. RunType' /\ run'[t] = Rest /\ \A u \in Threads : u # t => run'[u] = run[u]
  BY RestTyped DEF RunType
<1>4. Rest.pc = "idle" BY DEF Rest
<1>5. Owns(t)' BY <1>3, <1>4 DEF Owns, Passes, Acts
<1>6. ASSUME NEW u \in Threads, u # t PROVE Owns(u)'
  <2>1. Owns(u) /\ Alone(t, u) /\ run'[u] = run[u] BY <1>3, <1>6 DEF Owned
  <2>2. run[u].pc # "idle" => event'[run[u].event] = event[run[u].event]
    BY <1>2, <2>1 DEF Owns, Alone
  <2> QED BY <2>1, <2>2 DEF Owns, Passes, Acts
<1>7. \A u, v \in Threads : u # v => Alone(u, v)' BY <1>3, <1>4 DEF Owned, Alone
<1> QED BY <1>2, <1>3, <1>5, <1>6, <1>7 DEF Owned

(* A thread that takes on a new event. *)
Takes(t, e, x, v) ==
  /\ run[t].pc = "idle" /\ e \in EventIds /\ event[e].fate = "none"
  /\ v \in Event /\ v.fate = "new" /\ event' = [event EXCEPT ![e] = v]
  /\ x.event = e /\ x.depth = 0 /\ x.pc = (IF v.manual THEN "publish" ELSE "check")
  /\ Books(x) = Books(Rest) /\ Becomes(t, x)
  /\ UNCHANGED <<claimed, row, approval, called, sensitive, deaths>>

LEMMA TakesOwned ==
  ASSUME RunType, EventType, Owned, NEW t \in Threads, NEW e, NEW x, NEW v, Takes(t, e, x, v)
  PROVE  RunType' /\ EventType' /\ Owned'
<1>1. /\ EventType' /\ event'[e] = v
      /\ \A d \in EventIds : d # e => event'[d] = event[d]
  BY DEF Takes, EventType
<1>2. RunType' /\ run'[t] = x /\ \A u \in Threads : u # t => run'[u] = run[u]
  BY DEF Takes, RunType, Becomes
<1>3. Owns(t)' BY <1>1, <1>2 DEF Owns, Takes, Passes, Acts
<1>4. ASSUME NEW u \in Threads, u # t PROVE Owns(u)' /\ Alone(t, u)' /\ Alone(u, t)'
  <2>1. Owns(u) /\ run'[u] = run[u] BY <1>2, <1>4 DEF Owned
  <2>2. run[u] \in Run BY DEF RunType
  <2>3. run[u].pc # "idle" =>
          run[u].pc \in {"check", "publish"} \cup Passes \cup Acts \cup {"raised"}
    BY <2>2 DEF Run, Passes, Acts
  <2>4. run[u].pc # "idle" => run[u].event # e BY <2>1, <2>3 DEF Owns, Takes
  <2>5. run[u].pc # "idle" => event'[run[u].event] = event[run[u].event]
    BY <1>1, <2>1, <2>4 DEF Owns
  <2>6. Owns(u)' BY <2>1, <2>5 DEF Owns, Passes, Acts
  <2> QED BY <1>2, <2>1, <2>4, <2>6 DEF Alone, Takes
<1>5. ASSUME NEW u \in Threads, NEW w \in Threads, u # w PROVE Alone(u, w)'
  <2>1. CASE u # t /\ w # t BY <1>2, <1>5, <2>1 DEF Owned, Alone
  <2> QED BY <1>4, <1>5, <2>1
<1> QED BY <1>1, <1>2, <1>3, <1>4, <1>5 DEF Owned

LEMMA CreateShape ==
  ASSUME TypeOK, NEW t \in Threads, NEW h \in MetricHours, NEW sev \in Severities,
         Detect(t, h, sev) \/ Trigger(t, h, sev)
  PROVE  \E e, x, v : Takes(t, e, x, v)
<1>1. PICK manual \in BOOLEAN : Create(t, h, sev, manual) BY DEF Detect, Trigger
<1>2. /\ run[t].pc = "idle"
      /\ UNCHANGED <<claimed, row, approval, called, sensitive, deaths>>
  BY DEF Detect, Trigger, At
<1>3. PICK e \in EventIds :
        /\ event[e].fate = "none"
        /\ event' = [event EXCEPT ![e] = [hour |-> h, severity |-> sev, manual |-> manual,
                                          fate |-> "new"]]
        /\ run' = [run EXCEPT ![t] = [Rest EXCEPT !.pc = IF manual THEN "publish" ELSE "check",
                                                  !.event = e]]
  BY <1>1 DEF Create
<1> DEFINE v == [hour |-> h, severity |-> sev, manual |-> manual, fate |-> "new"]
           p == IF manual THEN "publish" ELSE "check"
           x == [Rest EXCEPT !.pc = p, !.event = e]
<1>4. v \in Event
  <2>1. "new" \in Fates /\ h \in MetricHours \cup {"none"}
    BY DEF Fates
  <2> QED BY <2>1, Zenon DEF Event
<1>5. p \in {"publish", "check"} /\ run' = [run EXCEPT ![t] = x] BY <1>3
<1>6. v.manual = manual /\ v.fate = "new" /\ event' = [event EXCEPT ![e] = v] BY <1>3
<1>7. p = IF v.manual THEN "publish" ELSE "check" BY <1>6
<1> HIDE DEF v, p
<1>8. e \in 0..MaxEvents BY DEF EventIds
<1>9. x \in Run BY <1>5, <1>8, RestTyped DEF Run
<1>10. x.event = e /\ x.depth = 0 /\ Books(x) = Books(Rest) /\ x.pc = p
  BY DEF Rest, Books
<1> HIDE DEF x
<1>11. Takes(t, e, x, v)
  BY <1>2, <1>3, <1>4, <1>5, <1>6, <1>7, <1>9, <1>10 DEF Takes, Becomes
<1> QED BY <1>11, Zenon

-----------------------------------------------------------------------------
(* The other steps of a thread. *)

(* An incident is decided: from now on only its books change. *)
Decides(t, x) ==
  /\ run[t].pc = "finalize" /\ x.pc \in {"act", "raised"} /\ x.event = run[t].event
  /\ x.pos = run[t].pos /\ x.executed = run[t].executed /\ x.skipped = run[t].skipped
  /\ x.pending = run[t].pending /\ Becomes(t, x)
  /\ sensitive' \in {sensitive, sensitive \cup {run[t].event}}
  /\ sensitive' # sensitive => x.gate
  /\ UNCHANGED <<event, claimed, row, approval, called, deaths>>

LEMMA FinalizeShape ==
  ASSUME TypeOK, NEW t \in Threads, Finalize(t)
  PROVE  \E x : Decides(t, x)
<1>1. PICK outcome \in {"free", "approval", "failed"} :
        /\ run' = [run EXCEPT ![t].pc = After(t, "COMPLETE", "act"), ![t].fsm = "COMPLETE",
                     ![t].gate = GateShut(run[t].human, outcome)]
        /\ sensitive' = IF Enforced /\ (run[t].human \/ outcome # "free")
                          THEN sensitive \cup {run[t].event} ELSE sensitive
  BY DEF Finalize
<1> DEFINE p == After(t, "COMPLETE", "act")
           g == GateShut(run[t].human, outcome)
           x == [run[t] EXCEPT !.pc = p, !.fsm = "COMPLETE", !.gate = g]
<1>2. run[t] \in Run /\ run[t].pc = "finalize" BY DEF TypeOK, Finalize, At
<1>3. p \in {"act", "raised"} BY DEF After
<1>4. g \in BOOLEAN BY Zenon DEF GateShut, ApprovalRequired
<1>5. g <=> Enforced /\ (run[t].human \/ outcome # "free")
  BY Zenon DEF GateShut, ApprovalRequired
<1>6. run' = [run EXCEPT ![t] = x] BY <1>1 DEF TypeOK
<1> HIDE DEF p, g
<1>7. x \in Run BY <1>2, <1>3, <1>4 DEF Run, FsmStates
<1>8. /\ x.pc = p /\ x.event = run[t].event /\ x.pos = run[t].pos
      /\ x.executed = run[t].executed /\ x.skipped = run[t].skipped
      /\ x.pending = run[t].pending
  BY <1>2 DEF Run
<1>9. x.gate = g BY <1>2, Zenon DEF Run
<1>10. /\ sensitive' \in {sensitive, sensitive \cup {run[t].event}}
       /\ sensitive' # sensitive => g
  BY <1>1, <1>5
<1> HIDE DEF x
<1>11. Decides(t, x)
  BY <1>2, <1>3, <1>6, <1>7, <1>8, <1>9, <1>10 DEF Decides, Becomes, Finalize
<1> QED BY <1>11, Zenon

(* One step s of the runbook is over, whichever way. *)
StepBooks(t, x, s) ==
  LET r == run[t] IN
  \/ /\ r.gate /\ Gated(s) /\ UNCHANGED called
     /\ x.executed = r.executed /\ x.skipped = r.skipped \cup {s}
     /\ x.pending = r.pending \cup {s}
  \/ /\ ~(r.gate /\ Gated(s)) /\ called' = called \cup {<<r.event, s>>}
     /\ x.executed = r.executed \cup {s} /\ x.skipped = r.skipped /\ x.pending = r.pending
  \/ /\ ~(r.gate /\ Gated(s)) /\ called' = called \cup {<<r.event, s>>}
     /\ x.executed = r.executed /\ x.skipped = r.skipped \cup {s} /\ x.pending = r.pending
  \/ /\ UNCHANGED called
     /\ x.executed = r.executed /\ x.skipped = r.skipped \cup {s} /\ x.pending = r.pending

Works(t, x) ==
  /\ run[t].pc = "act" /\ run[t].pos <= Len(Plan)
  /\ x.pc = "act" /\ x.event = run[t].event /\ x.gate = run[t].gate
  /\ x.pos = run[t].pos + 1 /\ StepBooks(t, x, StepOf(t)) /\ Becomes(t, x)
  /\ UNCHANGED <<event, claimed, row, approval, sensitive, deaths>>

LEMMA NextStep ==
  ASSUME TypeOK, NEW t \in Threads, Acting(t)
  PROVE  /\ run[t] \in Run /\ run[t].pc = "act" /\ run[t].pos <= Len(Plan)
         /\ StepOf(t) \in StepSet /\ run[t].pos + 1 \in 1..(Len(Plan) + 1)
<1>1. run[t] \in Run /\ run[t].pc = "act" /\ run[t].pos <= Len(Plan)
  BY DEF TypeOK, Acting, At
<1>2. run[t].pos \in 1..(Len(Plan) + 1) BY <1>1 DEF Run
<1>3. Len(Plan) \in Nat BY Constants
<1>4. run[t].pos \in 1..Len(Plan) /\ run[t].pos + 1 \in 1..(Len(Plan) + 1)
  BY <1>1, <1>2, <1>3
<1>5. StepOf(t) \in StepSet BY <1>4 DEF StepOf, StepSet
<1> QED BY <1>1, <1>4, <1>5

LEMMA WorkShape ==
  ASSUME TypeOK, NEW t \in Threads, Withhold(t) \/ RunStep(t) \/ SkipEmail(t)
  PROVE  \E x : Works(t, x)
<1> DEFINE r == run[t]
           s == StepOf(t)
<1>1. Acting(t) BY DEF Withhold, RunStep, SkipEmail
<1>2. /\ r \in Run /\ r.pc = "act" /\ r.pos <= Len(Plan) /\ s \in StepSet
      /\ r.pos + 1 \in 1..(Len(Plan) + 1)
  BY <1>1, NextStep
<1>3. /\ r.executed \cup {s} \subseteq StepSet /\ r.skipped \cup {s} \subseteq StepSet
      /\ r.pending \cup {s} \subseteq StepSet
  BY <1>2 DEF Run
<1>4. CASE Withhold(t)
  <2> DEFINE x == [r EXCEPT !.pos = r.pos + 1, !.pending = r.pending \cup {s},
                             !.skipped = r.skipped \cup {s}]
  <2>1. x \in Run BY <1>2, <1>3 DEF Run
  <2>2. /\ x.pc = "act" /\ x.event = r.event /\ x.gate = r.gate /\ x.pos = r.pos + 1
        /\ x.executed = r.executed /\ x.skipped = r.skipped \cup {s} /\ x.pending = r.pending \cup {s}
    BY <1>2 DEF Run
  <2>3. run' = [run EXCEPT ![t] = x] BY <1>4 DEF Withhold, TypeOK
  <2> HIDE DEF x
  <2>4. StepBooks(t, x, s) BY <1>4, <2>2 DEF StepBooks, Withhold, Local
  <2>5. Works(t, x) BY <1>2, <1>4, <2>1, <2>2, <2>3, <2>4 DEF Works, Becomes, Withhold, Local
  <2> QED BY <2>5, Zenon
<1>5. CASE RunStep(t)
  <2>1. CASE run' = [run EXCEPT ![t].pos = @ + 1, ![t].executed = @ \cup {s}]
    <3> DEFINE x == [r EXCEPT !.pos = r.pos + 1, !.executed = r.executed \cup {s}]
    <3>1. x \in Run BY <1>2, <1>3 DEF Run
    <3>2. /\ x.pc = "act" /\ x.event = r.event /\ x.gate = r.gate /\ x.pos = r.pos + 1
          /\ x.executed = r.executed \cup {s} /\ x.skipped = r.skipped /\ x.pending = r.pending
      BY <1>2 DEF Run
    <3>3. run' = [run EXCEPT ![t] = x] BY <2>1 DEF TypeOK
    <3> HIDE DEF x
    <3>4. StepBooks(t, x, s) BY <1>5, <3>2 DEF StepBooks, RunStep
    <3>5. Works(t, x) BY <1>2, <1>5, <3>1, <3>2, <3>3, <3>4 DEF Works, Becomes, RunStep
    <3> QED BY <3>5, Zenon
  <2>2. CASE run' = [run EXCEPT ![t].pos = @ + 1, ![t].skipped = @ \cup {s}]
    <3> DEFINE x == [r EXCEPT !.pos = r.pos + 1, !.skipped = r.skipped \cup {s}]
    <3>1. x \in Run BY <1>2, <1>3 DEF Run
    <3>2. /\ x.pc = "act" /\ x.event = r.event /\ x.gate = r.gate /\ x.pos = r.pos + 1
          /\ x.executed = r.executed /\ x.skipped = r.skipped \cup {s} /\ x.pending = r.pending
      BY <1>2 DEF Run
    <3>3. run' = [run EXCEPT ![t] = x] BY <2>2 DEF TypeOK
    <3> HIDE DEF x
    <3>4. StepBooks(t, x, s) BY <1>5, <3>2 DEF StepBooks, RunStep
    <3>5. Works(t, x) BY <1>2, <1>5, <3>1, <3>2, <3>3, <3>4 DEF Works, Becomes, RunStep
    <3> QED BY <3>5, Zenon
  <2> QED BY <1>5, <2>1, <2>2 DEF RunStep
<1>6. CASE SkipEmail(t)
  <2>0. s = "email" BY <1>6 DEF SkipEmail
  <2> DEFINE x == [r EXCEPT !.pos = r.pos + 1, !.skipped = r.skipped \cup {s}]
  <2>1. x \in Run BY <1>2, <1>3 DEF Run
  <2>2. /\ x.pc = "act" /\ x.event = r.event /\ x.gate = r.gate /\ x.pos = r.pos + 1
        /\ x.executed = r.executed /\ x.skipped = r.skipped \cup {s} /\ x.pending = r.pending
    BY <1>2 DEF Run
  <2>3. run' = [run EXCEPT ![t] = x] BY <1>6, <2>0 DEF SkipEmail, TypeOK
  <2> HIDE DEF x
  <2>4. StepBooks(t, x, s) BY <1>6, <2>2 DEF StepBooks, SkipEmail, Local
  <2>5. Works(t, x) BY <1>2, <1>6, <2>1, <2>2, <2>3, <2>4 DEF Works, Becomes, SkipEmail, Local
  <2> QED BY <2>5, Zenon
<1> QED BY <1>4, <1>5, <1>6

LEMMA PersistShape ==
  ASSUME TypeOK, Owned, NEW t \in Threads, Persist(t)
  PROVE  /\ run[t].pc = "act" /\ run[t].pos = Len(Plan) + 1
         /\ \E x : /\ x.pc = "approve" /\ x.event = run[t].event
                   /\ Books(x) = Books(run[t]) /\ Becomes(t, x)
         /\ row' \in [EventIds -> Row]
         /\ \A e \in EventIds : e # run[t].event => row'[e] = row[e]
         /\ \/ UNCHANGED row
            \/ /\ row'[run[t].event].executed = run[t].executed
               /\ row'[run[t].event].skipped = run[t].skipped
<1> DEFINE x == [run[t] EXCEPT !.pc = "approve"]
           w == [present |-> TRUE, executed |-> run[t].executed,
                 skipped |-> run[t].skipped, human |-> run[t].human]
<1>1. run[t] \in Run /\ run[t].pc = "act" /\ run[t].event \in EventIds
  BY DEF TypeOK, Persist, At, Owned, Owns
<1>2. run[t].pos = Len(Plan) + 1 BY <1>1 DEF Persist, Acting, At, Run
<1>3. x \in Run BY <1>1 DEF Run
<1>4. x.pc = "approve" /\ x.event = run[t].event /\ Books(x) = Books(run[t])
  BY <1>1 DEF Run, Books
<1>5. run' = [run EXCEPT ![t] = x] BY DEF Persist, Goto, TypeOK
<1>6. w \in Row BY <1>1 DEF Run, Row
<1>7. w.executed = run[t].executed /\ w.skipped = run[t].skipped OBVIOUS
<1>8. row' = [row EXCEPT ![run[t].event] = w] \/ UNCHANGED row BY DEF Persist
<1> HIDE DEF x, w
<1>9. /\ row' \in [EventIds -> Row]
      /\ \A e \in EventIds : e # run[t].event => row'[e] = row[e]
      /\ UNCHANGED row \/ row'[run[t].event] = w
  BY <1>1, <1>6, <1>8 DEF TypeOK
<1> QED BY <1>1, <1>2, <1>3, <1>4, <1>5, <1>7, <1>9 DEF Becomes

(* Claim and HandleEvent. *)
Announces(t, x) ==
  /\ x.event = run[t].event /\ x.depth = run[t].depth /\ Books(x) = Books(run[t])
  /\ Becomes(t, x)

LEMMA AnnounceShape ==
  ASSUME TypeOK, NEW t \in Threads
  PROVE  /\ Claim(t) => \E x : Announces(t, x) /\ x.pc = "publish"
         /\ HandleEvent(t) => \E x : Announces(t, x) /\ x.pc = "begin"
<1>1. run[t] \in Run BY DEF TypeOK
<1>2. ASSUME Claim(t) PROVE \E x : Announces(t, x) /\ x.pc = "publish"
  <2> DEFINE x == [run[t] EXCEPT !.pc = "publish"]
  <2>1. x \in Run BY <1>1 DEF Run
  <2>2. /\ x.event = run[t].event /\ x.depth = run[t].depth /\ x.pc = "publish"
        /\ Books(x) = Books(run[t])
    BY <1>1 DEF Run, Books
  <2>3. run' = [run EXCEPT ![t] = x] BY <1>2 DEF Claim, Goto, TypeOK
  <2> HIDE DEF x
  <2>4. Announces(t, x) BY <2>1, <2>2, <2>3 DEF Announces, Becomes
  <2> QED BY <2>2, <2>4
<1>3. ASSUME HandleEvent(t) PROVE \E x : Announces(t, x) /\ x.pc = "begin"
  <2> DEFINE x == [run[t] EXCEPT !.pc = "begin", !.fsm = "EVENT_RECEIVED"]
  <2>1. x \in Run BY <1>1 DEF Run, FsmStates
  <2>2. /\ x.event = run[t].event /\ x.depth = run[t].depth /\ x.pc = "begin"
        /\ Books(x) = Books(run[t])
    BY <1>1 DEF Run, Books
  <2>3. run' = [run EXCEPT ![t] = x] BY <1>3 DEF HandleEvent, TypeOK
  <2> HIDE DEF x
  <2>4. Announces(t, x) BY <2>1, <2>2, <2>3 DEF Announces, Becomes
  <2> QED BY <2>2, <2>4
<1> QED BY <1>2, <1>3

(* A thread gives its event up: Suppress, DropOnRedisError, Swallow, Die.    *)
GivesUp(t, f) ==
  /\ run[t].pc # "idle" /\ Fate(run[t].event, f)
  /\ f \in {"suppressed", "dropped", "raised", "dead"}
  /\ f \in {"raised", "dead"} <=> event[run[t].event].fate = "open"
  /\ run' = [run EXCEPT ![t] = Rest]
  /\ deaths' \in 0..MaxDeaths
  /\ claimed \subseteq claimed' /\ claimed' \subseteq Keys
  /\ UNCHANGED <<row, approval, called, sensitive>>

LEMMA GiveUpShape ==
  ASSUME TypeOK, Owned, NEW t \in Threads,
         Suppress(t) \/ DropOnRedisError(t) \/ Swallow(t) \/ Die(t)
  PROVE  \E f : GivesUp(t, f)
<1>0. claimed \subseteq Keys BY DEF TypeOK, Keys
<1>1. CASE Suppress(t)
  <2>1. GivesUp(t, "suppressed") BY <1>0, <1>1 DEF Suppress, At, GivesUp, TypeOK, Owned, Owns
  <2> QED BY <2>1
<1>2. CASE DropOnRedisError(t)
  <2>1. Key(run[t].event) \in Keys
    BY <1>2 DEF DropOnRedisError, At, Owned, Owns, TypeOK, Event, Key, Keys
  <2>2. claimed \subseteq claimed' /\ claimed' \subseteq Keys
    BY <1>0, <1>2, <2>1 DEF DropOnRedisError
  <2>3. run[t].pc = "check" /\ event[run[t].event].fate # "open"
    BY <1>2 DEF DropOnRedisError, At, Owned, Owns
  <2>4. GivesUp(t, "dropped") BY <1>2, <2>2, <2>3 DEF DropOnRedisError, GivesUp, TypeOK
  <2> QED BY <2>4
<1>3. CASE Swallow(t)
  <2>1. event[run[t].event].fate = "open" BY <1>3 DEF Swallow, At, Owned, Owns
  <2>2. GivesUp(t, "raised") BY <1>0, <1>3, <2>1 DEF Swallow, At, GivesUp, TypeOK
  <2> QED BY <2>2
<1>4. CASE Die(t)
  <2> DEFINE f == IF event[run[t].event].fate = "open" THEN "dead" ELSE "dropped"
  <2>1. deaths + 1 \in 0..MaxDeaths BY <1>4 DEF Die, TypeOK
  <2>2. /\ run[t].pc # "idle" /\ Fate(run[t].event, f)
        /\ run' = [run EXCEPT ![t] = Rest]
        /\ deaths' = deaths + 1
        /\ UNCHANGED <<claimed, row, approval, called, sensitive>>
    BY <1>4 DEF Die, At
  <2>3. f \in {"dropped", "dead"} /\ (f = "dead" <=> event[run[t].event].fate = "open")
    OBVIOUS
  <2> HIDE DEF f
  <2>4. GivesUp(t, f) BY <1>0, <2>1, <2>2, <2>3 DEF GivesUp
  <2> QED BY <2>4
<1> QED BY <1>1, <1>2, <1>3, <1>4

LEMMA RecordShape ==
  ASSUME TypeOK, Owned, NEW t \in Threads, RecordApproval(t)
  PROVE  /\ run[t].pc = "approve" /\ run[t].event \in EventIds
         /\ Fate(run[t].event, "closed") /\ run' = [run EXCEPT ![t] = Rest]
         /\ approval' \in [EventIds -> Approval]
         /\ \A e \in EventIds : e # run[t].event => approval'[e] = approval[e]
         /\ \/ UNCHANGED approval
            \/ /\ approval'[run[t].event].status = "pending"
               /\ approval'[run[t].event].pending = run[t].pending
<1> DEFINE a == [status |-> "pending", pending |-> run[t].pending]
<1>1. run[t] \in Run /\ run[t].pc = "approve" /\ run[t].event \in EventIds
  BY DEF TypeOK, RecordApproval, At, Owned, Owns
<1>2. a \in Approval BY <1>1 DEF Run, Approval
<1>3. approval' = [approval EXCEPT ![run[t].event] = a] \/ UNCHANGED approval
  BY DEF RecordApproval
<1>4. a.status = "pending" /\ a.pending = run[t].pending OBVIOUS
<1> HIDE DEF a
<1>5. /\ approval' \in [EventIds -> Approval]
      /\ \A e \in EventIds : e # run[t].event => approval'[e] = approval[e]
      /\ UNCHANGED approval \/ approval'[run[t].event] = a
  BY <1>1, <1>2, <1>3 DEF TypeOK
<1> QED BY <1>1, <1>4, <1>5 DEF RecordApproval

-----------------------------------------------------------------------------
(* Reachable states are well typed, and busy threads own their events. *)

LEMMA InitTyped == Init => TypeOK /\ Owned
<1> SUFFICES ASSUME Init PROVE TypeOK /\ Owned
  OBVIOUS
<1>0. "none" \in Fates /\ "MEDIUM" \in Severities
  BY DEF Fates, Severities
<1>1. NoEvent \in Event BY <1>0, Zenon DEF NoEvent, Event
<1>2. NoRow \in Row /\ NoApproval \in Approval
  BY DEF NoRow, Row, NoApproval, Approval
<1>3. RunType /\ EventType BY <1>1, RestTyped DEF Init, RunType, EventType
<1>4. RestType BY <1>2 DEF Init, RestType
<1>5. \A t \in Threads : run[t].pc = "idle" BY DEF Init, Rest
<1>6. Owned BY <1>5 DEF Owned, Owns, Alone, Passes, Acts
<1> QED BY <1>3, <1>4, <1>6, TypeParts

LEMMA StepTyped ==
  ASSUME TypeOK, Owned, [Next]_vars
  PROVE  TypeOK' /\ Owned'
<1>1. RunType /\ EventType /\ RestType BY TypeParts
<1>2. ASSUME RunType', EventType', Owned', RestType' PROVE TypeOK' /\ Owned'
  BY <1>2, TypePartsNext
<1>3. ASSUME UNCHANGED <<claimed, row, approval, called, sensitive, deaths>>
      PROVE  RestType'
  BY <1>1, <1>3 DEF RestType
<1>4. ASSUME UNCHANGED <<event, run>> PROVE RunType' /\ EventType' /\ Owned'
  BY <1>1, <1>4 DEF RunType, EventType, Owned, Owns, Alone, Passes, Acts
<1>5. ASSUME NEW t \in Threads, NEW h \in MetricHours, NEW sev \in Severities,
             Detect(t, h, sev) \/ Trigger(t, h, sev)
      PROVE  TypeOK' /\ Owned'
  <2>1. PICK e, x, v : Takes(t, e, x, v) BY <1>5, CreateShape
  <2> QED BY <1>1, <1>2, <1>3, <2>1, TakesOwned DEF Takes
<1>6. ASSUME NEW t \in Threads, Claim(t) PROVE TypeOK' /\ Owned'
  <2>1. PICK x : Announces(t, x) /\ x.pc = "publish" BY <1>6, AnnounceShape
  <2>2. /\ run[t].pc = "check" /\ run[t].event \in EventIds
        /\ event[run[t].event].fate = "new" /\ run[t].depth = 0
    BY <1>6 DEF Claim, At, Owned, Owns
  <2>3. "new" \in Fates BY DEF Fates
  <2>4. RunType' /\ EventType' /\ Owned'
    BY <1>1, <1>6, <2>1, <2>2, <2>3, KeepsOwned DEF Announces, Claim, Passes, Acts
  <2>5. Key(run[t].event) \in Keys BY <1>1, <2>2 DEF EventType, Event, Key, Keys
  <2>6. RestType' BY <1>1, <1>6, <2>5 DEF RestType, Claim
  <2> QED BY <1>2, <2>4, <2>6
<1>7. ASSUME NEW t \in Threads, HandleEvent(t) PROVE TypeOK' /\ Owned'
  <2>1. PICK x : Announces(t, x) /\ x.pc = "begin" BY <1>7, AnnounceShape
  <2>2. /\ run[t].pc = "publish" /\ run[t].depth = 0
    BY <1>7 DEF HandleEvent, At, Owned, Owns
  <2>3. "open" \in Fates BY DEF Fates, Investigated
  <2>4. RunType' /\ EventType' /\ Owned'
    BY <1>1, <1>7, <2>1, <2>2, <2>3, KeepsOwned DEF Announces, HandleEvent, Passes, Acts
  <2> QED BY <1>2, <1>3, <1>7, <2>4 DEF HandleEvent
<1>8. ASSUME NEW t \in Threads, Suppress(t) \/ DropOnRedisError(t) \/ Swallow(t) \/ Die(t)
      PROVE  TypeOK' /\ Owned'
  <2>1. PICK f : GivesUp(t, f) BY <1>8, GiveUpShape
  <2>2. f \in Fates BY <2>1 DEF GivesUp, Fates, Investigated
  <2>3. RunType' /\ EventType' /\ Owned' BY <1>1, <2>1, <2>2, LeavesOwned DEF GivesUp
  <2>4. RestType' BY <1>1, <2>1 DEF RestType, GivesUp
  <2> QED BY <1>2, <2>3, <2>4
<1>9. ASSUME NEW t \in Threads, Pass(t) PROVE TypeOK' /\ Owned'
  <2>1. PICK x : Thinks(t, x) BY <1>9, PassShape
  <2>2. event[run[t].event].fate = "open" /\ "open" \in Fates
    BY <2>1 DEF Thinks, Owned, Owns, Fates, Investigated
  <2>3. RunType' /\ EventType' /\ Owned'
    BY <1>1, <2>1, <2>2, KeepsOwned DEF Thinks, Local, Passes
  <2> QED BY <1>2, <1>3, <2>1, <2>3 DEF Thinks, Local
<1>10. ASSUME NEW t \in Threads, Finalize(t) PROVE TypeOK' /\ Owned'
  <2>1. PICK x : Decides(t, x) BY <1>10, FinalizeShape
  <2>2. event[run[t].event].fate = "open" /\ "open" \in Fates /\ run[t].event \in EventIds
    BY <2>1 DEF Decides, Owned, Owns, Fates, Investigated, Passes
  <2>3. RunType' /\ EventType' /\ Owned'
    BY <1>1, <2>1, <2>2, KeepsOwned DEF Decides
  <2>4. RestType' BY <1>1, <2>1, <2>2 DEF RestType, Decides
  <2> QED BY <1>2, <2>3, <2>4
<1>11. ASSUME NEW t \in Threads, Withhold(t) \/ RunStep(t) \/ SkipEmail(t)
       PROVE  TypeOK' /\ Owned'
  <2>1. PICK x : Works(t, x) BY <1>11, WorkShape
  <2>2. event[run[t].event].fate = "open" /\ "open" \in Fates /\ run[t].event \in EventIds
    BY <2>1 DEF Works, Owned, Owns, Fates, Investigated, Acts
  <2>3. RunType' /\ EventType' /\ Owned'
    BY <1>1, <2>1, <2>2, KeepsOwned DEF Works
  <2>4. StepOf(t) \in StepSet
    BY <2>1, NextStep DEF Works, Acting, At
  <2>5. called' \subseteq (EventIds \X StepSet)
    BY <1>1, <2>1, <2>2, <2>4 DEF Works, StepBooks, RestType
  <2>6. RestType' BY <1>1, <2>1, <2>5 DEF RestType, Works
  <2> QED BY <1>2, <2>3, <2>6
<1>12. ASSUME NEW t \in Threads, Persist(t) PROVE TypeOK' /\ Owned'
  <2>1. PICK x : /\ x.pc = "approve" /\ x.event = run[t].event
                 /\ Books(x) = Books(run[t]) /\ Becomes(t, x)
    BY <1>12, PersistShape
  <2>2. /\ run[t].pc = "act" /\ row' \in [EventIds -> Row]
    BY <1>12, PersistShape
  <2>3. event[run[t].event].fate = "open" /\ "open" \in Fates
    BY <2>2 DEF Owned, Owns, Fates, Investigated, Acts
  <2>4. RunType' /\ EventType' /\ Owned'
    BY <1>1, <1>12, <2>1, <2>2, <2>3, KeepsOwned DEF Persist
  <2>5. RestType' BY <1>1, <1>12, <2>2 DEF RestType, Persist
  <2> QED BY <1>2, <2>4, <2>5
<1>13. ASSUME NEW t \in Threads, RecordApproval(t) PROVE TypeOK' /\ Owned'
  <2>1. /\ run[t].pc # "idle" /\ Fate(run[t].event, "closed")
        /\ run' = [run EXCEPT ![t] = Rest] /\ approval' \in [EventIds -> Approval]
    BY <1>13, RecordShape
  <2>2. "closed" \in Fates BY DEF Fates, Investigated
  <2>3. RunType' /\ EventType' /\ Owned' BY <1>1, <2>1, <2>2, LeavesOwned
  <2>4. RestType' BY <1>1, <1>13, <2>1 DEF RestType, RecordApproval
  <2> QED BY <1>2, <2>3, <2>4
<1>14. ASSUME NEW e \in EventIds, Release(e) PROVE TypeOK' /\ Owned'
  <2>1. approval[e] \in Approval BY <1>1 DEF RestType
  <2>2. approval' \in [EventIds -> Approval] BY <1>1, <1>14, <2>1 DEF Release, RestType, Approval
  <2>3. approval[e].pending \subseteq StepSet BY <2>1 DEF Approval
  <2>4. RestType' BY <1>1, <1>14, <2>2, <2>3 DEF Release, RestType
  <2> QED BY <1>2, <1>4, <1>14, <2>4 DEF Release
<1>15. CASE UNCHANGED vars BY <1>2, <1>3, <1>4, <1>15 DEF vars
<1> QED BY <1>5, <1>6, <1>7, <1>8, <1>9, <1>10, <1>11, <1>12, <1>13, <1>14, <1>15
        DEF Next, Arrive, ThreadStep, Pass

LEMMA Reachable == Spec => [](TypeOK /\ Owned)
<1>1. Init => TypeOK /\ Owned BY InitTyped
<1>2. TypeOK /\ Owned /\ [Next]_vars => TypeOK' /\ Owned' BY StepTyped
<1> QED BY <1>1, <1>2, PTL DEF Spec

(* Every variable keeps its type: a thread's depth never passes its limit,   *)
(* and no step is called that is not in the runbook.                         *)
THEOREM InvestigationTyped == Spec => []TypeOK
BY Reachable, PTL

-----------------------------------------------------------------------------
(* One investigation for a window. *)

(* The event got past deduplication, or needed no leave. *)
Passed(e) ==
  \/ event[e].fate \in Investigated
  \/ \E t \in Threads : run[t].pc = "publish" /\ run[t].event = e

Automatic(e) == Passed(e) /\ ~event[e].manual

(* The keys of the events that passed are claimed, each by one of them.      *)
Windows ==
  /\ \A e \in EventIds : Automatic(e) => Key(e) \in claimed
  /\ \A e, f \in EventIds : e # f /\ Automatic(e) /\ Automatic(f) => Key(e) # Key(f)

(* Nothing passes but what had passed before. *)
LEMMA NonePasses ==
  ASSUME Windows, claimed \subseteq claimed',
         \A e \in EventIds : Automatic(e)' => Automatic(e) /\ Key(e)' = Key(e)
  PROVE  Windows'
BY DEF Windows

LEMMA WindowsKeptOut ==
  ASSUME Windows, TypeOK, Owned, NEW t \in Threads, NEW f \in Fates, run[t].pc # "idle",
         Fate(run[t].event, f), claimed \subseteq claimed',
         f \in Investigated => Passed(run[t].event),
         \A u \in Threads : run'[u].pc = "publish" => run'[u] = run[u]
  PROVE  Windows'
<1>1. EventType /\ run[t].event \in EventIds BY TypeParts DEF Owned, Owns
<1>2. /\ \A d \in EventIds : Key(d)' = Key(d) /\ event'[d].manual = event[d].manual
      /\ \A d \in EventIds : d # run[t].event => event'[d] = event[d]
      /\ event'[run[t].event].fate = f
  BY <1>1, FateTyped
<1>3. ASSUME NEW e \in EventIds, Automatic(e)' PROVE Automatic(e)
  BY <1>2, <1>3 DEF Automatic, Passed
<1> QED BY <1>2, <1>3, NonePasses

LEMMA InitWindows == Init => Windows
BY DEF Init, Windows, Automatic, Passed, NoEvent, Rest, Investigated

LEMMA StepWindows ==
  ASSUME TypeOK, Owned, Windows, [Next]_vars
  PROVE  Windows'
<1>1. run \in [Threads -> Run] /\ EventType BY DEF TypeOK, EventType
<1>2. ASSUME UNCHANGED event, claimed' = claimed,
             \A u \in Threads : run'[u].pc = "publish" => run'[u] = run[u]
      PROVE  Windows'
  BY <1>2, NonePasses DEF Automatic, Passed, Key
<1>3. ASSUME NEW t \in Threads, NEW x, Becomes(t, x), x.pc # "publish"
      PROVE  \A u \in Threads : run'[u].pc = "publish" => run'[u] = run[u]
  BY <1>1, <1>3 DEF Becomes
<1>4. ASSUME NEW t \in Threads, NEW h \in MetricHours, NEW sev \in Severities,
             Detect(t, h, sev) \/ Trigger(t, h, sev)
      PROVE  Windows'
  <2>1. PICK e, x, v : Takes(t, e, x, v) BY <1>4, CreateShape
  <2>2. /\ e \in EventIds /\ event'[e] = v
        /\ \A d \in EventIds : d # e => event'[d] = event[d]
        /\ run'[t] = x /\ \A u \in Threads : u # t => run'[u] = run[u]
    BY <1>1, <2>1 DEF Takes, Becomes, EventType
  <2>3. ~Automatic(e)'
    <3>1. Investigated \cap {"new", "none"} = {} BY DEF Investigated
    <3>2. \A u \in Threads : run[u].pc = "publish" => run[u].event # e
      BY <2>1 DEF Takes, Owned, Owns
    <3>3. ~v.manual => ~Passed(e)' BY <2>1, <2>2, <3>1, <3>2 DEF Takes, Passed
    <3> QED BY <2>2, <3>3, Zenon DEF Automatic
  <2>4. ASSUME NEW d \in EventIds, d # e, Automatic(d)'
        PROVE  Automatic(d) /\ Key(d)' = Key(d)
    <3>1. x.event = e /\ event'[d] = event[d] BY <2>1, <2>2, <2>4 DEF Takes
    <3>2. Passed(d)' => Passed(d) BY <2>2, <2>4, <3>1 DEF Passed
    <3> QED BY <2>4, <3>1, <3>2 DEF Automatic, Key
  <2>5. claimed' = claimed BY <2>1 DEF Takes
  <2> QED BY <2>3, <2>4, <2>5, NonePasses
<1>5. ASSUME NEW t \in Threads, Claim(t) PROVE Windows'
  <2> DEFINE e == run[t].event
  <2>1. /\ e \in EventIds /\ event' = event /\ Key(e) \notin claimed
        /\ claimed' = claimed \cup {Key(e)}
    BY <1>5 DEF Claim, At, Owned, Owns
  <2>2. \A d \in EventIds : Key(d)' = Key(d) BY <2>1 DEF Key
  <2>3. PICK x : Announces(t, x) BY <1>5, AnnounceShape
  <2>4. run'[t].event = e /\ \A u \in Threads : u # t => run'[u] = run[u]
    BY <1>1, <2>3 DEF Announces, Becomes
  <2>5. \A d \in EventIds : d # e /\ Automatic(d)' => Automatic(d)
    BY <2>1, <2>4 DEF Automatic, Passed
  <2>6. \A d \in EventIds : d # e /\ Automatic(d)' => Key(d) \in claimed /\ Key(d) # Key(e)
    BY <2>1, <2>5 DEF Windows
  <2> QED BY <2>1, <2>2, <2>5, <2>6 DEF Windows
<1>6. ASSUME NEW t \in Threads, HandleEvent(t) PROVE Windows'
  <2>1. PICK x : Announces(t, x) /\ x.pc = "begin" BY <1>6, AnnounceShape
  <2>2. "open" \in Fates /\ run[t].pc = "publish" /\ run[t].pc # "idle"
    BY <1>6 DEF HandleEvent, At, Fates, Investigated
  <2>3. \A u \in Threads : run'[u].pc = "publish" => run'[u] = run[u]
    BY <1>3, <2>1 DEF Announces
  <2> QED BY <1>6, <2>2, <2>3, WindowsKeptOut DEF HandleEvent, Passed
<1>7. ASSUME NEW t \in Threads, run' = [run EXCEPT ![t] = Rest]
      PROVE  \A u \in Threads : run'[u].pc = "publish" => run'[u] = run[u]
  BY <1>1, <1>7 DEF Rest
<1>8. ASSUME NEW t \in Threads, Suppress(t) \/ DropOnRedisError(t) \/ Swallow(t) \/ Die(t)
      PROVE  Windows'
  <2>1. PICK f : GivesUp(t, f) BY <1>8, GiveUpShape
  <2>2. f \in Fates /\ (f \in Investigated => event[run[t].event].fate \in Investigated)
    BY <2>1 DEF GivesUp, Fates, Investigated
  <2> QED BY <1>7, <2>1, <2>2, WindowsKeptOut DEF GivesUp, Passed
<1>9. ASSUME NEW t \in Threads, Pass(t) PROVE Windows'
  <2>1. PICK x : Thinks(t, x) BY <1>9, PassShape
  <2>2. \A u \in Threads : run'[u].pc = "publish" => run'[u] = run[u]
    BY <1>3, <2>1 DEF Thinks, Passes
  <2> QED BY <1>2, <2>1, <2>2 DEF Thinks, Local
<1>10. ASSUME NEW t \in Threads, Finalize(t) PROVE Windows'
  <2>1. PICK x : Decides(t, x) BY <1>10, FinalizeShape
  <2>2. \A u \in Threads : run'[u].pc = "publish" => run'[u] = run[u]
    BY <1>3, <2>1 DEF Decides
  <2> QED BY <1>2, <2>1, <2>2 DEF Decides
<1>11. ASSUME NEW t \in Threads, Withhold(t) \/ RunStep(t) \/ SkipEmail(t) PROVE Windows'
  <2>1. PICK x : Works(t, x) BY <1>11, WorkShape
  <2>2. \A u \in Threads : run'[u].pc = "publish" => run'[u] = run[u]
    BY <1>3, <2>1 DEF Works
  <2> QED BY <1>2, <2>1, <2>2 DEF Works
<1>12. ASSUME NEW t \in Threads, Persist(t) PROVE Windows'
  <2>1. PICK x : x.pc = "approve" /\ Becomes(t, x) BY <1>12, PersistShape
  <2>2. \A u \in Threads : run'[u].pc = "publish" => run'[u] = run[u] BY <1>3, <2>1
  <2> QED BY <1>2, <1>12, <2>2 DEF Persist
<1>13. ASSUME NEW t \in Threads, RecordApproval(t) PROVE Windows'
  <2>1. /\ run[t].pc = "approve" /\ Fate(run[t].event, "closed")
        /\ run' = [run EXCEPT ![t] = Rest]
    BY <1>13, RecordShape
  <2>2. event[run[t].event].fate = "open" /\ "closed" \in Fates /\ "open" \in Investigated
    BY <2>1 DEF Owned, Owns, Acts, Fates, Investigated
  <2> QED BY <1>7, <1>13, <2>1, <2>2, WindowsKeptOut DEF Passed, RecordApproval
<1>14. ASSUME NEW e \in EventIds, Release(e) PROVE Windows' BY <1>2, <1>14 DEF Release
<1>15. CASE UNCHANGED vars BY <1>2, <1>15 DEF vars
<1> QED BY <1>4, <1>5, <1>6, <1>8, <1>9, <1>10, <1>11, <1>12, <1>13, <1>14, <1>15
        DEF Next, Arrive, ThreadStep, Pass

(* However many instances watch a metric, only one automatic event of each   *)
(* hour of it is ever investigated.                                          *)
THEOREM OneInvestigation == Spec => []OneInvestigationPerWindow
<1>1. Windows => OneInvestigationPerWindow
  BY DEF Windows, Automatic, Passed, OneInvestigationPerWindow
<1>2. TypeOK /\ Owned /\ Windows /\ [Next]_vars => Windows' BY StepWindows
<1> QED BY <1>1, <1>2, InitWindows, Reachable, PTL DEF Spec

-----------------------------------------------------------------------------
(* Gates and accounts. *)

Done(t) == {Plan[i] : i \in 1..(run[t].pos - 1)}

(* What is true of an event at any time. *)
SafeEvent(e) ==
  /\ event[e].fate # "closed" => approval[e] = NoApproval
  /\ event[e].fate \notin Investigated => \A s \in StepSet : <<e, s>> \notin called
  /\ e \in sensitive =>
       /\ event[e].fate \in Investigated
       /\ \A s \in StepSet : Gated(s) /\ <<e, s>> \in called =>
            approval[e].status = "approved" /\ s \in approval[e].pending
  /\ row[e].present =>
       /\ event[e].fate # "none"
       /\ row[e].executed \cup row[e].skipped = StepSet
       /\ row[e].executed \cap row[e].skipped = {}
       /\ \A s \in row[e].executed : <<e, s>> \in called
       /\ approval[e].pending \subseteq row[e].skipped

(* What is true of a thread. Before it acts nothing was called for its event *)
(* and its books are empty; while it acts they show the steps done so far.   *)
SafeThread(t) ==
  LET r == run[t] IN
  /\ r.pc \notin {"idle", "approve"} => ~row[r.event].present
  /\ r.pc \in Passes =>
       r.event \notin sensitive /\ \A s \in StepSet : <<r.event, s>> \notin called
  /\ r.pc \in Passes \cup {"check", "publish"} =>
       r.pos = 1 /\ r.executed = {} /\ r.skipped = {} /\ r.pending = {}
  /\ r.pc \in Acts =>
       /\ r.event \in sensitive => r.gate
       /\ r.executed \cup r.skipped = Done(t)
       /\ r.executed \cap r.skipped = {}
       /\ \A s \in r.executed : <<r.event, s>> \in called
       /\ r.pending \subseteq r.skipped
  /\ r.pc = "approve" =>
       /\ r.pos = Len(Plan) + 1
       /\ row[r.event].present =>
            row[r.event].executed = r.executed /\ row[r.event].skipped = r.skipped

Safe == /\ \A e \in EventIds : SafeEvent(e)
        /\ \A t \in Threads : SafeThread(t)

(* A step that concerns the event e only, and the thread t only.             *)
Spares(d) ==
  /\ event'[d] = event[d] /\ approval'[d] = approval[d] /\ row'[d] = row[d]
  /\ d \in sensitive' <=> d \in sensitive
  /\ \A s \in StepSet : <<d, s>> \in called' <=> <<d, s>> \in called

LEMMA SparedEvent ==
  ASSUME TypeOK, NEW d \in EventIds, SafeEvent(d), Spares(d)
  PROVE  SafeEvent(d)'
<1>1. row[d].executed \subseteq StepSet BY DEF TypeOK, Row
<1> QED BY <1>1 DEF SafeEvent, Spares

LEMMA SparedThread ==
  ASSUME TypeOK, Owned, NEW u \in Threads, SafeThread(u), run'[u] = run[u],
         run[u].pc # "idle" => Spares(run[u].event)
  PROVE  SafeThread(u)'
<1>1. run[u].executed \subseteq StepSet BY DEF TypeOK, Run
<1>2. Done(u)' = Done(u) BY DEF Done
<1>3. CASE run[u].pc = "idle" BY <1>3 DEF SafeThread, Passes, Acts
<1>4. CASE run[u].pc # "idle" BY <1>1, <1>2, <1>4 DEF SafeThread, Spares
<1> QED BY <1>3, <1>4

LEMMA Frame ==
  ASSUME TypeOK, Owned, Safe, NEW t \in Threads, NEW e \in EventIds,
         \A u \in Threads : u # t => run'[u] = run[u] /\ (run[u].pc # "idle" => run[u].event # e),
         \A d \in EventIds : d # e => Spares(d),
         SafeEvent(e)', SafeThread(t)'
  PROVE  Safe'
<1>1. ASSUME NEW d \in EventIds PROVE SafeEvent(d)'
  <2>1. CASE d = e BY <2>1
  <2>2. CASE d # e BY <2>2, SparedEvent DEF Safe
  <2> QED BY <2>1, <2>2
<1>2. ASSUME NEW u \in Threads PROVE SafeThread(u)'
  <2>1. CASE u = t BY <2>1
  <2>2. CASE u # t
    <3>1. run[u].pc # "idle" => Spares(run[u].event) BY <2>2 DEF Owned, Owns
    <3> QED BY <2>2, <3>1, SparedThread DEF Safe
  <2> QED BY <2>1, <2>2
<1> QED BY <1>1, <1>2 DEF Safe

(* The same, for a busy thread and its own event. *)
LEMMA FrameOwn ==
  ASSUME TypeOK, Owned, Safe, NEW t \in Threads, run[t].pc # "idle",
         NEW e, e = run[t].event,
         \A u \in Threads : u # t => run'[u] = run[u],
         \A d \in EventIds : d # e => Spares(d),
         SafeEvent(e)', SafeThread(t)'
  PROVE  Safe'
<1>1. e \in EventIds BY DEF Owned, Owns
<1>2. \A u \in Threads : u # t => (run[u].pc # "idle" => run[u].event # e)
  BY DEF Owned, Alone
<1> QED BY <1>1, <1>2, Frame

LEMMA OtherThreads ==
  ASSUME TypeOK, NEW t \in Threads, NEW x, run' = [run EXCEPT ![t] = x]
  PROVE  run'[t] = x /\ \A u \in Threads : u # t => run'[u] = run[u]
BY DEF TypeOK

LEMMA OtherEvents ==
  ASSUME TypeOK, NEW e \in EventIds, NEW f, Fate(e, f)
  PROVE  /\ event'[e].fate = f
         /\ \A d \in EventIds : d # e => event'[d] = event[d]
BY DEF TypeOK, Event, Fate

LEMMA InitSafe == Init => Safe
BY DEF Init, Safe, SafeEvent, SafeThread, NoEvent, NoRow, Rest, Passes, Acts, Investigated

LEMMA SafeTake ==
  ASSUME TypeOK, Owned, Safe, NEW t \in Threads, NEW e, NEW x, NEW v, Takes(t, e, x, v)
  PROVE  Safe'
<1>1. /\ e \in EventIds /\ event[e].fate = "none" /\ event'[e].fate = "new"
      /\ \A d \in EventIds : d # e => event'[d] = event[d]
  BY DEF Takes, TypeOK
<1>2. run'[t] = x /\ \A u \in Threads : u # t => run'[u] = run[u]
  BY OtherThreads DEF Takes, Becomes
<1>3. \A d \in EventIds : d # e => Spares(d) BY <1>1 DEF Takes, Spares
<1>4. ASSUME NEW u \in Threads, u # t, run[u].pc # "idle" PROVE run[u].event # e
  <2>1. run[u].pc \in {"check", "publish"} \cup Passes \cup Acts \cup {"raised"}
    BY <1>4 DEF TypeOK, Run, Passes, Acts
  <2> QED BY <1>1, <1>4, <2>1 DEF Owned, Owns
<1>5. SafeEvent(e) /\ ~row[e].present BY <1>1 DEF Safe, SafeEvent
<1>6. /\ UNCHANGED <<row, approval, called, sensitive>>
      /\ approval[e] = NoApproval /\ (e \notin sensitive)
      /\ \A s \in StepSet : <<e, s>> \notin called
  BY <1>1, <1>5 DEF Takes, SafeEvent, Investigated
<1>7. SafeEvent(e)' BY <1>1, <1>5, <1>6 DEF SafeEvent
<1>8. /\ x.pc \in {"check", "publish"} /\ x.event = e /\ x.pos = 1
      /\ x.executed = {} /\ x.skipped = {} /\ x.pending = {}
  BY DEF Takes, Books, Rest
<1>9. SafeThread(t)' BY <1>2, <1>5, <1>6, <1>8 DEF SafeThread, Passes, Acts
<1> QED BY <1>1, <1>2, <1>3, <1>4, <1>7, <1>9, Frame

(* Claim: nothing but a program counter changes. *)
LEMMA SafeClaim ==
  ASSUME TypeOK, Owned, Safe, NEW t \in Threads, Claim(t)
  PROVE  Safe'
<1>1. PICK x : Announces(t, x) /\ x.pc = "publish" BY AnnounceShape
<1>2. /\ run[t].pc = "check" /\ run[t].event \in EventIds
      /\ UNCHANGED <<event, row, approval, called, sensitive>>
  BY DEF Claim, At, Owned, Owns
<1>3. run'[t] = x /\ \A u \in Threads : u # t => run'[u] = run[u]
  BY <1>1, OtherThreads DEF Announces, Becomes
<1>4. \A d \in EventIds : Spares(d) BY <1>2 DEF Spares
<1>5. \A d \in EventIds : SafeEvent(d)' BY <1>4, SparedEvent DEF Safe
<1>6. SafeThread(t)'
  BY <1>1, <1>2, <1>3 DEF Safe, SafeThread, Announces, Books, Passes, Acts
<1> QED BY <1>2, <1>3, <1>4, <1>5, <1>6, FrameOwn

LEMMA SafeHandle ==
  ASSUME TypeOK, Owned, Safe, NEW t \in Threads, HandleEvent(t)
  PROVE  Safe'
<1>0. PICK e \in EventIds : e = run[t].event BY DEF HandleEvent, At, Owned, Owns
<1>1. PICK x : Announces(t, x) /\ x.pc = "begin" BY AnnounceShape
<1>2. /\ run[t].pc = "publish" /\ e \in EventIds /\ event[e].fate = "new"
      /\ Fate(e, "open") /\ UNCHANGED <<row, approval, called, sensitive>>
  BY <1>0 DEF HandleEvent, At, Owned, Owns
<1>3. run'[t] = x /\ \A u \in Threads : u # t => run'[u] = run[u]
  BY <1>1, OtherThreads DEF Announces, Becomes
<1>4. event'[e].fate = "open" /\ \A d \in EventIds : d # e => event'[d] = event[d]
  BY <1>2, OtherEvents
<1>5. \A d \in EventIds : d # e => Spares(d) BY <1>2, <1>4 DEF Spares
<1>6. /\ ~row[e].present /\ approval[e] = NoApproval /\ e \notin sensitive
      /\ \A s \in StepSet : <<e, s>> \notin called
  BY <1>0, <1>2 DEF Safe, SafeEvent, SafeThread, Investigated
<1>7. SafeEvent(e)' BY <1>2, <1>4, <1>6 DEF SafeEvent, Investigated
<1>8. x.event = e /\ Books(x) = Books(run[t]) BY <1>0, <1>1 DEF Announces
<1>9. SafeThread(t)'
  BY <1>1, <1>2, <1>3, <1>6, <1>8 DEF Safe, SafeThread, Books, Passes, Acts
<1> QED BY <1>0, <1>2, <1>3, <1>5, <1>7, <1>9, FrameOwn

LEMMA SafeGiveUp ==
  ASSUME TypeOK, Owned, Safe, NEW t \in Threads, NEW f, GivesUp(t, f)
  PROVE  Safe'
<1>0. PICK e \in EventIds : e = run[t].event BY DEF GivesUp, Owned, Owns
<1>1. /\ run[t].pc # "idle" /\ e \in EventIds /\ Fate(e, f)
      /\ run' = [run EXCEPT ![t] = Rest] /\ UNCHANGED <<row, approval, called, sensitive>>
  BY <1>0 DEF GivesUp
<1>2. run'[t] = Rest /\ \A u \in Threads : u # t => run'[u] = run[u]
  BY <1>1, OtherThreads
<1>3. event'[e].fate = f /\ \A d \in EventIds : d # e => event'[d] = event[d]
  BY <1>1, OtherEvents
<1>4. \A d \in EventIds : d # e => Spares(d) BY <1>1, <1>3 DEF Spares
<1>5. event[e].fate \in {"new", "open"}
  <2>1. run[t].pc \in {"check", "publish"} \cup Passes \cup Acts \cup {"raised"}
    BY <1>1 DEF TypeOK, Run, Passes, Acts
  <2> QED BY <1>0, <1>1, <2>1 DEF Owned, Owns
<1>6. /\ f \notin {"none", "closed"}
      /\ f \in Investigated <=> event[e].fate \in Investigated
  BY <1>0, <1>5 DEF GivesUp, Investigated
<1>7. SafeEvent(e) /\ event[e].fate # "closed" BY <1>1, <1>5 DEF Safe
<1>8. SafeEvent(e)' BY <1>1, <1>3, <1>6, <1>7 DEF SafeEvent
<1>9. SafeThread(t)' BY <1>2 DEF SafeThread, Rest, Passes, Acts
<1> QED BY <1>1, <1>2, <1>4, <1>8, <1>9, <1>0, FrameOwn

LEMMA SafePass ==
  ASSUME TypeOK, Owned, Safe, NEW t \in Threads, NEW x, Thinks(t, x)
  PROVE  Safe'
<1>1. /\ run[t].pc \in Passes /\ run[t].pc \notin {"idle", "approve"}
      /\ run[t].event \in EventIds /\ UNCHANGED <<event, row, approval, called, sensitive>>
  BY DEF Thinks, Passes, Local, Owned, Owns
<1>2. run'[t] = x /\ \A u \in Threads : u # t => run'[u] = run[u]
  BY OtherThreads DEF Thinks, Becomes
<1>3. \A d \in EventIds : Spares(d) BY <1>1 DEF Spares
<1>4. \A d \in EventIds : SafeEvent(d)' BY <1>3, SparedEvent DEF Safe
<1>5. /\ x.pc \in Passes \cup {"raised"} /\ x.event = run[t].event /\ x.pos = run[t].pos
      /\ x.executed = run[t].executed /\ x.skipped = run[t].skipped /\ x.pending = run[t].pending
  BY DEF Thinks, Books
<1>6. SafeThread(t) BY DEF Safe
<1>7. SafeThread(t)' BY <1>1, <1>2, <1>5, <1>6 DEF SafeThread, Passes, Acts
<1> QED BY <1>1, <1>2, <1>3, <1>4, <1>7, FrameOwn

LEMMA SafeFinalize ==
  ASSUME TypeOK, Owned, Safe, NEW t \in Threads, NEW x, Decides(t, x)
  PROVE  Safe'
<1>0. PICK e \in EventIds : e = run[t].event BY DEF Decides, Owned, Owns
<1>1. /\ run[t].pc = "finalize" /\ run[t].pc \in Passes
      /\ UNCHANGED <<event, row, approval, called>> /\ event[e].fate = "open"
  BY <1>0 DEF Decides, Passes, Owned, Owns
<1>2. run'[t] = x /\ \A u \in Threads : u # t => run'[u] = run[u]
  BY OtherThreads DEF Decides, Becomes
<1>3. /\ \A d \in EventIds : d # e => (d \in sensitive' <=> d \in sensitive)
      /\ sensitive' # sensitive => x.gate
  BY <1>0 DEF Decides
<1>4. \A d \in EventIds : d # e => Spares(d) BY <1>1, <1>3 DEF Spares
<1>5. /\ ~row[e].present /\ e \notin sensitive
      /\ \A s \in StepSet : <<e, s>> \notin called
      /\ run[t].pos = 1 /\ run[t].executed = {} /\ run[t].skipped = {} /\ run[t].pending = {}
  BY <1>0, <1>1 DEF Safe, SafeThread
<1>6. SafeEvent(e)
  BY DEF Safe
<1>7. SafeEvent(e)' BY <1>1, <1>5, <1>6 DEF SafeEvent, Investigated
<1>8. /\ x.pc \in {"act", "raised"} /\ x.event = e /\ x.pos = 1
      /\ x.executed = {} /\ x.skipped = {} /\ x.pending = {}
  BY <1>0, <1>5 DEF Decides
<1>9. Done(t)' = {} BY <1>2, <1>8 DEF Done
<1>10. e \in sensitive' => x.gate BY <1>3, <1>5
<1>11. SafeThread(t)'
  BY <1>1, <1>2, <1>5, <1>8, <1>9, <1>10 DEF SafeThread, Passes, Acts
<1> QED BY <1>0, <1>1, <1>2, <1>4, <1>7, <1>11, FrameOwn

LEMMA SafeWork ==
  ASSUME TypeOK, Owned, Safe, NEW t \in Threads, NEW x, Works(t, x)
  PROVE  Safe'
<1> DEFINE s == StepOf(t)
<1>0. PICK e \in EventIds : e = run[t].event BY DEF Works, Owned, Owns
<1>1. /\ run[t].pc = "act" /\ UNCHANGED <<event, row, approval, sensitive>>
      /\ event[e].fate = "open" /\ s \in StepSet /\ run[t].pos \in 1..Len(Plan)
      /\ s = Plan[run[t].pos] /\ run[t] \in Run
  <2>1. run[t] \in Run /\ run[t].pc = "act" /\ run[t].pos <= Len(Plan)
    BY DEF Works, TypeOK
  <2>2. run[t].pos \in 1..Len(Plan) BY <2>1 DEF Run
  <2>3. event[e].fate = "open" BY <1>0, <2>1 DEF Acts, Owned, Owns
  <2> QED BY <2>1, <2>2, <2>3 DEF Works, StepOf, StepSet
<1>2. run'[t] = x /\ \A u \in Threads : u # t => run'[u] = run[u]
  BY OtherThreads DEF Works, Becomes
<1>3. called \subseteq called' /\ called' \subseteq called \cup {<<e, s>>}
  BY <1>0 DEF Works, StepBooks
<1>4. \A d \in EventIds : d # e => Spares(d) BY <1>1, <1>3 DEF Spares
<1>5. /\ ~row[e].present /\ (e \in sensitive => run[t].gate)
      /\ run[t].executed \cup run[t].skipped = Done(t)
      /\ run[t].executed \cap run[t].skipped = {}
      /\ \A d \in run[t].executed : <<e, d>> \in called
      /\ run[t].pending \subseteq run[t].skipped
  BY <1>0, <1>1 DEF Safe, SafeThread, Acts
<1>6. SafeEvent(e) BY DEF Safe
<1>7. e \in sensitive /\ Gated(s) => called' = called
  BY <1>0, <1>5 DEF Works, StepBooks
<1>8. SafeEvent(e)'
  <2>1. \A d \in StepSet : e \in sensitive /\ Gated(d) /\ <<e, d>> \in called' => <<e, d>> \in called
    BY <1>3, <1>7
  <2> QED BY <1>1, <1>5, <1>6, <2>1 DEF SafeEvent, Investigated
<1>9. /\ x.pc = "act" /\ x.event = e /\ x.pos = run[t].pos + 1 /\ x.gate = run[t].gate
  BY <1>0 DEF Works
<1>10. s \notin Done(t)
  BY <1>1 DEF Done
<1>11. Done(t)' = Done(t) \cup {s} BY <1>1, <1>2, <1>9 DEF Done
<1>12. /\ x.executed \cup x.skipped = Done(t) \cup {s}
       /\ x.executed \cap x.skipped = {}
       /\ x.executed \subseteq run[t].executed \cup {s}
       /\ x.executed = run[t].executed \/ <<e, s>> \in called'
       /\ x.pending \subseteq x.skipped
  <2>1. StepBooks(t, x, s) BY DEF Works
  <2> QED BY <1>0, <1>5, <1>10, <2>1 DEF StepBooks
<1>13. \A d \in x.executed : <<e, d>> \in called' BY <1>3, <1>5, <1>12
<1> HIDE DEF s
<1>14. e \in sensitive' => x.gate BY <1>1, <1>5, <1>9
<1>15. SafeThread(t)'
  BY <1>1, <1>2, <1>5, <1>9, <1>11, <1>12, <1>13, <1>14 DEF SafeThread, Passes, Acts
<1> QED BY <1>0, <1>1, <1>2, <1>4, <1>8, <1>15, FrameOwn

LEMMA AllDone ==
  ASSUME NEW t \in Threads, run[t].pos = Len(Plan) + 1
  PROVE  Done(t) = StepSet
<1>1. Len(Plan) \in Nat OBVIOUS
<1> QED BY <1>1 DEF Done, StepSet

LEMMA SafePersist ==
  ASSUME TypeOK, Owned, Safe, NEW t \in Threads, Persist(t)
  PROVE  Safe'
<1>0. PICK e \in EventIds : e = run[t].event BY DEF Persist, At, Owned, Owns
<1>1. PICK x : x.pc = "approve" /\ x.event = e /\ Books(x) = Books(run[t]) /\ Becomes(t, x)
  BY <1>0, PersistShape
<1>2. /\ run[t].pc = "act" /\ run[t].pos = Len(Plan) + 1 /\ event[e].fate = "open"
      /\ UNCHANGED <<event, approval, called, sensitive>>
  BY <1>0, PersistShape DEF Persist, Owned, Owns, Acts
<1>3. /\ \A d \in EventIds : d # e => row'[d] = row[d]
      /\ \/ UNCHANGED row
         \/ row'[e].executed = run[t].executed /\ row'[e].skipped = run[t].skipped
  BY <1>0, PersistShape
<1>4. run'[t] = x /\ \A u \in Threads : u # t => run'[u] = run[u]
  BY <1>1, OtherThreads DEF Becomes
<1>5. \A d \in EventIds : d # e => Spares(d) BY <1>2, <1>3 DEF Spares
<1>6. /\ ~row[e].present /\ (e \in sensitive => run[t].gate)
      /\ run[t].executed \cup run[t].skipped = StepSet
      /\ run[t].executed \cap run[t].skipped = {}
      /\ \A d \in run[t].executed : <<e, d>> \in called
      /\ run[t].pending \subseteq run[t].skipped
  BY <1>0, <1>2, AllDone DEF Safe, SafeThread, Acts
<1>7. SafeEvent(e) /\ approval[e] = NoApproval BY <1>2 DEF Safe, SafeEvent
<1>8. SafeEvent(e)'
  <2>1. CASE UNCHANGED row BY <1>2, <1>7, <2>1 DEF SafeEvent
  <2>2. CASE row'[e].executed = run[t].executed /\ row'[e].skipped = run[t].skipped
    BY <1>2, <1>6, <1>7, <2>2 DEF SafeEvent, NoApproval
  <2> QED BY <1>3, <2>1, <2>2
<1>9. /\ x.pos = run[t].pos /\ x.gate = run[t].gate /\ x.executed = run[t].executed
      /\ x.skipped = run[t].skipped /\ x.pending = run[t].pending
  BY <1>1 DEF Books
<1>10. Done(t)' = StepSet BY <1>2, <1>4, <1>9 DEF Done, StepSet
<1>11. row'[e].present => row'[e].executed = x.executed /\ row'[e].skipped = x.skipped
  BY <1>3, <1>6, <1>9
<1>12. SafeThread(t)'
  BY <1>1, <1>2, <1>4, <1>6, <1>9, <1>10, <1>11 DEF SafeThread, Passes, Acts
<1> QED BY <1>0, <1>2, <1>4, <1>5, <1>8, <1>12, FrameOwn

LEMMA SafeRecord ==
  ASSUME TypeOK, Owned, Safe, NEW t \in Threads, RecordApproval(t)
  PROVE  Safe'
<1>0. PICK e \in EventIds : e = run[t].event BY RecordShape
<1>1. /\ run[t].pc = "approve" /\ event[e].fate = "open" /\ Fate(e, "closed")
      /\ run' = [run EXCEPT ![t] = Rest] /\ UNCHANGED <<row, called, sensitive>>
  BY <1>0, RecordShape DEF RecordApproval, Owned, Owns, Acts
<1>2. /\ \A d \in EventIds : d # e => approval'[d] = approval[d]
      /\ \/ UNCHANGED approval
         \/ approval'[e].status = "pending" /\ approval'[e].pending = run[t].pending
  BY <1>0, RecordShape
<1>3. run'[t] = Rest /\ \A u \in Threads : u # t => run'[u] = run[u]
  BY <1>1, OtherThreads
<1>4. event'[e].fate = "closed" /\ \A d \in EventIds : d # e => event'[d] = event[d]
  BY <1>1, OtherEvents
<1>5. \A d \in EventIds : d # e => Spares(d) BY <1>1, <1>2, <1>4 DEF Spares
<1>6. /\ run[t].pending \subseteq run[t].skipped
      /\ row[e].present => row[e].skipped = run[t].skipped
  BY <1>0, <1>1 DEF Safe, SafeThread, Acts
<1>7. SafeEvent(e) /\ approval[e] = NoApproval /\ NoApproval.status = "none"
  BY <1>1 DEF Safe, SafeEvent, NoApproval
<1>8. e \in sensitive => \A s \in StepSet : Gated(s) => <<e, s>> \notin called
  BY <1>7 DEF SafeEvent
<1>9. row[e].present => approval'[e].pending \subseteq row[e].skipped
  BY <1>2, <1>6, <1>7 DEF SafeEvent
<1>10. SafeEvent(e)'
  BY <1>1, <1>4, <1>7, <1>8, <1>9 DEF SafeEvent, Investigated
<1>11. SafeThread(t)' BY <1>3 DEF SafeThread, Rest, Passes, Acts
<1> QED BY <1>0, <1>1, <1>3, <1>5, <1>10, <1>11, FrameOwn

LEMMA SafeRelease ==
  ASSUME TypeOK, Owned, Safe, NEW e \in EventIds, Release(e)
  PROVE  Safe'
<1>1. /\ approval[e].status = "pending" /\ UNCHANGED <<event, row, run, sensitive>>
      /\ called' = called \cup ({e} \X approval[e].pending)
      /\ approval' = [approval EXCEPT ![e].status = "approved"]
  BY DEF Release
<1>2. approval[e] \in Approval BY DEF TypeOK
<1>3. /\ approval'[e].status = "approved" /\ approval'[e].pending = approval[e].pending
      /\ \A d \in EventIds : d # e => approval'[d] = approval[d]
  BY <1>1, <1>2 DEF TypeOK, Approval
<1>4. SafeEvent(e) /\ event[e].fate = "closed"
  BY <1>1 DEF Safe, SafeEvent, NoApproval
<1>5. \A d \in EventIds : d # e => Spares(d) BY <1>1, <1>3 DEF Spares
<1>6. SafeEvent(e)'
  <2>1. \A s \in StepSet : <<e, s>> \in called' => <<e, s>> \in called \/ s \in approval[e].pending
    BY <1>1
  <2>2. called \subseteq called' BY <1>1
  <2>3. e \in sensitive => \A s \in StepSet : Gated(s) => <<e, s>> \notin called
    BY <1>1, <1>4 DEF SafeEvent
  <2> QED BY <1>1, <1>3, <1>4, <2>1, <2>2, <2>3 DEF SafeEvent, Investigated
<1>7. ASSUME NEW u \in Threads PROVE SafeThread(u)'
  <2>1. run'[u] = run[u] BY <1>1
  <2>2. CASE run[u].pc # "idle" /\ run[u].event = e
    <3>1. run[u].pc \notin {"check", "publish", "raised"} \cup Passes \cup Acts
      BY <1>4, <2>2 DEF Owned, Owns
    <3> QED BY <2>2, <3>1 DEF TypeOK, Run, Passes, Acts
  <2>3. CASE run[u].pc # "idle" => run[u].event # e
    <3>1. run[u].pc # "idle" => Spares(run[u].event) BY <1>5, <2>3 DEF Owned, Owns
    <3> QED BY <2>1, <3>1, SparedThread DEF Safe
  <2> QED BY <2>2, <2>3
<1>8. \A d \in EventIds : SafeEvent(d)' BY <1>5, <1>6, SparedEvent DEF Safe
<1> QED BY <1>7, <1>8 DEF Safe

LEMMA StepSafe ==
  ASSUME TypeOK, Owned, Safe, [Next]_vars
  PROVE  Safe'
<1>1. ASSUME UNCHANGED <<event, run, row, approval, called, sensitive>> PROVE Safe'
  <2>1. \A d \in EventIds : Spares(d) BY <1>1 DEF Spares
  <2>2. \A d \in EventIds : SafeEvent(d)' BY <2>1, SparedEvent DEF Safe
  <2>3. ASSUME NEW u \in Threads PROVE SafeThread(u)'
    <3>1. run[u].pc # "idle" => Spares(run[u].event) BY <2>1 DEF Owned, Owns
    <3> QED BY <1>1, <3>1, SparedThread DEF Safe
  <2> QED BY <2>2, <2>3 DEF Safe
<1>2. ASSUME NEW t \in Threads, Arrive(t) PROVE Safe'
  BY <1>2, CreateShape, SafeTake DEF Arrive
<1>3. ASSUME NEW t \in Threads,
             Suppress(t) \/ DropOnRedisError(t) \/ Swallow(t) \/ Die(t)
      PROVE  Safe'
  BY <1>3, GiveUpShape, SafeGiveUp
<1>4. ASSUME NEW t \in Threads, Pass(t) PROVE Safe' BY <1>4, PassShape, SafePass
<1>5. ASSUME NEW t \in Threads, Finalize(t) PROVE Safe' BY <1>5, FinalizeShape, SafeFinalize
<1>6. ASSUME NEW t \in Threads, Withhold(t) \/ RunStep(t) \/ SkipEmail(t) PROVE Safe'
  BY <1>6, WorkShape, SafeWork
<1>7. CASE UNCHANGED vars BY <1>1, <1>7 DEF vars
<1> QED
  BY <1>2, <1>3, <1>4, <1>5, <1>6, <1>7, SafeClaim, SafeHandle, SafePersist,
     SafeRecord, SafeRelease
  DEF Next, ThreadStep, Pass

LEMMA AlwaysSafe == Spec => []Safe
<1>1. TypeOK /\ Owned /\ Safe /\ [Next]_vars => Safe' BY StepSafe
<1> QED BY <1>1, InitSafe, Reachable, PTL DEF Spec

(* However the plan fails and whoever asks for a human, a gated step of an   *)
(* incident that needs one reaches ActionAgent only out of its approved      *)
(* record.                                                                   *)
THEOREM GatedStepsWait == Spec => []WithheldUntilApproved
<1>1. TypeOK /\ Safe => WithheldUntilApproved
  BY DEF TypeOK, Safe, SafeEvent, WithheldUntilApproved
<1> QED BY <1>1, AlwaysSafe, Reachable, PTL

(* A stored incident lists every step of its runbook once, as executed only  *)
(* if it was called, and what waits for approval among the skipped.          *)
THEOREM StepsAccounted == Spec => []EveryStepAccounted
<1>1. Safe => EveryStepAccounted BY DEF Safe, SafeEvent, EveryStepAccounted
<1> QED BY <1>1, AlwaysSafe, PTL

-----------------------------------------------------------------------------
(* The course of an investigation: stages, state machine, causes. *)

(* Why an investigation may raise: decide asks a language model that is out. *)
ModelIsOut(e) ==
  event[e].severity = "MEDIUM" /\ LLMEnabled /\ "llm" \in Outages /\ MaxDepth > 2

Before == {"check", "publish", "begin", "gather"}
Gathered == {"rag", "kpi", "reason", "evaluate", "finalize", "act", "approve"}

(* Where the investigation of a thread can be: each stage has spoken once by *)
(* the time the first pass has gathered, the state machine stands where its  *)
(* next transition is allowed, and a thread that raised had asked the model. *)
Follows(t) ==
  LET r == run[t] IN
  /\ r.pc = "idle" => r.event = 0
  /\ r.pc \in Before => \A s \in Stages : r.found[s] \in {0, 1}
  /\ r.pc \in Gathered => \A s \in Stages : r.found[s] = 1
  /\ r.pc = "begin" => r.fsm \in {"EVENT_RECEIVED", "DECIDING"}
  /\ r.pc \in Passes \ {"begin"} => r.fsm = "DECIDING"
  /\ r.pc = "raised" => ModelIsOut(r.event)

Course == OnlyDecideRaises /\ \A t \in Threads : Follows(t)

(* A step of the thread t: the other threads stay where they are, an event   *)
(* keeps its severity, and is recorded as raised only if t had raised.       *)
StepsAlone(t) ==
  /\ \A u \in Threads : u # t => run'[u] = run[u]
  /\ \A d \in EventIds : event[d].fate # "none" => event'[d].severity = event[d].severity
  /\ \A d \in EventIds :
       event'[d].fate = "raised" =>
         event[d].fate = "raised" \/ (run[t].pc = "raised" /\ run[t].event = d)

LEMMA CourseFrame ==
  ASSUME TypeOK, Owned, Course, NEW t \in Threads, StepsAlone(t), Follows(t)'
  PROVE  Course'
<1>1. ASSUME NEW e \in EventIds, event'[e].fate = "raised" PROVE ModelIsOut(e)'
  <2>1. ModelIsOut(e) /\ event[e].fate # "none"
    BY <1>1 DEF StepsAlone, Course, OnlyDecideRaises, ModelIsOut, Follows, Owned, Owns
  <2> QED BY <2>1 DEF StepsAlone, ModelIsOut
<1>2. ASSUME NEW u \in Threads, u # t PROVE Follows(u)'
  <2>1. run'[u] = run[u] /\ Follows(u) BY <1>2 DEF StepsAlone, Course
  <2>2. run[u].pc = "raised" => ModelIsOut(run[u].event)'
    BY <2>1 DEF Follows, StepsAlone, ModelIsOut, Owned, Owns
  <2> QED BY <2>1, <2>2 DEF Follows
<1> QED BY <1>1, <1>2 DEF Course, OnlyDecideRaises, ModelIsOut

LEMMA FateAlone ==
  ASSUME TypeOK, NEW t \in Threads, NEW e \in EventIds, NEW f, NEW x, Fate(e, f),
         run' = [run EXCEPT ![t] = x], f = "raised" => run[t].pc = "raised" /\ run[t].event = e
  PROVE  StepsAlone(t) /\ run'[t] = x
BY DEF TypeOK, Event, Fate, StepsAlone

LEMMA LocalAlone ==
  ASSUME TypeOK, NEW t \in Threads, NEW x, UNCHANGED event, run' = [run EXCEPT ![t] = x]
  PROVE  StepsAlone(t) /\ run'[t] = x
BY DEF TypeOK, StepsAlone

(* The state machine never refuses a move: only decide raises. *)
LEMMA MovesAllowed ==
  ASSUME NEW t \in Threads, Follows(t)
  PROVE  /\ run[t].pc = "begin" => After(t, "INVESTIGATING", "gather") = "gather"
         /\ run[t].pc = "finalize" => After(t, "COMPLETE", "act") = "act"
BY DEF Follows, After, Allowed, Passes

LEMMA CourseCreate ==
  ASSUME TypeOK, Owned, Course, NEW t \in Threads, NEW h \in MetricHours,
         NEW sev \in Severities, Detect(t, h, sev) \/ Trigger(t, h, sev)
  PROVE  Course' /\ run'[t].event # run[t].event
<1>1. PICK manual \in BOOLEAN : Create(t, h, sev, manual) BY DEF Detect, Trigger
<1>2. PICK e \in EventIds :
        /\ event[e].fate = "none"
        /\ event' = [event EXCEPT ![e] = [hour |-> h, severity |-> sev, manual |-> manual,
                                          fate |-> "new"]]
        /\ run' = [run EXCEPT ![t] = [Rest EXCEPT !.pc = IF manual THEN "publish" ELSE "check",
                                                  !.event = e]]
  BY <1>1 DEF Create
<1>3. run[t].pc = "idle" /\ run[t].event = 0 BY DEF Detect, Trigger, At, Course, Follows
<1> DEFINE p == IF manual THEN "publish" ELSE "check"
           x == [Rest EXCEPT !.pc = p, !.event = e]
<1>4. run'[t] = x /\ \A u \in Threads : u # t => run'[u] = run[u] BY <1>2 DEF TypeOK
<1>5. event'[e].fate = "new" /\ \A d \in EventIds : d # e => event'[d] = event[d]
  BY <1>2 DEF TypeOK
<1>6. StepsAlone(t) BY <1>2, <1>4, <1>5 DEF StepsAlone
<1>7. x.pc \in {"publish", "check"} /\ x.event = e /\ \A s \in Stages : x.found[s] = 0
  BY DEF Rest
<1> HIDE DEF x
<1>8. Follows(t)' BY <1>4, <1>7 DEF Follows, Before, Gathered, Passes
<1>9. e # 0 BY DEF EventIds
<1> QED BY <1>3, <1>4, <1>6, <1>7, <1>8, <1>9, CourseFrame

LEMMA CourseRest ==
  ASSUME TypeOK, Owned, Course, NEW t \in Threads,
         (Suppress(t) \/ DropOnRedisError(t) \/ Swallow(t) \/ Die(t)) \/ RecordApproval(t)
  PROVE  Course' /\ run'[t].event # run[t].event
<1>1. PICK f : /\ Fate(run[t].event, f) /\ run' = [run EXCEPT ![t] = Rest]
               /\ run[t].pc # "idle" /\ (f = "raised" => run[t].pc = "raised")
  <2>1. CASE Suppress(t) BY <2>1 DEF Suppress, At
  <2>2. CASE DropOnRedisError(t) BY <2>2 DEF DropOnRedisError, At
  <2>3. CASE Swallow(t) BY <2>3 DEF Swallow, At
  <2>4. CASE Die(t)
    <3> DEFINE f == IF event[run[t].event].fate = "open" THEN "dead" ELSE "dropped"
    <3>1. /\ Fate(run[t].event, f) /\ run' = [run EXCEPT ![t] = Rest]
          /\ run[t].pc # "idle" /\ f # "raised"
      BY <2>4 DEF Die, At
    <3> QED BY <3>1
  <2>5. CASE RecordApproval(t) BY <2>5 DEF RecordApproval, At
  <2> QED BY <2>1, <2>2, <2>3, <2>4, <2>5
<1>2. run[t].event \in EventIds BY <1>1 DEF Owned, Owns
<1>3. StepsAlone(t) /\ run'[t] = Rest BY <1>1, <1>2, FateAlone
<1>4. Follows(t)' BY <1>3 DEF Follows, Rest, Before, Gathered, Passes
<1>5. run[t].event # 0 /\ run'[t].event = 0 BY <1>2, <1>3 DEF Rest, EventIds
<1> QED BY <1>3, <1>4, <1>5, CourseFrame

(* What a step does to a cause. *)
Improves(t) ==
  run'[t].event = run[t].event =>
    run[t].cause \in {run'[t].cause, "none"} \/ run'[t].cause = "rag"

LEMMA CoursePublish ==
  ASSUME TypeOK, Owned, Course, NEW t \in Threads, Claim(t) \/ HandleEvent(t)
  PROVE  Course' /\ Improves(t)
<1>1. run[t] \in Run /\ run[t].event \in EventIds /\ Follows(t) /\ run[t].pc \in Before
  BY DEF TypeOK, Claim, HandleEvent, At, Owned, Owns, Course, Before
<1>2. CASE Claim(t)
  <2> DEFINE x == [run[t] EXCEPT !.pc = "publish"]
  <2>1. run' = [run EXCEPT ![t] = x] /\ UNCHANGED event BY <1>2 DEF Claim, Goto, TypeOK
  <2>2. StepsAlone(t) /\ run'[t] = x BY <2>1, LocalAlone
  <2>3. x.pc = "publish" /\ x.found = run[t].found /\ x.cause = run[t].cause BY <1>1 DEF Run
  <2> HIDE DEF x
  <2>4. Follows(t)' BY <1>1, <2>2, <2>3 DEF Follows, Before, Gathered, Passes
  <2> QED BY <2>2, <2>3, <2>4, CourseFrame DEF Improves
<1>3. CASE HandleEvent(t)
  <2> DEFINE x == [run[t] EXCEPT !.pc = "begin", !.fsm = "EVENT_RECEIVED"]
  <2>1. run' = [run EXCEPT ![t] = x] /\ Fate(run[t].event, "open")
    BY <1>3 DEF HandleEvent, TypeOK
  <2>2. StepsAlone(t) /\ run'[t] = x BY <1>1, <2>1, FateAlone
  <2>3. /\ x.pc = "begin" /\ x.fsm = "EVENT_RECEIVED"
        /\ x.found = run[t].found /\ x.cause = run[t].cause
    BY <1>1 DEF Run
  <2> HIDE DEF x
  <2>4. Follows(t)' BY <1>1, <2>2, <2>3 DEF Follows, Before, Gathered, Passes
  <2> QED BY <2>2, <2>3, <2>4, CourseFrame DEF Improves
<1> QED BY <1>2, <1>3

LEMMA CourseBegin ==
  ASSUME TypeOK, Owned, Course, NEW t \in Threads, Investigate(t) \/ DecideFails(t)
  PROVE  Course' /\ Improves(t)
<1>1. /\ run[t] \in Run /\ run[t].pc = "begin" /\ run[t].pc \in Before /\ Follows(t)
      /\ run[t].depth < MaxDepth
  BY DEF TypeOK, Investigate, DecideFails, At, Owned, Owns, Course, Before
<1>2. CASE Investigate(t)
  <2> DEFINE x == [run[t] EXCEPT !.pc = "gather", !.fsm = "DECIDING", !.depth = run[t].depth + 1]
  <2>1. After(t, "INVESTIGATING", "gather") = "gather" BY <1>1, MovesAllowed
  <2>2. run' = [run EXCEPT ![t] = x] /\ UNCHANGED event
    BY <1>2, <2>1 DEF Investigate, Local, TypeOK
  <2>3. StepsAlone(t) /\ run'[t] = x BY <2>2, LocalAlone
  <2>4. /\ x.pc = "gather" /\ x.fsm = "DECIDING"
        /\ x.found = run[t].found /\ x.cause = run[t].cause
    BY <1>1 DEF Run
  <2> HIDE DEF x
  <2>5. Follows(t)' BY <1>1, <2>3, <2>4 DEF Follows, Before, Gathered, Passes
  <2> QED BY <2>3, <2>4, <2>5, CourseFrame DEF Improves
<1>3. CASE DecideFails(t)
  <2> DEFINE x == [run[t] EXCEPT !.pc = "raised"]
  <2>1. run' = [run EXCEPT ![t] = x] /\ UNCHANGED event
    BY <1>3 DEF DecideFails, Goto, Local, TypeOK
  <2>2. StepsAlone(t) /\ run'[t] = x BY <2>1, LocalAlone
  <2>3. x.pc = "raised" /\ x.event = run[t].event /\ x.cause = run[t].cause BY <1>1 DEF Run
  <2> HIDE DEF x
  <2>4. run[t].depth \in Nat /\ MaxDepth \in Nat BY <1>1 DEF Run
  <2>5. ModelIsOut(run[t].event)
    BY <1>1, <1>3, <2>4 DEF DecideFails, AsksLLM, ModelIsOut
  <2>6. ModelIsOut(run[t].event)' BY <2>1, <2>2, <2>3, <2>5 DEF ModelIsOut
  <2>7. Follows(t)' BY <2>1, <2>2, <2>3, <2>5 DEF Follows, Before, Gathered, Passes, ModelIsOut
  <2> QED BY <2>2, <2>3, <2>7, CourseFrame DEF Improves
<1> QED BY <1>2, <1>3

LEMMA CourseGather ==
  ASSUME TypeOK, Owned, Course, NEW t \in Threads, Gather(t)
  PROVE  Course' /\ Improves(t)
<1> DEFINE f == [s \in Stages |-> IF run[t].found[s] = 0 THEN 1 ELSE run[t].found[s]]
           x == [run[t] EXCEPT !.pc = "rag", !.found = f]
<1>1. run[t] \in Run /\ run[t].pc = "gather" /\ Follows(t) BY DEF TypeOK, Gather, At, Course
<1>2. run' = [run EXCEPT ![t] = x] /\ UNCHANGED event BY DEF Gather, Local, TypeOK
<1>3. \A s \in Stages : f[s] = 1 BY <1>1 DEF Follows, Before
<1> HIDE DEF f
<1>4. StepsAlone(t) /\ run'[t] = x BY <1>2, LocalAlone
<1>5. x.pc = "rag" /\ x.found = f /\ x.fsm = "DECIDING" /\ x.cause = run[t].cause
  BY <1>1 DEF Run, Follows, Passes
<1> HIDE DEF x
<1>6. Follows(t)' BY <1>3, <1>4, <1>5 DEF Follows, Before, Gathered, Passes
<1> QED BY <1>4, <1>5, <1>6, CourseFrame DEF Improves

(* A step among the gathered that leaves the findings alone and moves the    *)
(* state machine only to be done with it.                                    *)
GoesOn(t, x) ==
  /\ run[t].pc \in Gathered /\ x.pc \in Gathered \cup {"begin"}
  /\ x.pc \in Passes => run[t].pc \in Passes /\ x.fsm = run[t].fsm
  /\ x.found = run[t].found
  /\ x.cause = run[t].cause \/ run[t].cause = "none" \/ x.cause = "rag"
  /\ run' = [run EXCEPT ![t] = x] /\ UNCHANGED event

LEMMA CourseGathered ==
  ASSUME TypeOK, Owned, Course, NEW t \in Threads, NEW x, GoesOn(t, x)
  PROVE  Course' /\ Improves(t)
<1>1. StepsAlone(t) /\ run'[t] = x BY LocalAlone DEF GoesOn
<1>2. Follows(t) BY DEF Course
<1>3. Follows(t)' BY <1>1, <1>2 DEF GoesOn, Follows, Before, Gathered, Passes
<1> QED BY <1>1, <1>3, CourseFrame DEF GoesOn, Improves

LEMMA CoursePass ==
  ASSUME TypeOK, Owned, Course, NEW t \in Threads,
         Rag(t) \/ KpiPass(t) \/ Reason(t) \/ Evaluate(t)
  PROVE  Course' /\ Improves(t)
<1> DEFINE r == run[t]
<1>0. r \in Run /\ UNCHANGED event
  BY DEF TypeOK, Rag, KpiPass, Reason, Evaluate, Local
<1>1. CASE Rag(t)
  <2>0. r.pc = "rag" BY <1>1 DEF Rag, At
  <2>1. CASE Goto(t, "kpi")
    <3> DEFINE x == [r EXCEPT !.pc = "kpi"]
    <3>1. run' = [run EXCEPT ![t] = x] BY <2>1 DEF Goto, TypeOK
    <3>2. x.pc = "kpi" /\ x.found = r.found /\ x.fsm = r.fsm /\ x.cause = r.cause
      BY <1>0 DEF Run
    <3> HIDE DEF x
    <3>3. GoesOn(t, x) BY <1>0, <2>0, <3>1, <3>2 DEF GoesOn, Gathered, Passes
    <3> QED BY <3>3, CourseGathered
  <2>2. ASSUME NEW o \in RagOutcomes,
               run' = [run EXCEPT ![t].pc = "kpi",
                                  ![t].cause = IF o.cause THEN "rag" ELSE @,
                                  ![t].sure = @ \/ (o.cause /\ o.sure),
                                  ![t].evidence = AtMostThree(@ + o.evidence),
                                  ![t].human = @ \/ o.human]
        PROVE  Course' /\ Improves(t)
    <3> DEFINE c == IF o.cause THEN "rag" ELSE r.cause
               n == AtMostThree(r.evidence + o.evidence)
               s == r.sure \/ (o.cause /\ o.sure)
               h == r.human \/ o.human
               x == [r EXCEPT !.pc = "kpi", !.cause = c, !.sure = s, !.evidence = n, !.human = h]
    <3>1. run' = [run EXCEPT ![t] = x] BY <2>2 DEF TypeOK
    <3>2. c = r.cause \/ c = "rag" OBVIOUS
    <3> HIDE DEF c, n, s, h
    <3>3. x.pc = "kpi" /\ x.found = r.found /\ x.fsm = r.fsm /\ x.cause = c
      BY <1>0 DEF Run
    <3> HIDE DEF x
    <3>4. GoesOn(t, x) BY <1>0, <2>0, <3>1, <3>2, <3>3 DEF GoesOn, Gathered, Passes
    <3> QED BY <3>4, CourseGathered
  <2> QED BY <1>1, <2>1, <2>2 DEF Rag
<1>2. CASE KpiPass(t)
  <2>1. PICK o \in KpiOutcomes :
          run' = [run EXCEPT ![t].pc = "reason",
                             ![t].cause = IF o.cause /\ @ = "none" THEN "kpi_analysis" ELSE @,
                             ![t].sure = @ \/ o.sure,
                             ![t].evidence = AtMostThree(@ + o.evidence)]
    BY <1>2 DEF KpiPass
  <2> DEFINE c == IF o.cause /\ r.cause = "none" THEN "kpi_analysis" ELSE r.cause
             n == AtMostThree(r.evidence + o.evidence)
             s == r.sure \/ o.sure
             x == [r EXCEPT !.pc = "reason", !.cause = c, !.sure = s, !.evidence = n]
  <2>2. run' = [run EXCEPT ![t] = x] BY <2>1 DEF TypeOK
  <2>3. c = r.cause \/ r.cause = "none" OBVIOUS
  <2> HIDE DEF c, n, s
  <2>4. x.pc = "reason" /\ x.found = r.found /\ x.fsm = r.fsm /\ x.cause = c
    BY <1>0 DEF Run
  <2>5. r.pc = "kpi" BY <1>2 DEF KpiPass, At
  <2> HIDE DEF x
  <2>6. GoesOn(t, x) BY <1>0, <2>2, <2>3, <2>4, <2>5 DEF GoesOn, Gathered, Passes
  <2> QED BY <2>6, CourseGathered
<1>3. CASE Reason(t)
  <2>0. r.pc = "reason" BY <1>3 DEF Reason, At
  <2>1. CASE Goto(t, "evaluate")
    <3> DEFINE x == [r EXCEPT !.pc = "evaluate"]
    <3>1. run' = [run EXCEPT ![t] = x] BY <2>1 DEF Goto, TypeOK
    <3>2. x.pc = "evaluate" /\ x.found = r.found /\ x.fsm = r.fsm /\ x.cause = r.cause
      BY <1>0 DEF Run
    <3> HIDE DEF x
    <3>3. GoesOn(t, x) BY <1>0, <2>0, <3>1, <3>2 DEF GoesOn, Gathered, Passes
    <3> QED BY <3>3, CourseGathered
  <2>2. ASSUME NEW sure \in BOOLEAN, r.cause = "none",
               run' = [run EXCEPT ![t].pc = "evaluate", ![t].cause = "llm_reasoning",
                                  ![t].sure = @ \/ sure]
        PROVE  Course' /\ Improves(t)
    <3> DEFINE s == r.sure \/ sure
               x == [r EXCEPT !.pc = "evaluate", !.cause = "llm_reasoning", !.sure = s]
    <3>1. run' = [run EXCEPT ![t] = x] BY <2>2 DEF TypeOK
    <3> HIDE DEF s
    <3>2. x.pc = "evaluate" /\ x.found = r.found /\ x.fsm = r.fsm BY <1>0 DEF Run
    <3> HIDE DEF x
    <3>3. GoesOn(t, x) BY <1>0, <2>0, <2>2, <3>1, <3>2 DEF GoesOn, Gathered, Passes
    <3> QED BY <3>3, CourseGathered
  <2> QED BY <1>3, <2>1, <2>2 DEF Reason
<1>4. CASE Evaluate(t)
  <2> DEFINE p == IF r.depth >= MaxDepth \/ Resolved(r) THEN "finalize" ELSE "begin"
             h == r.human \/ r.depth >= MaxDepth
             x == [r EXCEPT !.pc = p, !.human = h]
  <2>1. r.pc = "evaluate" BY <1>4 DEF Evaluate, At
  <2>2. run' = [run EXCEPT ![t] = x] BY <1>4 DEF Evaluate, TypeOK
  <2>3. p \in {"finalize", "begin"} OBVIOUS
  <2> HIDE DEF p, h
  <2>4. x.pc = p /\ x.found = r.found /\ x.fsm = r.fsm /\ x.cause = r.cause BY <1>0 DEF Run
  <2> HIDE DEF x
  <2>5. GoesOn(t, x) BY <1>0, <2>1, <2>2, <2>3, <2>4 DEF GoesOn, Gathered, Passes
  <2> QED BY <2>5, CourseGathered
<1> QED BY <1>1, <1>2, <1>3, <1>4

LEMMA CourseFinalize ==
  ASSUME TypeOK, Owned, Course, NEW t \in Threads, Finalize(t)
  PROVE  Course' /\ Improves(t)
<1>1. run[t] \in Run /\ run[t].pc = "finalize" /\ Follows(t) /\ UNCHANGED event
  BY DEF TypeOK, Finalize, At, Course
<1>2. PICK outcome \in {"free", "approval", "failed"} :
        run' = [run EXCEPT ![t].pc = After(t, "COMPLETE", "act"), ![t].fsm = "COMPLETE",
                           ![t].gate = GateShut(run[t].human, outcome)]
  BY DEF Finalize
<1> DEFINE g == GateShut(run[t].human, outcome)
           x == [run[t] EXCEPT !.pc = "act", !.fsm = "COMPLETE", !.gate = g]
<1>3. After(t, "COMPLETE", "act") = "act" BY <1>1, MovesAllowed
<1>4. run' = [run EXCEPT ![t] = x] BY <1>2, <1>3 DEF TypeOK
<1> HIDE DEF g
<1>5. x.pc = "act" /\ x.found = run[t].found /\ x.cause = run[t].cause BY <1>1 DEF Run
<1> HIDE DEF x
<1>6. GoesOn(t, x) BY <1>1, <1>4, <1>5 DEF GoesOn, Gathered, Passes
<1> QED BY <1>6, CourseGathered

LEMMA CourseAct ==
  ASSUME TypeOK, Owned, Course, NEW t \in Threads,
         Withhold(t) \/ RunStep(t) \/ SkipEmail(t) \/ Persist(t)
  PROVE  Course' /\ Improves(t)
<1> DEFINE r == run[t]
           s == StepOf(t)
<1>1. r \in Run /\ r.pc = "act" /\ UNCHANGED event
  BY DEF TypeOK, Withhold, RunStep, SkipEmail, Persist, Acting, At, Local
<1>2. CASE Persist(t)
  <2> DEFINE x == [r EXCEPT !.pc = "approve"]
  <2>1. run' = [run EXCEPT ![t] = x] BY <1>2 DEF Persist, Goto, TypeOK
  <2>2. x.pc = "approve" /\ x.found = r.found /\ x.cause = r.cause BY <1>1 DEF Run
  <2> HIDE DEF x
  <2>3. GoesOn(t, x) BY <1>1, <2>1, <2>2 DEF GoesOn, Gathered, Passes
  <2> QED BY <2>3, CourseGathered
<1>3. CASE Withhold(t) \/ RunStep(t) \/ SkipEmail(t)
  <2>1. PICK a, b, c : run' = [run EXCEPT ![t] = [r EXCEPT !.pos = r.pos + 1, !.executed = a,
                                                           !.skipped = b, !.pending = c]]
    <3>1. CASE Withhold(t)
      <4>1. run' = [run EXCEPT ![t] = [r EXCEPT !.pos = r.pos + 1, !.executed = r.executed,
                      !.skipped = r.skipped \cup {s}, !.pending = r.pending \cup {s}]]
        BY ZenonT(60), <1>1, <3>1 DEF Withhold, TypeOK, Run
      <4> QED BY <4>1
    <3>2. CASE \/ run' = [run EXCEPT ![t].pos = @ + 1, ![t].executed = @ \cup {s}]
      <4>1. run' = [run EXCEPT ![t] = [r EXCEPT !.pos = r.pos + 1,
                      !.executed = r.executed \cup {s},
                      !.skipped = r.skipped, !.pending = r.pending]]
        BY <1>1, <3>2 DEF TypeOK, Run
      <4> QED BY <4>1
    <3>3. ASSUME NEW d, run' = [run EXCEPT ![t].pos = @ + 1, ![t].skipped = @ \cup {d}]
          PROVE  \E a, b, c : run' = [run EXCEPT ![t] = [r EXCEPT !.pos = r.pos + 1,
                                        !.executed = a, !.skipped = b, !.pending = c]]
      <4>1. run' = [run EXCEPT ![t] = [r EXCEPT !.pos = r.pos + 1, !.executed = r.executed,
                      !.skipped = r.skipped \cup {d}, !.pending = r.pending]]
        BY <1>1, <3>3 DEF TypeOK, Run
      <4> QED BY <4>1
    <3> QED BY <1>3, <3>1, <3>2, <3>3 DEF RunStep, SkipEmail
  <2> DEFINE x == [r EXCEPT !.pos = r.pos + 1, !.executed = a, !.skipped = b, !.pending = c]
  <2>2. x.pc = "act" /\ x.found = r.found /\ x.cause = r.cause BY <1>1 DEF Run
  <2>3. run' = [run EXCEPT ![t] = x] BY <2>1
  <2> HIDE DEF x
  <2>4. GoesOn(t, x) BY <1>1, <2>2, <2>3 DEF GoesOn, Gathered, Passes
  <2> QED BY <2>4, CourseGathered
<1> QED BY <1>2, <1>3

LEMMA OneMoves ==
  ASSUME TypeOK, Owned, NEW t \in Threads, Arrive(t) \/ ThreadStep(t) \/ Die(t)
  PROVE  \A u \in Threads : u # t => run'[u] = run[u]
<1> SUFFICES \E x : run' = [run EXCEPT ![t] = x]
  BY OtherThreads
<1>1. CASE Arrive(t) BY <1>1, CreateShape DEF Arrive, Takes, Becomes
<1>2. CASE Pass(t) BY <1>2, PassShape DEF Thinks, Becomes
<1>3. CASE Claim(t) \/ HandleEvent(t) BY <1>3, AnnounceShape DEF Announces, Becomes
<1>4. CASE Suppress(t) \/ DropOnRedisError(t) \/ Swallow(t) \/ Die(t)
  BY <1>4, GiveUpShape DEF GivesUp
<1>5. CASE Finalize(t) BY <1>5, FinalizeShape DEF Decides, Becomes
<1>6. CASE Withhold(t) \/ RunStep(t) \/ SkipEmail(t) BY <1>6, WorkShape DEF Works, Becomes
<1>7. CASE Persist(t) BY <1>7, PersistShape DEF Becomes
<1>8. CASE RecordApproval(t) BY <1>8, RecordShape
<1> QED BY <1>1, <1>2, <1>3, <1>4, <1>5, <1>6, <1>7, <1>8 DEF ThreadStep, Pass

LEMMA InitCourse == Init => Course
BY DEF Init, Course, OnlyDecideRaises, Follows, NoEvent, Rest, Before, Gathered, Passes

LEMMA StepCourse ==
  ASSUME TypeOK, Owned, Course, [Next]_vars
  PROVE  Course' /\ \A t \in Threads : Improves(t)
<1>1. ASSUME UNCHANGED <<event, run>> PROVE Course' /\ \A t \in Threads : Improves(t)
  BY <1>1 DEF Course, OnlyDecideRaises, Follows, ModelIsOut, Improves
<1>2. ASSUME NEW t \in Threads, Arrive(t) \/ ThreadStep(t) \/ Die(t)
      PROVE  Course' /\ \A u \in Threads : Improves(u)
  <2>1. Arrive(t) => Course' /\ Improves(t) BY CourseCreate DEF Arrive, Improves
  <2>2. Course' /\ Improves(t)
    BY <1>2, <2>1, CourseRest, CoursePublish, CourseBegin, CourseGather,
       CoursePass, CourseFinalize, CourseAct
    DEF ThreadStep, Improves
  <2>3. \A u \in Threads : u # t => run'[u] = run[u] BY <1>2, OneMoves
  <2> QED BY <2>2, <2>3 DEF Improves
<1>3. CASE \E e \in EventIds : Release(e) BY <1>1, <1>3 DEF Release
<1> QED BY <1>1, <1>2, <1>3 DEF Next, vars

LEMMA AlwaysCourse == Spec => []Course
<1>1. TypeOK /\ Owned /\ Course /\ [Next]_vars => Course' BY StepCourse
<1> QED BY <1>1, InitCourse, Reachable, PTL DEF Spec

(* Every evidence stage has spoken exactly once by the time an incident is   *)
(* evaluated, planned and acted upon, however many passes it took            *)
(* (the _has_*_finding guards of the orchestrator).                          *)
THEOREM StagesSpeakOnce == Spec => []EveryStageSpokeOnce
<1>1. Course => EveryStageSpokeOnce BY DEF Course, Follows, Gathered, EveryStageSpokeOnce
<1> QED BY <1>1, AlwaysCourse, PTL

(* No transition of the state machine is ever refused, so an investigation   *)
(* raises for one reason only: decide asks the language model, in the third  *)
(* pass or later of an event below HIGH, while the model is out.             *)
THEOREM RaisesInDecide == Spec => []OnlyDecideRaises
<1>1. Course => OnlyDecideRaises BY DEF Course
<1> QED BY <1>1, AlwaysCourse, PTL

(* In no step does an incident lose a root cause for anything but a grounded *)
(* one from RAG, in whichever order the passes write.                        *)
THEOREM CausesImprove == Spec => CauseOnlyImproves
<1>1. TypeOK /\ Owned /\ Course /\ [Next]_vars
        => [\A t \in Threads : run'[t].event = run[t].event =>
              run[t].cause \in {run'[t].cause, "none"} \/ run'[t].cause = "rag"]_vars
  BY StepCourse DEF Improves
<1> QED BY <1>1, AlwaysCourse, Reachable, PTL DEF Spec, CauseOnlyImproves

=============================================================================
