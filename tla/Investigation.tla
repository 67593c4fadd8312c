--------------------------- MODULE Investigation ---------------------------
(***************************************************************************)
(* From a detected anomaly to a closed incident: MonitorAgent.process_kpi, *)
(* EventDeduplicator, EventBus.publish, POST /trigger and the Orchestrator *)
(* (handle_event, _investigate, _evaluate, _finalize_incident), with the   *)
(* incident's state machine.                                               *)
(*                                                                         *)
(* A monitor thread detects an anomaly, claims the key of its metric and   *)
(* hour in Redis, and then runs the whole investigation itself, inside     *)
(* EventBus.publish; so does the thread of a manual trigger, without       *)
(* claiming anything. Several such threads run at once, on any host.       *)
(***************************************************************************)
EXTENDS Naturals, FiniteSets, Sequences

CONSTANTS
  Monitors,       \* monitor threads, one per application instance
  Triggers,       \* web threads that serve POST /trigger
  MetricHours,    \* a metric in an hour: what a deduplication key names
  Stages,         \* evidence stages that run once per incident
  Plan,           \* the runbook's steps in the order they run
  RagOutcomes,    \* what one RAG pass may find, see Outcome
  KpiOutcomes,    \* what one KPI pass may find
  MaxDepth,       \* MAX_INVESTIGATION_DEPTH
  LLMEnabled,     \* LLM_ENABLED
  Enforced,       \* is the review service wired and enforcing?
  Outages,        \* subset of {"redis", "llm", "database", "planner"}
  MaxEvents, MaxDeaths   \* bounds

VARIABLES
  event,     \* events created so far: their metric and hour, severity and fate
  claimed,   \* the deduplication keys in Redis
  run,       \* what each thread is doing
  row,       \* the incidents table, by event
  approval,  \* the incident_approvals table, by event
  called,    \* <<event, step>> handed to ActionAgent, by anyone
  sensitive, \* history: events a human must approve the steps of
  deaths

vars == <<event, claimed, run, row, approval, called, sensitive, deaths>>

Threads == Monitors \cup Triggers
EventIds == 1..MaxEvents
StepSet == {Plan[i] : i \in 1..Len(Plan)}

Notifications == {"jira", "slack", "marketing_slack", "email"}

(* What a RAG or KPI pass contributes: a root cause or none, how many pieces *)
(* of evidence (three are as good as more), confidence above 0.8, and        *)
(* whether it asks for human review.                                         *)
Outcome == {o \in [cause : BOOLEAN, evidence : 0..3, sure : BOOLEAN, human : BOOLEAN] :
              o.cause => o.evidence > 0}

ASSUME Constants ==
  /\ Monitors \cap Triggers = {}
  /\ MaxDepth \in Nat \ {0}          \* Field(default=5, ge=1)
  /\ MaxEvents \in Nat /\ MaxDeaths \in Nat
  /\ Plan \in Seq(StepSet)
  /\ \A i, j \in 1..Len(Plan) : i # j => Plan[i] # Plan[j]
  /\ \A i, j \in 1..Len(Plan) :      \* notifications after everything else
       i < j /\ Plan[i] \in Notifications => Plan[j] \in Notifications
  /\ RagOutcomes \subseteq Outcome /\ KpiOutcomes \subseteq Outcome
  /\ LLMEnabled \in BOOLEAN /\ Enforced \in BOOLEAN

-----------------------------------------------------------------------------
(* The incident's state machine. *)

FsmStates == {"IDLE", "EVENT_RECEIVED", "INVESTIGATING", "DECIDING",
              "ACTION_PENDING", "ACTION_EXECUTING", "COMPLETE"}

(* Mutant: a decided incident cannot be sent back for more evidence. *)
AllowedNoReturn(s) ==
  CASE s = "IDLE"             -> {"EVENT_RECEIVED"}
    [] s = "EVENT_RECEIVED"   -> {"INVESTIGATING", "COMPLETE"}
    [] s = "INVESTIGATING"    -> {"DECIDING", "INVESTIGATING", "COMPLETE"}
    [] s = "DECIDING"         -> {"ACTION_PENDING", "COMPLETE"}
    [] s = "ACTION_PENDING"   -> {"ACTION_EXECUTING", "DECIDING", "COMPLETE"}
    [] s = "ACTION_EXECUTING" -> {"COMPLETE", "DECIDING"}
    [] s = "COMPLETE"         -> {}

Allowed(s) ==
  CASE s = "IDLE"             -> {"EVENT_RECEIVED"}
    [] s = "EVENT_RECEIVED"   -> {"INVESTIGATING", "COMPLETE"}
    [] s = "INVESTIGATING"    -> {"DECIDING", "INVESTIGATING", "COMPLETE"}
    [] s = "DECIDING"         -> {"ACTION_PENDING", "INVESTIGATING", "COMPLETE"}
    [] s = "ACTION_PENDING"   -> {"ACTION_EXECUTING", "DECIDING", "COMPLETE"}
    [] s = "ACTION_EXECUTING" -> {"COMPLETE", "DECIDING"}
    [] s = "COMPLETE"         -> {}

-----------------------------------------------------------------------------
(* State. *)

Severities == {"MEDIUM", "HIGH"}   \* LOW behaves as MEDIUM, CRITICAL as HIGH

(* "suppressed": a duplicate; "dropped": Redis did not answer, or the        *)
(* process died before publishing it; "open": under investigation; "closed": *)
(* finalized; "raised": the investigation raised; "dead": its process died.  *)
Investigated == {"open", "closed", "raised", "dead"}
Fates == {"none", "new", "suppressed", "dropped"} \cup Investigated

Event == [hour : MetricHours \cup {"none"}, severity : Severities,
          manual : BOOLEAN, fate : Fates]
NoEvent == [hour |-> "none", severity |-> "MEDIUM", manual |-> FALSE, fate |-> "none"]

Causes == {"none", "kpi_analysis", "llm_reasoning", "rag"}

(* A thread and the incident it works on (STM and state machine). evidence   *)
(* counts up to 3, the number EvaluationEngine asks for.                     *)
Run == [pc : {"idle", "check", "publish", "begin", "gather", "rag", "kpi", "reason",
              "evaluate", "finalize", "act", "approve", "raised"},
        event : 0..MaxEvents, fsm : FsmStates, depth : 0..MaxDepth,
        found : [Stages -> 0..MaxDepth], cause : Causes, evidence : 0..3,
        sure : BOOLEAN, human : BOOLEAN, gate : BOOLEAN, pos : 1..(Len(Plan) + 1),
        executed : SUBSET StepSet, skipped : SUBSET StepSet, pending : SUBSET StepSet]

Rest == [pc |-> "idle", event |-> 0, fsm |-> "IDLE", depth |-> 0,
         found |-> [s \in Stages |-> 0], cause |-> "none", evidence |-> 0,
         sure |-> FALSE, human |-> FALSE, gate |-> FALSE, pos |-> 1,
         executed |-> {}, skipped |-> {}, pending |-> {}]

Row == [present : BOOLEAN, executed : SUBSET StepSet, skipped : SUBSET StepSet,
        human : BOOLEAN]
NoRow == [present |-> FALSE, executed |-> {}, skipped |-> {}, human |-> FALSE]

Approval == [status : {"none", "pending", "approved"}, pending : SUBSET StepSet]
NoApproval == [status |-> "none", pending |-> {}]

Init ==
  /\ event = [e \in EventIds |-> NoEvent]
  /\ claimed = {}
  /\ run = [t \in Threads |-> Rest]
  /\ row = [e \in EventIds |-> NoRow]
  /\ approval = [e \in EventIds |-> NoApproval]
  /\ called = {} /\ sensitive = {} /\ deaths = 0

At(t, pc) == run[t].pc = pc
Goto(t, pc) == run' = [run EXCEPT ![t].pc = pc]
Fate(e, f) == event' = [event EXCEPT ![e].fate = f]
Key(e) == event[e].hour

(* An investigation step: only the thread's own incident changes. *)
Local == UNCHANGED <<event, claimed, row, approval, called, sensitive, deaths>>

-----------------------------------------------------------------------------
(* Detection, deduplication, publication. *)

(* create_event: the event gets an identity and the hour of its timestamp.  *)
(* Threads lag behind each other by any amount, so no clock orders the hours. *)
(* One detection signal makes an event MEDIUM, two or more HIGH.             *)
Create(t, h, sev, manual) ==
  \E e \in EventIds :
    /\ event[e].fate = "none" /\ \A f \in 1..(e - 1) : event[f].fate # "none"
    /\ event' = [event EXCEPT ![e] = [hour |-> h, severity |-> sev, manual |-> manual,
                                      fate |-> "new"]]
    /\ run' = [run EXCEPT ![t] = [Rest EXCEPT !.pc = IF manual THEN "publish" ELSE "check",
                                              !.event = e]]

Detect(t, h, sev) ==
  /\ t \in Monitors /\ At(t, "idle")
  /\ Create(t, h, sev, FALSE)
  /\ UNCHANGED <<claimed, row, approval, called, sensitive, deaths>>

(* POST /trigger: no deduplication. *)
Trigger(t, h, sev) ==
  /\ t \in Triggers /\ At(t, "idle")
  /\ Create(t, h, sev, TRUE)
  /\ UNCHANGED <<claimed, row, approval, called, sensitive, deaths>>

(* Mutant: SET without NX always succeeds. *)
ClaimWithoutNX(t) ==
  LET e == run[t].event IN
  /\ At(t, "check")
  /\ claimed' = claimed \cup {Key(e)}
  /\ Goto(t, "publish")
  /\ UNCHANGED <<event, row, approval, called, sensitive, deaths>>

(* is_duplicate: SET key NX EX. The key outlives its hour, and no thread is  *)
(* taken to wait for Redis that long, so keys never go away here.            *)
Claim(t) ==
  LET e == run[t].event IN
  /\ At(t, "check") /\ Key(e) \notin claimed
  /\ claimed' = claimed \cup {Key(e)}
  /\ Goto(t, "publish")
  /\ UNCHANGED <<event, row, approval, called, sensitive, deaths>>

Suppress(t) ==
  LET e == run[t].event IN
  /\ At(t, "check") /\ Key(e) \in claimed
  /\ Fate(e, "suppressed")
  /\ run' = [run EXCEPT ![t] = Rest]
  /\ UNCHANGED <<claimed, row, approval, called, sensitive, deaths>>

(* RedisError leaves process_kpi; _run_cycle logs it and goes on. Redis may  *)
(* have set the key before the connection failed.                            *)
DropOnRedisError(t) ==
  LET e == run[t].event IN
  /\ At(t, "check") /\ "redis" \in Outages
  /\ claimed' \in {claimed, claimed \cup {Key(e)}}
  /\ Fate(e, "dropped")
  /\ run' = [run EXCEPT ![t] = Rest]
  /\ UNCHANGED <<row, approval, called, sensitive, deaths>>

(* EventBus.publish calls handle_event on this very thread: fresh STM and   *)
(* state machine, EVENT_RECEIVED.                                           *)
HandleEvent(t) ==
  /\ At(t, "publish")
  /\ Fate(run[t].event, "open")
  /\ run' = [run EXCEPT ![t].pc = "begin", ![t].fsm = "EVENT_RECEIVED"]
  /\ UNCHANGED <<claimed, row, approval, called, sensitive, deaths>>

(* An exception out of handle_event: publish collects it in a HandlerError,  *)
(* which process_kpi logs and the trigger endpoint answers with a 500.       *)
Swallow(t) ==
  /\ At(t, "raised")
  /\ Fate(run[t].event, "raised")
  /\ run' = [run EXCEPT ![t] = Rest]
  /\ UNCHANGED <<claimed, row, approval, called, sensitive, deaths>>

-----------------------------------------------------------------------------
(* One pass of _investigate. *)

(* transition() raises ValueError for a move the table does not allow. *)
After(t, to, pc) == IF to \in Allowed(run[t].fsm) THEN pc ELSE "raised"

(* Mutant: every pass starts from depth 1. *)
InvestigateForgetsDepth(t) ==
  /\ At(t, "begin")
  /\ run' = [run EXCEPT ![t].pc = After(t, "INVESTIGATING", "gather"),
                        ![t].fsm = "DECIDING", ![t].depth = 1]
  /\ Local

(* INVESTIGATING, depth + 1, decide, DECIDING. decide always answers         *)
(* INVESTIGATE: the LLM it asks from the third pass on for MEDIUM and LOW    *)
(* events only comments on the rule's decision.                              *)
Investigate(t) ==
  /\ At(t, "begin")
  /\ run' = [run EXCEPT ![t].pc = After(t, "INVESTIGATING", "gather"),
                        ![t].fsm = "DECIDING", ![t].depth = @ + 1]
  /\ Local

AsksLLM(t) ==
  /\ LLMEnabled /\ run[t].depth + 1 > 2
  /\ event[run[t].event].severity = "MEDIUM"

(* LLMService.query raises (outage, open breaker): nothing between decide    *)
(* and EventBus._invoke catches it.                                          *)
DecideFails(t) ==
  /\ At(t, "begin") /\ AsksLLM(t) /\ "llm" \in Outages
  /\ Goto(t, "raised") /\ Local

(* Mutant: the stages run on every pass. *)
GatherAgain(t) ==
  /\ At(t, "gather")
  /\ run' = [run EXCEPT ![t].pc = "rag", ![t].found = [s \in Stages |-> @[s] + 1]]
  /\ Local

(* Memory, policy, cross-dataset, graph, adaptive: each appends exactly one  *)
(* finding, a fallback one if it fails, unless the incident has one.         *)
Gather(t) ==
  /\ At(t, "gather")
  /\ run' = [run EXCEPT ![t].pc = "rag",
                        ![t].found = [s \in Stages |-> IF @[s] = 0 THEN 1 ELSE @[s]]]
  /\ Local

AtMostThree(n) == IF n > 3 THEN 3 ELSE n

(* RAG, at HIGH and CRITICAL only; it never raises. A meaningful cause       *)
(* replaces whatever cause there is, with its confidence.                    *)
Rag(t) ==
  /\ At(t, "rag")
  /\ \/ /\ event[run[t].event].severity = "HIGH"
        /\ \E o \in RagOutcomes :
             run' = [run EXCEPT ![t].pc = "kpi",
                                ![t].cause = IF o.cause THEN "rag" ELSE @,
                                ![t].sure = @ \/ (o.cause /\ o.sure),
                                ![t].evidence = AtMostThree(@ + o.evidence),
                                ![t].human = @ \/ o.human]
     \/ event[run[t].event].severity = "MEDIUM" /\ Goto(t, "kpi")
  /\ Local

(* The KPI pass: a piece of evidence (none if the agent is disabled), a      *)
(* cause only where there is none.                                           *)
KpiPass(t) ==
  /\ At(t, "kpi")
  /\ \E o \in KpiOutcomes :
       run' = [run EXCEPT ![t].pc = "reason",
                          ![t].cause = IF o.cause /\ @ = "none" THEN "kpi_analysis" ELSE @,
                          ![t].sure = @ \/ o.sure,
                          ![t].evidence = AtMostThree(@ + o.evidence)]
  /\ Local

(* Mutant: the LLM's cause is written whatever is there. *)
ReasonOverwrites(t) ==
  /\ At(t, "reason")
  /\ \E cause \in BOOLEAN :
       run' = [run EXCEPT ![t].pc = "evaluate",
                          ![t].cause = IF cause THEN "llm_reasoning" ELSE @]
  /\ Local

(* LLM reasoning from the third pass on; a failure, an unparsable answer or  *)
(* an answer without a cause leave things as they are, and so does any cause *)
(* already found.                                                            *)
Reason(t) ==
  /\ At(t, "reason")
  /\ \/ /\ run[t].depth >= 3 /\ LLMEnabled /\ run[t].cause = "none"
        /\ \E sure \in BOOLEAN :
             run' = [run EXCEPT ![t].pc = "evaluate", ![t].cause = "llm_reasoning",
                                ![t].sure = @ \/ sure]
     \/ Goto(t, "evaluate")
  /\ Local

(* EvaluationEngine: 0.4 for a cause, 0.3 for three pieces of evidence, 0.2  *)
(* for confidence above 0.8 (nothing sets action_taken this early): 0.8 is   *)
(* reached by all three together only.                                       *)
Resolved(r) == r.cause # "none" /\ r.evidence >= 3 /\ r.sure

(* Mutant: one pass too many. *)
EvaluateLate(t) ==
  LET r == run[t] IN
  /\ At(t, "evaluate")
  /\ run' = [run EXCEPT ![t].pc = IF r.depth > MaxDepth \/ Resolved(r)
                                    THEN "finalize" ELSE "begin",
                        ![t].human = @ \/ r.depth > MaxDepth]
  /\ Local

(* The depth limit is looked at first. *)
Evaluate(t) ==
  LET r == run[t] IN
  /\ At(t, "evaluate")
  /\ run' = [run EXCEPT ![t].pc = IF r.depth >= MaxDepth \/ Resolved(r)
                                    THEN "finalize" ELSE "begin",
                        ![t].human = @ \/ r.depth >= MaxDepth]
  /\ Local

-----------------------------------------------------------------------------
(* _finalize_incident. *)

Gated(s) == s \notin Notifications

(* Mutant: a failed planner requires nobody's approval. *)
ApprovalRequiredFailsOpen(human, outcome) ==
  outcome = "approval" \/ (human /\ outcome # "failed")

(* human_approval_required: the planner ors requires_human with conflicts,   *)
(* thin evidence, policies and the runbook's own advice ("approval"); the    *)
(* plan that stands in for a failed one requires approval. Every runbook of  *)
(* today advises something: "free" stands for one that does not.             *)
ApprovalRequired(human, outcome) == human \/ outcome \in {"approval", "failed"}

(* _resolve_approval_gate; a failing resolve_chain keeps the gate shut.      *)
GateShut(human, outcome) == Enforced /\ ApprovalRequired(human, outcome)

(* COMPLETE, the plan, and the gate. *)
Finalize(t) ==
  LET r == run[t] IN
  /\ At(t, "finalize")
  /\ \E outcome \in {"free", "approval", "failed"} :
       /\ outcome = "failed" => "planner" \in Outages
       /\ run' = [run EXCEPT ![t].pc = After(t, "COMPLETE", "act"), ![t].fsm = "COMPLETE",
                             ![t].gate = GateShut(r.human, outcome)]
       /\ sensitive' = IF Enforced /\ (r.human \/ outcome # "free")
                         THEN sensitive \cup {r.event} ELSE sensitive
  /\ UNCHANGED <<event, claimed, row, approval, called, deaths>>

Acting(t) == At(t, "act") /\ run[t].pos <= Len(Plan)
StepOf(t) == Plan[run[t].pos]

(* Mutant: a withheld step is not listed among the skipped ones. *)
WithholdUnlisted(t) ==
  LET s == StepOf(t) IN
  /\ Acting(t) /\ run[t].gate /\ Gated(s)
  /\ run' = [run EXCEPT ![t].pos = @ + 1, ![t].pending = @ \cup {s}]
  /\ Local

Withhold(t) ==
  LET s == StepOf(t) IN
  /\ Acting(t) /\ run[t].gate /\ Gated(s)
  /\ run' = [run EXCEPT ![t].pos = @ + 1, ![t].pending = @ \cup {s},
                        ![t].skipped = @ \cup {s}]
  /\ Local

(* _run_step: only SUCCESS counts as executed. *)
RunStep(t) ==
  LET s == StepOf(t) IN
  /\ Acting(t) /\ ~(run[t].gate /\ Gated(s))
  /\ called' = called \cup {<<run[t].event, s>>}
  /\ \/ run' = [run EXCEPT ![t].pos = @ + 1, ![t].executed = @ \cup {s}]
     \/ run' = [run EXCEPT ![t].pos = @ + 1, ![t].skipped = @ \cup {s}]
  /\ UNCHANGED <<event, claimed, row, approval, sensitive, deaths>>

(* INCIDENT_REPORT_RECIPIENTS is empty: the report is not sent. *)
SkipEmail(t) ==
  /\ Acting(t) /\ StepOf(t) = "email"
  /\ run' = [run EXCEPT ![t].pos = @ + 1, ![t].skipped = @ \cup {"email"}]
  /\ Local

(* LongTermMemory.record_incident; a failure is logged and forgotten. *)
Persist(t) ==
  LET r == run[t] IN
  /\ At(t, "act") /\ ~Acting(t)
  /\ \/ row' = [row EXCEPT ![r.event] = [present |-> TRUE, executed |-> r.executed,
                                         skipped |-> r.skipped, human |-> r.human]]
     \/ "database" \in Outages /\ UNCHANGED row
  /\ Goto(t, "approve")
  /\ UNCHANGED <<event, claimed, approval, called, sensitive, deaths>>

(* record_pending_approval if the gate is shut, a failure being logged only; *)
(* then the incident is remembered and its STM cleared.                      *)
RecordApproval(t) ==
  LET r == run[t] IN
  /\ At(t, "approve")
  /\ \/ r.gate /\ approval' = [approval EXCEPT ![r.event] =
                                 [status |-> "pending", pending |-> r.pending]]
     \/ (r.gate => "database" \in Outages) /\ UNCHANGED approval
  /\ Fate(r.event, "closed")
  /\ run' = [run EXCEPT ![t] = Rest]
  /\ UNCHANGED <<claimed, row, called, sensitive, deaths>>

-----------------------------------------------------------------------------
(* Around it. *)

(* The approval chain is complete (module HumanReview): the recorded steps   *)
(* run.                                                                      *)
Release(e) ==
  /\ approval[e].status = "pending"
  /\ approval' = [approval EXCEPT ![e].status = "approved"]
  /\ called' = called \cup ({e} \X approval[e].pending)
  /\ UNCHANGED <<event, claimed, run, row, sensitive, deaths>>

(* The process of a thread dies; what it wrote stays. *)
Die(t) ==
  /\ ~At(t, "idle") /\ deaths < MaxDeaths
  /\ Fate(run[t].event, IF event[run[t].event].fate = "open" THEN "dead" ELSE "dropped")
  /\ run' = [run EXCEPT ![t] = Rest]
  /\ deaths' = deaths + 1
  /\ UNCHANGED <<claimed, row, approval, called, sensitive>>

-----------------------------------------------------------------------------

Arrive(t) == \E h \in MetricHours, sev \in Severities : Detect(t, h, sev) \/ Trigger(t, h, sev)

ThreadStep(t) ==
  \/ Claim(t) \/ Suppress(t) \/ DropOnRedisError(t) \/ HandleEvent(t) \/ Swallow(t)
  \/ Investigate(t) \/ DecideFails(t)
  \/ Gather(t) \/ Rag(t) \/ KpiPass(t) \/ Reason(t) \/ Evaluate(t)
  \/ Finalize(t) \/ Withhold(t) \/ RunStep(t) \/ SkipEmail(t)
  \/ Persist(t) \/ RecordApproval(t)

Next ==
  \/ \E t \in Threads : Arrive(t) \/ ThreadStep(t) \/ Die(t)
  \/ \E e \in EventIds : Release(e)

Spec == Init /\ [][Next]_vars

(* A thread that has an event keeps working on it. *)
FairSpec == Spec /\ \A t \in Threads : WF_vars(ThreadStep(t))

-----------------------------------------------------------------------------
(* Properties. *)

TypeOK ==
  /\ event \in [EventIds -> Event] /\ claimed \subseteq MetricHours \cup {"none"}
  /\ run \in [Threads -> Run] /\ row \in [EventIds -> Row]
  /\ approval \in [EventIds -> Approval]
  /\ called \subseteq (EventIds \X StepSet) /\ sensitive \subseteq EventIds
  /\ deaths \in 0..MaxDeaths

(* However many instances watch a metric, an hour of it is investigated once *)
(* by them all, even if that investigation fails; only manual triggers come  *)
(* on top (EventDeduplicator.is_duplicate).                                  *)
OneInvestigationPerWindow ==
  \A e, f \in EventIds :
    /\ e # f /\ event[e].fate \in Investigated /\ event[f].fate \in Investigated
    /\ ~event[e].manual /\ ~event[f].manual
    => Key(e) # Key(f)

(* A gated step of an incident that needs a human, or whose planning failed, *)
(* reaches ActionAgent only out of its approved record                       *)
(* (_resolve_approval_gate, the withholding loop of _finalize_incident).     *)
WithheldUntilApproved ==
  \A e \in sensitive, s \in StepSet :
    Gated(s) /\ <<e, s>> \in called =>
      approval[e].status = "approved" /\ s \in approval[e].pending

(* The record of an incident accounts for its whole runbook: every step is   *)
(* listed once, nothing is called executed that was not handed to            *)
(* ActionAgent, and what waits for approval is not (audit_summary).          *)
EveryStepAccounted ==
  \A e \in EventIds : row[e].present =>
    /\ row[e].executed \cup row[e].skipped = StepSet
    /\ row[e].executed \cap row[e].skipped = {}
    /\ \A s \in row[e].executed : <<e, s>> \in called
    /\ approval[e].pending \subseteq row[e].skipped

(* Every evidence stage has spoken, and only once, by the time an incident   *)
(* is planned and acted upon (the _has_*_finding guards).                    *)
EveryStageSpokeOnce ==
  \A t \in Threads : run[t].pc \in {"evaluate", "finalize", "act", "approve"} =>
    \A s \in Stages : run[t].found[s] = 1

(* A root cause gives way to a grounded one from RAG and to nothing else:    *)
(* the writer that runs last does not win.                                   *)
CauseOnlyImproves ==
  [][\A t \in Threads : run'[t].event = run[t].event =>
       run[t].cause \in {run'[t].cause, "none"} \/ run'[t].cause = "rag"]_vars

(* No investigation raises except in decide, when it asks the LLM: never for *)
(* HIGH and CRITICAL events, never in the first two passes.                  *)
OnlyDecideRaises ==
  \A e \in EventIds : event[e].fate = "raised" =>
    event[e].severity = "MEDIUM" /\ LLMEnabled /\ "llm" \in Outages /\ MaxDepth > 2

(* Every investigation comes to an end.                                      *)
InvestigationEnds ==
  \A e \in EventIds : event[e].fate = "open" ~> event[e].fate \in {"closed", "raised", "dead"}

(* docs/ai_governance.md: when the LLM fails, "DecisionEngine falls back to  *)
(* the deterministic rule-based decision", so an LLM outage costs no         *)
(* incident its record. The code does not.                                   *)
OutageRecorded ==
  \A e \in EventIds : event[e].fate = "open" ~> row[e].present

=============================================================================
