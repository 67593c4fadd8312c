-------------------------- MODULE PlatformChecks ---------------------------
(***************************************************************************)
(* Calls of what tells of the platform and of finished investigations:     *)
(* health, replay and timeline, observability, and the supervisor.         *)
(***************************************************************************)
EXTENDS Calls, Replay, Observability, Supervisor, Explanation

CONSTANT
  PlatformInputs   \* operation -> what it is called with

-----------------------------------------------------------------------------
(* Inputs *)

(* What one call of GET /health meets.                                      *)
HealthInput(in) ==
  /\ in.database \in BOOLEAN /\ in.redis \in BOOLEAN /\ in.monitor \in BOOLEAN
  /\ in.stale \in Nat /\ in.interval \in Nat
  /\ in.monitorAge \in Seq(Int) /\ in.workerAge \in Seq(Int)

(* The column of findings, and the length of a page.                        *)
AuditInput(audit) ==
  /\ \A k \in DOMAIN audit.durations : audit.durations[k] \in Nat
  /\ audit.total \in Seq(Int)

ReplayInput(in) ==
  /\ in.limit \in Seq(Int)
  /\ in.stored.is = "list" =>
       /\ IsList(in.stored.findings)
       /\ \A i \in DOMAIN in.stored.findings :
            in.stored.findings[i].type = <<"audit_summary">> => AuditInput(in.stored.findings[i].audit)

(* The findings of one investigation, by what is read of each type.         *)
FoundInput(f) ==
  LET d == f.data
  IN /\ {"type", "data"} \subseteq DOMAIN f
     /\ CASE f.type = "policy" -> IsList(d.matches)
          [] f.type = "memory" -> /\ IsList(d.matches)
                                  /\ \A i \in DOMAIN d.matches : d.matches[i].similarity \in Int
          [] f.type = "cross_dataset" ->
               /\ {"insufficient", "checked", "supporting", "strong", "contradicting"} \subseteq DOMAIN d
               /\ IsList(d.supporting) /\ IsList(d.strong) /\ IsList(d.contradicting)
               /\ d.checked \in Nat
          [] f.type = "adaptive" -> IsList(d.seasonality)
          [] f.type = "rag" -> /\ IsList(d.causes) /\ IsList(d.chunks)
                               /\ \A i \in DOMAIN d.causes : d.causes[i].confidence \in Int
          [] OTHER -> TRUE

(* What planning and explaining are given at the end; whether planning      *)
(* raises.                                                                  *)
ConcludeInput(in) ==
  /\ IsList(in.findings) /\ \A i \in DOMAIN in.findings : FoundInput(in.findings[i])
  /\ in.confidence \in Seq(Int) /\ IsList(in.runbook)

ASSUME PlatformInputsAssumption ==
  /\ DOMAIN PlatformInputs = {"health", "replay", "summary", "mesh", "conclude"}
  /\ \A in \in PlatformInputs.health : HealthInput(in)
  /\ \A in \in PlatformInputs.replay : ReplayInput(in)
  /\ \A in \in PlatformInputs.conclude : ConcludeInput(in)

AskingPlatform == \E op \in DOMAIN PlatformInputs : \E in \in PlatformInputs[op] : Ask(op, in)

-----------------------------------------------------------------------------
(* Answering *)

AskHealth == Asked("health") /\ Answers(BuildHealthPayload(call.in))

(* The first pages up to the one that says it is the last, and the timeline.*)
Pages(stored, limit) ==
  LET all == [i \in 1..(Len(Findings(stored)) + 1) |->
                Reconstruct(stored, (i - 1) * ClampLimit(limit), limit)]
  IN SubSeq(all, 1, Min({i \in DOMAIN all : ~all[i].truncated}))

AskReplay ==
  /\ Asked("replay")
  /\ Answers([pages |-> Pages(call.in.stored, call.in.limit), timeline |-> Timeline(call.in.stored)])

AskSummary == Asked("summary") /\ Answers(Summarize(call.in))

AskMesh == Asked("mesh") /\ Answers(Observed(call.in))

(* The plan, what explains it, and the score, one after the other.          *)
AskConclude ==
  /\ Asked("conclude")
  /\ LET c == call.in
         plan == IF c.fails THEN FailedPlan ELSE Plan(c.findings, c.confidence, c.requires, c.runbook)
     IN Answers([plan |-> plan, why |-> Explain(c.findings, plan, c.confidence),
                 score |-> OverallScore(c.findings, plan, TRUE, FALSE, c.confidence)])

AnsweringPlatform == AskHealth \/ AskReplay \/ AskSummary \/ AskMesh \/ AskConclude

PlatformSpec == AskingPlatform /\ [][AnsweringPlatform]_analysisVars

-----------------------------------------------------------------------------
(* Properties *)

(* The platform never calls itself healthy without its database, and never  *)
(* calls a monitor stale that may still be sleeping between two passes      *)
(* (main.py:1581).                                                          *)
HealthIsFair ==
  Answered("health") =>
    LET c == call.in
        h == answer[1]
    IN /\ h.status = "healthy" => c.database
       /\ c.monitorAge # <<>> /\ c.monitorAge[1] <= c.interval => h.checks.monitor_agent = "ok"

(* Redis is checked: a platform without it says that it is degraded         *)
(* (main.py:1282, "let the health endpoint surface degraded state").        *)
HealthShowsRedis ==
  Answered("health") => (~call.in.redis => answer[1].status = "degraded")

(* However it is paged, the replay shows every finding once and in order,   *)
(* and every field of the state as the newest finding so far that speaks of *)
(* it left it; a stage that should be there and is not is a gap             *)
(* (replay.py:352).                                                         *)
ReplayTellsTheRecord ==
  Answered("replay") =>
    LET f == Findings(call.in.stored)
        pages == answer[1].pages
        shown == FlattenSeq([p \in DOMAIN pages |-> pages[p].stages])
        Speaks(i, field) == field \in DOMAIN Puts(ClassifyEntry(f[i]), f[i])
        keys == {shown[i].key : i \in DOMAIN shown}
    IN /\ [i \in DOMAIN shown |-> shown[i].outputs] = [i \in DOMAIN f |-> Payload(f[i])]
       /\ \A i \in DOMAIN f : \A field \in DOMAIN shown[i].state_after :
            LET newest == Max({j \in 1..i : Speaks(j, field)})
            IN shown[i].state_after[field] = Puts(shown[newest].key, f[newest])[field]
       /\ \A i \in DOMAIN f, j \in DOMAIN f : i < j =>
            DOMAIN shown[i].state_after \subseteq DOMAIN shown[j].state_after
       /\ \A p \in DOMAIN pages :
            keys \cap {pages[p].gaps[g].key : g \in DOMAIN pages[p].gaps} = {}

(* The time measured is told once per stage, whether occurrence by          *)
(* occurrence, stage by stage or in total, and what is left of the total is *)
(* said to be unattributed (replay.py:656).                                 *)
TimelineAddsUp ==
  Answered("replay") =>
    LET t == answer[1].timeline
        n == Len(t.entries)
        stages == DOMAIN t.by_stage
        staged == MapThenSumSet(LAMBDA k : t.by_stage[k].seconds, stages)
    IN /\ n > 0 => t.entries[n].cumulative = staged
       /\ t.measured # <<>> => t.measured[1] = staged
       /\ t.unattributed # <<>> => t.unattributed[1] + t.measured[1] = t.total[1]
       /\ \A i \in 1..n :
            /\ i > 1 => t.entries[i - 1].cumulative <= t.entries[i].cumulative
            /\ t.entries[i].duration.own # <<>> =>
                 Cardinality({j \in 1..n : t.entries[j].key = t.entries[i].key}) = 1

(* What was not measured weighs nothing: an investigation that recorded     *)
(* nothing, and a finding a later one of the same investigation replaced,   *)
(* leave every rate, trend and score as they were; values that never fall   *)
(* are never called a decline (observability.py:209, 272, 493).             *)
SummaryIsFair ==
  Answered("summary") =>
    LET incidents == call.in
        told == answer[1]
        latest == [i \in DOMAIN incidents |->
                     LET inc == incidents[i]
                         newest == {k \in DOMAIN inc : \A l \in DOMAIN inc :
                                      inc[l].type = inc[k].type => l <= k}
                     IN [k \in 1..Cardinality(newest) |-> inc[SetToSortSeq(newest, <)[k]]]]
        values == FlattenSeq([i \in DOMAIN incidents |->
                    LET at == incidents[Len(incidents) + 1 - i]
                        own == SelectSeq(at, LAMBDA x : x.type = "ai_evaluation")
                    IN [k \in DOMAIN own |-> own[k].data.value[1]]])
    IN /\ Summarize(Append(incidents, <<>>)).metrics = told.metrics
       /\ Summarize(latest) = told
       /\ (Len(values) > 1 /\ \A i \in 2..Len(values) : AtMost(values[i - 1], values[i])) =>
            told.metrics.ai_evaluation.direction # "declining"
       /\ told.health.available => AtMost(told.health.score, <<1, 1>>)

(* An agent that ran is shown to have run, whatever its executions are kept *)
(* under; a thread that reports is never critical, one that stopped always  *)
(* is, and nothing serious is left out of what is escalated                 *)
(* (supervisor_agent.py:202, 540).                                          *)
MeshReportSound ==
  Answered("mesh") =>
    LET c == call.in
        r == answer[1]
        Critical(name) == \E i \in DOMAIN r.issues :
                            r.issues[i] = Issue(name, "stale_heartbeat", "critical")
        Ran(name) == CASE name = "action" -> "action:slack" \in DOMAIN c.executions
                       [] name = "kpi" -> "kpi_analysis" \in DOMAIN c.executions
                       [] OTHER -> name \in DOMAIN c.executions
    IN /\ \A i \in DOMAIN r.agents :
            LET v == r.agents[i]
            IN /\ Ran(v.agent) <=> v.executions # <<>> /\ v.executions[1] > 0
               /\ Critical(v.agent) <=> /\ v.agent \in ThreadWorkers \cap DOMAIN c.ages
                                        /\ c.ages[v.agent] > c.stale
       /\ r.health.available => AtMost(r.health.score, <<1, 1>>)
       /\ \A i \in DOMAIN r.issues :
            /\ r.issues[i].severity # "info" => r.issues[i] \in ToSet(r.escalations)
            /\ \A j \in 1..i : SeverityOrder[r.issues[j].severity] <= SeverityOrder[r.issues[i].severity]
       /\ c.roster = <<>> => Len(r.escalations) = 1

(* The explanation is true of the plan: every recommendation is traced to   *)
(* the very item it was made from, which the evidence graph shows; sources  *)
(* come in order of priority; a source that found nothing influenced        *)
(* nothing, seasonality aside; and one more contradiction never makes the   *)
(* plan surer or the investigation better (explainability.py:260,           *)
(* ai_evaluation.py:395).                                                   *)
ExplanationHolds ==
  Answered("conclude") =>
    LET c == call.in
        plan == answer[1].plan
        why == answer[1].why
        Calm(f) == IF f.type = "cross_dataset" THEN [f EXCEPT !.data.contradicting = <<>>] ELSE f
        calm == [i \in DOMAIN c.findings |-> Calm(c.findings[i])]
        calmPlan == Plan(calm, c.confidence, c.requires, c.runbook)
    IN /\ \A i \in DOMAIN plan.actions :
            /\ why.graph[i].evidence = plan.actions[i].from
            /\ plan.actions[i].source # "runbook" =>
                 plan.actions[i].from \in EvidenceGraph(c.findings, plan.actions[i].source)
            /\ \A j \in 1..i : PriorityIndex(plan.actions[j].source) <= PriorityIndex(plan.actions[i].source)
       /\ \A s \in why.missing.silent \cup why.missing.unasked :
            why.contribution[s].influenced = {} \/ s = "adaptive"
       /\ plan.made => /\ plan.confidence <= calmPlan.confidence
                       /\ answer[1].score <= OverallScore(calm, calmPlan, TRUE, FALSE, c.confidence)
       /\ ~plan.approval => why.missing.silent \cup why.missing.unasked # DOMAIN FindingOf

(* A source that is said to have found nothing made no recommendation       *)
(* (execution_planning.py:353, "only runbook guidance is available").       *)
SilentSourcesAdviseNothing ==
  Answered("conclude") =>
    \A s \in answer[1].why.missing.silent : answer[1].why.contribution[s].influenced = {}

(* A monitor that the health endpoint calls alive is not reported dead      *)
(* (supervisor_agent.py:84, "the same reading /health already applies").    *)
SameReadingAsHealth ==
  Answered("mesh") =>
    LET c == call.in
    IN \A i \in DOMAIN answer[1].issues :
         answer[1].issues[i] = Issue("monitor", "stale_heartbeat", "critical") =>
           Stale(<<c.ages.monitor>>, MonitorStaleAfter(c.stale, c.interval))

(* A source that every investigation asked and that never found anything is *)
(* reported (tests/test_phase_f6_agent_mesh.py:403).                        *)
IdleSourceIsReported ==
  Answered("mesh") =>
    LET c == call.in
    IN ("rag" \in ToSet(c.roster) /\ c.summary # <<>>) =>
         LET m == c.summary[1].metrics.rag
         IN (m.available /\ m.rate[1] = 0) =>
              \E i \in DOMAIN answer[1].issues :
                answer[1].issues[i] = Issue("rag", "zero_participation", "info")

(* What the platform tells of itself adds up: its health, its summary over  *)
(* all incidents, and the supervisor's report (main.py:1581,                *)
(* observability.py:493, supervisor_agent.py:540).                          *)
PlatformSound == HealthIsFair /\ SummaryIsFair /\ MeshReportSound

(* What is told of an investigation that is over is what happened in it:    *)
(* its replay, its timeline, and the reasons of its plan (replay.py:352,    *)
(* explainability.py:260).                                                  *)
RecordSound == ReplayTellsTheRecord /\ TimelineAddsUp /\ ExplanationHolds

=============================================================================
