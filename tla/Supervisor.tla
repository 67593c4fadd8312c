----------------------------- MODULE Supervisor -----------------------------
(***************************************************************************)
(* The supervisor's report on the agents (agents/supervisor/               *)
(* supervisor_agent.py), which observes and never acts.                    *)
(*                                                                         *)
(* seen is what one report reads: the roster (<<>> when it cannot be read),*)
(* the age of each agent's last heartbeat and the number of executions per *)
(* label, for those there are; what the actions' counters say (<<>> before *)
(* the first); the observability summary (<<>> for none), and the setting  *)
(* of when a heartbeat is stale.                                           *)
(***************************************************************************)
EXTENDS Integers, Sequences, FiniteSets, Basics, FiniteSetsExt, SequencesExt, Functions

CONSTANT ActionLabels   \* the labels the actions' executions are kept under

ThreadWorkers == {"monitor", "ingestion"}

(* What each agent's executions are recorded under, if not under its name.  *)
ExecutionLabels(name) ==
  CASE name = "kpi" -> {"kpi_analysis"}
    [] name = "orchestrator" -> {"decision"}
    [] name = "action" -> ActionLabels
    [] OTHER -> {}

ParticipationMetric ==
  [memory |-> "memory", policy |-> "policy", rag |-> "rag",
   cross_dataset |-> "cross_dataset", adaptive |-> "adaptive"]

(* Mutant: only the agent's own name is looked up.                          *)
ExecutionsByName(seen, name) ==
  IF name \in DOMAIN seen.executions THEN <<seen.executions[name]>> ELSE <<>>

(* The executions of an agent; <<>> when no series tells.                   *)
Executions(seen, name) ==
  LET labels == {l \in ExecutionLabels(name) : l \in DOMAIN seen.executions}
  IN IF name \in DOMAIN seen.executions THEN <<seen.executions[name]>>
     ELSE IF labels = {} THEN <<>>
     ELSE <<MapThenSumSet(LAMBDA l : seen.executions[l], labels)>>

Heartbeat(seen, name) ==
  IF name \notin DOMAIN seen.ages THEN "never_reported"
  ELSE IF seen.ages[name] <= seen.stale THEN "live"
  ELSE IF name \in ThreadWorkers THEN "stale" ELSE "idle"

(* The summary calls the number of investigations that consulted a source   *)
(* "consulted_count"; the report looks for it under another name.           *)
Participation(seen, name) ==
  IF name \notin DOMAIN ParticipationMetric \/ seen.summary = <<>> THEN [measured |-> FALSE]
  ELSE LET entry == seen.summary[1].metrics[ParticipationMetric[name]]
       IN IF ~entry.available THEN [measured |-> FALSE]
          ELSE [measured |-> TRUE, rate |-> entry.rate,
                consulted |-> IF "consulted" \in DOMAIN entry THEN <<entry.consulted>> ELSE <<>>]

AgentView(seen, name) ==
  [agent |-> name, heartbeat |-> Heartbeat(seen, name),
   worker |-> name \in ThreadWorkers, executions |-> Executions(seen, name),
   participation |-> Participation(seen, name)]

Issue(agent, kind, severity) == [agent |-> agent, kind |-> kind, severity |-> severity]

Investigations(seen) == IF seen.summary = <<>> THEN 0 ELSE seen.summary[1].total_investigations

AgentIssues(seen, view) ==
  LET Found(condition, kind, severity) ==
        IF condition THEN <<Issue(view.agent, kind, severity)>> ELSE <<>>
  IN Found(view.heartbeat = "stale", "stale_heartbeat", "critical")
     \o Found(view.worker /\ view.heartbeat = "never_reported", "no_heartbeat", "warning")
     \o Found(view.executions = <<0>> /\ Investigations(seen) > 0 /\ ~view.worker,
              "silent_agent", "warning")
     \o Found(/\ view.participation.measured /\ view.participation.rate[1] = 0
              /\ view.participation.consulted # <<>> /\ view.participation.consulted[1] > 0,
              "zero_participation", "info")

ActionIssues(seen) ==
  IF seen.actions = <<>> \/ seen.actions[1].failures + seen.actions[1].successes = 0 THEN <<>>
  ELSE LET failed == seen.actions[1].failures
           all == failed + seen.actions[1].successes
       IN IF 2 * failed <= all THEN <<>>
          ELSE <<Issue("action", "action_failure_rate",
                       IF 10 * failed >= 9 * all THEN "critical" ELSE "warning")>>

DetectIssues(seen, views) ==
  IF views = <<>> THEN <<Issue("mesh", "empty_roster", "critical")>>
  ELSE FoldLeft(LAMBDA s, v : s \o AgentIssues(seen, v), <<>>, views) \o ActionIssues(seen)

SeverityOrder == [critical |-> 0, warning |-> 1, info |-> 2]

(* Sorted by severity; the views come in the order of the agents' names.    *)
BySeverity(issues) ==
  LET Of(s) == SelectSeq(issues, LAMBDA i : i.severity = s)
  IN Of("critical") \o Of("warning") \o Of("info")

(* The mean of what could be computed of the three components.              *)
MeshHealth(seen, views) ==
  LET workers == SelectSeq(views, LAMBDA v : v.worker)
      live == SelectSeq(workers, LAMBDA v : v.heartbeat = "live")
      active == SelectSeq(views, LAMBDA v : v.executions # <<>> /\ v.executions[1] > 0)
      parts ==
        (IF workers = <<>> THEN <<>> ELSE <<<<Len(live), Len(workers)>>>>)
        \o (IF Investigations(seen) = 0 \/ views = <<>> THEN <<>>
            ELSE <<<<Len(active), Len(views)>>>>)
        \o (IF seen.summary = <<>> THEN <<>>
            ELSE IF ~seen.summary[1].health.available THEN <<>>
            ELSE <<seen.summary[1].health.score>>)
      total == FoldLeft(Plus, <<0, 1>>, parts)
  IN IF parts = <<>> THEN [available |-> FALSE]
     ELSE [available |-> TRUE, score |-> <<total[1], total[2] * Len(parts)>>]

(* observe: what is escalated is every issue but the informational ones.    *)
Observed(seen) ==
  LET views == [i \in DOMAIN seen.roster |-> AgentView(seen, seen.roster[i])]
      issues == BySeverity(DetectIssues(seen, views))
  IN [agents |-> views, issues |-> issues, health |-> MeshHealth(seen, views),
      escalations |-> SelectSeq(issues, LAMBDA i : i.severity # "info")]

=============================================================================
