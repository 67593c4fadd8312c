---------------------------- MODULE Observability ----------------------------
(***************************************************************************)
(* What the platform says of itself: GET /health (main.py,                 *)
(* build_health_payload; monitoring/metrics.py), and what recorded         *)
(* investigations say of it (intelligence/observability.py).               *)
(*                                                                         *)
(* Incidents come newest first. One is the sequence of its findings, each  *)
(* [type, data]; data is what the metric of that type reads: how many      *)
(* matches or chunks were found, what was insufficient, a value, or the    *)
(* audit summary's status, duration and cost (<<>> for what is missing).   *)
(***************************************************************************)
EXTENDS Integers, Sequences, FiniteSets, Basics, FiniteSetsExt, SequencesExt

CONSTANT TrendStep   \* a smaller change of the averages is "flat"; a fraction

-----------------------------------------------------------------------------
(* GET /health. seen is what one call meets: whether the database and Redis *)
(* answer, the age in seconds of each thread's last heartbeat (<<>> before  *)
(* the first), whether the monitor is enabled, and the settings.            *)

(* Mutant: the setting alone decides when the monitor is stale.             *)
StaleAsConfigured(stale, interval) == stale

(* After how many seconds without a heartbeat the monitor is stale: a pass, *)
(* its sleep and half a minute are granted whatever the setting says.       *)
MonitorStaleAfter(stale, interval) ==
  IF stale >= 2 * interval + 30 THEN stale ELSE 2 * interval + 30

(* HeartbeatTracker.age_seconds, against a limit.                           *)
Stale(age, limit) == age # <<>> /\ age[1] > limit

(* RedisClient.ping answers FALSE for a Redis that is down and never raises;*)
(* only an exception is looked for.                                         *)
Ping(redis) == [raises |-> FALSE, value |-> redis]

(* The vector store, the lexical index, the language model and the mesh     *)
(* agents are told of and decide nothing.                                   *)
BuildHealthPayload(seen) ==
  LET checks ==
        [database |-> IF seen.database THEN "ok" ELSE "error",
         redis |-> IF Ping(seen.redis).raises THEN "error" ELSE "ok",
         monitor_agent |->
           IF seen.monitor /\ Stale(seen.monitorAge, MonitorStaleAfter(seen.stale, seen.interval))
           THEN "stale" ELSE "ok",
         ingestion_worker |-> IF Stale(seen.workerAge, seen.stale) THEN "stale" ELSE "ok"]
  IN [status |-> IF \E c \in DOMAIN checks : checks[c] # "ok" THEN "degraded" ELSE "healthy",
      checks |-> checks]

-----------------------------------------------------------------------------
(* What the recorded investigations say *)

Unavailable == [available |-> FALSE]

(* Mutant: the oldest finding of a type counts.                             *)
OldestFindingData(incident, type) ==
  LET own == SelectSeq(incident, LAMBDA f : f.type = type)
  IN IF own = <<>> THEN <<>> ELSE <<own[1].data>>

(* The newest finding of a type; <<>> for none.                             *)
LatestFindingData(incident, type) ==
  LET own == SelectSeq(incident, LAMBDA f : f.type = type)
  IN IF own = <<>> THEN <<>> ELSE <<Last(own).data>>

EvidenceSources == <<"memory", "policy", "rag", "cross_dataset", "adaptive">>

IsHit(type, data) ==
  CASE type = "cross_dataset" -> ~data.insufficient
    [] type = "adaptive" -> ~data.baseline_insufficient \/ ~data.seasonality_insufficient
    [] OTHER -> data.found > 0

ConsultedAndHitRate(incidents, type) ==
  LET Data(i) == LatestFindingData(incidents[i], type)
      consulted == {i \in DOMAIN incidents : Data(i) # <<>>}
      hits == {i \in consulted : IsHit(type, Data(i)[1])}
  IN IF consulted = {} THEN Unavailable
     ELSE [available |-> TRUE, rate |-> <<Cardinality(hits), Cardinality(consulted)>>,
           consulted_count |-> Cardinality(consulted), hit_count |-> Cardinality(hits)]

Total(values) == FoldLeft(Plus, <<0, 1>>, values)
Average(values) == LET t == Total(values) IN <<t[1], t[2] * Len(values)>>

(* Mutant: the order of the table, newest first.                            *)
RecordedNewestFirst(incidents, type) ==
  FoldLeft(LAMBDA s, inc : LET d == LatestFindingData(inc, type)
                           IN s \o (IF d = <<>> THEN <<>> ELSE d[1].value), <<>>, incidents)

(* The values a type recorded, oldest first.                                *)
Recorded(incidents, type) ==
  LET Value(inc) == LET d == LatestFindingData(inc, type)
                    IN IF d = <<>> THEN <<>> ELSE d[1].value
  IN FoldLeft(LAMBDA s, inc : s \o Value(inc), <<>>, Reverse(incidents))

Half(values, from, to) == Average(SubSeq(values, from, to))

NumericTrend(incidents, type) ==
  LET values == Recorded(incidents, type)
      n == Len(values)
      delta == Minus(Half(values, n \div 2 + 1, n), Half(values, 1, n \div 2))
  IN IF n = 0 THEN Unavailable
     ELSE [available |-> TRUE, average |-> Average(values), sample_count |-> n,
           direction |-> IF n < 2 THEN "flat"
                         ELSE IF Below(TrendStep, delta) THEN "improving"
                         ELSE IF Below(delta, Minus(<<0, 1>>, TrendStep)) THEN "declining"
                         ELSE "flat"]

(* What the audit summaries say under a field, oldest incident first.       *)
Audited(incidents, field) ==
  LET Value(inc) == LET d == LatestFindingData(inc, "audit_summary")
                    IN IF d = <<>> THEN <<>> ELSE d[1][field]
  IN FoldLeft(LAMBDA s, inc : s \o Value(inc), <<>>, Reverse(incidents))

InvestigationDuration(incidents) ==
  LET values == SortSeq(Audited(incidents, "duration"), <)
      n == Len(values)
      missing == Len(incidents) - n
  IN IF n = 0 THEN [available |-> FALSE, missing |-> missing]
     ELSE [available |-> TRUE, min |-> values[1], max |-> values[n], missing |-> missing,
           average |-> <<FoldLeft(+, 0, values), n>>,
           median |-> IF n % 2 = 1 THEN <<values[n \div 2 + 1], 1>>
                      ELSE <<values[n \div 2] + values[n \div 2 + 1], 2>>]

PlatformCost(incidents) ==
  LET costs == Audited(incidents, "cost")
  IN IF costs = <<>> THEN [available |-> FALSE, without |-> Len(incidents)]
     ELSE [available |-> TRUE, total |-> FoldLeft(+, 0, costs),
           per_incident |-> <<FoldLeft(+, 0, costs), Len(costs)>>,
           without |-> Len(incidents) - Len(costs)]

InvestigationSuccessRate(incidents) ==
  LET statuses == Audited(incidents, "status")
      resolved == SelectSeq(statuses, LAMBDA s : s = "RESOLVED")
  IN IF statuses = <<>> THEN Unavailable
     ELSE [available |-> TRUE, rate |-> <<Len(resolved), Len(statuses)>>]

HealthTerms ==
  EvidenceSources \o <<"execution_plan", "ai_evaluation", "investigation_success">>

(* The mean of the terms that could be measured.                            *)
OverallHealth(metrics) ==
  LET used == SelectSeq(HealthTerms, LAMBDA t : metrics[t].available)
      Term(m) == IF "rate" \in DOMAIN m THEN m.rate ELSE m.average
  IN IF used = <<>> THEN Unavailable
     ELSE [available |-> TRUE, based_on |-> used,
           score |-> Clamp01(Average([i \in DOMAIN used |-> Term(metrics[used[i]])]))]

Summarize(incidents) ==
  LET metrics ==
        [t \in ToSet(HealthTerms) |->
           IF t \in ToSet(EvidenceSources) THEN ConsultedAndHitRate(incidents, t)
           ELSE IF t = "investigation_success" THEN InvestigationSuccessRate(incidents)
           ELSE NumericTrend(incidents, t)]
  IN [total_investigations |-> Len(incidents), metrics |-> metrics,
      duration |-> InvestigationDuration(incidents), cost |-> PlatformCost(incidents),
      health |-> OverallHealth(metrics)]

=============================================================================
