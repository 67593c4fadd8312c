------------------------------- MODULE Replay -------------------------------
(***************************************************************************)
(* Reconstructing a finished investigation from the findings stored with   *)
(* it (intelligence/replay.py).                                            *)
(*                                                                         *)
(* A finding is [type, decides, fields, data]: its declared type (<<>> for *)
(* none), whether it has a decision and a depth, and what it and its       *)
(* "data" say, as functions from field names; data is <<>> where there is  *)
(* none. stored is the raw column: [is |-> "list", findings], or one of    *)
(* "absent" and "unreadable".                                              *)
(***************************************************************************)
EXTENDS Integers, Sequences, FiniteSets, Basics, FiniteSetsExt, SequencesExt

CONSTANTS DefaultStageLimit, MaxStageLimit

ASSUME StageLimits == DefaultStageLimit \in Nat \ {0} /\ MaxStageLimit \in Nat \ {0}

(* The stages this build knows, in the order it runs them.                 *)
Stage(key, category, expected) == [key |-> key, category |-> category, expected |-> expected]
STAGE_CATALOG ==
  <<Stage("decision", "decision", TRUE), Stage("memory", "evidence", TRUE),
    Stage("policy", "evidence", TRUE), Stage("cross_dataset", "evidence", TRUE),
    Stage("graph", "evidence", TRUE), Stage("adaptive", "evidence", TRUE),
    Stage("rag", "evidence", TRUE), Stage("llm_reasoning_error", "evidence", FALSE),
    Stage("kpi_analysis", "evidence", TRUE), Stage("evaluation", "decision", TRUE),
    Stage("escalation", "governance", FALSE), Stage("execution_plan", "planning", TRUE),
    Stage("explainability", "explainability", TRUE),
    Stage("ai_evaluation", "explainability", TRUE),
    Stage("human_approval", "governance", FALSE), Stage("audit_summary", "actions", TRUE)>>

SpecOf(key) == Keeping(STAGE_CATALOG, LAMBDA s : s.key = key)

Findings(stored) == IF stored.is = "list" THEN stored.findings ELSE <<>>

Readable(stored) == Findings(stored) # <<>> \/ stored.is = "absent" \/ stored = [is |-> "list", findings |-> <<>>]

ClassifyEntry(entry) ==
  IF entry.type # <<>> THEN entry.type[1]
  ELSE IF entry.decides THEN "decision" ELSE "unrecognised"

Payload(entry) == IF entry.data = <<>> THEN entry.fields ELSE entry.data[1]

Keys(findings) == [i \in DOMAIN findings |-> ClassifyEntry(findings[i])]

Occurrences(keys, key) == Cardinality({i \in DOMAIN keys : keys[i] = key})

(* The newest audit summary's durations; an empty function for none.        *)
NoSummary == [durations |-> <<>>, total |-> <<>>]
AuditSummary(findings) ==
  LET at == {i \in DOMAIN findings : findings[i].type = <<"audit_summary">>}
  IN IF at = {} THEN NoSummary ELSE findings[Max(at)].audit

(* What a stage adds to the state: field of the state, field of the finding. *)
Spoken ==
  [decision |-> {<<"decision", "decision">>, <<"decision_confidence", "confidence">>,
                 <<"decision_source", "source">>, <<"depth", "depth">>},
   evaluation |-> {<<"evaluation_decision", "decision">>, <<"evaluation_score", "score">>},
   escalation |-> {<<"escalation_reason", "reason">>},
   audit_summary |-> {<<"investigation_status", "status">>, <<"root_cause", "root_cause">>,
                      <<"root_cause_source", "root_cause_source">>,
                      <<"validation_status", "validation_status">>},
   human_approval |-> {<<"approval_status", "status">>}]

Puts(key, entry) ==
  LET says == IF key = "human_approval" THEN Payload(entry) ELSE entry.fields
      pairs == IF key \in DOMAIN Spoken THEN {p \in Spoken[key] : p[2] \in DOMAIN says} ELSE {}
  IN [f \in {p[1] : p \in pairs} |->
        [value |-> says[(CHOOSE p \in pairs : p[1] = f)[2]], source |-> key]]

(* Mutant: the oldest finding keeps its say.                               *)
FoldStateOldest(state, key, entry) ==
  LET p == Puts(key, entry)
  IN [f \in DOMAIN p \cup DOMAIN state |-> IF f \in DOMAIN state THEN state[f] ELSE p[f]]

FoldState(state, key, entry) ==
  LET p == Puts(key, entry)
  IN [f \in DOMAIN p \cup DOMAIN state |-> IF f \in DOMAIN p THEN p[f] ELSE state[f]]

(* A measured duration belongs to all occurrences of its stage together.    *)
StageDuration(durations, key, times) ==
  IF key \notin DOMAIN durations THEN [available |-> FALSE, own |-> <<>>, stage |-> 0]
  ELSE [available |-> TRUE, stage |-> durations[key],
        own |-> IF times > 1 THEN <<>> ELSE <<durations[key]>>]

CategoryOf(key) == IF SpecOf(key) = <<>> THEN "unrecognised" ELSE SpecOf(key)[1].category

Stages(findings) ==
  LET keys == Keys(findings)
      durations == AuditSummary(findings).durations
      After[i \in 0..Len(findings)] ==
        IF i = 0 THEN <<>> ELSE FoldState(After[i - 1], keys[i], findings[i])
  IN [i \in DOMAIN findings |->
        [sequence |-> i, key |-> keys[i], occurrence |-> Occurrences(SubSeq(keys, 1, i), keys[i]),
         occurrences_total |-> Occurrences(keys, keys[i]), category |-> CategoryOf(keys[i]),
         outputs |-> Payload(findings[i]), state_after |-> After[i],
         duration |-> StageDuration(durations, keys[i], Occurrences(keys, keys[i]))]]

Gaps(keys) ==
  Keeping(STAGE_CATALOG, LAMBDA s : s.expected /\ Occurrences(keys, s.key) = 0)

CategoryCounts(stages) ==
  [c \in {stages[i].category : i \in DOMAIN stages} |->
     Cardinality({i \in DOMAIN stages : stages[i].category = c})]

ClampLimit(limit) ==
  IF limit = <<>> THEN DefaultStageLimit ELSE Max({1, Min({limit[1], MaxStageLimit})})

Reconstruct(stored, offset, limit) ==
  LET stages == Stages(Findings(stored))
      start == Max({0, offset})
      page == SubSeq(stages, start + 1, Min({start + ClampLimit(limit), Len(stages)}))
  IN [readable |-> Readable(stored), total |-> Len(stages), offset |-> start,
      limit |-> ClampLimit(limit), truncated |-> start + Len(page) < Len(stages),
      stages |-> page, gaps |-> Gaps(Keys(Findings(stored))),
      categories |-> CategoryCounts(stages)]

(* Mutant: every occurrence of a stage adds the stage's duration.           *)
CountedEachTime(keys, durations) == {i \in DOMAIN keys : keys[i] \in DOMAIN durations}

(* The occurrences whose stage's duration is added up: the first of each.   *)
Counted(keys, durations) ==
  {i \in DOMAIN keys :
     keys[i] \in DOMAIN durations /\ keys[i] \notin {keys[j] : j \in 1..(i - 1)}}

Timeline(stored) ==
  LET findings == Findings(stored)
      keys == Keys(findings)
      audit == AuditSummary(findings)
      counted == Counted(keys, audit.durations)
      Upto[i \in 0..Len(keys)] ==
        IF i = 0 THEN 0
        ELSE Upto[i - 1] + (IF i \in counted THEN audit.durations[keys[i]] ELSE 0)
      named == {keys[i] : i \in counted}
      measured == MapThenSumSet(LAMBDA k : audit.durations[k], named)
  IN [timing |-> DOMAIN audit.durations # {} \/ audit.total # <<>>,
      total |-> audit.total,
      measured |-> IF counted = {} THEN <<>> ELSE <<measured>>,
      unattributed |-> IF counted = {} \/ audit.total = <<>> THEN <<>>
                       ELSE <<audit.total[1] - measured>>,
      with_duration |-> Cardinality({i \in DOMAIN keys : keys[i] \in DOMAIN audit.durations}),
      entries |-> [i \in DOMAIN keys |->
                     [key |-> keys[i], category |-> CategoryOf(keys[i]),
                      duration |-> StageDuration(audit.durations, keys[i], Occurrences(keys, keys[i])),
                      cumulative |-> Upto[i]]],
      by_stage |-> [k \in named |-> [seconds |-> audit.durations[k],
                                     occurrences |-> Occurrences(keys, k)]]]

=============================================================================
