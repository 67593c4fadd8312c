----------------------------- MODULE MCPlatform -----------------------------
(***************************************************************************)
(* Everything beside the investigation and its approval: the services,     *)
(* which share no state in these models, and the algorithms, which have    *)
(* none. Init chooses one area, which then runs alone; the initial states  *)
(* of the others are one each, so that they multiply nothing.              *)
(***************************************************************************)
EXTENDS Services, DetectionChecks, KnowledgeChecks, PlatformChecks

VARIABLE area

-----------------------------------------------------------------------------
(* Instances *)

MCDatasets == <<[id |-> 21, service |-> 5, measures |-> <<>>]>>
MCPolicies == <<>>
MCIncidents == <<>>

MCPaths == {<<"health">>, <<"mesh">>, <<"learning">>, <<"learning", "/state">>, <<"learning", "s">>,
            <<"graph", "/stats">>, <<"knowledge", "/curate">>, <<"connectors", "/src">>}
MCTokens == {[sub |-> "ann", roles |-> <<{"admin"}>>, role |-> "", flaws |-> {}],
             [sub |-> "ben", roles |-> <<>>, role |-> "operator", flaws |-> {}],
             [sub |-> "eve", roles |-> <<{"admin"}>>, role |-> "", flaws |-> {"exp"}]}

Texts == {[length |-> n, blank |-> n = 0] : n \in {0, 1, 150, 151}}
         \cup {[length |-> n, blank |-> TRUE] : n \in {2, 151}}
Messages == {[length |-> n, blank |-> FALSE] : n \in {1, 3000, 3001}}
PlainJob(type) ==
  [type |-> type, blanks |-> {}, title |-> [length |-> 1, blank |-> FALSE],
   message |-> [length |-> 1, blank |-> FALSE], hook |-> "usable"]
MCJobs ==
  {PlainJob(type) : type \in DOMAIN Registry}
  \cup {[PlainJob("slack") EXCEPT !.title = x, !.message = m, !.blanks = b] :
          x \in Texts, m \in Messages, b \in SUBSET {"incident_id", "message"}}
  \cup {[PlainJob(type) EXCEPT !.blanks = Registry[type].required] : type \in DOMAIN Registry}
  \cup {[PlainJob("webhook") EXCEPT !.hook = "unknown"]}

(* The instances that build are interchangeable; no property is about       *)
(* liveness.                                                                *)
MCSymmetry == Permutations(Builders)

MCRules ==
  [sales |-> [absolute_minimum |-> 2, daily_drop_percent |-> 30],
   complaints |-> [daily_increase_threshold |-> 50],
   inventory |-> [critical_threshold |-> 1, low_stock_threshold |-> 2]]

MCMinImprovement == <<1, 10>>

MCVague == {"unknown"}

MCBudget == [max_depth |-> 2, max_nodes |-> 3, max_edges |-> 4]

MCStep == <<1, 50>>

MCLabels == {"action:slack", "action:email"}

MCKinds == [capability : {"metrics", "documents"}, mock : BOOLEAN, enabled : BOOLEAN]

-----------------------------------------------------------------------------
(* What policies, retrieval, causes and the graph are asked *)

Wordings == [number : {<<>>, <<0>>, <<5>>}, marks : {{}, {"percent", "decrease"}, {"critical"}}]
Policies == [metrics : {<<"sales">>, <<"other", "inventory">>}, threshold : Wordings \ {[number |-> <<0>>, marks |-> {"critical"}]},
             condition : {[number |-> <<7>>, marks |-> {}],
                          [number |-> <<5>>, marks |-> {"percent"}]},
             raw : {[number |-> <<>>, marks |-> {}]},
             approval : {<<>>, <<TRUE>>, <<FALSE>>}]
CorpusCalls == {c \in [1..2 -> Policies] : c[1].approval = <<TRUE>> /\ c[2].approval # <<TRUE>>}

Similar == [metrics : {<<>>, <<"m">>, <<"n", "m">>}, similarity : {<<>>, <<50>>, <<60>>, <<90>>}]
MatchCalls == [policies : SeqsUpTo(Similar, 3), metric : {"m", "x"}]

SplitCalls == {[lengths |-> l, snaps |-> [i \in DOMAIN l |-> n]] :
                 l \in SeqsUpTo({1, 4, 9, 12}, 4), n \in {-1, 0, 3}}

Candidates(names) == {[id |-> x, found_by |-> {}] : x \in names}
Rankings == {l \in SeqsUpTo(Candidates(1..3), 3) :
               \A i, j \in DOMAIN l : l[i] = l[j] => i = j}
FuseCalls == Rankings \X Rankings

Pieces == [id : 1..1, tokens : {{"a"}, {"a", "b"}, {"b", "c"}}, doc : {"d"}, index : {1, 2, 4}]
          \cup [id : 1..1, tokens : {{"a"}, {"b", "c"}}, doc : {""}, index : {1}]
DiverseCalls == [candidates : SeqsUpTo(Pieces, 3), k : 1..2]

Points == [id : 1..1, similarity : {40, 70}, meta : {[m |-> "m1"], [m |-> "m2"]},
           tokens : {{"t"}, {"u"}}, bm25 : {1, 2}, found_by : {{}},
           actionable : {TRUE}, recent : BOOLEAN]
AdvancedCalls ==
  [points : {[i \in DOMAIN p |-> [p[i] EXCEPT !.id = i]] : p \in SeqsUpTo(Points, 2)},
   entities : {[i \in DOMAIN v |-> [label |-> "m", value |-> v[i]]] : v \in {<<>>, <<"m1">>, <<"m2", "m1">>}},
   queries : {ExpandQuery("t", <<"u", "t">>, 2)}, k : 1..2]

Causes == [chunk : {"c1", "c3", "c9"}, confidence : {50, 101}, external : {FALSE}]
GivenAnswers ==
  {[is |-> w] : w \in {"broken", "unsafe", "unparsable"}} \cup
  [is : {"object"}, complete : {TRUE}, causes : SeqsUpTo(Causes, 2),
   overall : {60}, review : {FALSE}]
Outcomes == {[search |-> s, answer |-> [is |-> "broken"]] : s \in {Broken, <<>>}}
            \cup [search : {<<"c1", "c2", "c3">>}, answer : GivenAnswers]
FewOutcomes == {[search |-> Broken, answer |-> [is |-> "broken"]],
                [search |-> <<>>, answer |-> [is |-> "broken"]],
                [search |-> <<"c1">>, answer |-> [is |-> "unsafe"]]}
CauseCalls == SeqsUpTo(Outcomes, 2) \cup SeqsUpTo(FewOutcomes, 5)

Links == {<<1, "r", 2>>, <<3, "r", 2>>, <<1, "r", 3>>, <<3, "r", 4>>}

SomeGraphs ==
  {[nodes |-> [n \in 1..4 |-> [type |-> "metric", label |-> n]],
    edges |-> [e \in DOMAIN c |-> [confidence |-> c[e], count |-> 1, id |-> e[1] + 10 * e[3]]]] :
     c \in UNION {[S -> {50, 90}] : S \in SUBSET Links}}

Budgets == [max_depth : {1, 3}, max_nodes : {2, 4}, max_edges : {1, 4, 9}, min_confidence : {0, 60}]

WalkCalls == [graph : SomeGraphs, origin : {1}, budget : Budgets]

SomeDatasets == [id : {21}, service : {0, 5}, measures : SeqsUpTo({1, 2}, 2)]
SomePolicies == [id : {31}, metrics : SeqsUpTo({1, 2}, 2)]
SomeIncidents(id) ==
  [id : {id}, metric : {1, 2}, cited : {<<>>, <<2, 1, 2>>},
   correlated : SeqsUpTo([metric : {1, 2}, strength : {69, 70, 91}], 1)
                \cup {<<[metric |-> 2, strength |-> 91], [metric |-> 1, strength |-> 70]>>}]
DeriveCalls ==
  [datasets : {{d} : d \in SomeDatasets}, policies : {{p} : p \in SomePolicies}, incidents : {{}}]
  \cup [datasets : {{}}, policies : {{}},
        incidents : {{i, j} : i \in SomeIncidents(41), j \in SomeIncidents(42)}]

MCKnowledgeInputs ==
  [corpus |-> CorpusCalls, match |-> MatchCalls, split |-> SplitCalls, fuse |-> FuseCalls,
   diverse |-> DiverseCalls, advanced |-> AdvancedCalls, causes |-> CauseCalls,
   walk |-> WalkCalls, derive |-> DeriveCalls]

-----------------------------------------------------------------------------
(* What is asked about the platform and of finished investigations *)

HealthCalls ==
  [database : BOOLEAN, redis : BOOLEAN, monitor : BOOLEAN, stale : {120}, interval : {1, 300},
   monitorAge : {<<>>, <<31>>, <<300>>, <<630>>, <<631>>}, workerAge : {<<2>>, <<121>>}]

(* Findings of an investigation: what the orchestrator and the review write.*)
Plain(key) == [type |-> <<key>>, decides |-> FALSE, fields |-> [type |-> key], data |-> <<>>]
Deciding(d) == [type |-> <<>>, decides |-> TRUE, data |-> <<>>,
                fields |-> [decision |-> d, depth |-> "1"]]
Audit(status, durations, total) ==
  [type |-> <<"audit_summary">>, decides |-> FALSE, fields |-> [status |-> status],
   data |-> <<>>, audit |-> [durations |-> durations, total |-> total]]
Written ==
  {Deciding("investigate"), Deciding("finalize"), Plain("rag"), Plain("older"),
   [Plain("evaluation") EXCEPT !.fields = [decision |-> "retry"]],
   [Plain("human_approval") EXCEPT !.data = <<[status |-> "pending"]>>]}
Summaries ==
  {Audit("RESOLVED", d, t) : d \in {<<>>, [rag |-> 4], [decision |-> 3, rag |-> 4]}, t \in {<<>>, <<9>>}}
ReplayCalls ==
  [stored : {[is |-> "absent"], [is |-> "unreadable"]}
            \cup {[is |-> "list", findings |-> f] : f \in SeqsUpTo(Written, 3)}
            \cup {[is |-> "list", findings |-> Append(f, s)] : f \in SeqsUpTo(Written, 2), s \in Summaries}
            \cup {[is |-> "list", findings |-> Append(f, Audit("RESOLVED", [decision |-> 3, rag |-> 4], <<9>>))] :
                    f \in [1..3 -> Written]},
   limit : {<<>>, <<0>>, <<2>>}]

Found(type, n) == [type |-> type, data |-> [found |-> n]]
Valued(v) == [type |-> "ai_evaluation", data |-> [value |-> <<v>>]]
Settled(status, duration, cost) ==
  [type |-> "audit_summary", data |-> [status |-> status, duration |-> duration, cost |-> cost]]
Recordings ==
  {<<>>, <<Found("rag", 0)>>, <<Found("rag", 1)>>, <<Found("rag", 0), Found("rag", 2)>>,
   <<[type |-> "adaptive", data |-> [baseline_insufficient |-> TRUE, seasonality_insufficient |-> FALSE]],
     [type |-> "cross_dataset", data |-> [insufficient |-> TRUE]]>>,
   <<Valued(<<1, 2>>)>>, <<Valued(<<9, 10>>), Settled(<<"RESOLVED">>, <<3>>, <<>>)>>,
   <<Valued(<<0, 1>>), Settled(<<"ESCALATED">>, <<>>, <<5>>)>>}
SummaryCalls == SeqsUpTo(Recordings, 4)

Ages == {30, 120, 121, 630, 631}
Rosters == {<<>>, <<"monitor">>, <<"action", "kpi", "monitor">>, <<"planning", "rag">>}
MeshCalls ==
  [roster : Rosters, stale : {120}, interval : {1, 300},
   ages : {<<>>} \cup {[monitor |-> a] : a \in Ages} \cup {[monitor |-> 5, planning |-> 9000]},
   executions : {<<>>, [decision |-> 1, kpi_analysis |-> 2, planning |-> 1],
                 [kpi_analysis |-> 1] @@ ("action:slack" :> 1)},
   actions : {<<>>, <<[successes |-> 1, failures |-> 1]>>, <<[successes |-> 1, failures |-> 9]>>,
              <<[successes |-> 2, failures |-> 3]>>},
   summary : {<<>>} \cup {<<Summarize(i)>> : i \in SeqsUpTo(Recordings, 1)}]

(* What the sources found in an investigation; the newest of two retrievals *)
(* counts.                                                                  *)
Policy(id, approval) == [id |-> id, approval |-> approval]
PolicyData == {<<>>, <<Policy("p1", FALSE)>>, <<Policy("p2", TRUE), Policy("p1", FALSE)>>}
Remembers(id, status) == [id |-> id, status |-> status, similarity |-> 70]
MemoryData == {<<>>, <<Remembers("m1", "RESOLVED")>>,
               <<Remembers("m1", "RESOLVED"), Remembers("m2", "ESCALATED")>>}
Related(ids) == [i \in DOMAIN ids |-> [id |-> ids[i]]]
Compared(supporting, strong, contradicting) ==
  [insufficient |-> FALSE, checked |-> 3, supporting |-> Related(supporting),
   strong |-> Related(strong), contradicting |-> Related(contradicting)]
CrossData == {[Compared(<<>>, <<>>, <<>>) EXCEPT !.insufficient = TRUE, !.checked = 0],
              Compared(<<"d1">>, <<"d2", "d1">>, <<>>), Compared(<<>>, <<"d2">>, <<"d3">>)}
AdaptiveData ==
  {[baseline |-> b, baseline_short |-> ~b, seasonality |-> s, season_short |-> s = <<>>, combined |-> c] :
     b \in BOOLEAN, s \in {<<>>, <<[detected |-> TRUE]>>}, c \in BOOLEAN}
Cause(id, confidence) == [id |-> id, confidence |-> confidence]
RAGData ==
  {[retrieved |-> IF c = <<>> THEN 0 ELSE 2, validated |-> c # <<>>, causes |-> c,
    chunks |-> IF c = <<>> THEN <<>> ELSE <<[source |-> "f1"], [source |-> "f1"]>>] :
     c \in {<<>>, <<Cause("c1", 40)>>, <<Cause("c1", 40), Cause("c2", 90)>>,
            <<Cause("c1", 80), Cause("c2", 90)>>}}
Of(type, S) == {<<>>} \cup {<<[type |-> type, data |-> d]>> : d \in S}
Evidence ==
  {old \o p \o m \o x \o a \o r :
     old \in {<<>>, <<[type |-> "rag", data |-> CHOOSE d \in RAGData : d.retrieved > 0]>>},
     p \in Of("policy", {[matches |-> d] : d \in PolicyData}),
     m \in Of("memory", {[matches |-> d] : d \in MemoryData}),
     x \in Of("cross_dataset", CrossData), a \in Of("adaptive", AdaptiveData), r \in Of("rag", RAGData)}
ConcludeCalls ==
  [findings : Evidence, confidence : {<<90>>}, requires : {FALSE}, runbook : {<<"open ticket">>},
   fails : {FALSE}]
  \cup [findings : {f \in Evidence : Len(f) <= 2}, confidence : {<<>>}, requires : {FALSE},
        runbook : {<<"open ticket">>}, fails : {FALSE}]
  \cup [findings : {<<>>}, confidence : {<<>>, <<40>>}, requires : BOOLEAN, runbook : {<<>>}, fails : BOOLEAN]

MCPlatformInputs ==
  [health |-> HealthCalls, replay |-> ReplayCalls, summary |-> SummaryCalls, mesh |-> MeshCalls,
   conclude |-> ConcludeCalls]

-----------------------------------------------------------------------------
(* One component at a time *)

Areas == {"graph", "ledger", "curation", "access", "llm", "delivery", "connectors", "composition",
          "analysis"}

Init ==
  /\ area \in Areas
  /\ GraphInit /\ LedgerInit /\ LLMInit
  /\ AccessInit /\ (area # "access" => deployment = "production")
  /\ CurationInit /\ (area # "curation" => \A i \in Incidents : memory[i] = {})
  /\ DeliveryInit /\ (area # "delivery" => credentials)
  /\ CompositionInit /\ (area # "composition" => environment = "production")
  /\ ConnectorInit
  /\ area # "connectors" =>
       /\ source = [capability |-> "documents", mock |-> FALSE, enabled |-> TRUE]
       /\ row /\ credential = "long" /\ upstream = "up"
  /\ \/ /\ area = "analysis"
        /\ AskingDetection \/ AskingKnowledge \/ AskingPlatform
     \/ /\ area # "analysis"
        /\ Ask("none", "none")

RunsGraph ==
  /\ area = "graph" /\ GraphNext
  /\ UNCHANGED <<area, ledgerVars, curationVars, accessVars, llmVars, deliveryVars,
                 connectorVars, compositionVars, analysisVars>>
RunsLedger ==
  /\ area = "ledger" /\ LedgerNext
  /\ UNCHANGED <<area, graphVars, curationVars, accessVars, llmVars, deliveryVars,
                 connectorVars, compositionVars, analysisVars>>
RunsCuration ==
  /\ area = "curation" /\ CurationNext
  /\ UNCHANGED <<area, graphVars, ledgerVars, accessVars, llmVars, deliveryVars,
                 connectorVars, compositionVars, analysisVars>>
RunsAccess ==
  /\ area = "access" /\ AccessNext
  /\ UNCHANGED <<area, graphVars, ledgerVars, curationVars, llmVars, deliveryVars,
                 connectorVars, compositionVars, analysisVars>>
RunsLLM ==
  /\ area = "llm" /\ LLMNext
  /\ UNCHANGED <<area, graphVars, ledgerVars, curationVars, accessVars, deliveryVars,
                 connectorVars, compositionVars, analysisVars>>
RunsDelivery ==
  /\ area = "delivery" /\ DeliveryNext
  /\ UNCHANGED <<area, graphVars, ledgerVars, curationVars, accessVars, llmVars,
                 connectorVars, compositionVars, analysisVars>>
RunsConnectors ==
  /\ area = "connectors" /\ ConnectorNext
  /\ UNCHANGED <<area, graphVars, ledgerVars, curationVars, accessVars, llmVars, deliveryVars,
                 compositionVars, analysisVars>>
RunsComposition ==
  /\ area = "composition" /\ CompositionNext
  /\ UNCHANGED <<area, graphVars, ledgerVars, curationVars, accessVars, llmVars, deliveryVars,
                 connectorVars, analysisVars>>
(* One call of an algorithm.                                               *)
Analysis ==
  /\ area = "analysis"
  /\ UNCHANGED <<area, graphVars, ledgerVars, curationVars, accessVars, llmVars, deliveryVars,
                 connectorVars, compositionVars>>

Next ==
  \/ RunsGraph \/ RunsLedger \/ RunsCuration \/ RunsAccess \/ RunsLLM \/ RunsDelivery
  \/ RunsConnectors \/ RunsComposition
  \/ Analysis /\ AskExtract
  \/ Analysis /\ AskFit
  \/ Analysis /\ AskRule
  \/ Analysis /\ AskObserve
  \/ Analysis /\ AskKPI
  \/ Analysis /\ AskPrepare
  \/ Analysis /\ AskBacktest
  \/ Analysis /\ AskSelect
  \/ Analysis /\ AskDeviation
  \/ Analysis /\ AskCorpus
  \/ Analysis /\ AskMatch
  \/ Analysis /\ AskSplit
  \/ Analysis /\ AskFuse
  \/ Analysis /\ AskDiverse
  \/ Analysis /\ AskAdvanced
  \/ Analysis /\ AskCauses
  \/ Analysis /\ AskWalk
  \/ Analysis /\ AskDerive
  \/ Analysis /\ AskHealth
  \/ Analysis /\ AskReplay
  \/ Analysis /\ AskSummary
  \/ Analysis /\ AskMesh
  \/ Analysis /\ AskConclude

vars == <<area, graphVars, ledgerVars, curationVars, accessVars, llmVars, deliveryVars,
          connectorVars, compositionVars, analysisVars>>

Spec == Init /\ [][Next]_vars

=============================================================================
