---------------------------- MODULE Explanation ----------------------------
(***************************************************************************)
(* What an investigation says at its end (finalize_incident of             *)
(* orchestrator.py): the plan made from its evidence                       *)
(* (intelligence/execution_planning.py), why the plan says what it says    *)
(* (explainability.py), and how good the investigation was                 *)
(* (ai_evaluation.py).                                                     *)
(*                                                                         *)
(* findings is a sequence of [type, data]; confidences, similarities and   *)
(* strengths are hundredths, <<>> where none is recorded. A recommendation *)
(* names in its text what it was made from: that is its "from". Texts, and *)
(* what only reaches texts, are left out.                                  *)
(***************************************************************************)
EXTENDS Integers, Sequences, FiniteSets, Basics, FiniteSetsExt, SequencesExt

CONSTANTS CauseGap, ConfidenceCap   \* _AMBIGUOUS_CAUSE_GAP, _CONFLICT_CONFIDENCE_CAP

ASSUME PlanLimits == CauseGap \in Nat /\ ConfidenceCap \in Nat

SourcePriority == <<"policy", "memory", "cross_dataset", "adaptive", "retrieval">>
FindingOf == [policy |-> "policy", memory |-> "memory", cross_dataset |-> "cross_dataset",
              adaptive |-> "adaptive", retrieval |-> "rag"]
PriorityIndex(source) ==
  IF source = "runbook" THEN 6 ELSE CHOOSE i \in DOMAIN SourcePriority : SourcePriority[i] = source

-----------------------------------------------------------------------------
(* Reading the findings *)

(* _latest_finding_data: <<data>> of the newest finding of a source, or <<>>.*)
DataOf(findings, source) ==
  LET own == {i \in DOMAIN findings : findings[i].type = FindingOf[source]}
  IN IF own = {} THEN <<>> ELSE <<findings[Max(own)].data>>

(* The items a source's data lists, none where there is no data.            *)
Items(findings, source, field) ==
  LET d == DataOf(findings, source) IN IF d = <<>> THEN <<>> ELSE d[1][field]

Matches(findings) == Items(findings, "policy", "matches")
Remembered(findings) == Items(findings, "memory", "matches")
CausesFound(findings) == Items(findings, "retrieval", "causes")
Correlated(findings) == Items(findings, "cross_dataset", "strong")
Comparable(findings) ==
  LET d == DataOf(findings, "cross_dataset") IN d # <<>> /\ ~d[1].insufficient
Seasonal(findings) ==
  LET d == DataOf(findings, "adaptive")
  IN d # <<>> /\ d[1].seasonality # <<>> /\ d[1].seasonality[1].detected

(* Sorting by confidence keeps the order of causes that are equally likely. *)
ByConfidence(causes) == Ranking(causes, LAMBDA c, d : c.confidence > d.confidence)

-----------------------------------------------------------------------------
(* The plan *)

SourcesConsulted(findings) ==
  {s \in DOMAIN FindingOf : DataOf(findings, s) # <<>>}

SourcesWithSignal(findings) ==
  LET Has(s) ==
        CASE s = "policy" -> Matches(findings) # <<>>
          [] s = "memory" -> Remembered(findings) # <<>>
          [] s = "cross_dataset" -> \/ Items(findings, s, "supporting") # <<>>
                                    \/ Correlated(findings) # <<>>
          [] s = "adaptive" -> DataOf(findings, s)[1].combined
          [] s = "retrieval" -> CausesFound(findings) # <<>>
  IN {s \in SourcesConsulted(findings) : Has(s)}

Recommend(source, from, approval) == [source |-> source, from |-> from, approval |-> approval]

(* The recommendations, source by source, and how they come out: sorted by  *)
(* priority, those of one source as they were gathered.                     *)
GatheredActions(findings, runbook) ==
  LET policies == Matches(findings)
      strong == IF Comparable(findings) THEN Correlated(findings) ELSE <<>>
      causes == ByConfidence(CausesFound(findings))
  IN [i \in DOMAIN policies |-> Recommend("policy", policies[i].id, policies[i].approval)]
     \o [i \in DOMAIN strong |-> Recommend("cross_dataset", strong[i].id, FALSE)]
     \o (IF Seasonal(findings) THEN <<Recommend("adaptive", "seasonality", FALSE)>> ELSE <<>>)
     \o (IF causes = <<>> THEN <<>> ELSE <<Recommend("retrieval", causes[1].id, FALSE)>>)
     \o [i \in DOMAIN runbook |-> Recommend("runbook", "none", TRUE)]

RecommendedActions(findings, runbook) ==
  Ranking(GatheredActions(findings, runbook),
          LAMBDA a, b : PriorityIndex(a.source) < PriorityIndex(b.source))

(* Evidence that contradicts other evidence, by who disagrees.              *)
EvidenceConflicts(findings) ==
  LET approvals == {Matches(findings)[i].approval : i \in DOMAIN Matches(findings)}
      ends == {Remembered(findings)[i].status : i \in DOMAIN Remembered(findings)}
      causes == ByConfidence(CausesFound(findings))
  IN {b \in {"policy", "memory", "cross_dataset", "retrieval"} :
        CASE b = "policy" -> Cardinality(approvals) > 1
          [] b = "memory" -> {"RESOLVED", "ESCALATED"} \subseteq ends
          [] b = "cross_dataset" -> /\ Comparable(findings)
                                    /\ Items(findings, b, "contradicting") # <<>>
          [] b = "retrieval" -> /\ Len(causes) >= 2
                                /\ causes[1].confidence - causes[2].confidence < CauseGap}

EvidenceQuality(signals) ==
  CASE signals = 0 -> "insufficient" [] signals = 1 -> "low"
    [] signals \in {2, 3} -> "medium" [] OTHER -> "high"

(* plan. Approval is also forced by a recommendation that needs it.         *)
Plan(findings, confidence, requiresHuman, runbook) ==
  LET base == IF confidence = <<>> THEN 0 ELSE confidence[1]
      signal == SourcesWithSignal(findings)
      conflicts == EvidenceConflicts(findings)
      quality == EvidenceQuality(Cardinality(signal))
      actions == RecommendedActions(findings, runbook)
  IN [made |-> TRUE, actions |-> actions, conflicts |-> conflicts, quality |-> quality,
      consulted |-> SourcesConsulted(findings), signal |-> signal,
      confidence |-> CASE signal = {} -> 0
                       [] signal # {} /\ conflicts # {} -> Min({base, ConfidenceCap})
                       [] OTHER -> base,
      approval |-> \/ requiresHuman \/ conflicts # {} \/ quality \in {"insufficient", "low"}
                   \/ \E i \in DOMAIN actions : actions[i].approval]

(* What finalize_incident records when planning raised.                     *)
FailedPlan ==
  [made |-> FALSE, actions |-> <<>>, conflicts |-> {}, quality |-> "insufficient", consulted |-> {},
   signal |-> {}, confidence |-> 0, approval |-> TRUE]

-----------------------------------------------------------------------------
(* Why *)

(* _build_evidence_graph: the identifiers of what each source found.        *)
EvidenceGraph(findings, source) ==
  LET Ids(items) == {items[i].id : i \in DOMAIN items}
      d == DataOf(findings, source)
  IN CASE source = "policy" -> Ids(Matches(findings))
       [] source = "memory" -> Ids(Remembered(findings))
       [] source = "cross_dataset" ->
            UNION {Ids(Items(findings, source, f)) : f \in {"supporting", "strong", "contradicting"}}
       [] source = "adaptive" ->
            (IF d # <<>> /\ d[1].baseline THEN {"adaptive_baseline"} ELSE {})
            \cup (IF Seasonal(findings) THEN {"seasonality"} ELSE {})
       [] source = "retrieval" -> Ids(CausesFound(findings))

(* Mutant: the causes are walked as they were found.                        *)
EvidenceInFoundOrder(findings, source) ==
  CASE source = "policy" -> Matches(findings)
    [] source = "cross_dataset" -> Correlated(findings)
    [] source = "retrieval" -> CausesFound(findings)
    [] OTHER -> <<>>

(* What _build_decision_graph walks along with a source's recommendations.  *)
EvidenceInOrder(findings, source) ==
  CASE source = "policy" -> Matches(findings)
    [] source = "cross_dataset" -> Correlated(findings)
    [] source = "retrieval" -> ByConfidence(CausesFound(findings))
    [] OTHER -> <<>>

(* The decision graph pairs the n-th recommendation of a source with its    *)
(* n-th item: nothing else tells where a recommendation came from.          *)
DecisionGraph(findings, actions) ==
  [i \in DOMAIN actions |->
     LET source == actions[i].source
         n == Cardinality({j \in 1..i : actions[j].source = source})
         items == EvidenceInOrder(findings, source)
     IN [order |-> i, source |-> source,
         evidence |-> CASE source = "adaptive" -> "seasonality"
                        [] source # "adaptive" /\ n <= Len(items) -> items[n].id
                        [] OTHER -> "none"]]

MissingEvidence(plan) ==
  [silent |-> plan.consulted \ plan.signal, unasked |-> DOMAIN FindingOf \ plan.consulted]

(* _build_evidence_contribution, of one source.                             *)
Contribution(findings, plan, graph, source) ==
  [consulted |-> source \in plan.consulted, signal |-> source \in plan.signal,
   influenced |-> {graph[i].order : i \in {j \in DOMAIN graph : graph[j].source = source}}]

Explain(findings, plan, confidence) ==
  LET graph == DecisionGraph(findings, plan.actions)
  IN [graph |-> graph,
      adjustment |-> IF confidence = <<>> THEN <<>> ELSE <<plan.confidence - confidence[1]>>,
      contribution |-> [s \in DOMAIN FindingOf |-> Contribution(findings, plan, graph, s)],
      missing |-> MissingEvidence(plan),
      highest |-> SelectSeq(SourcePriority, LAMBDA s : s \in plan.signal)]

-----------------------------------------------------------------------------
(* How good *)

Share(n, of) == <<<<n, of>>>>
Mean(hundredths) == <<FoldLeft(LAMBDA a, b : a + b, 0, hundredths), 100 * Len(hundredths)>>

RetrievalQuality(rag) ==
  IF rag.retrieved = 0 THEN <<0, 1>>
  ELSE Mean(<<100, IF rag.validated THEN 100 ELSE 0>>
            \o (IF rag.causes = <<>> THEN <<>> ELSE <<ByConfidence(rag.causes)[1].confidence>>))

MemoryQuality(matches, conflicts) ==
  LET base == Mean([i \in DOMAIN matches |-> matches[i].similarity])
  IN IF matches = <<>> THEN <<0, 1>>
     ELSE IF "memory" \in conflicts THEN Larger(<<0, 1>>, Minus(base, <<15, 100>>)) ELSE base

CrossDatasetCoverage(cross) ==
  IF cross.insufficient \/ cross.checked = 0 THEN <<0, 1>>
  ELSE Smaller(<<1, 1>>, <<Len(cross.supporting) + Len(cross.strong), cross.checked>>)

EvidenceDiversity(findings, plan) ==
  LET chunks == Items(findings, "retrieval", "chunks")
      sources == <<Cardinality(plan.signal), 5>>
      documents == <<Cardinality({chunks[i].source : i \in DOMAIN chunks}), Len(chunks)>>
  IN IF chunks = <<>> THEN sources ELSE Times(Plus(sources, documents), <<1, 2>>)

(* The components that can be computed; <<>> for one that cannot. A plan    *)
(* that failed says nothing of sources, and is there all the same.          *)
QualityComponents(findings, plan, explained, rootCause, confidence) ==
  LET Of(source, Score(_)) ==
        LET d == DataOf(findings, source) IN IF d = <<>> THEN <<>> ELSE <<Score(d[1])>>
      Counts(b) == IF b THEN 1 ELSE 0
      backed == {i \in DOMAIN plan.actions : plan.actions[i].source # "runbook"}
  IN <<IF plan.made THEN Share(Cardinality(plan.signal), 5) ELSE <<>>,
       Of("retrieval", RetrievalQuality),
       Of("memory", LAMBDA d : MemoryQuality(d.matches, plan.conflicts)),
       Of("policy", LAMBDA d : Smaller(<<1, 1>>, <<Len(d.matches), 2>>)),
       Of("cross_dataset", CrossDatasetCoverage),
       Of("adaptive", LAMBDA d : <<Counts(~d.baseline_short) + Counts(~d.season_short), 2>>),
       IF plan.made THEN <<EvidenceDiversity(findings, plan)>> ELSE <<>>,
       IF plan.actions = <<>> THEN Share(0, 1) ELSE Share(Cardinality(backed), Len(plan.actions)),
       IF plan.made
       THEN Share(Cardinality(plan.consulted)
                  + 5 * (Counts(rootCause) + Counts(confidence # <<>>) + 1 + Counts(explained)), 25)
       ELSE <<>>>>

(* round(score, 4), in ten-thousandths.                                     *)
Rounded(p) == (20000 * p[1] + p[2]) \div (2 * p[2])

(* _compute_overall_score: the mean of what could be computed, less a fifth *)
(* of the severity of the conflicts: a quarter for each, and never over one.*)
OverallScore(findings, plan, explained, rootCause, confidence) ==
  LET known == FlattenSeq(QualityComponents(findings, plan, explained, rootCause, confidence))
      sum == FoldLeft(LAMBDA n, p : n + Rounded(p), 0, known)
      penalty == 500 * Min({Cardinality(plan.conflicts), 4})
  IN Max({0, (2 * (sum - penalty * Len(known)) + Len(known)) \div (2 * Len(known))})

=============================================================================
