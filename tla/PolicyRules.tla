---------------------------- MODULE PolicyRules ----------------------------
(***************************************************************************)
(* From a document's policies to the thresholds the rule engine enforces:  *)
(* extraction (intelligence/policy_extraction.py), compilation             *)
(* (rule_compiler.py), conflicts (policy_validator.py), the overrides that *)
(* approved rules add up to (agents/policy/policy_agent.py) and the        *)
(* policies an investigation is shown (policy_registry.py).                *)
(*                                                                         *)
(* A text is what the code reads in it: its first number (<<v>> or <<>>)   *)
(* and the set of markers it contains.                                     *)
(***************************************************************************)
EXTENDS Basics, Sequences, SequencesExt, FiniteSetsExt

CONSTANTS
  TopK,               \* PolicyRegistry.top_k
  SemanticThreshold,  \* _SEMANTIC_THRESHOLD, in hundredths
  ChunkThreshold      \* _CHUNK_MATCH_THRESHOLD, in hundredths

ASSUME PolicyRulesAssumption ==
  /\ TopK \in Nat \ {0}
  /\ SemanticThreshold \in 0..100 /\ ChunkThreshold \in 0..100

Markers == {"percent", "decrease", "increase", "critical"}

CuratedDomains == {"sales", "complaints", "inventory"}

KnownRuleKeys ==
  [sales |-> {"daily_drop_percent", "absolute_minimum"},
   complaints |-> {"daily_increase_threshold"},
   inventory |-> {"critical_threshold", "low_stock_threshold"}]

-----------------------------------------------------------------------------
(* Extraction *)

(* _sanitize_policy: the fields a language model's item keeps. A text must  *)
(* be a text, a list a list with something in it, an approval a Boolean;    *)
(* without any rule content the item is dropped.                            *)
SanitizePolicy(item) ==
  LET Keeps(f) == \/ item[f].is = "text" /\ ~item[f].blank
                  \/ item[f].is = "list" /\ ~item[f].blank
                  \/ item[f].is = "bool"
      kind == [f \in DOMAIN item |-> CASE f \in {"actions", "related_metrics"} -> "list"
                                       [] f = "approval_required" -> "bool"
                                       [] OTHER -> "text"]
      kept == {f \in DOMAIN item : item[f].is = kind[f] /\ Keeps(f)}
  IN IF kept \cap {"condition", "actions", "business_rule", "escalation_rule"} = {}
     THEN {} ELSE kept

(* extract and extract_tabular over the model's answer: nothing at all for  *)
(* an answer that fails, is suspicious or is no list, else what survives of *)
(* each item.                                                               *)
Extract(answer) ==
  IF answer.failed \/ answer.suspicious \/ ~answer.is_list THEN <<>>
  ELSE Keeping([i \in DOMAIN answer.items |->
                    IF answer.items[i].is_object
                    THEN SanitizePolicy(answer.items[i].fields) ELSE {}],
                 LAMBDA kept : kept # {})

(* _attribute_chunk: the first chunk that contains the text or is contained *)
(* in it, unless none does and one is similar enough; only chunks that have *)
(* a recorded identifier count, and empty ones do not.                      *)
AttributeChunk(has_text, chunks, ids) ==
  LET at == {i \in DOMAIN chunks : i <= Len(ids) /\ ~chunks[i].blank}
      inside == {i \in at : chunks[i].contains}
      best == {i \in at : \A j \in at : \/ chunks[j].ratio < chunks[i].ratio
                                        \/ chunks[j].ratio = chunks[i].ratio /\ i <= j}
  IN CASE ~has_text \/ at = {} -> <<>>
       [] has_text /\ inside # {} -> <<ids[Min(inside)]>>
       [] OTHER -> LET i == CHOOSE k \in best : TRUE
                   IN IF chunks[i].ratio >= ChunkThreshold /\ chunks[i].ratio > 0
                      THEN <<ids[i]>> ELSE <<>>

-----------------------------------------------------------------------------
(* Compilation *)

(* The first of the texts with a number other than zero; where there is     *)
(* none, the last text's number: a zero is falsy and passed over.           *)
ExtractedValue(texts) ==
  LET nonzero == {i \in DOMAIN texts : texts[i].number \notin {<<>>, <<0>>}}
  IN IF nonzero = {} THEN Last(texts).number ELSE texts[Min(nonzero)].number

(* Mutant: "below 30" and "30%" are told apart by the threshold text alone. *)
RuleKeyByThreshold(domain, marks, own) ==
  CASE domain = "sales" /\ "percent" \in own /\ "decrease" \in marks -> "daily_drop_percent"
    [] domain = "sales" /\ "percent" \notin own -> "absolute_minimum"
    [] domain = "complaints" /\ {"percent", "increase"} \subseteq marks ->
         "daily_increase_threshold"
    [] domain = "inventory" /\ "critical" \in marks -> "critical_threshold"
    [] domain = "inventory" /\ "critical" \notin marks -> "low_stock_threshold"
    [] OTHER -> "none"

(* _compile_sales, _compile_complaints, _compile_inventory: the rule shape  *)
(* the wording of all three texts together matches.                         *)
RuleKey(domain, marks, own) ==
  CASE domain = "sales" /\ {"percent", "decrease"} \subseteq marks -> "daily_drop_percent"
    [] domain = "sales" /\ "percent" \notin marks -> "absolute_minimum"
    [] domain = "complaints" /\ {"percent", "increase"} \subseteq marks ->
         "daily_increase_threshold"
    [] domain = "inventory" /\ "critical" \in marks -> "critical_threshold"
    [] domain = "inventory" /\ "critical" \notin marks -> "low_stock_threshold"
    [] OTHER -> "none"

NotCompilable == [domain |-> "none", key |-> "none", value |-> 0]

(* RuleCompiler.compile: the first related metric that is a curated domain, *)
(* a number from the threshold, the condition or the raw text, and a rule   *)
(* shape of that domain.                                                    *)
Compile(policy) ==
  LET domains == Keeping(policy.metrics, LAMBDA m : m \in CuratedDomains)
      texts == <<policy.threshold, policy.condition, policy.raw>>
      value == ExtractedValue(texts)
      marks == UNION {texts[i].marks : i \in DOMAIN texts}
  IN IF domains = <<>> \/ value = <<>> THEN NotCompilable
     ELSE LET key == RuleKey(domains[1], marks, policy.threshold.marks)
          IN IF key = "none" THEN NotCompilable
             ELSE [domain |-> domains[1], key |-> key, value |-> value[1]]

-----------------------------------------------------------------------------
(* Conflicts *)

(* Mutant: policies on the same metric with different values collide, what- *)
(* ever key they compile to.                                                *)
ConflictsByDomain(policies) ==
  LET Rule(i) == Compile(policies[i])
      On(d) == {i \in DOMAIN policies : Rule(i).domain = d}
      shared == {d \in CuratedDomains : Cardinality(On(d)) >= 2}
  IN {[type |-> IF Cardinality({Rule(i).value : i \in On(d)}) = 1
                THEN "unreachable" ELSE "threshold_collision",
       policies |-> On(d)] : d \in shared}

(* _threshold_conflicts: policies that compile to the same key, a collision *)
(* when their values differ and unreachable duplicates when they do not.    *)
ThresholdConflicts(policies) ==
  LET Rule(i) == Compile(policies[i])
      On(d, k) == {i \in DOMAIN policies : Rule(i).domain = d /\ Rule(i).key = k}
      keys == {x \in CuratedDomains \X UNION {KnownRuleKeys[d] : d \in CuratedDomains} :
                 Cardinality(On(x[1], x[2])) >= 2}
  IN {[type |-> IF Cardinality({Rule(i).value : i \in On(x[1], x[2])}) = 1
                THEN "unreachable" ELSE "threshold_collision",
       policies |-> On(x[1], x[2])] : x \in keys}

(* Mutant: only the first related metric of each policy is compared.        *)
ActionConflictsOnFirst(policies) ==
  {[type |-> "action_conflict", policies |-> {both[1], both[2]}] :
     both \in {p \in (DOMAIN policies) \X (DOMAIN policies) :
        /\ policies[p[1]].approval = <<TRUE>> /\ policies[p[2]].approval = <<FALSE>>
        /\ policies[p[1]].metrics # <<>> /\ policies[p[2]].metrics # <<>>
        /\ policies[p[1]].metrics[1] = policies[p[2]].metrics[1]}}

(* _action_conflicts: two policies that share a metric and disagree whether *)
(* approval is required, each pair once.                                    *)
ActionConflicts(policies) ==
  {[type |-> "action_conflict", policies |-> {both[1], both[2]}] :
     both \in {p \in (DOMAIN policies) \X (DOMAIN policies) :
        /\ policies[p[1]].approval = <<TRUE>> /\ policies[p[2]].approval = <<FALSE>>
        /\ ToSet(policies[p[1]].metrics) \cap ToSet(policies[p[2]].metrics) # {}}}

ValidateCorpus(policies) == ThresholdConflicts(policies) \cup ActionConflicts(policies)

-----------------------------------------------------------------------------
(* Enforcement *)

(* active_overrides: adopted rules by the time they were decided, a later   *)
(* one replacing an earlier one of the same key.                            *)
ActiveOverrides(rules) ==
  LET ordered == Ranking(rules, LAMBDA r, s : r.decided_at < s.decided_at)
      named == Keeping(ordered, LAMBDA r : r.domain # "none" /\ r.key # "none")
      keys == {<<named[i].domain, named[i].key>> : i \in DOMAIN named}
  IN [k \in keys |-> Last(Keeping(named, LAMBDA r : <<r.domain, r.key>> = k)).value]

(* Mutant: the most similar ones, whatever they name.                       *)
MatchBySimilarity(policies, metric, query_ok) ==
  LET at == [i \in DOMAIN policies |-> i]
      alike == Keeping(at, LAMBDA i : policies[i].similarity # <<>>)
  IN SubSeq(alike, 1, Min({TopK, Len(alike)}))

(* match_for_incident: the first policies that name the metric; only where  *)
(* none does, the most similar of those similar enough. A policy without a  *)
(* text or whose vector cannot be had (<<>>) is passed over.                *)
MatchForIncident(policies, metric, query_ok) ==
  LET at == [i \in DOMAIN policies |-> i]
      named == Keeping(at, LAMBDA i : metric \in ToSet(policies[i].metrics))
      alike == Keeping(at, LAMBDA i : /\ policies[i].similarity # <<>>
                                        /\ policies[i].similarity[1] >= SemanticThreshold)
      ranked == Ranking(alike, LAMBDA i, j :
                          policies[i].similarity[1] > policies[j].similarity[1])
      Top(s) == SubSeq(s, 1, Min({TopK, Len(s)}))
  IN CASE named # <<>> -> Top(named)
       [] named = <<>> /\ query_ok -> Top(ranked)
       [] OTHER -> <<>>

=============================================================================
