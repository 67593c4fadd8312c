-------------------------- MODULE KnowledgeChecks --------------------------
(***************************************************************************)
(* Calls of policies, retrieval, grounded causes, and of what the business *)
(* graph is derived from and the walk over it.                             *)
(***************************************************************************)
EXTENDS Calls, PolicyRules, Retrieval, GroundedCauses, GraphTraversal, BusinessGraph

CONSTANT
  KnowledgeInputs   \* operation -> what it is called with

-----------------------------------------------------------------------------
(* Inputs *)

(* Two policies, each adopted as a rule: the metrics a policy names and     *)
(* what its texts say.                                                      *)
CorpusInput(in) == DOMAIN in = 1..2 /\ \A i \in 1..2 : IsList(in[i].metrics)

(* Policies by the metrics they name and their similarity to the question,  *)
(* which is <<>> where there is none.                                       *)
MatchInput(in) ==
  /\ IsList(in.policies)
  /\ \A i \in DOMAIN in.policies : in.policies[i].similarity \in Seq(Int)

(* The lengths of a document's sentences, and where words begin before the  *)
(* end of each (OverlapTail); a sentence does not end with white space.     *)
SplitInput(in) ==
  /\ in.lengths \in Seq(Nat \ {0}) /\ in.snaps \in Seq(Int) /\ Len(in.snaps) = Len(in.lengths)
  /\ \A i \in DOMAIN in.snaps : Overlap + in.snaps[i] >= 1 \/ Overlap = 0

(* Two rankings, each of different candidates.                              *)
FuseInput(in) ==
  /\ in \in Seq(Seq([id : Int, found_by : {{}}])) /\ Len(in) = 2
  /\ \A l \in 1..2 : \A i, j \in DOMAIN in[l] : in[l][i].id = in[l][j].id => i = j

(* Candidates with the words they are made of.                              *)
DiverseInput(in) ==
  /\ IsList(in.candidates) /\ in.k \in Nat
  /\ \A i \in DOMAIN in.candidates : IsFiniteSet(in.candidates[i].tokens)

(* What the vector store holds and what is known of the incident.           *)
AdvancedInput(in) ==
  /\ IsList(in.points) /\ IsList(in.queries) /\ IsList(in.entities) /\ in.k \in Nat \ {0}
  /\ \A i \in DOMAIN in.points :
       LET p == in.points[i]
       IN /\ {"id", "similarity", "bm25", "found_by", "actionable", "recent"} \subseteq DOMAIN p
          /\ p.id \in Int /\ p.similarity \in Int /\ p.bm25 \in Int
          /\ p.actionable \in BOOLEAN /\ p.recent \in BOOLEAN

(* The searches and answers an incident's investigations meet.              *)
CauseInput(in) ==
  /\ IsList(in)
  /\ \A n \in DOMAIN in : IsList(in[n].search)

(* A graph whose edges have identifiers of their own, and a clamped budget. *)
WalkInput(in) ==
  LET edges == in.graph.edges
      b == in.budget
  IN /\ IsFiniteSet(DOMAIN edges)
     /\ \A e \in DOMAIN edges :
          edges[e].id \in Int /\ edges[e].confidence \in Int /\ edges[e].count \in Int
     /\ \A d, e \in DOMAIN edges : edges[d].id = edges[e].id => d = e
     /\ b.max_depth \in Nat \ {0} /\ b.max_nodes \in Nat \ {0} /\ b.max_edges \in Nat \ {0}
     /\ b.min_confidence \in Int

(* Datasets, policies and incidents with identifiers of their own.          *)
DeriveInput(in) ==
  LET Apart(S) == IsFiniteSet(S) /\ \A x, y \in S : x.id = y.id => x = y
  IN /\ Apart(in.datasets) /\ \A d \in in.datasets : d.measures \in Seq(Int)
     /\ Apart(in.policies) /\ \A p \in in.policies : p.metrics \in Seq(Int)
     /\ Apart(in.incidents)
     /\ \A i \in in.incidents :
          /\ i.metric \in Int /\ i.cited \in Seq(Int)
          /\ i.correlated \in Seq([metric : Int, strength : 0..100])

ASSUME KnowledgeInputsAssumption ==
  /\ DOMAIN KnowledgeInputs = {"corpus", "match", "split", "fuse", "diverse", "advanced",
                               "causes", "walk", "derive"}
  /\ \A in \in KnowledgeInputs.corpus : CorpusInput(in)
  /\ \A in \in KnowledgeInputs.match : MatchInput(in)
  /\ \A in \in KnowledgeInputs.split : SplitInput(in)
  /\ \A in \in KnowledgeInputs.fuse : FuseInput(in)
  /\ \A in \in KnowledgeInputs.diverse : DiverseInput(in)
  /\ \A in \in KnowledgeInputs.advanced : AdvancedInput(in)
  /\ \A in \in KnowledgeInputs.causes : CauseInput(in)
  /\ \A in \in KnowledgeInputs.walk : WalkInput(in)
  /\ \A in \in KnowledgeInputs.derive : DeriveInput(in)

AskingKnowledge == \E op \in DOMAIN KnowledgeInputs : \E in \in KnowledgeInputs[op] : Ask(op, in)

-----------------------------------------------------------------------------
(* Answering *)

Derivations(in) ==
  LET found == {DeriveDatasetStructure(in.datasets), DerivePolicyGovernance(in.policies),
                DeriveIncidentEvidence(in.incidents)}
  IN [nodes |-> UNION {f.nodes : f \in found}, edges |-> PutEdges(UNION {f.edges : f \in found})]

AskCorpus == Asked("corpus") /\ Answers(ValidateCorpus(call.in))

AskMatch == Asked("match") /\ Answers(MatchForIncident(call.in.policies, call.in.metric, TRUE))

AskSplit == Asked("split") /\ Answers(SplitSentence(call.in))

AskFuse == Asked("fuse") /\ Answers(Fuse(call.in))

AskDiverse == Asked("diverse") /\ Answers(DiversityFilter(call.in.candidates, call.in.k))

AskAdvanced ==
  /\ Asked("advanced")
  /\ Answers(AdvancedSearch(call.in.points, call.in.queries, FilterCriteria(call.in.entities),
                            call.in.k))

AskCauses == Asked("causes") /\ Answers(Attempts(call.in))

AskWalk == Asked("walk") /\ Answers(Neighborhood(call.in.graph, call.in.origin, call.in.budget, {}))

AskDerive == Asked("derive") /\ Answers(Derivations(call.in))

AnsweringKnowledge ==
  \/ AskCorpus \/ AskMatch \/ AskSplit \/ AskFuse \/ AskDiverse \/ AskAdvanced \/ AskCauses
  \/ AskWalk \/ AskDerive

KnowledgeSpec == AskingKnowledge /\ [][AnsweringKnowledge]_analysisVars

-----------------------------------------------------------------------------
(* Properties *)

(* When it depends on the order of adoption which threshold two policies    *)
(* end up enforcing, the validator reported a collision before, and it      *)
(* reports none otherwise (policy_validator.py:128, policy_agent.py:296).   *)
CollisionsForeseen ==
  Answered("corpus") =>
    LET Adopted(i, at) ==
          LET rule == Compile(call.in[i])
          IN [domain |-> rule.domain, key |-> rule.key, value |-> rule.value, decided_at |-> at]
        one == ActiveOverrides(<<Adopted(1, 1), Adopted(2, 2)>>)
        other == ActiveOverrides(<<Adopted(1, 2), Adopted(2, 1)>>)
    IN one # other <=> \E c \in answer[1] : c.type = "threshold_collision"

(* A policy that does not name the metric never displaces one that does,    *)
(* however similar it is (policy_registry.py:130).                          *)
NamedBeforeSimilar ==
  Answered("match") =>
    LET p == call.in.policies
        Names(i) == call.in.metric \in ToSet(p[i].metrics)
        found == ToSet(answer[1])
    IN (\E i \in DOMAIN p : Names(i)) =>
         /\ found # {} /\ \A i \in found : Names(i)
         /\ \A i \in DOMAIN p \ found : ~Names(i) \/ Cardinality(found) = TopK

(* Every sentence of a document is in a chunk, in order and once. A chunk   *)
(* of several outgrows its size only by what it repeats, which is not more  *)
(* than there was in the chunk before it, nor more than the overlap, moved  *)
(* to where a word begins, and a space (chunking.py:243, 283, 341).         *)
ChunksCoverText ==
  Answered("split") =>
    LET chunks == answer[1]
        in == call.in
        Own(c) == JoinedLength(in.lengths, chunks[c].parts)
        Repeated(c) == IF c = 1 THEN 0
                       ELSE Overlap + 1 + in.snaps[chunks[c - 1].parts[Len(chunks[c - 1].parts)]]
    IN /\ FlattenSeq([c \in DOMAIN chunks |-> chunks[c].parts]) = [i \in DOMAIN in.lengths |-> i]
       /\ \A c \in DOMAIN chunks :
            /\ Len(chunks[c].parts) > 1 => Own(c) <= ChunkSize
            /\ Overlap > 0 => chunks[c].tail <= Repeated(c)
            /\ c > 1 => chunks[c].tail <= Own(c - 1) + 1

(* chunking.py:252-254: the "tail of the previous chunk (up to overlap      *)
(* characters, trimmed to the nearest sentence boundary)". It is extended   *)
(* to the beginning of a word, and followed by a space.                     *)
OverlapIsTrimmed ==
  Answered("split") => \A c \in DOMAIN answer[1] : answer[1][c].tail <= Overlap

(* chunking.py:38-40, 249-250: "a new chunk begins after the sentence" that *)
(* pushes the length over chunk_size. It begins with that sentence, and     *)
(* what is repeated counts for nothing.                                     *)
ChunksEndPastTheirSize ==
  Answered("split") =>
    \A c \in DOMAIN answer[1] :
      c < Len(answer[1]) =>
        answer[1][c].tail + JoinedLength(call.in.lengths, answer[1][c].parts) > ChunkSize

(* Fusion ranks a candidate that both searches rank above another one above *)
(* it, one that a search did not find being below all it found, and does    *)
(* not care which search comes first (hybrid_retrieval.py:401).             *)
AgreedOrderKept ==
  Answered("fuse") =>
    LET a == call.in[1]
        b == call.in[2]
        Place(l, x) == Min({i \in DOMAIN l : l[i].id = x} \cup {Len(l) + 1})
        out == answer[1]
        Ids(l) == [i \in DOMAIN l |-> l[i].id]
    IN /\ Ids(out) = Ids(Fuse(<<b, a>>))
       /\ \A i, j \in DOMAIN out : i < j =>
            ~(/\ Place(a, out[j].id) < Place(a, out[i].id)
              /\ Place(b, out[j].id) < Place(b, out[i].id))

(* No two near-duplicates are kept, and a place stays free only when every  *)
(* candidate left out duplicates a kept one (evidence_diversity.py:118).    *)
DiverseAndFull ==
  Answered("diverse") =>
    LET kept == answer[1]
        candidates == call.in.candidates
    IN /\ \A i, j \in DOMAIN kept : i # j => ~NearDuplicates(kept[i], kept[j])
       /\ Len(kept) < call.in.k =>
            \A i \in DOMAIN candidates :
              candidates[i] \in ToSet(kept) \/ DuplicateOf(candidates[i], kept)

(* What matches the incident's entities is looked at first, and the filter  *)
(* is dropped only where it leaves nothing at all, which is said; the best  *)
(* come first whatever was asked first (advanced_retrieval.py:398).         *)
RelaxedOnlyWhenEmpty ==
  Answered("advanced") =>
    LET in == call.in
        criteria == FilterCriteria(in.entities)
        found == answer[1]
        strict == MultiQuerySearch(in.points, in.queries, criteria, Max({2 * in.k, 10}))
    IN \A i \in DOMAIN found :
         /\ found[i].relaxed <=> strict = <<>>
         /\ \A j \in DOMAIN found : found[j].score > found[i].score => j < i

(* Every cause an investigation passes on cites a chunk it retrieved, and   *)
(* it gives up searching only after every variant of its question found     *)
(* nothing; a result without causes always asks for a human                 *)
(* (rag_agent.py:345, response_validator.py:85).                            *)
CausesAreGrounded ==
  Answered("causes") =>
    \A n \in DOMAIN answer[1] :
      LET r == answer[1][n]
          before == SubSeq(answer[1], 1, n - 1)
          search == call.in[n].search
      IN /\ \A c \in DOMAIN r.causes : r.causes[c].chunk \in ToSet(search)
         /\ r.causes = <<>> => r.review
         /\ r.strategy = "exhausted" =>
              {Strategies[s] : s \in 1..MaxQueryAttempts}
                \subseteq {before[i].strategy : i \in DOMAIN before}
         /\ r.strategy = "exhausted" => \A i \in DOMAIN before : before[i].retrieved = 0

(* The walk stays within its budget, every path it reports exists, and      *)
(* when it does not say that it was cut short there is nothing it missed    *)
(* (business_graph.py:274).                                                 *)
ReachIsHonest ==
  Answered("walk") =>
    LET r == answer[1].related
        g == call.in.graph
        origin == call.in.origin
        b == call.in.budget
        Strong(m, n) == \E e \in DOMAIN g.edges : /\ {e[1], e[3]} = {m, n}
                                                  /\ g.edges[e].confidence >= b.min_confidence
    IN /\ Cardinality(DOMAIN r) < b.max_nodes /\ answer[1].edges <= b.max_edges
       /\ \A n \in DOMAIN r :
            /\ r[n].depth = Len(r[n].path) - 1 /\ r[n].depth <= b.max_depth
            /\ r[n].path[1] = origin /\ Last(r[n].path) = n
            /\ \A i \in 2..Len(r[n].path) : Strong(r[n].path[i - 1], r[n].path[i])
       /\ answer[1].found /\ answer[1].why = "none" =>
            {origin} \cup DOMAIN r = ReachableAt(g, origin, b.min_confidence)

(* What an edge that is no correlation stands for: each time a policy or a  *)
(* dataset names the metric, the dataset's service, each metric the         *)
(* incident was raised on or cites.                                         *)
Facts(in, e) ==
  LET Pairs(items, Places(_)) == UNION {{<<i, k>> : k \in Places(i)} : i \in items}
      Metric(i, k) == IF k = 0 THEN i.metric ELSE i.cited[k]
  IN CASE e[2] = "governed_by" ->
            Pairs({p \in in.policies : p.id = e[3][2]},
                  LAMBDA p : {k \in DOMAIN p.metrics : p.metrics[k] = e[1][2]})
       [] e[2] = "derived_from" /\ e[1][1] = "metric" ->
            Pairs({d \in in.datasets : d.id = e[3][2]},
                  LAMBDA d : {k \in DOMAIN d.measures : d.measures[k] = e[1][2]})
       [] e[2] = "derived_from" /\ e[1][1] = "dataset" ->
            {<<d, 0>> : d \in {d \in in.datasets : d.id = e[1][2] /\ d.service = e[3][2]}}
       [] OTHER ->
            Pairs({i \in in.incidents : i.id = e[1][2]},
                  LAMBDA i : {k \in {0} \cup DOMAIN i.cited : Metric(i, k) = e[3][2]})

(* Where the incidents measured a pair of metrics, and how strongly.        *)
Measured(in, m, n) ==
  UNION {{<<i, k>> : k \in {k \in DOMAIN i.correlated :
                              /\ {i.metric, i.correlated[k].metric} = {m, n}
                              /\ i.correlated[k].strength >= MinCorrelation}} : i \in in.incidents}
Strengths(in, m, n) == {x[1].correlated[x[2]].strength : x \in Measured(in, m, n)}

(* An edge counts each of its observations: how often a policy or a dataset *)
(* names a metric, how often an incident cites one, and how many incidents  *)
(* measured a pair of metrics, whichever of the two each was raised on, in  *)
(* one edge per pair between the weakest and the strongest of the           *)
(* measurements (business_graph.py:937, 1024).                              *)
ObservationsAddUp ==
  Answered("derive") =>
    LET in == call.in
        edges == answer[1].edges
        Pair(m, n) == Edge(Node("metric", m), "correlates_with", Node("metric", n))
    IN /\ \A e \in DOMAIN edges : {e[1], e[3]} \subseteq answer[1].nodes
       /\ \A e \in DOMAIN edges : e[2] # "correlates_with" =>
            edges[e].count = Cardinality(Facts(in, e)) /\ edges[e].confidence = 100
       /\ \A e \in DOMAIN edges : e[2] = "correlates_with" =>
            LET m == e[1][2]
                n == e[3][2]
            IN /\ e = Pair(m, n) /\ m < n
               /\ edges[e].count = Cardinality(Measured(in, m, n))
               /\ edges[e].confidence \in Min(Strengths(in, m, n))..Max(Strengths(in, m, n))
       /\ \A i \in in.incidents : \A k \in DOMAIN i.correlated :
            LET m == i.metric
                n == i.correlated[k].metric
            IN i.correlated[k].strength >= MinCorrelation /\ m < n => Pair(m, n) \in DOMAIN edges

-----------------------------------------------------------------------------
(* What the runs check *)

(* Retrieval, from the chunks of a document to the causes that cite them:   *)
(* nothing is lost in chunking, ranking or filtering, and nothing is said   *)
(* that no retrieved chunk says (rag_agent.py:345).                         *)
RetrievalSound ==
  ChunksCoverText /\ AgreedOrderKept /\ DiverseAndFull /\ RelaxedOnlyWhenEmpty /\ CausesAreGrounded

(* What the enterprise knows besides its documents: a collision of policies *)
(* is foreseen exactly where the order of adoption decides, a policy that   *)
(* names the metric comes first, the graph's edges count what was observed  *)
(* and a walk over them says what it left out (policy_validator.py:128,     *)
(* policy_registry.py:130, business_graph.py:274, 1024).                    *)
KnowledgeSound ==
  CollisionsForeseen /\ NamedBeforeSimilar /\ ObservationsAddUp /\ ReachIsHonest

=============================================================================
