----------------------------- MODULE Retrieval -----------------------------
(***************************************************************************)
(* The retrieval stages an investigation's query passes through            *)
(* (agents/rag): chunking, dense search, BM25, reciprocal rank fusion,     *)
(* query expansion, reranking, diversity and business relevance, each from *)
(* a list of candidates to a list of candidates.                           *)
(*                                                                         *)
(* A text is a set of tokens, or a length where only its length matters;   *)
(* embeddings, the vector store and the cross-encoder are external and     *)
(* appear as the scores they give. Scores are in hundredths.               *)
(***************************************************************************)
EXTENDS Basics, Sequences, SequencesExt, FiniteSetsExt

CONSTANTS
  ChunkSize, Overlap,   \* TextChunker.chunk_size and .overlap
  Threshold,            \* RetrievalPipeline.similarity_threshold, hundredths
  RRFK,                 \* rrf_k
  DuplicateAt,          \* EvidenceDiversityFilter.similarity_threshold, hundredths
  MaxPerDocument,       \* .max_chunks_per_document
  SectionWindow,        \* .section_window
  EntityBonus, MaxEntityBonus, DocTypeBonus, RecencyBonus

ASSUME RetrievalAssumption ==
  /\ ChunkSize \in Nat \ {0} /\ Overlap \in 0..(ChunkSize - 1)
  /\ Threshold \in 1..100 /\ RRFK \in Nat
  /\ DuplicateAt \in 1..100 /\ MaxPerDocument \in Nat \ {0} /\ SectionWindow \in Nat
  /\ {EntityBonus, MaxEntityBonus, DocTypeBonus, RecencyBonus} \subseteq 0..100

TopOf(list, k) == SubSeq(list, 1, Min({k, Len(list)}))

-----------------------------------------------------------------------------
(* Chunking *)

(* _split_sentence: which sentences each chunk gets. Each counts one more   *)
(* for the space after it.                                                  *)
SplitStep(lengths, acc, i) ==
  IF acc.len + lengths[i] > ChunkSize /\ acc.parts # <<>>
  THEN [done |-> Append(acc.done, acc.parts), parts |-> <<i>>, len |-> lengths[i] + 1]
  ELSE [acc EXCEPT !.parts = Append(@, i), !.len = @ + lengths[i] + 1]

(* Mutant: the sentence that does not fit is not carried to the next chunk. *)
SentencesDropping(lengths) ==
  LET Step(acc, i) ==
        IF acc.len + lengths[i] > ChunkSize /\ acc.parts # <<>>
        THEN [done |-> Append(acc.done, acc.parts), parts |-> <<>>, len |-> 0]
        ELSE [acc EXCEPT !.parts = Append(@, i), !.len = @ + lengths[i] + 1]
      end == FoldLeft(Step, [done |-> <<>>, parts |-> <<>>, len |-> 0],
                      [i \in DOMAIN lengths |-> i])
  IN IF end.parts = <<>> THEN end.done ELSE Append(end.done, end.parts)

SentencesOfChunks(lengths) ==
  LET end == FoldLeft(LAMBDA acc, i : SplitStep(lengths, acc, i),
                      [done |-> <<>>, parts |-> <<>>, len |-> 0], [i \in DOMAIN lengths |-> i])
  IN IF end.parts = <<>> THEN end.done ELSE Append(end.done, end.parts)

(* The length of sentences joined by spaces.                                *)
JoinedLength(lengths, parts) ==
  FoldLeft(LAMBDA n, i : n + lengths[i], 0, parts) + Len(parts) - 1

(* _compute_overlap_tail: how many characters of these sentences are        *)
(* repeated, a space included. The last Overlap of them, moved to where a   *)
(* word begins: snaps says by how many, at the end of each sentence.        *)
OverlapTail(in, parts) ==
  IF Overlap = 0 THEN 0
  ELSE Min({JoinedLength(in.lengths, parts), Overlap + in.snaps[parts[Len(parts)]]}) + 1

(* What is repeated of the chunk before is put in front and not counted.    *)
SplitSentence(in) ==
  LET own == SentencesOfChunks(in.lengths)
  IN [c \in DOMAIN own |-> [parts |-> own[c],
                            tail |-> IF c = 1 THEN 0 ELSE OverlapTail(in, own[c - 1])]]

(* _split_paragraph: as for sentences, but the blank lines put between the  *)
(* paragraphs of a chunk are not counted.                                   *)
SplitParagraph(lengths) ==
  LET Step(acc, i) ==
        IF acc.len + lengths[i] > ChunkSize /\ acc.parts # <<>>
        THEN [done |-> Append(acc.done, acc.parts), parts |-> <<i>>, len |-> lengths[i]]
        ELSE [acc EXCEPT !.parts = Append(@, i), !.len = @ + lengths[i]]
      end == FoldLeft(Step, [done |-> <<>>, parts |-> <<>>, len |-> 0],
                      [i \in DOMAIN lengths |-> i])
  IN IF end.parts = <<>> THEN end.done ELSE Append(end.done, end.parts)

(* _split_fixed: the spans of characters of a text of n characters.         *)
SplitFixed(n) ==
  LET step == ChunkSize - Overlap
      count == (n + step - 1) \div step
  IN [i \in 1..count |-> ((i - 1) * step + 1)..Min({(i - 1) * step + ChunkSize, n})]

(* _make_chunk_id: the document's key, the chunk's place and its opening,   *)
(* under the digest's identity. The key is the first identifier there is.   *)
ChunkId(meta, index, opening) ==
  LET keys == Keeping(<<meta.incident_id, meta.doc_id, meta.source>>, LAMBDA k : k # "")
  IN <<IF keys = <<>> THEN "all metadata" ELSE keys[1], index, opening>>

(* ingest_document: the points of a document in the vector store, by chunk; *)
(* nothing without its required metadata or without text.                   *)
IngestDocument(store, doc) ==
  LET ids == [i \in DOMAIN doc.openings |-> ChunkId(doc.meta, i - 1, doc.openings[i])]
      points == [id \in ToSet(ids) |-> doc.name]
  IN IF doc.complete THEN [store |-> points @@ store, ids |-> ids]
     ELSE [store |-> store, ids |-> <<>>]

-----------------------------------------------------------------------------
(* Searching *)

(* RetrievalPipeline.search: the best k points that match every criterion,  *)
(* at or above the threshold and at most 1.                                 *)
DenseSearch(points, criteria, k) ==
  LET Matches(p) == \A label \in DOMAIN criteria :
                      label \in DOMAIN p.meta /\ p.meta[label] = criteria[label]
      hits == Keeping(points, LAMBDA p : Matches(p) /\ p.similarity >= Threshold)
  IN Keeping(TopOf(Ranking(hits, LAMBDA p, q : p.similarity > q.similarity), k),
               LAMBDA p : p.similarity <= 100)

(* BM25Index.search: documents that share a term with the query, by score;  *)
(* the score itself is external. No criterion is looked at.                 *)
BM25Search(index, terms, k) ==
  TopOf(Ranking(Keeping(index, LAMBDA d : d.tokens \cap terms # {}),
               LAMBDA d, e : d.bm25 > e.bm25), k)

(* Mutant: places do not count, only how often a candidate is found.        *)
RRFScoreByCount(lists, id) ==
  <<Cardinality({l \in DOMAIN lists : \E i \in DOMAIN lists[l] : lists[l][i].id = id}), RRFK + 1>>

(* A candidate's fused score: 1 / (k + rank) over every place it is found   *)
(* at.                                                                      *)
PlaceStep(list, id, score, i) ==
  IF list[i].id = id THEN Plus(score, <<1, RRFK + i>>) ELSE score

RRFScore(lists, id) ==
  FoldLeft(LAMBDA sum, list : FoldLeft(LAMBDA score, i : PlaceStep(list, id, score, i),
                                       sum, [i \in DOMAIN list |-> i]),
           <<0, 1>>, lists)

(* reciprocal_rank_fusion: by fused score, then by identifier, both falling.*)
(* An entry is the first one met, with the names of the lists it is in.     *)
Fuse(lists) ==
  LET all == FlattenSeq(lists)
      ids == {all[i].id : i \in DOMAIN all}
      First(id) == all[Min({i \in DOMAIN all : all[i].id = id})]
      Entry(id) == [First(id) EXCEPT !.found_by =
                      {l \in DOMAIN lists : \E i \in DOMAIN lists[l] : lists[l][i].id = id}]
      Before(x, y) == \/ Below(RRFScore(lists, y), RRFScore(lists, x))
                      \/ Equals(RRFScore(lists, y), RRFScore(lists, x)) /\ x > y
      order == InOrder(ids, {p \in ids \X ids : Before(p[1], p[2])})
  IN [i \in DOMAIN order |-> Entry(order[i])]

(* HybridRetrievalPipeline.search: only the dense list is filtered.         *)
HybridSearch(points, index, criteria, terms, k) ==
  LET candidates == Max({4 * k, 20})
  IN TopOf(Fuse(<<DenseSearch(points, criteria, candidates),
                  BM25Search(index, terms, candidates)>>), k)

(* QueryExpansionAgent.expand: the question itself, and up to count - 1     *)
(* different variants; an unusable answer is no variant.                    *)
ExpandQuery(question, answer, count) ==
  LET Step(queries, q) == IF q \in ToSet(queries) \/ q = "" \/ Len(queries) = count
                          THEN queries ELSE Append(queries, q)
  IN IF count <= 1 THEN <<question>> ELSE FoldLeft(Step, <<question>>, answer)

(* MultiQueryRetrievalPipeline.search: every variant of the question is     *)
(* searched with more candidates than wanted, and the lists are fused.      *)
MultiQuerySearch(points, queries, criteria, k) ==
  TopOf(Fuse([i \in DOMAIN queries |->
                HybridSearch(points, points, criteria, {queries[i]}, Max({3 * k, 15}))]), k)

(* RerankingRetrievalPipeline.search: the cross-encoder's order, or the one *)
(* the candidates came in where it fails.                                   *)
Rerank(candidates, scores, fails, k) ==
  IF fails THEN TopOf(candidates, k)
  ELSE TopOf(Ranking(candidates, LAMBDA c, d : \/ scores[c.id] > scores[d.id]
                                               \/ scores[c.id] = scores[d.id] /\ c.id > d.id), k)

-----------------------------------------------------------------------------
(* Diversity *)

(* jaccard_similarity at or above the threshold.                            *)
NearDuplicates(c, d) ==
  LET union == c.tokens \cup d.tokens
  IN union # {} /\ 100 * Cardinality(c.tokens \cap d.tokens) >= DuplicateAt * Cardinality(union)

DuplicateOf(c, kept) == \E i \in DOMAIN kept : NearDuplicates(c, kept[i])

(* _try_keep with its preferences: not too many chunks of one document, and *)
(* none next to a kept one. Chunks without a document are exempt.           *)
Preferred(c, kept) ==
  LET same == {i \in DOMAIN kept : kept[i].doc # "" /\ kept[i].doc = c.doc}
  IN /\ Cardinality(same) < MaxPerDocument
     /\ \A i \in same : kept[i].index - c.index \notin (-SectionWindow)..SectionWindow

(* Mutant: what was passed over for a preference may be a duplicate.        *)
BackfillUnchecked(kept, rest, k) ==
  FoldLeft(LAMBDA acc, c : IF Len(acc) >= k THEN acc ELSE Append(acc, c), kept, rest)

(* The second pass: free places go to passed-over candidates in order, near *)
(* duplicates still excluded.                                               *)
BackfillStep(k, acc, c) ==
  IF Len(acc) >= k \/ DuplicateOf(c, acc) THEN acc ELSE Append(acc, c)

Backfill(kept, rest, k) == FoldLeft(LAMBDA acc, c : BackfillStep(k, acc, c), kept, rest)

(* EvidenceDiversityFilter.filter *)
KeepStep(k, acc, c) ==
  IF Len(acc.kept) < k /\ ~DuplicateOf(c, acc.kept) /\ Preferred(c, acc.kept)
  THEN [acc EXCEPT !.kept = Append(@, c)]
  ELSE [acc EXCEPT !.rest = Append(@, c)]

DiversityFilter(candidates, k) ==
  LET first == FoldLeft(LAMBDA acc, c : KeepStep(k, acc, c), [kept |-> <<>>, rest |-> <<>>],
                        candidates)
  IN Backfill(first.kept, first.rest, k)

-----------------------------------------------------------------------------
(* Business relevance *)

(* to_filter_criteria: the first entity of each label.                      *)
FilterCriteria(entities) ==
  LET labels == {entities[i].label : i \in DOMAIN entities}
  IN [l \in labels |-> Keeping(entities, LAMBDA e : e.label = l)[1].value]

(* BusinessRelevanceScorer.score: the semantic score and the bonuses for    *)
(* the incident's entities, the kind of document and its age, within 0..1.  *)
Relevance(chunk, criteria) ==
  LET matched == {l \in DOMAIN criteria : l \in DOMAIN chunk.meta
                                            /\ chunk.meta[l] = criteria[l]}
      base == Max({0, Min({100, chunk.similarity})})
      bonus == Min({MaxEntityBonus, Cardinality(matched) * EntityBonus})
               + (IF chunk.actionable THEN DocTypeBonus ELSE 0)
               + (IF chunk.recent THEN RecencyBonus ELSE 0)
  IN Max({0, Min({100, base + bonus})})

NoCriteria == [l \in {} |-> ""]

(* The candidates by falling relevance, marked when the filter was dropped. *)
ByRelevance(found, criteria, relaxed, k) ==
  LET scored == [i \in DOMAIN found |->
                   [chunk |-> found[i], relaxed |-> relaxed,
                    score |-> Relevance(found[i], criteria)]]
  IN TopOf(Ranking(scored, LAMBDA x, y : \/ x.score > y.score
                                         \/ x.score = y.score /\ x.chunk.id > y.chunk.id), k)

(* Mutant: the filter is dropped when it leaves too few.                    *)
AdvancedSearchWhenFew(points, queries, criteria, k) ==
  LET wide == Max({2 * k, 10})
      strict == MultiQuerySearch(points, queries, criteria, wide)
      relaxed == Len(strict) < k /\ DOMAIN criteria # {}
  IN ByRelevance(IF relaxed THEN MultiQuerySearch(points, queries, NoCriteria, wide) ELSE strict,
                 criteria, relaxed, k)

(* AdvancedRetrievalPipeline.search over the stages before it, reranking    *)
(* and diversity switched off: where the filter finds nothing it is dropped,*)
(* and what is found is marked.                                             *)
AdvancedSearch(points, queries, criteria, k) ==
  LET wide == Max({2 * k, 10})
      strict == MultiQuerySearch(points, queries, criteria, wide)
      relaxed == strict = <<>> /\ DOMAIN criteria # {}
  IN ByRelevance(IF relaxed THEN MultiQuerySearch(points, queries, NoCriteria, wide) ELSE strict,
                 criteria, relaxed, k)

=============================================================================
