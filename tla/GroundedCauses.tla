-------------------------- MODULE GroundedCauses --------------------------
(***************************************************************************)
(* The RAG agent (agents/rag/rag_agent.py) with its response validator     *)
(* (response_validator.py) and the choice of a cause (cause_quality.py):   *)
(* one investigation from retrieved chunks and the language model's answer *)
(* to grounded causes, over the attempts an incident may make.             *)
(*                                                                         *)
(* Search and language model are external: a search is a sequence of chunk *)
(* identifiers or Broken, an answer a parsed object, an unusable text or   *)
(* Broken. Confidences are in hundredths.                                  *)
(***************************************************************************)
EXTENDS Basics, Sequences, SequencesExt, FiniteSetsExt

CONSTANTS
  MaxQueryAttempts,   \* _MAX_QUERY_ATTEMPTS
  RAGTopK,            \* RAGAgent.top_k
  MinCauseWords,      \* MIN_ROOT_CAUSE_WORDS
  VagueCauses         \* _VAGUE_ROOT_CAUSES

(* The strategies of _formulate_query_variant: the whole description, the   *)
(* description without the incident's metadata, and the broad category.     *)
Strategies == <<"original", "rewritten", "broadened">>

ASSUME GroundedCausesAssumption ==
  /\ MaxQueryAttempts \in 1..Len(Strategies) /\ RAGTopK \in Nat \ {0}
  /\ MinCauseWords \in Nat

Broken == <<"broken">>

-----------------------------------------------------------------------------
(* Reading an answer *)

(* parse_llm_json: the first reading of the text that is an object: as it   *)
(* stands, in a code fence, between the outer braces; each also after       *)
(* repairing quotes, trailing commas and Python literals. A reading is      *)
(* <<object>> or <<>>.                                                      *)
ParseJson(readings) ==
  LET objects == Keeping(readings, LAMBDA r : r # <<>>)
  IN IF objects = <<>> THEN <<>> ELSE objects[1]

InUnit(c) == c \in 0..100

(* Mutant: any known identifier will do for one cause of several.           *)
ValidLooseCauses(causes, chunks) ==
  /\ \E i \in DOMAIN causes : causes[i].chunk \in chunks
  /\ \A i \in DOMAIN causes : InUnit(causes[i].confidence) /\ ~causes[i].external

(* _validate_cause_entry for every cause: it cites a retrieved chunk, its   *)
(* confidence is within 0..1 and it names no outside source.                *)
ValidCauses(causes, chunks) ==
  \A i \in DOMAIN causes :
    /\ causes[i].chunk \in chunks
    /\ InUnit(causes[i].confidence) /\ ~causes[i].external

(* RAGResponseValidator.validate: all keys, at least one cause, every cause *)
(* valid, an overall confidence within 0..1 and a Boolean for review.       *)
ValidAnswer(answer, chunks) ==
  /\ answer.complete /\ answer.causes # <<>>
  /\ ValidCauses(answer.causes, chunks)
  /\ InUnit(answer.overall) /\ answer.review \in BOOLEAN

-----------------------------------------------------------------------------
(* The choice of a cause *)

(* is_meaningful_root_cause: long enough, and not one of the vague words    *)
(* once punctuation and case are gone.                                      *)
Meaningful(cause) == cause.words >= MinCauseWords /\ cause.bare \notin VagueCauses

(* best_meaningful_cause: the first that is meaningful.                     *)
BestMeaningful(causes) ==
  LET good == Keeping(causes, Meaningful) IN IF good = <<>> THEN <<>> ELSE <<good[1]>>

-----------------------------------------------------------------------------
(* An investigation *)

(* _error_result, _no_context_result and _exhausted_result: a result        *)
(* without causes asks for a human.                                         *)
NoResult(why, strategy, retrieved) ==
  [causes |-> <<>>, overall |-> 0, review |-> TRUE, passed |-> FALSE,
   why |-> why, strategy |-> strategy, retrieved |-> retrieved]

(* Mutant: attempts that found something count as well.                     *)
ExhaustedByCount(prior) == Len(prior) >= MaxQueryAttempts

(* No further search: as many attempts as there are variants, none of which *)
(* retrieved anything.                                                      *)
Exhausted(prior) ==
  Len(prior) >= MaxQueryAttempts /\ \A i \in DOMAIN prior : prior[i].retrieved = 0

(* _extract_prior_rag_attempts: the findings that were searches.            *)
PriorAttempts(findings) == Keeping(findings, LAMBDA f : f.strategy # "exhausted")

(* Mutant: the same question again.                                         *)
RepeatedStrategy(prior) == Strategies[1]

(* The variant of the next attempt; the last one is repeated.               *)
NextStrategy(prior) == Strategies[Min({Len(prior) + 1, MaxQueryAttempts})]

(* RAGAgent.investigate: one search and one answer, or an early end.        *)
Investigate(findings, search, answer) ==
  LET prior == PriorAttempts(findings)
      strategy == NextStrategy(prior)
      chunks == IF search = Broken THEN <<>> ELSE SubSeq(search, 1, Min({RAGTopK, Len(search)}))
      Fail(why) == NoResult(why, strategy, Len(chunks))
  IN CASE Exhausted(prior) -> NoResult("exhausted", "exhausted", 0)
       [] ~Exhausted(prior) /\ search = Broken -> Fail("retrieval_failed")
       [] ~Exhausted(prior) /\ search = <<>> -> Fail("no_context")
       [] OTHER ->
            CASE answer.is \in {"broken", "unsafe", "unparsable"} -> Fail(answer.is)
              [] OTHER ->
                   IF ~ValidAnswer(answer, ToSet(chunks)) THEN Fail("invalid")
                   ELSE [causes |-> answer.causes, overall |-> answer.overall,
                         review |-> answer.review, passed |-> TRUE, why |-> "none",
                         strategy |-> strategy, retrieved |-> Len(chunks)]

(* The investigations of one incident, each seeing the findings before it.  *)
Attempts(outcomes) ==
  FoldLeft(LAMBDA done, o : Append(done, Investigate(done, o.search, o.answer)),
           <<>>, outcomes)

=============================================================================
