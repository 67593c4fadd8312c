----------------------------- MODULE LLMService -----------------------------
(***************************************************************************)
(* The one client of the language model (services/llm_service.py): threads *)
(* query it, each query tries the provider up to three times, and a breaker*)
(* all of them share refuses queries after three failed ones.              *)
(*                                                                         *)
(* A query runs its coroutine in an event loop of its own, so queries are  *)
(* threads. None of the breaker's fields is guarded by a lock: a step reads*)
(* or writes one of them, the time of the last failure going with the      *)
(* failure. Time is what the breaker tells apart: whether its timeout has  *)
(* passed since the last failure.                                          *)
(***************************************************************************)
EXTENDS Integers

CONSTANTS
  Threads,      \* threads that query
  MaxQueries    \* bound: queries that are begun

ASSUME LLMAssumption == MaxQueries \in Nat

MaxTries == 3          \* max_retries
FailuresToOpen == 3

VARIABLES
  circuitOpen, failureCount,  \* the shared fields
  cooled,       \* has _circuit_timeout passed since _last_failure_time?
  query,        \* thread -> its query, or Unasked
  failedInRow,  \* history: queries that failed since a try was last answered or the
                \* breaker closed
  failedQueries,\* history: queries that failed since one succeeded or the breaker closed
  mingled,      \* history: two queries were under way at once
  queries

llmVars == <<circuitOpen, failureCount, cooled, query, failedInRow, failedQueries, mingled,
             queries>>

Unasked == [at |-> "unasked"]

LLMInit ==
  /\ circuitOpen = FALSE /\ failureCount = 0 /\ cooled = TRUE
  /\ query = [t \in Threads |-> Unasked]
  /\ failedInRow = 0 /\ failedQueries = 0 /\ mingled = FALSE /\ queries = 0

FirstTry == [at |-> "try", try |-> 1]

(* generate begins with _check_circuit: an open breaker refuses until its   *)
(* time has passed.                                                         *)
Generate(t) ==
  /\ query[t] = Unasked /\ queries < MaxQueries
  /\ queries' = queries + 1
  /\ mingled' = (mingled \/ \E u \in Threads : query[u] # Unasked)
  /\ \/ circuitOpen /\ ~cooled /\ UNCHANGED query
     \/ circuitOpen /\ cooled /\ query' = [query EXCEPT ![t] = [at |-> "closing"]]
     \/ ~circuitOpen /\ query' = [query EXCEPT ![t] = FirstTry]
  /\ UNCHANGED <<circuitOpen, failureCount, cooled, failedInRow, failedQueries>>

(* Then it closes for everyone, and the count starts again.                 *)
ClosesCircuit(t) ==
  /\ query[t].at = "closing"
  /\ circuitOpen' = FALSE /\ failedInRow' = 0 /\ failedQueries' = 0
  /\ query' = [query EXCEPT ![t] = [at |-> "zeroing"]]
  /\ UNCHANGED <<failureCount, cooled, mingled, queries>>

ForgetsFailures(t) ==
  /\ query[t].at = "zeroing"
  /\ failureCount' = 0
  /\ query' = [query EXCEPT ![t] = FirstTry]
  /\ UNCHANGED <<circuitOpen, cooled, failedInRow, failedQueries, mingled, queries>>

(* Mutant: an answer does not start the count again.                        *)
ProviderAnswersKeepingCount(t) ==
  /\ query[t].at = "try"
  /\ failedInRow' = 0 /\ failedQueries' = 0
  /\ query' = [query EXCEPT ![t] = Unasked]
  /\ UNCHANGED <<circuitOpen, failureCount, cooled, mingled, queries>>

(* The provider answers: the count starts again, an open breaker stays open.*)
ProviderAnswers(t) ==
  /\ query[t].at = "try"
  /\ failureCount' = 0 /\ failedInRow' = 0 /\ failedQueries' = 0
  /\ query' = [query EXCEPT ![t] = Unasked]
  /\ UNCHANGED <<circuitOpen, cooled, mingled, queries>>

NextTry(t) == IF query[t].try < MaxTries THEN [query EXCEPT ![t].try = @ + 1]
              ELSE [query EXCEPT ![t] = [at |-> "failed"]]

(* It answers without a choice to read: the count has started again before  *)
(* that raises, and the try has failed.                                     *)
ProviderAnswersUnusably(t) ==
  /\ query[t].at = "try"
  /\ failureCount' = 0 /\ failedInRow' = 0
  /\ query' = NextTry(t)
  /\ UNCHANGED <<circuitOpen, cooled, failedQueries, mingled, queries>>

(* The provider fails: a passing error is tried again after a pause, up to  *)
(* three times, a permanent one never (_is_permanent_error).                *)
ProviderFails(t) ==
  /\ query[t].at = "try"
  /\ query' = NextTry(t) \/ query' = [query EXCEPT ![t] = [at |-> "failed"]]
  /\ UNCHANGED <<circuitOpen, failureCount, cooled, failedInRow, failedQueries, mingled, queries>>

(* _record_failure: the count is read ...                                   *)
ReadsFailures(t) ==
  /\ query[t].at = "failed"
  /\ query' = [query EXCEPT ![t] = [at |-> "record", count |-> failureCount + 1]]
  /\ UNCHANGED <<circuitOpen, failureCount, cooled, failedInRow, failedQueries, mingled, queries>>

(* ... and written, with the time, ...                                      *)
RecordsFailure(t) ==
  /\ query[t].at = "record"
  /\ failureCount' = query[t].count
  /\ cooled' = FALSE
  /\ query' = [query EXCEPT ![t] = [at |-> "compare"]]
  /\ UNCHANGED <<circuitOpen, failedInRow, failedQueries, mingled, queries>>

(* ... and what it is by now opens the breaker at the third.                *)
ComparesFailures(t) ==
  /\ query[t].at = "compare"
  /\ circuitOpen' = (circuitOpen \/ failureCount >= FailuresToOpen)
  /\ failedInRow' = failedInRow + 1 /\ failedQueries' = failedQueries + 1
  /\ query' = [query EXCEPT ![t] = Unasked]
  /\ UNCHANGED <<failureCount, cooled, mingled, queries>>

TimeoutPasses ==
  /\ cooled' = TRUE
  /\ UNCHANGED <<circuitOpen, failureCount, query, failedInRow, failedQueries, mingled, queries>>

LLMNext ==
  \/ TimeoutPasses
  \/ \E t \in Threads :
        \/ Generate(t) \/ ClosesCircuit(t) \/ ForgetsFailures(t)
        \/ ProviderAnswers(t) \/ ProviderAnswersUnusably(t) \/ ProviderFails(t)
        \/ ReadsFailures(t) \/ RecordsFailure(t) \/ ComparesFailures(t)

LLMSpec == LLMInit /\ [][LLMNext]_llmVars

-----------------------------------------------------------------------------
(* Properties *)

(* Queries that do not overlap open the breaker exactly with the third that *)
(* failed since the provider last answered a try or the breaker closed;     *)
(* tries of one query count once. When they do overlap, counts may be lost, *)
(* but unless a query is just recording a failure or closing the breaker,   *)
(* three counted failures find it open (llm_service.py:85, 94, 169).        *)
BreakerFollowsFailures ==
  /\ ~mingled => (circuitOpen <=> failedInRow >= FailuresToOpen)
  /\ failureCount >= FailuresToOpen =>
       circuitOpen \/ \E t \in Threads : query[t].at \in {"compare", "zeroing"}

(* INTERVIEW_QA.md:323: a breaker "with a failure count and a timeout",     *)
(* reset by success: of queries one after the other, the third that failed  *)
(* in a row would find it open. It does not: an answer without a choice     *)
(* resets the count before it fails the query (llm_service.py:169-173).     *)
ThirdFailureOpens == ~mingled /\ failedQueries >= FailuresToOpen => circuitOpen

=============================================================================
