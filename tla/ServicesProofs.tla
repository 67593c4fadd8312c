--------------------------- MODULE ServicesProofs ---------------------------
(***************************************************************************)
(* What the services beside the investigation promise, for any threads,    *)
(* instances, deliveries and requests, and what people decide about what   *)
(* the system knows: the calibration in force, the verdicts on proposals   *)
(* and rules, the memory of incidents and the business graph. Each has an  *)
(* invariant of its own, inductive for its steps alone; the services share *)
(* no state, and the theorems put together what holds of each.             *)
(***************************************************************************)
EXTENDS Services, FiniteSetTheorems, SequenceTheorems, WellFoundedInduction, TLAPS

-----------------------------------------------------------------------------
(* The breaker of the language model *)

Query ==
  [at : {"unasked", "closing", "zeroing", "failed", "compare"}]
  \cup [at : {"try"}, try : 1..MaxTries]
  \cup [at : {"record"}, count : Nat]

LLMTypes ==
  /\ circuitOpen \in BOOLEAN /\ mingled \in BOOLEAN
  /\ failureCount \in Nat /\ failedInRow \in Nat
  /\ query \in [Threads -> Query]

(* As long as queries do not overlap, one thread at most queries, nobody    *)
(* tries while the breaker is open, and the count is the failures in a row, *)
(* but for the query that is just writing the one or the other.             *)
OneByOne ==
  ~mingled =>
    /\ \A t, u \in Threads : query[t] # Unasked /\ query[u] # Unasked => t = u
    /\ circuitOpen <=> failedInRow >= FailuresToOpen
    /\ (\A t \in Threads : query[t].at \notin {"compare", "zeroing"}) => failureCount = failedInRow
    /\ \A t \in Threads :
         /\ circuitOpen => query[t].at \in {"unasked", "closing"}
         /\ query[t].at = "record" => query[t].count = failureCount + 1
         /\ query[t].at = "compare" => failureCount = failedInRow + 1
         /\ query[t].at = "zeroing" => failedInRow = 0

(* Three counted failures find the breaker open, or soon to be written.     *)
CountIsHeeded ==
  failureCount >= FailuresToOpen =>
    circuitOpen \/ \E t \in Threads : query[t].at \in {"compare", "zeroing"}

LLMInvariant == LLMTypes /\ OneByOne /\ CountIsHeeded

LEMMA Queries == /\ Unasked \in Query /\ Unasked.at = "unasked"
                 /\ FirstTry \in Query /\ FirstTry.at = "try"
                 /\ \A w \in {"closing", "zeroing", "failed", "compare"} : [at |-> w] \in Query
                 /\ \A n \in Nat : [at |-> "record", count |-> n] \in Query
  BY DEF Unasked, FirstTry, Query, MaxTries

LEMMA InitLLM == LLMInit => LLMInvariant
<1> SUFFICES ASSUME LLMInit PROVE LLMInvariant
  OBVIOUS
<1>1. /\ circuitOpen = FALSE /\ mingled = FALSE /\ failureCount = 0 /\ failedInRow = 0
      /\ query = [t \in Threads |-> Unasked]
  BY DEF LLMInit
<1>2. ~circuitOpen /\ circuitOpen \in BOOLEAN /\ mingled \in BOOLEAN BY <1>1
<1>3. \A t \in Threads : query[t] = Unasked BY <1>1
<1>4. LLMTypes BY <1>1, <1>2, Queries DEF LLMTypes
<1>5. OneByOne BY <1>1, <1>2, <1>3, Queries DEF OneByOne, FailuresToOpen
<1>6. CountIsHeeded BY <1>1 DEF CountIsHeeded, FailuresToOpen
<1> QED BY <1>4, <1>5, <1>6 DEF LLMInvariant

(* A try that is not the last is followed by another, or by the failure.    *)
LEMMA TriesOn ==
  ASSUME LLMTypes, NEW t \in Threads, query[t].at = "try",
         query' = NextTry(t) \/ query' = [query EXCEPT ![t] = [at |-> "failed"]]
  PROVE  \E q \in Query : query' = [query EXCEPT ![t] = q] /\ q.at \in {"try", "failed"}
<1>1. query[t] \in [at : {"try"}, try : 1..MaxTries] BY DEF LLMTypes, Query
<1>2. CASE query[t].try < MaxTries /\ query' = [query EXCEPT ![t].try = @ + 1]
  <2>1. [query[t] EXCEPT !.try = @ + 1] \in [at : {"try"}, try : 1..MaxTries]
    BY <1>1, <1>2 DEF MaxTries
  <2> QED BY <1>2, <2>1 DEF Query
<1>3. CASE query' = [query EXCEPT ![t] = [at |-> "failed"]]
  BY <1>3, Queries
<1> QED BY <1>2, <1>3 DEF NextTry

LEMMA StepLLM == LLMInvariant /\ [LLMNext]_llmVars => LLMInvariant'
<1> SUFFICES ASSUME LLMInvariant, [LLMNext]_llmVars PROVE LLMInvariant'
  OBVIOUS
<1> USE DEF LLMInvariant
<1>0. /\ LLMTypes /\ query \in [Threads -> Query] BY DEF LLMTypes
<1>1. CASE UNCHANGED llmVars
  BY <1>1 DEF llmVars, LLMTypes, OneByOne, CountIsHeeded
<1>2. CASE TimeoutPasses
  BY <1>2 DEF TimeoutPasses, LLMTypes, OneByOne, CountIsHeeded
<1>3. ASSUME NEW t \in Threads, Generate(t) PROVE LLMInvariant'
  <2>1. PICK q \in Query :
          /\ query' = [query EXCEPT ![t] = q] /\ q.at \in {"unasked", "closing", "try"}
          /\ circuitOpen => q.at \in {"unasked", "closing"}
    <3>1. CASE circuitOpen /\ cooled /\ query' = [query EXCEPT ![t] = [at |-> "closing"]]
      BY <3>1, Queries
    <3>2. CASE ~circuitOpen /\ query' = [query EXCEPT ![t] = FirstTry]
      BY <3>2, Queries
    <3>3. CASE UNCHANGED query
      <4>1. query' = [query EXCEPT ![t] = Unasked] BY <1>0, <1>3, <3>3 DEF Generate
      <4> QED BY <4>1, Queries
    <3> QED BY <1>3, <3>1, <3>2, <3>3 DEF Generate
  <2>2. /\ query[t] = Unasked /\ UNCHANGED <<circuitOpen, failureCount, failedInRow>>
        /\ mingled' = (mingled \/ \E u \in Threads : query[u] # Unasked)
    BY <1>3 DEF Generate
  <2>3. ASSUME ~mingled' PROVE ~mingled /\ \A u \in Threads : query[u] = Unasked
    BY <2>2, <2>3
  <2>4. mingled' \in BOOLEAN BY <2>2, Zenon
  <2>5. LLMTypes' BY <2>1, <2>2, <2>4 DEF LLMTypes
  <2>6. query'[t] = q /\ \A u \in Threads : u # t => query'[u] = query[u] BY <1>0, <2>1
  <2>7. OneByOne' BY <2>1, <2>2, <2>3, <2>6, Queries DEF OneByOne
  <2>8. CountIsHeeded' BY <2>2, <2>6, Queries DEF CountIsHeeded
  <2> QED BY <2>5, <2>7, <2>8
<1>4. ASSUME NEW t \in Threads, ClosesCircuit(t) PROVE LLMInvariant'
  <2>1. /\ query[t].at = "closing" /\ circuitOpen' = FALSE /\ failedInRow' = 0
        /\ query' = [query EXCEPT ![t] = [at |-> "zeroing"]]
        /\ UNCHANGED <<failureCount, mingled>>
    BY <1>4 DEF ClosesCircuit
  <2>2. /\ query'[t] = [at |-> "zeroing"] /\ query'[t].at = "zeroing"
        /\ \A u \in Threads : u # t => query'[u] = query[u]
    BY <1>0, <2>1
  <2>3. query[t] # Unasked BY <2>1, Queries
  <2>4. LLMTypes' BY <2>1, Queries DEF LLMTypes
  <2>5. OneByOne' BY <2>1, <2>2, <2>3, Queries DEF OneByOne, FailuresToOpen
  <2>6. CountIsHeeded' BY <2>2 DEF CountIsHeeded
  <2> QED BY <2>4, <2>5, <2>6
<1>5. ASSUME NEW t \in Threads, ForgetsFailures(t) PROVE LLMInvariant'
  <2>1. /\ query[t].at = "zeroing" /\ failureCount' = 0
        /\ query' = [query EXCEPT ![t] = FirstTry]
        /\ UNCHANGED <<circuitOpen, failedInRow, mingled>>
    BY <1>5 DEF ForgetsFailures
  <2>2. query'[t].at = "try" /\ \A u \in Threads : u # t => query'[u] = query[u]
    BY <1>0, <2>1, Queries
  <2>3. query[t] # Unasked BY <2>1, Queries
  <2>4. LLMTypes' BY <2>1, Queries DEF LLMTypes
  <2>5. OneByOne' BY <2>1, <2>2, <2>3, Queries DEF OneByOne, FailuresToOpen
  <2>6. CountIsHeeded' BY <2>1 DEF CountIsHeeded, FailuresToOpen
  <2> QED BY <2>4, <2>5, <2>6
<1>6. ASSUME NEW t \in Threads, ProviderAnswers(t) \/ ProviderAnswersUnusably(t)
      PROVE  LLMInvariant'
  <2>1. /\ query[t].at = "try" /\ failureCount' = 0 /\ failedInRow' = 0
        /\ UNCHANGED <<circuitOpen, mingled>>
    BY <1>6 DEF ProviderAnswers, ProviderAnswersUnusably
  <2>2. PICK q \in Query : query' = [query EXCEPT ![t] = q] /\ q.at \in {"unasked", "try", "failed"}
    <3>1. CASE ProviderAnswers(t) BY <3>1, Queries DEF ProviderAnswers
    <3>2. CASE ProviderAnswersUnusably(t)
      BY <1>0, <2>1, <3>2, TriesOn DEF ProviderAnswersUnusably
    <3> QED BY <1>6, <3>1, <3>2
  <2>3. query'[t] = q /\ \A u \in Threads : u # t => query'[u] = query[u] BY <1>0, <2>2
  <2>4. query[t] # Unasked BY <2>1, Queries
  <2>5. LLMTypes' BY <2>1, <2>2 DEF LLMTypes
  <2>6. OneByOne' BY <2>1, <2>2, <2>3, <2>4, Queries DEF OneByOne, FailuresToOpen
  <2>7. CountIsHeeded' BY <2>1 DEF CountIsHeeded, FailuresToOpen
  <2> QED BY <2>5, <2>6, <2>7
<1>7. ASSUME NEW t \in Threads, ProviderFails(t) \/ ReadsFailures(t) PROVE LLMInvariant'
  <2>1. PICK q \in Query : /\ query' = [query EXCEPT ![t] = q]
                           /\ q.at \in {"try", "failed", "record"}
                           /\ q.at = "record" => q.count = failureCount + 1
    <3>1. CASE ProviderFails(t) BY <1>0, <3>1, TriesOn DEF ProviderFails
    <3>2. CASE ReadsFailures(t)
      <4>1. failureCount + 1 \in Nat BY DEF LLMTypes
      <4>2. PICK q : q = [at |-> "record", count |-> failureCount + 1] OBVIOUS
      <4>3. q \in Query /\ q.at = "record" /\ q.count = failureCount + 1 BY <4>1, <4>2, Queries
      <4> QED BY <3>2, <4>2, <4>3 DEF ReadsFailures
    <3> QED BY <1>7, <3>1, <3>2
  <2>2. /\ query[t].at \in {"try", "failed"}
        /\ UNCHANGED <<circuitOpen, failureCount, failedInRow, mingled>>
    BY <1>7 DEF ProviderFails, ReadsFailures
  <2>3. query'[t] = q /\ \A u \in Threads : u # t => query'[u] = query[u] BY <1>0, <2>1
  <2>4. query[t] # Unasked BY <2>2, Queries
  <2>5. LLMTypes' BY <2>1, <2>2 DEF LLMTypes
  <2>6. OneByOne' BY <2>1, <2>2, <2>3, <2>4, Queries DEF OneByOne
  <2>7. CountIsHeeded' BY <2>2, <2>3 DEF CountIsHeeded
  <2> QED BY <2>5, <2>6, <2>7
<1>8. ASSUME NEW t \in Threads, RecordsFailure(t) PROVE LLMInvariant'
  <2>1. /\ query[t].at = "record" /\ failureCount' = query[t].count
        /\ query' = [query EXCEPT ![t] = [at |-> "compare"]]
        /\ UNCHANGED <<circuitOpen, failedInRow, mingled>>
    BY <1>8 DEF RecordsFailure
  <2>2. query'[t].at = "compare" /\ \A u \in Threads : u # t => query'[u] = query[u]
    BY <1>0, <2>1
  <2>3. query[t] # Unasked /\ query[t].count \in Nat BY <1>0, <2>1, Queries DEF Query
  <2>4. LLMTypes' BY <2>1, <2>3, Queries DEF LLMTypes
  <2>5. OneByOne'
    <3>1. ASSUME ~mingled
          PROVE  ~circuitOpen /\ failureCount' = failureCount + 1 /\ failureCount = failedInRow
      <4>1. \A u \in Threads : query[u].at \notin {"compare", "zeroing"}
        BY <2>1, <2>3, <3>1, Queries DEF OneByOne
      <4> QED BY <2>1, <3>1, <4>1 DEF OneByOne
    <3> QED BY <2>1, <2>2, <2>3, <3>1, Queries DEF OneByOne
  <2>6. CountIsHeeded' BY <2>2 DEF CountIsHeeded
  <2> QED BY <2>4, <2>5, <2>6
<1>9. ASSUME NEW t \in Threads, ComparesFailures(t) PROVE LLMInvariant'
  <2>1. /\ query[t].at = "compare" /\ circuitOpen' = (circuitOpen \/ failureCount >= FailuresToOpen)
        /\ failedInRow' = failedInRow + 1
        /\ query' = [query EXCEPT ![t] = Unasked]
        /\ UNCHANGED <<failureCount, mingled>>
    BY <1>9 DEF ComparesFailures
  <2>2. query'[t] = Unasked /\ \A u \in Threads : u # t => query'[u] = query[u] BY <1>0, <2>1
  <2>3. query[t] # Unasked BY <2>1, Queries
  <2>4. circuitOpen' \in BOOLEAN BY <2>1, Zenon
  <2>5. LLMTypes' BY <2>1, <2>4, Queries DEF LLMTypes
  <2>6. OneByOne'
    <3>1. ASSUME ~mingled
          PROVE  /\ ~circuitOpen /\ failureCount = failedInRow'
                 /\ \A u \in Threads : query'[u] = Unasked
      BY <2>1, <2>2, <2>3, <3>1 DEF OneByOne
    <3> QED BY <2>1, <2>5, <3>1, Queries DEF OneByOne, LLMTypes
  <2>7. CountIsHeeded' BY <2>1 DEF CountIsHeeded
  <2> QED BY <2>5, <2>6, <2>7
<1> QED BY <1>1, <1>2, <1>3, <1>4, <1>5, <1>6, <1>7, <1>8, <1>9 DEF LLMNext

(* Queries that do not overlap open the breaker exactly with the third that *)
(* failed since the provider last answered a try, usably or not, or the     *)
(* breaker last closed; and of queries that do, three counted failures find *)
(* it open once nobody is writing its fields, for any number of threads     *)
(* (llm_service.py:85, 94, 169).                                            *)
THEOREM BreakerIsTrue == LLMSpec => []BreakerFollowsFailures
<1>1. LLMInvariant => BreakerFollowsFailures
  BY DEF LLMInvariant, OneByOne, CountIsHeeded, BreakerFollowsFailures
<1> QED BY InitLLM, StepLLM, <1>1, PTL DEF LLMSpec

-----------------------------------------------------------------------------
(* Deliveries *)

Stages(type) == Registry[type].stages

Calling == DOMAIN Registry \ {"diagnostics", "monitoring"}

Deliveries ==
  {NoDelivery}
  \cup [at : {"handler"}, job : Jobs, attempt : 1..MaxAttempts, stage : Nat]
  \cup [at : {"ended"}, job : Jobs, attempt : 1..MaxAttempts,
        result : {"SUCCESS", "FAILED"}, permanent : BOOLEAN]

(* The provider is asked last, by the handlers that ask one, and only       *)
(* Slack's looks at a payload, between its parameters and its request.      *)
LEMMA RegistryOrder ==
  ASSUME NEW type \in DOMAIN Registry
  PROVE  /\ Len(Stages(type)) \in Nat /\ Len(Stages(type)) >= 1
         /\ \A k \in 1..Len(Stages(type)) :
              /\ Stages(type)[k] = "post" <=> k = Len(Stages(type)) /\ type \in Calling
              /\ Stages(type)[k] = "payload" <=> k = 2 /\ type = "slack"
              /\ Stages(type)[k] = "credentials" => type = "email"
         /\ type = "slack" => /\ Len(Stages(type)) = 3 /\ Stages(type)[1] = "parameters"
                              /\ Registry[type].required = {"message"}
<1>1. type \in {"slack", "email", "sheets", "webhook", "jira", "diagnostics", "monitoring"}
  BY DEF Registry
<1>2. type \in Calling <=> type \notin {"diagnostics", "monitoring"}
  BY DEF Calling
<1>3. CASE type = "slack"
  <2>1. Registry[type] = SendAlert BY <1>3 DEF Registry
  <2>2. Stages(type) = <<"parameters", "payload", "post">> /\ Registry[type].required = {"message"}
    BY <2>1 DEF Stages, SendAlert
  <2>3. Len(Stages(type)) = 3 /\ \A k \in 1..3 : k = 1 \/ k = 2 \/ k = 3
    BY <2>2
  <2> QED BY SMTT(30), <1>2, <1>3, <2>2, <2>3
<1>4. CASE type = "email"
  <2>1. Registry[type] = SendEmail BY <1>4 DEF Registry
  <2>2. Stages(type) = <<"credentials", "token", "parameters", "post">>
    BY <2>1 DEF Stages, SendEmail
  <2>3. Len(Stages(type)) = 4 /\ \A k \in 1..4 : k = 1 \/ k = 2 \/ k = 3 \/ k = 4
    BY <2>2
  <2>4. \A k \in 1..4 : /\ Stages(type)[k] = "post" <=> k = 4
                        /\ Stages(type)[k] # "payload"
                        /\ Stages(type)[k] = "credentials" => type = "email"
    BY <1>4, <2>2, <2>3
  <2>5. Len(Stages(type)) = 4 /\ type \in Calling /\ type # "slack" BY <1>2, <1>4, <2>3
  <2> QED BY <2>4, <2>5
<1>5. CASE type = "sheets"
  <2>1. Registry[type] = AppendRow BY <1>5 DEF Registry
  <2>2. Stages(type) = <<"token", "parameters", "post">>
    BY <2>1 DEF Stages, AppendRow
  <2>3. Len(Stages(type)) = 3 /\ \A k \in 1..3 : k = 1 \/ k = 2 \/ k = 3
    BY <2>2
  <2>4. \A k \in 1..3 : /\ Stages(type)[k] = "post" <=> k = 3
                        /\ Stages(type)[k] # "payload"
                        /\ Stages(type)[k] # "credentials"
    BY <2>2, <2>3
  <2>5. Len(Stages(type)) = 3 /\ type \in Calling /\ type # "slack" BY <1>2, <1>5, <2>3
  <2> QED BY <2>4, <2>5
<1>6. CASE type = "webhook"
  <2>1. Registry[type] = Trigger BY <1>6 DEF Registry
  <2>2. Stages(type) = <<"parameters", "registry", "post">>
    BY <2>1 DEF Stages, Trigger
  <2>3. Len(Stages(type)) = 3 /\ \A k \in 1..3 : k = 1 \/ k = 2 \/ k = 3
    BY <2>2
  <2>4. \A k \in 1..3 : /\ Stages(type)[k] = "post" <=> k = 3
                        /\ Stages(type)[k] # "payload"
                        /\ Stages(type)[k] # "credentials"
    BY <2>2, <2>3
  <2>5. Len(Stages(type)) = 3 /\ type \in Calling /\ type # "slack" BY <1>2, <1>6, <2>3
  <2> QED BY <2>4, <2>5
<1>7. CASE type = "jira"
  <2>1. Registry[type] = CreateTicket BY <1>7 DEF Registry
  <2>2. Stages(type) = <<"parameters", "post">>
    BY <2>1 DEF Stages, CreateTicket
  <2>3. Len(Stages(type)) = 2 /\ \A k \in 1..2 : k = 1 \/ k = 2
    BY <2>2
  <2>4. \A k \in 1..2 : /\ Stages(type)[k] = "post" <=> k = 2
                        /\ Stages(type)[k] # "payload"
                        /\ Stages(type)[k] # "credentials"
    BY <2>2, <2>3
  <2>5. Len(Stages(type)) = 2 /\ type \in Calling /\ type # "slack" BY <1>2, <1>7, <2>3
  <2> QED BY <2>4, <2>5
<1>8. CASE type = "diagnostics"
  <2>1. Registry[type] = Snapshot BY <1>8 DEF Registry
  <2>2. Stages(type) = <<"parameters">>
    BY <2>1 DEF Stages, Snapshot
  <2>3. Len(Stages(type)) = 1 /\ \A k \in 1..1 : k = 1
    BY <2>2
  <2> QED BY <1>2, <1>8, <2>2, <2>3
<1>9. CASE type = "monitoring"
  <2>1. Registry[type] = FlagForMonitoring BY <1>9 DEF Registry
  <2>2. Stages(type) = <<"parameters">>
    BY <2>1 DEF Stages, FlagForMonitoring
  <2>3. Len(Stages(type)) = 1 /\ \A k \in 1..1 : k = 1
    BY <2>2
  <2> QED BY <1>2, <1>9, <2>2, <2>3
<1> QED BY <1>1, <1>3, <1>4, <1>5, <1>6, <1>7, <1>8, <1>9

(* A delivery under way has asked the provider for nothing it was answered, *)
(* and of Slack only with a payload that is allowed; one that is over is    *)
(* what the properties say of it.                                           *)
UnderWay ==
  LET job == delivery.job
  IN delivery.at = "handler" =>
       /\ delivery.stage \in 1..Len(Stages(job.type))
       /\ accepted = unreported
       /\ job.type = "slack" =>
            /\ delivery.stage > 1 => "message" \notin job.blanks
            /\ delivery.stage = 3 \/ accepted > 0 => ValidPayload(BuildPayload(job))

DeliveryInvariant ==
  /\ delivery \in Deliveries /\ accepted \in Nat /\ unreported \in Nat
  /\ delivery = NoDelivery => accepted = 0 /\ unreported = 0
  /\ UnderWay
  /\ DeliverySound

LEMMA InitDelivery == DeliveryInit => DeliveryInvariant
  BY DEF DeliveryInit, DeliveryInvariant, Deliveries, NoDelivery, UnderWay, DeliverySound,
         ReportedAsDone, GivenUpForGood, Over

(* What Slack's rules do not allow is a title that is blank and short.      *)
LEMMA OnlyTheTitle ==
  ASSUME NEW job \in Jobs, "message" \notin job.blanks, ~ValidPayload(BuildPayload(job))
  PROVE  job.title.blank
<1> DEFINE p == BuildPayload(job)
<1>1. /\ p.header = Truncated(job.title, HeaderTextMax)
      /\ p.section = Truncated(job.message, SectionTextMax)
      /\ p.elements > 0
  BY DEF BuildPayload
<1>2. p.section.length <= SectionTextMax /\ p.header.length <= HeaderTextMax
  BY <1>1, DeliveryAssumption DEF Truncated, SectionTextMax, HeaderTextMax
<1>3. ~p.section.blank
  BY <1>1, DeliveryAssumption DEF Truncated
<1>4. p.header.blank
  BY <1>1, <1>2, <1>3 DEF ValidPayload
<1> QED BY <1>1, <1>4 DEF Truncated

(* The forms a step gives the delivery.                                     *)
LEMMA Forms ==
  ASSUME DeliveryInvariant, delivery.at = "handler"
  PROVE  /\ delivery.job \in Jobs /\ delivery.job.type \in DOMAIN Registry
         /\ delivery.attempt \in 1..MaxAttempts /\ delivery.stage \in Nat
         /\ delivery.stage >= 1 /\ delivery.stage <= Len(Stages(delivery.job.type))
         /\ Stages(delivery.job.type) = Handler.stages
         /\ \A result \in {"SUCCESS", "FAILED"}, permanent \in BOOLEAN :
              /\ Ended(result, permanent) \in Deliveries
              /\ Ended(result, permanent).at = "ended"
              /\ Ended(result, permanent).job = delivery.job
              /\ Ended(result, permanent).result = result
              /\ Ended(result, permanent).permanent = permanent
<1>1. delivery \in [at : {"handler"}, job : Jobs, attempt : 1..MaxAttempts, stage : Nat]
  BY DEF DeliveryInvariant, Deliveries, NoDelivery
<1>2. delivery.stage \in 1..Len(Stages(delivery.job.type))
  BY DEF DeliveryInvariant, UnderWay
<1>3. delivery.job.type \in DOMAIN Registry BY <1>1, DeliveryAssumption
<1>4. Len(Stages(delivery.job.type)) \in Nat BY <1>3, RegistryOrder
<1>5. Stages(delivery.job.type) = Handler.stages BY DEF Stages, Handler
<1>6. \A result \in {"SUCCESS", "FAILED"}, permanent \in BOOLEAN :
        /\ Ended(result, permanent) \in Deliveries
        /\ Ended(result, permanent).at = "ended"
        /\ Ended(result, permanent).job = delivery.job
        /\ Ended(result, permanent).result = result
        /\ Ended(result, permanent).permanent = permanent
  BY <1>1 DEF Ended, Deliveries
<1> QED BY <1>1, <1>2, <1>3, <1>4, <1>5, <1>6

(* A delivery that goes back to its first stage, or gives up after its last *)
(* attempt, tells what happened if what the provider did was not answered.  *)
LEMMA RaisingKeeps ==
  ASSUME DeliveryInvariant, delivery.at = "handler", Raises,
         accepted' \in Nat, unreported' \in Nat, accepted' = unreported',
         accepted' > 0 /\ delivery.job.type = "slack" => ValidPayload(BuildPayload(delivery.job))
  PROVE  DeliveryInvariant'
<1> DEFINE job == delivery.job
<1>1. CASE delivery.attempt < MaxAttempts
  <2>1. delivery' = [delivery EXCEPT !.attempt = @ + 1, !.stage = 1]
    BY <1>1 DEF Raises
  <2>2. delivery \in [at : {"handler"}, job : Jobs, attempt : 1..MaxAttempts, stage : Nat]
    BY DEF DeliveryInvariant, Deliveries, NoDelivery
  <2>3. /\ delivery' \in [at : {"handler"}, job : Jobs, attempt : 1..MaxAttempts, stage : Nat]
        /\ delivery'.at = "handler" /\ delivery'.job = job /\ delivery'.stage = 1
    <3>1. delivery' = [at |-> "handler", job |-> job, attempt |-> delivery.attempt + 1, stage |-> 1]
      BY <2>1, <2>2
    <3>2. delivery.attempt + 1 \in 1..MaxAttempts BY <1>1, <2>2 DEF MaxAttempts
    <3> QED BY <2>2, <3>1, <3>2
  <2>4. delivery' \in Deliveries /\ delivery' # NoDelivery
    BY <2>3 DEF Deliveries, NoDelivery
  <2>5. Len(Stages(job.type)) \in Nat /\ Len(Stages(job.type)) >= 1
    BY Forms, RegistryOrder
  <2>6. UnderWay' BY <2>3, <2>5 DEF UnderWay
  <2>7. DeliverySound' BY <2>3 DEF DeliverySound, ReportedAsDone, GivenUpForGood, Over
  <2> QED BY <2>4, <2>6, <2>7 DEF DeliveryInvariant
<1>2. CASE ~(delivery.attempt < MaxAttempts)
  <2>1. delivery' = Ended("FAILED", FALSE) BY <1>2 DEF Raises
  <2>2. /\ delivery' \in Deliveries /\ delivery'.at = "ended" /\ delivery'.job = job
        /\ delivery'.result = "FAILED" /\ delivery'.permanent = FALSE
    BY <2>1, Forms
  <2>3. delivery' # NoDelivery BY <2>2 DEF NoDelivery
  <2>4. accepted' - unreported' = 0 /\ ~delivery'.permanent BY <2>2
  <2>5. ReportedAsDone' BY <2>2, <2>4 DEF ReportedAsDone
  <2>6. GivenUpForGood' BY <2>4 DEF GivenUpForGood
  <2> QED BY <2>2, <2>3, <2>5, <2>6 DEF DeliveryInvariant, UnderWay, DeliverySound
<1> QED BY <1>1, <1>2

(* A stage that succeeds and is not the provider's leaves the counts.       *)
LEMMA PassingKeeps ==
  ASSUME DeliveryInvariant, delivery.at = "handler", Passes, UNCHANGED <<accepted, unreported>>,
         StageNow # "post",
         delivery.job.type = "slack" =>
           /\ delivery.stage = 1 => "message" \notin delivery.job.blanks
           /\ delivery.stage = 2 => ValidPayload(BuildPayload(delivery.job))
  PROVE  DeliveryInvariant'
<1> DEFINE job == delivery.job
<1>0. /\ StageNow = Stages(job.type)[delivery.stage] /\ job.type \in DOMAIN Registry
      /\ delivery.stage \in 1..Len(Stages(job.type)) /\ Len(Stages(job.type)) \in Nat
      /\ delivery.stage \in Nat
  BY Forms, RegistryOrder DEF StageNow
<1>1. CASE delivery.stage < Len(Handler.stages)
  <2>1. delivery' = [delivery EXCEPT !.stage = @ + 1] BY <1>1 DEF Passes
  <2>2. delivery \in [at : {"handler"}, job : Jobs, attempt : 1..MaxAttempts, stage : Nat]
    BY DEF DeliveryInvariant, Deliveries, NoDelivery
  <2>3. /\ delivery' \in [at : {"handler"}, job : Jobs, attempt : 1..MaxAttempts, stage : Nat]
        /\ delivery'.at = "handler" /\ delivery'.job = job
        /\ delivery'.stage = delivery.stage + 1
    BY <2>1, <2>2
  <2>4. delivery' \in Deliveries /\ delivery' # NoDelivery
    BY <2>3 DEF Deliveries, NoDelivery
  <2>5. delivery'.stage \in 1..Len(Stages(job.type))
    BY <1>0, <1>1, <2>3, Forms
  <2>6. UnderWay' BY <1>0, <2>3, <2>5, Forms DEF UnderWay, DeliveryInvariant
  <2>7. DeliverySound' BY <2>3 DEF DeliverySound, ReportedAsDone, GivenUpForGood, Over
  <2> QED BY <2>4, <2>6, <2>7 DEF DeliveryInvariant
<1>2. CASE ~(delivery.stage < Len(Handler.stages))
  <2>1. delivery' = Ended("SUCCESS", FALSE) BY <1>2 DEF Passes
  <2>2. /\ delivery' \in Deliveries /\ delivery'.at = "ended" /\ delivery'.job = job
        /\ delivery'.result = "SUCCESS" /\ delivery'.permanent = FALSE
    BY <2>1, Forms
  <2>3. delivery' # NoDelivery BY <2>2 DEF NoDelivery
  <2>4. delivery.stage = Len(Stages(job.type)) BY <1>0, <1>2, Forms
  <2>5. job.type \in {"diagnostics", "monitoring"}
    BY <1>0, <2>4, RegistryOrder DEF Calling
  <2>6. accepted = unreported BY DEF DeliveryInvariant, UnderWay
  <2>7. DeliverySound'
    BY <2>2, <2>5, <2>6 DEF DeliverySound, ReportedAsDone, GivenUpForGood, DeliveryInvariant
  <2> QED BY <2>2, <2>3, <2>7 DEF DeliveryInvariant, UnderWay
<1> QED BY <1>1, <1>2

(* What is given up for good is what the property allows.                   *)
LEMMA GivingUpKeeps ==
  ASSUME DeliveryInvariant, delivery.at = "handler", RaisesForGood,
         UNCHANGED <<accepted, unreported>>,
         \/ delivery.job.type = "email"
         \/ /\ delivery.job.type = "slack"
            /\ \/ ValidPayload(BuildPayload(delivery.job))
               \/ delivery.job.title.blank /\ accepted = 0
  PROVE  DeliveryInvariant'
<1>1. /\ delivery' \in Deliveries /\ delivery'.at = "ended" /\ delivery'.job = delivery.job
      /\ delivery'.result = "FAILED" /\ delivery'.permanent = TRUE
  BY Forms DEF RaisesForGood
<1>2. delivery' # NoDelivery BY <1>1 DEF NoDelivery
<1>3. accepted = unreported BY DEF DeliveryInvariant, UnderWay
<1>4. accepted' - unreported' = 0 BY <1>3 DEF DeliveryInvariant
<1>5. ReportedAsDone' BY <1>1, <1>4 DEF ReportedAsDone
<1>6. GivenUpForGood' BY <1>1, <1>3 DEF GivenUpForGood
<1> QED BY <1>1, <1>2, <1>5, <1>6 DEF DeliveryInvariant, UnderWay, DeliverySound

LEMMA StepDelivery == DeliveryInvariant /\ [DeliveryNext]_deliveryVars => DeliveryInvariant'
<1> SUFFICES ASSUME DeliveryInvariant, [DeliveryNext]_deliveryVars PROVE DeliveryInvariant'
  OBVIOUS
<1> DEFINE job == delivery.job
           NothingSent == UNCHANGED <<accepted, unreported>>
<1>0. ASSUME NEW stage, InStage(stage)
      PROVE  /\ delivery.at = "handler" /\ StageNow = stage
             /\ StageNow = Stages(job.type)[delivery.stage]
             /\ job \in Jobs /\ job.type \in DOMAIN Registry
             /\ delivery.stage \in 1..Len(Stages(job.type)) /\ Len(Stages(job.type)) \in Nat
             /\ accepted = unreported /\ accepted \in Nat /\ unreported \in Nat
             /\ job.type = "slack" =>
                  /\ delivery.stage > 1 => "message" \notin job.blanks
                  /\ delivery.stage = 3 \/ accepted > 0 => ValidPayload(BuildPayload(job))
  BY <1>0, Forms, RegistryOrder DEF InStage, StageNow, DeliveryInvariant, UnderWay
<1>1. CASE UNCHANGED deliveryVars
  BY <1>1 DEF deliveryVars, DeliveryInvariant, UnderWay, DeliverySound, ReportedAsDone,
              GivenUpForGood, Over
<1>2. CASE Deliver
  <2>1. PICK j \in Jobs : delivery' = [at |-> "handler", job |-> j, attempt |-> 1, stage |-> 1]
    BY <1>2 DEF Deliver
  <2>2. /\ delivery' \in Deliveries /\ delivery' # NoDelivery /\ delivery'.at = "handler"
        /\ delivery'.job = j /\ delivery'.stage = 1
    BY <2>1 DEF Deliveries, NoDelivery, MaxAttempts
  <2>3. Len(Stages(j.type)) \in Nat /\ Len(Stages(j.type)) >= 1
    BY RegistryOrder, DeliveryAssumption
  <2>4. accepted = 0 /\ unreported = 0 /\ NothingSent BY <1>2 DEF Deliver, DeliveryInvariant
  <2>5. UnderWay' BY <2>2, <2>3, <2>4 DEF UnderWay
  <2>6. DeliverySound' BY <2>2 DEF DeliverySound, ReportedAsDone, GivenUpForGood, Over
  <2> QED BY <2>2, <2>4, <2>5, <2>6 DEF DeliveryInvariant
<1>3. CASE ChecksParameters
  <2>1. InStage("parameters") /\ NothingSent BY <1>3 DEF ChecksParameters
  <2>2. CASE MissesParameter
    <3>1. Raises BY <1>3, <2>2 DEF ChecksParameters
    <3> QED BY <1>0, <2>1, <3>1, RaisingKeeps
  <2>3. CASE ~MissesParameter
    <3>1. Passes BY <1>3, <2>3 DEF ChecksParameters
    <3>2. job.type = "slack" => "message" \notin job.blanks
      BY <1>0, <2>1, <2>3, RegistryOrder DEF MissesParameter, Handler
    <3>3. job.type = "slack" => delivery.stage # 2
      BY <1>0, <2>1, RegistryOrder
    <3> QED BY <1>0, <2>1, <3>1, <3>2, <3>3, PassingKeeps
  <2> QED BY <2>2, <2>3
<1>4. CASE ChecksPayload
  <2>1. InStage("payload") /\ NothingSent BY <1>4 DEF ChecksPayload
  <2>2. job.type = "slack" /\ delivery.stage = 2 BY <1>0, <2>1, RegistryOrder
  <2>3. CASE ValidPayload(BuildPayload(job))
    <3>1. Passes BY <1>4, <2>3 DEF ChecksPayload
    <3> QED BY <1>0, <2>1, <2>2, <2>3, <3>1, PassingKeeps
  <2>4. CASE ~ValidPayload(BuildPayload(job))
    <3>1. RaisesForGood BY <1>4, <2>4 DEF ChecksPayload
    <3>2. accepted = 0 BY <1>0, <2>1, <2>2, <2>4
    <3>3. job.title.blank BY <1>0, <2>1, <2>2, <2>4, OnlyTheTitle
    <3> QED BY <1>0, <2>1, <2>2, <3>1, <3>2, <3>3, GivingUpKeeps
  <2> QED BY <2>3, <2>4
<1>5. CASE ChecksCredentials
  <2>1. InStage("credentials") /\ NothingSent BY <1>5 DEF ChecksCredentials
  <2>2. job.type = "email" BY <1>0, <2>1, RegistryOrder
  <2>3. Passes \/ RaisesForGood BY <1>5 DEF ChecksCredentials
  <2>4. CASE Passes BY <1>0, <2>1, <2>2, <2>4, PassingKeeps
  <2>5. CASE RaisesForGood BY <1>0, <2>1, <2>2, <2>5, GivingUpKeeps
  <2> QED BY <2>3, <2>4, <2>5
<1>6. ASSUME InStage("token") \/ InStage("registry"), Passes \/ Raises, NothingSent
      PROVE  DeliveryInvariant'
  <2>1. PICK stage \in {"token", "registry"} : InStage(stage) BY <1>6
  <2>2. job.type = "slack" => delivery.stage \notin {1, 2}
    BY <1>0, <2>1, RegistryOrder
  <2>3. CASE Passes BY <1>0, <1>6, <2>1, <2>2, <2>3, PassingKeeps
  <2>4. CASE Raises BY <1>0, <1>6, <2>1, <2>4, RaisingKeeps
  <2> QED BY <1>6, <2>3, <2>4
<1>7. CASE FetchesToken BY <1>6, <1>7 DEF FetchesToken
<1>8. CASE LooksUpWebhook BY <1>6, <1>8 DEF LooksUpWebhook
<1>9. ASSUME InStage("post")
      PROVE  /\ delivery.stage = Len(Stages(job.type)) /\ job.type \in Calling
             /\ job.type = "slack" => ValidPayload(BuildPayload(job))
             /\ Passes => delivery' = Ended("SUCCESS", FALSE)
  <2>1. delivery.stage = Len(Stages(job.type)) /\ job.type \in Calling
    BY <1>0, <1>9, RegistryOrder
  <2>2. job.type = "slack" => delivery.stage = 3 BY <1>0, <1>9, <2>1, RegistryOrder
  <2>3. Passes => delivery' = Ended("SUCCESS", FALSE)
    <3>1. Handler.stages = Stages(job.type) BY <1>0, <1>9, Forms
    <3>2. ~(delivery.stage < Len(Handler.stages)) BY <1>0, <1>9, <2>1, <3>1
    <3> QED BY <3>2 DEF Passes
  <2> QED BY <1>0, <1>9, <2>1, <2>2, <2>3
<1>10. ASSUME InStage("post"), Passes, accepted' \in Nat, unreported' \in Nat,
              accepted' = unreported' + 1 \/ (job.type = "webhook" /\ accepted' = unreported')
       PROVE  DeliveryInvariant'
  <2>1. delivery' = Ended("SUCCESS", FALSE) BY <1>9, <1>10
  <2>2. /\ delivery' \in Deliveries /\ delivery'.at = "ended" /\ delivery'.job = job
        /\ delivery'.result = "SUCCESS" /\ delivery'.permanent = FALSE
    BY <1>0, <1>10, <2>1, Forms
  <2>3. delivery' # NoDelivery BY <2>2 DEF NoDelivery
  <2>4. ~delivery'.permanent /\ delivery'.job.type \in Calling BY <1>9, <1>10, <2>2
  <2>5. ReportedAsDone'
    <3>1. accepted' - unreported' = 1 \/ job.type = "webhook"
      <4>1. \A m, n \in Nat : m = n + 1 => m - n = 1 OBVIOUS
      <4> QED BY <1>10, <4>1
    <3>2. delivery'.job.type \notin {"diagnostics", "monitoring"} BY <2>4 DEF Calling
    <3> QED BY <2>2, <3>1, <3>2 DEF ReportedAsDone
  <2>6. GivenUpForGood' BY <2>4 DEF GivenUpForGood
  <2> QED BY <1>10, <2>2, <2>3, <2>5, <2>6 DEF DeliveryInvariant, UnderWay, DeliverySound
<1>11. CASE ProviderConfirms
  <2>1. InStage("post") /\ Passes /\ accepted' = accepted + 1 /\ unreported' = unreported
    BY <1>11 DEF ProviderConfirms
  <2> QED BY <1>0, <1>10, <2>1
<1>12. CASE AnswerIsLost
  <2>1. /\ InStage("post") /\ Raises
        /\ accepted' = accepted + 1 /\ unreported' = unreported + 1
    BY <1>12 DEF AnswerIsLost
  <2> QED BY <1>0, <1>9, <2>1, RaisingKeeps
<1>13. CASE ProviderRefuses
  <2>1. InStage("post") /\ NothingSent /\ (Raises \/ (job.type = "slack" /\ RaisesForGood))
    BY <1>13 DEF ProviderRefuses
  <2>2. CASE Raises BY <1>0, <1>9, <2>1, <2>2, RaisingKeeps
  <2>3. CASE job.type = "slack" /\ RaisesForGood BY <1>0, <1>9, <2>1, <2>3, GivingUpKeeps
  <2> QED BY <2>1, <2>2, <2>3
<1>14. CASE WebhookAnswersOddly
  <2>1. InStage("post") /\ Passes /\ NothingSent /\ job.type = "webhook"
    BY <1>14 DEF WebhookAnswersOddly
  <2> QED BY <1>0, <1>10, <2>1
<1>15. CASE CredentialsChange
  BY <1>15 DEF CredentialsChange, DeliveryInvariant, UnderWay, DeliverySound, ReportedAsDone,
               GivenUpForGood, Over
<1> QED
  BY <1>1, <1>2, <1>3, <1>4, <1>5, <1>7, <1>8, <1>11, <1>12, <1>13, <1>14, <1>15 DEF DeliveryNext

(* A delivery is reported as what the provider did, and given up for good   *)
(* only where no attempt could succeed, for every action that can be asked  *)
(* for (action_agent.py:374, slack_actions.py:236).                         *)
THEOREM DeliveriesAreTold == DeliverySpec => []DeliverySound
<1>1. DeliveryInvariant => DeliverySound BY DEF DeliveryInvariant
<1> QED BY InitDelivery, StepDelivery, <1>1, PTL DEF DeliverySpec

-----------------------------------------------------------------------------
(* Calls of the outside world *)

(* Whatever the outside world answers, or fails to, deliveries and the      *)
(* breaker of the language model stay true to it.                           *)
THEOREM OutsideCallsAreTold == LLMSpec /\ DeliverySpec => []OutsideCallsSound
<1>1. DeliverySound /\ BreakerFollowsFailures => OutsideCallsSound BY DEF OutsideCallsSound
<1> QED BY BreakerIsTrue, DeliveriesAreTold, <1>1, PTL

-----------------------------------------------------------------------------
(* The life of a process *)

(* What is known of the process by the steps that are done.                 *)
KeyHeld ==
  (life \notin {"created", "aborted"} /\ environment # "development") => auth \in {"key", "jwks"}

Traced ==
  /\ pipeline \in Seq(RetrievalStages)
  /\ tracer = {pipeline[i] : i \in DOMAIN pipeline}

Assembled ==
  /\ step \in 0..Len(Startup)
  /\ life \in {"serving", "stopped"} => step = Len(Startup)
  /\ step >= 15 => /\ hears
                   /\ agents \subseteq roster /\ roster \subseteq agents \cup {"supervisor"}
  /\ step = 16 => roster = agents

(* Only a job looked for before the stop event is claimed after it.         *)
LastClaim ==
  /\ lateJobs \in {0, 1}
  /\ ~stopping \/ worker = "claims" => lateJobs = 0

CompositionInvariant == KeyHeld /\ Traced /\ Assembled /\ ~unheard /\ LastClaim

LEMMA StartupLength == Len(Startup) = 16
  BY DEF Startup

(* The agents other than the orchestrator and the supervisor, and all they  *)
(* use, are built before these two.                                         *)
LEMMA WhichStep ==
  ASSUME NEW name, At(name), Assembled
  PROVE  /\ step \in 0..15 /\ life = "starting"
         /\ name = "orchestrator" => step = 14
         /\ name = "supervisor" => step = 15
         /\ name \notin {"orchestrator", "supervisor"} => step < 14
<1>1. step \in 0..15 /\ life = "starting" BY StartupLength DEF At, Assembled
<1> DEFINE k == step + 1
<1>2. k \in 1..16 /\ step = k - 1 BY <1>1
<1>3. Startup[k] = name BY DEF At
<1> HIDE DEF k
<1>4. /\ name = "orchestrator" => k = 15
      /\ name = "supervisor" => k = 16
      /\ k = 15 => name = "orchestrator"
      /\ k = 16 => name = "supervisor"
  BY <1>2, <1>3 DEF Startup
<1> QED BY <1>1, <1>2, <1>4

(* A step of the lifespan before the orchestrator's.                        *)
LEMMA EarlyStep ==
  ASSUME CompositionInvariant, step < 14, step \in 0..15, life = "starting", Done
  PROVE  KeyHeld' /\ Assembled'
  BY StartupLength DEF CompositionInvariant, KeyHeld, Assembled, Done

LEMMA InitComposition == CompositionInit => CompositionInvariant
<1> SUFFICES ASSUME CompositionInit PROVE CompositionInvariant
  OBVIOUS
<1>1. KeyHeld BY DEF CompositionInit, KeyHeld
<1>2. Traced BY DEF CompositionInit, Traced
<1>3. Assembled BY StartupLength DEF CompositionInit, Assembled
<1>4. ~unheard /\ LastClaim BY DEF CompositionInit, LastClaim
<1> QED BY <1>1, <1>2, <1>3, <1>4 DEF CompositionInvariant

LEMMA StepComposition == CompositionInvariant /\ [CompositionNext]_compositionVars => CompositionInvariant'
<1> SUFFICES ASSUME CompositionInvariant, [CompositionNext]_compositionVars
             PROVE  CompositionInvariant'
  OBVIOUS
<1> USE DEF CompositionInvariant
<1>1. CASE UNCHANGED compositionVars
  BY <1>1 DEF compositionVars, KeyHeld, Traced, Assembled, LastClaim
<1>2. CASE CreateApp
  <2>1. PICK oidc, issuer, client, jwks, key \in BOOLEAN,
             file \in {"none", "key", "empty", "unreadable"} :
          LET built == IF oidc THEN BuildOIDCAuth(issuer, client, jwks)
                               ELSE BuildJWTAuth(key, file, environment)
          IN IF built = {} THEN life' = "aborted" /\ UNCHANGED auth
                           ELSE life' = "starting" /\ auth' \in built
    BY <1>2 DEF CreateApp
  <2>2. /\ \A a \in BuildOIDCAuth(issuer, client, jwks) : a = "jwks"
        /\ environment # "development" =>
             \A a \in BuildJWTAuth(key, file, environment) : a = "key"
    BY DEF BuildOIDCAuth, BuildJWTAuth
  <2>3. KeyHeld' BY <1>2, <2>1, <2>2 DEF CreateApp, KeyHeld
  <2>4. life' \in {"aborted", "starting"} BY <2>1
  <2> QED BY <1>2, <2>3, <2>4 DEF CreateApp, threadVars, Traced, Assembled, LastClaim
<1>3. CASE Aborts
  BY <1>3 DEF Aborts, threadVars, KeyHeld, Traced, Assembled, LastClaim
<1>4. ASSUME NEW name \in {"container", "services", "documents", "sources", "rules"}, Builds(name)
      PROVE  CompositionInvariant'
  <2>1. KeyHeld' /\ Assembled' BY <1>4, WhichStep, EarlyStep DEF Builds
  <2> QED BY <1>4, <2>1 DEF Builds, threadVars, Traced, LastClaim
<1>5. CASE WrapsRetrieval
  <2>1. PICK stage \in RetrievalStages :
          /\ At(stage) /\ Done /\ UNCHANGED <<agents, roster, hears, threadVars>>
          /\ \/ UNCHANGED <<pipeline, tracer>>
             \/ pipeline' = Append(pipeline, stage) /\ tracer' = tracer \cup {stage}
    BY <1>5 DEF WrapsRetrieval
  <2>2. stage \notin {"orchestrator", "supervisor"} BY DEF RetrievalStages
  <2>3. KeyHeld' /\ Assembled' BY <2>1, <2>2, WhichStep, EarlyStep
  <2>4. Traced'
    <3>1. CASE UNCHANGED <<pipeline, tracer>> BY <3>1 DEF Traced
    <3>2. CASE pipeline' = Append(pipeline, stage) /\ tracer' = tracer \cup {stage}
      <4>1. pipeline \in Seq(RetrievalStages) /\ pipeline' \in Seq(RetrievalStages)
        BY <3>2 DEF Traced
      <4>2. /\ DOMAIN pipeline = 1..Len(pipeline) /\ DOMAIN pipeline' = 1..(Len(pipeline) + 1)
            /\ Len(pipeline) \in Nat /\ pipeline'[Len(pipeline) + 1] = stage
            /\ \A i \in 1..Len(pipeline) : pipeline'[i] = pipeline[i]
        BY <3>2, <4>1
      <4>3. {pipeline'[i] : i \in DOMAIN pipeline'} = {pipeline[i] : i \in DOMAIN pipeline} \cup {stage}
        BY <4>2
      <4> QED BY <3>2, <4>1, <4>3 DEF Traced
    <3> QED BY <2>1, <3>1, <3>2
  <2> QED BY <2>1, <2>3, <2>4 DEF threadVars, LastClaim
<1>6. ASSUME NEW name \in {"actions", "monitor", "planning"}, At(name), Done,
             UNCHANGED <<pipeline, tracer, roster, hears, threadVars>>
      PROVE  CompositionInvariant'
  <2>1. KeyHeld' /\ Assembled' BY <1>6, WhichStep, EarlyStep
  <2> QED BY <1>6, <2>1 DEF threadVars, Traced, LastClaim
<1>7. CASE BuildsActionAgent BY <1>6, <1>7 DEF BuildsActionAgent
<1>8. CASE StartsMonitor BY <1>6, <1>8 DEF StartsMonitor
<1>9. CASE BuildsPlanning BY <1>6, <1>9 DEF BuildsPlanning
<1>10. CASE StartsWorker
  <2>1. KeyHeld' /\ Assembled' BY <1>10, WhichStep, EarlyStep DEF StartsWorker
  <2> QED BY <1>10, <2>1 DEF StartsWorker, Traced, LastClaim
<1>11. CASE RegistersOrchestrator
  <2>1. step = 14 /\ life = "starting" BY <1>11, WhichStep DEF RegistersOrchestrator
  <2>2. /\ step' = 15 /\ hears' = TRUE /\ UNCHANGED <<life, environment, auth, agents>>
        /\ agents \subseteq roster' /\ roster' \subseteq agents \cup {"supervisor"}
    BY <1>11, <2>1 DEF RegistersOrchestrator, Done
  <2>3. Assembled' BY <2>1, <2>2, StartupLength DEF Assembled
  <2> QED BY <1>11, <2>2, <2>3 DEF RegistersOrchestrator, threadVars, KeyHeld, Traced, LastClaim
<1>12. CASE BuildsSupervisor
  <2>1. step = 15 /\ life = "starting" BY <1>12, WhichStep DEF BuildsSupervisor
  <2>2. /\ step' = 16 /\ UNCHANGED <<life, environment, auth, hears, roster>>
        /\ agents' = agents \cup (roster \cap {"supervisor"})
    BY <1>12, <2>1 DEF BuildsSupervisor, Done
  <2>3. Assembled' BY <2>1, <2>2, StartupLength DEF Assembled
  <2> QED BY <1>12, <2>2, <2>3 DEF BuildsSupervisor, threadVars, KeyHeld, Traced, LastClaim
<1>13. CASE Serves
  BY <1>13 DEF Serves, threadVars, KeyHeld, Traced, Assembled, LastClaim
<1>14. CASE Shutdown
  BY <1>14 DEF Shutdown, KeyHeld, Traced, Assembled, LastClaim
<1>15. CASE Publishes
  <2>1. life = "serving" => hears BY StartupLength DEF Assembled
  <2>2. ~unheard' BY <1>15, <2>1 DEF Publishes
  <2> QED BY <1>15, <2>2 DEF Publishes, lifeVars, KeyHeld, Traced, Assembled, LastClaim
<1>16. CASE WorkerLooks
  BY <1>16 DEF WorkerLooks, lifeVars, KeyHeld, Traced, Assembled, LastClaim
<1>17. CASE WorkerClaims
  <2>1. LastClaim' BY <1>17 DEF WorkerClaims, LastClaim
  <2> QED BY <1>17, <2>1 DEF WorkerClaims, lifeVars, KeyHeld, Traced, Assembled
<1> QED
  BY <1>1, <1>2, <1>3, <1>4, <1>5, <1>7, <1>8, <1>9, <1>10, <1>11, <1>12, <1>13, <1>14, <1>15,
     <1>16, <1>17
  DEF CompositionNext, BuildsContainer, BuildsServices, IngestsStartupDocuments, BuildsSources,
      BuildsRules

(* A process serves only what it can verify, shows only what it has, is     *)
(* heard from its first request on, and claims one job at most after it was *)
(* told to stop, whatever failed while it started (main.py:1202, 1347).     *)
THEOREM ProcessIsSound == CompositionSpec => []CompositionSound
<1>1. CompositionInvariant => CompositionSound
  <2> SUFFICES ASSUME CompositionInvariant PROVE CompositionSound
    OBVIOUS
  <2>1. KeyOutsideDevelopment
    BY DEF CompositionInvariant, KeyHeld, KeyOutsideDevelopment
  <2>2. NothingShownThatIsNot
    BY StartupLength DEF CompositionInvariant, Traced, Assembled, NothingShownThatIsNot
  <2>3. HeardOnceServing BY DEF CompositionInvariant, HeardOnceServing
  <2>4. OneJobAfterStop BY DEF CompositionInvariant, LastClaim, OneJobAfterStop
  <2> QED BY <2>1, <2>2, <2>3, <2>4 DEF CompositionSound
<1> QED BY InitComposition, StepComposition, <1>1, PTL DEF CompositionSpec

-----------------------------------------------------------------------------
(* Connectors *)

Reasons == {"configuration", "credential", "sdk", "upstream", "counted", "disabled"}
Shown == {"nothing", "short", "long"}

Message == [why : Reasons, shows : Shown]

Optional(S) == {<<>>} \cup {<<o>> : o \in S}

ConnectorObject ==
  [client : {"none", "mock", "closed"} \cup Credentials, authenticated : BOOLEAN,
   secret : {"none"} \cup Credentials, error : Optional(Message)]

(* No long credential is in a message.                                      *)
Clean(error) == error \in Optional(Message) /\ (error # <<>> => error[1].shows # "long")

(* An object that may be handed around: what its client holds it remembers, *)
(* its message is clean, and it has none while it is authenticated.         *)
Discreet(o) ==
  /\ o \in ConnectorObject
  /\ Clean(o.error)
  /\ o.error # <<>> => ~o.authenticated
  /\ o.client \in Credentials => o.secret = o.client

RunStatuses == {"never_synced", "running", "succeeded", "partial", "failed"}

MemberKept ==
  /\ credential \in {"none"} \cup Credentials
  /\ member \in Optional(ConnectorObject)
  /\ member # <<>> => Discreet(member[1])
  /\ RowsAreAuthenticated

LentKept ==
  /\ lent \in Optional(ConnectorObject) /\ syncing \in BOOLEAN
  /\ lent # <<>> => Discreet(lent[1])
  /\ syncing => lent # <<>> /\ report = <<>>
  /\ report # <<>> /\ lent # <<>> => lent[1].secret = "none" /\ lent[1].client \notin Credentials

RunKnown ==
  /\ runs \in [status : RunStatuses, by : {"here", "elsewhere"}, error : Optional(Message),
               succeeded : Optional({"fresh", "old", "unreadable"})]
  /\ Clean(runs.error)
  /\ runs.status = "never_synced" => runs.succeeded = <<>>

ToldTruly ==
  /\ report # <<>> => Clean(report[1].entry.error)
  /\ HealthIsEarned

ConnectorInvariant == MemberKept /\ LentKept /\ RunKnown /\ ToldTruly

LEMMA Optionals ==
  ASSUME NEW S, NEW o \in S
  PROVE  /\ <<o>> \in Optional(S) /\ <<o>> # <<>> /\ <<o>>[1] = o
         /\ \A x \in Optional(S) : x # <<>> => x[1] \in S /\ x = <<x[1]>>
  BY DEF Optional

LEMMA NothingIsClean == Clean(<<>>)
  BY DEF Clean, Optional

LEMMA NewIsDiscreet == Discreet(NewConnector) /\ ~NewConnector.authenticated
  BY NothingIsClean DEF NewConnector, Discreet, ConnectorObject, Optional, Credentials

LEMMA RefusedIsDiscreet ==
  ASSUME NEW c \in ConnectorObject, c.client \in Credentials => c.secret = c.client,
         NEW why \in Reasons, NEW shows \in Shown, shows = "long" => c.secret = "long"
  PROVE  Discreet(Refused(c, why, shows)) /\ Refused(c, why, shows).error # <<>>
<1>0. PICK m : m = Sanitize(c, [why |-> why, shows |-> shows]) OBVIOUS
<1>1. m = [why |-> why, shows |-> IF c.secret = "long" THEN "nothing" ELSE shows]
  BY <1>0 DEF Sanitize
<1>2. m \in Message /\ m.shows # "long" BY <1>1 DEF Message, Shown
<1>3. PICK r : r = Refused(c, why, shows) OBVIOUS
<1>4. r = [c EXCEPT !.authenticated = FALSE, !.error = <<m>>] BY <1>0, <1>3 DEF Refused
<1>5. r = [client |-> c.client, authenticated |-> FALSE, secret |-> c.secret, error |-> <<m>>]
  BY <1>4 DEF ConnectorObject
<1>6. <<m>> \in Optional(Message) /\ <<m>>[1] = m /\ <<m>> # <<>> BY <1>2, Optionals
<1>7. r.error = <<m>> /\ ~r.authenticated /\ r.client = c.client /\ r.secret = c.secret BY <1>5
<1>8. r \in ConnectorObject BY <1>5, <1>6 DEF ConnectorObject
<1>9. Clean(r.error) BY <1>2, <1>6, <1>7 DEF Clean
<1> QED BY <1>3, <1>6, <1>7, <1>8, <1>9 DEF Discreet

LEMMA QuietRefusal ==
  ASSUME NEW c \in ConnectorObject, c.client \in Credentials => c.secret = c.client,
         NEW why \in Reasons
  PROVE  Discreet(Refused(c, why, "nothing"))
  BY RefusedIsDiscreet DEF Shown

LEMMA EchoedIsDiscreet ==
  ASSUME NEW c \in ConnectorObject, c.client \in Credentials => c.secret = c.client
  PROVE  /\ Discreet(Refused(c, "upstream", Echo(c.client)))
         /\ Refused(c, "upstream", Echo(c.client)).error # <<>>
<1>1. Echo(c.client) \in Shown /\ (Echo(c.client) = "long" => c.secret = "long")
  BY DEF Echo, Credentials, Shown, ConnectorObject
<1>2. "upstream" \in Reasons BY DEF Reasons
<1> QED BY <1>1, <1>2, RefusedIsDiscreet

LEMMA PingedIsDiscreet ==
  ASSUME NEW c \in ConnectorObject, c.client \in Credentials => c.secret = c.client
  PROVE  Discreet(Pinged(c))
<1>1. CASE Works(c.client)
  <2>1. Pinged(c) = [client |-> c.client, authenticated |-> TRUE, secret |-> c.secret,
                     error |-> <<>>]
    BY <1>1 DEF ConnectorObject, Pinged
  <2> QED BY <2>1, NothingIsClean DEF Discreet, ConnectorObject, Optional
<1>2. CASE ~Works(c.client) BY <1>2, EchoedIsDiscreet DEF Pinged
<1> QED BY <1>1, <1>2

(* Authenticating an object, whatever fails on the way, leaves it discreet. *)
LEMMA AuthenticateIsDiscreet ==
  ASSUME NEW c, Discreet(c), credential \in {"none"} \cup Credentials
  PROVE  Discreet(Authenticate(c))
<1>0. /\ c \in ConnectorObject /\ (c.client \in Credentials => c.secret = c.client)
      /\ "configuration" \in Reasons /\ "credential" \in Reasons /\ "sdk" \in Reasons
  BY DEF Discreet, Reasons
<1>1. CASE ~row
  <2>1. Discreet(Refused(c, "configuration", "nothing")) BY <1>0, QuietRefusal
  <2> QED BY <1>1, <2>1 DEF Authenticate
<1>2. CASE row /\ c.client # "none" BY <1>0, <1>2, PingedIsDiscreet DEF Authenticate
<1>3. CASE row /\ c.client = "none"
  <2>0. PICK own, open : own = [c EXCEPT !.secret = credential]
                         /\ open = [own EXCEPT !.client = credential]
    OBVIOUS
  <2>1. Authenticate(c) = IF credential = "none" THEN Refused(c, "credential", "nothing")
                          ELSE IF source.capability = "metrics"
                          THEN Refused(own, "sdk", "nothing") ELSE Pinged(open)
    BY <1>3, <2>0 DEF Authenticate, Connected
  <2>2. own \in ConnectorObject /\ own.client = "none" BY <1>0, <1>3, <2>0 DEF ConnectorObject
  <2>3. ASSUME credential # "none"
        PROVE  open \in ConnectorObject /\ open.client = credential /\ open.secret = credential
    <3>1. own = [client |-> c.client, authenticated |-> c.authenticated, secret |-> credential,
                 error |-> c.error]
      BY <1>0, <2>0 DEF ConnectorObject
    <3>2. open = [client |-> credential, authenticated |-> c.authenticated,
                  secret |-> credential, error |-> c.error]
      BY <2>0, <3>1
    <3> QED BY <1>0, <2>3, <3>2 DEF ConnectorObject
  <2>4. "none" \notin Credentials BY DEF Credentials
  <2>5. Discreet(Refused(c, "credential", "nothing")) BY <1>0, QuietRefusal
  <2>6. Discreet(Refused(own, "sdk", "nothing")) BY <1>0, <2>2, <2>4, QuietRefusal
  <2>7. credential # "none" => Discreet(Pinged(open)) BY <2>3, PingedIsDiscreet
  <2> QED BY <2>1, <2>5, <2>6, <2>7
<1> QED BY <1>1, <1>2, <1>3

(* A closed object holds nothing any more.                                  *)
LEMMA CloseForgets ==
  ASSUME NEW c, Discreet(c)
  PROVE  Discreet(Close(c)) /\ Close(c).secret = "none" /\ Close(c).client \notin Credentials
<1>1. c \in ConnectorObject BY DEF Discreet
<1>0. PICK kept : kept = IF c.client \in Credentials THEN "closed" ELSE c.client OBVIOUS
<1>5. Close(c) = [c EXCEPT !.client = kept, !.secret = "none", !.authenticated = FALSE]
  BY <1>0 DEF Close
<1>2. Close(c) = [client |-> kept, authenticated |-> FALSE, secret |-> "none", error |-> c.error]
  BY <1>1, <1>5 DEF ConnectorObject
<1>3. kept \in {"none", "mock", "closed"} /\ kept \notin Credentials
  BY <1>0, <1>1 DEF ConnectorObject, Credentials
<1>4. Close(c) \in ConnectorObject BY <1>1, <1>2, <1>3 DEF ConnectorObject
<1> QED BY <1>2, <1>3, <1>4 DEF Discreet

LEMMA InitConnector == ConnectorInit => ConnectorInvariant
<1> SUFFICES ASSUME ConnectorInit PROVE ConnectorInvariant OBVIOUS
<1>1. MemberKept BY DEF ConnectorInit, MemberKept, Optional, RowsAreAuthenticated
<1>2. LentKept BY DEF ConnectorInit, LentKept, Optional
<1>3. RunKnown
  <2>1. /\ runs \in [status : RunStatuses, by : {"here", "elsewhere"}, error : Optional(Message),
                     succeeded : Optional({"fresh", "old", "unreadable"})]
        /\ runs.error = <<>> /\ runs.succeeded = <<>>
    BY DEF ConnectorInit, Optional, RunStatuses
  <2> QED BY <2>1, NothingIsClean DEF RunKnown
<1>4. ToldTruly BY DEF ConnectorInit, ToldTruly, HealthIsEarned
<1> QED BY <1>1, <1>2, <1>3, <1>4 DEF ConnectorInvariant

(* A report's entry says of the connector what trying it showed.            *)
LEMMA EntryIsEarned ==
  ASSUME ConnectorInvariant, NEW authenticated \in BOOLEAN, NEW error,
         report' = Entry(authenticated, error), Clean(error), error # <<>> => ~authenticated
  PROVE  ToldTruly'
<1>0. PICK e : e = [enabled |-> source.enabled, configured |-> row,
                    authenticated |-> authenticated, status |-> runs.status,
                    succeeded |-> runs.succeeded,
                    error |-> IF error # <<>> THEN error ELSE runs.error]
  OBVIOUS
<1>1. /\ report' = <<[entry |-> e, tried |-> error, category |-> Category(e)]>>
  BY <1>0 DEF Entry
<1>2. /\ report'[1].entry = e /\ report'[1].tried = error
      /\ report'[1].category = Category(e) /\ report' # <<>>
  BY <1>1
<1>3. /\ e.authenticated = authenticated /\ e.status = runs.status
      /\ e.succeeded = runs.succeeded
      /\ e.error = error \/ e.error = runs.error
  BY <1>0
<1>4. /\ runs.status \in RunStatuses
      /\ runs.succeeded \in Optional({"fresh", "old", "unreadable"})
      /\ runs.status = "never_synced" => runs.succeeded = <<>>
      /\ Clean(runs.error)
  BY DEF ConnectorInvariant, RunKnown
<1>5. Clean(e.error) BY <1>3, <1>4
<1>6. Category(e) = "healthy" =>
        /\ e.enabled /\ e.configured /\ e.authenticated
        /\ e.status # "failed" /\ e.succeeded # <<>> /\ e.succeeded # <<"old">>
  BY DEF Category
<1>7. e.enabled /\ e.configured /\ ~e.authenticated => Category(e) = "unhealthy" BY DEF Category
<1>8. Category(e) = "healthy" =>
        /\ e.enabled /\ e.configured /\ e.authenticated /\ error = <<>>
        /\ e.status \in {"running", "succeeded", "partial"}
        /\ e.succeeded \in {<<"fresh">>, <<"unreadable">>}
  <2> SUFFICES ASSUME Category(e) = "healthy"
               PROVE  /\ e.enabled /\ e.configured /\ e.authenticated /\ error = <<>>
                      /\ e.status \in {"running", "succeeded", "partial"}
                      /\ e.succeeded \in {<<"fresh">>, <<"unreadable">>}
    OBVIOUS
  <2>1. e.enabled /\ e.configured /\ e.authenticated /\ error = <<>> BY <1>3, <1>6
  <2>2. e.status \in {"running", "succeeded", "partial"} BY <1>3, <1>4, <1>6 DEF RunStatuses
  <2>3. e.succeeded \in {<<"fresh">>, <<"unreadable">>} BY <1>3, <1>4, <1>6 DEF Optional
  <2> QED BY <2>1, <2>2, <2>3
<1> QED BY <1>2, <1>3, <1>5, <1>7, <1>8 DEF ToldTruly, HealthIsEarned

(* What a synchronization comes to: its error is clean, whatever it was.    *)
LEMMA ResultsAreClean ==
  ASSUME NEW c, Discreet(c), NEW result \in Results(c)
  PROVE  /\ result.status \in {"succeeded", "partial", "failed"}
         /\ Clean(result.error)
<1>0. c \in ConnectorObject /\ Clean(c.error) /\ (c.client \in Credentials => c.secret = c.client)
  BY DEF Discreet
<1>1. Clean(SomeFailed)
  <2>1. [why |-> "counted", shows |-> "nothing"] \in Message BY DEF Message, Reasons, Shown
  <2> QED BY <2>1 DEF SomeFailed, Clean, Optional
<1>2. Clean(Refused(c, "upstream", Echo(c.client)).error)
  BY <1>0, EchoedIsDiscreet DEF Discreet
<1>3. \A q : /\ RunResult("failed", q).error = q /\ RunResult("failed", q).status = "failed"
             /\ RunResult("partial", q).error = q /\ RunResult("partial", q).status = "partial"
             /\ RunResult("succeeded", q).error = q /\ RunResult("succeeded", q).status = "succeeded"
  BY DEF RunResult
<1>4. \/ result = RunResult("failed", c.error)
      \/ result = RunResult("succeeded", <<>>)
      \/ result = RunResult("partial", SomeFailed)
      \/ result = RunResult("failed", SomeFailed)
      \/ result = RunResult("failed", Refused(c, "upstream", Echo(c.client)).error)
  BY DEF Results
<1> QED BY <1>0, <1>1, <1>2, <1>3, <1>4, NothingIsClean

(* A run that starts or ends keeps what is known of the newest one.         *)
LEMMA RunStarts ==
  ASSUME RunKnown, NEW i \in {"here", "elsewhere"}, StartRun(i)
  PROVE  RunKnown'
<1>1. runs' = [status |-> "running", by |-> i, error |-> <<>>, succeeded |-> runs.succeeded]
  BY DEF RunKnown, StartRun
<1> QED BY <1>1, NothingIsClean DEF RunKnown, RunStatuses, Optional

LEMMA RunEnds ==
  ASSUME RunKnown, NEW i \in {"here", "elsewhere"}, NEW c, Discreet(c),
         NEW result \in Results(c), EndRun(i, result), runs.by = i => runs.status # "never_synced",
         runs.status # "never_synced"
  PROVE  RunKnown'
<1>0. /\ result.status \in {"succeeded", "partial", "failed"} /\ Clean(result.error)
      /\ result.error \in Optional(Message)
  BY ResultsAreClean DEF Clean
<1>1. PICK ended : ended = IF runs.by = i
                           THEN [runs EXCEPT !.status = result.status, !.error = result.error]
                           ELSE runs
  OBVIOUS
<1>2. /\ ended \in [status : RunStatuses, by : {"here", "elsewhere"}, error : Optional(Message),
                    succeeded : Optional({"fresh", "old", "unreadable"})]
      /\ Clean(ended.error) /\ ended.status # "never_synced"
  <2>1. CASE runs.by = i
    <3>1. ended = [status |-> result.status, by |-> runs.by, error |-> result.error,
                   succeeded |-> runs.succeeded]
      BY <1>1, <2>1 DEF RunKnown
    <3> QED BY <1>0, <3>1 DEF RunKnown, RunStatuses
  <2>2. CASE runs.by # i BY <1>1, <2>2 DEF RunKnown
  <2> QED BY <2>1, <2>2
<1>3. runs' = ended \/ runs' = [ended EXCEPT !.succeeded = <<"fresh">>]
  BY <1>1 DEF EndRun
<1>4. CASE runs' = ended BY <1>2, <1>4 DEF RunKnown
<1>5. CASE runs' = [ended EXCEPT !.succeeded = <<"fresh">>]
  <2>1. runs' = [status |-> ended.status, by |-> ended.by, error |-> ended.error,
                 succeeded |-> <<"fresh">>]
    BY <1>2, <1>5
  <2>2. <<"fresh">> \in Optional({"fresh", "old", "unreadable"}) BY Optionals
  <2> QED BY <1>2, <2>1, <2>2 DEF RunKnown
<1> QED BY <1>3, <1>4, <1>5

(* A run in progress somewhere has been started.                            *)
Started == syncing \/ elsewhere => runs.status # "never_synced"

LEMMA StepConnector ==
  ConnectorInvariant /\ Started /\ [ConnectorNext]_connectorVars => ConnectorInvariant' /\ Started'
<1> SUFFICES ASSUME ConnectorInvariant, Started, [ConnectorNext]_connectorVars
             PROVE  ConnectorInvariant' /\ Started'
  OBVIOUS
<1> USE DEF ConnectorInvariant
<1>1. CASE UNCHANGED connectorVars
  BY <1>1 DEF connectorVars, MemberKept, LentKept, RunKnown, ToldTruly, RowsAreAuthenticated,
              HealthIsEarned, Started
<1>2. CASE RowIsEdited \/ CredentialChanges \/ UpstreamChanges
  <2>1. /\ credential' \in {"none"} \cup Credentials
        /\ UNCHANGED <<member, rows, lent, syncing, elsewhere, runs, report>>
    BY <1>2 DEF RowIsEdited, CredentialChanges, UpstreamChanges, MemberKept
  <2> QED BY <2>1 DEF MemberKept, LentKept, RunKnown, ToldTruly, RowsAreAuthenticated,
                      HealthIsEarned, Started
<1>0. Discreet(Authenticate(NewConnector))
  BY NewIsDiscreet, AuthenticateIsDiscreet DEF MemberKept
<1>3. CASE BuildMetricSources
  <2>0. PICK o : o = Authenticate(NewConnector) OBVIOUS
  <2>1. /\ member' = <<o>> /\ rows' = <<>>
        /\ UNCHANGED <<credential, lent, syncing, elsewhere, runs, report>>
    BY <1>3, <2>0 DEF BuildMetricSources
  <2>2. Discreet(o) /\ o \in ConnectorObject BY <1>0, <2>0 DEF Discreet
  <2>3. member'[1] = o /\ member' \in Optional(ConnectorObject) BY <2>1, <2>2, Optionals
  <2>4. MemberKept' BY <2>1, <2>2, <2>3 DEF MemberKept, RowsAreAuthenticated
  <2> QED BY <2>1, <2>4 DEF LentKept, RunKnown, ToldTruly, HealthIsEarned, Started
<1>4. CASE FetchRows
  <2>1. /\ member # <<>> /\ rows' = <<member[1].authenticated /\ Works(member[1].client)>>
        /\ UNCHANGED <<credential, member, lent, syncing, elsewhere, runs, report>>
    BY <1>4 DEF FetchRows
  <2>2. rows' = <<TRUE>> => member[1].authenticated BY <2>1
  <2>3. member[1].authenticated => member[1].error = <<>>
    BY <2>1 DEF MemberKept, Discreet
  <2>4. MemberKept' BY <2>1, <2>2, <2>3 DEF MemberKept, RowsAreAuthenticated
  <2> QED BY <2>1, <2>4 DEF LentKept, RunKnown, ToldTruly, HealthIsEarned, Started
<1>5. CASE ReportsDisabled
  <2>0. PICK error : error = <<[why |-> "disabled", shows |-> "nothing"]>> OBVIOUS
  <2>1. /\ lent = <<>> /\ report' = Entry(FALSE, error)
        /\ UNCHANGED <<credential, member, rows, lent, syncing, elsewhere, runs>>
    BY <1>5, <2>0 DEF ReportsDisabled
  <2>2. Clean(error)
    <3>1. [why |-> "disabled", shows |-> "nothing"] \in Message BY DEF Message, Reasons, Shown
    <3> QED BY <2>0, <3>1 DEF Clean, Optional
  <2>3. ToldTruly' BY <2>1, <2>2, EntryIsEarned
  <2> QED BY <2>1, <2>3 DEF MemberKept, LentKept, RunKnown, RowsAreAuthenticated, Started
<1>6. CASE Reports
  <2>0. PICK tried, o : tried = Authenticate(NewConnector) /\ o = Close(tried) OBVIOUS
  <2>1. /\ lent = <<>> /\ lent' = <<o>> /\ report' = Entry(tried.authenticated, tried.error)
        /\ UNCHANGED <<credential, member, rows, syncing, elsewhere, runs>>
    BY <1>6, <2>0 DEF Reports
  <2>2. Discreet(tried) BY <1>0, <2>0
  <2>3. Discreet(o) /\ o.secret = "none" /\ o.client \notin Credentials BY <2>0, <2>2, CloseForgets
  <2>4. /\ tried.authenticated \in BOOLEAN /\ Clean(tried.error)
        /\ tried.error # <<>> => ~tried.authenticated
    BY <2>2 DEF Discreet, ConnectorObject
  <2>5. ToldTruly' BY <2>1, <2>4, EntryIsEarned
  <2>6. o \in ConnectorObject BY <2>3 DEF Discreet
  <2>7. lent'[1] = o /\ lent' # <<>> /\ lent' \in Optional(ConnectorObject)
    BY <2>1, <2>6, Optionals
  <2>8. LentKept' BY <2>1, <2>3, <2>7 DEF LentKept
  <2> QED BY <2>1, <2>5, <2>8 DEF MemberKept, RunKnown, RowsAreAuthenticated, Started
<1>7. CASE ReportIsSent
  <2>1. /\ report # <<>> /\ lent' = <<>> /\ report' = <<>>
        /\ UNCHANGED <<credential, member, rows, syncing, elsewhere, runs>>
    BY <1>7 DEF ReportIsSent
  <2>2. ~syncing BY <2>1 DEF LentKept
  <2> QED BY <2>1, <2>2 DEF MemberKept, LentKept, RunKnown, ToldTruly, RowsAreAuthenticated,
                            HealthIsEarned, Optional, Started
<1>8. CASE SyncStarts
  <2>0. PICK o : o = Authenticate(NewConnector) OBVIOUS
  <2>1. /\ lent' = <<o>> /\ syncing' = TRUE /\ StartRun("here") /\ report = <<>>
        /\ UNCHANGED <<credential, member, rows, elsewhere, report>>
    BY <1>8, <2>0 DEF SyncStarts
  <2>2. Discreet(o) /\ o \in ConnectorObject BY <1>0, <2>0 DEF Discreet
  <2>3. lent'[1] = o /\ lent' # <<>> /\ lent' \in Optional(ConnectorObject)
    BY <2>1, <2>2, Optionals
  <2>4. RunKnown' /\ runs'.status = "running" BY <2>1, RunStarts DEF StartRun, RunKnown
  <2>5. LentKept' BY <2>1, <2>2, <2>3 DEF LentKept
  <2> QED BY <2>1, <2>4, <2>5 DEF MemberKept, ToldTruly, RowsAreAuthenticated, HealthIsEarned,
                                  Started
<1>9. CASE SyncStartsElsewhere
  <2>1. /\ StartRun("elsewhere")
        /\ UNCHANGED <<credential, member, rows, lent, syncing, report>>
    BY <1>9 DEF SyncStartsElsewhere
  <2>2. RunKnown' /\ runs'.status = "running" BY <2>1, RunStarts DEF StartRun, RunKnown
  <2> QED BY <2>1, <2>2 DEF MemberKept, LentKept, ToldTruly, RowsAreAuthenticated, HealthIsEarned,
                            Started
<1>10. CASE SyncEnds
  <2>1. /\ syncing /\ lent' = <<>> /\ syncing' = FALSE
        /\ UNCHANGED <<credential, member, rows, elsewhere, report>>
    BY <1>10 DEF SyncEnds
  <2>2. PICK result \in Results(lent[1]) : EndRun("here", result) BY <1>10 DEF SyncEnds
  <2>3. Discreet(lent[1]) /\ runs.status # "never_synced" BY <2>1 DEF LentKept, Started
  <2>4. RunKnown' BY <2>2, <2>3, RunEnds
  <2>5. runs'.status # "never_synced"
    BY <2>2, <2>3, ResultsAreClean DEF EndRun, RunKnown
  <2> QED BY <2>1, <2>4, <2>5 DEF LentKept, MemberKept, ToldTruly, RowsAreAuthenticated,
                                  HealthIsEarned, Optional, Started
<1>11. CASE SyncEndsElsewhere
  <2>1. /\ elsewhere /\ elsewhere' = FALSE
        /\ UNCHANGED <<credential, member, rows, lent, syncing, report>>
    BY <1>11 DEF SyncEndsElsewhere
  <2>2. RunKnown' /\ runs'.status # "never_synced"
    <3>1. CASE UNCHANGED runs BY <2>1, <3>1 DEF RunKnown, Started
    <3>2. CASE \E result \in Results(Authenticate(NewConnector)) : EndRun("elsewhere", result)
      <4>1. PICK result \in Results(Authenticate(NewConnector)) : EndRun("elsewhere", result)
        BY <3>2
      <4>2. runs.status # "never_synced" BY <2>1 DEF Started
      <4>3. RunKnown' BY <1>0, <4>1, <4>2, RunEnds
      <4> QED BY <1>0, <4>1, <4>2, <4>3, ResultsAreClean DEF EndRun, RunKnown
    <3> QED BY <1>11, <3>1, <3>2 DEF SyncEndsElsewhere
  <2> QED BY <2>1, <2>2 DEF LentKept, MemberKept, ToldTruly, RowsAreAuthenticated,
                            HealthIsEarned, Started
<1>12. CASE ProcessRestarts
  BY <1>12 DEF ProcessRestarts, MemberKept, LentKept, RunKnown, ToldTruly, RowsAreAuthenticated,
               HealthIsEarned, Optional, Started
<1>13. CASE SuccessAges
  <2>1. PICK age \in {"old", "unreadable"} : runs' = [runs EXCEPT !.succeeded = <<age>>]
    BY <1>13 DEF SuccessAges
  <2>2. /\ runs.succeeded # <<>>
        /\ UNCHANGED <<credential, member, rows, lent, syncing, elsewhere, report>>
    BY <1>13 DEF SuccessAges
  <2>3. <<age>> \in Optional({"fresh", "old", "unreadable"}) BY <2>1, Optionals
  <2>4. RunKnown' /\ runs'.status = runs.status
    <3>1. runs' = [status |-> runs.status, by |-> runs.by, error |-> runs.error,
                   succeeded |-> <<age>>]
      BY <2>1 DEF RunKnown
    <3> QED BY <2>2, <2>3, <3>1 DEF RunKnown
  <2> QED BY <2>2, <2>4 DEF LentKept, MemberKept, ToldTruly, RowsAreAuthenticated,
                            HealthIsEarned, Started
<1> QED
  BY <1>1, <1>2, <1>3, <1>4, <1>5, <1>6, <1>7, <1>8, <1>9, <1>10, <1>11, <1>12, <1>13
  DEF ConnectorNext

(* A credential of six characters or more is shown to nobody; a connector   *)
(* is told healthy only if the report just reached it, no ended run is the  *)
(* newest and failed, and its last success is not known to be old; and the  *)
(* monitor gets rows only while it is authenticated, whatever fails when and*)
(* whatever other instances do (connectors/base.py:119, 144,                *)
(* connectors/health.py:304).                                               *)
THEOREM ConnectorsAreSound == ConnectorSpec => []ConnectorsSound
<1>1. ConnectorInvariant => ConnectorsSound
  <2> SUFFICES ASSUME ConnectorInvariant PROVE ConnectorsSound
    OBVIOUS
  <2>1. \A o \in Objects : o[1].error # <<>> => o[1].error[1].shows # "long"
    BY DEF Objects, ConnectorInvariant, MemberKept, LentKept, Discreet, Clean
  <2>2. runs.error # <<>> => runs.error[1].shows # "long"
    BY DEF ConnectorInvariant, RunKnown, Clean
  <2>3. report # <<>> /\ report[1].entry.error # <<>> => report[1].entry.error[1].shows # "long"
    BY DEF ConnectorInvariant, ToldTruly, Clean
  <2>4. \A m \in MessagesKept : m # <<>> => m[1].shows # "long"
    BY <2>1, <2>2, <2>3 DEF MessagesKept
  <2>5. NothingLeaks BY <2>4 DEF NothingLeaks, ConnectorInvariant, LentKept
  <2> QED BY <2>5 DEF ConnectorsSound, ConnectorInvariant, MemberKept, ToldTruly
<1>2. ConnectorInit => Started BY DEF ConnectorInit, Started
<1> QED BY InitConnector, StepConnector, <1>1, <1>2, PTL DEF ConnectorSpec

-----------------------------------------------------------------------------
(* Who may do what *)

EntryPath(i) == EndpointRBAC[i][1]
Grants == {"actions:approve", "actions:execute", "admin:config", "documents:ingest",
           "documents:search", "incidents:resolve", "incidents:view", "kpis:read",
           "kpis:trigger", "logs:view"}

LEMMA EntryPaths ==
  /\ DOMAIN EndpointRBAC = 1..37
  /\ \A i \in 1..37 : Len(EntryPath(i)) \in {1, 2} /\ EndpointRBAC[i][2] \in Grants
<1>1. DOMAIN EndpointRBAC = 1..37
  BY DEF EndpointRBAC, LearningEntries, LearningReads, LearningRest
<1>2. ASSUME NEW i \in 1..37 PROVE Len(EntryPath(i)) \in {1, 2} /\ EndpointRBAC[i][2] \in Grants
  <2>1. i \in {1, 2, 3, 4, 5, 6, 7, 8, 9, 10, 11, 12, 13, 14, 15, 16, 17, 18, 19, 20,
               21, 22, 23, 24, 25, 26, 27, 28, 29, 30, 31, 32, 33, 34, 35, 36, 37}
    OBVIOUS
  <2>2. Len(EntryPath(i)) \in {1, 2}
    BY <2>1 DEF EntryPath, EndpointRBAC, LearningEntries, LearningReads, LearningRest
  <2>3. EndpointRBAC[i][2] \in Grants
    BY <2>1 DEF Grants, EndpointRBAC, LearningEntries, LearningReads, LearningRest
  <2> QED BY <2>2, <2>3
<1> QED BY <1>1, <1>2

(* No entry of the table is hidden behind an earlier one that every path    *)
(* with its prefix has, too.                                                *)
LEMMA NoneIsHidden ==
  ASSUME NEW i \in 1..37, NEW j \in 1..37, i < j
  PROVE  \/ EntryPath(i)[1] # EntryPath(j)[1]
         \/ /\ Len(EntryPath(i)) = 2
            /\ Len(EntryPath(j)) = 2 => EntryPath(i)[2] # EntryPath(j)[2]
<1>1. i \in {1, 2, 3, 4, 5, 6, 7, 8, 9, 10, 11, 12, 13, 14, 15, 16, 17, 18, 19, 20,
             21, 22, 23, 24, 25, 26, 27, 28, 29, 30, 31, 32, 33, 34, 35, 36, 37}
      /\ j \in {1, 2, 3, 4, 5, 6, 7, 8, 9, 10, 11, 12, 13, 14, 15, 16, 17, 18, 19, 20,
                21, 22, 23, 24, 25, 26, 27, 28, 29, 30, 31, 32, 33, 34, 35, 36, 37}
  OBVIOUS
<1> QED
  BY SMTT(60), <1>1 DEF EntryPath, EndpointRBAC, LearningEntries, LearningReads, LearningRest

LEMMA PrefixMeans ==
  ASSUME NEW p, NEW q, Len(p) \in Nat, IsPrefix(p, q)
  PROVE  \A k \in 1..Len(p) : p[k] = q[k]
<1>1. SubSeq(p, 1, Len(p)) = SubSeq(q, 1, Len(p)) BY DEF IsPrefix
<1> DEFINE n == Len(p)
           S == {p[k] : k \in 1..n} \cup {q[k] : k \in 1..n}
<1>2. /\ \A k \in 1..n : p[k] \in S /\ q[k] \in S
      /\ n \in Int /\ 1 \in Int /\ \A k \in 1..n : k \in 1..(n - 1 + 1) /\ 1 + k - 1 = k
  OBVIOUS
<1> HIDE DEF n, S
<1>3. \A k \in 1..(n - 1 + 1) : SubSeq(p, 1, n)[k] = p[1 + k - 1] BY <1>2, SubSeqProperties
<1>4. \A k \in 1..(n - 1 + 1) : SubSeq(q, 1, n)[k] = q[1 + k - 1] BY <1>2, SubSeqProperties
<1> QED BY <1>1, <1>2, <1>3, <1>4 DEF n

LEMMA LeastNumber ==
  ASSUME NEW T, T \subseteq Nat, T # {}
  PROVE  \E i \in T : \A j \in T : i <= j
<1> DEFINE R == {ss \in Nat \X Nat : ss[1] < ss[2]}
<1>1. IsWellFoundedOn(R, Nat) BY NatLessThanWellFounded DEF OpToRel
<1> HIDE DEF R
<1>2. PICK i \in T : \A j \in T : <<j, i>> \notin R BY <1>1, WFMin
<1>3. ASSUME NEW j \in T PROVE i <= j
  <2>1. i \in Nat /\ j \in Nat OBVIOUS
  <2>2. j < i => <<j, i>> \in R BY <2>1 DEF R
  <2> QED BY <1>2, <2>1, <2>2
<1> QED BY <1>3

Matching(path) == {i \in DOMAIN EndpointRBAC : IsPrefix(EntryPath(i), path)}
FirstOf(path) == CHOOSE i \in Matching(path) : \A j \in Matching(path) : i <= j

(* The first entry that matches is longer than all others that do.          *)
LEMMA FirstIsLongest ==
  ASSUME NEW path, Matching(path) # {}
  PROVE  /\ FirstOf(path) \in Matching(path)
         /\ \A j \in Matching(path) \ {FirstOf(path)} :
              Len(EntryPath(j)) < Len(EntryPath(FirstOf(path)))
<1> DEFINE M == Matching(path)
           i == FirstOf(path)
<1>1. M \subseteq 1..37 /\ M # {} BY EntryPaths DEF Matching
<1> HIDE DEF M
<1>2. \E n \in M : \A j \in M : n <= j
  <2>1. M \subseteq Nat BY <1>1
  <2> QED BY Zenon, <1>1, <2>1, LeastNumber
<1>3. i \in M /\ \A j \in M : i <= j BY <1>2 DEF FirstOf, M
<1> HIDE DEF i
<1>4. ASSUME NEW j \in M \ {i} PROVE Len(EntryPath(j)) < Len(EntryPath(i))
  <2>1. i \in 1..37 /\ j \in 1..37 /\ i < j BY <1>1, <1>3, <1>4
  <2>2. IsPrefix(EntryPath(i), path) /\ IsPrefix(EntryPath(j), path)
    BY <1>3, <1>4 DEF Matching, M
  <2>3. Len(EntryPath(i)) \in {1, 2} /\ Len(EntryPath(j)) \in {1, 2} BY <2>1, EntryPaths
  <2>4. Len(EntryPath(i)) \in Nat /\ Len(EntryPath(j)) \in Nat BY <2>3
  <2>5. /\ \A k \in 1..Len(EntryPath(i)) : EntryPath(i)[k] = path[k]
        /\ \A k \in 1..Len(EntryPath(j)) : EntryPath(j)[k] = path[k]
    BY <2>2, <2>4, PrefixMeans
  <2>6. EntryPath(i)[1] = EntryPath(j)[1] BY <2>3, <2>5
  <2>7. Len(EntryPath(i)) = 2 /\ Len(EntryPath(j)) = 2 => EntryPath(i)[2] = EntryPath(j)[2]
    BY <2>5
  <2>8. \/ EntryPath(i)[1] # EntryPath(j)[1]
        \/ /\ Len(EntryPath(i)) = 2
           /\ Len(EntryPath(j)) = 2 => EntryPath(i)[2] # EntryPath(j)[2]
    BY <2>1, NoneIsHidden
  <2>9. Len(EntryPath(i)) = 2 /\ Len(EntryPath(j)) # 2 BY Zenon, <2>6, <2>7, <2>8
  <2>10. Len(EntryPath(j)) = 1 BY Zenon, <2>3, <2>9
  <2> QED BY <2>9, <2>10
<1> QED
  <2> USE DEF i, M
  <2> QED BY Zenon, <1>3, <1>4

(* The entries that match a request, and what the most specific of them     *)
(* says.                                                                    *)
EntriesOf(path) == {e \in ToSet(EndpointRBAC) : IsPrefix(e[1], path)}

PermittedBySpecific(request) ==
  \A e \in EntriesOf(request.path) :
    \/ \E f \in EntriesOf(request.path) : Len(f[1]) > Len(e[1])
    \/ CheckPermission(ExtractRoles(request.token), e[2])

LEMMA EntriesMatch ==
  ASSUME NEW path
  PROVE  EntriesOf(path) = {EndpointRBAC[i] : i \in Matching(path)}
BY DEF EntriesOf, Matching, EntryPath, ToSet

LEMMA FirstDecides ==
  ASSUME NEW request
  PROVE  Permitted(request) <=> PermittedBySpecific(request)
<1> DEFINE path == request.path
           M == Matching(path)
           i == FirstOf(path)
           May(e) == CheckPermission(ExtractRoles(request.token), e[2])
<1>1. CASE M = {}
  <2>1. ResolveRBAC(path) = "" BY <1>1 DEF ResolveRBAC, Matching, EntryPath
  <2>2. Permitted(request) BY <2>1 DEF Permitted
  <2>3. EntriesOf(path) = {} BY <1>1, EntriesMatch
  <2> QED BY <2>2, <2>3 DEF PermittedBySpecific
<1>2. CASE M # {}
  <2>1. i \in M /\ \A j \in M \ {i} : Len(EntryPath(j)) < Len(EntryPath(i))
    BY <1>2, FirstIsLongest
  <2>2. ResolveRBAC(path) = EndpointRBAC[i][2] BY <1>2 DEF ResolveRBAC, FirstOf, Matching, EntryPath
  <2>3. i \in 1..37 /\ M \subseteq 1..37 BY <2>1, EntryPaths DEF Matching
  <2>8. \A j \in M : Len(EntryPath(j)) \in Nat
    <3>1. ASSUME NEW j \in M PROVE Len(EntryPath(j)) \in {1, 2} BY <2>3, EntryPaths
    <3> QED BY <3>1
  <2>4. EndpointRBAC[i][2] # ""
    <3>1. EndpointRBAC[i][2] \in Grants BY <2>3, EntryPaths
    <3> QED BY Zenon, <3>1 DEF Grants
  <2>5. Permitted(request) <=> May(EndpointRBAC[i]) BY <2>2, <2>4 DEF Permitted
  <2>6. ASSUME May(EndpointRBAC[i]) PROVE PermittedBySpecific(request)
    <3> SUFFICES ASSUME NEW e \in EntriesOf(path)
                 PROVE  (\E f \in EntriesOf(path) : Len(f[1]) > Len(e[1])) \/ May(e)
      BY DEF PermittedBySpecific
    <3>1. PICK j \in M : e = EndpointRBAC[j] BY EntriesMatch
    <3>2. EndpointRBAC[i] \in EntriesOf(path) BY <2>1, EntriesMatch
    <3>3. CASE j = i BY <2>6, <3>1, <3>3
    <3>4. CASE j # i
      <4>1. Len(EntryPath(j)) < Len(EntryPath(i)) BY <2>1, <3>4
      <4>2. Len(EntryPath(j)) \in Nat /\ Len(EntryPath(i)) \in Nat BY <2>1, <2>8
      <4>3. Len(EndpointRBAC[i][1]) > Len(e[1]) BY <3>1, <4>1, <4>2 DEF EntryPath
      <4> QED BY <3>2, <4>3
    <3> QED BY <3>3, <3>4
  <2>7. ASSUME PermittedBySpecific(request) PROVE May(EndpointRBAC[i])
    <3>1. EndpointRBAC[i] \in EntriesOf(path) BY <2>1, EntriesMatch
    <3>2. ASSUME NEW f \in EntriesOf(path) PROVE ~(Len(f[1]) > Len(EndpointRBAC[i][1]))
      <4>1. PICK j \in M : f = EndpointRBAC[j] BY <3>2, EntriesMatch
      <4>2. j # i => Len(EntryPath(j)) < Len(EntryPath(i)) BY <2>1
      <4>3. Len(EntryPath(j)) \in Nat /\ Len(EntryPath(i)) \in Nat BY <2>1, <2>8
      <4> QED BY <4>1, <4>2, <4>3 DEF EntryPath
    <3> QED BY <2>7, <3>1, <3>2 DEF PermittedBySpecific
  <2> QED BY <2>5, <2>6, <2>7
<1> QED BY <1>1, <1>2

(* A request beyond the check of its permission is permitted, and one that  *)
(* was answered 403 is not.                                                 *)
Checked(g) ==
  gate[g].at \in {"count", "store", "handle"} =>
    Permitted(gate[g].request)

Answered403 ==
  outcome # <<>> => (outcome[1].status = 403 =>
                       ~Permitted(outcome[1].request))

AccessInvariant ==
  DOMAIN gate = Gates /\ (\A g \in Gates : Checked(g)) /\ Answered403 /\ AuditNamesThePrincipal

(* A request that is answered leaves its outcome, and the gate open.        *)
LEMMA RequestEnds ==
  ASSUME AccessInvariant, NEW g \in Gates, NEW request, NEW user, NEW status \in Nat,
         Ends(g, request, user, status),
         status # 401 => user = request.token.sub,
         status = 403 => ~Permitted(request)
  PROVE  AccessInvariant'
<1> DEFINE entry == [user |-> user, path |-> request.path,
                     status |-> IF status = 401 THEN 200 ELSE status]
<1>1. /\ gate' = [gate EXCEPT ![g] = Open]
      /\ \E trail \in AuditTrails(entry) :
           outcome' = <<[request |-> request, user |-> user, status |-> status, trail |-> trail]>>
  BY DEF Ends
<1>2. PICK trail \in AuditTrails(entry) :
        outcome' = <<[request |-> request, user |-> user, status |-> status, trail |-> trail]>>
  BY <1>1
<1> DEFINE o == outcome'[1]
<1>3. o.request = request /\ o.status = status /\ o.trail = trail BY <1>2
<1>4. trail.rows \subseteq trail.file /\ \A e \in trail.file : e = entry
  BY DEF AuditTrails
<1>5. DOMAIN gate' = Gates /\ \A c \in Gates : Checked(c)'
  BY <1>1 DEF AccessInvariant, Checked, Open
<1>6. Answered403' BY <1>3 DEF Answered403
<1>7. \A e \in trail.file : status # 401 => e.user = request.token.sub /\ e.status = status
  BY <1>4
<1>8. AuditNamesThePrincipal' BY <1>3, <1>4, <1>7 DEF AuditNamesThePrincipal
<1> QED BY <1>5, <1>6, <1>8 DEF AccessInvariant

(* A request that goes on is still the same.                                *)
LEMMA RequestGoesOn ==
  ASSUME AccessInvariant, NEW g \in Gates, NEW r, gate' = [gate EXCEPT ![g] = r],
         Permitted(r.request), UNCHANGED outcome
  PROVE  AccessInvariant'
<1>1. DOMAIN gate' = Gates /\ gate'[g] = r /\ \A c \in Gates \ {g} : gate'[c] = gate[c]
  BY DEF AccessInvariant
<1>2. \A c \in Gates : Checked(c)' BY <1>1 DEF AccessInvariant, Checked
<1> QED BY <1>1, <1>2 DEF AccessInvariant, Answered403, AuditNamesThePrincipal

LEMMA AccessBegins == AccessInit => AccessInvariant
BY DEF AccessInit, AccessInvariant, Checked, Open, Answered403, AuditNamesThePrincipal

LEMMA ChecksPermissionSafe ==
  ASSUME AccessInvariant, NEW g \in Gates, ChecksPermission(g)
  PROVE  AccessInvariant'
<1>1. PICK path \in Paths, token \in Tokens :
        LET request == [path |-> path, token |-> token]
        IN IF Permitted(request)
           THEN /\ gate' = [gate EXCEPT ![g] = [at |-> "count", request |-> request]]
                /\ UNCHANGED outcome
           ELSE Ends(g, request, token.sub, 403)
  BY DEF ChecksPermission
<1> DEFINE request == [path |-> path, token |-> token]
           r == [at |-> "count", request |-> request]
<1>2. request.path = path /\ request.token = token /\ r.request = request OBVIOUS
<1> HIDE DEF request
<1>3. CASE Permitted(request)
  <2>1. gate' = [gate EXCEPT ![g] = r] /\ UNCHANGED outcome BY <1>1, <1>3 DEF request
  <2> HIDE DEF r
  <2> QED BY <1>2, <1>3, <2>1, RequestGoesOn
<1>4. CASE ~Permitted(request)
  <2>1. Ends(g, request, token.sub, 403) BY <1>1, <1>4 DEF request
  <2> QED BY <1>2, <1>4, <2>1, RequestEnds
<1> QED BY <1>3, <1>4

LEMMA ForwardsSafe ==
  ASSUME AccessInvariant, NEW g \in Gates, gate[g].at \in {"count", "store"},
         Forwards(g, gate[g].request), UNCHANGED outcome
  PROVE  AccessInvariant'
<1> DEFINE r == [at |-> "handle", request |-> gate[g].request]
<1>1. gate' = [gate EXCEPT ![g] = r] BY DEF Forwards
<1>2. r.request = gate[g].request OBVIOUS
<1>3. Permitted(gate[g].request)
  BY DEF AccessInvariant, Checked
<1> HIDE DEF r
<1> QED BY <1>1, <1>2, <1>3, RequestGoesOn

LEMMA ReadsCountSafe ==
  ASSUME AccessInvariant, NEW g \in Gates, ReadsCount(g)
  PROVE  AccessInvariant'
<1> DEFINE request == gate[g].request
           next == Count(rateCount, RateKey(request)) + 1
           r == [at |-> "store", request |-> request, value |-> [type |-> "int", is |-> next]]
<1>1. gate[g].at = "count"
      /\ \/ Ends(g, request, request.token.sub, 429)
         \/ gate' = [gate EXCEPT ![g] = r] /\ UNCHANGED outcome
         \/ Forwards(g, request) /\ UNCHANGED outcome
  BY DEF ReadsCount
<1>2. Permitted(request) BY <1>1 DEF AccessInvariant, Checked
<1>3. r.request = request OBVIOUS
<1> HIDE DEF r
<1>4. CASE Ends(g, request, request.token.sub, 429) BY <1>4, RequestEnds
<1>5. CASE gate' = [gate EXCEPT ![g] = r] /\ UNCHANGED outcome
  BY <1>2, <1>3, <1>5, RequestGoesOn
<1>6. CASE Forwards(g, request) /\ UNCHANGED outcome BY <1>1, <1>6, ForwardsSafe
<1> QED BY <1>1, <1>4, <1>5, <1>6

(* Who may do what is decided by the most specific entry of the table, for  *)
(* every path, token and set of roles: who reaches the handler is permitted *)
(* by it, who is answered 403 is not, and everyone whose token verified is  *)
(* named in the audit (security_middleware.py:476, 564).                    *)
THEOREM AccessIsSound == AccessSpec => []AccessSound
<1>1. AccessInit => AccessInvariant BY AccessBegins
<1>2. AccessInvariant /\ [AccessNext]_accessVars => AccessInvariant'
  <2> SUFFICES ASSUME AccessInvariant, [AccessNext]_accessVars PROVE AccessInvariant'
    OBVIOUS
  <2>1. ASSUME UNCHANGED <<gate, outcome>> PROVE AccessInvariant'
    BY <2>1 DEF AccessInvariant, Checked, Answered403, AuditNamesThePrincipal
  <2>2. CASE WindowEnds BY <2>1, <2>2 DEF WindowEnds
  <2>3. CASE UNCHANGED accessVars BY <2>1, <2>3 DEF accessVars
  <2>4. ASSUME NEW g \in Gates, PassesBy(g) PROVE AccessInvariant'
    BY <2>1, <2>4 DEF PassesBy
  <2>5. ASSUME NEW g \in Gates, RefusesToken(g) PROVE AccessInvariant'
    <3>1. PICK path \in Paths, token \in Tokens :
            Ends(g, [path |-> path, token |-> token], "anonymous", 401)
      BY <2>5 DEF RefusesToken
    <3> QED BY <3>1, RequestEnds
  <2>6. ASSUME NEW g \in Gates, ChecksPermission(g) PROVE AccessInvariant'
    BY <2>6, ChecksPermissionSafe
  <2>7. ASSUME NEW g \in Gates, ReadsCount(g) PROVE AccessInvariant' BY <2>7, ReadsCountSafe
  <2>8. ASSUME NEW g \in Gates, StoresCount(g) PROVE AccessInvariant'
    BY <2>8, ForwardsSafe DEF StoresCount
  <2>9. ASSUME NEW g \in Gates, Handles(g) PROVE AccessInvariant'
    <3>1. PICK status \in {200, 404, 500} :
            Ends(g, gate[g].request, gate[g].request.token.sub, status)
      BY <2>9 DEF Handles
    <3> QED BY <3>1, RequestEnds
  <2> QED BY <2>2, <2>3, <2>4, <2>5, <2>6, <2>7, <2>8, <2>9 DEF AccessNext
<1>3. AccessInvariant => AccessSound
  <2> SUFFICES ASSUME AccessInvariant PROVE AccessSound
    OBVIOUS
  <2>2. \A g \in Gates : gate[g].at \in {"store", "handle"} => PermittedBySpecific(gate[g].request)
    BY FirstDecides DEF AccessInvariant, Checked
  <2>3. outcome # <<>> /\ outcome[1].status = 403 => ~PermittedBySpecific(outcome[1].request)
    BY FirstDecides DEF AccessInvariant, Answered403
  <2>4. MostSpecificRuleDecides
    BY <2>2, <2>3 DEF MostSpecificRuleDecides, PermittedBySpecific, EntriesOf
  <2> QED BY <2>4 DEF AccessSound, AccessInvariant
<1> QED BY <1>1, <1>2, <1>3, PTL DEF AccessSpec

-----------------------------------------------------------------------------
(* Requests of the learning agent *)

Calibrating == {"recalibrate", "restore"}

CalibratingRequest ==
  [op : Calibrating, at : {"active", "supersede", "adopt"}, target : Nat, current : Nat,
   sole : BOOLEAN]

LearnerRequest ==
  {NoRequest}
  \cup CalibratingRequest
  \cup [op : {"decide"}, at : {"look", "record"}, proposal : Proposals, verdict : Verdicts,
        late : BOOLEAN]

Calibrated == [version : Nat, status : {"active", "superseded"}]

LedgerTypes ==
  /\ calibrations \in Seq(Calibrated)
  /\ learner \in [LedgerInstances -> LearnerRequest]
  /\ proposals \in [Proposals -> {"none", "pending"} \cup Verdicts]
  /\ \A i \in LedgerInstances :
       learner[i].op \in Calibrating =>
         /\ learner[i].op = "restore" => learner[i].target \in Rows
         /\ learner[i].current \in Rows \cup {0}

(* A late verdict was found too late before, and is not about to be written.*)
LateIsKnown ==
  \A i \in LedgerInstances :
    learner[i].op = "decide" /\ learner[i].late =>
      learner[i].at = "look" /\ proposals[learner[i].proposal] \in Verdicts

(* The row in force is the only active one, or there is none yet.           *)
Held ==
  \/ inForce = 0 /\ ActiveRows = {}
  \/ inForce \in Rows /\ ActiveRows = {inForce}

(* As long as requests neither overlap nor fail one instance at most works, *)
(* and what is in force is active except between its last two statements,   *)
(* where at most the row to restore is.                                     *)
OneDecides ==
  ~ledgerFault /\ VersionsUnique =>
    /\ \A i, j \in LedgerInstances : learner[i] # NoRequest /\ learner[j] # NoRequest => i = j
    /\ (\A i \in LedgerInstances : learner[i].op \in Calibrating => learner[i].at # "adopt") => Held
    /\ \A i \in LedgerInstances :
         learner[i].op \in Calibrating =>
           /\ learner[i].at = "supersede" => learner[i].current = inForce
           /\ learner[i].at = "adopt" =>
                ActiveRows \subseteq (IF learner[i].op = "restore" THEN {learner[i].target} ELSE {})

LedgerInvariant == LedgerTypes /\ LateIsKnown /\ OneDecides

LEMMA InitLedger == LedgerInit => LedgerInvariant
<1> SUFFICES ASSUME LedgerInit PROVE LedgerInvariant
  OBVIOUS
<1>1. NoRequest \in LearnerRequest /\ NoRequest.op = "none" BY DEF NoRequest, LearnerRequest
<1>2. Rows = {} /\ ActiveRows = {} BY DEF LedgerInit, Rows, ActiveRows
<1>3. \A i \in LedgerInstances : learner[i] = NoRequest BY DEF LedgerInit
<1>4. LedgerTypes BY <1>1, <1>3 DEF LedgerInit, LedgerTypes, Calibrating
<1>5. LateIsKnown BY <1>1, <1>3 DEF LateIsKnown
<1>6. OneDecides BY <1>1, <1>2, <1>3 DEF OneDecides, Held, LedgerInit, Calibrating
<1> QED BY <1>4, <1>5, <1>6 DEF LedgerInvariant

(* Rows are never taken away, and keep their version.                       *)
VersionsKept ==
  Rows \subseteq Rows' /\ \A r \in Rows : calibrations'[r].version = calibrations[r].version

LEMMA UniqueBefore == VersionsKept /\ VersionsUnique' => VersionsUnique
  BY DEF VersionsKept, VersionsUnique

LEMMA LearnerForms ==
  /\ NoRequest \in LearnerRequest /\ NoRequest.op = "none" /\ "none" \notin Calibrating
  /\ \A r \in LearnerRequest :
       /\ r.op \in Calibrating =>
            /\ r \in CalibratingRequest
            /\ r # NoRequest
       /\ r.op = "decide" =>
            /\ r \in [op : {"decide"}, at : {"look", "record"}, proposal : Proposals,
                     verdict : Verdicts, late : BOOLEAN]
            /\ r # NoRequest
       /\ r.op \in {"none", "decide"} \cup Calibrating
  BY DEF LearnerRequest, CalibratingRequest, NoRequest, Calibrating

(* When all the others are at rest, the one that works decides alone.       *)
LEMMA Alone ==
  ASSUME NEW i \in LedgerInstances, LedgerTypes',
         ~ledgerFault' /\ VersionsUnique' =>
           /\ \A j \in LedgerInstances : j # i => learner'[j] = NoRequest
           /\ Held' \/ (learner'[i].op \in Calibrating /\ learner'[i].at = "adopt")
           /\ learner'[i].op \in Calibrating =>
                /\ learner'[i].at = "supersede" => learner'[i].current = inForce'
                /\ learner'[i].at = "adopt" =>
                     ActiveRows' \subseteq
                       (IF learner'[i].op = "restore" THEN {learner'[i].target} ELSE {})
  PROVE  OneDecides'
  BY LearnerForms DEF OneDecides

(* What a request finds when it goes on, and when it begins.                *)
LEMMA GoingOn ==
  ASSUME LedgerInvariant, NEW i \in LedgerInstances, learner[i] # NoRequest,
         ~ledgerFault, VersionsUnique
  PROVE  /\ \A j \in LedgerInstances : j # i => learner[j] = NoRequest
         /\ ~(learner[i].op \in Calibrating /\ learner[i].at = "adopt") => Held
         /\ learner[i].op \in Calibrating =>
              /\ learner[i].at = "supersede" => learner[i].current = inForce
              /\ learner[i].at = "adopt" =>
                   ActiveRows \subseteq
                     (IF learner[i].op = "restore" THEN {learner[i].target} ELSE {})
<1>1. \A j \in LedgerInstances : j # i => learner[j] = NoRequest
  BY DEF LedgerInvariant, OneDecides
<1>2. \A j \in LedgerInstances : j # i => learner[j].op \notin Calibrating
  BY <1>1, LearnerForms
<1>3. ~(learner[i].op \in Calibrating /\ learner[i].at = "adopt") => Held
  BY <1>2 DEF LedgerInvariant, OneDecides
<1> QED BY <1>1, <1>3 DEF LedgerInvariant, OneDecides

LEMMA Resting ==
  ASSUME LedgerInvariant, AtRest, ~ledgerFault, VersionsUnique
  PROVE  Held
<1>1. \A j \in LedgerInstances : learner[j].op \notin Calibrating
  BY LearnerForms DEF AtRest
<1> QED BY <1>1 DEF LedgerInvariant, OneDecides

(* A request begins: nothing but the request is new.                        *)
LEMMA Begins ==
  ASSUME LedgerInvariant, NEW i \in LedgerInstances, NEW request \in LearnerRequest,
         Begin(i, request), UNCHANGED <<calibrations, inForce>>,
         proposals' \in [Proposals -> {"none", "pending"} \cup Verdicts],
         \A p \in Proposals : proposals[p] \in Verdicts => proposals'[p] \in Verdicts,
         request.op \in Calibrating =>
           /\ request.at = "active" /\ request.current = 0
           /\ request.op = "restore" => request.target \in Rows,
         request.op = "decide" /\ request.late =>
           request.at = "look" /\ proposals'[request.proposal] \in Verdicts
  PROVE  LedgerInvariant'
<1>1. /\ learner' = [learner EXCEPT ![i] = request] /\ learner[i] = NoRequest
      /\ ~ledgerFault' => ~ledgerFault /\ AtRest
  BY DEF Begin
<1>2. learner'[i] = request /\ \A j \in LedgerInstances : j # i => learner'[j] = learner[j]
  BY <1>1 DEF LedgerInvariant, LedgerTypes
<1>3. Rows' = Rows /\ ActiveRows' = ActiveRows BY DEF Rows, ActiveRows
<1>4. LedgerTypes' BY <1>1, <1>2, <1>3 DEF LedgerInvariant, LedgerTypes
<1>5. LateIsKnown'
  <2>1. \A j \in LedgerInstances : learner[j].op = "decide" => learner[j].proposal \in Proposals
    BY LearnerForms DEF LedgerInvariant, LedgerTypes
  <2> QED BY <1>2, <2>1 DEF LedgerInvariant, LateIsKnown
<1>6. OneDecides'
  <2>1. ASSUME ~ledgerFault', VersionsUnique'
        PROVE  Held' /\ \A j \in LedgerInstances : j # i => learner'[j] = NoRequest
    <3>1. VersionsUnique BY <2>1 DEF VersionsUnique, Rows
    <3>2. Held BY <1>1, <2>1, <3>1, Resting
    <3> QED BY <1>1, <1>2, <1>3, <2>1, <3>2 DEF Held, AtRest
  <2> QED BY <1>2, <1>4, <2>1, Alone
<1> QED BY <1>4, <1>5, <1>6 DEF LedgerInvariant

(* A request ends, or looks at its proposal, and no calibration changes.    *)
LEMMA Settles ==
  ASSUME LedgerInvariant, NEW i \in LedgerInstances, NEW request \in LearnerRequest,
         learner' = [learner EXCEPT ![i] = request], learner[i] # NoRequest,
         UNCHANGED <<calibrations, inForce>>,
         proposals' \in [Proposals -> {"none", "pending"} \cup Verdicts],
         \A p \in Proposals : proposals[p] \in Verdicts => proposals'[p] \in Verdicts,
         request.op \notin Calibrating,
         request.op = "decide" => ~request.late,
         ~ledgerFault' => ~ledgerFault /\ learner[i].op \notin Calibrating
  PROVE  LedgerInvariant'
<1>1. learner'[i] = request /\ \A j \in LedgerInstances : j # i => learner'[j] = learner[j]
  BY DEF LedgerInvariant, LedgerTypes
<1>2. Rows' = Rows /\ ActiveRows' = ActiveRows BY DEF Rows, ActiveRows
<1>3. LedgerTypes' BY <1>1, <1>2 DEF LedgerInvariant, LedgerTypes
<1>4. LateIsKnown'
  <2>1. \A j \in LedgerInstances : learner[j].op = "decide" => learner[j].proposal \in Proposals
    BY LearnerForms DEF LedgerInvariant, LedgerTypes
  <2> QED BY <1>1, <2>1 DEF LedgerInvariant, LateIsKnown
<1>5. OneDecides'
  <2>1. ASSUME ~ledgerFault', VersionsUnique'
        PROVE  Held' /\ \A j \in LedgerInstances : j # i => learner'[j] = NoRequest
    <3>1. VersionsUnique BY <2>1 DEF VersionsUnique, Rows
    <3>2. Held /\ \A j \in LedgerInstances : j # i => learner[j] = NoRequest
      BY <2>1, <3>1, GoingOn
    <3> QED BY <1>1, <1>2, <2>1, <3>2 DEF Held
  <2> QED BY <1>1, <1>3, <2>1, Alone
<1> QED BY <1>3, <1>4, <1>5 DEF LedgerInvariant

LEMMA RowsAre ==
  ASSUME NEW s \in Seq(Calibrated), NEW k \in DOMAIN s
  PROVE  s[k] \in Calibrated /\ s[k].version \in Nat
<1>1. k \in 1..Len(s) /\ s \in [1..Len(s) -> Calibrated] OBVIOUS
<1>2. s[k] \in Calibrated BY <1>1
<1> QED BY <1>2 DEF Calibrated

LEMMA StatusChanges ==
  ASSUME NEW s \in Seq(Calibrated), NEW k \in DOMAIN s, NEW status \in {"active", "superseded"},
         NEW t, t = [s EXCEPT ![k].status = status]
  PROVE  /\ t \in Seq(Calibrated) /\ DOMAIN t = DOMAIN s /\ t[k].status = status
         /\ \A j \in DOMAIN s : t[j].version = s[j].version /\ (j # k => t[j] = s[j])
<1> DEFINE new == [s[k] EXCEPT !.status = status]
<1>1. s[k] \in Calibrated BY RowsAre
<1>2. new \in Calibrated /\ new.status = status /\ new.version = s[k].version
  BY <1>1 DEF Calibrated
<1>3. t = [s EXCEPT ![k] = new] OBVIOUS
<1> HIDE DEF new
<1>4. /\ DOMAIN s = 1..Len(s) /\ DOMAIN t = DOMAIN s /\ t[k] = new
      /\ \A j \in DOMAIN s : j # k => t[j] = s[j]
  BY <1>3
<1>5. t \in Seq(Calibrated) BY <1>2, <1>3
<1> QED BY <1>2, <1>4, <1>5

GoneOn(r, at, current) == [r EXCEPT !.at = at, !.current = current]

LEMMA CalibrationGoesOn ==
  ASSUME NEW r \in CalibratingRequest, NEW at \in {"supersede", "adopt"}, NEW current \in Nat
  PROVE  LET q == GoneOn(r, at, current)
         IN /\ q \in CalibratingRequest /\ q.op = r.op /\ q.at = at /\ q.target = r.target
            /\ q.current = current /\ q.sole = r.sole
<1> DEFINE p == [r EXCEPT !.at = at]
           q == GoneOn(r, at, current)
<1>1. /\ p \in CalibratingRequest /\ p.op = r.op /\ p.at = at /\ p.target = r.target
      /\ p.sole = r.sole
  BY DEF CalibratingRequest
<1>2. q = [p EXCEPT !.current = current] BY DEF GoneOn
<1> HIDE DEF p, q
<1>3. q \in CalibratingRequest BY <1>1, <1>2 DEF CalibratingRequest
<1>4. /\ q \in CalibratingRequest /\ q.op = r.op /\ q.at = at /\ q.target = r.target
      /\ q.current = current /\ q.sole = r.sole
  BY <1>1, <1>2, <1>3 DEF CalibratingRequest
<1> QED BY <1>4 DEF q

LEMMA HeldIsActive ==
  ASSUME LedgerTypes, Held
  PROVE  ActiveCalibration = {inForce} /\ Cardinality(ActiveRows) <= 1
<1>1. CASE inForce = 0 /\ ActiveRows = {}
  BY <1>1, FS_EmptySet DEF ActiveCalibration
<1>2. CASE inForce \in Rows /\ ActiveRows = {inForce}
  <2>1. calibrations[inForce].version \in Nat BY <1>2, RowsAre DEF Rows, LedgerTypes
  <2>2. ActiveCalibration = {inForce} BY <1>2, <2>1 DEF ActiveCalibration
  <2> QED BY <1>2, <2>2, FS_Singleton
<1> QED BY <1>1, <1>2 DEF Held

(* A calibrating request goes from one of its statements to the next.       *)
LEMMA Proceeds ==
  ASSUME LedgerInvariant, NEW i \in LedgerInstances, NEW at \in {"supersede", "adopt"},
         NEW current \in Rows \cup {0},
         learner[i].op \in Calibrating,
         learner' = [learner EXCEPT ![i] = [@ EXCEPT !.at = at, !.current = current]],
         VersionsKept, calibrations' \in Seq(Calibrated), UNCHANGED <<proposals, inForce>>,
         ~ledgerFault' =>
           /\ ~ledgerFault
           /\ VersionsUnique =>
                /\ at = "supersede" => Held' /\ current = inForce
                /\ at = "adopt" =>
                     ActiveRows' \subseteq
                       (IF learner[i].op = "restore" THEN {learner[i].target} ELSE {})
  PROVE  LedgerInvariant'
<1> DEFINE r == learner[i]
<1>1. r \in CalibratingRequest /\ r # NoRequest /\ current \in Nat
  BY LearnerForms DEF LedgerInvariant, LedgerTypes, Rows, CalibratingRequest
<1>2. /\ \A j \in LedgerInstances : j # i => learner'[j] = learner[j]
      /\ learner'[i] = [r EXCEPT !.at = at, !.current = current]
  BY DEF LedgerInvariant, LedgerTypes
<1>3. /\ learner'[i] \in CalibratingRequest /\ learner'[i].op = r.op /\ learner'[i].at = at
      /\ learner'[i].target = r.target /\ learner'[i].current = current
  <2> DEFINE q == learner'[i]
  <2>1. q = GoneOn(r, at, current) BY <1>2 DEF GoneOn
  <2> HIDE DEF q, r
  <2>2. /\ q \in CalibratingRequest /\ q.op = r.op /\ q.at = at /\ q.target = r.target
        /\ q.current = current
    BY <1>1, <2>1, CalibrationGoesOn
  <2> QED BY <2>2 DEF q
<1>4. LedgerTypes'
  <2>1. learner' \in [LedgerInstances -> LearnerRequest]
    BY <1>2, <1>3 DEF LedgerInvariant, LedgerTypes, LearnerRequest, CalibratingRequest
  <2>2. Rows \subseteq Rows' BY DEF VersionsKept
  <2> QED BY <1>2, <1>3, <2>1, <2>2 DEF LedgerInvariant, LedgerTypes
<1>5. LateIsKnown'
  <2>1. r.op # "decide" BY <1>1 DEF Calibrating
  <2> QED BY <1>2, <1>3, <2>1 DEF LedgerInvariant, LateIsKnown
<1>6. OneDecides'
  <2>1. ASSUME ~ledgerFault', VersionsUnique'
        PROVE  ~ledgerFault /\ VersionsUnique
               /\ \A j \in LedgerInstances : j # i => learner'[j] = NoRequest
    <3>1. VersionsUnique BY <2>1, UniqueBefore
    <3>2. \A j \in LedgerInstances : j # i => learner[j] = NoRequest
      BY <1>1, <2>1, <3>1, GoingOn
    <3> QED BY <1>2, <2>1, <3>1, <3>2
  <2> QED BY <1>3, <1>4, <2>1, Alone
<1> QED BY <1>4, <1>5, <1>6 DEF LedgerInvariant

LEMMA StepLedger == LedgerInvariant /\ [LedgerNext]_ledgerVars => LedgerInvariant'
<1> SUFFICES ASSUME LedgerInvariant, [LedgerNext]_ledgerVars PROVE LedgerInvariant'
  OBVIOUS
<1>1. CASE UNCHANGED ledgerVars
  <2>1. Rows' = Rows /\ ActiveRows' = ActiveRows BY <1>1 DEF ledgerVars, Rows, ActiveRows
  <2>2. VersionsUnique' <=> VersionsUnique BY <1>1 DEF ledgerVars, VersionsUnique, Rows
  <2>3. Held' <=> Held BY <1>1, <2>1 DEF ledgerVars, Held
  <2> QED BY <1>1, <2>1, <2>2, <2>3
          DEF ledgerVars, LedgerInvariant, LedgerTypes, LateIsKnown, OneDecides
<1> SUFFICES ASSUME NEW i \in LedgerInstances,
                    \/ Recalibrate(i) \/ RestoreCalibration(i) \/ ReadActive(i) \/ Supersede(i)
                    \/ Adopt(i) \/ ProposeThreshold(i) \/ AskVerdict(i) \/ LookAtProposal(i)
                    \/ DecideProposal(i) \/ LedgerRequestFails(i)
             PROVE  LedgerInvariant'
  BY <1>1 DEF LedgerNext
<1> DEFINE r == learner[i]
<1>0. /\ proposals \in [Proposals -> {"none", "pending"} \cup Verdicts]
      /\ calibrations \in Seq(Calibrated) /\ r \in LearnerRequest
      /\ r.op \in Calibrating =>
           /\ r.op = "restore" => r.target \in Rows
           /\ r.current \in Rows \cup {0}
  BY DEF LedgerInvariant, LedgerTypes
<1>2. CASE Recalibrate(i)
  <2> DEFINE q == [op |-> "recalibrate", at |-> "active", target |-> 0, current |-> 0,
                   sole |-> TRUE]
  <2>1. q \in LearnerRequest BY DEF LearnerRequest, CalibratingRequest, Calibrating
  <2>2. /\ q.op = "recalibrate" /\ q.at = "active" /\ q.current = 0
        /\ Begin(i, q) \/ Begin(i, NoRequest)
    BY <1>2 DEF Recalibrate
  <2> HIDE DEF q
  <2>3. UNCHANGED <<calibrations, proposals, inForce>> BY <1>2 DEF Recalibrate
  <2>4. CASE Begin(i, q) BY <1>0, <2>1, <2>2, <2>3, <2>4, Begins
  <2>5. CASE Begin(i, NoRequest) BY <1>0, <2>3, <2>5, LearnerForms, Begins
  <2> QED BY <2>2, <2>4, <2>5
<1>3. CASE RestoreCalibration(i)
  <2>1. PICK target \in Rows :
          Begin(i, [op |-> "restore", at |-> "active", target |-> target, current |-> 0,
                    sole |-> Sole(target)])
    BY <1>3 DEF RestoreCalibration
  <2> DEFINE only == Sole(target)
             q == [op |-> "restore", at |-> "active", target |-> target, current |-> 0,
                   sole |-> only]
  <2>a. only \in BOOLEAN BY DEF Sole
  <2>b. Begin(i, q) BY <2>1
  <2> HIDE DEF only
  <2>2. q \in LearnerRequest
    BY <1>0, <2>a DEF LearnerRequest, CalibratingRequest, Calibrating, Rows
  <2>3. q.op = "restore" /\ q.at = "active" /\ q.current = 0 /\ q.target = target OBVIOUS
  <2>4. Begin(i, q) BY <2>b
  <2> HIDE DEF q
  <2>5. UNCHANGED <<calibrations, proposals, inForce>> BY <1>3 DEF RestoreCalibration
  <2> QED BY <1>0, <2>2, <2>3, <2>4, <2>5, Begins
<1>4. CASE ReadActive(i)
  <2>1. /\ r.op \in Calibrating /\ r.at = "active"
        /\ UNCHANGED <<calibrations, proposals, inForce>>
    BY <1>4 DEF ReadActive, Calibrating
  <2>2. PICK current \in Rows \cup {0} :
          /\ learner' = [learner EXCEPT ![i].at = "supersede", ![i].current = current]
          /\ ~ledgerFault' => ~ledgerFault /\ current \in ActiveCalibration
    <3>1. \A c \in ActiveCalibration : c \in Rows \cup {0} BY DEF ActiveCalibration, ActiveRows
    <3> QED BY <1>4, <3>1 DEF ReadActive
  <2>3. learner' = [learner EXCEPT ![i] = [@ EXCEPT !.at = "supersede", !.current = current]]
    BY <2>2 DEF LedgerInvariant, LedgerTypes
  <2>4. Rows' = Rows /\ ActiveRows' = ActiveRows /\ VersionsKept
    BY <2>1 DEF Rows, ActiveRows, VersionsKept
  <2>5. ASSUME ~ledgerFault', VersionsUnique PROVE Held' /\ current = inForce
    <3>1. Held BY <2>1, <2>2, <2>5, GoingOn, LearnerForms, <1>0
    <3>2. current = inForce BY <2>2, <2>5, <3>1, HeldIsActive DEF LedgerInvariant
    <3> QED BY <2>1, <2>4, <3>1, <3>2 DEF Held
  <2> QED BY <1>0, <2>1, <2>2, <2>3, <2>4, <2>5, Proceeds
<1>5. CASE Supersede(i)
  <2> DEFINE other == r.op = "recalibrate"
                      \/ (r.current # 0 /\ calibrations[r.current].version # calibrations[r.target].version)
  <2>1. /\ r.op \in Calibrating /\ r.at = "supersede"
        /\ calibrations' = IF r.current # 0 /\ other
                           THEN [calibrations EXCEPT ![r.current].status = "superseded"]
                           ELSE calibrations
        /\ learner' = [learner EXCEPT ![i].at = "adopt"]
        /\ UNCHANGED <<proposals, inForce, ledgerFault>>
    BY <1>5 DEF Supersede, Calibrating
  <2>2. r \in CalibratingRequest BY <1>0, <2>1, LearnerForms
  <2>3. learner' = [learner EXCEPT ![i] = [@ EXCEPT !.at = "adopt", !.current = r.current]]
    BY <2>1, <2>2 DEF CalibratingRequest
  <2>4. CASE r.current # 0 /\ other
    <3>1. r.current \in Rows /\ calibrations' = [calibrations EXCEPT ![r.current].status = "superseded"]
      BY <1>0, <2>1, <2>4
    <3>2. /\ calibrations' \in Seq(Calibrated) /\ Rows' = Rows
          /\ \A s \in Rows : calibrations'[s].version = calibrations[s].version
          /\ \A s \in Rows : s # r.current => calibrations'[s] = calibrations[s]
          /\ calibrations'[r.current].status = "superseded"
      BY <1>0, <3>1, StatusChanges DEF Rows
    <3>3. VersionsKept BY <3>2 DEF VersionsKept
    <3>4. ActiveRows' \subseteq ActiveRows \ {r.current} BY <3>2 DEF ActiveRows
    <3>5. ASSUME ~ledgerFault', VersionsUnique PROVE ActiveRows' = {}
      <4>1. Held /\ r.current = inForce BY <1>0, <2>1, <3>5, GoingOn, LearnerForms
      <4> QED BY <3>4, <4>1 DEF Held
    <3> QED BY <1>0, <2>1, <2>3, <3>2, <3>3, <3>5, Proceeds
  <2>5. CASE ~(r.current # 0 /\ other)
    <3>1. calibrations' = calibrations BY <2>1, <2>5
    <3>2. Rows' = Rows /\ ActiveRows' = ActiveRows /\ VersionsKept
      BY <3>1 DEF Rows, ActiveRows, VersionsKept
    <3>3. ASSUME ~ledgerFault', VersionsUnique
          PROVE  ActiveRows' \subseteq (IF r.op = "restore" THEN {r.target} ELSE {})
      <4>1. Held /\ r.current = inForce BY <1>0, <2>1, <3>3, GoingOn, LearnerForms
      <4>2. CASE r.current = 0
        <5>1. 0 \notin Rows BY <1>0 DEF Rows
        <5> QED BY <3>2, <4>1, <4>2, <5>1 DEF Held
      <4>3. CASE r.current # 0
        <5>1. r.op = "restore" /\ calibrations[r.current].version = calibrations[r.target].version
          BY <2>1, <2>5, <4>3 DEF Calibrating
        <5>2. r.current = r.target BY <1>0, <2>1, <3>3, <4>3, <5>1 DEF VersionsUnique
        <5> QED BY <3>2, <4>1, <4>3, <5>1, <5>2 DEF Held
      <4> QED BY <4>2, <4>3
    <3> QED BY <1>0, <2>1, <2>3, <3>1, <3>2, <3>3, Proceeds
  <2> QED BY <2>4, <2>5
<1>6. CASE Adopt(i)
  <2> DEFINE version == IF r.current = 0 THEN 1 ELSE calibrations[r.current].version + 1
  <2>1. /\ r.op \in Calibrating /\ r.at = "adopt"
        /\ r.op = "recalibrate" =>
             /\ calibrations' = Append(calibrations, [version |-> version, status |-> "active"])
             /\ inForce' = Len(calibrations) + 1
        /\ r.op # "recalibrate" =>
             /\ calibrations' = [calibrations EXCEPT ![r.target].status = "active"]
             /\ inForce' = r.target
        /\ learner' = [learner EXCEPT ![i] = NoRequest]
        /\ UNCHANGED <<proposals, ledgerFault>>
    BY <1>6 DEF Adopt, Calibrating
  <2>2. version \in Nat BY <1>0, <2>1, RowsAre DEF Rows
  <2>3. /\ calibrations' \in Seq(Calibrated) /\ VersionsKept /\ inForce' \in Rows'
        /\ ActiveRows' = {inForce'} \cup (ActiveRows \ {inForce'})
    <3>1. CASE r.op = "recalibrate"
      <4> DEFINE n == Len(calibrations)
                 new == [version |-> version, status |-> "active"]
      <4>1. new \in Calibrated /\ new.status = "active" BY <2>2 DEF Calibrated
      <4> HIDE DEF new
      <4>2. calibrations' = Append(calibrations, new) /\ inForce' = n + 1 BY <2>1, <3>1 DEF new
      <4>3. /\ calibrations' \in Seq(Calibrated) /\ n \in Nat
            /\ Rows = 1..n /\ Rows' = 1..(n + 1)
            /\ \A s \in 1..n : calibrations'[s] = calibrations[s]
            /\ calibrations'[n + 1] = new
        BY <1>0, <4>1, <4>2 DEF Rows
      <4>4. VersionsKept BY <4>3 DEF VersionsKept
      <4>5. Rows' = Rows \cup {inForce'} /\ inForce' \notin Rows BY <4>2, <4>3
      <4>6. ActiveRows' = {inForce'} \cup (ActiveRows \ {inForce'})
        BY <4>1, <4>2, <4>3, <4>5 DEF ActiveRows
      <4> QED BY <4>3, <4>4, <4>5, <4>6
    <3>2. CASE r.op # "recalibrate"
      <4>1. r.target \in Rows /\ inForce' = r.target
            /\ calibrations' = [calibrations EXCEPT ![r.target].status = "active"]
        BY <1>0, <2>1, <3>2 DEF Calibrating
      <4>2. /\ calibrations' \in Seq(Calibrated) /\ Rows' = Rows
            /\ \A s \in Rows : calibrations'[s].version = calibrations[s].version
            /\ \A s \in Rows : s # r.target => calibrations'[s] = calibrations[s]
            /\ calibrations'[r.target].status = "active"
        BY <1>0, <4>1, StatusChanges DEF Rows
      <4>3. VersionsKept BY <4>2 DEF VersionsKept
      <4>4. ActiveRows' = {r.target} \cup (ActiveRows \ {r.target}) BY <4>1, <4>2 DEF ActiveRows
      <4> QED BY <4>1, <4>2, <4>3, <4>4
    <3> QED BY <3>1, <3>2
  <2>4. /\ learner'[i] = NoRequest
        /\ \A j \in LedgerInstances : j # i => learner'[j] = learner[j]
    BY <2>1 DEF LedgerInvariant, LedgerTypes
  <2>5. LedgerTypes'
    <3>1. Rows \subseteq Rows' BY <2>3 DEF VersionsKept
    <3> QED BY <2>1, <2>3, <2>4, <3>1, LearnerForms DEF LedgerInvariant, LedgerTypes
  <2>6. LateIsKnown'
    BY <2>1, <2>4, LearnerForms DEF LedgerInvariant, LateIsKnown
  <2>7. OneDecides'
    <3>1. ASSUME ~ledgerFault', VersionsUnique'
          PROVE  Held' /\ \A j \in LedgerInstances : j # i => learner'[j] = NoRequest
      <4>1. VersionsUnique BY <2>3, <3>1, UniqueBefore
      <4>2. /\ \A j \in LedgerInstances : j # i => learner[j] = NoRequest
            /\ ActiveRows \subseteq (IF r.op = "restore" THEN {r.target} ELSE {})
        BY <1>0, <2>1, <3>1, <4>1, GoingOn, LearnerForms
      <4>3. ActiveRows \subseteq {inForce'} BY <2>1, <4>2
      <4>4. ActiveRows' = {inForce'} BY <2>3, <4>3
      <4> QED BY <2>3, <2>4, <4>2, <4>4 DEF Held
    <3> QED BY <2>4, <2>5, <3>1, Alone, LearnerForms
  <2> QED BY <2>5, <2>6, <2>7 DEF LedgerInvariant
<1>7. CASE ProposeThreshold(i)
  <2>1. /\ Begin(i, NoRequest) /\ UNCHANGED <<calibrations, inForce>>
        /\ \E p \in Proposals : /\ proposals[p] = "none"
                                /\ proposals' = [proposals EXCEPT ![p] = "pending"]
    BY <1>7 DEF ProposeThreshold
  <2>2. /\ proposals' \in [Proposals -> {"none", "pending"} \cup Verdicts]
        /\ \A p \in Proposals : proposals[p] \in Verdicts => proposals'[p] \in Verdicts
    BY <1>0, <2>1 DEF Verdicts
  <2> QED BY <2>1, <2>2, Begins, LearnerForms
<1>8. CASE AskVerdict(i)
  <2>1. PICK p \in Proposals, v \in Verdicts :
          Begin(i, [op |-> "decide", at |-> "look", proposal |-> p, verdict |-> v,
                    late |-> proposals[p] \in Verdicts])
    BY <1>8 DEF AskVerdict
  <2> DEFINE late == proposals[p] \in Verdicts
             q == [op |-> "decide", at |-> "look", proposal |-> p, verdict |-> v, late |-> late]
  <2>2. late \in BOOLEAN /\ (late => proposals[p] \in Verdicts)
    OBVIOUS
  <2>3. Begin(i, q) /\ UNCHANGED <<calibrations, proposals, inForce>>
    BY <1>8, <2>1 DEF AskVerdict
  <2> HIDE DEF late
  <2>4. /\ q \in LearnerRequest /\ q.op = "decide" /\ q.at = "look" /\ q.proposal = p
        /\ q.late = late
    BY <2>2 DEF LearnerRequest
  <2> HIDE DEF q
  <2>5. q.op \notin Calibrating BY <2>4 DEF Calibrating
  <2> QED BY <1>0, <2>2, <2>3, <2>4, <2>5, Begins
<1>9. CASE LookAtProposal(i)
  <2>1. /\ r.op = "decide" /\ r.at = "look"
        /\ learner' = [learner EXCEPT ![i] =
                         IF proposals[r.proposal] = "pending" THEN [r EXCEPT !.at = "record"]
                         ELSE NoRequest]
        /\ UNCHANGED <<calibrations, proposals, inForce, ledgerFault>>
    BY <1>9 DEF LookAtProposal
  <2>2. r \in [op : {"decide"}, at : {"look", "record"}, proposal : Proposals,
               verdict : Verdicts, late : BOOLEAN]
    BY <1>0, <2>1, LearnerForms
  <2>3. r.op \notin Calibrating /\ r # NoRequest BY <1>0, <2>1, LearnerForms DEF Calibrating
  <2>4. CASE proposals[r.proposal] = "pending"
    <3> DEFINE q == [r EXCEPT !.at = "record"]
    <3>1. ~r.late BY <2>1, <2>4 DEF LedgerInvariant, LateIsKnown, Verdicts
    <3>2. q \in LearnerRequest /\ q.op = "decide" /\ q.late = r.late
      BY <2>2 DEF LearnerRequest
    <3>3. learner' = [learner EXCEPT ![i] = q] BY <2>1, <2>4
    <3> HIDE DEF q
    <3>4. q.op \notin Calibrating BY <3>2 DEF Calibrating
    <3> QED BY <1>0, <2>1, <2>3, <3>1, <3>2, <3>3, <3>4, Settles
  <2>5. CASE proposals[r.proposal] # "pending"
    BY <1>0, <2>1, <2>3, <2>5, LearnerForms, Settles
  <2> QED BY <2>4, <2>5
<1>10. CASE DecideProposal(i)
  <2>1. /\ r.op = "decide" /\ r.at = "record"
        /\ proposals' = [proposals EXCEPT ![r.proposal] = r.verdict]
        /\ learner' = [learner EXCEPT ![i] = NoRequest]
        /\ UNCHANGED <<calibrations, inForce, ledgerFault>>
    BY <1>10 DEF DecideProposal
  <2>2. r.proposal \in Proposals /\ r.verdict \in Verdicts BY <1>0, <2>1, LearnerForms
  <2>3. r.op \notin Calibrating /\ r # NoRequest BY <1>0, <2>1, LearnerForms DEF Calibrating
  <2>4. /\ proposals' \in [Proposals -> {"none", "pending"} \cup Verdicts]
        /\ \A p \in Proposals : proposals[p] \in Verdicts => proposals'[p] \in Verdicts
    BY <1>0, <2>1, <2>2
  <2> QED BY <2>1, <2>3, <2>4, LearnerForms, Settles
<1>11. CASE LedgerRequestFails(i)
  <2>1. /\ r # NoRequest /\ learner' = [learner EXCEPT ![i] = NoRequest] /\ ledgerFault' = TRUE
        /\ UNCHANGED <<calibrations, proposals, inForce>>
    BY <1>11 DEF LedgerRequestFails
  <2> QED BY <1>0, <2>1, LearnerForms, Settles
<1> QED BY <1>2, <1>3, <1>4, <1>5, <1>6, <1>7, <1>8, <1>9, <1>10, <1>11

(* Whoever asks after a verdict was recorded changes no proposal any more.  *)
LEMMA LateChangesNothing ==
  ASSUME LedgerInvariant, [LedgerNext]_ledgerVars
  PROVE  \A i \in LedgerInstances :
           learner[i].op = "decide" /\ learner[i].late /\ learner'[i] # learner[i]
             => proposals' = proposals
<1> SUFFICES ASSUME NEW i \in LedgerInstances, learner[i].op = "decide", learner[i].late,
                    learner'[i] # learner[i]
             PROVE  proposals' = proposals
  OBVIOUS
<1>1. learner[i].at = "look" /\ learner[i] # NoRequest /\ learner[i].op \notin Calibrating
  BY LearnerForms DEF LedgerInvariant, LateIsKnown, LedgerTypes, Calibrating
<1>2. PICK j \in LedgerInstances :
        \/ Recalibrate(j) \/ RestoreCalibration(j) \/ ReadActive(j) \/ Supersede(j)
        \/ Adopt(j) \/ ProposeThreshold(j) \/ AskVerdict(j) \/ LookAtProposal(j)
        \/ DecideProposal(j) \/ LedgerRequestFails(j)
  BY DEF LedgerNext, ledgerVars
<1>3. CASE ProposeThreshold(j)
  BY <1>1, <1>3 DEF ProposeThreshold, Begin, LedgerInvariant, LedgerTypes
<1>4. CASE DecideProposal(j)
  BY <1>1, <1>4 DEF DecideProposal, LedgerInvariant, LedgerTypes
<1> QED
  BY <1>2, <1>3, <1>4 DEF Recalibrate, RestoreCalibration, ReadActive, Supersede, Adopt, AskVerdict,
                          LookAtProposal, LedgerRequestFails

LEMMA AlwaysLedger == LedgerSpec => []LedgerInvariant
  BY InitLedger, StepLedger, PTL DEF LedgerSpec

(* What an undisturbed request found: the calibration that applies, of      *)
(* which it writes the next version, or that it may put another in force.   *)
NextVersion(r) == IF r.current = 0 THEN 1 ELSE calibrations[r.current].version + 1

AsFound(r) ==
  /\ r.at # "adopt" /\ r.op = "restore" /\ r.sole => Sole(r.target)
  /\ r.at = "supersede" => r.current \in ActiveCalibration
  /\ r.at = "adopt" =>
       /\ r.op = "recalibrate" => \A s \in ActiveRows : calibrations[s].version < NextVersion(r)
       /\ r.op = "restore" /\ r.sole => ActiveRows \subseteq {r.target}

ServedInvariant ==
  /\ served = "sole" => /\ ActiveCalibration = {inForce}
                        /\ \A i \in LedgerInstances : learner[i].op \notin Calibrating
  /\ ~disturbed =>
       /\ \A i, j \in LedgerInstances : learner[i] # NoRequest /\ learner[j] # NoRequest => i = j
       /\ \A i \in LedgerInstances : learner[i].op \in Calibrating => AsFound(learner[i])

(* No calibration changes, and the request is about none.                   *)
LEMMA ServedBeside ==
  ASSUME LedgerInvariant, ServedInvariant, NEW i \in LedgerInstances, NEW request,
         learner' = [learner EXCEPT ![i] = request], request.op \notin Calibrating,
         UNCHANGED <<calibrations, inForce>>, served' = served,
         ~disturbed' => AtRest \/ (~disturbed /\ learner[i] # NoRequest)
  PROVE  ServedInvariant'
<1>1. learner'[i] = request /\ \A j \in LedgerInstances : j # i => learner'[j] = learner[j]
  BY DEF LedgerInvariant, LedgerTypes
<1>2. UNCHANGED ActiveCalibration BY DEF ActiveCalibration, ActiveRows, Rows
<1>3. ASSUME ~disturbed', NEW j \in LedgerInstances, j # i PROVE learner'[j] = NoRequest
  BY <1>1, <1>3 DEF ServedInvariant, AtRest
<1>4. NoRequest.op \notin Calibrating BY LearnerForms
<1> QED BY <1>1, <1>2, <1>3, <1>4 DEF ServedInvariant

(* A request for a calibration begins.                                      *)
LEMMA ServedBegins ==
  ASSUME LedgerInvariant, ServedInvariant, NEW i \in LedgerInstances, NEW request,
         Begin(i, request), request.op \in Calibrating, request.at = "active",
         request.op = "restore" /\ request.sole => Sole(request.target),
         UNCHANGED <<calibrations, inForce>>
  PROVE  ServedInvariant'
<1>1. /\ learner' = [learner EXCEPT ![i] = request] /\ served' = "no"
      /\ ~disturbed' => AtRest
  BY DEF Begin, Calibrating
<1>2. learner'[i] = request /\ \A j \in LedgerInstances : j # i => learner'[j] = learner[j]
  BY <1>1 DEF LedgerInvariant, LedgerTypes
<1>3. ASSUME ~disturbed', NEW j \in LedgerInstances, j # i
      PROVE  learner'[j] = NoRequest /\ learner'[j].op \notin Calibrating
  BY <1>1, <1>2, <1>3, LearnerForms DEF AtRest
<1>4. AsFound(request)' BY DEF AsFound, Sole, ActiveRows, Rows
<1>5. AsFound(learner[i])' BY <1>2, <1>4 DEF AsFound, NextVersion
<1> QED BY <1>1, <1>3, <1>5 DEF ServedInvariant

(* It goes from one statement to the next.                                  *)
LEMMA ServedGoesOn ==
  ASSUME LedgerInvariant, ServedInvariant, NEW i \in LedgerInstances, NEW request,
         learner' = [learner EXCEPT ![i] = request], learner[i].op \in Calibrating,
         UNCHANGED <<inForce, served>>, ~disturbed' => ~disturbed,
         ~disturbed' => AsFound(request)'
  PROVE  ServedInvariant'
<1>1. learner'[i] = request /\ \A j \in LedgerInstances : j # i => learner'[j] = learner[j]
  BY DEF LedgerInvariant, LedgerTypes
<1>2. served # "sole" BY DEF ServedInvariant
<1>3. learner[i] # NoRequest BY LearnerForms
<1>4. ASSUME ~disturbed', NEW j \in LedgerInstances, j # i
      PROVE  learner'[j] = NoRequest /\ learner'[j].op \notin Calibrating
  BY <1>1, <1>3, <1>4, LearnerForms DEF ServedInvariant
<1>5. ~disturbed' => AsFound(learner[i])' BY <1>1 DEF AsFound, NextVersion
<1> QED BY <1>2, <1>4, <1>5 DEF ServedInvariant

LEMMA ServedSteps == LedgerInvariant /\ ServedInvariant /\ [LedgerNext]_ledgerVars => ServedInvariant'
<1> SUFFICES ASSUME LedgerInvariant, ServedInvariant, [LedgerNext]_ledgerVars PROVE ServedInvariant'
  OBVIOUS
<1>1. CASE UNCHANGED ledgerVars
  <2>1. UNCHANGED <<ActiveCalibration, ActiveRows, Rows>>
    BY <1>1 DEF ledgerVars, ActiveCalibration, ActiveRows, Rows
  <2>2. ASSUME NEW r PROVE AsFound(r)' <=> AsFound(r)
    BY <1>1, <2>1 DEF ledgerVars, AsFound, NextVersion, Sole
  <2>3. UNCHANGED <<learner, served, disturbed, inForce>> BY <1>1 DEF ledgerVars
  <2>4. ASSUME NEW j \in LedgerInstances PROVE AsFound(learner[j])' <=> AsFound(learner[j])
    BY <1>1, <2>1 DEF ledgerVars, AsFound, NextVersion, Sole
  <2> QED BY <2>1, <2>3, <2>4 DEF ServedInvariant
<1> SUFFICES ASSUME NEW i \in LedgerInstances,
                    \/ Recalibrate(i) \/ RestoreCalibration(i) \/ ReadActive(i) \/ Supersede(i)
                    \/ Adopt(i) \/ ProposeThreshold(i) \/ AskVerdict(i) \/ LookAtProposal(i)
                    \/ DecideProposal(i) \/ LedgerRequestFails(i)
             PROVE  ServedInvariant'
  BY <1>1 DEF LedgerNext
<1> DEFINE r == learner[i]
<1>0. /\ calibrations \in Seq(Calibrated) /\ r \in LearnerRequest
      /\ r.op \in Calibrating =>
           /\ r.op = "restore" => r.target \in Rows
           /\ r.current \in Rows \cup {0}
      /\ 0 \notin Rows /\ \A s \in Rows : calibrations[s].version \in Nat
  <2>1. calibrations \in Seq(Calibrated) BY DEF LedgerInvariant, LedgerTypes
  <2>2. \A s \in Rows : calibrations[s].version \in Nat BY <2>1, RowsAre DEF Rows
  <2> QED BY <2>1, <2>2 DEF LedgerInvariant, LedgerTypes, Rows
<1>2. CASE Recalibrate(i)
  <2>1. UNCHANGED <<calibrations, inForce>> BY <1>2 DEF Recalibrate
  <2>2. CASE Begin(i, NoRequest)
    BY <2>1, <2>2, LearnerForms, ServedBeside DEF Begin, Calibrating
  <2> DEFINE q == [op |-> "recalibrate", at |-> "active", target |-> 0, current |-> 0,
                   sole |-> TRUE]
  <2>3. CASE Begin(i, q)
    <3>1. q.op \in Calibrating /\ q.op # "restore" /\ q.at = "active" BY DEF Calibrating
    <3> HIDE DEF q
    <3> QED BY <2>1, <2>3, <3>1, ServedBegins
  <2> QED BY <1>2, <2>2, <2>3 DEF Recalibrate
<1>3. CASE RestoreCalibration(i)
  <2>1. PICK target \in Rows :
          Begin(i, [op |-> "restore", at |-> "active", target |-> target, current |-> 0,
                    sole |-> Sole(target)])
    BY <1>3 DEF RestoreCalibration
  <2>2. PICK q : /\ q = [op |-> "restore", at |-> "active", target |-> target, current |-> 0,
                         sole |-> Sole(target)]
    OBVIOUS
  <2>3. q.op \in Calibrating /\ q.at = "active" /\ (q.sole => Sole(q.target))
    BY <2>2 DEF Calibrating
  <2>4. Begin(i, q) BY <2>1, <2>2
  <2>5. UNCHANGED <<calibrations, inForce>> BY <1>3 DEF RestoreCalibration
  <2> QED BY <2>3, <2>4, <2>5, ServedBegins
<1>4. CASE ReadActive(i)
  <2>1. r.op \in Calibrating /\ r.at = "active" /\ UNCHANGED <<calibrations, inForce, served>>
    BY <1>4 DEF ReadActive, Calibrating
  <2>2. PICK current \in Rows \cup {0} :
          /\ learner' = [learner EXCEPT ![i].at = "supersede", ![i].current = current]
          /\ ~disturbed' => ~disturbed /\ current \in ActiveCalibration
    <3>1. \A c \in ActiveCalibration : c \in Rows \cup {0} BY DEF ActiveCalibration, ActiveRows
    <3> QED BY <1>4, <3>1 DEF ReadActive
  <2>3. PICK q : q = GoneOn(r, "supersede", current) OBVIOUS
  <2>4. learner' = [learner EXCEPT ![i] = q]
    BY <2>2, <2>3 DEF LedgerInvariant, LedgerTypes, GoneOn
  <2>5. /\ q.op = r.op /\ q.at = "supersede" /\ q.target = r.target /\ q.current = current
        /\ q.sole = r.sole
    <3>1. r \in CalibratingRequest /\ current \in Nat BY <1>0, <2>1, LearnerForms DEF Rows
    <3> HIDE DEF r
    <3> QED BY <2>3, <3>1, CalibrationGoesOn
  <2>6. ASSUME ~disturbed' PROVE AsFound(q)'
    <3>1. AsFound(r) BY <2>1, <2>2, <2>6 DEF ServedInvariant
    <3>2. r.op = "restore" /\ r.sole => Sole(r.target) BY <2>1, <3>1 DEF AsFound
    <3>3. UNCHANGED ActiveCalibration BY <2>1 DEF ActiveCalibration, ActiveRows, Rows
    <3>4. q.op = "restore" /\ q.sole => Sole(q.target)'
      BY <2>1, <2>5, <3>2 DEF Sole, ActiveRows, Rows
    <3> QED BY <2>2, <2>5, <2>6, <3>3, <3>4 DEF AsFound
  <2> QED BY <2>1, <2>2, <2>4, <2>6, ServedGoesOn
<1>5. CASE Supersede(i)
  <2> DEFINE other == r.op = "recalibrate"
                      \/ (r.current # 0 /\ calibrations[r.current].version # calibrations[r.target].version)
  <2>1. /\ r.op \in Calibrating /\ r.at = "supersede"
        /\ calibrations' = IF r.current # 0 /\ other
                           THEN [calibrations EXCEPT ![r.current].status = "superseded"]
                           ELSE calibrations
        /\ learner' = [learner EXCEPT ![i].at = "adopt"]
        /\ UNCHANGED <<inForce, served, disturbed>>
    BY <1>5 DEF Supersede, Calibrating
  <2>2. r \in CalibratingRequest /\ r.current \in Nat
    BY <1>0, <2>1, LearnerForms DEF CalibratingRequest
  <2>3. PICK q : q = GoneOn(r, "adopt", r.current) OBVIOUS
  <2>4. learner' = [learner EXCEPT ![i] = q]
    BY <2>1, <2>2, <2>3 DEF LedgerInvariant, LedgerTypes, GoneOn, CalibratingRequest
  <2>5. /\ q.op = r.op /\ q.at = "adopt" /\ q.target = r.target /\ q.current = r.current
        /\ q.sole = r.sole
    <3> HIDE DEF r
    <3> QED BY <2>2, <2>3, CalibrationGoesOn
  <2>6. /\ Rows' = Rows /\ \A s \in Rows : calibrations'[s].version = calibrations[s].version
        /\ ActiveRows' \subseteq ActiveRows
        /\ r.current # 0 /\ other => r.current \notin ActiveRows'
    <3>1. CASE r.current # 0 /\ other
      <4>1. r.current \in Rows /\ calibrations' = [calibrations EXCEPT ![r.current].status = "superseded"]
        BY <1>0, <2>1, <3>1
      <4>2. /\ Rows' = Rows
            /\ \A s \in Rows : calibrations'[s].version = calibrations[s].version
            /\ \A s \in Rows : s # r.current => calibrations'[s] = calibrations[s]
            /\ calibrations'[r.current].status = "superseded"
        BY <1>0, <4>1, StatusChanges DEF Rows
      <4> QED BY <4>2 DEF ActiveRows
    <3>2. CASE ~(r.current # 0 /\ other)
      <4>1. calibrations' = calibrations BY <2>1, <3>2
      <4> QED BY <3>2, <4>1 DEF ActiveRows, Rows
    <3> QED BY <3>1, <3>2
  <2>7. ASSUME ~disturbed' PROVE AsFound(q)'
    <3>1. AsFound(r) BY <2>1, <2>7 DEF ServedInvariant
    <3>2. r.current \in ActiveCalibration BY <2>1, <3>1 DEF AsFound
    <3>3. /\ r.current = 0 => ActiveRows = {}
          /\ r.current # 0 => /\ r.current \in ActiveRows
                              /\ \A s \in ActiveRows : calibrations[s].version <= calibrations[r.current].version
      BY <1>0, <3>2 DEF ActiveCalibration, ActiveRows
    <3>4. ASSUME NEW s \in ActiveRows' PROVE calibrations'[s].version < NextVersion(q)'
      <4>1. s \in ActiveRows /\ s \in Rows BY <2>6 DEF ActiveRows
      <4>2. r.current # 0 /\ r.current \in Rows BY <3>3, <4>1 DEF ActiveRows
      <4>3. NextVersion(q)' = calibrations[r.current].version + 1
        BY <2>5, <2>6, <4>2 DEF NextVersion
      <4> QED BY <1>0, <2>6, <3>3, <4>1, <4>2, <4>3
    <3>5. ASSUME r.op = "restore", r.sole PROVE ActiveRows' \subseteq {r.target}
      <4>1. Sole(r.target) /\ r.target \in Rows BY <1>0, <2>1, <3>1, <3>5 DEF AsFound
      <4>2. CASE r.current = 0 BY <2>6, <3>3, <4>2
      <4>3. CASE r.current # 0
        <5>1. ActiveRows \subseteq {r.current} BY <3>3, <4>1, <4>3 DEF Sole
        <5>2. CASE other BY <2>6, <4>3, <5>1, <5>2
        <5>3. CASE ~other
          <6>1. calibrations[r.current].version = calibrations[r.target].version /\ r.current \in Rows
            BY <1>0, <2>1, <4>3, <5>3
          <6>2. r.current = r.target BY <4>1, <6>1 DEF Sole
          <6> QED BY <2>6, <5>1, <6>2
        <5> QED BY <5>2, <5>3
      <4> QED BY <4>2, <4>3
    <3> QED BY <2>5, <3>4, <3>5 DEF AsFound
  <2> QED BY <2>1, <2>4, <2>7, ServedGoesOn
<1>6. CASE Adopt(i)
  <2>1. /\ r.op \in Calibrating /\ r.at = "adopt"
        /\ r.op = "recalibrate" =>
             /\ calibrations' = Append(calibrations, [version |-> NextVersion(r), status |-> "active"])
             /\ inForce' = Len(calibrations) + 1
        /\ r.op # "recalibrate" =>
             /\ calibrations' = [calibrations EXCEPT ![r.target].status = "active"]
             /\ inForce' = r.target
        /\ learner' = [learner EXCEPT ![i] = NoRequest]
        /\ served' = IF disturbed THEN "no" ELSE IF r.sole THEN "sole" ELSE "yes"
        /\ UNCHANGED disturbed
    BY <1>6 DEF Adopt, Calibrating, NextVersion
  <2>2. learner'[i] = NoRequest /\ \A j \in LedgerInstances : j # i => learner'[j] = learner[j]
    BY <2>1 DEF LedgerInvariant, LedgerTypes
  <2>3. ASSUME ~disturbed, NEW j \in LedgerInstances
        PROVE  learner'[j] = NoRequest /\ learner'[j].op \notin Calibrating
    BY <2>1, <2>2, <2>3, LearnerForms DEF ServedInvariant
  <2>4. ASSUME ~disturbed, r.sole PROVE ActiveCalibration' = {inForce'}
    <3>1. AsFound(r) BY <2>1, <2>4 DEF ServedInvariant
    <3>2. CASE r.op = "recalibrate"
      <4> DEFINE n == Len(calibrations)
                 v == NextVersion(r)
                 new == [version |-> v, status |-> "active"]
      <4>1. v \in Nat /\ \A s \in ActiveRows : calibrations[s].version < v
        BY <1>0, <2>1, <3>1, <3>2 DEF AsFound, NextVersion
      <4>2. new.status = "active" /\ new.version = v OBVIOUS
      <4>3. calibrations' = Append(calibrations, new) /\ inForce' = n + 1 BY <2>1, <3>2
      <4> HIDE DEF new, v
      <4>4. /\ n \in Nat /\ Rows = 1..n /\ Rows' = 1..(n + 1)
            /\ \A s \in 1..n : calibrations'[s] = calibrations[s]
            /\ calibrations'[n + 1] = new
        BY <1>0, <4>3 DEF Rows
      <4>5. ActiveRows' = ActiveRows \cup {n + 1} /\ n + 1 \notin ActiveRows
        BY <4>2, <4>4 DEF ActiveRows
      <4>6. \A s \in ActiveRows : calibrations'[s].version < v /\ calibrations'[s].version \in Nat
        BY <1>0, <4>1, <4>4 DEF ActiveRows
      <4>7. calibrations'[n + 1].version = v BY <4>2, <4>4
      <4> HIDE DEF n
      <4>8. ActiveCalibration' =
              {t \in ActiveRows' : \A s \in ActiveRows' : calibrations'[s].version <= calibrations'[t].version}
        BY <4>5 DEF ActiveCalibration
      <4>9. ASSUME NEW t \in ActiveRows' PROVE t \in ActiveCalibration' <=> t = n + 1
        BY <4>1, <4>5, <4>6, <4>7, <4>8, <4>9
      <4> QED BY <4>3, <4>5, <4>8, <4>9
    <3>3. CASE r.op # "recalibrate"
      <4>1. r.op = "restore" /\ r.target \in Rows /\ inForce' = r.target
            /\ calibrations' = [calibrations EXCEPT ![r.target].status = "active"]
        BY <1>0, <2>1, <3>3 DEF Calibrating
      <4>2. /\ Rows' = Rows
            /\ \A s \in Rows : calibrations'[s].version = calibrations[s].version
            /\ \A s \in Rows : s # r.target => calibrations'[s] = calibrations[s]
            /\ calibrations'[r.target].status = "active"
        BY <1>0, <4>1, StatusChanges DEF Rows
      <4>3. ActiveRows \subseteq {r.target} BY <2>1, <2>4, <3>1, <4>1 DEF AsFound
      <4>4. ActiveRows' = {r.target} BY <4>1, <4>2, <4>3 DEF ActiveRows
      <4>5. calibrations'[r.target].version \in Nat BY <1>0, <4>1, <4>2
      <4> HIDE DEF r
      <4> QED BY <4>1, <4>4, <4>5 DEF ActiveCalibration
    <3> QED BY <3>2, <3>3
  <2> QED BY <2>1, <2>3, <2>4 DEF ServedInvariant
<1>7. CASE ProposeThreshold(i)
  BY <1>7, LearnerForms, ServedBeside DEF ProposeThreshold, Begin, NoRequest
<1>8. CASE AskVerdict(i)
  <2>1. PICK p \in Proposals, v \in Verdicts :
          Begin(i, [op |-> "decide", at |-> "look", proposal |-> p, verdict |-> v,
                    late |-> proposals[p] \in Verdicts])
    BY <1>8 DEF AskVerdict
  <2>2. PICK q : q = [op |-> "decide", at |-> "look", proposal |-> p, verdict |-> v,
                      late |-> proposals[p] \in Verdicts]
    OBVIOUS
  <2>3. q.op = "decide" BY <2>2
  <2>4. Begin(i, q) /\ UNCHANGED <<calibrations, inForce>> BY <1>8, <2>1, <2>2 DEF AskVerdict
  <2> QED BY <2>3, <2>4, ServedBeside DEF Begin, Calibrating
<1>9. CASE LookAtProposal(i)
  <2>1. PICK q : learner' = [learner EXCEPT ![i] = q] /\ q.op \notin Calibrating
    <3>1. r \in [op : {"decide"}, at : {"look", "record"}, proposal : Proposals,
                 verdict : Verdicts, late : BOOLEAN]
      BY <1>0, <1>9, LearnerForms DEF LookAtProposal
    <3>2. [r EXCEPT !.at = "record"].op \notin Calibrating BY <3>1 DEF Calibrating
    <3> QED BY <1>9, <3>2, LearnerForms DEF LookAtProposal
  <2>2. r # NoRequest /\ UNCHANGED <<calibrations, inForce, served, disturbed>>
    BY <1>0, <1>9, LearnerForms DEF LookAtProposal
  <2> QED BY <2>1, <2>2, ServedBeside
<1>10. CASE DecideProposal(i)
  <2>1. r # NoRequest BY <1>0, <1>10, LearnerForms DEF DecideProposal
  <2> QED BY <1>10, <2>1, LearnerForms, ServedBeside DEF DecideProposal
<1>11. CASE LedgerRequestFails(i)
  BY <1>11, LearnerForms, ServedBeside DEF LedgerRequestFails
<1> QED BY <1>2, <1>3, <1>4, <1>5, <1>6, <1>7, <1>8, <1>9, <1>10, <1>11

(* A recalibration served undisturbed applies until the next is asked for,  *)
(* for any instances and whatever happened before it; so does a calibration *)
(* restored without a choice; and as long as no requests overlapped or      *)
(* failed and no version was given twice, what was adopted or restored last *)
(* applies and is alone active (learning_agent.py:218, 297).                *)
THEOREM LastAdoptedStays == LedgerSpec => []LastAdoptedApplies
<1>1. LedgerInvariant => OneAppliesUndisturbed
  <2> SUFFICES ASSUME LedgerInvariant, AtRest, ~ledgerFault, VersionsUnique
               PROVE  ActiveCalibration = {inForce} /\ Cardinality(ActiveRows) <= 1
    BY DEF OneAppliesUndisturbed
  <2> QED BY Resting, HeldIsActive DEF LedgerInvariant
<1>2. LedgerInit => ServedInvariant
  BY LearnerForms DEF LedgerInit, ServedInvariant
<1>3. ServedInvariant => LastServedApplies BY DEF ServedInvariant, LastServedApplies
<1> QED BY AlwaysLedger, <1>1, <1>2, <1>3, ServedSteps, PTL DEF LedgerSpec, LastAdoptedApplies

(* A verdict asked for after another was recorded is refused, however many  *)
(* requests overlap (learning_agent.py:449).                                *)
THEOREM LateVerdicts == LedgerSpec => LateVerdictRefused
<1>1. LedgerInvariant /\ [LedgerNext]_ledgerVars =>
        [\A i \in LedgerInstances :
           learner[i].op = "decide" /\ learner[i].late /\ learner'[i] # learner[i]
             => proposals' = proposals]_ledgerVars
  BY LateChangesNothing
<1> QED BY AlwaysLedger, <1>1, PTL DEF LedgerSpec, LateVerdictRefused

-----------------------------------------------------------------------------
(* What people decide about rules and memories *)

RuleStatuses == {"none", "proposed", "approved", "rejected", "retired"}
Contents == {"found", "corrected", "amended"}

RuleRequest ==
  [op : {"decide"}, at : {"look", "write"}, on : RuleIds, verdict : {"approved", "rejected"}]
  \cup [op : {"retire"}, at : {"look", "write"}, on : RuleIds, verdict : {"retired"}]

MemoryRequest ==
  [op : {"expunge"}, at : {"delete"}, on : Incidents]
  \cup [op : {"correct"}, at : {"find", "delete", "rewrite"}, on : Incidents,
        content : {"corrected", "amended"}]

CurationTypes ==
  /\ curator \in [Curators -> {NoCuration} \cup RuleRequest \cup MemoryRequest]
  /\ DOMAIN rules = RuleIds /\ \A r \in RuleIds : rules[r].status \in RuleStatuses
  /\ DOMAIN ruleOverride = CuratedHosts
  /\ memory \in [Incidents -> SUBSET Contents] /\ curated \in [Incidents -> SUBSET Contents]

(* Two requests at work on one thing have crossed.                          *)
OneCurates ==
  \A t, u \in Curators :
    t # u /\ curator[t] # NoCuration /\ curator[u] # NoCuration /\ curator[t].on = curator[u].on
      => curator[t].on \in crossed

(* What a request is about to write over is what it found.                  *)
RulesAsFound ==
  \A t \in Curators :
    curator[t] \in RuleRequest /\ curator[t].at = "write" /\ curator[t].on \notin crossed =>
      rules[curator[t].on].status = IF curator[t].op = "decide" THEN "proposed" ELSE "approved"

ApprovedIsNoted ==
  /\ \A r \in RuleIds : rules[r].status = "approved" => r \in everApproved
  /\ \A h \in CuratedHosts : ruleOverride[h] \in everApproved \cup {"none"}

(* A memory holds one entry or none, as it was left, and none between the   *)
(* two halves of a correction.                                              *)
MemoriesAsLeft ==
  /\ \A i \in Incidents :
       i \notin crossed =>
         /\ memory[i] = curated[i]
         /\ memory[i] = {} \/ \E c \in Contents : memory[i] = {c}
  /\ \A t \in Curators :
       curator[t] \in MemoryRequest /\ curator[t].at = "rewrite" /\ curator[t].on \notin crossed =>
         memory[curator[t].on] = {}

CurationInvariant ==
  CurationTypes /\ OneCurates /\ RulesAsFound /\ ApprovedIsNoted /\ MemoriesAsLeft

LEMMA CurationForms ==
  /\ NoCuration.op = "none" /\ NoCuration.on = "nothing"
  /\ NoCuration \notin RuleRequest \cup MemoryRequest
  /\ \A r \in RuleRequest :
       /\ r \notin MemoryRequest /\ r.op \in {"decide", "retire"} /\ r.on \in RuleIds
       /\ r.at \in {"look", "write"}
       /\ r.op = "decide" => r.verdict \in {"approved", "rejected"}
       /\ r.op = "retire" => r.verdict = "retired"
       /\ [r EXCEPT !.at = "write"] \in RuleRequest
       /\ [r EXCEPT !.at = "write"].at = "write" /\ [r EXCEPT !.at = "write"].on = r.on
       /\ [r EXCEPT !.at = "write"].op = r.op
  /\ \A r \in MemoryRequest :
       /\ r \notin RuleRequest /\ r.op \in {"expunge", "correct"} /\ r.on \in Incidents
       /\ r.op = "correct" =>
            /\ r.at \in {"find", "delete", "rewrite"} /\ r.content \in Contents
            /\ [r EXCEPT !.at = "delete"] \in MemoryRequest
            /\ [r EXCEPT !.at = "delete"].at = "delete" /\ [r EXCEPT !.at = "delete"].on = r.on
            /\ [r EXCEPT !.at = "rewrite"] \in MemoryRequest
            /\ [r EXCEPT !.at = "rewrite"].on = r.on
<1>1. /\ NoCuration.op = "none" /\ NoCuration.on = "nothing"
      /\ NoCuration \notin RuleRequest \cup MemoryRequest
  BY DEF NoCuration, RuleRequest, MemoryRequest
<1>2. ASSUME NEW r \in RuleRequest
      PROVE  /\ r \notin MemoryRequest /\ r.op \in {"decide", "retire"} /\ r.on \in RuleIds
             /\ r.at \in {"look", "write"}
             /\ r.op = "decide" => r.verdict \in {"approved", "rejected"}
             /\ r.op = "retire" => r.verdict = "retired"
             /\ [r EXCEPT !.at = "write"] \in RuleRequest
             /\ [r EXCEPT !.at = "write"].at = "write" /\ [r EXCEPT !.at = "write"].on = r.on
             /\ [r EXCEPT !.at = "write"].op = r.op
  BY DEF RuleRequest, MemoryRequest
<1>3. ASSUME NEW r \in MemoryRequest
      PROVE  /\ r \notin RuleRequest /\ r.op \in {"expunge", "correct"} /\ r.on \in Incidents
             /\ r.op = "correct" =>
                  /\ r.at \in {"find", "delete", "rewrite"} /\ r.content \in Contents
                  /\ [r EXCEPT !.at = "delete"] \in MemoryRequest
                  /\ [r EXCEPT !.at = "delete"].at = "delete" /\ [r EXCEPT !.at = "delete"].on = r.on
                  /\ [r EXCEPT !.at = "rewrite"] \in MemoryRequest
                  /\ [r EXCEPT !.at = "rewrite"].on = r.on
  BY DEF RuleRequest, MemoryRequest, Contents
<1> QED BY <1>1, <1>2, <1>3

LEMMA WorksOn ==
  /\ \A r \in RuleRequest : r # NoCuration /\ r.on \in RuleIds
  /\ \A r \in MemoryRequest : r # NoCuration /\ r.on \in Incidents
  BY DEF RuleRequest, MemoryRequest, NoCuration

LEMMA InitCuration == CurationInit => CurationInvariant
<1> SUFFICES ASSUME CurationInit PROVE CurationInvariant
  OBVIOUS
<1>1. CurationTypes BY DEF CurationInit, CurationTypes, NoRule, RuleStatuses, Contents
<1>2. \A t \in Curators : curator[t] = NoCuration BY DEF CurationInit
<1>3. OneCurates /\ RulesAsFound BY <1>2, CurationForms DEF OneCurates, RulesAsFound
<1>4. ApprovedIsNoted BY DEF CurationInit, ApprovedIsNoted, NoRule
<1>5. MemoriesAsLeft BY <1>2, CurationForms DEF CurationInit, MemoriesAsLeft, Contents
<1> QED BY <1>1, <1>3, <1>4, <1>5 DEF CurationInvariant

(* A request begins: nothing but the request is new, and what another works *)
(* on has crossed.                                                          *)
LEMMA CurationBegins ==
  ASSUME CurationInvariant, NEW t \in Curators,
         NEW request \in {NoCuration} \cup RuleRequest \cup MemoryRequest,
         BeginCuration(t, request), request # NoCuration => request.at \notin {"write", "rewrite"},
         DOMAIN rules' = RuleIds,
         \A r \in RuleIds : \/ rules'[r] = rules[r]
                            \/ rules[r].status = "none" /\ rules'[r].status = "proposed",
         UNCHANGED <<ruleOverride, memory, curated, everApproved>>
  PROVE  CurationInvariant'
<1>1. /\ curator' = [curator EXCEPT ![t] = request]
      /\ crossed \subseteq crossed'
      /\ \A u \in Curators : curator[u].on = request.on => request.on \in crossed'
  BY DEF BeginCuration
<1>2. curator'[t] = request /\ \A u \in Curators : u # t => curator'[u] = curator[u]
  BY <1>1 DEF CurationInvariant, CurationTypes
<1>3. CurationTypes' BY <1>1 DEF CurationInvariant, CurationTypes, RuleStatuses
<1>4. OneCurates' BY <1>1, <1>2 DEF CurationInvariant, OneCurates
<1>5. RulesAsFound'
  <2> SUFFICES ASSUME NEW u \in Curators, curator'[u] \in RuleRequest, curator'[u].at = "write",
                      curator'[u].on \notin crossed'
               PROVE  rules'[curator'[u].on].status =
                        IF curator'[u].op = "decide" THEN "proposed" ELSE "approved"
    BY DEF RulesAsFound
  <2>1. u # t BY <1>2, CurationForms
  <2>2. /\ curator[u] = curator'[u] /\ curator[u].on \in RuleIds
        /\ curator[u].on \notin crossed
    BY <1>1, <1>2, <2>1, CurationForms
  <2>3. rules[curator[u].on].status = IF curator[u].op = "decide" THEN "proposed" ELSE "approved"
    BY <2>2 DEF CurationInvariant, RulesAsFound
  <2>4. rules'[curator[u].on] = rules[curator[u].on] BY <2>2, <2>3
  <2> QED BY <2>2, <2>3, <2>4
<1>6. ApprovedIsNoted' BY DEF CurationInvariant, ApprovedIsNoted
<1>7. \A i \in Incidents :
        i \notin crossed' =>
          /\ memory'[i] = curated'[i]
          /\ memory'[i] = {} \/ \E c \in Contents : memory'[i] = {c}
  BY <1>1 DEF CurationInvariant, MemoriesAsLeft
<1>8. ASSUME NEW u \in Curators, curator'[u] \in MemoryRequest, curator'[u].at = "rewrite",
             curator'[u].on \notin crossed'
      PROVE  memory'[curator'[u].on] = {}
  <2>1. u # t BY <1>2, <1>8, WorksOn
  <2>2. curator[u] = curator'[u] /\ curator[u].on \notin crossed BY <1>1, <1>2, <1>8, <2>1
  <2> QED BY <1>8, <2>2 DEF CurationInvariant, MemoriesAsLeft
<1>9. MemoriesAsLeft' BY <1>7, <1>8 DEF MemoriesAsLeft
<1> QED BY <1>3, <1>4, <1>5, <1>6, <1>9 DEF CurationInvariant

(* A request goes on or ends with what it is about unchanged or written.    *)
LEMMA CurationGoesOn ==
  ASSUME CurationInvariant, NEW t \in Curators, curator[t] # NoCuration,
         NEW next \in {NoCuration} \cup RuleRequest \cup MemoryRequest,
         curator' = [curator EXCEPT ![t] = next],
         next # NoCuration => next.on = curator[t].on,
         UNCHANGED <<ruleOverride, crossed>>,
         DOMAIN rules' = RuleIds, everApproved \subseteq everApproved',
         \A r \in RuleIds : rules'[r].status \in RuleStatuses,
         \A r \in RuleIds \ {curator[t].on} : rules'[r] = rules[r],
         curator[t] \notin RuleRequest => rules' = rules,
         \A r \in RuleIds : rules'[r].status = "approved" => r \in everApproved',
         next \in RuleRequest /\ next.at = "write" /\ next.on \notin crossed =>
           rules'[next.on].status = (IF next.op = "decide" THEN "proposed" ELSE "approved"),
         memory' \in [Incidents -> SUBSET Contents], curated' \in [Incidents -> SUBSET Contents],
         \A i \in Incidents \ {curator[t].on} : memory'[i] = memory[i] /\ curated'[i] = curated[i],
         \A i \in Incidents :
           i = curator[t].on /\ i \notin crossed =>
             /\ memory'[i] = curated'[i]
             /\ memory'[i] = {} \/ \E c \in Contents : memory'[i] = {c},
         next \in MemoryRequest /\ next.at = "rewrite" => memory'[next.on] = {}
  PROVE  CurationInvariant'
<1>1. curator'[t] = next /\ \A u \in Curators : u # t => curator'[u] = curator[u]
  BY DEF CurationInvariant, CurationTypes
<1>2. CurationTypes' BY DEF CurationInvariant, CurationTypes
<1>3. OneCurates' BY <1>1 DEF CurationInvariant, OneCurates
<1>4. ASSUME NEW u \in Curators, u # t, curator[u] # NoCuration, curator[u].on \notin crossed
      PROVE  curator[u].on # curator[t].on
  BY <1>4 DEF CurationInvariant, OneCurates
<1>5. RulesAsFound'
  <2> SUFFICES ASSUME NEW u \in Curators, curator'[u] \in RuleRequest, curator'[u].at = "write",
                      curator'[u].on \notin crossed
               PROVE  rules'[curator'[u].on].status =
                        IF curator'[u].op = "decide" THEN "proposed" ELSE "approved"
    BY DEF RulesAsFound
  <2>1. CASE u = t BY <1>1, <2>1
  <2>2. CASE u # t
    <3>1. curator'[u] = curator[u] /\ curator[u] \in RuleRequest /\ curator[u].on \notin crossed
      BY <1>1, <2>2
    <3>2. curator[u] # NoCuration /\ curator[u].on \in RuleIds BY <3>1, WorksOn
    <3>3. curator[u].on # curator[t].on BY <1>4, <2>2, <3>1, <3>2
    <3> QED BY <3>1, <3>2, <3>3 DEF CurationInvariant, RulesAsFound
  <2> QED BY <2>1, <2>2
<1>6. ApprovedIsNoted' BY DEF CurationInvariant, ApprovedIsNoted
<1>7. \A i \in Incidents :
        i \notin crossed' =>
          /\ memory'[i] = curated'[i]
          /\ memory'[i] = {} \/ \E c \in Contents : memory'[i] = {c}
  BY DEF CurationInvariant, MemoriesAsLeft
<1>8. ASSUME NEW u \in Curators, curator'[u] \in MemoryRequest, curator'[u].at = "rewrite",
             curator'[u].on \notin crossed'
      PROVE  memory'[curator'[u].on] = {}
  <2>1. CASE u = t BY <1>1, <1>8, <2>1
  <2>2. CASE u # t
    <3>1. curator'[u] = curator[u] /\ curator[u] \in MemoryRequest /\ curator[u].on \notin crossed
      BY <1>1, <1>8, <2>2
    <3>2. curator[u] # NoCuration /\ curator[u].on \in Incidents BY <3>1, WorksOn
    <3>3. curator[u].on # curator[t].on BY <1>4, <2>2, <3>1, <3>2
    <3>4. memory[curator[u].on] = {}
      BY <1>8, <3>1, <3>2 DEF CurationInvariant, MemoriesAsLeft
    <3>5. memory'[curator[u].on] = memory[curator[u].on] BY <3>2, <3>3
    <3> QED BY <3>1, <3>4, <3>5
  <2> QED BY <2>1, <2>2
<1>9. MemoriesAsLeft' BY <1>7, <1>8 DEF MemoriesAsLeft
<1> QED BY <1>2, <1>3, <1>5, <1>6, <1>9 DEF CurationInvariant

(* What a step does to the rules: unless it crossed, one decision at a time.*)
RuleStep ==
  \A r \in RuleIds :
    rules[r].status # rules'[r].status /\ r \notin crossed' =>
      <<rules[r].status, rules'[r].status>> \in
         {<<"none", "proposed">>, <<"proposed", "approved">>,
          <<"proposed", "rejected">>, <<"approved", "retired">>}

LEMMA StepCuration ==
  CurationInvariant /\ [CurationNext]_curationVars => CurationInvariant' /\ RuleStep
<1> SUFFICES ASSUME CurationInvariant, [CurationNext]_curationVars
             PROVE  CurationInvariant' /\ RuleStep
  OBVIOUS
<1> USE DEF EndCuration
<1>1. CASE UNCHANGED curationVars
  BY <1>1 DEF curationVars, CurationInvariant, CurationTypes, OneCurates, RulesAsFound,
              ApprovedIsNoted, MemoriesAsLeft, RuleStep
<1>2. ASSUME NEW h \in CuratedHosts, HostStarts(h) PROVE CurationInvariant' /\ RuleStep
  <2>1. UNCHANGED <<rules, memory, curator, curated, crossed, everApproved>> BY <1>2 DEF HostStarts
  <2>2. PICK r \in ActiveOverride \cup {"none"} : ruleOverride' = [ruleOverride EXCEPT ![h] = r]
    BY <1>2 DEF HostStarts
  <2>3. r \in everApproved \cup {"none"}
    BY <2>2 DEF ActiveOverride, Adopted, CurationInvariant, ApprovedIsNoted
  <2>4. ApprovedIsNoted'
    BY <2>1, <2>2, <2>3 DEF CurationInvariant, ApprovedIsNoted, CurationTypes
  <2> QED BY <2>1, <2>2, <2>4 DEF CurationInvariant, CurationTypes, OneCurates, RulesAsFound,
                                  MemoriesAsLeft, RuleStep
<1> SUFFICES ASSUME NEW t \in Curators,
                    \/ SetPolicyStatus(t) \/ ProposeRule(t) \/ AskDecision(t) \/ AskRetirement(t)
                    \/ LookAtRule(t) \/ WriteRule(t)
                    \/ AskExpunge(t) \/ AskCorrection(t)
                    \/ FindMemoryPayload(t) \/ ExpungeMemory(t) \/ RewriteMemory(t)
                    \/ CurationFails(t)
             PROVE  CurationInvariant' /\ RuleStep
  BY <1>1, <1>2 DEF CurationNext
<1> DEFINE r == curator[t]
<1>0. /\ r \in {NoCuration} \cup RuleRequest \cup MemoryRequest /\ DOMAIN rules = RuleIds
      /\ \A s \in RuleIds : rules[s].status \in RuleStatuses
      /\ \A s \in RuleIds : rules[s].status = "approved" => s \in everApproved
  BY DEF CurationInvariant, CurationTypes, ApprovedIsNoted
<1>3. CASE SetPolicyStatus(t)
  <2>1. CurationInvariant' BY <1>0, <1>3, CurationBegins DEF SetPolicyStatus
  <2> QED BY <1>3, <2>1 DEF SetPolicyStatus, RuleStep
<1>4. CASE ProposeRule(t)
  <2>1. PICK s \in RuleIds : /\ rules[s] = NoRule
                             /\ rules' = [rules EXCEPT ![s] = [status |-> "proposed", decided |-> 0]]
    BY <1>4 DEF ProposeRule
  <2>2. /\ DOMAIN rules' = RuleIds
        /\ \A q \in RuleIds : \/ rules'[q] = rules[q]
                              \/ rules[q].status = "none" /\ rules'[q].status = "proposed"
    BY <1>0, <2>1 DEF NoRule
  <2>3. CurationInvariant' BY <1>4, <2>2, CurationBegins DEF ProposeRule
  <2> QED BY <2>2, <2>3 DEF RuleStep
<1>5. CASE AskDecision(t) \/ AskRetirement(t)
  <2>1. \E request \in RuleRequest : BeginCuration(t, request) /\ request.at = "look"
    <3>1. ASSUME NEW s \in RuleIds, NEW v \in {"approved", "rejected"}
          PROVE  [op |-> "decide", at |-> "look", on |-> s, verdict |-> v] \in RuleRequest
      BY DEF RuleRequest
    <3>2. ASSUME NEW s \in RuleIds
          PROVE  [op |-> "retire", at |-> "look", on |-> s, verdict |-> "retired"] \in RuleRequest
      BY DEF RuleRequest
    <3>3. CASE AskDecision(t)
      <4>1. PICK s \in RuleIds, v \in {"approved", "rejected"} :
              BeginCuration(t, [op |-> "decide", at |-> "look", on |-> s, verdict |-> v])
        BY <3>3 DEF AskDecision
      <4> QED BY <3>1, <4>1
    <3>4. CASE AskRetirement(t)
      <4>1. PICK s \in RuleIds :
              BeginCuration(t, [op |-> "retire", at |-> "look", on |-> s, verdict |-> "retired"])
        BY <3>4 DEF AskRetirement
      <4> QED BY <3>2, <4>1
    <3> QED BY <1>5, <3>3, <3>4
  <2>2. UNCHANGED <<rules, ruleOverride, memory, curated, everApproved>>
    BY <1>5 DEF AskDecision, AskRetirement
  <2>3. CurationInvariant' BY <1>0, <2>1, <2>2, CurationBegins
  <2> QED BY <2>2, <2>3 DEF RuleStep
<1>6. CASE AskExpunge(t) \/ AskCorrection(t)
  <2>1. \E request \in MemoryRequest :
          BeginCuration(t, request) /\ request.at \in {"find", "delete"}
    <3>1. ASSUME NEW i \in Incidents
          PROVE  [op |-> "expunge", at |-> "delete", on |-> i] \in MemoryRequest
      BY DEF MemoryRequest
    <3>2. ASSUME NEW i \in Incidents, NEW c \in {"corrected", "amended"}
          PROVE  [op |-> "correct", at |-> "find", on |-> i, content |-> c] \in MemoryRequest
      BY DEF MemoryRequest
    <3>3. CASE AskExpunge(t)
      <4>1. PICK i \in Incidents :
              BeginCuration(t, [op |-> "expunge", at |-> "delete", on |-> i])
        BY <3>3 DEF AskExpunge
      <4> QED BY <3>1, <4>1
    <3>4. CASE AskCorrection(t)
      <4>1. PICK i \in Incidents, c \in {"corrected", "amended"} :
              BeginCuration(t, [op |-> "correct", at |-> "find", on |-> i, content |-> c])
        BY <3>4 DEF AskCorrection
      <4> QED BY <3>2, <4>1
    <3> QED BY <1>6, <3>3, <3>4
  <2>2. UNCHANGED <<rules, ruleOverride, memory, curated, everApproved>>
    BY <1>6 DEF AskExpunge, AskCorrection
  <2>3. CurationInvariant' BY <1>0, <2>1, <2>2, CurationBegins
  <2> QED BY <2>2, <2>3 DEF RuleStep
<1> HIDE DEF r
<1>m. /\ memory \in [Incidents -> SUBSET Contents] /\ curated \in [Incidents -> SUBSET Contents]
      /\ \A i \in Incidents :
           i \notin crossed =>
             /\ memory[i] = curated[i]
             /\ memory[i] = {} \/ \E c \in Contents : memory[i] = {c}
  BY DEF CurationInvariant, CurationTypes, MemoriesAsLeft
<1>7. CASE LookAtRule(t)
  <2> DEFINE open == IF r.op = "decide" THEN "proposed" ELSE "approved"
             next == IF rules[r.on].status = open THEN [r EXCEPT !.at = "write"] ELSE NoCuration
  <2>1. /\ r.op \in {"decide", "retire"} /\ curator' = [curator EXCEPT ![t] = next]
        /\ UNCHANGED <<rules, ruleOverride, memory, curated, crossed, everApproved>>
    BY <1>7 DEF LookAtRule, r
  <2>2. r \in RuleRequest /\ r # NoCuration BY <1>0, <2>1, CurationForms
  <2>3. /\ next \in {NoCuration} \cup RuleRequest
        /\ next # NoCuration => next.on = r.on /\ next.op = r.op /\ rules[r.on].status = open
    BY <2>2, CurationForms
  <2> HIDE DEF next
  <2>4. next \in RuleRequest => next # NoCuration BY CurationForms
  <2>5. next \notin MemoryRequest BY <2>3, CurationForms
  <2>6. CurationInvariant' BY <1>0, <1>m, <2>1, <2>2, <2>3, <2>4, <2>5, CurationGoesOn DEF r
  <2> QED BY <2>1, <2>6 DEF RuleStep
<1>8. CASE WriteRule(t)
  <2> DEFINE d == IF r.op = "decide" THEN NextDecision ELSE rules[r.on].decided
  <2>1. /\ r.op \in {"decide", "retire"} /\ r.at = "write"
        /\ curator' = [curator EXCEPT ![t] = NoCuration]
        /\ rules' = [rules EXCEPT ![r.on] = [status |-> r.verdict, decided |-> d]]
        /\ everApproved' = (IF r.verdict = "approved" THEN everApproved \cup {r.on} ELSE everApproved)
        /\ UNCHANGED <<ruleOverride, memory, curated, crossed>>
    BY <1>8 DEF WriteRule, r
  <2> HIDE DEF d
  <2>2. r \in RuleRequest /\ r # NoCuration /\ r.on \in RuleIds BY <1>0, <2>1, CurationForms
  <2>3. /\ r.op = "decide" => r.verdict \in {"approved", "rejected"}
        /\ r.op = "retire" => r.verdict = "retired"
    BY <2>2, CurationForms
  <2>4. /\ DOMAIN rules' = RuleIds /\ rules'[r.on].status = r.verdict
        /\ \A s \in RuleIds \ {r.on} : rules'[s] = rules[s]
    BY <1>0, <2>1, <2>2
  <2>5. r.on \notin crossed =>
          rules[r.on].status = IF r.op = "decide" THEN "proposed" ELSE "approved"
    BY <2>1, <2>2 DEF r, CurationInvariant, RulesAsFound
  <2>6. /\ \A s \in RuleIds : rules'[s].status \in RuleStatuses
        /\ \A s \in RuleIds : rules'[s].status = "approved" => s \in everApproved'
        /\ everApproved \subseteq everApproved'
    BY <1>0, <2>1, <2>2, <2>3, <2>4 DEF RuleStatuses
  <2>7. NoCuration \notin RuleRequest /\ NoCuration \notin MemoryRequest BY CurationForms
  <2>8. CurationInvariant' BY <1>0, <1>m, <2>1, <2>2, <2>4, <2>6, <2>7, CurationGoesOn DEF r
  <2>9. RuleStep BY <2>1, <2>2, <2>3, <2>4, <2>5 DEF RuleStep
  <2> QED BY <2>8, <2>9
<1>9. CASE FindMemoryPayload(t)
  <2>1. /\ r.op = "correct" /\ UNCHANGED <<rules, ruleOverride, memory, curated, crossed, everApproved>>
        /\ \/ curator' = [curator EXCEPT ![t] = [r EXCEPT !.at = "delete"]]
           \/ curator' = [curator EXCEPT ![t] = NoCuration]
    BY <1>9 DEF FindMemoryPayload, r
  <2>2. PICK next \in {NoCuration, [r EXCEPT !.at = "delete"]} : curator' = [curator EXCEPT ![t] = next]
    BY <2>1
  <2>3. r \in MemoryRequest /\ r # NoCuration BY <1>0, <2>1, CurationForms
  <2>a. /\ [r EXCEPT !.at = "delete"] \in MemoryRequest
        /\ [r EXCEPT !.at = "delete"].at = "delete" /\ [r EXCEPT !.at = "delete"].on = r.on
        /\ NoCuration \notin RuleRequest \cup MemoryRequest
    BY <2>1, <2>3, CurationForms
  <2>4. /\ next \in {NoCuration} \cup MemoryRequest /\ next \notin RuleRequest
        /\ next # NoCuration => next.on = r.on /\ next.at = "delete"
        /\ NoCuration \notin MemoryRequest
    BY ZenonT(60), <2>2, <2>a, CurationForms
  <2>5. CurationInvariant' BY <1>0, <1>m, <2>1, <2>2, <2>3, <2>4, CurationGoesOn DEF r
  <2> QED BY <2>1, <2>5 DEF RuleStep
<1>10. CASE ExpungeMemory(t)
  <2>1. /\ r.op \in {"expunge", "correct"} /\ r.at = "delete"
        /\ memory' = [memory EXCEPT ![r.on] = {}] /\ curated' = [curated EXCEPT ![r.on] = {}]
        /\ UNCHANGED <<rules, ruleOverride, crossed, everApproved>>
        /\ \/ r.op = "correct" /\ curator' = [curator EXCEPT ![t] = [r EXCEPT !.at = "rewrite"]]
           \/ curator' = [curator EXCEPT ![t] = NoCuration]
    BY <1>10 DEF ExpungeMemory, r
  <2>2. r \in MemoryRequest /\ r # NoCuration /\ r.on \in Incidents BY <1>0, <2>1, CurationForms
  <2>a. r.op = "correct" => /\ [r EXCEPT !.at = "rewrite"] \in MemoryRequest
                            /\ [r EXCEPT !.at = "rewrite"].on = r.on
    BY <2>2, CurationForms
  <2>3. PICK next \in {NoCuration} \cup MemoryRequest :
          /\ curator' = [curator EXCEPT ![t] = next]
          /\ next # NoCuration => next.on = r.on
    BY <2>1, <2>a
  <2>4. next \notin RuleRequest /\ NoCuration \notin MemoryRequest BY <2>3, CurationForms
  <2>5. /\ memory' \in [Incidents -> SUBSET Contents] /\ curated' \in [Incidents -> SUBSET Contents]
        /\ memory'[r.on] = {} /\ curated'[r.on] = {}
        /\ \A i \in Incidents \ {r.on} : memory'[i] = memory[i] /\ curated'[i] = curated[i]
    BY <1>m, <2>1, <2>2
  <2>6. CurationInvariant' BY <1>0, <2>1, <2>2, <2>3, <2>4, <2>5, CurationGoesOn DEF r
  <2> QED BY <2>1, <2>6 DEF RuleStep
<1>11. CASE RewriteMemory(t)
  <2>1. /\ r.op = "correct" /\ r.at = "rewrite" /\ curator' = [curator EXCEPT ![t] = NoCuration]
        /\ memory' = [memory EXCEPT ![r.on] = memory[r.on] \cup {r.content}]
        /\ curated' = [curated EXCEPT ![r.on] = {r.content}]
        /\ UNCHANGED <<rules, ruleOverride, crossed, everApproved>>
    BY <1>11 DEF RewriteMemory, r
  <2>2. r \in MemoryRequest /\ r # NoCuration /\ r.on \in Incidents /\ r.content \in Contents
    BY <1>0, <2>1, CurationForms
  <2>3. r.on \notin crossed => memory[r.on] = {}
    BY <2>1, <2>2 DEF r, CurationInvariant, MemoriesAsLeft
  <2>4. NoCuration \notin RuleRequest /\ NoCuration \notin MemoryRequest BY CurationForms
  <2>5. /\ memory' \in [Incidents -> SUBSET Contents] /\ curated' \in [Incidents -> SUBSET Contents]
        /\ memory'[r.on] = memory[r.on] \cup {r.content} /\ curated'[r.on] = {r.content}
        /\ \A i \in Incidents \ {r.on} : memory'[i] = memory[i] /\ curated'[i] = curated[i]
    BY <1>m, <2>1, <2>2
  <2>6. \A i \in Incidents :
          i = r.on /\ i \notin crossed =>
            memory'[i] = curated'[i] /\ \E c \in Contents : memory'[i] = {c}
    BY <2>2, <2>3, <2>5
  <2>7. CurationInvariant'
    BY <1>0, <2>1, <2>2, <2>4, <2>5, <2>6, CurationGoesOn DEF r
  <2> QED BY <2>1, <2>7 DEF RuleStep
<1>12. CASE CurationFails(t)
  <2>1. /\ r # NoCuration /\ curator' = [curator EXCEPT ![t] = NoCuration]
        /\ UNCHANGED <<rules, ruleOverride, memory, curated, crossed, everApproved>>
    BY <1>12 DEF CurationFails, r
  <2>2. NoCuration \notin RuleRequest /\ NoCuration \notin MemoryRequest BY CurationForms
  <2>3. CurationInvariant' BY <1>0, <1>m, <2>1, <2>2, CurationGoesOn DEF r
  <2> QED BY <2>1, <2>3 DEF RuleStep
<1> QED BY <1>3, <1>4, <1>5, <1>6, <1>7, <1>8, <1>9, <1>10, <1>11, <1>12

LEMMA AlwaysCuration == CurationSpec => []CurationInvariant
<1>1. CurationInvariant /\ [CurationNext]_curationVars => CurationInvariant' BY StepCuration
<1> QED BY InitCuration, <1>1, PTL DEF CurationSpec

(* What is gone stays gone, for a correction needs an entry; and what the   *)
(* investigation remembered is alone where it still is.                     *)
Correcting(t, i) == curator[t] \in MemoryRequest /\ curator[t].op = "correct" /\ curator[t].on = i

WithdrawnStays ==
  /\ DOMAIN gone = Incidents
  /\ \A i \in Incidents :
       i \notin crossed /\ gone[i] # "there" =>
         memory[i] = {} /\ \A t \in Curators : Correcting(t, i) => curator[t].at = "find"
  /\ \A i \in Incidents :
       "found" \in memory[i] => memory[i] = {"found"} /\ "found" \in curated[i]
  /\ \A t \in Curators :
       curator[t] \in MemoryRequest /\ curator[t].at = "rewrite" =>
         "found" \notin memory[curator[t].on]

(* A request begins, goes on or ends.                                       *)
LEMMA WithdrawnGoesOn ==
  ASSUME CurationInvariant, WithdrawnStays, NEW t \in Curators, NEW next,
         curator' = [curator EXCEPT ![t] = next],
         crossed \subseteq crossed', DOMAIN gone' = Incidents,
         \A i \in Incidents : i \notin crossed' /\ gone'[i] # "there" => memory'[i] = {},
         \A i \in Incidents : \A u \in Curators \ {t} :
           i \notin crossed' /\ gone'[i] # "there" /\ gone[i] = "there" => ~Correcting(u, i),
         \A i \in Incidents :
           i \notin crossed' /\ gone'[i] # "there" /\ next \in MemoryRequest /\ next.op = "correct"
             /\ next.on = i => next.at = "find",
         \A i \in Incidents :
           "found" \in memory'[i] => memory'[i] = memory[i] /\ curated'[i] = curated[i],
         next \in MemoryRequest /\ next.at = "rewrite" => "found" \notin memory'[next.on]
  PROVE  WithdrawnStays'
<1>1. curator'[t] = next /\ \A u \in Curators : u # t => curator'[u] = curator[u]
  BY DEF CurationInvariant, CurationTypes
<1>2. ASSUME NEW i \in Incidents, i \notin crossed', gone'[i] # "there"
      PROVE  memory'[i] = {} /\ \A u \in Curators : Correcting(u, i)' => curator'[u].at = "find"
  <2>1. memory'[i] = {} BY <1>2
  <2>2. ASSUME NEW u \in Curators, Correcting(u, i)' PROVE curator'[u].at = "find"
    <3>1. CASE u = t BY <1>1, <1>2, <2>2, <3>1 DEF Correcting
    <3>2. CASE u # t
      <4>1. curator'[u] = curator[u] /\ Correcting(u, i)
        BY <1>1, <2>2, <3>2 DEF Correcting
      <4>2. gone[i] # "there" /\ i \notin crossed BY <1>2, <3>2, <4>1
      <4> QED BY <4>1, <4>2 DEF WithdrawnStays
    <3> QED BY <3>1, <3>2
  <2> QED BY <2>1, <2>2
<1>3. ASSUME NEW i \in Incidents, "found" \in memory'[i]
      PROVE  memory'[i] = {"found"} /\ "found" \in curated'[i]
  BY <1>3 DEF WithdrawnStays
<1>4. ASSUME NEW u \in Curators, curator'[u] \in MemoryRequest, curator'[u].at = "rewrite"
      PROVE  "found" \notin memory'[curator'[u].on]
  <2>1. CASE u = t BY <1>1, <1>4, <2>1
  <2>2. CASE u # t
    <3>1. curator'[u] = curator[u] /\ curator[u].on \in Incidents BY <1>1, <1>4, <2>2, CurationForms
    <3>2. "found" \notin memory[curator[u].on] BY <1>4, <3>1 DEF WithdrawnStays
    <3> QED BY <3>1, <3>2
  <2> QED BY <2>1, <2>2
<1> QED BY <1>2, <1>3, <1>4 DEF WithdrawnStays

LEMMA StepWithdrawn ==
  CurationInvariant /\ WithdrawnStays /\ [CurationNext]_curationVars => WithdrawnStays'
<1> SUFFICES ASSUME CurationInvariant, WithdrawnStays, [CurationNext]_curationVars
             PROVE  WithdrawnStays'
  OBVIOUS
<1>1. CASE UNCHANGED curationVars
  BY <1>1 DEF curationVars, WithdrawnStays, Correcting
<1>2. ASSUME NEW h \in CuratedHosts, HostStarts(h) PROVE WithdrawnStays'
  BY <1>2 DEF HostStarts, WithdrawnStays, Correcting
<1> SUFFICES ASSUME NEW t \in Curators,
                    \/ SetPolicyStatus(t) \/ ProposeRule(t) \/ AskDecision(t) \/ AskRetirement(t)
                    \/ LookAtRule(t) \/ WriteRule(t)
                    \/ AskExpunge(t) \/ AskCorrection(t)
                    \/ FindMemoryPayload(t) \/ ExpungeMemory(t) \/ RewriteMemory(t)
                    \/ CurationFails(t)
             PROVE  WithdrawnStays'
  BY <1>1, <1>2 DEF CurationNext
<1>0. PICK r : r = curator[t] OBVIOUS
<1>a. /\ r \in {NoCuration} \cup RuleRequest \cup MemoryRequest
      /\ memory \in [Incidents -> SUBSET Contents] /\ curated \in [Incidents -> SUBSET Contents]
      /\ DOMAIN gone = Incidents
  BY <1>0 DEF CurationInvariant, CurationTypes, WithdrawnStays
<1>b. NoCuration \notin MemoryRequest /\ \A q \in RuleRequest : q \notin MemoryRequest
  BY CurationForms
<1>c. \A i \in Incidents : i \notin crossed /\ gone[i] # "there" => memory[i] = {}
  BY DEF WithdrawnStays
(* What a request for a memory stands at, if nothing crossed it.            *)
<1>d. ASSUME NEW i \in Incidents, i \notin crossed, r \in MemoryRequest, r.on = i
      PROVE  /\ \A u \in Curators \ {t} : ~Correcting(u, i)
             /\ r.op = "correct" /\ gone[i] # "there" => r.at = "find"
  <2>1. ASSUME NEW u \in Curators \ {t}, Correcting(u, i) PROVE FALSE
    <3>1. curator[u] # NoCuration /\ curator[t] # NoCuration /\ curator[u].on = curator[t].on
      BY <1>0, <1>d, <2>1, WorksOn DEF Correcting
    <3>2. curator[t].on \in crossed BY <3>1 DEF CurationInvariant, OneCurates
    <3> QED BY <1>0, <1>d, <3>2
  <2>2. r.op = "correct" => Correcting(t, i) BY <1>0, <1>d DEF Correcting
  <2> QED BY <1>0, <1>d, <2>1, <2>2 DEF WithdrawnStays
<1>3. CASE SetPolicyStatus(t) \/ ProposeRule(t)
  <2>1. /\ curator' = [curator EXCEPT ![t] = NoCuration]
        /\ crossed \subseteq crossed' /\ UNCHANGED <<memory, curated, gone>>
    BY <1>3 DEF SetPolicyStatus, ProposeRule, BeginCuration
  <2> QED BY <1>a, <1>b, <1>c, <2>1, WithdrawnGoesOn
<1>4. CASE AskDecision(t) \/ AskRetirement(t)
  <2>1. PICK q : /\ curator' = [curator EXCEPT ![t] = q] /\ q.op \in {"decide", "retire"}
                 /\ crossed \subseteq crossed' /\ UNCHANGED <<memory, curated, gone>>
    <3>1. CASE AskDecision(t)
      BY <3>1 DEF AskDecision, BeginCuration
    <3>2. CASE AskRetirement(t)
      BY <3>2 DEF AskRetirement, BeginCuration
    <3> QED BY <1>4, <3>1, <3>2
  <2>2. q \notin MemoryRequest BY <2>1, CurationForms
  <2> QED BY <1>a, <1>c, <2>1, <2>2, WithdrawnGoesOn
<1>5. CASE AskExpunge(t) \/ AskCorrection(t)
  <2>1. PICK q : /\ curator' = [curator EXCEPT ![t] = q]
                 /\ q.at # "rewrite"
                 /\ q.op = "correct" => q.at = "find"
                 /\ crossed \subseteq crossed' /\ UNCHANGED <<memory, curated, gone>>
    <3>1. CASE AskExpunge(t)
      <4>1. PICK i \in Incidents : BeginCuration(t, [op |-> "expunge", at |-> "delete", on |-> i])
        BY <3>1 DEF AskExpunge
      <4>2. PICK q : q = [op |-> "expunge", at |-> "delete", on |-> i] OBVIOUS
      <4>3. q.at # "rewrite" /\ q.op # "correct" BY <4>2
      <4> QED BY <3>1, <4>1, <4>2, <4>3 DEF AskExpunge, BeginCuration
    <3>2. CASE AskCorrection(t)
      <4>1. PICK i \in Incidents, c \in {"corrected", "amended"} :
              BeginCuration(t, [op |-> "correct", at |-> "find", on |-> i, content |-> c])
        BY <3>2 DEF AskCorrection
      <4>2. PICK q : q = [op |-> "correct", at |-> "find", on |-> i, content |-> c] OBVIOUS
      <4>3. q.at = "find" BY <4>2
      <4> QED BY <3>2, <4>1, <4>2, <4>3 DEF AskCorrection, BeginCuration
    <3> QED BY <1>5, <3>1, <3>2
  <2>2. \A i \in Incidents :
          i \notin crossed' /\ gone'[i] # "there" => memory'[i] = {} /\ gone[i] # "there"
    BY <1>c, <2>1
  <2>3. /\ DOMAIN gone' = Incidents
        /\ \A i \in Incidents :
             "found" \in memory'[i] => memory'[i] = memory[i] /\ curated'[i] = curated[i]
    BY <1>a, <2>1
  <2> QED BY <2>1, <2>2, <2>3, WithdrawnGoesOn
<1>6. CASE LookAtRule(t) \/ WriteRule(t)
  <2>1. /\ r.op \in {"decide", "retire"} /\ UNCHANGED <<memory, curated, gone, crossed>>
        /\ \E q \in {NoCuration, [r EXCEPT !.at = "write"]} : curator' = [curator EXCEPT ![t] = q]
    <3>1. CASE LookAtRule(t) BY <1>0, <3>1 DEF LookAtRule
    <3>2. CASE WriteRule(t) BY <1>0, <3>2 DEF WriteRule, EndCuration
    <3> QED BY <1>6, <3>1, <3>2
  <2>2. PICK q \in {NoCuration, [r EXCEPT !.at = "write"]} : curator' = [curator EXCEPT ![t] = q]
    BY <2>1
  <2>3. r \in RuleRequest BY <1>a, <2>1, CurationForms
  <2>4. q \notin MemoryRequest BY <1>b, <2>2, <2>3, CurationForms
  <2> QED BY <1>a, <1>c, <2>1, <2>2, <2>4, WithdrawnGoesOn
<1>7. CASE FindMemoryPayload(t)
  <2>1. /\ r.op = "correct" /\ r.at = "find" /\ UNCHANGED <<memory, curated, gone, crossed>>
        /\ \/ /\ memory[r.on] # {}
              /\ curator' = [curator EXCEPT ![t] = [r EXCEPT !.at = "delete"]]
           \/ curator' = [curator EXCEPT ![t] = NoCuration]
    BY <1>0, <1>7 DEF FindMemoryPayload, EndCuration
  <2>2. r \in MemoryRequest BY <1>a, <2>1, CurationForms
  <2>3. CASE curator' = [curator EXCEPT ![t] = NoCuration]
    BY <1>a, <1>b, <1>c, <2>1, <2>3, WithdrawnGoesOn
  <2>4. CASE memory[r.on] # {} /\ curator' = [curator EXCEPT ![t] = [r EXCEPT !.at = "delete"]]
    <3>1. PICK q : q = [r EXCEPT !.at = "delete"] OBVIOUS
    <3>2. q.on = r.on /\ q.at = "delete" BY <2>1, <2>2, <3>1, CurationForms
    <3>3. \A i \in Incidents : i \notin crossed /\ gone[i] # "there" => i # r.on BY <1>c, <2>4
    <3>4. \A i \in Incidents :
            i \notin crossed' /\ gone'[i] # "there" =>
              memory'[i] = {} /\ gone[i] # "there" /\ q.on # i
      BY <1>c, <2>1, <3>2, <3>3
    <3>5. /\ DOMAIN gone' = Incidents /\ curator' = [curator EXCEPT ![t] = q]
          /\ crossed \subseteq crossed' /\ q.at # "rewrite"
          /\ \A i \in Incidents :
               "found" \in memory'[i] => memory'[i] = memory[i] /\ curated'[i] = curated[i]
      BY <1>a, <2>1, <2>4, <3>1, <3>2
    <3>8. /\ \A i \in Incidents : i \notin crossed' /\ gone'[i] # "there" => memory'[i] = {}
          /\ \A i \in Incidents : \A u \in Curators \ {t} :
               i \notin crossed' /\ gone'[i] # "there" /\ gone[i] = "there" => ~Correcting(u, i)
          /\ \A i \in Incidents :
               i \notin crossed' /\ gone'[i] # "there" /\ q \in MemoryRequest /\ q.op = "correct"
                 /\ q.on = i => q.at = "find"
      BY <3>4
    <3>9. CurationInvariant /\ WithdrawnStays /\ t \in Curators OBVIOUS
    <3>10. q \in MemoryRequest /\ q.at = "rewrite" => "found" \notin memory'[q.on] BY <3>5
    <3> QED BY ONLY <3>5, <3>8, <3>9, <3>10, WithdrawnGoesOn
  <2> QED BY <2>1, <2>3, <2>4
<1>8. CASE ExpungeMemory(t)
  <2>1. /\ r.op \in {"expunge", "correct"} /\ r.at = "delete" /\ UNCHANGED crossed
        /\ memory' = [memory EXCEPT ![r.on] = {}] /\ curated' = [curated EXCEPT ![r.on] = {}]
    BY <1>0, <1>8 DEF ExpungeMemory
  <2>2. r \in MemoryRequest /\ r.on \in Incidents BY <1>a, <2>1, CurationForms
  <2>3. /\ memory'[r.on] = {}
        /\ \A i \in Incidents \ {r.on} : memory'[i] = memory[i] /\ curated'[i] = curated[i]
    BY <1>a, <2>1, <2>2
  <2>4. CASE /\ r.op = "correct" /\ gone' = gone
             /\ curator' = [curator EXCEPT ![t] = [r EXCEPT !.at = "rewrite"]]
    <3>1. PICK q : q = [r EXCEPT !.at = "rewrite"] OBVIOUS
    <3>2. q.on = r.on BY <2>2, <2>4, <3>1, CurationForms
    <3>3. \A i \in Incidents : i \notin crossed /\ gone[i] # "there" => i # r.on
      BY <1>d, <2>1, <2>2, <2>4
    <3>4. \A i \in Incidents : i \notin crossed /\ gone[i] # "there" => memory'[i] = {}
      BY <1>c, <2>3
    <3>5. \A i \in Incidents :
            "found" \in memory'[i] => memory'[i] = memory[i] /\ curated'[i] = curated[i]
      BY <2>3
    <3>6. \A i \in Incidents :
            i \notin crossed' /\ gone'[i] # "there" =>
              memory'[i] = {} /\ gone[i] # "there" /\ q.on # i
      BY <2>1, <2>4, <3>2, <3>3, <3>4
    <3>7. /\ DOMAIN gone' = Incidents /\ curator' = [curator EXCEPT ![t] = q]
          /\ crossed \subseteq crossed' /\ "found" \notin memory'[q.on]
      BY <1>a, <2>1, <2>3, <2>4, <3>1, <3>2
    <3>8. /\ \A i \in Incidents : i \notin crossed' /\ gone'[i] # "there" => memory'[i] = {}
          /\ \A i \in Incidents : \A u \in Curators \ {t} :
               i \notin crossed' /\ gone'[i] # "there" /\ gone[i] = "there" => ~Correcting(u, i)
          /\ \A i \in Incidents :
               i \notin crossed' /\ gone'[i] # "there" /\ q \in MemoryRequest /\ q.op = "correct"
                 /\ q.on = i => q.at = "find"
      BY <3>6
    <3>9. CurationInvariant /\ WithdrawnStays /\ t \in Curators OBVIOUS
    <3>10. q \in MemoryRequest /\ q.at = "rewrite" => "found" \notin memory'[q.on] BY <3>7
    <3> QED BY ONLY <3>5, <3>7, <3>8, <3>9, <3>10, WithdrawnGoesOn
  <2>5. CASE /\ gone' = [gone EXCEPT ![r.on] = "absent"]
             /\ curator' = [curator EXCEPT ![t] = NoCuration]
    <3>1. DOMAIN gone' = Incidents /\ \A i \in Incidents \ {r.on} : gone'[i] = gone[i]
      BY <1>a, <2>5
    <3>2. \A i \in Incidents :
            i \notin crossed /\ gone'[i] # "there" =>
              /\ memory'[i] = {}
              /\ \/ gone[i] # "there"
                 \/ \A u \in Curators \ {t} : ~Correcting(u, i)
      BY <1>c, <1>d, <2>2, <2>3, <3>1
    <3>3. \A i \in Incidents :
            "found" \in memory'[i] => memory'[i] = memory[i] /\ curated'[i] = curated[i]
      BY <2>3
    <3>4. crossed' = crossed BY <2>1
    <3> QED BY <1>b, <2>5, <3>1, <3>2, <3>3, <3>4, WithdrawnGoesOn
  <2> QED BY <1>0, <1>8, <2>4, <2>5 DEF ExpungeMemory, EndCuration
<1>9. CASE RewriteMemory(t)
  <2>1. /\ r.op = "correct" /\ r.at = "rewrite" /\ UNCHANGED crossed
        /\ curator' = [curator EXCEPT ![t] = NoCuration]
        /\ memory' = [memory EXCEPT ![r.on] = memory[r.on] \cup {r.content}]
        /\ curated' = [curated EXCEPT ![r.on] = {r.content}]
        /\ gone' = [gone EXCEPT ![r.on] = "there"]
    BY <1>0, <1>9 DEF RewriteMemory, EndCuration
  <2>2. r \in MemoryRequest /\ r.on \in Incidents BY <1>a, <2>1, CurationForms
  <2>3. r.content # "found" BY <2>1, <2>2 DEF MemoryRequest
  <2>4. "found" \notin memory[r.on] BY <1>0, <2>1, <2>2 DEF WithdrawnStays
  <2>5. /\ "found" \notin memory'[r.on]
        /\ DOMAIN gone' = Incidents /\ gone'[r.on] = "there"
        /\ \A i \in Incidents \ {r.on} :
             memory'[i] = memory[i] /\ curated'[i] = curated[i] /\ gone'[i] = gone[i]
    BY <1>a, <2>1, <2>2, <2>3, <2>4
  <2>6. \A i \in Incidents :
          i \notin crossed /\ gone'[i] # "there" => memory'[i] = {} /\ gone[i] # "there"
    BY <1>c, <2>5
  <2> QED BY <1>b, <2>1, <2>5, <2>6, WithdrawnGoesOn
<1>10. CASE CurationFails(t)
  <2>1. /\ curator' = [curator EXCEPT ![t] = NoCuration] /\ UNCHANGED <<memory, curated, crossed>>
        /\ \/ /\ r.op = "correct" /\ r.at = "rewrite" /\ gone' = [gone EXCEPT ![r.on] = "failed"]
           \/ gone' = gone
    BY <1>0, <1>10 DEF CurationFails, EndCuration
  <2>2. CASE gone' = gone BY <1>a, <1>b, <1>c, <2>1, <2>2, WithdrawnGoesOn
  <2>3. CASE r.op = "correct" /\ r.at = "rewrite" /\ gone' = [gone EXCEPT ![r.on] = "failed"]
    <3>1. r \in MemoryRequest /\ r.on \in Incidents BY <1>a, <2>3, CurationForms
    <3>2. r.on \notin crossed => memory[r.on] = {}
      BY <1>0, <2>3, <3>1 DEF CurationInvariant, MemoriesAsLeft
    <3>3. DOMAIN gone' = Incidents /\ \A i \in Incidents \ {r.on} : gone'[i] = gone[i]
      BY <1>a, <2>3
    <3>4. \A i \in Incidents :
            i \notin crossed /\ gone'[i] # "there" =>
              /\ memory'[i] = {}
              /\ \/ gone[i] # "there"
                 \/ \A u \in Curators \ {t} : ~Correcting(u, i)
      BY <1>c, <1>d, <2>1, <3>1, <3>2, <3>3
    <3> QED BY <1>b, <2>1, <3>3, <3>4, WithdrawnGoesOn
  <2> QED BY <2>1, <2>2, <2>3
<1> QED BY <1>3, <1>4, <1>5, <1>6, <1>7, <1>8, <1>9, <1>10

(* Unless two requests curated an incident's memory at once, a recall finds *)
(* what the last curation to end left and nothing beside it, wherever a     *)
(* request failed in between, and what is gone stays gone. Even when they   *)
(* crossed, what the investigation remembered is never recalled beside a    *)
(* corrected version (enterprise_memory.py:311, 404, 446-448, 495-497).     *)
THEOREM MemoryStaysCurated == CurationSpec => []MemoryIsAsCurated
<1>1. CurationInvariant /\ WithdrawnStays => MemoryIsAsCurated
  <2> SUFFICES ASSUME CurationInvariant, WithdrawnStays, NEW i \in Incidents
               PROVE  /\ i \notin crossed =>
                           /\ Recalled(i) = curated[i]
                           /\ Cardinality(memory[i]) <= 1
                           /\ gone[i] # "there" => memory[i] = {}
                      /\ "found" \in memory[i] =>
                           memory[i] = {"found"} /\ "found" \in curated[i]
    BY DEF MemoryIsAsCurated
  <2>0. "found" \in memory[i] => memory[i] = {"found"} /\ "found" \in curated[i]
    BY DEF WithdrawnStays
  <2> SUFFICES ASSUME i \notin crossed
               PROVE  /\ Recalled(i) = curated[i]
                      /\ Cardinality(memory[i]) <= 1
                      /\ gone[i] # "there" => memory[i] = {}
    BY <2>0
  <2>1. memory[i] = curated[i] /\ (memory[i] = {} \/ \E c \in Contents : memory[i] = {c})
    BY DEF CurationInvariant, MemoriesAsLeft
  <2>2. Cardinality(memory[i]) <= 1
    <3>1. CASE memory[i] = {} BY <3>1, FS_EmptySet
    <3>2. CASE \E c \in Contents : memory[i] = {c}
      <4>1. PICK c \in Contents : memory[i] = {c} BY <3>2
      <4>2. Cardinality({c}) = 1 BY FS_Singleton
      <4> QED BY <4>1, <4>2
    <3> QED BY <2>1, <3>1, <3>2
  <2>3. gone[i] # "there" => memory[i] = {} BY DEF WithdrawnStays
  <2> QED BY <2>1, <2>2, <2>3 DEF Recalled
<1>2. CurationInit => WithdrawnStays
  <2> SUFFICES ASSUME CurationInit PROVE WithdrawnStays
    OBVIOUS
  <2>1. \A t \in Curators : curator[t] = NoCuration /\ NoCuration \notin MemoryRequest
    BY CurationForms DEF CurationInit
  <2> QED BY <2>1 DEF CurationInit, WithdrawnStays, Correcting
<1> QED BY AlwaysCuration, <1>1, <1>2, StepWithdrawn, PTL DEF CurationSpec

(* A rule is decided once and retired once, unless two requests worked on   *)
(* it at the same time, and no instance ever starts with a rule nobody      *)
(* approved (policy_agent.py:223, 269, 296).                                *)
THEOREM RulesDecidedOnce == CurationSpec => RuleDecidedOnce
<1>1. CurationInvariant /\ CurationInvariant' /\ [CurationNext]_curationVars =>
        [/\ \A r \in RuleIds :
              rules[r].status # rules'[r].status /\ r \notin crossed' =>
                <<rules[r].status, rules'[r].status>> \in
                   {<<"none", "proposed">>, <<"proposed", "approved">>,
                    <<"proposed", "rejected">>, <<"approved", "retired">>}
         /\ \A h \in CuratedHosts : ruleOverride'[h] \in everApproved' \cup {"none"}]_curationVars
  BY StepCuration DEF RuleStep, CurationInvariant, ApprovedIsNoted
<1> QED BY AlwaysCuration, <1>1, PTL DEF CurationSpec, RuleDecidedOnce

(* Both, with their conditions: of recalibrations the one served undisturbed*)
(* applies, and what was adopted last if nothing overlapped or failed and   *)
(* no version was given twice; a memory no two requests curated at once is  *)
(* as the last of them left it (learning_agent.py:218, 297,                 *)
(* enterprise_memory.py:404).                                               *)
THEOREM LastDecisionsApply == LedgerSpec /\ CurationSpec => []LastDecisionApplies
  BY LastAdoptedStays, MemoryStaysCurated, PTL DEF LastDecisionApplies

(* No verdict on a proposal and no decision on a rule is replaced by one    *)
(* that was asked for later (learning_agent.py:449, policy_agent.py:223).   *)
THEOREM DecisionsStand == LedgerSpec /\ CurationSpec => DecidedOnce
  BY LateVerdicts, RulesDecidedOnce DEF DecidedOnce

-----------------------------------------------------------------------------
(* The business graph *)

(* The ends of every edge that was observed are nodes that were found.      *)
EndsFound(nodes, observed) ==
  \A o \in observed : o.key[1] \in nodes /\ o.key[3] \in nodes

Put(observed) == {o.key : o \in observed}

LEMMA EdgesPut == ASSUME NEW S PROVE DOMAIN PutEdges(S) = Put(S)
  BY DEF PutEdges, Put

LEMMA ObservationEnds ==
  ASSUME NEW x, NEW type, NEW y, NEW nth
  PROVE  /\ Observation(Edge(x, type, y), nth).key[1] = x
         /\ Observation(Edge(x, type, y), nth).key[3] = y
  BY DEF Observation, Edge

LEMMA DatasetEnds ==
  ASSUME NEW D
  PROVE  EndsFound(DeriveDatasetStructure(D).nodes, DeriveDatasetStructure(D).edges)
<1> DEFINE known == {d \in D : d.service # 0}
           Dataset(d) == Node("dataset", d.id)
           Service(d) == Node("service", d.service)
           Measure(d, k) == Node("metric", d.measures[k])
           Named(d) == {Dataset(d)} \cup {Measure(d, k) : k \in DOMAIN d.measures}
           N == {Service(d) : d \in known} \cup UNION {Named(d) : d \in D}
           E1 == {Observation(Edge(Dataset(d), "derived_from", Service(d)), 0) : d \in known}
           E2 == UNION {{Observation(Edge(Measure(d, k), "derived_from", Dataset(d)), k) :
                            k \in DOMAIN d.measures} : d \in D}
<1>1. DeriveDatasetStructure(D) = Derived(N, E1 \cup E2) BY DEF DeriveDatasetStructure
<1> HIDE DEF Dataset, Service, Measure
<1>2. ASSUME NEW o \in E1 PROVE o.key[1] \in N /\ o.key[3] \in N
  <2>1. PICK d \in known : o = Observation(Edge(Dataset(d), "derived_from", Service(d)), 0)
    BY <1>2
  <2>2. Service(d) \in N /\ Dataset(d) \in Named(d) BY <2>1
  <2>3. Named(d) \subseteq N BY <2>1
  <2> QED BY <2>1, <2>2, <2>3, ObservationEnds
<1>3. ASSUME NEW o \in E2 PROVE o.key[1] \in N /\ o.key[3] \in N
  <2>1. PICK d \in D : o \in {Observation(Edge(Measure(d, k), "derived_from", Dataset(d)), k) :
                                k \in DOMAIN d.measures}
    BY <1>3
  <2>2. PICK k \in DOMAIN d.measures :
          o = Observation(Edge(Measure(d, k), "derived_from", Dataset(d)), k)
    BY <2>1
  <2>3. Named(d) \subseteq N /\ Measure(d, k) \in Named(d) /\ Dataset(d) \in Named(d)
    BY <2>1, <2>2
  <2> QED BY <2>2, <2>3, ObservationEnds
<1> HIDE DEF N, E1, E2
<1> QED BY <1>1, <1>2, <1>3 DEF EndsFound, Derived

LEMMA PolicyEnds ==
  ASSUME NEW P
  PROVE  EndsFound(DerivePolicyGovernance(P).nodes, DerivePolicyGovernance(P).edges)
<1> DEFINE governing == {p \in P : p.metrics # <<>>}
           Policy(p) == Node("policy", p.id)
           Governed(p, k) == Node("metric", p.metrics[k])
           Named(p) == {Policy(p)} \cup {Governed(p, k) : k \in DOMAIN p.metrics}
           N == UNION {Named(p) : p \in governing}
           E1 == UNION {{Observation(Edge(Governed(p, k), "governed_by", Policy(p)), k) :
                           k \in DOMAIN p.metrics} : p \in governing}
<1>1. DerivePolicyGovernance(P) = Derived(N, E1) BY DEF DerivePolicyGovernance
<1> HIDE DEF Policy, Governed
<1>2. ASSUME NEW o \in E1 PROVE o.key[1] \in N /\ o.key[3] \in N
  <2>1. PICK p \in governing : o \in {Observation(Edge(Governed(p, k), "governed_by", Policy(p)), k) :
                                        k \in DOMAIN p.metrics}
    BY <1>2
  <2>2. PICK k \in DOMAIN p.metrics :
          o = Observation(Edge(Governed(p, k), "governed_by", Policy(p)), k)
    BY <2>1
  <2>3. Named(p) \subseteq N /\ Policy(p) \in Named(p) /\ Governed(p, k) \in Named(p)
    BY <2>1, <2>2
  <2> QED BY <2>2, <2>3, ObservationEnds
<1> HIDE DEF N, E1
<1> QED BY <1>1, <1>2 DEF EndsFound, Derived

LEMMA CorrelationEnds ==
  ASSUME NEW I, NEW o \in Correlations(I)
  PROVE  \E i \in I : \E k \in StrongCorrelations(i) :
           {o.key[1], o.key[3]} = {Node("metric", i.metric), Node("metric", i.correlated[k].metric)}
<1> DEFINE measured == UNION {{<<i, k>> : k \in StrongCorrelations(i)} : i \in I}
           Between(i, k) == IF i.metric < i.correlated[k].metric
                            THEN <<i.metric, i.correlated[k].metric>>
                            ELSE <<i.correlated[k].metric, i.metric>>
           Pairing(m) == Between(m[1], m[2])
           On(pair) == {m \in measured : {m[1].metric, m[1].correlated[m[2]].metric} = pair}
           sum(pair) == MapThenSumSet(LAMBDA m : m[1].correlated[m[2]].strength, On(pair))
           Correlates(m) ==
             LET on == On({m[1].metric, m[1].correlated[m[2]].metric})
             IN [key |-> Edge(Node("metric", Pairing(m)[1]), "correlates_with", Node("metric", Pairing(m)[2])),
                 nth |-> 0, count |-> Cardinality(on),
                 confidence |-> Min({100, sum({m[1].metric, m[1].correlated[m[2]].metric})
                                            \div Cardinality(on)})]
<1>0. Correlations(I) = {Correlates(m) : m \in measured} BY DEF Correlations
<1> HIDE DEF Correlates
<1>9. PICK m \in measured : o = Correlates(m) BY <1>0
<1>1. o.key = Edge(Node("metric", Pairing(m)[1]), "correlates_with", Node("metric", Pairing(m)[2]))
  <2> HIDE DEF Pairing, On, sum
  <2> QED BY <1>9 DEF Correlates
<1>2. PICK i \in I : m \in {<<i, k>> : k \in StrongCorrelations(i)} OBVIOUS
<1>3. PICK k \in StrongCorrelations(i) : m = <<i, k>> BY <1>2
<1>4. \/ Pairing(m) = <<i.metric, i.correlated[k].metric>>
      \/ Pairing(m) = <<i.correlated[k].metric, i.metric>>
  BY <1>3
<1> HIDE DEF Pairing
<1>5. o.key[1] = Node("metric", Pairing(m)[1]) /\ o.key[3] = Node("metric", Pairing(m)[2])
  BY <1>1 DEF Edge
<1> QED BY <1>4, <1>5

LEMMA IncidentEnds ==
  ASSUME NEW I
  PROVE  EndsFound(DeriveIncidentEvidence(I).nodes, DeriveIncidentEvidence(I).edges)
<1> DEFINE Incident(i) == Node("incident", i.id)
           Origin(i) == Node("metric", i.metric)
           Cited(i, k) == Node("metric", i.cited[k])
           Other(i, k) == Node("metric", i.correlated[k].metric)
           Occurs(i, metric, nth) ==
             Observation(Edge(Incident(i), "co_occurred_in_incident", metric), nth)
           Named(i) == {Incident(i), Origin(i)} \cup {Cited(i, k) : k \in DOMAIN i.cited}
                         \cup {Other(i, k) : k \in StrongCorrelations(i)}
           Occurring(i) == {Occurs(i, Origin(i), 0)}
                             \cup {Occurs(i, Cited(i, k), k) : k \in DOMAIN i.cited}
           N == UNION {Named(i) : i \in I}
           E1 == Correlations(I)
           E2 == UNION {Occurring(i) : i \in I}
<1>1. DeriveIncidentEvidence(I) = Derived(N, E1 \cup E2) BY DEF DeriveIncidentEvidence
<1>2. ASSUME NEW o \in E1 PROVE o.key[1] \in N /\ o.key[3] \in N
  <2>1. PICK i \in I : \E k \in StrongCorrelations(i) :
          {o.key[1], o.key[3]} = {Origin(i), Other(i, k)}
    BY <1>2, CorrelationEnds
  <2>2. PICK k \in StrongCorrelations(i) : {o.key[1], o.key[3]} = {Origin(i), Other(i, k)}
    BY <2>1
  <2> HIDE DEF Incident, Origin, Cited, Other
  <2>3. Named(i) \subseteq N /\ Origin(i) \in Named(i) /\ Other(i, k) \in Named(i)
    BY <2>1, <2>2
  <2> QED BY <2>2, <2>3
<1> HIDE DEF Incident, Origin, Cited, Other, E1
<1>3. ASSUME NEW o \in E2 PROVE o.key[1] \in N /\ o.key[3] \in N
  <2>1. PICK i \in I : o \in Occurring(i) BY <1>3
  <2>2. Named(i) \subseteq N /\ Incident(i) \in Named(i) /\ Origin(i) \in Named(i) BY <2>1
  <2>3. CASE o = Occurs(i, Origin(i), 0) BY <2>2, <2>3, ObservationEnds
  <2>4. CASE o \in {Occurs(i, Cited(i, k), k) : k \in DOMAIN i.cited}
    <3>1. PICK k \in DOMAIN i.cited : o = Occurs(i, Cited(i, k), k) BY <2>4
    <3>2. Cited(i, k) \in Named(i) BY <3>1
    <3> QED BY <2>2, <3>1, <3>2, ObservationEnds
  <2> QED BY <2>1, <2>3, <2>4
<1> HIDE DEF N, E2
<1> QED BY <1>1, <1>2, <1>3 DEF EndsFound, Derived

LEMMA DerivedEnds ==
  ASSUME NEW name
  PROVE  EndsFound(Derivation(name).nodes, Derivation(name).edges)
<1>1. CASE name = "dataset_registry" BY <1>1, DatasetEnds DEF Derivation
<1>2. CASE name = "policy_registry" BY <1>2, PolicyEnds DEF Derivation
<1>3. CASE name \notin {"dataset_registry", "policy_registry"}
  BY <1>3, IncidentEnds DEF Derivation
<1> QED BY <1>1, <1>2, <1>3

(* A build: what it found, and what of it is still to be written.           *)
IsBuild(r) ==
  /\ r = [at |-> r.at, source |-> r.source, started |-> r.started, retire |-> r.retire,
          nodes |-> r.nodes, edges |-> r.edges, toNodes |-> r.toNodes,
          toEdges |-> r.toEdges, alone |-> r.alone]
  /\ r.at \in {"reading", "writing", "swept"} /\ r.source \in 1..3
  /\ r.retire \in BOOLEAN /\ r.alone \in BOOLEAN
  /\ EndsFound(r.nodes, r.edges)
  /\ r.toNodes \subseteq r.nodes /\ r.toEdges \subseteq Put(r.edges)
  /\ r.at = "swept" => r.retire /\ r.toNodes = {} /\ r.toEdges = {}

GraphTypes ==
  /\ GraphTypeOK /\ overlapped \in BOOLEAN
  /\ DOMAIN build = Builders
  /\ \A b \in Builders : build[b] # Idle => IsBuild(build[b]) /\ build[b].started \in 1..clock

(* Nobody else builds beside a build that is alone, or built since.         *)
AloneIsLast ==
  \A b \in Builders : build[b] # Idle =>
    (build[b].alone => build[b].started = clock /\ \A c \in Builders \ {b} : build[c] = Idle)

(* What a build has written that was alone: rows of its own time, with what *)
(* it observed; and no other row is that young.                             *)
HasWritten(r) ==
  LET nodes == IF r.at = "reading" THEN {} ELSE r.nodes \ r.toNodes
      edges == IF r.at = "reading" THEN {} ELSE Put(r.edges) \ r.toEdges
  IN /\ \A n \in DOMAIN graphNodes : graphNodes[n] >= r.started => n \in nodes
     /\ \A e \in DOMAIN graphEdges : graphEdges[e].seen >= r.started => e \in edges
     /\ \A n \in nodes : n \in DOMAIN graphNodes /\ graphNodes[n] >= r.started
     /\ \A e \in edges : /\ e \in DOMAIN graphEdges /\ graphEdges[e].seen >= r.started
                         /\ graphEdges[e].count = PutEdges(r.edges)[e].count
                         /\ graphEdges[e].confidence = PutEdges(r.edges)[e].confidence
     /\ r.at = "swept" => DOMAIN graphEdges = edges

AloneHasWritten ==
  \A b \in Builders : build[b] # Idle => (build[b].alone => HasWritten(build[b]))

LastStands == lastBuild # Idle /\ lastBuild.alone => NoBuild /\ GraphIsEvidence

(* Unless builds overlapped, an active one is alone.                        *)
OneBuilds == ~overlapped => \A b \in Builders : build[b] # Idle => build[b].alone

GraphInvariant ==
  GraphTypes /\ AloneIsLast /\ AloneHasWritten /\ LastStands /\ OneBuilds /\ EdgesHaveEnds

LEMMA IdleIsNoBuild == ~IsBuild(Idle)
  BY DEF IsBuild, Idle

LEMMA InitGraph == GraphInit => GraphInvariant
<1> SUFFICES ASSUME GraphInit PROVE GraphInvariant
  OBVIOUS
<1>1. DOMAIN graphNodes = {} /\ DOMAIN graphEdges = {} /\ \A b \in Builders : build[b] = Idle
  BY DEF GraphInit
<1>2. 0 \in 0..MaxBuilds BY BusinessGraphAssumption
<1> QED
  BY <1>1, <1>2
  DEF GraphInit, GraphInvariant, GraphTypes, GraphTypeOK, AloneIsLast, AloneHasWritten,
      LastStands, OneBuilds, EdgesHaveEnds

(* Where a build leaves the builders.                                       *)
LEMMA BuildBecomes ==
  ASSUME GraphTypes, NEW b \in Builders, NEW r, build' = [build EXCEPT ![b] = r]
  PROVE  /\ build'[b] = r /\ \A c \in Builders \ {b} : build'[c] = build[c]
         /\ DOMAIN build' = Builders
  BY DEF GraphTypes

LEMMA StartSafe ==
  ASSUME GraphInvariant, NEW b \in Builders, BuildStarts(b)
  PROVE  GraphInvariant'
<1>1. PICK retire \in BOOLEAN :
        build' = [c \in Builders |->
                   IF c = b THEN [at |-> "reading", source |-> 1, started |-> clock',
                                  retire |-> retire, nodes |-> {}, edges |-> {},
                                  toNodes |-> {}, toEdges |-> {}, alone |-> NoBuild]
                   ELSE IF build[c] = Idle THEN Idle ELSE [build[c] EXCEPT !.alone = FALSE]]
  BY DEF BuildStarts
<1>2. /\ clock' = clock + 1 /\ clock \in Nat /\ clock' \in 0..MaxBuilds /\ lastBuild' = Idle
      /\ UNCHANGED <<evidence, graphNodes, graphEdges>> /\ overlapped' = (overlapped \/ ~NoBuild)
  BY BusinessGraphAssumption DEF BuildStarts, GraphInvariant, GraphTypes, GraphTypeOK
<1> DEFINE r == build'[b]
<1>3. /\ r = [at |-> "reading", source |-> 1, started |-> clock', retire |-> retire,
              nodes |-> {}, edges |-> {}, toNodes |-> {}, toEdges |-> {},
              alone |-> NoBuild]
      /\ DOMAIN build' = Builders
  BY <1>1
<1>4. ASSUME NEW c \in Builders, c # b
      PROVE  /\ build[c] = Idle => build'[c] = Idle
             /\ build[c] # Idle => /\ build'[c] # Idle /\ ~build'[c].alone
                                   /\ IsBuild(build'[c]) /\ build'[c].started = build[c].started
  <2>1. CASE build[c] = Idle BY <1>1, <1>4, <2>1
  <2>2. CASE build[c] # Idle
    <3>1. IsBuild(build[c]) BY <2>2 DEF GraphInvariant, GraphTypes
    <3>2. build'[c] = [build[c] EXCEPT !.alone = FALSE] BY <1>1, <1>4, <2>2
    <3>3. IsBuild(build'[c]) /\ ~build'[c].alone /\ build'[c].started = build[c].started
      BY <3>1, <3>2 DEF IsBuild
    <3> QED BY <2>2, <3>3, IdleIsNoBuild
  <2> QED BY <2>1, <2>2
<1>5. IsBuild(r) /\ r # Idle /\ r.started = clock' /\ r.started \in 1..clock'
  <2>1. NoBuild \in BOOLEAN BY Zenon DEF NoBuild
  <2> HIDE DEF r
  <2>2. IsBuild(r) BY <1>3, <2>1 DEF IsBuild, EndsFound, Put
  <2>3. r.started = clock' BY <1>3
  <2> QED BY <1>2, <2>2, <2>3, IdleIsNoBuild
<1>6. r.alone => NoBuild BY <1>3
<1>7. \A c \in Builders : c # b /\ NoBuild => build'[c] = Idle BY <1>4 DEF NoBuild
<1>8. \A c \in Builders : c # b /\ build'[c] # Idle => ~build'[c].alone BY <1>4
<1>9. GraphTypes'
  <2>1. GraphTypeOK' /\ overlapped' \in BOOLEAN
    BY <1>2 DEF GraphInvariant, GraphTypes, GraphTypeOK, NoBuild
  <2>2. ASSUME NEW c \in Builders, build'[c] # Idle
        PROVE  IsBuild(build'[c]) /\ build'[c].started \in 1..clock'
    BY <1>2, <1>4, <1>5, <2>2 DEF GraphInvariant, GraphTypes
  <2> QED BY <1>3, <2>1, <2>2 DEF GraphTypes
<1>10. AloneIsLast' BY <1>5, <1>6, <1>7, <1>8 DEF AloneIsLast
<1>11. AloneHasWritten'
  <2>1. HasWritten(build[b])'
    <3>1. r.at = "reading" BY <1>3
    <3>2. \A n \in DOMAIN graphNodes : ~(graphNodes[n] >= r.started)
      BY <1>2, <1>5 DEF GraphInvariant, GraphTypes, GraphTypeOK
    <3>3. \A e \in DOMAIN graphEdges : ~(graphEdges[e].seen >= r.started)
      BY <1>2, <1>5 DEF GraphInvariant, GraphTypes, GraphTypeOK
    <3> QED BY <1>2, <3>1, <3>2, <3>3 DEF HasWritten
  <2> QED BY <1>8, <2>1 DEF AloneHasWritten
<1>12. LastStands' BY <1>2 DEF LastStands
<1>13. OneBuilds'
  <2> SUFFICES ASSUME ~overlapped', NEW c \in Builders, build'[c] # Idle PROVE build'[c].alone
    BY DEF OneBuilds
  <2>1. NoBuild BY <1>2
  <2>2. c = b BY <1>7, <2>1
  <2>3. r.alone = NoBuild BY <1>3
  <2> QED BY <2>1, <2>2, <2>3
<1>14. EdgesHaveEnds' BY <1>2 DEF GraphInvariant, EdgesHaveEnds
<1> QED BY <1>9, <1>10, <1>11, <1>12, <1>13, <1>14 DEF GraphInvariant

(* A step by which a build goes on, with its time and its company.          *)
LEMMA GoesOn ==
  ASSUME GraphInvariant, NEW b \in Builders, build[b] # Idle, NEW r,
         build' = [build EXCEPT ![b] = r], IsBuild(r),
         r.alone = build[b].alone, r.started = build[b].started,
         UNCHANGED <<evidence, lastBuild, clock, overlapped>>,
         \A n \in DOMAIN graphNodes' : graphNodes'[n] \in 1..clock,
         \A e \in DOMAIN graphEdges' : graphEdges'[e].seen \in 1..clock,
         r.alone => HasWritten(build[b])', EdgesHaveEnds'
  PROVE  GraphInvariant'
<1>1. /\ build'[b] = r /\ r # Idle /\ DOMAIN build' = Builders
      /\ \A c \in Builders \ {b} : build'[c] = build[c]
  BY BuildBecomes, IdleIsNoBuild DEF GraphInvariant
<1>2. GraphTypes'
  BY <1>1 DEF GraphInvariant, GraphTypes, GraphTypeOK
<1>3. AloneIsLast'
  BY <1>1 DEF GraphInvariant, AloneIsLast
<1>4. ASSUME NEW c \in Builders, c # b, build[c] # Idle PROVE ~build[c].alone
  BY <1>4 DEF GraphInvariant, AloneIsLast
<1>5. AloneHasWritten' BY <1>1, <1>4 DEF AloneHasWritten
<1>6. ~(lastBuild # Idle /\ lastBuild.alone) BY DEF GraphInvariant, LastStands, NoBuild
<1>7. LastStands' BY <1>6 DEF LastStands
<1>8. OneBuilds' BY <1>1 DEF GraphInvariant, OneBuilds
<1> QED BY <1>2, <1>3, <1>5, <1>7, <1>8 DEF GraphInvariant

(* A build with one field changed.                                          *)
LEMMA OtherFields ==
  ASSUME NEW r, IsBuild(r), NEW a, NEW N, NEW E
  PROVE  /\ LET q == [r EXCEPT !.toNodes = N]
            IN q = [at |-> r.at, source |-> r.source, started |-> r.started,
                    retire |-> r.retire, nodes |-> r.nodes,
                    edges |-> r.edges, toNodes |-> N, toEdges |-> r.toEdges,
                    alone |-> r.alone]
         /\ LET q == [r EXCEPT !.toEdges = E]
            IN q = [at |-> r.at, source |-> r.source, started |-> r.started,
                    retire |-> r.retire, nodes |-> r.nodes,
                    edges |-> r.edges, toNodes |-> r.toNodes, toEdges |-> E,
                    alone |-> r.alone]
         /\ LET q == [r EXCEPT !.at = a]
            IN q = [at |-> a, source |-> r.source, started |-> r.started,
                    retire |-> r.retire, nodes |-> r.nodes,
                    edges |-> r.edges, toNodes |-> r.toNodes, toEdges |-> r.toEdges,
                    alone |-> r.alone]
BY DEF IsBuild

(* What a source shows is added to what a build found.                      *)
Adding(r, N, E) ==
  Onward([r EXCEPT !.nodes = @ \cup N, !.edges = @ \cup E])

LEMMA SourceIsAdded ==
  ASSUME NEW r, IsBuild(r), r.at = "reading", NEW N, NEW E, EndsFound(N, E),
         NEW q, q = Adding(r, N, E)
  PROVE  /\ IsBuild(q) /\ q.alone = r.alone /\ q.started = r.started
         /\ q.at # "reading" => /\ q.at = "writing" /\ q.toNodes = q.nodes
                                /\ q.toEdges = Put(q.edges)
<1> DEFINE x == [r EXCEPT !.nodes = @ \cup N, !.edges = @ \cup E]
<1>1. x = [at |-> r.at, source |-> r.source, started |-> r.started, retire |-> r.retire,
           nodes |-> r.nodes \cup N, edges |-> r.edges \cup E,
           toNodes |-> r.toNodes, toEdges |-> r.toEdges, alone |-> r.alone]
  <2>1. r = [at |-> r.at, source |-> r.source, started |-> r.started, retire |-> r.retire,
             nodes |-> r.nodes, edges |-> r.edges, toNodes |-> r.toNodes,
             toEdges |-> r.toEdges, alone |-> r.alone]
    BY DEF IsBuild
  <2> DEFINE y == [at |-> r.at, source |-> r.source, started |-> r.started, retire |-> r.retire,
                   nodes |-> r.nodes, edges |-> r.edges,
                   toNodes |-> r.toNodes, toEdges |-> r.toEdges, alone |-> r.alone]
             z == [r EXCEPT !.nodes = @ \cup N]
  <2>2. z = [y EXCEPT !.nodes = r.nodes \cup N] BY Zenon, <2>1
  <2>3. z = [at |-> r.at, source |-> r.source, started |-> r.started, retire |-> r.retire,
             nodes |-> r.nodes \cup N, edges |-> r.edges,
             toNodes |-> r.toNodes, toEdges |-> r.toEdges, alone |-> r.alone]
    BY ONLY <2>2
  <2>4. x = [z EXCEPT !.edges = r.edges \cup E]
    OBVIOUS
  <2> HIDE DEF x, z
  <2> QED BY ONLY <2>3, <2>4
<1>2. EndsFound(x.nodes, x.edges) /\ Put(r.edges) \subseteq Put(x.edges)
  BY <1>1 DEF IsBuild, EndsFound, Put
<1>3. IsBuild(x) BY <1>1, <1>2 DEF IsBuild
<1>4. Len(Sources) = 3 /\ q = Onward(x) BY DEF Sources, Adding
<1> HIDE DEF x
<1>5. CASE x.source < 3
  <2>1. q = [x EXCEPT !.source = x.source + 1] BY <1>4, <1>5 DEF Onward
  <2>2. q = [at |-> x.at, source |-> x.source + 1, started |-> x.started, retire |-> x.retire,
             nodes |-> x.nodes, edges |-> x.edges, toNodes |-> x.toNodes,
             toEdges |-> x.toEdges, alone |-> x.alone]
    BY <1>3, <2>1 DEF IsBuild
  <2>3. x.source + 1 \in 1..3 /\ x.at = "reading" /\ x.alone = r.alone /\ x.started = r.started
    BY <1>1, <1>3, <1>5 DEF IsBuild
  <2> HIDE DEF x
  <2>4. IsBuild(q) BY <1>3, <2>2, <2>3 DEF IsBuild
  <2> QED BY <2>2, <2>3, <2>4
<1>6. CASE ~(x.source < 3)
  <2>1. q = [x EXCEPT !.at = "writing", !.toNodes = x.nodes, !.toEdges = Put(x.edges)]
    BY <1>4, <1>6, EdgesPut DEF Onward
  <2>2. q = [at |-> "writing", source |-> x.source, started |-> x.started, retire |-> x.retire,
             nodes |-> x.nodes, edges |-> x.edges,
             toNodes |-> x.nodes, toEdges |-> Put(x.edges), alone |-> x.alone]
    BY <1>3, <2>1 DEF IsBuild
  <2>3. x.retire \in BOOLEAN /\ x.alone \in BOOLEAN /\ x.source \in 1..3
        /\ x.alone = r.alone /\ x.started = r.started /\ EndsFound(x.nodes, x.edges)
    BY <1>1, <1>3 DEF IsBuild
  <2>4. IsBuild(q) BY ONLY <2>2, <2>3 DEF IsBuild
  <2> QED BY <2>2, <2>3, <2>4
<1> QED BY <1>5, <1>6

(* Where reading a source leaves a build.                                   *)
LEMMA ReadBecomes ==
  ASSUME GraphTypes, NEW b \in Builders, ReadSource(b)
  PROVE  \E q :
           /\ build' = [build EXCEPT ![b] = q]
           /\ IsBuild(q) /\ q.alone = build[b].alone /\ q.started = build[b].started
           /\ q.at # "reading" => q.at = "writing" /\ q.toNodes = q.nodes /\ q.toEdges = Put(q.edges)
<1> DEFINE r == build[b]
<1>1. r.at = "reading" /\ r # Idle BY DEF ReadSource, Idle
<1>2. \E f : EndsFound(f.nodes, f.edges)
             /\ build' = [build EXCEPT ![b] = Adding(r, f.nodes, f.edges)]
  <2>1. EndsFound(Derived({}, {}).nodes, Derived({}, {}).edges) BY DEF EndsFound, Derived
  <2>2. EndsFound(WithoutServices.nodes, WithoutServices.edges)
    BY DatasetEnds DEF WithoutServices
  <2>3. \/ build' = [build EXCEPT ![b] = Adding(r, Derivation(Sources[r.source]).nodes,
                                               Derivation(Sources[r.source]).edges)]
        \/ build' = [build EXCEPT ![b] = Adding(r, Derived({}, {}).nodes, Derived({}, {}).edges)]
        \/ build' = [build EXCEPT ![b] = Adding(r, WithoutServices.nodes, WithoutServices.edges)]
    BY DEF ReadSource, Adding
  <2>4. EndsFound(Derivation(Sources[r.source]).nodes, Derivation(Sources[r.source]).edges)
    BY DerivedEnds
  <2> HIDE DEF r
  <2> QED BY Zenon, <2>1, <2>2, <2>3, <2>4
<1>3. PICK f : /\ EndsFound(f.nodes, f.edges)
               /\ build' = [build EXCEPT ![b] = Adding(r, f.nodes, f.edges)]
  BY <1>2
<1> DEFINE q == Adding(r, f.nodes, f.edges)
<1>4. IsBuild(r) BY <1>1 DEF GraphTypes
<1>5. /\ IsBuild(q) /\ q.alone = r.alone /\ q.started = r.started
      /\ q.at # "reading" => q.at = "writing" /\ q.toNodes = q.nodes /\ q.toEdges = Put(q.edges)
  <2>1. EndsFound(f.nodes, f.edges) BY <1>3
  <2> HIDE DEF r
  <2> QED BY <1>1, <1>4, <2>1, SourceIsAdded
<1> HIDE DEF q
<1>6. build' = [build EXCEPT ![b] = q] BY <1>3 DEF q
<1> QED BY <1>5, <1>6

LEMMA ReadSafe ==
  ASSUME GraphInvariant, NEW b \in Builders, ReadSource(b)
  PROVE  GraphInvariant'
<1> DEFINE r == build[b]
<1>1. /\ r.at = "reading" /\ r # Idle
      /\ UNCHANGED <<evidence, graphNodes, graphEdges, lastBuild, clock, overlapped>>
  BY DEF ReadSource, Idle
<1>6. PICK q :
           /\ build' = [build EXCEPT ![b] = q]
           /\ IsBuild(q) /\ q.alone = r.alone /\ q.started = r.started
           /\ q.at # "reading" => q.at = "writing" /\ q.toNodes = q.nodes /\ q.toEdges = Put(q.edges)
  BY ReadBecomes DEF GraphInvariant
<1>5. /\ IsBuild(q) /\ q.alone = r.alone /\ q.started = r.started
      /\ q.at # "reading" => q.at = "writing" /\ q.toNodes = q.nodes /\ q.toEdges = Put(q.edges)
  BY <1>6
<1>7. build'[b] = q BY <1>6, BuildBecomes DEF GraphInvariant
<1>8. r.alone => HasWritten(build[b])'
  <2> SUFFICES ASSUME r.alone PROVE HasWritten(build[b])'
    OBVIOUS
  <2>1. HasWritten(r) BY <1>1 DEF GraphInvariant, AloneHasWritten
  <2>2. /\ \A n \in DOMAIN graphNodes : ~(graphNodes[n] >= q.started)
        /\ \A e \in DOMAIN graphEdges : ~(graphEdges[e].seen >= q.started)
    BY <1>1, <1>5, <2>1 DEF HasWritten
  <2>3. q.at = "reading" \/ (q.at = "writing" /\ q.nodes \ q.toNodes = {}
                                              /\ Put(q.edges) \ q.toEdges = {})
    BY <1>5 DEF IsBuild
  <2> QED BY <1>1, <1>7, <2>2, <2>3 DEF HasWritten
<1>9. EdgesHaveEnds' BY <1>1 DEF GraphInvariant, EdgesHaveEnds
<1> QED BY <1>1, <1>5, <1>6, <1>8, <1>9, GoesOn DEF GraphInvariant, GraphTypes, GraphTypeOK

LEMMA WriteNodeSafe ==
  ASSUME GraphInvariant, NEW b \in Builders, WriteNode(b)
  PROVE  GraphInvariant'
<1> DEFINE r == build[b]
           n == CHOOSE m \in r.toNodes : TRUE
           q == [r EXCEPT !.toNodes = @ \ {n}]
<1>1. /\ r.at = "writing" /\ r # Idle /\ n \in r.toNodes
      /\ graphNodes' = [m \in DOMAIN graphNodes \cup {n} |->
                          IF m = n THEN r.started ELSE graphNodes[m]]
      /\ build' = [build EXCEPT ![b] = q]
      /\ UNCHANGED <<evidence, graphEdges, lastBuild, clock, overlapped>>
  BY DEF WriteNode, Idle
<1> HIDE DEF n
<1>2. IsBuild(r) /\ r.started \in 1..clock BY <1>1 DEF GraphInvariant, GraphTypes
<1>3. q = [at |-> "writing", source |-> r.source, started |-> r.started, retire |-> r.retire,
           nodes |-> r.nodes, edges |-> r.edges,
           toNodes |-> r.toNodes \ {n}, toEdges |-> r.toEdges, alone |-> r.alone]
  BY Zenon, <1>1, <1>2, OtherFields
<1> HIDE DEF q
<1>4. IsBuild(q) /\ q.alone = r.alone /\ q.started = r.started BY <1>2, <1>3 DEF IsBuild
<1>5. build'[b] = q BY <1>1, BuildBecomes DEF GraphInvariant
<1>6. r.alone => HasWritten(build[b])'
  <2> SUFFICES ASSUME r.alone PROVE HasWritten(build[b])'
    OBVIOUS
  <2>1. HasWritten(r) BY <1>1 DEF GraphInvariant, AloneHasWritten
  <2>2. q.nodes \ q.toNodes = (r.nodes \ r.toNodes) \cup {n} BY <1>1, <1>2, <1>3 DEF IsBuild
  <2>3. /\ \A m \in DOMAIN graphNodes' : graphNodes'[m] >= q.started => m \in q.nodes \ q.toNodes
        /\ \A m \in q.nodes \ q.toNodes : m \in DOMAIN graphNodes' /\ graphNodes'[m] >= q.started
    BY <1>1, <1>2, <1>4, <2>1, <2>2 DEF HasWritten
  <2>4. q.at = "writing" /\ q.edges = r.edges /\ q.toEdges = r.toEdges BY <1>3
  <2> QED BY ZenonT(60), <1>1, <1>4, <1>5, <2>1, <2>3, <2>4 DEF HasWritten
<1>7. EdgesHaveEnds' BY <1>1 DEF GraphInvariant, EdgesHaveEnds
<1>8. \A m \in DOMAIN graphNodes' : graphNodes'[m] \in 1..clock
  BY <1>1, <1>2 DEF GraphInvariant, GraphTypes, GraphTypeOK
<1>9. \A e \in DOMAIN graphEdges' : graphEdges'[e].seen \in 1..clock
  BY <1>1 DEF GraphInvariant, GraphTypes, GraphTypeOK
<1> QED BY <1>1, <1>4, <1>6, <1>7, <1>8, <1>9, GoesOn

(* All that a build found is there once its nodes are written, if it is     *)
(* alone.                                                                   *)
LEMMA FoundIsThere ==
  ASSUME GraphInvariant, NEW b \in Builders, build[b] # Idle, build[b].alone,
         build[b].at # "reading", build[b].toNodes = {}
  PROVE  build[b].nodes \subseteq DOMAIN graphNodes
BY DEF GraphInvariant, AloneHasWritten, HasWritten

LEMMA WriteEdgeSafe ==
  ASSUME GraphInvariant, NEW b \in Builders, WriteEdge(b)
  PROVE  GraphInvariant'
<1> DEFINE r == build[b]
           e == CHOOSE d \in r.toEdges : TRUE
           put == PutEdges(r.edges)[e]
           q == [r EXCEPT !.toEdges = @ \ {e}]
<1>1. /\ r.at = "writing" /\ r # Idle /\ r.toNodes = {} /\ e \in r.toEdges
      /\ graphEdges' = [d \in DOMAIN graphEdges \cup {e} |->
                          IF d = e THEN [seen |-> r.started, count |-> put.count,
                                         confidence |-> put.confidence]
                          ELSE graphEdges[d]]
      /\ build' = [build EXCEPT ![b] = q]
      /\ UNCHANGED <<evidence, graphNodes, lastBuild, clock, overlapped>>
  BY DEF WriteEdge, NodesWritten, WritesEdge, Idle
<1> HIDE DEF e
<1>2. IsBuild(r) /\ r.started \in 1..clock BY <1>1 DEF GraphInvariant, GraphTypes
<1>3. q = [at |-> "writing", source |-> r.source, started |-> r.started, retire |-> r.retire,
           nodes |-> r.nodes, edges |-> r.edges,
           toNodes |-> r.toNodes, toEdges |-> r.toEdges \ {e}, alone |-> r.alone]
  BY Zenon, <1>1, <1>2, OtherFields
<1> HIDE DEF q
<1>4. IsBuild(q) /\ q.alone = r.alone /\ q.started = r.started BY <1>2, <1>3 DEF IsBuild
<1>5. build'[b] = q BY <1>1, BuildBecomes DEF GraphInvariant
<1>6. e \in Put(r.edges) BY <1>1, <1>2 DEF IsBuild
<1>7. r.alone => HasWritten(build[b])'
  <2> SUFFICES ASSUME r.alone PROVE HasWritten(build[b])'
    OBVIOUS
  <2>1. HasWritten(r) BY <1>1 DEF GraphInvariant, AloneHasWritten
  <2> DEFINE before == Put(r.edges) \ r.toEdges
             after == Put(q.edges) \ q.toEdges
  <2>2. after = before \cup {e} BY <1>3, <1>6
  <2>3. /\ \A d \in DOMAIN graphEdges : graphEdges[d].seen >= r.started => d \in before
        /\ \A d \in before : /\ d \in DOMAIN graphEdges /\ graphEdges[d].seen >= r.started
                             /\ graphEdges[d].count = PutEdges(r.edges)[d].count
                             /\ graphEdges[d].confidence = PutEdges(r.edges)[d].confidence
    BY <1>1, <2>1 DEF HasWritten
  <2>4. graphEdges'[e].seen = r.started /\ graphEdges'[e].count = PutEdges(r.edges)[e].count
        /\ graphEdges'[e].confidence = PutEdges(r.edges)[e].confidence
    BY <1>1
  <2>5. DOMAIN graphEdges' = DOMAIN graphEdges \cup {e}
        /\ \A d \in DOMAIN graphEdges : d # e => graphEdges'[d] = graphEdges[d]
    BY <1>1
  <2>6. q.at = "writing" /\ q.edges = r.edges /\ q.nodes \ q.toNodes = r.nodes \ r.toNodes
    BY <1>3
  <2> HIDE DEF before, after, put
  <2>7. /\ \A d \in DOMAIN graphEdges' : graphEdges'[d].seen >= q.started => d \in after
        /\ \A d \in after : /\ d \in DOMAIN graphEdges' /\ graphEdges'[d].seen >= q.started
                            /\ graphEdges'[d].count = PutEdges(r.edges)[d].count
                            /\ graphEdges'[d].confidence = PutEdges(r.edges)[d].confidence
    BY <1>2, <1>4, <2>2, <2>3, <2>4, <2>5
  <2>8. /\ \A n \in DOMAIN graphNodes : graphNodes[n] >= r.started => n \in r.nodes \ r.toNodes
        /\ \A n \in r.nodes \ r.toNodes : n \in DOMAIN graphNodes /\ graphNodes[n] >= r.started
    BY <1>1, <2>1 DEF HasWritten
  <2>9. UNCHANGED graphNodes BY <1>1
  <2> DEFINE p == build'[b]
  <2>10. /\ p.at = "writing" /\ p.started = r.started /\ p.edges = r.edges
         /\ p.nodes \ p.toNodes = r.nodes \ r.toNodes /\ Put(p.edges) \ p.toEdges = after
    BY <1>4, <1>5, <2>6 DEF after
  <2>11. \A d \in DOMAIN graphEdges' : graphEdges'[d].seen >= r.started => d \in after
    BY <1>4, <2>7
  <2>12. \A d \in after : /\ d \in DOMAIN graphEdges' /\ graphEdges'[d].seen >= r.started
                          /\ graphEdges'[d].count = PutEdges(r.edges)[d].count
                          /\ graphEdges'[d].confidence = PutEdges(r.edges)[d].confidence
    BY <1>4, <2>7
  <2> HIDE DEF r
  <2> QED BY ONLY <2>8, <2>9, <2>10, <2>11, <2>12 DEF HasWritten
<1>8. EdgesHaveEnds'
  <2> SUFFICES ASSUME ~overlapped, NEW d \in DOMAIN graphEdges'
               PROVE  {d[1], d[3]} \subseteq DOMAIN graphNodes
    BY <1>1 DEF EdgesHaveEnds
  <2>1. CASE d = e
    <3>1. r.nodes \subseteq DOMAIN graphNodes
      BY <1>1, FoundIsThere DEF GraphInvariant, OneBuilds
    <3>2. d[1] \in r.nodes /\ d[3] \in r.nodes
      BY <1>2, <1>6, <2>1 DEF IsBuild, EndsFound, Put
    <3> QED BY <3>1, <3>2
  <2>2. CASE d # e BY <1>1, <2>2 DEF GraphInvariant, EdgesHaveEnds
  <2> QED BY <2>1, <2>2
<1>9. \A m \in DOMAIN graphNodes' : graphNodes'[m] \in 1..clock
  BY <1>1 DEF GraphInvariant, GraphTypes, GraphTypeOK
<1>10. \A d \in DOMAIN graphEdges' : graphEdges'[d].seen \in 1..clock
  <2> HIDE DEF put
  <2> QED BY <1>1, <1>2 DEF GraphInvariant, GraphTypes, GraphTypeOK
<1> QED BY <1>1, <1>4, <1>7, <1>8, <1>9, <1>10, GoesOn

LEMMA SweepEdgesSafe ==
  ASSUME GraphInvariant, NEW b \in Builders, SweepEdges(b)
  PROVE  GraphInvariant'
<1> DEFINE r == build[b]
           q == [r EXCEPT !.at = "swept"]
           kept == {d \in DOMAIN graphEdges : graphEdges[d].seen >= r.started}
<1>1. /\ r.at = "writing" /\ r # Idle /\ r.toNodes = {} /\ r.toEdges = {} /\ r.retire
      /\ graphEdges' = [e \in kept |-> graphEdges[e]]
      /\ build' = [build EXCEPT ![b] = q]
      /\ UNCHANGED <<evidence, graphNodes, lastBuild, clock, overlapped>>
  BY DEF SweepEdges, AllWritten, NodesWritten, Idle
<1>2. IsBuild(r) BY <1>1 DEF GraphInvariant, GraphTypes
<1>3. q = [at |-> "swept", source |-> r.source, started |-> r.started, retire |-> r.retire,
           nodes |-> r.nodes, edges |-> r.edges,
           toNodes |-> r.toNodes, toEdges |-> r.toEdges, alone |-> r.alone]
  BY <1>2 DEF IsBuild
<1> HIDE DEF q
<1>4. IsBuild(q) /\ q.alone = r.alone /\ q.started = r.started BY <1>1, <1>2, <1>3 DEF IsBuild
<1>5. build'[b] = q BY <1>1, BuildBecomes DEF GraphInvariant
<1>6. r.alone => HasWritten(build[b])'
  <2> SUFFICES ASSUME r.alone PROVE HasWritten(build[b])'
    OBVIOUS
  <2>1. HasWritten(r) BY <1>1 DEF GraphInvariant, AloneHasWritten
  <2>2. kept = Put(r.edges) BY <1>1, <2>1 DEF HasWritten
  <2>3. DOMAIN graphEdges' = Put(q.edges) \ q.toEdges BY <1>1, <1>3, <2>2
  <2>4. q.at = "swept" /\ q.edges = r.edges /\ q.toEdges = r.toEdges
        /\ q.nodes \ q.toNodes = r.nodes \ r.toNodes
    BY <1>3
  <2>5. \A e \in kept : graphEdges'[e] = graphEdges[e] BY <1>1
  <2> HIDE DEF kept
  <2>6. /\ \A n \in DOMAIN graphNodes : graphNodes[n] >= r.started => n \in q.nodes \ q.toNodes
        /\ \A n \in q.nodes \ q.toNodes : n \in DOMAIN graphNodes /\ graphNodes[n] >= r.started
    BY <1>1, <2>1, <2>4 DEF HasWritten
  <2>7. \A e \in Put(r.edges) : /\ e \in DOMAIN graphEdges' /\ graphEdges'[e].seen >= r.started
                                /\ graphEdges'[e].count = PutEdges(r.edges)[e].count
                                /\ graphEdges'[e].confidence = PutEdges(r.edges)[e].confidence
    BY <1>1, <2>1, <2>2, <2>5 DEF HasWritten
  <2>8. r.toEdges = {} BY <1>1
  <2> HIDE DEF r, kept
  <2> QED BY <1>1, <1>4, <1>5, <2>3, <2>4, <2>6, <2>7, <2>8 DEF HasWritten
<1>7. EdgesHaveEnds' BY <1>1 DEF GraphInvariant, EdgesHaveEnds
<1>8. \A m \in DOMAIN graphNodes' : graphNodes'[m] \in 1..clock
  BY <1>1 DEF GraphInvariant, GraphTypes, GraphTypeOK
<1>9. \A e \in DOMAIN graphEdges' : graphEdges'[e].seen \in 1..clock
  BY <1>1 DEF GraphInvariant, GraphTypes, GraphTypeOK
<1> QED BY <1>1, <1>4, <1>6, <1>7, <1>8, <1>9, GoesOn

(* A step by which a build ends: a last one that was alone is this one, and *)
(* the graph then is its evidence.                                          *)
LEMMA BuildEnds ==
  ASSUME GraphInvariant, NEW b \in Builders, build[b] # Idle,
         build' = [build EXCEPT ![b] = Idle],
         UNCHANGED <<evidence, clock>>, overlapped' \in BOOLEAN,
         \A n \in DOMAIN graphNodes' : graphNodes'[n] \in 1..clock,
         \A e \in DOMAIN graphEdges' : graphEdges'[e].seen \in 1..clock,
         ~overlapped' => ~overlapped \/ build[b].alone,
         lastBuild' # Idle /\ lastBuild'.alone => build[b].alone /\ GraphIsEvidence',
         EdgesHaveEnds'
  PROVE  GraphInvariant'
<1>1. /\ build'[b] = Idle /\ DOMAIN build' = Builders
      /\ \A c \in Builders \ {b} : build'[c] = build[c]
  BY BuildBecomes DEF GraphInvariant
<1>2. GraphTypes' BY <1>1 DEF GraphInvariant, GraphTypes, GraphTypeOK
<1>3. ASSUME NEW c \in Builders, build'[c] # Idle
      PROVE  c # b /\ build'[c] = build[c] /\ ~build[c].alone /\ ~build[b].alone
  <2>1. c # b /\ build'[c] = build[c] BY <1>1, <1>3
  <2> QED BY <1>3, <2>1 DEF GraphInvariant, AloneIsLast
<1>4. AloneIsLast' BY <1>3 DEF AloneIsLast
<1>5. AloneHasWritten' BY <1>3 DEF AloneHasWritten
<1>6. LastStands' BY <1>3 DEF LastStands, NoBuild
<1>7. OneBuilds' BY <1>3 DEF GraphInvariant, OneBuilds
<1> QED BY <1>2, <1>4, <1>5, <1>6, <1>7 DEF GraphInvariant

LEMMA EndWithoutSweepSafe ==
  ASSUME GraphInvariant, NEW b \in Builders, EndWithoutSweep(b)
  PROVE  GraphInvariant'
<1> DEFINE r == build[b]
<1>1. /\ r.at = "writing" /\ r # Idle /\ r.toNodes = {} /\ r.toEdges = {} /\ ~r.retire
      /\ UNCHANGED <<evidence, graphNodes, graphEdges, clock>>
      /\ build' = [build EXCEPT ![b] = Idle]
      /\ lastBuild' = IF r.started = clock THEN r ELSE lastBuild
      /\ overlapped' = (overlapped /\ ~(r.retire /\ r.alone))
  BY DEF EndWithoutSweep, AllWritten, NodesWritten, Finished, Idle
<1>2. overlapped' = overlapped BY <1>1 DEF GraphInvariant, GraphTypes
<1>0. ~(lastBuild # Idle /\ lastBuild.alone)
  BY <1>1 DEF GraphInvariant, LastStands, NoBuild
<1>3. lastBuild' # Idle /\ lastBuild'.alone => r.alone /\ GraphIsEvidence'
  <2> SUFFICES ASSUME r.alone, lastBuild' = r PROVE GraphIsEvidence'
    BY <1>0, <1>1
  <2>1. HasWritten(r) BY <1>1 DEF GraphInvariant, AloneHasWritten
  <2>2. DOMAIN PutEdges(r.edges) = Put(r.edges) BY EdgesPut
  <2> QED BY <1>1, <2>1, <2>2 DEF HasWritten, GraphIsEvidence, Shows
<1>4. EdgesHaveEnds' BY <1>1, <1>2 DEF GraphInvariant, EdgesHaveEnds
<1> QED BY <1>1, <1>2, <1>3, <1>4, BuildEnds DEF GraphInvariant, GraphTypes, GraphTypeOK

LEMMA SweepNodesSafe ==
  ASSUME GraphInvariant, NEW b \in Builders, SweepNodes(b)
  PROVE  GraphInvariant'
<1> DEFINE r == build[b]
           kept == {m \in DOMAIN graphNodes : graphNodes[m] >= r.started}
<1>1. /\ r.at = "swept" /\ r # Idle
      /\ graphNodes' = [n \in kept |-> graphNodes[n]]
      /\ UNCHANGED <<evidence, graphEdges, clock>>
      /\ build' = [build EXCEPT ![b] = Idle]
      /\ lastBuild' = IF r.started = clock THEN r ELSE lastBuild
      /\ overlapped' = (overlapped /\ ~(r.retire /\ r.alone))
  BY DEF SweepNodes, Finished, Idle
<1>2. IsBuild(r) BY <1>1 DEF GraphInvariant, GraphTypes
<1>3. r.retire /\ r.toNodes = {} /\ r.toEdges = {} BY <1>1, <1>2 DEF IsBuild
<1>4. overlapped' \in BOOLEAN /\ (~overlapped' => ~overlapped \/ r.alone) BY <1>1
<1>5. ~overlapped' => r.alone BY <1>1, <1>4 DEF GraphInvariant, OneBuilds
<1>6. r.alone => DOMAIN graphNodes' = r.nodes /\ DOMAIN graphEdges = Put(r.edges)
  BY <1>1, <1>3 DEF GraphInvariant, AloneHasWritten, HasWritten
<1>0. ~(lastBuild # Idle /\ lastBuild.alone)
  BY <1>1 DEF GraphInvariant, LastStands, NoBuild
<1>7. lastBuild' # Idle /\ lastBuild'.alone => r.alone /\ GraphIsEvidence'
  <2> SUFFICES ASSUME r.alone, lastBuild' = r PROVE GraphIsEvidence'
    BY <1>0, <1>1
  <2>1. HasWritten(r) BY <1>1 DEF GraphInvariant, AloneHasWritten
  <2>2. DOMAIN PutEdges(r.edges) = Put(r.edges) BY EdgesPut
  <2>3. \A e \in Put(r.edges) : /\ graphEdges[e].count = PutEdges(r.edges)[e].count
                                /\ graphEdges[e].confidence = PutEdges(r.edges)[e].confidence
    BY <1>1, <1>3, <2>1 DEF HasWritten
  <2> QED BY <1>1, <1>6, <2>2, <2>3 DEF GraphIsEvidence, Shows
<1>8. EdgesHaveEnds'
  <2> SUFFICES ASSUME ~overlapped', NEW e \in DOMAIN graphEdges
               PROVE  e[1] \in DOMAIN graphNodes' /\ e[3] \in DOMAIN graphNodes'
    BY <1>1 DEF EdgesHaveEnds
  <2>1. e \in Put(r.edges) /\ DOMAIN graphNodes' = r.nodes BY <1>5, <1>6
  <2> QED BY <1>2, <2>1 DEF IsBuild, EndsFound, Put
<1>9. \A n \in DOMAIN graphNodes' : graphNodes'[n] \in 1..clock
  BY <1>1 DEF GraphInvariant, GraphTypes, GraphTypeOK
<1>10. \A e \in DOMAIN graphEdges' : graphEdges'[e].seen \in 1..clock
  BY <1>1 DEF GraphInvariant, GraphTypes, GraphTypeOK
<1> HIDE DEF kept
<1> QED BY <1>1, <1>4, <1>7, <1>8, <1>9, <1>10, BuildEnds

LEMMA BuildFailsSafe ==
  ASSUME GraphInvariant, NEW b \in Builders, BuildFails(b)
  PROVE  GraphInvariant'
<1>1. /\ build[b] # Idle /\ build' = [build EXCEPT ![b] = Idle]
      /\ UNCHANGED <<evidence, graphNodes, graphEdges, lastBuild, clock, overlapped>>
  BY DEF BuildFails
<1>2. ~(lastBuild' # Idle /\ lastBuild'.alone)
  BY <1>1 DEF GraphInvariant, LastStands, NoBuild
<1>3. EdgesHaveEnds' BY <1>1 DEF GraphInvariant, EdgesHaveEnds
<1> QED BY <1>1, <1>2, <1>3, BuildEnds DEF GraphInvariant, GraphTypes, GraphTypeOK

(* Nothing but the evidence changes, or nothing.                            *)
LEMMA GraphStays ==
  ASSUME GraphInvariant, evidence' \subseteq AllIds,
         UNCHANGED <<graphNodes, graphEdges, build, lastBuild, clock, overlapped>>
  PROVE  GraphInvariant'
<1>1. GraphTypes' BY DEF GraphInvariant, GraphTypes, GraphTypeOK
<1>2. AloneIsLast' /\ OneBuilds' /\ EdgesHaveEnds'
  BY DEF GraphInvariant, AloneIsLast, OneBuilds, EdgesHaveEnds
<1>3. AloneHasWritten' BY DEF GraphInvariant, AloneHasWritten, HasWritten
<1>4. LastStands' BY DEF GraphInvariant, LastStands, NoBuild, GraphIsEvidence, Shows
<1> QED BY <1>1, <1>2, <1>3, <1>4 DEF GraphInvariant

(* Builds have times of their own, and the newest one, under way or ended,  *)
(* keeps its rows.                                                          *)
RaceInvariant ==
  /\ \A b, c \in Builders : b # c /\ build[b] # Idle /\ build[c] # Idle
                              => build[b].started # build[c].started
  /\ lastBuild # Idle => /\ lastBuild.started = clock
                         /\ \A b \in Builders : build[b] # Idle => build[b].started # clock
  /\ NewestKeepsItsWork

(* A step loses no row of the newest time, but for those it notes.          *)
YoungRowsStay ==
  /\ restamped \subseteq restamped'
  /\ \A n \in DOMAIN graphNodes \ restamped' :
       graphNodes[n] = clock => n \in DOMAIN graphNodes' /\ graphNodes'[n] = graphNodes[n]
  /\ \A e \in DOMAIN graphEdges \ restamped' :
       graphEdges[e].seen = clock => e \in DOMAIN graphEdges' /\ graphEdges'[e] = graphEdges[e]

LEMMA NewestGoesOnKeeping ==
  ASSUME YoungRowsStay, NEW r, r.started = clock, Keeps(r)
  PROVE  Keeps(r)'
<1> DEFINE nodes == IF r.at = "reading" THEN {} ELSE r.nodes \ r.toNodes
           put == PutEdges(r.edges)
           edges == IF r.at = "reading" THEN {} ELSE DOMAIN put \ r.toEdges
<1> HIDE DEF nodes, put, edges
<1>1. /\ \A n \in nodes \ restamped : n \in DOMAIN graphNodes /\ graphNodes[n] = r.started
      /\ \A e \in edges \ restamped :
           /\ e \in DOMAIN graphEdges
           /\ graphEdges[e] = [seen |-> r.started, count |-> put[e].count,
                               confidence |-> put[e].confidence]
  BY DEF Keeps, nodes, put, edges
<1>2. \A n \in nodes \ restamped' : n \in DOMAIN graphNodes' /\ graphNodes'[n] = r.started
  BY <1>1 DEF YoungRowsStay
<1>3. ASSUME NEW e \in edges \ restamped'
      PROVE  /\ e \in DOMAIN graphEdges'
             /\ graphEdges'[e] = [seen |-> r.started, count |-> put[e].count,
                                  confidence |-> put[e].confidence]
  BY <1>1, <1>3 DEF YoungRowsStay
<1> QED BY <1>2, <1>3 DEF Keeps, nodes, put, edges

(* A step by which a build goes on, and the newest keeps what it wrote.     *)
LEMMA RaceGoesOn ==
  ASSUME GraphTypes, RaceInvariant, NEW b \in Builders, build[b] # Idle, NEW r,
         build' = [build EXCEPT ![b] = r], r.started = build[b].started,
         UNCHANGED <<lastBuild, clock>>,
         r.started = clock => Keeps(r)', r.started # clock => YoungRowsStay
  PROVE  RaceInvariant'
<1>1. build'[b] = r /\ \A c \in Builders \ {b} : build'[c] = build[c] BY BuildBecomes
<1>2. ASSUME NEW c \in Builders, build'[c] # Idle
      PROVE  build[c] # Idle /\ build'[c].started = build[c].started
  BY <1>1, <1>2
<1>3. ASSUME NEW c \in Builders, build'[c] # Idle, build'[c].started = clock PROVE Keeps(build[c])'
  <2>1. CASE c = b BY <1>1, <1>3, <2>1 DEF Keeps
  <2>2. CASE c # b
    <3>1. build'[c] = build[c] /\ Keeps(build[c])
      BY <1>1, <1>3, <2>2 DEF RaceInvariant, NewestKeepsItsWork
    <3>2. YoungRowsStay BY <1>2, <1>3, <2>2, <3>1 DEF RaceInvariant
    <3>3. \A x : x.started = clock /\ Keeps(x) => Keeps(x)' BY <3>2, NewestGoesOnKeeping
    <3> QED BY <1>3, <3>1, <3>3 DEF Keeps
  <2> QED BY <2>1, <2>2
<1>4. lastBuild # Idle => Keeps(lastBuild)'
  <2>1. lastBuild # Idle => lastBuild.started = clock /\ Keeps(lastBuild)
    BY DEF RaceInvariant, NewestKeepsItsWork
  <2>2. lastBuild # Idle => YoungRowsStay BY DEF RaceInvariant
  <2>3. YoungRowsStay => \A x : x.started = clock /\ Keeps(x) => Keeps(x)'
    BY NewestGoesOnKeeping
  <2> QED BY <2>1, <2>2, <2>3 DEF Keeps
<1> QED BY <1>2, <1>3, <1>4 DEF RaceInvariant, NewestKeepsItsWork

(* A step by which a build ends; it stands as the last one if it is the     *)
(* newest and did not fail.                                                 *)
LEMMA RaceEnds ==
  ASSUME GraphTypes, RaceInvariant, YoungRowsStay, NEW b \in Builders, build[b] # Idle,
         build' = [build EXCEPT ![b] = Idle], UNCHANGED clock,
         \/ lastBuild' = lastBuild
         \/ lastBuild' = build[b] /\ build[b].started = clock
  PROVE  RaceInvariant'
<1>1. build'[b] = Idle /\ \A c \in Builders \ {b} : build'[c] = build[c] BY BuildBecomes
<1>2. \A x : x.started = clock /\ Keeps(x) => Keeps(x)' BY NewestGoesOnKeeping
<1>3. ASSUME NEW c \in Builders, build'[c] # Idle PROVE c # b /\ build'[c] = build[c]
  BY <1>1, <1>3
<1>4. ASSUME NEW c \in Builders, build'[c] # Idle, build'[c].started = clock PROVE Keeps(build[c])'
  <2>1. build'[c] = build[c] /\ Keeps(build[c]) BY <1>3, <1>4 DEF RaceInvariant, NewestKeepsItsWork
  <2> QED BY <1>2, <1>4, <2>1 DEF Keeps
<1>5. lastBuild' # Idle =>
        /\ lastBuild'.started = clock /\ Keeps(lastBuild)'
        /\ \A c \in Builders : build'[c] # Idle => build'[c].started # clock
  <2>1. CASE lastBuild' = lastBuild
    BY <1>2, <1>3, <2>1 DEF RaceInvariant, NewestKeepsItsWork, Keeps
  <2>2. CASE lastBuild' = build[b] /\ build[b].started = clock
    <3>1. Keeps(build[b]) BY <2>2 DEF RaceInvariant, NewestKeepsItsWork
    <3>2. Keeps(lastBuild)' BY <1>2, <2>2, <3>1 DEF Keeps
    <3> QED BY <1>3, <2>2, <3>2 DEF RaceInvariant
  <2> QED BY <2>1, <2>2
<1> QED BY <1>3, <1>4, <1>5 DEF RaceInvariant, NewestKeepsItsWork

LEMMA RaceStarts ==
  ASSUME GraphTypes, RaceInvariant, NEW b \in Builders, BuildStarts(b)
  PROVE  RaceInvariant'
<1>1. PICK retire \in BOOLEAN :
        build' = [c \in Builders |->
                   IF c = b THEN [at |-> "reading", source |-> 1, started |-> clock',
                                  retire |-> retire, nodes |-> {}, edges |-> {},
                                  toNodes |-> {}, toEdges |-> {}, alone |-> NoBuild]
                   ELSE IF build[c] = Idle THEN Idle ELSE [build[c] EXCEPT !.alone = FALSE]]
  BY DEF BuildStarts
<1>2. clock' = clock + 1 /\ clock \in Nat /\ lastBuild' = Idle
  BY BusinessGraphAssumption DEF BuildStarts, GraphTypes, GraphTypeOK
<1>3. build'[b].at = "reading" /\ build'[b].started = clock' BY <1>1
<1>4. ASSUME NEW c \in Builders, c # b, build'[c] # Idle
      PROVE  /\ build[c] # Idle /\ build'[c].started = build[c].started
             /\ build'[c].started # clock'
  <2>1. build[c] # Idle BY <1>1, <1>4
  <2>2. IsBuild(build[c]) /\ build[c].started \in 1..clock BY <2>1 DEF GraphTypes
  <2>3. build'[c] = [build[c] EXCEPT !.alone = FALSE] BY <1>1, <1>4, <2>1
  <2>4. build'[c].started = build[c].started BY <2>2, <2>3 DEF IsBuild
  <2> QED BY <1>2, <2>1, <2>2, <2>4
<1>5. Keeps(build[b])'
  <2>1. build'[b].at = "reading" BY <1>3
  <2> QED BY <2>1 DEF Keeps
<1>6. NewestKeepsItsWork' BY <1>2, <1>4, <1>5 DEF NewestKeepsItsWork
<1>7. ASSUME NEW c \in Builders, NEW d \in Builders, c # d, build'[c] # Idle, build'[d] # Idle
      PROVE  build'[c].started # build'[d].started
  BY <1>3, <1>4, <1>7 DEF RaceInvariant
<1> QED BY <1>2, <1>6, <1>7 DEF RaceInvariant

LEMMA RaceReads ==
  ASSUME GraphTypes, RaceInvariant, NEW b \in Builders, ReadSource(b)
  PROVE  RaceInvariant'
<1> DEFINE r == build[b]
<1>1. /\ r.at = "reading" /\ r # Idle
      /\ UNCHANGED <<graphNodes, graphEdges, lastBuild, restamped, clock>>
  BY DEF ReadSource, Idle
<1>2. PICK q : /\ build' = [build EXCEPT ![b] = q] /\ q.started = r.started
               /\ q.at # "reading" => q.toNodes = q.nodes /\ q.toEdges = Put(q.edges)
  BY ReadBecomes
<1>3. Keeps(q)'
  <2>1. q.at # "reading" => q.nodes \ q.toNodes = {} /\ DOMAIN PutEdges(q.edges) \ q.toEdges = {}
    BY <1>2, EdgesPut
  <2> QED BY <2>1 DEF Keeps
<1>4. YoungRowsStay BY <1>1 DEF YoungRowsStay
<1> HIDE DEF r
<1> QED BY <1>1, <1>2, <1>3, <1>4, RaceGoesOn DEF r

LEMMA RaceWritesNode ==
  ASSUME GraphTypes, RaceInvariant, NEW b \in Builders, WriteNode(b)
  PROVE  RaceInvariant'
<1> DEFINE r == build[b]
           n == CHOOSE m \in r.toNodes : TRUE
<1>0. PICK q : q = [r EXCEPT !.toNodes = @ \ {n}]
  OBVIOUS
<1>1. /\ r.at = "writing" /\ r # Idle /\ n \in r.toNodes
      /\ graphNodes' = [m \in DOMAIN graphNodes \cup {n} |->
                          IF m = n THEN r.started ELSE graphNodes[m]]
      /\ build' = [build EXCEPT ![b] = q] /\ WritesOver(n, r.started, SeenAt(n))
      /\ UNCHANGED <<evidence, graphEdges, lastBuild, clock>>
  BY <1>0 DEF WriteNode, Idle
<1> HIDE DEF n
<1>2. IsBuild(r) /\ r.started \in 1..clock /\ clock \in Nat
  BY <1>1, BusinessGraphAssumption DEF GraphTypes, GraphTypeOK
<1>3. q = [at |-> "writing", source |-> r.source, started |-> r.started, retire |-> r.retire,
           nodes |-> r.nodes, edges |-> r.edges,
           toNodes |-> r.toNodes \ {n}, toEdges |-> r.toEdges, alone |-> r.alone]
  BY Zenon, <1>0, <1>1, <1>2, OtherFields
<1>4. r.started # clock => YoungRowsStay
  <2> SUFFICES ASSUME r.started < clock PROVE YoungRowsStay
    BY <1>2
  <2>1. restamped \subseteq restamped' BY <1>1 DEF WritesOver
  <2>2. ASSUME NEW m \in DOMAIN graphNodes \ restamped', graphNodes[m] = clock
        PROVE  m \in DOMAIN graphNodes' /\ graphNodes'[m] = graphNodes[m]
    <3>1. CASE m = n
      <4>1. SeenAt(n) = clock BY <2>2, <3>1 DEF SeenAt
      <4>2. ~(r.started < clock) BY <1>1, <2>2, <3>1, <4>1 DEF WritesOver
      <4> QED BY <1>1, <1>2, <2>2, <3>1, <4>2
    <3>2. CASE m # n BY <1>1, <2>2, <3>2
    <3> QED BY <3>1, <3>2
  <2> QED BY <1>1, <2>1, <2>2 DEF YoungRowsStay
<1>5. r.started = clock => Keeps(q)'
  <2> SUFFICES ASSUME r.started = clock PROVE Keeps(q)'
    OBVIOUS
  <2>1. Keeps(r) BY <1>1 DEF RaceInvariant, NewestKeepsItsWork
  <2>2. UNCHANGED restamped BY <1>2, <1>1 DEF WritesOver
  <2>3. q.at = "writing" /\ q.started = r.started /\ q.edges = r.edges /\ q.toEdges = r.toEdges
        /\ q.nodes = r.nodes /\ q.toNodes = r.toNodes \ {n}
    BY <1>3
  <2>4. graphNodes'[n] = r.started /\ n \in DOMAIN graphNodes' BY <1>1
  <2>5. \A m \in DOMAIN graphNodes : m # n => m \in DOMAIN graphNodes' /\ graphNodes'[m] = graphNodes[m]
    BY <1>1
  <2>6. UNCHANGED graphEdges BY <1>1
  <2>7. \A m \in (q.nodes \ q.toNodes) \ restamped' :
          m \in DOMAIN graphNodes' /\ graphNodes'[m] = q.started
    BY <1>1, <2>1, <2>2, <2>3, <2>4, <2>5 DEF Keeps
  <2> HIDE DEF r
  <2> QED BY <1>1, <2>1, <2>2, <2>3, <2>6, <2>7 DEF Keeps
<1>6. q.started = r.started BY <1>3
<1> HIDE DEF r
<1> QED BY <1>1, <1>4, <1>5, <1>6, RaceGoesOn DEF r

LEMMA RaceWritesEdge ==
  ASSUME GraphTypes, RaceInvariant, NEW b \in Builders, WriteEdge(b)
  PROVE  RaceInvariant'
<1> DEFINE r == build[b]
           e == CHOOSE d \in r.toEdges : TRUE
           put == PutEdges(r.edges)[e]
<1>0. PICK q : q = [r EXCEPT !.toEdges = @ \ {e}]
  OBVIOUS
<1>1. /\ r.at = "writing" /\ r # Idle /\ e \in r.toEdges
      /\ graphEdges' = [d \in DOMAIN graphEdges \cup {e} |->
                          IF d = e THEN [seen |-> r.started, count |-> put.count,
                                         confidence |-> put.confidence]
                          ELSE graphEdges[d]]
      /\ build' = [build EXCEPT ![b] = q] /\ WritesOver(e, r.started, EdgeSeenAt(e))
      /\ UNCHANGED <<evidence, graphNodes, lastBuild, clock>>
  BY <1>0 DEF WriteEdge, NodesWritten, WritesEdge, Idle
<1> HIDE DEF e
<1>2. IsBuild(r) /\ r.started \in 1..clock /\ clock \in Nat
  BY <1>1, BusinessGraphAssumption DEF GraphTypes, GraphTypeOK
<1>3. q = [at |-> "writing", source |-> r.source, started |-> r.started, retire |-> r.retire,
           nodes |-> r.nodes, edges |-> r.edges,
           toNodes |-> r.toNodes, toEdges |-> r.toEdges \ {e}, alone |-> r.alone]
  BY Zenon, <1>0, <1>1, <1>2, OtherFields
<1>7. /\ e \in DOMAIN graphEdges' /\ \A d \in DOMAIN graphEdges :
           d # e => d \in DOMAIN graphEdges' /\ graphEdges'[d] = graphEdges[d]
      /\ graphEdges'[e] = [seen |-> r.started, count |-> put.count, confidence |-> put.confidence]
  BY <1>1
<1>4. r.started = clock => Keeps(q)'
  <2> SUFFICES ASSUME r.started = clock PROVE Keeps(q)'
    OBVIOUS
  <2>1. Keeps(r) BY <1>1 DEF RaceInvariant, NewestKeepsItsWork
  <2>2. UNCHANGED restamped BY <1>2, <1>1 DEF WritesOver
  <2>3. q.at = "writing" /\ q.started = r.started /\ q.edges = r.edges
        /\ q.toEdges = r.toEdges \ {e} /\ q.nodes = r.nodes /\ q.toNodes = r.toNodes
    BY <1>3
  <2>4. UNCHANGED graphNodes BY <1>1
  <2> DEFINE all == PutEdges(r.edges)
  <2>5. \A d \in (DOMAIN all \ r.toEdges) \ restamped :
          /\ d \in DOMAIN graphEdges
          /\ graphEdges[d] = [seen |-> r.started, count |-> all[d].count,
                              confidence |-> all[d].confidence]
    BY <1>1, <2>1 DEF Keeps
  <2> HIDE DEF all
  <2>6. put = all[e] BY DEF all
  <2> HIDE DEF put
  <2>7. \A d \in (DOMAIN all \ q.toEdges) \ restamped' :
          /\ d \in DOMAIN graphEdges'
          /\ graphEdges'[d] = [seen |-> q.started, count |-> all[d].count,
                               confidence |-> all[d].confidence]
    BY <1>7, <2>2, <2>3, <2>5, <2>6
  <2>8. \A n \in (q.nodes \ q.toNodes) \ restamped' :
          n \in DOMAIN graphNodes' /\ graphNodes'[n] = q.started
    BY <1>1, <2>1, <2>2, <2>3, <2>4 DEF Keeps
  <2>9. PutEdges(q.edges) = all BY <2>3 DEF all
  <2> QED BY <2>3, <2>7, <2>8, <2>9 DEF Keeps
<1>5. r.started # clock => YoungRowsStay
  <2> SUFFICES ASSUME r.started < clock PROVE YoungRowsStay
    BY <1>2
  <2>1. restamped \subseteq restamped' BY <1>1 DEF WritesOver
  <2>2. ASSUME NEW d \in DOMAIN graphEdges \ restamped', graphEdges[d].seen = clock
        PROVE  d \in DOMAIN graphEdges' /\ graphEdges'[d] = graphEdges[d]
    <3>1. CASE d = e
      <4>1. EdgeSeenAt(e) = clock BY <2>2, <3>1 DEF EdgeSeenAt
      <4>2. ~(r.started < clock) BY <1>1, <2>2, <3>1, <4>1 DEF WritesOver
      <4> QED BY <1>7, <3>1, <4>2
    <3>2. CASE d # e BY <1>7, <2>2, <3>2
    <3> QED BY <3>1, <3>2
  <2> QED BY <1>1, <2>1, <2>2 DEF YoungRowsStay
<1>6. q.started = r.started BY <1>3
<1> HIDE DEF r
<1> QED BY <1>1, <1>4, <1>5, <1>6, RaceGoesOn DEF r

(* A sweep spares what is as young as the build that sweeps.                *)
LEMMA SweepSparesYoung ==
  ASSUME GraphTypes, NEW b \in Builders, build[b] # Idle, UNCHANGED restamped,
         \/ UNCHANGED graphNodes
         \/ graphNodes' = [n \in {m \in DOMAIN graphNodes : graphNodes[m] >= build[b].started}
                             |-> graphNodes[n]],
         \/ UNCHANGED graphEdges
         \/ graphEdges' = [e \in {d \in DOMAIN graphEdges : graphEdges[d].seen >= build[b].started}
                             |-> graphEdges[e]]
  PROVE  YoungRowsStay
<1>1. clock >= build[b].started
  <2>1. clock \in Nat BY BusinessGraphAssumption DEF GraphTypes, GraphTypeOK
  <2> QED BY <2>1 DEF GraphTypes
<1>2. \A n \in DOMAIN graphNodes :
        graphNodes[n] = clock => n \in DOMAIN graphNodes' /\ graphNodes'[n] = graphNodes[n]
  BY <1>1
<1>3. \A e \in DOMAIN graphEdges :
        graphEdges[e].seen = clock => e \in DOMAIN graphEdges' /\ graphEdges'[e] = graphEdges[e]
  BY <1>1
<1> QED BY <1>2, <1>3 DEF YoungRowsStay

LEMMA RaceSweepsEdges ==
  ASSUME GraphTypes, RaceInvariant, NEW b \in Builders, SweepEdges(b)
  PROVE  RaceInvariant'
<1> DEFINE r == build[b]
<1>0. PICK q : q = [r EXCEPT !.at = "swept"]
  OBVIOUS
<1>1. /\ r.at = "writing" /\ r # Idle /\ build' = [build EXCEPT ![b] = q]
      /\ UNCHANGED <<lastBuild, clock>>
  BY <1>0 DEF SweepEdges, AllWritten, NodesWritten, Idle
<1>2. YoungRowsStay
  <2>1. /\ UNCHANGED <<graphNodes, restamped>>
        /\ graphEdges' = [e \in {d \in DOMAIN graphEdges : graphEdges[d].seen >= build[b].started}
                            |-> graphEdges[e]]
    BY DEF SweepEdges
  <2> QED BY <1>1, <2>1, SweepSparesYoung
<1>3. IsBuild(r) BY <1>1 DEF GraphTypes
<1>4. /\ q.at = "swept" /\ q.started = r.started /\ q.nodes = r.nodes /\ q.edges = r.edges
      /\ q.toNodes = r.toNodes /\ q.toEdges = r.toEdges
  BY <1>0, <1>3 DEF IsBuild
<1>5. r.started = clock => Keeps(q)'
  <2> SUFFICES ASSUME r.started = clock PROVE Keeps(q)'
    OBVIOUS
  <2>1. Keeps(r) BY <1>1 DEF RaceInvariant, NewestKeepsItsWork
  <2>2. Keeps(q) BY <1>1, <1>4, <2>1 DEF Keeps
  <2>3. q.started = clock BY <1>4
  <2> QED BY <1>2, <2>2, <2>3, NewestGoesOnKeeping
<1> HIDE DEF r
<1> QED BY <1>1, <1>2, <1>4, <1>5, RaceGoesOn DEF r

(* However builds race, the newest keeps its rows.                          *)
LEMMA RaceInductive == GraphInvariant /\ RaceInvariant /\ [GraphNext]_graphVars => RaceInvariant'
<1> SUFFICES ASSUME GraphTypes, RaceInvariant, [GraphNext]_graphVars PROVE RaceInvariant'
  BY DEF GraphInvariant
<1>1. ASSUME UNCHANGED <<graphNodes, graphEdges, build, lastBuild, restamped, clock>>
      PROVE  RaceInvariant'
  BY <1>1 DEF RaceInvariant, NewestKeepsItsWork, Keeps
<1>2. CASE EvidenceChanges BY <1>1, <1>2 DEF EvidenceChanges
<1>3. CASE UNCHANGED graphVars BY <1>1, <1>3 DEF graphVars
<1>4. ASSUME NEW b \in Builders, BuildStarts(b) PROVE RaceInvariant' BY <1>4, RaceStarts
<1>5. ASSUME NEW b \in Builders, ReadSource(b) PROVE RaceInvariant' BY <1>5, RaceReads
<1>6. ASSUME NEW b \in Builders, WriteNode(b) PROVE RaceInvariant' BY <1>6, RaceWritesNode
<1>7. ASSUME NEW b \in Builders, WriteEdge(b) PROVE RaceInvariant' BY <1>7, RaceWritesEdge
<1>8. ASSUME NEW b \in Builders, SweepEdges(b) PROVE RaceInvariant' BY <1>8, RaceSweepsEdges
<1>9. ASSUME NEW b \in Builders, EndWithoutSweep(b) PROVE RaceInvariant'
  <2>1. build[b] # Idle BY <1>9 DEF EndWithoutSweep, AllWritten, NodesWritten, Idle
  <2>2. YoungRowsStay BY <1>9, <2>1, SweepSparesYoung DEF EndWithoutSweep
  <2> QED BY <1>9, <2>1, <2>2, RaceEnds DEF EndWithoutSweep, Finished
<1>10. ASSUME NEW b \in Builders, SweepNodes(b) PROVE RaceInvariant'
  <2>1. build[b] # Idle BY <1>10 DEF SweepNodes, Idle
  <2>2. YoungRowsStay BY <1>10, <2>1, SweepSparesYoung DEF SweepNodes
  <2> QED BY <1>10, <2>1, <2>2, RaceEnds DEF SweepNodes, Finished
<1>11. ASSUME NEW b \in Builders, BuildFails(b) PROVE RaceInvariant'
  <2>1. build[b] # Idle BY <1>11 DEF BuildFails
  <2>2. YoungRowsStay BY <1>11, <2>1, SweepSparesYoung DEF BuildFails
  <2> QED BY <1>11, <2>1, <2>2, RaceEnds DEF BuildFails
<1> QED BY <1>2, <1>3, <1>4, <1>5, <1>6, <1>7, <1>8, <1>9, <1>10, <1>11 DEF GraphNext

(* The business graph is what its sources show, for any number of instances *)
(* and any evidence: a build that was alone leaves exactly the nodes and    *)
(* edges it found, whichever sources were unreadable and whatever raced or  *)
(* failed before it; the newest build loses no row to a race but those an   *)
(* older one wrote over; and while builds do not overlap no edge leads to a *)
(* node that is not there, wherever a build or a sweep stops                *)
(* (business_graph.py:530, 564-574, 238-249, repositories.py:554).          *)
THEOREM GraphIsSound == GraphSpec => []GraphSound
<1>1. GraphInit => GraphInvariant BY InitGraph
<1>2. GraphInvariant /\ [GraphNext]_graphVars => GraphInvariant'
  <2> SUFFICES ASSUME GraphInvariant, [GraphNext]_graphVars PROVE GraphInvariant'
    OBVIOUS
  <2>1. CASE EvidenceChanges
    BY <2>1, GraphStays DEF EvidenceChanges, GraphInvariant, GraphTypes, GraphTypeOK
  <2>2. CASE UNCHANGED graphVars
    BY <2>2, GraphStays DEF graphVars, GraphInvariant, GraphTypes, GraphTypeOK
  <2>3. ASSUME NEW b \in Builders, BuildStarts(b) PROVE GraphInvariant' BY <2>3, StartSafe
  <2>4. ASSUME NEW b \in Builders, ReadSource(b) PROVE GraphInvariant' BY <2>4, ReadSafe
  <2>5. ASSUME NEW b \in Builders, WriteNode(b) PROVE GraphInvariant' BY <2>5, WriteNodeSafe
  <2>6. ASSUME NEW b \in Builders, WriteEdge(b) PROVE GraphInvariant' BY <2>6, WriteEdgeSafe
  <2>7. ASSUME NEW b \in Builders, EndWithoutSweep(b) PROVE GraphInvariant'
    BY <2>7, EndWithoutSweepSafe
  <2>8. ASSUME NEW b \in Builders, SweepEdges(b) PROVE GraphInvariant' BY <2>8, SweepEdgesSafe
  <2>9. ASSUME NEW b \in Builders, SweepNodes(b) PROVE GraphInvariant' BY <2>9, SweepNodesSafe
  <2>10. ASSUME NEW b \in Builders, BuildFails(b) PROVE GraphInvariant' BY <2>10, BuildFailsSafe
  <2> QED
    BY <2>1, <2>2, <2>3, <2>4, <2>5, <2>6, <2>7, <2>8, <2>9, <2>10 DEF GraphNext
<1>3. GraphInit => RaceInvariant BY DEF GraphInit, RaceInvariant, NewestKeepsItsWork
<1>4. GraphInvariant /\ RaceInvariant => GraphSound
  BY DEF GraphInvariant, GraphTypes, LastStands, GraphIsEvidence, RaceInvariant, GraphSound
<1> QED BY <1>1, <1>2, <1>3, <1>4, RaceInductive, PTL DEF GraphSpec

=============================================================================
