---------------------------- MODULE ActionAgent ----------------------------
(***************************************************************************)
(* aeam/agents/action/action_agent.py and aeam/core/idempotency.py: the    *)
(* only component allowed to call external APIs.                           *)
(*                                                                         *)
(* execute() runs on whatever thread called it (a review request, a        *)
(* monitor thread) and takes no lock, so one call is several steps:        *)
(*                                                                         *)
(*   Admit -> Check -> Attempt (at most MaxAttempts times) -> Settle       *)
(*         -> Store -> done                                                *)
(*                                                                         *)
(* Circuit breakers live in the memory of one process (a host); the        *)
(* idempotency records live in the Redis every host shares.                *)
(***************************************************************************)
EXTENDS Naturals, FiniteSets

CONSTANTS
  Hosts,             \* application processes
  Callers,           \* threads that may be inside execute() at the same time
  HostOf,            \* the host a caller's thread belongs to
  Types,             \* registered action types ("slack", "jira", ...)
  Keys,              \* idempotency keys: one per (incident, type, parameters)
  NoKey,             \* "no call in progress"
  TypeOf,            \* the action type of a key
  MaxAttempts,       \* _MAX_ATTEMPTS
  FailureThreshold,  \* _CB_FAILURE_THRESHOLD
  LostReplies,       \* may an external effect happen although the call raises?
  MaxCalls,          \* bound: calls per caller
  MaxFaults          \* bound: Redis outages, expiries and restarts

ASSUME AgentConstants ==
  /\ HostOf \in [Callers -> Hosts]
  /\ TypeOf \in [Keys -> Types]
  /\ NoKey \notin Keys
  /\ MaxAttempts \in Nat \ {0}
  /\ FailureThreshold \in Nat \ {0}
  /\ LostReplies \in BOOLEAN
  /\ MaxCalls \in Nat
  /\ MaxFaults \in Nat

VARIABLES
  breaker,    \* one circuit breaker per host and action type
  idem,       \* the idempotency records in Redis
  redisUp,    \* whether Redis answers
  call,       \* the state of each caller's execute()
  faults,     \* faults so far (bounded by MaxFaults)
  delivered,  \* history: external effects that happened, per key
  cause       \* history: what could make an effect happen twice, per key

agentVars == <<breaker, idem, redisUp, call, faults, delivered, cause>>

-----------------------------------------------------------------------------
(* State. *)

Results == {"SUCCESS", "FAILED"}
Statuses == Results \cup {"ALREADY_EXECUTED", "CIRCUIT_OPEN"}
Causes == {"overlap", "lost_reply", "redis", "expired", "crash"}

Breaker == [state : {"CLOSED", "OPEN", "HALF_OPEN"}, failures : Nat,
            elapsed : BOOLEAN]

CallRecord ==
  [pc : {"idle", "check", "attempt", "settle", "store", "done"},
   key : Keys \cup {NoKey}, attempt : 0..MaxAttempts,
   status : Statuses \cup {"none"}, used : Nat]

Call == {x \in CallRecord : /\ x.pc # "idle" => x.key \in Keys
                            /\ x.pc \in {"settle", "store"} => x.status \in Results}

(* A call that has passed the duplicate check and not yet stored its result *)
InFlight == {"attempt", "settle", "store"}

FreshBreaker == [state |-> "CLOSED", failures |-> 0, elapsed |-> FALSE]

NoCall == [pc |-> "idle", key |-> NoKey, attempt |-> 0,
           status |-> "none", used |-> 0]

AgentInit ==
  /\ breaker = [b \in Hosts \X Types |-> FreshBreaker]
  /\ idem = [k \in Keys |-> "none"]
  /\ redisUp = TRUE
  /\ call = [c \in Callers |-> NoCall]
  /\ faults = 0
  /\ delivered = [k \in Keys |-> 0]
  /\ cause = [k \in Keys |-> {}]

-----------------------------------------------------------------------------
(* The circuit breaker, as functions on one breaker's state. "elapsed" says *)
(* that time.monotonic() has passed _open_until.                            *)

Allows(b) == b.state = "OPEN" => b.elapsed

AfterAllow(b) == IF b.state = "OPEN" THEN [b EXCEPT !.state = "HALF_OPEN"] ELSE b

(* Mutant: closing after the trial forgets to reset the count. *)
AfterSuccessKeepsCount(b) ==
  IF b.state = "HALF_OPEN" THEN [b EXCEPT !.state = "CLOSED"]
                           ELSE [b EXCEPT !.failures = 0]

AfterSuccess(b) ==
  [b EXCEPT !.failures = 0, !.state = IF @ = "HALF_OPEN" THEN "CLOSED" ELSE @]

Trips(b) == \/ b.state = "HALF_OPEN"
            \/ b.state = "CLOSED" /\ b.failures + 1 >= FailureThreshold

AfterFailure(b) ==
  IF Trips(b)
    THEN [state |-> "OPEN", failures |-> b.failures + 1, elapsed |-> FALSE]
    ELSE [b EXCEPT !.failures = @ + 1]

BreakerOf(c, k) == <<HostOf[c], TypeOf[k]>>

-----------------------------------------------------------------------------
(* One call of execute(), step by step. *)

(* Steps 1 and 2: the breaker lets the call through, becoming half-open if  *)
(* its cooldown is over.                                                    *)
Admit(c, k) ==
  LET b == breaker[BreakerOf(c, k)] IN
  /\ call[c].pc = "idle"
  /\ Allows(b)
  /\ breaker' = [breaker EXCEPT ![BreakerOf(c, k)] = AfterAllow(b)]
  /\ call' = [call EXCEPT ![c] = [pc |-> "check", key |-> k, attempt |-> 0,
                                  status |-> "none", used |-> @.used + 1]]
  /\ UNCHANGED <<idem, redisUp, faults, delivered, cause>>

(* Step 2: the breaker is open. *)
Refuse(c, k) ==
  /\ call[c].pc = "idle"
  /\ ~Allows(breaker[BreakerOf(c, k)])
  /\ call' = [call EXCEPT ![c] = [pc |-> "done", key |-> k, attempt |-> 0,
                                  status |-> "CIRCUIT_OPEN",
                                  used |-> @.used + 1]]
  /\ UNCHANGED <<breaker, idem, redisUp, faults, delivered, cause>>

(* IdempotencyManager.check: a record exists and Redis says so; an error is *)
(* answered as "no record".                                                 *)
Recorded(k) == redisUp /\ idem[k] # "none"

Duplicate(c) ==
  /\ call[c].pc = "check"
  /\ Recorded(call[c].key)
  /\ call' = [call EXCEPT ![c].pc = "done", ![c].status = "ALREADY_EXECUTED"]
  /\ UNCHANGED <<breaker, idem, redisUp, faults, delivered, cause>>

Overlaps(c) == \E d \in Callers \ {c} :
                 call[d].key = call[c].key /\ call[d].pc \in InFlight

Proceed(c) ==
  LET k == call[c].key IN
  /\ call[c].pc = "check"
  /\ ~Recorded(k)
  /\ call' = [call EXCEPT ![c].pc = "attempt", ![c].attempt = 1]
  /\ cause' = [cause EXCEPT ![k] = @ \cup (IF Overlaps(c) THEN {"overlap"} ELSE {})
                                     \cup (IF idem[k] # "none" THEN {"redis"} ELSE {})]
  /\ UNCHANGED <<breaker, idem, redisUp, faults, delivered>>

(* Mutant: the loop does not break on success. *)
AttemptSucceedsNoBreak(c) ==
  /\ call[c].pc = "attempt"
  /\ call' = [call EXCEPT ![c] = IF @.attempt < MaxAttempts
                                   THEN [@ EXCEPT !.attempt = @ + 1]
                                   ELSE [@ EXCEPT !.pc = "settle", !.status = "SUCCESS"]]
  /\ delivered' = [delivered EXCEPT ![call[c].key] = @ + 1]
  /\ UNCHANGED <<breaker, idem, redisUp, faults, cause>>

(* Steps 6-8: the handler returns. *)
AttemptSucceeds(c) ==
  /\ call[c].pc = "attempt"
  /\ call' = [call EXCEPT ![c].pc = "settle", ![c].status = "SUCCESS"]
  /\ delivered' = [delivered EXCEPT ![call[c].key] = @ + 1]
  /\ UNCHANGED <<breaker, idem, redisUp, faults, cause>>

(* The handler raises NonRetryableActionError: no further attempt. *)
AttemptInvalid(c) ==
  /\ call[c].pc = "attempt"
  /\ call' = [call EXCEPT ![c].pc = "settle", ![c].status = "FAILED"]
  /\ UNCHANGED <<breaker, idem, redisUp, faults, delivered, cause>>

(* Mutant: the attempts are not limited. *)
AttemptRaisesUnlimited(c, lost) ==
  /\ call[c].pc = "attempt" /\ ~lost
  /\ call' = [call EXCEPT ![c].attempt = @ + 1]
  /\ UNCHANGED <<breaker, idem, redisUp, faults, delivered, cause>>

(* Any other exception: another attempt, or FAILED after the last one.      *)
(* "lost": the effect happened but the reply did not arrive (a 10 s timeout *)
(* after the POST was accepted).                                            *)
AttemptRaises(c, lost) ==
  LET k == call[c].key IN
  /\ call[c].pc = "attempt"
  /\ lost => LostReplies
  /\ call' = IF call[c].attempt < MaxAttempts
               THEN [call EXCEPT ![c].attempt = @ + 1]
               ELSE [call EXCEPT ![c].pc = "settle", ![c].status = "FAILED"]
  /\ delivered' = IF lost THEN [delivered EXCEPT ![k] = @ + 1] ELSE delivered
  /\ cause' = IF lost THEN [cause EXCEPT ![k] = @ \cup {"lost_reply"}] ELSE cause
  /\ UNCHANGED <<breaker, idem, redisUp, faults>>

(* The breaker learns the outcome of the call. *)
Settle(c) ==
  LET b == BreakerOf(c, call[c].key) IN
  /\ call[c].pc = "settle"
  /\ breaker' = [breaker EXCEPT ![b] = IF call[c].status = "SUCCESS"
                                         THEN AfterSuccess(@) ELSE AfterFailure(@)]
  /\ call' = [call EXCEPT ![c].pc = "store"]
  /\ UNCHANGED <<idem, redisUp, faults, delivered, cause>>

(* Step 9: the result is recorded, whatever it is; a Redis error is logged  *)
(* and the record is not written. Step 10 (action_logs) changes nothing     *)
(* execute() reads.                                                         *)
Store(c) ==
  LET k == call[c].key IN
  /\ call[c].pc = "store"
  /\ idem' = IF redisUp THEN [idem EXCEPT ![k] = call[c].status] ELSE idem
  /\ cause' = IF redisUp THEN cause ELSE [cause EXCEPT ![k] = @ \cup {"redis"}]
  /\ call' = [call EXCEPT ![c].pc = "done"]
  /\ UNCHANGED <<breaker, redisUp, faults, delivered>>

(* The caller takes the result dict. *)
Return(c) ==
  /\ call[c].pc = "done"
  /\ call' = [call EXCEPT ![c] = [NoCall EXCEPT !.used = call[c].used]]
  /\ UNCHANGED <<breaker, idem, redisUp, faults, delivered, cause>>

CallStep(c) ==
  \/ Duplicate(c) \/ Proceed(c) \/ Settle(c) \/ Store(c)
  \/ AttemptSucceeds(c) \/ AttemptInvalid(c)
  \/ \E lost \in BOOLEAN : AttemptRaises(c, lost)

-----------------------------------------------------------------------------
(* The environment. *)

CooldownElapses(b) ==
  /\ breaker[b].state = "OPEN" /\ ~breaker[b].elapsed
  /\ breaker' = [breaker EXCEPT ![b].elapsed = TRUE]
  /\ UNCHANGED <<idem, redisUp, call, faults, delivered, cause>>

Fault == faults < MaxFaults /\ faults' = faults + 1

RedisFails ==
  /\ redisUp /\ Fault
  /\ redisUp' = FALSE
  /\ UNCHANGED <<breaker, idem, call, delivered, cause>>

RedisReturns ==
  /\ ~redisUp
  /\ redisUp' = TRUE
  /\ UNCHANGED <<breaker, idem, call, faults, delivered, cause>>

(* A record reaches the end of its 24 h. *)
Expire(k) ==
  /\ idem[k] # "none" /\ Fault
  /\ idem' = [idem EXCEPT ![k] = "none"]
  /\ cause' = [cause EXCEPT ![k] = @ \cup {"expired"}]
  /\ UNCHANGED <<breaker, redisUp, call, delivered>>

(* The keys whose outcome dies with a crash of host h: their call is past   *)
(* the duplicate check and has stored nothing yet.                          *)
Orphaned(h) == {call[c].key : c \in {d \in Callers : /\ HostOf[d] = h
                                                     /\ call[d].pc \in InFlight}}

(* The process dies and starts again: its calls are gone, its breakers new. *)
AgentRestart(h) ==
  /\ Fault
  /\ cause' = [k \in Keys |-> cause[k] \cup
                 (IF k \in Orphaned(h) THEN {"crash"} ELSE {})]
  /\ call' = [c \in Callers |-> IF HostOf[c] = h
                                  THEN [NoCall EXCEPT !.used = call[c].used]
                                  ELSE call[c]]
  /\ breaker' = [b \in Hosts \X Types |-> IF b[1] = h THEN FreshBreaker
                                                      ELSE breaker[b]]
  /\ UNCHANGED <<idem, redisUp, delivered>>

Environment ==
  \/ \E b \in Hosts \X Types : CooldownElapses(b)
  \/ RedisFails \/ RedisReturns
  \/ \E k \in Keys : Expire(k)

-----------------------------------------------------------------------------
(* Callers that may ask for any action, at most MaxCalls times each.        *)

AgentNext ==
  \/ \E c \in Callers, k \in Keys : /\ call[c].used < MaxCalls
                                    /\ Admit(c, k) \/ Refuse(c, k)
  \/ \E c \in Callers : CallStep(c) \/ Return(c)
  \/ \E h \in Hosts : AgentRestart(h)
  \/ Environment

AgentSpec == AgentInit /\ [][AgentNext]_agentVars

-----------------------------------------------------------------------------
(* Properties. *)

(* Every variable holds a value of its kind; a call past "idle" has a key,  *)
(* a settled one a result, and no call makes more than MaxAttempts attempts.*)
AgentTypeOK ==
  /\ breaker \in [Hosts \X Types -> Breaker]
  /\ idem \in [Keys -> Results \cup {"none"}]
  /\ redisUp \in BOOLEAN
  /\ call \in [Callers -> Call]
  /\ faults \in Nat
  /\ delivered \in [Keys -> Nat]
  /\ cause \in [Keys -> SUBSET Causes]

(* An external effect happens twice only for one of the reasons named in    *)
(* Causes: two calls for the key overlapped, a reply was lost, Redis was    *)
(* unreachable, the 24 h record expired, or the process died mid-call. In   *)
(* particular a call that starts after another one returned never repeats   *)
(* it, however often the handler was retried before it succeeded.           *)
RepeatHasCause == \A k \in Keys : delivered[k] > 1 => cause[k] # {}

(* A closed breaker is always below its threshold: no sequence of late      *)
(* successes and failures of overlapping calls, cooldowns and trials leaves *)
(* a breaker closed with enough failures counted to be open.                *)
ClosedBelowThreshold ==
  \A b \in Hosts \X Types : breaker[b].state = "CLOSED" =>
                              breaker[b].failures < FailureThreshold

(* IdempotencyManager.check: a hit "means the action was already executed". *)
AlreadyExecutedIsTrue ==
  \A c \in Callers : call[c].status = "ALREADY_EXECUTED" =>
                       delivered[call[c].key] > 0

=============================================================================
