-------------------------- MODULE ActionAgentProofs --------------------------
(* Theorems about ActionAgent, for every number of hosts, callers, keys,     *)
(* attempts and faults, and every threshold.                                 *)
EXTENDS ActionAgent, TLAPS

USE AgentConstants

(* The breaker's operations return breaker states. *)
LEMMA BreakerTypes ==
  ASSUME NEW b \in Breaker
  PROVE  /\ AfterAllow(b) \in Breaker
         /\ AfterSuccess(b) \in Breaker
         /\ AfterFailure(b) \in Breaker
  <1>1. AfterAllow(b) \in Breaker
    BY DEF AfterAllow, Breaker
  <1>2. AfterSuccess(b) \in Breaker
    <2>1. CASE b.state = "HALF_OPEN"
      BY <2>1 DEF AfterSuccess, Breaker
    <2>2. CASE b.state # "HALF_OPEN"
      BY <2>2 DEF AfterSuccess, Breaker
    <2>3. QED
      BY <2>1, <2>2
  <1>3. AfterFailure(b) \in Breaker
    BY DEF AfterFailure, Breaker
  <1>4. QED
    BY <1>1, <1>2, <1>3

(* A step of one call keeps the calls well-formed if the new call is. *)
LEMMA CallUpdate ==
  ASSUME NEW c \in Callers, call \in [Callers -> Call],
         call'[c] \in Call, call' = [call EXCEPT ![c] = call'[c]]
  PROVE  call' \in [Callers -> Call]
  OBVIOUS

(* What is known of a well-formed call. *)
LEMMA CallFacts ==
  ASSUME AgentTypeOK, NEW c \in Callers
  PROVE  /\ call[c] \in CallRecord
         /\ call[c].pc # "idle" => call[c].key \in Keys
         /\ call[c].pc \in {"settle", "store"} => call[c].status \in Results
  BY DEF AgentTypeOK, Call

(* A caller that is done, or whose process died, is idle again. *)
LEMMA ResetCall ==
  ASSUME AgentTypeOK, NEW c \in Callers
  PROVE  [NoCall EXCEPT !.used = call[c].used] \in Call
  <1>1. call[c].used \in Nat
    BY CallFacts DEF CallRecord
  <1>2. 0 \in 0..MaxAttempts
    OBVIOUS
  <1>3. QED
    BY <1>1, <1>2 DEF NoCall, Call, CallRecord

(* Every step of the agent keeps every variable's type. *)
LEMMA AgentTypingStep == AgentTypeOK /\ [AgentNext]_agentVars => AgentTypeOK'
<1> SUFFICES ASSUME AgentTypeOK, [AgentNext]_agentVars PROVE AgentTypeOK'
  OBVIOUS
<1>1. ASSUME NEW c \in Callers, NEW k \in Keys, Admit(c, k) PROVE AgentTypeOK'
  <2>1. breaker' \in [Hosts \X Types -> Breaker]
    BY <1>1 DEF Admit, AfterAllow, BreakerOf, AgentTypeOK, Breaker
  <2>2. call'[c] \in Call
    BY <1>1 DEF Admit, AgentTypeOK, Call, CallRecord
  <2>3. call' = [call EXCEPT ![c] = call'[c]]
    BY <1>1 DEF Admit, AgentTypeOK
  <2>4. call' \in [Callers -> Call]
    BY <2>2, <2>3, CallUpdate DEF AgentTypeOK
  <2>5. QED
    BY <1>1, <2>1, <2>4 DEF Admit, AgentTypeOK
<1>2. ASSUME NEW c \in Callers, NEW k \in Keys, Refuse(c, k) PROVE AgentTypeOK'
  <2>1. call'[c] \in Call
    BY <1>2 DEF Refuse, AgentTypeOK, Call, CallRecord, Statuses, Results
  <2>2. call' = [call EXCEPT ![c] = call'[c]]
    BY <1>2 DEF Refuse, AgentTypeOK
  <2>3. call' \in [Callers -> Call]
    BY <2>1, <2>2, CallUpdate DEF AgentTypeOK
  <2> QED
    BY <1>2, <2>3 DEF Refuse, AgentTypeOK
<1>3. ASSUME NEW c \in Callers, Duplicate(c) PROVE AgentTypeOK'
  <2>1. call'[c] \in Call
    BY ZenonT(60), <1>3, CallFacts DEF Duplicate, AgentTypeOK, Call, CallRecord, Statuses, Results
  <2>2. call' = [call EXCEPT ![c] = call'[c]]
    BY <1>3 DEF Duplicate, AgentTypeOK
  <2>3. call' \in [Callers -> Call]
    BY <2>1, <2>2, CallUpdate DEF AgentTypeOK
  <2> QED
    BY <1>3, <2>3 DEF Duplicate, AgentTypeOK
<1>4. ASSUME NEW c \in Callers, Proceed(c) PROVE AgentTypeOK'
  <2>1. call'[c] \in Call
    <3>1. call'[c] = [call[c] EXCEPT !.pc = "attempt", !.attempt = 1]
      BY <1>4 DEF Proceed, AgentTypeOK
    <3>2. 1 \in 0..MaxAttempts
      OBVIOUS
    <3>3. QED
      <4>1. call[c] \in CallRecord /\ call[c].key \in Keys
        BY <1>4, CallFacts DEF Proceed
      <4>2. QED
        BY <3>1, <3>2, <4>1 DEF Call, CallRecord
  <2>2. call' = [call EXCEPT ![c] = call'[c]]
    BY <1>4 DEF Proceed, AgentTypeOK
  <2>3. call' \in [Callers -> Call]
    BY <2>1, <2>2, CallUpdate DEF AgentTypeOK
  <2>4. delivered' \in [Keys -> Nat] /\ cause' \in [Keys -> SUBSET Causes]
    BY <1>4 DEF Proceed, AgentTypeOK, Causes
  <2> QED
    BY <1>4, <2>3, <2>4 DEF Proceed, AgentTypeOK
<1>5. ASSUME NEW c \in Callers, AttemptSucceeds(c) PROVE AgentTypeOK'
  <2>1. call'[c] \in Call
    BY ZenonT(60), <1>5, CallFacts DEF AttemptSucceeds, AgentTypeOK, Call, CallRecord, Statuses, Results
  <2>2. call' = [call EXCEPT ![c] = call'[c]]
    BY <1>5 DEF AttemptSucceeds, AgentTypeOK
  <2>3. call' \in [Callers -> Call]
    BY <2>1, <2>2, CallUpdate DEF AgentTypeOK
  <2>4. delivered' \in [Keys -> Nat] /\ cause' \in [Keys -> SUBSET Causes]
    BY <1>5, CallFacts DEF AttemptSucceeds, AgentTypeOK, Causes
  <2> QED
    BY <1>5, <2>3, <2>4 DEF AttemptSucceeds, AgentTypeOK
<1>6. ASSUME NEW c \in Callers, AttemptInvalid(c) PROVE AgentTypeOK'
  <2>1. call'[c] \in Call
    BY ZenonT(60), <1>6, CallFacts DEF AttemptInvalid, AgentTypeOK, Call, CallRecord, Statuses, Results
  <2>2. call' = [call EXCEPT ![c] = call'[c]]
    BY <1>6 DEF AttemptInvalid, AgentTypeOK
  <2>3. call' \in [Callers -> Call]
    BY <2>1, <2>2, CallUpdate DEF AgentTypeOK
  <2> QED
    BY <1>6, <2>3 DEF AttemptInvalid, AgentTypeOK
<1>7. ASSUME NEW c \in Callers, NEW lost \in BOOLEAN, AttemptRaises(c, lost) PROVE AgentTypeOK'
  <2>1. call'[c] \in Call
    <3>1. CASE call[c].attempt < MaxAttempts
      <4>1. call'[c] = [call[c] EXCEPT !.attempt = @ + 1]
        <5>1. call' = [call EXCEPT ![c] = [call[c] EXCEPT !.attempt = @ + 1]]
          BY <1>7, <3>1 DEF AttemptRaises
        <5>2. QED
          BY <5>1 DEF AgentTypeOK
      <4>2. call[c].attempt + 1 \in 0..MaxAttempts
        BY <3>1, CallFacts DEF CallRecord
      <4>3. QED
        BY <1>7, <4>1, <4>2, CallFacts DEF AttemptRaises, Call, CallRecord
    <3>2. CASE ~(call[c].attempt < MaxAttempts)
      <4>1. call'[c] = [call[c] EXCEPT !.pc = "settle", !.status = "FAILED"]
        BY <1>7, <3>2 DEF AttemptRaises, AgentTypeOK
      <4>2. call[c] \in CallRecord /\ call[c].key \in Keys
        BY <1>7, CallFacts DEF AttemptRaises
      <4>3. QED
        BY <4>1, <4>2 DEF Call, CallRecord, Statuses, Results
    <3>3. QED
      BY <3>1, <3>2
  <2>2. call' = [call EXCEPT ![c] = call'[c]]
    BY <1>7 DEF AttemptRaises, AgentTypeOK
  <2>3. call' \in [Callers -> Call]
    BY <2>1, <2>2, CallUpdate DEF AgentTypeOK
  <2>4. delivered' \in [Keys -> Nat] /\ cause' \in [Keys -> SUBSET Causes]
    BY <1>7, CallFacts DEF AttemptRaises, AgentTypeOK, Causes
  <2> QED
    BY <1>7, <2>3, <2>4 DEF AttemptRaises, AgentTypeOK
<1>8. ASSUME NEW c \in Callers, Settle(c) PROVE AgentTypeOK'
  <2>1. call'[c] \in Call
    BY <1>8, CallFacts DEF Settle, AgentTypeOK, Call, CallRecord, Statuses, Results
  <2>2. call' = [call EXCEPT ![c] = call'[c]]
    BY <1>8 DEF Settle, AgentTypeOK
  <2>3. call' \in [Callers -> Call]
    BY <2>1, <2>2, CallUpdate DEF AgentTypeOK
  <2>4. breaker' \in [Hosts \X Types -> Breaker]
    <3> DEFINE b == BreakerOf(c, call[c].key)
    <3>1. b \in Hosts \X Types
      BY <1>8, CallFacts DEF Settle, BreakerOf
    <3>2. breaker[b] \in Breaker
      BY <3>1 DEF AgentTypeOK
    <3>3. QED
      BY <1>8, <3>2, BreakerTypes DEF Settle, AgentTypeOK
  <2> QED
    BY <1>8, <2>3, <2>4 DEF Settle, AgentTypeOK
<1>9. ASSUME NEW c \in Callers, Store(c) PROVE AgentTypeOK'
  <2>1. call'[c] \in Call
    BY <1>9, CallFacts DEF Store, AgentTypeOK, Call, CallRecord, Statuses, Results
  <2>2. call' = [call EXCEPT ![c] = call'[c]]
    BY <1>9 DEF Store, AgentTypeOK
  <2>3. call' \in [Callers -> Call]
    BY <2>1, <2>2, CallUpdate DEF AgentTypeOK
  <2>4. /\ idem' \in [Keys -> Results \cup {"none"}]
        /\ cause' \in [Keys -> SUBSET Causes]
    BY <1>9 DEF Store, AgentTypeOK, Causes, Call, CallRecord
  <2> QED
    BY <1>9, <2>3, <2>4 DEF Store, AgentTypeOK
<1>10. ASSUME NEW c \in Callers, Return(c) PROVE AgentTypeOK'
  <2>1. call'[c] \in Call
    BY <1>10, CallFacts, ResetCall DEF Return, AgentTypeOK
  <2>2. call' = [call EXCEPT ![c] = call'[c]]
    BY <1>10 DEF Return, AgentTypeOK
  <2>3. call' \in [Callers -> Call]
    BY <2>1, <2>2, CallUpdate DEF AgentTypeOK
  <2> QED
    BY <1>10, <2>3 DEF Return, AgentTypeOK
<1>11. ASSUME NEW h \in Hosts, AgentRestart(h) PROVE AgentTypeOK'
  <2>1. call' \in [Callers -> Call]
    BY <1>11, ResetCall DEF AgentRestart, AgentTypeOK
  <2>2. breaker' \in [Hosts \X Types -> Breaker]
    BY <1>11 DEF AgentRestart, AgentTypeOK, Breaker, FreshBreaker
  <2>3. cause' \in [Keys -> SUBSET Causes]
    BY <1>11 DEF AgentRestart, AgentTypeOK, Causes
  <2> QED
    BY <1>11, <2>1, <2>2, <2>3 DEF AgentRestart, AgentTypeOK, Fault
<1>12. ASSUME NEW b \in Hosts \X Types, CooldownElapses(b) PROVE AgentTypeOK'
  BY ZenonT(60), <1>12 DEF CooldownElapses, AgentTypeOK, Breaker
<1>13. ASSUME NEW k \in Keys, Expire(k) PROVE AgentTypeOK'
  BY <1>13 DEF Expire, Fault, AgentTypeOK, Causes
<1>14. ASSUME RedisFails \/ RedisReturns PROVE AgentTypeOK'
  <2>1. redisUp' \in BOOLEAN
    BY <1>14, Zenon DEF RedisFails, RedisReturns
  <2>2. faults' \in Nat
    BY <1>14 DEF RedisFails, RedisReturns, Fault, AgentTypeOK
  <2>3. UNCHANGED <<breaker, idem, call, delivered, cause>>
    BY <1>14 DEF RedisFails, RedisReturns
  <2>4. QED
    BY <2>1, <2>2, <2>3 DEF AgentTypeOK
<1>15. CASE UNCHANGED agentVars
  BY <1>15 DEF agentVars, AgentTypeOK
<1>16. QED
  BY <1>1, <1>2, <1>3, <1>4, <1>5, <1>6, <1>7, <1>8, <1>9, <1>10, <1>11,
     <1>12, <1>13, <1>14, <1>15 DEF AgentNext, CallStep, Environment

(* Every variable keeps its type. *)
THEOREM AgentTyping == AgentSpec => []AgentTypeOK
<1>1. AgentInit => AgentTypeOK
  BY DEF AgentInit, FreshBreaker, NoCall, AgentTypeOK, Breaker, Call, CallRecord
<1>2. QED
  BY <1>1, AgentTypingStep, PTL DEF AgentSpec

-----------------------------------------------------------------------------
(* A closed breaker has counted fewer failures than the threshold, in every  *)
(* process, under any interleaving of calls, cooldowns and restarts.         *)
THEOREM BreakerThreshold == AgentSpec => []ClosedBelowThreshold
<1>1. AgentInit => ClosedBelowThreshold
  BY DEF AgentInit, ClosedBelowThreshold, FreshBreaker
<1>2. AgentTypeOK /\ ClosedBelowThreshold /\ [AgentNext]_agentVars
        => ClosedBelowThreshold'
  <2> SUFFICES ASSUME AgentTypeOK, ClosedBelowThreshold, [AgentNext]_agentVars,
                      NEW b \in Hosts \X Types, breaker'[b].state = "CLOSED"
               PROVE  breaker'[b].failures < FailureThreshold
    BY DEF ClosedBelowThreshold
  <2>0. breaker[b] \in Breaker
    BY DEF AgentTypeOK
  <2>1. CASE breaker'[b] = breaker[b]
    BY <2>1 DEF ClosedBelowThreshold
  <2>2. CASE breaker'[b] = AfterAllow(breaker[b])
    BY <2>0, <2>2 DEF AfterAllow, Breaker, ClosedBelowThreshold
  <2>3. CASE breaker'[b] = AfterSuccess(breaker[b])
    <3>1. breaker'[b].failures = 0
      BY <2>0, <2>3 DEF AfterSuccess, Breaker
    <3>2. QED
      BY <3>1
  <2>4. CASE breaker'[b] = AfterFailure(breaker[b])
    <3>1. breaker[b].state # "CLOSED" => breaker'[b].state # "CLOSED"
      BY <2>0, <2>4 DEF AfterFailure, Trips, Breaker
    <3>2. CASE breaker[b].state = "CLOSED"
      BY <2>0, <2>4, <3>2 DEF AfterFailure, Trips, Breaker
    <3>3. QED
      BY <3>1, <3>2
  <2>5. CASE breaker'[b] = FreshBreaker
    BY <2>5 DEF FreshBreaker
  <2>6. CASE breaker'[b] = [breaker[b] EXCEPT !.elapsed = TRUE]
    BY <2>0, <2>6 DEF Breaker, ClosedBelowThreshold
  <2>7. \/ breaker'[b] = breaker[b]
        \/ breaker'[b] = AfterAllow(breaker[b])
        \/ breaker'[b] = AfterSuccess(breaker[b])
        \/ breaker'[b] = AfterFailure(breaker[b])
        \/ breaker'[b] = FreshBreaker
        \/ breaker'[b] = [breaker[b] EXCEPT !.elapsed = TRUE]
    <3>1. CASE \E c \in Callers, k \in Keys : Admit(c, k)
      BY <3>1 DEF Admit, AgentTypeOK
    <3>2. CASE \E c \in Callers : Settle(c)
      BY <3>2 DEF Settle, AgentTypeOK
    <3>3. CASE \E h \in Hosts : AgentRestart(h)
      BY <3>3 DEF AgentRestart, AgentTypeOK
    <3>4. CASE \E x \in Hosts \X Types : CooldownElapses(x)
      BY <3>4 DEF CooldownElapses, AgentTypeOK
    <3>5. CASE UNCHANGED breaker
      BY <3>5
    <3>6. QED
      BY <3>1, <3>2, <3>3, <3>4, <3>5
         DEF AgentNext, CallStep, Environment, agentVars, Refuse, Duplicate,
             Proceed, AttemptSucceeds, AttemptInvalid, AttemptRaises, Store,
             Return, RedisFails, RedisReturns, Expire
  <2>8. QED
    BY <2>1, <2>2, <2>3, <2>4, <2>5, <2>6, <2>7
<1>3. QED
  BY <1>1, <1>2, AgentTyping, PTL DEF AgentSpec

-----------------------------------------------------------------------------
(* Why effects are not repeated. As long as nothing in Causes happened to a  *)
(* key, one call at most is past the duplicate check for it, the effect      *)
(* happened only if that call succeeded or its record is in Redis, and a     *)
(* record in Redis keeps every other call out.                               *)

Flying(c, k) == call[c].key = k /\ call[c].pc \in InFlight

OnePerKey(k) ==
  /\ \A c, d \in Callers : Flying(c, k) /\ Flying(d, k) => c = d
  /\ idem[k] # "none" => \A c \in Callers : ~Flying(c, k)

DeliveredOnce(k) ==
  /\ delivered[k] <= 1
  /\ \A c \in Callers : Flying(c, k) /\ call[c].pc = "attempt" => delivered[k] = 0
  /\ delivered[k] = 1 => idem[k] # "none" \/ \E c \in Callers : Flying(c, k)

RepeatInv == \A k \in Keys : cause[k] = {} => OnePerKey(k) /\ DeliveredOnce(k)

(* No external effect is repeated without one of the five causes, for every  *)
(* number of hosts, callers and attempts.                                    *)
THEOREM AtMostOnce == AgentSpec => []RepeatHasCause
<1>1. AgentInit => RepeatInv
  BY DEF AgentInit, RepeatInv, OnePerKey, DeliveredOnce, Flying, InFlight, NoCall
<1>2. AgentTypeOK /\ RepeatInv /\ [AgentNext]_agentVars => RepeatInv'
  <2> SUFFICES ASSUME AgentTypeOK, RepeatInv, [AgentNext]_agentVars,
                      NEW k \in Keys, cause'[k] = {}
               PROVE  OnePerKey(k)' /\ DeliveredOnce(k)'
    BY DEF RepeatInv
  <2> USE DEF InFlight
  <2>0. cause[k] = {} => /\ OnePerKey(k) /\ DeliveredOnce(k)
                         /\ delivered[k] \in Nat
    BY DEF RepeatInv, AgentTypeOK
  <2>1. ASSUME NEW c \in Callers, NEW j \in Keys, Admit(c, j) \/ Refuse(c, j)
        PROVE  OnePerKey(k)' /\ DeliveredOnce(k)'
    BY SMTT(30), <2>0, <2>1 DEF Admit, Refuse, OnePerKey, DeliveredOnce, Flying, AgentTypeOK
  <2>2. ASSUME NEW c \in Callers, Duplicate(c) \/ Return(c)
        PROVE  OnePerKey(k)' /\ DeliveredOnce(k)'
    <3>1. /\ \A d \in Callers \ {c} : call'[d] = call[d]
          /\ call[c].pc \notin InFlight /\ call'[c].pc \notin InFlight
      BY <2>2 DEF Duplicate, Return, NoCall, AgentTypeOK, Call, CallRecord
    <3>2. UNCHANGED <<idem, delivered, cause>>
      BY <2>2 DEF Duplicate, Return
    <3>3. QED
      BY <2>0, <3>1, <3>2 DEF OnePerKey, DeliveredOnce, Flying
  <2>3. ASSUME NEW c \in Callers, Proceed(c)
        PROVE  OnePerKey(k)' /\ DeliveredOnce(k)'
    <3>1. cause[k] = {}
      BY <2>3 DEF Proceed, AgentTypeOK
    <3>2. call[c].key = k => ~Overlaps(c) /\ idem[k] = "none"
      BY <2>3 DEF Proceed, AgentTypeOK
    <3>3. QED
      BY SMTT(30), <2>0, <2>3, <3>1, <3>2 DEF Proceed, Overlaps, OnePerKey, DeliveredOnce,
                                    Flying, AgentTypeOK
  <2>4. ASSUME NEW c \in Callers, AttemptSucceeds(c)
        PROVE  OnePerKey(k)' /\ DeliveredOnce(k)'
    BY SMTT(30), <2>0, <2>4 DEF AttemptSucceeds, OnePerKey, DeliveredOnce, Flying, AgentTypeOK
  <2>5. ASSUME NEW c \in Callers, AttemptInvalid(c)
        PROVE  OnePerKey(k)' /\ DeliveredOnce(k)'
    BY <2>0, <2>5 DEF AttemptInvalid, OnePerKey, DeliveredOnce, Flying, AgentTypeOK
  <2>6. ASSUME NEW c \in Callers, NEW lost \in BOOLEAN, AttemptRaises(c, lost)
        PROVE  OnePerKey(k)' /\ DeliveredOnce(k)'
    <3>1. /\ \A d \in Callers \ {c} : call'[d] = call[d]
          /\ call'[c].key = call[c].key
          /\ call[c].pc = "attempt" /\ call'[c].pc \in {"attempt", "settle"}
      BY <2>6 DEF AttemptRaises, AgentTypeOK, Call, CallRecord
    <3>2. cause[k] = {} /\ delivered'[k] = delivered[k] /\ idem'[k] = idem[k]
      BY <2>6, CallFacts DEF AttemptRaises, AgentTypeOK
    <3>3. QED
      BY <2>0, <3>1, <3>2 DEF OnePerKey, DeliveredOnce, Flying
  <2>7. ASSUME NEW c \in Callers, Settle(c)
        PROVE  OnePerKey(k)' /\ DeliveredOnce(k)'
    BY <2>0, <2>7 DEF Settle, OnePerKey, DeliveredOnce, Flying, AgentTypeOK
  <2>8. ASSUME NEW c \in Callers, Store(c)
        PROVE  OnePerKey(k)' /\ DeliveredOnce(k)'
    <3>1. /\ \A d \in Callers \ {c} : call'[d] = call[d]
          /\ call[c].pc = "store" /\ call'[c].pc = "done"
          /\ cause[k] = {} /\ delivered'[k] = delivered[k]
      BY <2>8 DEF Store, AgentTypeOK, Call, CallRecord
    <3>2. CASE call[c].key # k
      <4>1. idem'[k] = idem[k]
        BY <2>8, <3>2 DEF Store, AgentTypeOK
      <4>2. QED
        BY <2>0, <3>1, <3>2, <4>1 DEF OnePerKey, DeliveredOnce, Flying
    <3>3. CASE call[c].key = k
      <4>1. redisUp
        BY <2>8, <3>3 DEF Store, AgentTypeOK
      <4>2. idem'[k] # "none"
        BY <2>8, <3>3, <4>1, CallFacts DEF Store, AgentTypeOK, Results
      <4>3. QED
        BY <2>0, <3>1, <3>3, <4>2 DEF OnePerKey, DeliveredOnce, Flying
    <3>4. QED
      BY <3>2, <3>3
  <2>9. ASSUME NEW h \in Hosts, AgentRestart(h)
        PROVE  OnePerKey(k)' /\ DeliveredOnce(k)'
    BY <2>0, <2>9 DEF AgentRestart, Orphaned, NoCall, OnePerKey, DeliveredOnce,
                      Flying, AgentTypeOK
  <2>10. ASSUME NEW j \in Keys, Expire(j)
         PROVE  OnePerKey(k)' /\ DeliveredOnce(k)'
    BY <2>0, <2>10 DEF Expire, OnePerKey, DeliveredOnce, Flying, AgentTypeOK
  <2>11. ASSUME UNCHANGED <<idem, call, delivered, cause>>
         PROVE  OnePerKey(k)' /\ DeliveredOnce(k)'
    BY <2>0, <2>11 DEF OnePerKey, DeliveredOnce, Flying
  <2>12. QED
    BY <2>1, <2>2, <2>3, <2>4, <2>5, <2>6, <2>7, <2>8, <2>9, <2>10, <2>11
       DEF AgentNext, CallStep, Environment, agentVars, CooldownElapses,
           RedisFails, RedisReturns
<1>3. AgentTypeOK /\ RepeatInv => RepeatHasCause
  BY DEF RepeatInv, DeliveredOnce, RepeatHasCause, AgentTypeOK
<1>4. QED
  BY <1>1, <1>2, <1>3, AgentTyping, PTL DEF AgentSpec

=============================================================================
