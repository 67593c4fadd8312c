------------------------------- MODULE Calls -------------------------------
(***************************************************************************)
(* A behaviour for algorithms without state of their own: one call and its *)
(* answer. The modules named ...Checks list the calls, one action that     *)
(* answers each, and what must be true of the answers; MCPlatform runs     *)
(* them together.                                                          *)
(***************************************************************************)
EXTENDS Integers, Sequences

VARIABLES call, answer   \* [op, in], and <<>> or <<what the code returns>>

analysisVars == <<call, answer>>

Asked(op) == call.op = op /\ answer = <<>>

Answers(value) == answer' = <<value>> /\ UNCHANGED call

Answered(op) == call.op = op /\ answer # <<>>

Ask(op, in) == call = [op |-> op, in |-> in] /\ answer = <<>>

IsList(s) == s \in Seq({s[i] : i \in DOMAIN s})

SeqsUpTo(S, n) == UNION {[1..k -> S] : k \in 0..n}

=============================================================================
