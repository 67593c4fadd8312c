------------------------------ MODULE Curation ------------------------------
(***************************************************************************)
(* What people decide about the knowledge of the system (the endpoints     *)
(* under /knowledge/curate of api/knowledge.py): whether policies may      *)
(* still be cited, which rules compiled from them are adopted              *)
(* (agents/policy/policy_agent.py), and what the memory of an incident     *)
(* says (memory/enterprise_memory.py).                                     *)
(*                                                                         *)
(* The handlers are synchronous: each request runs in a thread of its own, *)
(* reads, and then writes whatever it read. An adopted rule takes effect   *)
(* when an instance starts.                                                *)
(***************************************************************************)
EXTENDS Integers, FiniteSetsExt

CONSTANTS
  Curators,       \* threads that serve curation requests
  CuratedHosts,   \* application instances
  CuratedPolicies,\* policies; all compile to the same key of the rules
  RuleIds,        \* identifiers of compiled rules
  Incidents,      \* incidents with an entry in memory
  MaxCurations    \* bound: requests that are begun

ASSUME CurationAssumption == MaxCurations \in Nat

VARIABLES
  policyStatus,  \* policies: status
  rules,         \* compiled_rules: rule -> [status, decided], NoRule if it is not there
  ruleOverride,  \* instance -> the adopted rule it started with, NoRule for none
  memory,        \* the points of each incident in the vector store, by content
  curator,       \* thread -> the request it serves, or NoCuration
  curated,       \* history: incident -> what the last curation to end left in its memory
  gone,          \* history: incident -> "there", "absent", or "failed" when a correction
                 \* failed after it had withdrawn the entry
  crossed,       \* history: rules and incidents two requests worked on at once
  everApproved,  \* history: rules that were approved some time
  curations

curationVars == <<policyStatus, rules, ruleOverride, memory, curator, curated, gone, crossed,
                  everApproved, curations>>

-----------------------------------------------------------------------------
PolicyStatuses == {"active", "pending_review", "retired"}

NoRule == [status |-> "none", decided |-> 0]
NoCuration == [op |-> "none", on |-> "nothing"]

(* list_adopted and active_overrides: of the approved rules the one decided *)
(* last wins the key.                                                       *)
Adopted == {r \in RuleIds : rules[r].status = "approved"}
ActiveOverride ==
  IF Adopted = {} THEN {"none"}
  ELSE {r \in Adopted : \A s \in Adopted : rules[s].decided <= rules[r].decided}

(* What a recall of another incident's investigation finds of this one.     *)
Recalled(i) == memory[i]

CurationInit ==
  /\ policyStatus = [p \in CuratedPolicies |-> "active"]
  /\ rules = [r \in RuleIds |-> NoRule]
  /\ ruleOverride = [h \in CuratedHosts |-> "none"]
  /\ memory \in [Incidents -> {{}, {"found"}}]   \* remember_incident may have failed
  /\ curator = [t \in Curators |-> NoCuration]
  /\ curated = memory /\ crossed = {} /\ everApproved = {}
  /\ gone = [i \in Incidents |-> IF memory[i] = {} THEN "absent" ELSE "there"]
  /\ curations = 0

BeginCuration(t, request) ==
  /\ curator[t] = NoCuration /\ curations < MaxCurations
  /\ curations' = curations + 1
  /\ curator' = [curator EXCEPT ![t] = request]
  /\ crossed' = IF \E u \in Curators : curator[u].on = request.on
                THEN crossed \cup {request.on} ELSE crossed

EndCuration(t) == curator' = [curator EXCEPT ![t] = NoCuration]

(* decided_at: later than every earlier decision.                           *)
NextDecision == 1 + Max({rules[r].decided : r \in RuleIds})

-----------------------------------------------------------------------------
(* Policies *)

(* set_policy_status: the row is looked up and set in one go; the earlier   *)
(* status only goes into the audit record.                                  *)
SetPolicyStatus(t) ==
  /\ \E p \in CuratedPolicies, s \in PolicyStatuses :
       policyStatus' = [policyStatus EXCEPT ![p] = s]
  /\ BeginCuration(t, NoCuration)
  /\ UNCHANGED <<rules, ruleOverride, memory, curated, gone, everApproved>>

-----------------------------------------------------------------------------
(* Rules *)

(* propose_rule: a retired policy is refused, any other becomes a proposal  *)
(* for people to decide on. The two statements are one step: a status that  *)
(* changes in between finds the rule a proposal as well.                    *)
ProposeRule(t) ==
  /\ \E p \in CuratedPolicies, r \in RuleIds :
       /\ policyStatus[p] # "retired" /\ rules[r] = NoRule
       /\ rules' = [rules EXCEPT ![r] = [status |-> "proposed", decided |-> 0]]
  /\ BeginCuration(t, NoCuration)
  /\ UNCHANGED <<policyStatus, ruleOverride, memory, curated, gone, everApproved>>

AskDecision(t) ==
  /\ \E r \in RuleIds, v \in {"approved", "rejected"} :
       BeginCuration(t, [op |-> "decide", at |-> "look", on |-> r, verdict |-> v])
  /\ UNCHANGED <<policyStatus, rules, ruleOverride, memory, curated, gone, everApproved>>

AskRetirement(t) ==
  /\ \E r \in RuleIds :
       BeginCuration(t, [op |-> "retire", at |-> "look", on |-> r, verdict |-> "retired"])
  /\ UNCHANGED <<policyStatus, rules, ruleOverride, memory, curated, gone, everApproved>>

(* Mutant: what is retired can be decided on again.                         *)
Decidable(r) == r.op = "decide" /\ rules[r.on].status \in {"proposed", "retired"}
LookAtRuleAgain(t) ==
  LET r == curator[t]
  IN /\ r.op \in {"decide", "retire"} /\ r.at = "look"
     /\ curator' = [curator EXCEPT ![t] =
          IF Decidable(r) \/ (r.op = "retire" /\ rules[r.on].status = "approved")
          THEN [r EXCEPT !.at = "write"] ELSE NoCuration]
     /\ UNCHANGED <<policyStatus, rules, ruleOverride, memory, curated, gone, crossed,
                    everApproved, curations>>

(* Only a proposal can be decided on, only an approved rule be retired; the *)
(* others are answered 404 or 409.                                          *)
LookAtRule(t) ==
  LET r == curator[t]
      open == IF r.op = "decide" THEN "proposed" ELSE "approved"
  IN /\ r.op \in {"decide", "retire"} /\ r.at = "look"
     /\ curator' = [curator EXCEPT ![t] =
          IF rules[r.on].status = open THEN [r EXCEPT !.at = "write"] ELSE NoCuration]
     /\ UNCHANGED <<policyStatus, rules, ruleOverride, memory, curated, gone, crossed,
                    everApproved, curations>>

(* decide and retire write their columns whatever the row holds by now;     *)
(* retiring leaves decided_at.                                              *)
WriteRule(t) ==
  LET r == curator[t]
  IN /\ r.op \in {"decide", "retire"} /\ r.at = "write"
     /\ rules' = [rules EXCEPT ![r.on] =
          [status |-> r.verdict,
           decided |-> IF r.op = "decide" THEN NextDecision ELSE rules[r.on].decided]]
     /\ everApproved' = IF r.verdict = "approved" THEN everApproved \cup {r.on} ELSE everApproved
     /\ EndCuration(t)
     /\ UNCHANGED <<policyStatus, ruleOverride, memory, curated, gone, crossed, curations>>

(* An instance starts: the overrides are read once, and a failed read means *)
(* none (main.py:893).                                                      *)
HostStarts(h) ==
  /\ \E r \in ActiveOverride \cup {"none"} :
       ruleOverride' = [ruleOverride EXCEPT ![h] = r]
  /\ UNCHANGED <<policyStatus, rules, memory, curator, curated, gone, crossed, everApproved,
                 curations>>

-----------------------------------------------------------------------------
(* Memory *)

AskExpunge(t) ==
  /\ \E i \in Incidents : BeginCuration(t, [op |-> "expunge", at |-> "delete", on |-> i])
  /\ UNCHANGED <<policyStatus, rules, ruleOverride, memory, curated, gone, everApproved>>

AskCorrection(t) ==
  /\ \E i \in Incidents, content \in {"corrected", "amended"} :
       BeginCuration(t, [op |-> "correct", at |-> "find", on |-> i, content |-> content])
  /\ UNCHANGED <<policyStatus, rules, ruleOverride, memory, curated, gone, everApproved>>

(* Mutant: the corrected entry is written over the one that was found.      *)
FindMemoryToOverwrite(t) ==
  /\ curator[t].op = "correct" /\ curator[t].at = "find"
  /\ \/ /\ memory[curator[t].on] # {}
        /\ curator' = [curator EXCEPT ![t].at = "rewrite"]
     \/ EndCuration(t)
  /\ UNCHANGED <<policyStatus, rules, ruleOverride, memory, curated, gone, crossed,
                 everApproved, curations>>

(* _find_memory_payload: without an entry, or when the read fails, there is *)
(* nothing to correct.                                                      *)
FindMemoryPayload(t) ==
  /\ curator[t].op = "correct" /\ curator[t].at = "find"
  /\ \/ /\ memory[curator[t].on] # {}
        /\ curator' = [curator EXCEPT ![t].at = "delete"]
     \/ EndCuration(t)
  /\ UNCHANGED <<policyStatus, rules, ruleOverride, memory, curated, gone, crossed,
                 everApproved, curations>>

(* expunge_incident_memory deletes every point of the incident, also as the *)
(* first half of a correction.                                              *)
ExpungeMemory(t) ==
  LET r == curator[t]
  IN /\ r.op \in {"expunge", "correct"} /\ r.at = "delete"
     /\ memory' = [memory EXCEPT ![r.on] = {}]
     /\ curated' = [curated EXCEPT ![r.on] = {}]
     /\ IF r.op = "correct"
        THEN curator' = [curator EXCEPT ![t].at = "rewrite"] /\ UNCHANGED gone
        ELSE EndCuration(t) /\ gone' = [gone EXCEPT ![r.on] = "absent"]
     /\ UNCHANGED <<policyStatus, rules, ruleOverride, crossed, everApproved, curations>>

(* remember_incident with the corrections applied: the point's identifier   *)
(* follows from its text, so another text is another point.                 *)
RewriteMemory(t) ==
  LET r == curator[t]
  IN /\ r.op = "correct" /\ r.at = "rewrite"
     /\ memory' = [memory EXCEPT ![r.on] = @ \cup {r.content}]
     /\ curated' = [curated EXCEPT ![r.on] = {r.content}]
     /\ gone' = [gone EXCEPT ![r.on] = "there"]
     /\ EndCuration(t)
     /\ UNCHANGED <<policyStatus, rules, ruleOverride, crossed, everApproved, curations>>

(* A store fails: the request is answered with an error, what it wrote      *)
(* before stays written: a correction may have withdrawn the entry and not  *)
(* written it again.                                                        *)
CurationFails(t) ==
  LET r == curator[t]
  IN /\ r # NoCuration
     /\ EndCuration(t)
     /\ gone' = IF r.op = "correct" /\ r.at = "rewrite" THEN [gone EXCEPT ![r.on] = "failed"]
                ELSE gone
     /\ UNCHANGED <<policyStatus, rules, ruleOverride, memory, curated, crossed, everApproved,
                    curations>>

CurationNext ==
  \/ \E h \in CuratedHosts : HostStarts(h)
  \/ \E t \in Curators :
        \/ SetPolicyStatus(t) \/ ProposeRule(t) \/ AskDecision(t) \/ AskRetirement(t)
        \/ LookAtRule(t) \/ WriteRule(t)
        \/ AskExpunge(t) \/ AskCorrection(t)
        \/ FindMemoryPayload(t) \/ ExpungeMemory(t) \/ RewriteMemory(t) \/ CurationFails(t)

CurationSpec == CurationInit /\ [][CurationNext]_curationVars

-----------------------------------------------------------------------------
(* Properties *)

(* Unless two requests worked on a rule at once it is decided once and, if  *)
(* it was approved, retired once; and no instance ever runs with a rule     *)
(* nobody approved (policy_agent.py:223, 269, 296).                         *)
RuleDecidedOnce ==
  [][/\ \A r \in RuleIds :
          rules[r].status # rules'[r].status /\ r \notin crossed' =>
            <<rules[r].status, rules'[r].status>> \in
               {<<"none", "proposed">>, <<"proposed", "approved">>,
                <<"proposed", "rejected">>, <<"approved", "retired">>}
     /\ \A h \in CuratedHosts : ruleOverride'[h] \in everApproved' \cup {"none"}]_curationVars

(* Unless two requests curated an incident's memory at once, a recall finds *)
(* what the last curation left and no trace of what was withdrawn, whatever *)
(* fails in between; and what is gone stays gone, for a correction creates  *)
(* no memory (enterprise_memory.py:311, 404, 446-448). Even when requests   *)
(* cross, what the investigation remembered is never recalled beside a      *)
(* corrected version, nor again once it was withdrawn (495-497).            *)
MemoryIsAsCurated ==
  \A i \in Incidents :
    /\ i \notin crossed =>
         /\ Recalled(i) = curated[i]
         /\ Cardinality(memory[i]) <= 1
         /\ gone[i] # "there" => memory[i] = {}
    /\ "found" \in memory[i] => memory[i] = {"found"} /\ "found" \in curated[i]

(* enterprise_memory.py:510-514: a correction that failed after withdrawing *)
(* the entry can be run again "to restore a corrected entry". It cannot:    *)
(* the entry is gone, and a correction of none is refused (454-459).        *)
CorrectionCanBeRerun == \A i \in Incidents : gone[i] = "failed" => memory[i] # {}

=============================================================================
