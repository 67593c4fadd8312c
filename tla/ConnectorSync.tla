--------------------------- MODULE ConnectorSync ---------------------------
(***************************************************************************)
(* One connector's synchronization (ConnectorSyncEngine.sync_source): list *)
(* what upstream changed since the cursor, compare every artifact with its *)
(* connector_artifacts row, download and submit what changed, record it,   *)
(* and move the cursor (sources.last_synced_at).                           *)
(*                                                                         *)
(* A sync runs inside an async request handler and so occupies its         *)
(* process: Callers are application instances, which share the database.   *)
(* Meanwhile people go on editing upstream. Run ledger, source status and  *)
(* skip counters are written for display only and are left out, and so are *)
(* METRICS connectors, which have no artifacts.                            *)
(***************************************************************************)
EXTENDS Naturals, FiniteSets

CONSTANTS
  Artifacts,     \* what the upstream library may hold
  Callers,       \* application instances that may run a sync
  Signed,        \* artifacts upstream exposes a version or timestamp of
  Settings,      \* kinds of connector and library, see Setting
  MaxTime, MaxFaults   \* bounds

(* Does upstream honour "since"? CONNECTOR_SYNC_MAX_ARTIFACTS. Artifacts the *)
(* platform cannot ingest (an .exe).                                        *)
Setting == [filters : BOOLEAN, limit : Nat \ {0}, unfit : SUBSET Artifacts]

ASSUME Constants ==
  /\ IsFiniteSet(Artifacts) /\ "none" \notin Artifacts
  /\ Signed \subseteq Artifacts
  /\ Settings \subseteq Setting
  /\ MaxTime \in Nat \ {0} /\ MaxFaults \in Nat

VARIABLES
  setting,     \* of the connector; it never changes
  now,         \* the clock; it advances with every upstream change
  upstream,    \* by artifact: when its current content was written, 0 if it does not exist
  cursor,      \* sources.last_synced_at, 0 for NULL
  row,         \* connector_artifacts: change signature and content hash, 0 for none
  submitted,   \* contents IngestionSubmitter has accepted
  sync,        \* by caller: the run in progress
  passed,      \* history: contents the cursor passed over, and why is in Excuses
  faults

vars == <<setting, now, upstream, cursor, row, submitted, sync, passed, faults>>

(* A content is identified by the time it was written.                      *)
Times == 0..MaxTime

Row == [signature : Times, hash : Times]
NoRow == [signature |-> 0, hash |-> 0]

(* refs: the contents listed and not yet dealt with, 0 for the others; item *)
(* is the artifact at hand, known the hash in its row, bytes the content    *)
(* that was downloaded, found whether record_ingested found a row; landed:  *)
(* something was processed or skipped; cut: listed beyond the cap.          *)
Run == [pc : {"idle", "list", "next", "fetch", "submit", "look", "write", "advance"},
        from : Times, listed : Times, refs : [Artifacts -> Times],
        item : Artifacts \cup {"none"}, known : Times, bytes : Times, found : BOOLEAN,
        failed : SUBSET Artifacts, cut : SUBSET Artifacts, landed : BOOLEAN,
        status : {"running", "succeeded", "partial", "failed"}, to : Times]

Nothing == [a \in Artifacts |-> 0]
Rest == [pc |-> "idle", from |-> 0, listed |-> 0, refs |-> Nothing, item |-> "none",
         known |-> 0, bytes |-> 0, found |-> FALSE, failed |-> {}, cut |-> {},
         landed |-> FALSE, status |-> "running", to |-> 0]

Init ==
  /\ setting \in Settings
  /\ now = 1
  /\ upstream \in [Artifacts -> {0, 1}]
  /\ cursor = 0
  /\ row = [a \in Artifacts |-> NoRow]
  /\ submitted = {} /\ passed = {} /\ faults = 0
  /\ sync = [c \in Callers |-> Rest]

At(c, pc) == sync[c].pc = pc
Item(c) == sync[c].item

(* A step of a run that leaves the database alone. *)
Local == UNCHANGED <<setting, now, upstream, cursor, row, submitted, passed>>

(* Something outside fails: upstream, the submission, the database.         *)
Fault == faults < MaxFaults /\ faults' = faults + 1

-----------------------------------------------------------------------------

(* Somebody writes an artifact upstream, or creates it. *)
Edit(a) ==
  /\ now < MaxTime
  /\ now' = now + 1
  /\ upstream' = [upstream EXCEPT ![a] = now + 1]
  /\ UNCHANGED <<setting, cursor, row, submitted, sync, passed, faults>>

(* The source is read and with it the cursor the run starts from. *)
Begin(c) ==
  /\ At(c, "idle")
  /\ sync' = [sync EXCEPT ![c] = [Rest EXCEPT !.pc = "list", !.from = cursor]]
  /\ Local /\ UNCHANGED faults

(* What upstream lists: all it has or, where it filters, what changed since. *)
Listed(since) ==
  {a \in Artifacts : upstream[a] > 0 /\ (setting.filters /\ since > 0 => upstream[a] > since)}

(* Which of too many are kept is upstream's order, that is any. *)
List(c) ==
  /\ At(c, "list")
  /\ \E kept \in SUBSET Listed(sync[c].from) :
       /\ IF Cardinality(Listed(sync[c].from)) <= setting.limit
            THEN kept = Listed(sync[c].from)
            ELSE Cardinality(kept) = setting.limit
       /\ sync' = [sync EXCEPT ![c].pc = "next", ![c].listed = now,
                     ![c].refs = [a \in Artifacts |-> IF a \in kept THEN upstream[a] ELSE 0],
                     ![c].cut = Listed(sync[c].from) \ kept]
  /\ Local /\ UNCHANGED faults

(* Mutant: a listing that fails is taken for an empty one. *)
ListFailsQuietly(c) ==
  /\ At(c, "list") /\ Fault
  /\ sync' = [sync EXCEPT ![c].pc = "next", ![c].listed = now]
  /\ Local

(* No configuration, no credential, no connection, no answer: a FAILED run, *)
(* whether reported or raised.                                              *)
ListFails(c) ==
  /\ At(c, "list") /\ Fault
  /\ sync' = [sync EXCEPT ![c].pc = "advance", ![c].status = "failed"]
  /\ Local

-----------------------------------------------------------------------------
(* _sync_artifact. *)

Signature(c, a) == IF a \in Signed THEN sync[c].refs[a] ELSE 0

(* Exit 1: upstream's own signature is the recorded one. *)
Unchanged(c, a) ==
  row[a].hash > 0 /\ a \in Signed /\ row[a].signature = Signature(c, a)

Skip(c, a) ==
  /\ At(c, "next") /\ sync[c].refs[a] > 0 /\ Unchanged(c, a)
  /\ sync' = [sync EXCEPT ![c].refs[a] = 0, ![c].landed = TRUE]
  /\ Local /\ UNCHANGED faults

Take(c, a) ==
  /\ At(c, "next") /\ sync[c].refs[a] > 0 /\ ~Unchanged(c, a)
  /\ sync' = [sync EXCEPT ![c].pc = "fetch", ![c].item = a, ![c].known = row[a].hash]
  /\ Local /\ UNCHANGED faults

(* Mutant: the artifact just dealt with stays on the list. *)
OnwardKeepsItem(r) == [r EXCEPT !.pc = "next", !.item = "none", !.known = 0,
                                !.bytes = 0, !.found = FALSE]

(* The next artifact of the run. *)
Onward(r) == [r EXCEPT !.pc = "next", !.refs[r.item] = 0, !.item = "none", !.known = 0,
                       !.bytes = 0, !.found = FALSE]

(* The bytes are those of now, not of the listing. Exit 2: they are the     *)
(* recorded ones.                                                           *)
Fetch(c) ==
  LET content == upstream[Item(c)] IN
  /\ At(c, "fetch")
  /\ sync' = [sync EXCEPT ![c] = IF content = @.known
                                   THEN [Onward(@) EXCEPT !.landed = TRUE]
                                   ELSE [@ EXCEPT !.pc = "submit", !.bytes = content]]
  /\ Local /\ UNCHANGED faults

(* Exit 3: into the ingestion pipeline (module Ingestion). *)
Submit(c) ==
  /\ At(c, "submit") /\ Item(c) \notin setting.unfit
  /\ submitted' = submitted \cup {<<Item(c), sync[c].bytes>>}
  /\ sync' = [sync EXCEPT ![c].pc = "look"]
  /\ UNCHANGED <<setting, now, upstream, cursor, row, passed, faults>>

(* IngestValidationError: skipped, with a reason and without a row. *)
Refuse(c) ==
  /\ At(c, "submit") /\ Item(c) \in setting.unfit
  /\ sync' = [sync EXCEPT ![c] = [Onward(@) EXCEPT !.landed = TRUE]]
  /\ Local /\ UNCHANGED faults

(* record_ingested: is there a row? *)
Look(c) ==
  /\ At(c, "look")
  /\ sync' = [sync EXCEPT ![c].pc = "write", ![c].found = row[Item(c)].hash > 0]
  /\ Local /\ UNCHANGED faults

(* Then update it or create it. *)
Write(c) ==
  /\ At(c, "write") /\ (sync[c].found \/ row[Item(c)].hash = 0)
  /\ row' = [row EXCEPT ![Item(c)] = [signature |-> Signature(c, Item(c)),
                                      hash |-> sync[c].bytes]]
  /\ sync' = [sync EXCEPT ![c] = [Onward(@) EXCEPT !.landed = TRUE]]
  /\ UNCHANGED <<setting, now, upstream, cursor, submitted, passed, faults>>

GiveUp(c) ==
  LET failed == sync[c].failed \cup {Item(c)} IN
  sync' = [sync EXCEPT ![c] = [Onward(@) EXCEPT !.failed = failed]]

(* Another instance has created the row in between: the unique index        *)
(* (source_id, external_id) refuses a second one.                           *)
WriteConflicts(c) ==
  /\ At(c, "write") /\ ~sync[c].found /\ row[Item(c)].hash > 0
  /\ GiveUp(c)
  /\ Local /\ UNCHANGED faults

(* Mutant: a failed submission is recorded all the same. *)
ArtifactFailsRecorded(c) ==
  /\ sync[c].pc \in {"fetch", "submit", "look", "write"} /\ Fault
  /\ IF At(c, "submit") THEN sync' = [sync EXCEPT ![c].pc = "look"] ELSE GiveUp(c)
  /\ Local

(* Download, submission or database: this artifact failed, the run goes on. *)
ArtifactFails(c) ==
  /\ sync[c].pc \in {"fetch", "submit", "look", "write"} /\ Fault
  /\ GiveUp(c)
  /\ Local

-----------------------------------------------------------------------------
(* The end of a run. *)

Verdict(r) == IF r.failed = {} THEN "succeeded" ELSE IF r.landed THEN "partial" ELSE "failed"

(* Mutant: the next cursor excludes the present instant. *)
CloseAfterNow(c) ==
  /\ At(c, "next") /\ sync[c].refs = Nothing
  /\ sync' = [sync EXCEPT ![c] = [@ EXCEPT !.pc = "advance", !.to = now + 1,
                                            !.status = Verdict(sync[c])]]
  /\ Local /\ UNCHANGED faults

Close(c) ==
  /\ At(c, "next") /\ sync[c].refs = Nothing
  /\ sync' = [sync EXCEPT ![c] = [@ EXCEPT !.pc = "advance", !.to = now,
                                            !.status = Verdict(sync[c])]]
  /\ Local /\ UNCHANGED faults

(* Contents a run moves the cursor past without having dealt with them: the *)
(* artifact failed, was cut, or changed after the listing.                  *)
Excuses(r) ==
  {<<a, upstream[a]>> : a \in {b \in Artifacts :
     upstream[b] <= r.to /\ (b \in r.failed \cup r.cut \/ upstream[b] > r.listed)}}

(* ADVANCES_CURSOR = {SUCCEEDED, PARTIAL}. *)
Advance(c) ==
  /\ At(c, "advance")
  /\ IF sync[c].status \in {"succeeded", "partial"}
       THEN cursor' = sync[c].to /\ passed' = passed \cup Excuses(sync[c])
       ELSE UNCHANGED <<cursor, passed>>
  /\ sync' = [sync EXCEPT ![c] = Rest]
  /\ UNCHANGED <<setting, now, upstream, row, submitted, faults>>

(* The run ledger or the source cannot be written (the run is FAILED, the   *)
(* cursor stays), or the process dies.                                      *)
Abort(c) ==
  /\ ~At(c, "idle") /\ Fault
  /\ sync' = [sync EXCEPT ![c] = Rest]
  /\ Local

-----------------------------------------------------------------------------

Step(c) ==
  \/ Begin(c) \/ List(c) \/ Fetch(c) \/ Submit(c) \/ Refuse(c) \/ Look(c) \/ Write(c)
  \/ WriteConflicts(c) \/ Close(c) \/ Advance(c)
  \/ \E a \in Artifacts : Skip(c, a) \/ Take(c, a)

Break(c) == ListFails(c) \/ ArtifactFails(c) \/ Abort(c)

Next ==
  \/ \E a \in Artifacts : Edit(a)
  \/ \E c \in Callers : Step(c) \/ Break(c)

Spec == Init /\ [][Next]_vars

(* Operators keep asking for syncs, and a sync that was asked for goes on.  *)
FairSpec == Spec /\ \A c \in Callers : WF_vars(Step(c))

-----------------------------------------------------------------------------
(* Properties. *)

TypeOK ==
  /\ setting \in Settings
  /\ now \in Times /\ cursor \in Times
  /\ upstream \in [Artifacts -> Times] /\ row \in [Artifacts -> Row]
  /\ submitted \subseteq (Artifacts \X Times) /\ passed \subseteq (Artifacts \X Times)
  /\ sync \in [Callers -> Run] /\ faults \in 0..MaxFaults

(* Whatever fails or dies in between, a row that makes later runs skip an   *)
(* artifact stands for content the pipeline has accepted: that very content *)
(* for the hash, that or newer content for the signature (_sync_artifact).  *)
RecordedIsIngested ==
  \A a \in Artifacts :
    /\ row[a].hash > 0 => <<a, row[a].hash>> \in submitted
    /\ row[a].signature <= row[a].hash

(* The cursor passes over content that was not ingested for three reasons   *)
(* only: the artifact failed in a run that was partly successful, the run's *)
(* listing was cut, or it changed while a run was going on. Never because a *)
(* run failed as a whole, died, or overlapped with another one              *)
(* (ADVANCES_CURSOR, DatabaseClient errors in sync_source).                 *)
PassedOverForAReason ==
  \A a \in Artifacts \ setting.unfit :
    upstream[a] \in 1..cursor => <<a, upstream[a]>> \in submitted \cup passed

Current ==
  \A a \in Artifacts \ setting.unfit : upstream[a] > 0 => <<a, upstream[a]>> \in submitted

(* base.py: a connector whose upstream does not filter "should list         *)
(* everything and let the sync engine's per-artifact comparison do the      *)
(* filtering": then, uncut, everything is ingested in the end.              *)
EventuallyCurrent ==
  ~setting.filters /\ setting.limit >= Cardinality(Artifacts) => <>[]Current

(* sync.py of a run that reaches the cap: "the next run continues from the  *)
(* advanced cursor - so a large corpus arrives over several runs". The code *)
(* advances the cursor past what it cut.                                    *)
LargeCorpusArrives == <>[]Current

=============================================================================
