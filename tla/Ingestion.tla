----------------------------- MODULE Ingestion -----------------------------
(***************************************************************************)
(* aeam/ingestion (submission, worker, processors), aeam/api/ingest and    *)
(* the delete and re-index handlers of aeam/api/knowledge.                 *)
(*                                                                         *)
(* Requests (HTTP threads of any host, connector syncs) put content into   *)
(* the blob store, register an asset for it and queue a job; every host's  *)
(* IngestionWorker polls the same job table. No statement is part of a     *)
(* transaction with another one, and nothing is locked: each action below  *)
(* is one statement, or one statement and calls no other actor can see.    *)
(***************************************************************************)
EXTENDS Naturals, FiniteSets

CONSTANTS
  Contents,      \* distinct file contents (content hashes)
  Datasets,      \* those that are structured files: their asset is a dataset
  Requests,      \* requests that may run
  Ops,           \* what requests may ask for (see Operations)
  Workers,       \* IngestionWorker threads, one per host
  MaxAssets,     \* bound: documents and datasets ever registered
  MaxJobs,       \* bound: jobs ever created
  Errors,        \* may a processor or a purge fail?
  Mortal,        \* the requests and workers that may die half-way
  MaxFaults      \* bound: deaths

Operations == {"upload", "cancel", "retry", "reindex", "delete", "purge"}

ASSUME IngestionConstants ==
  /\ Datasets \subseteq Contents
  /\ Ops \subseteq Operations
  /\ MaxAssets \in Nat /\ MaxJobs \in Nat /\ MaxFaults \in Nat
  /\ Errors \in BOOLEAN

VARIABLES
  job,      \* ingestion_jobs
  asset,    \* documents and datasets; schema: the row has a schema_id
  version,  \* the one version row of an asset: with its chunk_ids, or without
  blobs,    \* contents in the BlobStore
  served,   \* assets whose chunks are in Qdrant, or whose schema is stored
  worker,   \* local state of each worker
  req,      \* local state of each request
  faults,   \* deaths so far
  purged    \* history: assets whose vectors or schema were deleted

vars == <<job, asset, version, blobs, served, worker, req, faults, purged>>

-----------------------------------------------------------------------------

JobIds == 1..MaxJobs
AssetIds == 1..MaxAssets
None == 0

JobStatus == {"queued", "validating", "extracting", "indexing",
              "done", "failed", "cancelled"}
Terminal == {"done", "failed", "cancelled"}
AssetStatus == {"pending", "processing", "indexed", "error"}

(* "none": the row does not exist yet; "gone": it was deleted. *)
Job == [status : JobStatus \cup {"none"}, asset : AssetIds \cup {None}]
Asset == [status : AssetStatus \cup {"none", "gone"}, content : Contents \cup {None},
          schema : BOOLEAN]

Worker == [pc : {"idle", "claimed", "load", "extract", "fetch", "read", "index", "record",
                 "publish", "report", "finish", "failAsset", "failJob"},
           job : JobIds \cup {None}, hasVersion : BOOLEAN]

Request == [pc : {"new", "find", "lookup", "create", "version", "enqueue", "cancel",
                  "retry", "reset", "vectors", "blob", "unblob", "versions", "schema",
                  "row", "done", "dead"},
            content : Contents, asset : AssetIds \cup {None},
            job : JobIds \cup {None}, seen : SUBSET {"version", "chunks", "schema"}]

Init ==
  /\ job = [j \in JobIds |-> [status |-> "none", asset |-> None]]
  /\ asset = [a \in AssetIds |-> [status |-> "none", content |-> None, schema |-> FALSE]]
  /\ version = [a \in AssetIds |-> "none"]
  /\ blobs = {}
  /\ served = {}
  /\ worker = [w \in Workers |-> [pc |-> "idle", job |-> None, hasVersion |-> FALSE]]
  /\ req \in [Requests -> {[pc |-> "new", content |-> x, asset |-> None, job |-> None,
                            seen |-> {}] : x \in Contents}]
  /\ faults = 0
  /\ purged = {}

Exists(a) == asset[a].status \notin {"none", "gone"}
IsDataset(a) == asset[a].content \in Datasets
ContentOf(j) == asset[job[j].asset].content

(* UPDATE ... WHERE id = a: no effect when the row is gone. *)
WithStatus(a, s) == IF Exists(a) THEN [asset EXCEPT ![a].status = s] ELSE asset

(* The next row to be created. *)
NewJob == {j \in JobIds : /\ job[j].status = "none"
                          /\ \A i \in 1..(j - 1) : job[i].status # "none"}
NewAsset == {a \in AssetIds : /\ asset[a].status = "none"
                              /\ \A b \in 1..(a - 1) : asset[b].status # "none"}

Queue(j, a) == job' = [job EXCEPT ![j] = [status |-> "queued", asset |-> a]]
Goto(r, pc) == req' = [req EXCEPT ![r].pc = pc]

-----------------------------------------------------------------------------
(* IngestionSubmitter.submit, and the upload handler that calls it. *)

Put(r) ==
  /\ "upload" \in Ops /\ req[r].pc = "new"
  /\ blobs' = blobs \cup {req[r].content}
  /\ Goto(r, "find")
  /\ UNCHANGED <<job, asset, version, served, worker, faults, purged>>

(* A job for these bytes is in flight: its id is the answer. *)
InFlight(x) == \E j \in JobIds : /\ job[j].status \notin Terminal \cup {"none"}
                                 /\ ContentOf(j) = x

FindActive(r) ==
  /\ req[r].pc = "find"
  /\ Goto(r, IF InFlight(req[r].content) THEN "done" ELSE "lookup")
  /\ UNCHANGED <<job, asset, version, blobs, served, worker, faults, purged>>

(* Documents are found by their own content hash, datasets by that of their *)
(* active version, whether or not the dataset row is still there.           *)
SameContent(x) == {a \in AssetIds : /\ asset[a].content = x
                                    /\ IF x \in Datasets THEN version[a] # "none"
                                                         ELSE Exists(a)}

(* Mutant: a file that is registered already needs no job. *)
LookupOnly(r) ==
  /\ req[r].pc = "lookup"
  /\ Goto(r, IF SameContent(req[r].content) = {} THEN "create" ELSE "done")
  /\ UNCHANGED <<job, asset, version, blobs, served, worker, faults, purged>>

Lookup(r) ==
  /\ req[r].pc = "lookup"
  /\ LET found == SameContent(req[r].content) IN
     \/ \E a \in found :
          req' = [req EXCEPT ![r].pc = "enqueue", ![r].asset = a]
     \/ found = {} /\ Goto(r, "create")
  /\ UNCHANGED <<job, asset, version, blobs, served, worker, faults, purged>>

CreateAsset(r) ==
  /\ req[r].pc = "create"
  /\ \E a \in NewAsset :
       /\ asset' = [asset EXCEPT ![a].status = "pending", ![a].content = req[r].content]
       /\ req' = [req EXCEPT ![r].pc = "version", ![r].asset = a]
  /\ UNCHANGED <<job, version, blobs, served, worker, faults, purged>>

CreateVersion(r) ==
  /\ req[r].pc = "version"
  /\ version' = [version EXCEPT ![req[r].asset] = "active"]
  /\ Goto(r, "enqueue")
  /\ UNCHANGED <<job, asset, blobs, served, worker, faults, purged>>

Enqueue(r) ==
  /\ req[r].pc = "enqueue"
  /\ \E j \in NewJob : Queue(j, req[r].asset)
  /\ Goto(r, "done")
  /\ UNCHANGED <<asset, version, blobs, served, worker, faults, purged>>

-----------------------------------------------------------------------------
(* cancel_job and retry_job: a read of the status, then a write. *)

CancelRead(r) ==
  /\ "cancel" \in Ops /\ req[r].pc = "new"
  /\ \E j \in JobIds : /\ job[j].status = "queued"
                       /\ req' = [req EXCEPT ![r].pc = "cancel", ![r].job = j]
  /\ UNCHANGED <<job, asset, version, blobs, served, worker, faults, purged>>

CancelWrite(r) ==
  /\ req[r].pc = "cancel"
  /\ job' = [job EXCEPT ![req[r].job].status = "cancelled"]
  /\ Goto(r, "done")
  /\ UNCHANGED <<asset, version, blobs, served, worker, faults, purged>>

RetryRead(r) ==
  /\ "retry" \in Ops /\ req[r].pc = "new"
  /\ \E j \in JobIds : /\ job[j].status = "failed"
                       /\ req' = [req EXCEPT ![r].pc = "retry", ![r].job = j]
  /\ UNCHANGED <<job, asset, version, blobs, served, worker, faults, purged>>

RetryWrite(r) ==
  /\ req[r].pc = "retry"
  /\ job' = [job EXCEPT ![req[r].job].status = "queued"]
  /\ Goto(r, "done")
  /\ UNCHANGED <<asset, version, blobs, served, worker, faults, purged>>

-----------------------------------------------------------------------------
(* reindex_document and reindex_dataset: the asset is reset to pending, then *)
(* a job is queued. A dataset without a version has no hash to re-index.     *)

ReindexRead(r) ==
  /\ "reindex" \in Ops /\ req[r].pc = "new"
  /\ \E a \in AssetIds : /\ Exists(a) /\ (IsDataset(a) => version[a] # "none")
                         /\ req' = [req EXCEPT ![r].pc = "reset", ![r].asset = a]
  /\ UNCHANGED <<job, asset, version, blobs, served, worker, faults, purged>>

(* Mutant: a re-index marks the document as indexed already. *)
ReindexResetIndexed(r) ==
  /\ req[r].pc = "reset"
  /\ asset' = WithStatus(req[r].asset, "indexed")
  /\ Goto(r, "enqueue")
  /\ UNCHANGED <<job, version, blobs, served, worker, faults, purged>>

(* Mutant: the job's status is written to the document. *)
ReindexResetQueued(r) ==
  /\ req[r].pc = "reset"
  /\ asset' = WithStatus(req[r].asset, "queued")
  /\ Goto(r, "enqueue")
  /\ UNCHANGED <<job, version, blobs, served, worker, faults, purged>>

ReindexReset(r) ==
  /\ req[r].pc = "reset"
  /\ asset' = WithStatus(req[r].asset, "pending")
  /\ Goto(r, "enqueue")
  /\ UNCHANGED <<job, version, blobs, served, worker, faults, purged>>

-----------------------------------------------------------------------------
(* delete_document and delete_dataset act on the rows as they were read:     *)
(* seen says whether there was a version, one with chunk_ids, a schema_id.   *)

Rows(a) == (IF version[a] # "none" THEN {"version"} ELSE {})
           \cup (IF version[a] = "chunks" THEN {"chunks"} ELSE {})
           \cup (IF asset[a].schema THEN {"schema"} ELSE {})

DeleteRead(r, purge) ==
  /\ (IF purge THEN "purge" ELSE "delete") \in Ops /\ req[r].pc = "new"
  /\ \E a \in AssetIds :
       /\ Exists(a)
       /\ req' = [req EXCEPT ![r].asset = a, ![r].seen = Rows(a),
                    ![r].pc = IF ~purge \/ (IsDataset(a) /\ version[a] = "none")
                                THEN "versions"
                              ELSE IF version[a] = "chunks" THEN "vectors"
                              ELSE "blob"]
  /\ UNCHANGED <<job, asset, version, blobs, served, worker, faults, purged>>

(* purge: the document's points go first; an error is logged. *)
PurgeVectors(r) ==
  LET a == req[r].asset IN
  /\ req[r].pc = "vectors"
  /\ \/ served' = served \ {a} /\ purged' = purged \cup {a}
     \/ Errors /\ UNCHANGED <<served, purged>>
  /\ Goto(r, "blob")
  /\ UNCHANGED <<job, asset, version, blobs, worker, faults>>

(* _content_hash_still_referenced: any other document; for datasets the one *)
(* version the query returns, which may be the deleted dataset's own.       *)
CheckReferences(r) ==
  LET a == req[r].asset
      sharing == SameContent(asset[a].content)
  IN
  /\ req[r].pc = "blob"
  /\ \/ sharing \ {a} # {} /\ Goto(r, "versions")
     \/ (sharing \ {a} = {} \/ (IsDataset(a) /\ a \in sharing)) /\ Goto(r, "unblob")
  /\ UNCHANGED <<job, asset, version, blobs, served, worker, faults, purged>>

PurgeBlob(r) ==
  /\ req[r].pc = "unblob"
  /\ \/ blobs' = blobs \ {asset[req[r].asset].content}
     \/ Errors /\ UNCHANGED blobs
  /\ Goto(r, "versions")
  /\ UNCHANGED <<job, asset, version, served, worker, faults, purged>>

DeleteVersions(r) ==
  LET a == req[r].asset IN
  /\ req[r].pc = "versions"
  /\ version' = IF "version" \in req[r].seen THEN [version EXCEPT ![a] = "none"] ELSE version
  /\ Goto(r, IF "schema" \in req[r].seen THEN "schema" ELSE "row")
  /\ UNCHANGED <<job, asset, blobs, served, worker, faults, purged>>

DeleteSchema(r) ==
  LET a == req[r].asset IN
  /\ req[r].pc = "schema"
  /\ served' = served \ {a} /\ purged' = purged \cup {a}
  /\ Goto(r, "row")
  /\ UNCHANGED <<job, asset, version, blobs, worker, faults>>

DeleteRow(r) ==
  /\ req[r].pc = "row"
  /\ asset' = [asset EXCEPT ![req[r].asset].status = "gone"]
  /\ Goto(r, "done")
  /\ UNCHANGED <<job, version, blobs, served, worker, faults, purged>>

-----------------------------------------------------------------------------
(* IngestionWorker._run_cycle around a processor. *)

AssetOf(w) == job[worker[w].job].asset
Step(w, from, to) == worker[w].pc = from /\ worker' = [worker EXCEPT ![w].pc = to]
SetJob(w, s) == job' = [job EXCEPT ![worker[w].job].status = s]

(* next_queued: the oldest queued job is read, nothing is claimed yet. *)
NextQueued(w) ==
  /\ worker[w].pc = "idle"
  /\ \E j \in JobIds :
       /\ job[j].status = "queued"
       /\ \A i \in 1..(j - 1) : job[i].status # "queued"
       /\ worker' = [worker EXCEPT ![w].pc = "claimed", ![w].job = j]
  /\ UNCHANGED <<job, asset, version, blobs, served, req, faults, purged>>

ClaimJob(w) ==
  /\ Step(w, "claimed", "load")
  /\ SetJob(w, "validating")
  /\ UNCHANGED <<asset, version, blobs, served, req, faults, purged>>

(* A missing asset is an error; an indexed one needs no work. *)
LoadAsset(w) ==
  LET a == AssetOf(w) IN
  /\ worker[w].pc = "load"
  /\ worker' = [worker EXCEPT ![w].hasVersion = version[a] # "none",
                  ![w].pc = IF ~Exists(a) THEN "failJob"
                            ELSE IF asset[a].status = "indexed" THEN "finish"
                            ELSE "extract"]
  /\ UNCHANGED <<job, asset, version, blobs, served, req, faults, purged>>

(* Both rows are marked (no other step reads one and writes the other). *)
StartExtracting(w) ==
  /\ Step(w, "extract", "fetch")
  /\ SetJob(w, "extracting")
  /\ asset' = WithStatus(AssetOf(w), "processing")
  /\ UNCHANGED <<version, blobs, served, req, faults, purged>>

(* The bytes are read; without them the processor raises. *)
FetchBlob(w) ==
  /\ Step(w, "fetch", IF ContentOf(worker[w].job) \in blobs THEN "read" ELSE "failAsset")
  /\ UNCHANGED <<job, asset, version, blobs, served, req, faults, purged>>

StartIndexing(w) ==
  /\ Step(w, "read", "index")
  /\ SetJob(w, "indexing")
  /\ UNCHANGED <<asset, version, blobs, served, req, faults, purged>>

(* Chunks are embedded and upserted under identifiers derived from the      *)
(* document; a dataset's schema is stored.                                  *)
IndexContent(w) ==
  /\ Step(w, "index", IF worker[w].hasVersion /\ ~IsDataset(AssetOf(w))
                        THEN "record" ELSE "publish")
  /\ served' = served \cup {AssetOf(w)}
  /\ UNCHANGED <<job, asset, version, blobs, req, faults, purged>>

(* versions.chunk_ids *)
RecordChunks(w) ==
  /\ Step(w, "record", "publish")
  /\ version' = IF version[AssetOf(w)] = "none" THEN version
                ELSE [version EXCEPT ![AssetOf(w)] = "chunks"]
  /\ UNCHANGED <<job, asset, blobs, served, req, faults, purged>>

Publish(w) ==
  LET a == AssetOf(w) IN
  /\ Step(w, "publish", "report")
  /\ asset' = IF ~Exists(a) THEN asset
              ELSE [asset EXCEPT ![a].status = "indexed", ![a].schema = IsDataset(a)]
  /\ UNCHANGED <<job, version, blobs, served, req, faults, purged>>

(* Progress 95, lexical refresh and policy extraction: nothing modelled     *)
(* here changes, but a failing statement is still the processor's error.    *)
Report(w) ==
  /\ Step(w, "report", "finish")
  /\ UNCHANGED <<job, asset, version, blobs, served, req, faults, purged>>

Finish(w) ==
  /\ Step(w, "finish", "idle")
  /\ SetJob(w, "done")
  /\ UNCHANGED <<asset, version, blobs, served, req, faults, purged>>

(* Anything inside the processor raises: the asset is flagged, then the job. *)
Raise(w) ==
  /\ Errors /\ worker[w].pc \in {"extract", "fetch", "read", "index", "record", "publish", "report"}
  /\ worker' = [worker EXCEPT ![w].pc = "failAsset"]
  /\ UNCHANGED <<job, asset, version, blobs, served, req, faults, purged>>

(* Mutant: a failed processor leaves the asset as it is and the job is done. *)
FailAssetSilently(w) ==
  /\ Step(w, "failAsset", "finish")
  /\ UNCHANGED <<job, asset, version, blobs, served, req, faults, purged>>

FailAsset(w) ==
  /\ Step(w, "failAsset", "failJob")
  /\ \/ asset' = WithStatus(AssetOf(w), "error")
     \/ Errors /\ UNCHANGED asset
  /\ UNCHANGED <<job, version, blobs, served, req, faults, purged>>

(* Mutant: the failure is logged and the job left alone. *)
FailJobForgotten(w) ==
  /\ Step(w, "failJob", "idle")
  /\ UNCHANGED <<job, asset, version, blobs, served, req, faults, purged>>

FailJob(w) ==
  /\ Step(w, "failJob", "idle")
  /\ SetJob(w, "failed")
  /\ UNCHANGED <<asset, version, blobs, served, req, faults, purged>>

-----------------------------------------------------------------------------
(* A worker's process dies, or the statement that records its job's outcome *)
(* fails; a request dies. What was written stays.                           *)

WorkerDies(w) ==
  /\ w \in Mortal /\ worker[w].pc # "idle" /\ faults < MaxFaults
  /\ worker' = [worker EXCEPT ![w].pc = "idle"]
  /\ faults' = faults + 1
  /\ UNCHANGED <<job, asset, version, blobs, served, req, purged>>

RequestDies(r) ==
  /\ r \in Mortal /\ req[r].pc \notin {"new", "done", "dead"} /\ faults < MaxFaults
  /\ Goto(r, "dead")
  /\ faults' = faults + 1
  /\ UNCHANGED <<job, asset, version, blobs, served, worker, purged>>

Arrive(r) ==
  \/ Put(r) \/ CancelRead(r) \/ RetryRead(r) \/ ReindexRead(r)
  \/ \E purge \in BOOLEAN : DeleteRead(r, purge)

RequestStep(r) ==
  \/ FindActive(r) \/ Lookup(r) \/ CreateAsset(r) \/ CreateVersion(r) \/ Enqueue(r)
  \/ CancelWrite(r) \/ RetryWrite(r) \/ ReindexReset(r)
  \/ PurgeVectors(r) \/ CheckReferences(r) \/ PurgeBlob(r)
  \/ DeleteVersions(r) \/ DeleteSchema(r) \/ DeleteRow(r)

WorkerStep(w) ==
  \/ NextQueued(w) \/ ClaimJob(w) \/ LoadAsset(w) \/ StartExtracting(w) \/ FetchBlob(w)
  \/ StartIndexing(w) \/ IndexContent(w) \/ RecordChunks(w) \/ Publish(w) \/ Report(w) \/ Finish(w)
  \/ FailAsset(w) \/ FailJob(w)

Next ==
  \/ \E r \in Requests : Arrive(r) \/ RequestStep(r) \/ RequestDies(r)
  \/ \E w \in Workers : WorkerStep(w) \/ Raise(w) \/ WorkerDies(w)

Spec == Init /\ [][Next]_vars

(* The poll loop never ends and requests that have started finish; nobody   *)
(* is obliged to send one.                                                  *)
FairSpec == /\ Spec
            /\ \A w \in Workers : WF_vars(WorkerStep(w))
            /\ \A r \in Requests : WF_vars(RequestStep(r))

-----------------------------------------------------------------------------
(* Properties. *)

TypeOK ==
  /\ job \in [JobIds -> Job]
  /\ asset \in [AssetIds -> Asset]
  /\ version \in [AssetIds -> {"none", "active", "chunks"}]
  /\ blobs \subseteq Contents /\ served \subseteq AssetIds /\ purged \subseteq AssetIds
  /\ worker \in [Workers -> Worker]
  /\ req \in [Requests -> Request]
  /\ faults \in 0..MaxFaults

(* No silent success (worker.py: "documents would show as successfully      *)
(* ingested and be permanently invisible to retrieval"): a job is done, or  *)
(* its asset shown as indexed, only if the content was really indexed and   *)
(* no purge has removed it since; whatever else runs on the same asset.     *)
NothingSilentlyDone ==
  \A a \in AssetIds :
    (\/ asset[a].status = "indexed"
     \/ \E j \in JobIds : job[j].asset = a /\ job[j].status = "done")
    => a \in served \/ a \in purged

(* Every job that was queued comes to an end: with live workers and without *)
(* deaths, whatever is cancelled, retried, deleted or fails meanwhile.      *)
JobsSettle ==
  \A j \in JobIds : job[j].status \notin Terminal \cup {"none"}
                      ~> job[j].status \in Terminal

(* No upload is swallowed: one that survives leads to its content being     *)
(* served, or to a job of that content that says it failed or was           *)
(* cancelled, or someone deletes the asset; although earlier uploads,       *)
(* re-indexings and deletions of the same content may have died at any      *)
(* point (a row without a job, a dataset without a version, a blob without  *)
(* a row).                                                                  *)
Answered(x) ==
  \E a \in AssetIds :
    /\ asset[a].content = x
    /\ \/ a \in served \cup purged \/ asset[a].status = "gone"
       \/ \E j \in JobIds : job[j].asset = a /\ job[j].status \in {"failed", "cancelled"}

UploadsArrive ==
  \A r \in Requests :
    req[r].pc = "find" ~> req[r].pc = "dead" \/ Answered(req[r].content)

(* docs/SRE_RUNBOOK.md, a stale worker: "Restart the instance. On recovery  *)
(* the worker claims the backlog in order; no upload is lost": a queued job *)
(* comes to an end although a worker is restarted.                          *)
NoUploadLost == \A j \in JobIds : job[j].status = "queued" ~> job[j].status \in Terminal

=============================================================================
