--------------------------- MODULE IngestionProofs ---------------------------
(***************************************************************************)
(* Proofs about Ingestion, for any contents, requests, workers and bounds: *)
(* reachable states are well typed, and nothing is reported as indexed     *)
(* that was not.                                                           *)
(*                                                                         *)
(* TypeOK alone is not inductive: a step writes the row its actor holds a  *)
(* reference to, so Links says that references point at rows that exist.   *)
(***************************************************************************)
EXTENDS Ingestion, TLAPS

JobLinks == \A j \in JobIds : job[j].status # "none" => job[j].asset \in AssetIds

WorkerLinks ==
  \A w \in Workers : worker[w].pc # "idle" =>
    worker[w].job \in JobIds /\ job[worker[w].job].status # "none"

AssetHolders == {"version", "enqueue", "reset", "vectors", "blob", "unblob", "versions",
                 "schema", "row"}

RequestLinks ==
  \A r \in Requests :
    /\ req[r].pc \in AssetHolders => req[r].asset \in AssetIds
    /\ req[r].pc \in {"cancel", "retry"} =>
         req[r].job \in JobIds /\ job[req[r].job].status # "none"

Links == JobLinks /\ WorkerLinks /\ RequestLinks

JobType == job \in [JobIds -> Job]
AssetType == asset \in [AssetIds -> Asset]
RequestType == req \in [Requests -> Request]
WorkerType == worker \in [Workers -> Worker]

USE IngestionConstants

-----------------------------------------------------------------------------
(* Shape lemmas: what one assignment does to the type of one variable. *)

LEMMA NoneIsNoRow == None \notin JobIds /\ None \notin AssetIds
  BY DEF None, JobIds, AssetIds

LEMMA JobStatusStep ==
  ASSUME JobType, JobLinks, NEW j \in JobIds, NEW s \in JobStatus,
         job[j].status # "none", job' = [job EXCEPT ![j].status = s]
  PROVE  /\ JobType' /\ JobLinks'
         /\ \A i \in JobIds : job[i].status # "none" => job'[i].status # "none"
         /\ \A i \in JobIds : job'[i].asset = job[i].asset
         /\ \A i \in JobIds : i # j => job'[i].status = job[i].status
         /\ job'[j].status = s
  BY DEF JobType, JobLinks, Job, JobStatus

LEMMA QueueStep ==
  ASSUME JobType, JobLinks, NEW j \in NewJob, NEW a \in AssetIds, Queue(j, a)
  PROVE  /\ JobType' /\ JobLinks'
         /\ \A i \in JobIds : job[i].status # "none" =>
              job'[i] = job[i] /\ job'[i].status # "none"
         /\ \A i \in JobIds : job'[i] = job[i] \/ job'[i].status = "queued"
  BY DEF JobType, JobLinks, Job, JobStatus, Queue, NewJob

LEMMA WithStatusStep ==
  ASSUME AssetType, NEW a, NEW s \in AssetStatus, asset' = WithStatus(a, s)
  PROVE  /\ AssetType'
         /\ \A b \in AssetIds : asset'[b].status = asset[b].status
                                \/ (b = a /\ asset'[b].status = s)
  BY DEF AssetType, Asset, AssetStatus, WithStatus

LEMMA GotoStep ==
  ASSUME RequestType, NEW r \in Requests, NEW p, Goto(r, p),
         p \in {"find", "lookup", "create", "version", "enqueue", "cancel", "retry", "reset",
                "vectors", "blob", "unblob", "versions", "schema", "row", "done", "dead"}
  PROVE  /\ RequestType'
         /\ \A q \in Requests : q # r => req'[q] = req[q]
         /\ req'[r].pc = p /\ req'[r].asset = req[r].asset /\ req'[r].job = req[r].job
  BY DEF RequestType, Request, Goto

LEMMA WorkerGotoStep ==
  ASSUME WorkerType, NEW w \in Workers, NEW p,
         p \in {"idle", "claimed", "load", "extract", "fetch", "read", "index", "record",
                "publish", "report", "finish", "failAsset", "failJob"},
         worker' = [worker EXCEPT ![w].pc = p]
  PROVE  /\ WorkerType'
         /\ \A v \in Workers : v # w => worker'[v] = worker[v]
         /\ worker'[w].pc = p /\ worker'[w].job = worker[w].job
  BY DEF WorkerType, Worker

-----------------------------------------------------------------------------
(* Requests. First, references: a request that moves on keeps what it holds. *)

TypeLinks == TypeOK /\ Links

LEMMA StaySafe ==
  ASSUME TypeLinks, NEW r \in Requests, NEW p, Goto(r, p), UNCHANGED <<job, worker>>,
         p \in {"find", "lookup", "create", "done", "dead"}
           \/ (req[r].pc \in AssetHolders /\ p \in AssetHolders)
  PROVE  RequestType' /\ Links'
<1>1. RequestType BY DEF TypeLinks, TypeOK, RequestType
<1>2. p \in {"find", "lookup", "create", "version", "enqueue", "cancel", "retry", "reset",
             "vectors", "blob", "unblob", "versions", "schema", "row", "done", "dead"}
  BY DEF AssetHolders
<1>3. /\ RequestType'
      /\ \A q \in Requests : q # r => req'[q] = req[q]
      /\ req'[r].pc = p /\ req'[r].asset = req[r].asset /\ req'[r].job = req[r].job
  BY <1>1, <1>2, GotoStep
<1>4. RequestLinks'
  BY <1>3 DEF TypeLinks, Links, RequestLinks, AssetHolders
<1> QED BY <1>3, <1>4 DEF TypeLinks, Links, JobLinks, WorkerLinks

(* A request that starts to hold asset a. *)
LEMMA HoldSafe ==
  ASSUME TypeLinks, NEW r \in Requests, NEW a \in AssetIds, NEW s, NEW p \in AssetHolders,
         s \in SUBSET {"version", "chunks", "schema"}, UNCHANGED <<job, worker>>,
         req' = [req EXCEPT ![r] = [req[r] EXCEPT !.pc = p, !.asset = a, !.seen = s]]
  PROVE  RequestType' /\ Links'
<1>1. req[r] \in Request BY DEF TypeLinks, TypeOK
<1>2. [req[r] EXCEPT !.pc = p, !.asset = a, !.seen = s] \in Request
  BY <1>1 DEF Request, AssetHolders
<1>3. RequestType' BY <1>2 DEF TypeLinks, TypeOK, RequestType
<1>4. RequestLinks'
  BY <1>1 DEF TypeLinks, TypeOK, Links, RequestLinks, AssetHolders, Request
<1> QED BY <1>3, <1>4 DEF TypeLinks, Links, JobLinks, WorkerLinks

(* A request that starts to hold job j. *)
LEMMA HoldJobSafe ==
  ASSUME TypeLinks, NEW r \in Requests, NEW j \in JobIds, NEW p \in {"cancel", "retry"},
         job[j].status # "none", UNCHANGED <<job, worker>>,
         req' = [req EXCEPT ![r].pc = p, ![r].job = j]
  PROVE  RequestType' /\ Links'
<1>1. req[r] \in Request BY DEF TypeLinks, TypeOK
<1>2. [req[r] EXCEPT !.pc = p, !.job = j] \in Request
  BY <1>1 DEF Request
<1>3. req' = [req EXCEPT ![r] = [req[r] EXCEPT !.pc = p, !.job = j]]
  BY DEF TypeLinks, TypeOK
<1>4. RequestType' BY <1>2, <1>3 DEF TypeLinks, TypeOK, RequestType
<1>5. /\ \A q \in Requests : q # r => req'[q] = req[q]
      /\ req'[r].pc = p /\ req'[r].job = j
  BY <1>1, <1>3 DEF TypeLinks, TypeOK, Request
<1>6. RequestLinks'
  BY <1>5 DEF TypeLinks, Links, RequestLinks, AssetHolders
<1> QED BY <1>4, <1>6 DEF TypeLinks, Links, JobLinks, WorkerLinks

(* Everything that is not one of the four tables of rows and actors. *)
Others == <<version, blobs, served, faults, purged>>
OthersOK == /\ version \in [AssetIds -> {"none", "active", "chunks"}]
            /\ blobs \subseteq Contents /\ served \subseteq AssetIds
            /\ purged \subseteq AssetIds /\ faults \in 0..MaxFaults

LEMMA TypeParts ==
  TypeOK <=> JobType /\ AssetType /\ OthersOK /\ WorkerType /\ RequestType
BY DEF TypeOK, JobType, AssetType, OthersOK, WorkerType, RequestType

LEMMA TypePartsNext ==
  JobType' /\ AssetType' /\ OthersOK' /\ WorkerType' /\ RequestType' => TypeOK'
BY DEF TypeOK, JobType, AssetType, OthersOK, WorkerType, RequestType

(* Steps of a request that write neither a job nor another actor's state. *)
LEMMA PlainRequestSafe ==
  ASSUME TypeLinks, UNCHANGED <<job, worker>>, RequestType', Links', AssetType', OthersOK'
  PROVE  TypeLinks'
<1>1. JobType' /\ WorkerType' BY TypeParts DEF TypeLinks, JobType, WorkerType
<1> QED BY <1>1, TypePartsNext DEF TypeLinks

LEMMA ArriveSafe ==
  ASSUME TypeLinks, NEW r \in Requests, Arrive(r)
  PROVE  TypeLinks'
<1>1. AssetType /\ OthersOK /\ req[r] \in Request
  BY TypeParts DEF TypeLinks, TypeOK
<1>2. CASE Put(r)
  <2>1. RequestType' /\ Links' BY <1>2, StaySafe DEF Put
  <2>2. AssetType' /\ OthersOK' BY <1>1, <1>2 DEF Put, AssetType, OthersOK, Request
  <2> QED BY <1>2, <2>1, <2>2, PlainRequestSafe DEF Put
<1>3. ASSUME AssetType, OthersOK, UNCHANGED <<job, asset, worker, Others>>, RequestType', Links'
      PROVE  TypeLinks'
  <2>1. AssetType' /\ OthersOK' BY <1>3 DEF AssetType, OthersOK, Others
  <2> QED BY <1>3, <2>1, PlainRequestSafe
<1>4. CASE CancelRead(r)
  <2>1. PICK j \in JobIds : /\ job[j].status = "queued"
                            /\ req' = [req EXCEPT ![r].pc = "cancel", ![r].job = j]
    BY <1>4 DEF CancelRead
  <2>2. RequestType' /\ Links' BY <1>4, <2>1, HoldJobSafe DEF CancelRead
  <2> QED BY <1>1, <1>3, <1>4, <2>2 DEF CancelRead, Others
<1>5. CASE RetryRead(r)
  <2>1. PICK j \in JobIds : /\ job[j].status = "failed"
                            /\ req' = [req EXCEPT ![r].pc = "retry", ![r].job = j]
    BY <1>5 DEF RetryRead
  <2>2. RequestType' /\ Links' BY <1>5, <2>1, HoldJobSafe DEF RetryRead
  <2> QED BY <1>1, <1>3, <1>5, <2>2 DEF RetryRead, Others
<1>6. CASE ReindexRead(r)
  <2>1. PICK a \in AssetIds : req' = [req EXCEPT ![r].pc = "reset", ![r].asset = a]
    BY <1>6 DEF ReindexRead
  <2>2. req' = [req EXCEPT ![r] = [req[r] EXCEPT !.pc = "reset", !.asset = a,
                                                !.seen = req[r].seen]]
    BY <1>1, <2>1 DEF TypeLinks, TypeOK, Request
  <2>3. RequestType' /\ Links'
    BY <1>1, <1>6, <2>2, HoldSafe DEF ReindexRead, Request, AssetHolders
  <2> QED BY <1>1, <1>3, <1>6, <2>3 DEF ReindexRead, Others
<1>7. ASSUME NEW purge \in BOOLEAN, DeleteRead(r, purge) PROVE TypeLinks'
  <2>1. PICK a \in AssetIds, p \in {"versions", "vectors", "blob"} :
          req' = [req EXCEPT ![r].asset = a, ![r].seen = Rows(a), ![r].pc = p]
    BY <1>7 DEF DeleteRead
  <2>2. Rows(a) \in SUBSET {"version", "chunks", "schema"} BY DEF Rows
  <2>3. req' = [req EXCEPT ![r] = [req[r] EXCEPT !.pc = p, !.asset = a, !.seen = Rows(a)]]
    BY <1>1, <2>1 DEF TypeLinks, TypeOK, Request
  <2>4. RequestType' /\ Links'
    BY <1>7, <2>2, <2>3, HoldSafe DEF DeleteRead, AssetHolders
  <2> QED BY <1>1, <1>3, <1>7, <2>4 DEF DeleteRead, Others
<1> QED BY <1>2, <1>4, <1>5, <1>6, <1>7 DEF Arrive

LEMMA RequestSafe ==
  ASSUME TypeLinks, NEW r \in Requests, RequestStep(r) \/ RequestDies(r)
  PROVE  TypeLinks'
<1>1. AssetType /\ OthersOK /\ req[r] \in Request /\ RequestType /\ JobType /\ JobLinks
  BY TypeParts DEF TypeLinks, TypeOK, Links
<1>2. ASSUME NEW p, Goto(r, p), UNCHANGED <<job, worker>>,
             p \in {"find", "lookup", "create", "done", "dead"}
               \/ (req[r].pc \in AssetHolders /\ p \in AssetHolders),
             AssetType', OthersOK'
      PROVE  TypeLinks'
  BY <1>2, StaySafe, PlainRequestSafe
<1>3. UNCHANGED asset => AssetType' BY <1>1 DEF AssetType
<1>4. UNCHANGED Others => OthersOK' BY <1>1 DEF OthersOK, Others
(* Writers of a job row. *)
<1>5. ASSUME Goto(r, "done"), UNCHANGED <<asset, worker, Others>>, JobType', JobLinks',
             \A i \in JobIds : job[i].status # "none" => job'[i].status # "none"
      PROVE  TypeLinks'
  <2>1. /\ RequestType'
        /\ \A q \in Requests : q # r => req'[q] = req[q]
        /\ req'[r].pc = "done"
    BY <1>1, <1>5, GotoStep
  <2>2. RequestLinks' BY <1>5, <2>1 DEF TypeLinks, Links, RequestLinks, AssetHolders
  <2>3. WorkerLinks' BY <1>5 DEF TypeLinks, Links, WorkerLinks
  <2>4. WorkerType' BY <1>5, TypeParts DEF TypeLinks, WorkerType
  <2> QED BY <1>3, <1>4, <1>5, <2>1, <2>2, <2>3, <2>4, TypePartsNext DEF TypeLinks, Links
<1>6. CASE CancelWrite(r)
  <2> DEFINE j == req[r].job
  <2>1. j \in JobIds /\ job[j].status # "none"
    BY <1>6 DEF CancelWrite, TypeLinks, Links, RequestLinks
  <2>2. job' = [job EXCEPT ![j].status = "cancelled"] BY <1>6 DEF CancelWrite
  <2> HIDE DEF j
  <2> QED BY <1>1, <1>5, <1>6, <2>1, <2>2, JobStatusStep DEF CancelWrite, Others, JobStatus
<1>7. CASE RetryWrite(r)
  <2> DEFINE j == req[r].job
  <2>1. j \in JobIds /\ job[j].status # "none"
    BY <1>7 DEF RetryWrite, TypeLinks, Links, RequestLinks
  <2>2. job' = [job EXCEPT ![j].status = "queued"] BY <1>7 DEF RetryWrite
  <2> HIDE DEF j
  <2> QED BY <1>1, <1>5, <1>7, <2>1, <2>2, JobStatusStep DEF RetryWrite, Others, JobStatus
<1>8. CASE Enqueue(r)
  <2>1. req[r].asset \in AssetIds
    BY <1>8 DEF Enqueue, TypeLinks, Links, RequestLinks, AssetHolders
  <2>2. PICK j \in NewJob : Queue(j, req[r].asset) BY <1>8 DEF Enqueue
  <2> QED BY <1>1, <1>5, <1>8, <2>1, <2>2, QueueStep DEF Enqueue, Others
<1>9. CASE FindActive(r)
  BY <1>2, <1>3, <1>4, <1>9 DEF FindActive, Others
<1>10. CASE Lookup(r)
  <2>1. CASE Goto(r, "create") BY <1>2, <1>3, <1>4, <1>10, <2>1 DEF Lookup, Others
  <2>2. ASSUME NEW a \in SameContent(req[r].content),
               req' = [req EXCEPT ![r].pc = "enqueue", ![r].asset = a]
        PROVE  TypeLinks'
    <3>1. a \in AssetIds BY DEF SameContent
    <3>2. req' = [req EXCEPT ![r] = [req[r] EXCEPT !.pc = "enqueue", !.asset = a,
                                                  !.seen = req[r].seen]]
      BY <1>1, <2>2 DEF RequestType, Request
    <3>3. RequestType' /\ Links'
      BY <1>1, <1>10, <3>1, <3>2, HoldSafe DEF Lookup, Request, AssetHolders
    <3> QED BY <1>3, <1>4, <1>10, <3>3, PlainRequestSafe DEF Lookup, Others
  <2> QED BY <1>10, <2>1, <2>2 DEF Lookup
<1>11. CASE CreateAsset(r)
  <2>1. PICK a \in NewAsset :
          /\ asset' = [asset EXCEPT ![a].status = "pending", ![a].content = req[r].content]
          /\ req' = [req EXCEPT ![r].pc = "version", ![r].asset = a]
    BY <1>11 DEF CreateAsset
  <2>2. a \in AssetIds BY DEF NewAsset
  <2>3. req' = [req EXCEPT ![r] = [req[r] EXCEPT !.pc = "version", !.asset = a,
                                                !.seen = req[r].seen]]
    BY <1>1, <2>1 DEF RequestType, Request
  <2>4. RequestType' /\ Links'
    BY <1>1, <1>11, <2>2, <2>3, HoldSafe DEF CreateAsset, Request, AssetHolders
  <2> DEFINE y == req[r].content
             fresh == [asset[a] EXCEPT !.status = "pending", !.content = y]
  <2>5. y \in Contents /\ asset[a] \in Asset BY <1>1, <2>2 DEF AssetType, Request
  <2>6. fresh \in Asset BY <2>5 DEF Asset, AssetStatus
  <2>7. asset' = [asset EXCEPT ![a] = fresh] BY <1>1, <2>1, <2>2 DEF AssetType, Asset
  <2> HIDE DEF fresh
  <2>8. AssetType' BY <1>1, <2>2, <2>6, <2>7 DEF AssetType
  <2> QED BY <1>4, <1>11, <2>4, <2>8, PlainRequestSafe DEF CreateAsset, Others
<1>12. CASE CreateVersion(r)
  <2>1. OthersOK' BY <1>1, <1>12 DEF CreateVersion, OthersOK
  <2> QED BY <1>2, <1>3, <1>12, <2>1 DEF CreateVersion, AssetHolders
<1>13. CASE ReindexReset(r)
  <2>1. AssetType' BY <1>1, <1>13, WithStatusStep DEF ReindexReset, AssetStatus
  <2> QED BY <1>2, <1>4, <1>13, <2>1 DEF ReindexReset, AssetHolders, Others
<1>14. CASE PurgeVectors(r)
  <2>1. req[r].asset \in AssetIds
    BY <1>14 DEF PurgeVectors, TypeLinks, Links, RequestLinks, AssetHolders
  <2>2. OthersOK' BY <1>1, <1>14, <2>1 DEF PurgeVectors, OthersOK
  <2> QED BY <1>2, <1>3, <1>14, <2>2 DEF PurgeVectors, AssetHolders
<1>15. CASE CheckReferences(r)
  BY <1>2, <1>3, <1>4, <1>15 DEF CheckReferences, AssetHolders, Others
<1>16. CASE PurgeBlob(r)
  <2>1. OthersOK' BY <1>1, <1>16 DEF PurgeBlob, OthersOK
  <2> QED BY <1>2, <1>3, <1>16, <2>1 DEF PurgeBlob, AssetHolders
<1>17. CASE DeleteVersions(r)
  <2>1. OthersOK' BY <1>1, <1>17 DEF DeleteVersions, OthersOK
  <2> QED BY <1>2, <1>3, <1>17, <2>1 DEF DeleteVersions, AssetHolders
<1>18. CASE DeleteSchema(r)
  <2>1. req[r].asset \in AssetIds
    BY <1>18 DEF DeleteSchema, TypeLinks, Links, RequestLinks, AssetHolders
  <2>2. OthersOK' BY <1>1, <1>18, <2>1 DEF DeleteSchema, OthersOK
  <2> QED BY <1>2, <1>3, <1>18, <2>2 DEF DeleteSchema, AssetHolders
<1>19. CASE DeleteRow(r)
  <2>1. AssetType' BY <1>1, <1>19 DEF DeleteRow, AssetType, Asset
  <2> QED BY <1>2, <1>4, <1>19, <2>1 DEF DeleteRow, Others
<1>20. CASE RequestDies(r)
  <2>1. OthersOK' BY <1>1, <1>20 DEF RequestDies, OthersOK
  <2> QED BY <1>2, <1>3, <1>20, <2>1 DEF RequestDies
<1> QED
  BY <1>6, <1>7, <1>8, <1>9, <1>10, <1>11, <1>12, <1>13, <1>14, <1>15, <1>16, <1>17, <1>18,
     <1>19, <1>20 DEF RequestStep

-----------------------------------------------------------------------------
(* Workers. *)

WorkerPc == {"idle", "claimed", "load", "extract", "fetch", "read", "index", "record",
             "publish", "report", "finish", "failAsset", "failJob"}

LEMMA WorkerSafe ==
  ASSUME TypeLinks, NEW w \in Workers, WorkerStep(w) \/ Raise(w) \/ WorkerDies(w)
  PROVE  TypeLinks'
<1>1. /\ AssetType /\ OthersOK /\ JobType /\ WorkerType /\ RequestType
      /\ JobLinks /\ WorkerLinks /\ RequestLinks
  BY TypeParts DEF TypeLinks, Links
<1>2. UNCHANGED asset => AssetType' BY <1>1 DEF AssetType
<1>3. UNCHANGED Others => OthersOK' BY <1>1 DEF OthersOK, Others
<1> DEFINE j == worker[w].job
           SameOrSet == \/ UNCHANGED job
                        \/ \E s \in JobStatus : job' = [job EXCEPT ![j].status = s]
(* A worker that holds a job moves on, and may write that job's status. *)
<1>4. ASSUME worker[w].pc # "idle", NEW p \in WorkerPc, SameOrSet, UNCHANGED req,
             worker' = [worker EXCEPT ![w].pc = p], AssetType', OthersOK'
      PROVE  TypeLinks'
  <2>1. j \in JobIds /\ job[j].status # "none" BY <1>1, <1>4 DEF WorkerLinks
  <2>2. /\ JobType' /\ JobLinks'
        /\ \A i \in JobIds : job[i].status # "none" => job'[i].status # "none"
    <3>1. CASE UNCHANGED job BY <1>1, <3>1 DEF JobType, JobLinks
    <3>2. ASSUME NEW s \in JobStatus, job' = [job EXCEPT ![j].status = s]
          PROVE  /\ JobType' /\ JobLinks'
                 /\ \A i \in JobIds : job[i].status # "none" => job'[i].status # "none"
      <4> HIDE DEF j
      <4> QED BY <1>1, <2>1, <3>2, JobStatusStep
    <3> QED BY <1>4, <3>1, <3>2
  <2>3. /\ WorkerType'
        /\ \A v \in Workers : v # w => worker'[v] = worker[v]
        /\ worker'[w].pc = p /\ worker'[w].job = j
    BY <1>1, <1>4, WorkerGotoStep DEF WorkerPc
  <2>4. WorkerLinks' BY <1>1, <2>1, <2>2, <2>3 DEF WorkerLinks
  <2>5. RequestLinks' BY <1>1, <1>4, <2>2 DEF RequestLinks
  <2>6. RequestType' BY <1>1, <1>4 DEF RequestType
  <2> QED BY <1>4, <2>2, <2>3, <2>4, <2>5, <2>6, TypePartsNext DEF TypeLinks, Links
<1>5. ASSUME worker[w].pc # "idle" PROVE AssetOf(w) \in AssetIds
  BY <1>1, <1>5 DEF WorkerLinks, JobLinks, AssetOf
(* The two steps that write more of the worker than where it is. *)
<1>6. ASSUME UNCHANGED <<job, asset, req, Others>>, WorkerType',
             \A v \in Workers : v # w => worker'[v] = worker[v],
             worker'[w].job \in JobIds, job[worker'[w].job].status # "none"
      PROVE  TypeLinks'
  <2>1. JobType' /\ RequestType' /\ JobLinks' /\ RequestLinks' /\ WorkerLinks'
    BY <1>1, <1>6 DEF JobType, RequestType, JobLinks, RequestLinks, WorkerLinks
  <2> QED BY <1>2, <1>3, <1>6, <2>1, TypePartsNext DEF TypeLinks, Links
<1>7. CASE NextQueued(w)
  <2>1. PICK i \in JobIds :
          /\ job[i].status = "queued"
          /\ worker' = [worker EXCEPT ![w].pc = "claimed", ![w].job = i]
    BY <1>7 DEF NextQueued
  <2>2. worker[w] \in Worker BY <1>1 DEF WorkerType
  <2>3. [worker[w] EXCEPT !.pc = "claimed", !.job = i] \in Worker BY <2>2 DEF Worker
  <2>4. worker' = [worker EXCEPT ![w] = [worker[w] EXCEPT !.pc = "claimed", !.job = i]]
    BY <1>1, <2>1 DEF WorkerType
  <2>5. WorkerType' BY <1>1, <2>3, <2>4 DEF WorkerType
  <2>6. /\ \A v \in Workers : v # w => worker'[v] = worker[v]
        /\ worker'[w].job = i
    BY <1>1, <2>2, <2>4 DEF WorkerType, Worker
  <2> QED BY <1>6, <1>7, <2>1, <2>5, <2>6 DEF NextQueued, Others
<1>8. CASE LoadAsset(w)
  <2>1. PICK p \in {"failJob", "finish", "extract"}, h \in BOOLEAN :
          worker' = [worker EXCEPT ![w].hasVersion = h, ![w].pc = p]
    BY <1>8 DEF LoadAsset
  <2>2. worker[w] \in Worker BY <1>1 DEF WorkerType
  <2>3. [worker[w] EXCEPT !.hasVersion = h, !.pc = p] \in Worker BY <2>2 DEF Worker
  <2>4. worker' = [worker EXCEPT ![w] = [worker[w] EXCEPT !.hasVersion = h, !.pc = p]]
    BY <1>1, <2>1 DEF WorkerType
  <2>5. WorkerType' BY <1>1, <2>3, <2>4 DEF WorkerType
  <2>6. /\ \A v \in Workers : v # w => worker'[v] = worker[v]
        /\ worker'[w].job = worker[w].job
    BY <1>1, <2>2, <2>4 DEF WorkerType, Worker
  <2>7. j \in JobIds /\ job[j].status # "none" BY <1>1, <1>8 DEF LoadAsset, WorkerLinks
  <2> QED BY <1>6, <1>8, <2>5, <2>6, <2>7 DEF LoadAsset, Others
<1>9. CASE ClaimJob(w)
  BY <1>2, <1>3, <1>4, <1>9 DEF ClaimJob, Step, SetJob, JobStatus, WorkerPc, Others
<1>10. CASE StartExtracting(w)
  <2>1. AssetType' BY <1>1, <1>10, WithStatusStep DEF StartExtracting, AssetStatus
  <2> QED BY <1>3, <1>4, <1>10, <2>1
          DEF StartExtracting, Step, SetJob, JobStatus, WorkerPc, Others
<1>11. CASE FetchBlob(w)
  BY <1>2, <1>3, <1>4, <1>11 DEF FetchBlob, Step, WorkerPc, Others
<1>12. CASE StartIndexing(w)
  BY <1>2, <1>3, <1>4, <1>12 DEF StartIndexing, Step, SetJob, JobStatus, WorkerPc, Others
<1>13. CASE IndexContent(w)
  <2>1. AssetOf(w) \in AssetIds BY <1>5, <1>13 DEF IndexContent, Step
  <2>2. OthersOK' BY <1>1, <1>13, <2>1 DEF IndexContent, OthersOK
  <2> QED BY <1>2, <1>4, <1>13, <2>2 DEF IndexContent, Step, WorkerPc
<1>14. CASE RecordChunks(w)
  <2>1. OthersOK' BY <1>1, <1>14 DEF RecordChunks, OthersOK
  <2> QED BY <1>2, <1>4, <1>14, <2>1 DEF RecordChunks, Step, WorkerPc
<1>15. CASE Publish(w)
  <2> DEFINE a == AssetOf(w)
             shown == [asset[a] EXCEPT !.status = "indexed", !.schema = IsDataset(a)]
  <2>1. a \in AssetIds /\ asset[a] \in Asset
    BY <1>1, <1>5, <1>15 DEF Publish, Step, AssetType
  <2>2. IsDataset(a) \in BOOLEAN BY DEF IsDataset
  <2>3. shown \in Asset BY <2>1, <2>2 DEF Asset, AssetStatus
  <2>4. asset' = asset \/ asset' = [asset EXCEPT ![a] = shown]
    BY <1>1, <1>15, <2>1 DEF Publish, AssetType, Asset
  <2> HIDE DEF shown, a
  <2>5. AssetType' BY <1>1, <2>1, <2>3, <2>4 DEF AssetType
  <2> QED BY <1>3, <1>4, <1>15, <2>5 DEF Publish, Step, WorkerPc, Others
<1>16. CASE Report(w)
  BY <1>2, <1>3, <1>4, <1>16 DEF Report, Step, WorkerPc, Others
<1>17. CASE Finish(w)
  BY <1>2, <1>3, <1>4, <1>17 DEF Finish, Step, SetJob, JobStatus, WorkerPc, Others
<1>18. CASE FailAsset(w)
  <2>1. AssetType' BY <1>1, <1>2, <1>18, WithStatusStep DEF FailAsset, AssetStatus
  <2> QED BY <1>3, <1>4, <1>18, <2>1 DEF FailAsset, Step, WorkerPc, Others
<1>19. CASE FailJob(w)
  BY <1>2, <1>3, <1>4, <1>19 DEF FailJob, Step, SetJob, JobStatus, WorkerPc, Others
<1>20. CASE Raise(w)
  BY <1>2, <1>3, <1>4, <1>20 DEF Raise, WorkerPc, Others
<1>21. CASE WorkerDies(w)
  <2>1. OthersOK' BY <1>1, <1>21 DEF WorkerDies, OthersOK
  <2> QED BY <1>2, <1>4, <1>21, <2>1 DEF WorkerDies, WorkerPc
<1> QED
  BY <1>7, <1>8, <1>9, <1>10, <1>11, <1>12, <1>13, <1>14, <1>15, <1>16, <1>17, <1>18, <1>19,
     <1>20, <1>21 DEF WorkerStep

(* Every reachable state is well typed, and every reference points at a row *)
(* that was created: for any contents, requests, workers and bounds.        *)
THEOREM IngestionTyping == Spec => []TypeLinks
<1>1. Init => TypeLinks
  BY DEF Init, TypeLinks, TypeOK, Links, JobLinks, WorkerLinks, RequestLinks, AssetHolders,
         Job, Asset, Worker, Request
<1>2. TypeLinks /\ [Next]_vars => TypeLinks'
  <2> SUFFICES ASSUME TypeLinks, [Next]_vars PROVE TypeLinks' OBVIOUS
  <2>1. CASE UNCHANGED vars
    BY <2>1 DEF TypeLinks, TypeOK, Links, JobLinks, WorkerLinks, RequestLinks, vars
  <2> QED BY <2>1, ArriveSafe, RequestSafe, WorkerSafe DEF Next
<1> QED BY <1>1, <1>2, PTL DEF Spec

THEOREM IngestionTypeOK == Spec => []TypeOK
<1>1. TypeLinks => TypeOK BY DEF TypeLinks
<1> QED BY <1>1, IngestionTyping, PTL

-----------------------------------------------------------------------------
(* Nothing is silently done. What has been served stays served or is purged; *)
(* and a worker that is about to call a job done has served it, or has seen  *)
(* the asset indexed.                                                        *)

Kept(a) == a \in served \cup purged

(* ... in the next state, of the row that is a now. *)
KeptNext(a) == a \in served' \cup purged'

IndexedKept == \A a \in AssetIds : asset[a].status = "indexed" => Kept(a)
DoneKept == \A j \in JobIds : job[j].status = "done" => Kept(job[j].asset)
WorkerKept ==
  \A w \in Workers :
    worker[w].pc \in {"record", "publish", "report", "finish"} => Kept(AssetOf(w))

SilentInv == TypeLinks /\ IndexedKept /\ DoneKept /\ WorkerKept

(* What one step may do to the rows, if it is not one that reports success. *)
LEMMA KeptByRows ==
  ASSUME SilentInv,
         \A a \in AssetIds : Kept(a) => Kept(a)',
         \A a \in AssetIds : \/ asset'[a].status = asset[a].status
                             \/ asset'[a].status # "indexed"
                             \/ Kept(a)',
         \A j \in JobIds : \/ job'[j] = job[j]
                           \/ job'[j].status # "done"
                           \/ Kept(job[j].asset)'
  PROVE  IndexedKept' /\ DoneKept'
<1>1. IndexedKept' BY DEF SilentInv, IndexedKept
<1>2. DoneKept' BY DEF SilentInv, DoneKept, TypeLinks, Links, JobLinks
<1> QED BY <1>1, <1>2

LEMMA KeptByWorkers ==
  ASSUME SilentInv,
         \A a \in AssetIds : Kept(a) => Kept(a)',
         \A j \in JobIds : job[j].status # "none" => job'[j].asset = job[j].asset,
         \A w \in Workers : \/ worker'[w] = worker[w]
                            \/ worker'[w].pc \notin {"record", "publish", "report", "finish"}
                            \/ Kept(AssetOf(w))'
  PROVE  WorkerKept'
<1> SUFFICES ASSUME NEW w \in Workers,
                    worker'[w].pc \in {"record", "publish", "report", "finish"}
             PROVE  Kept(AssetOf(w))'
  BY DEF WorkerKept
<1>1. CASE worker'[w] = worker[w]
  <2>1. worker[w].job \in JobIds /\ job[worker[w].job].status # "none"
    BY <1>1 DEF SilentInv, TypeLinks, Links, WorkerLinks
  <2>2. AssetOf(w) \in AssetIds /\ AssetOf(w)' = AssetOf(w)
    BY <1>1, <2>1 DEF SilentInv, TypeLinks, Links, JobLinks, AssetOf
  <2>3. Kept(AssetOf(w)) BY <1>1 DEF SilentInv, WorkerKept
  <2> QED BY <2>2, <2>3 DEF Kept
<1> QED BY <1>1 DEF Kept

LEMMA RequestKeeps ==
  ASSUME SilentInv, NEW r \in Requests, Arrive(r) \/ RequestStep(r) \/ RequestDies(r)
  PROVE  IndexedKept' /\ DoneKept' /\ WorkerKept'
<1>1. JobType /\ AssetType /\ JobLinks /\ RequestLinks
  BY TypeParts DEF SilentInv, TypeLinks, Links
<1>2. \A a \in AssetIds : Kept(a) => Kept(a)'
  BY DEF Kept, Arrive, RequestStep, Put, CancelRead, RetryRead, ReindexRead, DeleteRead,
         FindActive, Lookup, CreateAsset, CreateVersion, Enqueue, CancelWrite, RetryWrite,
         ReindexReset, PurgeVectors, CheckReferences, PurgeBlob, DeleteVersions,
         DeleteSchema, DeleteRow, RequestDies
<1>3. UNCHANGED worker
  BY DEF Arrive, RequestStep, Put, CancelRead, RetryRead, ReindexRead, DeleteRead,
         FindActive, Lookup, CreateAsset, CreateVersion, Enqueue, CancelWrite, RetryWrite,
         ReindexReset, PurgeVectors, CheckReferences, PurgeBlob, DeleteVersions,
         DeleteSchema, DeleteRow, RequestDies
<1>4. ASSUME \A a \in AssetIds : \/ asset'[a].status = asset[a].status
                                \/ asset'[a].status # "indexed",
             \A j \in JobIds : job'[j] = job[j] \/ job'[j].status # "done",
             \A j \in JobIds : job[j].status # "none" => job'[j].asset = job[j].asset
      PROVE  IndexedKept' /\ DoneKept' /\ WorkerKept'
  BY <1>2, <1>3, <1>4, KeptByRows, KeptByWorkers
<1>5. CASE UNCHANGED <<job, asset>> BY <1>4, <1>5
<1>6. CASE CreateAsset(r)
  <2>1. PICK a \in NewAsset :
          asset' = [asset EXCEPT ![a].status = "pending", ![a].content = req[r].content]
    BY <1>6 DEF CreateAsset
  <2>2. \A b \in AssetIds : \/ asset'[b].status = asset[b].status
                            \/ asset'[b].status = "pending"
    BY <1>1, <2>1 DEF NewAsset, AssetType, Asset
  <2> QED BY <1>4, <1>6, <2>2 DEF CreateAsset
<1>7. CASE ReindexReset(r)
  BY <1>1, <1>4, <1>7, WithStatusStep DEF ReindexReset, AssetStatus
<1>8. CASE DeleteRow(r)
  <2>1. \A b \in AssetIds : \/ asset'[b].status = asset[b].status
                            \/ asset'[b].status = "gone"
    BY <1>1, <1>8 DEF DeleteRow, AssetType, Asset
  <2> QED BY <1>4, <1>8, <2>1 DEF DeleteRow
<1>9. CASE Enqueue(r)
  <2>1. req[r].asset \in AssetIds BY <1>1, <1>9 DEF Enqueue, RequestLinks, AssetHolders
  <2>2. PICK j \in NewJob : Queue(j, req[r].asset) BY <1>9 DEF Enqueue
  <2>3. \A i \in JobIds : /\ job[i].status # "none" => job'[i] = job[i]
                          /\ job'[i] = job[i] \/ job'[i].status = "queued"
    BY <1>1, <2>1, <2>2, QueueStep
  <2> QED BY <1>4, <1>9, <2>3 DEF Enqueue
<1>10. ASSUME req[r].job \in JobIds, job[req[r].job].status # "none", UNCHANGED asset,
              NEW s \in {"cancelled", "queued"}, job' = [job EXCEPT ![req[r].job].status = s]
       PROVE  IndexedKept' /\ DoneKept' /\ WorkerKept'
  <2> DEFINE j == req[r].job
  <2>1. \A i \in JobIds : /\ job'[i].asset = job[i].asset
                          /\ job'[i] = job[i] \/ job'[i].status = s
    BY <1>1, <1>10 DEF JobType, Job
  <2> QED BY <1>4, <1>10, <2>1
<1>11. CASE CancelWrite(r)
  BY <1>1, <1>10, <1>11 DEF CancelWrite, RequestLinks
<1>12. CASE RetryWrite(r)
  BY <1>1, <1>10, <1>12 DEF RetryWrite, RequestLinks
<1> QED
  BY <1>5, <1>6, <1>7, <1>8, <1>9, <1>11, <1>12
  DEF Arrive, RequestStep, Put, CancelRead, RetryRead, ReindexRead, DeleteRead,
      FindActive, Lookup, CreateVersion, PurgeVectors, CheckReferences, PurgeBlob,
      DeleteVersions, DeleteSchema, RequestDies

LEMMA WorkerKeeps ==
  ASSUME SilentInv, NEW w \in Workers, WorkerStep(w) \/ Raise(w) \/ WorkerDies(w)
  PROVE  IndexedKept' /\ DoneKept' /\ WorkerKept'
<1> DEFINE j == worker[w].job
           a == AssetOf(w)
<1>1. JobType /\ AssetType /\ WorkerType /\ JobLinks /\ WorkerLinks
  BY TypeParts DEF SilentInv, TypeLinks, Links
<1>2. /\ \A b \in AssetIds : Kept(b) => Kept(b)'
      /\ purged' = purged /\ (served' = served \/ IndexContent(w))
  BY DEF Kept, WorkerStep, NextQueued, ClaimJob, LoadAsset, StartExtracting, FetchBlob,
         StartIndexing, IndexContent, RecordChunks, Publish, Report, Finish, FailAsset,
         FailJob, Raise, WorkerDies
<1>3. worker[w].pc # "idle" =>
        j \in JobIds /\ job[j].status # "none" /\ a \in AssetIds /\ a = job[j].asset
  BY <1>1 DEF WorkerLinks, JobLinks, AssetOf
<1>4. worker[w].pc \in {"record", "publish", "report", "finish"} => Kept(a)
  BY DEF SilentInv, WorkerKept
(* The rows. *)
<1>5. \A b \in AssetIds : \/ asset'[b].status = asset[b].status
                          \/ asset'[b].status # "indexed"
                          \/ Kept(b)'
  <2>1. CASE UNCHANGED asset BY <2>1
  <2>2. CASE StartExtracting(w)
    BY <1>1, <2>2, WithStatusStep DEF StartExtracting, AssetStatus
  <2>3. CASE FailAsset(w)
    BY <1>1, <2>3, WithStatusStep DEF FailAsset, AssetStatus
  <2>4. CASE Publish(w)
    <3>1. KeptNext(a) BY <1>2, <1>3, <1>4, <2>4 DEF Publish, Step, Kept, KeptNext
    <3>2. \A b \in AssetIds : b # a => asset'[b] = asset[b]
      BY <1>1, <2>4 DEF Publish, AssetType, Asset
    <3> QED BY <3>1, <3>2 DEF Kept, KeptNext
  <2> QED BY <2>1, <2>2, <2>3, <2>4
          DEF WorkerStep, NextQueued, ClaimJob, LoadAsset, FetchBlob, StartIndexing,
              IndexContent, RecordChunks, Report, Finish, FailJob, Raise, WorkerDies
<1>6. \A i \in JobIds : /\ job'[i].asset = job[i].asset
                        /\ \/ job'[i] = job[i]
                           \/ job'[i].status # "done"
                           \/ Kept(job[i].asset)'
  <2>1. CASE UNCHANGED job BY <2>1
  <2>2. ASSUME worker[w].pc # "idle", NEW s, job' = [job EXCEPT ![j].status = s],
               s = "done" => KeptNext(a)
        PROVE  \A i \in JobIds : /\ job'[i].asset = job[i].asset
                                 /\ \/ job'[i] = job[i]
                                    \/ job'[i].status # "done"
                                    \/ Kept(job[i].asset)'
    <3>1. \A i \in JobIds : /\ job'[i].asset = job[i].asset
                            /\ i # j => job'[i] = job[i]
                            /\ i = j => job'[i].status = s
      BY <1>1, <2>2 DEF JobType, Job
    <3> QED BY <1>3, <2>2, <3>1 DEF Kept, KeptNext
  <2>3. CASE Finish(w)
    <3>1. KeptNext(a) BY <1>2, <1>3, <1>4, <2>3 DEF Finish, Step, Kept, KeptNext
    <3> QED BY <2>2, <2>3, <3>1 DEF Finish, Step, SetJob
  <2>4. CASE ClaimJob(w) BY <2>2, <2>4 DEF ClaimJob, Step, SetJob
  <2>5. CASE StartExtracting(w) BY <2>2, <2>5 DEF StartExtracting, Step, SetJob
  <2>6. CASE StartIndexing(w) BY <2>2, <2>6 DEF StartIndexing, Step, SetJob
  <2>7. CASE FailJob(w) BY <2>2, <2>7 DEF FailJob, Step, SetJob
  <2> QED BY <2>1, <2>3, <2>4, <2>5, <2>6, <2>7
          DEF WorkerStep, NextQueued, LoadAsset, FetchBlob, IndexContent, RecordChunks,
              Publish, Report, FailAsset, Raise, WorkerDies
(* The workers: only loading an indexed asset and indexing lead to success. *)
<1>7. \A v \in Workers : v # w => worker'[v] = worker[v]
  BY <1>1 DEF WorkerStep, NextQueued, ClaimJob, LoadAsset, StartExtracting, FetchBlob,
         StartIndexing, IndexContent, RecordChunks, Publish, Report, Finish, FailAsset,
         FailJob, Raise, WorkerDies, Step, WorkerType
<1>8. \/ worker'[w].pc \notin {"record", "publish", "report", "finish"}
      \/ Kept(AssetOf(w))'
  <2>1. ASSUME worker[w].pc # "idle", NEW p, worker' = [worker EXCEPT ![w].pc = p], KeptNext(a)
        PROVE  Kept(AssetOf(w))'
    <3>1. worker'[w].job = j BY <1>1, <2>1 DEF WorkerType, Worker
    <3>2. AssetOf(w)' = a BY <1>3, <1>6, <2>1, <3>1 DEF AssetOf
    <3> QED BY <2>1, <3>2 DEF Kept, KeptNext
  <2>2. CASE RecordChunks(w) \/ Publish(w) \/ Report(w)
    <3>1. KeptNext(a)
      BY <1>2, <1>3, <1>4, <2>2 DEF RecordChunks, Publish, Report, Step, Kept, KeptNext
    <3> QED BY <2>1, <2>2, <3>1 DEF RecordChunks, Publish, Report, Step
  <2>3. CASE IndexContent(w)
    <3>1. KeptNext(a) BY <2>3 DEF IndexContent, Kept, KeptNext
    <3> QED BY <2>1, <2>3, <3>1 DEF IndexContent, Step
  <2>4. CASE LoadAsset(w)
    <3>1. PICK p \in {"failJob", "finish", "extract"}, h \in BOOLEAN :
            /\ worker' = [worker EXCEPT ![w].hasVersion = h, ![w].pc = p]
            /\ p = "finish" => asset[a].status = "indexed"
      BY <2>4 DEF LoadAsset
    <3>2. worker'[w].pc = p /\ worker'[w].job = j
      BY <1>1, <3>1 DEF WorkerType, Worker
    <3>3. CASE p = "finish"
      <4>1. Kept(a)
        BY <1>3, <2>4, <3>1, <3>3 DEF LoadAsset, SilentInv, IndexedKept
      <4>2. AssetOf(w)' = a BY <1>3, <1>6, <2>4, <3>2 DEF LoadAsset, AssetOf
      <4> QED BY <2>4, <4>1, <4>2 DEF LoadAsset, Kept, KeptNext
    <3> QED BY <3>2, <3>3
  <2>5. CASE NextQueued(w)
    BY <1>1, <2>5 DEF NextQueued, WorkerType, Worker
  <2> QED BY <1>1, <2>2, <2>3, <2>4, <2>5
          DEF WorkerStep, ClaimJob, StartExtracting, FetchBlob, StartIndexing, Finish,
              FailAsset, FailJob, Raise, WorkerDies, Step, WorkerType, Worker
<1>9. IndexedKept' /\ DoneKept' BY <1>2, <1>5, <1>6, KeptByRows
<1>10. WorkerKept' BY <1>2, <1>6, <1>7, <1>8, KeptByWorkers
<1> QED BY <1>9, <1>10

(* No silent success (ingestion/worker.py, processor.py): in every reachable *)
(* state, whatever requests and workers do to one asset at the same time,    *)
(* dying or failing at any point, a done job's asset and an asset shown as   *)
(* indexed have been indexed, unless a purge removed them afterwards.        *)
THEOREM NoSilentSuccess == Spec => []NothingSilentlyDone
<1>1. Init => IndexedKept /\ DoneKept /\ WorkerKept
  BY DEF Init, IndexedKept, DoneKept, WorkerKept
<1>2. SilentInv /\ TypeLinks' /\ [Next]_vars => SilentInv'
  <2> SUFFICES ASSUME SilentInv, TypeLinks', [Next]_vars
               PROVE  IndexedKept' /\ DoneKept' /\ WorkerKept'
    BY DEF SilentInv
  <2>1. CASE UNCHANGED vars
    BY <2>1 DEF SilentInv, IndexedKept, DoneKept, WorkerKept, Kept, AssetOf, vars
  <2> QED BY <2>1, RequestKeeps, WorkerKeeps DEF Next
<1>3. SilentInv => NothingSilentlyDone
  BY DEF SilentInv, IndexedKept, DoneKept, Kept, NothingSilentlyDone
<1>4. Spec => []TypeLinks BY IngestionTyping
<1>5. TypeLinks /\ IndexedKept /\ DoneKept /\ WorkerKept => SilentInv BY DEF SilentInv
<1> QED BY <1>1, <1>2, <1>3, <1>4, <1>5, PTL DEF Spec

=============================================================================
