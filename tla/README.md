# AEAM: a verification development

AEAM (`src/aeam`) is an autonomous enterprise analyst. It ingests documents and
datasets, synchronizes them from other systems, watches metrics, investigates what it
detects, and runs business actions, some of them only after people have approved them.
It runs as several application instances (a web server, a monitor thread and an
ingestion worker in each) over one PostgreSQL, one Redis, one Qdrant and one blob store.
Almost nothing in it takes a lock or opens a transaction of more than one statement, so
its correctness rests on the order in which independent steps may happen, and, around
them, on algorithms with many boundaries: detectors, forecasts, retrieval, plans and the
explanations made of them. This directory holds TLA+ models of both, TLC runs over small
instances, and proofs that hold for all instances.

`PROJECT.json` lists components, runs, mutants, the lines each definition stands for,
hazards and theorems. `tlc -config X.cfg M` checks a run, `tlapm M.tla` the proofs.

## 1. Inventory

| Part | State it keeps | Operations | Who else touches that state |
|---|---|---|---|
| Action agent (`agents/action`, `core/idempotency.py`) | circuit breaker per action type, in the process; idempotency records, in Redis | `execute` | every thread of the process (breakers), every instance (records) |
| Human review (`governance/human_review.py`, `api/review.py`) | `incident_approvals`, `review_verdicts` | `submit_verdict`, `record_pending_approval`, execution of what was withheld | review requests on any instance; the orchestrator creates the rows |
| Ingestion (`ingestion/*`, `api/ingest.py`, delete and re-index in `api/knowledge.py`) | `ingestion_jobs`, `documents`, `datasets`, their versions, blobs, vectors | upload, cancel, retry, re-index, delete, purge; the worker's cycle and two processors | web threads, one worker per instance, syncs |
| Monitor, deduplication, event bus, manual trigger | deduplication keys, in Redis | `process_kpi`, `is_duplicate`, `publish`, `POST /trigger` | every instance |
| Orchestrator (`agents/orchestrator`) | state machine and short-term memory of one incident; the `incidents` row | `handle_event`, `_investigate`, `_evaluate`, `_finalize_incident` | one thread per incident; review reads the row |
| Connector sync (`connectors/sync.py`) | `sources.last_synced_at` (the cursor), `connector_artifacts` | `sync_source`, `sync_all` | every instance; upstream changes by itself |
| Learning ledger (`agents/learning`, `api/learning.py`) | `calibration_models`, `learning_proposals` | recalibrate, activate, restore, propose, decide | reviewers on any instance |
| Curation (`/knowledge/curate`, policy agent, `memory/enterprise_memory.py`) | policy status, `compiled_rules`, an incident's points in the vector store; the overrides an instance started with | set status, propose, decide and retire rules, correct, expunge, recall | request threads of every instance |
| Business graph (`intelligence/business_graph.py`) | `graph_nodes`, `graph_edges` | build (derive, upsert, sweep), walk, search | builds of any instance, investigations read |
| Access (`middleware`, `security`) | rate counters in Redis, two audit trails | one request from arrival to record | every instance |
| LLM service | a breaker in the process | `generate` | every thread that queries |
| Action handlers | none; the provider's side | one delivery per attempt | the action agent |
| Connectors (`connectors/base.py`, `registry.py`, `health.py`) | the object: client, credential, kept error | authenticate, fetch, close, report | monitor, syncs, health reports |
| Composition root (`main.py`) | the process: components, roster, threads | create, start up, serve, shut down | monitor and worker threads from their start on |
| Detection, characterization, forecasting, calibration | none between calls | one answer per call | monitor and orchestrator |
| Policies, retrieval, grounded causes | none between calls (the attempts of one incident) | one answer per call | orchestrator, KPI rules |
| Plan, explanation, evaluation, replay, observability, supervisor, health | none: they read records | one answer per call | people, through the API |

How they interact. The monitor thread detects an anomaly, claims its key, and publishes;
`EventBus.publish` runs the orchestrator **on the same thread**. The orchestrator asks
the evidence agents in turn, decides, plans, calls the action agent for each step of the
runbook and withholds the gated ones, writing the approval record that a review request,
in some instance, later reads, and whose steps that request runs through its own
instance's action agent. Uploads and connector syncs submit content to ingestion, which
the workers index, so that later investigations can cite it. Verdicts of people
flow back as calibrations (ledger), thresholds (curation, read when an instance starts)
and corrected memories; the business graph is derived from datasets, policies and
incidents and read by the next investigation. Everything reached over HTTP passes
access first, everything said by the language model the LLM service.

What makes each part hard, and what has to be true of it:

* **Action agent.** Duplicate check, external effect and record are three separate
  calls; timeouts are retried; Redis errors are answered "not a duplicate"; breakers are
  shared by threads without a lock. *Effects are not repeated without a nameable cause;
  the breaker opens at its threshold whatever the order of late outcomes.*
* **Human review.** `submit_verdict` decides on the row as it first read it.
  *As many people as tiers, each tier signed, ended chains stay ended, a final sign-off
  settles the chain, the report of what ran is true.*
* **Ingestion.** Workers, cancels, retries, re-indexings and deletions act on the same
  rows, each in several statements, and any of them may die between two of these.
  *Nothing is reported indexed that is not; queued jobs end; no upload is swallowed.*
* **Investigation.** Several instances see the same anomaly; passes loop; any stage may
  fail; the gate is decided by services that may be down. *An hour of a metric is
  investigated once; investigations end; gated steps wait; the record accounts for every
  step; each stage speaks once; a grounded cause is not replaced by a weaker one.*
* **Connector sync.** The cursor is read at the beginning and written at the end of a
  run that overlaps with other runs and with edits upstream. *What makes a later run skip
  an artifact stands for content that was ingested; content is passed over for known
  reasons only.*
* **Learning ledger, curation.** A look and the write it justifies are two statements; a
  correction is an expunging and a writing; a restored version is counted on from. *No
  verdict is replaced by one asked for later; a calibration that was served undisturbed
  applies, whatever went wrong before it; what was withdrawn from memory never returns.*
* **Business graph.** A build sweeps what is older than its own start, while each of its
  sources may have failed and another build may be at work. *A build that was alone leaves
  what it read, and puts right what races left; in a race the newest build keeps its rows;
  without races no edge leads nowhere; a walk that was cut short says so.*
* **Access, LLM service, handlers, connectors.** Tables decided by their first match;
  fields shared without a lock; an accepted request whose answer is lost; errors kept
  beyond the state they were made in. *The most specific entry decides and the audit names
  who was verified; three counted failures find the breaker open; what is reported is what
  happened; no message shows a credential that is long enough to be scrubbed, and healthy means
  that the report itself reached the source.*
* **Composition.** Two threads run before what they need is built. *Outside development
  nothing starts without a key; once serving, every event is heard; what is shown as
  active is active.*
* **Algorithms.** Boundaries, windows, orders of lists, missing values. *What each answer
  promises, below in section 3.*

The hazards, each at its line, are in `PROJECT.json`.

## 2. Modules

| Module | Models | Extends / instantiates |
|---|---|---|
| `ActionAgent` | `execute()` step by step, breakers, idempotency records | - |
| `ApprovalChain` | abstract: what an approval chain promises | - |
| `HumanReview` | concurrent verdict requests, and the withheld steps through the agent | `ActionAgent` (composition), `ApprovalChain` (refinement) |
| `Ingestion` | uploads, cancels, retries, re-indexing, deletion, workers and processors | - |
| `Investigation` | detection, deduplication, the whole life of an incident, its approval record | - |
| `ConnectorSync` | runs of one connector by several instances, upstream edits | - |
| `CalibrationLedger`, `Curation`, `BusinessGraph` | the shared tables of learning, curation and the graph, as requests of several instances | - |
| `Access`, `LLMService`, `Delivery`, `Connectors` | the edges of the system: requests, language model, providers, sources | - |
| `Composition` | the life of a process | - |
| `Basics` | fractions, orders and lists that the algorithms share | - |
| `Calibration`, `Detection`, `Characterization`, `Forecasting` | numeric algorithms, in fractions: exact ones, or rounded like floats in `Detection` | `Basics`; `Characterization` extends `Detection` |
| `PolicyRules`, `Retrieval`, `GroundedCauses`, `GraphTraversal` | algorithms on texts, candidates and graphs | `Basics` |
| `Explanation`, `Replay`, `Observability`, `Supervisor` | algorithms on records, the health endpoint among them | `Basics` (`Explanation`, `Observability`, `Supervisor`) |
| `Calls` | one call of an algorithm and its answer, as a behaviour | - |
| `DetectionChecks`, `KnowledgeChecks`, `PlatformChecks` | which inputs are called, and what must be true of the answers | `Calls`, the algorithms |
| `Services` | what the services promise together | the seven modules of services and `BusinessGraph` |
| `MC*` | constants of the small instances; `MCPlatform` runs all services and algorithms, one at a time | the modules checked |
| `*Proofs` | theorems; `ServicesProofs` about the services of `Services`, `ReviewAgentProofs` about `HumanReview` with its agent, `AnalysisProofs` about the answers of `KnowledgeChecks`, `RecordProofs` about those of `PlatformChecks` | the module proved about, `TLAPS` |

Each action stands for one step that other actors can see: one database or Redis
statement, one external effect, or a stretch of code between two of them that touches
only the thread's own state. `pc` fields name where a thread is. Operators whose comment
begins with "Mutant" are plausible mistakes; no action uses them. They show that a
property can fail: with the operator named in `PROJECT.json` replaced by its mutant, the
run finds the property violated.

**ActionAgent.** `Admit`/`Refuse` ask the breaker, `Duplicate`/`Proceed` the
idempotency record, `AttemptSucceeds`/`AttemptInvalid`/`AttemptRaises` are the handler's
outcomes (`lost`: the effect happened and the call raised), `Settle` informs the
breaker, `Store` records the result *whatever it is*. The environment lets a cooldown
elapse, Redis fail and return, a record expire, and a process restart with fresh
breakers. `delivered` counts effects and `cause` collects why one may happen again;
both are history and no guard reads them.

**HumanReview.** A request reads the row (`ReadApproval`), looks for its principal's
earlier approval (`FindAdvancing`), appends its verdict (`RecordVerdict`) and acts on what
it read: `SaveRejection`, `NoteOnly`, `AdvanceTier`, or, at the last tier, it walks through
the pending steps (`CallAgent`, the steps of `ActionAgent`, `Collect`, `SkipUnregistered`)
and saves the row (`SaveApproval`). `DatabaseError` and `Restart` end requests half-way.
"noted" stands for `changes_requested` and `escalated`, which differ in text only.

**Ingestion.** One action per statement of `submit`, `cancel_job`, `retry_job`,
`reindex_*`, `delete_*`, of the worker's cycle and of the two processors. `served` says
which assets have their vectors in Qdrant or their schema stored. Content is identified by
its hash. Text extraction, chunking and schema inference are pure, and appear as
success or failure (`Raise`).

**Investigation.** A thread's `run` record is its short-term memory and state machine.
`Investigate` to `Evaluate` are one pass; `Finalize` plans and decides the gate; `Withhold`,
`RunStep`, `SkipEmail` walk through the runbook; `Persist` and `RecordApproval` write what
remains. A RAG or KPI pass is abstracted to what the following code tells apart: is there
a cause, how much evidence (up to three), is the confidence above 0.8, does it ask for
review. `Release` is the end of the approval chain, whose details are in `HumanReview`. An
event's identity is one here; the code gives the stored incident a second one. The clock
is not modelled: threads may lag behind each other by any amount, so which hour an event
belongs to (`MetricHours`) is a free choice, and deduplication keys, which outlive their
hour, never go away.

**ConnectorSync.** `Begin` reads the cursor, `List` takes the listing and cuts it at the
cap, `Skip`/`Take`/`Fetch`/`Submit`/`Refuse` are the three exits of `_sync_artifact`,
`Look` and `Write` the two statements of `record_ingested`, `Close` and `Advance` the
verdict and the cursor. Content is identified by the time it was written, so content that
returns to an earlier state is outside the model. `ArtifactFails`, `ListFails` and `Abort`
are failures; `Edit` is somebody working upstream. `passed` is history: which content
a cursor passed over for which reason (`Excuses`).

**CalibrationLedger.** A request of an instance is one at a time (its handlers never
await) and goes on statement by statement: `Recalibrate` reads the active version and
inserts the next, activation and restoring supersede the active rows and then raise the
chosen one, a decision looks for an earlier verdict and then writes. `inForce` remembers what
was adopted or restored last, `ledgerFault` whether requests ever overlapped or a statement
failed, `disturbed` whether that happened to the request under way, and `served` whether the
last one ended undisturbed, and as the only row of its version where none but one was active.

**Curation.** Threads read and write in separate steps: status of policies; proposing,
deciding and retiring rules; correcting, expunging and recalling an incident's memory, which
may hold several points. `HostStarts` fixes an instance's overrides. `crossed` names the rules
and incidents two requests worked on at once; for these the properties promise less. `gone`
tells of an incident without memory whether that was expunged or lost in a failed correction.

**BusinessGraph.** A build notes its time, reads three sources of which each may fail (and
the datasets' without the table of their services, `WithoutServices`), and derives from each
the nodes it names and one observation for each time it puts an edge (`Derivation`). The edges
are the sums of their observations (`PutEdges`). They are upserted one by one, nodes before edges;
then edges and nodes older than the build are swept, those of a source that could not be read
among them. `alone`, `overlapped`, `lastBuild` and `restamped` (the newest build's rows that an
older one wrote over, with its older time) are history.

**Access.** `Arrives`, token verification with its claims, the permission table in the
code's order, the rate counter's GET and SETEX as two steps at a Redis that may fail, the
handler's answer, and the file and database audit records. A path is its text, cut wherever an
entry of the table may end: `startswith` is `IsPrefix` of the pieces, which may end within a
segment (`/learnings` begins with `/learning`).

**LLMService, Delivery, Connectors, Composition.** Queries with their tries, answers without a
choice among them, and the shared breaker, each of whose fields is read and written in a step of
its own; handlers as a row of stages between "parameters" and the provider's answer, of which
one may be lost; connector objects with the error they keep, the monitor's and one other object,
the ledger row of the newest run (running, partial and failed, here or on another instance), and
the report; of a message only whether it shows a credential, and whether one of at least six
characters, which alone are scrubbed; the sixteen steps of the lifespan with the failures each
isolates.

**Algorithms** are operators from inputs to what the functions return. Where a test for exactly
zero or for a limit turns on it (`Detection`), numbers are floats of `Precision` binary digits,
rounded after each operation, and what a detector hands on is rounded again, to multiples of
`Unit` and `1 / ZUnits`; elsewhere they are exact fractions or hundredths. Texts are what the
code finds in them (a number, markers, tokens, a length). Embeddings, the cross-encoder, Prophet
and the language model are inputs, among them the failures the code catches. `Calls` turns an
operator into a behaviour: `Ask` chooses an input, one action per operator gives the answer, and
an invariant speaks of both.

## 3. Runs

| Run | Question | Bounds |
|---|---|---|
| `agent` | Can an effect happen twice without cause, can overlapping calls leave a breaker closed that should be open? | 3 threads sharing a breaker, 1 on another host, one key, 2 attempts, threshold 2, one fault |
| `agent_truth` (violated) | Does ALREADY_EXECUTED mean executed? | 1 thread, 2 calls |
| `review` | What holds of concurrent verdicts? | 3 requests, 2 people, 2 tiers, 2 hosts, database errors, one fault |
| `review_serial` | Do verdicts served one by one implement `ApprovalChain`? | 3 requests, 3 steps of which one is unknown to the agent, 2 attempts |
| `review_reject` (violated) | Is a rejection final? | 2 requests, 1 tier, no faults |
| `ingest` | Is anything reported indexed that is not? | 3 requests of any kind, 1 worker, a document and a dataset, 2 assets, 2 jobs, one death |
| `ingest_live` | Do jobs end, do uploads arrive? | the same with a dataset, a request that may die |
| `ingest_lost` (violated) | Is a job resumed after a worker's restart? | 2 uploads, 1 worker that dies |
| `invest` | All of `Investigation`'s properties | 2 monitors and a trigger thread, 2 events in one hour of a metric, depth 3, a gated and a notification step, every outage, one death |
| `invest_outage` (violated) | Is an incident recorded when the LLM is down? | 2 monitors, LLM outage only |
| `sync` | All of `ConnectorSync`'s properties | 2 instances, an artifact with and one without a version, 4 kinds of connector, one edit, one fault |
| `platform` | What the services and the algorithms promise | one area at a time: 2 builders, 3 builds, 2 changes of evidence, one dataset with a service (policies, incidents and correlated metrics in the calls of the derivation); 2 ledger instances, 2 proposals, 5 requests; 2 curating threads on 2 hosts, 2 policies, 2 rules, 1 incident, 4 requests; 2 instances at the gate, 8 paths, limit 1, 2 requests; 2 threads, 5 queries; every kind of action with missing, blank, fitting and too long texts; 8 kinds of connector; 1 event and 2 jobs around start-up and shutdown; the inputs the `...Checks` modules list |

`platform` is a sum, not a product: the services share no state with each other (each keeps
tables and fields of its own), so `Init` chooses one area and only that one runs; the
algorithms are the area `analysis`. Its properties are conjunctions, one per area:

| Property | Conjuncts |
|---|---|
| `GraphSound` | `GraphIsEvidence`: a build that was alone leaves what it read, whatever races and failures left before it. `NewestKeepsItsWork`: in every race the newest build loses only rows that an older one wrote over. `EdgesHaveEnds`, whatever fails in a build or a sweep, while builds do not overlap |
| `LastDecisionApplies` | `LastAdoptedApplies`: a recalibration served undisturbed applies until the next is asked for, whatever overlapped, failed or was numbered twice before it (a restored one if its version is unique and no two were active), and without all these the last one is alone. `MemoryIsAsCurated`: a recall finds what the last curation left, unless two met on the incident; what was withdrawn does not return |
| `DecidedOnce` | `LateVerdictRefused`, `RuleDecidedOnce`: action properties, what was decided is replaced by no request that was asked for later |
| `AccessSound` | `MostSpecificRuleDecides`: the longest entry that matches, whatever entry comes first. `AuditNamesThePrincipal` |
| `OutsideCallsSound` | `ReportedAsDone`, `GivenUpForGood` (deliveries). `BreakerFollowsFailures`: the third failure since an answer or a closing opens the breaker when queries do not overlap, and three counted ones when they do |
| `ConnectorsSound` | `NothingLeaks` (credentials of six characters and more). `HealthIsEarned`: reached by this report, newest ended run not failed, a success not known to be old. `RowsAreAuthenticated` |
| `CompositionSound` | `KeyOutsideDevelopment`, `NothingShownThatIsNot`, `HeardOnceServing`, `OneJobAfterStop` |
| `CalibrationSound` | `NewestVerdictCounts`; `FitIsBest`: pooling equals the min-max formula of isotonic regression; `AdoptableIsHonest`: measured on rows it was not fitted on |
| `DetectionSound` | `WorseStaysBreached`. `CycleIsNoAlarm`: of a metric that repeats its cycle, what differs by more than rounding is an anomaly and nothing else. `ShiftEitherWay`. `EveryAlarmSignalled`, but a statistical one within the rounding of its limits |
| `ForecastSound` | `SustainedOnOneSide`, `AgreementNeverLowers`, `PreparedWithinKnown`, `NoLookahead`: training rows are older than held-out ones, which reach them only by filling gaps and cutting extremes before the split. `SelectionIsFair` |
| `RetrievalSound` | `ChunksCoverText`: each sentence in one chunk, in order, and a repeated tail no longer than the overlap, the rest of a word and a space. `AgreedOrderKept`, `DiverseAndFull`, `RelaxedOnlyWhenEmpty`, `CausesAreGrounded` |
| `KnowledgeSound` | `CollisionsForeseen`: the validator reports a collision exactly where the order of adoption decides. `NamedBeforeSimilar`. `ObservationsAddUp`: an edge of the graph counts each of its observations, a pair of metrics the incidents that measured it. `ReachIsHonest`: a walk that does not say it was cut short missed nothing |
| `PlatformSound` | `HealthIsFair`, `SummaryIsFair` (what was not measured weighs nothing), `MeshReportSound` |
| `RecordSound` | `ReplayTellsTheRecord` however it is paged, `TimelineAddsUp`, `ExplanationHolds` (every recommendation traced to the item it was made from) |

The modules hold a `Mutant` operator for these conjuncts too; `PROJECT.json` lists one per
property.

Why the bounds are enough to be interesting: every property needs at most two actors to
interfere with a third step, and each run has that many and a failure besides. Three
callers on one breaker are needed for a trial call to overlap with a late failure and a
late success. Two tiers are needed for a tier to be skipped, three requests for a late one
to meet a finished chain. Depth 3 is where the LLM is first asked, and two events of one
hour are a duplicate. Two assets and two jobs let a re-upload meet what a deletion left.
Two artifacts let one fail, or be cut, while the other makes the run a partial success.
One more event, hour or instant in `invest` or `sync` is more than a run of a few
minutes explores; the theorems below cover them for the properties they state. In
`platform` three builds are one left running, one that races with it and one that puts right
what they left; two requests of two instances are what a lost update needs, and five give
a version number twice and restore it; five queries open the breaker, let it cool
and close it; a walk needs a graph with a cycle, two paths to one node and a budget
each of whose limits comes first somewhere. The algorithms' inputs are chosen around
every boundary of their code, at, below and above it, with the constants scaled down (a
cycle of two, folds of two rows, an overlap of two, extremes cut at the quarters, floats of four
binary digits, limits rounded to even numbers and scores to halves) where the code compares sizes
and does not depend on the number itself. Bounds
(`Max*`) appear in guards only. `CHECK_DEADLOCK FALSE` is set because each system may
come to rest: requests answered, events used up, nothing to poll.

What the violated runs show, and the sentence each contradicts, is under `findings`:

1. `agent_truth`: a FAILED result is stored under the idempotency key, and for 24 hours
   the same action is answered ALREADY_EXECUTED without having happened.
2. `review_reject`: a rejection saved while a final approval is executing is overwritten,
   and the withheld steps run.
3. `ingest_lost`: a worker that dies with a claimed job leaves it claimed for ever, and
   re-uploads of the same bytes are answered with that job.
4. `invest_outage`: an LLM that raises inside `decide()` ends the investigation with
   neither a decision nor a record.

Where the code and its documents part in the other modules, the sentence is stated as
an operator beside the properties. No run checks these; TLC refutes each as the only
invariant (the last as the only property, with one instance and a cap of 1). The properties
that hold on the same ground say under which condition, and this list says what lies outside it:

* `BuildsKeepEachOthersWork` (`BusinessGraph`): "two builds racing can never delete each other's
  work" (`repositories.py:554-557`). The sweep of the newer build deletes the rows that carry
  the older one's time, whether they were written before it or meanwhile; edges that the older
  one writes afterwards can outlive the nodes that were swept.
* `RestoredApplies`, `OneActiveAtATime` (`CalibrationLedger`): a version number given twice is
  restored over its namesake, and of two active rows which an overlap or a failure left only the
  newer is superseded (`learning_agent.py:285-290`,
  `migrations/versions/0007_learning_calibration.py:19`).
* `CorrectionCanBeRerun` (`Curation`): a correction that failed after withdrawing the entry is
  to be run again (`enterprise_memory.py:510-514`), and is refused, for the entry is gone
  (`:454-459`).
* `ThirdFailureOpens` (`LLMService`): an answer without a choice sets the failure count back
  before it fails the query (`llm_service.py:169-173`), so that queries that fail in this way
  never open the breaker.
* `NoCredentialShown` (`Connectors`): a secret of fewer than six characters is not removed from
  messages (`connectors/base.py:119`, `:144`), though "supplied secret value removed" (`:124`).
* `UnreadableIsNotHealthy` (`Connectors`): a last success whose time cannot be read counts as
  recent (`connectors/health.py:245-250`, `:322`), against `:25` and `:318-320`.
* `ConnectorRestIsForAdmins` (`Access`): what lies under `/connectors` beside the listed reads
  is said to need `admin:config` (`security_middleware.py:194-197`); its entry (`:200`) asks for
  less.
* `RepeatedCycleIsQuiet` (`DetectionChecks`): a cycle repeated exactly can be an anomaly, for
  the level plus a phase's difference, rounded, need not be the phase's value
  (`advanced_detectors.py:429-461`, against `:352-358`).
* `AnyAlarmIsSignalled` (`DetectionChecks`): a statistical anomaly within the rounding of its
  limits (`statistical_detector.py:76-79`) is told by no signal (`monitor_agent.py:666-682`).
* `NeverSeen` (`DetectionChecks`): a backtest measures "a model against data it never saw"
  (`backtesting.py:17`, `:178`), but gaps are filled and extremes cut over all rows, the
  held-out ones included, before they are split (`forecast_agent.py:269`, `:289`).
* `OverlapIsTrimmed`, `ChunksEndPastTheirSize` (`KnowledgeChecks`): the repeated tail is not "up
  to overlap characters" but goes back to where a word begins (`chunking.py:252-254`), and is
  not counted in the chunk's size (`:38-40`, `:283-296`).

* `HealthShowsRedis` (`PlatformChecks`): `main.py:1565` ignores what `ping` returns, and
  `redis_client.py:369-384` answers False instead of raising; `main.py:1282-1283` lets the
  health endpoint "surface degraded state".
* `SameReadingAsHealth`: the supervisor (`supervisor_agent.py:84-86`, `:419`) knows one
  threshold, the health endpoint (`main.py:1581-1601`) stretches it to the poll interval.
* `IdleSourceIsReported`: the supervisor asks for `consulted` (`supervisor_agent.py:501`,
  `:620`), the summary says `consulted_count` (`observability.py:254`).
* `SilentSourcesAdviseNothing`: `execution_planning.py:283-292` recommends from a finding
  that `:353` and `:439` call empty.
* `QuietFailureShows` (`Connectors`): a source left out by `connectors/registry.py:230`
  need not be unhealthy in the report.
* `WindowIsLimited` (`Access`): the rate limiter stores an int where `setex` takes text, so
  no count is kept; and the counter is read and rewritten in two calls.
* `AuditTellsTheStatus` (`Access`): a request refused with 401 is audited as 200
  (`security_middleware.py:603`).
* `LargeCorpusArrives` (`ConnectorSync`): the cursor moves past the artifacts that the cap cut
  off (`sync.py:414`), although `sync.py:93-95` and `settings.py:462-463` say that the next
  run continues.

Smaller ones are followed by the models and stated nowhere: a source's
`consulted` is always true in the explanation (`explainability.py:358`, `:368`, `:398`); a webhook
answered with an error counts as done (`webhook_actions.py:252`); the KPI agent and the monitor
mean different windows by "sustained" (`kpi_agent.py:411`).

Fairness. A thread that has started goes on (`WF` of `RequestStep`, `ThreadStep`, `Step`):
these are synchronous Python functions without waits for one another. The worker's poll
loop never ends (`WF` of `WorkerStep`). Operators or a scheduler keep asking for syncs,
which `EventuallyCurrent` needs. Nobody is obliged to send a verdict, a request or an event,
faults are never fair, and no strong fairness is assumed.

## 4. Proofs

All theorems hold for every value of the constants that the named assumptions of the
modules allow; these say what settings validation says (limits are positive), and
how runbooks are ordered, and for the algorithms what form a call's inputs have. Most are about the
modules where concurrent steps meet; `AnalysisProofs` and `RecordProofs` are about algorithms.

* `ActionAgentProofs`: `AgentTyping`, `BreakerThreshold`, `AtMostOnce`. The last needs
  `RepeatInv`: as long as no cause is on record for a key, at most one call is past its check,
  and no effect has happened unless that call made it or its result is stored.
* `ReviewAgentProofs`: `PeopleRule`, `TierRule`, `EndIsEnd`. `ReviewInv` ties each request to
  the verdicts below the tier it read: if it was recorded at tier t, then t different people
  signed tiers 0 to t-1. The counting of people uses the library's facts on finite
  cardinalities. In the same module, `ReviewTyping`; `ReviewUsesAgent`, that the review, seen
  from the agent, behaves as the agent's own specification (a request calls it at most once per
  step, so the bound on calls is met), from which `ReviewRepeats` carries over; `HonestReport`.
* `IngestionProofs`: `IngestionTyping` (types together with: every reference points at a row
  that was created), `IngestionTypeOK`, `NoSilentSuccess`, by an invariant that says of each
  worker position whether the asset's content is indexed or was purged by now.
* `InvestigationProofs`: `InvestigationTyped`, `OneInvestigation`, `GatedStepsWait`,
  `StepsAccounted`. `Owned` (a busy thread's event is its own and has the fate its position
  implies) is the heart: from it a thread's books are the incident's books. `Windows` says that
  an automatic event past its claim has its key in Redis and is alone with it; `Safe` relates
  called, executed, skipped and pending steps, in the thread, the record and the approval.
* `ConnectorSyncProofs`: `SyncTyping`, `RowsAreIngested`, `NothingPassedOverSilently`. `SyncInv`
  says that everything written up to the cursor, and up to the start of any run in progress, was
  ingested or is excused; that what a run has listed is dealt with, still to do, failed or cut;
  and that signatures, downloaded bytes and recorded hashes are no newer than upstream, so that
  an equal signature means that upstream did not move on since. The excuses are `passed`, a
  history variable no guard reads.
* `ServicesProofs`: `BreakerIsTrue`, `DeliveriesAreTold`, `OutsideCallsAreTold`,
  `ProcessIsSound`, `ConnectorsAreSound`, `AccessIsSound`. Each service has an invariant of its
  own, inductive for its steps. `OneByOne`: as long as queries do not overlap, the breaker's
  counter is the number of queries that failed since a try was last answered or the breaker
  closed; a part that needs no such condition says that a count of three finds the breaker open,
  or a query on the point of opening it or of setting the count back. `UnderWay`: at each stage
  of a delivery, what the provider did and what is about to be reported agree.
  `CompositionInvariant`: what is shown, subscribed and started implies what was built before.
  `ConnectorInvariant`: a kept error was written without a credential of six characters, and a
  healthy or connected object was reached. `AccessInvariant` is small, a request beyond the
  check was permitted; the weight lies on `FirstIsLongest`, about the permission table: of two
  entries with a common path the longer one comes first, so the first entry that matches is the
  most specific one, for every path. In the same module, what people decide and what evidence
  shows: `LastAdoptedStays`, `LateVerdicts`, `MemoryStaysCurated`, `RulesDecidedOnce`, their
  combinations `LastDecisionsApply` and `DecisionsStand`, and `GraphIsSound`. `LedgerInvariant`
  joins types; that a verdict written late was found late; and that, as long as nothing
  overlapped or failed and versions are unique, one request at a time works on the rows, what it
  read is still what holds, and the version adopted last is alone in force whenever it is not
  just replacing it. `ServedInvariant` needs none of that history: of a request that is
  undisturbed it says what it found (`AsFound`), that the number it is to give is above that of
  every active row, or that nothing else is active, so that what it raises applies whatever was
  left before it. `CurationInvariant` joins types; that only one thread works on an incident or
  rule that is not `crossed`; that a request holds the rule as it still is; that approved rules
  are noted; and that points are as the curation under way left them (`WithdrawnStays` covers
  what is withdrawn, also where requests cross). `GraphInvariant` says of a build that is
  `alone` which rows are its own: exactly those it has written are as young as its start
  (`HasWritten`), so the sweep takes the others and nothing else. `RaceInvariant` says of the
  newest build, alone or not, that what it wrote still carries its time unless it is
  `restamped`, for no sweep takes rows of the newest time (`YoungRowsStay`). That edges have
  ends rests on `DerivedEnds`, a lemma about each derivation: an edge that was observed has both
  its ends among the nodes found with it.
* `AnalysisProofs`: `RetrievalIsSound` and `KnowledgeIsSound`, about every call that
  `KnowledgeInputsAssumption` allows: any documents, rankings, candidates, policies, graphs and
  incidents of the form the code reads. The model's folds and sums are recursive inside the
  community modules. That each such function exists and goes through one step per entry
  (`FoldSteps`, `SumExists`) is proved by induction over the naturals as a statement about sets
  (`UpTo`, from the well-foundedness of `<`): a set that holds 0 and the successor of each
  member below a bound holds all up to the bound. Then each algorithm has an invariant of its
  run. Of the chunker: the chunks done and the one begun, put end to end, are the sentences so
  far, none is over its size but by its tail, and each tail comes from the chunk before it. Of
  rank fusion: a score is the sum of at most two shares, and who is above in both lists has the
  larger of each. Of the diversity filter: what is kept has no near-duplicates, and what is not
  is set aside or repeats something kept. Of an incident's attempts: each records the strategy
  it used, and the strategies used so far are the first ones. Of overrides: the rule adopted
  last decides, so two orders differ exactly if a threshold is set twice with different values.
  Of the walk: every node met has a path of strong edges from the origin, as long as its depth,
  and unless a budget cut the walk short whatever an edge from an earlier hop leads to has been
  met. Of derivation: the observations of one edge, type by type, are one for each entry that
  names its ends, so their number and sum are a count of facts, and the mean confidence lies
  between the weakest measurement and the strongest.
* `RecordProofs`: `RecordIsSound`, for every stored record and every list of findings of the
  form that `PlatformInputsAssumption` states. Of the replay: pages are slices of one list that
  begin where the one before ended (`Offsets`), so they put together to it, whatever their
  length; and the state after a finding is, field by field, what the newest finding so far that
  speaks of it says. Of the timeline: the running total counts each stage where it occurs last,
  so at the end it is the sum over the stages that occurred. Of the plan: what is gathered is in
  order of priority already, zone by zone (`Gathers`), so the stable sort leaves it, and the
  n-th recommendation of a source comes from that source's n-th item, which is how the decision
  graph finds it (`TracedBack`); whoever advises has a signal, the season and the runbook aside
  (`AdvisersSpoke`). Without what contradicts, every reading but the conflicts is the same
  (`CalmSame`), so every part of the score is, and a rounded mean less a larger penalty is no
  larger (`FewerScoreMore`, which rests on integer division keeping order).

Of the modules listed before, two more results. `InvestigationProofs` has `StagesSpeakOnce`,
`RaisesInDecide` and `CausesImprove`, all from the invariant `Course`: which stages have spoken
is determined by where the thread is, the state machine's state by the position and the pass,
and a grounded cause stays with the incident once it is there. `ReviewAgentProofs` has
`PromiseKept`, the refinement: every step of the serial review maps to a step of `ApprovalChain`
or to a stutter. Its hypotheses are those of the run `review_serial`: replies are not lost
(`LostReplies = FALSE`) and requests are served one by one by a process that neither dies nor
loses its database (`SerialSpec`), the specification whose refinement that run checks as a
property. `SerialInv`, its inductive invariant, says what the request under way holds of the
incident's record and of the agent.

Model-checked only, and why:

* Liveness (`LastSignOffSettles`, `JobsSettle`, `UploadsArrive`, `InvestigationEnds`,
  `EventuallyCurrent`): the prover does not reach fairness and ENABLED.
* The remaining algorithms (`CalibrationSound`, `DetectionSound`, `ForecastSound`,
  `PlatformSound`): statistics over lists of numbers and records. Each needs the induction of
  `AnalysisProofs` once more, and the statistics a theory of medians and sorted lists beside it.

## 5. Not modelled, and why

* The report agent: layout of one record as text, HTML and PDF. The planning agent: a span
  and a metric around the engine that `Explanation` models. The priority queue: nothing reads it
  since publishing became synchronous.
* Settings and administration. Values are constants here; changing them is validated and written
  to a file. Checking a candidate swaps `os.environ` for a moment (`api/administration.py`),
  during which other threads could read it; nothing in the modelled code does after start-up.
* The cross-dataset analysis and the profiling and activation of datasets: they read files
  and correlate series; the statistics would be transcribed and not abstracted.
* Prophet, embeddings, the cross-encoder, tokenization, the vendors' payloads, the mock
  connectors: external, or formats. They appear as scores, sets and outcomes.
* METRICS connectors, the sync run ledger and source status: display only.
* The blob store's write itself: its temporary file is named after the process
  (`blob_store.py:142`), so that two threads storing the same new bytes share it.
* The second identifier of an incident (`orchestrator.py:1695`): an event's identity is one here.
* Compiled rules that were adopted from a policy which is retired afterwards
  (`policy_agent.py:344-355`); `ActionAgent` settles the breaker in one step, so that threads are
  interleaved between outcomes and not within one (`action_agent.py:103-125`).
* The completeness of a purge (`processor.py:226`): the code promises to delete the recorded
  identifiers only.
* The guardrails on texts, the development token endpoint, logs, counters, spans and alerts.
* Clients of PostgreSQL, Redis, Qdrant and S3 beyond "each call may fail": pooling and retries.
* The rest of the REST API (reads), the frontend, migrations and deployment.

## 6. Plan

Done: the modules above, in the order action agent, review, ingestion, investigation, connector
sync, each with its runs and proofs; then the services and the algorithms, with `platform`.

Then the proofs about the services, the course of an investigation and the refinement.

Then the proofs about retrieval, policies, the business graph, and what is told of finished
investigations.

Next proofs: the references between jobs, assets and versions that `UploadsArrive` rests on; the
statistics (that pooling ends with increasing rates, that held-out rows are later than training
rows) and the summaries over all incidents, with the lemmas on folds and sums of `AnalysisProofs`.

Next modules: approval chain resolution (`resolve_chain`, `_parse`), tiers by severity against a
reference definition; the composition of `ConnectorSync` with `Ingestion`, so that "accepted"
becomes "served", and of `Investigation` with `HumanReview` at the approval record.
