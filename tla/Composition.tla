---------------------------- MODULE Composition ----------------------------
(***************************************************************************)
(* The life of one process (main.py): the application is created, its      *)
(* lifespan builds every component in a fixed order, starts two threads on *)
(* the way, serves, and shuts down.                                        *)
(*                                                                         *)
(* The steps are those the rest of the process can tell apart. The monitor *)
(* thread and the ingestion worker run from the step that starts them.     *)
(***************************************************************************)
EXTENDS Integers, Sequences, FiniteSets

CONSTANTS
  MaxEvents,    \* bound: events published
  MaxJobs       \* bound: jobs the worker claims

ASSUME CompositionAssumption == MaxEvents \in Nat /\ MaxJobs \in Nat

VARIABLES
  life,         \* "created", "starting", "serving", "stopped" or "aborted"
  step,         \* steps of the lifespan that are done
  environment, auth,      \* ENVIRONMENT; how tokens are verified, "none" until built
  pipeline, tracer,       \* the stages around dense retrieval; those the debug tracer shows
  agents, roster,         \* the agents constructed; those the roster names
  hears,        \* is the orchestrator registered on the event bus?
  worker,       \* the ingestion worker's thread: "none", "polls", "claims" or "over"
  stopping,     \* its stop event
  unheard,      \* history: an event published while serving met no handler
  events, jobs, \* counts
  lateJobs      \* history: jobs claimed after the stop event was set

compositionVars == <<life, step, environment, auth, pipeline, tracer, agents, roster, hears,
                     worker, stopping, unheard, events, jobs, lateJobs>>

threadVars == <<worker, stopping, events, jobs, lateJobs, unheard>>

Startup == <<"container", "services", "documents",
             "hybrid", "multi_query", "rerank", "diversity", "advanced", "actions", "sources",
             "rules", "monitor", "worker", "planning", "orchestrator", "supervisor">>

RetrievalStages == {"hybrid", "multi_query", "rerank", "diversity", "advanced"}

-----------------------------------------------------------------------------
(* Creating the application *)

(* The keys tokens are verified with: a PEM in the settings, or one in a    *)
(* file they name. A file that cannot be read ends the start outside        *)
(* development, where a placeholder does for no key at all.                 *)
PEMs(key, file, env) ==
  IF key THEN {"key"}
  ELSE CASE file = "key" -> {"key"}
         [] file = "unreadable" /\ env # "development" -> {}
         [] OTHER -> {"none"}

(* Mutant: a file that was read is not looked into.                         *)
BuildJWTAuthTrustingFile(key, file, env) ==
  {IF k = "key" \/ file = "empty" THEN "key file" ELSE "placeholder" :
     k \in {k \in PEMs(key, file, env) : k = "key" \/ file = "empty" \/ env = "development"}}

BuildJWTAuth(key, file, env) ==
  {IF k = "key" THEN "key" ELSE "placeholder" :
     k \in {k \in PEMs(key, file, env) : k = "key" \/ env = "development"}}

(* _build_oidc_jwt_auth: an issuer and a client, and a key set that its     *)
(* discovery, or the settings, name; anything less ends the start.          *)
BuildOIDCAuth(issuer, client, jwks) == IF issuer /\ client /\ jwks THEN {"jwks"} ELSE {}

CompositionInit ==
  /\ life = "created" /\ step = 0
  /\ environment \in {"development", "production"} /\ auth = "none"
  /\ pipeline = <<>> /\ tracer = {}
  /\ agents = {} /\ roster = {} /\ hears = FALSE
  /\ worker = "none" /\ stopping = FALSE
  /\ unheard = FALSE /\ events = 0 /\ jobs = 0 /\ lateJobs = 0

CreateApp ==
  /\ life = "created"
  /\ \E oidc, issuer, client, jwks, key \in BOOLEAN,
        file \in {"none", "key", "empty", "unreadable"} :
       LET built == IF oidc THEN BuildOIDCAuth(issuer, client, jwks)
                            ELSE BuildJWTAuth(key, file, environment)
       IN IF built = {} THEN life' = "aborted" /\ UNCHANGED auth
                        ELSE life' = "starting" /\ auth' \in built
  /\ UNCHANGED <<step, environment, pipeline, tracer, agents, roster, hears, threadVars>>

-----------------------------------------------------------------------------
(* The lifespan, step by step *)

At(name) == life = "starting" /\ step < Len(Startup) /\ Startup[step + 1] = name

Done == /\ step' = step + 1 /\ UNCHANGED <<life, environment, auth>>

(* A step raises, any but those of retrieval, which are guarded: the start  *)
(* is over. Threads that run already are daemons and end with the process.  *)
Aborts ==
  /\ life = "starting" /\ step < Len(Startup)
  /\ Startup[step + 1] \notin RetrievalStages
  /\ life' = "aborted"
  /\ UNCHANGED <<step, environment, auth, pipeline, tracer, agents, roster, hears, threadVars>>

(* Building what the threads and requests use later.                        *)
Builds(name) ==
  At(name) /\ Done /\ UNCHANGED <<pipeline, tracer, agents, roster, hears, threadVars>>

(* The clients of the database, Redis and the bus; the language model, the  *)
(* memories and the vector store; the documents every start ingests.        *)
BuildsContainer == Builds("container")
BuildsServices == Builds("services")
IngestsStartupDocuments == Builds("documents")

(* The KPI sources: sheets, activated data sets, connectors. A connector    *)
(* that cannot be built leaves none; an error of the program's own raises.  *)
BuildsSources == Builds("sources")

(* The rule engine, with the adopted rules or, if they cannot be read, none.*)
BuildsRules == Builds("rules")

(* Mutant: what a stage made before it failed stays for the tracer.         *)
WrapsRetrievalLeavingParts ==
  \E stage \in RetrievalStages :
    /\ At(stage) /\ Done
    /\ \/ UNCHANGED <<pipeline, tracer>>
       \/ pipeline' = Append(pipeline, stage) /\ tracer' = tracer \cup {stage}
       \/ tracer' = tracer \cup {stage} /\ UNCHANGED pipeline
    /\ UNCHANGED <<agents, roster, hears, threadVars>>

(* Each stage of retrieval is disabled, built around the one before, or     *)
(* fails at any point and is left out, with whatever it had made.           *)
WrapsRetrieval ==
  \E stage \in RetrievalStages :
    /\ At(stage) /\ Done
    /\ \/ UNCHANGED <<pipeline, tracer>>
       \/ pipeline' = Append(pipeline, stage) /\ tracer' = tracer \cup {stage}
    /\ UNCHANGED <<agents, roster, hears, threadVars>>

Constructs(agent) ==
  \/ agents' = agents \cup {agent}
  \/ UNCHANGED agents

(* The action agent exists if there is a Slack token.                       *)
BuildsActionAgent ==
  /\ At("actions") /\ Done /\ Constructs("action")
  /\ UNCHANGED <<pipeline, tracer, roster, hears, threadVars>>

(* The monitor's thread runs from here, if it is enabled: nobody listens yet.*)
StartsMonitor ==
  /\ At("monitor") /\ Done /\ Constructs("monitor")
  /\ UNCHANGED <<pipeline, tracer, roster, hears, threadVars>>

StartsWorker ==
  /\ At("worker") /\ Done
  /\ worker' = "polls"
  /\ UNCHANGED <<pipeline, tracer, agents, roster, hears, stopping, events, jobs, lateJobs, unheard>>

BuildsPlanning ==
  /\ At("planning") /\ Done /\ Constructs("planning")
  /\ UNCHANGED <<pipeline, tracer, roster, hears, threadVars>>

(* Mutant: the orchestrator is registered for the monitor's sake only.      *)
RegistersOrchestratorForMonitor ==
  /\ At("orchestrator") /\ Done
  /\ hears' = ("monitor" \in agents)
  /\ \E supervised \in BOOLEAN :
       roster' = agents \cup (IF supervised THEN {"supervisor"} ELSE {})
  /\ UNCHANGED <<pipeline, tracer, agents, threadVars>>

(* The orchestrator is built and registered for every event; the roster is  *)
(* made, and names the supervisor if its setting says there will be one.    *)
RegistersOrchestrator ==
  /\ At("orchestrator") /\ Done
  /\ hears' = TRUE
  /\ \E supervised \in BOOLEAN :
       roster' = agents \cup (IF supervised THEN {"supervisor"} ELSE {})
  /\ UNCHANGED <<pipeline, tracer, agents, threadVars>>

BuildsSupervisor ==
  /\ At("supervisor") /\ Done
  /\ agents' = agents \cup (roster \cap {"supervisor"})
  /\ UNCHANGED <<pipeline, tracer, roster, hears, threadVars>>

Serves ==
  /\ life = "starting" /\ step = Len(Startup)
  /\ life' = "serving"
  /\ UNCHANGED <<step, environment, auth, pipeline, tracer, agents, roster, hears, threadVars>>

(* The code after the yield: the worker is told to stop and not waited for, *)
(* the monitor is left to the end of the process, the clients are closed.   *)
Shutdown ==
  /\ life = "serving"
  /\ life' = "stopped" /\ stopping' = TRUE
  /\ UNCHANGED <<step, environment, auth, pipeline, tracer, agents, roster, hears,
                 worker, events, jobs, lateJobs, unheard>>

-----------------------------------------------------------------------------
(* The threads *)

lifeVars == <<life, step, environment, auth, pipeline, tracer, agents, roster, hears>>

(* The monitor, or a manual trigger once requests are served, publishes.    *)
Publishes ==
  /\ events < MaxEvents
  /\ \/ "monitor" \in agents /\ life # "aborted"
     \/ life = "serving"
  /\ events' = events + 1
  /\ unheard' = (unheard \/ (life = "serving" /\ ~hears))
 
  /\ UNCHANGED <<lifeVars, worker, stopping, jobs, lateJobs>>

(* Mutant: the loop does not look at the stop event.                        *)
WorkerLooksOnlyForJobs ==
  /\ worker = "polls" /\ life # "aborted"
  /\ worker' = "claims"
 
  /\ UNCHANGED <<lifeVars, stopping, events, jobs, lateJobs, unheard>>

(* The worker's loop looks at its stop event, then at the queue.            *)
WorkerLooks ==
  /\ worker = "polls" /\ life # "aborted"
  /\ worker' = IF stopping THEN "over" ELSE "claims"
 
  /\ UNCHANGED <<lifeVars, stopping, events, jobs, lateJobs, unheard>>

WorkerClaims ==
  /\ worker = "claims" /\ life # "aborted"
  /\ worker' = "polls"
  /\ \/ UNCHANGED <<jobs, lateJobs>>
     \/ /\ jobs < MaxJobs
        /\ jobs' = jobs + 1
        /\ lateJobs' = lateJobs + (IF stopping THEN 1 ELSE 0)
 
  /\ UNCHANGED <<lifeVars, stopping, events, unheard>>

CompositionNext ==
  \/ CreateApp \/ Aborts \/ BuildsContainer \/ BuildsServices \/ IngestsStartupDocuments
  \/ BuildsSources \/ BuildsRules \/ WrapsRetrieval \/ BuildsActionAgent \/ StartsMonitor
  \/ StartsWorker \/ BuildsPlanning \/ RegistersOrchestrator \/ BuildsSupervisor \/ Serves
  \/ Shutdown \/ Publishes \/ WorkerLooks \/ WorkerClaims

CompositionSpec == CompositionInit /\ [][CompositionNext]_compositionVars

-----------------------------------------------------------------------------
(* Properties *)

(* Outside development no token is ever verified with the placeholder or    *)
(* with nothing: the process does not start (main.py:1347).                 *)
KeyOutsideDevelopment ==
  (life \notin {"created", "aborted"} /\ environment # "development") => auth \in {"key", "jwks"}

(* The debug tracer shows exactly the stages the agent retrieves through,   *)
(* and the roster the agents there are, whatever failed on the way          *)
(* (main.py:690, 1215).                                                     *)
NothingShownThatIsNot ==
  /\ tracer = {pipeline[i] : i \in DOMAIN pipeline}
  /\ life = "serving" => roster = agents

(* Whatever is published once requests are served finds the orchestrator.   *)
(* Before, the monitor may already publish to nobody (main.py:942, 1202).   *)
HeardOnceServing == ~unheard

(* A worker told to stop claims one more job at most (ingestion/worker.py:143).*)
OneJobAfterStop == lateJobs <= 1

CompositionSound ==
  KeyOutsideDevelopment /\ NothingShownThatIsNot /\ HeardOnceServing /\ OneJobAfterStop

=============================================================================
