---------------------------- MODULE BusinessGraph ----------------------------
(***************************************************************************)
(* Building the business graph (BusinessGraphBuilder of                    *)
(* intelligence/business_graph.py, POST /graph/build): the evidence of     *)
(* three sources is read, nodes and edges are derived from it and upserted *)
(* one by one with the build's starting time, and what an older build left *)
(* behind is swept away.                                                   *)
(*                                                                         *)
(* A build runs inside one request of an asynchronous handler without      *)
(* awaiting: builds overlap only between instances. Every statement is     *)
(* committed by itself. A measure profile is read with its dataset. Names  *)
(* are numbers, for metrics have an order; service 0 is no known source.   *)
(***************************************************************************)
EXTENDS Integers, Sequences, SequencesExt, FiniteSetsExt

CONSTANTS
  Builders,         \* application instances that serve the endpoint
  DatasetPool,      \* registered datasets: [id, service, measures]
  PolicyPool,       \* matchable policies: [id, metrics]
  IncidentPool,     \* incidents, newest first: [id, metric, cited, correlated]
  MinCorrelation,   \* min_correlation, in hundredths
  IncidentLimit,    \* incident_limit
  MaxBuilds,        \* bound: builds that are started
  MaxChanges        \* bound: changes of the evidence

ASSUME BusinessGraphAssumption ==
  /\ MinCorrelation \in 0..100 /\ IncidentLimit \in Nat \ {0}
  /\ MaxBuilds \in Nat /\ MaxChanges \in Nat

VARIABLES
  evidence,   \* the identifiers that are registered or stored now
  graphNodes, \* graph_nodes: key -> last_seen_at
  graphEdges, \* graph_edges: key -> [seen, count, confidence]
  build,      \* builder -> its build, or Idle
  lastBuild,  \* history: the newest build, once it ended, or Idle
  restamped,  \* history: rows of the newest build that an older one wrote over
  clock, changes, overlapped
              \* history: two builds were at work since one alone retired

graphVars == <<evidence, graphNodes, graphEdges, build, lastBuild, restamped, clock, changes,
               overlapped>>

-----------------------------------------------------------------------------
(* Deriving *)

Node(type, id) == <<type, id>>
Edge(from, type, to) == <<from, type, to>>

(* What a rule of the derivation finds: the nodes it names, and one         *)
(* observation for each time it puts an edge. nth tells repeated ones apart.*)
Derived(nodes, edges) == [nodes |-> nodes, edges |-> edges]
Observation(edge, nth) == [key |-> edge, nth |-> nth, confidence |-> 100, count |-> 1]

(* _put_edge: repeated observations of an edge add up, the strongest        *)
(* confidence stays.                                                        *)
PutEdges(observed) ==
  LET Of(e) == {o \in observed : o.key = e}
  IN [e \in {o.key : o \in observed} |->
        [count |-> MapThenSumSet(LAMBDA o : o.count, Of(e)),
         confidence |-> Max({o.confidence : o \in Of(e)})]]

(* _derive_dataset_structure: a dataset, the service it came from, and the  *)
(* measures its profile names.                                              *)
DeriveDatasetStructure(datasets) ==
  LET served == {d \in datasets : d.service # 0}
      Dataset(d) == Node("dataset", d.id)
      Service(d) == Node("service", d.service)
      Measure(d, k) == Node("metric", d.measures[k])
  IN Derived({Service(d) : d \in served}
               \cup UNION {{Dataset(d)} \cup {Measure(d, k) : k \in DOMAIN d.measures} :
                             d \in datasets},
             {Observation(Edge(Dataset(d), "derived_from", Service(d)), 0) : d \in served}
               \cup UNION {{Observation(Edge(Measure(d, k), "derived_from", Dataset(d)), k) :
                              k \in DOMAIN d.measures} : d \in datasets})

(* _derive_policy_governance: a policy that names metrics, and each of them.*)
DerivePolicyGovernance(policies) ==
  LET governing == {p \in policies : p.metrics # <<>>}
      Policy(p) == Node("policy", p.id)
      Governed(p, k) == Node("metric", p.metrics[k])
  IN Derived(UNION {{Policy(p)} \cup {Governed(p, k) : k \in DOMAIN p.metrics} : p \in governing},
             UNION {{Observation(Edge(Governed(p, k), "governed_by", Policy(p)), k) :
                      k \in DOMAIN p.metrics} : p \in governing})

(* The strong correlations of an incident's metric with another one.        *)
StrongCorrelations(i) ==
  {k \in DOMAIN i.correlated : /\ i.correlated[k].strength >= MinCorrelation
                               /\ i.correlated[k].metric # i.metric}

(* One edge per pair of correlated metrics, in the order of their names,    *)
(* with the mean of what all incidents measured.                            *)
Correlations(incidents) ==
  LET Pair(i, k) == {i.metric, i.correlated[k].metric}
      measured == UNION {{<<i, k>> : k \in StrongCorrelations(i)} : i \in incidents}
      On(pair) == {m \in measured : Pair(m[1], m[2]) = pair}
      sum(pair) == MapThenSumSet(LAMBDA m : m[1].correlated[m[2]].strength, On(pair))
      Between(i, k) == IF i.metric < i.correlated[k].metric
                       THEN <<i.metric, i.correlated[k].metric>>
                       ELSE <<i.correlated[k].metric, i.metric>>
      Correlates(m) ==
        LET ends == Between(m[1], m[2])
            on == On(Pair(m[1], m[2]))
        IN [key |-> Edge(Node("metric", ends[1]), "correlates_with", Node("metric", ends[2])),
            nth |-> 0, count |-> Cardinality(on),
            confidence |-> Min({100, sum(Pair(m[1], m[2])) \div Cardinality(on)})]
  IN {Correlates(m) : m \in measured}

(* _derive_incident_evidence: an incident, the metric it was raised on, the *)
(* metrics its investigation cited, and those it found correlated.          *)
DeriveIncidentEvidence(incidents) ==
  LET Incident(i) == Node("incident", i.id)
      Origin(i) == Node("metric", i.metric)
      Cited(i, k) == Node("metric", i.cited[k])
      Other(i, k) == Node("metric", i.correlated[k].metric)
      Occurs(i, metric, nth) == Observation(Edge(Incident(i), "co_occurred_in_incident", metric), nth)
  IN Derived(UNION {{Incident(i), Origin(i)} \cup {Cited(i, k) : k \in DOMAIN i.cited}
                      \cup {Other(i, k) : k \in StrongCorrelations(i)} : i \in incidents},
             Correlations(incidents)
               \cup UNION {{Occurs(i, Origin(i), 0)}
                             \cup {Occurs(i, Cited(i, k), k) : k \in DOMAIN i.cited} :
                             i \in incidents})

-----------------------------------------------------------------------------
(* Building *)

Sources == <<"dataset_registry", "policy_registry", "incident_history">>

Idle == [at |-> "idle"]
NoBuild == \A b \in Builders : build[b] = Idle

Present(pool) == SelectSeq(pool, LAMBDA x : x.id \in evidence)

Derivation(name) ==
  CASE name = "dataset_registry" -> DeriveDatasetStructure(Range(Present(DatasetPool)))
    [] name = "policy_registry" -> DerivePolicyGovernance(Range(Present(PolicyPool)))
    [] OTHER -> LET newest == Present(IncidentPool)
                IN DeriveIncidentEvidence(
                     Range(SubSeq(newest, 1, Min({IncidentLimit, Len(newest)}))))

(* The sources' own table cannot be read: datasets without their services.  *)
WithoutServices ==
  DeriveDatasetStructure({[d EXCEPT !.service = 0] : d \in Range(Present(DatasetPool))})

AllIds == UNION {{p[i].id : i \in DOMAIN p} : p \in {DatasetPool, PolicyPool, IncidentPool}}

GraphInit ==
  /\ evidence = AllIds
  /\ graphNodes = [n \in {} |-> 0] /\ graphEdges = [e \in {} |-> 0]
  /\ build = [b \in Builders |-> Idle] /\ lastBuild = Idle /\ restamped = {}
  /\ clock = 0 /\ changes = 0 /\ overlapped = FALSE

(* Uploads, policies and incidents come and go.                             *)
EvidenceChanges ==
  /\ changes < MaxChanges /\ changes' = changes + 1
  /\ \E x \in AllIds : evidence' = IF x \in evidence THEN evidence \ {x} ELSE evidence \cup {x}
  /\ UNCHANGED <<graphNodes, graphEdges, build, lastBuild, restamped, clock, overlapped>>

(* build, up to the first source: every build has a time of its own, and    *)
(* the history notes whether another one is under way.                      *)
BuildStarts(b) ==
  /\ build[b] = Idle /\ clock < MaxBuilds
  /\ clock' = clock + 1
  /\ \E retire \in BOOLEAN :
       build' = [c \in Builders |->
                   IF c = b THEN [at |-> "reading", source |-> 1, started |-> clock',
                                  retire |-> retire, nodes |-> {}, edges |-> {},
                                  toNodes |-> {}, toEdges |-> {}, alone |-> NoBuild]
                   ELSE IF build[c] = Idle THEN Idle ELSE [build[c] EXCEPT !.alone = FALSE]]
  /\ overlapped' = (overlapped \/ ~NoBuild)
  /\ lastBuild' = Idle /\ restamped' = {}
  /\ UNCHANGED <<evidence, graphNodes, graphEdges, changes>>

(* After the last source everything is to be written.                       *)
Onward(r) ==
  IF r.source < Len(Sources)
  THEN [r EXCEPT !.source = @ + 1]
  ELSE [r EXCEPT !.at = "writing", !.toNodes = r.nodes, !.toEdges = DOMAIN PutEdges(r.edges)]

(* One source: what it shows is added, or it is skipped, of which only the  *)
(* report speaks: the build goes on, and sweeps, like any other.            *)
ReadSource(b) ==
  LET r == build[b]
      name == Sources[r.source]
      Adds(found) ==
        build' = [build EXCEPT ![b] = Onward([r EXCEPT !.nodes = @ \cup found.nodes,
                                                       !.edges = @ \cup found.edges])]
  IN /\ r.at = "reading"
     /\ \/ Adds(Derivation(name))
        \/ Adds(Derived({}, {}))
        \/ name = "dataset_registry" /\ Adds(WithoutServices)
     /\ UNCHANGED <<evidence, graphNodes, graphEdges, lastBuild, restamped, clock, changes,
                    overlapped>>

(* A build of this time writes a row that has that time. The history notes  *)
(* when an older one writes over a row of the newest.                       *)
WritesOver(row, started, seen) ==
  restamped' = IF started < clock /\ seen = clock THEN restamped \cup {row} ELSE restamped

SeenAt(n) == IF n \in DOMAIN graphNodes THEN graphNodes[n] ELSE 0
EdgeSeenAt(e) == IF e \in DOMAIN graphEdges THEN graphEdges[e].seen ELSE 0

(* upsert_node of the next one; each node is put once.                      *)
WriteNode(b) ==
  LET n == CHOOSE m \in build[b].toNodes : TRUE
  IN /\ build[b].at = "writing" /\ build[b].toNodes # {}
     /\ graphNodes' = [m \in DOMAIN graphNodes \cup {n} |->
                         IF m = n THEN build[b].started ELSE graphNodes[m]]
     /\ WritesOver(n, build[b].started, SeenAt(n))
     /\ build' = [build EXCEPT ![b].toNodes = @ \ {n}]
     /\ UNCHANGED <<evidence, graphEdges, lastBuild, clock, changes, overlapped>>

WritesEdge(b) ==
  LET e == CHOOSE d \in build[b].toEdges : TRUE
      put == PutEdges(build[b].edges)[e]
  IN /\ build[b].at = "writing" /\ build[b].toEdges # {}
     /\ graphEdges' = [d \in DOMAIN graphEdges \cup {e} |->
                         IF d = e THEN [seen |-> build[b].started, count |-> put.count,
                                        confidence |-> put.confidence]
                         ELSE graphEdges[d]]
     /\ WritesOver(e, build[b].started, EdgeSeenAt(e))
     /\ build' = [build EXCEPT ![b].toEdges = @ \ {e}]
     /\ UNCHANGED <<evidence, graphNodes, lastBuild, clock, changes, overlapped>>

(* Mutant: edges do not wait for the nodes.                                 *)
WriteEdgeEarly(b) == WritesEdge(b)

(* upsert_edge of the next one, when all nodes are written.                 *)
NodesWritten(b) == build[b].at = "writing" /\ build[b].toNodes = {}
WriteEdge(b) == NodesWritten(b) /\ WritesEdge(b)

AllWritten(b) == NodesWritten(b) /\ build[b].toEdges = {}

Finished(b) ==
  /\ build' = [build EXCEPT ![b] = Idle]
  /\ lastBuild' = IF build[b].started = clock THEN build[b] ELSE lastBuild
  /\ overlapped' = (overlapped /\ ~(build[b].retire /\ build[b].alone))

(* Without retiring, the build ends with the last row.                      *)
EndWithoutSweep(b) ==
  /\ AllWritten(b) /\ ~build[b].retire
  /\ Finished(b)
  /\ UNCHANGED <<evidence, graphNodes, graphEdges, restamped, clock, changes>>

(* sweep_stale, first half: edges no build has confirmed since this one     *)
(* started.                                                                 *)
SweepEdges(b) ==
  /\ AllWritten(b) /\ build[b].retire
  /\ graphEdges' = [e \in {d \in DOMAIN graphEdges : graphEdges[d].seen >= build[b].started}
                     |-> graphEdges[e]]
  /\ build' = [build EXCEPT ![b].at = "swept"]
  /\ UNCHANGED <<evidence, graphNodes, lastBuild, restamped, clock, changes, overlapped>>

(* Mutant: what this build wrote itself counts as stale.                    *)
SweepNodesUpTo(b) ==
  /\ build[b].at = "swept"
  /\ graphNodes' = [n \in {m \in DOMAIN graphNodes : graphNodes[m] > build[b].started}
                     |-> graphNodes[n]]
  /\ Finished(b)
  /\ UNCHANGED <<evidence, graphEdges, restamped, clock, changes>>

(* sweep_stale, second half: nodes.                                         *)
SweepNodes(b) ==
  /\ build[b].at = "swept"
  /\ graphNodes' = [n \in {m \in DOMAIN graphNodes : graphNodes[m] >= build[b].started}
                     |-> graphNodes[n]]
  /\ Finished(b)
  /\ UNCHANGED <<evidence, graphEdges, restamped, clock, changes>>

(* A statement fails, the endpoint answers 500, what was written stays. Or  *)
(* the instance dies and comes back.                                        *)
BuildFails(b) ==
  /\ build[b] # Idle
  /\ build' = [build EXCEPT ![b] = Idle]
  /\ UNCHANGED <<evidence, graphNodes, graphEdges, lastBuild, restamped, clock, changes,
                 overlapped>>

GraphNext ==
  \/ EvidenceChanges
  \/ \E b \in Builders : \/ BuildStarts(b) \/ ReadSource(b) \/ WriteNode(b) \/ WriteEdge(b)
                         \/ EndWithoutSweep(b) \/ SweepEdges(b) \/ SweepNodes(b)
                         \/ BuildFails(b)

GraphSpec == GraphInit /\ [][GraphNext]_graphVars

-----------------------------------------------------------------------------
(* Properties *)

GraphTypeOK ==
  /\ evidence \subseteq AllIds /\ clock \in 0..MaxBuilds
  /\ \A n \in DOMAIN graphNodes : graphNodes[n] \in 1..clock
  /\ \A e \in DOMAIN graphEdges : graphEdges[e].seen \in 1..clock

(* What a build leaves that found these nodes and these observations.       *)
Shows(nodes, observed, retired) ==
  LET edges == PutEdges(observed)
  IN /\ nodes \subseteq DOMAIN graphNodes
     /\ DOMAIN edges \subseteq DOMAIN graphEdges
     /\ \A e \in DOMAIN edges : /\ graphEdges[e].count = edges[e].count
                                /\ graphEdges[e].confidence = edges[e].confidence
     /\ retired => DOMAIN graphNodes = nodes /\ DOMAIN graphEdges = DOMAIN edges

(* The newest build, if no other was at work beside it, leaves exactly what *)
(* the sources it could read show, or at least that when it was told not to *)
(* retire: no evidence outlives its source, none of a readable source is    *)
(* lost, and whatever builds that overlapped or failed left before it is    *)
(* put right (business_graph.py:530). Rows of a source that it could not    *)
(* read are retired with the rest, as the code does.                        *)
GraphIsEvidence ==
  lastBuild # Idle /\ lastBuild.alone =>
    Shows(lastBuild.nodes, lastBuild.edges, lastBuild.retire)

(* What a build has written so far is there, with its time and what it      *)
(* observed, but for the rows an older build wrote over.                    *)
Keeps(r) ==
  LET nodes == IF r.at = "reading" THEN {} ELSE r.nodes \ r.toNodes
      put == PutEdges(r.edges)
      edges == IF r.at = "reading" THEN {} ELSE DOMAIN put \ r.toEdges
  IN /\ \A n \in nodes \ restamped : n \in DOMAIN graphNodes /\ graphNodes[n] = r.started
     /\ \A e \in edges \ restamped :
          /\ e \in DOMAIN graphEdges
          /\ graphEdges[e] = [seen |-> r.started, count |-> put[e].count,
                              confidence |-> put[e].confidence]

(* However builds race, fail and sweep, the newest one loses no row but one *)
(* that an older build wrote over with its older time: that much of         *)
(* repositories.py:554-557 holds.                                           *)
NewestKeepsItsWork ==
  /\ \A b \in Builders : build[b] # Idle /\ build[b].started = clock => Keeps(build[b])
  /\ lastBuild # Idle => Keeps(lastBuild)

(* repositories.py:554-557: "two builds racing can never delete each        *)
(* other's work". Not so: the sweep of the newer build deletes what the     *)
(* older one wrote and it did not find, or the older wrote after it.        *)
BuildsKeepEachOthersWork ==
  \A b \in Builders : build[b].at = "writing" =>
    build[b].nodes \ build[b].toNodes \subseteq DOMAIN graphNodes

(* Whatever fails in the middle of a build or a sweep, an edge never leads  *)
(* to a node that is not there, as long as builds do not overlap            *)
(* (business_graph.py:564-569, 238-249). When they do, the older one's edges*)
(* can outlive the nodes the newer one swept.                               *)
EdgesHaveEnds ==
  ~overlapped => \A e \in DOMAIN graphEdges : {e[1], e[3]} \subseteq DOMAIN graphNodes

(* The business graph is what its sources show when it is built alone, the  *)
(* newest build's rows outlive every race, and without races no edge leads  *)
(* nowhere (business_graph.py:530, 574, repositories.py:554).               *)
GraphSound == GraphTypeOK /\ GraphIsEvidence /\ NewestKeepsItsWork /\ EdgesHaveEnds

=============================================================================
