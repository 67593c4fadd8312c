--------------------------- MODULE GraphTraversal ---------------------------
(***************************************************************************)
(* Reading the business graph (intelligence/business_graph.py, the reading *)
(* endpoints of api/graph.py, graph_correlation.py): a breadth-first walk  *)
(* over typed, weighted edges within a budget of hops, nodes and edges,    *)
(* and what an investigation makes of it.                                  *)
(*                                                                         *)
(* A graph is [nodes, edges]: nodes maps keys to [type, label], edges maps *)
(* <<source, type, target>> to [confidence, count], in hundredths.         *)
(***************************************************************************)
EXTENDS Basics, Sequences, SequencesExt, FiniteSetsExt

CONSTANTS
  DepthCeiling, NodesCeiling, EdgesCeiling,  \* MAX_..._CEILING
  HopCeiling,                                \* EDGES_PER_HOP_CEILING
  DefaultBudget                              \* DEFAULT_MAX_..., as a record

ASSUME GraphTraversalAssumption ==
  \A n \in {DepthCeiling, NodesCeiling, EdgesCeiling, HopCeiling} : n \in Nat \ {0}

(* An override, or the default where there is none or it is zero.           *)
Given(value, default) == IF value \in {<<>>, <<0>>} THEN default ELSE value[1]

Within(n, low, high) == Max({low, Min({n, high})})

(* TraversalBudget.clamped                                                  *)
Clamped(asked) ==
  [max_depth |-> Within(Given(asked.max_depth, DefaultBudget.max_depth), 1, DepthCeiling),
   max_nodes |-> Within(Given(asked.max_nodes, DefaultBudget.max_nodes), 1, NodesCeiling),
   max_edges |-> Within(Given(asked.max_edges, DefaultBudget.max_edges), 1, EdgesCeiling),
   min_confidence |-> Within(Given(asked.min_confidence, 0), 0, 100)]

(* _budget: a request's own bounds, else the settings', then clamped.       *)
BudgetOf(request, settings) ==
  Clamped([max_depth |-> <<Given(request.max_depth, Given(settings.max_depth, 0))>>,
           max_nodes |-> <<Given(request.max_nodes, Given(settings.max_nodes, 0))>>,
           max_edges |-> <<Given(request.max_edges, Given(settings.max_edges, 0))>>,
           min_confidence |-> IF request.min_confidence # <<>> THEN request.min_confidence
                              ELSE settings.min_confidence])

(* list_touching: the strongest edges at either end of the frontier.        *)
ListTouching(graph, frontier, limit, min_confidence, types) ==
  LET at == {e \in DOMAIN graph.edges :
               /\ {e[1], e[3]} \cap frontier # {}
               /\ graph.edges[e].confidence >= min_confidence
               /\ types = {} \/ e[2] \in types}
      Before(d, e) == LET x == graph.edges[d]
                          y == graph.edges[e]
                      IN \/ x.confidence > y.confidence
                         \/ x.confidence = y.confidence /\ x.count > y.count
                         \/ x.confidence = y.confidence /\ x.count = y.count /\ x.id < y.id
      order == InOrder(at, {p \in at \X at : Before(p[1], p[2])})
  IN SubSeq(order, 1, Min({limit, Cardinality(at)}))

(* The ends of an edge as the walk goes over it; <<>> when neither end is   *)
(* on the frontier.                                                         *)
Crossing(edge, frontier) ==
  CASE edge[1] \in frontier -> <<edge[1], edge[3]>>
    [] edge[1] \notin frontier /\ edge[3] \in frontier -> <<edge[3], edge[1]>>
    [] OTHER -> <<>>

(* A node that is met, and how it was reached.                              *)
Meeting(best, node, reached) ==
  [n \in DOMAIN best \cup {node} |-> IF n = node THEN reached ELSE best[n]]

(* One edge of a hop: a node met for the first time joins the next          *)
(* frontier, unless the budget of nodes is used up, which ends the hop.     *)
Cross(graph, budget, depth, frontier, walk, edge) ==
  LET ends == Crossing(edge, frontier)
      over == [walk EXCEPT !.edges = @ + 1]
  IN CASE walk.full -> walk
       [] ~walk.full /\ (ends = <<>> \/ ends[2] \in DOMAIN walk.best) -> over
       [] OTHER ->
            IF Cardinality(DOMAIN walk.best) >= budget.max_nodes
            THEN [over EXCEPT !.full = TRUE]
            ELSE LET from == walk.best[ends[1]]
                     reached == [confidence |-> from.confidence * graph.edges[edge].confidence,
                                 depth |-> depth, path |-> Append(from.path, ends[2])]
                 IN [over EXCEPT !.best = Meeting(@, ends[2], reached),
                                 !.next = @ \cup {ends[2]}]

(* One hop. Once the walk is over, nothing more happens.                    *)
Hop(graph, budget, types, walk, depth) ==
  LET left == budget.max_edges - walk.edges
      limit == Min({left, HopCeiling})
      found == ListTouching(graph, walk.next, limit, budget.min_confidence, types)
      frontier == walk.next
      begun == [walk EXCEPT !.next = {},
                            !.why = IF Len(found) >= limit /\ @ = "none" THEN "edges" ELSE @]
      after == FoldLeft(LAMBDA w, e : Cross(graph, budget, depth, frontier, w, e), begun, found)
      ended == [after EXCEPT !.depth = depth]
  IN CASE walk.over \/ walk.next = {} -> [walk EXCEPT !.over = TRUE]
       [] ~walk.over /\ walk.next # {} /\ left <= 0 ->
            [walk EXCEPT !.over = TRUE, !.why = "edges"]
       [] OTHER ->
            IF found = <<>> THEN [walk EXCEPT !.over = TRUE]
            ELSE IF after.full THEN [ended EXCEPT !.over = TRUE, !.why = "nodes"]
            ELSE IF after.edges >= budget.max_edges
                 THEN [ended EXCEPT !.over = TRUE, !.why = IF @ = "none" THEN "edges" ELSE @]
            ELSE ended

(* Mutant: a frontier left over after the last hop is not mentioned.        *)
ConcludedQuietly(walk) == walk

(* A frontier left over after the last hop means there may be more.         *)
Concluded(walk) ==
  IF ~walk.over /\ walk.next # {} /\ walk.why = "none"
  THEN [walk EXCEPT !.why = "depth"] ELSE walk

(* BusinessGraphStore.neighborhood: every node reached with the first path  *)
(* that reached it.                                                         *)
Neighborhood(graph, origin, budget, types) ==
  LET start == [best |-> [n \in {origin} |-> [confidence |-> 1, depth |-> 0, path |-> <<n>>]],
                next |-> {origin}, edges |-> 0, depth |-> 0, full |-> FALSE,
                over |-> FALSE, why |-> "none"]
      walk == Concluded(FoldLeft(LAMBDA w, d : Hop(graph, budget, types, w, d), start,
                                 [d \in 1..budget.max_depth |-> d]))
      reached == (DOMAIN walk.best) \ {origin}
  IN IF origin \notin DOMAIN graph.nodes
     THEN [found |-> FALSE, related |-> [n \in {} |-> 0], why |-> "none", edges |-> 0]
     ELSE [found |-> TRUE, related |-> [n \in reached |-> walk.best[n]],
           why |-> walk.why, edges |-> walk.edges]

NodeTypes == {"metric", "policy", "dataset", "service", "incident"}

(* GraphCorrelationEngine.analyze: the reached nodes by type; a node that   *)
(* is gone has none and is only counted. A failed walk and an unknown       *)
(* metric are "not available".                                              *)
AnalyzeGraph(graph, metric, budget, fails) ==
  LET walk == Neighborhood(graph, metric, budget, {})
      Type(n) == IF n \in DOMAIN graph.nodes THEN graph.nodes[n].type ELSE "none"
  IN IF fails \/ ~walk.found
     THEN [available |-> FALSE, of |-> [t \in NodeTypes |-> {}], total |-> 0, truncated |-> FALSE]
     ELSE [available |-> TRUE,
           of |-> [t \in NodeTypes |-> {n \in DOMAIN walk.related : Type(n) = t}],
           total |-> Cardinality(DOMAIN walk.related), truncated |-> walk.why # "none"]

(* known_related_metrics: what the graph already knew of metrics, by label. *)
KnownRelatedMetrics(graph, metric, budget, fails) ==
  LET walk == Neighborhood(graph, metric, budget,
                           {"correlates_with", "co_occurred_in_incident"})
      metrics == {n \in DOMAIN walk.related :
                    n \in DOMAIN graph.nodes /\ graph.nodes[n].type = "metric"}
  IN IF fails THEN {} ELSE {graph.nodes[n].label : n \in metrics}

(* search_nodes: the nodes the term is found in, of one type if asked for;  *)
(* the limit is applied before the type is.                                 *)
SearchNodes(graph, matching, type, limit) ==
  LET hits == Increasing(matching \cap DOMAIN graph.nodes)
      page == SubSeq(hits, 1, Min({Within(limit, 1, NodesCeiling), Len(hits)}))
  IN Keeping(page, LAMBDA n : type = <<>> \/ graph.nodes[n].type = type[1])

-----------------------------------------------------------------------------
(* Reference definition *)

(* Everything connected to the origin over edges that are strong enough:    *)
(* what no set that contains the origin can leave out unless such an edge   *)
(* leads out of it.                                                         *)
ReachableAt(graph, origin, min_confidence) ==
  LET strong == {e \in DOMAIN graph.edges : graph.edges[e].confidence >= min_confidence}
      ends == UNION {{e[1], e[3]} : e \in strong}
      Closed(S) == \A e \in strong : e[1] \in S <=> e[3] \in S
  IN {n \in ends \cup {origin} :
        \A S \in SUBSET (ends \cup {origin}) : origin \in S /\ Closed(S) => n \in S}

=============================================================================
