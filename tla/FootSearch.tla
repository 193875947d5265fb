----------------------------- MODULE FootSearch -----------------------------
(***************************************************************************)
(* A foot search with the strategy of its caller: route_optimize makes the *)
(* weight functor, the search minimises what it says, and the route that   *)
(* is returned has the lengths of the arcs instead.                        *)
(***************************************************************************)
EXTENDS VertexDijkstra, WeightFunctions

CONSTANT Networks   \* for each arc its [metres, tags]

VARIABLES network, strategy

foot_vars == <<vars, network, strategy>>

Strategies == {"shortest_weight_function", "quietest_pedestrian_weight_function"}

Edges(n) == [a \in Arcs |-> Edge(n[a])]

ASSUME FunctorAssumption ==
  \A n \in Networks : \A strat \in Strategies : get_functor_for(strat, Edges(n)) \in WeightFns

FootInit ==
  /\ network \in Networks /\ strategy \in Strategies
  /\ weight = get_functor_for(strategy, Edges(network))
  /\ Init

FootNext == Next /\ UNCHANGED <<network, strategy>>

\* One thread, as for the search itself.
FootSpec == FootInit /\ [][FootNext]_foot_vars /\ WF_foot_vars(FootNext)

\* The arcs of each route, with the lengths that the client will add up.
get_optimized_routes ==
  [i \in DOMAIN routes |->
    [n \in DOMAIN routes[i].path |->
      LET e == routes[i].path[n] IN
      [from |-> e[1], to |-> e[2], length |-> Edges(network)[e].weight]]]

-----------------------------------------------------------------------------

\* The length of the i-th route.
LengthOf(i) ==
  LET edges == get_optimized_routes[i]
      sum[n \in 0 .. Len(edges)] == IF n = 0 THEN 0 ELSE sum[n - 1] + edges[n].length
  IN  sum[Len(edges)]

ShortestLength == Distances[s][get_functor_for("shortest_weight_function", Edges(network))]

\* Quiet streets are worth a detour, but not any: the coefficients are said to be
\* in the interval [0.5, 1], so that the quietest route is at most twice as long
\* as the shortest one.  The shortest one is.
DetourBounded ==
  \A i \in DOMAIN routes :
    IF strategy = "quietest_pedestrian_weight_function"
    THEN LengthOf(i) <= 2 * ShortestLength[targets[i]]
    ELSE LengthOf(i) = ShortestLength[targets[i]]

=============================================================================
