---------------------------- MODULE RoutePlanner ----------------------------
(***************************************************************************)
(* How the planner reads an optimization: which engine, model, algorithm   *)
(* and weight function it stands for, which solver the factory makes of    *)
(* it, and how the routes found are laid out in time.                      *)
(*                                                                         *)
(* The planner asks an optimization which words it contains; it is the set *)
(* of those words.                                                         *)
(***************************************************************************)
EXTENDS Integers, Sequences

-----------------------------------------------------------------------------

FootCall(optimization) ==
  [engine    |-> "dijkstra_based",
   algorithm |-> "dijkstra",
   model     |-> "pedestrian_simplified_model",
   strategy  |-> IF "quietest_" \in optimization
                 THEN "quietest_pedestrian_weight_function"
                 ELSE "shortest_weight_function"]

CarCall(optimization) ==
  [engine    |-> "dijkstra_based",
   algorithm |-> "compact_dijkstra",
   model     |-> "road_compact_representation_model",
   strategy  |-> IF "fastest_" \in optimization
                 THEN "fastest_road_weight_function"
                 ELSE "shortest_weight_function"]

\* The optimization of the command line is bike_optimization to the letter, so
\* it never contains safest_fastest_.
BikeCall ==
  [engine    |-> "bicriterion_epsMOA_star",
   algorithm |-> "bicriterion_epsMOA_star",
   model     |-> "bicriterion_bicycle_model",
   strategy  |-> "shortest_weight_function"]

\* The call of the engine, if any, that each of the two entry points makes.
ExtensionCalls(optimization) ==
  CASE "foot_optimization" \in optimization -> {FootCall(optimization)}
    [] /\ "car_optimization" \in optimization
       /\ "foot_optimization" \notin optimization -> {CarCall(optimization)}
    [] OTHER -> {}

CommandLineCalls(optimization) ==
  IF optimization = {"bike_optimization"} THEN {BikeCall}
  ELSE ExtensionCalls(optimization)

-----------------------------------------------------------------------------

\* The weights of the graph a model is built into.
Weight(model) == IF model = "bicriterion_bicycle_model" THEN "pair" ELSE "scalar"

\* graph_builder_factory throws for any other model.
BuilderModel == {"pedestrian_simplified_model", "road_simplified_model",
                 "bicriterion_bicycle_model", "road_compact_representation_model"}

\* The creators of solvers: the algorithm each knows, and the make_solver it
\* overrides.
SSSTCreator     == [algorithm |-> "dijkstra", overrides |-> "vertices"]
ArcBasedCreator == [algorithm |-> "compact_dijkstra", overrides |-> "edge map"]
BSPCreator      == [algorithm |-> "bicriterion_epsMOA_star", overrides |-> "vertices"]

\* make_solver: the base class answers what a creator does not override with
\* no solver, and a creator throws for an algorithm that is not its own.
MakeSolver(creator, overload, algorithm) ==
  CASE overload # creator.overrides -> "nullptr"
    [] overload = creator.overrides /\ algorithm # creator.algorithm -> "exception"
    [] OTHER -> algorithm

\* Mutant: the creator of the vertex search is registered for both.
RegistryOneCreator(weight) ==
  IF weight = "pair"
  THEN [bicriterion_epsMOA_star |-> BSPCreator]
  ELSE [dijkstra |-> SSSTCreator, compact_dijkstra |-> SSSTCreator]

\* The creators registered for the graphs of a weight.  The multi-target one
\* is commented out.
Registry(weight) ==
  IF weight = "pair"
  THEN [bicriterion_epsMOA_star |-> BSPCreator]
  ELSE [dijkstra |-> SSSTCreator, compact_dijkstra |-> ArcBasedCreator]

\* The make_solver that route_optimize comes to: apply_ARCsolver passes the
\* edge map, apply_solver does not.
Overload(algorithm) ==
  IF algorithm = "compact_dijkstra" THEN "edge map" ELSE "vertices"

\* get_solver_for
SolverFor(call) ==
  LET registry == Registry(Weight(call.model))
  IN  IF call.algorithm \in DOMAIN registry
      THEN MakeSolver(registry[call.algorithm], Overload(call.algorithm), call.algorithm)
      ELSE "exception"

-----------------------------------------------------------------------------

\* Kilometres per hour.
AverageSpeed(mode, highway) ==
  CASE mode = "foot" -> 5
    [] mode = "bike" -> 15
    [] mode = "car" /\ highway = "motorway" -> 105
    [] mode = "car" /\ highway \in {"trunk", "primary"} -> 65
    [] OTHER -> 40

\* The mode of transport that to_rice reads from an optimization.
Transport(optimization) ==
  CASE "foot_optimization" \in optimization -> "foot"
    [] /\ "bike_optimization" \in optimization
       /\ "foot_optimization" \notin optimization -> "bike"
    [] OTHER -> "car"

\* The seconds of a day.
OfDay == 0 .. 24 * 3600 - 1

\* Mutant: the clock is the time itself.
ClockUnwrapped(time) == time

\* The clock to_string shows of a time.
Clock(time) == time % (24 * 3600)

\* to_rtime: a date that is not today is tomorrow.
RTime(datetime) == datetime.clock + (IF datetime.today THEN 0 ELSE 24 * 3600)

\* A time is an int: each edge adds whole seconds.  Lengths are in metres.
Travel(mode, edge) == (edge.length * 18) \div (5 * AverageSpeed(mode, edge.highway_value))

\* The time and the distance after the first k edges.
Elapsed(edges, mode, time) ==
  LET after[k \in 0 .. Len(edges)] ==
        IF k = 0 THEN time ELSE after[k - 1] + Travel(mode, edges[k])
  IN  after

Covered(edges, distance) ==
  LET upto[k \in 0 .. Len(edges)] ==
        IF k = 0 THEN distance ELSE upto[k - 1] + edges[k].length
  IN  upto

\* One route of the answer, begun at a time and a distance.
Itinerary(edges, mode, time, distance) ==
  LET after == Elapsed(edges, mode, time)
  IN  [arc |-> [k \in DOMAIN edges |->
                 [distance |-> edges[k].length,
                  start_datetime |-> Clock(after[k - 1]),
                  end_datetime |-> Clock(after[k]),
                  transport |-> mode,
                  source_node |-> edges[k].from,
                  destination_node |-> edges[k].to]],
       eta |-> Clock(after[Len(edges)]),
       distance |-> Covered(edges, distance)[Len(edges)]]

\* to_rice: time and distance run on from one route to the next.
ToRice(routes, time, mode) ==
  LET begun[r \in 1 .. Len(routes) + 1] ==
        IF r = 1 THEN [time |-> time, distance |-> 0]
        ELSE LET edges == routes[r - 1]
                 n == Len(edges)
             IN  [time |-> Elapsed(edges, mode, begun[r - 1].time)[n],
                  distance |-> Covered(edges, begun[r - 1].distance)[n]]
  IN  [r \in DOMAIN routes |->
        Itinerary(routes[r], mode, begun[r].time, begun[r].distance)]

\* to_geojson: the nodes of all routes in one line.
ToGeojson(routes) ==
  LET line(r) == [k \in 1 .. Len(r.arc) |-> r.arc[k].source_node]
                 \o (IF r.arc = <<>> THEN <<>>
                     ELSE <<r.arc[Len(r.arc)].destination_node>>)
      upto[r \in 0 .. Len(routes)] ==
        IF r = 0 THEN <<>> ELSE upto[r - 1] \o line(routes[r])
  IN  upto[Len(routes)]

=============================================================================
