--------------------------- MODULE MCRouteService ---------------------------
(***************************************************************************)
(* Two connections ask for routes by car and on foot, each on a graph of   *)
(* two vertices, and by bike, which has no graph.  Two of the node ids are *)
(* strange to the graphs, and a point without a node id may be resolved to *)
(* either of their vertices.  Some of the requests give no time, and some  *)
(* do not validate.  The trip by car starts a minute before midnight.      *)
(***************************************************************************)
EXTENDS RouteService, TLC

CONSTANTS c1, c2

MCClient == {c1, c2}
MCId     == {"a", "b", "x", "y"}

Coordinates == [lon |-> [number |-> 11], lat |-> [number |-> 43]]
Near        == [hash |-> Coordinates]
Node(id)    == [hash |-> "node_id" :> [string |-> id] @@ Coordinates]

MCNearby == <<11, 43>> :> {"a", "b"}

Evening == [clock |-> 23 * 3600 + 59 * 60, today |-> TRUE]

TimelessJourney(words, from, to) ==
  [search_route_type |-> [string |-> words], source_node |-> from, destination_node |-> to]
Ask(words, from, to) ==
  [hash |-> [journey |-> [hash |->
    "start_datetime" :> [string |-> Evening] @@ TimelessJourney(words, from, to)]]]

Car  == {"fastest_", "car_optimization"}
Foot == {"quietest_", "foot_optimization"}
Bike == {"bike_optimization"}

MCDocument ==
  {Ask(Car, p[1], p[2]) : p \in {Near, Node("x")} \X {Near, Node("x")}}
  \cup {Ask(Car, Near, Node("y")), Ask(Car, Node("y"), Node("x"))}
  \cup {Ask(Foot, Near, Node("x")), Ask(Foot, Node("x"), Near), Ask(Bike, Near, Near)}
  \cup {[hash |-> [journey |-> [hash |-> TimelessJourney(Car, Near, Near)]]],
        [hash |-> [journey |-> [hash |-> "speed" :> [number |-> 1] @@
                                          TimelessJourney(Car, Near, Near)]]],
        [hash |-> [journey |-> [string |-> Car]]]}

CarModel  == "road_compact_representation_model"
FootModel == "pedestrian_simplified_model"
MCModel   == {CarModel, FootModel}

MCVertex   == {"v0", "v1"}
MCVertexOf == [m \in MCModel |-> "a" :> "v0" @@ "b" :> "v1"]

Edge(from, to, length, highway) ==
  [from |-> from, to |-> to, length |-> length, highway_value |-> highway]

\* A way from v1 to v0 and none back; a trip by car from v0 to itself finds a
\* loop or does not, as its turns allow.
MCOutcome == [m \in MCModel |-> [e \in MCVertex \X MCVertex |->
  CASE e = <<"v1", "v0">> ->
         {<<<<Edge("b", "c", 500, "primary"), Edge("c", "a", 1000, "residential")>>>>}
    [] e = <<"v0", "v0">> /\ m = CarModel ->
         {<<>>, <<<<Edge("a", "c", 300, "trunk"), Edge("c", "a", 300, "trunk")>>>>}
    [] OTHER -> {<<>>}]]

=============================================================================
