------------------------- MODULE RouteServiceProofs -------------------------
(***************************************************************************)
(* What holds of the server for any clients, node ids, bodies of requests  *)
(* and graphs: at most one request is in the planner, and the requests     *)
(* that share the planner answer as if each were served in one step.       *)
(*                                                                         *)
(* The step of the promise is Solve: everything before it prepares, and    *)
(* what follows it delivers.  Criterion writes to the vertex map before    *)
(* that, so the argument is that no other request can see the id it has    *)
(* inserted: such an id belongs to a thread about to search (FreshPending),*)
(* that thread holds the mutex, and there is one such thread (LockHeld).   *)
(***************************************************************************)
EXTENDS RouteService, NaturalLemmas, SequenceTheorems

-----------------------------------------------------------------------------
(* What a route comes to on its way to the client, whatever its edges: the *)
(* times and the points of its arcs, and the JSON body made of them.       *)

\* For every optimization, on either entry point, the factories know the graph
\* and the solver of the call, and the solver takes the points as it gets them.
LEMMA SolverKnown ==
  ASSUME NEW optimization,
         NEW call \in ExtensionCalls(optimization) \cup CommandLineCalls(optimization)
  PROVE  call.model \in BuilderModel /\ SolverFor(call) = call.algorithm
<1>1. call \in {FootCall(optimization), CarCall(optimization), BikeCall}
  BY DEF ExtensionCalls, CommandLineCalls
<1>2. CASE call = FootCall(optimization)
  <2>1. call.model = "pedestrian_simplified_model" /\ call.algorithm = "dijkstra"
    BY <1>2 DEF FootCall
  <2>2. QED
    BY <2>1 DEF BuilderModel, SolverFor, Registry, Weight, Overload, MakeSolver, SSSTCreator
<1>3. CASE call = CarCall(optimization)
  <2>1. /\ call.model = "road_compact_representation_model"
        /\ call.algorithm = "compact_dijkstra"
    BY <1>3 DEF CarCall
  <2>2. /\ Weight(call.model) = "scalar"
        /\ Overload(call.algorithm) = "edge map"
    BY <2>1 DEF Weight, Overload
  <2>3. Registry("scalar")[call.algorithm] = ArcBasedCreator
    BY <2>1 DEF Registry
  <2>4. MakeSolver(ArcBasedCreator, "edge map", call.algorithm) = call.algorithm
    BY <2>1 DEF MakeSolver, ArcBasedCreator
  <2>5. call.algorithm \in DOMAIN Registry("scalar")
    BY <2>1 DEF Registry
  <2>6. QED
    BY <2>1, <2>2, <2>3, <2>4, <2>5, Zenon DEF BuilderModel, SolverFor
<1>4. CASE call = BikeCall
  <2>1. /\ call.model = "bicriterion_bicycle_model"
        /\ call.algorithm = "bicriterion_epsMOA_star"
    BY <1>4 DEF BikeCall
  <2>2. QED
    BY <2>1 DEF BuilderModel, SolverFor, Registry, Weight, Overload, MakeSolver, BSPCreator
<1>5. QED
  BY <1>1, <1>2, <1>3, <1>4

-----------------------------------------------------------------------------

\* A route is a sequence with at least one edge.
LEMMA RouteEdges ==
  ASSUME NEW edges, IsRoute(edges)
  PROVE  /\ Len(edges) \in Nat \ {0}
         /\ DOMAIN edges = 1 .. Len(edges)
         /\ \A k \in 1 .. Len(edges) : edges[k].length \in Nat
         /\ \A k \in 2 .. Len(edges) : edges[k].from = edges[k - 1].to
<1>1. edges \in Seq({edges[k] : k \in DOMAIN edges}) /\ edges # <<>>
  BY DEF IsRoute
<1>2. Len(edges) \in Nat \ {0} /\ DOMAIN edges = 1 .. Len(edges)
  BY <1>1
<1>3. \A k \in 1 .. Len(edges) : edges[k].length \in Nat
  BY <1>2 DEF IsRoute
<1>4. ASSUME NEW k \in 2 .. Len(edges) PROVE edges[k].from = edges[k - 1].to
  <2>1. k \in DOMAIN edges \ {1}
    BY <1>2
  <2>2. QED
    BY <2>1 DEF IsRoute
<1>5. QED
  BY <1>2, <1>3, <1>4

\* Every edge takes a whole number of seconds.
LEMMA TravelWhole ==
  ASSUME NEW mode, NEW edge, edge.length \in Nat
  PROVE  Travel(mode, edge) \in Nat
<1>1. AverageSpeed(mode, edge.highway_value) \in {5, 15, 105, 65, 40}
  BY DEF AverageSpeed
<1>2. \A speed \in {5, 15, 105, 65, 40} : (edge.length * 18) \div (5 * speed) \in Nat
  OBVIOUS
<1>3. QED
  BY <1>1, <1>2 DEF Travel

\* A clock shows a time of day.
LEMMA ClockOfDay ==
  ASSUME NEW time \in Nat
  PROVE  Clock(time) \in OfDay
<1>1. PICK day \in Nat \ {0} : day = 24 * 3600
  OBVIOUS
<1>2. time % day \in 0 .. day - 1
  BY Remainder
<1>3. Clock(time) = time % day /\ OfDay = 0 .. day - 1
  BY <1>1 DEF Clock, OfDay
<1>4. QED
  BY <1>2, <1>3

\* The times at which the edges end, one from the other.
LEMMA ElapsedTimes ==
  ASSUME NEW edges, IsRoute(edges), NEW mode, NEW time \in Nat
  PROVE  LET after == Elapsed(edges, mode, time)
         IN  /\ after[0] = time
             /\ \A k \in 1 .. Len(edges) :
                  after[k] = after[k - 1] + Travel(mode, edges[k])
             /\ \A k \in 0 .. Len(edges) : after[k] \in Nat
<1> DEFINE n == Len(edges)
           Unfolds(f) == f = [k \in 0 .. n |->
                               IF k = 0 THEN time ELSE f[k - 1] + Travel(mode, edges[k])]
           after == Elapsed(edges, mode, time)
<1>1. n \in Nat /\ \A k \in 1 .. n : Travel(mode, edges[k]) \in Nat
  BY RouteEdges, TravelWhole
<1> HIDE DEF n
<1>2. \E f : Unfolds(f)
  <2> DEFINE step == [p \in Nat \X (1 .. n) |-> p[1] + Travel(mode, edges[p[2]])]
  <2>1. Steps(step, Nat, n)
    BY <1>1 DEF Steps
  <2>2. PICK f : Iterates(f, time, step, Nat, n)
    <3> HIDE DEF step
    <3>1. QED
      BY <1>1, <2>1, Iteration
  <2>3. ASSUME NEW k \in 1 .. n
        PROVE  f[k] = f[k - 1] + Travel(mode, edges[k])
    <3>1. <<f[k - 1], k>> \in Nat \X (1 .. n)
      BY <1>1, <2>2 DEF Iterates
    <3>2. QED
      BY <2>2, <3>1 DEF Iterates
  <2>4. Unfolds(f)
    BY <1>1, <2>2, <2>3 DEF Iterates
  <2>5. QED
    BY <2>4
<1>3. Unfolds(after)
  BY <1>2 DEF Elapsed, n
<1> HIDE DEF after
<1>4. after[0] = time /\ \A k \in 1 .. n : after[k] = after[k - 1] + Travel(mode, edges[k])
  BY <1>1, <1>3
<1>5. \A k \in 0 .. n : after[k] \in Nat
  <2> DEFINE S == {k \in 0 .. n : after[k] \in Nat}
  <2>1. 0 \in S
    BY <1>1, <1>4
  <2>2. \A k \in 0 .. n - 1 : k \in S => k + 1 \in S
    BY <1>1, <1>4
  <2> HIDE DEF S
  <2>3. QED
    BY <1>1, <2>1, <2>2, InductionUpTo DEF S
<1>6. QED
  BY <1>4, <1>5 DEF after, n

\* The n arcs of a route begun at a time: they show the clock at the times
\* between the edges, and each starts where the last one ends.
Timed(route, n, time) ==
  LET arc == route.arc
  IN  /\ DOMAIN arc = 1 .. n /\ Len(arc) = n /\ arc # <<>>
      /\ arc[1].start_datetime = Clock(time)
      /\ route.eta = arc[n].end_datetime
      /\ \A k \in 2 .. n :
           /\ arc[k].start_datetime = arc[k - 1].end_datetime
           /\ arc[k].source_node = arc[k - 1].destination_node
      /\ \A k \in 1 .. n : arc[k].start_datetime \in OfDay

\* The itinerary made of a route is timed from the time it is given.
LEMMA ArcsTimed ==
  ASSUME NEW edges, IsRoute(edges), NEW mode, NEW time \in Nat, NEW distance
  PROVE  Timed(Itinerary(edges, mode, time, distance), Len(edges), time)
<1> DEFINE n == Len(edges)
           after == Elapsed(edges, mode, time)
           route == Itinerary(edges, mode, time, distance)
           arc == route.arc
<1>1. n \in Nat \ {0} /\ DOMAIN edges = 1 .. n
  BY RouteEdges
<1>2. /\ arc = [k \in 1 .. n |->
                 [distance |-> edges[k].length,
                  start_datetime |-> Clock(after[k - 1]),
                  end_datetime |-> Clock(after[k]),
                  transport |-> mode,
                  source_node |-> edges[k].from,
                  destination_node |-> edges[k].to]]
      /\ route.eta = Clock(after[n])
  BY <1>1 DEF Itinerary
<1>3. after[0] = time /\ \A k \in 0 .. n : after[k] \in Nat
  BY ElapsedTimes
<1>4. \A k \in 2 .. n : edges[k].from = edges[k - 1].to
  BY RouteEdges
<1> HIDE DEF n, after, arc, route
<1>5. \A k \in 1 .. n : /\ arc[k].start_datetime = Clock(after[k - 1])
                        /\ arc[k].end_datetime = Clock(after[k])
                        /\ arc[k].source_node = edges[k].from
                        /\ arc[k].destination_node = edges[k].to
  BY <1>2
<1>6. DOMAIN arc = 1 .. n /\ Len(arc) = n /\ arc # <<>>
  <2>1. arc \in [1 .. n -> {arc[k] : k \in 1 .. n}]
    BY <1>2
  <2>2. QED
    BY <1>1, <2>1, SeqDef
<1>7. ASSUME NEW k \in 1 .. n
      PROVE  arc[k].start_datetime \in OfDay
  <2>1. after[k - 1] \in Nat
    BY <1>1, <1>3
  <2>2. Clock(after[k - 1]) \in OfDay
    BY <2>1, ClockOfDay
  <2>3. arc[k].start_datetime = Clock(after[k - 1])
    BY <1>5
  <2>4. QED
    BY <2>2, <2>3, Zenon
<1>8. arc[1].start_datetime = Clock(time) /\ route.eta = arc[n].end_datetime
  BY <1>1, <1>2, <1>3, <1>5
<1>9. \A k \in 2 .. n : /\ arc[k].start_datetime = arc[k - 1].end_datetime
                        /\ arc[k].source_node = arc[k - 1].destination_node
  BY <1>1, <1>4, <1>5
<1>10. QED
  BY <1>6, <1>7, <1>8, <1>9 DEF Timed, n, arc, route

\* A search that finds one route answers with that route, at the time asked for.
LEMMA OneItinerary ==
  ASSUME NEW edges, NEW mode, NEW time
  PROVE  LET rice == ToRice(<<edges>>, time, mode)
         IN  DOMAIN rice = {1} /\ rice[1] = Itinerary(edges, mode, time, 0)
<1> DEFINE first == [time |-> time, distance |-> 0]
           after(b) == LET n == Len(edges)
                       IN  [time |-> Elapsed(edges, mode, b.time)[n],
                            distance |-> Covered(edges, b.distance)[n]]
           Unfolds(f) == f = [r \in 1 .. 2 |-> IF r = 1 THEN first ELSE after(f[r - 1])]
<1>1. \E f : Unfolds(f)
  <2> DEFINE f == [r \in 1 .. 2 |-> IF r = 1 THEN first ELSE after(first)]
  <2> HIDE DEF first, after
  <2>1. f[1] = first
    OBVIOUS
  <2>2. Unfolds(f)
    BY <2>1
  <2>3. QED
    BY <2>2
<1>2. PICK begun : /\ Unfolds(begun)
                   /\ ToRice(<<edges>>, time, mode) =
                        [r \in DOMAIN <<edges>> |->
                          Itinerary(<<edges>>[r], mode, begun[r].time, begun[r].distance)]
  BY <1>1 DEF ToRice
<1>3. begun[1] = first
  <2> HIDE DEF first, after
  <2>1. QED
    BY <1>2
<1>4. QED
  BY <1>2, <1>3

\* The line drawn of one route: the points its arcs leave, and the last one.
LEMMA OneLine ==
  ASSUME NEW route, route.arc # <<>>
  PROVE  ToGeojson(<<route>>) =
           <<>> \o ([k \in 1 .. Len(route.arc) |-> route.arc[k].source_node]
                      \o <<route.arc[Len(route.arc)].destination_node>>)
<1> DEFINE line(r) == [k \in 1 .. Len(r.arc) |-> r.arc[k].source_node]
                      \o (IF r.arc = <<>> THEN <<>>
                          ELSE <<r.arc[Len(r.arc)].destination_node>>)
           Unfolds(f) == f = [r \in 0 .. Len(<<route>>) |->
                               IF r = 0 THEN <<>> ELSE f[r - 1] \o line(<<route>>[r])]
<1>1. \E f : Unfolds(f)
  <2> DEFINE f == [r \in 0 .. 1 |-> IF r = 0 THEN <<>> ELSE <<>> \o line(route)]
  <2> HIDE DEF line
  <2>1. f[0] = <<>> /\ f[1] = <<>> \o line(route) /\ f = [r \in 0 .. 1 |-> f[r]]
    OBVIOUS
  <2>2. Len(<<route>>) = 1 /\ <<route>>[1] = route
    OBVIOUS
  <2>3. Unfolds(f)
    BY <2>1, <2>2
  <2>4. QED
    BY <2>3
<1>2. PICK f : Unfolds(f) /\ ToGeojson(<<route>>) = f[Len(<<route>>)]
  BY <1>1 DEF ToGeojson
<1>3. ToGeojson(<<route>>) = <<>> \o line(route)
  <2> HIDE DEF line
  <2>1. Len(<<route>>) = 1 /\ <<route>>[1] = route
    OBVIOUS
  <2>2. f[0] = <<>> /\ f[1] = f[0] \o line(<<route>>[1])
    BY <1>2, <2>1
  <2>3. QED
    BY <1>2, <2>1, <2>2
<1>4. QED
  BY <1>3

\* It runs along the arcs and no other way.
LEMMA LineAlongArcs ==
  ASSUME NEW route, NEW n \in Nat \ {0},
         route.arc # <<>>, Len(route.arc) = n, DOMAIN route.arc = 1 .. n,
         \A k \in 2 .. n : route.arc[k].source_node = route.arc[k - 1].destination_node
  PROVE  Segments(ToGeojson(<<route>>)) = Ways(route.arc)
<1> DEFINE from == [k \in 1 .. n |-> route.arc[k].source_node]
           end == route.arc[n].destination_node
           line == ToGeojson(<<route>>)
           Point == {from[k] : k \in 1 .. n} \cup {end}
<1>1. from \in Seq(Point) /\ Len(from) = n
  <2>1. from \in [1 .. n -> Point]
    OBVIOUS
  <2> HIDE DEF Point
  <2>2. from \in Seq(Point) /\ DOMAIN from = 1 .. n
    BY <2>1, SeqDef
  <2> HIDE DEF from
  <2>3. QED
    BY <2>2
<1>2. <<end>> \in Seq(Point) /\ Len(<<end>>) = 1 /\ <<end>>[1] = end
  OBVIOUS
<1>3. line = from \o <<end>>
  <2>1. line = <<>> \o (from \o <<end>>)
    BY OneLine
  <2> HIDE DEF line, from, end, Point
  <2>2. from \o <<end>> \in Seq(Point)
    BY <1>1, <1>2, ConcatProperties
  <2>3. QED
    BY <2>1, <2>2, ConcatEmptySeq
<1> HIDE DEF line, end, Point
<1>4. /\ Len(line) = n + 1
      /\ \A i \in 1 .. n + 1 : line[i] = IF i <= n THEN from[i] ELSE <<end>>[i - n]
  <2> HIDE DEF from
  <2>1. QED
    BY <1>1, <1>2, <1>3, ConcatProperties
<1>5. ASSUME NEW i \in 1 .. n
      PROVE  /\ line[i] = route.arc[i].source_node
             /\ line[i + 1] = route.arc[i].destination_node
  <2>1. line[i] = route.arc[i].source_node
    BY <1>4
  <2>2. CASE i = n
    BY <1>2, <1>4, <2>1, <2>2 DEF end
  <2>3. CASE i < n
    BY <1>4, <2>1, <2>3
  <2>4. QED
    BY <2>2, <2>3
<1> DEFINE arc == route.arc
<1>6. Segments(line) = Ways(arc)
  <2>1. \A i \in 1 .. n : /\ line[i] = arc[i].source_node
                         /\ line[i + 1] = arc[i].destination_node
    BY <1>5
  <2>2. Len(line) = n + 1 /\ DOMAIN arc = 1 .. n
    BY <1>4
  <2> HIDE DEF arc, line
  <2>3. Len(line) - 1 = n
    BY <2>2
  <2>4. Segments(line) = {<<line[i], line[i + 1]>> : i \in 1 .. n}
    BY <2>3, Zenon DEF Segments
  <2>5. Ways(arc) = {<<arc[i].source_node, arc[i].destination_node>> : i \in 1 .. n}
    BY <2>2, Zenon DEF Ways
  <2>6. \A i \in 1 .. n : <<line[i], line[i + 1]>> = <<arc[i].source_node, arc[i].destination_node>>
    BY <2>1, Zenon
  <2>7. ASSUME NEW way PROVE way \in Segments(line) <=> way \in Ways(arc)
    <3>1. way \in Segments(line) <=> \E i \in 1 .. n : way = <<line[i], line[i + 1]>>
      BY <2>4, Zenon
    <3>2. way \in Ways(arc)
            <=> \E i \in 1 .. n : way = <<arc[i].source_node, arc[i].destination_node>>
      BY <2>5, Zenon
    <3>3. QED
      BY <2>6, <3>1, <3>2, Zenon
  <2>8. Segments(line) \subseteq Ways(arc) /\ Ways(arc) \subseteq Segments(line)
    BY <2>7, Zenon
  <2>9. QED
    BY <2>8, Zenon
<1>7. QED
  BY <1>6 DEF line

-----------------------------------------------------------------------------

\* The bodies made of points, arcs and routes are what the schema says they are.
LEMMA PointPublished ==
  ASSUME NEW id
  PROVE  IsNode(JsonPoint(id))
BY DEF IsNode, JsonPoint, IsHash, IsString, IsFloat

\* The body of an arc, but for the key that no validator knows, is an arc.
LEMMA ArcPublished ==
  ASSUME NEW a
  PROVE  IsArc(UndescribedArc(JsonArc(a)))
<1> DEFINE arc == UndescribedArc(JsonArc(a))
           Key == {"distance", "start_datetime", "end_datetime", "transport",
                   "transport_provider", "transport_service_type",
                   "source_node", "destination_node"}
<1>1. DOMAIN arc = {"hash"} /\ DOMAIN arc.hash = Key
  BY DEF UndescribedArc, JsonArc
<1>2. \A key \in Key : ArcFits(key, arc.hash[key])
  <2>1. \A key \in Key : arc.hash[key] = JsonArc(a).hash[key]
    BY DEF UndescribedArc, JsonArc
  <2> HIDE DEF arc
  <2>2. \A key \in {"source_node", "destination_node"} : IsNode(arc.hash[key])
    <3>1. /\ arc.hash["source_node"] = JsonArc(a).hash["source_node"]
          /\ arc.hash["destination_node"] = JsonArc(a).hash["destination_node"]
      BY <2>1
    <3>2. /\ JsonArc(a).hash["source_node"] = JsonPoint(a.source_node)
          /\ JsonArc(a).hash["destination_node"] = JsonPoint(a.destination_node)
      BY DEF JsonArc
    <3>3. QED
      BY <3>1, <3>2, PointPublished, Zenon
  <2>3. "number" \in DOMAIN JsonArc(a).hash["distance"]
    BY DEF JsonArc
  <2>4. \A key \in Key \ {"source_node", "destination_node", "distance"} :
          "string" \in DOMAIN JsonArc(a).hash[key]
    <3>1. /\ DOMAIN JsonArc(a).hash["start_datetime"] = {"string"}
          /\ DOMAIN JsonArc(a).hash["end_datetime"] = {"string"}
          /\ DOMAIN JsonArc(a).hash["transport"] = {"string"}
          /\ DOMAIN JsonArc(a).hash["transport_provider"] = {"string"}
          /\ DOMAIN JsonArc(a).hash["transport_service_type"] = {"string"}
      BY DEF JsonArc
    <3>2. QED
      BY <3>1
  <2>5. QED
    BY <2>1, <2>2, <2>3, <2>4 DEF ArcFits, IsFloat, IsString
<1>3. QED
  BY <1>1, <1>2, Zenon DEF IsArc, IsHash

\* The body of a route is an itinerary, with the same exception.
LEMMA RoutePublished ==
  ASSUME NEW route
  PROVE  IsItinerary(UndescribedRoute(JsonRoute(route)))
<1> DEFINE arcs == [k \in DOMAIN route.arc |-> UndescribedArc(JsonArc(route.arc[k]))]
           hash == [arc |-> [array |-> arcs], eta |-> [string |-> route.eta],
                    distance |-> [number |-> route.distance]]
<1>1. UndescribedRoute(JsonRoute(route)) = [hash |-> hash]
  BY DEF UndescribedRoute, JsonRoute
<1>2. \A k \in DOMAIN arcs : IsArc(arcs[k])
  BY ArcPublished
<1>3. IsItinerary([hash |-> hash])
  <2> HIDE DEF arcs
  <2>1. QED
    BY <1>2 DEF IsItinerary, IsHash, IsString, IsFloat, IsArray, IsNull, Elements
<1>4. QED
  BY <1>1, <1>3

\* A value that is stored can be changed later as well.
LEMMA StoredLater ==
  ASSUME NEW h, NEW key, NEW other, other # key, NEW v, NEW w, NEW x
  PROVE  [Stored(Stored(h, key, v), other, x) EXCEPT ![key] = w] =
           Stored(Stored(h, key, w), other, x)
BY DEF Stored

\* Whatever the answer, the request with the answer in it is a response.
LEMMA BodyPublished ==
  ASSUME NEW d, IsRequest(d), NEW reply
  PROVE  IsResponse(Undescribed(Body(d, reply)))
<1> DEFINE itineraries == IF reply.status = "0"
                          THEN [r \in DOMAIN reply.routes |->
                                 UndescribedRoute(JsonRoute(reply.routes[r]))]
                          ELSE [r \in DOMAIN <<>> |-> UndescribedRoute(<<>>[r])]
           journey == Stored(Journey(d), "routes", [array |-> itineraries])
           hash == Stored(Stored(d.hash, "journey", [hash |-> journey]),
                          "response", Response(reply))
<1>1. Undescribed(Body(d, reply)) = [hash |-> hash]
  <2> DEFINE array == JsonRoutes(reply).array
             given == Stored(Journey(d), "routes", JsonRoutes(reply))
             body == Stored(Stored(d.hash, "journey", [hash |-> given]),
                            "response", Response(reply))
  <2>1. [r \in DOMAIN array |-> UndescribedRoute(array[r])] = itineraries
    BY DEF JsonRoutes
  <2> HIDE DEF itineraries, array
  <2>2. [given EXCEPT !["routes"] = [@ EXCEPT !["array"] = itineraries]] = journey
    <3>1. [JsonRoutes(reply) EXCEPT !["array"] = itineraries] = [array |-> itineraries]
      BY DEF JsonRoutes
    <3>2. given["routes"] = JsonRoutes(reply)
      BY DEF Stored
    <3>3. [given EXCEPT !["routes"] = [array |-> itineraries]] = journey
      BY DEF Stored
    <3>4. QED
      BY <3>1, <3>2, <3>3
  <2>3. [body EXCEPT !["journey"] = [@ EXCEPT !["hash"] = journey]] = hash
    <3>1. body["journey"] = [hash |-> given]
      BY DEF Stored
    <3>2. [[hash |-> given] EXCEPT !["hash"] = journey] = [hash |-> journey]
      OBVIOUS
    <3> HIDE DEF given, journey
    <3>3. QED
      BY <3>1, <3>2, StoredLater
  <2>4. body["journey"]["hash"] = given /\ given["routes"]["array"] = array
    BY DEF Stored, array
  <2>5. Body(d, reply) = [hash |-> body]
    BY DEF Body
  <2> HIDE DEF given, body, journey, hash
  <2>6. Undescribed([hash |-> body]) = [hash |-> hash]
    BY <2>1, <2>2, <2>3, <2>4 DEF Undescribed
  <2>7. QED
    BY <2>5, <2>6
<1>2. \A r \in DOMAIN itineraries : IsItinerary(itineraries[r])
  BY RoutePublished
<1>3. IsAnsweredJourney([hash |-> journey])
  <2> HIDE DEF itineraries
  <2>1. /\ DOMAIN journey = DOMAIN Journey(d) \cup {"routes"}
        /\ journey["routes"] = [array |-> itineraries]
        /\ \A key \in DOMAIN journey \ {"routes"} : journey[key] = Journey(d)[key]
    BY DEF Stored
  <2>2. /\ JourneyRequired \subseteq DOMAIN Journey(d)
        /\ DOMAIN Journey(d) \subseteq JourneyRequired \cup JourneyOptional
        /\ \A key \in DOMAIN Journey(d) : JourneyFits(key, Journey(d)[key])
    BY DEF IsRequest, IsJourney, IsHash, Journey
  <2> HIDE DEF journey
  <2>3. /\ IsArray(journey["routes"])
        /\ Elements(journey["routes"]) = {itineraries[r] : r \in DOMAIN itineraries}
    BY <2>1 DEF IsArray, IsNull, Elements
  <2>4. QED
    BY <1>2, <2>1, <2>2, <2>3 DEF IsAnsweredJourney, IsHash
<1>4. IsErrorStatus(Response(reply))
  <2>1. /\ DOMAIN Response(reply) = {"hash"}
        /\ DOMAIN Response(reply).hash = {"current_operation", "error_code", "error_message"}
        /\ DOMAIN Response(reply).hash["current_operation"] = {"string"}
        /\ DOMAIN Response(reply).hash["error_code"] = {"string"}
        /\ DOMAIN Response(reply).hash["error_message"] = {"string"}
    BY DEF Response
  <2>2. QED
    BY <2>1 DEF IsErrorStatus, IsHash, IsString
<1>5. QED
  BY <1>1, <1>3, <1>4 DEF IsResponse, IsHash, Stored, IsRequest

-----------------------------------------------------------------------------
(* The requests that share the planner.                                    *)

\* The stages of the synchronize block.
Inside == {"source", "target", "criterion", "solve", "unlock"}

\* The mutex is held by the one thread that is inside.
LockHeld == \A c \in Client : stage[c] \in Inside <=> semaphore = c

\* A thread serves a body, and past the validation a request.
RequestSent ==
  \A c \in Client :
    /\ stage[c] # "idle" => request[c] \in Document
    /\ stage[c] \notin {"idle", "validate"} => request[c] \in Request

\* A request is answered once, before its thread leaves the planner.
AnsweredOnce ==
  \A c \in Client :
    /\ stage[c] = "idle" => request[c] = NoRequest \/ routes[c] # NoReply
    /\ stage[c] \in {"validate", "lock", "source", "target", "criterion", "solve"} =>
         routes[c] = NoReply
    /\ stage[c] \in {"unlock", "render"} => routes[c] # NoReply

\* The locals of a thread are what the points of its request denote.
PointsResolved ==
  \A c \in Client :
    /\ stage[c] \in {"target", "criterion", "solve"} =>
         source[c] \in Denoted(Journey(request[c]).source_node)
    /\ stage[c] \in {"criterion", "solve"} =>
         target[c] \in Denoted(Journey(request[c]).destination_node)

\* A thread about to search has a time to start at, and its target is in the
\* vertex map of the graph it searches.
CriterionBuilt ==
  \A c \in Client : stage[c] = "solve" =>
    /\ TimeGiven(request[c])
    /\ \A call \in Calls(c) : target[c] \in DOMAIN vtxmap[call.model]

\* An id inserted and not used is the target of a thread about to search.
FreshPending ==
  \A m \in Model : \A i \in fresh[m] : \E c \in Client :
    /\ stage[c] = "solve"
    /\ target[c] = i
    /\ \E call \in Calls(c) : call.model = m

IInv ==
  /\ TypeOK
  /\ LockHeld
  /\ RequestSent
  /\ AnsweredOnce
  /\ PointsResolved
  /\ CriterionBuilt
  /\ FreshPending

-----------------------------------------------------------------------------

\* The planner makes one call of the engine at most, for a graph that is there.
LEMMA OneCall ==
  ASSUME NEW d \in Request, NEW x \in ExtensionCalls(Optimization(d)),
         NEW y \in ExtensionCalls(Optimization(d))
  PROVE  x = y /\ x.model \in Model
<1>1. x = y
  BY DEF ExtensionCalls
<1>2. QED
  BY <1>1, ModelAssumption

\* What is found is laid out route by route.
LEMMA RiceDomain ==
  ASSUME NEW found, NEW time, NEW mode
  PROVE  DOMAIN ToRice(found, time, mode) = DOMAIN found
BY DEF ToRice

\* A search comes to an answer: no route, or some.
LEMMA AnswerGiven ==
  ASSUME NEW m \in Model, NEW u \in Vertex, NEW v \in Vertex,
         NEW found \in Outcome[m][<<u, v>>], NEW d
  PROVE  /\ Answer(found, d).status \in {"0", "-2"}
         /\ Answer(found, d).status = "0" => Answer(found, d).routes # <<>>
         /\ Answer(found, d) # NoReply
<1>1. CASE found = <<>>
  BY <1>1 DEF Answer, Refused, NoReply
<1>2. CASE found # <<>>
  <2> DEFINE rice == ToRice(found, RTime(Journey(d).start_datetime.string),
                            Transport(Optimization(d)))
  <2>1. DOMAIN rice = {1}
    <3>1. PICK edges : found = <<edges>>
      BY <1>2, OutcomeAssumption
    <3>2. DOMAIN <<edges>> = {1}
      OBVIOUS
    <3>3. QED
      BY <3>1, <3>2, RiceDomain
  <2>2. Answer(found, d) = [status |-> "0", routes |-> rice]
    BY <1>2 DEF Answer
  <2> HIDE DEF rice
  <2>3. rice # <<>>
    BY <2>1
  <2>4. Answer(found, d).status = "0" /\ Answer(found, d).routes = rice
    BY <2>2
  <2>5. NoReply.status = "none"
    BY DEF NoReply
  <2>6. QED
    BY <2>3, <2>4, <2>5
<1>3. QED
  BY <1>1, <1>2

\* What a point of a request denotes is a node id.
LEMMA DenotedId ==
  ASSUME NEW d \in Request
  PROVE  /\ Denoted(Journey(d).source_node) \subseteq Id
         /\ Denoted(Journey(d).destination_node) \subseteq Id
BY PointAssumption

\* Every id stands for a vertex of every graph.
LEMMA DenotationVertex ==
  ASSUME NEW m \in Model, NEW i
  PROVE  Denotation(m, i) \in Vertex
BY VertexAssumption DEF Denotation

\* Every client is idle, the mutex free and every id its own vertex.
LEMMA InitInv == Init => IInv
<1> SUFFICES ASSUME Init PROVE IInv
  OBVIOUS
<1>1. ThreadType
  BY DEF Init, ThreadType, Stage
<1>2. ReplyType
  BY DEF Init, ReplyType, NoReply
<1>3. GraphType
  BY VertexAssumption DEF Init, GraphType, Denotation
<1>4. LockHeld /\ RequestSent /\ AnsweredOnce /\ PointsResolved /\ CriterionBuilt
  BY SentinelAssumption
  DEF Init, LockHeld, RequestSent, AnsweredOnce, PointsResolved, CriterionBuilt, Inside
<1>5. FreshPending
  BY DEF Init, FreshPending
<1>6. QED
  BY <1>1, <1>2, <1>3, <1>4, <1>5 DEF IInv, TypeOK

\* Every step of a thread keeps the invariant: one case per action.
LEMMA StepInv == ASSUME IInv, [Next]_vars PROVE IInv'
<1> USE DEF IInv, TypeOK, Goto
<1>1. ASSUME NEW c \in Client, Submit(c) PROVE IInv'
  <2>1. ThreadType'
    BY <1>1, SentinelAssumption DEF Submit, ThreadType, Stage, DropLocals
  <2>2. ReplyType'
    BY <1>1 DEF Submit, ReplyType, Refused, NoReply
  <2>3. GraphType'
    BY <1>1 DEF Submit, GraphType
  <2>4. LockHeld'
    BY <1>1, SentinelAssumption DEF Submit, ThreadType, LockHeld, Inside
  <2>5. RequestSent'
    BY <1>1 DEF Submit, ThreadType, RequestSent, Request
  <2>6. AnsweredOnce'
    BY <1>1 DEF Submit, ThreadType, ReplyType, AnsweredOnce, Refused, NoReply
  <2>7. PointsResolved'
    BY <1>1 DEF Submit, ThreadType, PointsResolved, DropLocals
  <2>8. CriterionBuilt'
    BY <1>1 DEF Submit, ThreadType, CriterionBuilt, Calls, DropLocals
  <2>9. FreshPending'
    BY <1>1 DEF Submit, ThreadType, FreshPending, Calls, DropLocals
  <2>10. QED
    BY <2>1, <2>2, <2>3, <2>4, <2>5, <2>6, <2>7, <2>8, <2>9
<1>2. ASSUME NEW c \in Client, Validate(c) PROVE IInv'
  <2>1. ThreadType'
    BY <1>2, SentinelAssumption DEF Validate, ThreadType, Stage, DropLocals
  <2>2. ReplyType'
    BY <1>2 DEF Validate, ReplyType, Refused, NoReply
  <2>3. GraphType'
    BY <1>2 DEF Validate, GraphType
  <2>4. LockHeld'
    BY <1>2, SentinelAssumption DEF Validate, ThreadType, LockHeld, Inside
  <2>5. RequestSent'
    BY <1>2 DEF Validate, ThreadType, RequestSent, Request
  <2>6. AnsweredOnce'
    BY <1>2 DEF Validate, ThreadType, ReplyType, AnsweredOnce, Refused, NoReply
  <2>7. PointsResolved'
    BY <1>2 DEF Validate, ThreadType, PointsResolved, DropLocals
  <2>8. CriterionBuilt'
    BY <1>2 DEF Validate, ThreadType, CriterionBuilt, Calls, DropLocals
  <2>9. FreshPending'
    BY <1>2 DEF Validate, ThreadType, FreshPending, Calls, DropLocals
  <2>10. QED
    BY <2>1, <2>2, <2>3, <2>4, <2>5, <2>6, <2>7, <2>8, <2>9
<1>3. ASSUME NEW c \in Client, Lock(c) PROVE IInv'
  <2>1. ThreadType'
    BY <1>3, SentinelAssumption DEF Lock, ThreadType, Stage, DropLocals
  <2>2. ReplyType'
    BY <1>3 DEF Lock, ReplyType, Refused, NoReply
  <2>3. GraphType'
    BY <1>3 DEF Lock, GraphType
  <2>4. LockHeld'
    BY <1>3, SentinelAssumption DEF Lock, ThreadType, LockHeld, Inside
  <2>5. RequestSent'
    BY <1>3 DEF Lock, ThreadType, RequestSent, Request
  <2>6. AnsweredOnce'
    BY <1>3 DEF Lock, ThreadType, ReplyType, AnsweredOnce, Refused, NoReply
  <2>7. PointsResolved'
    BY <1>3 DEF Lock, ThreadType, PointsResolved, DropLocals
  <2>8. CriterionBuilt'
    BY <1>3 DEF Lock, ThreadType, CriterionBuilt, Calls, DropLocals
  <2>9. FreshPending'
    BY <1>3 DEF Lock, ThreadType, FreshPending, Calls, DropLocals
  <2>10. QED
    BY <2>1, <2>2, <2>3, <2>4, <2>5, <2>6, <2>7, <2>8, <2>9
<1>4. ASSUME NEW c \in Client, ResolveSource(c) PROVE IInv'
  <2>1. ThreadType'
    <3>1. request[c] \in Request
      BY <1>4 DEF ResolveSource, RequestSent
    <3>2. QED
      BY <1>4, <3>1, DenotedId DEF ResolveSource, ThreadType, Stage
  <2>2. ReplyType'
    BY <1>4 DEF ResolveSource, ReplyType, Refused, NoReply
  <2>3. GraphType'
    BY <1>4 DEF ResolveSource, GraphType
  <2>4. LockHeld'
    BY <1>4, SentinelAssumption DEF ResolveSource, ThreadType, LockHeld, Inside
  <2>5. RequestSent'
    BY <1>4 DEF ResolveSource, ThreadType, RequestSent, Request
  <2>6. AnsweredOnce'
    BY <1>4 DEF ResolveSource, ThreadType, ReplyType, AnsweredOnce, Refused, NoReply
  <2>7. PointsResolved'
    BY <1>4 DEF ResolveSource, ThreadType, PointsResolved, DropLocals
  <2>8. CriterionBuilt'
    BY <1>4 DEF ResolveSource, ThreadType, CriterionBuilt, Calls, DropLocals
  <2>9. FreshPending'
    BY <1>4 DEF ResolveSource, ThreadType, FreshPending, Calls, DropLocals
  <2>10. QED
    BY <2>1, <2>2, <2>3, <2>4, <2>5, <2>6, <2>7, <2>8, <2>9
<1>5. ASSUME NEW c \in Client, ResolveTarget(c) PROVE IInv'
  <2>1. ThreadType'
    <3>1. request[c] \in Request
      BY <1>5 DEF ResolveTarget, RequestSent
    <3>2. QED
      BY <1>5, <3>1, DenotedId DEF ResolveTarget, ThreadType, Stage
  <2>2. ReplyType'
    BY <1>5 DEF ResolveTarget, ReplyType, Refused, NoReply
  <2>3. GraphType'
    BY <1>5 DEF ResolveTarget, GraphType
  <2>4. LockHeld'
    BY <1>5, SentinelAssumption DEF ResolveTarget, ThreadType, LockHeld, Inside
  <2>5. RequestSent'
    BY <1>5 DEF ResolveTarget, ThreadType, RequestSent, Request
  <2>6. AnsweredOnce'
    BY <1>5 DEF ResolveTarget, ThreadType, ReplyType, AnsweredOnce, Refused, NoReply
  <2>7. PointsResolved'
    BY <1>5 DEF ResolveTarget, ThreadType, PointsResolved, DropLocals
  <2>8. CriterionBuilt'
    BY <1>5 DEF ResolveTarget, ThreadType, CriterionBuilt, Calls, DropLocals
  <2>9. FreshPending'
    BY <1>5 DEF ResolveTarget, ThreadType, FreshPending, Calls, DropLocals
  <2>10. QED
    BY <2>1, <2>2, <2>3, <2>4, <2>5, <2>6, <2>7, <2>8, <2>9
<1>6. ASSUME NEW c \in Client, Fails(c) PROVE IInv'
  <2>1. ThreadType'
    BY <1>6, SentinelAssumption DEF Fails, ThreadType, Stage, DropLocals
  <2>2. ReplyType'
    BY <1>6 DEF Fails, ReplyType, Refused, NoReply
  <2>3. GraphType'
    BY <1>6 DEF Fails, GraphType
  <2>4. LockHeld'
    BY <1>6, SentinelAssumption DEF Fails, Raises, ThreadType, LockHeld, Inside
  <2>5. RequestSent'
    BY <1>6 DEF Fails, ThreadType, RequestSent, Request
  <2>6. AnsweredOnce'
    BY <1>6 DEF Fails, ThreadType, ReplyType, AnsweredOnce, Refused, NoReply
  <2>7. PointsResolved'
    BY <1>6 DEF Fails, ThreadType, PointsResolved, DropLocals
  <2>8. CriterionBuilt'
    BY <1>6 DEF Fails, ThreadType, CriterionBuilt, Calls, DropLocals
  <2>9. FreshPending'
    BY <1>6 DEF Fails, Raises, ThreadType, FreshPending, Calls, DropLocals
  <2>10. QED
    BY <2>1, <2>2, <2>3, <2>4, <2>5, <2>6, <2>7, <2>8, <2>9
<1>7. ASSUME NEW c \in Client, Unsupported(c) PROVE IInv'
  <2>1. ThreadType'
    BY <1>7, SentinelAssumption DEF Unsupported, ThreadType, Stage, DropLocals
  <2>2. ReplyType'
    BY <1>7 DEF Unsupported, ReplyType, Refused, NoReply
  <2>3. GraphType'
    BY <1>7 DEF Unsupported, GraphType
  <2>4. LockHeld'
    BY <1>7, SentinelAssumption DEF Unsupported, ThreadType, LockHeld, Inside
  <2>5. RequestSent'
    BY <1>7 DEF Unsupported, ThreadType, RequestSent, Request
  <2>6. AnsweredOnce'
    BY <1>7 DEF Unsupported, ThreadType, ReplyType, AnsweredOnce, Refused, NoReply
  <2>7. PointsResolved'
    BY <1>7 DEF Unsupported, ThreadType, PointsResolved, DropLocals
  <2>8. CriterionBuilt'
    BY <1>7 DEF Unsupported, ThreadType, CriterionBuilt, Calls, DropLocals
  <2>9. FreshPending'
    BY <1>7 DEF Unsupported, ThreadType, FreshPending, Calls, DropLocals
  <2>10. QED
    BY <2>1, <2>2, <2>3, <2>4, <2>5, <2>6, <2>7, <2>8, <2>9
<1>8. ASSUME NEW c \in Client, Criterion(c) PROVE IInv'
  <2>a. request[c] \in Request /\ target[c] \in Id
    BY <1>8, DenotedId DEF Criterion, RequestSent, PointsResolved
  <2>b. PICK call \in Calls(c) :
          /\ vtxmap' = [vtxmap EXCEPT ![call.model] = InsertTarget(@, target[c])]
          /\ fresh' = [fresh EXCEPT ![call.model] =
                         @ \cup ({target[c]} \ DOMAIN vtxmap[call.model])]
    BY <1>8 DEF Criterion
  <2>c. call.model \in Model /\ \A other \in Calls(c) : other = call
    BY <2>a, OneCall DEF Calls
  <2>d. \A m \in Model :
          DOMAIN vtxmap'[m] = IF m = call.model THEN DOMAIN vtxmap[m] \cup {target[c]}
                              ELSE DOMAIN vtxmap[m]
    BY <2>b, <2>c DEF GraphType, InsertTarget
  <2>1. ThreadType'
    BY <1>8, SentinelAssumption DEF Criterion, ThreadType, Stage, DropLocals
  <2>2. ReplyType'
    BY <1>8 DEF Criterion, ReplyType, Refused, NoReply
  <2>3. GraphType'
    <3>1. ASSUME NEW m \in Model, NEW i \in DOMAIN vtxmap'[m]
          PROVE  vtxmap'[m][i] = Denotation(m, i)
      <4>1. CASE i \in DOMAIN vtxmap[m]
        BY <2>b, <2>c, <4>1 DEF GraphType, InsertTarget
      <4>2. CASE i \notin DOMAIN vtxmap[m]
        <5>1. m = call.model /\ i = target[c]
          BY <2>d, <4>2
        <5>2. vtxmap'[m][i] = FirstVertex
          BY <2>b, <2>c, <4>2, <5>1 DEF GraphType, InsertTarget
        <5>3. i \notin DOMAIN VertexOf[m]
          BY <4>2 DEF GraphType
        <5>4. QED
          BY <5>2, <5>3 DEF Denotation
      <4>3. QED
        BY <4>1, <4>2
    <3>2. DOMAIN vtxmap' = Model /\ fresh' \in [Model -> SUBSET Id]
      BY <2>a, <2>b, <2>c DEF GraphType
    <3>3. \A m \in Model : /\ DOMAIN VertexOf[m] \subseteq DOMAIN vtxmap'[m]
                          /\ DOMAIN vtxmap'[m] \subseteq Id
      <4>1. \A m \in Model : /\ DOMAIN VertexOf[m] \subseteq DOMAIN vtxmap[m]
                            /\ DOMAIN vtxmap[m] \subseteq Id
        BY DEF GraphType
      <4>2. QED
        BY <2>a, <2>d, <4>1
    <3>4. QED
      BY <3>1, <3>2, <3>3, Zenon DEF GraphType
  <2>4. LockHeld'
    BY <1>8, SentinelAssumption DEF Criterion, ThreadType, LockHeld, Inside
  <2>5. RequestSent'
    BY <1>8 DEF Criterion, ThreadType, RequestSent, Request
  <2>6. AnsweredOnce'
    BY <1>8 DEF Criterion, ThreadType, ReplyType, AnsweredOnce, Refused, NoReply
  <2>7. PointsResolved'
    BY <1>8 DEF Criterion, ThreadType, PointsResolved, DropLocals
  <2>8. CriterionBuilt'
    <3> SUFFICES ASSUME NEW d \in Client, stage'[d] = "solve"
                 PROVE  /\ TimeGiven(request[d])
                        /\ \A x \in Calls(d) : target[d] \in DOMAIN vtxmap'[x.model]
      BY <1>8 DEF Criterion, CriterionBuilt, Calls
    <3>1. CASE d = c
      BY <1>8, <2>c, <2>d, <3>1 DEF Criterion
    <3>2. CASE d # c
      <4>1. stage[d] = "solve" /\ request[d] \in Request
        BY <1>8, <3>2 DEF Criterion, ThreadType, RequestSent
      <4>2. QED
        BY <2>d, <4>1, OneCall DEF CriterionBuilt, Calls
    <3>3. QED
      BY <3>1, <3>2
  <2>9. FreshPending'
    BY <1>8 DEF Criterion, ThreadType, FreshPending, Calls, DropLocals
  <2>10. QED
    BY <2>1, <2>2, <2>3, <2>4, <2>5, <2>6, <2>7, <2>8, <2>9
<1>9. ASSUME NEW c \in Client, Solve(c) PROVE IInv'
  <2>a. request[c] \in Request
    BY <1>9 DEF Solve, RequestSent
  <2>b. PICK call \in Calls(c) :
          /\ IF KnownPoints(c, call.model)
             THEN \E found \in Outcome[call.model][<<vtxmap[call.model][source[c]],
                                                     vtxmap[call.model][target[c]]>>] :
                    routes' = [routes EXCEPT ![c] = Answer(found, request[c])]
             ELSE routes' = [routes EXCEPT ![c] = Refused("-2")]
          /\ fresh' = [fresh EXCEPT ![call.model] = @ \ {target[c]}]
    BY <1>9 DEF Solve
  <2>c. call.model \in Model /\ \A other \in Calls(c) : other = call
    BY <2>a, OneCall DEF Calls
  <2>d. PICK reply :
          /\ routes' = [routes EXCEPT ![c] = reply]
          /\ reply.status \in {"0", "-2"}
          /\ reply.status = "0" => reply.routes # <<>>
          /\ reply # NoReply
    <3>1. CASE KnownPoints(c, call.model)
      <4>1. \A i \in {source[c], target[c]} : vtxmap[call.model][i] \in Vertex
        BY <2>c, <3>1, DenotationVertex DEF GraphType, KnownPoints
      <4>2. PICK found \in Outcome[call.model][<<vtxmap[call.model][source[c]],
                                                vtxmap[call.model][target[c]]>>] :
              routes' = [routes EXCEPT ![c] = Answer(found, request[c])]
        BY <2>b, <3>1
      <4>3. QED
        BY <2>c, <4>1, <4>2, AnswerGiven
    <3>2. CASE ~ KnownPoints(c, call.model)
      BY <2>b, <3>2 DEF Refused, NoReply
    <3>3. QED
      BY <3>1, <3>2
  <2>1. ThreadType'
    BY <1>9, SentinelAssumption DEF Solve, ThreadType, Stage, DropLocals
  <2>2. ReplyType'
    BY <2>d DEF ReplyType
  <2>3. GraphType'
    <3>1. /\ vtxmap' = vtxmap
          /\ fresh' = [fresh EXCEPT ![call.model] = @ \ {target[c]}]
      BY <1>9, <2>b DEF Solve
    <3>2. \A m \in Model : fresh'[m] \subseteq fresh[m]
      BY <2>c, <3>1 DEF GraphType
    <3>3. QED
      BY <3>1, <3>2 DEF GraphType
  <2>4. LockHeld'
    BY <1>9, SentinelAssumption DEF Solve, ThreadType, LockHeld, Inside
  <2>5. RequestSent'
    BY <1>9 DEF Solve, ThreadType, RequestSent, Request
  <2>6. AnsweredOnce'
    BY <1>9, <2>d DEF Solve, ThreadType, ReplyType, AnsweredOnce
  <2>7. PointsResolved'
    BY <1>9 DEF Solve, ThreadType, PointsResolved, DropLocals
  <2>8. CriterionBuilt'
    BY <1>9 DEF Solve, ThreadType, CriterionBuilt, Calls, DropLocals
  <2>9. FreshPending'
    <3> SUFFICES ASSUME NEW m \in Model, NEW i \in fresh'[m]
                 PROVE  \E d \in Client : /\ stage'[d] = "solve"
                                          /\ target'[d] = i
                                          /\ \E x \in Calls(d)' : x.model = m
      BY DEF FreshPending
    <3>1. i \in fresh[m] /\ (m = call.model => i # target[c])
      BY <2>b, <2>c DEF GraphType
    <3>2. PICK d \in Client : /\ stage[d] = "solve"
                              /\ target[d] = i
                              /\ \E x \in Calls(d) : x.model = m
      BY <3>1 DEF FreshPending
    <3>3. d # c
      BY <2>c, <3>1, <3>2
    <3>4. QED
      BY <1>9, <3>2, <3>3 DEF Solve, ThreadType, Calls
  <2>10. QED
    BY <2>1, <2>2, <2>3, <2>4, <2>5, <2>6, <2>7, <2>8, <2>9
<1>10. ASSUME NEW c \in Client, Unlock(c) PROVE IInv'
  <2>1. ThreadType'
    BY <1>10, SentinelAssumption DEF Unlock, ThreadType, Stage, DropLocals
  <2>2. ReplyType'
    BY <1>10 DEF Unlock, ReplyType, Refused, NoReply
  <2>3. GraphType'
    BY <1>10 DEF Unlock, GraphType
  <2>4. LockHeld'
    BY <1>10, SentinelAssumption DEF Unlock, ThreadType, LockHeld, Inside
  <2>5. RequestSent'
    BY <1>10 DEF Unlock, ThreadType, RequestSent, Request
  <2>6. AnsweredOnce'
    BY <1>10 DEF Unlock, ThreadType, ReplyType, AnsweredOnce, Refused, NoReply
  <2>7. PointsResolved'
    BY <1>10 DEF Unlock, ThreadType, PointsResolved, DropLocals
  <2>8. CriterionBuilt'
    BY <1>10 DEF Unlock, ThreadType, CriterionBuilt, Calls, DropLocals
  <2>9. FreshPending'
    BY <1>10 DEF Unlock, ThreadType, FreshPending, Calls, DropLocals
  <2>10. QED
    BY <2>1, <2>2, <2>3, <2>4, <2>5, <2>6, <2>7, <2>8, <2>9
<1>11. ASSUME NEW c \in Client, Render(c) PROVE IInv'
  <2>1. ThreadType'
    BY <1>11, SentinelAssumption DEF Render, ThreadType, Stage, DropLocals
  <2>2. ReplyType'
    BY <1>11 DEF Render, ReplyType, Refused, NoReply
  <2>3. GraphType'
    BY <1>11 DEF Render, GraphType
  <2>4. LockHeld'
    BY <1>11, SentinelAssumption DEF Render, ThreadType, LockHeld, Inside
  <2>5. RequestSent'
    BY <1>11 DEF Render, ThreadType, RequestSent, Request
  <2>6. AnsweredOnce'
    BY <1>11 DEF Render, ThreadType, ReplyType, AnsweredOnce, Refused, NoReply
  <2>7. PointsResolved'
    BY <1>11 DEF Render, ThreadType, PointsResolved, DropLocals
  <2>8. CriterionBuilt'
    BY <1>11 DEF Render, ThreadType, CriterionBuilt, Calls, DropLocals
  <2>9. FreshPending'
    BY <1>11 DEF Render, ThreadType, FreshPending, Calls, DropLocals
  <2>10. QED
    BY <2>1, <2>2, <2>3, <2>4, <2>5, <2>6, <2>7, <2>8, <2>9
<1>12. CASE UNCHANGED vars
  BY <1>12 DEF vars, ThreadType, ReplyType, GraphType, LockHeld, RequestSent, AnsweredOnce,
     PointsResolved, CriterionBuilt, FreshPending, Calls
<1>13. QED
  BY <1>1, <1>2, <1>3, <1>4, <1>5, <1>6, <1>7, <1>8, <1>9, <1>10, <1>11, <1>12 DEF Next, Serve

\* The invariant holds throughout, for any number of clients.
LEMMA Invariant == Spec => []IInv
<1>1. Init => IInv
  BY InitInv
<1>2. IInv /\ [Next]_vars => IInv'
  BY StepInv
<1>3. QED
  BY <1>1, <1>2, PTL DEF Spec

\* Every variable keeps a value of its kind, and no search ever changes what
\* the graphs were built with, whatever ids the clients make up.
THEOREM TypeCorrect == Spec => []TypeOK
<1>1. IInv => TypeOK
  BY DEF IInv
<1>2. QED
  BY <1>1, Invariant, PTL

\* The mutex around the planner: two requests are never inside at once, and an
\* exception does not leave it held.
Excluded ==
  /\ \A c, d \in Client : stage[c] \in Inside /\ stage[d] \in Inside => c = d
  /\ \A c \in Client : stage[c] = "idle" => semaphore # c

\* api_controller holds the mutex from the look-ups to the reply of the planner:
\* no two threads are ever between them.
THEOREM PlannerExclusive == Spec => []Excluded
<1>1. IInv => Excluded
  BY DEF IInv, LockHeld, Inside, Excluded
<1>2. QED
  BY <1>1, Invariant, PTL

-----------------------------------------------------------------------------

\* The vocabulary of the promise is that of the server.
LEMMA SameWords ==
  /\ Atomic!Request = Request
  /\ Atomic!NoReply = NoReply /\ Atomic!NoRequest = NoRequest
  /\ \A x : Atomic!Refused(x) = Refused(x)
  /\ \A x : Atomic!TimeGiven(x) <=> TimeGiven(x)
  /\ \A x : Atomic!LookedUp(x) <=> LookedUp(x)
  /\ \A x : Atomic!Denoted(x) = Denoted(x)
  /\ \A x, y : Atomic!Denotation(x, y) = Denotation(x, y)
  /\ \A x, y : Atomic!Answer(x, y) = Answer(x, y)
  /\ \A x : Atomic!ExtensionCalls(x) = ExtensionCalls(x)
  /\ \A x : Atomic!Journey(x) = Journey(x)
  /\ \A x : Atomic!Optimization(x) = Optimization(x)
<1>1. \A x : Atomic!IsRequest(x) <=> IsRequest(x)
  BY DEF IsRequest, IsJourney, JourneyFits, JourneyRequired, JourneyOptional, IsNode, IsHash,
         IsString, IsFloat,
         Atomic!IsRequest, Atomic!IsJourney, Atomic!JourneyFits, Atomic!JourneyRequired,
         Atomic!JourneyOptional, Atomic!IsNode, Atomic!IsHash, Atomic!IsString, Atomic!IsFloat
<1>2. Atomic!Request = Request
  BY <1>1 DEF Request, Atomic!Request
<1>3. /\ Atomic!NoReply = NoReply /\ Atomic!NoRequest = NoRequest
      /\ \A x : Atomic!Refused(x) = Refused(x)
  BY DEF NoReply, NoRequest, Refused,
         Atomic!NoReply, Atomic!NoRequest, Atomic!Refused
<1>4. \A x : /\ Atomic!Journey(x) = Journey(x)
             /\ Atomic!Optimization(x) = Optimization(x)
             /\ Atomic!LookedUp(x) <=> LookedUp(x)
  BY DEF Journey, Optimization, LookedUp,
         Atomic!Journey, Atomic!Optimization, Atomic!LookedUp
<1>5. \A x : (Atomic!TimeGiven(x) <=> TimeGiven(x)) /\ Atomic!Denoted(x) = Denoted(x)
  BY <1>4 DEF TimeGiven, Denoted,
         Atomic!TimeGiven, Atomic!Denoted
<1>6. \A x, y : Atomic!Denotation(x, y) = Denotation(x, y)
  BY DEF Denotation,
         Atomic!Denotation
<1>7. \A x : Atomic!ExtensionCalls(x) = ExtensionCalls(x)
  BY DEF ExtensionCalls, FootCall, CarCall,
         Atomic!ExtensionCalls, Atomic!FootCall, Atomic!CarCall
<1>8. \A x, y : Atomic!Answer(x, y) = Answer(x, y)
  BY DEF Answer, Refused, ToRice, RTime, Transport, Optimization, Journey, Itinerary, Elapsed, Travel,
         AverageSpeed, Covered, Clock,
         Atomic!Answer, Atomic!Refused, Atomic!ToRice, Atomic!RTime, Atomic!Transport,
         Atomic!Optimization, Atomic!Journey, Atomic!Itinerary, Atomic!Elapsed, Atomic!Travel,
         Atomic!AverageSpeed, Atomic!Covered, Atomic!Clock
<1>9. QED
  BY <1>2, <1>3, <1>4, <1>5, <1>6, <1>7, <1>8

\* The ids that count as known in the graph m.
Alias(m) == (DOMAIN vtxmap[m] \ DOMAIN VertexOf[m]) \ fresh[m]

\* A server that starts is a promise that starts.
LEMMA InitRefined == Init => Atomic!AInit
BY SameWords DEF Init, Atomic!AInit

\* A step that leaves the requests, the replies and the graphs alone is none of
\* the promise.
LEMMA Stutter ==
  ASSUME UNCHANGED <<request, routes, vtxmap, fresh>>
  PROVE  UNCHANGED Atomic!avars
BY DEF Atomic!avars

\* The insertion of the target shows to nobody.
LEMMA CriterionHidden ==
  ASSUME IInv, NEW c \in Client, Criterion(c)
  PROVE  UNCHANGED Atomic!avars
<1>1. PICK call \in Calls(c) :
        /\ vtxmap' = [vtxmap EXCEPT ![call.model] = InsertTarget(@, target[c])]
        /\ fresh' = [fresh EXCEPT ![call.model] =
                       @ \cup ({target[c]} \ DOMAIN vtxmap[call.model])]
  BY DEF Criterion
<1>2. ASSUME NEW m \in Model
      PROVE  Alias(m)' = Alias(m)
  <2>1. CASE m = call.model
    <3>1. /\ DOMAIN vtxmap'[m] = DOMAIN vtxmap[m] \cup {target[c]}
          /\ fresh'[m] = fresh[m] \cup ({target[c]} \ DOMAIN vtxmap[m])
      BY <1>1, <2>1 DEF InsertTarget, IInv, TypeOK, GraphType
    <3>2. QED
      BY <3>1 DEF Alias
  <2>2. CASE m # call.model
    BY <1>1, <2>2 DEF Alias, IInv, TypeOK, GraphType
  <2>3. QED
    BY <2>1, <2>2
<1>3. QED
  BY <1>2, Zenon DEF Atomic!avars, Alias, Criterion

\* Solve is the step that answers: the source is known if the graph was built
\* with it, or some earlier search used it as its target, or it is the target
\* of this search.
LEMMA SolveRefined ==
  ASSUME IInv, NEW c \in Client, Solve(c)
  PROVE  Atomic!ASearch(c)
<1>1. PICK call \in Calls(c) :
        /\ IF KnownPoints(c, call.model)
           THEN \E found \in Outcome[call.model][<<vtxmap[call.model][source[c]],
                                                   vtxmap[call.model][target[c]]>>] :
                  routes' = [routes EXCEPT ![c] = Answer(found, request[c])]
           ELSE routes' = [routes EXCEPT ![c] = Refused("-2")]
        /\ fresh' = [fresh EXCEPT ![call.model] = @ \ {target[c]}]
  BY DEF Solve
<1>2. /\ request[c] \in Request /\ TimeGiven(request[c])
      /\ request[c] # NoRequest /\ routes[c] = NoReply
      /\ source[c] \in Denoted(Journey(request[c]).source_node)
      /\ target[c] \in Denoted(Journey(request[c]).destination_node)
  BY SentinelAssumption
  DEF Solve, IInv, RequestSent, Request, CriterionBuilt, AnsweredOnce, PointsResolved
<1>3. call.model \in Model /\ target[c] \in DOMAIN vtxmap[call.model]
  BY <1>1, <1>2, OneCall DEF Solve, Calls, IInv, CriterionBuilt
<1>4. fresh[call.model] \subseteq {target[c]}
  <2> SUFFICES ASSUME NEW i \in fresh[call.model] PROVE i = target[c]
    OBVIOUS
  <2>1. PICK b \in Client : stage[b] = "solve" /\ target[b] = i
    BY <1>3 DEF IInv, FreshPending
  <2>2. b = c
    BY <2>1 DEF Solve, IInv, LockHeld, Inside
  <2>3. QED
    BY <2>1, <2>2
<1>5. Alias(call.model)' = Alias(call.model) \cup ({target[c]} \ DOMAIN VertexOf[call.model])
  BY <1>1, <1>3, <1>4 DEF Solve, Alias, IInv, TypeOK, GraphType
<1>6. \A m \in Model : m # call.model => Alias(m)' = Alias(m)
  BY <1>1, <1>3 DEF Solve, Alias, IInv, TypeOK, GraphType
<1>7. source[c] \in DOMAIN VertexOf[call.model] \cup Alias(call.model)'
        <=> KnownPoints(c, call.model)
  BY <1>1, <1>3, <1>4 DEF Solve, Alias, KnownPoints, IInv, TypeOK, GraphType
<1> DEFINE m == call.model
           src == source[c]
           trg == target[c]
           aliases == [k \in Model |-> (DOMAIN vtxmap[k] \ DOMAIN VertexOf[k]) \ fresh[k]]
<1>8. aliases' = [aliases EXCEPT ![m] = @ \cup ({trg} \ DOMAIN VertexOf[m])]
  BY <1>3, <1>5, <1>6 DEF Alias
<1>9. aliases'[m] = Alias(m)'
  BY <1>3 DEF Alias
<1>10. PICK found \in Outcome[m][<<Denotation(m, src), Denotation(m, trg)>>] :
         routes' = [routes EXCEPT ![c] =
           IF src \in DOMAIN VertexOf[m] \cup aliases'[m]
           THEN Answer(found, request[c]) ELSE Refused("-2")]
  <2>1. CASE KnownPoints(c, m)
    <3>1. vtxmap[m][src] = Denotation(m, src) /\ vtxmap[m][trg] = Denotation(m, trg)
      BY <1>3, <2>1 DEF KnownPoints, IInv, TypeOK, GraphType
    <3>2. QED
      BY <1>1, <1>7, <1>9, <2>1, <3>1
  <2>2. CASE ~ KnownPoints(c, m)
    <3>1. Outcome[m][<<Denotation(m, src), Denotation(m, trg)>>] # {}
      BY <1>3, DenotationVertex, OutcomeAssumption
    <3>2. QED
      BY <1>1, <1>7, <1>9, <2>2, <3>1
  <2>3. QED
    BY <2>1, <2>2
<1> HIDE DEF m, src, trg, aliases
<1>11. /\ call \in Atomic!Call(c)
       /\ src \in Atomic!Denoted(Atomic!Point(c, "source_node"))
       /\ trg \in Atomic!Denoted(Atomic!Point(c, "destination_node"))
  BY <1>1, <1>2, SameWords DEF Calls, Atomic!Call, Atomic!Point, src, trg
<1>12. Atomic!Waiting(c) /\ request[c] \in Atomic!Request /\ Atomic!TimeGiven(request[c])
  BY <1>2, SameWords DEF Atomic!Waiting
<1>13. QED
  BY <1>8, <1>10, <1>11, <1>12, SameWords DEF Solve, Atomic!ASearch, aliases, m

\* The answers that take no search.
LEMMA RefusalsRefined ==
  ASSUME IInv, NEW c \in Client
  PROVE  /\ Validate(c) => Atomic!ARefuse(c) \/ UNCHANGED Atomic!avars
         /\ Fails(c) => Atomic!AFail(c)
         /\ Unsupported(c) => Atomic!AUnsupported(c)
<1>1. ASSUME stage[c] \notin {"idle", "unlock", "render"}
      PROVE  Atomic!Waiting(c)
  BY <1>1, SentinelAssumption, SameWords
  DEF Atomic!Waiting, IInv, TypeOK, ThreadType, Stage, RequestSent, AnsweredOnce, Request
<1>2. ASSUME Validate(c)
      PROVE  Atomic!ARefuse(c) \/ UNCHANGED Atomic!avars
  <2>1. CASE IsRequest(request[c])
    BY <1>2, <2>1, Stutter DEF Validate
  <2>2. CASE ~ IsRequest(request[c])
    BY <1>1, <1>2, <2>2, SameWords DEF Validate, Atomic!ARefuse, Request
  <2>3. QED
    BY <2>1, <2>2
<1>3. ASSUME Fails(c)
      PROVE  Atomic!AFail(c)
  <2>1. stage[c] \in {"source", "target", "criterion"} /\ request[c] \in Request
    BY <1>3 DEF Fails, Raises, IInv, RequestSent
  <2>2. QED
    BY <1>1, <1>3, <2>1, SameWords DEF Fails, Raises, Atomic!AFail, Atomic!Point
<1>4. ASSUME Unsupported(c)
      PROVE  Atomic!AUnsupported(c)
  <2>1. request[c] \in Request
    BY <1>4 DEF Unsupported, IInv, RequestSent
  <2>2. QED
    BY <1>1, <1>4, <2>1, SameWords
    DEF Unsupported, Calls, Atomic!AUnsupported, Atomic!Call
<1>5. QED
  BY <1>2, <1>3, <1>4

\* Every step of the server is a step of the promise or hidden from it.
LEMMA StepRefined ==
  ASSUME IInv, [Next]_vars
  PROVE  [Atomic!ANext]_(Atomic!avars)
<1>1. ASSUME NEW c \in Client, Submit(c)
      PROVE  Atomic!ASubmit(c)
  BY <1>1, SameWords
  DEF Submit, Atomic!ASubmit, Atomic!Waiting, IInv, AnsweredOnce
<1>2. ASSUME NEW c \in Client,
             Lock(c) \/ ResolveSource(c) \/ ResolveTarget(c) \/ Unlock(c) \/ Render(c)
      PROVE  UNCHANGED Atomic!avars
  BY <1>2, Stutter DEF Lock, ResolveSource, ResolveTarget, Unlock, Render
<1>3. ASSUME NEW c \in Client, Serve(c)
      PROVE  \/ Atomic!ARefuse(c) \/ Atomic!AFail(c) \/ Atomic!AUnsupported(c)
             \/ Atomic!ASearch(c) \/ UNCHANGED Atomic!avars
  BY <1>2, <1>3, RefusalsRefined, CriterionHidden, SolveRefined DEF Serve
<1>4. CASE UNCHANGED vars
  BY <1>4, Stutter DEF vars
<1>5. CASE Next
  <2>1. PICK c \in Client : Submit(c) \/ Serve(c)
    BY <1>5 DEF Next
  <2>2. QED
    BY <1>1, <1>3, <2>1 DEF Atomic!ANext
<1>6. QED
  BY <1>4, <1>5

\* The server serves every request in one step, for any number of clients and
\* whatever ids they make up: neither the mutex released by an exception nor
\* the id that the look-up of a target writes into the vertex map ever shows.
THEOREM Refinement == Spec => RefinesAtomic
<1>1. Init => Atomic!AInit
  BY InitRefined
<1>2. IInv /\ [Next]_vars => [Atomic!ANext]_(Atomic!avars)
  BY StepRefined
<1>3. QED
  BY <1>1, <1>2, Invariant, PTL DEF Spec, RefinesAtomic, Atomic!ASpec

-----------------------------------------------------------------------------

\* Whatever a client asks for, here or on the command line, the factories have
\* a builder for the graph and a solver for the call.
THEOREM SolverAlwaysFound == Spec => []SolverFound
<1>1. SolverFound
  BY SolverKnown DEF SolverFound, Calls
<1>2. QED
  BY <1>1, PTL

\* Routes are those of one search, laid out from the time of the request.
AnswerLaidOut ==
  \A c \in Client : routes[c].status = "0" =>
    /\ request[c] \in Request /\ TimeGiven(request[c])
    /\ \E edges :
         /\ IsRoute(edges)
         /\ routes[c].routes = ToRice(<<edges>>, RTime(Journey(request[c]).start_datetime.string),
                                      Transport(Optimization(request[c])))

\* No answer is given yet.
LEMMA InitLaidOut == Init => AnswerLaidOut
BY DEF Init, AnswerLaidOut, NoReply

\* An answer is laid out from the request it answers, and stays.
LEMMA StepLaidOut == ASSUME IInv, AnswerLaidOut, [Next]_vars PROVE AnswerLaidOut'
<1> USE DEF IInv, TypeOK
<1>1. ASSUME NEW c \in Client, NEW reply, routes' = [routes EXCEPT ![c] = reply],
             reply.status # "0",
             \A b \in Client \ {c} : request'[b] = request[b]
      PROVE  AnswerLaidOut'
  BY <1>1 DEF AnswerLaidOut, ReplyType
<1>2. ASSUME request' = request, routes' = routes
      PROVE  AnswerLaidOut'
  BY <1>2 DEF AnswerLaidOut
<1>3. ASSUME NEW c \in Client, Submit(c) PROVE AnswerLaidOut'
  <2>1. NoReply.status # "0"
    BY DEF NoReply
  <2>2. \A b \in Client \ {c} : request'[b] = request[b]
    BY <1>3 DEF Submit, ThreadType
  <2>3. QED
    BY <1>1, <1>3, <2>1, <2>2 DEF Submit
<1>4. ASSUME NEW c \in Client, Validate(c) \/ Fails(c) \/ Unsupported(c) PROVE AnswerLaidOut'
  <2>1. \A x \in {"-1", "-2", "error"} : Refused(x).status # "0"
    BY DEF Refused
  <2>2. QED
    BY <1>1, <1>2, <1>4, <2>1 DEF Validate, Fails, Unsupported
<1>5. ASSUME NEW c \in Client, Solve(c) PROVE AnswerLaidOut'
  <2>1. \/ routes' = [routes EXCEPT ![c] = Refused("-2")]
        \/ \E m \in Model, u \in Vertex, v \in Vertex : \E found \in Outcome[m][<<u, v>>] :
             routes' = [routes EXCEPT ![c] = Answer(found, request[c])]
    <3>1. PICK call \in Calls(c) :
            IF KnownPoints(c, call.model)
            THEN \E found \in Outcome[call.model][<<vtxmap[call.model][source[c]],
                                                    vtxmap[call.model][target[c]]>>] :
                   routes' = [routes EXCEPT ![c] = Answer(found, request[c])]
            ELSE routes' = [routes EXCEPT ![c] = Refused("-2")]
      BY <1>5 DEF Solve
    <3>2. call.model \in Model
      BY <1>5, OneCall DEF Solve, Calls, RequestSent
    <3>3. ASSUME KnownPoints(c, call.model)
          PROVE  \A i \in {source[c], target[c]} : vtxmap[call.model][i] \in Vertex
      BY <3>2, <3>3, DenotationVertex DEF KnownPoints, GraphType
    <3>4. QED
      BY <3>1, <3>2, <3>3
  <2>2. request[c] \in Request /\ TimeGiven(request[c]) /\ request' = request
    BY <1>5 DEF Solve, RequestSent, CriterionBuilt
  <2>3. Refused("-2").status # "0"
    BY DEF Refused
  <2>4. CASE routes' = [routes EXCEPT ![c] = Refused("-2")]
    BY <1>1, <2>2, <2>3, <2>4
  <2>5. ASSUME NEW m \in Model, NEW u \in Vertex, NEW v \in Vertex,
               NEW found \in Outcome[m][<<u, v>>], found # <<>>,
               routes' = [routes EXCEPT ![c] = Answer(found, request[c])]
        PROVE  AnswerLaidOut'
    <3>1. PICK edges : found = <<edges>> /\ IsRoute(edges)
      BY <2>5, OutcomeAssumption
    <3> DEFINE rice == ToRice(<<edges>>, RTime(Journey(request[c]).start_datetime.string),
                              Transport(Optimization(request[c])))
    <3>2. Answer(found, request[c]) = [status |-> "0", routes |-> rice]
      BY <2>5, <3>1 DEF Answer
    <3> HIDE DEF rice
    <3>3. routes'[c].routes = rice /\ \A b \in Client \ {c} : routes'[b] = routes[b]
      BY <2>5, <3>2 DEF ReplyType
    <3>4. QED
      BY <2>2, <3>1, <3>3 DEF AnswerLaidOut, rice
  <2>6. QED
    BY <2>1, <2>4, <2>5 DEF Answer
<1>6. ASSUME NEW c \in Client,
             \/ Lock(c) \/ ResolveSource(c) \/ ResolveTarget(c) \/ Criterion(c)
             \/ Unlock(c) \/ Render(c)
      PROVE  AnswerLaidOut'
  BY <1>2, <1>6 DEF Lock, ResolveSource, ResolveTarget, Criterion, Unlock, Render
<1>7. CASE UNCHANGED vars
  BY <1>2, <1>7 DEF vars
<1>8. QED
  BY <1>3, <1>4, <1>5, <1>6, <1>7 DEF Next, Serve

\* The time asked for, on the clock.
LEMMA ClockOfRTime ==
  ASSUME NEW datetime, datetime.clock \in Nat
  PROVE  RTime(datetime) \in Nat /\ Clock(RTime(datetime)) = Clock(datetime.clock)
<1>1. \A x \in Nat : (x + 24 * 3600) % (24 * 3600) = x % (24 * 3600)
  OBVIOUS
<1>2. QED
  BY <1>1 DEF RTime, Clock

\* Routes laid out from the time of the request are timed as a client expects.
LEMMA TripOfAnswer == ASSUME AnswerLaidOut PROVE TripTimed
<1> SUFFICES ASSUME NEW c \in Client, routes[c].status = "0",
                    NEW r \in DOMAIN routes[c].routes
             PROVE  LET route == routes[c].routes[r]
                        arc   == route.arc
                        start == Clock(Journey(request[c]).start_datetime.string.clock)
                    IN  /\ arc[1].start_datetime = start
                        /\ route.eta = arc[Len(arc)].end_datetime
                        /\ \A k \in 2 .. Len(arc) :
                             /\ arc[k].start_datetime = arc[k - 1].end_datetime
                             /\ arc[k].source_node = arc[k - 1].destination_node
                        /\ \A k \in DOMAIN arc : arc[k].start_datetime \in OfDay
                        /\ Segments(ToGeojson(<<route>>)) = Ways(arc)
  BY DEF TripTimed
<1> DEFINE datetime == Journey(request[c]).start_datetime.string
           time == RTime(datetime)
           mode == Transport(Optimization(request[c]))
<1>1. PICK edges : IsRoute(edges) /\ routes[c].routes = ToRice(<<edges>>, time, mode)
  BY DEF AnswerLaidOut
<1>2. time \in Nat /\ Clock(time) = Clock(datetime.clock)
  <2>1. datetime.clock \in Nat
    BY TimeAssumption DEF AnswerLaidOut
  <2>2. QED
    BY <2>1, ClockOfRTime
<1> HIDE DEF time, mode
<1>3. routes[c].routes[r] = Itinerary(edges, mode, time, 0)
  BY <1>1, OneItinerary
<1> DEFINE route == routes[c].routes[r]
           arc == route.arc
           n == Len(edges)
<1>4. n \in Nat \ {0}
  BY <1>1, RouteEdges
<1>5. Timed(route, n, time)
  BY <1>1, <1>2, <1>3, ArcsTimed
<1> HIDE DEF n, route
<1>6. Segments(ToGeojson(<<route>>)) = Ways(arc)
  BY <1>4, <1>5, LineAlongArcs DEF Timed
<1>7. QED
  BY <1>2, <1>5, <1>6 DEF Timed, route

\* The times and the line that a client is given are those of the route that
\* was found, for every route, time of day and speed.
THEOREM TripsTimed == Spec => []TripTimed
<1>1. Init => AnswerLaidOut
  BY InitLaidOut
<1>2. IInv /\ AnswerLaidOut /\ [Next]_vars => AnswerLaidOut'
  BY StepLaidOut
<1>3. AnswerLaidOut => TripTimed
  BY TripOfAnswer
<1>4. QED
  BY <1>1, <1>2, <1>3, Invariant, PTL DEF Spec

\* Every body that shortest_path renders is a response, for every request that
\* passes the validation and every answer.
THEOREM ResponsesPublished == Spec => []ResponsePublished
<1>1. IInv => ResponsePublished
  BY BodyPublished DEF IInv, RequestSent, Request, ResponsePublished
<1>2. QED
  BY <1>1, Invariant, PTL

=============================================================================
