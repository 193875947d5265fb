------------------------------ MODULE RouteApi ------------------------------
(***************************************************************************)
(* The vocabulary of the route API: who asks, what a request gives, what   *)
(* the graphs behind the planner hold, and what comes back.                *)
(***************************************************************************)
EXTENDS JsonSchema, RoutePlanner

CONSTANTS
  Client,        \* the connections of the server, one request each at a time
  Id,            \* OSM node ids
  Document,      \* the bodies a client can send, valid or not
  Nearby,        \* Nearby[lon, lat]: the node ids find_nid can come back with
  Model,         \* the models of the graphs in the engine
  Vertex,        \* vertices of the graphs
  VertexOf,      \* VertexOf[m]: the vertex map of the graph m as it was built
  FirstVertex,   \* the vertex with descriptor 0
  Outcome        \* Outcome[m][<<u, v>>]: what a search of m from u to v can find,
                 \* each a sequence of routes, a route a sequence of edges

\* The bodies that validate_input lets pass.
Request == {d \in Document : IsRequest(d)}

Journey(d)      == d.hash.journey.hash
Optimization(d) == Journey(d).search_route_type.string

LookedUp(node) == "node_id" \notin DOMAIN node.hash

\* The node ids a point can be resolved to.
Denoted(node) ==
  IF LookedUp(node) THEN Nearby[<<node.hash.lon.number, node.hash.lat.number>>]
  ELSE {node.hash.node_id.string}

\* The planner takes a string for the time: nil raises a TypeError.
TimeGiven(d) == "start_datetime" \in DOMAIN Journey(d)

\* The edges of one route: a way, edge by edge.
IsRoute(edges) ==
  /\ edges \in Seq({edges[k] : k \in DOMAIN edges}) /\ edges # <<>>
  /\ \A k \in DOMAIN edges : edges[k].length \in Nat
  /\ \A k \in DOMAIN edges \ {1} : edges[k].from = edges[k - 1].to

ASSUME VertexAssumption ==
  /\ FirstVertex \in Vertex
  /\ DOMAIN VertexOf = Model
  /\ \A m \in Model : /\ DOMAIN VertexOf[m] \subseteq Id
                      /\ \A i \in DOMAIN VertexOf[m] : VertexOf[m][i] \in Vertex

\* A search finds something or nothing; the two searches that the API calls
\* look for one route each.
ASSUME OutcomeAssumption ==
  \A m \in Model, u \in Vertex, v \in Vertex :
    /\ Outcome[m][<<u, v>>] # {}
    /\ \A found \in Outcome[m][<<u, v>>] :
         found # <<>> => found = <<found[1]>> /\ IsRoute(found[1])

\* The engine has a graph for every call the extension makes of it.
ASSUME ModelAssumption ==
  \A d \in Request : \A call \in ExtensionCalls(Optimization(d)) : call.model \in Model

ASSUME PointAssumption ==
  \A d \in Request : \A point \in {"source_node", "destination_node"} :
    Denoted(Journey(d)[point]) \subseteq Id

\* The hours, minutes and seconds of a time are written without a sign.
ASSUME TimeAssumption ==
  \A d \in Request : TimeGiven(d) =>
    Journey(d).start_datetime.string.clock \in Nat

NoRequest == [none |-> TRUE]

\* What the planner and the controller come back with: routes (status "0"), an
\* empty array of routes ("-2"), a validation error ("-1"), or an exception
\* that ends the request.
NoReply    == [status |-> "none"]
Refused(s) == [status |-> s]
Answer(found, d) ==
  IF found = <<>> THEN Refused("-2")
  ELSE [status |-> "0",
        routes |-> ToRice(found, RTime(Journey(d).start_datetime.string),
                          Transport(Optimization(d)))]

\* An id the graph was not built with stands for the first vertex: that is
\* what std::map::operator[] makes of it.
Denotation(m, i) == IF i \in DOMAIN VertexOf[m] THEN VertexOf[m][i] ELSE FirstVertex

JsonPoint(id) ==
  [hash |-> [node_id |-> [string |-> id], lon |-> [number |-> 0], lat |-> [number |-> 0]]]

\* The JSON values that render makes of an answer of shortest_path.
JsonArc(a) ==
  [hash |->
    [distance |-> [number |-> a.distance], start_datetime |-> [string |-> a.start_datetime],
     end_datetime |-> [string |-> a.end_datetime], desc |-> [string |-> ""],
     transport |-> [string |-> a.transport],
     transport_provider |-> [string |-> ""], transport_service_type |-> [string |-> ""],
     source_node |-> JsonPoint(a.source_node),
     destination_node |-> JsonPoint(a.destination_node)]]

JsonRoute(r) ==
  [hash |-> [arc |-> [array |-> [k \in DOMAIN r.arc |-> JsonArc(r.arc[k])]],
             eta |-> [string |-> r.eta], distance |-> [number |-> r.distance]]]

\* hash[key] = value
Stored(hash, key, value) ==
  [k \in DOMAIN hash \cup {key} |-> IF k = key THEN value ELSE hash[k]]

\* How it went.
Response(reply) ==
  [hash |-> [current_operation |-> [string |-> "route optimization"],
             error_code |-> [string |-> reply.status],
             error_message |-> [string |-> ""]]]

JsonRoutes(reply) ==
  [array |-> IF reply.status = "0"
             THEN [r \in DOMAIN reply.routes |-> JsonRoute(reply.routes[r])]
             ELSE <<>>]

\* Mutant: where there is no route, none are put into the journey.
BodyRoutesIfFound(d, reply) ==
  [hash |-> Stored(
     IF reply.status # "0" THEN d.hash
     ELSE Stored(d.hash, "journey", [hash |-> Stored(Journey(d), "routes", JsonRoutes(reply))]),
     "response", Response(reply))]

\* shortest_path puts the routes into the journey of the request, and how it
\* went beside it.
Body(d, reply) ==
  [hash |-> Stored(
     Stored(d.hash, "journey", [hash |-> Stored(Journey(d), "routes", JsonRoutes(reply))]),
     "response", Response(reply))]

-----------------------------------------------------------------------------

\* What a line that is drawn shows of the way, and what the arcs are of it.
Segments(line) == {<<line[i], line[i + 1]>> : i \in 1 .. Len(line) - 1}
Ways(arc)      == {<<arc[k].source_node, arc[k].destination_node>> : k \in DOMAIN arc}

\* Leaves out the description of each arc, which the schema does not know.
UndescribedArc(arc) ==
  [hash |-> [key \in DOMAIN arc.hash \ {"desc"} |-> arc.hash[key]]]
UndescribedRoute(route) ==
  [route EXCEPT !.hash.arc.array = [k \in DOMAIN @ |-> UndescribedArc(@[k])]]
Undescribed(body) ==
  [body EXCEPT !.hash.journey.hash.routes.array = [r \in DOMAIN @ |-> UndescribedRoute(@[r])]]

=============================================================================
