---------------------------- MODULE RouteService ----------------------------
(***************************************************************************)
(* A running server: the requests of the Rails API, the mutex around the   *)
(* planner, and route_optimize on the graphs of the engine.                *)
(*                                                                         *)
(* A request is validated, waits for the mutex, resolves its two points    *)
(* (through the OSM API when they come without a node id), and calls the   *)
(* planner, which picks an engine, a graph and a solver by the words of    *)
(* the optimization, looks the target up to build the stopping criterion   *)
(* before it checks that the two ids are known, and lays the routes out in *)
(* time.  The look-up is the operator[] of a std::map: it inserts an id it *)
(* does not find.                                                          *)
(***************************************************************************)
EXTENDS RouteApi

CONSTANTS
  Nobody,        \* no thread holds the mutex
  NoId           \* a local that has not been assigned

ASSUME SentinelAssumption ==
  Nobody \notin Client /\ NoId \notin Id /\ NoRequest \notin Document

VARIABLES
  request,       \* @json_data of the thread
  stage,         \* where the thread of a request stands
  semaphore,     \* the holder of @@semaphore, or Nobody
  source,        \* the locals of route_optimization, per thread
  target,
  routes,        \* what the request comes to, NoReply until that is known
  vtxmap,        \* vtxmap[m]: _vtxmap of the graph m
  fresh          \* auxiliary: the ids route_optimize has inserted but not used

vars == <<request, stage, semaphore, source, target, routes, vtxmap, fresh>>

Stage == {"idle", "validate", "lock", "source", "target", "criterion",
          "solve", "unlock", "render"}

Init ==
  /\ request   = [c \in Client |-> NoRequest]
  /\ stage     = [c \in Client |-> "idle"]
  /\ semaphore = Nobody
  /\ source    = [c \in Client |-> NoId]
  /\ target    = [c \in Client |-> NoId]
  /\ routes    = [c \in Client |-> NoReply]
  /\ vtxmap    = VertexOf
  /\ fresh     = [m \in Model |-> {}]

Goto(c, next) == stage' = [stage EXCEPT ![c] = next]

\* A request arrives, for a controller object of its own.
Submit(c) ==
  /\ stage[c] = "idle"
  /\ \E d \in Document : request' = [request EXCEPT ![c] = d]
  /\ routes' = [routes EXCEPT ![c] = NoReply]
  /\ Goto(c, "validate")
  /\ UNCHANGED <<semaphore, source, target, vtxmap, fresh>>

\* validate_input: a render in the filter ends the request there.
Validate(c) ==
  /\ stage[c] = "validate"
  /\ IF IsRequest(request[c])
     THEN routes' = routes /\ Goto(c, "lock")
     ELSE routes' = [routes EXCEPT ![c] = Refused("-1")] /\ Goto(c, "idle")
  /\ UNCHANGED <<request, semaphore, source, target, vtxmap, fresh>>

\* Mutant: the planner is called outside the synchronize block.
LockUnguarded(c) ==
  /\ stage[c] = "lock"
  /\ semaphore' = c
  /\ Goto(c, "source")
  /\ UNCHANGED <<request, source, target, routes, vtxmap, fresh>>

Lock(c) ==
  /\ stage[c] = "lock"
  /\ semaphore = Nobody
  /\ semaphore' = c
  /\ Goto(c, "source")
  /\ UNCHANGED <<request, source, target, routes, vtxmap, fresh>>

\* The node id of the request, or one that find_nid finds near the point.
ResolveSource(c) ==
  /\ stage[c] = "source"
  /\ \E i \in Denoted(Journey(request[c]).source_node) : source' = [source EXCEPT ![c] = i]
  /\ Goto(c, "target")
  /\ UNCHANGED <<request, semaphore, target, routes, vtxmap, fresh>>

ResolveTarget(c) ==
  /\ stage[c] = "target"
  /\ \E i \in Denoted(Journey(request[c]).destination_node) : target' = [target EXCEPT ![c] = i]
  /\ Goto(c, "criterion")
  /\ UNCHANGED <<request, semaphore, source, routes, vtxmap, fresh>>

\* The controller object and its locals die with the request.
DropLocals(c) ==
  /\ source' = [source EXCEPT ![c] = NoId]
  /\ target' = [target EXCEPT ![c] = NoId]

\* The two ways a request can die inside the synchronize block: find_nid
\* raises (the OSM API does not answer, or there is no highway node in the
\* bounding box, nodes[nil]), and the planner is given nil for a string.
Raises(c) ==
  \/ stage[c] = "source" /\ LookedUp(Journey(request[c]).source_node)
  \/ stage[c] = "target" /\ LookedUp(Journey(request[c]).destination_node)
  \/ stage[c] = "criterion" /\ ~ TimeGiven(request[c])

\* Mutant: lock and unlock in the place of synchronize.
FailsLocked(c) ==
  /\ Raises(c)
  /\ routes' = [routes EXCEPT ![c] = Refused("error")]
  /\ DropLocals(c)
  /\ Goto(c, "idle")
  /\ UNCHANGED <<request, semaphore, vtxmap, fresh>>

\* synchronize releases the mutex when an exception passes.
Fails(c) ==
  /\ Raises(c)
  /\ routes' = [routes EXCEPT ![c] = Refused("error")]
  /\ semaphore' = Nobody
  /\ DropLocals(c)
  /\ Goto(c, "idle")
  /\ UNCHANGED <<request, vtxmap, fresh>>

\* What the planner asks of the engine, if anything.
Calls(c) == ExtensionCalls(Optimization(request[c]))

\* No branch of the planner for this optimization: sol stays empty.
Unsupported(c) ==
  /\ stage[c] = "criterion" /\ TimeGiven(request[c])
  /\ Calls(c) = {}
  /\ routes' = [routes EXCEPT ![c] = Refused("-2")]
  /\ Goto(c, "unlock")
  /\ UNCHANGED <<request, semaphore, source, target, vtxmap, fresh>>

\* Mutant: the entry of the target is always written anew.
OverwriteTarget(map, i) ==
  [j \in DOMAIN map \cup {i} |-> IF j = i THEN FirstVertex ELSE map[j]]

\* The argument of target_dijkstra_stopping_criteria, (_vtxmap)[target].
InsertTarget(map, i) ==
  IF i \in DOMAIN map THEN map
  ELSE [j \in DOMAIN map \cup {i} |-> IF j = i THEN FirstVertex ELSE map[j]]

Criterion(c) ==
  /\ stage[c] = "criterion" /\ TimeGiven(request[c])
  /\ \E call \in Calls(c) :
       LET m == call.model
       IN  /\ vtxmap' = [vtxmap EXCEPT ![m] = InsertTarget(@, target[c])]
           /\ fresh'  = [fresh EXCEPT ![m] = @ \cup ({target[c]} \ DOMAIN vtxmap[m])]
  /\ Goto(c, "solve")
  /\ UNCHANGED <<request, semaphore, source, target, routes>>

\* apply_solver and apply_ARCsolver: the check of the two ids, then a search
\* between their vertices, whose routes to_rice lays out.
KnownPoints(c, m) == {source[c], target[c]} \subseteq DOMAIN vtxmap[m]

Solve(c) ==
  /\ stage[c] = "solve"
  /\ \E call \in Calls(c) :
       LET m == call.model
       IN  /\ IF KnownPoints(c, m)
              THEN \E found \in Outcome[m][<<vtxmap[m][source[c]], vtxmap[m][target[c]]>>] :
                     routes' = [routes EXCEPT ![c] = Answer(found, request[c])]
              ELSE routes' = [routes EXCEPT ![c] = Refused("-2")]
           /\ fresh' = [fresh EXCEPT ![m] = @ \ {target[c]}]
  /\ Goto(c, "unlock")
  /\ UNCHANGED <<request, semaphore, source, target, vtxmap>>

\* The end of the synchronize block.
Unlock(c) ==
  /\ stage[c] = "unlock"
  /\ semaphore' = Nobody
  /\ Goto(c, "render")
  /\ UNCHANGED <<request, source, target, routes, vtxmap, fresh>>

\* shortest_path renders the routes, or that there are none.
Render(c) ==
  /\ stage[c] = "render"
  /\ DropLocals(c)
  /\ Goto(c, "idle")
  /\ UNCHANGED <<request, semaphore, routes, vtxmap, fresh>>

\* The steps of the thread that serves c.
Serve(c) ==
  \/ Validate(c) \/ Lock(c) \/ ResolveSource(c) \/ ResolveTarget(c)
  \/ Fails(c) \/ Unsupported(c) \/ Criterion(c) \/ Solve(c)
  \/ Unlock(c) \/ Render(c)

Next == \E c \in Client : Submit(c) \/ Serve(c)

\* A thread that can run does.  A Ruby Mutex hands the lock on in the order
\* of arrival, so no thread waits for ever while others come and go.
Spec ==
  /\ Init /\ [][Next]_vars
  /\ \A c \in Client : WF_vars(Serve(c)) /\ SF_vars(Lock(c))

-----------------------------------------------------------------------------

ThreadType ==
  /\ request \in [Client -> Document \cup {NoRequest}]
  /\ stage \in [Client -> Stage]
  /\ semaphore \in Client \cup {Nobody}
  /\ source \in [Client -> Id \cup {NoId}]
  /\ target \in [Client -> Id \cup {NoId}]

ReplyType ==
  /\ DOMAIN routes = Client
  /\ \A c \in Client :
       /\ routes[c].status \in {"0", "-1", "-2", "error", "none"}
       /\ routes[c].status = "0" => routes[c].routes # <<>>

GraphType ==
  /\ DOMAIN vtxmap = Model
  /\ \A m \in Model :
       /\ DOMAIN VertexOf[m] \subseteq DOMAIN vtxmap[m]
       /\ DOMAIN vtxmap[m] \subseteq Id
       /\ \A i \in DOMAIN vtxmap[m] : vtxmap[m][i] = Denotation(m, i)
  /\ fresh \in [Model -> SUBSET Id]

\* Every variable holds a value of its kind, and the vertex maps keep what the
\* graphs were built with.
TypeOK == ThreadType /\ ReplyType /\ GraphType

\* The promise: requests take effect one at a time.  An id that a request has
\* inserted counts from the moment its search uses it.
Atomic == INSTANCE RouteRequests WITH
  reply <- routes,
  alias <- [m \in Model |-> (DOMAIN vtxmap[m] \ DOMAIN VertexOf[m]) \ fresh[m]]

\* Requests that share the planner answer as they would one after the other:
\* no request ever sees the target another one has inserted and not used.
RefinesAtomic == Atomic!ASpec

\* A request that reached the server is answered.
RequestAnswered ==
  \A c \in Client : stage[c] # "idle" ~> stage[c] = "idle"

\* Whatever a client asks for, here or on the command line, the factories have
\* a builder for the graph and a solver for the call, and one that takes the
\* points in the form route_optimize gives them.
SolverFound ==
  \A c \in Client : stage[c] = "criterion" =>
    \A call \in Calls(c) \cup CommandLineCalls(Optimization(request[c])) :
      call.model \in BuilderModel /\ SolverFor(call) = call.algorithm

\* The time a client is told: the first arc of the answer starts when the
\* client asked to leave, by the clock, each next one where and when the last one ends, and
\* the answer is over when its last arc is, midnight or not.  The line that
\* shortest_path_geojson draws of one route runs along its arcs and no other way.
TripTimed ==
  \A c \in Client : routes[c].status = "0" =>
    \A r \in DOMAIN routes[c].routes :
      LET route == routes[c].routes[r]
          arc   == route.arc
          start == Clock(Journey(request[c]).start_datetime.string.clock)
      IN  /\ arc[1].start_datetime = start
          /\ route.eta = arc[Len(arc)].end_datetime
          /\ \A k \in 2 .. Len(arc) :
               /\ arc[k].start_datetime = arc[k - 1].end_datetime
               /\ arc[k].source_node = arc[k - 1].destination_node
          /\ \A k \in DOMAIN arc : arc[k].start_datetime \in OfDay
          /\ Segments(ToGeojson(<<route>>)) = Ways(arc)

\* "no route found, invalid points": a route is only given between ids that
\* the graph was built with.
InvalidPointsRefused ==
  \A c \in Client : stage[c] = "render" /\ routes[c].status = "0" =>
    \A call \in Calls(c) :
      {source[c], target[c]} \subseteq DOMAIN VertexOf[call.model]

\* Whatever passes the validation of requests, the body shortest_path renders for
\* it is a response as the validators of the API publish it, up to desc: the
\* journey of the client with the routes in it, and how it went beside it.
ResponsePublished ==
  \A c \in Client : stage[c] = "render" =>
    IsResponse(Undescribed(Body(request[c], routes[c])))

=============================================================================
