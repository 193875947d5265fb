---------------------------- MODULE RouteRequests ----------------------------
(***************************************************************************)
(* What the route API promises: each request is answered in one step, as   *)
(* if it were the only one, against the road graphs and the node ids that  *)
(* earlier requests left behind.  The ids left behind are part of the      *)
(* promise, because the planner remembers a target id it has never heard   *)
(* of, as the first vertex of the graph, and accepts it from then on.      *)
(***************************************************************************)
EXTENDS RouteApi

VARIABLES
  request,       \* request[c]: the request c is waiting on, or its last one
  reply,         \* reply[c]: the answer to it, once there is one
  alias          \* alias[m]: the unknown ids remembered as FirstVertex

avars == <<request, reply, alias>>

AInit ==
  /\ request = [c \in Client |-> NoRequest]
  /\ reply   = [c \in Client |-> NoReply]
  /\ alias   = [m \in Model |-> {}]

Waiting(c) == request[c] # NoRequest /\ reply[c] = NoReply

\* A client with no request under way sends one.
ASubmit(c) ==
  /\ ~ Waiting(c)
  /\ \E d \in Document : request' = [request EXCEPT ![c] = d]
  /\ reply' = [reply EXCEPT ![c] = NoReply]
  /\ UNCHANGED alias

\* A malformed request is refused.
ARefuse(c) ==
  /\ Waiting(c) /\ request[c] \notin Request
  /\ reply' = [reply EXCEPT ![c] = Refused("-1")]
  /\ UNCHANGED <<request, alias>>

Point(c, which) == Journey(request[c])[which]

\* No node is found near a point, or there is no time to start at.
AFail(c) ==
  /\ Waiting(c) /\ request[c] \in Request
  /\ \/ LookedUp(Point(c, "source_node")) \/ LookedUp(Point(c, "destination_node"))
     \/ ~ TimeGiven(request[c])
  /\ reply' = [reply EXCEPT ![c] = Refused("error")]
  /\ UNCHANGED <<request, alias>>

Call(c) == ExtensionCalls(Optimization(request[c]))

\* An optimization that has no graph behind it finds nothing.
AUnsupported(c) ==
  /\ Waiting(c) /\ request[c] \in Request /\ TimeGiven(request[c]) /\ Call(c) = {}
  /\ reply' = [reply EXCEPT ![c] = Refused("-2")]
  /\ UNCHANGED <<request, alias>>

\* The whole of a search, at once: a source that nobody has mentioned as a
\* target before, or in this very request, is refused.
ASearch(c) ==
  /\ Waiting(c) /\ request[c] \in Request /\ TimeGiven(request[c])
  /\ UNCHANGED request
  /\ \E call \in Call(c), src \in Denoted(Point(c, "source_node")),
        trg \in Denoted(Point(c, "destination_node")) :
       LET m == call.model
           u == Denotation(m, src)
           v == Denotation(m, trg)
       IN  /\ alias' = [alias EXCEPT ![m] = @ \cup ({trg} \ DOMAIN VertexOf[m])]
           /\ \E found \in Outcome[m][<<u, v>>] :
                reply' = [reply EXCEPT ![c] =
                  IF src \in DOMAIN VertexOf[m] \cup alias'[m]
                  THEN Answer(found, request[c]) ELSE Refused("-2")]

ANext ==
  \E c \in Client :
    ASubmit(c) \/ ARefuse(c) \/ AFail(c) \/ AUnsupported(c) \/ ASearch(c)

ASpec == AInit /\ [][ANext]_avars

=============================================================================
