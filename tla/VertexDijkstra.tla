--------------------------- MODULE VertexDijkstra ---------------------------
(***************************************************************************)
(* The foot search: boost's Dijkstra over vertices, stopped by a visitor,  *)
(* and the routes read back from its predecessors.                         *)
(*                                                                         *)
(* A behaviour is one query.  SSST_gsolver has one target and SSMT_gsolver *)
(* several; a single target is a list of one, for which their visitors and *)
(* their get_result agree.                                                 *)
(***************************************************************************)
EXTENDS Integers, Sequences, FiniteSets, FiniteSetsExt, SequencesExt

CONSTANTS
  Vertex,
  Arcs,          \* pairs of vertices
  WeightFns,     \* what the weight functor may say of the arcs
  TargetLists

ASSUME GraphAssumption ==
  /\ IsFiniteSet(Vertex)
  /\ Arcs \subseteq Vertex \X Vertex
  /\ WeightFns \subseteq [Arcs -> Nat]
  /\ TargetLists \subseteq Seq(Vertex) \ {<<>>}

VARIABLES
  weight, s, targets,   \* the query
  wanted,               \* _targets: those the visitor still waits for
  dist, pred, color,    \* the maps of the search
  pc,
  v, path,              \* the walk back of get_result, path so far
  routes                \* its result, one route per target

query == <<weight, s, targets>>
maps  == <<dist, pred, color>>
vars  == <<weight, s, targets, wanted, dist, pred, color, pc, v, path, routes>>

Infinity == -1

Less(a, b) == a # Infinity /\ (b = Infinity \/ a < b)

Init ==
  /\ weight \in WeightFns /\ s \in Vertex /\ targets \in TargetLists
  /\ wanted = targets
  /\ dist  = [u \in Vertex |-> IF u = s THEN 0 ELSE Infinity]
  /\ pred  = [u \in Vertex |-> u]
  /\ color = [u \in Vertex |-> IF u = s THEN "gray" ELSE "white"]
  /\ pc = "search"
  /\ v = s /\ path = <<>>
  /\ routes = <<>>

Queued == {u \in Vertex : color[u] = "gray"}

\* Any nearest vertex may be the top of the queue.
Top == {u \in Queued : \A w \in Queued : ~ Less(dist[w], dist[u])}

\* examine_vertex: the first entry of u is crossed off.
Examined(u) ==
  IF Contains(wanted, u) THEN RemoveFirst(wanted, u) ELSE wanted

\* Mutant: targets are recognised when they are first reached.
TargetReached ==
  /\ pc = "search"
  /\ \E u \in Queued : Contains(wanted, u) /\ Examined(u) = <<>>
  /\ wanted' = <<>>
  /\ pc' = "read"
  /\ UNCHANGED <<query, maps, v, path, routes>>

\* The visitor throws at the last target it waited for.
TargetFound ==
  /\ pc = "search"
  /\ \E u \in Top :
       /\ Contains(wanted, u) /\ Examined(u) = <<>>
       /\ wanted' = <<>>
  /\ pc' = "read"
  /\ UNCHANGED <<query, maps, v, path, routes>>

\* The arcs out of u to vertices that are not settled, and that improve them.
Better(u) ==
  {w \in Vertex : /\ <<u, w>> \in Arcs /\ color[w] # "black"
                  /\ Less(dist[u] + weight[<<u, w>>], dist[w])}

\* One turn of breadth_first_visit.
PopVertex ==
  /\ pc = "search"
  /\ \E u \in Top :
       /\ ~ (Contains(wanted, u) /\ Examined(u) = <<>>)
       /\ wanted' = Examined(u)
       /\ dist' = [w \in Vertex |->
            IF w \in Better(u) THEN dist[u] + weight[<<u, w>>] ELSE dist[w]]
       /\ pred' = [w \in Vertex |-> IF w \in Better(u) THEN u ELSE pred[w]]
       /\ color' = [w \in Vertex |->
            IF w = u THEN "black"
            ELSE IF <<u, w>> \in Arcs /\ color[w] = "white" THEN "gray" ELSE color[w]]
  /\ UNCHANGED <<query, pc, v, path, routes>>

\* target_not_found, which solve swallows.
Exhausted ==
  /\ pc = "search" /\ Queued = {}
  /\ pc' = "read"
  /\ UNCHANGED <<query, wanted, maps, v, path, routes>>

-----------------------------------------------------------------------------
(* get_result                                                              *)

NextTarget == targets[Len(routes) + 1]

\* Mutant: a target that is not settled is taken for unreached.
NoPathUnlessSettled ==
  /\ pc = "read" /\ Len(routes) < Len(targets)
  /\ pred[NextTarget] = NextTarget \/ color[NextTarget] # "black"
  /\ pc' = "failed"
  /\ UNCHANGED <<query, wanted, maps, v, path, routes>>

\* "Not path to target": no route at all is returned then.
NoPath ==
  /\ pc = "read" /\ Len(routes) < Len(targets)
  /\ pred[NextTarget] = NextTarget
  /\ pc' = "failed"
  /\ UNCHANGED <<query, wanted, maps, v, path, routes>>

ReadTarget ==
  /\ pc = "read" /\ Len(routes) < Len(targets)
  /\ pred[NextTarget] # NextTarget
  /\ v' = NextTarget /\ path' = <<>>
  /\ pc' = "walk back"
  /\ UNCHANGED <<query, wanted, maps, routes>>

\* Mutant: the arc is looked for the other way round, and never missed.
TraceBackReversed ==
  /\ pc = "walk back" /\ pred[v] # v
  /\ path' = <<<<v, pred[v]>>>> \o path
  /\ v' = pred[v]
  /\ UNCHANGED <<query, wanted, maps, pc, routes>>

\* One turn of the loop.  "Edge not found" would be a stop here: predecessors
\* are joined by an arc, as QueryAnswered confirms.
TraceBack ==
  /\ pc = "walk back" /\ pred[v] # v
  /\ <<pred[v], v>> \in Arcs
  /\ path' = <<<<pred[v], v>>>> \o path
  /\ v' = pred[v]
  /\ UNCHANGED <<query, wanted, maps, pc, routes>>

PushRoute ==
  /\ pc = "walk back" /\ pred[v] = v
  /\ routes' = Append(routes, [length |-> dist[NextTarget], path |-> path])
  /\ pc' = "read"
  /\ UNCHANGED <<query, wanted, maps, v, path>>

Finish ==
  /\ pc = "read" /\ Len(routes) = Len(targets)
  /\ pc' = "done"
  /\ UNCHANGED <<query, wanted, maps, v, path, routes>>

Next ==
  \/ TargetFound \/ PopVertex \/ Exhausted
  \/ NoPath \/ ReadTarget \/ TraceBack \/ PushRoute \/ Finish

\* The search runs on one thread and waits for nothing.
Spec == Init /\ [][Next]_vars /\ WF_vars(Next)

-----------------------------------------------------------------------------
(* The reference.                                                          *)

\* The walks from x of fewer arcs than there are vertices, as pairs of the last
\* vertex and the length by weights w.
Walks(w, x) ==
  LET walk[n \in 0 .. Cardinality(Vertex) - 1] ==
        IF n = 0 THEN {<<x, 0>>}
        ELSE LET shorter == walk[n - 1]
                 longer  == {p \in shorter \X Arcs : p[1][1] = p[2][1]}
             IN  shorter \cup {<<p[2][2], p[1][2] + w[p[2]]>> : p \in longer}
  IN  walk[Cardinality(Vertex) - 1]

\* The lengths of the walks that end at u.
Lengths(walks, u) == {d[2] : d \in {e \in walks : e[1] = u}}

\* Distances between all vertices; weights are not negative, so that a shortest
\* walk need not repeat a vertex.
Distances ==
  [x \in Vertex |-> [w \in WeightFns |->
     LET walks == Walks(w, x) IN
     [u \in Vertex |-> IF Lengths(walks, u) = {} THEN Infinity ELSE Min(Lengths(walks, u))]]]

Shortest == Distances[s][weight]

\* Every variable has its type, and the visitor waits for some of the targets.
TypeOK ==
  /\ weight \in [Arcs -> Nat] /\ s \in Vertex /\ targets \in TargetLists
  /\ wanted \in Seq(Vertex)
  /\ dist \in [Vertex -> Nat \cup {Infinity}]
  /\ pred \in [Vertex -> Vertex]
  /\ color \in [Vertex -> {"white", "gray", "black"}]
  /\ pc \in {"search", "read", "walk back", "failed", "done"}
  /\ v \in Vertex /\ path \in Seq(Arcs)
  /\ Len(routes) <= Len(targets)

\* Each route leads from the source to its target along arcs of the graph, and
\* its length, the one reported, is the least possible, although the visitor ends
\* the search at the last target, with labels that are not final.
RoutesShortest ==
  \A i \in DOMAIN routes :
    LET p == routes[i].path
        sum[n \in 0 .. Len(p)] == IF n = 0 THEN 0 ELSE sum[n - 1] + weight[p[n]]
    IN  /\ p # <<>> /\ p[1][1] = s /\ p[Len(p)][2] = targets[i]
        /\ \A n \in 1 .. Len(p) - 1 : p[n][2] = p[n + 1][1]
        /\ routes[i].length = sum[Len(p)]
        /\ routes[i].length = Shortest[targets[i]]

\* Every query is answered; without routes exactly if one of the targets cannot
\* be reached or is the source.  An endless walk back or a predecessor left
\* over from another path would break it.
QueryAnswered ==
  <>(pc = LET least == Shortest
          IN  IF \A i \in DOMAIN targets : targets[i] # s /\ least[targets[i]] # Infinity
              THEN "done" ELSE "failed")

=============================================================================
