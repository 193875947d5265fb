--------------------------- MODULE CompactDijkstra ---------------------------
(***************************************************************************)
(* The car search: arc-based Dijkstra over the compact representation      *)
(* model, where a label sits on an arc and not on a vertex, so that the    *)
(* turn from one arc into the next can be priced or forbidden.             *)
(*                                                                         *)
(* A query builds a solver of its own for (source, target, weight functor),*)
(* runs arc_based_search until the visitor throws target_found or the      *)
(* queue is empty, and rebuilds the route from the predecessor map.  The   *)
(* module is the life of one solver: nothing is carried to the next.       *)
(***************************************************************************)
EXTENDS Integers, Sequences, FiniteSets

CONSTANTS
  Vertex,        \* vertices of the road graph
  Arc,           \* its directed arcs (identified by edge_index)
  Source,          \* boost::source of an arc
  Target,          \* boost::target of an arc
  WeightFn,      \* the weight functors a strategy can select
  TurnTables     \* the sets of restricted turns a built graph can carry

ASSUME GraphAssumption ==
  /\ IsFiniteSet(Arc)
  /\ Source \in [Arc -> Vertex]
  /\ Target \in [Arc -> Vertex]

\* Lengths and travel times are positive doubles in the code; only their
\* order and their sums matter here.  A negative one would be thrown out as
\* boost::negative_edge, and no functor returns one.
ASSUME WeightAssumption == WeightFn \subseteq [Arc -> Nat]

ASSUME TurnAssumption == TurnTables \subseteq SUBSET (Arc \X Arc)

VARIABLES
  restricted,    \* turns the turn tables price at infinity, besides U-turns
  s, t,          \* _s, _t of the solver
  weight,        \* the functor of the query's strategy
  dist,          \* _distance_map
  pred,          \* _pred_map: an arc with itself as predecessor has none
  color,         \* color_map
  queue,         \* Q, as the set of arcs it holds
  pc,            \* where the query stands
  path           \* the arcs get_result has pushed so far, then the answer

query  == <<restricted, s, t, weight>>
labels == <<dist, pred, color, queue>>
vars   == <<restricted, s, t, weight, dist, pred, color, queue, pc, path>>

Color == {"white", "gray", "black"}

-----------------------------------------------------------------------------
(* Distances: std::numeric_limits<double>::max() is written Infinity; the  *)
(* arithmetic is boost::closed_plus and the order std::less.               *)

Infinity == -1
Distance == Nat \cup {Infinity}

Less(a, b) == a # Infinity /\ (b = Infinity \/ a < b)

closed_plus(a, b) == IF a = Infinity \/ b = Infinity THEN Infinity ELSE a + b

OutArcs(u) == {a \in Arc : Source[a] = u}
InArcs(u)  == {a \in Arc : Target[a] = u}

\* create_turn_table forbids the turn back to where one came from.
UTurn(ie, oe) == Source[ie] = Target[oe]

\* An entry of the turn table of Target[ie], to which add_turn_costs adds the
\* restricted manoeuvres; any other turn is free.
w_turn(ie, oe) ==
  IF UTurn(ie, oe) \/ <<ie, oe>> \in restricted THEN Infinity ELSE 0

\* Mutant: plain relaxation, which does not ask for the turn.
CandidateWithoutTurn(ie, oe) == closed_plus(dist[ie], weight[oe])

\* What compact_relax compares with the label of oe.
Candidate(ie, oe) == closed_plus(dist[ie], closed_plus(weight[oe], w_turn(ie, oe)))

-----------------------------------------------------------------------------

\* A solver for any query on any built graph, its maps not yet filled.
Init ==
  /\ restricted \in TurnTables
  /\ s \in Vertex /\ t \in Vertex
  /\ weight \in WeightFn
  /\ dist  = [a \in Arc |-> Infinity]
  /\ pred  = [a \in Arc |-> a]
  /\ color = [a \in Arc |-> "white"]
  /\ queue = {}
  /\ pc = "start"
  /\ path = <<>>

\* Every arc out of the source is queued at distance 0, and none has a
\* predecessor.
Start ==
  /\ pc = "start"
  /\ dist'  = [a \in Arc |-> IF a \in OutArcs(s) THEN 0 ELSE Infinity]
  /\ pred'  = [a \in Arc |-> a]
  /\ color' = [a \in Arc |-> IF a \in OutArcs(s) THEN "gray" ELSE "white"]
  /\ queue' = OutArcs(s)
  /\ pc' = "search"
  /\ UNCHANGED <<query, path>>

\* Mutant: a queue that is not kept in order.
TopUnordered(ie) == ie \in queue

\* Q.top(): any arc of least distance; the heap leaves ties open.
Top(ie) == ie \in queue /\ \A a \in queue : ~ Less(dist[a], dist[ie])

\* The popped arc enters the target: examine_vertex throws target_found.
PopTarget(ie) ==
  /\ pc = "search"
  /\ Top(ie)
  /\ Target[ie] = t
  /\ queue' = queue \ {ie}
  /\ pc' = "result"
  /\ UNCHANGED <<query, dist, pred, color, path>>

\* Mutant: the gray branch of the loop, Q.update, is missing.
RelaxedOnce(ie) ==
  {oe \in OutArcs(Target[ie]) :
     color[oe] = "white" /\ Less(Candidate(ie, oe), dist[oe])}

\* The arcs out of the popped arc's head that its relaxation improves: a
\* black arc is never relaxed again.
Relaxed(ie) ==
  {oe \in OutArcs(Target[ie]) :
     color[oe] \in {"white", "gray"} /\ Less(Candidate(ie, oe), dist[oe])}

\* A white arc is queued whether its relaxation succeeded or not, so an arc
\* behind a forbidden turn waits in Q at infinite distance.
Discovered(ie) == {oe \in OutArcs(Target[ie]) : color[oe] = "white"}

PopArc(ie) ==
  /\ pc = "search"
  /\ Top(ie)
  /\ Target[ie] # t
  /\ dist'  = [a \in Arc |-> IF a \in Relaxed(ie) THEN Candidate(ie, a) ELSE dist[a]]
  /\ pred'  = [a \in Arc |-> IF a \in Relaxed(ie) THEN ie ELSE pred[a]]
  /\ color' = [a \in Arc |-> IF a = ie THEN "black"
                             ELSE IF a \in Discovered(ie) THEN "gray" ELSE color[a]]
  /\ queue' = (queue \ {ie}) \cup Discovered(ie)
  /\ UNCHANGED <<query, pc, path>>

\* Mutant: only a search that has reached the target returns.
ExhaustedIfReached ==
  /\ pc = "search"
  /\ queue = {} /\ \E a \in InArcs(t) : dist[a] # Infinity
  /\ pc' = "result"
  /\ UNCHANGED <<query, labels, path>>

\* The queue runs dry: target_not_found, which solve() swallows.
Exhausted ==
  /\ pc = "search"
  /\ queue = {}
  /\ pc' = "result"
  /\ UNCHANGED <<query, labels, path>>

\* get_result looks at the arcs into the target that have a predecessor.
LastArcs == {a \in InArcs(t) : pred[a] # a /\ dist[a] # Infinity}

\* Mutant: found is not tested, and ie_t used without having been assigned.
NoPathUntested ==
  /\ pc = "result"
  /\ LastArcs = {}
  /\ path' = <<Infinity>>
  /\ pc' = "answered"
  /\ UNCHANGED <<query, labels>>

\* "Not path to target": route_optimize returns no route.
NoPath ==
  /\ pc = "result"
  /\ LastArcs = {}
  /\ pc' = "answered"
  /\ UNCHANGED <<query, labels, path>>

\* Mutant: d_t is not updated in the scan of in_edges.
PickAnyLastArc(a) ==
  /\ pc = "result"
  /\ a \in LastArcs
  /\ path' = <<a>>
  /\ pc' = "trace"
  /\ UNCHANGED <<query, labels>>

\* The nearest of them, ties by the order of in_edges.
PickLastArc(a) ==
  /\ pc = "result"
  /\ a \in LastArcs
  /\ \A b \in LastArcs : ~ Less(dist[b], dist[a])
  /\ path' = <<a>>
  /\ pc' = "trace"
  /\ UNCHANGED <<query, labels>>

\* Mutant: the walk stops one arc early, the "add first edge" forgotten.
TraceBackShort ==
  /\ pc = "trace"
  /\ LET e == path[1]
     IN  IF pred[pred[e]] # pred[e]
         THEN path' = <<pred[e]>> \o path /\ pc' = pc
         ELSE path' = path /\ pc' = "answered"
  /\ UNCHANGED <<query, labels>>

\* The walk back along the predecessors, down to and including the first
\* arc (which has none).
TraceBack ==
  /\ pc = "trace"
  /\ LET e == path[1]
     IN  IF pred[e] # e
         THEN path' = <<pred[e]>> \o path /\ pc' = pc
         ELSE path' = path /\ pc' = "answered"
  /\ UNCHANGED <<query, labels>>

Next ==
  \/ Start
  \/ \E ie \in Arc : PopTarget(ie) \/ PopArc(ie) \/ PickLastArc(ie)
  \/ Exhausted
  \/ NoPath
  \/ TraceBack

\* solve() and get_result() are plain loops on the thread of the request.
Spec == Init /\ [][Next]_vars /\ WF_vars(Next)

-----------------------------------------------------------------------------

\* Every variable holds a value of its kind.
TypeOK ==
  /\ restricted \in SUBSET (Arc \X Arc)
  /\ s \in Vertex /\ t \in Vertex
  /\ weight \in [Arc -> Nat]
  /\ dist \in [Arc -> Distance]
  /\ pred \in [Arc -> Arc]
  /\ color \in [Arc -> Color]
  /\ queue \in SUBSET Arc
  /\ pc \in {"start", "search", "result", "trace", "answered"}
  /\ path \in Seq(Arc)

\* No settled arc is farther than an arc still queued: what lets the loop of
\* arc_based_search settle an arc on its first pop.
SettledOrder ==
  \A b, a \in Arc : color[b] = "black" /\ a \in queue => ~ Less(dist[a], dist[b])

\* oe may follow ie on the road.
Follows(ie, oe) == Target[ie] = Source[oe] /\ w_turn(ie, oe) = 0

\* The predecessor of an arc is settled, may be driven before it, and accounts
\* exactly for its label, however often relaxation replaced it.
PredecessorTree ==
  \A a \in Arc : pred[a] # a =>
    /\ color[pred[a]] = "black"
    /\ Follows(pred[a], a)
    /\ dist[pred[a]] # Infinity
    /\ dist[a] = dist[pred[a]] + weight[a]

\* No settled arc offers a label that an arc after it does not already have or
\* better, even where the arc after it was settled first and is never relaxed
\* again: the labels the search stops with are beyond improvement.
NoShortcut ==
  \A b \in Arc : color[b] = "black" =>
    \A a \in OutArcs(Target[b]) : ~ Less(Candidate(b, a), dist[a])

(* The reference: all legal drives from s, of at most as many arcs as there *)
(* are (a longer one repeats an arc and costs no less), as pairs of the     *)
(* last arc and the cost, where the first arc a of a drive costs fee[a].    *)

Drives(fee) ==
  LET drive[n \in 0 .. Cardinality(Arc)] ==
        IF n = 0 THEN {<<a, fee[a]>> : a \in OutArcs(s)}
        ELSE LET shorter == drive[n - 1]
                 longer  == {d \in shorter \X Arc : Follows(d[1][1], d[2])}
             IN  shorter \cup {<<d[2], d[1][2] + weight[d[2]]>> : d \in longer}
  IN  drive[Cardinality(Arc)]

Least(D) == CHOOSE d \in D : \A e \in D : ~ Less(e, d)

\* The least cost of the drives in D that end with an arc of A.
LeastCost(D, A) == Least({d[2] : d \in {e \in D : e[1] \in A}} \cup {Infinity})

\* The drives as the code counts them: the first arc is free.
FreeStart == Drives([a \in Arc |-> 0])

\* A route in the answer leaves the source, reaches the target only with its
\* last arc, and drives every turn of it legally.
AnswerLegal ==
  pc = "answered" /\ path # <<>> =>
    /\ Source[path[1]] = s
    /\ \A i \in 1 .. Len(path) : Target[path[i]] = t <=> i = Len(path)
    /\ \A i \in 1 .. Len(path) - 1 : Follows(path[i], path[i + 1])

CostAfterFirst(p) ==
  LET cost[i \in 1 .. Len(p)] == IF i = 1 THEN 0 ELSE cost[i - 1] + weight[p[i]]
  IN  cost[Len(p)]

Adjacent == \E a \in OutArcs(s) : Target[a] = t

\* Unless an arc joins the source to the target, a route is found whenever a
\* legal drive exists, and no legal drive is shorter beyond its first arc.
AnswerShortest ==
  pc = "answered" /\ ~ Adjacent =>
    LET best == LeastCost(FreeStart, InArcs(t))
    IN  IF path = <<>> THEN best = Infinity ELSE CostAfterFirst(path) = best

\* A query is answered: the search empties its queue or finds the target, and
\* the walk back along the predecessors ends.
QueryAnswered == <>(pc = "answered")

(* What the API says of itself: it "Computes the shortest path between an  *)
(* origin and a destination".  Here a drive is counted in full.            *)

FullCost(p) == weight[p[1]] + CostAfterFirst(p)

\* Between two distinct points the answer is a shortest drive, and there is
\* one whenever a legal drive exists.
ComputesShortestPath ==
  pc = "answered" /\ s # t =>
    LET best == LeastCost(Drives(weight), InArcs(t))
    IN  IF path = <<>> THEN best = Infinity ELSE FullCost(path) = best

=============================================================================
