--------------------------- MODULE BicycleSearch ---------------------------
(***************************************************************************)
(* The bicycle search of the command line: routes that are short and safe, *)
(* found by bicriterion_epsMOA_star_algorithm.  Each vertex has a bag of   *)
(* labels <<length, unsafe length>>, none of which dominates another; the  *)
(* bag of a vertex is merged into those of its neighbours until no vertex  *)
(* is open.  Then a route is read back for every label at the target, and  *)
(* some of the routes are chosen and written to a file.                    *)
(*                                                                         *)
(* A behaviour is one query.  Two streets never join the same vertices,    *)
(* and each is open both ways with the same weight, as                     *)
(* bicriterion_bicycle_model builds it.                                    *)
(***************************************************************************)
EXTENDS Integers, FiniteSets, Sequences, SequencesExt, FiniteSetsExt

CONSTANTS
  Vertex,      \* vertex descriptors, numbered from 0
  Town,        \* the road networks: [length, safe, distance]
  Trip         \* the pairs of source and target asked for

VARIABLES
  town,        \* the network of this query
  s, t,        \* its source and its target
  pc,          \* "search", "read", "choose", "dump" or "done"
  bag,         \* G: the labels of each vertex, in their order
  open,        \* the vertices whose bag is to be merged into its neighbours'
  from, arcs,  \* the one being merged, and into which ones still
  pareto,      \* the labels of the target read back, with their paths
  at,          \* the vertex the reading has come to
  label,       \* what is left of the label being read
  path,        \* the arcs behind it
  geojson      \* the lines of the output file

query == <<town, s, t>>
searching == <<open, from, arcs>>
reading == <<at, label, path>>
vars == <<query, pc, bag, searching, pareto, reading, geojson>>

\* Lengths are whole metres, at least one; a street is a set of two vertices.
ASSUME VertexAssumption == Vertex \subseteq Nat /\ IsFiniteSet(Vertex)
ASSUME TownAssumption ==
  \A g \in Town :
    /\ \A street \in DOMAIN g.length :
         /\ \E u, v \in Vertex : u # v /\ street = {u, v}
         /\ g.length[street] \in Nat \ {0}
    /\ g.safe \subseteq DOMAIN g.length
    /\ g.distance \in [Vertex -> [Vertex -> Nat]]
ASSUME TripAssumption == Trip \subseteq Vertex \X Vertex

-----------------------------------------------------------------------------
\* Labels

Plus(a, b)  == <<a[1] + b[1], a[2] + b[2]>>
Minus(a, b) == <<a[1] - b[1], a[2] - b[2]>>

\* label * (1 + EPLSILON_PARETO), truncated to whole metres.
Inflated(a) == <<(105 * a[1]) \div 100, (105 * a[2]) \div 100>>

\* bicriteria_pareto_dominance, or equal.
Covers(a, b) == a[1] <= b[1] /\ a[2] <= b[2]

\* The order of a bag, where lengths differ, and that of the first labels of
\* open vertices, where the index in open settles ties.
Before(a, b) == a[1] < b[1] \/ (a[1] = b[1] /\ a[2] < b[2])

-----------------------------------------------------------------------------
\* Streets

\* make_edge_weight
Weight(u, v) ==
  LET length == town.length[{u, v}]
  IN  <<length, IF {u, v} \in town.safe THEN 0 ELSE length>>

\* The arcs of a vertex are kept in a set ordered by the vertex at the other end.
Neighbours(v) == {u \in Vertex : {u, v} \in DOMAIN town.length}

\* Pruning by distance: v is in the ellipse around source and target, whose
\* size is 40 % over their distance or, within a kilometre, fixed.
InEllipse(v) ==
  LET focus  == town.distance[s][t]
      detour == town.distance[s][v] + town.distance[v][t]
  IN  IF focus > 1000 THEN 10 * detour <= 14 * focus ELSE detour <= 1500

-----------------------------------------------------------------------------
\* Merging

\* Where, from position n on, the labels S first get safer than a.
Safer(S, a, n) == Min({k \in n .. Len(S) : S[k][2] < a[2]} \cup {Len(S) + 1})

\* The walk along two ordered bags that all three merges make, from the labels
\* at positions p on.  The labels X, each looked at as seen at its position, are
\* kept unless one of Y covers them; merged are these and the labels of Y that
\* none of them covers.
Walk(X, seen, Y) ==
  LET walk[p \in (1 .. Len(X) + 1) \X (1 .. Len(Y) + 1)] ==
        LET i == p[1]
            j == p[2]
        IN  IF i > Len(X) \/ j > Len(Y)
            THEN [kept   |-> SubSeq(X, i, Len(X)),
                  merged |-> SubSeq(X, i, Len(X)) \o SubSeq(Y, j, Len(Y))]
            ELSE CASE seen[i] = Y[j] ->
                        [walk[<<i + 1, j + 1>>] EXCEPT !.merged = <<Y[j]>> \o @]
                   [] Before(seen[i], Y[j]) ->
                        [walk[<<i + 1, Safer(Y, seen[i], j)>>] EXCEPT
                          !.kept = <<X[i]>> \o @, !.merged = <<X[i]>> \o @]
                   [] OTHER ->
                        [walk[<<Safer(seen, Y[j], i), j + 1>>] EXCEPT
                          !.merged = <<Y[j]>> \o @]
  IN  walk[<<1, 1>>]

Moved(X, len) == [k \in DOMAIN X |-> Plus(X[k], len)]

\* Mutant: the labels are compared as they are.
PrunedExactly(X, Y) == Walk(X, X, Y).kept

\* The labels X that those of Y do not cover once inflated.
Pruned(X, Y) == Walk(X, [k \in DOMAIN X |-> Inflated(X[k])], Y).kept

\* Mutant: the labels that a merged one dominates stay.
MergedKeeping(X, Y) == Y \o Walk(X, X, Y).kept

\* The labels X that those of Y do not cover, and those of Y that none of
\* these covers.
Merged(X, Y) == Walk(X, X, Y).merged

\* Mutant: the second loop moves the labels along the arc as the first one did.
MergeMovingAgain(Y, X, len) == Merged(Moved(Pruned(Moved(X, len), Y), len), Y)

\* epsilon_approximation_merge: the labels X, moved along an arc, into Y.
Merge(Y, X, len) == Merged(Pruned(Moved(X, len), Y), Y)

\* target_pruning: the target's labels cover all of a bag.
TargetPruned(target, X) == Walk(X, X, target).kept = <<>>

-----------------------------------------------------------------------------

Init ==
  /\ town \in Town
  /\ \E trip \in Trip : s = trip[1] /\ t = trip[2]
  /\ pc = "search"
  /\ bag = [v \in Vertex |-> IF v = s THEN <<<<0, 0>>>> ELSE <<>>]
  /\ open = <<s>> /\ from = s /\ arcs = {}
  /\ pareto = <<>>
  /\ at = t
  /\ label = <<0, 0>>
  /\ path = <<>>
  /\ geojson = {}

\* The position in open of the vertex whose first label comes first.
Selected ==
  LET first(k) == bag[open[k]][1]
  IN  CHOOSE k \in DOMAIN open :
        \A m \in DOMAIN open \ {k} :
          Before(first(k), first(m)) \/ (first(k) = first(m) /\ k < m)

\* The vertex with the least first label is taken from open.
Select ==
  /\ pc = "search" /\ arcs = {} /\ open # <<>>
  /\ from' = open[Selected]
  /\ open' = RemoveAt(open, Selected)
  /\ arcs' = Neighbours(open[Selected])
  /\ UNCHANGED <<query, pc, bag, pareto, reading, geojson>>

\* Mutant: a vertex is opened once.
OpensOnce(changed, j) ==
  /\ bag[j] = <<>>
  /\ changed /\ InEllipse(j) /\ j # t /\ ~ TargetPruned(bag'[t], bag'[j])

\* A vertex is opened when its bag has changed, unless it is open or pruned.
Opens(changed, j) ==
  /\ changed /\ InEllipse(j)
  /\ j \notin ToSet(open) /\ j # t
  /\ ~ TargetPruned(bag'[t], bag'[j])

\* One turn of the loop over the arcs out of the vertex selected.
Extend ==
  /\ pc = "search" /\ arcs # {}
  /\ LET j == Min(arcs)
     IN  /\ bag' = [bag EXCEPT ![j] = Merge(bag[j], bag[from], Weight(from, j))]
         /\ open' = IF Opens(bag'[j] # bag[j], j) THEN Append(open, j) ELSE open
         /\ arcs' = arcs \ {j}
  /\ UNCHANGED <<query, pc, from, pareto, reading, geojson>>

\* The labels of the target from the shortest on; the n-th is the next to read.
Goal(n) == bag[t][n]

\* Begin to read the n-th label back, if there is one.
Read(n) ==
  /\ pc' = IF n <= Len(bag[t]) THEN "read" ELSE "choose"
  /\ label' = IF n <= Len(bag[t]) THEN Goal(n) ELSE label
  /\ at' = t
  /\ path' = <<>>

Exhausted ==
  /\ pc = "search" /\ arcs = {} /\ open = <<>>
  /\ Read(1)
  /\ UNCHANGED <<query, bag, searching, pareto, geojson>>

\* The vertices whose bag contains what is left of the label before the arc.
Holders == {u \in Neighbours(at) : Minus(label, Weight(u, at)) \in ToSet(bag[u])}

\* Mutant: what is left of the label is not updated.
StepBackKeeping ==
  /\ pc = "read" /\ at # s
  /\ Holders # {}
  /\ LET u == Min(Holders)
     IN  at' = u /\ path' = <<<<u, at>>>> \o path
  /\ UNCHANGED <<query, pc, label, bag, searching, pareto, geojson>>

\* One turn of the loop over the arcs into a vertex.  When no vertex holds the
\* label, the loop makes another turn, and another.
StepBack ==
  /\ pc = "read" /\ at # s
  /\ Holders # {}
  /\ LET u == Min(Holders)
     IN  /\ at' = u
         /\ label' = Minus(label, Weight(u, at))
         /\ path' = <<<<u, at>>>> \o path
  /\ UNCHANGED <<query, pc, bag, searching, pareto, geojson>>

PushPath ==
  /\ pc = "read" /\ at = s
  /\ LET n == Len(pareto) + 1
     IN  /\ pareto' = Append(pareto, [weight |-> Goal(n), path |-> path])
         /\ Read(n + 1)
  /\ UNCHANGED <<query, bag, searching, geojson>>

-----------------------------------------------------------------------------
\* Choosing

\* More than EUCLIDEAN_DISTANCE_DELTA of a span.
Apart(difference, span) == 100 * difference > 15 * span

\* Label a is that much shorter than b, and b that much safer, the spans being
\* those from the first to the last of all labels.
Far(a, b, first, last) ==
  /\ Apart(b[1] - a[1], last[1] - first[1])
  /\ Apart(a[2] - b[2], first[2] - last[2])

\* Mutant: the middle ones are set apart from the first only.
ChosenApartFromFirst(all) ==
  IF Len(all) <= 1 THEN all
  ELSE LET first == all[1]
           last  == all[Len(all)]
       IN  SelectSeq(all, LAMBDA c :
             c = first \/ c = last \/ Far(first.weight, c.weight, first.weight, last.weight))

\* euclidean_distance_choice: the first, the last, and of those between them
\* each that is far, by both criteria, from the one chosen before and from the
\* last.
Chosen(all) ==
  IF Len(all) <= 1 THEN all
  ELSE LET first == all[1]
           last  == all[Len(all)]
           far(a, b) == Far(a.weight, b.weight, first.weight, last.weight)
           chosen[n \in 1 .. Len(all) - 1] ==
             IF n = 1 THEN <<first>>
             ELSE IF far(Last(chosen[n - 1]), all[n]) /\ far(all[n], last)
                  THEN Append(chosen[n - 1], all[n]) ELSE chosen[n - 1]
       IN  Append(chosen[Len(all) - 1], last)

\* get_result empties the list it chose from into its answer.
Choose ==
  /\ pc = "choose"
  /\ pareto' = Chosen(pareto)
  /\ pc' = "dump"
  /\ UNCHANGED <<query, bag, searching, reading, geojson>>

\* The points of a route: where its first arc begins and where each one ends.
Line(route) ==
  IF route = <<>> THEN <<>>
  ELSE <<route[1][1]>> \o [k \in DOMAIN route |-> route[k][2]]

\* dump_geojson: a feature per route, in one of nine colours.
DumpGeojson ==
  /\ pc = "dump"
  /\ geojson' = {[stroke |-> n % 9, coordinates |-> Line(pareto[n].path)] :
                   n \in DOMAIN pareto}
  /\ pc' = "done"
  /\ UNCHANGED <<query, bag, searching, pareto, reading>>

Next ==
  \/ Select
  \/ Extend
  \/ Exhausted
  \/ StepBack
  \/ PushPath
  \/ Choose
  \/ DumpGeojson

\* One thread runs the search without waiting.
Spec == Init /\ [][Next]_vars /\ WF_vars(Next)

-----------------------------------------------------------------------------
\* Reference: all routes without a repeated vertex.

Total(route) ==
  LET upto[k \in 0 .. Len(route)] ==
        IF k <= 1 THEN <<0, 0>> ELSE Plus(upto[k - 1], Weight(route[k - 1], route[k]))
  IN  upto[Len(route)]

\* Routes from s to v, as sequences of vertices, with at most n streets.
Routes(v) ==
  LET longer[n \in 0 .. Cardinality(Vertex) - 1] ==
        IF n = 0 THEN {<<s>>}
        ELSE longer[n - 1] \cup
             UNION {{Append(r, u) : u \in Neighbours(Last(r)) \ ToSet(r)} :
                      r \in longer[n - 1]}
  IN  {r \in longer[Cardinality(Vertex) - 1] : Last(r) = v}

\* A label inflated once for each of n streets.
Allowance(a, n) ==
  LET inflated[k \in 0 .. n] == IF k = 0 THEN a ELSE Inflated(inflated[k - 1])
  IN  inflated[n]

-----------------------------------------------------------------------------
\* Properties

\* No label of a bag dominates another one, and no two have the same length:
\* the ordered sets rely on it (the two merges of pair labels).
BagsUndominated ==
  \A v \in Vertex : \A a, b \in ToSet(bag[v]) : a # b => ~ Covers(a, b)

\* Labels are pairs of a length and a part of it, and none of a bag dominates
\* another one; open vertices are listed once, the target never; and the walk
\* back is a chain of streets to the target.
TypeOK ==
  /\ pc \in {"search", "read", "choose", "dump", "done"}
  /\ \A v \in Vertex : \A a \in ToSet(bag[v]) : a \in Nat \X Nat /\ a[2] <= a[1]
  /\ BagsUndominated
  /\ ToSet(open) \subseteq Vertex /\ IsInjective(open)
  /\ s # t => t \notin ToSet(open)
  /\ from \in Vertex /\ arcs \subseteq Vertex
  /\ at \in Vertex /\ label \in Nat \X Nat
  /\ path # <<>> => path[1][1] = at /\ path[Len(path)][2] = t

\* The one pass of epsilon_approximation_merge along two ordered bags leaves
\* what a comparison of all pairs would: a label comes in unless one that is
\* there covers it inflated, and one that is there goes if a new one covers it.
MergeExact ==
  \A u \in Vertex : \A v \in Neighbours(u) :
    LET moved == {Plus(a, Weight(u, v)) : a \in ToSet(bag[u])}
        new   == {a \in moved : \A b \in ToSet(bag[v]) : ~ Covers(b, Inflated(a))}
        stay  == {b \in ToSet(bag[v]) : \A a \in new : ~ Covers(a, b)}
    IN  ToSet(Merge(bag[v], bag[u], Weight(u, v))) = stay \cup new

\* Every label is what some route without a repeated vertex costs, although
\* whole bags are merged again and again, back and forth along each street.
LabelsReal ==
  \A v \in Vertex : ToSet(bag[v]) \subseteq {Total(r) : r \in Routes(v)}

\* When no vertex is open, the target has a label that covers each route
\* through the ellipse, up to epsilon for each of its streets: neither the
\* labels pruned, nor those erased, nor vertices left closed because the target
\* covered them, lose more.
TargetCovered ==
  pc = "search" /\ arcs = {} /\ open = <<>> =>
    \A r \in Routes(t) :
      (\A k \in 2 .. Len(r) - 1 : InEllipse(r[k])) =>
        \E a \in ToSet(bag[t]) : Covers(a, Allowance(Total(r), Len(r) - 1))

\* The routes written lead from source to target along streets, one costs
\* exactly each label chosen; the shortest and the safest of the labels are
\* among them, and any two differ by more than the delta in both criteria,
\* but for these two.
AnswerSpread ==
  pc = "done" /\ s # t =>
    LET labels == bag[t]
        n      == Len(labels)
        costs  == {Total(f.coordinates) : f \in geojson}
    IN  /\ \A f \in geojson : f.coordinates[1] = s /\ Last(f.coordinates) = t
        /\ Cardinality(geojson) = Cardinality(costs)
        /\ costs \subseteq ToSet(bag[t])
        /\ n > 0 => {labels[1], labels[n]} \subseteq costs
        /\ \A a, b \in costs :
             a[1] < b[1] /\ {a, b} # {labels[1], labels[n]} =>
               Far(a, b, labels[1], labels[n])

\* A town in which no label is long enough for epsilon to prune it.
Fine == \A v \in Vertex : \A r \in Routes(v) : Inflated(Total(r)) = Total(r)

\* In such a town the query ends: the reading back of a label always finds the
\* vertex it came from.
QueryAnswered == (pc = "search" /\ Fine) ~> (pc = "done")

\* "backward recostruction" reaches the source for every label of the target,
\* in any town.
RoutesReadBack == (pc = "search") ~> (pc = "done")

=============================================================================
