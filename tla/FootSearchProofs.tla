-------------------------- MODULE FootSearchProofs --------------------------
(***************************************************************************)
(* The foot search on every graph, with every weight functor and every     *)
(* list of targets: the routes that get_result reads from the predecessors *)
(* are shortest ones.                                                      *)
(*                                                                         *)
(* The visitor stops the search while labels are still open, so it is not  *)
(* enough that settled labels are final: the argument is that no walk      *)
(* leaves the settled vertices for less than the nearest queued one        *)
(* (NoShortcut, SettledOrder), and that no target lies beyond it when the  *)
(* search stops (Waiting).  That the walk back ends, with a route no       *)
(* longer than the walks it is compared with, is Acyclic.                  *)
(*                                                                         *)
(* Then what a client gets of it, on every network: the shortest way when  *)
(* that is asked for, and never more than twice as long a way when the     *)
(* quietest one is.  The functor gives every street between half and all   *)
(* of a hundredfold of its length (Coefficient).  So a route of least      *)
(* weight is compared with the weight of the shortest walk (Scaled), which *)
(* is one of the walks it is least among (ShortestRoutes).                 *)
(***************************************************************************)
EXTENDS FootSearch, NaturalLemmas, FiniteSetTheorems

\* Exactly the vertices seen have a label; only the source has no predecessor.
Labelled ==
  /\ \A u \in Vertex : color[u] = "white" <=> dist[u] = Infinity
  /\ \A u \in Vertex : color[u] = "white" => pred[u] = u
  /\ dist[s] = 0 /\ pred[s] = s
  /\ \A u \in Vertex : pred[u] = u /\ color[u] # "white" => u = s

\* No settled vertex is farther than a queued one.
SettledOrder ==
  \A b, u \in Vertex : color[b] = "black" /\ color[u] = "gray" => dist[b] <= dist[u]

\* A predecessor is settled and accounts for the label.
PredecessorTree ==
  \A u \in Vertex : pred[u] # u =>
    /\ color[pred[u]] = "black"
    /\ <<pred[u], u>> \in Arcs
    /\ dist[u] = dist[pred[u]] + weight[<<pred[u], u>>]

\* No settled vertex can improve another.
NoShortcut ==
  \A b, u \in Vertex : color[b] = "black" /\ <<b, u>> \in Arcs =>
    color[u] # "white" /\ dist[u] <= dist[b] + weight[<<b, u>>]

\* No predecessors go round.
Acyclic ==
  \A S \in SUBSET Vertex : S # {} => \E u \in S : pred[u] = u \/ pred[u] \notin S

\* The visitor waits for every target that is not settled; when the search has
\* stopped, no queued vertex is nearer than a target.
Waiting ==
  \A i \in DOMAIN targets :
    /\ pc = "search" => color[targets[i]] = "black" \/ Contains(wanted, targets[i])
    /\ pc # "search" => \A g \in Queued : ~ Less(dist[g], dist[targets[i]])

\* Arcs one after the other, each from the predecessor of its head.
IsChain(p) ==
  /\ p \in Seq(Arcs)
  /\ \A n \in 1 .. Len(p) : p[n][1] = pred[p[n][2]] /\ pred[p[n][2]] # p[n][2]
  /\ \A n \in 1 .. Len(p) - 1 : p[n][2] = p[n + 1][1]

Joins(p, u, w) == p # <<>> /\ p[1][1] = u /\ p[Len(p)][2] = w

\* get_result is on its way from a target to the source.
WalkingBack ==
  /\ path \in Seq(Arcs)
  /\ pc = "walk back" =>
       /\ Len(routes) < Len(targets) /\ color[v] # "white"
       /\ pred[NextTarget] # NextTarget
       /\ IsChain(path)
       /\ (path = <<>> /\ v = NextTarget) \/ Joins(path, v, NextTarget)

\* What it has read.
RoutesRead ==
  /\ routes \in Seq([length : Nat, path : Seq(Arcs)])
  /\ Len(routes) <= Len(targets)
  /\ pc = "search" => routes = <<>>
  /\ \A i \in DOMAIN routes :
       /\ routes[i].length = dist[targets[i]]
       /\ IsChain(routes[i].path)
       /\ Joins(routes[i].path, s, targets[i])

IInv ==
  /\ TypeOK /\ weight \in WeightFns
  /\ Labelled
  /\ SettledOrder
  /\ PredecessorTree
  /\ NoShortcut
  /\ Acyclic
  /\ Waiting
  /\ WalkingBack
  /\ RoutesRead

-----------------------------------------------------------------------------

\* The entries of two sequences, one after the other.
LEMMA Concatenated ==
  ASSUME NEW T, NEW x \in Seq(T), NEW y \in Seq(T)
  PROVE  /\ x \o y \in Seq(T) /\ Len(x \o y) = Len(x) + Len(y)
         /\ \A i \in 1 .. Len(x) : (x \o y)[i] = x[i]
         /\ \A i \in 1 .. Len(y) : (x \o y)[Len(x) + i] = y[i]
<1>1. x \o y \in Seq(T) /\ Len(x \o y) = Len(x) + Len(y)
  OBVIOUS
<1>2. \A i \in 1 .. Len(x) : (x \o y)[i] = x[i]
  OBVIOUS
<1>3. \A i \in 1 .. Len(y) : (x \o y)[Len(x) + i] = y[i]
  OBVIOUS
<1>4. QED
  BY <1>1, <1>2, <1>3

\* One entry more.
LEMMA Appended ==
  ASSUME NEW T, NEW q \in Seq(T), NEW r \in T
  PROVE  /\ Append(q, r) \in Seq(T) /\ Len(Append(q, r)) = Len(q) + 1 /\ Len(q) \in Nat
         /\ DOMAIN Append(q, r) = 1 .. Len(q) + 1 /\ DOMAIN q = 1 .. Len(q)
         /\ Append(q, r)[Len(q) + 1] = r
         /\ \A i \in 1 .. Len(q) : Append(q, r)[i] = q[i]
<1>1. Append(q, r) \in Seq(T) /\ Len(Append(q, r)) = Len(q) + 1 /\ Len(q) \in Nat
  OBVIOUS
<1>2. DOMAIN Append(q, r) = 1 .. Len(q) + 1 /\ DOMAIN q = 1 .. Len(q)
  OBVIOUS
<1>3. Append(q, r)[Len(q) + 1] = r
  OBVIOUS
<1>4. \A i \in 1 .. Len(q) : Append(q, r)[i] = q[i]
  OBVIOUS
<1>5. QED
  BY <1>1, <1>2, <1>3, <1>4

\* Crossing off an entry keeps the others.
LEMMA CrossedOff ==
  ASSUME NEW T, NEW q \in Seq(T), NEW e, Contains(q, e)
  PROVE  /\ RemoveFirst(q, e) \in Seq(T)
         /\ \A x : x # e /\ Contains(q, x) => Contains(RemoveFirst(q, e), x)
<1> DEFINE I == {i \in 1 .. Len(q) : q[i] = e}
           k == Min(I)
           r == SubSeq(q, 1, k - 1) \o SubSeq(q, k + 1, Len(q))
<1>1. RemoveFirst(q, e) = r
  BY DEF RemoveFirst, RemoveAt, SelectInSeq, Contains
<1>2. k \in I
  <2>1. I \in SUBSET Nat /\ I # {}
    BY DEF Contains
  <2> HIDE DEF I
  <2>2. QED
    BY <2>1, LeastNatural DEF Min
<1>3. k \in 1 .. Len(q) /\ q[k] = e /\ Len(q) \in Nat
  BY <1>2
<1> HIDE DEF k, I
<1>4. /\ SubSeq(q, 1, k - 1) \in Seq(T) /\ Len(SubSeq(q, 1, k - 1)) = k - 1
      /\ \A i \in 1 .. k - 1 : SubSeq(q, 1, k - 1)[i] = q[i]
  BY <1>3
<1>5. /\ SubSeq(q, k + 1, Len(q)) \in Seq(T) /\ Len(SubSeq(q, k + 1, Len(q))) = Len(q) - k
      /\ \A i \in 1 .. Len(q) - k : SubSeq(q, k + 1, Len(q))[i] = q[k + i]
  BY <1>3
<1>6. /\ r \in Seq(T) /\ Len(r) = Len(q) - 1
      /\ \A i \in 1 .. Len(q) - 1 : r[i] = IF i < k THEN q[i] ELSE q[i + 1]
  <2>1. PICK x, y : x = SubSeq(q, 1, k - 1) /\ y = SubSeq(q, k + 1, Len(q))
    OBVIOUS
  <2>2. /\ x \in Seq(T) /\ Len(x) = k - 1 /\ y \in Seq(T) /\ Len(y) = Len(q) - k
        /\ \A i \in 1 .. k - 1 : x[i] = q[i]
        /\ \A i \in 1 .. Len(q) - k : y[i] = q[k + i]
    BY <1>4, <1>5, <2>1
  <2>3. r = x \o y
    BY <2>1
  <2> HIDE DEF r
  <2>4. /\ r \in Seq(T) /\ Len(r) = Len(x) + Len(y)
        /\ \A i \in 1 .. Len(x) : r[i] = x[i]
        /\ \A i \in 1 .. Len(y) : r[Len(x) + i] = y[i]
    <3>1. x \in Seq(T) /\ y \in Seq(T)
      BY <2>2
    <3>2. /\ x \o y \in Seq(T) /\ Len(x \o y) = Len(x) + Len(y)
          /\ \A i \in 1 .. Len(x) : (x \o y)[i] = x[i]
          /\ \A i \in 1 .. Len(y) : (x \o y)[Len(x) + i] = y[i]
      BY ONLY <3>1, Concatenated
    <3>3. QED
      BY <2>3, <3>2
  <2>5. ASSUME NEW i \in 1 .. Len(q) - 1 PROVE r[i] = IF i < k THEN q[i] ELSE q[i + 1]
    <3>1. CASE i < k
      <4>1. i \in 1 .. k - 1
        BY <1>3, <3>1
      <4>2. QED
        BY <2>2, <2>4, <3>1, <4>1
    <3>2. CASE ~ (i < k)
      <4>1. PICK j \in 1 .. Len(q) - k : i = Len(x) + j /\ k + j = i + 1
        <5>1. i - (k - 1) \in 1 .. Len(q) - k
          BY <1>3, <3>2
        <5>2. i = (k - 1) + (i - (k - 1)) /\ k + (i - (k - 1)) = i + 1
          BY <1>3
        <5>3. QED
          BY <2>2, <5>1, <5>2
      <4>2. r[i] = y[j] /\ y[j] = q[k + j]
        BY <2>2, <2>4, <4>1
      <4>3. QED
        BY <3>2, <4>1, <4>2
    <3>3. QED
      BY <3>1, <3>2
  <2>6. QED
    BY <1>3, <2>2, <2>4, <2>5
<1> HIDE DEF r
<1>7. ASSUME NEW x, x # e, Contains(q, x) PROVE Contains(r, x)
  <2>1. PICK i \in 1 .. Len(q) : q[i] = x
    BY <1>7 DEF Contains
  <2>2. CASE i < k
    <3>1. i \in 1 .. Len(r) /\ r[i] = x
      BY <1>3, <1>6, <2>1, <2>2
    <3>2. QED
      BY <3>1 DEF Contains
  <2>3. CASE i > k
    <3>1. PICK j \in 1 .. Len(r) : j = i - 1 /\ j + 1 = i /\ ~ (j < k)
      BY <1>3, <1>6, <2>3
    <3>2. r[j] = x
      BY <1>6, <2>1, <3>1
    <3>3. QED
      BY <3>2 DEF Contains
  <2>4. QED
    BY <1>3, <1>7, <2>1, <2>2, <2>3
<1>8. QED
  BY <1>1, <1>6, <1>7

\* What the visitor does to the targets it waits for.
LEMMA ExaminedKeeps ==
  ASSUME TypeOK, NEW u \in Vertex
  PROVE  /\ Examined(u) \in Seq(Vertex)
         /\ \A x : x # u /\ Contains(wanted, x) => Contains(Examined(u), x)
BY CrossedOff DEF TypeOK, Examined

\* The ends of an arc, and the labels of what is seen.
LEMMA ArcEnds ==
  ASSUME TypeOK, NEW a \in Arcs
  PROVE  /\ a[1] \in Vertex /\ a[2] \in Vertex /\ a = <<a[1], a[2]>>
         /\ weight[a] \in Nat
<1>1. a \in Vertex \X Vertex
  BY GraphAssumption
<1>2. weight[a] \in Nat
  BY DEF TypeOK
<1>3. QED
  BY <1>1, <1>2

\* Vertices that were seen have a finite label.
LEMMA LabelTyped ==
  ASSUME TypeOK, Labelled, NEW u \in Vertex, color[u] # "white"
  PROVE  dist[u] \in Nat
BY DEF TypeOK, Labelled

-----------------------------------------------------------------------------

\* The source is queued at distance 0, and every target is waited for.
LEMMA InitInv == Init => IInv
<1> SUFFICES ASSUME Init PROVE IInv
  OBVIOUS
<1>1. targets \in Seq(Vertex) /\ Len(targets) \in Nat
  BY GraphAssumption DEF Init
<1>2. TypeOK /\ weight \in WeightFns
  BY <1>1, GraphAssumption DEF Init, TypeOK, Infinity
<1>3. Labelled /\ SettledOrder /\ PredecessorTree /\ NoShortcut /\ Acyclic
  BY DEF Init, Labelled, SettledOrder, PredecessorTree, NoShortcut, Acyclic, Infinity
<1>4. Waiting
  BY <1>1 DEF Init, Waiting, Contains
<1>5. WalkingBack /\ RoutesRead
  BY <1>1 DEF Init, WalkingBack, RoutesRead
<1>6. QED
  BY <1>2, <1>3, <1>4, <1>5 DEF IInv

\* The nearest vertex is settled and improves those after it.
LEMMA PopVertexInv == ASSUME IInv, PopVertex PROVE IInv'
<1>0. /\ TypeOK /\ Labelled /\ SettledOrder /\ PredecessorTree /\ NoShortcut
      /\ Acyclic /\ Waiting /\ WalkingBack /\ RoutesRead /\ weight \in WeightFns
  BY DEF IInv
<1>1. PICK u \in Top :
        /\ ~ (Contains(wanted, u) /\ Examined(u) = <<>>)
        /\ wanted' = Examined(u)
        /\ dist' = [w \in Vertex |->
             IF w \in Better(u) THEN dist[u] + weight[<<u, w>>] ELSE dist[w]]
        /\ pred' = [w \in Vertex |-> IF w \in Better(u) THEN u ELSE pred[w]]
        /\ color' = [w \in Vertex |->
             IF w = u THEN "black"
             ELSE IF <<u, w>> \in Arcs /\ color[w] = "white" THEN "gray" ELSE color[w]]
  BY DEF PopVertex
<1>2. pc = "search" /\ UNCHANGED <<weight, s, targets, pc, v, path, routes>>
  BY DEF PopVertex, query
<1> DEFINE B == Better(u)
           seen(w) == <<u, w>> \in Arcs /\ color[w] = "white"
<1>near. PICK near : near = [w \in Vertex |-> dist[u] + weight[<<u, w>>]]
  OBVIOUS
<1>3. u \in Vertex /\ color[u] = "gray" /\ dist[u] \in Nat
  BY <1>0, LabelTyped DEF Top, Queued
<1>4. \A w \in Vertex : color[w] # "white" => dist[w] \in Nat
  BY <1>0, LabelTyped
<1>5. \A w \in Vertex : color[w] = "gray" => dist[u] <= dist[w]
  BY <1>3, <1>4 DEF Top, Queued, Less, Infinity
<1>6. \A w \in Vertex : <<u, w>> \in Arcs =>
        weight[<<u, w>>] \in Nat /\ near[w] \in Nat /\ dist[u] <= near[w]
  <2> SUFFICES ASSUME NEW w \in Vertex, <<u, w>> \in Arcs
               PROVE  weight[<<u, w>>] \in Nat /\ near[w] \in Nat /\ dist[u] <= near[w]
    OBVIOUS
  <2>1. weight[<<u, w>>] \in Nat
    BY <1>0, ArcEnds
  <2>2. QED
    BY <1>3, <1>near, <2>1
<1>7. \A w \in B : w \in Vertex /\ <<u, w>> \in Arcs /\ color[w] # "black"
  BY DEF Better
<1>nearer. \A w \in B : /\ near[w] \in Nat /\ dist[u] <= near[w]
                        /\ color[w] = "white" \/ near[w] < dist[w]
  <2> SUFFICES ASSUME NEW w \in B
               PROVE  /\ near[w] \in Nat /\ dist[u] <= near[w]
                      /\ color[w] = "white" \/ near[w] < dist[w]
    OBVIOUS
  <2>1. near[w] \in Nat /\ dist[u] <= near[w]
    BY <1>6, <1>7
  <2>2. color[w] = "white" \/ near[w] < dist[w]
    BY <1>0, <1>7, <1>near DEF Better, Less, Labelled
  <2>3. QED
    BY <2>1, <2>2
<1>8. u \notin B
  <2> SUFFICES ASSUME u \in B PROVE FALSE
    OBVIOUS
  <2>1. near[u] < dist[u]
    BY <1>3, <1>nearer
  <2>2. near[u] \in Nat /\ dist[u] <= near[u]
    BY <1>nearer
  <2>3. QED
    BY <1>3, <2>1, <2>2
<1>9. \A w \in Vertex : /\ seen(w) => w \in B
                        /\ <<u, w>> \in Arcs /\ color[w] = "gray" /\ w \notin B => dist[w] <= near[w]
  <2>1. ASSUME NEW w \in Vertex, seen(w) PROVE w \in B
    BY <1>0, <1>near, <1>6, <2>1 DEF Better, Less, Labelled, Infinity
  <2>2. ASSUME NEW w \in Vertex, <<u, w>> \in Arcs, color[w] = "gray", w \notin B
        PROVE  dist[w] <= near[w]
    BY <1>4, <1>near, <1>6, <2>2 DEF Better, Less, Infinity
  <2>3. QED
    BY <2>1, <2>2
<1>10. \A w \in Vertex : /\ dist'[w] = IF w \in B THEN near[w] ELSE dist[w]
                         /\ pred'[w] = IF w \in B THEN u ELSE pred[w]
                         /\ color'[w] = IF w = u THEN "black" ELSE IF seen(w) THEN "gray" ELSE color[w]
  BY <1>1, <1>near
<1>11. TypeOK'
  <2>1. dist' \in [Vertex -> Nat \cup {Infinity}]
    BY <1>0, <1>1, <1>near, <1>nearer DEF TypeOK
  <2>2. pred' \in [Vertex -> Vertex]
    BY <1>0, <1>1, <1>3 DEF TypeOK
  <2>3. color' \in [Vertex -> {"white", "gray", "black"}]
    BY <1>0, <1>1 DEF TypeOK
  <2>4. wanted' \in Seq(Vertex)
    BY <1>0, <1>1, <1>3, ExaminedKeeps
  <2>5. QED
    BY <1>0, <1>2, <2>1, <2>2, <2>3, <2>4 DEF TypeOK
<1> HIDE DEF B, seen
<1>12. \A w \in Vertex : /\ color'[w] = "black" <=> color[w] = "black" \/ w = u
                         /\ color[w] = "black" => dist'[w] = dist[w] /\ pred'[w] = pred[w]
                         /\ color'[w] = "white" <=> color[w] = "white" /\ ~ seen(w)
  BY <1>3, <1>7, <1>10 DEF seen
<1>13. Labelled'
  <2>1. ASSUME NEW w \in Vertex
        PROVE  /\ color'[w] = "white" <=> dist'[w] = Infinity
               /\ color'[w] = "white" => pred'[w] = w
               /\ pred'[w] = w /\ color'[w] # "white" => w = s
    <3>1. CASE w \in B
      <4>1. color'[w] # "white" /\ dist'[w] \in Nat /\ pred'[w] # w
        BY <1>7, <1>nearer, <1>8, <1>10, <1>12, <3>1 DEF seen
      <4>2. QED
        BY <4>1 DEF Infinity
    <3>2. CASE w \notin B
      BY <1>0, <1>9, <1>10, <1>12, <3>2 DEF Labelled
    <3>3. QED
      BY <3>1, <3>2
  <2>2. s \notin B
    <3>1. s \in Vertex /\ dist[s] = 0 /\ color[s] # "white"
      <4>1. s \in Vertex
        BY <1>0 DEF TypeOK
      <4>2. dist[s] = 0 /\ dist[s] # Infinity
        BY <1>0 DEF Labelled, Infinity
      <4>3. QED
        BY <1>0, <4>1, <4>2 DEF Labelled
    <3>2. \A w \in B : color[w] = "white" \/ dist[w] # 0
      BY <1>3, <1>4, <1>7, <1>nearer
    <3>3. QED
      BY <3>1, <3>2
  <2>3. dist'[s] = 0 /\ pred'[s] = s
    BY <1>0, <1>10, <2>2 DEF TypeOK, Labelled
  <2>4. QED
    BY <1>2, <2>1, <2>3 DEF Labelled
<1>14. SettledOrder'
  <2> SUFFICES ASSUME NEW b \in Vertex, NEW w \in Vertex, color'[b] = "black", color'[w] = "gray"
               PROVE  dist'[b] <= dist'[w]
    BY DEF SettledOrder
  <2>1. dist'[b] = dist[b] /\ dist[b] <= dist[u] /\ dist[b] \in Nat
    <3>1. CASE b = u
      BY <1>3, <1>8, <1>10, <3>1
    <3>2. CASE b # u
      BY <1>0, <1>3, <1>4, <1>12, <3>2 DEF SettledOrder
    <3>3. QED
      BY <3>1, <3>2
  <2>2. dist[u] <= dist'[w] /\ dist'[w] \in Nat
    <3>1. CASE w \in B
      BY <1>3, <1>nearer, <1>10, <3>1
    <3>2. CASE w \notin B
      BY <1>4, <1>5, <1>9, <1>10, <3>2
    <3>3. QED
      BY <3>1, <3>2
  <2>3. QED
    BY <1>3, <2>1, <2>2
<1>15. PredecessorTree'
  <2> SUFFICES ASSUME NEW w \in Vertex, pred'[w] # w
               PROVE  /\ color'[pred'[w]] = "black" /\ <<pred'[w], w>> \in Arcs
                      /\ dist'[w] = dist'[pred'[w]] + weight[<<pred'[w], w>>]
    BY <1>2 DEF PredecessorTree
  <2>1. CASE w \in B
    BY <1>3, <1>7, <1>near, <1>8, <1>10, <2>1
  <2>2. CASE w \notin B
    <3>1. pred'[w] = pred[w] /\ dist'[w] = dist[w] /\ pred[w] \in Vertex /\ pred[w] # w
      BY <1>0, <1>10, <2>2 DEF TypeOK
    <3>2. QED
      BY <1>0, <1>12, <3>1 DEF PredecessorTree
  <2>3. QED
    BY <2>1, <2>2
<1>16. NoShortcut'
  <2> SUFFICES ASSUME NEW b \in Vertex, NEW w \in Vertex, color'[b] = "black", <<b, w>> \in Arcs
               PROVE  color'[w] # "white" /\ dist'[w] <= dist'[b] + weight[<<b, w>>]
    BY <1>2 DEF NoShortcut
  <2>1. CASE b = u
    <3>1. dist'[b] = dist[u] /\ dist[u] + weight[<<b, w>>] = near[w]
      BY <1>3, <1>8, <1>10, <1>near, <2>1
    <3>2. CASE w \in B
      BY <1>7, <1>nearer, <1>10, <1>12, <2>1, <3>1, <3>2 DEF seen
    <3>3. CASE w \notin B /\ color[w] = "black"
      <4>1. dist[w] <= dist[u] /\ dist[w] \in Nat
        BY <1>0, <1>3, <1>4, <3>3 DEF SettledOrder
      <4>2. dist'[w] = dist[w] /\ color'[w] = "black"
        BY <1>12, <3>3
      <4>3. QED
        BY <1>3, <1>6, <2>1, <3>1, <4>1, <4>2
    <3>4. CASE w \notin B /\ color[w] # "black"
      <4>1. color[w] = "gray"
        BY <1>0, <1>9, <2>1, <3>4 DEF TypeOK, seen
      <4>2. QED
        BY <1>9, <1>10, <1>12, <2>1, <3>1, <3>4, <4>1
    <3>5. QED
      BY <3>2, <3>3, <3>4
  <2>2. CASE b # u
    <3>1. color[b] = "black" /\ dist'[b] = dist[b] /\ dist[b] \in Nat /\ weight[<<b, w>>] \in Nat
      <4>1. color[b] = "black" /\ dist'[b] = dist[b] /\ dist[b] \in Nat
        BY <1>4, <1>12, <2>2
      <4>2. QED
        BY <1>0, <4>1, ArcEnds
    <3>2. color[w] # "white" /\ dist[w] <= dist[b] + weight[<<b, w>>] /\ dist[w] \in Nat
      BY <1>0, <1>4, <3>1 DEF NoShortcut
    <3>3. dist'[w] <= dist[w] /\ dist'[w] \in Nat
      <4>1. CASE w \in B
        BY <1>4, <1>nearer, <1>10, <3>2, <4>1
      <4>2. CASE w \notin B
        BY <1>10, <3>2, <4>2
      <4>3. QED
        BY <4>1, <4>2
    <3>4. QED
      BY <1>12, <3>1, <3>2, <3>3
  <2>3. QED
    BY <2>1, <2>2
<1>17. Acyclic'
  <2> SUFFICES ASSUME NEW S \in SUBSET Vertex, S # {}
               PROVE  \E w \in S : pred'[w] = w \/ pred'[w] \notin S
    BY DEF Acyclic
  <2> DEFINE K == {w \in S : color[w] = "black"}
  <2>1. \A w \in Vertex : pred[w] # w => color[pred[w]] = "black"
    BY <1>0 DEF PredecessorTree
  <2>2. CASE K # {}
    <3>1. PICK w \in K : pred[w] = w \/ pred[w] \notin K
      BY <1>0, <2>2 DEF Acyclic
    <3>2. pred'[w] = pred[w] /\ w \in S
      BY <1>12, <3>1
    <3>3. QED
      BY <2>1, <3>1, <3>2
  <2>3. CASE K = {} /\ u \in S
    <3>1. pred'[u] = pred[u]
      BY <1>3, <1>8, <1>10
    <3>2. pred[u] = u \/ pred[u] \notin S
      BY <1>3, <2>1, <2>3
    <3>3. QED
      BY <2>3, <3>1, <3>2
  <2>4. CASE K = {} /\ u \notin S
    BY <1>10, <2>1, <2>4
  <2>5. QED
    BY <2>2, <2>3, <2>4
<1>18. Waiting'
  <2> SUFFICES ASSUME NEW i \in DOMAIN targets
               PROVE  color'[targets[i]] = "black" \/ Contains(wanted', targets[i])
    BY <1>2 DEF Waiting
  <2>1. targets[i] \in Vertex
    <3>1. targets \in Seq(Vertex)
      BY <1>0, GraphAssumption DEF TypeOK
    <3>2. QED
      BY <3>1
  <2>2. CASE color[targets[i]] = "black" \/ targets[i] = u
    BY <1>12, <2>1, <2>2
  <2>3. CASE ~ (color[targets[i]] = "black" \/ targets[i] = u)
    <3>1. Contains(wanted, targets[i])
      BY <1>0, <1>2, <2>3 DEF Waiting
    <3>2. QED
      BY <1>0, <1>1, <1>3, <2>3, <3>1, ExaminedKeeps
  <2>4. QED
    BY <2>2, <2>3
<1>19. WalkingBack'
  BY <1>0, <1>2 DEF WalkingBack
<1>20. RoutesRead'
  BY <1>0, <1>2 DEF RoutesRead
<1>21. QED
  BY <1>0, <1>2, <1>11, <1>13, <1>14, <1>15, <1>16, <1>17, <1>18, <1>19, <1>20 DEF IInv

\* The steps that leave the labels alone.
LEMMA LabelsKept ==
  ASSUME IInv, UNCHANGED <<weight, s, targets, dist, pred, color>>
  PROVE  /\ weight' \in WeightFns
         /\ Labelled' /\ SettledOrder' /\ PredecessorTree' /\ NoShortcut' /\ Acyclic'
         /\ Queued' = Queued /\ \A p : IsChain(p)' <=> IsChain(p)
<1>1. weight' \in WeightFns /\ Labelled' /\ SettledOrder'
  BY DEF IInv, Labelled, SettledOrder
<1>2. PredecessorTree' /\ NoShortcut' /\ Acyclic'
  BY DEF IInv, PredecessorTree, NoShortcut, Acyclic
<1>3. Queued' = Queued /\ \A p : IsChain(p)' <=> IsChain(p)
  BY DEF Queued, IsChain
<1>4. QED
  BY <1>1, <1>2, <1>3

\* The search stops at the last target that the visitor waits for, or without one.
LEMMA StopInv == ASSUME IInv, TargetFound \/ Exhausted PROVE IInv'
<1>1. /\ UNCHANGED <<weight, s, targets, dist, pred, color, v, path, routes>>
      /\ pc = "search" /\ pc' = "read" /\ wanted' \in {wanted, <<>>}
  BY DEF TargetFound, Exhausted, query, maps
<1>2. TypeOK'
  <2>1. wanted \in Seq(Vertex) /\ <<>> \in Seq(Vertex)
    <3>1. wanted \in Seq(Vertex)
      BY DEF IInv, TypeOK
    <3>2. <<>> \in Seq(Vertex)
      OBVIOUS
    <3>3. QED
      BY <3>1, <3>2
  <2>2. wanted' \in Seq(Vertex)
    BY <1>1, <2>1
  <2>3. QED
    BY <1>1, <2>2 DEF IInv, TypeOK
<1>3. Waiting'
  <2> SUFFICES ASSUME NEW i \in DOMAIN targets, NEW g \in Queued
               PROVE  ~ Less(dist[g], dist[targets[i]])
    BY <1>1, LabelsKept DEF Waiting
  <2>1. CASE TargetFound
    <3>1. PICK u \in Top : Contains(wanted, u) /\ Examined(u) = <<>>
      BY <2>1 DEF TargetFound
    <3>2. u \in Vertex /\ g \in Vertex /\ color[g] = "gray"
      BY <3>1 DEF Top, Queued
    <3>3. targets[i] \in Vertex
      <4>1. targets \in Seq(Vertex)
        BY GraphAssumption DEF IInv, TypeOK
      <4>2. QED
        BY <4>1
    <3>4. CASE color[targets[i]] = "black"
      <4>1. dist[targets[i]] <= dist[g]
        BY <3>2, <3>3, <3>4 DEF IInv, SettledOrder
      <4>2. dist[targets[i]] \in Nat /\ dist[g] \in Nat
        BY <3>2, <3>3, <3>4, LabelTyped DEF IInv
      <4>3. QED
        BY <4>1, <4>2 DEF Less, Infinity
    <3>5. CASE color[targets[i]] # "black"
      <4>1. Contains(wanted, targets[i])
        BY <1>1, <3>5 DEF IInv, Waiting
      <4>2. ~ Contains(<<>>, targets[i])
        BY DEF Contains
      <4>3. targets[i] = u
        BY <3>1, <3>2, <4>1, <4>2, ExaminedKeeps DEF IInv
      <4>4. QED
        BY <3>1, <4>3 DEF Top
    <3>6. QED
      BY <3>4, <3>5
  <2>2. CASE Exhausted
    BY <2>2 DEF Exhausted
  <2>3. QED
    BY <2>1, <2>2
<1>4. WalkingBack'
  BY <1>1 DEF IInv, WalkingBack
<1>5. RoutesRead'
  BY <1>1, LabelsKept DEF IInv, RoutesRead
<1>6. QED
  BY <1>1, <1>2, <1>3, <1>4, <1>5, LabelsKept DEF IInv

\* What get_result does to the labels: nothing.
LEMMA ReadingKeeps ==
  ASSUME IInv, UNCHANGED <<weight, s, targets, wanted, dist, pred, color>>,
         pc # "search", pc' \in {"read", "walk back", "failed", "done"},
         v' \in Vertex, WalkingBack', RoutesRead'
  PROVE  IInv'
<1>1. TypeOK'
  <2>1. path' \in Seq(Arcs)
    BY DEF WalkingBack
  <2>2. Len(routes') <= Len(targets')
    BY DEF RoutesRead
  <2>3. TypeOK
    BY DEF IInv
  <2>4. QED
    BY <2>1, <2>2, <2>3 DEF TypeOK
<1>2. Waiting'
  BY LabelsKept DEF IInv, Waiting
<1>3. QED
  BY <1>1, <1>2, LabelsKept DEF IInv

\* The steps that end a query keep the invariant.
LEMMA EndInv == ASSUME IInv, NoPath \/ Finish PROVE IInv'
<1>1. /\ UNCHANGED <<weight, s, targets, wanted, dist, pred, color, v, path, routes>>
      /\ pc = "read" /\ pc' \in {"failed", "done"}
  BY DEF NoPath, Finish, query, maps
<1>2. WalkingBack'
  BY <1>1 DEF IInv, WalkingBack
<1>3. RoutesRead'
  BY <1>1, LabelsKept DEF IInv, RoutesRead
<1>4. v' \in Vertex
  BY <1>1 DEF IInv, TypeOK
<1>5. QED
  BY <1>1, <1>2, <1>3, <1>4, ReadingKeeps

\* The next target is in the list.
LEMMA NextTargetTyped ==
  ASSUME IInv, Len(routes) < Len(targets)
  PROVE  NextTarget \in Vertex
<1>1. targets \in Seq(Vertex)
  BY GraphAssumption DEF IInv, TypeOK
<1>2. Len(routes) \in Nat
  BY DEF IInv, RoutesRead
<1>3. QED
  BY <1>1, <1>2 DEF NextTarget

\* Reading back starts at a target that is settled, with the empty route to it.
LEMMA ReadTargetInv == ASSUME IInv, ReadTarget PROVE IInv'
<1>1. /\ UNCHANGED <<weight, s, targets, wanted, dist, pred, color, routes>>
      /\ pc = "read" /\ pc' = "walk back" /\ Len(routes) < Len(targets)
      /\ pred[NextTarget] # NextTarget /\ v' = NextTarget /\ path' = <<>>
  BY DEF ReadTarget, query, maps
<1>2. NextTarget \in Vertex
  BY <1>1, NextTargetTyped
<1>3. color[NextTarget] # "white"
  BY <1>1, <1>2 DEF IInv, Labelled
<1>4. IsChain(<<>>)
  BY DEF IsChain
<1>5. WalkingBack'
  <2>1. <<>> \in Seq(Arcs)
    OBVIOUS
  <2>2. IsChain(path')
    BY <1>1, <1>4, Zenon
  <2>3. IsChain(path)'
    BY <2>2, LabelsKept, <1>1
  <2>4. QED
    BY <1>1, <1>3, <2>1, <2>3 DEF WalkingBack, NextTarget
<1>6. RoutesRead'
  BY <1>1, LabelsKept DEF IInv, RoutesRead
<1>7. QED
  BY <1>1, <1>2, <1>5, <1>6, ReadingKeeps

\* One arc more at the front of the route.
LEMMA TraceBackInv == ASSUME IInv, TraceBack PROVE IInv'
<1>1. /\ UNCHANGED <<weight, s, targets, wanted, dist, pred, color, routes>>
      /\ pc = "walk back" /\ pc' = pc /\ pred[v] # v /\ <<pred[v], v>> \in Arcs
      /\ path' = <<<<pred[v], v>>>> \o path /\ v' = pred[v]
  BY DEF TraceBack, query, maps
<1>2. v \in Vertex /\ pred[v] \in Vertex
  BY DEF IInv, TypeOK
<1>3. /\ Len(routes) < Len(targets) /\ pred[NextTarget] # NextTarget /\ IsChain(path)
      /\ (path = <<>> /\ v = NextTarget) \/ Joins(path, v, NextTarget)
  BY <1>1 DEF IInv, WalkingBack
<1>4. color[pred[v]] # "white"
  BY <1>1, <1>2 DEF IInv, PredecessorTree
<1>5. PICK e \in Arcs : e = <<pred[v], v>>
  BY <1>1
<1>6. e[1] = pred[v] /\ e[2] = v
  BY <1>5
<1>7. path \in Seq(Arcs)
  BY <1>3 DEF IsChain
<1>8. /\ path' \in Seq(Arcs) /\ Len(path') = Len(path) + 1 /\ path' # <<>>
      /\ path'[1] = e /\ \A n \in 1 .. Len(path) : path'[n + 1] = path[n]
  <2>1. path' = <<e>> \o path /\ <<e>> \in Seq(Arcs) /\ Len(<<e>>) = 1 /\ <<e>>[1] = e
    <3>1. <<e>> \in Seq(Arcs) /\ Len(<<e>>) = 1 /\ <<e>>[1] = e
      OBVIOUS
    <3>2. path' = <<e>> \o path
      BY <1>1, <1>5, Zenon
    <3>3. QED
      BY <3>1, <3>2
  <2>2. /\ path' \in Seq(Arcs) /\ Len(path') = 1 + Len(path)
        /\ \A n \in 1 .. 1 : path'[n] = <<e>>[n]
        /\ \A n \in 1 .. Len(path) : path'[1 + n] = path[n]
    BY ONLY <1>7, <2>1, Concatenated
  <2>3. Len(path) \in Nat /\ \A n \in 1 .. Len(path) : n + 1 = 1 + n
    BY <1>7
  <2>4. path'[1] = e
    BY <2>1, <2>2
  <2>5. QED
    BY <2>2, <2>3, <2>4
<1>9. IsChain(path')
  <2>1. ASSUME NEW n \in 1 .. Len(path')
        PROVE  path'[n][1] = pred[path'[n][2]] /\ pred[path'[n][2]] # path'[n][2]
    <3>1. CASE n = 1
      BY <1>1, <1>6, <1>8, <3>1
    <3>2. CASE n # 1
      <4>1. PICK m \in 1 .. Len(path) : m + 1 = n
        <5>1. n - 1 \in 1 .. Len(path) /\ (n - 1) + 1 = n
          BY <1>7, <1>8, <3>2
        <5>2. QED
          BY <5>1
      <4>2. path'[n] = path[m]
        BY <1>8, <4>1
      <4>3. QED
        BY <1>3, <4>2 DEF IsChain
    <3>3. QED
      BY <3>1, <3>2
  <2>2. ASSUME NEW n \in 1 .. Len(path') - 1
        PROVE  path'[n][2] = path'[n + 1][1]
    <3>1. CASE n = 1
      <4>1. path # <<>> /\ 1 \in 1 .. Len(path)
        BY <1>7, <1>8, <3>1
      <4>2. path'[n + 1] = path[1] /\ path[1][1] = v
        BY <1>3, <1>8, <3>1, <4>1 DEF Joins
      <4>3. QED
        BY <1>6, <1>8, <3>1, <4>2
    <3>2. CASE n # 1
      <4>1. PICK m \in 1 .. Len(path) - 1 : m + 1 = n
        <5>1. n - 1 \in 1 .. Len(path) - 1 /\ (n - 1) + 1 = n
          BY <1>7, <1>8, <3>2
        <5>2. QED
          BY <5>1
      <4>2. m \in 1 .. Len(path) /\ n \in 1 .. Len(path)
        BY <1>7, <4>1
      <4>3. path'[n] = path[m] /\ path'[n + 1] = path[m + 1]
        BY <1>8, <4>1, <4>2
      <4>4. QED
        BY <1>3, <4>1, <4>3 DEF IsChain
    <3>3. QED
      BY <3>1, <3>2
  <2>3. QED
    BY <1>8, <2>1, <2>2 DEF IsChain
<1>10. Joins(path', pred[v], NextTarget)
  <2>1. CASE path = <<>>
    <3>1. Len(path') = 1 /\ v = NextTarget
      BY <1>3, <1>8, <2>1 DEF Joins
    <3>2. QED
      BY <1>6, <1>8, <3>1 DEF Joins
  <2>2. CASE path # <<>>
    <3>1. Len(path) \in 1 .. Len(path)
      BY <1>7, <2>2
    <3>2. path'[Len(path')] = path[Len(path)]
      BY <1>8, <3>1
    <3>3. QED
      BY <1>3, <1>6, <1>8, <2>2, <3>2 DEF Joins
  <2>3. QED
    BY <2>1, <2>2
<1>11. WalkingBack'
  BY <1>1, <1>3, <1>4, <1>8, <1>9, <1>10, LabelsKept DEF WalkingBack, NextTarget, Joins
<1>12. RoutesRead'
  BY <1>1, LabelsKept DEF IInv, RoutesRead
<1>13. QED
  BY <1>1, <1>2, <1>11, <1>12, ReadingKeeps

\* The walk back has come to the source.
LEMMA PushRouteInv == ASSUME IInv, PushRoute PROVE IInv'
<1>1. /\ UNCHANGED <<weight, s, targets, wanted, dist, pred, color, v, path>>
      /\ pc = "walk back" /\ pc' = "read" /\ pred[v] = v
      /\ routes' = Append(routes, [length |-> dist[NextTarget], path |-> path])
  BY DEF PushRoute, query, maps
<1>2. /\ Len(routes) < Len(targets) /\ pred[NextTarget] # NextTarget /\ IsChain(path)
      /\ (path = <<>> /\ v = NextTarget) \/ Joins(path, v, NextTarget)
      /\ color[v] # "white" /\ v \in Vertex
  BY <1>1 DEF IInv, WalkingBack, TypeOK
<1>3. v = s /\ Joins(path, s, NextTarget)
  BY <1>1, <1>2 DEF IInv, Labelled
<1>4. NextTarget \in Vertex /\ color[NextTarget] # "white"
  BY <1>2, NextTargetTyped DEF IInv, Labelled
<1>5. dist[NextTarget] \in Nat
  BY <1>4, LabelTyped DEF IInv
<1>6. PICK r : r = [length |-> dist[NextTarget], path |-> path]
  OBVIOUS
<1>7. r \in [length : Nat, path : Seq(Arcs)] /\ r.length = dist[NextTarget] /\ r.path = path
  BY <1>2, <1>5, <1>6 DEF IsChain
<1> DEFINE R == [length : Nat, path : Seq(Arcs)]
<1>8. routes \in Seq(R) /\ Len(targets) \in Nat
  <2>1. targets \in Seq(Vertex)
    BY GraphAssumption DEF IInv, TypeOK
  <2>2. QED
    BY <2>1 DEF IInv, RoutesRead
<1>9. r \in R
  BY <1>7
<1> HIDE DEF R
<1>10. /\ routes' \in Seq(R) /\ Len(routes') = Len(routes) + 1 /\ Len(routes) \in Nat
       /\ DOMAIN routes' = 1 .. Len(routes) + 1 /\ DOMAIN routes = 1 .. Len(routes)
       /\ routes'[Len(routes) + 1] = r
       /\ \A i \in 1 .. Len(routes) : routes'[i] = routes[i]
  <2>1. routes' = Append(routes, r)
    BY <1>1, <1>6
  <2>2. routes \in Seq(R)
    BY <1>8
  <2>3. QED
    BY ONLY <1>9, <2>1, <2>2, Appended
<1>11. WalkingBack'
  BY <1>1 DEF IInv, WalkingBack
<1>12. ASSUME NEW i \in DOMAIN routes'
       PROVE  /\ routes'[i].length = dist[targets[i]]
              /\ IsChain(routes'[i].path)
              /\ Joins(routes'[i].path, s, targets[i])
  <2>1. CASE i = Len(routes) + 1
    BY <1>2, <1>3, <1>7, <1>10, <2>1 DEF NextTarget
  <2>2. CASE i # Len(routes) + 1
    <3>1. i \in DOMAIN routes /\ routes'[i] = routes[i]
      BY <1>10, <2>2
    <3>2. QED
      BY <3>1 DEF IInv, RoutesRead
  <2>3. QED
    BY <2>1, <2>2
<1>13. Len(routes') <= Len(targets)
  BY <1>2, <1>8, <1>10
<1>14. RoutesRead'
  BY <1>1, <1>10, <1>12, <1>13, LabelsKept DEF RoutesRead, Joins, R
<1>15. QED
  BY <1>1, <1>2, <1>11, <1>14, ReadingKeeps

\* Every step of the search keeps the invariant: one case per action.
LEMMA StepInv == ASSUME IInv, [Next]_vars PROVE IInv'
<1>1. CASE UNCHANGED vars
  <2>1. UNCHANGED <<weight, s, targets, wanted, dist, pred, color, pc, v, path, routes>>
    BY <1>1 DEF vars
  <2>2. TypeOK'
    BY <2>1 DEF IInv, TypeOK
  <2>3. Waiting'
    BY <2>1, LabelsKept DEF IInv, Waiting
  <2>4. WalkingBack'
    BY <2>1, LabelsKept DEF IInv, WalkingBack, NextTarget, Joins
  <2>5. RoutesRead'
    BY <2>1, LabelsKept DEF IInv, RoutesRead, Joins
  <2>6. QED
    BY <2>1, <2>2, <2>3, <2>4, <2>5, LabelsKept DEF IInv
<1>2. QED
  BY <1>1, PopVertexInv, StopInv, EndInv, ReadTargetInv, TraceBackInv, PushRouteInv DEF Next

\* The inductive invariant of the foot search.
THEOREM Invariance == Spec => []IInv
BY InitInv, StepInv, PTL DEF Spec

-----------------------------------------------------------------------------

\* Every variable of the search keeps to its kind, on every graph.
THEOREM TypeCorrect == Spec => []TypeOK
<1>1. IInv => TypeOK
  BY DEF IInv
<1>2. QED
  BY <1>1, Invariance, PTL

-----------------------------------------------------------------------------

\* The walks of D and those of one arc more.
Longer(D, w) ==
  D \cup {<<p[2][2], p[1][2] + w[p[2]]>> : p \in {q \in D \X Arcs : q[1][1] = q[2][1]}}

\* A walk is of one arc more than another.
LEMMA LongerBy ==
  ASSUME NEW D, NEW w, NEW d
  PROVE  d \in Longer(D, w) <=>
           \/ d \in D
           \/ \E e \in D : \E a \in Arcs : e[1] = a[1] /\ d = <<a[2], e[2] + w[a]>>
<1>1. ASSUME NEW e \in D, NEW a \in Arcs, e[1] = a[1], d = <<a[2], e[2] + w[a]>>
      PROVE  d \in Longer(D, w)
  <2>1. <<e, a>> \in {q \in D \X Arcs : q[1][1] = q[2][1]}
    BY <1>1
  <2>2. QED
    BY <1>1, <2>1 DEF Longer
<1>2. ASSUME d \in Longer(D, w), d \notin D
      PROVE  \E e \in D : \E a \in Arcs : e[1] = a[1] /\ d = <<a[2], e[2] + w[a]>>
  <2>1. PICK p \in {q \in D \X Arcs : q[1][1] = q[2][1]} :
          d = <<p[2][2], p[1][2] + w[p[2]]>>
    BY <1>2 DEF Longer
  <2>2. p[1] \in D /\ p[2] \in Arcs /\ p[1][1] = p[2][1]
    BY <2>1
  <2>3. QED
    BY <2>1, <2>2
<1>3. QED
  BY <1>1, <1>2 DEF Longer

\* The walks of the reference, by their number of arcs.
UnfoldsTo(f, w, x) ==
  LET n == Cardinality(Vertex) - 1 IN
  /\ n \in Nat
  /\ f \in [0 .. n -> SUBSET (Vertex \X Nat)]
  /\ f[0] = {<<x, 0>>}
  /\ \A k \in 1 .. n : f[k] = Longer(f[k - 1], w)
  /\ Walks(w, x) = f[n]

\* The walks of the reference are made in as many rounds as there are vertices,
\* less one, each of which makes walks one arc longer.
LEMMA WalksUnfold ==
  ASSUME NEW w \in [Arcs -> Nat], NEW x \in Vertex
  PROVE  \E f : UnfoldsTo(f, w, x)
<1> DEFINE n == Cardinality(Vertex) - 1
           V == SUBSET (Vertex \X Nat)
           Unfolds(f) == f = [k \in 0 .. n |-> IF k = 0 THEN {<<x, 0>>} ELSE Longer(f[k - 1], w)]
           walk == CHOOSE f : Unfolds(f)
<1>1. n \in Nat
  <2>1. Cardinality(Vertex) \in Nat
    BY GraphAssumption, FS_CardinalityType
  <2>2. Cardinality(Vertex) # 0
    BY GraphAssumption, FS_EmptySet
  <2>3. QED
    BY <2>1, <2>2
<1>2. {<<x, 0>>} \in V
  OBVIOUS
<1>3. ASSUME NEW D \in V PROVE Longer(D, w) \in V
  <2> SUFFICES ASSUME NEW d \in Longer(D, w), d \notin D PROVE d \in Vertex \X Nat
    BY LongerBy
  <2>1. PICK e \in D : \E a \in Arcs : e[1] = a[1] /\ d = <<a[2], e[2] + w[a]>>
    BY LongerBy
  <2>2. PICK a \in Arcs : e[1] = a[1] /\ d = <<a[2], e[2] + w[a]>>
    BY <2>1
  <2>3. e \in Vertex \X Nat /\ a \in Vertex \X Vertex
    BY GraphAssumption
  <2>4. e[2] \in Nat /\ a[2] \in Vertex /\ w[a] \in Nat
    BY <2>3
  <2>5. QED
    BY <2>2, <2>4
<1>4. Walks(w, x) = walk[n]
  BY DEF Walks, Longer
<1>5. \E f : Unfolds(f)
  <2> DEFINE step == [p \in V \X (1 .. n) |-> Longer(p[1], w)]
  <2>1. Steps(step, V, n)
    BY <1>3 DEF Steps
  <2> HIDE DEF n, V
  <2>2. PICK f : Iterates(f, {<<x, 0>>}, step, V, n)
    <3> HIDE DEF step
    <3>1. QED
      BY <1>1, <1>2, <2>1, Iteration
  <2>3. \A k \in 1 .. n : f[k] = Longer(f[k - 1], w)
    <3> SUFFICES ASSUME NEW k \in 1 .. n PROVE f[k] = Longer(f[k - 1], w)
      OBVIOUS
    <3>1. <<f[k - 1], k>> \in V \X (1 .. n)
      BY <1>1, <2>2 DEF Iterates
    <3>2. QED
      BY <2>2, <3>1 DEF Iterates
  <2>4. f = [k \in 0 .. n |-> f[k]] /\ f[0] = {<<x, 0>>}
    BY <2>2 DEF Iterates
  <2>5. \A k \in 0 .. n : k = 0 \/ k \in 1 .. n
    BY <1>1
  <2>6. \A k \in 0 .. n : f[k] = IF k = 0 THEN {<<x, 0>>} ELSE Longer(f[k - 1], w)
    <3>1. f[0] = {<<x, 0>>} /\ 0 \notin 1 .. n
      BY <2>4
    <3>2. QED
      BY <2>3, <2>5, <3>1, Zenon
  <2>7. Unfolds(f)
    BY <2>4, <2>6
  <2>8. QED
    BY <2>7
<1>6. Unfolds(walk)
  BY <1>5
<1> HIDE DEF walk
<1>7. \A k \in 0 .. n : walk[k] = IF k = 0 THEN {<<x, 0>>} ELSE Longer(walk[k - 1], w)
  BY <1>6
<1>8. walk = [k \in 0 .. n |-> walk[k]]
  BY <1>6, <1>7
<1> HIDE DEF Unfolds, n
<1>9. \A k \in 0 .. n : walk[k] \in V
  <2> DEFINE T == {k \in 0 .. n : walk[k] \in V}
  <2>1. 0 \in T
    BY <1>1, <1>2, <1>7
  <2>2. ASSUME NEW k \in 0 .. n - 1, k \in T PROVE k + 1 \in T
    <3>1. k + 1 \in 0 .. n /\ k + 1 # 0 /\ (k + 1) - 1 = k
      BY <1>1
    <3>2. walk[k + 1] = Longer(walk[k], w)
      BY <1>7, <3>1
    <3>3. QED
      BY <1>3, <2>2, <3>1, <3>2
  <2> HIDE DEF T
  <2>3. \A k \in 0 .. n : k \in T
    BY <1>1, <2>1, <2>2, InductionUpTo
  <2>4. QED
    BY <2>3 DEF T
<1>10. walk \in [0 .. n -> V]
  BY <1>8, <1>9
<1>11. walk[0] = {<<x, 0>>} /\ \A k \in 1 .. n : walk[k] = Longer(walk[k - 1], w)
  BY <1>1, <1>7
<1>12. UnfoldsTo(walk, w, x)
  BY <1>1, <1>4, <1>10, <1>11 DEF n, UnfoldsTo
<1>13. QED
  BY <1>12

\* What a walk of k + 1 arcs is made of.
LEMMA UnfoldedStep ==
  ASSUME NEW f, NEW w, NEW x, UnfoldsTo(f, w, x), NEW k \in 0 .. (Cardinality(Vertex) - 1) - 1
  PROVE  f[k + 1] = Longer(f[k], w) /\ f[k] \in SUBSET (Vertex \X Nat)
<1>1. PICK j : j = k + 1
  OBVIOUS
<1>2. j \in 1 .. Cardinality(Vertex) - 1 /\ j - 1 = k /\ k \in 0 .. Cardinality(Vertex) - 1
  BY <1>1 DEF UnfoldsTo
<1>3. f[j] = Longer(f[j - 1], w)
  BY <1>2 DEF UnfoldsTo
<1>4. f[k] \in SUBSET (Vertex \X Nat)
  BY <1>2 DEF UnfoldsTo
<1>5. QED
  BY <1>1, <1>2, <1>3, <1>4

\* A walk is no shorter than the label of its end, or than that of a queued vertex.
Bounded(d) ==
  \/ dist[d[1]] # Infinity /\ dist[d[1]] <= d[2]
  \/ \E g \in Queued : dist[g] <= d[2]

\* So it is of every walk that the reference enumerates, by induction over the
\* rounds.
LEMMA WalksBounded ==
  ASSUME IInv
  PROVE  /\ Walks(weight, s) \in SUBSET (Vertex \X Nat)
         /\ \A d \in Walks(weight, s) : Bounded(d)
<1>1. TypeOK /\ weight \in [Arcs -> Nat] /\ s \in Vertex
  BY DEF IInv, TypeOK
<1>2. PICK f : UnfoldsTo(f, weight, s)
  BY <1>1, WalksUnfold
<1>3. PICK n : n = Cardinality(Vertex) - 1
  OBVIOUS
<1>4. /\ n \in Nat /\ f[0] = {<<s, 0>>} /\ Walks(weight, s) = f[n]
      /\ f[n] \in SUBSET (Vertex \X Nat)
  BY <1>2, <1>3 DEF UnfoldsTo
<1> DEFINE T == {k \in 0 .. n : \A d \in f[k] : Bounded(d)}
<1>5. 0 \in T
  <2>1. Bounded(<<s, 0>>)
    BY DEF IInv, Labelled, Bounded, Infinity
  <2>2. QED
    BY <1>4, <2>1
<1>6. ASSUME NEW k \in 0 .. n - 1, k \in T PROVE k + 1 \in T
  <2>1. f[k + 1] = Longer(f[k], weight) /\ f[k] \in SUBSET (Vertex \X Nat)
    BY <1>2, <1>3, UnfoldedStep
  <2>2. ASSUME NEW d \in f[k + 1], d \notin f[k] PROVE Bounded(d)
    <3>1. PICK e \in f[k] : \E a \in Arcs : e[1] = a[1] /\ d = <<a[2], e[2] + weight[a]>>
      BY <2>1, <2>2, LongerBy
    <3>2. PICK a \in Arcs : e[1] = a[1] /\ d = <<a[2], e[2] + weight[a]>>
      BY <3>1
    <3>3. PICK b \in Vertex, c \in Nat : e = <<b, c>>
      BY <2>1
    <3>4. PICK u \in Vertex : a = <<b, u>>
      BY <1>1, <3>2, <3>3, ArcEnds
    <3>5. d = <<u, c + weight[<<b, u>>]>> /\ Bounded(<<b, c>>) /\ weight[<<b, u>>] \in Nat
      BY <1>1, <1>6, <3>2, <3>3, <3>4
    <3>6. \A g \in Vertex : color[g] # "white" => dist[g] \in Nat
      BY <1>1, LabelTyped DEF IInv
    <3>7. ASSUME NEW g \in Vertex, color[g] = "gray", dist[g] <= c
          PROVE  Bounded(d)
      <4>1. dist[g] \in Nat
        BY <3>6, <3>7
      <4>2. dist[g] <= c + weight[<<b, u>>]
        BY <3>5, <3>7, <4>1
      <4>3. QED
        BY <3>5, <3>7, <4>2 DEF Bounded, Queued
    <3>8. CASE \E g \in Queued : dist[g] <= c
      BY <3>7, <3>8 DEF Queued
    <3>9. CASE dist[b] # Infinity /\ dist[b] <= c
      <4>1. color[b] # "white" /\ dist[b] \in Nat
        BY <3>6, <3>9 DEF IInv, Labelled
      <4>2. CASE color[b] = "black"
        <5>1. color[u] # "white" /\ dist[u] <= dist[b] + weight[<<b, u>>]
          BY <3>4, <4>2 DEF IInv, NoShortcut
        <5>2. dist[u] \in Nat
          BY <3>6, <5>1
        <5>3. dist[u] # Infinity /\ dist[u] <= c + weight[<<b, u>>]
          BY <3>5, <3>9, <4>1, <5>1, <5>2 DEF Infinity
        <5>4. QED
          BY <3>5, <5>3 DEF Bounded
      <4>3. CASE color[b] = "gray"
        BY <3>7, <3>9, <4>3
      <4>4. QED
        BY <1>1, <4>1, <4>2, <4>3 DEF TypeOK
    <3>10. QED
      BY <3>5, <3>8, <3>9 DEF Bounded
  <2>3. k + 1 \in 0 .. n
    BY <1>4
  <2>4. QED
    BY <1>6, <2>2, <2>3
<1> HIDE DEF T
<1>7. \A k \in 0 .. n : k \in T
  BY <1>4, <1>5, <1>6, InductionUpTo
<1>8. n \in T
  BY <1>4, <1>7
<1>9. QED
  BY <1>4, <1>8 DEF T

-----------------------------------------------------------------------------

\* The heads of the arcs of a chain have the labels that the weights add up to.
LEMMA ChainLabels ==
  ASSUME IInv, NEW p, IsChain(p), NEW n \in 1 .. Len(p)
  PROVE  /\ p[n] \in Arcs /\ p[n][1] \in Vertex /\ p[n][2] \in Vertex
         /\ p[n] = <<p[n][1], p[n][2]>>
         /\ dist[p[n][1]] \in Nat /\ weight[p[n]] \in Nat
         /\ dist[p[n][2]] = dist[p[n][1]] + weight[p[n]]
<1>1. p[n] \in Arcs
  BY DEF IsChain
<1>2. /\ p[n][1] \in Vertex /\ p[n][2] \in Vertex /\ p[n] = <<p[n][1], p[n][2]>>
      /\ weight[p[n]] \in Nat
  BY <1>1, ArcEnds DEF IInv
<1>3. p[n][1] = pred[p[n][2]] /\ pred[p[n][2]] # p[n][2]
  BY DEF IsChain
<1>4. /\ color[p[n][1]] = "black"
      /\ dist[p[n][2]] = dist[p[n][1]] + weight[p[n]]
  BY <1>2, <1>3 DEF IInv, PredecessorTree
<1>5. dist[p[n][1]] \in Nat
  BY <1>2, <1>4, LabelTyped DEF IInv
<1>6. QED
  BY <1>1, <1>2, <1>4, <1>5

\* No vertex is twice on a chain, so that it is no longer than the walks compared.
LEMMA ChainShort ==
  ASSUME IInv, NEW p, IsChain(p)
  PROVE  Len(p) \in 0 .. Cardinality(Vertex) - 1
<1>1. p \in Seq(Arcs) /\ Len(p) \in Nat
  BY DEF IsChain
<1>2. CASE Len(p) = 0
  <2>1. Cardinality(Vertex) - 1 \in Nat
    <3>1. weight \in [Arcs -> Nat] /\ s \in Vertex
      BY DEF IInv, TypeOK
    <3>2. QED
      BY <3>1, WalksUnfold DEF UnfoldsTo
  <2>2. QED
    BY <1>2, <2>1
<1>3. CASE Len(p) # 0
  <2> DEFINE at(k) == IF k = 0 THEN p[1][1] ELSE p[k][2]
  <2>1. \A k \in 0 .. Len(p) : at(k) \in Vertex
    <3>1. ASSUME NEW k \in 1 .. Len(p) PROVE p[k][2] \in Vertex
      BY ChainLabels
    <3>2. 1 \in 1 .. Len(p)
      BY <1>1, <1>3
    <3>3. p[1][1] \in Vertex
      BY <3>2, ChainLabels
    <3>4. \A k \in 0 .. Len(p) : k = 0 \/ k \in 1 .. Len(p)
      BY <1>1
    <3>5. QED
      BY <3>1, <3>3, <3>4
  <2>2. \A k \in 1 .. Len(p) : at(k - 1) = pred[at(k)] /\ pred[at(k)] # at(k)
    <3> SUFFICES ASSUME NEW k \in 1 .. Len(p)
                 PROVE  at(k - 1) = pred[at(k)] /\ pred[at(k)] # at(k)
      OBVIOUS
    <3>1. p[k][1] = pred[p[k][2]] /\ pred[p[k][2]] # p[k][2]
      BY DEF IsChain
    <3>2. at(k) = p[k][2]
      BY <1>1
    <3>3. at(k - 1) = p[k][1]
      <4>1. CASE k = 1
        BY <4>1
      <4>2. CASE k # 1
        <5>1. PICK j \in 1 .. Len(p) - 1 : j = k - 1 /\ j + 1 = k /\ j # 0
          BY <1>1, <4>2
        <5>2. p[j][2] = p[j + 1][1]
          BY DEF IsChain
        <5>3. QED
          BY <5>1, <5>2
      <4>3. QED
        BY <4>1, <4>2
    <3>4. QED
      BY <3>1, <3>2, <3>3
  <2> HIDE DEF at
  <2>3. ASSUME NEW i \in 0 .. Len(p), NEW j \in 0 .. Len(p), i < j, at(i) = at(j)
        PROVE  FALSE
    <3> DEFINE S == {at(k) : k \in i + 1 .. j}
    <3>1. S \in SUBSET Vertex
      BY <1>1, <2>1
    <3>2. j \in i + 1 .. j
      BY <1>1, <2>3
    <3>3. S # {}
      BY <3>2
    <3>4. PICK u \in S : pred[u] = u \/ pred[u] \notin S
      <4> HIDE DEF S
      <4>1. QED
        BY <3>1, <3>3 DEF IInv, Acyclic
    <3>5. PICK k \in i + 1 .. j : u = at(k)
      OBVIOUS
    <3>6. k \in 1 .. Len(p)
      BY <1>1
    <3>7. pred[u] = at(k - 1) /\ pred[u] # u
      BY <2>2, <3>5, <3>6
    <3>8. at(k - 1) \in S
      <4>1. CASE k = i + 1
        <5>1. k - 1 = i
          BY <1>1, <4>1
        <5>2. QED
          BY <2>3, <3>2, <5>1
      <4>2. CASE k # i + 1
        <5>1. k - 1 \in i + 1 .. j
          BY <1>1, <4>2
        <5>2. QED
          BY <5>1
      <4>3. QED
        BY <4>1, <4>2
    <3>9. QED
      BY <3>4, <3>7, <3>8
  <2> DEFINE m == [k \in 0 .. Len(p) |-> at(k)]
  <2>4. m \in Injection(0 .. Len(p), Vertex)
    <3>1. ASSUME NEW i \in 0 .. Len(p), NEW j \in 0 .. Len(p), m[i] = m[j] PROVE i = j
      <4>1. at(i) = at(j) /\ ~ (i < j) /\ ~ (j < i)
        BY <2>3, <3>1
      <4>2. QED
        BY <1>1, <4>1
    <3>2. m \in [0 .. Len(p) -> Vertex]
      BY <2>1
    <3> HIDE DEF m
    <3>3. QED
      BY <3>1, <3>2 DEF Injection, IsInjective
  <2>5. Cardinality(0 .. Len(p)) = Len(p) + 1
    BY <1>1, FS_Interval
  <2>6. Cardinality(0 .. Len(p)) <= Cardinality(Vertex) /\ Cardinality(Vertex) \in Nat
    BY <2>4, GraphAssumption, FS_Injection, FS_CardinalityType
  <2>7. QED
    BY <1>1, <2>5, <2>6
<1>4. QED
  BY <1>2, <1>3

\* A chain from the source is one of the walks, at the cost of its last label.
LEMMA ChainWalked ==
  ASSUME IInv, NEW p, NEW x, IsChain(p), Joins(p, s, x)
  PROVE  <<x, dist[x]>> \in Walks(weight, s)
<1>1. weight \in [Arcs -> Nat] /\ s \in Vertex /\ dist[s] = 0
  BY DEF IInv, TypeOK, Labelled
<1>2. p \in Seq(Arcs) /\ Len(p) \in Nat \ {0} /\ p[1][1] = s /\ p[Len(p)][2] = x
  BY DEF IsChain, Joins
<1>3. PICK f : UnfoldsTo(f, weight, s)
  BY <1>1, WalksUnfold
<1>4. PICK n : n = Cardinality(Vertex) - 1
  OBVIOUS
<1>5. n \in Nat /\ f[0] = {<<s, 0>>} /\ Walks(weight, s) = f[n]
  BY <1>3, <1>4 DEF UnfoldsTo
<1> DEFINE at(i) == <<p[i][2], dist[p[i][2]]>>
           T == {k \in 0 .. n : <<s, 0>> \in f[k] /\ \A i \in 1 .. Len(p) : i <= k => at(i) \in f[k]}
<1>6. 0 \in T
  <2>1. \A i \in 1 .. Len(p) : ~ (i <= 0)
    BY <1>2
  <2>2. QED
    BY <1>5, <2>1
<1>7. ASSUME NEW k \in 0 .. n - 1, k \in T PROVE k + 1 \in T
  <2>1. f[k + 1] = Longer(f[k], weight)
    BY <1>3, <1>4, UnfoldedStep
  <2>2. \A d \in f[k] : d \in f[k + 1]
    BY <2>1, LongerBy
  <2>3. ASSUME NEW i \in 1 .. Len(p), i <= k + 1 PROVE at(i) \in f[k + 1]
    <3>1. CASE i <= k
      BY <1>7, <2>2, <3>1
    <3>2. CASE i = k + 1
      <4>1. <<p[i][1], dist[p[i][1]]>> \in f[k]
        <5>1. CASE i = 1
          BY <1>1, <1>2, <1>7, <5>1
        <5>2. CASE i # 1
          <6>1. PICK j \in 1 .. Len(p) - 1 : j = k /\ j + 1 = i
            BY <1>2, <3>2, <5>2
          <6>2. p[j][2] = p[i][1] /\ j \in 1 .. Len(p) /\ j <= k
            BY <1>2, <6>1 DEF IsChain
          <6>3. at(j) \in f[k]
            BY <1>7, <6>2
          <6>4. QED
            BY <6>2, <6>3
        <5>3. QED
          BY <5>1, <5>2
      <4>2. p[i] \in Arcs /\ dist[p[i][2]] = dist[p[i][1]] + weight[p[i]]
        BY ChainLabels
      <4>3. PICK e : e = <<p[i][1], dist[p[i][1]]>>
        OBVIOUS
      <4>4. e \in f[k] /\ e[1] = p[i][1] /\ at(i) = <<p[i][2], e[2] + weight[p[i]]>>
        BY <4>1, <4>2, <4>3
      <4>5. QED
        BY <2>1, <4>2, <4>4, LongerBy
    <3>3. QED
      BY <1>2, <2>3, <3>1, <3>2
  <2>4. k + 1 \in 0 .. n /\ <<s, 0>> \in f[k + 1]
    BY <1>5, <1>7, <2>2
  <2>5. QED
    BY <2>3, <2>4
<1> HIDE DEF T
<1>8. \A k \in 0 .. n : k \in T
  BY <1>5, <1>6, <1>7, InductionUpTo
<1>9. n \in T /\ Len(p) \in 1 .. Len(p) /\ Len(p) <= n
  BY <1>2, <1>4, <1>5, <1>8, ChainShort
<1>10. at(Len(p)) \in f[n]
  BY <1>9 DEF T
<1>11. QED
  BY <1>2, <1>5, <1>10

\* The least length of a walk to x is the label of x where one can be shown that
\* no queued vertex is nearer.
LEMMA LabelShortest ==
  ASSUME IInv, NEW x \in Vertex, <<x, dist[x]>> \in Walks(weight, s),
         \A g \in Queued : ~ Less(dist[g], dist[x])
  PROVE  Shortest[x] = dist[x]
<1> DEFINE L == Lengths(Walks(weight, s), x)
<1>1. /\ Walks(weight, s) \in SUBSET (Vertex \X Nat)
      /\ \A d \in Walks(weight, s) : Bounded(d)
  BY WalksBounded
<1>2. dist[x] \in L
  <2>1. <<x, dist[x]>>[1] = x /\ <<x, dist[x]>>[2] = dist[x]
    OBVIOUS
  <2>2. QED
    BY <2>1 DEF Lengths
<1>3. L \in SUBSET Nat
  BY <1>1 DEF Lengths
<1>4. ASSUME NEW c \in L PROVE dist[x] <= c
  <2>1. PICK d \in Walks(weight, s) : d[1] = x /\ d[2] = c
    BY <1>4 DEF Lengths
  <2>2. CASE dist[x] <= c
    BY <2>2
  <2>3. CASE \E g \in Queued : dist[g] <= c
    <3>1. PICK g \in Queued : dist[g] <= c
      BY <2>3
    <3>2. dist[g] \in Nat /\ dist[x] \in Nat /\ c \in Nat
      BY <1>2, <1>3, <1>4, LabelTyped DEF IInv, Queued
    <3>3. dist[x] <= dist[g]
      BY <3>2 DEF Less, Infinity
    <3>4. QED
      BY <3>1, <3>2, <3>3
  <2>4. QED
    BY <1>1, <2>1, <2>2, <2>3 DEF Bounded
<1>5. Min(L) = dist[x]
  <2> HIDE DEF L
  <2>1. \A c \in L : (\A e \in L : c <= e) => c = dist[x]
    <3> SUFFICES ASSUME NEW c \in L, \A e \in L : c <= e PROVE c = dist[x]
      OBVIOUS
    <3>1. c \in Nat /\ dist[x] \in Nat /\ c <= dist[x] /\ dist[x] <= c
      BY <1>2, <1>3, <1>4
    <3>2. QED
      BY <3>1
  <2>2. QED
    BY <1>2, <1>4, <2>1 DEF Min
<1>6. Shortest[x] = IF L = {} THEN Infinity ELSE Min(L)
  BY DEF Shortest, Distances, IInv, TypeOK
<1>7. QED
  BY <1>2, <1>5, <1>6

\* The length of a chain from the source is its last label.
LEMMA ChainLength ==
  ASSUME IInv, NEW p, NEW x, IsChain(p), Joins(p, s, x)
  PROVE  LET sum[n \in 0 .. Len(p)] == IF n = 0 THEN 0 ELSE sum[n - 1] + weight[p[n]]
         IN  sum[Len(p)] = dist[x]
<1> DEFINE m == Len(p)
           Unfolds(f) == f = [n \in 0 .. m |-> IF n = 0 THEN 0 ELSE f[n - 1] + weight[p[n]]]
           sum == CHOOSE f : Unfolds(f)
           label == [n \in 0 .. m |-> IF n = 0 THEN 0 ELSE dist[p[n][2]]]
<1> SUFFICES sum[m] = dist[x]
  OBVIOUS
<1>1. m \in Nat \ {0} /\ p[1][1] = s /\ p[m][2] = x /\ dist[s] = 0
  BY DEF IsChain, Joins, IInv, Labelled
<1>2. ASSUME NEW n \in 1 .. m PROVE dist[p[n][2]] = label[n - 1] + weight[p[n]]
  <2>1. dist[p[n][2]] = dist[p[n][1]] + weight[p[n]]
    BY ChainLabels
  <2>2. label[n - 1] = dist[p[n][1]]
    <3>1. CASE n = 1
      BY <1>1, <3>1
    <3>2. CASE n # 1
      <4>1. PICK j \in 1 .. m - 1 : j = n - 1 /\ j + 1 = n /\ j # 0
        BY <1>1, <3>2
      <4>2. p[j][2] = p[n][1]
        BY <4>1 DEF IsChain
      <4>3. label[j] = dist[p[j][2]]
        BY <1>1, <4>1
      <4>4. QED
        BY <4>1, <4>2, <4>3
    <3>3. QED
      BY <3>1, <3>2
  <2>3. QED
    BY <2>1, <2>2
<1> HIDE DEF m
<1>3. Unfolds(label)
  <2>1. ASSUME NEW n \in 0 .. m
        PROVE  label[n] = IF n = 0 THEN 0 ELSE label[n - 1] + weight[p[n]]
    <3>1. CASE n = 0
      BY <1>1, <3>1
    <3>2. CASE n # 0
      <4>1. n \in 1 .. m
        BY <1>1, <3>2
      <4>2. label[n] = dist[p[n][2]]
        BY <3>2
      <4>3. QED
        BY <1>2, <3>2, <4>1, <4>2
    <3>3. QED
      BY <3>1, <3>2
  <2>2. label = [n \in 0 .. m |-> label[n]]
    OBVIOUS
  <2> HIDE DEF label
  <2>3. QED
    BY <2>1, <2>2
<1>4. Unfolds(sum)
  BY <1>3
<1> HIDE DEF sum
<1>5. /\ \A n \in 0 .. m : sum[n] = IF n = 0 THEN 0 ELSE sum[n - 1] + weight[p[n]]
      /\ \A n \in 0 .. m : label[n] = IF n = 0 THEN 0 ELSE label[n - 1] + weight[p[n]]
  <2> HIDE DEF label
  <2>1. QED
    BY <1>3, <1>4
<1>6. label[m] = dist[x]
  BY <1>1
<1> HIDE DEF Unfolds, label
<1> DEFINE T == {k \in 0 .. m : sum[k] = label[k]}
<1>7. 0 \in T
  BY <1>1, <1>5
<1>8. ASSUME NEW k \in 0 .. m - 1, k \in T PROVE k + 1 \in T
  <2>1. PICK j \in 0 .. m : j = k + 1 /\ j # 0 /\ j - 1 = k
    BY <1>1
  <2>2. sum[j] = sum[j - 1] + weight[p[j]] /\ label[j] = label[j - 1] + weight[p[j]]
    BY <1>5, <2>1, Zenon
  <2>3. sum[j - 1] = label[j - 1]
    BY <1>8, <2>1
  <2>4. QED
    BY <2>1, <2>2, <2>3
<1> HIDE DEF T
<1>9. \A k \in 0 .. m : k \in T
  BY <1>1, <1>7, <1>8, InductionUpTo
<1>10. sum[m] = label[m]
  BY <1>1, <1>9 DEF T
<1>11. QED
  BY <1>6, <1>10

\* With the invariant, every route read back is a shortest one: the chain from the
\* source that it is has its last label for length, and no walk has a lesser one.
LEMMA RoutesOptimal == IInv => RoutesShortest
<1> SUFFICES ASSUME IInv, NEW i \in DOMAIN routes
             PROVE  LET p == routes[i].path
                        sum[n \in 0 .. Len(p)] ==
                          IF n = 0 THEN 0 ELSE sum[n - 1] + weight[p[n]]
                    IN  /\ p # <<>> /\ p[1][1] = s /\ p[Len(p)][2] = targets[i]
                        /\ \A n \in 1 .. Len(p) - 1 : p[n][2] = p[n + 1][1]
                        /\ routes[i].length = sum[Len(p)]
                        /\ routes[i].length = Shortest[targets[i]]
  BY DEF RoutesShortest
<1>1. PICK p : p = routes[i].path
  OBVIOUS
<1>2. PICK x : x = targets[i]
  OBVIOUS
<1>3. routes[i].length = dist[x] /\ IsChain(p) /\ Joins(p, s, x)
  BY <1>1, <1>2 DEF IInv, RoutesRead
<1>4. pc # "search" /\ i \in DOMAIN targets /\ x \in Vertex
  <2>1. targets \in Seq(Vertex)
    BY GraphAssumption DEF IInv, TypeOK
  <2>2. i \in 1 .. Len(routes) /\ Len(routes) <= Len(targets) /\ Len(routes) \in Nat
    BY DEF IInv, RoutesRead
  <2>3. pc # "search"
    BY <2>2 DEF IInv, RoutesRead
  <2>4. QED
    BY <1>2, <2>1, <2>2, <2>3
<1>5. \A g \in Queued : ~ Less(dist[g], dist[x])
  BY <1>2, <1>4 DEF IInv, Waiting
<1>6. <<x, dist[x]>> \in Walks(weight, s)
  BY <1>3, ChainWalked
<1>7. Shortest[x] = dist[x]
  BY <1>4, <1>5, <1>6, LabelShortest
<1>8. LET sum[n \in 0 .. Len(p)] == IF n = 0 THEN 0 ELSE sum[n - 1] + weight[p[n]]
      IN  sum[Len(p)] = dist[x]
  BY <1>3, ChainLength
<1>9. /\ p # <<>> /\ p[1][1] = s /\ p[Len(p)][2] = x
      /\ \A n \in 1 .. Len(p) - 1 : p[n][2] = p[n + 1][1]
  BY <1>3 DEF Joins, IsChain
<1>10. QED
  BY <1>1, <1>2, <1>3, <1>7, <1>8, <1>9

\* The routes that get_result returns, one for each target so far, are shortest
\* ones, although the visitor ends the search with labels that are not final: each
\* leads from the source to its target, and its length is the one reported and the
\* least there is.
THEOREM ShortestRoutes == Spec => []RoutesShortest
BY Invariance, RoutesOptimal, PTL

-----------------------------------------------------------------------------
(* The functors.                                                           *)

\* The search runs with the functor of its strategy.
FootInv ==
  /\ network \in Networks /\ strategy \in Strategies
  /\ weight = get_functor_for(strategy, Edges(network))
  /\ IInv

\* The strategy of a foot search is the caller's throughout, and the search keeps
\* its invariant under it.
LEMMA FootInvariance == FootSpec => []FootInv
<1>1. FootInit => FootInv
  BY InitInv DEF FootInit, FootInv
<1>2. FootInv /\ [FootNext]_foot_vars => FootInv'
  <2> SUFFICES ASSUME FootInv, [FootNext]_foot_vars PROVE FootInv'
    OBVIOUS
  <2>1. [Next]_vars /\ UNCHANGED <<network, strategy>>
    BY DEF FootNext, foot_vars
  <2>2. UNCHANGED weight
    BY <2>1 DEF Next, vars, query, TargetFound, PopVertex, Exhausted, NoPath, ReadTarget,
                TraceBack, PushRoute, Finish
  <2>3. IInv'
    BY <2>1, StepInv DEF FootInv
  <2>4. QED
    BY <2>1, <2>2, <2>3 DEF FootInv, Edges
<1>3. QED
  BY <1>1, <1>2, PTL DEF FootSpec

\* The lengths of the streets.
Metric == get_functor_for("shortest_weight_function", Edges(network))

\* The lengths are what is reported of a route, and what the shortest way is
\* looked for with.
LEMMA MetricIsLength ==
  ASSUME FootInv
  PROVE  /\ Metric \in WeightFns /\ Metric \in [Arcs -> Nat]
         /\ \A a \in Arcs : Metric[a] = Edges(network)[a].weight
         /\ strategy = "shortest_weight_function" => weight = Metric
<1>1. Metric \in WeightFns
  BY FunctorAssumption DEF FootInv, Metric, Strategies
<1>2. Metric \in [Arcs -> Nat]
  BY <1>1, GraphAssumption
<1>3. Metric = [a \in Arcs |-> Edges(network)[a].weight]
  BY DEF Metric, get_functor_for, identity_weight_functor, Edges
<1>4. QED
  BY <1>1, <1>2, <1>3 DEF FootInv, Metric

\* The coefficients of the quietest way: between half and all of a hundred.
LEMMA Coefficient ==
  ASSUME FootInv, strategy = "quietest_pedestrian_weight_function", NEW a \in Arcs
  PROVE  /\ weight[a] \in Nat /\ Metric[a] \in Nat
         /\ 50 * Metric[a] <= weight[a] /\ weight[a] <= 100 * Metric[a]
<1>1. /\ weight[a] \in Nat /\ Metric[a] \in Nat
      /\ Metric[a] = Edges(network)[a].weight
  BY MetricIsLength DEF FootInv, IInv, TypeOK
<1>2. PICK h : h = Priority(Edges(network)[a].highway_value)
  OBVIOUS
<1>3. h \in 5 .. 40
  BY <1>2 DEF Priority
<1>4. weight[a] = Metric[a] * (50 + h)
  BY <1>1, <1>2 DEF FootInv, get_functor_for, quietest_pedestrian_functor, Edges
<1>5. \A x \in Nat : \A k \in 5 .. 40 : 50 * x <= x * (50 + k) /\ x * (50 + k) <= 100 * x
  <2> SUFFICES ASSUME NEW x \in Nat, NEW k \in 5 .. 40
               PROVE  50 * x <= x * (50 + k) /\ x * (50 + k) <= 100 * x
    OBVIOUS
  <2>1. x * (50 + k) = 50 * x + x * k
    OBVIOUS
  <2>2. x * k \in Nat /\ x * k <= 50 * x
    OBVIOUS
  <2>3. QED
    BY <2>1, <2>2
<1>6. QED
  BY <1>1, <1>3, <1>4, <1>5

-----------------------------------------------------------------------------

\* Where no arc weighs more than m times what it does otherwise, no walk does.
LEMMA Scaled ==
  ASSUME NEW w1 \in [Arcs -> Nat], NEW w2 \in [Arcs -> Nat], NEW x \in Vertex, NEW m \in Nat,
         \A a \in Arcs : w1[a] <= m * w2[a]
  PROVE  \A d \in Walks(w2, x) : \E e \in Walks(w1, x) :
           e[1] = d[1] /\ e[2] \in Nat /\ d[2] \in Nat /\ e[2] <= m * d[2]
<1> DEFINE Covers(A, B) == \A d \in B : \E e \in A :
             e[1] = d[1] /\ e[2] \in Nat /\ d[2] \in Nat /\ e[2] <= m * d[2]
<1>1. PICK f1 : UnfoldsTo(f1, w1, x)
  BY WalksUnfold
<1>2. PICK f2 : UnfoldsTo(f2, w2, x)
  BY WalksUnfold
<1>3. PICK n : n = Cardinality(Vertex) - 1
  OBVIOUS
<1>4. /\ n \in Nat /\ f1[0] = {<<x, 0>>} /\ f2[0] = {<<x, 0>>}
      /\ Walks(w1, x) = f1[n] /\ Walks(w2, x) = f2[n]
  BY <1>1, <1>2, <1>3 DEF UnfoldsTo
<1> DEFINE T == {k \in 0 .. n : Covers(f1[k], f2[k])}
<1>5. 0 \in T
  <2>1. <<x, 0>>[2] \in Nat /\ <<x, 0>>[2] <= m * <<x, 0>>[2]
    OBVIOUS
  <2>2. QED
    BY <1>4, <2>1
<1>6. ASSUME NEW k \in 0 .. n - 1, k \in T PROVE k + 1 \in T
  <2>1. f1[k + 1] = Longer(f1[k], w1) /\ f2[k + 1] = Longer(f2[k], w2)
    BY <1>1, <1>2, <1>3, UnfoldedStep
  <2>2. ASSUME NEW d \in f2[k + 1]
        PROVE  \E e \in f1[k + 1] :
                 e[1] = d[1] /\ e[2] \in Nat /\ d[2] \in Nat /\ e[2] <= m * d[2]
    <3>1. CASE d \in f2[k]
      <4>1. PICK e \in f1[k] : e[1] = d[1] /\ e[2] \in Nat /\ d[2] \in Nat /\ e[2] <= m * d[2]
        BY <1>6, <3>1
      <4>2. e \in f1[k + 1]
        BY <2>1, LongerBy
      <4>3. QED
        BY <4>1, <4>2
    <3>2. ASSUME NEW b \in f2[k], NEW a \in Arcs, b[1] = a[1], d = <<a[2], b[2] + w2[a]>>
          PROVE  \E e \in f1[k + 1] :
                   e[1] = d[1] /\ e[2] \in Nat /\ d[2] \in Nat /\ e[2] <= m * d[2]
      <4>1. PICK c \in f1[k] : c[1] = b[1] /\ c[2] \in Nat /\ b[2] \in Nat /\ c[2] <= m * b[2]
        BY <1>6
      <4>2. PICK e : e = <<a[2], c[2] + w1[a]>>
        OBVIOUS
      <4>3. e \in f1[k + 1]
        BY <2>1, <3>2, <4>1, <4>2, LongerBy
      <4>4. w1[a] \in Nat /\ w2[a] \in Nat /\ w1[a] <= m * w2[a]
        OBVIOUS
      <4>5. m * (b[2] + w2[a]) = m * b[2] + m * w2[a]
        BY <4>1, <4>4
      <4>6. m * b[2] \in Nat /\ m * w2[a] \in Nat
        BY <4>1, <4>4
      <4>7. c[2] + w1[a] <= m * b[2] + m * w2[a]
        BY <4>1, <4>4, <4>6
      <4>8. e[1] = d[1] /\ e[2] = c[2] + w1[a] /\ d[2] = b[2] + w2[a]
        BY <3>2, <4>2
      <4>9. e[2] \in Nat /\ d[2] \in Nat /\ e[2] <= m * d[2]
        BY <4>1, <4>4, <4>5, <4>7, <4>8
      <4>10. QED
        BY <4>3, <4>8, <4>9
    <3>3. QED
      BY <2>1, <3>1, <3>2, LongerBy
  <2>3. k + 1 \in 0 .. n
    BY <1>4
  <2>4. QED
    BY <2>2, <2>3
<1> HIDE DEF T
<1>7. \A k \in 0 .. n : k \in T
  BY <1>4, <1>5, <1>6, InductionUpTo
<1>8. Covers(f1[n], f2[n])
  BY <1>4, <1>7 DEF T
<1>9. QED
  BY <1>4, <1>8

-----------------------------------------------------------------------------

\* The partial sums of g.
Sums(f, g, m) == f = [n \in 0 .. m |-> IF n = 0 THEN 0 ELSE f[n - 1] + g[n]]

\* A recursion that adds up natural numbers has a value, and only one kind of steps.
LEMMA SumsExist ==
  ASSUME NEW m \in Nat, NEW g \in [1 .. m -> Nat]
  PROVE  \E f : Sums(f, g, m)
<1> DEFINE step == [p \in Nat \X (1 .. m) |-> p[1] + g[p[2]]]
<1>1. Steps(step, Nat, m)
  BY DEF Steps
<1>2. PICK f : Iterates(f, 0, step, Nat, m)
  <2> HIDE DEF step
  <2>1. QED
    BY <1>1, Iteration
<1>3. ASSUME NEW n \in 1 .. m PROVE f[n] = f[n - 1] + g[n]
  <2>1. <<f[n - 1], n>> \in Nat \X (1 .. m)
    BY <1>2 DEF Iterates
  <2>2. QED
    BY <1>2, <2>1 DEF Iterates
<1>4. f = [n \in 0 .. m |-> f[n]] /\ f[0] = 0
  BY <1>2 DEF Iterates
<1>5. \A n \in 0 .. m : n = 0 \/ n \in 1 .. m
  OBVIOUS
<1>6. \A n \in 0 .. m : f[n] = IF n = 0 THEN 0 ELSE f[n - 1] + g[n]
  BY <1>3, <1>4, <1>5, Zenon
<1>7. [n \in 0 .. m |-> f[n]] = [n \in 0 .. m |-> IF n = 0 THEN 0 ELSE f[n - 1] + g[n]]
  BY <1>6
<1>8. Sums(f, g, m)
  BY <1>4, <1>7 DEF Sums
<1>9. QED
  BY <1>8

\* A multiplication that the provers need not look into.
Scale(c, a) == c * a

LEMMA ScaleAdds ==
  ASSUME NEW c \in Nat, NEW a \in Nat, NEW b \in Nat
  PROVE  /\ Scale(c, a) \in Nat
         /\ Scale(c, a + b) = Scale(c, a) + Scale(c, b)
BY DEF Scale

\* What is summed up in steps that are each at most c times as large is at most c
\* times as large.
LEMMA SumsCompare ==
  ASSUME NEW m \in Nat, NEW g \in [1 .. m -> Nat], NEW h \in [1 .. m -> Nat], NEW c \in Nat,
         \A n \in 1 .. m : Scale(c, g[n]) <= h[n],
         NEW x, Sums(x, g, m), NEW y, Sums(y, h, m)
  PROVE  x[m] \in Nat /\ y[m] \in Nat /\ Scale(c, x[m]) <= y[m]
<1>1. /\ \A n \in 0 .. m : x[n] = IF n = 0 THEN 0 ELSE x[n - 1] + g[n]
      /\ \A n \in 0 .. m : y[n] = IF n = 0 THEN 0 ELSE y[n - 1] + h[n]
  BY DEF Sums
<1> DEFINE T == {k \in 0 .. m : x[k] \in Nat /\ y[k] \in Nat /\ Scale(c, x[k]) <= y[k]}
<1>2. 0 \in T
  <2>1. 0 \in 0 .. m /\ x[0] = 0 /\ y[0] = 0
    BY <1>1
  <2>2. Scale(c, 0) = 0
    BY DEF Scale
  <2>3. QED
    BY <2>1, <2>2
<1>3. ASSUME NEW k \in 0 .. m - 1, k \in T PROVE k + 1 \in T
  <2>1. PICK j \in 1 .. m : j = k + 1 /\ j # 0 /\ j - 1 = k /\ j \in 0 .. m
    OBVIOUS
  <2>2. x[j] = x[k] + g[j] /\ y[j] = y[k] + h[j]
    BY <1>1, <2>1, Zenon
  <2>3. x[k] \in Nat /\ y[k] \in Nat /\ Scale(c, x[k]) <= y[k]
    BY <1>3
  <2>4. g[j] \in Nat /\ h[j] \in Nat /\ Scale(c, g[j]) <= h[j]
    BY <2>1
  <2>5. /\ Scale(c, x[k]) \in Nat /\ Scale(c, g[j]) \in Nat
        /\ Scale(c, x[j]) = Scale(c, x[k]) + Scale(c, g[j])
    <3>1. PICK a \in Nat : a = x[k]
      BY <2>3
    <3>2. PICK b \in Nat : b = g[j]
      BY <2>4
    <3>3. /\ Scale(c, a) \in Nat /\ Scale(c, b) \in Nat
          /\ Scale(c, a + b) = Scale(c, a) + Scale(c, b)
      BY ScaleAdds
    <3>4. x[j] = a + b
      BY <2>2, <3>1, <3>2
    <3>5. QED
      BY <3>1, <3>2, <3>3, <3>4
  <2>6. Scale(c, x[j]) <= y[j]
    BY <2>2, <2>3, <2>4, <2>5
  <2>7. x[j] \in Nat /\ y[j] \in Nat /\ j \in 0 .. m
    <3>1. \A a, b \in Nat : a + b \in Nat
      OBVIOUS
    <3>2. QED
      BY <2>1, <2>2, <2>3, <2>4, <3>1, Zenon
  <2>8. j \in T
    BY <2>6, <2>7
  <2>9. QED
    BY <2>1, <2>8
<1> HIDE DEF T
<1>4. \A k \in 0 .. m : k \in T
  BY <1>2, <1>3, InductionUpTo
<1>5. QED
  BY <1>4 DEF T

\* The weight of a route, as RoutesShortest adds it up.
WeightOf(p) ==
  LET sum[n \in 0 .. Len(p)] == IF n = 0 THEN 0 ELSE sum[n - 1] + weight[p[n]]
  IN  sum[Len(p)]

\* The lengths and the weights of the arcs of the i-th route, and their sums.
RouteSums(i, p, g, h, x, y) ==
  /\ g = [n \in 1 .. Len(p) |-> Metric[p[n]]]
  /\ h = [n \in 1 .. Len(p) |-> weight[p[n]]]
  /\ Sums(x, g, Len(p)) /\ Sums(y, h, Len(p))
  /\ LengthOf(i) = x[Len(p)]
  /\ WeightOf(p) = y[Len(p)]

\* What the properties add up are such sums.
LEMMA SumsOfRoute ==
  ASSUME FootInv, NEW i \in DOMAIN routes, NEW p, p = routes[i].path, p \in Seq(Arcs)
  PROVE  \E g, h, x, y : RouteSums(i, p, g, h, x, y)
<1> DEFINE m == Len(p)
           g == [n \in 1 .. m |-> Metric[p[n]]]
           h == [n \in 1 .. m |-> weight[p[n]]]
           edges == get_optimized_routes[i]
           x == CHOOSE f : f = [n \in 0 .. m |-> IF n = 0 THEN 0 ELSE f[n - 1] + edges[n].length]
           y == CHOOSE f : f = [n \in 0 .. m |-> IF n = 0 THEN 0 ELSE f[n - 1] + weight[p[n]]]
<1>1. m \in Nat /\ \A n \in 1 .. m : p[n] \in Arcs
  OBVIOUS
<1>2. g \in [1 .. m -> Nat] /\ h \in [1 .. m -> Nat]
  BY <1>1, MetricIsLength DEF FootInv, IInv, TypeOK
<1>3. /\ DOMAIN edges = 1 .. m
      /\ \A n \in 1 .. m : edges[n].length = g[n]
      /\ \A n \in 1 .. m : weight[p[n]] = h[n]
  BY <1>1, MetricIsLength DEF get_optimized_routes
<1>4. Len(edges) = m
  <2>1. edges \in Seq({edges[n] : n \in 1 .. m})
    <3>1. edges = [n \in 1 .. m |->
             LET e == p[n] IN
             [from |-> e[1], to |-> e[2], length |-> Edges(network)[e].weight]]
      BY <1>1 DEF get_optimized_routes
    <3>2. edges = [n \in 1 .. m |-> edges[n]]
      BY <3>1
    <3> HIDE DEF edges
    <3>3. QED
      BY <1>1, <3>2
  <2> HIDE DEF edges
  <2>2. QED
    BY <1>1, <1>3, <2>1
<1>5. LengthOf(i) = x[m]
  BY <1>4 DEF LengthOf
<1> HIDE DEF g, h, edges, m
<1>6. Sums(x, g, m)
  <2>1. PICK f : Sums(f, g, m)
    BY <1>1, <1>2, SumsExist
  <2>2. \A n \in 0 .. m : n # 0 => n \in 1 .. m
    BY <1>1
  <2>3. \A f0 : [n \in 0 .. m |-> IF n = 0 THEN 0 ELSE f0[n - 1] + g[n]]
                = [n \in 0 .. m |-> IF n = 0 THEN 0 ELSE f0[n - 1] + edges[n].length]
    BY <1>3, <2>2
  <2>4. f = [n \in 0 .. m |-> IF n = 0 THEN 0 ELSE f[n - 1] + edges[n].length]
    BY <2>1, <2>3 DEF Sums
  <2>5. x = [n \in 0 .. m |-> IF n = 0 THEN 0 ELSE x[n - 1] + edges[n].length]
    BY <2>4
  <2> HIDE DEF x
  <2>6. QED
    BY <2>3, <2>5 DEF Sums
<1>7. Sums(y, h, m)
  <2>1. PICK f : Sums(f, h, m)
    BY <1>1, <1>2, SumsExist
  <2>2. \A n \in 0 .. m : n # 0 => n \in 1 .. m
    BY <1>1
  <2>3. \A f0 : [n \in 0 .. m |-> IF n = 0 THEN 0 ELSE f0[n - 1] + h[n]]
                = [n \in 0 .. m |-> IF n = 0 THEN 0 ELSE f0[n - 1] + weight[p[n]]]
    BY <1>3, <2>2
  <2>4. f = [n \in 0 .. m |-> IF n = 0 THEN 0 ELSE f[n - 1] + weight[p[n]]]
    BY <2>1, <2>3 DEF Sums
  <2>5. y = [n \in 0 .. m |-> IF n = 0 THEN 0 ELSE y[n - 1] + weight[p[n]]]
    BY <2>4
  <2> HIDE DEF y
  <2>6. QED
    BY <2>3, <2>5 DEF Sums
<1>8. WeightOf(p) = y[m]
  BY DEF WeightOf, m
<1> HIDE DEF x, y
<1>9. QED
  BY <1>5, <1>6, <1>7, <1>8 DEF g, h, m, RouteSums

-----------------------------------------------------------------------------

\* The least of a set of natural numbers is one of them, and below the others.
LEMMA MinOf ==
  ASSUME NEW L \in SUBSET Nat, L # {}
  PROVE  Min(L) \in L /\ \A c \in L : Min(L) <= c
<1>1. \E x \in L : \A y \in L : x <= y
  BY LeastNatural
<1>2. QED
  BY <1>1 DEF Min

\* A distance of the reference is a walk's length, and no greater than any other.
LEMMA DistanceLeast ==
  ASSUME NEW w \in WeightFns, s \in Vertex, NEW u \in Vertex,
         NEW d \in Walks(w, s), d[1] = u
  PROVE  /\ \E e \in Walks(w, s) : e[1] = u /\ e[2] = Distances[s][w][u]
         /\ Distances[s][w][u] \in Nat
         /\ \A e \in Walks(w, s) : e[1] = u => Distances[s][w][u] <= e[2]
<1> DEFINE L == Lengths(Walks(w, s), u)
<1>1. w \in [Arcs -> Nat]
  BY GraphAssumption
<1>2. Walks(w, s) \in SUBSET (Vertex \X Nat)
  <2>1. PICK f : UnfoldsTo(f, w, s)
    BY <1>1, WalksUnfold
  <2>2. QED
    BY <2>1 DEF UnfoldsTo
<1>3. L \in SUBSET Nat /\ d[2] \in L
  BY <1>2 DEF Lengths
<1>4. Distances[s][w][u] = Min(L)
  BY <1>3 DEF Distances
<1>5. Min(L) \in L /\ \A c \in L : Min(L) <= c
  <2> HIDE DEF L
  <2>1. QED
    BY <1>3, MinOf
<1>6. \A e \in Walks(w, s) : e[1] = u => e[2] \in L
  BY DEF Lengths
<1>7. \E e \in Walks(w, s) : e[1] = u /\ e[2] = Min(L)
  BY <1>5 DEF Lengths
<1> HIDE DEF L
<1>8. QED
  BY <1>3, <1>4, <1>5, <1>6, <1>7

\* The quietest way is at most twice as long as the shortest one, and the shortest
\* way is the shortest.
LEMMA RouteBounded ==
  ASSUME FootInv, NEW i \in DOMAIN routes
  PROVE  IF strategy = "quietest_pedestrian_weight_function"
         THEN LengthOf(i) <= 2 * ShortestLength[targets[i]]
         ELSE LengthOf(i) = ShortestLength[targets[i]]
<1>1. PICK p : p = routes[i].path
  OBVIOUS
<1>2. PICK t : t = targets[i]
  OBVIOUS
<1>3. /\ s \in Vertex /\ weight \in WeightFns /\ weight \in [Arcs -> Nat]
      /\ ShortestLength = Distances[s][Metric]
  BY FunctorAssumption DEF FootInv, IInv, TypeOK, ShortestLength, Metric
<1>4. p \in Seq(Arcs) /\ IsChain(p) /\ Joins(p, s, t) /\ t \in Vertex
  <2>1. targets \in Seq(Vertex)
    BY GraphAssumption DEF FootInv, IInv, TypeOK
  <2>2. i \in 1 .. Len(routes) /\ Len(routes) <= Len(targets) /\ Len(routes) \in Nat
    BY DEF FootInv, IInv, RoutesRead
  <2>3. t \in Vertex
    BY <1>2, <2>1, <2>2
  <2>4. IsChain(p) /\ Joins(p, s, t)
    BY <1>1, <1>2 DEF FootInv, IInv, RoutesRead
  <2>5. QED
    BY <2>3, <2>4 DEF IsChain
<1>5. PICK g, h, x, y : RouteSums(i, p, g, h, x, y)
  BY <1>1, <1>4, SumsOfRoute, Zenon
<1> USE DEF RouteSums
<1>6. y[Len(p)] = Distances[s][weight][t]
  <2>1. routes[i].length = WeightOf(p) /\ routes[i].length = Shortest[t]
    <3>1. RoutesShortest
      BY RoutesOptimal DEF FootInv
    <3>2. routes[i].length = WeightOf(routes[i].path) /\ routes[i].length = Shortest[targets[i]]
      BY <3>1 DEF RoutesShortest, WeightOf
    <3>3. QED
      BY <1>1, <1>2, <3>2
  <2>2. QED
    BY <1>5, <2>1 DEF Shortest
<1>7. /\ Len(p) \in Nat /\ g \in [1 .. Len(p) -> Nat] /\ h \in [1 .. Len(p) -> Nat]
      /\ \A n \in 1 .. Len(p) : g[n] = Metric[p[n]] /\ h[n] = weight[p[n]] /\ p[n] \in Arcs
  BY <1>3, <1>4, <1>5, MetricIsLength
<1>8. PICK d \in Walks(weight, s) : d[1] = t
  <2>1. <<t, dist[t]>> \in Walks(weight, s)
    BY <1>4, ChainWalked DEF FootInv
  <2>2. QED
    BY <2>1
<1>9. CASE strategy = "quietest_pedestrian_weight_function"
  <2>1. \A a \in Arcs : /\ weight[a] \in Nat /\ Metric[a] \in Nat
                        /\ 50 * Metric[a] <= weight[a] /\ weight[a] <= 100 * Metric[a]
    BY <1>9, Coefficient
  <2>2. x[Len(p)] \in Nat /\ y[Len(p)] \in Nat /\ 50 * x[Len(p)] <= y[Len(p)]
    <3>1. \A n \in 1 .. Len(p) : Scale(50, g[n]) <= h[n]
      BY <1>7, <2>1 DEF Scale
    <3>2. x[Len(p)] \in Nat /\ y[Len(p)] \in Nat /\ Scale(50, x[Len(p)]) <= y[Len(p)]
      BY <1>5, <1>7, <3>1, SumsCompare
    <3>3. QED
      BY <3>2 DEF Scale
  <2>3. PICK e \in Walks(Metric, s) : e[1] = t
    <3>1. PICK m \in Nat : m = 1
      OBVIOUS
    <3>2. \A a \in Arcs : Metric[a] <= m * weight[a]
      BY <2>1, <3>1
    <3>3. \A b \in Walks(weight, s) : \E e \in Walks(Metric, s) :
            e[1] = b[1] /\ e[2] \in Nat /\ b[2] \in Nat /\ e[2] <= m * b[2]
      BY <1>3, <3>2, Scaled, MetricIsLength
    <3>4. QED
      BY <1>8, <3>3
  <2>4. /\ \E b \in Walks(Metric, s) : b[1] = t /\ b[2] = Distances[s][Metric][t]
        /\ Distances[s][Metric][t] \in Nat
    BY <1>3, <1>4, <2>3, DistanceLeast, MetricIsLength
  <2>5. PICK b \in Walks(Metric, s) : b[1] = t /\ b[2] = Distances[s][Metric][t]
    BY <2>4
  <2>6. PICK c \in Walks(weight, s) : c[1] = t /\ c[2] \in Nat /\ c[2] <= 100 * b[2]
    <3>0. PICK m \in Nat : m = 100
      OBVIOUS
    <3>1. \A a \in Arcs : weight[a] <= m * Metric[a]
      BY <2>1, <3>0
    <3>2. \A f \in Walks(Metric, s) : \E c \in Walks(weight, s) :
            c[1] = f[1] /\ c[2] \in Nat /\ f[2] \in Nat /\ c[2] <= m * f[2]
      BY <1>3, <3>1, Scaled, MetricIsLength
    <3>3. PICK c \in Walks(weight, s) : c[1] = b[1] /\ c[2] \in Nat /\ c[2] <= m * b[2]
      BY <2>5, <3>2, Zenon
    <3>4. QED
      BY <2>5, <3>0, <3>3
  <2>7. Distances[s][weight][t] <= c[2]
    BY <1>3, <1>4, <2>6, DistanceLeast
  <2>8. x[Len(p)] <= 2 * Distances[s][Metric][t]
    <3>1. \A l, q, r, b0 \in Nat : 50 * l <= q /\ q <= r /\ r <= 100 * b0 => l <= 2 * b0
      OBVIOUS
    <3>2. y[Len(p)] <= c[2] /\ c[2] <= 100 * Distances[s][Metric][t]
      BY <1>6, <2>5, <2>6, <2>7
    <3>3. QED
      BY <2>2, <2>4, <2>6, <3>1, <3>2
  <2>9. QED
    BY <1>2, <1>3, <1>5, <1>9, <2>8
<1>10. CASE strategy = "shortest_weight_function"
  <2>1. weight = Metric /\ g = h
    BY <1>5, <1>10, MetricIsLength
  <2>2. PICK m \in Nat : m = 1
    OBVIOUS
  <2>3. \A k \in Nat : Scale(m, k) = k
    BY <2>2 DEF Scale
  <2>4. \A n \in 1 .. Len(p) : Scale(m, g[n]) <= g[n]
    BY <1>7, <2>3
  <2>5. Sums(x, g, Len(p)) /\ Sums(y, g, Len(p))
    BY <1>5, <2>1
  <2>6. x[Len(p)] \in Nat /\ y[Len(p)] \in Nat /\ Scale(m, x[Len(p)]) <= y[Len(p)]
    BY <1>7, <2>4, <2>5, SumsCompare
  <2>7. Scale(m, y[Len(p)]) <= x[Len(p)]
    BY <1>7, <2>4, <2>5, SumsCompare
  <2>8. x[Len(p)] = Distances[s][Metric][t]
    BY <1>6, <2>1, <2>3, <2>6, <2>7
  <2>9. QED
    BY <1>2, <1>3, <1>5, <1>10, <2>8
<1>11. QED
  BY <1>9, <1>10 DEF FootInv, Strategies

\* On every network, quietest_pedestrian_functor never sends anyone round for more
\* than twice the shortest way, and the default strategy finds the shortest.
THEOREM BoundedDetour == FootSpec => []DetourBounded
<1>1. FootInv => DetourBounded
  BY RouteBounded DEF DetourBounded
<1>2. QED
  BY <1>1, FootInvariance, PTL

\* The types of the search hold for it in its composition with the functors, too,
\* and its routes are shortest by the weights of the strategy.
THEOREM FootRoutes == FootSpec => [](TypeOK /\ RoutesShortest)
<1>1. FootInv => TypeOK /\ RoutesShortest
  BY RoutesOptimal DEF FootInv, IInv
<1>2. QED
  BY <1>1, FootInvariance, PTL

=============================================================================
