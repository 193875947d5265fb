----------------------- MODULE CompactDijkstraProofs -----------------------
(***************************************************************************)
(* What the car search keeps true on every graph, with every weight        *)
(* functor and every set of restricted turns.  The runs check the same     *)
(* properties on one small town.                                           *)
(*                                                                         *)
(* Neither SettledOrder nor PredecessorTree is inductive alone: a freshly  *)
(* discovered arc is queued with the label it had, so the argument needs   *)
(* to know that a white arc is unlabelled; and the route is rebuilt from   *)
(* labels, so it needs to know where the chains of predecessors start and  *)
(* that none of them runs through the target.                              *)
(* That the answer is shortest needs more of the end of the search (JInv)  *)
(* and an induction over the length of the drives it is compared with.     *)
(***************************************************************************)
EXTENDS CompactDijkstra, NaturalLemmas, FiniteSetTheorems

\* An arc the search has not seen has no label and no predecessor.
WhiteUnlabelled ==
  \A a \in Arc : color[a] = "white" => dist[a] = Infinity /\ pred[a] = a

\* Only gray arcs are queued.
QueueGray == \A a \in queue : color[a] = "gray"

\* A labelled arc without a predecessor leaves the source.
Rooted == \A a \in Arc : pred[a] = a /\ dist[a] # Infinity => Source[a] = s

\* The search never goes beyond an arc into the target.
TargetNotPassed == \A a \in Arc : color[a] = "black" => Target[a] # t

\* The path under construction is a chain of predecessors down to an arc into
\* the target; it starts when the trace does.
PathChain ==
  /\ pc \in {"start", "search", "result"} => path = <<>>
  /\ pc = "trace" => path # <<>>
  /\ path # <<>> =>
       /\ Target[path[Len(path)]] = t
       /\ dist[path[1]] # Infinity
       /\ \A i \in 1 .. Len(path) - 1 :
            pred[path[i + 1]] = path[i] /\ pred[path[i + 1]] # path[i + 1]
       /\ pc = "answered" => pred[path[1]] = path[1]

IInv ==
  /\ TypeOK
  /\ WhiteUnlabelled
  /\ QueueGray
  /\ SettledOrder
  /\ PredecessorTree
  /\ NoShortcut
  /\ Rooted
  /\ TargetNotPassed
  /\ PathChain

-----------------------------------------------------------------------------

\* The order on distances: nothing is less than itself, and an upper bound of
\* an upper bound is one.
LEMMA NotLessTransitive ==
  ASSUME NEW x \in Distance, NEW y \in Distance, NEW z \in Distance,
         ~ Less(y, x), ~ Less(z, y)
  PROVE  ~ Less(z, x)
BY DEF Distance, Infinity, Less

\* No distance is less than itself.
LEMMA NotLessReflexive ==
  ASSUME NEW x \in Distance
  PROVE  ~ Less(x, x)
BY DEF Distance, Infinity, Less

\* What combining a label with a weight and a turn cost can give: a distance
\* that is not less than the label, and that is finite only when the label is
\* and the turn is free.
LEMMA CandidateBound ==
  ASSUME TypeOK, NEW ie \in Arc, NEW oe \in Arc
  PROVE  /\ Candidate(ie, oe) \in Distance
         /\ ~ Less(Candidate(ie, oe), dist[ie])
         /\ Candidate(ie, oe) # Infinity =>
              /\ dist[ie] # Infinity
              /\ w_turn(ie, oe) = 0
              /\ Candidate(ie, oe) = dist[ie] + weight[oe]
<1>1. dist[ie] \in Distance /\ weight[oe] \in Nat
  BY DEF TypeOK
<1>2. w_turn(ie, oe) \in {0, Infinity}
  BY DEF w_turn
<1>3. CASE w_turn(ie, oe) = Infinity
  <2>1. Candidate(ie, oe) = Infinity
    BY <1>3 DEF Candidate, closed_plus
  <2>2. QED
    BY <1>1, <2>1 DEF Less, Distance
<1>4. CASE w_turn(ie, oe) = 0
  <2>1. closed_plus(weight[oe], w_turn(ie, oe)) = weight[oe]
    BY <1>1, <1>4 DEF closed_plus, Infinity
  <2>2. Candidate(ie, oe) = IF dist[ie] = Infinity THEN Infinity ELSE dist[ie] + weight[oe]
    BY <1>1, <2>1 DEF Candidate, closed_plus, Infinity
  <2>3. QED
    BY <1>1, <1>4, <2>2 DEF Less, Distance, Infinity
<1>5. QED
  BY <1>2, <1>3, <1>4

\* An arc never relaxes itself: going round a loop twice is a U-turn.
LEMMA NotSelfRelaxed ==
  ASSUME TypeOK, NEW ie \in Arc
  PROVE  ie \notin Relaxed(ie)
<1> SUFFICES ASSUME ie \in Relaxed(ie) PROVE FALSE
  OBVIOUS
<1>1. Source[ie] = Target[ie]
  BY DEF Relaxed, OutArcs
<1>2. w_turn(ie, ie) = Infinity
  BY <1>1 DEF w_turn, UTurn
<1>3. Candidate(ie, ie) = Infinity
  BY <1>2, CandidateBound DEF Infinity
<1>4. QED
  BY <1>3 DEF Relaxed, Less

-----------------------------------------------------------------------------

\* The maps are filled, the queue is empty: nothing to show but the types.
LEMMA InitIInv == Init => IInv
<1> SUFFICES ASSUME Init PROVE IInv
  OBVIOUS
<1>1. TypeOK
  BY WeightAssumption, TurnAssumption
     DEF Init, TypeOK, Distance, Infinity, Color
<1>2. WhiteUnlabelled /\ QueueGray /\ SettledOrder /\ PredecessorTree
  BY DEF Init, WhiteUnlabelled, QueueGray, SettledOrder, PredecessorTree
<1>3. NoShortcut /\ Rooted /\ TargetNotPassed /\ PathChain
  BY DEF Init, NoShortcut, Rooted, TargetNotPassed, PathChain, Infinity
<1>4. QED
  BY <1>1, <1>2, <1>3 DEF IInv

\* Queueing the arcs out of the source.
LEMMA StartIInv ==
  ASSUME IInv, Start
  PROVE  IInv'
<1> USE DEF IInv
<1>1. TypeOK'
  <2>1. OutArcs(s) \in SUBSET Arc
    BY DEF OutArcs
  <2>2. QED
    BY <2>1 DEF Start, TypeOK, query, Distance, Infinity, Color
<1>2. WhiteUnlabelled' /\ QueueGray' /\ SettledOrder' /\ PredecessorTree'
  BY DEF Start, TypeOK, OutArcs, WhiteUnlabelled, QueueGray, SettledOrder, PredecessorTree
<1>3. Rooted'
  BY DEF Start, TypeOK, query, OutArcs, Rooted
<1>4. TargetNotPassed' /\ NoShortcut'
  BY DEF Start, TypeOK, TargetNotPassed, NoShortcut
<1>5. PathChain'
  BY DEF Start, PathChain
<1>6. QED
  BY <1>1, <1>2, <1>3, <1>4, <1>5

\* The settling of an arc and the relaxation of those that leave its head.
LEMMA PopArcIInv ==
  ASSUME IInv, NEW ie \in Arc, PopArc(ie)
  PROVE  IInv'
<1> USE DEF IInv
<1> DEFINE R == Relaxed(ie)
           D == Discovered(ie)
<1>1. /\ R \subseteq Arc /\ D \subseteq Arc
      /\ \A a \in R : color[a] \in {"white", "gray"} /\ Target[ie] = Source[a]
      /\ \A a \in R : Less(Candidate(ie, a), dist[a])
      /\ \A a \in D : color[a] = "white"
      /\ \A a \in R : color[a] = "white" => a \in D
  BY DEF Relaxed, Discovered, OutArcs
<1>2. /\ ie \in queue /\ color[ie] = "gray" /\ ie \notin R /\ Target[ie] # t
      /\ \A a \in queue : ~ Less(dist[a], dist[ie])
  BY NotSelfRelaxed DEF PopArc, Top, QueueGray
<1>3. \A a \in Arc : /\ dist'[a]  = IF a \in R THEN Candidate(ie, a) ELSE dist[a]
                     /\ pred'[a]  = IF a \in R THEN ie ELSE pred[a]
                     /\ color'[a] = IF a = ie THEN "black"
                                    ELSE IF a \in D THEN "gray" ELSE color[a]
  BY DEF PopArc
<1>4. queue' = (queue \ {ie}) \cup D /\ UNCHANGED <<restricted, s, t, weight, pc, path>>
  BY DEF PopArc, query
<1>5. \A a \in Arc : dist[a] \in Distance
  BY DEF TypeOK
<1>6. \A a \in R : /\ Candidate(ie, a) \in Distance
                   /\ ~ Less(Candidate(ie, a), dist[ie])
                   /\ Candidate(ie, a) # Infinity
                   /\ dist[ie] # Infinity
                   /\ w_turn(ie, a) = 0
                   /\ Candidate(ie, a) = dist[ie] + weight[a]
  BY <1>1, CandidateBound DEF Less
<1> HIDE DEF R, D
<1>7. TypeOK'
  <2>1. dist' \in [Arc -> Distance]
    BY <1>5, <1>6 DEF PopArc, R
  <2>2. pred' \in [Arc -> Arc]
    BY DEF PopArc, TypeOK
  <2>3. color' \in [Arc -> Color]
    BY DEF PopArc, TypeOK, Color
  <2>4. queue' \in SUBSET Arc
    BY <1>1, <1>4 DEF TypeOK
  <2>5. QED
    BY <1>4, <2>1, <2>2, <2>3, <2>4 DEF TypeOK
<1>8. WhiteUnlabelled'
  BY <1>1, <1>3 DEF WhiteUnlabelled
<1>9. QueueGray'
  BY <1>1, <1>2, <1>3, <1>4 DEF QueueGray, TypeOK
<1>10. SettledOrder'
  <2> SUFFICES ASSUME NEW b \in Arc, NEW a \in Arc, color'[b] = "black", a \in queue'
               PROVE  ~ Less(dist'[a], dist'[b])
    BY DEF SettledOrder
  <2>1. dist'[b] = dist[b] /\ ~ Less(dist[ie], dist[b])
    <3>1. CASE b = ie
      BY <1>2, <1>3, <1>5, <3>1, NotLessReflexive
    <3>2. CASE b # ie
      <4>1. color[b] = "black"
        BY <1>1, <1>3, <3>2
      <4>2. QED
        BY <1>1, <1>2, <1>3, <4>1 DEF SettledOrder
    <3>3. QED
      BY <3>1, <3>2
  <2>2. ~ Less(dist'[a], dist[ie])
    <3>1. CASE a \in R
      BY <1>3, <1>6, <3>1
    <3>2. CASE a \notin R /\ a \in D
      <4>1. dist'[a] = Infinity
        BY <1>1, <1>3, <3>2 DEF WhiteUnlabelled
      <4>2. QED
        BY <4>1 DEF Less
    <3>3. CASE a \notin R /\ a \notin D
      BY <1>2, <1>3, <1>4, <3>3
    <3>4. QED
      BY <3>1, <3>2, <3>3
  <2>3. dist'[a] \in Distance
    BY <1>7 DEF TypeOK
  <2>4. QED
    BY <1>5, <2>1, <2>2, <2>3, NotLessTransitive
<1>11. PredecessorTree'
  <2> SUFFICES ASSUME NEW a \in Arc, pred'[a] # a
               PROVE  /\ color'[pred'[a]] = "black"
                      /\ Follows(pred'[a], a)
                      /\ dist'[pred'[a]] # Infinity
                      /\ dist'[a] = dist'[pred'[a]] + weight[a]
    BY <1>4 DEF PredecessorTree, Follows, w_turn
  <2>1. CASE a \in R
    <3>1. pred'[a] = ie /\ color'[ie] = "black" /\ dist'[ie] = dist[ie]
      BY <1>2, <1>3, <2>1
    <3>2. Follows(ie, a)
      BY <1>1, <1>6, <2>1 DEF Follows
    <3>3. QED
      BY <1>3, <1>6, <2>1, <3>1, <3>2
  <2>2. CASE a \notin R
    <3>1. pred'[a] = pred[a] /\ dist'[a] = dist[a] /\ pred[a] \in Arc
      BY <1>3, <2>2 DEF TypeOK
    <3>2. color[pred[a]] = "black"
      BY <3>1 DEF PredecessorTree
    <3>3. color'[pred[a]] = "black" /\ dist'[pred[a]] = dist[pred[a]]
      BY <1>1, <1>3, <3>1, <3>2
    <3>4. QED
      BY <3>1, <3>3 DEF PredecessorTree
  <2>3. QED
    BY <2>1, <2>2
<1>12. NoShortcut'
  <2> SUFFICES ASSUME NEW b \in Arc, color'[b] = "black", NEW a \in OutArcs(Target[b])
               PROVE  ~ Less(Candidate(b, a), dist'[a])
    <3>1. \A p \in Arc : color'[p] = "black" => dist'[p] = dist[p]
      BY <1>1, <1>2, <1>3
    <3>2. \A p \in Arc, q \in Arc : color'[p] = "black" => Candidate(p, q)' = Candidate(p, q)
      BY <1>4, <3>1 DEF Candidate, w_turn
    <3>3. QED
      BY <3>2 DEF NoShortcut, OutArcs
  <2> DEFINE c == Candidate(b, a)
  <2>1. a \in Arc /\ Source[a] = Target[b] /\ c \in Distance /\ dist'[a] \in Distance
    BY <1>7, CandidateBound DEF OutArcs, TypeOK
  <2>2. CASE b = ie
    <3>1. CASE a \in R
      BY <1>3, <2>1, <2>2, <3>1, NotLessReflexive
    <3>2. CASE a \notin R /\ color[a] = "black"
      <4>1. ~ Less(dist[ie], dist[a]) /\ ~ Less(c, dist[ie])
        BY <1>2, <2>1, <2>2, <3>2, CandidateBound DEF SettledOrder
      <4>2. QED
        BY <1>3, <1>5, <2>1, <3>2, <4>1, NotLessTransitive
    <3>3. CASE a \notin R /\ color[a] # "black"
      <4>1. color[a] \in {"white", "gray"}
        BY <2>1, <3>3 DEF TypeOK, Color
      <4>2. QED
        BY <1>3, <2>1, <2>2, <3>3, <4>1 DEF R, Relaxed
    <3>4. QED
      BY <3>1, <3>2, <3>3
  <2>3. CASE b # ie
    <3>1. color[b] = "black"
      BY <1>1, <1>3, <2>3
    <3>2. ~ Less(c, dist[a])
      BY <3>1 DEF NoShortcut
    <3>3. ~ Less(dist[a], dist'[a])
      BY <1>1, <1>3, <1>5, <1>6, <2>1, NotLessReflexive DEF Less, Distance, Infinity
    <3>4. QED
      BY <1>5, <2>1, <3>2, <3>3, NotLessTransitive
  <2>4. QED
    BY <2>2, <2>3
<1>13. Rooted'
  BY <1>2, <1>3, <1>4 DEF Rooted
<1>14. TargetNotPassed'
  BY <1>1, <1>2, <1>3, <1>4 DEF TargetNotPassed
<1>15. PathChain'
  BY <1>4 DEF PathChain, PopArc
<1>16. QED
  BY <1>7, <1>8, <1>9, <1>10, <1>11, <1>12, <1>13, <1>14, <1>15

\* The steps that leave the labels alone: the end of the search, and the
\* rebuilding of the route.
LEMMA LabelsKept ==
  ASSUME IInv, UNCHANGED <<restricted, s, t, weight, dist, pred, color>>,
         queue' \subseteq queue,
         pc' \in {"start", "search", "result", "trace", "answered"}, path' \in Seq(Arc)
  PROVE  /\ TypeOK' /\ WhiteUnlabelled' /\ QueueGray' /\ SettledOrder'
         /\ PredecessorTree' /\ NoShortcut' /\ Rooted' /\ TargetNotPassed'
<1> USE DEF IInv
<1>1. TypeOK'
  BY DEF TypeOK
<1>2. WhiteUnlabelled' /\ QueueGray' /\ SettledOrder' /\ Rooted' /\ TargetNotPassed'
  BY DEF WhiteUnlabelled, QueueGray, SettledOrder, Rooted, TargetNotPassed
<1>3. PredecessorTree' /\ NoShortcut'
  BY DEF PredecessorTree, Follows, NoShortcut, Candidate, w_turn
<1>4. QED
  BY <1>1, <1>2, <1>3

\* The steps that end the search, and the answer that there is no route,
\* change no label and keep the invariant.
LEMMA StopIInv ==
  ASSUME IInv, (\E ie \in Arc : PopTarget(ie)) \/ Exhausted \/ NoPath
  PROVE  IInv'
<1> USE DEF IInv
<1>1. /\ UNCHANGED <<restricted, s, t, weight, dist, pred, color, path>>
      /\ queue' \subseteq queue /\ pc' \in {"result", "answered"}
      /\ pc \in {"search", "result"}
  BY DEF PopTarget, Exhausted, NoPath, query, labels
<1>2. path = <<>> /\ path' \in Seq(Arc)
  BY <1>1 DEF PathChain, TypeOK
<1>3. PathChain'
  BY <1>1, <1>2 DEF PathChain
<1>4. QED
  BY <1>1, <1>2, <1>3, LabelsKept

\* The last arc of the route.
LEMMA PickLastArcIInv ==
  ASSUME IInv, NEW a \in Arc, PickLastArc(a)
  PROVE  IInv'
<1> USE DEF IInv
<1>1. /\ UNCHANGED <<restricted, s, t, weight, dist, pred, color, queue>>
      /\ pc' = "trace" /\ path' = <<a>> /\ Target[a] = t /\ dist[a] # Infinity
  BY DEF PickLastArc, LastArcs, InArcs, query, labels
<1>2. path' \in Seq(Arc) /\ path' # <<>> /\ Len(path') = 1 /\ path'[1] = a
  BY <1>1
<1>3. PathChain'
  BY <1>1, <1>2 DEF PathChain
<1>4. QED
  BY <1>1, <1>2, <1>3, LabelsKept

\* One more arc at the front of the route, or the end of the trace.
LEMMA TraceBackIInv ==
  ASSUME IInv, TraceBack
  PROVE  IInv'
<1> USE DEF IInv
<1> DEFINE e == path[1]
<1>1. /\ UNCHANGED <<restricted, s, t, weight, dist, pred, color, queue>>
      /\ pc = "trace"
  BY DEF TraceBack, query, labels
<1>2. path \in Seq(Arc) /\ path # <<>> /\ e \in Arc /\ pred[e] \in Arc
  BY <1>1 DEF PathChain, TypeOK
<1>3. CASE pred[e] = e
  <2>1. path' = path /\ pc' = "answered"
    BY <1>3 DEF TraceBack
  <2>2. PathChain'
    BY <1>1, <1>2, <1>3, <2>1 DEF PathChain
  <2>3. QED
    BY <1>1, <1>2, <2>1, <2>2, LabelsKept
<1>4. CASE pred[e] # e
  <2>1. path' = <<pred[e]>> \o path /\ pc' = "trace"
    BY <1>1, <1>4 DEF TraceBack
  <2>2. /\ path' \in Seq(Arc) /\ path' # <<>> /\ Len(path') = Len(path) + 1
        /\ path'[1] = pred[e]
        /\ \A i \in 1 .. Len(path) : path'[i + 1] = path[i]
    BY <1>2, <2>1
  <2>3. Target'[path'[Len(path')]] = t' /\ dist'[path'[1]] # Infinity
    BY <1>1, <1>2, <1>4, <2>2 DEF PathChain, PredecessorTree
  <2>4. \A i \in 1 .. Len(path') - 1 :
          pred'[path'[i + 1]] = path'[i] /\ pred'[path'[i + 1]] # path'[i + 1]
    <3> SUFFICES ASSUME NEW i \in 1 .. Len(path)
                 PROVE  pred[path'[i + 1]] = path'[i] /\ pred[path'[i + 1]] # path'[i + 1]
      BY <1>1, <1>2, <2>2
    <3>1. CASE i = 1
      BY <1>2, <1>4, <2>2, <3>1
    <3>2. CASE i # 1
      <4>1. i - 1 \in 1 .. Len(path) - 1 /\ (i - 1) + 1 = i
        BY <1>2, <3>2
      <4>2. pred[path[i]] = path[i - 1] /\ pred[path[i]] # path[i]
        BY <1>1, <1>2, <4>1 DEF PathChain
      <4>3. path'[i + 1] = path[i] /\ path'[i] = path[i - 1]
        BY <1>2, <2>2, <4>1
      <4>4. QED
        BY <4>2, <4>3
    <3>3. QED
      BY <3>1, <3>2
  <2>5. PathChain'
    BY <2>1, <2>2, <2>3, <2>4 DEF PathChain
  <2>6. QED
    BY <1>1, <2>1, <2>2, <2>5, LabelsKept
<1>5. QED
  BY <1>3, <1>4

\* Every step keeps the invariant: one case per action.
LEMMA NextIInv == IInv /\ [Next]_vars => IInv'
<1> SUFFICES ASSUME IInv, [Next]_vars PROVE IInv'
  OBVIOUS
<1>1. CASE Start
  BY <1>1, StartIInv
<1>2. CASE \E ie \in Arc : PopArc(ie)
  BY <1>2, PopArcIInv
<1>3. CASE (\E ie \in Arc : PopTarget(ie)) \/ Exhausted \/ NoPath
  BY <1>3, StopIInv
<1>4. CASE \E a \in Arc : PickLastArc(a)
  BY <1>4, PickLastArcIInv
<1>5. CASE TraceBack
  BY <1>5, TraceBackIInv
<1>6. CASE UNCHANGED vars
  BY <1>6 DEF vars, IInv, TypeOK, WhiteUnlabelled, QueueGray, SettledOrder,
     PredecessorTree, Follows, w_turn, NoShortcut, Candidate, Rooted, TargetNotPassed,
     PathChain
<1>7. QED
  BY <1>1, <1>2, <1>3, <1>4, <1>5, <1>6 DEF Next

\* The inductive invariant of the car search.
THEOREM Invariance == Spec => []IInv
BY InitIInv, NextIInv, PTL DEF Spec

-----------------------------------------------------------------------------

\* Every variable of the solver keeps to its kind, on every graph.
THEOREM TypeCorrect == Spec => []TypeOK
<1>1. IInv => TypeOK
  BY DEF IInv
<1>2. QED
  BY <1>1, Invariance, PTL

\* Labels are settled in the order of their distance: the heap of
\* arc_based_search never has to take a settled arc back.
THEOREM SettledInOrder == Spec => []SettledOrder
<1>1. IInv => SettledOrder
  BY DEF IInv
<1>2. QED
  BY <1>1, Invariance, PTL

\* The predecessor map is what get_result takes it for: each entry is a
\* settled arc, a legal turn, and the exact cost of the label.
THEOREM Predecessors == Spec => []PredecessorTree
<1>1. IInv => PredecessorTree
  BY DEF IInv
<1>2. QED
  BY <1>1, Invariance, PTL

\* The labels the search stops with cannot be improved by one more arc, on any
\* graph: with Predecessors, that is what makes them least costs.
THEOREM NothingShorter == Spec => []NoShortcut
<1>1. IInv => NoShortcut
  BY DEF IInv
<1>2. QED
  BY <1>1, Invariance, PTL

\* A route that get_result returns leaves the source, meets the target only
\* at its end, and makes no U-turn and no restricted turn.
THEOREM LegalAnswers == Spec => []AnswerLegal
<1>1. IInv => AnswerLegal
  <2> SUFFICES ASSUME IInv, pc = "answered", path # <<>>
               PROVE  /\ Source[path[1]] = s
                      /\ \A i \in 1 .. Len(path) : Target[path[i]] = t <=> i = Len(path)
                      /\ \A i \in 1 .. Len(path) - 1 : Follows(path[i], path[i + 1])
    BY DEF AnswerLegal
  <2>1. path \in Seq(Arc) /\ Len(path) \in Nat \ {0} /\ path[1] \in Arc
    BY DEF IInv, TypeOK
  <2>2. Source[path[1]] = s
    BY <2>1 DEF IInv, PathChain, Rooted
  <2>3. \A i \in 1 .. Len(path) - 1 :
          color[path[i]] = "black" /\ Follows(path[i], path[i + 1])
    <3> SUFFICES ASSUME NEW i \in 1 .. Len(path) - 1
                 PROVE  color[path[i]] = "black" /\ Follows(path[i], path[i + 1])
      OBVIOUS
    <3>1. path[i + 1] \in Arc
      BY <2>1
    <3>2. pred[path[i + 1]] = path[i] /\ pred[path[i + 1]] # path[i + 1]
      BY DEF IInv, PathChain
    <3>3. QED
      BY <3>1, <3>2 DEF IInv, PredecessorTree
  <2>4. ASSUME NEW i \in 1 .. Len(path)
        PROVE  Target[path[i]] = t <=> i = Len(path)
    <3>1. CASE i = Len(path)
      BY <3>1 DEF IInv, PathChain
    <3>2. CASE i # Len(path)
      <4>1. i \in 1 .. Len(path) - 1 /\ path[i] \in Arc
        BY <2>1, <3>2
      <4>2. QED
        BY <2>3, <3>2, <4>1 DEF IInv, TargetNotPassed
    <3>3. QED
      BY <3>1, <3>2
  <2>5. QED
    BY <2>2, <2>3, <2>4
<1>2. QED
  BY <1>1, Invariance, PTL

-----------------------------------------------------------------------------
(* The shortest answer.  The labels are least costs when the search stops, *)
(* but for those that lie beyond the last arc; and the chains of           *)
(* predecessors end, so the route is one of the drives it is compared with.*)

\* No predecessors go round: a set of arcs has one to start from.
Acyclic ==
  \A S \in SUBSET Arc : S # {} => \E a \in S : pred[a] = a \/ pred[a] \notin S

\* The first arc is free.
FirstFree ==
  /\ \A a \in Arc : pred[a] = a /\ dist[a] # Infinity => dist[a] = 0
  /\ pc # "start" => \A a \in OutArcs(s) : dist[a] = 0

\* What was discovered and is not settled is queued, and is no nearer than the
\* target when the search stops.
Settled ==
  /\ pc = "search" => \A a \in Arc : color[a] = "gray" => a \in queue
  /\ pc \in {"result", "trace", "answered"} =>
       \A a \in Arc : color[a] = "gray" => \E e \in InArcs(t) : ~ Less(dist[a], dist[e])

\* The route ends with the nearest arc into the target.
NearestLast ==
  /\ path # <<>> =>
       /\ path[Len(path)] \in LastArcs
       /\ \A b \in LastArcs : ~ Less(dist[b], dist[path[Len(path)]])
  /\ pc = "answered" /\ path = <<>> => LastArcs = {}

JInv == Acyclic /\ FirstFree /\ Settled /\ NearestLast

\* Before the search starts there is no label that JInv could be about.
LEMMA InitJInv == Init => JInv
<1> SUFFICES ASSUME Init PROVE JInv
  OBVIOUS
<1>1. Acyclic /\ FirstFree
  BY DEF Init, Acyclic, FirstFree
<1>2. Settled /\ NearestLast
  BY DEF Init, Settled, NearestLast
<1>3. QED
  BY <1>1, <1>2 DEF JInv

\* Popping an arc and relaxing those after it keeps JInv: the popped arc settles
\* as the nearest one, and an arc it improves is farther than it was.
LEMMA PopArcJInv ==
  ASSUME IInv, JInv, NEW ie \in Arc, PopArc(ie)
  PROVE  JInv'
<1> USE DEF IInv, JInv
<1> DEFINE R == Relaxed(ie)
           D == Discovered(ie)
<1>1. /\ \A a \in R : a \in Arc /\ color[a] \in {"white", "gray"}
      /\ \A a \in R : Less(Candidate(ie, a), dist[a])
      /\ ie \notin R /\ ie \in queue /\ color[ie] = "gray"
  BY NotSelfRelaxed DEF Relaxed, OutArcs, PopArc, Top, QueueGray
<1>2. \A a \in Arc : /\ dist'[a]  = IF a \in R THEN Candidate(ie, a) ELSE dist[a]
                     /\ pred'[a]  = IF a \in R THEN ie ELSE pred[a]
                     /\ color'[a] = IF a = ie THEN "black"
                                    ELSE IF a \in D THEN "gray" ELSE color[a]
  BY DEF PopArc
<1>3. queue' = (queue \ {ie}) \cup D /\ pc = "search"
      /\ UNCHANGED <<restricted, s, t, weight, pc, path>>
  BY DEF PopArc, query
<1> HIDE DEF R, D
<1>4. Acyclic'
  <2> SUFFICES ASSUME NEW S \in SUBSET Arc, S # {}
               PROVE  \E a \in S : pred'[a] = a \/ pred'[a] \notin S
    BY DEF Acyclic
  <2> DEFINE B == {a \in S : color[a] = "black"}
  <2>1. \A a \in Arc : pred[a] # a => pred[a] \in Arc /\ color[pred[a]] = "black"
    BY DEF TypeOK, PredecessorTree
  <2>2. CASE B # {}
    <3>1. PICK a \in B : pred[a] = a \/ pred[a] \notin B
      BY <2>2 DEF Acyclic
    <3>2. pred'[a] = pred[a] /\ a \in S
      BY <1>1, <1>2, <3>1
    <3>3. QED
      BY <2>1, <3>1, <3>2
  <2>3. CASE B = {} /\ ie \in S
    BY <1>1, <1>2, <2>1, <2>3
  <2>4. CASE B = {} /\ ie \notin S
    BY <1>2, <2>1, <2>4
  <2>5. QED
    BY <2>2, <2>3, <2>4
<1>5. FirstFree'
  <2>1. ASSUME NEW a \in Arc, pred'[a] = a, dist'[a] # Infinity
        PROVE  dist'[a] = 0
    BY <1>1, <1>2, <2>1 DEF FirstFree
  <2>2. ASSUME NEW a \in OutArcs(s) PROVE dist'[a] = 0
    <3>1. a \in Arc /\ dist[a] = 0
      BY <1>3, <2>2 DEF FirstFree, OutArcs
    <3>2. Candidate(ie, a) \in Distance
      BY <3>1, CandidateBound
    <3>3. ~ Less(Candidate(ie, a), 0)
      BY <3>2 DEF Less, Distance, Infinity
    <3>4. QED
      BY <1>1, <1>2, <3>1, <3>3
  <2>3. OutArcs(s)' = OutArcs(s)
    BY <1>3 DEF OutArcs
  <2>4. QED
    BY <2>1, <2>2, <2>3 DEF FirstFree
<1>6. Settled'
  BY <1>1, <1>2, <1>3 DEF Settled
<1>7. NearestLast'
  BY <1>3 DEF NearestLast, PathChain
<1>8. QED
  BY <1>4, <1>5, <1>6, <1>7

\* Every step keeps JInv, given the invariant before it.
LEMMA NextJInv == ASSUME IInv, JInv, [Next]_vars PROVE JInv'
<1> USE DEF IInv, JInv
<1>1. CASE Start
  <2>1. Acyclic'
    BY <1>1 DEF Start, Acyclic
  <2>2. FirstFree' /\ Settled'
    BY <1>1 DEF Start, FirstFree, Settled, OutArcs, query
  <2>3. NearestLast'
    BY <1>1 DEF Start, NearestLast, PathChain
  <2>4. QED
    BY <2>1, <2>2, <2>3
<1>2. CASE \E ie \in Arc : PopArc(ie)
  BY <1>2, PopArcJInv
<1>3. ASSUME UNCHANGED <<s, t, dist, pred, color>>, pc # "start"
      PROVE  Acyclic' /\ FirstFree' /\ LastArcs' = LastArcs /\ InArcs(t)' = InArcs(t)
  BY <1>3 DEF Acyclic, FirstFree, LastArcs, InArcs, OutArcs
<1>4. ASSUME NEW ie \in Arc, PopTarget(ie) PROVE JInv'
  <2>1. /\ UNCHANGED <<s, t, dist, pred, color, path>> /\ pc = "search" /\ pc' = "result"
        /\ Target[ie] = t /\ \A a \in queue : ~ Less(dist[a], dist[ie])
    BY <1>4 DEF PopTarget, query, Top
  <2>2. ie \in InArcs(t)
    BY <2>1 DEF InArcs
  <2>3. Settled'
    BY <1>3, <2>1, <2>2 DEF Settled
  <2>4. NearestLast'
    BY <2>1 DEF NearestLast, PathChain
  <2>5. QED
    BY <1>3, <2>1, <2>3, <2>4
<1>5. CASE Exhausted
  <2>1. /\ UNCHANGED <<s, t, dist, pred, color, path>> /\ pc = "search" /\ pc' = "result"
        /\ queue = {}
    BY <1>5 DEF Exhausted, query, labels
  <2>2. Settled'
    BY <2>1 DEF Settled
  <2>3. NearestLast'
    BY <2>1 DEF NearestLast, PathChain
  <2>4. QED
    BY <1>3, <2>1, <2>2, <2>3
<1>6. CASE NoPath
  <2>1. /\ UNCHANGED <<s, t, dist, pred, color, path>> /\ pc = "result" /\ pc' = "answered"
        /\ LastArcs = {}
    BY <1>6 DEF NoPath, query, labels
  <2>2. Settled'
    BY <1>3, <2>1 DEF Settled
  <2>3. NearestLast'
    BY <1>3, <2>1 DEF NearestLast, PathChain
  <2>4. QED
    BY <1>3, <2>1, <2>2, <2>3
<1>7. ASSUME NEW a \in Arc, PickLastArc(a) PROVE JInv'
  <2>1. /\ UNCHANGED <<s, t, dist, pred, color>> /\ pc = "result" /\ pc' = "trace"
        /\ path' = <<a>> /\ a \in LastArcs /\ \A b \in LastArcs : ~ Less(dist[b], dist[a])
    BY <1>7 DEF PickLastArc, query, labels
  <2>2. path' # <<>> /\ path'[Len(path')] = a
    BY <2>1
  <2>3. Settled'
    BY <1>3, <2>1 DEF Settled
  <2>4. NearestLast'
    BY <1>3, <2>1, <2>2 DEF NearestLast
  <2>5. QED
    BY <1>3, <2>1, <2>3, <2>4
<1>8. CASE TraceBack
  <2>1. /\ UNCHANGED <<s, t, dist, pred, color>> /\ pc = "trace" /\ pc' \in {"trace", "answered"}
        /\ path' = path \/ path' = <<pred[path[1]]>> \o path
    BY <1>8 DEF TraceBack, query, labels
  <2>2. path \in Seq(Arc) /\ path # <<>> /\ pred[path[1]] \in Arc
    BY <2>1 DEF PathChain, TypeOK
  <2>3. path' # <<>> /\ path'[Len(path')] = path[Len(path)]
    BY <2>1, <2>2
  <2>4. Settled'
    BY <1>3, <2>1 DEF Settled
  <2>5. NearestLast'
    BY <1>3, <2>1, <2>2, <2>3 DEF NearestLast
  <2>6. QED
    BY <1>3, <2>1, <2>4, <2>5
<1>9. CASE UNCHANGED vars
  BY <1>9 DEF vars, Acyclic, FirstFree, Settled, NearestLast, LastArcs, InArcs, OutArcs
<1>10. QED
  BY <1>1, <1>2, <1>4, <1>5, <1>6, <1>7, <1>8, <1>9 DEF Next

\* With the labels, what the answer rests on.
LEMMA Answering == Spec => [](IInv /\ JInv)
<1>1. Init => JInv
  BY InitJInv
<1>2. IInv /\ JInv /\ [Next]_vars => JInv'
  BY NextJInv
<1>3. QED
  BY <1>1, <1>2, Invariance, PTL DEF Spec

-----------------------------------------------------------------------------

\* The drives of D and those of one arc more.
Longer(D) ==
  D \cup {<<d[2], d[1][2] + weight[d[2]]>> : d \in {e \in D \X Arc : Follows(e[1][1], e[2])}}

\* The drives of the reference, by the number of arcs after the first one.
LEMMA DrivesUnfold ==
  ASSUME TypeOK
  PROVE  \E f : LET n == Cardinality(Arc) IN
           /\ n \in Nat
           /\ f \in [0 .. n -> SUBSET (Arc \X Nat)]
           /\ f[0] = {<<a, 0>> : a \in OutArcs(s)}
           /\ \A k \in 1 .. n : f[k] = Longer(f[k - 1])
           /\ FreeStart = f[n]
<1> DEFINE n == Cardinality(Arc)
           V == SUBSET (Arc \X Nat)
           fee == [a \in Arc |-> 0]
           first == {<<a, fee[a]>> : a \in OutArcs(s)}
           Unfolds(f) == f = [k \in 0 .. n |-> IF k = 0 THEN first ELSE Longer(f[k - 1])]
           drive == CHOOSE f : Unfolds(f)
<1>1. n \in Nat
  BY GraphAssumption, FS_CardinalityType
<1>2. first \in V /\ first = {<<a, 0>> : a \in OutArcs(s)}
  BY DEF OutArcs
<1>3. ASSUME NEW D \in V PROVE Longer(D) \in V
  <2>1. ASSUME NEW d \in D \X Arc PROVE <<d[2], d[1][2] + weight[d[2]]>> \in Arc \X Nat
    BY DEF TypeOK
  <2>2. QED
    BY <2>1 DEF Longer
<1>4. FreeStart = drive[n]
  BY DEF FreeStart, Drives, Longer
<1>5. \E f : Unfolds(f)
  <2> DEFINE step == [p \in V \X (1 .. n) |-> Longer(p[1])]
  <2>1. Steps(step, V, n)
    BY <1>3 DEF Steps
  <2> HIDE DEF n, V, first
  <2>2. PICK f : Iterates(f, first, step, V, n)
    <3> HIDE DEF step
    <3>1. QED
      BY <1>1, <1>2, <2>1, Iteration
  <2>3. \A k \in 1 .. n : f[k] = Longer(f[k - 1])
    <3> SUFFICES ASSUME NEW k \in 1 .. n PROVE f[k] = Longer(f[k - 1])
      OBVIOUS
    <3>1. <<f[k - 1], k>> \in V \X (1 .. n)
      BY <1>1, <2>2 DEF Iterates
    <3>2. QED
      BY <2>2, <3>1 DEF Iterates
  <2>4. f = [k \in 0 .. n |-> f[k]] /\ f[0] = first
    BY <2>2 DEF Iterates
  <2>5. \A k \in 0 .. n : k = 0 \/ k \in 1 .. n
    BY <1>1
  <2>6. \A k \in 0 .. n : f[k] = IF k = 0 THEN first ELSE Longer(f[k - 1])
    <3>1. f[0] = first /\ 0 \notin 1 .. n
      BY <2>4
    <3>2. QED
      BY <2>3, <2>5, <3>1, Zenon
  <2>7. Unfolds(f)
    BY <2>4, <2>6
  <2>8. QED
    BY <2>7
<1>6. Unfolds(drive)
  BY <1>5
<1> HIDE DEF drive
<1>7. \A k \in 0 .. n : drive[k] = IF k = 0 THEN first ELSE Longer(drive[k - 1])
  BY <1>6
<1>8. drive = [k \in 0 .. n |-> drive[k]]
  BY <1>6, <1>7
<1> HIDE DEF Unfolds, n, first
<1>9. \A k \in 0 .. n : drive[k] \in V
  <2> DEFINE T == {k \in 0 .. n : drive[k] \in V}
  <2>1. 0 \in T
    BY <1>1, <1>2, <1>7
  <2>2. ASSUME NEW k \in 0 .. n - 1, k \in T PROVE k + 1 \in T
    <3>1. k + 1 \in 0 .. n /\ k + 1 # 0 /\ (k + 1) - 1 = k
      BY <1>1
    <3>2. drive[k + 1] = Longer(drive[k])
      BY <1>7, <3>1
    <3>3. QED
      BY <1>3, <2>2, <3>1, <3>2
  <2> HIDE DEF T
  <2>3. \A k \in 0 .. n : k \in T
    BY <1>1, <2>1, <2>2, InductionUpTo
  <2>4. QED
    BY <2>3 DEF T
<1>10. drive \in [0 .. n -> V]
  BY <1>8, <1>9
<1>11. drive[0] = first /\ \A k \in 1 .. n : drive[k] = Longer(drive[k - 1])
  BY <1>1, <1>7
<1>12. QED
  BY <1>1, <1>2, <1>4, <1>10, <1>11 DEF n

\* A drive costs no less than the label of its last arc, or than an arc into the
\* target.
Bounded(d) ==
  \/ ~ Less(d[2], dist[d[1]])
  \/ \E e \in InArcs(t) : ~ Less(d[2], dist[e])

\* So it is of every drive that the reference enumerates, by induction over the
\* length of the drive.
LEMMA DrivesBounded ==
  ASSUME IInv, JInv, pc = "answered"
  PROVE  /\ FreeStart \in SUBSET (Arc \X Nat)
         /\ \A d \in FreeStart : Bounded(d)
<1>1. TypeOK
  BY DEF IInv
<1>2. PICK n, f : /\ n \in Nat
                  /\ f \in [0 .. n -> SUBSET (Arc \X Nat)]
                  /\ f[0] = {<<a, 0>> : a \in OutArcs(s)}
                  /\ \A k \in 1 .. n : f[k] = Longer(f[k - 1])
                  /\ FreeStart = f[n]
  BY <1>1, DrivesUnfold
<1> DEFINE T == {k \in 0 .. n : \A d \in f[k] : Bounded(d)}
<1>3. 0 \in T
  <2>1. ASSUME NEW d \in f[0] PROVE Bounded(d)
    <3>1. PICK a \in OutArcs(s) : d = <<a, 0>>
      BY <1>2
    <3>2. dist[a] = 0
      BY DEF JInv, FirstFree
    <3>3. QED
      BY <3>1, <3>2 DEF Bounded, Less, Infinity
  <2>2. QED
    BY <1>2, <2>1
<1>4. ASSUME NEW k \in 0 .. n - 1, k \in T PROVE k + 1 \in T
  <2>1. k + 1 \in 1 .. n /\ k \in 0 .. n /\ (k + 1) - 1 = k
    BY <1>2
  <2>2. f[k + 1] = Longer(f[k])
    <3>1. PICK j \in 1 .. n : j = k + 1
      BY <2>1
    <3>2. f[j] = Longer(f[j - 1]) /\ j - 1 = k
      BY <1>2, <2>1, <3>1
    <3>3. QED
      BY <3>1, <3>2
  <2>3. ASSUME NEW d \in f[k + 1], d \notin f[k] PROVE Bounded(d)
    <3>1. PICK p \in f[k] \X Arc :
            Follows(p[1][1], p[2]) /\ d = <<p[2], p[1][2] + weight[p[2]]>>
      BY <2>2, <2>3 DEF Longer
    <3>2. p[1] \in f[k] /\ p[2] \in Arc /\ f[k] \in SUBSET (Arc \X Nat)
      BY <1>2, <2>1
    <3>3. PICK b \in Arc, c \in Nat : p[1] = <<b, c>>
      BY <3>2
    <3>4. PICK a \in Arc : a = p[2]
      BY <3>2
    <3>5. Follows(b, a) /\ d = <<a, c + weight[a]>> /\ Bounded(<<b, c>>)
      BY <1>4, <3>1, <3>2, <3>3, <3>4
    <3>6. /\ dist[a] \in Distance /\ dist[b] \in Distance /\ weight[a] \in Nat
          /\ \A e \in InArcs(t) : dist[e] \in Distance
      BY <1>1 DEF TypeOK, InArcs
    <3>7. CASE \E e \in InArcs(t) : ~ Less(c, dist[e])
      <4>1. PICK e \in InArcs(t) : ~ Less(c, dist[e])
        BY <3>7
      <4>2. ~ Less(c + weight[a], dist[e])
        BY <3>6, <4>1 DEF Less, Distance, Infinity
      <4>3. QED
        BY <3>5, <4>2 DEF Bounded
    <3>8. CASE ~ Less(c, dist[b])
      <4>1. dist[b] # Infinity
        BY <3>8 DEF Less, Infinity
      <4>2. CASE color[b] = "black"
        <5>1. a \in OutArcs(Target[b]) /\ w_turn(b, a) = 0
          BY <3>5 DEF Follows, OutArcs
        <5>2. Candidate(b, a) = dist[b] + weight[a]
          BY <3>6, <4>1, <5>1 DEF Candidate, closed_plus, Distance, Infinity
        <5>3. ~ Less(dist[b] + weight[a], dist[a])
          BY <4>2, <5>1, <5>2 DEF IInv, NoShortcut
        <5>4. ~ Less(c + weight[a], dist[a])
          BY <3>6, <3>8, <4>1, <5>3 DEF Less, Distance, Infinity
        <5>5. QED
          BY <3>5, <5>4 DEF Bounded
      <4>3. CASE color[b] = "gray"
        <5>1. PICK e \in InArcs(t) : ~ Less(dist[b], dist[e])
          BY <4>3 DEF JInv, Settled
        <5>2. ~ Less(c + weight[a], dist[e])
          BY <3>6, <3>8, <4>1, <5>1 DEF Less, Distance, Infinity
        <5>3. QED
          BY <3>5, <5>2 DEF Bounded
      <4>4. color[b] # "white"
        BY <4>1 DEF IInv, WhiteUnlabelled
      <4>5. QED
        BY <1>1, <4>2, <4>3, <4>4 DEF TypeOK, Color
    <3>9. QED
      BY <3>5, <3>7, <3>8 DEF Bounded
  <2>4. QED
    BY <1>4, <2>1, <2>3
<1> HIDE DEF T
<1>5. \A k \in 0 .. n : k \in T
  BY <1>2, <1>3, <1>4, InductionUpTo
<1>6. n \in T
  BY <1>2, <1>5
<1>7. QED
  BY <1>2, <1>6 DEF T

\* No arc is twice on a route, so that it is no longer than the drives compared.
LEMMA RouteShort ==
  ASSUME IInv, JInv, path # <<>>
  PROVE  Len(path) \in 1 .. Cardinality(Arc)
<1>1. path \in Seq(Arc) /\ Len(path) \in Nat /\ Len(path) # 0
  BY DEF IInv, TypeOK
<1>2. ASSUME NEW i \in 1 .. Len(path), NEW j \in 1 .. Len(path), i < j, path[i] = path[j]
      PROVE  FALSE
  <2> DEFINE S == {path[k] : k \in i + 1 .. j}
  <2>1. S \in SUBSET Arc /\ S # {}
    BY <1>1, <1>2
  <2>2. PICK a \in S : pred[a] = a \/ pred[a] \notin S
    <3> HIDE DEF S
    <3>1. QED
      BY <2>1 DEF JInv, Acyclic
  <2>3. PICK k \in i + 1 .. j : a = path[k]
    OBVIOUS
  <2>4. k - 1 \in 1 .. Len(path) - 1 /\ (k - 1) + 1 = k
    BY <1>1
  <2>5. pred[a] = path[k - 1] /\ pred[a] # a
    BY <2>3, <2>4 DEF IInv, PathChain
  <2>6. path[k - 1] \in S
    <3>1. CASE k = i + 1
      <4>1. k - 1 = i /\ j \in i + 1 .. j
        BY <1>1, <1>2, <3>1
      <4>2. QED
        BY <1>2, <4>1
    <3>2. CASE k # i + 1
      BY <3>2
    <3>3. QED
      BY <3>1, <3>2
  <2>7. QED
    BY <2>2, <2>5, <2>6
<1> DEFINE onPath == [k \in 1 .. Len(path) |-> path[k]]
<1>3. onPath \in Injection(1 .. Len(path), Arc)
  BY <1>1, <1>2 DEF Injection, IsInjective
<1>4. Cardinality(1 .. Len(path)) = Len(path)
  BY <1>1, FS_Interval
<1>5. Cardinality(1 .. Len(path)) <= Cardinality(Arc) /\ Cardinality(Arc) \in Nat
  BY <1>3, GraphAssumption, FS_Injection, FS_CardinalityType
<1>6. QED
  BY <1>1, <1>4, <1>5

\* The route is one of the drives, at the cost of its last label.
LEMMA RouteDriven ==
  ASSUME IInv, JInv, pc = "answered", path # <<>>
  PROVE  <<path[Len(path)], dist[path[Len(path)]]>> \in FreeStart
<1>1. TypeOK /\ path \in Seq(Arc) /\ Len(path) \in Nat \ {0}
  BY DEF IInv, TypeOK
<1>2. PICK f : LET n == Cardinality(Arc) IN
                  /\ n \in Nat
                  /\ f \in [0 .. n -> SUBSET (Arc \X Nat)]
                  /\ f[0] = {<<a, 0>> : a \in OutArcs(s)}
                  /\ \A k \in 1 .. n : f[k] = Longer(f[k - 1])
                  /\ FreeStart = f[n]
  BY <1>1, DrivesUnfold
<1>3. PICK n : n = Cardinality(Arc)
  OBVIOUS
<1>4. /\ n \in Nat
      /\ f[0] = {<<a, 0>> : a \in OutArcs(s)}
      /\ \A k \in 1 .. n : f[k] = Longer(f[k - 1])
      /\ FreeStart = f[n]
  BY <1>2, <1>3
<1> DEFINE at(i) == <<path[i], dist[path[i]]>>
           T == {k \in 0 .. n : \A i \in 1 .. Len(path) : i <= k + 1 => at(i) \in f[k]}
<1>5. 0 \in T
  <2>1. path[1] \in Arc /\ pred[path[1]] = path[1] /\ dist[path[1]] # Infinity
    BY <1>1 DEF IInv, PathChain
  <2>2. dist[path[1]] = 0 /\ path[1] \in OutArcs(s)
    BY <2>1 DEF IInv, Rooted, JInv, FirstFree, OutArcs
  <2>3. at(1) \in f[0]
    BY <1>4, <2>2
  <2>4. \A i \in 1 .. Len(path) : i <= 0 + 1 => i = 1
    BY <1>1
  <2>5. QED
    BY <1>4, <2>3, <2>4
<1>6. ASSUME NEW k \in 0 .. n - 1, k \in T PROVE k + 1 \in T
  <2>1. k + 1 \in 1 .. n /\ (k + 1) - 1 = k
    BY <1>4
  <2>2. f[k + 1] = Longer(f[k])
    <3>1. PICK j \in 1 .. n : j = k + 1
      BY <2>1
    <3>2. f[j] = Longer(f[j - 1]) /\ j - 1 = k
      BY <1>4, <2>1, <3>1
    <3>3. QED
      BY <3>1, <3>2
  <2>3. ASSUME NEW i \in 1 .. Len(path), i <= (k + 1) + 1 PROVE at(i) \in f[k + 1]
    <3>1. CASE i <= k + 1
      BY <1>6, <2>2, <3>1 DEF Longer
    <3>2. CASE i = k + 2
      <4>1. PICK j \in 1 .. Len(path) - 1 : j = k + 1 /\ j + 1 = i
        BY <1>1, <3>2
      <4>2. at(j) \in f[k]
        BY <1>1, <1>6, <4>1
      <4>3. path[j] \in Arc /\ path[i] \in Arc
        BY <1>1, <4>1
      <4>4. pred[path[i]] = path[j] /\ pred[path[i]] # path[i]
        BY <4>1 DEF IInv, PathChain
      <4>5. Follows(path[j], path[i]) /\ dist[path[i]] = dist[path[j]] + weight[path[i]]
        BY <4>3, <4>4 DEF IInv, PredecessorTree
      <4>6. <<at(j), path[i]>> \in {e \in f[k] \X Arc : Follows(e[1][1], e[2])}
        BY <4>2, <4>3, <4>5
      <4>7. at(i) = <<path[i], at(j)[2] + weight[path[i]]>>
        BY <4>5
      <4>8. QED
        BY <2>2, <4>6, <4>7 DEF Longer
    <3>3. QED
      BY <1>1, <2>3, <3>1, <3>2
  <2>4. QED
    BY <2>1, <2>3
<1> HIDE DEF T
<1>7. \A k \in 0 .. n : k \in T
  BY <1>4, <1>5, <1>6, InductionUpTo
<1>8. n \in T /\ Len(path) \in 1 .. n
  BY <1>3, <1>4, <1>7, RouteShort
<1>9. QED
  BY <1>4, <1>8 DEF T

\* The cost of the route is its last label.
LEMMA RouteCost ==
  ASSUME IInv, JInv, pc = "answered", path # <<>>
  PROVE  CostAfterFirst(path) = dist[path[Len(path)]]
<1> DEFINE m == Len(path)
           Unfolds(f) == f = [i \in 1 .. m |-> IF i = 1 THEN 0 ELSE f[i - 1] + weight[path[i]]]
           cost == CHOOSE f : Unfolds(f)
           label == [i \in 1 .. m |-> dist[path[i]]]
<1>1. path \in Seq(Arc) /\ m \in Nat \ {0}
  BY DEF IInv, TypeOK
<1>2. CostAfterFirst(path) = cost[m]
  BY DEF CostAfterFirst
<1>3. dist[path[1]] = 0
  <2>1. path[1] \in Arc /\ pred[path[1]] = path[1] /\ dist[path[1]] # Infinity
    BY <1>1 DEF IInv, PathChain
  <2>2. QED
    BY <2>1 DEF JInv, FirstFree
<1>4. ASSUME NEW j \in 1 .. m - 1
      PROVE  dist[path[j + 1]] = dist[path[j]] + weight[path[j + 1]]
  <2>1. path[j + 1] \in Arc
    BY <1>1
  <2>2. pred[path[j + 1]] = path[j] /\ pred[path[j + 1]] # path[j + 1]
    BY DEF IInv, PathChain
  <2>3. QED
    BY <2>1, <2>2 DEF IInv, PredecessorTree
<1> HIDE DEF m
<1>5. ASSUME NEW i \in 1 .. m
      PROVE  label[i] = IF i = 1 THEN 0 ELSE label[i - 1] + weight[path[i]]
  <2>1. CASE i = 1
    BY <1>3, <2>1
  <2>2. CASE i # 1
    <3>1. PICK j \in 1 .. m - 1 : j = i - 1 /\ j + 1 = i
      BY <1>1, <2>2
    <3>2. label[j] = dist[path[j]] /\ label[i] = dist[path[i]]
      BY <1>1
    <3>3. dist[path[i]] = dist[path[j]] + weight[path[i]]
      BY <1>4, <3>1
    <3>4. QED
      BY <2>2, <3>1, <3>2, <3>3
  <2>3. QED
    BY <2>1, <2>2
<1>6. Unfolds(label)
  BY <1>5
<1>7. Unfolds(cost)
  BY <1>6
<1>8. \A i \in 1 .. m : cost[i] = IF i = 1 THEN 0 ELSE cost[i - 1] + weight[path[i]]
  <2> HIDE DEF cost
  <2>1. QED
    BY <1>7
<1> HIDE DEF Unfolds, cost, label
<1> DEFINE T == {k \in 0 .. m - 1 : cost[k + 1] = label[k + 1]}
<1>9. 0 \in T
  <2>1. 1 \in 1 .. m
    BY <1>1
  <2>2. cost[1] = label[1]
    BY <1>5, <1>8, <2>1
  <2>3. QED
    BY <1>1, <2>2
<1>10. ASSUME NEW k \in 0 .. m - 1 - 1, k \in T PROVE k + 1 \in T
  <2>1. PICK i \in 1 .. m : i = k + 2 /\ i # 1 /\ i - 1 = k + 1 /\ i = (k + 1) + 1
    BY <1>1
  <2>2. cost[i] = cost[i - 1] + weight[path[i]] /\ label[i] = label[i - 1] + weight[path[i]]
    BY <1>5, <1>8, <2>1, Zenon
  <2>3. cost[i - 1] = label[i - 1]
    BY <1>10, <2>1
  <2>4. k + 1 \in 0 .. m - 1
    BY <1>1
  <2>5. QED
    BY <2>1, <2>2, <2>3, <2>4
<1> HIDE DEF T
<1>11. m - 1 \in Nat /\ m - 1 \in 0 .. m - 1 /\ (m - 1) + 1 = m
  BY <1>1
<1>12. \A k \in 0 .. m - 1 : k \in T
  BY <1>9, <1>10, <1>11, InductionUpTo
<1>13. cost[m] = label[m]
  BY <1>11, <1>12 DEF T
<1>14. label[m] = dist[path[m]]
  BY <1>1 DEF label
<1>15. QED
  BY <1>2, <1>13, <1>14 DEF m

\* The least of a set of distances is what is in it and no more than any other.
LEMMA LeastOf ==
  ASSUME NEW D \in SUBSET Distance, NEW m \in D, \A e \in D : ~ Less(e, m)
  PROVE  Least(D) = m
<1>1. \A d \in D : (\A e \in D : ~ Less(e, d)) => d = m
  BY DEF Less, Distance, Infinity
<1>2. QED
  BY <1>1 DEF Least

\* Unless an arc joins the source to the target, get_result finds a route whenever
\* a legal drive leads to the target, and none is shorter beyond its first arc,
\* although the search stops at the first arc into the target it settles and
\* get_result looks at labels that are not settled yet.
THEOREM ShortestAnswers == Spec => []AnswerShortest
<1>1. IInv /\ JInv => AnswerShortest
  <2> DEFINE D == {d[2] : d \in {e \in FreeStart : e[1] \in InArcs(t)}} \cup {Infinity}
  <2> SUFFICES ASSUME IInv, JInv, pc = "answered", ~ Adjacent
               PROVE  IF path = <<>> THEN Least(D) = Infinity ELSE CostAfterFirst(path) = Least(D)
    BY DEF AnswerShortest, LeastCost
  <2>1. /\ FreeStart \in SUBSET (Arc \X Nat)
        /\ \A d \in FreeStart : Bounded(d)
    BY DrivesBounded
  <2>2. D \in SUBSET Distance
    BY <2>1 DEF Distance
  <2>3. \A a \in InArcs(t) : a \in Arc /\ dist[a] \in Distance
    BY DEF InArcs, IInv, TypeOK
  <2>4. \A a \in InArcs(t) : dist[a] # Infinity => a \in LastArcs
    BY DEF InArcs, OutArcs, LastArcs, Adjacent, IInv, Rooted
  <2>5. ASSUME NEW c \in D, c # Infinity
        PROVE  \E a \in LastArcs : ~ Less(c, dist[a])
    <3>1. PICK d \in FreeStart : d[1] \in InArcs(t) /\ d[2] = c
      BY <2>5
    <3>2. PICK a \in InArcs(t) : ~ Less(c, dist[a])
      BY <2>1, <3>1 DEF Bounded
    <3>3. dist[a] # Infinity
      BY <2>5, <3>2 DEF Less
    <3>4. QED
      BY <2>4, <3>2, <3>3
  <2>6. Infinity \in D
    OBVIOUS
  <2>7. CASE path = <<>>
    <3>1. LastArcs = {}
      BY <2>7 DEF JInv, NearestLast
    <3>2. D = {Infinity}
      BY <2>5, <2>6, <3>1
    <3>3. ~ Less(Infinity, Infinity)
      BY DEF Less
    <3> HIDE DEF D
    <3>4. Least(D) = Infinity
      BY <2>2, <2>6, <3>2, <3>3, LeastOf
    <3>5. QED
      BY <2>7, <3>4
  <2>8. CASE path # <<>>
    <3>1. PICK a : a = path[Len(path)]
      OBVIOUS
    <3>2. a \in LastArcs /\ \A b \in LastArcs : ~ Less(dist[b], dist[a])
      BY <2>8, <3>1 DEF JInv, NearestLast
    <3>3. a \in InArcs(t)
      BY <3>2 DEF LastArcs
    <3>4. <<a, dist[a]>> \in FreeStart /\ CostAfterFirst(path) = dist[a]
      BY <2>8, <3>1, RouteDriven, RouteCost
    <3>5. dist[a] \in D
      BY <3>3, <3>4
    <3>6. ASSUME NEW c \in D PROVE ~ Less(c, dist[a])
      <4>1. CASE c = Infinity
        BY <4>1 DEF Less
      <4>2. CASE c # Infinity
        <5>1. PICK b \in LastArcs : ~ Less(c, dist[b])
          BY <2>5, <4>2
        <5>2. dist[a] \in Distance /\ dist[b] \in Distance /\ c \in Distance
          BY <2>2, <2>3, <3>3, <5>1 DEF LastArcs
        <5>3. QED
          BY <3>2, <5>1, <5>2, NotLessTransitive
      <4>3. QED
        BY <4>1, <4>2
    <3> HIDE DEF D
    <3>7. Least(D) = dist[a]
      BY <2>2, <3>5, <3>6, LeastOf
    <3>8. QED
      BY <2>8, <3>4, <3>7
  <2>9. QED
    BY <2>7, <2>8
<1>2. QED
  BY <1>1, Answering, PTL

=============================================================================
