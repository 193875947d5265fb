------------------------- MODULE RoadNetworkProofs -------------------------
(***************************************************************************)
(* What graph_builder makes of a database, for every database: the arcs    *)
(* are numbered densely, they are the streets, and the turn tables forbid  *)
(* U-turns and what the restrictions forbid.                               *)
(*                                                                         *)
(* Then what construct_model makes of an extract, for every extract: the   *)
(* file is read into the tables, the rows of the queries are retrieved     *)
(* element by element, and the graph built of them is the road network     *)
(* that the extract says.                                                  *)
(***************************************************************************)
EXTENDS RoadNetwork, NaturalLemmas, FiniteSetTheorems, SequenceTheorems

\* The properties of an arc.
Properties == [edge_index : Nat, way : Nat, entry_point : Nat, exit_point : Nat]

\* The arcs of the compact graph G have the numbers below edge_index, each its
\* own; those of the others are not numbered.
Indexed(G) ==
  IF model = Compact
  THEN /\ G.edge_index = Cardinality(DOMAIN G.arcs)
       /\ DOMAIN G.edgmap = 0 .. G.edge_index - 1
       /\ \A i \in DOMAIN G.edgmap : G.edgmap[i] \in DOMAIN G.arcs
       /\ \A a \in DOMAIN G.arcs : /\ G.arcs[a].edge_index \in DOMAIN G.edgmap
                                   /\ G.edgmap[G.arcs[a].edge_index] = a
  ELSE DOMAIN G.edgmap = {}

IsGraph(G) ==
  /\ IsFiniteSet(DOMAIN G.arcs)
  /\ DOMAIN G.arcs \subseteq Vertices \X Vertices
  /\ \A a \in DOMAIN G.arcs : G.arcs[a] \in Properties
  /\ G.edge_index \in Nat
  /\ Indexed(G)

\* What add_edge and the assignments after it do to a graph.
Extends(H, G, u, v, way) ==
  /\ DOMAIN H.arcs = DOMAIN G.arcs \cup {<<u, v>>}
  /\ \A a \in DOMAIN G.arcs : H.arcs[a] = G.arcs[a]
  /\ <<u, v>> \notin DOMAIN G.arcs => H.arcs[<<u, v>>].way = way

\* An arc that is there already is left alone; a new one gets the next number.
LEMMA ArcAdded ==
  ASSUME NEW G, IsGraph(G), NEW u \in Vertices, NEW v \in Vertices, NEW way \in Nat
  PROVE  /\ IsGraph(AddArc(G, u, v, way))
         /\ Extends(AddArc(G, u, v, way), G, u, v, way)
<1> DEFINE H == AddArc(G, u, v, way)
           a == <<u, v>>
           new == [edge_index |-> G.edge_index, way |-> way, entry_point |-> 0, exit_point |-> 0]
<1>1. CASE a \in DOMAIN G.arcs
  <2>1. H = G /\ DOMAIN G.arcs = DOMAIN G.arcs \cup {a}
    BY <1>1 DEF AddArc
  <2>2. QED
    BY <1>1, <2>1 DEF Extends
<1>2. CASE a \notin DOMAIN G.arcs
  <2>1. /\ H.arcs = [b \in DOMAIN G.arcs \cup {a} |-> IF b = a THEN new ELSE G.arcs[b]]
        /\ H.edgmap = IF model # Compact THEN G.edgmap ELSE
                        [i \in DOMAIN G.edgmap \cup {G.edge_index} |->
                           IF i = G.edge_index THEN a ELSE G.edgmap[i]]
        /\ H.edge_index = IF model # Compact THEN G.edge_index ELSE G.edge_index + 1
    BY <1>2 DEF AddArc
  <2> HIDE DEF H
  <2>2. /\ DOMAIN H.arcs = DOMAIN G.arcs \cup {a}
        /\ \A b \in DOMAIN G.arcs : H.arcs[b] = G.arcs[b]
        /\ H.arcs[a] = new
    BY <1>2, <2>1
  <2>3. /\ IsFiniteSet(DOMAIN H.arcs)
        /\ Cardinality(DOMAIN H.arcs) = Cardinality(DOMAIN G.arcs) + 1
    <3>1. IsFiniteSet(DOMAIN G.arcs)
      BY DEF IsGraph
    <3>2. /\ IsFiniteSet(DOMAIN G.arcs \cup {a})
          /\ a \notin DOMAIN G.arcs =>
               Cardinality(DOMAIN G.arcs \cup {a}) = Cardinality(DOMAIN G.arcs) + 1
      BY <3>1, FS_AddElement
    <3>3. QED
      BY <1>2, <2>2, <3>2, Zenon
  <2>4. new \in Properties /\ a \in Vertices \X Vertices
    BY DEF Properties, IsGraph
  <2>5. Indexed(H)
    <3>1. CASE model = Compact
      <4>1. DOMAIN H.edgmap = 0 .. H.edge_index - 1
        BY <2>1, <3>1 DEF IsGraph, Indexed
      <4>2. ASSUME NEW i \in DOMAIN H.edgmap PROVE H.edgmap[i] \in DOMAIN H.arcs
        BY <2>1, <2>2, <3>1 DEF IsGraph, Indexed
      <4>3. ASSUME NEW b \in DOMAIN H.arcs
            PROVE  H.arcs[b].edge_index \in DOMAIN H.edgmap /\ H.edgmap[H.arcs[b].edge_index] = b
        <5>1. CASE b = a
          BY <2>1, <2>2, <3>1, <5>1
        <5>2. CASE b \in DOMAIN G.arcs
          <6>1. G.arcs[b].edge_index \in 0 .. G.edge_index - 1
            BY <3>1, <5>2 DEF IsGraph, Indexed
          <6>2. G.arcs[b].edge_index # G.edge_index
            BY <6>1 DEF IsGraph
          <6>3. /\ G.arcs[b].edge_index \in DOMAIN G.edgmap
                /\ G.edgmap[G.arcs[b].edge_index] = b
            BY <3>1, <5>2 DEF IsGraph, Indexed
          <6>4. H.arcs[b].edge_index = G.arcs[b].edge_index
            BY <2>2, <5>2
          <6>5. /\ G.arcs[b].edge_index \in DOMAIN H.edgmap
                /\ H.edgmap[G.arcs[b].edge_index] = b
            BY <2>1, <3>1, <6>2, <6>3
          <6>6. QED
            BY <6>4, <6>5
        <5>3. QED
          BY <2>2, <5>1, <5>2
      <4>4. H.edge_index = Cardinality(DOMAIN H.arcs)
        BY <2>1, <2>3, <3>1 DEF IsGraph, Indexed
      <4>5. QED
        BY <3>1, <4>1, <4>2, <4>3, <4>4 DEF Indexed
    <3>2. CASE model # Compact
      BY <2>1, <3>2 DEF IsGraph, Indexed
    <3>3. QED
      BY <3>1, <3>2
  <2>6. H.edge_index \in Nat
    BY <2>1 DEF IsGraph
  <2>7. IsGraph(H)
    BY <2>2, <2>3, <2>4, <2>5, <2>6 DEF IsGraph
  <2>8. Extends(H, G, u, v, way)
    BY <2>2 DEF Extends
  <2>9. QED
    BY <2>7, <2>8 DEF H
<1>3. QED
  BY <1>1, <1>2

-----------------------------------------------------------------------------

\* Appending keeps the entries of both sequences.
LEMMA RangeOfConcat ==
  ASSUME NEW S, NEW s \in Seq(S), NEW t \in Seq(S)
  PROVE  s \o t \in Seq(S) /\ Range(s \o t) = Range(s) \cup Range(t)
<1>1. s \o t \in Seq(S) /\ Len(s \o t) = Len(s) + Len(t)
  OBVIOUS
<1>2. \A i \in 1 .. Len(s) + Len(t) :
        (s \o t)[i] = IF i <= Len(s) THEN s[i] ELSE t[i - Len(s)]
  OBVIOUS
<1> DEFINE c == s \o t
<1>3. DOMAIN c = 1 .. Len(s) + Len(t) /\ DOMAIN s = 1 .. Len(s) /\ DOMAIN t = 1 .. Len(t)
  BY <1>1
<1>4. ASSUME NEW e \in Range(c) PROVE e \in Range(s) \cup Range(t)
  <2>1. PICK i \in 1 .. Len(s) + Len(t) : c[i] = e
    BY <1>3, <1>4 DEF Range
  <2>2. CASE i <= Len(s)
    BY <1>2, <1>3, <2>1, <2>2 DEF Range
  <2>3. CASE i > Len(s)
    <3>1. i - Len(s) \in 1 .. Len(t) /\ c[i] = t[i - Len(s)]
      BY <1>2, <2>1, <2>3
    <3>2. QED
      BY <1>3, <2>1, <3>1 DEF Range
  <2>4. QED
    BY <2>2, <2>3
<1>5. ASSUME NEW e \in Range(s) PROVE e \in Range(c)
  <2>1. PICK i \in 1 .. Len(s) : s[i] = e
    BY <1>3, <1>5 DEF Range
  <2>2. i \in 1 .. Len(s) + Len(t) /\ c[i] = e
    BY <1>2, <2>1
  <2>3. QED
    BY <1>3, <2>2 DEF Range
<1>6. ASSUME NEW e \in Range(t) PROVE e \in Range(c)
  <2>1. PICK i \in 1 .. Len(t) : t[i] = e
    BY <1>3, <1>6 DEF Range
  <2>2. i + Len(s) \in 1 .. Len(s) + Len(t) /\ c[i + Len(s)] = t[i]
    BY <1>2, <2>1
  <2>3. QED
    BY <1>3, <2>1, <2>2 DEF Range
<1>7. QED
  BY <1>1, <1>4, <1>5, <1>6

\* The concatenation of sequences has the entries of all of them.
LEMMA Flattened ==
  ASSUME NEW S, NEW ss \in Seq(Seq(S))
  PROVE  /\ FlattenSeq(ss) \in Seq(S)
         /\ Range(FlattenSeq(ss)) = UNION {Range(ss[k]) : k \in 1 .. Len(ss)}
<1> DEFINE n == Len(ss)
           Unfolds(f) == f = [i \in 1 .. n |-> IF i = 1 THEN ss[i] ELSE f[i - 1] \o ss[i]]
<1>0. \A k \in 1 .. n : ss[k] \in Seq(S)
  OBVIOUS
<1>4. n \in Nat
  OBVIOUS
<1>1. CASE n = 0
  <2>1. FlattenSeq(ss) = <<>>
    BY <1>1 DEF FlattenSeq
  <2>2. QED
    BY <1>1, <2>1 DEF Range
<1>2. CASE n # 0
  <2> HIDE DEF n
  <2>1. \E f : Unfolds(f)
    <3> DEFINE step == [p \in Seq(S) \X (1 .. n) |-> p[1] \o ss[p[2]]]
    <3>1. Steps(step, Seq(S), n)
      BY <1>0, RangeOfConcat DEF Steps
    <3>2. PICK f : Iterates(f, <<>>, step, Seq(S), n)
      <4>1. <<>> \in Seq(S)
        OBVIOUS
      <4> HIDE DEF step
      <4>2. QED
        BY <1>4, <3>1, <4>1, Iteration
    <3>3. ASSUME NEW k \in 1 .. n PROVE f[k - 1] \in Seq(S) /\ f[k] = f[k - 1] \o ss[k]
      <4>1. <<f[k - 1], k>> \in Seq(S) \X (1 .. n)
        BY <1>4, <3>2 DEF Iterates
      <4>2. QED
        BY <3>2, <4>1 DEF Iterates
    <3>4. f[0] = <<>>
      BY <3>2 DEF Iterates
    <3> DEFINE g == [i \in 1 .. n |-> f[i]]
    <3>5. ASSUME NEW i \in 1 .. n
          PROVE  f[i] = IF i = 1 THEN ss[i] ELSE g[i - 1] \o ss[i]
      <4>1. CASE i = 1
        <5>1. ss[1] \in Seq(S) /\ <<>> \o ss[1] = ss[1]
          BY <1>0, <4>1
        <5>2. f[1] = f[0] \o ss[1]
          <6>1. f[1] = f[1 - 1] \o ss[1]
            BY <3>3, <4>1
          <6>2. QED
            BY <6>1
        <5>3. QED
          BY <3>4, <4>1, <5>1, <5>2
      <4>2. CASE i # 1
        <5>1. i - 1 \in 1 .. n
          BY <1>4, <4>2
        <5>2. g[i - 1] = f[i - 1]
          BY <5>1
        <5>3. QED
          BY <3>3, <4>2, <5>2
      <4>3. QED
        BY <4>1, <4>2
    <3>6. Unfolds(g)
      BY <3>5
    <3>7. QED
      BY <3>6
  <2> DEFINE flatten == CHOOSE f : Unfolds(f)
  <2>2. Unfolds(flatten)
    BY <2>1
  <2>3. FlattenSeq(ss) = flatten[n]
    BY <1>2 DEF FlattenSeq, n
  <2> HIDE DEF flatten
  <2>4. \A i \in 1 .. n : flatten[i] = IF i = 1 THEN ss[i] ELSE flatten[i - 1] \o ss[i]
    BY <2>2
  <2> HIDE DEF Unfolds
  <2> DEFINE Upto(k) == UNION {Range(ss[j]) : j \in 1 .. k}
             T == {k \in 0 .. n - 1 :
                     flatten[k + 1] \in Seq(S) /\ Range(flatten[k + 1]) = Upto(k + 1)}
  <2>5. 0 \in T
    <3>1. 1 \in 1 .. n /\ 0 \in 0 .. n - 1
      BY <1>2, <1>4
    <3>2. flatten[1] = ss[1] /\ ss[1] \in Seq(S)
      BY <1>0, <2>4, <3>1
    <3>3. 1 .. 1 = {1}
      OBVIOUS
    <3>4. Upto(1) = Range(ss[1])
      BY <3>3
    <3>5. QED
      BY <3>1, <3>2, <3>4
  <2>6. ASSUME NEW k \in 0 .. n - 1 - 1, k \in T PROVE k + 1 \in T
    <3>1. k + 2 \in 1 .. n /\ k + 1 \in 0 .. n - 1 /\ k + 2 # 1 /\ k + 2 - 1 = k + 1
          /\ k + 1 + 1 = k + 2
      BY <1>4
    <3>2. flatten[k + 2] = flatten[k + 1] \o ss[k + 2] /\ ss[k + 2] \in Seq(S)
      <4>1. ss[k + 2] \in Seq(S)
        BY <1>0, <3>1
      <4>2. PICK j \in 1 .. n : j = k + 2
        BY <3>1
      <4>3. j # 1 /\ j - 1 = k + 1
        BY <3>1, <4>2
      <4>4. flatten[j] = flatten[j - 1] \o ss[j]
        BY <2>4, <4>3, Zenon
      <4>5. QED
        BY <4>1, <4>2, <4>3, <4>4, Zenon
    <3>3. flatten[k + 1] \in Seq(S) /\ Range(flatten[k + 1]) = Upto(k + 1)
      BY <2>6
    <3>4. /\ flatten[k + 2] \in Seq(S)
          /\ Range(flatten[k + 2]) = Upto(k + 1) \cup Range(ss[k + 2])
      <4>1. PICK f \in Seq(S) : f = flatten[k + 1]
        BY <3>3
      <4>2. PICK g \in Seq(S) : g = ss[k + 2]
        BY <3>2
      <4>3. f \o g \in Seq(S) /\ Range(f \o g) = Range(f) \cup Range(g)
        BY RangeOfConcat
      <4>4. QED
        BY <3>2, <3>3, <4>1, <4>2, <4>3, Zenon
    <3>5. 1 .. k + 2 = (1 .. k + 1) \cup {k + 2}
      BY <1>4
    <3>6. Upto(k + 2) = Upto(k + 1) \cup Range(ss[k + 2])
      BY <3>5
    <3>7. QED
      BY <3>1, <3>4, <3>6
  <2>7. n - 1 \in T
    <3>1. n - 1 \in Nat /\ n - 1 \in 0 .. n - 1
      BY <1>2, <1>4
    <3> HIDE DEF T
    <3>2. \A k \in 0 .. n - 1 : k \in T
      BY <2>5, <2>6, <3>1, InductionUpTo
    <3>3. QED
      BY <3>1, <3>2
  <2>8. QED
    BY <1>4, <2>3, <2>7 DEF n
<1>3. QED
  BY <1>1, <1>2

\* The entries of a sequence.
LEMMA SequenceOf ==
  ASSUME NEW T, NEW s \in Seq(T)
  PROVE  /\ Len(s) \in Nat /\ DOMAIN s = 1 .. Len(s)
         /\ \A i \in 1 .. Len(s) : s[i] \in T
OBVIOUS

\* The first element, and the others one place further up.
LEMMA HeadAndTail ==
  ASSUME NEW T, NEW s \in Seq(T), s # <<>>
  PROVE  /\ Len(s) \in Nat \ {0}
         /\ Head(s) = s[1] /\ Head(s) \in T
         /\ Tail(s) \in Seq(T) /\ Len(Tail(s)) = Len(s) - 1
         /\ \A k \in 1 .. Len(s) - 1 : Tail(s)[k] = s[k + 1]
<1>1. Len(s) \in Nat \ {0}
  OBVIOUS
<1>2. Head(s) = s[1] /\ Head(s) \in T
  BY <1>1
<1>3. Tail(s) \in Seq(T) /\ Len(Tail(s)) = Len(s) - 1
  BY <1>1
<1>4. \A k \in 1 .. Len(s) - 1 : Tail(s)[k] = s[k + 1]
  BY <1>1
<1>5. QED
  BY <1>1, <1>2, <1>3, <1>4

\* What create_network_segments makes of the ways.
Section(ways, w, i) ==
  [sid |-> ways[w].refs[i], tid |-> ways[w].refs[i + 1], way |-> w]

IsSection(ways, e) ==
  \E w \in DOMAIN ways : \E i \in 1 .. Len(ways[w].refs) - 1 : e = Section(ways, w, i)

\* The rows of sections are the pairs of neighbours in the ways, and all of them.
LEMMA SectionsFound ==
  ASSUME NEW d, IsDatabase(d)
  PROVE  LET all == SectionsOf(d.ways) IN
         /\ all \in Seq([sid : Id, tid : Id, way : Nat])
         /\ \A e : e \in Range(all) <=> IsSection(d.ways, e)
<1> DEFINE ways == d.ways
           S == [sid : Id, tid : Id, way : Nat]
           line(w) == [i \in 1 .. Len(ways[w].refs) - 1 |->
                         [sid |-> ways[w].refs[i], tid |-> ways[w].refs[i + 1], way |-> w]]
           lines == [w \in DOMAIN ways |-> line(w)]
<1>0. ways \in Seq([refs : Seq(Id), tags : SUBSET Tag])
  BY DEF IsDatabase, Database
<1>1. /\ DOMAIN ways = 1 .. Len(ways) /\ Len(ways) \in Nat
      /\ \A w \in DOMAIN ways : ways[w].refs \in Seq(Id)
  <2> HIDE DEF ways
  <2>1. /\ Len(ways) \in Nat /\ DOMAIN ways = 1 .. Len(ways)
        /\ \A w \in 1 .. Len(ways) : ways[w] \in [refs : Seq(Id), tags : SUBSET Tag]
    BY <1>0, SequenceOf
  <2>2. QED
    BY <2>1
<1>2. ASSUME NEW w \in DOMAIN ways
      PROVE  line(w) \in Seq(S) /\ DOMAIN line(w) = 1 .. Len(ways[w].refs) - 1
  <2>1. ways[w].refs \in Seq(Id) /\ w \in Nat
    BY <1>1
  <2>2. \A i \in 1 .. Len(ways[w].refs) - 1 :
          /\ ways[w].refs[i] \in Id /\ ways[w].refs[i + 1] \in Id
    BY <2>1
  <2>3. CASE Len(ways[w].refs) = 0
    BY <2>1, <2>3
  <2>4. CASE Len(ways[w].refs) # 0
    <3>1. Len(ways[w].refs) - 1 \in Nat
      BY <2>1, <2>4
    <3>2. QED
      BY <2>1, <2>2, <3>1
  <2>5. QED
    BY <2>3, <2>4
<1>3. lines \in Seq(Seq(S)) /\ Len(lines) = Len(ways)
  BY <1>1, <1>2
<1>4. SectionsOf(ways) = FlattenSeq(lines)
  BY DEF SectionsOf
<1>5. /\ SectionsOf(ways) \in Seq(S)
      /\ Range(SectionsOf(ways)) = UNION {Range(lines[k]) : k \in 1 .. Len(lines)}
  <2> HIDE DEF lines, S
  <2>1. QED
    BY <1>3, <1>4, Flattened
<1>6. ASSUME NEW e PROVE e \in Range(SectionsOf(ways)) <=> IsSection(d.ways, e)
  <2>1. e \in Range(SectionsOf(ways)) <=> \E w \in DOMAIN ways : e \in Range(lines[w])
    BY <1>1, <1>3, <1>5
  <2>2. ASSUME NEW w \in DOMAIN ways
        PROVE  e \in Range(lines[w]) <=>
                 \E i \in 1 .. Len(ways[w].refs) - 1 : e = Section(ways, w, i)
    BY <1>2 DEF Range, Section
  <2>3. QED
    BY <2>1, <2>2 DEF IsSection
<1>7. QED
  BY <1>5, <1>6

-----------------------------------------------------------------------------
(* The invariant.                                                          *)

\* The vertices are the nodes added so far, in order.
Numbered ==
  /\ ids \in Seq(Id) /\ nodes \in Seq(Id)
  /\ Len(ids) + Len(nodes) = Len(database.nodes)
  /\ \A i \in 1 .. Len(ids) : ids[i] = database.nodes[i]
  /\ \A i \in 1 .. Len(nodes) : nodes[i] = database.nodes[Len(ids) + i]

\* _vtxmap finds them again; what else it knows it takes for vertex 0.
Mapped ==
  /\ vtxmap \in [DOMAIN vtxmap -> Vertices]
  /\ \A v \in Vertices : ids[v + 1] \in DOMAIN vtxmap /\ vtxmap[ids[v + 1]] = v
  /\ \A x \in DOMAIN vtxmap :
       \/ \E v \in Vertices : x = ids[v + 1]
       \/ /\ nodes = <<>> /\ vtxmap[x] = 0
          /\ \E w \in DOMAIN database.ways : x \in Range(database.ways[w].refs)

Known(e) == e.sid \in DOMAIN vtxmap /\ e.tid \in DOMAIN vtxmap

\* A section passed has its arcs.
Drawn(e) ==
  LET tags == database.ways[e.way].tags IN
  /\ Known(e)
  /\ Forward(tags) => <<vtxmap[e.sid], vtxmap[e.tid]>> \in DOMAIN arcs
  /\ Backward(tags) => <<vtxmap[e.tid], vtxmap[e.sid]>> \in DOMAIN arcs

\* An arc comes from a section.
ComesFrom(a, e) ==
  LET tags == database.ways[e.way].tags IN
  /\ Known(e)
  /\ \/ Forward(tags) /\ a = <<vtxmap[e.sid], vtxmap[e.tid]>>
     \/ Backward(tags) /\ a = <<vtxmap[e.tid], vtxmap[e.sid]>>

Queued ==
  /\ sections \in Seq([sid : Id, tid : Id, way : Nat])
  /\ \A k \in 1 .. Len(sections) : IsSection(database.ways, sections[k])
  /\ nodes # <<>> => sections = SectionsOf(database.ways)

AllDrawn ==
  nodes = <<>> =>
    \A w \in DOMAIN database.ways : \A i \in 1 .. Len(database.ways[w].refs) - 1 :
      Section(database.ways, w, i) \in Range(sections) \/ Drawn(Section(database.ways, w, i))

NothingElse ==
  \A a \in DOMAIN arcs :
    LET w == arcs[a].way IN
    /\ w \in DOMAIN database.ways
    /\ \E i \in 1 .. Len(database.ways[w].refs) - 1 : ComesFrom(a, Section(database.ways, w, i))

\* The tables are made when there are no more sections to add.
Tables ==
  /\ DOMAIN turn_table = Vertices
  /\ untabled \subseteq Vertices
  /\ nodes # <<>> \/ sections # <<>> =>
       /\ \A v \in Vertices : turn_table[v] = NoTable
       /\ model = Compact => untabled = Vertices
  /\ \A v \in Vertices : turn_table[v] = NoTable \/ IsTable(turn_table[v], v)

\* The restrictions are taken in order, after the last table is made.
Passed == Len(database.restrictions) - Len(restrictions)

Waiting ==
  model = Compact =>
    /\ restrictions \in Seq([via : Id, only : BOOLEAN, from : SUBSET Seq(Id), to : SUBSET Seq(Id)])
    /\ Passed \in Nat
    /\ \A k \in 1 .. Len(restrictions) : restrictions[k] = database.restrictions[Passed + k]
    /\ nodes # <<>> \/ sections # <<>> \/ untabled # {} => Passed = 0

\* The arcs at a vertex that has a table have their places in it.
Indices ==
  model = Compact =>
    \A a \in DOMAIN arcs :
      /\ a[2] \notin untabled /\ OutArcs(a[2]) # {} =>
           arcs[a].entry_point = Place(a, InArcs(a[2]))
      /\ a[1] \notin untabled /\ InArcs(a[1]) # {} =>
           arcs[a].exit_point = Place(a, OutArcs(a[1]))

\* A restriction is about a turn from arc a to arc b at vertex v.
Applies(r, v, a, b) ==
  /\ r.via \in DOMAIN vtxmap /\ vtxmap[r.via] = v
  /\ is_restricted_maneuver(r, ids[a[1] + 1], ids[b[2] + 1])

Closes(v, a, b) ==
  UTurn(a, b) \/ \E k \in 1 .. Passed : Applies(database.restrictions[k], v, a, b)

TurnsMade ==
  model = Compact =>
    \A v \in Vertices \ untabled : \A a \in InArcs(v), b \in OutArcs(v) :
      /\ IsTable(turn_table[v], v)
      /\ turn_table[v][<<Place(a, InArcs(v)), Place(b, OutArcs(v))>>] = Infinity <=> Closes(v, a, b)

Idle == database = NoDatabase /\ nodes = <<>> /\ sections = <<>> /\ restrictions = <<>>

IInv ==
  /\ model \in Models
  /\ Idle \/ IsDatabase(database)
  /\ nodes # <<>> => DOMAIN arcs = {}
  /\ Numbered
  /\ Mapped
  /\ IsGraph(Graph)
  /\ Queued
  /\ AllDrawn
  /\ NothingElse
  /\ Tables
  /\ Waiting
  /\ Indices
  /\ TurnsMade

\* There are no rows before they are retrieved.
LEMMA NothingRetrieved ==
  ASSUME Idle, Numbered
  PROVE  ids = <<>> /\ Vertices = {} /\ ~ IsDatabase(database) /\ DOMAIN database.ways = {}
<1>1. database.nodes = <<>> /\ database.ways = <<>>
  BY DEF Idle, NoDatabase
<1>2. Len(ids) \in Nat /\ Len(ids) = 0
  BY <1>1 DEF Idle, Numbered
<1>3. QED
  BY <1>1, <1>2 DEF Numbered, Vertices, IsDatabase

\* Once the nodes are added there is a vertex 0.
LEMMA FirstVertex ==
  ASSUME IsDatabase(database), Numbered, nodes = <<>>
  PROVE  0 \in Vertices /\ Len(ids) = Len(database.nodes) /\ Len(ids) \in Nat
<1>1. database.nodes \in Seq(Id) /\ database.nodes # <<>>
  BY DEF IsDatabase, Database
<1>2. Len(database.nodes) \in Nat \ {0}
  BY <1>1
<1>3. QED
  BY <1>2 DEF Numbered, Vertices

\* Looking an id up in _vtxmap keeps what is there.
LEMMA Referenced ==
  ASSUME NEW map, map \in [DOMAIN map -> Vertices], NEW id, 0 \in Vertices
  PROVE  /\ Reference(map, id) \in [DOMAIN Reference(map, id) -> Vertices]
         /\ DOMAIN Reference(map, id) = DOMAIN map \cup {id}
         /\ \A x \in DOMAIN map : Reference(map, id)[x] = map[x]
         /\ id \notin DOMAIN map => Reference(map, id)[id] = 0
BY DEF Reference

\* Nothing is built yet.
LEMMA InitInv == Init => IInv
<1> SUFFICES ASSUME Init PROVE IInv
  OBVIOUS
<1>1. database.nodes = <<>> /\ database.ways = <<>> /\ Idle /\ model \in Models
  BY DEF Init, NoDatabase, Idle
<1>2. Vertices = {} /\ DOMAIN arcs = {} /\ DOMAIN edgmap = {} /\ DOMAIN vtxmap = {} /\ DOMAIN turn_table = {}
  BY DEF Init, Vertices, Empty
<1>3. Numbered
  BY <1>1 DEF Init, Numbered
<1>4. Mapped
  BY <1>2 DEF Init, Mapped, Empty
<1>5. IsGraph(Graph)
  BY <1>2, FS_EmptySet DEF Init, IsGraph, Indexed, Graph
<1>6. Queued /\ AllDrawn /\ NothingElse /\ Tables
  BY <1>1, <1>2 DEF Init, Queued, AllDrawn, NothingElse, Tables
<1>7. Waiting /\ Indices /\ TurnsMade
  BY <1>1, <1>2 DEF Init, Waiting, Passed, Indices, TurnsMade, NoDatabase
<1>8. QED
  BY <1>1, <1>2, <1>3, <1>4, <1>5, <1>6, <1>7 DEF IInv, Init

\* The rows handed to the builder are of the database given.
LEMMA RetrieveInv == ASSUME IInv, IsDatabase(database'), Retrieve(database') PROVE IInv'
<1>1. Idle
  BY DEF IInv, Retrieve, IsDatabase, NoDatabase
<1>2. ids = <<>> /\ Vertices = {} /\ DOMAIN database.ways = {}
  BY <1>1, NothingRetrieved DEF IInv
<1>3. /\ database'.nodes \in Seq(Id) /\ database'.nodes # <<>>
      /\ nodes' = database'.nodes /\ nodes' # <<>> /\ sections' = SectionsOf(database'.ways)
  BY DEF IsDatabase, Database, Retrieve
<1>4. UNCHANGED <<model, untabled, ids, vtxmap, arcs, edgmap, edge_index, turn_table>>
  BY DEF Retrieve
<1>5. Vertices' = Vertices /\ DOMAIN arcs = {}
  BY <1>2, <1>4 DEF Vertices, IInv, NothingElse
<1>6. Numbered'
  BY <1>2, <1>3, <1>4 DEF Numbered
<1>7. Mapped'
  <2>1. DOMAIN vtxmap = {}
    BY <1>2 DEF IInv, Mapped
  <2>2. QED
    BY <2>1, <1>2, <1>4, <1>5 DEF Mapped, IInv
<1>8. IsGraph(Graph)'
  BY <1>4, <1>5 DEF IInv, IsGraph, Indexed, Graph
<1>9. Queued'
  <2>1. /\ sections' \in Seq([sid : Id, tid : Id, way : Nat])
        /\ \A e : e \in Range(sections') => IsSection(database'.ways, e)
    BY <1>3, SectionsFound
  <2>2. \A k \in 1 .. Len(sections') : sections'[k] \in Range(sections')
    BY <2>1 DEF Range
  <2>3. QED
    BY <1>3, <2>1, <2>2 DEF Queued
<1>10. AllDrawn' /\ NothingElse'
  BY <1>3, <1>4, <1>5 DEF AllDrawn, NothingElse
<1>11. Tables'
  BY <1>2, <1>4, <1>5 DEF IInv, Tables
<1>12. Waiting'
  <2>1. /\ database'.restrictions \in
             Seq([via : Id, only : BOOLEAN, from : SUBSET Seq(Id), to : SUBSET Seq(Id)])
        /\ model' = Compact => restrictions' = database'.restrictions
    BY DEF IsDatabase, Database, Retrieve
  <2>2. Len(database'.restrictions) \in Nat
    BY <2>1
  <2>3. QED
    BY <2>1, <2>2 DEF Waiting, Passed
<1>13. Indices' /\ TurnsMade'
  BY <1>2, <1>4, <1>5 DEF Indices, TurnsMade
<1>14. QED
  BY <1>3, <1>4, <1>5, <1>6, <1>7, <1>8, <1>9, <1>10, <1>11, <1>12, <1>13 DEF IInv

\* A node that is added gets the next vertex.
LEMMA AddNodeInv == ASSUME IInv, AddNode PROVE IInv'
<1> DEFINE h == Head(nodes)
           n == Len(ids)
<1>1. IsDatabase(database) /\ nodes # <<>> /\ DOMAIN arcs = {}
  BY DEF IInv, AddNode, Idle
<1>2. /\ nodes' = Tail(nodes) /\ ids' = Append(ids, h)
      /\ vtxmap' = [x \in DOMAIN vtxmap \cup {h} |-> IF x = h THEN n ELSE vtxmap[x]]
      /\ untabled' = (IF model = Compact THEN 0 .. n ELSE {})
      /\ turn_table' = [v \in 0 .. n |-> NoTable]
      /\ UNCHANGED <<database, model, sections, restrictions, arcs, edgmap, edge_index, descending>>
  BY DEF AddNode
<1>3. /\ n \in Nat /\ Len(nodes) \in Nat \ {0} /\ h = nodes[1] /\ h \in Id
      /\ ids \in Seq(Id) /\ nodes \in Seq(Id)
  <2>1. ids \in Seq(Id) /\ nodes \in Seq(Id)
    BY DEF IInv, Numbered
  <2>2. QED
    BY <1>1, <2>1, HeadAndTail
<1>4. /\ ids' \in Seq(Id) /\ Len(ids') = n + 1 /\ ids'[n + 1] = h
      /\ \A i \in 1 .. n : ids'[i] = ids[i]
  BY <1>2, <1>3
<1>5. /\ nodes' \in Seq(Id) /\ Len(nodes') = Len(nodes) - 1
      /\ \A i \in 1 .. Len(nodes) - 1 : nodes'[i] = nodes[i + 1]
  BY <1>1, <1>2, <1>3, HeadAndTail
<1>6. n + 1 \in 1 .. Len(database.nodes) /\ h = database.nodes[n + 1]
  <2>1. /\ n + Len(nodes) = Len(database.nodes)
        /\ \A i \in 1 .. Len(nodes) : nodes[i] = database.nodes[n + i]
    BY DEF IInv, Numbered
  <2>2. 1 \in 1 .. Len(nodes) /\ n + 1 \in 1 .. n + Len(nodes)
    BY <1>3
  <2>3. nodes[1] = database.nodes[n + 1]
    BY <2>1, <2>2
  <2>4. QED
    BY <1>3, <2>1, <2>2, <2>3
<1>7. \A i \in 1 .. n : ids[i] # h
  <2>1. ASSUME NEW i \in 1 .. n PROVE ids[i] # h
    <3>1. ids[i] = database.nodes[i] /\ i \in 1 .. Len(database.nodes)
      BY <1>3, <1>6 DEF IInv, Numbered
    <3>2. database.nodes \in Seq(Id)
      BY <1>1 DEF IsDatabase, Database
    <3>3. i \in DOMAIN database.nodes /\ n + 1 \in DOMAIN database.nodes
      BY <1>6, <3>1, <3>2
    <3>4. i # n + 1
      BY <1>3
    <3>5. QED
      BY <1>1, <1>6, <3>1, <3>3, <3>4 DEF IsDatabase
  <2>2. QED
    BY <2>1
<1> HIDE DEF h, n
<1>8. Vertices = 0 .. n - 1 /\ Vertices' = 0 .. n
  BY <1>3, <1>4 DEF Vertices, n
<1>9. Numbered'
  <2>1. Len(ids') + Len(nodes') = Len(database.nodes)
    <3>1. n + Len(nodes) = Len(database.nodes)
      BY DEF IInv, Numbered, n
    <3>2. Len(ids') = n + 1 /\ Len(nodes') = Len(nodes) - 1 /\ n \in Nat /\ Len(nodes) \in Nat
      BY <1>3, <1>4, <1>5
    <3>3. QED
      BY <3>1, <3>2
  <2>2. ASSUME NEW i \in 1 .. Len(ids') PROVE ids'[i] = database.nodes[i]
    <3>1. CASE i = n + 1
      BY <1>4, <1>6, <3>1
    <3>2. CASE i # n + 1
      <4>1. i \in 1 .. n
        BY <1>3, <1>4, <3>2
      <4>2. ids[i] = database.nodes[i]
        BY <4>1 DEF IInv, Numbered, n
      <4>3. QED
        BY <1>4, <4>1, <4>2
    <3>3. QED
      BY <3>1, <3>2
  <2>3. ASSUME NEW i \in 1 .. Len(nodes') PROVE nodes'[i] = database.nodes[Len(ids') + i]
    <3>1. i + 1 \in 1 .. Len(nodes) /\ nodes'[i] = nodes[i + 1]
      BY <1>3, <1>5
    <3>2. nodes[i + 1] = database.nodes[n + (i + 1)]
      BY <3>1 DEF IInv, Numbered, n
    <3>3. n + (i + 1) = Len(ids') + i
      BY <1>3, <1>4
    <3>4. QED
      BY <3>1, <3>2, <3>3
  <2>4. QED
    BY <1>2, <1>4, <1>5, <2>1, <2>2, <2>3 DEF Numbered
<1>10. Mapped'
  <2>1. vtxmap \in [DOMAIN vtxmap -> Vertices]
    BY DEF IInv, Mapped
  <2>2. vtxmap' \in [DOMAIN vtxmap' -> Vertices']
    BY <1>2, <1>3, <1>8, <2>1
  <2>3. ASSUME NEW v \in Vertices'
        PROVE  ids'[v + 1] \in DOMAIN vtxmap' /\ vtxmap'[ids'[v + 1]] = v
    <3>1. CASE v = n
      BY <1>2, <1>3, <1>4, <3>1
    <3>2. CASE v # n
      <4>1. v \in Vertices /\ v + 1 \in 1 .. n
        BY <1>3, <1>8, <3>2
      <4>2. ids[v + 1] \in DOMAIN vtxmap /\ vtxmap[ids[v + 1]] = v /\ ids'[v + 1] = ids[v + 1]
        BY <1>4, <4>1 DEF IInv, Mapped
      <4>3. QED
        BY <1>2, <1>7, <4>1, <4>2
    <3>3. QED
      BY <3>1, <3>2
  <2>4. ASSUME NEW x \in DOMAIN vtxmap' PROVE \E v \in Vertices' : x = ids'[v + 1]
    <3>1. CASE x = h
      <4>1. n \in Vertices' /\ x = ids'[n + 1]
        BY <1>3, <1>4, <1>8, <3>1
      <4>2. QED
        BY <4>1
    <3>2. CASE x # h
      <4>1. x \in DOMAIN vtxmap
        BY <1>2, <3>2
      <4>2. PICK v \in Vertices : x = ids[v + 1]
        BY <1>1, <4>1 DEF IInv, Mapped
      <4>3. v \in Vertices' /\ v + 1 \in 1 .. n
        BY <1>3, <1>8
      <4>4. QED
        BY <1>4, <4>2, <4>3
    <3>3. QED
      BY <3>1, <3>2
  <2>5. QED
    BY <2>2, <2>3, <2>4 DEF Mapped
<1>11. IsGraph(Graph)'
  BY <1>1, <1>2 DEF IInv, IsGraph, Indexed, Graph
<1>12. Queued'
  BY <1>1, <1>2 DEF IInv, Queued
<1>13. AllDrawn'
  <2>1. ASSUME NEW w \in DOMAIN database.ways, NEW i \in 1 .. Len(database.ways[w].refs) - 1
        PROVE  Section(database.ways, w, i) \in Range(sections)
    <3>1. IsSection(database.ways, Section(database.ways, w, i))
      BY DEF IsSection
    <3>2. sections = SectionsOf(database.ways)
      BY <1>1 DEF IInv, Queued
    <3>3. QED
      BY <1>1, <3>1, <3>2, SectionsFound
  <2>2. QED
    BY <1>2, <2>1 DEF AllDrawn
<1>14. NothingElse'
  BY <1>1, <1>2 DEF NothingElse
<1>15. Tables'
  BY <1>2, <1>3, <1>8 DEF Tables
<1>16. Waiting'
  BY <1>1, <1>2 DEF IInv, Waiting, Passed
<1>17. Indices' /\ TurnsMade'
  BY <1>1, <1>2, <1>8 DEF Indices, TurnsMade
<1>18. QED
  BY <1>1, <1>2, <1>9, <1>10, <1>11, <1>12, <1>13, <1>14, <1>15, <1>16, <1>17 DEF IInv

\* A section that is added makes one arc per direction it is open in, and none
\* else.
LEMMA AddSectionInv == ASSUME IInv, AddSection PROVE IInv'
<1>0. PICK e : e = Head(sections)
  OBVIOUS
<1> DEFINE ways == database.ways
           tags == ways[e.way].tags
           map1 == Reference(vtxmap, e.sid)
           map  == Reference(map1, e.tid)
           s    == map[e.sid]
           t    == map[e.tid]
           G1   == IF Forward(tags) THEN AddArc(Graph, s, t, e.way) ELSE Graph
           G2   == IF Backward(tags) THEN AddArc(G1, t, s, e.way) ELSE G1
<1>1. /\ nodes = <<>> /\ sections # <<>>
      /\ vtxmap' = map
      /\ arcs' = G2.arcs /\ edgmap' = G2.edgmap /\ edge_index' = G2.edge_index
      /\ sections' = Tail(sections)
      /\ UNCHANGED <<database, model, nodes, untabled, restrictions, ids, turn_table, descending>>
  BY <1>0 DEF AddSection
<1>2. IsDatabase(database) /\ 0 \in Vertices
  BY <1>1, FirstVertex DEF IInv, Idle
<1>3. /\ sections \in Seq([sid : Id, tid : Id, way : Nat]) /\ Len(sections) \in Nat \ {0}
      /\ e = sections[1]
  <2>1. sections \in Seq([sid : Id, tid : Id, way : Nat])
    BY DEF IInv, Queued
  <2>2. QED
    BY <1>0, <1>1, <2>1, HeadAndTail
<1>4. IsSection(ways, e) /\ e.way \in Nat /\ e \in [sid : Id, tid : Id, way : Nat]
  <2>1. 1 \in 1 .. Len(sections) /\ e \in [sid : Id, tid : Id, way : Nat]
    <3>1. 1 \in 1 .. Len(sections)
      BY <1>3
    <3>2. sections[1] \in [sid : Id, tid : Id, way : Nat]
      BY <1>3, <3>1, SequenceOf
    <3>3. QED
      BY <1>3, <3>1, <3>2
  <2>2. IsSection(ways, e)
    BY <1>3, <2>1 DEF IInv, Queued
  <2>3. e.way \in Nat
    BY <2>1
  <2>4. QED
    BY <2>1, <2>2, <2>3
<1>5. /\ Len(sections') = Len(sections) - 1
      /\ sections' \in Seq([sid : Id, tid : Id, way : Nat])
      /\ \A k \in 1 .. Len(sections) - 1 : sections'[k] = sections[k + 1]
  BY <1>1, <1>3, HeadAndTail
<1>6. /\ map \in [DOMAIN map -> Vertices]
      /\ DOMAIN map = DOMAIN vtxmap \cup {e.sid, e.tid}
      /\ \A x \in DOMAIN vtxmap : map[x] = vtxmap[x]
      /\ \A x \in DOMAIN map \ DOMAIN vtxmap : map[x] = 0
  <2>1. vtxmap \in [DOMAIN vtxmap -> Vertices]
    BY DEF IInv, Mapped
  <2>2. /\ map1 \in [DOMAIN map1 -> Vertices]
        /\ DOMAIN map1 = DOMAIN vtxmap \cup {e.sid}
        /\ \A x \in DOMAIN vtxmap : map1[x] = vtxmap[x]
        /\ e.sid \notin DOMAIN vtxmap => map1[e.sid] = 0
    BY <1>2, <2>1, Referenced
  <2> HIDE DEF map1
  <2>3. /\ map \in [DOMAIN map -> Vertices]
        /\ DOMAIN map = DOMAIN map1 \cup {e.tid}
        /\ \A x \in DOMAIN map1 : map[x] = map1[x]
        /\ e.tid \notin DOMAIN map1 => map[e.tid] = 0
    <3>1. map1 \in [DOMAIN map1 -> Vertices]
      BY <2>2
    <3>2. QED
      BY <1>2, <3>1, Referenced
  <2> HIDE DEF map
  <2>4. QED
    BY <2>2, <2>3
<1>7. s \in Vertices /\ t \in Vertices
  <2> HIDE DEF map
  <2>1. QED
    BY <1>6
<1> HIDE DEF ways, tags, map1, map, s, t
<1>8. /\ IsGraph(G1)
      /\ DOMAIN Graph.arcs \subseteq DOMAIN G1.arcs
      /\ \A a \in DOMAIN Graph.arcs : G1.arcs[a] = Graph.arcs[a]
      /\ Forward(tags) => <<s, t>> \in DOMAIN G1.arcs
      /\ \A a \in DOMAIN G1.arcs \ DOMAIN Graph.arcs :
           Forward(tags) /\ a = <<s, t>> /\ G1.arcs[a].way = e.way
  <2>1. CASE Forward(tags)
    <3>1. G1 = AddArc(Graph, s, t, e.way)
      BY <2>1
    <3> HIDE DEF G1
    <3>2. IsGraph(G1) /\ Extends(G1, Graph, s, t, e.way)
      BY <1>4, <1>7, <3>1, ArcAdded DEF IInv
    <3>3. QED
      BY <2>1, <3>2 DEF Extends
  <2>2. CASE ~ Forward(tags)
    BY <2>2 DEF IInv
  <2>3. QED
    BY <2>1, <2>2
<1>9. /\ IsGraph(G2)
      /\ DOMAIN G1.arcs \subseteq DOMAIN G2.arcs
      /\ \A a \in DOMAIN G1.arcs : G2.arcs[a] = G1.arcs[a]
      /\ Backward(tags) => <<t, s>> \in DOMAIN G2.arcs
      /\ \A a \in DOMAIN G2.arcs \ DOMAIN G1.arcs :
           Backward(tags) /\ a = <<t, s>> /\ G2.arcs[a].way = e.way
  <2> HIDE DEF G1
  <2>1. CASE Backward(tags)
    <3>1. G2 = AddArc(G1, t, s, e.way)
      BY <2>1
    <3> HIDE DEF G2
    <3>2. IsGraph(G2) /\ Extends(G2, G1, t, s, e.way)
      BY <1>4, <1>7, <1>8, <3>1, ArcAdded
    <3>3. QED
      BY <2>1, <3>2 DEF Extends
  <2>2. CASE ~ Backward(tags)
    BY <1>8, <2>2
  <2>3. QED
    BY <2>1, <2>2
<1> HIDE DEF G1, G2
<1>10. Vertices' = Vertices /\ Numbered'
  BY <1>1 DEF IInv, Vertices, Numbered
<1>11. Mapped'
  <2>1. ASSUME NEW v \in Vertices
        PROVE  ids[v + 1] \in DOMAIN map /\ map[ids[v + 1]] = v
    BY <1>6 DEF IInv, Mapped
  <2>2. ASSUME NEW x \in DOMAIN map
        PROVE  \/ \E v \in Vertices : x = ids[v + 1]
               \/ map[x] = 0 /\ \E w \in DOMAIN ways : x \in Range(ways[w].refs)
    <3>1. CASE x \in DOMAIN vtxmap
      BY <1>6, <3>1 DEF IInv, Mapped, ways
    <3>2. CASE x \in {e.sid, e.tid} \ DOMAIN vtxmap
      <4>1. PICK w \in DOMAIN ways :
              \E i \in 1 .. Len(ways[w].refs) - 1 : e = Section(ways, w, i)
        BY <1>4 DEF IsSection
      <4>2. PICK i \in 1 .. Len(ways[w].refs) - 1 : e = Section(ways, w, i)
        BY <4>1
      <4>3. ways[w].refs \in Seq(Id)
        <5>1. database.ways \in Seq([refs : Seq(Id), tags : SUBSET Tag])
          BY <1>2 DEF IsDatabase, Database
        <5>2. w \in 1 .. Len(database.ways)
          BY <5>1, SequenceOf DEF ways
        <5>3. database.ways[w] \in [refs : Seq(Id), tags : SUBSET Tag]
          BY <5>1, <5>2, SequenceOf
        <5>4. QED
          BY <5>3 DEF ways
      <4>4. i \in DOMAIN ways[w].refs /\ i + 1 \in DOMAIN ways[w].refs
        BY <4>3
      <4>5. x = ways[w].refs[i] \/ x = ways[w].refs[i + 1]
        BY <3>2, <4>2 DEF Section
      <4>6. x \in Range(ways[w].refs)
        BY <4>4, <4>5 DEF Range
      <4>7. QED
        BY <1>6, <3>2, <4>6
    <3>3. QED
      BY <1>6, <3>1, <3>2
  <2>3. QED
    BY <1>1, <1>6, <1>10, <2>1, <2>2 DEF Mapped, ways
<1>12. IsGraph(Graph)'
  BY <1>1, <1>9, <1>10 DEF IsGraph, Indexed, Graph
<1>13. Queued'
  <2>1. ASSUME NEW k \in 1 .. Len(sections') PROVE IsSection(ways, sections'[k])
    <3>1. k + 1 \in 1 .. Len(sections) /\ sections'[k] = sections[k + 1]
      BY <1>3, <1>5
    <3>2. QED
      BY <3>1 DEF IInv, Queued, ways
  <2>2. QED
    BY <1>1, <1>5, <2>1 DEF Queued, ways
<1>14. /\ \A d : Forward(d)' <=> Forward(d)
       /\ \A d : Backward(d)' <=> Backward(d)
  BY <1>1 DEF Forward, Backward, Taken, DirectionsMatter
<1>15. /\ DOMAIN arcs \subseteq DOMAIN arcs'
       /\ \A a \in DOMAIN arcs : arcs'[a] = arcs[a]
       /\ \A a \in DOMAIN arcs' \ DOMAIN arcs :
            /\ arcs'[a].way = e.way
            /\ \/ Forward(tags) /\ a = <<s, t>>
               \/ Backward(tags) /\ a = <<t, s>>
       /\ Forward(tags) => <<s, t>> \in DOMAIN arcs'
       /\ Backward(tags) => <<t, s>> \in DOMAIN arcs'
  <2>1. Graph.arcs = arcs
    BY DEF Graph
  <2>2. QED
    BY <1>1, <1>8, <1>9, <2>1
<1>16. AllDrawn'
  <2> SUFFICES ASSUME NEW w \in DOMAIN ways, NEW i \in 1 .. Len(ways[w].refs) - 1
               PROVE  Section(ways, w, i) \in Range(sections') \/ Drawn(Section(ways, w, i))'
    BY <1>1 DEF AllDrawn, ways
  <2>0. PICK f : f = Section(ways, w, i)
    OBVIOUS
  <2>1. CASE f = e
    <3>1. Drawn(f)'
      BY <1>1, <1>6, <1>14, <1>15, <2>1 DEF Drawn, Known, tags, s, t, ways
    <3>2. QED
      BY <1>1, <2>0, <3>1 DEF ways
  <2>2. CASE f \in Range(sections) /\ f # e
    <3>0. /\ DOMAIN sections = 1 .. Len(sections)
          /\ DOMAIN sections' = 1 .. Len(sections')
      BY <1>3, <1>5, SequenceOf
    <3>1. PICK k \in 1 .. Len(sections) : sections[k] = f
      BY <2>2, <3>0 DEF Range
    <3>2. k # 1
      BY <1>3, <2>2, <3>1
    <3>3. PICK j \in 1 .. Len(sections) - 1 : j + 1 = k
      BY <1>3, <3>2
    <3>4. j \in DOMAIN sections' /\ sections'[j] = f
      BY <1>5, <3>0, <3>1, <3>3
    <3>5. f \in Range(sections')
      BY <3>4 DEF Range
    <3>6. QED
      BY <2>0, <3>5
  <2>3. CASE Drawn(f)
    <3>1. Drawn(f)'
      BY <1>1, <1>6, <1>14, <1>15, <2>3 DEF Drawn, Known
    <3>2. QED
      BY <1>1, <2>0, <3>1 DEF ways
  <2>4. QED
    BY <1>1, <2>0, <2>1, <2>2, <2>3 DEF IInv, AllDrawn, ways
<1>17. NothingElse'
  <2> USE DEF ways
  <2>1. ASSUME NEW a \in DOMAIN arcs'
        PROVE  \E w \in DOMAIN ways : \E i \in 1 .. Len(ways[w].refs) - 1 :
                 \E f : arcs'[a].way = w /\ f = Section(ways, w, i) /\ ComesFrom(a, f)'
    <3>1. CASE a \in DOMAIN arcs
      <4> DEFINE w == arcs[a].way
      <4>1. w \in DOMAIN ways
        BY <3>1 DEF IInv, NothingElse
      <4>2. PICK i \in 1 .. Len(ways[w].refs) - 1 : ComesFrom(a, Section(ways, w, i))
        BY <3>1 DEF IInv, NothingElse
      <4>3. PICK f : f = Section(ways, w, i)
        OBVIOUS
      <4>4. ComesFrom(a, f)'
        BY <1>1, <1>6, <1>14, <4>2, <4>3 DEF ComesFrom, Known
      <4>5. arcs'[a].way = w
        BY <1>15, <3>1
      <4>6. QED
        BY <4>1, <4>3, <4>4, <4>5
    <3>2. CASE a \notin DOMAIN arcs
      <4>1. PICK w \in DOMAIN ways :
              \E i \in 1 .. Len(ways[w].refs) - 1 : e = Section(ways, w, i)
        BY <1>4 DEF IsSection
      <4>2. e.way = w /\ arcs'[a].way = e.way
        BY <1>15, <3>2, <4>1 DEF Section
      <4>3. ComesFrom(a, e)'
        BY <1>1, <1>6, <1>14, <1>15, <3>2 DEF ComesFrom, Known, tags, s, t
      <4>4. QED
        BY <4>1, <4>2, <4>3
    <3>3. QED
      BY <3>1, <3>2
  <2>2. database' = database
    BY <1>1
  <2>3. QED
    BY <2>1, <2>2 DEF NothingElse, ComesFrom, Known
<1>18. Tables'
  BY <1>1, <1>10 DEF IInv, Tables
<1>19. Waiting'
  BY <1>1 DEF IInv, Waiting, Passed
<1>20. Indices'
  <2>1. \A a \in DOMAIN arcs' : a[1] \in Vertices /\ a[2] \in Vertices
    BY <1>10, <1>12 DEF IsGraph, Graph
  <2>2. model = Compact => untabled = Vertices
    BY <1>1 DEF IInv, Tables
  <2>3. QED
    BY <1>1, <2>1, <2>2 DEF Indices
<1>21. TurnsMade'
  BY <1>1, <1>10 DEF IInv, Tables, TurnsMade
<1>22. QED
  BY <1>1, <1>2, <1>10, <1>11, <1>12, <1>13, <1>16, <1>17, <1>18, <1>19, <1>20, <1>21 DEF IInv

-----------------------------------------------------------------------------

\* Sorted by their numbers, the arcs of a set have different places.
LEMMA PlacesDiffer ==
  ASSUME IsGraph(Graph), model = Compact, NEW S \in SUBSET DOMAIN arcs
  PROVE  /\ IsFiniteSet(S) /\ Cardinality(S) \in Nat
         /\ \A a \in S : Place(a, S) \in 0 .. Cardinality(S) - 1
         /\ \A a, b \in S : Place(a, S) = Place(b, S) => a = b
<1> DEFINE L(a) == {b \in S : Lower(b, a)}
<1>1. IsFiniteSet(S) /\ Cardinality(S) \in Nat
  BY FS_Subset, FS_CardinalityType DEF IsGraph, Graph
<1>2. /\ \A a, b \in S : Lower(a, b) \/ Lower(b, a) \/ a = b
      /\ \A a \in S : ~ Lower(a, a)
      /\ \A a, b, c \in S : Lower(a, b) /\ Lower(b, c) => Lower(a, c)
  <2>1. \A a \in S : arcs[a].edge_index \in Nat /\ edgmap[arcs[a].edge_index] = a
    BY DEF IsGraph, Indexed, Graph, Properties
  <2>2. QED
    BY <2>1 DEF Lower
<1>3. ASSUME NEW a \in S
      PROVE  IsFiniteSet(L(a)) /\ Place(a, S) = Cardinality(L(a)) /\ Place(a, S) \in Nat
  <2>1. L(a) \in SUBSET S
    OBVIOUS
  <2>2. IsFiniteSet(L(a))
    BY <1>1, <2>1, FS_Subset
  <2>3. QED
    BY <2>2, FS_CardinalityType DEF Place
<1>0. \A a \in S : Place(a, S) \in Nat
  BY <1>3
<1>4. ASSUME NEW a \in S, NEW T \in SUBSET S, L(a) \subseteq T, a \in T
      PROVE  Place(a, S) < Cardinality(T)
  <2>1. a \notin L(a)
    BY <1>2
  <2>2. IsFiniteSet(L(a) \cup {a}) /\ Cardinality(L(a) \cup {a}) = Place(a, S) + 1
    BY <1>3, <2>1, FS_AddElement
  <2>3. IsFiniteSet(T) /\ Cardinality(T) \in Nat
    BY <1>1, FS_Subset, FS_CardinalityType
  <2>4. L(a) \cup {a} \in SUBSET T
    BY <1>4
  <2>5. Cardinality(L(a) \cup {a}) <= Cardinality(T)
    BY <2>3, <2>4, FS_Subset
  <2>6. QED
    <3> HIDE DEF L
    <3>1. QED
      BY <1>0, <2>2, <2>3, <2>5
<1>5. ASSUME NEW a \in S PROVE Place(a, S) \in 0 .. Cardinality(S) - 1
  <2>1. Place(a, S) < Cardinality(S)
    BY <1>4
  <2>2. QED
    BY <1>0, <1>1, <2>1
<1>6. ASSUME NEW a \in S, NEW b \in S, Lower(a, b) PROVE Place(a, S) < Place(b, S)
  <2>1. L(b) \in SUBSET S /\ L(a) \subseteq L(b) /\ a \in L(b)
    BY <1>2, <1>6
  <2>2. Place(a, S) < Cardinality(L(b))
    BY <1>4, <2>1
  <2>3. QED
    BY <1>3, <2>2
<1>7. ASSUME NEW a \in S, NEW b \in S, Place(a, S) = Place(b, S) PROVE a = b
  <2>1. Place(a, S) \in Nat
    BY <1>0
  <2>2. ~ Lower(a, b) /\ ~ Lower(b, a)
    BY <1>6, <1>7, <2>1
  <2>3. QED
    BY <1>2, <2>2
<1>8. QED
  BY <1>1, <1>5, <1>7

\* The arcs into and out of a vertex.
LEMMA ArcsAt ==
  ASSUME NEW v
  PROVE  InArcs(v) \in SUBSET DOMAIN arcs /\ OutArcs(v) \in SUBSET DOMAIN arcs
BY DEF InArcs, OutArcs

\* A place is a number.
LEMMA PlaceTyped ==
  ASSUME IsGraph(Graph), NEW S \in SUBSET DOMAIN arcs, NEW a
  PROVE  Place(a, S) \in Nat /\ IsFiniteSet(S) /\ Cardinality(S) \in Nat
<1>1. IsFiniteSet(S)
  BY FS_Subset DEF IsGraph, Graph
<1>2. {b \in S : Lower(b, a)} \in SUBSET S
  OBVIOUS
<1>3. IsFiniteSet({b \in S : Lower(b, a)})
  BY <1>1, <1>2, FS_Subset
<1>4. QED
  BY <1>1, <1>3, FS_CardinalityType DEF Place

\* The table of a vertex is over the arcs in and out of it, and forbids U-turns.
LEMMA CreateTurnTableInv == ASSUME IInv, CreateTurnTable PROVE IInv'
<1>1. /\ nodes = <<>> /\ sections = <<>> /\ untabled # {}
      /\ UNCHANGED <<database, model, nodes, sections, restrictions, ids, vtxmap, edgmap,
                     edge_index, descending>>
  BY DEF CreateTurnTable
<1>2. PICK v : /\ v = CHOOSE u \in untabled : \A w \in untabled : u <= w
               /\ create_turn_table(v) /\ untabled' = untabled \ {v}
  BY DEF CreateTurnTable
<1>3. v \in untabled /\ v \in Vertices
  <2>1. untabled \subseteq Vertices /\ Vertices \subseteq Nat
    BY DEF IInv, Tables, Vertices
  <2>2. \E u \in untabled : \A w \in untabled : u <= w
    BY <1>1, <2>1, LeastNatural
  <2>3. QED
    BY <1>2, <2>1, <2>2
<1> DEFINE in == InArcs(v)
           out == OutArcs(v)
           cells == (0 .. Cardinality(in) - 1) \X (0 .. Cardinality(out) - 1)
           table == [x \in cells |->
                       IF \E a \in in, b \in out : UTurn(a, b) /\ x = <<Place(a, in), Place(b, out)>>
                       THEN Infinity ELSE 0]
           with == in # {} /\ out # {}
<1>4. /\ with => /\ arcs' = [a \in DOMAIN arcs |-> [arcs[a] EXCEPT
                      !.entry_point = IF a \in in THEN Place(a, in) ELSE arcs[a].entry_point,
                      !.exit_point  = IF a \in out THEN Place(a, out) ELSE arcs[a].exit_point]]
                 /\ turn_table' = [turn_table EXCEPT ![v] = table]
      /\ ~ with => arcs' = arcs /\ turn_table' = turn_table
  BY <1>2 DEF create_turn_table
<1>5. /\ in \in SUBSET DOMAIN arcs /\ out \in SUBSET DOMAIN arcs
      /\ \A a : Place(a, in) \in Nat /\ Place(a, out) \in Nat
      /\ IsGraph(Graph)
  BY ArcsAt, PlaceTyped DEF IInv
<1> HIDE DEF in, out, cells, table, with
<1>6. /\ DOMAIN arcs' = DOMAIN arcs
      /\ \A a \in DOMAIN arcs :
           /\ arcs'[a] \in Properties
           /\ arcs'[a].edge_index = arcs[a].edge_index /\ arcs'[a].way = arcs[a].way
           /\ arcs'[a].entry_point = IF with /\ a \in in THEN Place(a, in) ELSE arcs[a].entry_point
           /\ arcs'[a].exit_point = IF with /\ a \in out THEN Place(a, out) ELSE arcs[a].exit_point
  <2>1. \A a \in DOMAIN arcs : arcs[a] \in Properties
    BY <1>5 DEF IsGraph, Graph
  <2>2. CASE ~ with
    BY <1>4, <2>1, <2>2
  <2>3. CASE with
    <3>1. DOMAIN arcs' = DOMAIN arcs
      BY <1>4, <2>3
    <3> SUFFICES ASSUME NEW a \in DOMAIN arcs
                 PROVE  /\ arcs'[a] \in Properties
                        /\ arcs'[a].edge_index = arcs[a].edge_index
                        /\ arcs'[a].way = arcs[a].way
                        /\ arcs'[a].entry_point =
                             IF a \in in THEN Place(a, in) ELSE arcs[a].entry_point
                        /\ arcs'[a].exit_point =
                             IF a \in out THEN Place(a, out) ELSE arcs[a].exit_point
      BY <2>3, <3>1
    <3>2. PICK n \in Nat : n = IF a \in in THEN Place(a, in) ELSE arcs[a].entry_point
      BY <1>5, <2>1 DEF Properties
    <3>3. PICK x \in Nat : x = IF a \in out THEN Place(a, out) ELSE arcs[a].exit_point
      BY <1>5, <2>1 DEF Properties
    <3>4. arcs'[a] = [arcs[a] EXCEPT !.entry_point = n, !.exit_point = x]
      BY <1>4, <2>3, <3>2, <3>3
    <3>5. QED
      BY <2>1, <3>2, <3>3, <3>4 DEF Properties
  <2>4. QED
    BY <2>2, <2>3
<1>7. Vertices' = Vertices /\ Passed' = Passed
  BY <1>1 DEF Vertices, Passed
<1>8. /\ \A u : InArcs(u)' = InArcs(u) /\ OutArcs(u)' = OutArcs(u)
      /\ \A u, t : IsTable(t, u)' <=> IsTable(t, u)
  <2>1. \A u : InArcs(u)' = InArcs(u) /\ OutArcs(u)' = OutArcs(u)
    BY <1>6 DEF InArcs, OutArcs
  <2>2. QED
    BY <2>1 DEF IsTable
<1>9. ASSUME NEW S \in SUBSET DOMAIN arcs, NEW a \in DOMAIN arcs
      PROVE  Place(a, S)' = Place(a, S)
  <2>1. \A b \in S : Lower(b, a)' <=> Lower(b, a)
    BY <1>1, <1>6 DEF Lower
  <2>2. {b \in S : Lower(b, a)'} = {b \in S : Lower(b, a)}
    BY <2>1
  <2>3. QED
    BY <2>2 DEF Place
<1>10. IsTable(table, v)
  <2>1. DOMAIN table = cells /\ \A x \in cells : table[x] \in {0, Infinity}
    BY DEF table
  <2>2. QED
    BY <2>1 DEF IsTable, Range, cells, in, out
<1>11. Numbered' /\ Mapped' /\ Queued' /\ Waiting'
  BY <1>1, <1>2, <1>7 DEF IInv, Numbered, Mapped, Queued, Waiting
<1>12. IsGraph(Graph)'
  BY <1>1, <1>6, <1>7 DEF IInv, IsGraph, Indexed, Graph
<1>13. AllDrawn' /\ NothingElse'
  <2>1. \A d : (Forward(d)' <=> Forward(d)) /\ (Backward(d)' <=> Backward(d))
    BY <1>1 DEF Forward, Backward, Taken, DirectionsMatter
  <2>2. \A e : (Drawn(e)' <=> Drawn(e)) /\ \A a : (ComesFrom(a, e)' <=> ComesFrom(a, e))
    BY <1>1, <1>6, <2>1 DEF Drawn, ComesFrom, Known
  <2>3. AllDrawn'
    BY <1>1, <2>2 DEF IInv, AllDrawn
  <2>4. NothingElse'
    BY <1>1, <1>6, <2>2 DEF IInv, NothingElse
  <2>5. QED
    BY <2>3, <2>4
<1>14. Tables'
  <2>1. DOMAIN turn_table' = Vertices' /\ untabled' \subseteq Vertices'
    BY <1>2, <1>4, <1>7 DEF IInv, Tables
  <2>2. ASSUME NEW u \in Vertices
        PROVE  turn_table'[u] = NoTable \/ IsTable(turn_table'[u], u)
    BY <1>4, <1>10, <2>2 DEF IInv, Tables
  <2>3. QED
    BY <1>1, <1>7, <1>8, <2>1, <2>2 DEF Tables
<1>15. Indices'
  <2> SUFFICES ASSUME model = Compact, NEW a \in DOMAIN arcs
               PROVE  /\ a[2] \notin untabled' /\ OutArcs(a[2]) # {} =>
                           arcs'[a].entry_point = Place(a, InArcs(a[2]))
                      /\ a[1] \notin untabled' /\ InArcs(a[1]) # {} =>
                           arcs'[a].exit_point = Place(a, OutArcs(a[1]))
    BY <1>1, <1>6, <1>8, <1>9, ArcsAt DEF Indices
  <2>1. a \in in <=> a[2] = v
    BY DEF in, InArcs
  <2>2. a \in out <=> a[1] = v
    BY DEF out, OutArcs
  <2>3. a[2] \notin untabled' /\ OutArcs(a[2]) # {} =>
          arcs'[a].entry_point = Place(a, InArcs(a[2]))
    BY <1>2, <1>6, <2>1 DEF IInv, Indices, with, in, out
  <2>4. a[1] \notin untabled' /\ InArcs(a[1]) # {} =>
          arcs'[a].exit_point = Place(a, OutArcs(a[1]))
    BY <1>2, <1>6, <2>2 DEF IInv, Indices, with, in, out
  <2>5. QED
    BY <2>3, <2>4
<1>16. TurnsMade'
  <2> SUFFICES ASSUME model = Compact, NEW u \in Vertices \ untabled',
                      NEW a \in InArcs(u), NEW b \in OutArcs(u)
               PROVE  /\ IsTable(turn_table'[u], u)
                      /\ turn_table'[u][<<Place(a, InArcs(u)), Place(b, OutArcs(u))>>] = Infinity
                           <=> Closes(u, a, b)
    <3>1. \A u, a, b : Closes(u, a, b)' <=> Closes(u, a, b)
      BY <1>1, <1>7 DEF Closes, Applies
    <3>2. QED
      BY <1>1, <1>7, <1>8, <1>9, <3>1, ArcsAt DEF TurnsMade
  <2>1. CASE u = v
    <3>1. a \in in /\ b \in out /\ with
      BY <2>1 DEF in, out, with
    <3>2. turn_table'[u] = table
      BY <1>3, <1>4, <2>1, <3>1 DEF IInv, Tables
    <3>3. Place(a, in) \in 0 .. Cardinality(in) - 1 /\ Place(b, out) \in 0 .. Cardinality(out) - 1
      BY <1>5, <3>1, PlacesDiffer
    <3>4. table[<<Place(a, in), Place(b, out)>>] = Infinity <=>
            \E c \in in, d \in out :
              UTurn(c, d) /\ <<Place(a, in), Place(b, out)>> = <<Place(c, in), Place(d, out)>>
      BY <3>3 DEF table, cells, Infinity
    <3>5. table[<<Place(a, in), Place(b, out)>>] = Infinity <=> UTurn(a, b)
      <4>1. \A c \in in, d \in out :
              Place(a, in) = Place(c, in) /\ Place(b, out) = Place(d, out) => c = a /\ d = b
        BY <1>5, <3>1, PlacesDiffer
      <4>2. QED
        BY <3>1, <3>4, <4>1
    <3>6. Closes(u, a, b) <=> UTurn(a, b)
      BY <1>1 DEF Closes, IInv, Waiting
    <3>7. QED
      BY <1>10, <2>1, <3>2, <3>5, <3>6 DEF in, out
  <2>2. CASE u # v
    BY <1>2, <1>4, <2>2 DEF IInv, Tables, TurnsMade
  <2>3. QED
    BY <2>1, <2>2
<1>17. QED
  BY <1>1, <1>11, <1>12, <1>13, <1>14, <1>15, <1>16 DEF IInv, Idle

\* A restriction forbids in the table of its via what it says, and leaves the
\* tables of other vertices alone.
LEMMA AddTurnCostInv == ASSUME IInv, AddTurnCost PROVE IInv'
<1>1. /\ nodes = <<>> /\ sections = <<>> /\ untabled = {} /\ restrictions # <<>>
      /\ restrictions' = Tail(restrictions)
      /\ UNCHANGED <<database, model, nodes, sections, untabled, ids, vtxmap, arcs, edgmap,
                     edge_index, descending>>
  BY DEF AddTurnCost
<1>2. PICK r : r = Head(restrictions)
  OBVIOUS
<1> DEFINE v == vtxmap[r.via]
           hit == r.via \in DOMAIN vtxmap
           closed == [x \in DOMAIN turn_table[v] |->
                        IF x \in Cells(r, v) THEN Infinity ELSE turn_table[v][x]]
<1>3. /\ hit => v \in Vertices /\ turn_table' = [turn_table EXCEPT ![v] = closed]
      /\ ~ hit => turn_table' = turn_table
  BY <1>2 DEF AddTurnCost, IInv, Mapped
<1>4. DOMAIN closed = DOMAIN turn_table[v]
  OBVIOUS
<1> HIDE DEF v, hit, closed
<1>5. Vertices' = Vertices /\ Numbered' /\ Mapped' /\ Queued' /\ IsGraph(Graph)'
  BY <1>1 DEF IInv, Vertices, Numbered, Mapped, Queued, IsGraph, Indexed, Graph
<1>6. AllDrawn' /\ NothingElse'
  <2>1. \A d : (Forward(d)' <=> Forward(d)) /\ (Backward(d)' <=> Backward(d))
    BY <1>1 DEF Forward, Backward, Taken, DirectionsMatter
  <2>2. \A e : (Drawn(e)' <=> Drawn(e)) /\ \A a : (ComesFrom(a, e)' <=> ComesFrom(a, e))
    BY <1>1, <2>1 DEF Drawn, ComesFrom, Known
  <2>3. AllDrawn'
    BY <1>1, <2>2 DEF IInv, AllDrawn
  <2>4. NothingElse'
    BY <1>1, <2>2 DEF IInv, NothingElse
  <2>5. QED
    BY <2>3, <2>4
<1>7. /\ \A u : InArcs(u)' = InArcs(u) /\ OutArcs(u)' = OutArcs(u)
      /\ \A a, b : Lower(a, b)' <=> Lower(a, b)
  BY <1>1 DEF InArcs, OutArcs, Lower
<1>8. /\ \A a, S : Place(a, S)' = Place(a, S)
      /\ \A t, u : IsTable(t, u)' <=> IsTable(t, u)
  BY <1>1, <1>7 DEF Place, IsTable, Lower
<1>9. ASSUME hit, NEW u, IsTable(turn_table[v], u) PROVE IsTable(closed, u)
  <2>1. \A x \in DOMAIN closed : closed[x] \in {0, Infinity}
    BY <1>9 DEF closed, IsTable, Range
  <2>2. QED
    BY <1>4, <1>9, <2>1 DEF IsTable, Range
<1>10. ASSUME turn_table[v] = NoTable PROVE closed = NoTable
  BY <1>10 DEF closed, NoTable
<1>11. Tables'
  <2>1. DOMAIN turn_table' = Vertices /\ untabled' \subseteq Vertices
    BY <1>1, <1>3 DEF IInv, Tables
  <2>2. ASSUME NEW u \in Vertices
        PROVE  turn_table'[u] = NoTable \/ IsTable(turn_table'[u], u)
    BY <1>3, <1>9, <1>10 DEF IInv, Tables
  <2>3. QED
    BY <1>1, <1>5, <1>8, <2>1, <2>2 DEF Tables
<1>12. Indices'
  BY <1>1, <1>7, <1>8 DEF IInv, Indices
<1>13. ASSUME model = Compact
       PROVE  Waiting' /\ Passed \in Nat /\ Passed' = Passed + 1
              /\ database.restrictions[Passed + 1] = r
  <2>1. /\ Passed \in Nat
        /\ restrictions \in Seq([via : Id, only : BOOLEAN, from : SUBSET Seq(Id), to : SUBSET Seq(Id)])
        /\ \A k \in 1 .. Len(restrictions) : restrictions[k] = database.restrictions[Passed + k]
    BY <1>13 DEF IInv, Waiting
  <2>2. /\ Len(restrictions') = Len(restrictions) - 1 /\ Len(restrictions) \in Nat \ {0}
        /\ restrictions' \in Seq([via : Id, only : BOOLEAN, from : SUBSET Seq(Id), to : SUBSET Seq(Id)])
        /\ \A k \in 1 .. Len(restrictions) - 1 : restrictions'[k] = restrictions[k + 1]
        /\ r = restrictions[1]
    BY <1>1, <1>2, <2>1
  <2>3. Passed' = Passed + 1
    <3>1. Passed = Len(database.restrictions) - Len(restrictions)
      BY DEF Passed
    <3>2. Passed' = Len(database.restrictions) - Len(restrictions')
      BY <1>1 DEF Passed
    <3>3. Len(database.restrictions) \in Nat
      <4>1. 0 \in Vertices \/ Idle
        BY <1>1, FirstVertex DEF IInv
      <4>2. IsDatabase(database)
        BY <1>1 DEF IInv, Idle
      <4>3. database.restrictions \in
              Seq([via : Id, only : BOOLEAN, from : SUBSET Seq(Id), to : SUBSET Seq(Id)])
        BY <4>2 DEF IsDatabase, Database
      <4>4. QED
        BY <4>3
    <3>4. QED
      BY <2>2, <3>1, <3>2, <3>3
  <2>4. ASSUME NEW k \in 1 .. Len(restrictions')
        PROVE  restrictions'[k] = database.restrictions[Passed' + k]
    <3>1. k + 1 \in 1 .. Len(restrictions) /\ Passed + (k + 1) = Passed' + k
      BY <2>1, <2>2, <2>3
    <3>2. QED
      BY <2>1, <2>2, <3>1
  <2>5. QED
    BY <1>1, <2>1, <2>2, <2>3, <2>4 DEF Waiting
<1>14. Waiting'
  BY <1>1, <1>13 DEF Waiting
<1>15. TurnsMade'
  <2> SUFFICES ASSUME model = Compact, NEW u \in Vertices, NEW a \in InArcs(u), NEW b \in OutArcs(u)
               PROVE  /\ IsTable(turn_table'[u], u)
                      /\ turn_table'[u][<<Place(a, InArcs(u)), Place(b, OutArcs(u))>>] = Infinity
                           <=> Closes(u, a, b)'
    BY <1>1, <1>5, <1>7, <1>8 DEF TurnsMade
  <2> DEFINE x == <<Place(a, InArcs(u)), Place(b, OutArcs(u))>>
  <2>1. IsTable(turn_table[u], u) /\ (turn_table[u][x] = Infinity <=> Closes(u, a, b))
    BY <1>1 DEF IInv, TurnsMade
  <2>2. Closes(u, a, b)' <=> Closes(u, a, b) \/ Applies(r, u, a, b)
    <3>1. \A q : Applies(q, u, a, b)' <=> Applies(q, u, a, b)
      BY <1>1 DEF Applies
    <3>2. Closes(u, a, b)' <=> UTurn(a, b) \/ \E k \in 1 .. Passed' :
                                 Applies(database.restrictions[k], u, a, b)
      BY <1>1, <3>1 DEF Closes
    <3>3. 1 .. Passed' = (1 .. Passed) \cup {Passed + 1}
      BY <1>13
    <3>4. QED
      BY <1>13, <3>2, <3>3 DEF Closes
  <2>3. a \in DOMAIN arcs /\ b \in DOMAIN arcs /\ a[2] = u /\ b[1] = u
    BY DEF InArcs, OutArcs
  <2>4. \A c \in InArcs(u), d \in OutArcs(u) :
          arcs[c].entry_point = Place(c, InArcs(u)) /\ arcs[d].exit_point = Place(d, OutArcs(u))
    <3>1. \A c \in InArcs(u) : c \in DOMAIN arcs /\ c[2] = u
      BY DEF InArcs
    <3>2. \A d \in OutArcs(u) : d \in DOMAIN arcs /\ d[1] = u
      BY DEF OutArcs
    <3>3. InArcs(u) # {} /\ OutArcs(u) # {}
      OBVIOUS
    <3>4. QED
      BY <1>1, <3>1, <3>2, <3>3 DEF IInv, Indices
  <2>5. x \in Cells(r, u) <=> is_restricted_maneuver(r, ids[a[1] + 1], ids[b[2] + 1])
    <3>1. ASSUME NEW c \in InArcs(u), NEW d \in OutArcs(u),
                 x = <<arcs[c].entry_point, arcs[d].exit_point>>
          PROVE  c = a /\ d = b
      <4>1. Place(c, InArcs(u)) = Place(a, InArcs(u)) /\ Place(d, OutArcs(u)) = Place(b, OutArcs(u))
        BY <2>4, <3>1
      <4>2. QED
        BY <4>1, PlacesDiffer, ArcsAt DEF IInv
    <3>2. x = <<arcs[a].entry_point, arcs[b].exit_point>>
      BY <2>4
    <3> HIDE DEF x
    <3>3. <<a, b>> \in InArcs(u) \X OutArcs(u)
      OBVIOUS
    <3>4. ASSUME x \in Cells(r, u) PROVE is_restricted_maneuver(r, ids[a[1] + 1], ids[b[2] + 1])
      <4>1. PICK c \in InArcs(u) \X OutArcs(u) :
              /\ is_restricted_maneuver(r, ids[c[1][1] + 1], ids[c[2][2] + 1])
              /\ x = <<arcs[c[1]].entry_point, arcs[c[2]].exit_point>>
        BY <3>4 DEF Cells
      <4>2. c[1] = a /\ c[2] = b
        BY <3>1, <4>1
      <4>3. QED
        BY <4>1, <4>2
    <3>5. ASSUME is_restricted_maneuver(r, ids[a[1] + 1], ids[b[2] + 1]) PROVE x \in Cells(r, u)
      BY <3>2, <3>3, <3>5 DEF Cells
    <3>6. QED
      BY <3>4, <3>5
  <2>6. CASE hit /\ u = v
    <3>1. turn_table'[u] = closed
      BY <1>3, <2>6 DEF IInv, Tables
    <3>2. x \in DOMAIN turn_table[u]
      <4>1. /\ Place(a, InArcs(u)) \in 0 .. Cardinality(InArcs(u)) - 1
            /\ Place(b, OutArcs(u)) \in 0 .. Cardinality(OutArcs(u)) - 1
        BY PlacesDiffer, ArcsAt DEF IInv
      <4>2. QED
        BY <2>1, <4>1 DEF IsTable
    <3> HIDE DEF x
    <3>3. closed[x] = IF x \in Cells(r, u) THEN Infinity ELSE turn_table[u][x]
      BY <2>6, <3>2 DEF closed
    <3>4. Applies(r, u, a, b) <=> is_restricted_maneuver(r, ids[a[1] + 1], ids[b[2] + 1])
      BY <2>6 DEF Applies, hit, v
    <3>5. IsTable(closed, u)
      BY <1>9, <2>1, <2>6
    <3>6. turn_table'[u][x] = Infinity <=> Closes(u, a, b)'
      BY <2>1, <2>2, <2>5, <3>1, <3>3, <3>4
    <3>7. QED
      BY <3>1, <3>5, <3>6 DEF x
  <2>7. CASE ~ (hit /\ u = v)
    <3>1. turn_table'[u] = turn_table[u]
      BY <1>3, <2>7 DEF IInv, Tables
    <3>2. ~ Applies(r, u, a, b)
      BY <2>7 DEF Applies, hit, v
    <3>3. QED
      BY <2>1, <2>2, <3>1, <3>2
  <2>8. QED
    BY <2>6, <2>7
<1>16. QED
  BY <1>1, <1>5, <1>6, <1>11, <1>12, <1>14, <1>15 DEF IInv, Idle

\* Every step of the builder keeps the invariant.
LEMMA StepInv == ASSUME IInv, [Next]_vars PROVE IInv'
<1>1. CASE UNCHANGED vars
  <2>1. \A a, b : Lower(a, b)' <=> Lower(a, b)
    BY <1>1 DEF vars, Lower
  <2>2. /\ \A a, S : Place(a, S)' = Place(a, S)
        /\ \A u : InArcs(u)' = InArcs(u) /\ OutArcs(u)' = OutArcs(u)
    BY <1>1, <2>1 DEF vars, Place, InArcs, OutArcs, Lower
  <2>3. /\ \A d : (Forward(d)' <=> Forward(d)) /\ (Backward(d)' <=> Backward(d))
        /\ Vertices' = Vertices /\ Passed' = Passed
    BY <1>1 DEF vars, Forward, Backward, Taken, DirectionsMatter, Vertices, Passed
  <2>4. /\ \A e : (Drawn(e)' <=> Drawn(e)) /\ \A a : (ComesFrom(a, e)' <=> ComesFrom(a, e))
        /\ \A t, u : IsTable(t, u)' <=> IsTable(t, u)
        /\ \A u, a, b : Closes(u, a, b)' <=> Closes(u, a, b)
    BY <1>1, <2>2, <2>3 DEF vars, Drawn, ComesFrom, Known, IsTable, Closes, Applies
  <2>5. Numbered' /\ Mapped' /\ IsGraph(Graph)' /\ Queued'
    BY <1>1, <2>3 DEF vars, IInv, Numbered, Mapped, IsGraph, Indexed, Graph, Queued
  <2>6. AllDrawn'
    BY <1>1, <2>4 DEF vars, IInv, AllDrawn
  <2>7. NothingElse'
    BY <1>1, <2>4 DEF vars, IInv, NothingElse
  <2>8. Tables' /\ Waiting'
    BY <1>1, <2>3, <2>4 DEF vars, IInv, Tables, Waiting
  <2>9. Indices'
    BY <1>1, <2>2 DEF vars, IInv, Indices
  <2>10. TurnsMade'
    BY <1>1, <2>2, <2>3, <2>4 DEF vars, IInv, TurnsMade
  <2>11. QED
    BY <1>1, <2>5, <2>6, <2>7, <2>8, <2>9, <2>10 DEF vars, IInv, Idle
<1>2. QED
  BY <1>1, RetrieveInv, AddNodeInv, AddSectionInv, CreateTurnTableInv, AddTurnCostInv
  DEF Next, Build

\* The invariant holds throughout, for every database.
LEMMA Invariant == Spec => []IInv
<1>1. Init => IInv
  BY InitInv
<1>2. IInv /\ [Next]_vars => IInv'
  BY StepInv
<1>3. QED
  BY <1>1, <1>2, PTL DEF Spec

-----------------------------------------------------------------------------

\* Every variable of the builder has its type: _vtxmap and _edgmap lead to what
\* is there, and a turn table has a cell for every two arcs at its vertex.
THEOREM TypeCorrect == Spec => []TypeOK
<1>1. ASSUME IInv PROVE TypeOK
  <2>1. database = NoDatabase \/ IsDatabase(database)
    BY <1>1 DEF IInv, Idle
  <2>2. /\ DOMAIN arcs \subseteq Vertices \X Vertices /\ edge_index \in Nat
        /\ \A i \in DOMAIN edgmap : edgmap[i] \in DOMAIN arcs
        /\ DOMAIN edgmap \subseteq Nat
    BY <1>1 DEF IInv, IsGraph, Indexed, Graph
  <2>3. QED
    BY <1>1, <2>1, <2>2 DEF IInv, Numbered, Mapped, Tables, TypeOK
<1>2. QED
  BY <1>1, Invariant, PTL

\* add_edge and the counting after it give the arcs of the compact model the
\* numbers 0, 1, ... without gaps, and _edgmap is the inverse, whatever ways share
\* their sections.
THEOREM ArcsNumbered == Spec => []EdgesIndexed
<1>1. IInv => EdgesIndexed
  BY DEF IInv, IsGraph, Indexed, Graph, EdgesIndexed
<1>2. QED
  BY <1>1, Invariant, PTL

-----------------------------------------------------------------------------

\* A direction is open exactly if it is not closed to who it is for.
LEMMA Directions ==
  ASSUME NEW tags
  PROVE  /\ Forward(tags) <=> Taken(tags) /\ ~ Closed(tags, "along")
         /\ Backward(tags) <=> Taken(tags) /\ ~ Closed(tags, "against")
<1>1. /\ is_forward_oneway_highway(tags) <=> tags \cap OneWay["along"] # {}
      /\ is_reverse_oneway_highway(tags) <=> tags \cap OneWay["against"] # {}
  BY DEF is_forward_oneway_highway, is_reverse_oneway_highway, OneWay, OneOf, FonewayV, RonewayV
<1>2. DOMAIN OneWay = {"along", "against"}
  BY DEF OneWay
<1>3. QED
  BY <1>1, <1>2 DEF Forward, Backward, Closed, is_not_oneway_highway

\* A way leads along its sections.
LEMMA LeadsAlong ==
  ASSUME NEW w, NEW x, NEW y
  PROVE  Leads(w, x, y) <=>
           \E i \in 1 .. Len(database.ways[w].refs) - 1 :
             LET e == Section(database.ways, w, i) IN
             \/ Forward(database.ways[w].tags) /\ e.sid = x /\ e.tid = y
             \/ Backward(database.ways[w].tags) /\ e.sid = y /\ e.tid = x
BY Directions DEF Leads, Section

\* A vertex stands for the node it is looked up by, but for vertex 0.
LEMMA StandsFor ==
  ASSUME IInv, IsDatabase(database), nodes = <<>>, NEW x \in DOMAIN vtxmap,
         Within(database) \/ vtxmap[x] # 0
  PROVE  x = ids[vtxmap[x] + 1]
<1>1. CASE \E v \in Vertices : x = ids[v + 1]
  BY <1>1 DEF IInv, Mapped
<1>2. CASE vtxmap[x] = 0 /\ \E w \in DOMAIN database.ways : x \in Range(database.ways[w].refs)
  <2>1. x \in Range(database.nodes)
    BY <1>2 DEF Within
  <2>2. database.nodes \in Seq(Id)
    BY DEF IsDatabase, Database
  <2>3. PICK j \in 1 .. Len(database.nodes) : x = database.nodes[j]
    BY <2>1, <2>2 DEF Range
  <2>4. Len(ids) = Len(database.nodes) /\ Len(ids) \in Nat
    BY FirstVertex DEF IInv
  <2>5. j - 1 \in Vertices /\ x = ids[(j - 1) + 1]
    BY <2>3, <2>4 DEF IInv, Numbered, Vertices
  <2>6. QED
    BY <2>5 DEF IInv, Mapped
<1>3. QED
  BY <1>1, <1>2 DEF IInv, Mapped

\* The arcs of a finished graph are the streets of the database.
LEMMA Joined == IInv => StreetsJoined
<1> SUFFICES ASSUME IInv, Built, NEW u \in Vertices, NEW v \in Vertices
             PROVE  /\ (\E w \in DOMAIN database.ways : Leads(w, ids[u + 1], ids[v + 1])) =>
                         <<u, v>> \in DOMAIN arcs
                    /\ <<u, v>> \in DOMAIN arcs /\ (Within(database) \/ 0 \notin {u, v}) =>
                         Leads(arcs[<<u, v>>].way, ids[u + 1], ids[v + 1])
  BY DEF StreetsJoined
<1> DEFINE x == ids[u + 1]
           y == ids[v + 1]
<1>1. IsDatabase(database) /\ nodes = <<>> /\ sections = <<>>
  BY NothingRetrieved DEF IInv, Built
<1>2. vtxmap[x] = u /\ vtxmap[y] = v
  BY DEF IInv, Mapped
<1>3. ASSUME NEW w \in DOMAIN database.ways, Leads(w, x, y) PROVE <<u, v>> \in DOMAIN arcs
  <2>1. PICK i \in 1 .. Len(database.ways[w].refs) - 1 :
          LET e == Section(database.ways, w, i) IN
          \/ Forward(database.ways[w].tags) /\ e.sid = x /\ e.tid = y
          \/ Backward(database.ways[w].tags) /\ e.sid = y /\ e.tid = x
    BY <1>3, LeadsAlong
  <2>2. PICK e : e = Section(database.ways, w, i)
    OBVIOUS
  <2>3. e \notin Range(sections) /\ e.way = w
    BY <1>1, <2>2 DEF Section, Range
  <2>4. Drawn(e)
    BY <1>1, <2>2, <2>3 DEF IInv, AllDrawn
  <2>5. QED
    BY <1>2, <2>1, <2>2, <2>3, <2>4 DEF Drawn
<1>4. ASSUME <<u, v>> \in DOMAIN arcs, Within(database) \/ 0 \notin {u, v}
      PROVE  Leads(arcs[<<u, v>>].way, x, y)
  <2> DEFINE w == arcs[<<u, v>>].way
  <2>1. PICK i \in 1 .. Len(database.ways[w].refs) - 1 :
          ComesFrom(<<u, v>>, Section(database.ways, w, i))
    BY <1>4 DEF IInv, NothingElse
  <2>2. PICK e : e = Section(database.ways, w, i)
    OBVIOUS
  <2>3. e.way = w /\ ComesFrom(<<u, v>>, e)
    BY <2>1, <2>2 DEF Section
  <2> HIDE DEF w
  <2>4. CASE Forward(database.ways[w].tags) /\ <<u, v>> = <<vtxmap[e.sid], vtxmap[e.tid]>>
    <3>1. e.sid = x /\ e.tid = y
      BY <1>1, <1>4, <2>3, <2>4, StandsFor DEF ComesFrom, Known
    <3>2. QED
      BY <2>2, <2>4, <3>1, LeadsAlong DEF w
  <2>5. CASE Backward(database.ways[w].tags) /\ <<u, v>> = <<vtxmap[e.tid], vtxmap[e.sid]>>
    <3>1. e.sid = y /\ e.tid = x
      BY <1>1, <1>4, <2>3, <2>5, StandsFor DEF ComesFrom, Known
    <3>2. QED
      BY <2>2, <2>5, <3>1, LeadsAlong DEF w
  <2>6. QED
    BY <2>3, <2>4, <2>5 DEF ComesFrom
<1>5. QED
  BY <1>3, <1>4

\* add_section joins two nodes exactly if a street leads from the one to the
\* other, in the directions open to the model, whatever the database holds.
THEOREM ArcsAreStreets == Spec => []StreetsJoined
BY Joined, Invariant, PTL

-----------------------------------------------------------------------------

\* Who is next to a node on a way is a node of that way.
LEMMA AdjoinsInside ==
  ASSUME NEW W \in SUBSET Seq(Id), NEW x, NEW y
  PROVE  /\ Adjoin(W, x, y) => x \in NodesOf(W)
         /\ Adjoin(W, x, y) <=> Adjoin(W, y, x)
<1>1. ASSUME Adjoin(W, x, y) PROVE x \in NodesOf(W)
  <2>1. PICK refs \in W : \E i \in 1 .. Len(refs) - 1 : {refs[i], refs[i + 1]} = {x, y}
    BY <1>1 DEF Adjoin
  <2>2. PICK i \in 1 .. Len(refs) - 1 : {refs[i], refs[i + 1]} = {x, y}
    BY <2>1
  <2>3. refs \in Seq(Id) /\ i \in DOMAIN refs /\ i + 1 \in DOMAIN refs
    OBVIOUS
  <2>4. refs[i] \in Range(refs) /\ refs[i + 1] \in Range(refs)
    BY <2>3 DEF Range
  <2>5. x = refs[i] \/ x = refs[i + 1]
    BY <2>2
  <2>6. QED
    BY <2>1, <2>4, <2>5 DEF NodesOf
<1>2. {x, y} = {y, x}
  OBVIOUS
<1>3. QED
  BY <1>1, <1>2 DEF Adjoin

\* An arc of a complete extract has a street to it.
LEMMA OnStreet ==
  ASSUME IInv, Built, Within(database), NEW a \in DOMAIN arcs
  PROVE  /\ a[1] \in Vertices /\ a[2] \in Vertices
         /\ \E w \in DOMAIN database.ways : Leads(w, ids[a[1] + 1], ids[a[2] + 1])
<1>1. a \in Vertices \X Vertices
  BY DEF IInv, IsGraph, Indexed, Graph
<1>2. PICK u \in Vertices, v \in Vertices : a = <<u, v>>
  BY <1>1
<1>3. a[1] = u /\ a[2] = v
  BY <1>2
<1>4. Leads(arcs[a].way, ids[u + 1], ids[v + 1])
  BY <1>2, Joined DEF StreetsJoined
<1>5. arcs[a].way \in DOMAIN database.ways
  BY DEF IInv, NothingElse
<1>6. QED
  BY <1>3, <1>4, <1>5

\* What add_turn_cost takes a restriction to be about is what it forbids.
LEMMA RestrictionTaken ==
  ASSUME IInv, Built, Within(database), Unambiguous(database),
         NEW a \in DOMAIN arcs, NEW b \in DOMAIN arcs, a[2] = b[1],
         NEW k \in DOMAIN database.restrictions
  PROVE  Applies(database.restrictions[k], a[2], a, b) <=>
           Forbids(database.restrictions[k], ids[a[1] + 1], ids[a[2] + 1], ids[b[2] + 1])
<1>1. PICK r : r = database.restrictions[k]
  OBVIOUS
<1>2. PICK x, v, y : x = ids[a[1] + 1] /\ v = ids[a[2] + 1] /\ y = ids[b[2] + 1]
  OBVIOUS
<1>3. /\ a[2] \in Vertices
      /\ \E w \in DOMAIN database.ways : Leads(w, x, v)
      /\ \E w \in DOMAIN database.ways : Leads(w, v, y)
  BY <1>2, OnStreet
<1>4. IsDatabase(database) /\ nodes = <<>>
  BY <1>3, NothingRetrieved DEF IInv, Built
<1>5. r.from \in SUBSET Seq(Id) /\ r.to \in SUBSET Seq(Id) /\ r.only \in BOOLEAN
  <2> DEFINE Restriction == [via : Id, only : BOOLEAN, from : SUBSET Seq(Id), to : SUBSET Seq(Id)]
  <2>1. database.restrictions \in Seq(Restriction)
    BY <1>4 DEF IsDatabase, Database
  <2>2. r \in Restriction
    <3> HIDE DEF Restriction
    <3>1. QED
      BY <1>1, <2>1, SequenceOf
  <2>3. r.from \in SUBSET Seq(Id) /\ r.to \in SUBSET Seq(Id)
    BY <2>2
  <2>4. r.only \in BOOLEAN
    BY <2>2
  <2>5. QED
    BY <2>3, <2>4
<1>6. r.via \in DOMAIN vtxmap /\ vtxmap[r.via] = a[2] <=> r.via = v
  BY <1>2, <1>3, <1>4, StandsFor DEF IInv, Mapped
<1>7. \A W \in {r.from, r.to} : \A z \in NodesOf(W) :
        (\E w \in DOMAIN database.ways : Leads(w, z, r.via) \/ Leads(w, r.via, z)) =>
          Adjoin(W, z, r.via)
  BY <1>1 DEF Unambiguous
<1>8. ASSUME r.via = v
      PROVE  /\ x \in NodesOf(r.from) <=> Adjoin(r.from, x, v)
             /\ y \in NodesOf(r.to) <=> Adjoin(r.to, v, y)
  <2>1. x \in NodesOf(r.from) => Adjoin(r.from, x, v)
    BY <1>3, <1>7, <1>8
  <2>2. y \in NodesOf(r.to) => Adjoin(r.to, y, v)
    BY <1>3, <1>7, <1>8
  <2>3. /\ Adjoin(r.from, x, v) => x \in NodesOf(r.from)
        /\ Adjoin(r.to, y, v) => y \in NodesOf(r.to)
    BY <1>5, AdjoinsInside
  <2>4. Adjoin(r.to, y, v) <=> Adjoin(r.to, v, y)
    BY <1>5, AdjoinsInside
  <2>5. QED
    BY <2>1, <2>2, <2>3, <2>4
<1>9. is_restricted_maneuver(r, x, y) <=>
         /\ x \in NodesOf(r.from)
         /\ IF r.only THEN y \notin NodesOf(r.to) ELSE y \in NodesOf(r.to)
  BY <1>5 DEF is_restricted_maneuver
<1>10. Applies(r, a[2], a, b) <=> r.via = v /\ is_restricted_maneuver(r, x, y)
  BY <1>2, <1>6 DEF Applies
<1>11. Forbids(r, x, v, y) <=> r.via = v /\ is_restricted_maneuver(r, x, y)
  BY <1>8, <1>9 DEF Forbids
<1>12. QED
  BY <1>1, <1>2, <1>10, <1>11

\* The costs of a finished network, read through the indices of two arcs, are
\* infinite exactly for the U-turns and for what the restrictions of the extract
\* forbid: the indices that create_turn_table gives the arcs, in whatever order
\* their addresses sort them, lead add_turn_cost and the search to the same cells.
THEOREM TurnsAreForbidden == Spec => []TurnsForbidden
<1>1. IInv => TurnsForbidden
  <2> SUFFICES ASSUME IInv, Built, model = Compact, Within(database), Unambiguous(database),
                      NEW a \in DOMAIN arcs, NEW b \in DOMAIN arcs, a[2] = b[1]
               PROVE  turn_table[a[2]][<<arcs[a].entry_point, arcs[b].exit_point>>] = Infinity <=>
                        \/ UTurn(a, b)
                        \/ \E r \in Range(database.restrictions) :
                             Forbids(r, ids[a[1] + 1], ids[a[2] + 1], ids[b[2] + 1])
    BY DEF TurnsForbidden
  <2>1. PICK v : v = a[2]
    OBVIOUS
  <2>2. v \in Vertices /\ a \in InArcs(v) /\ b \in OutArcs(v)
    BY <2>1, OnStreet DEF InArcs, OutArcs
  <2>3. untabled = {} /\ restrictions = <<>>
    BY DEF Built
  <2>4. /\ arcs[a].entry_point = Place(a, InArcs(v))
        /\ arcs[b].exit_point = Place(b, OutArcs(v))
    BY <2>1, <2>2, <2>3 DEF IInv, Indices
  <2>5. turn_table[v][<<Place(a, InArcs(v)), Place(b, OutArcs(v))>>] = Infinity <=> Closes(v, a, b)
    BY <2>2, <2>3 DEF IInv, TurnsMade
  <2>6. DOMAIN database.restrictions = 1 .. Passed
    <3>1. IsDatabase(database)
      BY <2>2, NothingRetrieved DEF IInv
    <3>2. database.restrictions \in
            Seq([via : Id, only : BOOLEAN, from : SUBSET Seq(Id), to : SUBSET Seq(Id)])
      BY <3>1 DEF IsDatabase, Database
    <3>3. QED
      BY <2>3, <3>2 DEF Passed
  <2>7. Closes(v, a, b) <=>
          UTurn(a, b) \/ \E k \in DOMAIN database.restrictions :
            Forbids(database.restrictions[k], ids[a[1] + 1], ids[v + 1], ids[b[2] + 1])
    BY <2>1, <2>6, RestrictionTaken DEF Closes
  <2>8. QED
    BY <2>1, <2>4, <2>5, <2>7 DEF Range
<1>2. QED
  BY <1>1, Invariant, PTL

-----------------------------------------------------------------------------
(* What has been read of an extract, at every phase of construct_model.    *)

\* The tables when the extract e has been imported.
WithNodes(e)     == insert_cached_nodes(EmptyTables, e.nodes)
WithWays(e)      == insert_cached_ways(WithNodes(e), e.ways)
WithRelations(e) == insert_cached_relations(WithWays(e), e.relations)

\* What has been cached after n blobs of its file.
Read(e, n) ==
  [nodes |-> IF n < 3 THEN <<>> ELSE e.nodes,
   ways |-> IF n < 4 THEN <<>> ELSE e.ways,
   relations |-> IF n < 5 THEN <<>> ELSE e.relations]

\* No row from q on is of an element that the rows before q are of.
Between(rs, q) ==
  /\ q \in 1 .. Len(rs) + 1
  /\ \A p \in 1 .. q - 1 : \A o \in q .. Len(rs) : rs[p].id # rs[o].id

\* The ids of the rows before q.
Seen(rs, q) == {rs[p].id : p \in 1 .. q - 1}

\* The elements of E that have their ids in I.
WithIds(E, I) == {x \in E : x.id \in I}

\* The ways of a side of a restriction, and those whose rows are before q.
Ways(e, r, role) ==
  {w \in RoadsOf(e) : \E mem \in Range(r.members) :
     mem.type = "way" /\ mem.id = w.id /\ mem.role = role}

OfSide(x, r, role, w) == x.id = r.id /\ x.role = role /\ x.way = w.id

RefsSeen(e, rs, r, role, q) ==
  {w.refs : w \in {x \in Ways(e, r, role) : \E p \in 1 .. q - 1 : OfSide(rs[p], r, role, x)}}

\* The restrictions that the extract says in full, and what each says.
Complete(e) ==
  {r \in Range(e.relations) :
     /\ r.tags \cap RestrictionKV # {} /\ Vias(r) # {}
     /\ SideOf(e, r, "from") # {} /\ SideOf(e, r, "to") # {}}

Said(e, r) == [via |-> CHOOSE v \in Vias(r) : TRUE, only |-> "restriction=only" \in r.tags,
               from |-> SideOf(e, r, "from"), to |-> SideOf(e, r, "to")]

\* What the relations R say has been found, each once.
FoundRestrictions(e, s, R) ==
  \E t \in [DOMAIN s -> R] : Lists(t, R) /\ s = [i \in DOMAIN t |-> Said(e, t[i])]

\* No row from q on is of the same way on the same side as one before it.
BetweenSides(rs, q) ==
  /\ q \in 1 .. Len(rs) + 1
  /\ \A p \in 1 .. q - 1 : \A o \in q .. Len(rs) :
       <<rs[p].id, rs[p].role, rs[p].way>> # <<rs[o].id, rs[o].role, rs[o].way>>

\* What has been read of the restriction r when the iterator is at q.
SideRead(e, rs, r, q) ==
  [id |-> r.id, via |-> CHOOSE v \in Vias(r) : TRUE, only |-> "restriction=only" \in r.tags,
   role |-> rs[q].role, from |-> RefsSeen(e, rs, r, "from", q), to |-> RefsSeen(e, rs, r, "to", q)]

-----------------------------------------------------------------------------
(* The invariant, phase by phase.                                          *)

\* The file is read into the tables, which may hold what it does already.
Importing(e) ==
  /\ phase \in {"open", "parse", "ways", "relations"}
  /\ found = NothingFound /\ side = NoSide
  /\ phase = "open" =>
       file = FileOf(e) /\ cached = NoElements /\ tables \in {EmptyTables, WithRelations(e)}
  /\ phase = "parse" =>
       /\ \E n \in 0 .. 5 : file = SubSeq(FileOf(e), n + 1, 5) /\ cached = Read(e, n)
       /\ tables \in {EmptyTables, WithRelations(e)}
  /\ phase \in {"ways", "relations"} => cached = Read(e, 5)
  /\ phase = "ways" => tables \in {WithNodes(e), WithRelations(e)}
  /\ phase = "relations" => tables \in {WithWays(e), WithRelations(e)}

\* The junctions of the rows passed have been found, each once.
ReadingNodes(e) ==
  /\ phase = "junctions" /\ tables = WithRelations(e) /\ side = NoSide
  /\ \E down \in BOOLEAN : rows_of = Ordered(NodeRows(tables, down))
  /\ Between(rows_of, qit)
  /\ found = [nodes |-> found.nodes, ways |-> <<>>, restrictions |-> <<>>]
  /\ Lists(found.nodes, WithIds(JunctionsOf(e), Seen(rows_of, qit)))

\* So have the roads, when all junctions have been.
ReadingWays(e) ==
  /\ phase = "segments" /\ tables = WithRelations(e) /\ side = NoSide
  /\ rows_of = Ordered(WayRows(tables))
  /\ Between(rows_of, qit)
  /\ found = [nodes |-> found.nodes, ways |-> found.ways, restrictions |-> <<>>]
  /\ Lists(found.nodes, JunctionsOf(e))
  /\ Lists(found.ways, WithIds(RoadsOf(e), Seen(rows_of, qit)))

\* Between two restrictions, all that have had their rows passed have been found.
BetweenRestrictions(e) ==
  /\ side = NoSide
  /\ Between(rows_of, qit)
  /\ FoundRestrictions(e, found.restrictions, WithIds(Complete(e), Seen(rows_of, qit)))

\* Within one, its ways have been read up to the iterator.
WithinRestriction(e) ==
  /\ ~ AtEnd(rows_of, qit)
  /\ BetweenSides(rows_of, qit)
  /\ \E r \in Range(e.relations) :
       r.id = rows_of[qit].id /\ side = SideRead(e, rows_of, r, qit)
  /\ FoundRestrictions(e, found.restrictions,
       WithIds(Complete(e), Seen(rows_of, qit) \ {rows_of[qit].id}))

ReadingRestrictions(e) ==
  /\ phase = "turns" /\ model = Compact /\ tables = WithRelations(e)
  /\ rows_of = Ordered(RestrictionRows(tables))
  /\ found = [nodes |-> found.nodes, ways |-> found.ways, restrictions |-> found.restrictions]
  /\ Lists(found.nodes, JunctionsOf(e))
  /\ Lists(found.ways, RoadsOf(e))
  /\ BetweenRestrictions(e) \/ WithinRestriction(e)

\* All rows have been passed.
AllRead(e) ==
  /\ phase \in {"retrieved", "build"}
  /\ found = [nodes |-> found.nodes, ways |-> found.ways, restrictions |-> found.restrictions]
  /\ Lists(found.nodes, JunctionsOf(e))
  /\ Lists(found.ways, RoadsOf(e))
  /\ IF model = Compact THEN FoundRestrictions(e, found.restrictions, Complete(e))
     ELSE found.restrictions = <<>>

Recovering(e) ==
  Importing(e) \/ ReadingNodes(e) \/ ReadingWays(e) \/ ReadingRestrictions(e) \/ AllRead(e)

\* What the extract has is being recovered.
RoadInv ==
  /\ extract \in Extracts
  /\ Regular(extract) => Recovering(extract)

-----------------------------------------------------------------------------
(* Rows in order: every row once, by its key.                              *)

\* SetToSeq lists a finite set.
LEMMA SetListed ==
  ASSUME NEW S, IsFiniteSet(S)
  PROVE  Lists(SetToSeq(S), S) /\ Len(SetToSeq(S)) = Cardinality(S)
<1> DEFINE n == Cardinality(S)
           s == SetToSeq(S)
<1>1. n \in Nat /\ ExistsBijection(1 .. n, S)
  BY FS_CardinalityType
<1>2. PICK g : g \in Bijection(1 .. n, S)
  BY <1>1 DEF ExistsBijection
<1>3. g \in [1 .. n -> S] /\ IsInjective(g)
  BY <1>2 DEF Bijection, Injection
<1>4. s = CHOOSE f \in [1 .. n -> S] : IsInjective(f)
  BY DEF SetToSeq
<1> HIDE DEF s, n
<1>5. s \in [1 .. n -> S] /\ IsInjective(s)
  BY <1>3, <1>4
<1>6. s \in Injection(1 .. n, S)
  BY <1>5 DEF Injection
<1>7. s \in Surjection(1 .. n, S)
  <2>1. IsFiniteSet(1 .. n) /\ Cardinality(1 .. n) = n
    BY <1>1, FS_Interval
  <2>2. QED
    BY <1>6, <2>1, FS_Injection DEF n
<1>8. \A x \in S : \E i \in 1 .. n : s[i] = x
  BY <1>7 DEF Surjection
<1>9. s \in Seq(S) /\ Len(s) = n /\ DOMAIN s = 1 .. n
  BY <1>1, <1>5
<1>10. Lists(s, S)
  BY <1>1, <1>5, <1>8, <1>9 DEF Lists, IsInjective
<1>11. QED
  BY <1>9, <1>10 DEF s, n

\* Rows with keys of m columns, which tell the rows apart.
Keyed(K, m) ==
  /\ IsFiniteSet(K) /\ m \in Nat
  /\ \A k \in K : k[1] \in [1 .. m -> Int]
  /\ \A k, l \in K : k[2] = l[2] => k = l

RowsOf(K) == {k[2] : k \in K}

\* The sequence s has all the rows of K, none of them after one with a later key.
Arranged(s, K) ==
  /\ Lists(s, RowsOf(K))
  /\ \A i, j \in 1 .. Len(s) : \A k, l \in K :
       i < j /\ s[i] = k[2] /\ s[j] = l[2] => ~ Before(l[1], k[1])

\* Keys are ordered by their columns.
LEMMA KeysOrdered ==
  ASSUME NEW m \in Nat, NEW a \in [1 .. m -> Int], NEW b \in [1 .. m -> Int], NEW c \in [1 .. m -> Int]
  PROVE  /\ ~ Before(a, a)
         /\ Before(a, b) /\ Before(b, c) => Before(a, c)
<1>1. ~ Before(a, a)
  BY DEF Before
<1>2. ASSUME Before(a, b), Before(b, c) PROVE Before(a, c)
  <2>1. PICK i \in 1 .. m : a[i] < b[i] /\ \A j \in 1 .. i - 1 : a[j] = b[j]
    BY <1>2 DEF Before
  <2>2. PICK k \in 1 .. m : b[k] < c[k] /\ \A j \in 1 .. k - 1 : b[j] = c[j]
    BY <1>2 DEF Before
  <2>3. CASE i <= k
    <3>1. a[i] < c[i]
      <4>1. i = k \/ i \in 1 .. k - 1
        BY <2>3
      <4>2. b[i] < c[i] \/ b[i] = c[i]
        BY <2>2, <4>1
      <4>3. a[i] \in Int /\ b[i] \in Int /\ c[i] \in Int
        OBVIOUS
      <4>4. QED
        BY <2>1, <4>2, <4>3
    <3>2. \A j \in 1 .. i - 1 : a[j] = c[j]
      BY <2>1, <2>2, <2>3
    <3>3. QED
      BY <3>1, <3>2 DEF Before
  <2>4. CASE k < i
    <3>1. a[k] = b[k]
      BY <2>1, <2>4
    <3>2. \A j \in 1 .. k - 1 : a[j] = c[j]
      BY <2>1, <2>2, <2>4
    <3>3. QED
      BY <2>2, <3>1, <3>2 DEF Before
  <2>5. QED
    BY <2>3, <2>4
<1>3. QED
  BY <1>1, <1>2

\* The rows of K of which n others come before.
Class(K, n) == {k \in K : Cardinality({l \in K : Before(l[1], k[1])}) = n}

\* A key before another one has fewer before it.
LEMMA ClassesOrdered ==
  ASSUME NEW K, NEW m, Keyed(K, m)
  PROVE  /\ \A k \in K : \E i \in 1 .. Cardinality(K) : k \in Class(K, i - 1)
         /\ \A i, j \in Nat : \A k \in Class(K, i), l \in Class(K, j) : Before(l[1], k[1]) => j < i
<1> DEFINE P(k) == {l \in K : Before(l[1], k[1])}
           n == Cardinality(K)
<1>1. IsFiniteSet(K) /\ n \in Nat /\ m \in Nat /\ \A k \in K : k[1] \in [1 .. m -> Int]
  BY FS_CardinalityType DEF Keyed
<1>2. ASSUME NEW k \in K
      PROVE  /\ P(k) \in SUBSET K /\ IsFiniteSet(P(k)) /\ Cardinality(P(k)) \in Nat
             /\ Cardinality(P(k)) <= n - 1
  <2>1. P(k) \in SUBSET K /\ k \notin P(k)
    BY <1>1, KeysOrdered
  <2>2. IsFiniteSet(P(k)) /\ Cardinality(P(k)) <= n /\ (n = Cardinality(P(k)) => K = P(k))
    BY <1>1, <2>1, FS_Subset
  <2>3. Cardinality(P(k)) \in Nat
    BY <2>2, FS_CardinalityType
  <2>4. n # Cardinality(P(k))
    BY <2>1, <2>2
  <2> HIDE DEF P, n
  <2>5. QED
    BY <1>1, <2>1, <2>2, <2>3, <2>4
<1>3. ASSUME NEW k \in K PROVE \E i \in 1 .. n : k \in Class(K, i - 1)
  <2>1. PICK i \in Nat : i = Cardinality(P(k)) /\ i <= n - 1
    BY <1>2
  <2>2. k \in Class(K, i)
    BY <2>1 DEF Class
  <2> HIDE DEF n
  <2>3. i + 1 \in 1 .. n /\ i + 1 - 1 = i
    BY <1>1, <2>1
  <2>4. QED
    BY <2>2, <2>3
<1>4. ASSUME NEW i \in Nat, NEW j \in Nat, NEW k \in Class(K, i), NEW l \in Class(K, j),
             Before(l[1], k[1])
      PROVE  j < i
  <2>1. k \in K /\ l \in K /\ Cardinality(P(k)) = i /\ Cardinality(P(l)) = j
    BY DEF Class
  <2>2. P(l) \in SUBSET P(k)
    <3>1. ASSUME NEW x \in K, Before(x[1], l[1]) PROVE Before(x[1], k[1])
      BY <1>1, <1>4, <2>1, <3>1, KeysOrdered
    <3>2. QED
      BY <3>1
  <2>3. l \in P(k) /\ l \notin P(l)
    BY <1>1, <1>4, <2>1, KeysOrdered
  <2>4. IsFiniteSet(P(k))
    BY <1>2, <2>1
  <2> HIDE DEF P
  <2>5. j <= i /\ j # i
    BY <2>1, <2>2, <2>3, <2>4, FS_Subset
  <2>6. QED
    BY <2>5
<1>5. QED
  BY <1>3, <1>4

\* The result of a query has its rows in order.
LEMMA ResultArranged ==
  ASSUME NEW K, NEW m, Keyed(K, m)
  PROVE  Arranged(Ordered(K), K)
<1> DEFINE n == Cardinality(K)
           R == RowsOf(K)
           C(i) == {k[2] : k \in Class(K, i - 1)}
           ss == [i \in 1 .. n |-> SetToSeq(C(i))]
           s == Ordered(K)
<1>1. n \in Nat /\ IsFiniteSet(K) /\ \A k, l \in K : k[2] = l[2] => k = l
  BY FS_CardinalityType DEF Keyed
<1>2. s = FlattenSeq(ss)
  BY DEF Ordered, Class
<1>3. ASSUME NEW i \in 1 .. n PROVE C(i) \in SUBSET R /\ Lists(ss[i], C(i))
  <2>1. Class(K, i - 1) \in SUBSET K
    BY DEF Class
  <2>2. IsFiniteSet(Class(K, i - 1))
    BY <1>1, <2>1, FS_Subset
  <2>3. IsFiniteSet(C(i))
    <3> DEFINE f == [k \in Class(K, i - 1) |-> k[2]]
    <3>1. f \in Surjection(Class(K, i - 1), C(i))
      BY DEF Surjection
    <3> HIDE DEF f, C
    <3>2. QED
      BY <2>2, <3>1, FS_Surjection
  <2>4. C(i) \in SUBSET R
    BY <2>1 DEF RowsOf
  <2>5. Lists(SetToSeq(C(i)), C(i))
    <3> HIDE DEF C
    <3>1. QED
      BY <2>3, SetListed
  <2> HIDE DEF C
  <2>6. QED
    BY <2>4, <2>5
<1>4. \A i \in 1 .. n : ss[i] \in Seq(R) /\ Len(ss[i]) \in Nat
  <2> SUFFICES ASSUME NEW i \in 1 .. n PROVE ss[i] \in Seq(R) /\ Len(ss[i]) \in Nat
    OBVIOUS
  <2> HIDE DEF C, ss, R
  <2>1. ss[i] \in Seq(C(i)) /\ C(i) \in SUBSET R /\ Len(ss[i]) \in Nat
    BY <1>3 DEF Lists
  <2>2. QED
    BY <2>1
<1>5. ss \in Seq(Seq(R)) /\ Len(ss) = n
  <2> HIDE DEF C, R, n
  <2>1. ss \in [1 .. n -> Seq(R)]
    BY <1>4
  <2> HIDE DEF ss
  <2>2. QED
    BY <1>1, <2>1
<1> HIDE DEF ss, s, n, R
<1>6. s \in Seq(R)
  BY <1>2, <1>5, FlattenedInPlace
<1>7. PICK o : Laid(ss, s, o)
  BY <1>2, <1>5, FlattenedInPlace
<1> HIDE DEF C
<1>8. /\ Len(s) \in Nat /\ DOMAIN s = 1 .. Len(s) /\ \A p \in 1 .. Len(s) : s[p] \in R
  BY <1>6
<1>9. /\ o \in [1 .. n + 1 -> Nat] /\ o[n + 1] = Len(s)
      /\ \A i \in 1 .. n : o[i + 1] = o[i] + Len(ss[i])
      /\ \A i, k \in 1 .. n + 1 : i <= k => o[i] <= o[k]
      /\ \A i \in 1 .. n : \A j \in 1 .. Len(ss[i]) : s[o[i] + j] = ss[i][j]
      /\ \A p \in 1 .. Len(s) : \E i \in 1 .. n : p - o[i] \in 1 .. Len(ss[i])
  BY <1>5, <1>7 DEF Laid
\* Where a row is, by its class.
<1>10. ASSUME NEW p \in 1 .. Len(s)
       PROVE  \E i \in 1 .. n : \E j \in 1 .. Len(ss[i]) : p = o[i] + j /\ s[p] = ss[i][j] /\ s[p] \in C(i)
  <2>1. PICK i \in 1 .. n : p - o[i] \in 1 .. Len(ss[i])
    BY <1>9
  <2>2. PICK j \in 1 .. Len(ss[i]) : j = p - o[i]
    BY <2>1
  <2>3. o[i] \in Nat
    BY <1>1, <1>9
  <2>4. p = o[i] + j
    BY <2>2, <2>3
  <2>5. s[p] = ss[i][j]
    BY <1>9, <2>4
  <2>6. ss[i][j] \in C(i)
    BY <1>3 DEF Lists
  <2>7. QED
    BY <2>4, <2>5, <2>6
<1>11. ASSUME NEW i \in 1 .. n, NEW k \in 1 .. n, NEW r, r \in C(i), r \in C(k) PROVE i = k
  <2>1. PICK x \in Class(K, i - 1) : r = x[2]
    BY <1>11 DEF C
  <2>2. PICK y \in Class(K, k - 1) : r = y[2]
    BY <1>11 DEF C
  <2>3. x = y
    BY <1>1, <2>1, <2>2 DEF Class
  <2>4. i - 1 = k - 1
    BY <2>3 DEF Class
  <2>5. QED
    BY <1>1, <2>4
<1>12. ASSUME NEW r \in R PROVE \E p \in 1 .. Len(s) : s[p] = r
  <2>1. PICK k \in K : r = k[2]
    BY DEF R, RowsOf
  <2>2. PICK i \in 1 .. n : k \in Class(K, i - 1)
    BY ClassesOrdered DEF n
  <2>3. r \in C(i)
    BY <2>1, <2>2 DEF C
  <2>4. PICK j \in 1 .. Len(ss[i]) : ss[i][j] = r
    BY <1>3, <2>3 DEF Lists
  <2>5. i \in 1 .. n + 1 /\ i + 1 \in 1 .. n + 1 /\ n + 1 \in 1 .. n + 1 /\ i + 1 <= n + 1
    BY <1>1
  <2>6. o[i] \in Nat /\ Len(ss[i]) \in Nat
    BY <1>4, <1>9, <2>5
  <2>7. o[i] + Len(ss[i]) <= Len(s)
    BY <1>9, <2>5
  <2>8. o[i] + j \in 1 .. Len(s)
    BY <1>8, <2>6, <2>7
  <2>9. QED
    BY <1>9, <2>4, <2>8
<1>13. ASSUME NEW p \in 1 .. Len(s), NEW q \in 1 .. Len(s), s[p] = s[q] PROVE p = q
  <2>1. PICK i \in 1 .. n : \E j \in 1 .. Len(ss[i]) : p = o[i] + j /\ s[p] = ss[i][j] /\ s[p] \in C(i)
    BY <1>10
  <2>2. PICK k \in 1 .. n : \E j \in 1 .. Len(ss[k]) : q = o[k] + j /\ s[q] = ss[k][j] /\ s[q] \in C(k)
    BY <1>10
  <2>3. i = k
    BY <1>11, <1>13, <2>1, <2>2
  <2>4. \A j, h \in 1 .. Len(ss[i]) : ss[i][j] = ss[i][h] => j = h
    BY <1>3 DEF Lists
  <2>5. QED
    BY <1>13, <2>1, <2>2, <2>3, <2>4
<1>14. Lists(s, R)
  BY <1>6, <1>8, <1>12, <1>13 DEF Lists
<1>15. ASSUME NEW p \in 1 .. Len(s), NEW q \in 1 .. Len(s), NEW k \in K, NEW l \in K,
              p < q, s[p] = k[2], s[q] = l[2], Before(l[1], k[1])
       PROVE  FALSE
  <2>1. PICK i \in 1 .. n : \E j \in 1 .. Len(ss[i]) : p = o[i] + j /\ s[p] \in C(i)
    BY <1>10
  <2>2. PICK h \in 1 .. n : \E j \in 1 .. Len(ss[h]) : q = o[h] + j /\ s[q] \in C(h)
    BY <1>10
  <2>3. k \in Class(K, i - 1) /\ l \in Class(K, h - 1)
    <3>1. ASSUME NEW x \in K, NEW d \in 1 .. n, x[2] \in C(d) PROVE x \in Class(K, d - 1)
      <4>1. PICK y \in Class(K, d - 1) : x[2] = y[2]
        BY <3>1 DEF C
      <4>2. y \in K
        BY DEF Class
      <4>3. x = y
        BY <1>1, <4>1, <4>2
      <4>4. QED
        BY <4>3
    <3>2. QED
      BY <1>15, <2>1, <2>2, <3>1
  <2>4. i - 1 \in Nat /\ h - 1 \in Nat
    BY <1>1
  <2>5. h - 1 < i - 1
    BY <1>15, <2>3, <2>4, ClassesOrdered
  <2>6. h + 1 <= i /\ h + 1 \in 1 .. n + 1 /\ i \in 1 .. n + 1
    BY <1>1, <2>5
  <2>7. o[h + 1] <= o[i] /\ o[h + 1] = o[h] + Len(ss[h])
    BY <1>9, <2>6
  <2>8. h \in 1 .. n + 1
    BY <1>1
  <2>9. o[i] \in Nat /\ o[h] \in Nat /\ Len(ss[h]) \in Nat
    BY <1>4, <1>9, <2>6, <2>8
  <2>10. PICK a \in 1 .. Len(ss[i]) : p = o[i] + a
    BY <2>1
  <2>11. PICK b \in 1 .. Len(ss[h]) : q = o[h] + b
    BY <2>2
  <2>12. q <= o[i] /\ p > o[i]
    BY <2>7, <2>9, <2>10, <2>11
  <2>13. QED
    BY <1>8, <1>15, <2>9, <2>12
<1>16. QED
  BY <1>14, <1>15 DEF Arranged, s, R

\* Rows in the order of h of which those with the value v are the set G, none of
\* them before q and no lower one from q on.
Follows(s, h, v, G, q) ==
  /\ h \in [1 .. Len(s) -> Int]
  /\ \A i, j \in 1 .. Len(s) : i < j => h[i] <= h[j]
  /\ \A p \in 1 .. Len(s) : h[p] = v <=> s[p] \in G
  /\ q \in 1 .. Len(s) + 1
  /\ \A p \in 1 .. q - 1 : h[p] < v
  /\ \A p \in q .. Len(s) : h[p] >= v

\* Rows of a kind are one after the other, as many as there are.
LEMMA RunOfRows ==
  ASSUME NEW R, NEW s, Lists(s, R), NEW G \in SUBSET R, IsFiniteSet(G),
         NEW h, NEW v \in Int, NEW q, Follows(s, h, v, G, q)
  PROVE  /\ q + Cardinality(G) \in q .. Len(s) + 1
         /\ \A p \in 1 .. Len(s) : s[p] \in G <=> p \in q .. q + Cardinality(G) - 1
         /\ {s[p] : p \in q .. q + Cardinality(G) - 1} = G
         /\ \A p \in 1 .. q + Cardinality(G) - 1 : h[p] <= v
         /\ \A p \in q + Cardinality(G) .. Len(s) : h[p] > v
<1> DEFINE N == Len(s)
           P == {p \in 1 .. N : h[p] = v}
           T == {i \in Nat : q + i \notin P}
<1>1. /\ N \in Nat /\ \A p \in 1 .. N : s[p] \in R
      /\ \A x \in R : \E p \in 1 .. N : s[p] = x
      /\ \A i, j \in 1 .. N : s[i] = s[j] => i = j
  BY DEF Lists
<1>2. /\ h \in [1 .. N -> Int] /\ \A i, j \in 1 .. N : i < j => h[i] <= h[j]
      /\ \A p \in 1 .. N : h[p] = v <=> s[p] \in G
      /\ q \in 1 .. N + 1 /\ \A p \in 1 .. q - 1 : h[p] < v
      /\ \A p \in q .. N : h[p] >= v
  BY DEF Follows
<1> HIDE DEF N
<1>3. PICK c \in T : \A i \in T : c <= i
  <2>1. N + 1 - q \in Nat /\ q + (N + 1 - q) = N + 1 /\ N + 1 \notin 1 .. N
    BY <1>1, <1>2
  <2>2. T \in SUBSET Nat /\ T # {}
    BY <2>1
  <2> HIDE DEF T
  <2>3. QED
    BY <2>2, LeastNatural
<1>4. c \in Nat /\ q + c \notin P
  OBVIOUS
<1>5. P = q .. q + c - 1
  <2>1. ASSUME NEW p \in q .. q + c - 1 PROVE p \in P
    <3>1. p - q \in Nat /\ p - q < c /\ q + (p - q) = p
      BY <1>1, <1>2, <1>4
    <3>2. p - q \notin T
      <4> HIDE DEF T
      <4>1. QED
        BY <1>3, <1>4, <3>1
    <3>3. QED
      BY <3>1, <3>2
  <2>2. ASSUME NEW p \in P PROVE p \in q .. q + c - 1
    <3>1. p \in 1 .. N /\ h[p] = v
      OBVIOUS
    <3>2. p >= q
      BY <1>1, <1>2, <3>1
    <3>3. ASSUME p >= q + c PROVE FALSE
      <4>1. q + c \in 1 .. N
        BY <1>1, <1>2, <1>4, <3>1, <3>3
      <4>2. h[q + c] # v
        BY <1>4, <4>1
      <4>3. h[q + c] >= v
        BY <1>1, <1>2, <1>4, <4>1
      <4>4. q + c < p \/ q + c = p
        BY <3>1, <3>3, <4>1
      <4>5. h[q + c] <= h[p] /\ h[q + c] \in Int
        BY <1>2, <3>1, <4>1, <4>4
      <4>6. QED
        BY <3>1, <4>2, <4>3, <4>5
    <3>4. QED
      BY <1>1, <1>2, <1>4, <3>1, <3>2, <3>3
  <2>3. QED
    BY <2>1, <2>2
<1> HIDE DEF P, T
<1>6. \A p \in 1 .. N : s[p] \in G <=> p \in P
  BY <1>2 DEF P
<1>7. {s[p] : p \in P} = G
  <2>1. P \in SUBSET (1 .. N)
    BY DEF P
  <2>2. ASSUME NEW x \in G PROVE \E p \in P : s[p] = x
    BY <1>1, <1>6
  <2>3. QED
    BY <1>6, <2>1, <2>2
<1>8. Cardinality(G) = c
  <2> DEFINE f == [p \in P |-> s[p]]
  <2>1. P \in SUBSET (1 .. N)
    BY DEF P
  <2>2. f \in Surjection(P, G)
    BY <1>7 DEF Surjection
  <2>3. f \in Injection(P, G)
    <3>1. f \in [P -> G]
      BY <1>7
    <3>2. QED
      BY <1>1, <2>1, <3>1 DEF Injection, IsInjective
  <2>4. IsFiniteSet(P) /\ Cardinality(P) = c
    <3>1. IsFiniteSet(q .. q + c - 1) /\ Cardinality(q .. q + c - 1) = c
      <4>1. q \in Int /\ q + c - 1 \in Int
        BY <1>2, <1>4
      <4>2. PICK b \in Int : b = q + c - 1
        BY <4>1
      <4>3. IsFiniteSet(q .. b) /\ Cardinality(q .. b) = IF q > b THEN 0 ELSE b - q + 1
        BY <4>1, FS_Interval
      <4>4. (IF q > b THEN 0 ELSE b - q + 1) = c
        BY <1>4, <4>1, <4>2
      <4>5. QED
        BY <4>2, <4>3, <4>4
    <3>2. QED
      BY <1>5, <3>1
  <2> HIDE DEF f
  <2>5. QED
    BY <2>2, <2>3, <2>4, FS_Surjection
<1>9. q + c \in q .. N + 1
  <2>1. CASE c = 0
    BY <1>1, <1>2, <2>1
  <2>2. CASE c # 0
    <3>1. q + c - 1 \in P
      BY <1>2, <1>4, <1>5, <2>2
    <3>2. q + c - 1 \in 1 .. N
      BY <3>1 DEF P
    <3>3. QED
      BY <1>1, <1>2, <1>4, <3>2
  <2>3. QED
    BY <2>1, <2>2
<1>10. \A p \in 1 .. q + c - 1 : h[p] <= v
  <2> SUFFICES ASSUME NEW p \in 1 .. q + c - 1 PROVE h[p] <= v
    OBVIOUS
  <2>1. p \in 1 .. N
    <3>1. q + c <= N + 1 /\ q \in Int
      BY <1>1, <1>2, <1>4, <1>9
    <3>2. QED
      BY <1>1, <1>4, <3>1
  <2>2. h[p] \in Int
    BY <1>2, <2>1
  <2>3. CASE p < q
    <3>1. p \in 1 .. q - 1
      BY <1>2, <2>3
    <3>2. h[p] < v
      BY <1>2, <3>1
    <3>3. QED
      BY <2>2, <3>2
  <2>4. CASE p >= q
    <3>1. p \in P
      BY <1>2, <1>4, <1>5, <2>4
    <3>2. QED
      BY <3>1 DEF P
  <2>5. QED
    BY <1>2, <2>3, <2>4
<1>11. \A p \in q + c .. N : h[p] > v
  <2> SUFFICES ASSUME NEW p \in q + c .. N PROVE h[p] > v
    OBVIOUS
  <2>1. p \in 1 .. N /\ p \in q .. N /\ p \notin q .. q + c - 1
    BY <1>1, <1>2, <1>4
  <2>2. h[p] >= v /\ h[p] # v /\ h[p] \in Int
    BY <1>2, <1>5, <2>1 DEF P
  <2>3. QED
    BY <2>2
<1>12. \A p \in 1 .. N : s[p] \in G <=> p \in q .. q + c - 1
  BY <1>5, <1>6
<1>13. {s[p] : p \in q .. q + c - 1} = G
  BY <1>5, <1>7
<1>14. QED
  BY <1>8, <1>9, <1>10, <1>11, <1>12, <1>13 DEF N

\* Rows in the order of h, of which g[i] is the one with the value i, for i below n;
\* before q are those with negative values.
Counts(s, R, h, n, g, q) ==
  /\ h \in [1 .. Len(s) -> Int]
  /\ \A i, j \in 1 .. Len(s) : i < j => h[i] <= h[j]
  /\ \A i \in 0 .. n - 1 : g[i] \in R
  /\ \A p \in 1 .. Len(s) : \A i \in 0 .. n - 1 : h[p] = i <=> s[p] = g[i]
  /\ q \in 1 .. Len(s) + 1
  /\ \A p \in 1 .. q - 1 : h[p] < 0
  /\ \A p \in q .. Len(s) : h[p] >= 0

\* The rows from q on are those with the values from 0, in their order.
Counted(s, h, n, g, q) ==
  /\ q + n \in q .. Len(s) + 1
  /\ \A i \in 0 .. n - 1 : s[q + i] = g[i]
  /\ \A p \in 1 .. q + n - 1 : h[p] < n
  /\ \A p \in q + n .. Len(s) : h[p] >= n

\* Rows whose values are the numbers from 0, one row for each, are in the order of
\* their values.
LEMMA CountedRows ==
  ASSUME NEW R, NEW s, Lists(s, R), NEW h, NEW n \in Nat, NEW g, NEW q, Counts(s, R, h, n, g, q)
  PROVE  Counted(s, h, n, g, q)
<1> DEFINE N == Len(s)
           Up(k) == /\ q + k \in q .. N + 1
                    /\ \A i \in 0 .. k - 1 : s[q + i] = g[i]
                    /\ \A p \in 1 .. q + k - 1 : h[p] < k
                    /\ \A p \in q + k .. N : h[p] >= k
           T == {k \in 0 .. n : Up(k)}
<1>1. N \in Nat
  BY DEF Lists
<1> USE DEF Counts
<1> HIDE DEF N
<1>2. 0 \in T
  <2>1. q + 0 = q /\ q - 1 = q + 0 - 1 /\ 0 .. 0 - 1 = {} /\ q \in q .. N + 1
    BY <1>1 DEF N
  <2>2. QED
    BY <2>1 DEF N
<1>3. ASSUME NEW k \in 0 .. n - 1, k \in T PROVE k + 1 \in T
  <2>1. Up(k)
    BY <1>3
  <2>2. q + k \in 1 .. N + 1
    BY <1>1, <2>1 DEF N
  <2>3. {g[k]} \in SUBSET R /\ IsFiniteSet({g[k]}) /\ Cardinality({g[k]}) = 1
    BY FS_Singleton
  <2>4. \A p \in 1 .. N : h[p] = k <=> s[p] \in {g[k]}
    BY DEF N
  <2>5. Follows(s, h, k, {g[k]}, q + k)
    BY <2>1, <2>2, <2>4 DEF Follows, N
  <2>6. k \in Int
    OBVIOUS
  <2>7. /\ q + k + 1 \in q + k .. N + 1
        /\ {s[p] : p \in q + k .. q + k + 1 - 1} = {g[k]}
        /\ \A p \in 1 .. q + k + 1 - 1 : h[p] <= k
        /\ \A p \in q + k + 1 .. N : h[p] > k
    <3> HIDE DEF Up, T
    <3> DEFINE a == q + k
               G == {g[k]}
    <3>1. Follows(s, h, k, G, a) /\ G \in SUBSET R /\ IsFiniteSet(G) /\ Cardinality(G) = 1
      BY <2>3, <2>5
    <3> HIDE DEF a, G
    <3>2. /\ a + Cardinality(G) \in a .. Len(s) + 1
          /\ {s[p] : p \in a .. a + Cardinality(G) - 1} = G
          /\ \A p \in 1 .. a + Cardinality(G) - 1 : h[p] <= k
          /\ \A p \in a + Cardinality(G) .. Len(s) : h[p] > k
      BY <2>6, <3>1, RunOfRows
    <3>3. /\ a + 1 \in a .. N + 1
          /\ {s[p] : p \in a .. a + 1 - 1} = G
          /\ \A p \in 1 .. a + 1 - 1 : h[p] <= k
          /\ \A p \in a + 1 .. N : h[p] > k
      BY <3>1, <3>2, Zenon DEF N
    <3>4. QED
      BY <3>3 DEF a, G
  <2>8. s[q + k] = g[k]
    <3>1. q + k \in q + k .. q + k + 1 - 1
      BY <2>2
    <3>2. s[q + k] \in {s[p] : p \in q + k .. q + k + 1 - 1}
      BY <3>1
    <3>3. QED
      BY <2>7, <3>2
  <2>9. q + (k + 1) = q + k + 1 /\ q + (k + 1) \in q .. N + 1
    BY <2>2, <2>7
  <2>10. \A i \in 0 .. k + 1 - 1 : s[q + i] = g[i]
    <3>1. \A i \in 0 .. k + 1 - 1 : i = k \/ i \in 0 .. k - 1
      OBVIOUS
    <3>2. QED
      BY <2>1, <2>8, <3>1
  <2>11. \A p \in 1 .. q + (k + 1) - 1 : h[p] < k + 1
    <3> SUFFICES ASSUME NEW p \in 1 .. q + (k + 1) - 1 PROVE h[p] < k + 1
      OBVIOUS
    <3>1. p \in 1 .. N /\ h[p] <= k
      BY <1>1, <2>2, <2>7, <2>9
    <3>2. h[p] \in Int
      BY <3>1 DEF N
    <3>3. QED
      BY <3>1, <3>2
  <2>12. \A p \in q + (k + 1) .. N : h[p] >= k + 1
    <3> SUFFICES ASSUME NEW p \in q + (k + 1) .. N PROVE h[p] >= k + 1
      OBVIOUS
    <3>1. p \in 1 .. N /\ h[p] > k
      BY <1>1, <2>2, <2>7, <2>9
    <3>2. h[p] \in Int
      BY <3>1 DEF N
    <3>3. QED
      BY <3>1, <3>2
  <2> HIDE DEF T
  <2>13. Up(k + 1)
    BY <2>9, <2>10, <2>11, <2>12
  <2> HIDE DEF Up
  <2>14. QED
    BY <2>13 DEF T
<1> HIDE DEF T, Up
<1>4. \A k \in 0 .. n : k \in T
  BY <1>2, <1>3, InductionUpTo
<1>5. Up(n)
  BY <1>4 DEF T
<1>6. QED
  BY <1>5 DEF Up, N, Counted

-----------------------------------------------------------------------------
(* The file: what was written is read.                                     *)

\* Adding up differences gives back the numbers.
LEMMA DeltasAddUp ==
  ASSUME NEW s \in Seq(Int)
  PROVE  Accumulated(Delta(s)) = s
<1> DEFINE n == Len(s)
           d == Delta(s)
           Unfolds(f) == f = [i \in 0 .. Len(d) |-> IF i = 0 THEN 0 ELSE f[i - 1] + d[i]]
           ref == CHOOSE f : Unfolds(f)
           g == [i \in 0 .. n |-> IF i = 0 THEN 0 ELSE s[i]]
<1>1. n \in Nat /\ DOMAIN s = 1 .. n /\ \A i \in 1 .. n : s[i] \in Int
  OBVIOUS
<1>2. /\ Len(d) = n /\ DOMAIN d = 1 .. n
      /\ \A i \in 1 .. n : d[i] = s[i] - (IF i = 1 THEN 0 ELSE s[i - 1])
  BY DEF Delta
<1> HIDE DEF n, d
<1>3. Unfolds(g)
  <2>1. ASSUME NEW i \in 0 .. n
        PROVE  (IF i = 0 THEN 0 ELSE s[i]) = IF i = 0 THEN 0 ELSE g[i - 1] + d[i]
    <3>1. CASE i = 0
      BY <3>1
    <3>2. CASE i = 1
      <4>1. g[i - 1] = 0 /\ d[i] = s[i]
        BY <1>1, <1>2, <3>2
      <4>2. QED
        BY <1>1, <3>2, <4>1
    <3>3. CASE i # 0 /\ i # 1
      <4>1. i \in 1 .. n /\ i - 1 \in 1 .. n
        BY <1>1, <3>3
      <4>2. g[i - 1] = s[i - 1] /\ d[i] = s[i] - s[i - 1]
        BY <1>2, <3>3, <4>1
      <4>3. QED
        BY <1>1, <3>3, <4>1, <4>2
    <3>4. QED
      BY <3>1, <3>2, <3>3
  <2>2. QED
    BY <1>2, <2>1
<1>4. Unfolds(ref)
  <2> HIDE DEF g
  <2>1. QED
    BY <1>3
<1> HIDE DEF ref
<1>5. ref = [i \in 0 .. n |-> IF i = 0 THEN 0 ELSE ref[i - 1] + d[i]]
  BY <1>2, <1>4
<1> HIDE DEF Unfolds
<1> DEFINE T == {i \in 0 .. n : ref[i] = g[i]}
<1>6. 0 \in T
  BY <1>1, <1>5
<1>7. ASSUME NEW k \in 0 .. n - 1, k \in T PROVE k + 1 \in T
  <2>1. k + 1 \in 1 .. n /\ k + 1 \in 0 .. n /\ k + 1 - 1 = k
    BY <1>1
  <2>2. ref[k + 1] = ref[k] + d[k + 1]
    <3>1. PICK i \in 1 .. n : i = k + 1
      BY <2>1
    <3>2. i \in 0 .. n /\ i # 0 /\ i - 1 = k
      BY <1>1, <3>1
    <3>3. ref[i] = IF i = 0 THEN 0 ELSE ref[i - 1] + d[i]
      BY <1>5, <3>2
    <3>4. ref[i] = ref[i - 1] + d[i]
      BY <3>2, <3>3
    <3>5. QED
      BY <3>1, <3>2, <3>4, Zenon
  <2>3. ref[k] = g[k] /\ g[k + 1] = s[k + 1]
    BY <1>7, <2>1
  <2>4. d[k + 1] = s[k + 1] - (IF k = 0 THEN 0 ELSE s[k])
    BY <1>2, <2>1
  <2>5. g[k] = IF k = 0 THEN 0 ELSE s[k]
    BY <1>1
  <2>6. g[k] \in Int /\ s[k + 1] \in Int
    BY <1>1, <2>1, <2>5
  <2>7. ref[k + 1] = s[k + 1]
    BY <2>2, <2>3, <2>4, <2>5, <2>6
  <2>8. QED
    BY <2>1, <2>3, <2>7
<1> HIDE DEF T
<1>8. \A i \in 0 .. n : i \in T
  BY <1>1, <1>6, <1>7, InductionUpTo
<1>9. \A i \in 1 .. n : ref[i] = s[i]
  BY <1>1, <1>8 DEF T
<1>10. Accumulated(d) = [i \in DOMAIN d |-> ref[i]]
  BY DEF Accumulated, ref, Unfolds
<1>11. Accumulated(d) = [i \in 1 .. n |-> s[i]]
  BY <1>2, <1>9, <1>10
<1>12. QED
  BY <1>1, <1>11 DEF d

\* One sequence alone.
LEMMA FlattenedAlone ==
  ASSUME NEW S, NEW x \in Seq(S)
  PROVE  FlattenSeq([g \in 1 .. 1 |-> x]) = x
<1> DEFINE ss == [g \in 1 .. 1 |-> x]
<1>1. ss \in Seq(Seq(S)) /\ Len(ss) = 1 /\ ss[1] = x
  OBVIOUS
<1> HIDE DEF ss
<1>2. PICK f : Concats(f, ss, S)
  BY <1>1, ConcatsExist
<1>3. FlattenSeq(ss) = f[1]
  BY <1>1, <1>2, FlattenIsLast
<1>4. PICK i \in 1 .. 1 : i = 1
  OBVIOUS
<1>5. f[i] = f[i - 1] \o ss[i]
  BY <1>1, <1>2, Zenon DEF Concats
<1>6. i - 1 = 0 /\ f[0] = <<>>
  BY <1>2, <1>4 DEF Concats
<1>7. f[1] = <<>> \o x
  BY <1>1, <1>4, <1>5, <1>6, Zenon
<1>8. <<>> \o x = x
  OBVIOUS
<1>9. QED
  BY <1>3, <1>7, <1>8 DEF ss

\* The tags of dense nodes: sets of tags, each followed by a stop, one after the
\* other.
Stopped(tags) == [i \in DOMAIN tags |-> Append(SetToSeq(tags[i]), Stop)]

\* The i-th stop ends the tags of the i-th node.
LEMMA DenseTagsRead ==
  ASSUME NEW tags \in Seq(SUBSET STRING),
         \A i \in DOMAIN tags : IsFiniteSet(tags[i]) /\ Stop \notin tags[i],
         NEW i \in DOMAIN tags
  PROVE  DenseTags(FlattenSeq(Stopped(tags)), i) = tags[i]
<1> DEFINE n == Len(tags)
           ss == Stopped(tags)
           kv == FlattenSeq(ss)
           len(h) == Len(ss[h]) - 1
           V == STRING \cup {Stop}
<1>1. n \in Nat /\ DOMAIN tags = 1 .. n /\ \A h \in 1 .. n : tags[h] \in SUBSET STRING
  OBVIOUS
<1> HIDE DEF n
<1>2. ASSUME NEW h \in 1 .. n
      PROVE  /\ ss[h] \in Seq(V) /\ Len(ss[h]) \in Nat \ {0} /\ ss[h][Len(ss[h])] = Stop
             /\ \A j \in 1 .. len(h) : ss[h][j] \in tags[h]
             /\ \A t \in tags[h] : \E j \in 1 .. len(h) : ss[h][j] = t
  <2>1. ss[h] = Append(SetToSeq(tags[h]), Stop)
    BY <1>1 DEF Stopped
  <2>2. PICK t \in Seq(tags[h]) : t = SetToSeq(tags[h]) /\ Lists(t, tags[h])
    BY <1>1, SetListed DEF Lists
  <2>3. t \in Seq(V) /\ Stop \in V
    BY <1>1, <2>2
  <2> HIDE DEF V
  <2>4. /\ Append(t, Stop) \in Seq(V) /\ Len(Append(t, Stop)) = Len(t) + 1
        /\ \A j \in 1 .. Len(t) : Append(t, Stop)[j] = t[j]
        /\ Append(t, Stop)[Len(t) + 1] = Stop
    BY <2>3
  <2>5. ss[h] = Append(t, Stop) /\ Len(t) \in Nat
    BY <2>1, <2>2
  <2> HIDE DEF ss
  <2>6. Len(ss[h]) = Len(t) + 1 /\ len(h) = Len(t)
    BY <2>4, <2>5
  <2>7. \A j \in 1 .. Len(t) : ss[h][j] = t[j] /\ t[j] \in tags[h]
    BY <2>2, <2>4, <2>5 DEF Lists
  <2>8. \A x \in tags[h] : \E j \in 1 .. Len(t) : t[j] = x
    BY <2>2 DEF Lists
  <2>9. QED
    BY <2>4, <2>5, <2>6, <2>7, <2>8
<1>3. ss \in Seq(Seq(V)) /\ Len(ss) = n
  <2>1. ss \in [1 .. n -> Seq(V)]
    <3>1. ss = [h \in 1 .. n |-> ss[h]]
      BY <1>1 DEF Stopped
    <3> HIDE DEF ss
    <3>2. QED
      BY <1>2, <3>1
  <2> HIDE DEF ss
  <2>2. QED
    BY <1>1, <2>1
<1> HIDE DEF ss
<1>4. PICK o : Laid(ss, kv, o)
  BY <1>3, FlattenedInPlace
<1>5. kv \in Seq(V)
  BY <1>3, FlattenedInPlace
<1> HIDE DEF kv
<1>6. /\ o \in [1 .. n + 1 -> Nat] /\ o[1] = 0 /\ o[n + 1] = Len(kv)
      /\ \A h \in 1 .. n : o[h + 1] = o[h] + Len(ss[h])
      /\ \A h, k \in 1 .. n + 1 : h <= k => o[h] <= o[k]
      /\ \A h \in 1 .. n : \A j \in 1 .. Len(ss[h]) : kv[o[h] + j] = ss[h][j]
      /\ \A p \in 1 .. Len(kv) : \E h \in 1 .. n : p - o[h] \in 1 .. Len(ss[h])
  BY <1>3, <1>4 DEF Laid
<1>7. DOMAIN kv = 1 .. Len(kv) /\ Len(kv) \in Nat
  BY <1>5
\* The stops are where the tags of a node end.
<1>8. ASSUME NEW p \in 1 .. Len(kv)
      PROVE  \E h \in 1 .. n : /\ p - o[h] \in 1 .. Len(ss[h])
                               /\ kv[p] = ss[h][p - o[h]]
                               /\ kv[p] = Stop <=> p = o[h + 1]
  <2>1. PICK h \in 1 .. n : p - o[h] \in 1 .. Len(ss[h])
    BY <1>6
  <2>2. o[h] \in Nat /\ o[h + 1] = o[h] + Len(ss[h]) /\ Len(ss[h]) \in Nat \ {0}
    <3>1. h \in 1 .. n + 1
      BY <1>1
    <3>2. QED
      BY <1>2, <1>6, <3>1
  <2>3. PICK j \in 1 .. Len(ss[h]) : j = p - o[h] /\ p = o[h] + j
    BY <2>1, <2>2
  <2>4. kv[p] = ss[h][j]
    BY <1>6, <2>3
  <2>5. CASE j = Len(ss[h])
    <3>1. kv[p] = Stop
      BY <1>2, <2>4, <2>5
    <3>2. p = o[h + 1]
      BY <2>2, <2>3, <2>5
    <3>3. QED
      BY <2>1, <2>3, <2>4, <3>1, <3>2
  <2>6. CASE j # Len(ss[h])
    <3>1. j \in 1 .. len(h)
      BY <2>2, <2>6
    <3>2. kv[p] \in tags[h] /\ Stop \notin tags[h]
      BY <1>1, <1>2, <2>4, <3>1
    <3>3. p # o[h + 1]
      BY <2>2, <2>3, <2>6
    <3>4. kv[p] # Stop
      BY <3>2
    <3>5. QED
      BY <2>1, <2>3, <2>4, <3>3, <3>4
  <2>7. QED
    BY <2>5, <2>6
<1> DEFINE Z(p) == {k \in 1 .. p - 1 : kv[k] = Stop}
<1>9. ASSUME NEW p \in 1 .. Len(kv), NEW h \in 1 .. n, p - o[h] \in 1 .. Len(ss[h])
      PROVE  Cardinality(Z(p)) = h - 1
  <2>1. /\ h \in 1 .. n + 1 /\ h + 1 \in 1 .. n + 1
        /\ o[h] \in Nat /\ o[h + 1] = o[h] + Len(ss[h]) /\ Len(ss[h]) \in Nat \ {0}
    <3>1. h \in 1 .. n + 1 /\ h + 1 \in 1 .. n + 1
      BY <1>1
    <3>2. QED
      BY <1>2, <1>6, <3>1
  <2>2. p > o[h] /\ p <= o[h + 1]
    BY <1>9, <2>1
  <2> DEFINE f == [k \in 1 .. h - 1 |-> o[k + 1]]
  <2>3. ASSUME NEW k \in 1 .. h - 1 PROVE o[k + 1] \in Z(p)
    <3>1. k \in 1 .. n /\ k \in 1 .. n + 1 /\ k + 1 \in 1 .. n + 1 /\ k + 1 <= h
      BY <1>1
    <3>2. o[k + 1] <= o[h] /\ o[k + 1] = o[k] + Len(ss[k]) /\ o[k] \in Nat
          /\ Len(ss[k]) \in Nat \ {0} /\ o[k + 1] \in Nat
      BY <1>2, <1>6, <2>1, <3>1
    <3>3. o[k + 1] \in 1 .. p - 1
      BY <2>1, <2>2, <3>2
    <3>4. Len(ss[k]) \in 1 .. Len(ss[k])
      BY <3>2
    <3>5. kv[o[k] + Len(ss[k])] = ss[k][Len(ss[k])]
      BY <1>6, <3>1, <3>4
    <3>6. kv[o[k + 1]] = Stop
      BY <1>2, <3>1, <3>2, <3>5
    <3>7. QED
      BY <3>3, <3>6
  <2>4. ASSUME NEW z \in Z(p) PROVE \E k \in 1 .. h - 1 : o[k + 1] = z
    <3>1. z \in 1 .. p - 1 /\ z \in 1 .. Len(kv) /\ kv[z] = Stop
      BY <1>7
    <3>2. PICK k \in 1 .. n : z - o[k] \in 1 .. Len(ss[k]) /\ z = o[k + 1]
      BY <1>8, <3>1
    <3>3. ASSUME k >= h PROVE FALSE
      <4>1. h + 1 <= k + 1 /\ k + 1 \in 1 .. n + 1
        BY <1>1, <3>3
      <4>2. o[h + 1] <= o[k + 1]
        BY <1>6, <2>1, <4>1
      <4>3. QED
        BY <2>1, <2>2, <3>1, <3>2, <4>2
    <3>4. k \in 1 .. h - 1
      BY <3>3
    <3>5. QED
      BY <3>2, <3>4
  <2>5. ASSUME NEW k \in 1 .. h - 1, NEW m \in 1 .. h - 1, k < m PROVE o[k + 1] < o[m + 1]
    <3>1. m \in 1 .. n /\ m \in 1 .. n + 1 /\ k + 1 \in 1 .. n + 1 /\ k + 1 <= m
      BY <1>1, <2>5
    <3>2. o[k + 1] <= o[m] /\ o[m + 1] = o[m] + Len(ss[m]) /\ o[m] \in Nat
          /\ Len(ss[m]) \in Nat \ {0} /\ o[k + 1] \in Nat
      BY <1>2, <1>6, <3>1
    <3>3. QED
      BY <3>2
  <2>6. \A k \in 1 .. h - 1 : o[k + 1] \in Nat
    <3>1. \A k \in 1 .. h - 1 : k + 1 \in 1 .. n + 1
      BY <1>1
    <3>2. QED
      BY <1>6, <3>1
  <2> HIDE DEF Z
  <2>7. f \in Surjection(1 .. h - 1, Z(p))
    BY <2>3, <2>4 DEF Surjection
  <2>8. f \in Injection(1 .. h - 1, Z(p))
    <3>1. \A k, m \in 1 .. h - 1 : o[k + 1] = o[m + 1] => k = m
      <4> SUFFICES ASSUME NEW k \in 1 .. h - 1, NEW m \in 1 .. h - 1, o[k + 1] = o[m + 1]
                   PROVE  k = m
        OBVIOUS
      <4>1. ~ (k < m) /\ ~ (m < k)
        BY <2>5, <2>6
      <4>2. QED
        BY <4>1
    <3>2. QED
      BY <2>3, <3>1 DEF Injection, IsInjective
  <2>9. IsFiniteSet(1 .. h - 1) /\ Cardinality(1 .. h - 1) = h - 1
    <3>1. PICK b \in Nat : b = h - 1
      OBVIOUS
    <3>2. IsFiniteSet(1 .. b) /\ Cardinality(1 .. b) = IF 1 > b THEN 0 ELSE b - 1 + 1
      BY FS_Interval
    <3>3. QED
      BY <3>1, <3>2
  <2> HIDE DEF f
  <2>10. QED
    BY <2>7, <2>8, <2>9, FS_Surjection
<1>10. DenseTags(kv, i) =
         {kv[j] : j \in {k \in 1 .. Len(kv) : kv[k] # Stop /\ Cardinality(Z(k)) = i - 1}}
  BY <1>7 DEF DenseTags
<1> HIDE DEF Z
<1>11. i \in 1 .. n
  BY <1>1
<1>12. ASSUME NEW j \in 1 .. Len(kv), kv[j] # Stop, Cardinality(Z(j)) = i - 1
       PROVE  kv[j] \in tags[i]
  <2>1. PICK h \in 1 .. n : /\ j - o[h] \in 1 .. Len(ss[h])
                            /\ kv[j] = ss[h][j - o[h]]
                            /\ kv[j] = Stop <=> j = o[h + 1]
    BY <1>8
  <2>2. h - 1 = i - 1
    BY <1>9, <1>12, <2>1
  <2>3. h = i
    BY <1>11, <2>2
  <2>4. o[h] \in Nat /\ o[h + 1] = o[h] + Len(ss[h]) /\ Len(ss[h]) \in Nat \ {0}
    <3>1. h \in 1 .. n + 1
      BY <1>1
    <3>2. QED
      BY <1>2, <1>6, <3>1
  <2>5. j - o[h] \in 1 .. len(h)
    BY <1>12, <2>1, <2>4
  <2>6. QED
    BY <1>2, <2>1, <2>3, <2>5
<1>13. ASSUME NEW t \in tags[i]
       PROVE  \E j \in 1 .. Len(kv) : kv[j] # Stop /\ Cardinality(Z(j)) = i - 1 /\ kv[j] = t
  <2>1. PICK j \in 1 .. len(i) : ss[i][j] = t
    BY <1>2, <1>11
  <2>2. /\ i \in 1 .. n + 1 /\ i + 1 \in 1 .. n + 1 /\ n + 1 \in 1 .. n + 1 /\ i + 1 <= n + 1
    BY <1>1, <1>11
  <2>3. o[i] \in Nat /\ o[i + 1] = o[i] + Len(ss[i]) /\ Len(ss[i]) \in Nat \ {0}
        /\ o[i + 1] <= Len(kv)
    BY <1>2, <1>6, <1>11, <2>2
  <2>4. j \in 1 .. Len(ss[i]) /\ o[i] + j \in 1 .. Len(kv) /\ o[i] + j - o[i] = j
    BY <1>7, <2>3
  <2>5. kv[o[i] + j] = t
    BY <1>6, <1>11, <2>1, <2>4
  <2>6. Cardinality(Z(o[i] + j)) = i - 1
    <3>1. PICK p \in 1 .. Len(kv) : p = o[i] + j
      BY <2>4
    <3>2. p - o[i] = j /\ j \in 1 .. Len(ss[i])
      BY <2>3, <2>4, <3>1
    <3>3. Cardinality(Z(p)) = i - 1
      BY <1>9, <1>11, <3>2
    <3>4. QED
      BY <3>1, <3>3
  <2>7. t # Stop
    BY <1>1, <1>11
  <2>8. QED
    BY <2>4, <2>5, <2>6, <2>7
<1>14. QED
  BY <1>10, <1>12, <1>13 DEF kv, ss

\* What an extract is made of.
ExtractNode == [id : Id, lon : Int, tags : SUBSET STRING]
ExtractWay == [id : Nat, refs : Seq(Id), tags : SUBSET Tag]
ExtractMember == [type : STRING, id : Nat, role : STRING]
ExtractRelation == [id : Nat, tags : SUBSET STRING, members : Seq(ExtractMember)]

\* An extract, part by part.
LEMMA ExtractParts ==
  ASSUME NEW e \in Extracts
  PROVE  /\ e.nodes \in Seq(ExtractNode) /\ e.ways \in Seq(ExtractWay) /\ e.relations \in Seq(ExtractRelation)
         /\ e.dense \in BOOLEAN /\ e.offset \in Int
         /\ \A i \in DOMAIN e.nodes :
              e.nodes[i].id > 0 /\ IsFiniteSet(e.nodes[i].tags) /\ {Stop, NoTag} \cap e.nodes[i].tags = {}
         /\ \A i, j \in DOMAIN e.nodes : e.nodes[i].id = e.nodes[j].id => i = j
         /\ \A i \in DOMAIN e.ways :
              /\ e.ways[i].id > 0 /\ IsFiniteSet(e.ways[i].tags) /\ {Stop, NoTag} \cap e.ways[i].tags = {}
              /\ 0 \notin Range(e.ways[i].refs)
         /\ \A i, j \in DOMAIN e.ways : e.ways[i].id = e.ways[j].id => i = j
         /\ \A i \in DOMAIN e.relations :
              /\ e.relations[i].id > 0 /\ IsFiniteSet(e.relations[i].tags)
              /\ {Stop, NoTag} \cap e.relations[i].tags = {}
         /\ \A i, j \in DOMAIN e.relations : e.relations[i].id = e.relations[j].id => i = j
<1>1. IsExtract(e)
  BY ExtractAssumption
<1>2. e \in [nodes : Seq(ExtractNode), ways : Seq(ExtractWay), relations : Seq(ExtractRelation),
             dense : BOOLEAN, offset : Int, packed : STRING]
  BY <1>1 DEF IsExtract, ExtractNode, ExtractWay, ExtractMember, ExtractRelation
<1>3. \A S \in {e.nodes, e.ways, e.relations} :
       /\ \A i \in DOMAIN S : S[i].id > 0 /\ IsFiniteSet(S[i].tags) /\ {Stop, NoTag} \cap S[i].tags = {}
       /\ \A i, j \in DOMAIN S : S[i].id = S[j].id => i = j
  BY <1>1 DEF IsExtract
<1>4. \A w \in DOMAIN e.ways : 0 \notin Range(e.ways[w].refs)
  BY <1>1 DEF IsExtract
<1>5. e.nodes \in Seq(ExtractNode) /\ e.ways \in Seq(ExtractWay) /\ e.relations \in Seq(ExtractRelation)
      /\ e.dense \in BOOLEAN /\ e.offset \in Int
  BY <1>2
<1> HIDE DEF ExtractNode, ExtractWay, ExtractMember, ExtractRelation
<1>6. QED
  BY <1>3, <1>4, <1>5, Zenon

\* Dense nodes are read back.
LEMMA DenseNodesRead ==
  ASSUME NEW e \in Extracts, e.offset = 0
  PROVE  DenseNodes(Dense(e), e.offset) = e.nodes
<1> DEFINE N == e.nodes
           n == Len(N)
           I == [i \in DOMAIN N |-> N[i].id]
           L == [i \in DOMAIN N |-> N[i].lon - e.offset]
           tags == [i \in DOMAIN N |-> N[i].tags]
           kv == Dense(e).keys_vals
<1>1. /\ N \in Seq(ExtractNode)
      /\ \A i \in DOMAIN N : IsFiniteSet(N[i].tags) /\ Stop \notin N[i].tags
  BY ExtractParts
<1>2. n \in Nat /\ DOMAIN N = 1 .. n /\ \A i \in 1 .. n : N[i] \in ExtractNode
  BY <1>1
<1>3. Id \subseteq Nat
  BY ExtractAssumption
<1> HIDE DEF N, n
<1>4. ASSUME NEW i \in 1 .. n
      PROVE  /\ N[i].id \in Int /\ N[i].lon \in Int /\ N[i].tags \in SUBSET STRING
             /\ N[i] = [id |-> N[i].id, lon |-> N[i].lon, tags |-> N[i].tags]
  <2>1. PICK a \in Id, b \in Int, c \in SUBSET STRING : N[i] = [id |-> a, lon |-> b, tags |-> c]
    BY <1>2 DEF ExtractNode
  <2>2. N[i].id = a /\ N[i].lon = b /\ N[i].tags = c
    BY <2>1
  <2>3. QED
    BY <1>3, <2>1, <2>2
<1>5. I \in Seq(Int) /\ L \in Seq(Int) /\ tags \in Seq(SUBSET STRING)
  <2>1. e.offset \in Int
    BY ExtractParts
  <2>2. I \in [1 .. n -> Int] /\ L \in [1 .. n -> Int] /\ tags \in [1 .. n -> SUBSET STRING]
    BY <1>2, <1>4, <2>1
  <2> HIDE DEF I, L, tags
  <2>3. QED
    BY <1>2, <2>2
<1>6. \A i \in DOMAIN tags : IsFiniteSet(tags[i]) /\ Stop \notin tags[i]
  BY <1>1
<1>7. Dense(e).id = Delta(I) /\ Dense(e).lon = Delta(L)
  BY DEF Dense, N
<1>8. kv = IF \A i \in DOMAIN N : N[i].tags = {} THEN <<>>
           ELSE FlattenSeq([i \in DOMAIN N |-> Append(SetToSeq(N[i].tags), Stop)])
  BY DEF Dense, N
<1>9. [i \in DOMAIN N |-> Append(SetToSeq(N[i].tags), Stop)] = Stopped(tags)
  BY DEF Stopped
<1>10. ASSUME NEW i \in 1 .. n PROVE DenseTags(kv, i) = N[i].tags
  <2>1. CASE \A h \in DOMAIN N : N[h].tags = {}
    <3>1. kv = <<>>
      BY <1>8, <2>1
    <3> HIDE DEF kv
    <3>2. DenseTags(kv, i) = {}
      BY <3>1 DEF DenseTags
    <3>3. QED
      BY <1>2, <2>1, <3>2
  <2>2. CASE ~ \A h \in DOMAIN N : N[h].tags = {}
    <3>1. kv = FlattenSeq(Stopped(tags))
      BY <1>8, <1>9, <2>2
    <3>2. i \in DOMAIN tags /\ tags[i] = N[i].tags
      BY <1>2
    <3> HIDE DEF tags, kv
    <3>3. DenseTags(FlattenSeq(Stopped(tags)), i) = tags[i]
      BY <1>5, <1>6, <3>2, DenseTagsRead
    <3>4. QED
      BY <3>1, <3>2, <3>3
  <2>3. QED
    BY <2>1, <2>2
<1>11. Accumulated(Delta(I)) = I /\ Accumulated(Delta(L)) = L
  BY <1>5, DeltasAddUp
<1>12. DOMAIN Delta(I) = 1 .. n /\ DOMAIN Delta(L) = 1 .. n
  BY <1>2 DEF Delta
<1>13. [i \in DOMAIN Delta(L) |-> e.offset + Delta(L)[i]] = Delta(L)
  <2>1. \A i \in 1 .. n : L[i] \in Int
    BY <1>2, <1>4
  <2>2. Delta(L) = [i \in 1 .. n |-> L[i] - (IF i = 1 THEN 0 ELSE L[i - 1])]
    BY <1>2 DEF Delta
  <2> HIDE DEF L
  <2>3. \A i \in 1 .. n : 0 + Delta(L)[i] = Delta(L)[i]
    <3> SUFFICES ASSUME NEW i \in 1 .. n PROVE 0 + Delta(L)[i] = Delta(L)[i]
      OBVIOUS
    <3>1. Delta(L)[i] = L[i] - (IF i = 1 THEN 0 ELSE L[i - 1])
      BY <2>2
    <3>2. i = 1 \/ i - 1 \in 1 .. n
      BY <1>2
    <3>3. Delta(L)[i] \in Int
      BY <2>1, <3>1, <3>2
    <3>4. QED
      BY <3>3
  <2>4. QED
    BY <1>12, <2>2, <2>3
<1> HIDE DEF I, L, kv, tags
<1>14. DenseNodes(Dense(e), e.offset) =
         [i \in 1 .. n |-> [id |-> I[i], lon |-> L[i], tags |-> DenseTags(kv, i)]]
  BY <1>7, <1>11, <1>12, <1>13 DEF DenseNodes, kv
<1>15. ASSUME NEW i \in 1 .. n
       PROVE  [id |-> I[i], lon |-> L[i], tags |-> DenseTags(kv, i)] = N[i]
  <2>1. e.offset \in Int
    BY ExtractParts
  <2>2. I[i] = N[i].id /\ L[i] = N[i].lon
    BY <1>2, <1>4, <2>1 DEF I, L
  <2>3. QED
    BY <1>4, <1>10, <2>2
<1>16. DenseNodes(Dense(e), e.offset) = [i \in 1 .. n |-> N[i]]
  BY <1>14, <1>15
<1>17. N = [i \in 1 .. n |-> N[i]]
  BY <1>1, <1>2
<1>18. QED
  BY <1>16, <1>17 DEF N

\* Plain nodes are read back, too.
LEMMA PlainNodesRead ==
  ASSUME NEW e \in Extracts
  PROVE  PlainNodes([i \in DOMAIN e.nodes |-> Placed(e.nodes[i], e.nodes[i].lon - e.offset)], e.offset)
           = e.nodes
<1> DEFINE N == e.nodes
           P == [i \in DOMAIN N |-> Placed(N[i], N[i].lon - e.offset)]
<1>1. N \in Seq(ExtractNode) /\ e.offset \in Int
  BY ExtractParts
<1> HIDE DEF N
<1>2. ASSUME NEW i \in DOMAIN N PROVE Placed(P[i], e.offset + P[i].lon) = N[i]
  <2>1. N[i] \in ExtractNode
    BY <1>1
  <2>2. PICK a \in Id, b \in Int, c \in SUBSET STRING : N[i] = [id |-> a, lon |-> b, tags |-> c]
    BY <2>1 DEF ExtractNode
  <2>3. P[i] = [id |-> a, lon |-> b - e.offset, tags |-> c]
    BY <2>2 DEF Placed
  <2> HIDE DEF P
  <2>4. e.offset + (b - e.offset) = b
    BY <1>1
  <2>5. Placed(P[i], e.offset + P[i].lon) = [id |-> a, lon |-> e.offset + (b - e.offset), tags |-> c]
    <3>1. P[i].id = a /\ P[i].lon = b - e.offset /\ P[i].tags = c
      BY <2>3
    <3>2. QED
      BY <3>1, Zenon DEF Placed
  <2>6. QED
    BY <2>2, <2>4, <2>5
<1>3. DOMAIN P = DOMAIN N
  OBVIOUS
<1> HIDE DEF P
<1>4. PlainNodes(P, e.offset) = [i \in DOMAIN N |-> N[i]]
  BY <1>2, <1>3, Zenon DEF PlainNodes
<1>5. N = [i \in DOMAIN N |-> N[i]]
  BY <1>1
<1>6. QED
  BY <1>4, <1>5 DEF P, N

\* So are the references of ways
LEMMA WaysRead ==
  ASSUME NEW e \in Extracts
  PROVE  LET d == [w \in DOMAIN e.ways |-> Referring(e.ways[w], Delta(e.ways[w].refs))]
         IN  [w \in DOMAIN d |-> Referring(d[w], Accumulated(d[w].refs))] = e.ways
<1> DEFINE W == e.ways
           d == [w \in DOMAIN W |-> Referring(W[w], Delta(W[w].refs))]
<1>1. W \in Seq(ExtractWay)
  BY ExtractParts
<1>2. Seq(Id) \subseteq Seq(Int)
  <2>1. Id \subseteq Int
    BY ExtractAssumption
  <2>2. ASSUME NEW s \in Seq(Id) PROVE s \in Seq(Int)
    <3>1. PICK n \in Nat : s \in [1 .. n -> Id]
      OBVIOUS
    <3>2. s \in [1 .. n -> Int]
      BY <2>1, <3>1
    <3>3. QED
      BY <3>2
  <2>3. QED
    BY <2>2
<1> HIDE DEF W
<1>3. ASSUME NEW w \in DOMAIN W PROVE Referring(d[w], Accumulated(d[w].refs)) = W[w]
  <2>1. W[w] \in ExtractWay
    BY <1>1
  <2>2. PICK a \in Nat, b \in Seq(Id), c \in SUBSET Tag : W[w] = [id |-> a, refs |-> b, tags |-> c]
    BY <2>1 DEF ExtractWay
  <2>3. d[w] = [id |-> a, refs |-> Delta(b), tags |-> c]
    BY <2>2 DEF Referring
  <2> HIDE DEF d
  <2>4. Accumulated(Delta(b)) = b
    BY <1>2, DeltasAddUp
  <2>5. Referring(d[w], Accumulated(d[w].refs)) = [id |-> a, refs |-> Accumulated(Delta(b)), tags |-> c]
    <3>1. d[w].id = a /\ d[w].refs = Delta(b) /\ d[w].tags = c
      BY <2>3
    <3>2. QED
      BY <3>1, Zenon DEF Referring
  <2>6. QED
    BY <2>2, <2>4, <2>5
<1>4. DOMAIN d = DOMAIN W
  OBVIOUS
<1> HIDE DEF d
<1>5. [w \in DOMAIN d |-> Referring(d[w], Accumulated(d[w].refs))] = [w \in DOMAIN W |-> W[w]]
  BY <1>3, <1>4, Zenon
<1>6. W = [w \in DOMAIN W |-> W[w]]
  BY <1>1
<1>7. QED
  BY <1>5, <1>6 DEF d, W

\* And the ids of the members of relations.
LEMMA RelationsRead ==
  ASSUME NEW e \in Extracts
  PROVE  LET d == [r \in DOMAIN e.relations |-> Joining(e.relations[r], Delta(MemberIds(e.relations[r])))]
         IN  [r \in DOMAIN d |-> Joining(d[r], Accumulated(MemberIds(d[r])))] = e.relations
<1> DEFINE W == e.relations
           d == [r \in DOMAIN W |-> Joining(W[r], Delta(MemberIds(W[r])))]
<1>1. W \in Seq(ExtractRelation)
  BY ExtractParts
<1> HIDE DEF W
<1>2. ASSUME NEW r \in DOMAIN W PROVE Joining(d[r], Accumulated(MemberIds(d[r]))) = W[r]
  <2>1. W[r] \in ExtractRelation
    BY <1>1
  <2>2. PICK a \in Nat, b \in SUBSET STRING, c \in Seq(ExtractMember) :
          W[r] = [id |-> a, tags |-> b, members |-> c]
    BY <2>1 DEF ExtractRelation
  <2> DEFINE I == [i \in DOMAIN c |-> c[i].id]
             m == [i \in DOMAIN c |-> [type |-> c[i].type, id |-> Delta(I)[i], role |-> c[i].role]]
  <2>3. MemberIds(W[r]) = I
    BY <2>2 DEF MemberIds
  <2>4. d[r] = [id |-> a, tags |-> b, members |-> m]
    <3>1. W[r].id = a /\ W[r].tags = b /\ W[r].members = c
      BY <2>2
    <3>2. d[r] = Joining(W[r], Delta(I))
      BY <2>3
    <3>3. QED
      BY <3>1, <3>2, Zenon DEF Joining
  <2>5. c = [i \in DOMAIN c |-> c[i]] /\ \A i \in DOMAIN c : c[i] \in ExtractMember
    BY <2>2
  <2>6. ASSUME NEW i \in DOMAIN c
        PROVE  c[i] = [type |-> c[i].type, id |-> c[i].id, role |-> c[i].role] /\ c[i].id \in Nat
    BY <2>5 DEF ExtractMember
  <2>7. I \in Seq(Int)
    <3>1. PICK n \in Nat : DOMAIN c = 1 .. n
      BY <2>2
    <3>2. I \in [1 .. n -> Int]
      BY <2>6, <3>1
    <3> HIDE DEF I
    <3>3. QED
      BY <3>2
  <2>8. DOMAIN Delta(I) = DOMAIN c /\ DOMAIN m = DOMAIN c
    BY DEF Delta
  <2>9. Accumulated(Delta(I)) = I
    BY <2>7, DeltasAddUp
  <2>10. \A i \in DOMAIN c : m[i] = [type |-> c[i].type, id |-> Delta(I)[i], role |-> c[i].role]
    OBVIOUS
  <2>11. Delta(I) = [i \in DOMAIN c |-> Delta(I)[i]] /\ \A i \in DOMAIN c : I[i] = c[i].id
    BY <2>8 DEF Delta
  <2> HIDE DEF I, m, d
  <2>12. MemberIds(d[r]) = [i \in DOMAIN m |-> m[i].id]
    BY <2>4 DEF MemberIds
  <2>13. \A i \in DOMAIN c : m[i].id = Delta(I)[i] /\ m[i].type = c[i].type /\ m[i].role = c[i].role
    <3> SUFFICES ASSUME NEW i \in DOMAIN c
                 PROVE  m[i].id = Delta(I)[i] /\ m[i].type = c[i].type /\ m[i].role = c[i].role
      OBVIOUS
    <3>1. m[i] = [type |-> c[i].type, id |-> Delta(I)[i], role |-> c[i].role]
      BY <2>10
    <3>2. QED
      BY <3>1
  <2>14. MemberIds(d[r]) = Delta(I)
    BY <2>8, <2>11, <2>12, <2>13
  <2>15. Joining(d[r], I) = [id |-> a, tags |-> b, members |->
           [i \in DOMAIN m |-> [type |-> m[i].type, id |-> I[i], role |-> m[i].role]]]
    <3>1. d[r].id = a /\ d[r].tags = b /\ d[r].members = m
      BY <2>4
    <3>2. QED
      BY <3>1, Zenon DEF Joining
  <2>16. [i \in DOMAIN m |-> [type |-> m[i].type, id |-> I[i], role |-> m[i].role]]
           = [i \in DOMAIN c |-> [type |-> c[i].type, id |-> c[i].id, role |-> c[i].role]]
    BY <2>8, <2>11, <2>13, Zenon
  <2>17. [i \in DOMAIN c |-> [type |-> c[i].type, id |-> c[i].id, role |-> c[i].role]] = [i \in DOMAIN c |-> c[i]]
    BY <2>6, Zenon
  <2>18. QED
    BY <2>2, <2>5, <2>9, <2>14, <2>15, <2>16, <2>17, Zenon
<1>3. DOMAIN d = DOMAIN W
  OBVIOUS
<1> HIDE DEF d
<1>4. [w \in DOMAIN d |-> Joining(d[w], Accumulated(MemberIds(d[w])))] = [w \in DOMAIN W |-> W[w]]
  BY <1>2, <1>3, Zenon
<1>5. W = [w \in DOMAIN W |-> W[w]]
  BY <1>1
<1>6. QED
  BY <1>4, <1>5 DEF d, W

\* The blobs of a file.
LEMMA FileParts ==
  ASSUME NEW e \in Extracts
  PROVE  /\ FileOf(e) = [n \in 1 .. 5 |-> FileOf(e)[n]] /\ Len(FileOf(e)) = 5
         /\ FileOf(e)[1] = [type |-> "OSMHeader"] /\ FileOf(e)[2] = [type |-> "OSMIndex"]
         /\ \A i \in 1 .. 3 : FileOf(e)[i + 2] = [type |-> "OSMData", packed |-> e.packed,
                                                  lon_offset |-> e.offset, groups |-> <<Groups(e)[i]>>]
<1> DEFINE data(i) == [type |-> "OSMData", packed |-> e.packed, lon_offset |-> e.offset,
                       groups |-> <<Groups(e)[i]>>]
           D == [i \in 1 .. 3 |-> data(i)]
           H == [i \in 1 .. 2 |-> IF i = 1 THEN [type |-> "OSMHeader"] ELSE [type |-> "OSMIndex"]]
<1>1. DOMAIN Groups(e) = 1 .. 3
  BY DEF Groups
<1>2. <<[type |-> "OSMHeader"], [type |-> "OSMIndex"]>> = H
  OBVIOUS
<1>3. FileOf(e) = H \o D
  BY <1>1, <1>2 DEF FileOf
<1>4. /\ DOMAIN H = 1 .. 2 /\ DOMAIN D = 1 .. 3 /\ Len(H) = 2 /\ Len(D) = 3
      /\ H[1] = [type |-> "OSMHeader"] /\ H[2] = [type |-> "OSMIndex"]
      /\ \A i \in 1 .. 3 : D[i] = data(i)
  OBVIOUS
<1> HIDE DEF H, D, data
<1>5. H \o D = [n \in 1 .. 5 |-> IF n <= 2 THEN H[n] ELSE D[n - 2]]
  <2> DEFINE T == {H[i] : i \in 1 .. 2} \cup {D[i] : i \in 1 .. 3}
  <2>1. H = [i \in 1 .. 2 |-> H[i]] /\ D = [i \in 1 .. 3 |-> D[i]]
    BY DEF H, D
  <2>2. H \in Seq(T) /\ D \in Seq(T)
    <3>1. H \in [1 .. 2 -> T] /\ D \in [1 .. 3 -> T]
      BY <2>1
    <3> HIDE DEF T
    <3>2. \A n \in Nat : \A s \in [1 .. n -> T] : s \in Seq(T)
      OBVIOUS
    <3>3. QED
      BY <3>1, <3>2, 2 \in Nat, 3 \in Nat, Zenon
  <2> HIDE DEF T
  <2>3. /\ H \o D \in Seq(T) /\ Len(H \o D) = 2 + 3
        /\ \A n \in 1 .. 2 + 3 : (H \o D)[n] = IF n <= 2 THEN H[n] ELSE D[n - 2]
    <3>1. /\ H \o D \in Seq(T) /\ Len(H \o D) = Len(H) + Len(D)
          /\ \A n \in 1 .. Len(H) + Len(D) : (H \o D)[n] = IF n <= Len(H) THEN H[n] ELSE D[n - Len(H)]
      BY <2>2, ConcatProperties
    <3>2. Len(H) = 2 /\ Len(D) = 3
      BY <1>4
    <3>3. QED
      BY <3>1, <3>2, Zenon
  <2>4. DOMAIN (H \o D) = 1 .. 5 /\ H \o D = [n \in DOMAIN (H \o D) |-> (H \o D)[n]]
    <3>1. \A s \in Seq(T) : DOMAIN s = 1 .. Len(s) /\ s = [n \in DOMAIN s |-> s[n]]
      OBVIOUS
    <3>2. 2 + 3 = 5
      OBVIOUS
    <3>3. QED
      BY <2>3, <3>1, <3>2, Zenon
  <2>5. QED
    BY <2>3, <2>4
<1> DEFINE F == FileOf(e)
<1>6. F = [n \in 1 .. 5 |-> IF n <= 2 THEN H[n] ELSE D[n - 2]]
  BY <1>3, <1>5
<1> HIDE DEF F
<1>7. /\ F = [n \in 1 .. 5 |-> F[n]] /\ Len(F) = 5
      /\ F[1] = H[1] /\ F[2] = H[2] /\ \A i \in 1 .. 3 : F[i + 2] = D[i]
  BY <1>6
<1>8. QED
  BY <1>4, <1>7 DEF F, data

\* What is left of the file after n blobs.
LEMMA FileLeft ==
  ASSUME NEW e \in Extracts, NEW n \in 0 .. 5
  PROVE  LET left == SubSeq(FileOf(e), n + 1, 5) IN
         /\ left = <<>> <=> n = 5
         /\ n < 5 => Head(left) = FileOf(e)[n + 1] /\ Tail(left) = SubSeq(FileOf(e), n + 2, 5)
<1> DEFINE F == FileOf(e)
           left == SubSeq(F, n + 1, 5)
<1>1. F = [i \in 1 .. 5 |-> F[i]] /\ Len(F) = 5
  BY FileParts
<1> HIDE DEF F
<1>2. left = [i \in 1 .. 5 - n |-> F[i + n]]
  BY <1>1
<1>3. SubSeq(F, n + 2, 5) = [i \in 1 .. 4 - n |-> F[i + n + 1]]
  BY <1>1
<1> HIDE DEF left
<1>4. Len(left) = 5 - n
  BY <1>2
<1>5. left = <<>> <=> n = 5
  BY <1>2, <1>4
<1>6. ASSUME n < 5 PROVE Head(left) = F[n + 1] /\ Tail(left) = SubSeq(F, n + 2, 5)
  <2>1. Head(left) = F[n + 1]
    BY <1>2, <1>6
  <2>2. Tail(left) = [i \in 1 .. 4 - n |-> left[i + 1]]
    <3> DEFINE S == {F[i] : i \in 1 .. 5}
    <3>1. left \in [1 .. 5 - n -> S]
      BY <1>2
    <3> HIDE DEF S
    <3>2. left \in Seq(S) /\ left # <<>>
      BY <1>4, <1>6, <3>1
    <3>3. /\ Tail(left) \in Seq(S) /\ Len(Tail(left)) = 4 - n
          /\ \A i \in 1 .. 4 - n : Tail(left)[i] = left[i + 1]
      BY <1>4, <1>6, <3>2, HeadTailProperties
    <3>4. DOMAIN Tail(left) = 1 .. 4 - n /\ Tail(left) = [i \in DOMAIN Tail(left) |-> Tail(left)[i]]
      <4>1. \A s \in Seq(S) : DOMAIN s = 1 .. Len(s) /\ s = [i \in DOMAIN s |-> s[i]]
        OBVIOUS
      <4>2. QED
        BY <3>3, <4>1, Zenon
    <3>5. QED
      BY <3>3, <3>4
  <2>3. \A i \in 1 .. 4 - n : left[i + 1] = F[i + n + 1]
    BY <1>2, <1>6
  <2>4. QED
    BY <1>3, <2>1, <2>2, <2>3
<1>7. QED
  BY <1>5, <1>6 DEF F, left

\* A blob of one group, and what is cached with the elements of p.
Data(g, o) == [type |-> "OSMData", packed |-> "zlib_data", lon_offset |-> o, groups |-> <<g>>]

Parsed(a, b, c) == [nodes |-> a, ways |-> b, relations |-> c]

Enlarged(cache, a, b, c) ==
  [nodes |-> cache.nodes \o a, ways |-> cache.ways \o b, relations |-> cache.relations \o c]

\* The callbacks append the elements of a blob with one group.
LEMMA BlobCached ==
  ASSUME NEW cache, NEW g, NEW o,
         NEW a \in Seq(ExtractNode), NEW b \in Seq(ExtractWay), NEW c \in Seq(ExtractRelation),
         parse_primitivegroup(g, o) = Parsed(a, b, c)
  PROVE  CacheElements(cache, Data(g, o)) = Enlarged(cache, a, b, c)
<1> DEFINE blob == Data(g, o)
           p == Parsed(a, b, c)
           groups == read_blob(blob)
           of == [h \in DOMAIN groups |-> parse_primitivegroup(groups[h], blob.lon_offset)]
<1>1. blob.type = "OSMData" /\ blob.packed = "zlib_data" /\ blob.lon_offset = o /\ blob.groups = <<g>>
  BY DEF Data
<1> HIDE DEF blob
<1>2. groups = <<g>>
  BY <1>1 DEF read_blob
<1> HIDE DEF groups
<1>3. DOMAIN groups = 1 .. 1 /\ groups[1] = g
  BY <1>2
<1>4. of = [h \in 1 .. 1 |-> p]
  <2>1. \A h \in 1 .. 1 : groups[h] = g
    BY <1>3
  <2>2. QED
    BY <1>1, <1>3, <2>1, Zenon
<1>5. p.nodes = a /\ p.ways = b /\ p.relations = c
  BY DEF Parsed
<1>6. CacheElements(cache, blob) =
        [nodes |-> cache.nodes \o FlattenSeq([h \in DOMAIN of |-> of[h].nodes]),
         ways  |-> cache.ways \o FlattenSeq([h \in DOMAIN of |-> of[h].ways]),
         relations |-> cache.relations \o FlattenSeq([h \in DOMAIN of |-> of[h].relations])]
  BY <1>1, Zenon DEF CacheElements, groups
<1>7. DOMAIN of = 1 .. 1 /\ \A h \in 1 .. 1 : of[h] = p
  BY <1>4
<1> HIDE DEF of, p
<1>8. /\ [h \in DOMAIN of |-> of[h].nodes] = [h \in 1 .. 1 |-> a]
      /\ [h \in DOMAIN of |-> of[h].ways] = [h \in 1 .. 1 |-> b]
      /\ [h \in DOMAIN of |-> of[h].relations] = [h \in 1 .. 1 |-> c]
  BY <1>5, <1>7, Zenon
<1>9. /\ FlattenSeq([h \in 1 .. 1 |-> a]) = a
      /\ FlattenSeq([h \in 1 .. 1 |-> b]) = b
      /\ FlattenSeq([h \in 1 .. 1 |-> c]) = c
  BY FlattenedAlone
<1>10. QED
  BY <1>6, <1>8, <1>9, Zenon DEF blob, Enlarged

\* Nothing comes of the parts of a group that are empty.
LEMMA EmptyParts ==
  ASSUME NEW o
  PROVE  PlainNodes(<<>>, o) = <<>> /\ DenseNodes(NoDense, o) = <<>>
<1>1. DOMAIN NoDense.id = {}
  BY DEF NoDense
<1>2. QED
  BY <1>1 DEF PlainNodes, DenseNodes

\* Nor are there ways and relations in a group of nodes.
LEMMA EmptyMapped ==
  ASSUME NEW s, s = <<>>
  PROVE  /\ [w \in DOMAIN s |-> Referring(s[w], Accumulated(s[w].refs))] = <<>>
         /\ [r \in DOMAIN s |-> Joining(s[r], Accumulated(MemberIds(s[r])))] = <<>>
<1>1. DOMAIN s = {}
  OBVIOUS
<1>2. QED
  BY <1>1

\* A group of nodes, of ways, and of relations are read back.
LEMMA GroupsRead ==
  ASSUME NEW e \in Extracts, Regular(e)
  PROVE  /\ parse_primitivegroup(Groups(e)[1], e.offset) = Parsed(e.nodes, <<>>, <<>>)
         /\ parse_primitivegroup(Groups(e)[2], e.offset) = Parsed(<<>>, e.ways, <<>>)
         /\ parse_primitivegroup(Groups(e)[3], e.offset) = Parsed(<<>>, <<>>, e.relations)
<1> DEFINE o == e.offset
           N == [i \in DOMAIN e.nodes |-> Placed(e.nodes[i], e.nodes[i].lon - e.offset)]
           W == [w \in DOMAIN e.ways |-> Referring(e.ways[w], Delta(e.ways[w].refs))]
           R == [r \in DOMAIN e.relations |-> Joining(e.relations[r], Delta(MemberIds(e.relations[r])))]
           none == <<>>
           WW(s) == [w \in DOMAIN s |-> Referring(s[w], Accumulated(s[w].refs))]
           RR(s) == [r \in DOMAIN s |-> Joining(s[r], Accumulated(MemberIds(s[r])))]
           g1 == IF e.dense THEN Group(none, Dense(e), none, none) ELSE Group(N, NoDense, none, none)
           g2 == Group(none, NoDense, W, none)
           g3 == Group(none, NoDense, none, R)
<1>1. Groups(e) = <<g1, g2, g3>>
  BY Zenon DEF Groups
<1>2. /\ PlainNodes(N, o) = e.nodes
      /\ WW(W) = e.ways
      /\ RR(R) = e.relations
  BY PlainNodesRead, WaysRead, RelationsRead, Zenon
<1>3. e.nodes \in Seq(ExtractNode) /\ e.dense \in BOOLEAN
  BY ExtractParts
<1>4. ASSUME e.dense PROVE DenseNodes(Dense(e), o) = e.nodes
  BY <1>4, DenseNodesRead DEF Regular
<1> HIDE DEF N, W, R, o, g1, g2, g3, none
<1>5. Groups(e)[1] = g1 /\ Groups(e)[2] = g2 /\ Groups(e)[3] = g3
  BY <1>1
<1>6. ASSUME NEW a, NEW b, NEW c, NEW d
      PROVE  parse_primitivegroup(Group(a, b, c, d), o) =
               [nodes |-> PlainNodes(a, o) \o DenseNodes(b, o),
                ways |-> WW(c),
                relations |-> RR(d)]
  <2>1. Group(a, b, c, d) = [nodes |-> a, dense |-> b, ways |-> c, relations |-> d]
    BY DEF Group
  <2> DEFINE g == Group(a, b, c, d)
  <2>2. g.nodes = a /\ g.dense = b /\ g.ways = c /\ g.relations = d
    BY <2>1
  <2> HIDE DEF g
  <2>3. parse_primitivegroup(g, o) =
               [nodes |-> PlainNodes(a, o) \o DenseNodes(b, o),
                ways |-> WW(c),
                relations |-> RR(d)]
    BY <2>2, Zenon DEF parse_primitivegroup
  <2>4. QED
    BY <2>3 DEF g
<1>7. /\ WW(none) = none
      /\ RR(none) = none
  BY EmptyMapped, Zenon DEF none
<1> HIDE DEF WW, RR
<1>8. /\ e.nodes \o none = e.nodes /\ none \o e.nodes = e.nodes
      /\ none \o none = none
  <2>1. e.nodes \o none = e.nodes /\ none \o e.nodes = e.nodes
    BY <1>3, ConcatProperties DEF none
  <2>2. none \o none = none
    BY DEF none
  <2>3. QED
    BY <2>1, <2>2, Zenon
<1>9. parse_primitivegroup(g1, o) = [nodes |-> e.nodes, ways |-> none, relations |-> none]
  <2>1. CASE e.dense
    <3>1. parse_primitivegroup(g1, o) = [nodes |-> PlainNodes(none, o) \o DenseNodes(Dense(e), o),
                                         ways |-> none, relations |-> none]
      BY <1>6, <1>7, <2>1 DEF g1
    <3>2. PlainNodes(none, o) \o DenseNodes(Dense(e), o) = e.nodes
      BY <1>4, <1>8, <2>1, EmptyParts, Zenon DEF none
    <3>3. QED
      BY <3>1, <3>2, Zenon
  <2>2. CASE ~ e.dense
    <3>1. parse_primitivegroup(g1, o) = [nodes |-> PlainNodes(N, o) \o DenseNodes(NoDense, o),
                                         ways |-> none, relations |-> none]
      BY <1>6, <1>7, <2>2 DEF g1
    <3>2. PlainNodes(N, o) \o DenseNodes(NoDense, o) = e.nodes
      BY <1>2, <1>8, EmptyParts, Zenon DEF none
    <3>3. QED
      BY <3>1, <3>2, Zenon
  <2>3. QED
    BY <2>1, <2>2
<1>10. PlainNodes(none, o) \o DenseNodes(NoDense, o) = none
  BY <1>8, EmptyParts, Zenon DEF none
<1>11. parse_primitivegroup(g2, o) = [nodes |-> none, ways |-> e.ways, relations |-> none]
  <2>1. parse_primitivegroup(g2, o) = [nodes |-> PlainNodes(none, o) \o DenseNodes(NoDense, o),
                                       ways |-> WW(W), relations |-> RR(none)]
    BY <1>6 DEF g2
  <2>2. QED
    BY <1>2, <1>7, <1>10, <2>1, Zenon
<1>12. parse_primitivegroup(g3, o) = [nodes |-> none, ways |-> none, relations |-> e.relations]
  <2>1. parse_primitivegroup(g3, o) = [nodes |-> PlainNodes(none, o) \o DenseNodes(NoDense, o),
                                       ways |-> WW(none), relations |-> RR(R)]
    BY <1>6 DEF g3
  <2>2. QED
    BY <1>2, <1>7, <1>10, <2>1, Zenon
<1>13. QED
  BY <1>5, <1>9, <1>11, <1>12, Zenon DEF o, none, Parsed

\* Each blob adds what is written in it.
LEMMA BlobsRead ==
  ASSUME NEW e \in Extracts, Regular(e), NEW n \in 0 .. 4
  PROVE  CacheElements(Read(e, n), FileOf(e)[n + 1]) = Read(e, n + 1)
<1> DEFINE F == FileOf(e)
           blob(i) == Data(Groups(e)[i], e.offset)
<1>1. /\ e.nodes \in Seq(ExtractNode) /\ e.ways \in Seq(ExtractWay) /\ e.relations \in Seq(ExtractRelation)
      /\ <<>> \in Seq(ExtractNode) /\ <<>> \in Seq(ExtractWay) /\ <<>> \in Seq(ExtractRelation)
  BY ExtractParts
<1>2. /\ F[1] = [type |-> "OSMHeader"] /\ F[2] = [type |-> "OSMIndex"]
      /\ F[3] = blob(1) /\ F[4] = blob(2) /\ F[5] = blob(3)
  <2>1. e.packed = "zlib_data"
    BY DEF Regular
  <2>2. \A i \in 1 .. 3 : F[i + 2] = blob(i)
    BY <2>1, FileParts, Zenon DEF Data
  <2>3. F[1] = [type |-> "OSMHeader"] /\ F[2] = [type |-> "OSMIndex"]
    BY FileParts
  <2> HIDE DEF blob, F
  <2>4. F[1 + 2] = blob(1) /\ F[2 + 2] = blob(2) /\ F[3 + 2] = blob(3)
    BY <2>2
  <2>5. QED
    BY <2>3, <2>4
<1> HIDE DEF F
<1> DEFINE c == Read(e, n)
<1>3. \A a \in {e.nodes, e.ways, e.relations} : <<>> \o a = a /\ a \o <<>> = a
  BY <1>1, ConcatProperties
<1>4. <<>> \o <<>> = <<>>
  OBVIOUS
<1>5. ASSUME NEW cache, NEW i,
             NEW a \in Seq(ExtractNode), NEW b \in Seq(ExtractWay), NEW d \in Seq(ExtractRelation),
             parse_primitivegroup(Groups(e)[i], e.offset) = Parsed(a, b, d)
      PROVE  CacheElements(cache, blob(i)) = Enlarged(cache, a, b, d)
  BY <1>5, BlobCached
<1> HIDE DEF blob
<1>6. CASE n \in {0, 1}
  <2>1. F[n + 1].type # "OSMData"
    BY <1>2, <1>6
  <2>2. CacheElements(c, F[n + 1]) = c
    BY <2>1 DEF CacheElements
  <2>3. n < 3 /\ n + 1 < 3
    BY <1>6
  <2>4. Read(e, n + 1) = c
    BY <2>3 DEF Read
  <2>5. QED
    BY <2>2, <2>4 DEF F
<1>7. CASE n = 2
  <2>1. c.nodes = <<>> /\ c.ways = <<>> /\ c.relations = <<>>
    BY <1>7 DEF Read
  <2>2. Read(e, 3) = [nodes |-> e.nodes, ways |-> <<>>, relations |-> <<>>]
    BY DEF Read
  <2> HIDE DEF c
  <2>3. CacheElements(c, blob(1)) = Enlarged(c, e.nodes, <<>>, <<>>)
    <3>1. parse_primitivegroup(Groups(e)[1], e.offset) = Parsed(e.nodes, <<>>, <<>>)
      BY GroupsRead, Zenon
    <3>2. QED
      BY <1>1, <1>5, <3>1, Zenon
  <2>4. CacheElements(c, blob(1)) = Read(e, 3)
    BY <1>3, <1>4, <2>1, <2>2, <2>3, Zenon DEF Enlarged
  <2>5. QED
    BY <1>2, <1>7, <2>4 DEF F, c
<1>8. CASE n = 3
  <2>1. c.nodes = e.nodes /\ c.ways = <<>> /\ c.relations = <<>>
    BY <1>8 DEF Read
  <2>2. Read(e, 4) = [nodes |-> e.nodes, ways |-> e.ways, relations |-> <<>>]
    BY DEF Read
  <2> HIDE DEF c
  <2>3. CacheElements(c, blob(2)) = Enlarged(c, <<>>, e.ways, <<>>)
    <3>1. parse_primitivegroup(Groups(e)[2], e.offset) = Parsed(<<>>, e.ways, <<>>)
      BY GroupsRead, Zenon
    <3>2. QED
      BY <1>1, <1>5, <3>1, Zenon
  <2>4. CacheElements(c, blob(2)) = Read(e, 4)
    BY <1>3, <1>4, <2>1, <2>2, <2>3, Zenon DEF Enlarged
  <2>5. QED
    BY <1>2, <1>8, <2>4 DEF F, c
<1>9. CASE n = 4
  <2>1. c.nodes = e.nodes /\ c.ways = e.ways /\ c.relations = <<>>
    BY <1>9 DEF Read
  <2>2. Read(e, 5) = [nodes |-> e.nodes, ways |-> e.ways, relations |-> e.relations]
    BY DEF Read
  <2> HIDE DEF c
  <2>3. CacheElements(c, blob(3)) = Enlarged(c, <<>>, <<>>, e.relations)
    <3>1. parse_primitivegroup(Groups(e)[3], e.offset) = Parsed(<<>>, <<>>, e.relations)
      BY GroupsRead, Zenon
    <3>2. QED
      BY <1>1, <1>5, <3>1, Zenon
  <2>4. CacheElements(c, blob(3)) = Read(e, 5)
    BY <1>3, <1>4, <2>1, <2>2, <2>3, Zenon DEF Enlarged
  <2>5. QED
    BY <1>2, <1>9, <2>4 DEF F, c
<1>10. QED
  BY <1>6, <1>7, <1>8, <1>9

\* An import of the file fills the tables with its elements.
LEMMA FileImported ==
  ASSUME NEW e \in Extracts, Regular(e)
  PROVE  Imported(e) = WithRelations(e)
<1> DEFINE F == FileOf(e)
           Unfolds(f) == f = [n \in 0 .. Len(F) |-> IF n = 0 THEN NoElements ELSE CacheElements(f[n - 1], F[n])]
           after == CHOOSE f : Unfolds(f)
           g == [n \in 0 .. 5 |-> Read(e, n)]
<1>1. Len(F) = 5
  BY FileParts
<1>2. Read(e, 0) = NoElements
  BY DEF Read, NoElements
<1>3. ASSUME NEW n \in 1 .. 5 PROVE CacheElements(Read(e, n - 1), F[n]) = Read(e, n)
  BY BlobsRead, n - 1 \in 0 .. 4, (n - 1) + 1 = n
<1>4. Cached(F) = after[Len(F)]
  BY Zenon DEF Cached
<1> HIDE DEF F
<1>5. Unfolds(g)
  <2>1. ASSUME NEW n \in 0 .. 5
        PROVE  g[n] = IF n = 0 THEN NoElements ELSE CacheElements(g[n - 1], F[n])
    <3>1. CASE n = 0
      BY <1>2, <3>1
    <3>2. CASE n # 0
      <4>1. n \in 1 .. 5 /\ n - 1 \in 0 .. 5
        BY <3>2
      <4>2. g[n - 1] = Read(e, n - 1) /\ g[n] = Read(e, n)
        BY <4>1
      <4>3. QED
        BY <1>3, <3>2, <4>1, <4>2
    <3>3. QED
      BY <3>1, <3>2
  <2>2. DOMAIN g = 0 .. 5 /\ g = [n \in 0 .. 5 |-> g[n]]
    OBVIOUS
  <2> HIDE DEF g
  <2>3. QED
    BY <1>1, <2>1, <2>2
<1> HIDE DEF g
<1>6. Unfolds(after)
  BY <1>5
<1> HIDE DEF after
<1>7. after[0] = Read(e, 0) /\ \A n \in 1 .. 5 : after[n] = CacheElements(after[n - 1], F[n])
  BY <1>1, <1>2, <1>6
<1>8. ASSUME NEW n \in 1 .. 5, after[n - 1] = Read(e, n - 1) PROVE after[n] = Read(e, n)
  BY <1>3, <1>7, <1>8
<1>9. after[1] = Read(e, 1)
  BY <1>7, <1>8, 1 - 1 = 0
<1>10. after[2] = Read(e, 2)
  BY <1>8, <1>9, 2 - 1 = 1
<1>11. after[3] = Read(e, 3)
  BY <1>8, <1>10, 3 - 1 = 2
<1>12. after[4] = Read(e, 4)
  BY <1>8, <1>11, 4 - 1 = 3
<1>13. after[5] = Read(e, 5)
  BY <1>8, <1>12, 5 - 1 = 4
<1>14. Cached(F) = [nodes |-> e.nodes, ways |-> e.ways, relations |-> e.relations]
  BY <1>1, <1>4, <1>13 DEF Read
<1> DEFINE read == Cached(F)
<1>15. read.nodes = e.nodes /\ read.ways = e.ways /\ read.relations = e.relations
  BY <1>14
<1> HIDE DEF read
<1>16. QED
  BY <1>15, Zenon DEF Imported, read, F, WithRelations, WithWays, WithNodes

-----------------------------------------------------------------------------
(* The tables.                                                             *)

\* What the elements of an extract add to the tables.
NodeRecord(n) == [id |-> n.id, lon |-> n.lon, ele |-> "ele" \in n.tags,
                  ntags |-> Cardinality(n.tags \ {"ele"})]
WayRecord(w) == [id |-> w.id, nrefs |-> Len(w.refs), ntags |-> Cardinality(w.tags)]
RefRecord(w, i) == [way_id |-> w.id, node_id |-> w.refs[i], order_ |-> i - 1]
MemberRecord(r, mem) == [id_of_relation |-> r.id, type |-> mem.type, id |-> mem.id, role |-> mem.role]

NodeRecords(s) == {NodeRecord(n) : n \in Range(s)}
NodeTags(s) == UNION {Tags("node", n, n.tags \ {"ele"}) : n \in Range(s)}
WayRecords(s) == {WayRecord(w) : w \in Range(s)}
RefRecords(s) == UNION {{RefRecord(w, i) : i \in DOMAIN w.refs} : w \in Range(s)}
WayTags(s) == UNION {Tags("way", w, w.tags) : w \in Range(s)}
RelationIds(s) == {r.id : r \in Range(s)}
MemberRecords(s) == UNION {{MemberRecord(r, mem) : mem \in Range(r.members)} : r \in Range(s)}
RelationTags(s) == UNION {Tags("relation", r, r.tags) : r \in Range(s)}

Filled(n, w, r, refs, mems, t) ==
  [node |-> n, way |-> w, relation |-> r, node_in_way |-> refs, member_in_relation |-> mems, tag |-> t]

Fills(T, n, w, r, refs, mems, t) == T = Filled(n, w, r, refs, mems, t)

\* A table is replaced.
LEMMA Replaced ==
  ASSUME NEW n, NEW w, NEW r, NEW refs, NEW mems, NEW t, NEW x, NEW T, Fills(T, n, w, r, refs, mems, t)
  PROVE  /\ Fills([T EXCEPT !.node = x], x, w, r, refs, mems, t)
         /\ Fills([T EXCEPT !.way = x], n, x, r, refs, mems, t)
         /\ Fills([T EXCEPT !.relation = x], n, w, x, refs, mems, t)
         /\ Fills([T EXCEPT !.node_in_way = x], n, w, r, x, mems, t)
         /\ Fills([T EXCEPT !.member_in_relation = x], n, w, r, refs, x, t)
         /\ Fills([T EXCEPT !.tag = x], n, w, r, refs, mems, x)
<1>1. T = [node |-> n, way |-> w, relation |-> r, node_in_way |-> refs, member_in_relation |-> mems, tag |-> t]
  BY DEF Fills, Filled
<1>2. [T EXCEPT !.node = x] = Filled(x, w, r, refs, mems, t)
  BY <1>1 DEF Filled
<1>3. [T EXCEPT !.way = x] = Filled(n, x, r, refs, mems, t)
  BY <1>1 DEF Filled
<1>4. [T EXCEPT !.relation = x] = Filled(n, w, x, refs, mems, t)
  BY <1>1 DEF Filled
<1>5. [T EXCEPT !.node_in_way = x] = Filled(n, w, r, x, mems, t)
  BY <1>1 DEF Filled
<1>6. [T EXCEPT !.member_in_relation = x] = Filled(n, w, r, refs, x, t)
  BY <1>1 DEF Filled
<1>7. [T EXCEPT !.tag = x] = Filled(n, w, r, refs, mems, x)
  BY <1>1 DEF Filled
<1>8. QED
  BY <1>2, <1>3, <1>4, <1>5, <1>6, <1>7, Zenon DEF Fills

\* An insertion adds to its tables only.
LEMMA Inserted ==
  ASSUME NEW n, NEW w, NEW r, NEW refs, NEW mems, NEW t, NEW s, NEW T, Fills(T, n, w, r, refs, mems, t)
  PROVE  /\ Fills(insert_cached_nodes(T, s),
                  n \cup NodeRecords(s), w, r, refs, mems, t \cup NodeTags(s))
         /\ Fills(insert_cached_ways(T, s),
                  n, w \cup WayRecords(s), r, refs \cup RefRecords(s), mems, t \cup WayTags(s))
         /\ Fills(insert_cached_relations(T, s),
                  n, w, r \cup RelationIds(s), refs, mems \cup MemberRecords(s), t \cup RelationTags(s))
<1>1. T.node = n /\ T.way = w /\ T.relation = r /\ T.node_in_way = refs
      /\ T.member_in_relation = mems /\ T.tag = t
  BY DEF Fills, Filled
<1>2. Fills(insert_cached_nodes(T, s), n \cup NodeRecords(s), w, r, refs, mems, t \cup NodeTags(s))
  <2> DEFINE U == [T EXCEPT !.node = T.node \cup NodeRecords(s)]
             V == [U EXCEPT !.tag = T.tag \cup NodeTags(s)]
  <2>1. Fills(U, n \cup NodeRecords(s), w, r, refs, mems, t)
    BY <1>1, Replaced, Zenon
  <2>2. insert_cached_nodes(T, s) = V
    BY Zenon DEF insert_cached_nodes, NodeRecords, NodeRecord, NodeTags
  <2> HIDE DEF U
  <2>3. Fills(V, n \cup NodeRecords(s), w, r, refs, mems, t \cup NodeTags(s))
    BY <1>1, <2>1, Replaced, Zenon
  <2>4. QED
    BY <2>2, <2>3, Zenon
<1>3. Fills(insert_cached_ways(T, s),
            n, w \cup WayRecords(s), r, refs \cup RefRecords(s), mems, t \cup WayTags(s))
  <2> DEFINE U == [T EXCEPT !.way = T.way \cup WayRecords(s)]
             V == [U EXCEPT !.node_in_way = T.node_in_way \cup RefRecords(s)]
             W == [V EXCEPT !.tag = T.tag \cup WayTags(s)]
  <2>1. Fills(U, n, w \cup WayRecords(s), r, refs, mems, t)
    BY <1>1, Replaced, Zenon
  <2>2. insert_cached_ways(T, s) = W
    BY Zenon DEF insert_cached_ways, WayRecords, WayRecord, WayTags, RefRecords, RefRecord
  <2> HIDE DEF U
  <2>3. Fills(V, n, w \cup WayRecords(s), r, refs \cup RefRecords(s), mems, t)
    BY <1>1, <2>1, Replaced, Zenon
  <2> HIDE DEF V
  <2>4. Fills(W, n, w \cup WayRecords(s), r, refs \cup RefRecords(s), mems, t \cup WayTags(s))
    BY <1>1, <2>3, Replaced, Zenon
  <2>5. QED
    BY <2>2, <2>4, Zenon
<1>4. Fills(insert_cached_relations(T, s),
            n, w, r \cup RelationIds(s), refs, mems \cup MemberRecords(s), t \cup RelationTags(s))
  <2> DEFINE U == [T EXCEPT !.relation = T.relation \cup RelationIds(s)]
             V == [U EXCEPT !.member_in_relation = T.member_in_relation \cup MemberRecords(s)]
             W == [V EXCEPT !.tag = T.tag \cup RelationTags(s)]
  <2>1. Fills(U, n, w, r \cup RelationIds(s), refs, mems, t)
    BY <1>1, Replaced, Zenon
  <2>2. insert_cached_relations(T, s) = W
    BY Zenon DEF insert_cached_relations, RelationIds, MemberRecords, MemberRecord, RelationTags
  <2> HIDE DEF U
  <2>3. Fills(V, n, w, r \cup RelationIds(s), refs, mems \cup MemberRecords(s), t)
    BY <1>1, <2>1, Replaced, Zenon
  <2> HIDE DEF V
  <2>4. Fills(W, n, w, r \cup RelationIds(s), refs, mems \cup MemberRecords(s), t \cup RelationTags(s))
    BY <1>1, <2>3, Replaced, Zenon
  <2>5. QED
    BY <2>2, <2>4, Zenon
<1>5. QED
  BY <1>2, <1>3, <1>4, Zenon

\* What each of the imports has filled the tables with.
LEMMA TablesFilled ==
  ASSUME NEW e
  PROVE  /\ Fills(WithNodes(e), NodeRecords(e.nodes), {}, {}, {}, {}, NodeTags(e.nodes))
         /\ Fills(WithWays(e), NodeRecords(e.nodes), WayRecords(e.ways), {}, RefRecords(e.ways), {},
                  NodeTags(e.nodes) \cup WayTags(e.ways))
         /\ Fills(WithRelations(e),
                  NodeRecords(e.nodes), WayRecords(e.ways), RelationIds(e.relations),
                  RefRecords(e.ways), MemberRecords(e.relations),
                  NodeTags(e.nodes) \cup WayTags(e.ways) \cup RelationTags(e.relations))
<1>1. Fills(EmptyTables, {}, {}, {}, {}, {}, {})
  BY DEF EmptyTables, Fills, Filled
<1>2. Fills(WithNodes(e), {} \cup NodeRecords(e.nodes), {}, {}, {}, {}, {} \cup NodeTags(e.nodes))
  BY <1>1, Inserted, Zenon DEF WithNodes
<1>3. \A S : {} \cup S = S
  OBVIOUS
<1>4. Fills(WithNodes(e), NodeRecords(e.nodes), {}, {}, {}, {}, NodeTags(e.nodes))
  BY <1>2, <1>3, Zenon
<1>5. Fills(WithWays(e), NodeRecords(e.nodes), {} \cup WayRecords(e.ways), {}, {} \cup RefRecords(e.ways), {},
            NodeTags(e.nodes) \cup WayTags(e.ways))
  BY <1>4, Inserted, Zenon DEF WithWays
<1>6. Fills(WithWays(e), NodeRecords(e.nodes), WayRecords(e.ways), {}, RefRecords(e.ways), {},
            NodeTags(e.nodes) \cup WayTags(e.ways))
  BY <1>3, <1>5, Zenon
<1>7. Fills(WithRelations(e),
            NodeRecords(e.nodes), WayRecords(e.ways), {} \cup RelationIds(e.relations),
            RefRecords(e.ways), {} \cup MemberRecords(e.relations),
            (NodeTags(e.nodes) \cup WayTags(e.ways)) \cup RelationTags(e.relations))
  BY <1>6, Inserted, Zenon DEF WithRelations
<1>8. QED
  BY <1>3, <1>4, <1>6, <1>7, Zenon

\* To import once more what is there adds nothing.
LEMMA InsertedAgain ==
  ASSUME NEW e
  PROVE  /\ insert_cached_nodes(WithRelations(e), e.nodes) = WithRelations(e)
         /\ insert_cached_ways(WithRelations(e), e.ways) = WithRelations(e)
         /\ insert_cached_relations(WithRelations(e), e.relations) = WithRelations(e)
<1> DEFINE A == NodeRecords(e.nodes)
           B == WayRecords(e.ways)
           C == RelationIds(e.relations)
           R == RefRecords(e.ways)
           M == MemberRecords(e.relations)
           U == NodeTags(e.nodes)
           V == WayTags(e.ways)
           W == RelationTags(e.relations)
           t == U \cup V \cup W
<1>1. Fills(WithRelations(e), A, B, C, R, M, t)
  BY TablesFilled, Zenon
<1>2. A \cup A = A /\ B \cup B = B /\ C \cup C = C /\ R \cup R = R /\ M \cup M = M
      /\ t \cup U = t /\ t \cup V = t /\ t \cup W = t
  <2> HIDE DEF A, B, C, R, M, U, V, W
  <2>1. QED
    OBVIOUS
<1>3. /\ Fills(insert_cached_nodes(WithRelations(e), e.nodes), A \cup A, B, C, R, M, t \cup U)
      /\ Fills(insert_cached_ways(WithRelations(e), e.ways), A, B \cup B, C, R \cup R, M, t \cup V)
      /\ Fills(insert_cached_relations(WithRelations(e), e.relations), A, B, C \cup C, R, M \cup M, t \cup W)
  BY <1>1, Inserted, Zenon
<1> HIDE DEF A, B, C, R, M, U, V, W, t
<1>4. QED
  BY <1>1, <1>2, <1>3, Zenon DEF Fills

\* The tables of an import.
LEMMA TablesOfImport ==
  ASSUME NEW e
  PROVE  LET T == WithRelations(e) IN
         /\ T.node = NodeRecords(e.nodes) /\ T.way = WayRecords(e.ways)
         /\ T.node_in_way = RefRecords(e.ways) /\ T.member_in_relation = MemberRecords(e.relations)
         /\ T.tag = NodeTags(e.nodes) \cup WayTags(e.ways) \cup RelationTags(e.relations)
<1> DEFINE T == WithRelations(e)
           t == NodeTags(e.nodes) \cup WayTags(e.ways) \cup RelationTags(e.relations)
<1>1. T = [node |-> NodeRecords(e.nodes), way |-> WayRecords(e.ways), relation |-> RelationIds(e.relations),
           node_in_way |-> RefRecords(e.ways), member_in_relation |-> MemberRecords(e.relations), tag |-> t]
  BY TablesFilled, Zenon DEF Fills, Filled
<1> HIDE DEF T, t
<1>2. QED
  BY <1>1 DEF T, t

\* Ids name one element of their kind.
LEMMA Elements ==
  ASSUME NEW e \in Extracts
  PROVE  /\ \A n \in Range(e.nodes) :
              /\ n \in ExtractNode /\ n.id > 0 /\ IsFiniteSet(n.tags) /\ NoTag \notin n.tags
              /\ \A m \in Range(e.nodes) : m.id = n.id => m = n
         /\ \A w \in Range(e.ways) :
              /\ w \in ExtractWay /\ w.id > 0 /\ IsFiniteSet(w.tags) /\ NoTag \notin w.tags
              /\ 0 \notin Range(w.refs)
              /\ \A v \in Range(e.ways) : v.id = w.id => v = w
         /\ \A r \in Range(e.relations) :
              /\ r \in ExtractRelation /\ r.id > 0
              /\ \A s \in Range(e.relations) : s.id = r.id => s = r
         /\ IsFiniteSet(Range(e.nodes)) /\ IsFiniteSet(Range(e.ways)) /\ IsFiniteSet(Range(e.relations))
<1>1. ASSUME NEW S, NEW s \in Seq(S)
      PROVE  Range(s) \in SUBSET S /\ IsFiniteSet(Range(s))
  <2>1. PICK n \in Nat : s \in [1 .. n -> S]
    OBVIOUS
  <2>2. s \in Surjection(1 .. n, Range(s))
    BY <2>1 DEF Surjection, Range
  <2>3. IsFiniteSet(1 .. n)
    BY <2>1, FS_Interval
  <2>4. IsFiniteSet(Range(s))
    BY <2>2, <2>3, FS_Surjection
  <2>5. QED
    BY <2>1, <2>4 DEF Range
<1>2. e.nodes \in Seq(ExtractNode) /\ e.ways \in Seq(ExtractWay) /\ e.relations \in Seq(ExtractRelation)
  BY ExtractParts
<1>3. ASSUME NEW n \in Range(e.nodes)
      PROVE  /\ n.id > 0 /\ IsFiniteSet(n.tags) /\ NoTag \notin n.tags
             /\ \A m \in Range(e.nodes) : m.id = n.id => m = n
  BY ExtractParts DEF Range
<1>4. ASSUME NEW n \in Range(e.ways)
      PROVE  /\ n.id > 0 /\ IsFiniteSet(n.tags) /\ NoTag \notin n.tags /\ 0 \notin Range(n.refs)
             /\ \A m \in Range(e.ways) : m.id = n.id => m = n
  <2>1. PICK i \in DOMAIN e.ways : n = e.ways[i]
    BY DEF Range
  <2>2. n.id > 0 /\ IsFiniteSet(n.tags) /\ NoTag \notin n.tags /\ 0 \notin Range(n.refs)
    BY <2>1, ExtractParts
  <2>3. \A m \in Range(e.ways) : m.id = n.id => m = n
    BY <2>1, ExtractParts DEF Range
  <2>4. QED
    BY <2>2, <2>3
<1>5. ASSUME NEW n \in Range(e.relations)
      PROVE  /\ n.id > 0
             /\ \A m \in Range(e.relations) : m.id = n.id => m = n
  BY ExtractParts DEF Range
<1>6. QED
  BY <1>1, <1>2, <1>3, <1>4, <1>5

\* The tags of the table that are an element's are the tags it has.
LEMMA TagsFound ==
  ASSUME NEW e \in Extracts
  PROVE  LET T == WithRelations(e)
             kvs(element, x) == {t.kv : t \in {u \in T.tag : u.of = element /\ u.id = x.id}}
         IN  /\ \A n \in Range(e.nodes) : kvs("node", n) = n.tags \ {"ele"}
             /\ \A w \in Range(e.ways) : kvs("way", w) = w.tags
             /\ \A r \in Range(e.relations) : kvs("relation", r) = r.tags
<1> DEFINE T == WithRelations(e)
           U == NodeTags(e.nodes)
           V == WayTags(e.ways)
           W == RelationTags(e.relations)
           kvs(element, x) == {t.kv : t \in {u \in T.tag : u.of = element /\ u.id = x.id}}
<1>1. T.tag = U \cup V \cup W
  BY TablesOfImport
<1> HIDE DEF T
<1>2. \A of, x, tags : \A t : t \in Tags(of, x, tags) <=>
        \E kv \in tags : t = [of |-> of, id |-> x.id, kv |-> kv]
  BY DEF Tags
<1>3. \A t : t \in U <=> \E n \in Range(e.nodes) : t \in Tags("node", n, n.tags \ {"ele"})
  BY DEF NodeTags
<1>4. \A t : t \in V <=> \E w \in Range(e.ways) : t \in Tags("way", w, w.tags)
  BY DEF WayTags
<1>5. \A t : t \in W <=> \E r \in Range(e.relations) : t \in Tags("relation", r, r.tags)
  BY DEF RelationTags
<1> HIDE DEF U, V, W
<1>6. ASSUME NEW t
      PROVE  /\ t \in U => t.of = "node"
             /\ t \in V => t.of = "way"
             /\ t \in W => t.of = "relation"
  <2>1. \A of, x, tags : t \in Tags(of, x, tags) => t.of = of
    BY <1>2
  <2>2. QED
    BY <2>1, <1>3, <1>4, <1>5, Zenon
<1>7. ASSUME NEW n \in Range(e.nodes) PROVE kvs("node", n) = n.tags \ {"ele"}
  <2>1. ASSUME NEW t \in T.tag, t.of = "node", t.id = n.id PROVE t.kv \in n.tags \ {"ele"}
    <3>1. t \in U
      BY <1>1, <1>6, <2>1
    <3>2. PICK m \in Range(e.nodes) : t \in Tags("node", m, m.tags \ {"ele"})
      BY <1>3, <3>1
    <3>3. PICK kv \in m.tags \ {"ele"} : t = [of |-> "node", id |-> m.id, kv |-> kv]
      BY <1>2, <3>2
    <3>4. m = n
      BY <2>1, <3>3, Elements
    <3>5. QED
      BY <3>3, <3>4
  <2>2. ASSUME NEW kv \in n.tags \ {"ele"}
        PROVE  \E t \in T.tag : t.of = "node" /\ t.id = n.id /\ t.kv = kv
    <3> DEFINE t == [of |-> "node", id |-> n.id, kv |-> kv]
    <3>1. t \in Tags("node", n, n.tags \ {"ele"})
      BY <1>2
    <3>2. t \in T.tag
      BY <1>1, <1>3, <3>1
    <3>3. QED
      BY <3>2
  <2>3. QED
    BY <2>1, <2>2
<1>8. ASSUME NEW n \in Range(e.ways) PROVE kvs("way", n) = n.tags
  <2>1. ASSUME NEW t \in T.tag, t.of = "way", t.id = n.id PROVE t.kv \in n.tags
    <3>1. t \in V
      BY <1>1, <1>6, <2>1
    <3>2. PICK m \in Range(e.ways) : t \in Tags("way", m, m.tags)
      BY <1>4, <3>1
    <3>3. PICK kv \in m.tags : t = [of |-> "way", id |-> m.id, kv |-> kv]
      BY <1>2, <3>2
    <3>4. m = n
      BY <2>1, <3>3, Elements
    <3>5. QED
      BY <3>3, <3>4
  <2>2. ASSUME NEW kv \in n.tags
        PROVE  \E t \in T.tag : t.of = "way" /\ t.id = n.id /\ t.kv = kv
    <3> DEFINE t == [of |-> "way", id |-> n.id, kv |-> kv]
    <3>1. t \in Tags("way", n, n.tags)
      BY <1>2
    <3>2. t \in T.tag
      BY <1>1, <1>4, <3>1
    <3>3. QED
      BY <3>2
  <2>3. QED
    BY <2>1, <2>2
<1>9. ASSUME NEW n \in Range(e.relations) PROVE kvs("relation", n) = n.tags
  <2>1. ASSUME NEW t \in T.tag, t.of = "relation", t.id = n.id PROVE t.kv \in n.tags
    <3>1. t \in W
      BY <1>1, <1>6, <2>1
    <3>2. PICK m \in Range(e.relations) : t \in Tags("relation", m, m.tags)
      BY <1>5, <3>1
    <3>3. PICK kv \in m.tags : t = [of |-> "relation", id |-> m.id, kv |-> kv]
      BY <1>2, <3>2
    <3>4. m = n
      BY <2>1, <3>3, Elements
    <3>5. QED
      BY <3>3, <3>4
  <2>2. ASSUME NEW kv \in n.tags
        PROVE  \E t \in T.tag : t.of = "relation" /\ t.id = n.id /\ t.kv = kv
    <3> DEFINE t == [of |-> "relation", id |-> n.id, kv |-> kv]
    <3>1. t \in Tags("relation", n, n.tags)
      BY <1>2
    <3>2. t \in T.tag
      BY <1>1, <1>5, <3>1
    <3>3. QED
      BY <3>2
  <2>3. QED
    BY <2>1, <2>2
<1>10. QED
  BY <1>7, <1>8, <1>9 DEF T

\* The view has the roads of the extract.
LEMMA HighwaysFound ==
  ASSUME NEW e \in Extracts
  PROVE  highway(WithRelations(e)) = {WayRecord(w) : w \in RoadsOf(e)}
<1> DEFINE T == WithRelations(e)
           kvs(w) == {t.kv : t \in {u \in T.tag : u.of = "way" /\ u.id = w.id}}
           Tagged(id) == \E t \in T.tag : t.of = "way" /\ t.id = id /\ t.kv \in HighwayV \ NoStreetV
           Outline(id) == \E mem \in T.member_in_relation :
                            mem.type = "way" /\ mem.id = id /\ Like(mem.role, "outer")
<1>1. T.way = WayRecords(e.ways) /\ T.member_in_relation = MemberRecords(e.relations)
  BY TablesOfImport
<1>2. \A w \in Range(e.ways) : kvs(w) = w.tags
  BY TagsFound
<1> HIDE DEF T
<1>3. ASSUME NEW w \in Range(e.ways) PROVE Tagged(w.id) <=> w.tags \cap (HighwayV \ NoStreetV) # {}
  <2>1. kvs(w) = w.tags
    BY <1>2
  <2>2. \A kv : kv \in kvs(w) <=> \E t \in T.tag : t.of = "way" /\ t.id = w.id /\ t.kv = kv
    OBVIOUS
  <2> HIDE DEF kvs
  <2>3. QED
    BY <2>1, <2>2
<1>4. \A role : Like(role, "outer") <=> role = "outer"
  BY DEF Like
<1>5. ASSUME NEW id
      PROVE  Outline(id) <=> \E r \in Range(e.relations) : \E mem \in Range(r.members) :
                               mem.type = "way" /\ mem.id = id /\ mem.role = "outer"
  <2>1. ASSUME NEW m \in T.member_in_relation, m.type = "way", m.id = id, m.role = "outer"
        PROVE  \E r \in Range(e.relations) : \E mem \in Range(r.members) :
                 mem.type = "way" /\ mem.id = id /\ mem.role = "outer"
    <3>1. PICK r \in Range(e.relations) : \E x \in Range(r.members) : m = MemberRecord(r, x)
      BY <1>1 DEF MemberRecords
    <3>2. PICK mem \in Range(r.members) : m = MemberRecord(r, mem)
      BY <3>1
    <3>3. m.type = mem.type /\ m.id = mem.id /\ m.role = mem.role
      BY <3>2 DEF MemberRecord
    <3>4. QED
      BY <2>1, <3>3
  <2>2. ASSUME NEW r \in Range(e.relations), NEW mem \in Range(r.members),
               mem.type = "way", mem.id = id, mem.role = "outer"
        PROVE  \E m \in T.member_in_relation : m.type = "way" /\ m.id = id /\ m.role = "outer"
    <3>1. MemberRecord(r, mem) \in T.member_in_relation
      BY <1>1 DEF MemberRecords
    <3>2. QED
      BY <2>2, <3>1 DEF MemberRecord
  <2>3. QED
    BY <1>4, <2>1, <2>2
<1> HIDE DEF Outline, Tagged
<1>6. \A w \in Range(e.ways) : Tagged(w.id) \/ Outline(w.id) <=> IsRoad(e, w)
  BY <1>3, <1>5 DEF IsRoad
<1>7. highway(T) = {w \in T.way : Tagged(w.id) \/ Outline(w.id)}
  BY DEF highway, Tagged, Outline
<1>8. \A w : WayRecord(w).id = w.id
  BY DEF WayRecord
<1>9. \A x : x \in highway(T) <=> \E w \in Range(e.ways) : x = WayRecord(w) /\ IsRoad(e, w)
  BY <1>1, <1>6, <1>7, <1>8 DEF WayRecords
<1>10. QED
  BY <1>9 DEF RoadsOf, T

-----------------------------------------------------------------------------
(* The rows of the nodes.                                                  *)

\* The values of a function on a finite set, and as many of them where it is
\* injective.
LEMMA FiniteValues ==
  ASSUME NEW S, IsFiniteSet(S), NEW f
  PROVE  /\ IsFiniteSet({f[x] : x \in S})
         /\ (\A x, y \in S : f[x] = f[y] => x = y) => Cardinality({f[x] : x \in S}) = Cardinality(S)
<1> DEFINE T == {f[x] : x \in S}
           g == [x \in S |-> f[x]]
<1>1. g \in Surjection(S, T)
  BY DEF Surjection
<1>2. IsFiniteSet(T) /\ (Cardinality(T) = Cardinality(S) <=> g \in Injection(S, T))
  BY <1>1, FS_Surjection
<1>3. ASSUME \A x, y \in S : f[x] = f[y] => x = y PROVE g \in Injection(S, T)
  BY <1>3 DEF Injection, IsInjective
<1>4. QED
  BY <1>2, <1>3

\* Finitely many finite sets.
LEMMA FiniteUnion ==
  ASSUME NEW S, IsFiniteSet(S), NEW f, \A x \in S : IsFiniteSet(f[x])
  PROVE  IsFiniteSet(UNION {f[x] : x \in S})
<1> DEFINE F == {f[x] : x \in S}
<1>1. IsFiniteSet(F)
  BY FiniteValues
<1>2. \A T \in F : IsFiniteSet(T)
  OBVIOUS
<1> HIDE DEF F
<1>3. IsFiniteSet(UNION F)
  BY <1>1, <1>2, FS_UNION
<1>4. QED
  BY <1>3 DEF F

\* The iterator within the rows.
LEMMA Skipped ==
  ASSUME NEW R, NEW s \in Seq(R), NEW q \in 1 .. Len(s) + 1, NEW n \in Nat, q + n <= Len(s) + 1
  PROVE  Skip(s, q, n) = q + n
<1> DEFINE a == q - 1 + n
           b == Len(s) + 1
<1>1. Len(s) \in Nat
  OBVIOUS
<1>2. a \in Nat /\ b \in Nat /\ 0 <= a /\ a < b
  BY <1>1
<1>3. \A x, y \in Nat : x < y => x % y = x
  OBVIOUS
<1>4. a % b = a
  BY <1>2, <1>3
<1>5. a + 1 = q + n
  BY <1>1
<1>6. QED
  BY <1>4, <1>5 DEF Skip

\* The block has the n rows from q on.
HasRows(b, s, q, n) ==
  /\ DOMAIN b = 1 .. n
  /\ \A i \in 1 .. n : b[i] = s[q + i - 1]
  /\ Range(b) = {s[p] : p \in q .. q + n - 1}

\* A block within the rows.
LEMMA BlockRead ==
  ASSUME NEW R, NEW s \in Seq(R), NEW q \in 1 .. Len(s) + 1, NEW n \in Nat, q + n <= Len(s) + 1
  PROVE  HasRows(Block(s, q, n), s, q, n)
<1> DEFINE b == Block(s, q, n)
<1>1. Len(s) \in Nat
  OBVIOUS
<1>2. DOMAIN b = 1 .. n
  BY DEF Block
<1>3. ASSUME NEW i \in 1 .. n PROVE b[i] = s[q + i - 1]
  <2>1. Skip(s, q, i - 1) = q + (i - 1)
    BY <1>1, Skipped
  <2>2. q + (i - 1) = q + i - 1 /\ ~ (q + i - 1 > Len(s))
    BY <1>1
  <2>3. ~ AtEnd(s, Skip(s, q, i - 1))
    BY <2>1, <2>2 DEF AtEnd
  <2>4. b[i] = LET p == Skip(s, q, i - 1) IN
                 IF AtEnd(s, p) THEN [kv |-> NoTag, node_id |-> Null, nd |-> Null] ELSE s[p]
    BY DEF Block
  <2>5. QED
    BY <2>1, <2>2, <2>3, <2>4
<1> HIDE DEF b
<1>4. Range(b) = {s[p] : p \in q .. q + n - 1}
  <2>1. ASSUME NEW i \in 1 .. n PROVE b[i] \in {s[p] : p \in q .. q + n - 1}
    <3>1. q + i - 1 \in q .. q + n - 1
      BY <1>1
    <3>2. QED
      BY <1>3, <3>1
  <2>2. ASSUME NEW p \in q .. q + n - 1 PROVE \E i \in 1 .. n : b[i] = s[p]
    <3>1. p - q + 1 \in 1 .. n /\ q + (p - q + 1) - 1 = p
      BY <1>1
    <3>2. b[p - q + 1] = s[q + (p - q + 1) - 1]
      BY <1>3, <3>1
    <3>3. QED
      BY <3>1, <3>2
  <2>3. Range(b) = {b[i] : i \in 1 .. n}
    BY <1>2 DEF Range
  <2>4. QED
    BY <2>1, <2>2, <2>3
<1>5. QED
  BY <1>2, <1>3, <1>4, Zenon DEF b, HasRows

\* The nodes of the roads, and their rows.
RoadNodes(e) == {m \in Range(e.nodes) : \E w \in RoadsOf(e) : m.id \in Range(w.refs)}

OrNone(tags) == IF tags = {} THEN {NoTag} ELSE tags

NodeRow(n, t) == [id |-> n.id, lon |-> n.lon, ele |-> "ele" \in n.tags,
                  ntags |-> Cardinality(n.tags \ {"ele"}), kv |-> t]

NodeKey(n, down) == <<IF down THEN - n.id ELSE n.id>>

\* Whether k is a row of a node, with its key.
OfNode(e, down, k) ==
  \E n \in RoadNodes(e) : \E t \in OrNone(n.tags \ {"ele"}) : k = <<NodeKey(n, down), NodeRow(n, t)>>

\* The references to nodes are those of the ways.
LEMMA RefsFound ==
  ASSUME NEW e \in Extracts, NEW x
  PROVE  x \in WithRelations(e).node_in_way <=>
           \E w \in Range(e.ways) : \E i \in DOMAIN w.refs : x = RefRecord(w, i)
BY TablesOfImport DEF RefRecords

\* The rows of the query for nodes.
LEMMA NodeRowsFound ==
  ASSUME NEW e \in Extracts, NEW down, NEW k
  PROVE  k \in NodeRows(WithRelations(e), down) <=> OfNode(e, down, k)
<1> DEFINE T == WithRelations(e)
           roads == {w.id : w \in highway(T)}
           used == {r.node_id : r \in {s \in T.node_in_way : s.way_id \in roads}}
           row(n, t) == [id |-> n.id, lon |-> n.lon, ele |-> n.ele, ntags |-> n.ntags, kv |-> t]
           key(n) == <<IF down THEN - n.id ELSE n.id>>
<1>1. highway(T) = {WayRecord(w) : w \in RoadsOf(e)}
  BY HighwaysFound
<1>2. \A x : x \in T.node_in_way <=> \E w \in Range(e.ways) : \E i \in DOMAIN w.refs : x = RefRecord(w, i)
  BY RefsFound
<1>3. T.node = {NodeRecord(n) : n \in Range(e.nodes)}
  BY TablesOfImport DEF NodeRecords
<1>4. ASSUME NEW n \in Range(e.nodes) PROVE TagsOf(T, "node", NodeRecord(n)) = OrNone(n.tags \ {"ele"})
  <2>1. NodeRecord(n).id = n.id
    BY DEF NodeRecord
  <2>2. {t.kv : t \in {u \in T.tag : u.of = "node" /\ u.id = n.id}} = n.tags \ {"ele"}
    BY TagsFound
  <2>3. QED
    BY <2>1, <2>2, Zenon DEF TagsOf, OrNone
<1> HIDE DEF T
<1>5. ASSUME NEW i PROVE i \in roads <=> \E w \in RoadsOf(e) : i = w.id
  <2>1. \A w : WayRecord(w).id = w.id
    BY DEF WayRecord
  <2>2. QED
    BY <1>1, <2>1
<1>6. \A w \in RoadsOf(e) : w \in Range(e.ways)
  BY DEF RoadsOf
<1>7. ASSUME NEW i PROVE i \in used <=> \E w \in RoadsOf(e) : i \in Range(w.refs)
  <2>1. ASSUME NEW s \in T.node_in_way, s.way_id \in roads, i = s.node_id
        PROVE  \E w \in RoadsOf(e) : i \in Range(w.refs)
    <3>1. PICK w \in Range(e.ways) : \E j \in DOMAIN w.refs : s = RefRecord(w, j)
      BY <1>2
    <3>2. PICK j \in DOMAIN w.refs : s = RefRecord(w, j)
      BY <3>1
    <3>3. s.way_id = w.id /\ s.node_id = w.refs[j]
      BY <3>2 DEF RefRecord
    <3>4. w \in RoadsOf(e)
      BY <1>5, <1>6, <2>1, <3>3, Elements
    <3>5. QED
      BY <2>1, <3>3, <3>4 DEF Range
  <2>2. ASSUME NEW w \in RoadsOf(e), i \in Range(w.refs)
        PROVE  \E s \in T.node_in_way : s.way_id \in roads /\ i = s.node_id
    <3>1. PICK j \in DOMAIN w.refs : i = w.refs[j]
      BY <2>2 DEF Range
    <3> DEFINE s == RefRecord(w, j)
    <3>2. s \in T.node_in_way
      BY <1>2, <1>6
    <3>3. s.way_id = w.id /\ s.node_id = i
      BY <3>1 DEF RefRecord
    <3>4. QED
      BY <1>5, <3>2, <3>3
  <2>3. QED
    BY <2>1, <2>2
<1>8. NodeRows(T, down) =
        UNION {{<<key(n), row(n, t)>> : t \in TagsOf(T, "node", n)} : n \in {m \in T.node : m.id \in used}}
  BY Zenon DEF NodeRows
<1>9. ASSUME NEW n \in Range(e.nodes), NEW t
      PROVE  /\ NodeRecord(n).id = n.id /\ key(NodeRecord(n)) = NodeKey(n, down)
             /\ row(NodeRecord(n), t) = NodeRow(n, t)
  BY DEF NodeRecord, NodeKey, NodeRow
<1> HIDE DEF used, row, key
<1>10. \A n \in Range(e.nodes) : n \in RoadNodes(e) <=> NodeRecord(n).id \in used
  BY <1>7, <1>9 DEF RoadNodes
<1>11. ASSUME k \in NodeRows(T, down)
       PROVE  \E n \in RoadNodes(e) : \E t \in OrNone(n.tags \ {"ele"}) : k = <<NodeKey(n, down), NodeRow(n, t)>>
  <2>1. PICK m \in T.node : m.id \in used /\ \E t \in TagsOf(T, "node", m) : k = <<key(m), row(m, t)>>
    BY <1>8, <1>11
  <2>2. PICK n \in Range(e.nodes) : m = NodeRecord(n)
    BY <1>3
  <2>3. PICK t \in TagsOf(T, "node", m) : k = <<key(m), row(m, t)>>
    BY <2>1
  <2>4. n \in RoadNodes(e) /\ t \in OrNone(n.tags \ {"ele"}) /\ k = <<NodeKey(n, down), NodeRow(n, t)>>
    BY <1>4, <1>9, <1>10, <2>1, <2>2, <2>3
  <2>5. QED
    BY <2>4
<1>12. ASSUME NEW n \in RoadNodes(e), NEW t \in OrNone(n.tags \ {"ele"}), k = <<NodeKey(n, down), NodeRow(n, t)>>
       PROVE  k \in NodeRows(T, down)
  <2> DEFINE m == NodeRecord(n)
  <2>1. n \in Range(e.nodes)
    BY DEF RoadNodes
  <2>2. m \in T.node /\ m.id \in used /\ t \in TagsOf(T, "node", m) /\ k = <<key(m), row(m, t)>>
    BY <1>3, <1>4, <1>9, <1>10, <1>12, <2>1
  <2> HIDE DEF m
  <2>3. QED
    BY <1>8, <2>2
<1>13. QED
  BY <1>11, <1>12 DEF T, OfNode
\* They are keyed by the id, with a row for each tag.
LEMMA NodeRowsKeyed ==
  ASSUME NEW e \in Extracts, NEW down
  PROVE  LET K == NodeRows(WithRelations(e), down) IN
         /\ Keyed(K, 1)
         /\ \A x : x \in RowsOf(K) <=>
              \E n \in RoadNodes(e) : \E t \in OrNone(n.tags \ {"ele"}) : x = NodeRow(n, t)
<1> DEFINE K == NodeRows(WithRelations(e), down)
           J == RoadNodes(e)
           tg(n) == OrNone(n.tags \ {"ele"})
           kr(n) == [t \in tg(n) |-> <<NodeKey(n, down), NodeRow(n, t)>>]
           f == [n \in J |-> {kr(n)[t] : t \in tg(n)}]
<1>1. ASSUME NEW k
      PROVE  k \in K <=> \E n \in J : \E t \in tg(n) : k = <<NodeKey(n, down), NodeRow(n, t)>>
  <2>1. k \in K <=> OfNode(e, down, k)
    BY NodeRowsFound
  <2> HIDE DEF K
  <2>2. QED
    BY <2>1 DEF OfNode
<1> HIDE DEF K
<1>2. \A n \in J : n \in Range(e.nodes) /\ n.id \in Int /\ IsFiniteSet(n.tags)
  BY Elements, ExtractAssumption DEF RoadNodes, ExtractNode
<1>3. IsFiniteSet(J)
  <2>1. J \in SUBSET Range(e.nodes)
    BY DEF RoadNodes
  <2>2. QED
    BY <2>1, Elements, FS_Subset
<1>4. ASSUME NEW n \in J PROVE IsFiniteSet(tg(n))
  <2>1. IsFiniteSet(n.tags \ {"ele"}) /\ IsFiniteSet({NoTag})
    BY <1>2, FS_Subset, FS_Singleton
  <2>2. QED
    BY <2>1 DEF OrNone
<1> HIDE DEF tg, J
<1>5. \A n \in J : IsFiniteSet(f[n])
  <2>1. \A n \in J : IsFiniteSet({kr(n)[t] : t \in tg(n)})
    BY <1>4, FiniteValues, Zenon
  <2> HIDE DEF kr
  <2>2. QED
    BY <2>1
<1>6. K = UNION {f[n] : n \in J}
  <2>1. ASSUME NEW k PROVE k \in K <=> \E n \in J : k \in f[n]
    BY <1>1
  <2> HIDE DEF f
  <2>2. QED
    BY <2>1
<1>7. IsFiniteSet(K)
  <2> HIDE DEF f
  <2>1. QED
    BY <1>3, <1>5, <1>6, FiniteUnion
<1>8. ASSUME NEW k \in K PROVE k[1] \in [1 .. 1 -> Int]
  <2>1. PICK n, t : n \in J /\ k = <<NodeKey(n, down), NodeRow(n, t)>>
    BY <1>1
  <2>2. k[1] = <<IF down THEN - n.id ELSE n.id>>
    BY <2>1 DEF NodeKey
  <2>3. (IF down THEN - n.id ELSE n.id) \in Int
    BY <1>2, <2>1
  <2>4. QED
    BY <2>2, <2>3
<1>9. ASSUME NEW k \in K, NEW l \in K, k[2] = l[2] PROVE k = l
  <2>1. PICK n, t : n \in J /\ k = <<NodeKey(n, down), NodeRow(n, t)>>
    BY <1>1
  <2>2. PICK m, u : m \in J /\ l = <<NodeKey(m, down), NodeRow(m, u)>>
    BY <1>1
  <2>3. NodeRow(n, t) = NodeRow(m, u)
    BY <1>9, <2>1, <2>2
  <2>4. n.id = m.id
    BY <2>3 DEF NodeRow
  <2>5. QED
    BY <2>1, <2>2, <2>3, <2>4 DEF NodeKey
<1>10. Keyed(K, 1)
  BY <1>7, <1>8, <1>9 DEF Keyed
<1>11. ASSUME NEW x PROVE x \in RowsOf(K) <=> \E n \in J : \E t \in tg(n) : x = NodeRow(n, t)
  <2>1. x \in RowsOf(K) <=> \E k \in K : x = k[2]
    BY DEF RowsOf
  <2>2. ASSUME NEW k \in K, x = k[2] PROVE \E n \in J : \E t \in tg(n) : x = NodeRow(n, t)
    BY <1>1, <2>2
  <2>3. ASSUME NEW n \in J, NEW t \in tg(n), x = NodeRow(n, t) PROVE \E k \in K : x = k[2]
    <3>1. <<NodeKey(n, down), x>> \in K
      BY <1>1, <2>3
    <3>2. QED
      BY <3>1
  <2>4. QED
    BY <2>1, <2>2, <2>3
<1>12. QED
  BY <1>10, <1>11 DEF K, J, tg

\* The key of a row of a node.
NodePlace(x, down) == IF down THEN - x.id ELSE x.id

\* The rows are in the order of the ids, or the opposite.
LEMMA NodeRowsOrdered ==
  ASSUME NEW e \in Extracts, NEW down
  PROVE  LET K == NodeRows(WithRelations(e), down)
             s == Ordered(K)
         IN  /\ Lists(s, RowsOf(K))
             /\ \A p \in 1 .. Len(s) : s[p].id \in Int
             /\ \A i, j \in 1 .. Len(s) : i < j => NodePlace(s[i], down) <= NodePlace(s[j], down)
<1> DEFINE K == NodeRows(WithRelations(e), down)
           s == Ordered(K)
<1>1. Keyed(K, 1)
  BY NodeRowsKeyed
<1>2. ASSUME NEW k
      PROVE  k \in K <=>
        \E n \in RoadNodes(e) : \E t \in OrNone(n.tags \ {"ele"}) : k = <<NodeKey(n, down), NodeRow(n, t)>>
  <2>1. k \in K <=> OfNode(e, down, k)
    BY NodeRowsFound
  <2> HIDE DEF K
  <2>2. QED
    BY <2>1 DEF OfNode
<1>3. Arranged(s, K)
  BY <1>1, ResultArranged
<1> HIDE DEF K, s
<1>4. ASSUME NEW p \in 1 .. Len(s)
      PROVE  \E k \in K : s[p] = k[2] /\ k[1] = <<NodePlace(s[p], down)>> /\ s[p].id \in Int
  <2>1. s[p] \in RowsOf(K)
    BY <1>3 DEF Arranged, Lists
  <2>2. PICK k \in K : s[p] = k[2]
    BY <2>1 DEF RowsOf
  <2>3. PICK n, t : n \in RoadNodes(e) /\ k = <<NodeKey(n, down), NodeRow(n, t)>>
    BY <1>2
  <2>4. n.id \in Int
    BY <2>3, Elements, ExtractAssumption DEF RoadNodes, ExtractNode
  <2>5. NodeRow(n, t).id = n.id
    BY DEF NodeRow
  <2>6. QED
    BY <2>2, <2>3, <2>4, <2>5 DEF NodeKey, NodePlace
<1>5. ASSUME NEW i \in 1 .. Len(s), NEW j \in 1 .. Len(s), i < j
      PROVE  NodePlace(s[i], down) <= NodePlace(s[j], down)
  <2>1. PICK k \in K : s[i] = k[2] /\ k[1] = <<NodePlace(s[i], down)>>
    BY <1>4
  <2>2. PICK l \in K : s[j] = l[2] /\ l[1] = <<NodePlace(s[j], down)>>
    BY <1>4
  <2>3. ~ Before(l[1], k[1])
    BY <1>3, <1>5, <2>1, <2>2 DEF Arranged
  <2>4. NodePlace(s[i], down) \in Int /\ NodePlace(s[j], down) \in Int
    BY <1>4 DEF NodePlace
  <2>5. ASSUME NodePlace(s[j], down) < NodePlace(s[i], down) PROVE Before(l[1], k[1])
    <3>1. DOMAIN l[1] = 1 .. 1 /\ l[1][1] < k[1][1] /\ 1 .. 1 - 1 = {}
      BY <2>1, <2>2, <2>5
    <3>2. QED
      BY <3>1 DEF Before
  <2>6. QED
    BY <2>3, <2>4, <2>5
<1>6. QED
  BY <1>3, <1>4, <1>5 DEF Arranged, K, s

JunctionOf(n) == [id |-> n.id, lon |-> n.lon, ele |-> "ele" \in n.tags, tags |-> n.tags \ {"ele"}]

\* An iteration of retrieve takes all rows of a node.
LEMMA NodeFetched ==
  ASSUME NEW e \in Extracts, NEW down, NEW s, s = Ordered(NodeRows(WithRelations(e), down)),
         NEW q, Between(s, q), ~ AtEnd(s, q)
  PROVE  \E n \in RoadNodes(e) :
           /\ NodeAt(s, q).element = JunctionOf(n)
           /\ Between(s, NodeAt(s, q).q)
           /\ n.id \notin Seen(s, q) /\ Seen(s, NodeAt(s, q).q) = Seen(s, q) \cup {n.id}
<1> DEFINE K == NodeRows(WithRelations(e), down)
           R == RowsOf(K)
           tg(n) == OrNone(n.tags \ {"ele"})
           h == [p \in 1 .. Len(s) |-> NodePlace(s[p], down)]
<1>1. /\ Lists(s, R) /\ \A p \in 1 .. Len(s) : s[p].id \in Int
      /\ \A i, j \in 1 .. Len(s) : i < j => NodePlace(s[i], down) <= NodePlace(s[j], down)
  BY NodeRowsOrdered, Zenon
<1>2. \A x : x \in R <=> \E n \in RoadNodes(e) : \E t \in tg(n) : x = NodeRow(n, t)
  BY NodeRowsKeyed, Zenon
<1> HIDE DEF K, R
<1>3. Len(s) \in Nat /\ s \in Seq(R) /\ \A p \in 1 .. Len(s) : s[p] \in R
  BY <1>1 DEF Lists
<1>4. q \in 1 .. Len(s) /\ q \in 1 .. Len(s) + 1
  BY <1>3 DEF Between, AtEnd
<1>5. PICK n \in RoadNodes(e) : \E t \in tg(n) : s[q] = NodeRow(n, t)
  BY <1>2, <1>3, <1>4
<1>6. /\ n \in Range(e.nodes) /\ n.id \in Int /\ IsFiniteSet(n.tags) /\ NoTag \notin n.tags
      /\ \A m \in RoadNodes(e) : m.id = n.id => m = n
  BY Elements, ExtractAssumption DEF RoadNodes, ExtractNode
<1> DEFINE S == n.tags \ {"ele"}
           G == {NodeRow(n, t) : t \in tg(n)}
           c == Cardinality(tg(n))
           v == h[q]
<1>7. \A m, t : /\ NodeRow(m, t).id = m.id /\ NodeRow(m, t).kv = t /\ NodeRow(m, t).lon = m.lon
                /\ NodeRow(m, t).ele = ("ele" \in m.tags)
                /\ NodeRow(m, t).ntags = Cardinality(m.tags \ {"ele"})
  BY DEF NodeRow
<1>8. IsFiniteSet(S) /\ Cardinality(S) \in Nat
  BY <1>6, FS_Subset, FS_CardinalityType
<1>9. IsFiniteSet(tg(n)) /\ c = AtLeastOne(Cardinality(S)) /\ c \in Nat
  <2>1. CASE S = {}
    <3>1. tg(n) = {NoTag}
      BY <2>1 DEF OrNone
    <3>2. Cardinality(S) = 0
      BY <2>1, FS_EmptySet
    <3> HIDE DEF S, tg
    <3>3. IsFiniteSet({NoTag}) /\ Cardinality({NoTag}) = 1
      BY FS_Singleton
    <3>4. QED
      BY <3>1, <3>2, <3>3 DEF AtLeastOne
  <2>2. CASE S # {}
    <3>1. tg(n) = S
      BY <2>2 DEF OrNone
    <3>2. Cardinality(S) # 0
      BY <1>8, <2>2, FS_EmptySet
    <3> HIDE DEF S, tg
    <3>3. QED
      BY <1>8, <3>1, <3>2 DEF AtLeastOne
  <2>3. QED
    BY <2>1, <2>2
<1>10. IsFiniteSet(G) /\ Cardinality(G) = c
  <2> DEFINE f == [t \in tg(n) |-> NodeRow(n, t)]
  <2> HIDE DEF tg
  <2>1. G = {f[t] : t \in tg(n)}
    OBVIOUS
  <2>2. \A t, u \in tg(n) : f[t] = f[u] => t = u
    BY <1>7
  <2> HIDE DEF f, G
  <2>3. QED
    BY <1>9, <2>1, <2>2, FiniteValues
<1> HIDE DEF tg
<1>11. G \in SUBSET R
  BY <1>2
<1>12. \A x \in R : x \in G <=> x.id = n.id
  BY <1>2, <1>6, <1>7
<1>13. s[q].id = n.id /\ s[q].lon = n.lon /\ s[q].ele = ("ele" \in n.tags) /\ s[q].ntags = Cardinality(S)
  BY <1>5, <1>7
<1> HIDE DEF G
<1>14. \A p, o \in 1 .. Len(s) : h[p] = h[o] <=> s[p].id = s[o].id
  BY <1>1 DEF NodePlace
<1>15. Follows(s, h, v, G, q)
  <2>1. h \in [1 .. Len(s) -> Int] /\ \A i, j \in 1 .. Len(s) : i < j => h[i] <= h[j]
    BY <1>1 DEF NodePlace
  <2> HIDE DEF h
  <2>2. \A p \in 1 .. Len(s) : h[p] = v <=> s[p] \in G
    BY <1>3, <1>4, <1>12, <1>13, <1>14
  <2>3. ASSUME NEW p \in 1 .. q - 1 PROVE h[p] < v
    <3>1. p \in 1 .. Len(s) /\ p < q
      BY <1>3, <1>4
    <3>2. h[p] <= h[q] /\ h[p] # h[q] /\ h[p] \in Int /\ h[q] \in Int
      BY <1>4, <1>14, <2>1, <3>1 DEF Between
    <3>3. QED
      BY <3>2
  <2>4. ASSUME NEW p \in q .. Len(s) PROVE h[p] >= v
    <3>1. p \in 1 .. Len(s) /\ (p = q \/ q < p)
      BY <1>3, <1>4
    <3>2. h[q] <= h[p] /\ h[p] \in Int /\ h[q] \in Int
      BY <1>4, <2>1, <3>1
    <3>3. QED
      BY <3>2
  <2>5. QED
    BY <1>4, <2>1, <2>2, <2>3, <2>4 DEF Follows
<1> HIDE DEF v
<1>16. v \in Int
  BY <1>1, <1>4 DEF v, NodePlace
<1>17. /\ q + c \in q .. Len(s) + 1
       /\ \A p \in 1 .. Len(s) : s[p] \in G <=> p \in q .. q + c - 1
       /\ {s[p] : p \in q .. q + c - 1} = G
       /\ \A p \in 1 .. q + c - 1 : h[p] <= v
       /\ \A p \in q + c .. Len(s) : h[p] > v
  <2> HIDE DEF h, c
  <2>1. QED
    BY <1>1, <1>10, <1>11, <1>15, <1>16, RunOfRows
<1>18. {x.kv : x \in G} = tg(n)
  <2>1. ASSUME NEW t PROVE t \in {x.kv : x \in G} <=> t \in tg(n)
    BY <1>7 DEF G
  <2>2. QED
    BY <2>1
<1> DEFINE k == Cardinality(S)
           B == Block(s, q, k)
           tags == {b.kv : b \in Range(B)}
<1>19. k <= c /\ q + k <= Len(s) + 1
  <2>1. k <= c
    BY <1>8, <1>9 DEF AtLeastOne
  <2>2. QED
    BY <1>3, <1>4, <1>8, <1>9, <1>17, <2>1
<1> HIDE DEF c, h, k
<1>20. Range(B) = {s[p] : p \in q .. q + k - 1}
  <2>1. s \in Seq(R) /\ q \in 1 .. Len(s) + 1 /\ k \in Nat /\ q + k <= Len(s) + 1
    BY <1>3, <1>4, <1>8, <1>19 DEF k
  <2>2. QED
    <3>1. HasRows(B, s, q, k)
      BY <2>1, BlockRead
    <3>2. QED
      BY <3>1, Zenon DEF HasRows
<1> HIDE DEF B
<1>21. tags = S
  <2>1. CASE S = {}
    <3>1. k = 0
      BY <2>1, FS_EmptySet DEF k
    <3>2. q .. q + k - 1 = {}
      BY <1>4, <3>1
    <3>3. Range(B) = {}
      BY <1>20, <3>2
    <3>4. QED
      BY <2>1, <3>3
  <2>2. CASE S # {}
    <3>1. k # 0
      BY <1>8, <2>2, FS_EmptySet DEF k
    <3>2. c = k /\ tg(n) = S
      BY <1>9, <2>2, <3>1 DEF AtLeastOne, tg, OrNone, k
    <3>3. Range(B) = G
      BY <1>17, <1>20, <3>2
    <3>4. QED
      BY <1>18, <3>2, <3>3
  <2>3. QED
    BY <2>1, <2>2
<1>22. NoTag \notin tags
  BY <1>6, <1>21
<1> DEFINE at == NodeAt(s, q)
<1>23. at.element = JunctionOf(n)
  <2>1. at.element = IF NoTag \in {b.kv : b \in Range(Block(s, q, s[q].ntags))} THEN Thrown
                     ELSE [id |-> s[q].id, lon |-> s[q].lon, ele |-> s[q].ele,
                           tags |-> {b.kv : b \in Range(Block(s, q, s[q].ntags))}]
    BY DEF NodeAt
  <2>2. {b.kv : b \in Range(Block(s, q, s[q].ntags))} = tags
    BY <1>13, Zenon DEF B, k
  <2> HIDE DEF at, tags
  <2>3. at.element = [id |-> s[q].id, lon |-> s[q].lon, ele |-> s[q].ele, tags |-> tags]
    BY <1>22, <2>1, <2>2, Zenon
  <2> HIDE DEF S
  <2>4. at.element = [id |-> n.id, lon |-> n.lon, ele |-> ("ele" \in n.tags), tags |-> S]
    BY <1>13, <1>21, <2>3, Zenon
  <2>5. QED
    BY <2>4, Zenon DEF JunctionOf, S
<1> DEFINE r == q + c
<1>24. at.q = r
  <2>1. at.q = Skip(s, q, AtLeastOne(s[q].ntags))
    BY DEF NodeAt
  <2>2. AtLeastOne(s[q].ntags) = c
    BY <1>9, <1>13, Zenon
  <2>3. q + c <= Len(s) + 1
    BY <1>3, <1>4, <1>17
  <2>4. Skip(s, q, c) = q + c
    BY <1>3, <1>4, <1>9, <2>3, Skipped
  <2>5. QED
    BY <2>1, <2>2, <2>4, Zenon
<1> HIDE DEF at, tags
<1>25. /\ r \in 1 .. Len(s) + 1 /\ q < r
       /\ \A p \in 1 .. r - 1 : p \in 1 .. Len(s) /\ h[p] <= v /\ (p < q \/ s[p] \in G)
       /\ \A p \in r .. Len(s) : p \in 1 .. Len(s) /\ h[p] > v
  <2>1. c > 0
    BY <1>8, <1>9 DEF AtLeastOne
  <2>2. r \in 1 .. Len(s) + 1 /\ q < r
    BY <1>3, <1>4, <1>9, <1>17, <2>1
  <2>3. ASSUME NEW p \in 1 .. r - 1 PROVE p \in 1 .. Len(s) /\ h[p] <= v /\ (p < q \/ s[p] \in G)
    <3>1. p \in 1 .. Len(s) /\ p \in 1 .. q + c - 1 /\ (p < q \/ p \in q .. q + c - 1)
      BY <1>3, <1>4, <1>9, <2>2
    <3>2. QED
      BY <1>17, <3>1
  <2>4. ASSUME NEW p \in r .. Len(s) PROVE p \in 1 .. Len(s) /\ h[p] > v
    BY <1>3, <1>4, <1>17, <2>2
  <2>5. QED
    BY <2>2, <2>3, <2>4
<1> HIDE DEF r
<1>26. Between(s, r)
  <2>1. ASSUME NEW p \in 1 .. r - 1, NEW o \in r .. Len(s) PROVE s[p].id # s[o].id
    <3>1. p \in 1 .. Len(s) /\ o \in 1 .. Len(s)
      BY <1>25
    <3>2. h[p] <= v /\ h[o] > v /\ h[p] \in Int /\ h[o] \in Int
      BY <1>15, <1>25, <3>1 DEF Follows
    <3>3. h[p] # h[o]
      BY <1>16, <3>2
    <3>4. QED
      BY <1>14, <3>1, <3>3
  <2>2. QED
    BY <1>25, <2>1, Zenon DEF Between
<1>27. Seen(s, r) = Seen(s, q) \cup {n.id}
  <2>1. ASSUME NEW p \in 1 .. r - 1 PROVE s[p].id \in Seen(s, q) \cup {n.id}
    <3>1. CASE p < q
      <4>1. p \in 1 .. q - 1
        BY <1>4, <3>1
      <4>2. QED
        BY <4>1 DEF Seen
    <3>2. CASE s[p] \in G
      BY <1>3, <1>12, <1>25, <3>2
    <3>3. QED
      BY <1>25, <3>1, <3>2
  <2>2. \A p \in 1 .. q - 1 : p \in 1 .. r - 1
    BY <1>3, <1>4, <1>25
  <2>3. q \in 1 .. r - 1
    BY <1>3, <1>4, <1>25
  <2>4. QED
    BY <1>13, <2>1, <2>2, <2>3 DEF Seen
<1>28. n.id \notin Seen(s, q)
  <2>1. q \in q .. Len(s)
    BY <1>4
  <2>2. QED
    BY <1>13, <2>1 DEF Seen, Between
<1>29. QED
  BY <1>23, <1>24, <1>26, <1>27, <1>28 DEF at

\* At the end of the rows all nodes of roads have been seen.
LEMMA NodesSeen ==
  ASSUME NEW e \in Extracts, NEW down, NEW s, s = Ordered(NodeRows(WithRelations(e), down)),
         NEW q, Between(s, q), AtEnd(s, q)
  PROVE  \A n \in RoadNodes(e) : n.id \in Seen(s, q)
<1> DEFINE K == NodeRows(WithRelations(e), down)
           R == RowsOf(K)
           tg(n) == OrNone(n.tags \ {"ele"})
<1>1. Lists(s, R)
  BY NodeRowsOrdered, Zenon
<1>2. \A x : x \in R <=> \E n \in RoadNodes(e) : \E t \in tg(n) : x = NodeRow(n, t)
  BY NodeRowsKeyed, Zenon
<1> HIDE DEF K, R
<1> TAKE n \in RoadNodes(e)
<1>3. PICK t \in tg(n) : TRUE
  BY DEF OrNone
<1>4. PICK p \in 1 .. Len(s) : s[p] = NodeRow(n, t)
  BY <1>1, <1>2 DEF Lists
<1>5. p \in 1 .. q - 1
  BY <1>1 DEF Between, AtEnd, Lists
<1>6. QED
  BY <1>4, <1>5 DEF Seen, NodeRow

-----------------------------------------------------------------------------
(* The rows of the ways.                                                   *)

\* The rows of a way, and the keys they have.
TagRow(w, t) == [id |-> w.id, ntags |-> Cardinality(w.tags), nrefs |-> Len(w.refs),
                 kv |-> t, node_id |-> Null, order_ |-> Null]
RefRow(w, i) == [id |-> w.id, ntags |-> Cardinality(w.tags), nrefs |-> Len(w.refs),
                 kv |-> NoTag, node_id |-> w.refs[i], order_ |-> i - 1]

WayKey(x) == <<x.id, x.order_>>

IsTagRow(w, x) == \E t \in OrNone(w.tags) : x = TagRow(w, t)
IsRefRow(w, x) == \E i \in DOMAIN w.refs : x = RefRow(w, i)

OfWay(e, k) ==
  \E w \in RoadsOf(e) : \E x : (IsTagRow(w, x) \/ IsRefRow(w, x)) /\ k = <<WayKey(x), x>>

\* The fields of these rows.
LEMMA WayRowFields ==
  ASSUME NEW w, NEW x
  PROVE  /\ IsTagRow(w, x) =>
              /\ x.id = w.id /\ x.ntags = Cardinality(w.tags) /\ x.nrefs = Len(w.refs)
              /\ x.order_ = Null /\ x = TagRow(w, x.kv)
         /\ IsRefRow(w, x) =>
              /\ x.id = w.id /\ x.ntags = Cardinality(w.tags) /\ x.nrefs = Len(w.refs)
              /\ \E i \in DOMAIN w.refs : x.order_ = i - 1 /\ x = RefRow(w, i)
<1>1. ASSUME IsTagRow(w, x)
      PROVE  /\ x.id = w.id /\ x.ntags = Cardinality(w.tags) /\ x.nrefs = Len(w.refs)
             /\ x.order_ = Null /\ x = TagRow(w, x.kv)
  BY <1>1 DEF IsTagRow, TagRow
<1>2. ASSUME IsRefRow(w, x)
      PROVE  /\ x.id = w.id /\ x.ntags = Cardinality(w.tags) /\ x.nrefs = Len(w.refs)
             /\ \E i \in DOMAIN w.refs : x.order_ = i - 1 /\ x = RefRow(w, i)
  <2>1. PICK i \in DOMAIN w.refs : x = RefRow(w, i)
    BY <1>2 DEF IsRefRow
  <2>2. x.id = w.id /\ x.ntags = Cardinality(w.tags) /\ x.nrefs = Len(w.refs) /\ x.order_ = i - 1
    BY <2>1 DEF RefRow
  <2>3. QED
    BY <2>1, <2>2
<1>3. QED
  BY <1>1, <1>2

\* What is known of a road.
LEMMA RoadKnown ==
  ASSUME NEW e \in Extracts, NEW w \in RoadsOf(e)
  PROVE  /\ w \in Range(e.ways) /\ w.id \in Nat /\ w.id > 0 /\ IsFiniteSet(w.tags) /\ NoTag \notin w.tags
         /\ w = [id |-> w.id, refs |-> w.refs, tags |-> w.tags]
         /\ w.refs \in Seq(Nat) /\ Len(w.refs) \in Nat /\ DOMAIN w.refs = 1 .. Len(w.refs)
         /\ \A v \in RoadsOf(e) : v.id = w.id => v = w
         /\ IsFiniteSet(RoadsOf(e))
<1>1. /\ w \in Range(e.ways) /\ w \in ExtractWay /\ w.id > 0 /\ IsFiniteSet(w.tags) /\ NoTag \notin w.tags
      /\ \A v \in RoadsOf(e) : v.id = w.id => v = w
  BY Elements DEF RoadsOf
<1>2. PICK a \in Nat, b \in Seq(Id), c \in SUBSET Tag : w = [id |-> a, refs |-> b, tags |-> c]
  BY <1>1 DEF ExtractWay
<1>3. w.id = a /\ w.refs = b /\ w.tags = c
  BY <1>2
<1>4. b \in Seq(Nat)
  <2>1. PICK n \in Nat : b \in [1 .. n -> Id]
    OBVIOUS
  <2>2. b \in [1 .. n -> Nat]
    BY <2>1, ExtractAssumption
  <2>3. QED
    BY <2>2
<1>5. Len(b) \in Nat /\ DOMAIN b = 1 .. Len(b)
  BY <1>4
<1>6. IsFiniteSet(RoadsOf(e))
  <2>1. RoadsOf(e) \in SUBSET Range(e.ways)
    BY DEF RoadsOf
  <2>2. QED
    BY <2>1, Elements, FS_Subset
<1>7. QED
  BY <1>1, <1>2, <1>3, <1>4, <1>5, <1>6

\* The rows of the query for ways.
LEMMA WayRowsFound ==
  ASSUME NEW e \in Extracts, NEW k
  PROVE  k \in WayRows(WithRelations(e)) <=> OfWay(e, k)
<1> DEFINE T == WithRelations(e)
           row(w, t, r, o) == <<<<w.id, o>>, [id |-> w.id, ntags |-> w.ntags, nrefs |-> w.nrefs,
                                              kv |-> t, node_id |-> r, order_ |-> o]>>
           roads == highway(T)
           A(w) == {row(w, t, Null, Null) : t \in TagsOf(T, "way", w)}
           B(w) == {row(w, NoTag, s.node_id, s.order_) : s \in {r \in T.node_in_way : r.way_id = w.id}}
<1>1. roads = {WayRecord(w) : w \in RoadsOf(e)}
  BY HighwaysFound
<1>2. \A x : x \in T.node_in_way <=> \E w \in Range(e.ways) : \E i \in DOMAIN w.refs : x = RefRecord(w, i)
  BY RefsFound
<1>3. ASSUME NEW w \in RoadsOf(e) PROVE TagsOf(T, "way", WayRecord(w)) = OrNone(w.tags)
  <2>1. WayRecord(w).id = w.id
    BY DEF WayRecord
  <2>2. {t.kv : t \in {u \in T.tag : u.of = "way" /\ u.id = w.id}} = w.tags
    BY TagsFound DEF RoadsOf
  <2>3. QED
    BY <2>1, <2>2, Zenon DEF TagsOf, OrNone
<1>4. WayRows(T) = UNION {A(w) \cup B(w) : w \in roads}
  BY Zenon DEF WayRows
<1> HIDE DEF T, roads
<1>5. ASSUME NEW w \in RoadsOf(e)
      PROVE  /\ WayRecord(w).id = w.id
             /\ \A t : row(WayRecord(w), t, Null, Null) = <<WayKey(TagRow(w, t)), TagRow(w, t)>>
             /\ \A i \in DOMAIN w.refs : row(WayRecord(w), NoTag, RefRecord(w, i).node_id, RefRecord(w, i).order_)
                                           = <<WayKey(RefRow(w, i)), RefRow(w, i)>>
  <2>1. /\ WayRecord(w).id = w.id /\ WayRecord(w).nrefs = Len(w.refs) /\ WayRecord(w).ntags = Cardinality(w.tags)
    BY DEF WayRecord
  <2>2. \A t : TagRow(w, t).id = w.id /\ TagRow(w, t).order_ = Null
    BY DEF TagRow
  <2>3. \A i : RefRow(w, i).id = w.id /\ RefRow(w, i).order_ = i - 1
    BY DEF RefRow
  <2>4. \A i : RefRecord(w, i).node_id = w.refs[i] /\ RefRecord(w, i).order_ = i - 1
    BY DEF RefRecord
  <2>5. \A t : row(WayRecord(w), t, Null, Null) = <<WayKey(TagRow(w, t)), TagRow(w, t)>>
    BY <2>1, <2>2, Zenon DEF WayKey, TagRow
  <2>6. \A i : row(WayRecord(w), NoTag, RefRecord(w, i).node_id, RefRecord(w, i).order_)
                 = <<WayKey(RefRow(w, i)), RefRow(w, i)>>
    BY <2>1, <2>3, <2>4, Zenon DEF WayKey, RefRow
  <2>7. QED
    BY <2>1, <2>5, <2>6
<1> HIDE DEF row
<1>6. ASSUME NEW w \in RoadsOf(e)
      PROVE  k \in A(WayRecord(w)) <=> \E x : IsTagRow(w, x) /\ k = <<WayKey(x), x>>
  <2>1. k \in A(WayRecord(w)) <=> \E t \in OrNone(w.tags) : k = row(WayRecord(w), t, Null, Null)
    BY <1>3
  <2>2. k \in A(WayRecord(w)) <=> \E t \in OrNone(w.tags) : k = <<WayKey(TagRow(w, t)), TagRow(w, t)>>
    BY <1>5, <2>1, Zenon
  <2>3. QED
    BY <2>2, Zenon DEF IsTagRow
<1>7. ASSUME NEW w \in RoadsOf(e)
      PROVE  k \in B(WayRecord(w)) <=> \E x : IsRefRow(w, x) /\ k = <<WayKey(x), x>>
  <2>1. \A v \in Range(e.ways) : v.id = w.id => v = w
    BY Elements DEF RoadsOf
  <2>2. \A v, i : RefRecord(v, i).way_id = v.id
    BY DEF RefRecord
  <2>3. w \in Range(e.ways)
    BY DEF RoadsOf
  <2>4. \A s : s \in {r \in T.node_in_way : r.way_id = w.id} <=> \E i \in DOMAIN w.refs : s = RefRecord(w, i)
    BY <1>2, <2>1, <2>2, <2>3
  <2>5. k \in B(WayRecord(w)) <=>
          \E i \in DOMAIN w.refs : k = row(WayRecord(w), NoTag, RefRecord(w, i).node_id, RefRecord(w, i).order_)
    <3>1. {r \in T.node_in_way : r.way_id = WayRecord(w).id} = {r \in T.node_in_way : r.way_id = w.id}
      BY <1>5
    <3>2. k \in B(WayRecord(w)) <=> \E s \in {r \in T.node_in_way : r.way_id = WayRecord(w).id} :
            k = row(WayRecord(w), NoTag, s.node_id, s.order_)
      OBVIOUS
    <3>3. QED
      BY <2>4, <3>1, <3>2, Zenon
  <2>6. k \in B(WayRecord(w)) <=> \E i \in DOMAIN w.refs : k = <<WayKey(RefRow(w, i)), RefRow(w, i)>>
    BY <1>5, <2>5, Zenon
  <2>7. QED
    BY <2>6, Zenon DEF IsRefRow
<1> HIDE DEF A, B
<1>8. k \in WayRows(T) <=> \E w \in RoadsOf(e) : k \in A(WayRecord(w)) \/ k \in B(WayRecord(w))
  <2>1. k \in WayRows(T) <=> \E r \in roads : k \in A(r) \/ k \in B(r)
    BY <1>4
  <2>2. \A r : r \in roads <=> \E w \in RoadsOf(e) : r = WayRecord(w)
    BY <1>1
  <2>3. QED
    BY <2>1, <2>2, Zenon
<1>9. QED
  BY <1>6, <1>7, <1>8, Zenon DEF OfWay, T

\* They are keyed by the id and the place of the reference.
LEMMA WayRowsKeyed ==
  ASSUME NEW e \in Extracts
  PROVE  LET K == WayRows(WithRelations(e)) IN
         /\ Keyed(K, 2)
         /\ \A x : x \in RowsOf(K) <=> \E w \in RoadsOf(e) : IsTagRow(w, x) \/ IsRefRow(w, x)
         /\ \A k \in K : k[1] = WayKey(k[2]) /\ k[2].id \in Int /\ k[2].order_ \in Int
<1> DEFINE K == WayRows(WithRelations(e))
           J == RoadsOf(e)
           kt(w) == [t \in OrNone(w.tags) |-> <<WayKey(TagRow(w, t)), TagRow(w, t)>>]
           kr(w) == [i \in DOMAIN w.refs |-> <<WayKey(RefRow(w, i)), RefRow(w, i)>>]
           f == [w \in J |-> {kt(w)[t] : t \in OrNone(w.tags)} \cup {kr(w)[i] : i \in DOMAIN w.refs}]
<1>1. ASSUME NEW k
      PROVE  k \in K <=> \E w \in J : \E x : (IsTagRow(w, x) \/ IsRefRow(w, x)) /\ k = <<WayKey(x), x>>
  <2>1. k \in K <=> OfWay(e, k)
    BY WayRowsFound
  <2> HIDE DEF K
  <2>2. QED
    BY <2>1 DEF OfWay
<1> HIDE DEF K
<1>2. ASSUME NEW w \in J
      PROVE  w.id \in Int /\ IsFiniteSet(OrNone(w.tags)) /\ IsFiniteSet(DOMAIN w.refs)
             /\ DOMAIN w.refs \in SUBSET Nat /\ IsFiniteSet(J)
  <2>1. w.id \in Nat /\ IsFiniteSet(w.tags) /\ Len(w.refs) \in Nat /\ DOMAIN w.refs = 1 .. Len(w.refs)
        /\ IsFiniteSet(J)
    BY RoadKnown
  <2>2. IsFiniteSet(DOMAIN w.refs)
    <3>1. PICK n \in Nat : n = Len(w.refs)
      BY <2>1
    <3>2. 1 \in Int /\ n \in Int
      OBVIOUS
    <3>3. IsFiniteSet(1 .. n)
      BY <3>2, FS_Interval, Zenon
    <3>4. QED
      BY <2>1, <3>1, <3>3
  <2>3. IsFiniteSet({NoTag})
    BY FS_Singleton
  <2>4. QED
    BY <2>1, <2>2, <2>3 DEF OrNone
<1> HIDE DEF J
<1>3. \A w \in J : IsFiniteSet(f[w])
  <2>1. ASSUME NEW w \in J
        PROVE  IsFiniteSet({kt(w)[t] : t \in OrNone(w.tags)} \cup {kr(w)[i] : i \in DOMAIN w.refs})
    <3>1. IsFiniteSet({kt(w)[t] : t \in OrNone(w.tags)}) /\ IsFiniteSet({kr(w)[i] : i \in DOMAIN w.refs})
      BY <1>2, FiniteValues, Zenon
    <3> HIDE DEF kt, kr
    <3>2. QED
      BY <3>1, FS_Union
  <2> HIDE DEF kt, kr
  <2>2. QED
    BY <2>1
<1>4. K = UNION {f[w] : w \in J}
  <2>1. ASSUME NEW k, NEW w \in J PROVE k \in f[w] <=> \E x : (IsTagRow(w, x) \/ IsRefRow(w, x)) /\ k = <<WayKey(x), x>>
    BY DEF IsTagRow, IsRefRow
  <2>2. ASSUME NEW k PROVE k \in K <=> \E w \in J : k \in f[w]
    BY <1>1, <2>1, Zenon
  <2> HIDE DEF f
  <2>3. QED
    BY <2>2
<1>5. IsFiniteSet(K)
  <2> HIDE DEF f
  <2>1. IsFiniteSet(J)
    <3>1. CASE J = {}
      BY <3>1, FS_EmptySet
    <3>2. CASE J # {}
      BY <1>2, <3>2
    <3>3. QED
      BY <3>1, <3>2
  <2>2. QED
    BY <1>3, <1>4, <2>1, FiniteUnion
<1>6. ASSUME NEW k \in K
      PROVE  /\ k[1] = WayKey(k[2]) /\ k[2].id \in Int /\ k[2].order_ \in Int
             /\ k[1] \in [1 .. 2 -> Int] /\ k = <<WayKey(k[2]), k[2]>>
  <2>1. PICK w, x : w \in J /\ (IsTagRow(w, x) \/ IsRefRow(w, x)) /\ k = <<WayKey(x), x>>
    BY <1>1
  <2>2. x.id \in Int /\ x.order_ \in Int
    BY <1>2, <2>1, WayRowFields DEF Null
  <2>3. k[2] = x /\ k[1] = WayKey(x)
    BY <2>1
  <2>4. WayKey(x) \in [1 .. 2 -> Int]
    BY <2>2 DEF WayKey
  <2>5. QED
    BY <2>1, <2>2, <2>3, <2>4
<1>7. Keyed(K, 2)
  BY <1>5, <1>6 DEF Keyed
<1>8. ASSUME NEW x PROVE x \in RowsOf(K) <=> \E w \in J : IsTagRow(w, x) \/ IsRefRow(w, x)
  <2>1. x \in RowsOf(K) <=> \E k \in K : x = k[2]
    BY DEF RowsOf
  <2>2. ASSUME NEW k \in K, x = k[2] PROVE \E w \in J : IsTagRow(w, x) \/ IsRefRow(w, x)
    BY <1>1, <2>2
  <2>3. ASSUME NEW w \in J, IsTagRow(w, x) \/ IsRefRow(w, x) PROVE \E k \in K : x = k[2]
    <3>1. <<WayKey(x), x>> \in K
      BY <1>1, <2>3
    <3>2. QED
      BY <3>1
  <2>4. QED
    BY <2>1, <2>2, <2>3
<1>9. QED
  BY <1>6, <1>7, <1>8 DEF K, J

\* Rows are in the order of the ids, those of a way by the places.
LEMMA WayRowsOrdered ==
  ASSUME NEW e \in Extracts
  PROVE  LET K == WayRows(WithRelations(e))
             s == Ordered(K)
         IN  /\ Lists(s, RowsOf(K))
             /\ \A p \in 1 .. Len(s) : s[p].id \in Int /\ s[p].order_ \in Int
             /\ \A i, j \in 1 .. Len(s) : i < j =>
                  s[i].id < s[j].id \/ (s[i].id = s[j].id /\ s[i].order_ <= s[j].order_)
<1> DEFINE K == WayRows(WithRelations(e))
           s == Ordered(K)
<1>1. Keyed(K, 2) /\ \A k \in K : k[1] = WayKey(k[2]) /\ k[2].id \in Int /\ k[2].order_ \in Int
  BY WayRowsKeyed
<1>2. Arranged(s, K)
  BY <1>1, ResultArranged
<1> HIDE DEF K, s
<1>3. ASSUME NEW p \in 1 .. Len(s)
      PROVE  \E k \in K : s[p] = k[2] /\ k[1] = WayKey(s[p]) /\ s[p].id \in Int /\ s[p].order_ \in Int
  <2>1. s[p] \in RowsOf(K)
    BY <1>2 DEF Arranged, Lists
  <2>2. QED
    BY <1>1, <2>1 DEF RowsOf
<1>4. ASSUME NEW i \in 1 .. Len(s), NEW j \in 1 .. Len(s), i < j
      PROVE  s[i].id < s[j].id \/ (s[i].id = s[j].id /\ s[i].order_ <= s[j].order_)
  <2>1. PICK k \in K : s[i] = k[2] /\ k[1] = WayKey(s[i]) /\ s[i].id \in Int /\ s[i].order_ \in Int
    BY <1>3
  <2>2. PICK l \in K : s[j] = l[2] /\ l[1] = WayKey(s[j]) /\ s[j].id \in Int /\ s[j].order_ \in Int
    BY <1>3
  <2>3. ~ Before(l[1], k[1])
    BY <1>2, <1>4, <2>1, <2>2 DEF Arranged
  <2>4. /\ l[1][1] = s[j].id /\ l[1][2] = s[j].order_ /\ k[1][1] = s[i].id /\ k[1][2] = s[i].order_
        /\ DOMAIN l[1] = 1 .. 2
    BY <2>1, <2>2 DEF WayKey
  <2>5. ASSUME s[j].id < s[i].id PROVE Before(l[1], k[1])
    <3>1. 1 \in 1 .. 2 /\ 1 .. 1 - 1 = {}
      OBVIOUS
    <3>2. QED
      BY <2>4, <2>5, <3>1 DEF Before
  <2>6. ASSUME s[j].id = s[i].id, s[j].order_ < s[i].order_ PROVE Before(l[1], k[1])
    <3>1. 2 \in 1 .. 2 /\ \A x \in 1 .. 2 - 1 : x = 1
      OBVIOUS
    <3>2. \A x \in 1 .. 2 - 1 : l[1][x] = k[1][x]
      BY <2>4, <2>6, <3>1
    <3>3. QED
      BY <2>4, <2>6, <3>1, <3>2 DEF Before
  <2>7. QED
    BY <2>1, <2>2, <2>3, <2>5, <2>6
<1>5. QED
  BY <1>2, <1>3, <1>4 DEF Arranged, K, s

\* An element has a row for each tag, at least one.
LEMMA TagCount ==
  ASSUME NEW S, IsFiniteSet(S)
  PROVE  /\ IsFiniteSet(OrNone(S)) /\ Cardinality(S) \in Nat
         /\ Cardinality(OrNone(S)) = AtLeastOne(Cardinality(S))
         /\ AtLeastOne(Cardinality(S)) \in Nat \ {0}
         /\ S # {} => OrNone(S) = S /\ AtLeastOne(Cardinality(S)) = Cardinality(S)
         /\ S = {} => Cardinality(S) = 0
<1>1. Cardinality(S) \in Nat
  BY FS_CardinalityType
<1>2. CASE S = {}
  <2>1. OrNone(S) = {NoTag}
    BY <1>2 DEF OrNone
  <2>2. Cardinality(S) = 0
    BY <1>2, FS_EmptySet
  <2>3. IsFiniteSet({NoTag}) /\ Cardinality({NoTag}) = 1
    BY FS_Singleton
  <2>4. QED
    BY <1>2, <2>1, <2>2, <2>3 DEF AtLeastOne
<1>3. CASE S # {}
  <2>1. OrNone(S) = S
    BY <1>3 DEF OrNone
  <2>2. Cardinality(S) # 0
    BY <1>3, FS_EmptySet
  <2>3. QED
    BY <1>1, <1>3, <2>1, <2>2 DEF AtLeastOne
<1>4. QED
  BY <1>2, <1>3

\* From q on are the rows G, one for each of the tags S, or one for none.
TagRun(s, q, S, G) ==
  /\ {x.kv : x \in G} = OrNone(S)
  /\ {s[p] : p \in q .. q + AtLeastOne(Cardinality(S)) - 1} = G
  /\ q + AtLeastOne(Cardinality(S)) \in q .. Len(s) + 1

TagsAt(s, q, n) == {b.kv : b \in Range(Block(s, q, n))}

\* The tags of an element are read from the rows it has for them.
LEMMA TagsInRun ==
  ASSUME NEW R, NEW s \in Seq(R), NEW q \in 1 .. Len(s) + 1, NEW S, IsFiniteSet(S),
         NEW G, TagRun(s, q, S, G)
  PROVE  TagsAt(s, q, Cardinality(S)) = S
<1> DEFINE k == Cardinality(S)
           c == AtLeastOne(k)
           B == Block(s, q, k)
<1>1. /\ k \in Nat /\ c \in Nat \ {0} /\ (S # {} => OrNone(S) = S /\ c = k) /\ (S = {} => k = 0)
  BY TagCount
<1>2. Len(s) \in Nat
  OBVIOUS
<1> HIDE DEF k, c
<1>3. q + c \in q .. Len(s) + 1 /\ {s[p] : p \in q .. q + c - 1} = G
  BY DEF c, k, TagRun
<1>4. q + k <= Len(s) + 1
  <2>1. k <= c
    BY <1>1
  <2>2. QED
    BY <1>1, <1>2, <1>3, <2>1
<1>5. Range(B) = {s[p] : p \in q .. q + k - 1}
  <2>1. HasRows(B, s, q, k)
    BY <1>1, <1>4, BlockRead
  <2>2. QED
    BY <2>1, Zenon DEF HasRows
<1> HIDE DEF B
<1>6. {x.kv : x \in G} = OrNone(S)
  BY DEF TagRun
<1>7. TagsAt(s, q, k) = {b.kv : b \in Range(B)}
  BY DEF TagsAt, B
<1>8. CASE S = {}
  <2>1. q .. q + k - 1 = {}
    BY <1>1, <1>2, <1>8
  <2>2. Range(B) = {}
    BY <1>5, <2>1
  <2>3. QED
    BY <1>8, <1>7, <2>2 DEF k
<1>9. CASE S # {}
  <2>1. Range(B) = G
    BY <1>1, <1>3, <1>5, <1>9
  <2>2. QED
    BY <1>1, <1>9, <1>6, <1>7, <2>1 DEF k
<1>10. QED
  BY <1>8, <1>9

\* The rows of ways in the order of their ways are those of the way w, then those of
\* its tags, of its references, and of later ways.
WayPlace(w, x) ==
  IF x.id < w.id THEN -2 ELSE IF x.id = w.id THEN x.order_ ELSE Len(w.refs)

\* The places count up along the rows of the query.
LEMMA WayRowsPlaced ==
  ASSUME NEW e \in Extracts, NEW s, s = Ordered(WayRows(WithRelations(e))), NEW w \in RoadsOf(e)
  PROVE  LET h == [p \in 1 .. Len(s) |-> WayPlace(w, s[p])]
             R == RowsOf(WayRows(WithRelations(e)))
         IN  /\ Lists(s, R) /\ h \in [1 .. Len(s) -> Int]
             /\ \A i, j \in 1 .. Len(s) : i < j => h[i] <= h[j] /\ s[i].id <= s[j].id
             /\ \A x : IsTagRow(w, x) \/ IsRefRow(w, x) => x \in R
             /\ \A p \in 1 .. Len(s) :
                  /\ s[p].id \in Int
                  /\ \E v \in RoadsOf(e) : IsTagRow(v, s[p]) \/ IsRefRow(v, s[p])
                  /\ h[p] = -2 <=> s[p].id < w.id
                  /\ h[p] = -1 <=> IsTagRow(w, s[p])
                  /\ \A i \in 0 .. Len(w.refs) - 1 : h[p] = i <=> s[p] = RefRow(w, i + 1)
                  /\ s[p].id = w.id => h[p] \in -1 .. Len(w.refs) - 1
                  /\ s[p].id > w.id => h[p] = Len(w.refs)
<1> DEFINE K == WayRows(WithRelations(e))
           R == RowsOf(K)
           h == [p \in 1 .. Len(s) |-> WayPlace(w, s[p])]
           n == Len(w.refs)
<1>1. /\ Lists(s, R) /\ \A p \in 1 .. Len(s) : s[p].id \in Int /\ s[p].order_ \in Int
      /\ \A i, j \in 1 .. Len(s) : i < j =>
           s[i].id < s[j].id \/ (s[i].id = s[j].id /\ s[i].order_ <= s[j].order_)
  BY WayRowsOrdered, Zenon
<1>2. \A x : x \in R <=> \E v \in RoadsOf(e) : IsTagRow(v, x) \/ IsRefRow(v, x)
  BY WayRowsKeyed, Zenon
<1> HIDE DEF K, R
<1>3. w.id \in Int /\ n \in Nat /\ DOMAIN w.refs = 1 .. n /\ \A v \in RoadsOf(e) : v.id = w.id => v = w
  BY RoadKnown
<1> HIDE DEF n
<1>4. ASSUME NEW p \in 1 .. Len(s)
      PROVE  /\ s[p].id \in Int /\ h[p] \in Int
             /\ \E v \in RoadsOf(e) : IsTagRow(v, s[p]) \/ IsRefRow(v, s[p])
             /\ h[p] = -2 <=> s[p].id < w.id
             /\ h[p] = -1 <=> IsTagRow(w, s[p])
             /\ \A i \in 0 .. n - 1 : h[p] = i <=> s[p] = RefRow(w, i + 1)
             /\ s[p].id = w.id => h[p] \in -1 .. n - 1 /\ h[p] = s[p].order_
             /\ s[p].id > w.id => h[p] = n
             /\ s[p].id < w.id => h[p] = -2
  <2> DEFINE x == s[p]
  <2>1. x \in R /\ x.id \in Int /\ x.order_ \in Int
    BY <1>1 DEF Lists
  <2>2. PICK v \in RoadsOf(e) : IsTagRow(v, x) \/ IsRefRow(v, x)
    BY <1>2, <2>1
  <2>3. h[p] = IF x.id < w.id THEN -2 ELSE IF x.id = w.id THEN x.order_ ELSE n
    BY DEF WayPlace, n
  <2> HIDE DEF x, h
  <2>4. /\ IsTagRow(w, x) => x.id = w.id /\ x.order_ = -1
        /\ IsRefRow(w, x) => x.id = w.id /\ \E i \in 1 .. n : x.order_ = i - 1 /\ x = RefRow(w, i)
    BY <1>3, WayRowFields DEF Null
  <2>5. x.id = w.id => IsTagRow(w, x) \/ IsRefRow(w, x)
    BY <1>3, <2>2, WayRowFields
  <2>6. \A i \in 0 .. n - 1 : x = RefRow(w, i + 1) => x.id = w.id /\ x.order_ = i
    BY <1>3 DEF RefRow
  <2>7. x.id < w.id \/ x.id = w.id \/ x.id > w.id
    BY <1>3, <2>1
  <2>8. h[p] \in Int /\ (x.id < w.id <=> h[p] = -2) /\ (x.id = w.id => h[p] \in -1 .. n - 1 /\ h[p] = x.order_)
        /\ (x.id > w.id => h[p] = n)
    BY <1>3, <2>1, <2>3, <2>4, <2>5, <2>7
  <2>9. h[p] = -1 <=> IsTagRow(w, x)
    BY <1>3, <2>3, <2>4, <2>5, <2>7, <2>8
  <2>10. ASSUME NEW i \in 0 .. n - 1 PROVE h[p] = i <=> x = RefRow(w, i + 1)
    <3>1. ASSUME h[p] = i PROVE x = RefRow(w, i + 1)
      <4>1. x.id = w.id /\ x.order_ = i
        BY <1>3, <2>3, <2>7, <2>8, <3>1
      <4>2. PICK j \in 1 .. n : x.order_ = j - 1 /\ x = RefRow(w, j)
        BY <2>4, <2>5, <4>1
      <4>3. j = i + 1
        BY <1>3, <4>1, <4>2
      <4>4. QED
        BY <4>2, <4>3
    <3>2. QED
      BY <2>6, <2>8, <3>1
  <2>11. QED
    BY <2>1, <2>2, <2>8, <2>9, <2>10 DEF x
<1>5. h \in [1 .. Len(s) -> Int]
  BY <1>4
<1> HIDE DEF h
<1>6. ASSUME NEW i \in 1 .. Len(s), NEW j \in 1 .. Len(s), i < j PROVE h[i] <= h[j] /\ s[i].id <= s[j].id
  <2>1. s[i].id < s[j].id \/ (s[i].id = s[j].id /\ s[i].order_ <= s[j].order_)
    BY <1>1, <1>6
  <2>2. s[i].id \in Int /\ s[j].id \in Int /\ s[i].order_ \in Int /\ s[j].order_ \in Int
    BY <1>1
  <2>3. h[i] \in Int /\ h[j] \in Int
    BY <1>4
  <2>4. ASSUME NEW p \in 1 .. Len(s) PROVE h[p] \in -2 .. n
    <3>1. s[p].id \in Int /\ (s[p].id < w.id \/ s[p].id = w.id \/ s[p].id > w.id)
      BY <1>1, <1>3
    <3>2. s[p].id = w.id => h[p] \in -1 .. n - 1
      BY <1>4
    <3>3. (s[p].id < w.id => h[p] = -2) /\ (s[p].id > w.id => h[p] = n)
      BY <1>4
    <3>4. QED
      BY <1>3, <3>1, <3>2, <3>3
  <2>5. h[i] \in -2 .. n /\ h[j] \in -2 .. n
    BY <2>4
  <2>6. CASE s[i].id < w.id
    <3>1. h[i] = -2
      BY <1>4, <2>6
    <3>2. QED
      BY <1>3, <2>1, <2>2, <2>5, <3>1
  <2>7. CASE s[i].id = w.id
    <3>1. h[i] = s[i].order_ /\ h[i] \in -1 .. n - 1
      BY <1>4, <2>7
    <3>2. CASE s[j].id = w.id
      <4>1. h[j] = s[j].order_
        BY <1>4, <3>2
      <4>2. QED
        BY <1>3, <2>1, <2>2, <2>7, <3>1, <3>2, <4>1
    <3>3. CASE s[j].id > w.id
      <4>1. h[j] = n
        BY <1>4, <3>3
      <4>2. QED
        BY <1>3, <2>1, <2>2, <2>7, <3>1, <3>3, <4>1
    <3>4. QED
      BY <1>3, <2>1, <2>2, <2>7, <3>2, <3>3
  <2>8. CASE s[i].id > w.id
    <3>1. s[j].id > w.id /\ s[i].id <= s[j].id
      BY <1>3, <2>1, <2>2, <2>8
    <3>2. h[i] = n /\ h[j] = n
      BY <1>4, <2>8, <3>1
    <3>3. QED
      BY <1>3, <3>1, <3>2
  <2>9. QED
    BY <1>3, <2>2, <2>6, <2>7, <2>8
<1>7. QED
  BY <1>1, <1>2, <1>4, <1>5, <1>6, Zenon DEF K, R, h, n

\* An iteration of retrieve takes all rows of a way: those of its tags, then those
\* of its references.
LEMMA WayFetched ==
  ASSUME NEW e \in Extracts, \A w \in RoadsOf(e) : w.refs # <<>>,
         NEW s, s = Ordered(WayRows(WithRelations(e))),
         NEW q, Between(s, q), ~ AtEnd(s, q)
  PROVE  \E w \in RoadsOf(e) :
           /\ WayAt(s, q).element = w
           /\ Between(s, WayAt(s, q).q)
           /\ w.id \notin Seen(s, q) /\ Seen(s, WayAt(s, q).q) = Seen(s, q) \cup {w.id}
<1> DEFINE R == RowsOf(WayRows(WithRelations(e)))
<1>1. Lists(s, R) /\ \A x : x \in R <=> \E w \in RoadsOf(e) : IsTagRow(w, x) \/ IsRefRow(w, x)
  <2>1. Lists(s, R)
    BY WayRowsOrdered, Zenon
  <2>2. \A x : x \in R <=> \E w \in RoadsOf(e) : IsTagRow(w, x) \/ IsRefRow(w, x)
    BY WayRowsKeyed, Zenon
  <2>3. QED
    BY <2>1, <2>2
<1>2. Len(s) \in Nat /\ s \in Seq(R) /\ \A p \in 1 .. Len(s) : s[p] \in R
  BY <1>1 DEF Lists
<1>3. q \in 1 .. Len(s) /\ q \in 1 .. Len(s) + 1
  BY <1>2 DEF Between, AtEnd
<1>4. PICK w \in RoadsOf(e) : IsTagRow(w, s[q]) \/ IsRefRow(w, s[q])
  BY <1>1, <1>2, <1>3
<1> DEFINE n == Len(w.refs)
           S == w.tags
           k == Cardinality(S)
           c == AtLeastOne(k)
           h == [p \in 1 .. Len(s) |-> WayPlace(w, s[p])]
           G == {TagRow(w, t) : t \in OrNone(S)}
           g == [i \in 0 .. n - 1 |-> RefRow(w, i + 1)]
<1>5. /\ w \in Range(e.ways) /\ w.id \in Int /\ IsFiniteSet(S) /\ NoTag \notin S
      /\ w = [id |-> w.id, refs |-> w.refs, tags |-> S]
      /\ w.refs \in Seq(Nat) /\ n \in Nat /\ DOMAIN w.refs = 1 .. n
  BY RoadKnown
<1>6. n > 0
  <2>1. w.refs # <<>>
    OBVIOUS
  <2>2. QED
    BY <1>5, <2>1
<1>7. /\ h \in [1 .. Len(s) -> Int]
      /\ \A i, j \in 1 .. Len(s) : i < j => h[i] <= h[j] /\ s[i].id <= s[j].id
      /\ \A p \in 1 .. Len(s) :
           /\ s[p].id \in Int
           /\ h[p] = -2 <=> s[p].id < w.id
           /\ h[p] = -1 <=> IsTagRow(w, s[p])
           /\ \A i \in 0 .. n - 1 : h[p] = i <=> s[p] = RefRow(w, i + 1)
           /\ s[p].id = w.id => h[p] \in -1 .. n - 1
           /\ s[p].id > w.id => h[p] = n
  BY WayRowsPlaced
<1>8. \A x : IsTagRow(w, x) \/ IsRefRow(w, x) => x \in R
  BY <1>1
<1> HIDE DEF R, h
<1>9. /\ IsFiniteSet(OrNone(S)) /\ k \in Nat /\ Cardinality(OrNone(S)) = c /\ c \in Nat \ {0}
  BY <1>5, TagCount
<1>10. s[q].id = w.id /\ s[q].ntags = k /\ s[q].nrefs = n
  BY <1>4, WayRowFields
<1>11. \A x : x \in G <=> IsTagRow(w, x)
  BY DEF IsTagRow
<1>12. {x.kv : x \in G} = OrNone(S)
  <2>1. \A t : TagRow(w, t).kv = t
    BY DEF TagRow
  <2>2. ASSUME NEW t PROVE t \in {x.kv : x \in G} <=> t \in OrNone(S)
    BY <2>1
  <2>3. QED
    BY <2>2
<1>13. IsFiniteSet(G) /\ Cardinality(G) = c
  <2> DEFINE f == [t \in OrNone(S) |-> TagRow(w, t)]
  <2>1. G = {f[t] : t \in OrNone(S)}
    OBVIOUS
  <2>2. \A t, u \in OrNone(S) : f[t] = f[u] => t = u
    BY DEF TagRow
  <2> HIDE DEF f, G, S, c
  <2>3. QED
    BY <1>9, <2>1, <2>2, FiniteValues
<1> HIDE DEF G, c, k, S, n
<1>14. G \in SUBSET R
  BY <1>8, <1>11
<1>15. Follows(s, h, -1, G, q)
  <2>1. ASSUME NEW p \in 1 .. q - 1 PROVE h[p] < -1
    <3>1. p \in 1 .. Len(s) /\ p < q /\ q \in q .. Len(s)
      BY <1>2, <1>3
    <3>2. s[p].id # s[q].id
      BY <3>1 DEF Between
    <3>3. s[p].id <= s[q].id /\ s[p].id \in Int
      BY <1>3, <1>7, <3>1
    <3>4. s[p].id < w.id
      BY <1>5, <1>10, <3>2, <3>3
    <3>5. h[p] = -2
      BY <1>7, <3>1, <3>4
    <3>6. QED
      BY <3>5
  <2>2. ASSUME NEW p \in q .. Len(s) PROVE h[p] >= -1
    <3>1. p \in 1 .. Len(s) /\ (p = q \/ q < p)
      BY <1>2, <1>3
    <3>2. h[q] >= -1 /\ h[q] \in Int
      BY <1>3, <1>5, <1>7, <1>10
    <3>3. h[q] <= h[p] /\ h[p] \in Int
      BY <1>3, <1>7, <3>1, <3>2
    <3>4. QED
      BY <3>2, <3>3
  <2>3. \A p \in 1 .. Len(s) : h[p] = -1 <=> s[p] \in G
    BY <1>7, <1>11
  <2>4. QED
    BY <1>3, <1>7, <2>1, <2>2, <2>3 DEF Follows
<1> DEFINE q1 == q + c
<1>16. /\ q1 \in q .. Len(s) + 1
       /\ {s[p] : p \in q .. q + c - 1} = G
       /\ \A p \in 1 .. q1 - 1 : h[p] <= -1
       /\ \A p \in q1 .. Len(s) : h[p] > -1
  <2> DEFINE v == -1
  <2>1. v \in Int /\ Follows(s, h, v, G, q)
    BY <1>15
  <2> HIDE DEF v
  <2>2. /\ q + c \in q .. Len(s) + 1
        /\ {s[p] : p \in q .. q + c - 1} = G
        /\ \A p \in 1 .. q + c - 1 : h[p] <= v
        /\ \A p \in q + c .. Len(s) : h[p] > v
    BY <1>1, <1>13, <1>14, <2>1, RunOfRows
  <2>3. q + c - 1 = q1 - 1
    BY <1>3, <1>9
  <2>4. QED
    BY <2>2, <2>3 DEF v
<1>17. q1 \in 1 .. Len(s) + 1 /\ q < q1 /\ Skip(s, q, c) = q1
  <2>1. q1 \in 1 .. Len(s) + 1 /\ q < q1 /\ q + c <= Len(s) + 1
    BY <1>2, <1>3, <1>9, <1>16
  <2>2. QED
    BY <1>2, <1>3, <1>9, <2>1, Skipped
<1>18. TagsAt(s, q, k) = S
  <2>1. TagRun(s, q, S, G)
    BY <1>12, <1>16 DEF c, k, TagRun
  <2>2. QED
    BY <1>2, <1>3, <1>5, <2>1, TagsInRun DEF k
<1> HIDE DEF q1
<1>19. /\ q1 + n \in q1 .. Len(s) + 1
       /\ \A i \in 0 .. n - 1 : s[q1 + i] = g[i]
       /\ \A p \in 1 .. q1 + n - 1 : h[p] < n
       /\ \A p \in q1 + n .. Len(s) : h[p] >= n
  <2>1. \A i \in 0 .. n - 1 : g[i] \in R
    <3>1. ASSUME NEW i \in 0 .. n - 1 PROVE IsRefRow(w, g[i])
      <4>1. i + 1 \in DOMAIN w.refs
        BY <1>5
      <4>2. QED
        BY <4>1 DEF IsRefRow
    <3>2. QED
      BY <1>8, <3>1
  <2>2. \A p \in 1 .. Len(s) : \A i \in 0 .. n - 1 : h[p] = i <=> s[p] = g[i]
    BY <1>7
  <2>3. \A p \in 1 .. q1 - 1 : h[p] < 0
    <3> SUFFICES ASSUME NEW p \in 1 .. q1 - 1 PROVE h[p] < 0
      OBVIOUS
    <3>1. p \in 1 .. Len(s) /\ h[p] <= -1
      BY <1>2, <1>16, <1>17
    <3>2. h[p] \in Int
      BY <1>7, <3>1
    <3>3. QED
      BY <3>1, <3>2
  <2>4. \A p \in q1 .. Len(s) : h[p] >= 0
    <3> SUFFICES ASSUME NEW p \in q1 .. Len(s) PROVE h[p] >= 0
      OBVIOUS
    <3>1. p \in 1 .. Len(s) /\ h[p] > -1
      BY <1>2, <1>16, <1>17
    <3>2. h[p] \in Int
      BY <1>7, <3>1
    <3>3. QED
      BY <3>1, <3>2
  <2>5. \A i, j \in 1 .. Len(s) : i < j => h[i] <= h[j]
    BY <1>7
  <2>6. Counts(s, R, h, n, g, q1)
    BY <1>7, <1>17, <2>1, <2>2, <2>3, <2>4, <2>5 DEF Counts
  <2> HIDE DEF g
  <2>7. Lists(s, R) /\ n \in Nat
    BY <1>1, <1>5
  <2>8. Counted(s, h, n, g, q1)
    BY <2>6, <2>7, CountedRows
  <2>9. QED
    BY <2>8 DEF Counted
<1> DEFINE r == q1 + n
           B == Block(s, q1, n)
<1>20. r \in 1 .. Len(s) + 1 /\ q1 < r /\ Skip(s, q1, n) = r /\ HasRows(B, s, q1, n)
  <2>1. r \in 1 .. Len(s) + 1 /\ q1 < r /\ q1 + n <= Len(s) + 1
    BY <1>2, <1>5, <1>6, <1>17, <1>19
  <2>2. Skip(s, q1, n) = r
    BY <1>2, <1>5, <1>17, <2>1, Skipped
  <2>3. HasRows(B, s, q1, n)
    BY <1>2, <1>5, <1>17, <2>1, BlockRead
  <2>4. QED
    BY <2>1, <2>2, <2>3
<1>21. [i \in 1 .. n |-> Number(B[i].node_id)] = w.refs
  <2>1. ASSUME NEW i \in 1 .. n PROVE Number(B[i].node_id) = w.refs[i]
    <3>1. B[i] = s[q1 + i - 1]
      BY <1>20 DEF HasRows
    <3>2. i - 1 \in 0 .. n - 1 /\ q1 + (i - 1) = q1 + i - 1 /\ (i - 1) + 1 = i
      BY <1>2, <1>5, <1>17
    <3>3. s[q1 + (i - 1)] = RefRow(w, i)
      BY <1>19, <3>2
    <3>4. B[i].node_id = w.refs[i]
      BY <3>1, <3>2, <3>3 DEF RefRow
    <3>5. w.refs[i] \in Nat
      BY <1>5
    <3>6. w.refs[i] # -1
      BY <3>5
    <3> HIDE DEF B
    <3>7. QED
      BY <3>4, <3>6 DEF Number, Null
  <2> HIDE DEF B
  <2>2. [i \in 1 .. n |-> Number(B[i].node_id)] = [i \in 1 .. n |-> w.refs[i]]
    BY <2>1
  <2>3. [i \in 1 .. n |-> w.refs[i]] = w.refs
    BY <1>5
  <2>4. QED
    BY <2>2, <2>3
<1> DEFINE at == WayAt(s, q)
<1>22. at.element = w /\ at.q = r
  <2>1. /\ at.element =
             IF NoTag \in TagsAt(s, q, s[q].ntags) THEN Thrown
             ELSE [id |-> s[q].id, tags |-> TagsAt(s, q, s[q].ntags),
                   refs |-> [i \in 1 .. s[q].nrefs |->
                     Number(Block(s, Skip(s, q, AtLeastOne(s[q].ntags)), s[q].nrefs)[i].node_id)]]
        /\ at.q = Skip(s, Skip(s, q, AtLeastOne(s[q].ntags)), AtLeastOne(s[q].nrefs))
    BY Zenon DEF WayAt, TagsAt
  <2> HIDE DEF at
  <2>2. AtLeastOne(s[q].ntags) = c
    BY <1>10 DEF c
  <2>3. AtLeastOne(s[q].nrefs) = n
    BY <1>5, <1>6, <1>10 DEF AtLeastOne
  <2>4. Skip(s, q, AtLeastOne(s[q].ntags)) = q1
    BY <1>17, <2>2
  <2>5. at.q = r
    BY <1>20, <2>1, <2>3, <2>4
  <2>6. TagsAt(s, q, s[q].ntags) = S
    BY <1>10, <1>18
  <2>7. [i \in 1 .. s[q].nrefs |-> Number(Block(s, Skip(s, q, AtLeastOne(s[q].ntags)), s[q].nrefs)[i].node_id)]
          = w.refs
    BY <1>10, <1>21, <2>4
  <2>8. at.element = [id |-> w.id, tags |-> S, refs |-> w.refs]
    BY <1>5, <1>10, <2>1, <2>6, <2>7, Zenon
  <2>9. [id |-> w.id, tags |-> S, refs |-> w.refs] = [id |-> w.id, refs |-> w.refs, tags |-> S]
    OBVIOUS
  <2>10. QED
    BY <1>5, <2>5, <2>8, <2>9
<1> HIDE DEF at, B
<1>23. /\ \A p \in 1 .. r - 1 : p \in 1 .. Len(s) /\ s[p].id <= w.id /\ (q <= p => s[p].id = w.id)
       /\ \A p \in r .. Len(s) : p \in 1 .. Len(s) /\ s[p].id > w.id
  <2>1. ASSUME NEW p \in 1 .. r - 1
        PROVE  p \in 1 .. Len(s) /\ s[p].id <= w.id /\ (q <= p => s[p].id = w.id)
    <3>1. p \in 1 .. Len(s) /\ p \in 1 .. q1 + n - 1
      BY <1>2, <1>5, <1>17, <1>20
    <3>2. h[p] < n /\ s[p].id \in Int /\ (s[p].id > w.id => h[p] = n)
      BY <1>7, <1>19, <3>1
    <3>3. s[p].id <= w.id
      BY <1>5, <3>2
    <3>4. q <= p => s[p].id >= s[q].id
      BY <1>3, <1>7, <3>1
    <3>5. QED
      BY <1>5, <1>10, <3>1, <3>2, <3>3, <3>4
  <2>2. ASSUME NEW p \in r .. Len(s) PROVE p \in 1 .. Len(s) /\ s[p].id > w.id
    <3>1. p \in 1 .. Len(s) /\ h[p] >= n
      BY <1>2, <1>19, <1>20
    <3>2. h[p] # -2 /\ h[p] \notin -1 .. n - 1
      BY <1>5, <1>7, <3>1
    <3>3. ~ (s[p].id < w.id) /\ s[p].id # w.id /\ s[p].id \in Int
      BY <1>7, <3>1, <3>2
    <3>4. QED
      BY <1>5, <3>1, <3>3
  <2>3. QED
    BY <2>1, <2>2
<1>24. r \in 1 .. Len(s) + 1 /\ q < r
  BY <1>2, <1>3, <1>17, <1>20
<1> HIDE DEF r
<1>25. Between(s, r)
  <2>1. ASSUME NEW p \in 1 .. r - 1, NEW o \in r .. Len(s) PROVE s[p].id # s[o].id
    <3>1. s[p].id <= w.id /\ s[o].id > w.id /\ s[p].id \in Int /\ s[o].id \in Int
      BY <1>7, <1>23
    <3>2. QED
      BY <1>5, <3>1
  <2>2. QED
    BY <1>24, <2>1 DEF Between
<1>26. Seen(s, r) = Seen(s, q) \cup {w.id}
  <2>1. ASSUME NEW p \in 1 .. r - 1 PROVE s[p].id \in Seen(s, q) \cup {w.id}
    <3>1. CASE p < q
      <4>1. p \in 1 .. q - 1
        BY <1>3, <3>1
      <4>2. QED
        BY <4>1 DEF Seen
    <3>2. CASE q <= p
      BY <1>23, <3>2
    <3>3. QED
      BY <1>3, <1>24, <3>1, <3>2
  <2>2. \A p \in 1 .. q - 1 : p \in 1 .. r - 1
    BY <1>3, <1>24
  <2>3. q \in 1 .. r - 1
    BY <1>3, <1>24
  <2>4. QED
    BY <1>10, <2>1, <2>2, <2>3 DEF Seen
<1>27. w.id \notin Seen(s, q)
  <2>1. q \in q .. Len(s)
    BY <1>3
  <2>2. QED
    BY <1>10, <2>1 DEF Seen, Between
<1>28. QED
  BY <1>22, <1>25, <1>26, <1>27 DEF at

\* At the end of the rows all roads have been seen.
LEMMA WaysSeen ==
  ASSUME NEW e \in Extracts, NEW s, s = Ordered(WayRows(WithRelations(e))),
         NEW q, Between(s, q), AtEnd(s, q)
  PROVE  \A w \in RoadsOf(e) : w.id \in Seen(s, q)
<1> DEFINE R == RowsOf(WayRows(WithRelations(e)))
<1>1. Lists(s, R)
  BY WayRowsOrdered, Zenon
<1>2. \A x : x \in R <=> \E w \in RoadsOf(e) : IsTagRow(w, x) \/ IsRefRow(w, x)
  BY WayRowsKeyed, Zenon
<1> HIDE DEF R
<1> TAKE w \in RoadsOf(e)
<1>3. PICK t \in OrNone(w.tags) : TRUE
  BY DEF OrNone
<1>4. IsTagRow(w, TagRow(w, t))
  BY DEF IsTagRow
<1>5. PICK p \in 1 .. Len(s) : s[p] = TagRow(w, t)
  BY <1>1, <1>2, <1>4 DEF Lists
<1>6. p \in 1 .. q - 1
  BY <1>1 DEF Between, AtEnd, Lists
<1>7. QED
  BY <1>5, <1>6 DEF Seen, TagRow

-----------------------------------------------------------------------------
(* The rows of the restrictions.                                           *)

\* The relations that say something: of a restriction, a via, and who comes and goes.
Speaking(e) ==
  {r \in Range(e.relations) :
     /\ r.tags \cap RestrictionKV # {} /\ Vias(r) # {}
     /\ \A role \in {"from", "to"} : \E mem \in Range(r.members) : mem.role = role}

Told(r) == CHOOSE t \in r.tags \cap RestrictionKV : TRUE
ViaOf(r) == CHOOSE v \in Vias(r) : TRUE
WayOf(mem) == IF mem.type = "way" THEN mem.id ELSE Null

ViaRecord(r, f, t) ==
  [id |-> r.id, via |-> ViaOf(r), role_from |-> "from", way_from |-> WayOf(f),
   role_to |-> "to", way_to |-> WayOf(t), restriction |-> Told(r)]

\* The row of reference i of the way w on a side of r, and its key.
SideRow(r, role, w, i) ==
  [id |-> r.id, restriction |-> Told(r), via |-> ViaOf(r), role |-> role, way |-> w.id,
   nrefs |-> Len(w.refs), nd |-> w.refs[i], order_ |-> i - 1]

SideKey(x) ==
  IF x.role = "from" THEN <<x.id, - x.way, x.order_, Null, Null>>
  ELSE <<x.id, - Null, Null, x.way, x.order_>>

IsSideRow(e, x) ==
  \E r \in Speaking(e) : \E role \in {"from", "to"} : \E w \in Ways(e, r, role) : \E i \in DOMAIN w.refs :
    x = SideRow(r, role, w, i)

\* A set of one element has no other.
LEMMA NoOther ==
  ASSUME NEW S, IsFiniteSet(S), Cardinality(S) <= 1, NEW x \in S, NEW y \in S
  PROVE  x = y
<1> SUFFICES ASSUME x # y PROVE FALSE
  OBVIOUS
<1>1. IsFiniteSet({x}) /\ Cardinality({x}) = 1
  BY FS_Singleton
<1>2. y \notin {x}
  OBVIOUS
<1>3. IsFiniteSet({x} \cup {y}) /\ Cardinality({x} \cup {y}) = Cardinality({x}) + 1
  BY <1>1, <1>2, FS_AddElement
<1>4. {x} \cup {y} \in SUBSET S
  OBVIOUS
<1>5. Cardinality({x} \cup {y}) <= Cardinality(S) /\ Cardinality(S) \in Nat
  BY <1>4, FS_Subset, FS_CardinalityType
<1>6. QED
  BY <1>1, <1>3, <1>5

\* What is known of a relation.
LEMMA RelationKnown ==
  ASSUME NEW e \in Extracts, Regular(e), NEW r \in Range(e.relations)
  PROVE  /\ r.id \in Nat /\ IsFiniteSet(Vias(r)) /\ IsFiniteSet(r.tags \cap RestrictionKV)
         /\ \A s \in Range(e.relations) : s.id = r.id => s = r
         /\ \A t \in r.tags \cap RestrictionKV : t = Told(r)
         /\ \A v \in Vias(r) : v = ViaOf(r)
         /\ \A mem \in Range(r.members) : mem.role # "From" /\ mem.id \in Nat
<1>1. r \in ExtractRelation /\ \A s \in Range(e.relations) : s.id = r.id => s = r
  BY Elements
<1> DEFINE M == ExtractMember
<1>2. r.id \in Nat /\ r.members \in Seq(M)
  <2> HIDE DEF M
  <2>1. r \in [id : Nat, tags : SUBSET STRING, members : Seq(M)]
    BY <1>1, Zenon DEF ExtractRelation, ExtractMember, M
  <2>2. QED
    BY <2>1
<1> DEFINE V == {v \in Range(r.members) : v.type = "node" /\ v.role = "via"}
           f == [v \in V |-> v.id]
<1>3. IsFiniteSet(Range(r.members)) /\ \A mem \in Range(r.members) : mem.id \in Nat
  <2>1. Range(r.members) = {r.members[i] : i \in DOMAIN r.members} /\ \A mem \in Range(r.members) : mem \in M
    <3> HIDE DEF M
    <3>1. QED
      BY <1>2 DEF Range
  <2>2. \A mem \in M : mem.id \in Nat
    BY DEF ExtractMember
  <2>3. PICK n \in Nat : DOMAIN r.members = 1 .. n
    BY <1>2
  <2>4. 1 \in Int /\ n \in Int
    OBVIOUS
  <2>5. IsFiniteSet(1 .. n)
    BY <2>4, FS_Interval, Zenon
  <2>6. IsFiniteSet({r.members[i] : i \in 1 .. n})
    BY <2>5, FiniteValues, Zenon
  <2>7. QED
    BY <2>1, <2>3, <2>6, <2>2
<1>4. IsFiniteSet(Vias(r))
  <2>1. V \in SUBSET Range(r.members)
    OBVIOUS
  <2>2. IsFiniteSet(V)
    BY <1>3, <2>1, FS_Subset
  <2>3. Vias(r) = {f[v] : v \in V}
    BY DEF Vias
  <2> HIDE DEF f, V
  <2>4. QED
    BY <2>2, <2>3, FiniteValues
<1>5. IsFiniteSet(r.tags \cap RestrictionKV)
  <2>1. IsFiniteSet({}) /\ IsFiniteSet({} \cup {"restriction=no"})
        /\ IsFiniteSet(({} \cup {"restriction=no"}) \cup {"restriction=only"})
        /\ IsFiniteSet((({} \cup {"restriction=no"}) \cup {"restriction=only"}) \cup {"restriction:hgv=no"})
    BY FS_EmptySet, FS_AddElement
  <2>2. r.tags \cap RestrictionKV \in
          SUBSET ((({} \cup {"restriction=no"}) \cup {"restriction=only"}) \cup {"restriction:hgv=no"})
    BY DEF RestrictionKV
  <2>3. QED
    BY <2>1, <2>2, FS_Subset
<1>6. /\ Cardinality(r.tags \cap RestrictionKV) <= 1 /\ Cardinality(Vias(r)) <= 1
      /\ \A mem \in Range(r.members) : mem.role # "From"
  BY DEF Regular
<1>7. ASSUME NEW t \in r.tags \cap RestrictionKV PROVE t = Told(r)
  <2> DEFINE S == r.tags \cap RestrictionKV
  <2>1. Told(r) \in S
    BY DEF Told
  <2> HIDE DEF S
  <2>2. QED
    BY <1>5, <1>6, <2>1, NoOther DEF S
<1>8. ASSUME NEW v \in Vias(r) PROVE v = ViaOf(r)
  <2>1. ViaOf(r) \in Vias(r)
    BY DEF ViaOf
  <2>2. QED
    BY <1>4, <1>6, <2>1, NoOther
<1>9. QED
  BY <1>1, <1>2, <1>3, <1>4, <1>5, <1>6, <1>7, <1>8

\* The view of the restrictions at nodes.
LEMMA ViewedRestrictions ==
  ASSUME NEW e \in Extracts, Regular(e), NEW v
  PROVE  v \in node_as_via_restriction(WithRelations(e)) <=>
           \E r \in Speaking(e) : \E f, t \in Range(r.members) :
             f.role = "from" /\ t.role = "to" /\ v = ViaRecord(r, f, t)
<1> DEFINE T == WithRelations(e)
           X == T.member_in_relation
           Y == T.tag
           M(role) == {mem \in X : Like(mem.role, role)}
           at(a, b, c, d) == [id |-> a.id_of_relation, via |-> a.id, role_from |-> b.role, way_from |-> WayOf(b),
                              role_to |-> c.role, way_to |-> WayOf(c), restriction |-> d.kv]
           Fits(a, b, c, d) == /\ a.type = "node" /\ d.of = "relation" /\ d.kv \in RestrictionKV
                               /\ {b.id_of_relation, c.id_of_relation, d.id} = {a.id_of_relation}
           Speaks(r, f, t) == f.role = "from" /\ t.role = "to" /\ v = ViaRecord(r, f, t)
<1>1. node_as_via_restriction(T) =
        {at(q[1], q[2], q[3], q[4]) : q \in {d \in M("via") \X M("from") \X M("to") \X Y :
           /\ d[1].type = "node" /\ d[4].of = "relation" /\ d[4].kv \in RestrictionKV
           /\ {d[2].id_of_relation, d[3].id_of_relation, d[4].id} = {d[1].id_of_relation}}}
  BY Zenon DEF node_as_via_restriction, WayOf
<1>2. \A x : x \in X <=> \E r \in Range(e.relations) : \E mem \in Range(r.members) : x = MemberRecord(r, mem)
  <2>1. X = MemberRecords(e.relations)
    BY TablesOfImport
  <2> HIDE DEF X
  <2>2. QED
    BY <2>1 DEF MemberRecords
<1>3. \A r \in Range(e.relations) : {t.kv : t \in {u \in Y : u.of = "relation" /\ u.id = r.id}} = r.tags
  BY TagsFound
<1> HIDE DEF T, X, Y
<1>4. \A r, mem : /\ MemberRecord(r, mem).id_of_relation = r.id /\ MemberRecord(r, mem).type = mem.type
                  /\ MemberRecord(r, mem).id = mem.id /\ MemberRecord(r, mem).role = mem.role
  BY DEF MemberRecord
<1>5. ASSUME NEW role \in {"via", "from", "to"}, NEW x
      PROVE  x \in M(role) <=> \E r \in Range(e.relations) : \E mem \in Range(r.members) :
               x = MemberRecord(r, mem) /\ mem.role = role
  <2>1. \A r \in Range(e.relations) : \A mem \in Range(r.members) : mem.role # "From"
    BY DEF Regular
  <2>2. QED
    BY <1>2, <1>4, <2>1 DEF Like
<1> HIDE DEF M
<1>6. v \in node_as_via_restriction(T) <=>
        \E a \in M("via"), b \in M("from"), c \in M("to"), d \in Y : Fits(a, b, c, d) /\ v = at(a, b, c, d)
  <2> DEFINE P == M("via") \X M("from") \X M("to") \X Y
             Q == {d \in P : Fits(d[1], d[2], d[3], d[4])}
  <2>1. v \in node_as_via_restriction(T) <=> \E q \in Q : v = at(q[1], q[2], q[3], q[4])
    <3>1. node_as_via_restriction(T) = {at(q[1], q[2], q[3], q[4]) : q \in Q}
      BY <1>1, Zenon
    <3> HIDE DEF Q, at
    <3>2. QED
      BY <3>1
  <2> HIDE DEF at, Fits
  <2>2. ASSUME NEW q \in Q, v = at(q[1], q[2], q[3], q[4])
        PROVE  \E a \in M("via"), b \in M("from"), c \in M("to"), d \in Y : Fits(a, b, c, d) /\ v = at(a, b, c, d)
    BY <2>2
  <2>3. ASSUME NEW a \in M("via"), NEW b \in M("from"), NEW c \in M("to"), NEW d \in Y,
               Fits(a, b, c, d), v = at(a, b, c, d)
        PROVE  \E q \in Q : v = at(q[1], q[2], q[3], q[4])
    <3> DEFINE q == <<a, b, c, d>>
    <3>1. q \in P /\ q[1] = a /\ q[2] = b /\ q[3] = c /\ q[4] = d
      OBVIOUS
    <3> HIDE DEF q
    <3>2. q \in Q
      BY <2>3, <3>1
    <3> HIDE DEF Q
    <3>3. QED
      BY <2>3, <3>1, <3>2
  <2> HIDE DEF Q
  <2>4. QED
    BY <2>1, <2>2, <2>3, Zenon
<1>7. ASSUME NEW a \in M("via"), NEW b \in M("from"), NEW c \in M("to"), NEW d \in Y,
             Fits(a, b, c, d), v = at(a, b, c, d)
      PROVE  \E r \in Speaking(e) : \E f, t \in Range(r.members) : Speaks(r, f, t)
  <2>1. PICK r \in Range(e.relations) : \E mem \in Range(r.members) : a = MemberRecord(r, mem) /\ mem.role = "via"
    BY <1>5
  <2>2. PICK m \in Range(r.members) : a = MemberRecord(r, m) /\ m.role = "via"
    BY <2>1
  <2>3. PICK rf \in Range(e.relations) : \E mem \in Range(rf.members) : b = MemberRecord(rf, mem) /\ mem.role = "from"
    BY <1>5
  <2>4. PICK f \in Range(rf.members) : b = MemberRecord(rf, f) /\ f.role = "from"
    BY <2>3
  <2>5. PICK rt \in Range(e.relations) : \E mem \in Range(rt.members) : c = MemberRecord(rt, mem) /\ mem.role = "to"
    BY <1>5
  <2>6. PICK t \in Range(rt.members) : c = MemberRecord(rt, t) /\ t.role = "to"
    BY <2>5
  <2>7. rf = r /\ rt = r /\ d.id = r.id
    <3>1. rf.id = r.id /\ rt.id = r.id /\ d.id = r.id
      BY <1>4, <1>7, <2>2, <2>4, <2>6
    <3>2. QED
      BY <3>1, RelationKnown
  <2>8. d.kv \in r.tags \cap RestrictionKV
    BY <1>3, <1>7, <2>7
  <2>9. m.id \in Vias(r)
    BY <1>4, <1>7, <2>2 DEF Vias
  <2>10. d.kv = Told(r) /\ m.id = ViaOf(r)
    BY <2>8, <2>9, RelationKnown
  <2>11. r \in Speaking(e)
    BY <2>4, <2>6, <2>7, <2>8, <2>9 DEF Speaking
  <2>12. v = ViaRecord(r, f, t)
    <3>1. WayOf(b) = WayOf(f) /\ WayOf(c) = WayOf(t)
      BY <1>4, <2>4, <2>6, Zenon DEF WayOf
    <3>2. a.id_of_relation = r.id /\ a.id = ViaOf(r) /\ b.role = "from" /\ c.role = "to" /\ d.kv = Told(r)
      BY <1>4, <2>2, <2>4, <2>6, <2>10
    <3>3. QED
      BY <1>7, <3>1, <3>2, Zenon DEF ViaRecord
  <2>13. QED
    BY <2>4, <2>6, <2>7, <2>11, <2>12
<1>8. ASSUME NEW r \in Speaking(e), NEW f \in Range(r.members), NEW t \in Range(r.members), Speaks(r, f, t)
      PROVE  \E a \in M("via"), b \in M("from"), c \in M("to"), d \in Y : Fits(a, b, c, d) /\ v = at(a, b, c, d)
  <2>1. r \in Range(e.relations) /\ r.tags \cap RestrictionKV # {} /\ Vias(r) # {}
    BY DEF Speaking
  <2>2. PICK m \in Range(r.members) : m.type = "node" /\ m.role = "via"
    BY <2>1 DEF Vias
  <2>3. PICK kv \in r.tags : kv \in RestrictionKV
    BY <2>1
  <2>4. PICK d \in Y : d.of = "relation" /\ d.id = r.id /\ d.kv = kv
    BY <1>3, <2>1, <2>3
  <2> DEFINE a == MemberRecord(r, m)
             b == MemberRecord(r, f)
             c == MemberRecord(r, t)
  <2>5. a \in M("via") /\ b \in M("from") /\ c \in M("to")
    BY <1>5, <1>8, <2>1, <2>2
  <2>6. /\ a.id_of_relation = r.id /\ b.id_of_relation = r.id /\ c.id_of_relation = r.id
        /\ a.type = "node" /\ a.id = m.id /\ b.role = "from" /\ c.role = "to"
        /\ b.type = f.type /\ b.id = f.id /\ c.type = t.type /\ c.id = t.id
    BY <1>4, <1>8, <2>2
  <2> HIDE DEF a, b, c
  <2>7. m.id = ViaOf(r) /\ d.kv = Told(r)
    <3>1. m.id \in Vias(r)
      BY <2>2 DEF Vias
    <3>2. QED
      BY <2>1, <2>3, <2>4, <3>1, RelationKnown
  <2>8. Fits(a, b, c, d)
    BY <2>3, <2>4, <2>6
  <2>9. v = at(a, b, c, d)
    <3>1. WayOf(b) = WayOf(f) /\ WayOf(c) = WayOf(t)
      BY <2>6, Zenon DEF WayOf
    <3>2. QED
      BY <1>8, <2>6, <2>7, <3>1, Zenon DEF ViaRecord
  <2>10. QED
    BY <2>5, <2>8, <2>9
<1> HIDE DEF Fits, at, Speaks
<1>9. v \in node_as_via_restriction(T) <=> \E r \in Speaking(e) : \E f, t \in Range(r.members) : Speaks(r, f, t)
  BY <1>6, <1>7, <1>8, Zenon
<1>10. QED
  BY <1>9, Zenon DEF Speaks, T

\* The fields of the rows.
LEMMA SideRowFields ==
  ASSUME NEW r, NEW role, NEW w, NEW i
  PROVE  LET x == SideRow(r, role, w, i) IN
         /\ x.id = r.id /\ x.restriction = Told(r) /\ x.via = ViaOf(r) /\ x.role = role /\ x.way = w.id
         /\ x.nrefs = Len(w.refs) /\ x.nd = w.refs[i] /\ x.order_ = i - 1
BY DEF SideRow

\* The rows of the query for restrictions: of each side, those of the references of
\* its ways.
LEMMA RestrictionRowsFound ==
  ASSUME NEW e \in Extracts, Regular(e), NEW k
  PROVE  k \in RestrictionRows(WithRelations(e)) <=> \E x : IsSideRow(e, x) /\ k = <<SideKey(x), x>>
<1> DEFINE T == WithRelations(e)
           V == node_as_via_restriction(T)
           H == highway(T)
           N == T.node_in_way
           row(v, role, w, r) == [id |-> v.id, restriction |-> v.restriction, via |-> v.via, role |-> role,
                                  way |-> w.id, nrefs |-> w.nrefs, nd |-> r.node_id, order_ |-> r.order_]
           from(v, w, r) == <<<<v.id, - w.id, r.order_, Null, Null>>, row(v, v.role_from, w, r)>>
           to(v, w, r)   == <<<<v.id, - Null, Null, w.id, r.order_>>, row(v, v.role_to, w, r)>>
           passed == {c \in V \X H \X N : c[3].way_id = c[2].id}
           A == {from(c[1], c[2], c[3]) : c \in {d \in passed : d[2].id = d[1].way_from}}
           B == {to(c[1], c[2], c[3]) : c \in {d \in passed : d[2].id = d[1].way_to}}
           Row(r, role, w, i) == k = <<SideKey(SideRow(r, role, w, i)), SideRow(r, role, w, i)>>
<1>1. RestrictionRows(T) = A \cup B
  BY Zenon DEF RestrictionRows
<1>2. \A v : v \in V <=> \E r \in Speaking(e) : \E f, t \in Range(r.members) :
                           f.role = "from" /\ t.role = "to" /\ v = ViaRecord(r, f, t)
  BY ViewedRestrictions
<1>3. H = {WayRecord(w) : w \in RoadsOf(e)}
  BY HighwaysFound
<1>4. \A x : x \in N <=> \E w \in Range(e.ways) : \E i \in DOMAIN w.refs : x = RefRecord(w, i)
  BY RefsFound
<1> HIDE DEF T, V, H, N, from, to, Row
<1>5. k \in A <=> \E v \in V, h \in H, n \in N : n.way_id = h.id /\ h.id = v.way_from /\ k = from(v, h, n)
  <2>1. ASSUME NEW v \in V, NEW h \in H, NEW n \in N, n.way_id = h.id, h.id = v.way_from, k = from(v, h, n)
        PROVE  k \in A
    <3> DEFINE c == <<v, h, n>>
    <3>1. c \in V \X H \X N /\ c[1] = v /\ c[2] = h /\ c[3] = n
      OBVIOUS
    <3> HIDE DEF c
    <3>2. QED
      BY <2>1, <3>1
  <2>2. ASSUME k \in A
        PROVE  \E v \in V, h \in H, n \in N : n.way_id = h.id /\ h.id = v.way_from /\ k = from(v, h, n)
    <3>1. PICK c \in V \X H \X N : c[3].way_id = c[2].id /\ c[2].id = c[1].way_from /\ k = from(c[1], c[2], c[3])
      BY <2>2
    <3>2. c[1] \in V /\ c[2] \in H /\ c[3] \in N
      BY <3>1
    <3>3. QED
      BY <3>1, <3>2
  <2>3. QED
    BY <2>1, <2>2
<1>6. k \in B <=> \E v \in V, h \in H, n \in N : n.way_id = h.id /\ h.id = v.way_to /\ k = to(v, h, n)
  <2>1. ASSUME NEW v \in V, NEW h \in H, NEW n \in N, n.way_id = h.id, h.id = v.way_to, k = to(v, h, n)
        PROVE  k \in B
    <3> DEFINE c == <<v, h, n>>
    <3>1. c \in V \X H \X N /\ c[1] = v /\ c[2] = h /\ c[3] = n
      OBVIOUS
    <3> HIDE DEF c
    <3>2. QED
      BY <2>1, <3>1
  <2>2. ASSUME k \in B
        PROVE  \E v \in V, h \in H, n \in N : n.way_id = h.id /\ h.id = v.way_to /\ k = to(v, h, n)
    <3>1. PICK c \in V \X H \X N : c[3].way_id = c[2].id /\ c[2].id = c[1].way_to /\ k = to(c[1], c[2], c[3])
      BY <2>2
    <3>2. c[1] \in V /\ c[2] \in H /\ c[3] \in N
      BY <3>1
    <3>3. QED
      BY <3>1, <3>2
  <2>3. QED
    BY <2>1, <2>2
<1> HIDE DEF A, B
<1>7. \A r, f, t : LET v == ViaRecord(r, f, t) IN
        /\ v.id = r.id /\ v.via = ViaOf(r) /\ v.restriction = Told(r)
        /\ v.role_from = "from" /\ v.way_from = WayOf(f) /\ v.role_to = "to" /\ v.way_to = WayOf(t)
  BY DEF ViaRecord
<1>8. \A w : WayRecord(w).id = w.id /\ WayRecord(w).nrefs = Len(w.refs)
  BY DEF WayRecord
<1>9. \A w, i : RefRecord(w, i).way_id = w.id /\ RefRecord(w, i).node_id = w.refs[i] /\ RefRecord(w, i).order_ = i - 1
  BY DEF RefRecord
<1>10. ASSUME NEW r, NEW f, NEW t, NEW w, NEW i
       PROVE  LET v == ViaRecord(r, f, t) IN
              /\ k = from(v, WayRecord(w), RefRecord(w, i)) <=> Row(r, "from", w, i)
              /\ k = to(v, WayRecord(w), RefRecord(w, i)) <=> Row(r, "to", w, i)
  <2> DEFINE v == ViaRecord(r, f, t)
             x == SideRow(r, "from", w, i)
             y == SideRow(r, "to", w, i)
             h == WayRecord(w)
             n == RefRecord(w, i)
  <2>1. /\ v.id = r.id /\ v.via = ViaOf(r) /\ v.restriction = Told(r) /\ v.role_from = "from" /\ v.role_to = "to"
        /\ h.id = w.id /\ h.nrefs = Len(w.refs) /\ n.node_id = w.refs[i] /\ n.order_ = i - 1
    BY <1>7, <1>8, <1>9
  <2>2. /\ x.id = r.id /\ x.way = w.id /\ x.order_ = i - 1 /\ x.role = "from"
        /\ y.id = r.id /\ y.way = w.id /\ y.order_ = i - 1 /\ y.role = "to"
    BY SideRowFields
  <2>3. x = [id |-> r.id, restriction |-> Told(r), via |-> ViaOf(r), role |-> "from", way |-> w.id,
             nrefs |-> Len(w.refs), nd |-> w.refs[i], order_ |-> i - 1]
        /\ y = [id |-> r.id, restriction |-> Told(r), via |-> ViaOf(r), role |-> "to", way |-> w.id,
                nrefs |-> Len(w.refs), nd |-> w.refs[i], order_ |-> i - 1]
    BY Zenon DEF SideRow
  <2> HIDE DEF v, x, y, h, n
  <2>4. row(v, v.role_from, h, n) = x /\ row(v, v.role_to, h, n) = y
    BY <2>1, <2>3, Zenon
  <2> HIDE DEF row
  <2>5. from(v, h, n) = <<SideKey(x), x>>
    <3>1. SideKey(x) = <<x.id, - x.way, x.order_, Null, Null>>
      BY <2>2, Zenon DEF SideKey
    <3>2. QED
      BY <2>1, <2>2, <2>4, <3>1, Zenon DEF from
  <2>6. to(v, h, n) = <<SideKey(y), y>>
    <3>1. SideKey(y) = <<y.id, - Null, Null, y.way, y.order_>>
      <4>1. "to" # "from"
        OBVIOUS
      <4>2. QED
        BY <2>2, <4>1, Zenon DEF SideKey
    <3>2. QED
      BY <2>1, <2>2, <2>4, <3>1, Zenon DEF to
  <2>7. QED
    BY <2>5, <2>6, Zenon DEF v, x, y, h, n, Row
<1>11. \A w \in RoadsOf(e) : w \in Range(e.ways) /\ w.id \in Nat /\ w.id > 0
         /\ \A u \in Range(e.ways) : u.id = w.id => u = w
  BY RoadKnown, Elements
<1>12. ASSUME NEW r \in Speaking(e), NEW f \in Range(r.members), NEW w \in RoadsOf(e), NEW role,
              f.role = role, w.id = WayOf(f)
       PROVE  w \in Ways(e, r, role)
  <2>1. f.type = "way" /\ f.id = w.id
    BY <1>11, <1>12 DEF WayOf, Null
  <2>2. QED
    BY <1>12, <2>1 DEF Ways
<1>13. ASSUME NEW h \in H, NEW n \in N, n.way_id = h.id
       PROVE  \E w \in RoadsOf(e) : \E i \in DOMAIN w.refs : h = WayRecord(w) /\ n = RefRecord(w, i)
  <2>1. PICK w \in RoadsOf(e) : h = WayRecord(w)
    BY <1>3
  <2>2. PICK u \in Range(e.ways) : \E i \in DOMAIN u.refs : n = RefRecord(u, i)
    BY <1>4
  <2>3. PICK i \in DOMAIN u.refs : n = RefRecord(u, i)
    BY <2>2
  <2>4. u.id = w.id
    BY <1>8, <1>9, <1>13, <2>1, <2>3
  <2>5. u = w
    BY <1>11, <2>4
  <2>6. QED
    BY <2>1, <2>3, <2>5
<1>14. k \in A <=> \E r \in Speaking(e) : \E w \in Ways(e, r, "from") : \E i \in DOMAIN w.refs : Row(r, "from", w, i)
  <2>1. ASSUME NEW v \in V, NEW h \in H, NEW n \in N, n.way_id = h.id, h.id = v.way_from, k = from(v, h, n)
        PROVE  \E r \in Speaking(e) : \E w \in Ways(e, r, "from") : \E i \in DOMAIN w.refs : Row(r, "from", w, i)
    <3>1. PICK r \in Speaking(e) : \E f, t \in Range(r.members) :
                 f.role = "from" /\ t.role = "to" /\ v = ViaRecord(r, f, t)
      BY <1>2
    <3>2. PICK f \in Range(r.members), t \in Range(r.members) :
                 f.role = "from" /\ t.role = "to" /\ v = ViaRecord(r, f, t)
      BY <3>1
    <3>3. PICK w \in RoadsOf(e) : \E i \in DOMAIN w.refs : h = WayRecord(w) /\ n = RefRecord(w, i)
      BY <1>13, <2>1
    <3>4. PICK i \in DOMAIN w.refs : h = WayRecord(w) /\ n = RefRecord(w, i)
      BY <3>3
    <3>5. w.id = WayOf(f)
      BY <1>7, <1>8, <2>1, <3>2, <3>4
    <3>6. w \in Ways(e, r, "from")
      BY <1>12, <3>2, <3>5
    <3>7. Row(r, "from", w, i)
      BY <1>10, <2>1, <3>2, <3>4
    <3>8. QED
      BY <3>4, <3>6, <3>7
  <2>2. ASSUME NEW r \in Speaking(e), NEW w \in Ways(e, r, "from"), NEW i \in DOMAIN w.refs, Row(r, "from", w, i)
        PROVE  \E v \in V, h \in H, n \in N : n.way_id = h.id /\ h.id = v.way_from /\ k = from(v, h, n)
    <3>1. w \in RoadsOf(e) /\ \E mem \in Range(r.members) : mem.type = "way" /\ mem.id = w.id /\ mem.role = "from"
      BY DEF Ways
    <3>2. PICK f \in Range(r.members) : f.type = "way" /\ f.id = w.id /\ f.role = "from"
      BY <3>1
    <3>3. PICK t \in Range(r.members) : t.role = "to"
      BY DEF Speaking
    <3> DEFINE v == ViaRecord(r, f, t)
    <3>4. v \in V
      BY <1>2, <3>2, <3>3
    <3>5. WayRecord(w) \in H /\ RefRecord(w, i) \in N
      BY <1>3, <1>4, <1>11, <3>1
    <3>6. RefRecord(w, i).way_id = WayRecord(w).id /\ WayRecord(w).id = v.way_from
      BY <1>7, <1>8, <1>9, <3>2 DEF WayOf
    <3>7. k = from(v, WayRecord(w), RefRecord(w, i))
      BY <1>10, <2>2
    <3> HIDE DEF v
    <3>8. QED
      BY <3>4, <3>5, <3>6, <3>7
  <2>3. QED
    BY <1>5, <2>1, <2>2, Zenon
<1>15. k \in B <=> \E r \in Speaking(e) : \E w \in Ways(e, r, "to") : \E i \in DOMAIN w.refs : Row(r, "to", w, i)
  <2>1. ASSUME NEW v \in V, NEW h \in H, NEW n \in N, n.way_id = h.id, h.id = v.way_to, k = to(v, h, n)
        PROVE  \E r \in Speaking(e) : \E w \in Ways(e, r, "to") : \E i \in DOMAIN w.refs : Row(r, "to", w, i)
    <3>1. PICK r \in Speaking(e) : \E f, t \in Range(r.members) :
                 f.role = "from" /\ t.role = "to" /\ v = ViaRecord(r, f, t)
      BY <1>2
    <3>2. PICK f \in Range(r.members), t \in Range(r.members) :
                 f.role = "from" /\ t.role = "to" /\ v = ViaRecord(r, f, t)
      BY <3>1
    <3>3. PICK w \in RoadsOf(e) : \E i \in DOMAIN w.refs : h = WayRecord(w) /\ n = RefRecord(w, i)
      BY <1>13, <2>1
    <3>4. PICK i \in DOMAIN w.refs : h = WayRecord(w) /\ n = RefRecord(w, i)
      BY <3>3
    <3>5. w.id = WayOf(t)
      BY <1>7, <1>8, <2>1, <3>2, <3>4
    <3>6. w \in Ways(e, r, "to")
      BY <1>12, <3>2, <3>5
    <3>7. Row(r, "to", w, i)
      BY <1>10, <2>1, <3>2, <3>4
    <3>8. QED
      BY <3>4, <3>6, <3>7
  <2>2. ASSUME NEW r \in Speaking(e), NEW w \in Ways(e, r, "to"), NEW i \in DOMAIN w.refs, Row(r, "to", w, i)
        PROVE  \E v \in V, h \in H, n \in N : n.way_id = h.id /\ h.id = v.way_to /\ k = to(v, h, n)
    <3>1. w \in RoadsOf(e) /\ \E mem \in Range(r.members) : mem.type = "way" /\ mem.id = w.id /\ mem.role = "to"
      BY DEF Ways
    <3>2. PICK t \in Range(r.members) : t.type = "way" /\ t.id = w.id /\ t.role = "to"
      BY <3>1
    <3>3. PICK f \in Range(r.members) : f.role = "from"
      BY DEF Speaking
    <3> DEFINE v == ViaRecord(r, f, t)
    <3>4. v \in V
      BY <1>2, <3>2, <3>3
    <3>5. WayRecord(w) \in H /\ RefRecord(w, i) \in N
      BY <1>3, <1>4, <1>11, <3>1
    <3>6. RefRecord(w, i).way_id = WayRecord(w).id /\ WayRecord(w).id = v.way_to
      BY <1>7, <1>8, <1>9, <3>2 DEF WayOf
    <3>7. k = to(v, WayRecord(w), RefRecord(w, i))
      BY <1>10, <2>2
    <3> HIDE DEF v
    <3>8. QED
      BY <3>4, <3>5, <3>6, <3>7
  <2>3. QED
    BY <1>6, <2>1, <2>2, Zenon
<1>16. k \in RestrictionRows(T) <=> \E r \in Speaking(e) : \E role \in {"from", "to"} :
         \E w \in Ways(e, r, role) : \E i \in DOMAIN w.refs : Row(r, role, w, i)
  <2>1. k \in RestrictionRows(T) <=> k \in A \/ k \in B
    BY <1>1
  <2>2. QED
    BY <1>14, <1>15, <2>1
<1>17. QED
  BY <1>16, Zenon DEF IsSideRow, Row, T

\* What is known of a row: relations, ways and references are named by their ids and
\* places.
LEMMA SideRowKnown ==
  ASSUME NEW e \in Extracts, Regular(e), NEW x, IsSideRow(e, x)
  PROVE  /\ x.id \in Nat /\ x.way \in Nat /\ x.order_ \in Nat /\ x.role \in {"from", "to"}
         /\ \A r \in Speaking(e) : \A w \in RoadsOf(e) : x.id = r.id /\ x.way = w.id =>
              /\ w \in Ways(e, r, x.role) /\ x.order_ \in 0 .. Len(w.refs) - 1
              /\ x = SideRow(r, x.role, w, x.order_ + 1)
         /\ \E r \in Speaking(e) : x.id = r.id
         /\ \E w \in RoadsOf(e) : x.way = w.id
<1>1. PICK r \in Speaking(e), role \in {"from", "to"} : \E w \in Ways(e, r, role) : \E i \in DOMAIN w.refs :
        x = SideRow(r, role, w, i)
  BY DEF IsSideRow
<1>2. PICK w \in Ways(e, r, role) : \E i \in DOMAIN w.refs : x = SideRow(r, role, w, i)
  BY <1>1
<1>3. PICK i \in DOMAIN w.refs : x = SideRow(r, role, w, i)
  BY <1>2
<1>4. x.id = r.id /\ x.way = w.id /\ x.role = role /\ x.order_ = i - 1
  BY <1>3, SideRowFields
<1>5. r \in Range(e.relations) /\ w \in RoadsOf(e)
  BY DEF Speaking, Ways
<1>6. r.id \in Nat /\ \A s \in Range(e.relations) : s.id = r.id => s = r
  BY <1>5, RelationKnown
<1>7. w.id \in Nat /\ Len(w.refs) \in Nat /\ DOMAIN w.refs = 1 .. Len(w.refs)
      /\ \A v \in RoadsOf(e) : v.id = w.id => v = w
  BY <1>5, RoadKnown
<1>8. x.order_ \in 0 .. Len(w.refs) - 1 /\ x.order_ + 1 = i
  BY <1>4, <1>7
<1>9. ASSUME NEW s \in Speaking(e), NEW v \in RoadsOf(e), x.id = s.id, x.way = v.id
      PROVE  /\ v \in Ways(e, s, x.role) /\ x.order_ \in 0 .. Len(v.refs) - 1
             /\ x = SideRow(s, x.role, v, x.order_ + 1)
  <2>1. s = r /\ v = w
    BY <1>4, <1>6, <1>7, <1>9 DEF Speaking
  <2>2. QED
    BY <1>3, <1>4, <1>8, <2>1
<1>10. x.id \in Nat /\ x.way \in Nat /\ x.order_ \in Nat /\ x.role \in {"from", "to"}
  BY <1>4, <1>6, <1>7, <1>8
<1>11. QED
  BY <1>4, <1>5, <1>9, <1>10

\* They are keyed by relation, side, way and place.
LEMMA RestrictionRowsKeyed ==
  ASSUME NEW e \in Extracts, Regular(e)
  PROVE  LET K == RestrictionRows(WithRelations(e)) IN
         /\ Keyed(K, 5)
         /\ \A x : x \in RowsOf(K) <=> IsSideRow(e, x)
         /\ \A k \in K : k[1] = SideKey(k[2]) /\ IsSideRow(e, k[2])
<1> DEFINE K == RestrictionRows(WithRelations(e))
           pair(x) == <<SideKey(x), x>>
           k3(r, role, w) == [i \in DOMAIN w.refs |-> pair(SideRow(r, role, w, i))]
           k2(r, role) == [w \in Ways(e, r, role) |-> {k3(r, role, w)[i] : i \in DOMAIN w.refs}]
           side2(r, role) == UNION {k2(r, role)[w] : w \in Ways(e, r, role)}
           k1 == [r \in Speaking(e) |-> side2(r, "from") \cup side2(r, "to")]
<1>1. ASSUME NEW k PROVE k \in K <=> \E x : IsSideRow(e, x) /\ k = pair(x)
  BY RestrictionRowsFound
<1> HIDE DEF K
<1>2. ASSUME NEW r, NEW role
      PROVE  IsFiniteSet(UNION {k2(r, role)[w] : w \in Ways(e, r, role)})
  <2>1. Ways(e, r, role) \in SUBSET RoadsOf(e)
    BY DEF Ways
  <2>2. IsFiniteSet(RoadsOf(e))
    <3>1. CASE RoadsOf(e) = {}
      BY <3>1, FS_EmptySet
    <3>2. CASE RoadsOf(e) # {}
      BY <3>2, RoadKnown
    <3>3. QED
      BY <3>1, <3>2
  <2>3. IsFiniteSet(Ways(e, r, role))
    BY <2>1, <2>2, FS_Subset
  <2>4. ASSUME NEW w \in Ways(e, r, role) PROVE IsFiniteSet(k2(r, role)[w])
    <3>1. PICK n \in Nat : DOMAIN w.refs = 1 .. n
      BY <2>1, RoadKnown
    <3>2. 1 \in Int /\ n \in Int
      OBVIOUS
    <3>3. IsFiniteSet(1 .. n)
      BY <3>2, FS_Interval, Zenon
    <3> HIDE DEF k3
    <3>4. IsFiniteSet({k3(r, role, w)[i] : i \in 1 .. n})
      BY <3>3, FiniteValues, Zenon
    <3>5. k2(r, role)[w] = {k3(r, role, w)[i] : i \in DOMAIN w.refs}
      OBVIOUS
    <3>6. QED
      BY <3>1, <3>4, <3>5
  <2> HIDE DEF k2
  <2>5. QED
    BY <2>3, <2>4, FiniteUnion
<1>3. IsFiniteSet(Speaking(e))
  <2>1. Speaking(e) \in SUBSET Range(e.relations) /\ IsFiniteSet(Range(e.relations))
    BY Elements DEF Speaking
  <2>2. QED
    BY <2>1, FS_Subset
<1>4. ASSUME NEW k, NEW r \in Speaking(e), NEW role
      PROVE  k \in side2(r, role) <=>
               \E w \in Ways(e, r, role) : \E i \in DOMAIN w.refs : k = pair(SideRow(r, role, w, i))
  <2>1. ASSUME NEW w \in Ways(e, r, role)
        PROVE  k \in k2(r, role)[w] <=> \E i \in DOMAIN w.refs : k = pair(SideRow(r, role, w, i))
    <3>1. k2(r, role)[w] = {k3(r, role, w)[i] : i \in DOMAIN w.refs}
      OBVIOUS
    <3>2. \A i \in DOMAIN w.refs : k3(r, role, w)[i] = pair(SideRow(r, role, w, i))
      OBVIOUS
    <3> HIDE DEF k2, k3, pair
    <3>3. QED
      BY <3>1, <3>2
  <2> HIDE DEF k2, pair
  <2>2. QED
    BY <2>1
<1>5. ASSUME NEW r \in Speaking(e) PROVE k1[r] = side2(r, "from") \cup side2(r, "to")
  <2> HIDE DEF side2
  <2>1. QED
    OBVIOUS
<1> HIDE DEF k1, side2, k2, k3
<1>6. IsFiniteSet(K)
  <2>1. \A r \in Speaking(e) : IsFiniteSet(k1[r])
    <3>1. \A r, role : IsFiniteSet(side2(r, role))
      BY <1>2 DEF side2
    <3>2. QED
      BY <1>5, <3>1, FS_Union
  <2>2. IsFiniteSet(UNION {k1[r] : r \in Speaking(e)})
    BY <1>3, <2>1, FiniteUnion
  <2>3. ASSUME NEW k PROVE k \in K <=> \E r \in Speaking(e) : k \in k1[r]
    <3>1. ASSUME NEW r \in Speaking(e)
          PROVE  k \in k1[r] <=> \E role \in {"from", "to"} : \E w \in Ways(e, r, role) : \E i \in DOMAIN w.refs :
                   k = pair(SideRow(r, role, w, i))
      <4>1. k \in k1[r] <=> k \in side2(r, "from") \/ k \in side2(r, "to")
        BY <1>5
      <4>2. ASSUME NEW role
            PROVE  k \in side2(r, role) <=>
                     \E w \in Ways(e, r, role) : \E i \in DOMAIN w.refs : k = pair(SideRow(r, role, w, i))
        BY <1>4
      <4> HIDE DEF pair
      <4>3. QED
        BY <4>1, <4>2
    <3>2. k \in K <=> \E r \in Speaking(e) : \E role \in {"from", "to"} : \E w \in Ways(e, r, role) :
            \E i \in DOMAIN w.refs : k = pair(SideRow(r, role, w, i))
      <4>1. k \in K <=> \E x : IsSideRow(e, x) /\ k = pair(x)
        BY <1>1
      <4> HIDE DEF pair
      <4>2. QED
        BY <4>1, Zenon DEF IsSideRow
    <3> HIDE DEF pair
    <3>3. QED
      BY <3>1, <3>2, Zenon
  <2>4. K = UNION {k1[r] : r \in Speaking(e)}
    BY <2>3
  <2>5. QED
    BY <2>2, <2>4
<1>7. ASSUME NEW k \in K
      PROVE  /\ k[1] = SideKey(k[2]) /\ IsSideRow(e, k[2]) /\ k[1] \in [1 .. 5 -> Int]
             /\ k = <<SideKey(k[2]), k[2]>>
  <2>1. PICK x : IsSideRow(e, x) /\ k = <<SideKey(x), x>>
    BY <1>1
  <2>2. x.id \in Int /\ x.way \in Int /\ x.order_ \in Int
    BY <2>1, SideRowKnown
  <2>3. k[2] = x /\ k[1] = SideKey(x)
    BY <2>1
  <2>4. SideKey(x) \in [1 .. 5 -> Int]
    BY <2>2 DEF SideKey, Null
  <2>5. QED
    BY <2>1, <2>3, <2>4
<1>8. Keyed(K, 5)
  BY <1>6, <1>7 DEF Keyed
<1>9. ASSUME NEW x PROVE x \in RowsOf(K) <=> IsSideRow(e, x)
  <2>1. ASSUME IsSideRow(e, x) PROVE \E k \in K : x = k[2]
    <3>1. <<SideKey(x), x>> \in K
      BY <1>1, <2>1
    <3>2. QED
      BY <3>1
  <2>2. QED
    BY <1>7, <2>1 DEF RowsOf
<1>10. QED
  BY <1>7, <1>8, <1>9 DEF K

\* The rows from ways come before those to ways, both side by side and way by way.
SideOrdered(x, y) ==
  \/ x.id < y.id
  \/ /\ x.id = y.id
     /\ \/ x.role = "from" /\ y.role = "to"
        \/ x.role = "from" /\ y.role = "from" /\ x.way > y.way
        \/ x.role = "to" /\ y.role = "to" /\ x.way < y.way
        \/ x.role = y.role /\ x.way = y.way /\ x.order_ <= y.order_

\* The rows come in this order.
LEMMA RestrictionRowsOrdered ==
  ASSUME NEW e \in Extracts, Regular(e)
  PROVE  LET K == RestrictionRows(WithRelations(e))
             s == Ordered(K)
         IN  /\ Lists(s, RowsOf(K))
             /\ \A p \in 1 .. Len(s) : IsSideRow(e, s[p])
             /\ \A i, j \in 1 .. Len(s) : i < j => SideOrdered(s[i], s[j])
<1> DEFINE K == RestrictionRows(WithRelations(e))
           s == Ordered(K)
<1>1. Keyed(K, 5) /\ \A k \in K : k[1] = SideKey(k[2]) /\ IsSideRow(e, k[2])
  BY RestrictionRowsKeyed
<1>2. Arranged(s, K)
  <2>1. Keyed(K, 5)
    BY <1>1
  <2>2. QED
    BY <2>1, ResultArranged
<1> HIDE DEF K, s
<1>3. ASSUME NEW p \in 1 .. Len(s) PROVE \E k \in K : s[p] = k[2] /\ k[1] = SideKey(s[p]) /\ IsSideRow(e, s[p])
  <2>1. s[p] \in RowsOf(K)
    BY <1>2 DEF Arranged, Lists
  <2>2. QED
    BY <1>1, <2>1 DEF RowsOf
<1>4. ASSUME NEW i \in 1 .. Len(s), NEW j \in 1 .. Len(s), i < j PROVE SideOrdered(s[i], s[j])
  <2> DEFINE x == s[i]
             y == s[j]
             a == SideKey(x)
             b == SideKey(y)
  <2>1. PICK k \in K : x = k[2] /\ k[1] = a /\ IsSideRow(e, x)
    BY <1>3
  <2>2. PICK l \in K : y = l[2] /\ l[1] = b /\ IsSideRow(e, y)
    BY <1>3
  <2>3. ~ Before(b, a)
    BY <1>2, <1>4, <2>1, <2>2 DEF Arranged
  <2> HIDE DEF x, y
  <2>4. /\ x.id \in Nat /\ x.way \in Nat /\ x.order_ \in Nat /\ x.role \in {"from", "to"}
        /\ y.id \in Nat /\ y.way \in Nat /\ y.order_ \in Nat /\ y.role \in {"from", "to"}
    BY <2>1, <2>2, SideRowKnown
  <2>5. /\ DOMAIN a = 1 .. 5 /\ a[1] = x.id
        /\ x.role = "from" => a[2] = - x.way /\ a[3] = x.order_
        /\ x.role = "to" => a[2] = 1 /\ a[3] = -1 /\ a[4] = x.way /\ a[5] = x.order_
    <3>1. CASE x.role = "from"
      <4>1. a = <<x.id, - x.way, x.order_, Null, Null>>
        BY <3>1 DEF SideKey
      <4> HIDE DEF a
      <4>2. QED
        BY <3>1, <4>1
    <3>2. CASE x.role = "to"
      <4>1. a = <<x.id, - Null, Null, x.way, x.order_>>
        BY <3>2 DEF SideKey
      <4>2. Null = -1
        BY DEF Null
      <4>3. - Null = 1
        <5>1. PICK n \in Int : n = Null /\ n + 1 = 0
          BY <4>2
        <5>2. - n = 1
          BY <5>1
        <5>3. QED
          BY <5>1, <5>2
      <4> HIDE DEF a
      <4>4. QED
        BY <3>2, <4>1, <4>2, <4>3
    <3>3. QED
      BY <2>4, <3>1, <3>2
  <2>6. /\ DOMAIN b = 1 .. 5 /\ b[1] = y.id
        /\ y.role = "from" => b[2] = - y.way /\ b[3] = y.order_
        /\ y.role = "to" => b[2] = 1 /\ b[3] = -1 /\ b[4] = y.way /\ b[5] = y.order_
    <3>1. CASE y.role = "from"
      <4>1. b = <<y.id, - y.way, y.order_, Null, Null>>
        BY <3>1 DEF SideKey
      <4> HIDE DEF b
      <4>2. QED
        BY <3>1, <4>1
    <3>2. CASE y.role = "to"
      <4>1. b = <<y.id, - Null, Null, y.way, y.order_>>
        BY <3>2 DEF SideKey
      <4>2. Null = -1
        BY DEF Null
      <4>3. - Null = 1
        <5>1. PICK n \in Int : n = Null /\ n + 1 = 0
          BY <4>2
        <5>2. - n = 1
          BY <5>1
        <5>3. QED
          BY <5>1, <5>2
      <4> HIDE DEF b
      <4>4. QED
        BY <3>2, <4>1, <4>2, <4>3
    <3>3. QED
      BY <2>4, <3>1, <3>2
  <2> HIDE DEF a, b
  <2>7. ASSUME NEW n \in 1 .. 5, \A m \in 1 .. n - 1 : b[m] = a[m] PROVE ~ (b[n] < a[n])
    BY <2>3, <2>6, <2>7 DEF Before
  <2>8. ~ (y.id < x.id)
    <3>1. 1 \in 1 .. 5 /\ 1 .. 1 - 1 = {}
      OBVIOUS
    <3>2. QED
      BY <2>5, <2>6, <2>7, <3>1
  <2>9. ASSUME x.id = y.id PROVE ~ (b[2] < a[2])
    <3>1. 2 \in 1 .. 5 /\ \A m \in 1 .. 2 - 1 : m = 1
      OBVIOUS
    <3>2. \A m \in 1 .. 2 - 1 : b[m] = a[m]
      BY <2>5, <2>6, <2>9, <3>1
    <3>3. QED
      BY <2>7, <3>1, <3>2
  <2>10. ASSUME x.id = y.id, b[2] = a[2] PROVE ~ (b[3] < a[3])
    <3>1. 3 \in 1 .. 5 /\ \A m \in 1 .. 3 - 1 : m = 1 \/ m = 2
      OBVIOUS
    <3>2. \A m \in 1 .. 3 - 1 : b[m] = a[m]
      BY <2>5, <2>6, <2>10, <3>1
    <3>3. QED
      BY <2>7, <3>1, <3>2
  <2>11. ASSUME x.id = y.id, b[2] = a[2], b[3] = a[3] PROVE ~ (b[4] < a[4])
    <3>1. 4 \in 1 .. 5 /\ \A m \in 1 .. 4 - 1 : m = 1 \/ m = 2 \/ m = 3
      OBVIOUS
    <3>2. \A m \in 1 .. 4 - 1 : b[m] = a[m]
      BY <2>5, <2>6, <2>11, <3>1
    <3>3. QED
      BY <2>7, <3>1, <3>2
  <2>12. ASSUME x.id = y.id, b[2] = a[2], b[3] = a[3], b[4] = a[4] PROVE ~ (b[5] < a[5])
    <3>1. 5 \in 1 .. 5 /\ \A m \in 1 .. 5 - 1 : m = 1 \/ m = 2 \/ m = 3 \/ m = 4
      OBVIOUS
    <3>2. \A m \in 1 .. 5 - 1 : b[m] = a[m]
      BY <2>5, <2>6, <2>12, <3>1
    <3>3. QED
      BY <2>7, <3>1, <3>2
  <2>13. CASE x.id # y.id
    <3>1. x.id < y.id
      BY <2>4, <2>8, <2>13
    <3>2. QED
      BY <3>1 DEF SideOrdered, x, y
  <2>14. CASE x.id = y.id
    <3>1. CASE x.role = "from" /\ y.role = "to"
      BY <2>14, <3>1 DEF SideOrdered, x, y
    <3>2. CASE x.role = "to" /\ y.role = "from"
      BY <2>4, <2>5, <2>6, <2>9, <2>14, <3>2
    <3>3. CASE x.role = "from" /\ y.role = "from"
      <4>1. x.way >= y.way
        BY <2>4, <2>5, <2>6, <2>9, <2>14, <3>3
      <4>2. x.way = y.way => x.order_ <= y.order_
        BY <2>4, <2>5, <2>6, <2>10, <2>14, <3>3
      <4>3. x.way > y.way \/ x.way = y.way
        BY <2>4, <4>1
      <4>4. QED
        BY <2>14, <3>3, <4>2, <4>3 DEF SideOrdered, x, y
    <3>4. CASE x.role = "to" /\ y.role = "to"
      <4>1. x.way <= y.way
        BY <2>4, <2>5, <2>6, <2>11, <2>14, <3>4
      <4>2. x.way = y.way => x.order_ <= y.order_
        BY <2>4, <2>5, <2>6, <2>12, <2>14, <3>4
      <4>3. x.way < y.way \/ x.way = y.way
        BY <2>4, <4>1
      <4>4. QED
        BY <2>14, <3>4, <4>2, <4>3 DEF SideOrdered, x, y
    <3>5. QED
      BY <2>4, <3>1, <3>2, <3>3, <3>4
  <2>15. QED
    BY <2>13, <2>14
<1>5. ASSUME NEW p \in 1 .. Len(s) PROVE IsSideRow(e, s[p])
  BY <1>3
<1>6. QED
  BY <1>2, <1>4, <1>5, Zenon DEF Arranged, K, s

\* The rows before those of a way on a side, these in their order, and the rows after.
SameSide(x, y) == x.id = y.id /\ x.role = y.role /\ x.way = y.way

Sooner(x, y) ==
  \/ x.id < y.id
  \/ /\ x.id = y.id
     /\ \/ x.role = "from" /\ y.role = "to"
        \/ x.role = "from" /\ y.role = "from" /\ x.way > y.way
        \/ x.role = "to" /\ y.role = "to" /\ x.way < y.way

SidePlace(x, y, n) == IF SameSide(x, y) THEN x.order_ ELSE IF Sooner(x, y) THEN -1 ELSE n

TypedRow(x) == x.id \in Nat /\ x.way \in Nat /\ x.order_ \in Nat /\ x.role \in {"from", "to"}

\* The places count up in the order of the query.
LEMMA SidesPlaced ==
  ASSUME NEW x, NEW y, NEW z, NEW n \in Nat, TypedRow(x), TypedRow(y), TypedRow(z), SideOrdered(x, z),
         SameSide(x, y) => x.order_ < n, SameSide(z, y) => z.order_ < n
  PROVE  SidePlace(x, y, n) \in -1 .. n /\ SidePlace(z, y, n) \in -1 .. n
         /\ SidePlace(x, y, n) <= SidePlace(z, y, n)
<1>1. /\ x.id \in Nat /\ x.way \in Nat /\ x.order_ \in Nat /\ x.role \in {"from", "to"}
      /\ y.id \in Nat /\ y.way \in Nat /\ y.order_ \in Nat /\ y.role \in {"from", "to"}
      /\ z.id \in Nat /\ z.way \in Nat /\ z.order_ \in Nat /\ z.role \in {"from", "to"}
  BY DEF TypedRow
<1>2. SidePlace(x, y, n) \in -1 .. n /\ SidePlace(z, y, n) \in -1 .. n
  BY <1>1 DEF SidePlace
<1>3. CASE SameSide(x, y)
  <2>1. SidePlace(x, y, n) = x.order_ /\ ~ Sooner(z, y)
    <3>1. ~ Sooner(z, y)
      BY <1>1, <1>3 DEF SameSide, Sooner, SideOrdered
    <3>2. QED
      BY <1>3, <3>1 DEF SidePlace
  <2>2. CASE SameSide(z, y)
    <3>1. x.order_ <= z.order_
      BY <1>1, <1>3, <2>2 DEF SameSide, SideOrdered
    <3>2. SidePlace(z, y, n) = z.order_
      BY <2>2 DEF SidePlace
    <3>3. QED
      BY <1>2, <2>1, <3>1, <3>2
  <2>3. CASE ~ SameSide(z, y)
    <3>1. SidePlace(z, y, n) = n
      BY <2>1, <2>3 DEF SidePlace
    <3>2. QED
      BY <1>1, <1>2, <1>3, <2>1, <3>1
  <2>4. QED
    BY <2>2, <2>3
<1>4. CASE ~ SameSide(x, y) /\ Sooner(x, y)
  <2>1. SidePlace(x, y, n) = -1
    BY <1>4 DEF SidePlace
  <2>2. QED
    BY <1>2, <2>1
<1>5. CASE ~ SameSide(x, y) /\ ~ Sooner(x, y)
  <2>1. ~ SameSide(z, y) /\ ~ Sooner(z, y)
    BY <1>1, <1>5 DEF SameSide, Sooner, SideOrdered
  <2>2. SidePlace(x, y, n) = n /\ SidePlace(z, y, n) = n
    BY <1>5, <2>1 DEF SidePlace
  <2>3. QED
    BY <1>2, <2>2
<1>6. QED
  BY <1>3, <1>4, <1>5

\* The rows of the query, row q of the way w on a side of r.
AtSide(e, s, q, r, role, w) ==
  /\ r \in Speaking(e) /\ role \in {"from", "to"} /\ w \in Ways(e, r, role)
  /\ OfSide(s[q], r, role, w) /\ s[q].via = ViaOf(r) /\ s[q].restriction = Told(r)

\* Every row is one of some way on some side of some restriction.
LEMMA SideKnown ==
  ASSUME NEW e \in Extracts, Regular(e), NEW s, s = Ordered(RestrictionRows(WithRelations(e))),
         NEW q \in 1 .. Len(s)
  PROVE  \E r, role, w : AtSide(e, s, q, r, role, w)
<1>1. IsSideRow(e, s[q])
  BY RestrictionRowsOrdered, Zenon
<1>2. PICK r \in Speaking(e), role \in {"from", "to"} : \E w \in Ways(e, r, role) : \E i \in DOMAIN w.refs :
        s[q] = SideRow(r, role, w, i)
  BY <1>1 DEF IsSideRow
<1>3. PICK w \in Ways(e, r, role) : \E i \in DOMAIN w.refs : s[q] = SideRow(r, role, w, i)
  BY <1>2
<1>4. PICK i \in DOMAIN w.refs : s[q] = SideRow(r, role, w, i)
  BY <1>3
<1>5. AtSide(e, s, q, r, role, w)
  BY <1>4, SideRowFields DEF AtSide, OfSide
<1>6. QED
  BY <1>5

\* An iteration of the inner loop takes all rows of a way on a side.
LEMMA SideFetched ==
  ASSUME NEW e \in Extracts, Regular(e), NEW s, s = Ordered(RestrictionRows(WithRelations(e))),
         NEW q, BetweenSides(s, q), ~ AtEnd(s, q), NEW r, NEW role, NEW w, AtSide(e, s, q, r, role, w)
  PROVE  LET o == SideAt(s, q).q IN
         /\ SideAt(s, q).refs = w.refs
         /\ o \in 1 .. Len(s) + 1 /\ q < o
         /\ \A p \in q .. o - 1 : OfSide(s[p], r, role, w)
         /\ BetweenSides(s, o)
<1> DEFINE R == RowsOf(RestrictionRows(WithRelations(e)))
           n == Len(w.refs)
           y == s[q]
           h == [p \in 1 .. Len(s) |-> SidePlace(s[p], y, n)]
           g == [i \in 0 .. n - 1 |-> SideRow(r, role, w, i + 1)]
<1>1. Lists(s, R) /\ (\A p \in 1 .. Len(s) : IsSideRow(e, s[p]))
      /\ \A i, j \in 1 .. Len(s) : i < j => SideOrdered(s[i], s[j])
  BY RestrictionRowsOrdered, Zenon
<1>2. \A x : x \in R <=> IsSideRow(e, x)
  BY RestrictionRowsKeyed, Zenon
<1> HIDE DEF R
<1>3. Len(s) \in Nat /\ s \in Seq(R)
  BY <1>1 DEF Lists
<1>4. q \in 1 .. Len(s) /\ q \in 1 .. Len(s) + 1
  BY <1>3 DEF BetweenSides, AtEnd
<1>5. r \in Speaking(e) /\ role \in {"from", "to"} /\ w \in Ways(e, r, role) /\ w \in RoadsOf(e)
      /\ y.id = r.id /\ y.role = role /\ y.way = w.id
  BY DEF AtSide, OfSide, Ways
<1>6. w.refs \in Seq(Nat) /\ n \in Nat /\ n > 0 /\ DOMAIN w.refs = 1 .. n
  <2>1. w.refs # <<>>
    BY <1>5 DEF Regular
  <2>2. w.refs \in Seq(Nat) /\ n \in Nat /\ DOMAIN w.refs = 1 .. n
    BY <1>5, RoadKnown
  <2>3. QED
    BY <2>1, <2>2
<1>7. ASSUME NEW p \in 1 .. Len(s)
      PROVE  /\ TypedRow(s[p])
             /\ SameSide(s[p], y) => s[p].order_ \in 0 .. n - 1 /\ s[p] = SideRow(r, role, w, s[p].order_ + 1)
  <2>1. IsSideRow(e, s[p])
    BY <1>1
  <2>2. TypedRow(s[p])
    BY <2>1, SideRowKnown DEF TypedRow
  <2>3. ASSUME SameSide(s[p], y)
        PROVE  s[p].order_ \in 0 .. n - 1 /\ s[p] = SideRow(r, role, w, s[p].order_ + 1)
    <3>1. s[p].id = r.id /\ s[p].way = w.id /\ s[p].role = role
      BY <1>5, <2>3 DEF SameSide
    <3>2. QED
      BY <1>5, <2>1, <3>1, SideRowKnown
  <2>4. QED
    BY <2>2, <2>3
<1>8. ASSUME NEW i \in 0 .. n - 1 PROVE IsSideRow(e, g[i])
  <2>1. i + 1 \in DOMAIN w.refs
    BY <1>6
  <2>2. QED
    BY <1>5, <2>1 DEF IsSideRow
<1>9. ASSUME NEW i \in 0 .. n - 1, NEW x, x = g[i] PROVE SameSide(x, y) /\ x.order_ = i
  <2>1. x.id = r.id /\ x.role = role /\ x.way = w.id /\ x.order_ = i + 1 - 1
    BY <1>9, SideRowFields
  <2>2. QED
    BY <1>5, <2>1 DEF SameSide
<1>10. ASSUME NEW p \in 1 .. Len(s)
       PROVE  /\ h[p] \in -1 .. n
              /\ SameSide(s[p], y) => h[p] = s[p].order_
              /\ h[p] \in 0 .. n - 1 => SameSide(s[p], y)
  <2>1. h[p] = SidePlace(s[p], y, n)
    OBVIOUS
  <2> HIDE DEF h
  <2>2. h[p] = IF SameSide(s[p], y) THEN s[p].order_ ELSE IF Sooner(s[p], y) THEN -1 ELSE n
    BY <2>1 DEF SidePlace
  <2>3. n \notin 0 .. n - 1 /\ -1 \notin 0 .. n - 1 /\ -1 \in -1 .. n /\ n \in -1 .. n
    BY <1>6
  <2>4. \A x \in 0 .. n - 1 : x \in -1 .. n
    BY <1>6
  <2>5. SameSide(s[p], y) => s[p].order_ \in 0 .. n - 1
    BY <1>7
  <2> HIDE DEF n, y
  <2>6. QED
    BY <2>2, <2>3, <2>4, <2>5
<1>11. ASSUME NEW i \in 1 .. Len(s), NEW j \in 1 .. Len(s), i < j PROVE h[i] <= h[j]
  <2>1. TypedRow(s[i]) /\ TypedRow(s[j]) /\ TypedRow(y) /\ SideOrdered(s[i], s[j])
    BY <1>1, <1>4, <1>7, <1>11
  <2>2. (SameSide(s[i], y) => s[i].order_ < n) /\ (SameSide(s[j], y) => s[j].order_ < n)
    BY <1>6, <1>7
  <2>3. SidePlace(s[i], y, n) <= SidePlace(s[j], y, n)
    BY <1>6, <2>1, <2>2, SidesPlaced
  <2>4. QED
    BY <2>3
<1> HIDE DEF h
<1>12. ASSUME NEW p \in 1 .. Len(s), NEW i \in 0 .. n - 1 PROVE h[p] = i <=> s[p] = g[i]
  <2>1. ASSUME h[p] = i PROVE s[p] = g[i]
    <3>1. SameSide(s[p], y) /\ s[p].order_ = i
      BY <1>10, <2>1
    <3>2. s[p] = SideRow(r, role, w, i + 1)
      BY <1>7, <3>1
    <3>3. QED
      BY <3>2
  <2>2. ASSUME s[p] = g[i] PROVE h[p] = i
    <3>1. SameSide(s[p], y) /\ s[p].order_ = i
      BY <1>9, <2>2
    <3>2. QED
      BY <1>10, <3>1
  <2>3. QED
    BY <2>1, <2>2
<1>13. Counts(s, R, h, n, g, q)
  <2>1. SameSide(y, y)
    BY DEF SameSide
  <2>2. h[q] \in 0 .. n - 1
    BY <1>4, <1>7, <1>10, <2>1
  <2>3. ASSUME NEW p \in 1 .. q - 1 PROVE h[p] < 0
    <3>1. p \in 1 .. Len(s) /\ p < q /\ q \in q .. Len(s)
      BY <1>3, <1>4
    <3>2. ~ SameSide(s[p], y)
      <4>1. <<s[p].id, s[p].role, s[p].way>> # <<s[q].id, s[q].role, s[q].way>>
        BY <3>1 DEF BetweenSides
      <4>2. QED
        BY <4>1 DEF SameSide
    <3>3. h[p] \in -1 .. n /\ h[p] \notin 0 .. n - 1
      BY <1>10, <3>1, <3>2
    <3>4. h[p] <= h[q]
      BY <1>4, <1>11, <3>1
    <3>5. QED
      BY <1>6, <2>2, <3>3, <3>4
  <2>4. ASSUME NEW p \in q .. Len(s) PROVE h[p] >= 0
    <3>1. p \in 1 .. Len(s) /\ (p = q \/ q < p)
      BY <1>3, <1>4
    <3>2. h[p] \in Int /\ (p = q \/ h[q] <= h[p])
      BY <1>4, <1>6, <1>10, <1>11, <3>1
    <3>3. QED
      BY <1>6, <2>2, <3>2
  <2>5. h \in [1 .. Len(s) -> Int]
    <3>1. \A p \in 1 .. Len(s) : h[p] \in Int
      BY <1>6, <1>10
    <3>2. QED
      BY <3>1 DEF h
  <2>6. \A i \in 0 .. n - 1 : g[i] \in R
    BY <1>2, <1>8
  <2> HIDE DEF g
  <2>7. QED
    BY <1>4, <1>11, <1>12, <2>3, <2>4, <2>5, <2>6 DEF Counts
<1>14. Counted(s, h, n, g, q)
  <2> HIDE DEF g, n
  <2>1. QED
    BY <1>1, <1>6, <1>13, CountedRows
<1> DEFINE o == q + n
           B == Block(s, q, n)
<1>15. /\ o \in q .. Len(s) + 1
       /\ \A i \in 0 .. n - 1 : s[q + i] = g[i]
       /\ \A p \in 1 .. o - 1 : h[p] < n
       /\ \A p \in o .. Len(s) : h[p] >= n
  <2>1. q + n - 1 = o - 1
    BY <1>4, <1>6
  <2>2. QED
    BY <1>14, <2>1 DEF Counted
<1>16. o \in 1 .. Len(s) + 1 /\ q < o /\ q + n <= Len(s) + 1
  BY <1>3, <1>4, <1>6, <1>15
<1>17. Skip(s, q, n) = o /\ HasRows(B, s, q, n)
  <2>1. Skip(s, q, n) = q + n
    BY <1>3, <1>4, <1>6, <1>16, Skipped
  <2>2. HasRows(B, s, q, n)
    BY <1>3, <1>4, <1>6, <1>16, BlockRead
  <2>3. QED
    BY <2>1, <2>2
<1>18. [i \in 1 .. n |-> Number(B[i].nd)] = w.refs
  <2>1. ASSUME NEW i \in 1 .. n PROVE Number(B[i].nd) = w.refs[i]
    <3>1. B[i] = s[q + i - 1]
      BY <1>17 DEF HasRows
    <3>2. i - 1 \in 0 .. n - 1 /\ q + (i - 1) = q + i - 1 /\ (i - 1) + 1 = i
      BY <1>3, <1>4, <1>6
    <3>3. s[q + (i - 1)] = SideRow(r, role, w, i)
      BY <1>15, <3>2
    <3>4. B[i].nd = w.refs[i]
      BY <3>1, <3>2, <3>3, SideRowFields
    <3>5. w.refs[i] \in Nat
      BY <1>6
    <3>6. w.refs[i] # -1
      BY <3>5
    <3> HIDE DEF B
    <3>7. QED
      BY <3>4, <3>6 DEF Number, Null
  <2> HIDE DEF B
  <2>2. [i \in 1 .. n |-> Number(B[i].nd)] = [i \in 1 .. n |-> w.refs[i]]
    BY <2>1
  <2>3. [i \in 1 .. n |-> w.refs[i]] = w.refs
    BY <1>6
  <2>4. QED
    BY <2>2, <2>3
<1> DEFINE at == SideAt(s, q)
<1>19. at.refs = w.refs /\ at.q = o
  <2>1. /\ at.refs = [i \in 1 .. s[q].nrefs |-> Number(Block(s, q, s[q].nrefs)[i].nd)]
        /\ at.q = Skip(s, q, AtLeastOne(s[q].nrefs))
    BY DEF SideAt
  <2> HIDE DEF at
  <2>2. s[q].nrefs = n
    <3>1. s[q] = SideRow(r, role, w, s[q].order_ + 1)
      BY <1>4, <1>7 DEF SameSide
    <3>2. QED
      BY <3>1, SideRowFields
  <2>3. AtLeastOne(n) = n
    BY <1>6 DEF AtLeastOne
  <2>4. at.q = o
    BY <1>17, <2>1, <2>2, <2>3
  <2>5. QED
    BY <1>18, <2>1, <2>2, <2>4
<1> HIDE DEF at, B
<1>20. ASSUME NEW p \in q .. o - 1 PROVE p \in 1 .. Len(s) /\ OfSide(s[p], r, role, w)
  <2>1. p - q \in 0 .. n - 1 /\ q + (p - q) = p /\ p \in 1 .. Len(s)
    BY <1>3, <1>4, <1>6, <1>16
  <2>2. s[p] = g[p - q]
    BY <1>15, <2>1
  <2>3. SameSide(s[p], y)
    BY <1>9, <2>1, <2>2
  <2>4. QED
    BY <1>5, <2>1, <2>3 DEF SameSide, OfSide
<1>21. BetweenSides(s, o)
  <2>1. ASSUME NEW p \in 1 .. o - 1, NEW m \in o .. Len(s)
        PROVE  <<s[p].id, s[p].role, s[p].way>> # <<s[m].id, s[m].role, s[m].way>>
    <3>1. m \in 1 .. Len(s) /\ m \in q .. Len(s)
      BY <1>3, <1>4, <1>16
    <3>2. CASE p < q
      <4>1. p \in 1 .. q - 1
        BY <1>3, <1>4, <3>2
      <4>2. QED
        BY <3>1, <4>1 DEF BetweenSides
    <3>3. CASE q <= p
      <4>1. p \in q .. o - 1
        BY <1>4, <1>16, <3>3
      <4>2. s[p].id = y.id /\ s[p].role = y.role /\ s[p].way = y.way
        BY <1>5, <1>20, <4>1 DEF OfSide
      <4>3. h[m] >= n
        BY <1>15
      <4>4. ~ SameSide(s[m], y)
        BY <1>6, <1>7, <1>10, <3>1, <4>3
      <4>5. QED
        BY <4>2, <4>4 DEF SameSide
    <3>4. QED
      BY <1>4, <1>16, <3>2, <3>3
  <2>2. QED
    BY <1>16, <2>1 DEF BetweenSides
<1>22. QED
  BY <1>16, <1>19, <1>20, <1>21, Zenon DEF at

\* A complete relation is one that says something about roads on both sides.
LEMMA CompleteSpeaks ==
  ASSUME NEW e \in Extracts, NEW r
  PROVE  r \in Complete(e) <=> r \in Speaking(e) /\ SideOf(e, r, "from") # {} /\ SideOf(e, r, "to") # {}
<1>1. ASSUME NEW role, SideOf(e, r, role) # {} PROVE \E mem \in Range(r.members) : mem.role = role
  BY <1>1 DEF SideOf
<1>2. QED
  BY <1>1 DEF Complete, Speaking

\* A restriction that is opened has been read nothing of.
LEMMA RestrictionOpened ==
  ASSUME NEW e \in Extracts, Regular(e), NEW s, s = Ordered(RestrictionRows(WithRelations(e))),
         NEW q, Between(s, q), ~ AtEnd(s, q)
  PROVE  /\ BetweenSides(s, q)
         /\ s[q].id \notin Seen(s, q)
         /\ \E r \in Range(e.relations) :
              /\ r.id = s[q].id
              /\ SideRead(e, s, r, q) =
                   [id |-> s[q].id, via |-> s[q].via, only |-> s[q].restriction = "restriction=only",
                    role |-> s[q].role, from |-> {}, to |-> {}]
<1>1. Len(s) \in Nat
  <2>1. Lists(s, RowsOf(RestrictionRows(WithRelations(e))))
    BY RestrictionRowsOrdered, Zenon
  <2>2. QED
    BY <2>1 DEF Lists
<1>2. q \in 1 .. Len(s) /\ q \in q .. Len(s)
  BY <1>1 DEF Between, AtEnd
<1>3. \A p \in 1 .. q - 1 : s[p].id # s[q].id
  BY <1>2 DEF Between
<1>4. BetweenSides(s, q)
  BY DEF Between, BetweenSides
<1>5. PICK r, role, w : AtSide(e, s, q, r, role, w)
  BY <1>2, SideKnown
<1>6. /\ r \in Speaking(e) /\ r \in Range(e.relations) /\ s[q].id = r.id /\ s[q].via = ViaOf(r)
      /\ s[q].restriction = Told(r)
  BY <1>5 DEF AtSide, OfSide, Speaking
<1>7. ("restriction=only" \in r.tags) = (s[q].restriction = "restriction=only")
  <2>1. Told(r) \in r.tags \cap RestrictionKV
    BY <1>6 DEF Told, Speaking
  <2>2. "restriction=only" \in r.tags => "restriction=only" = Told(r)
    BY <1>6, RelationKnown DEF RestrictionKV
  <2>3. QED
    BY <1>6, <2>1, <2>2
<1>8. ASSUME NEW side2 PROVE RefsSeen(e, s, r, side2, q) = {}
  BY <1>3, <1>6 DEF RefsSeen, OfSide
<1>9. SideRead(e, s, r, q) = [id |-> s[q].id, via |-> s[q].via, only |-> s[q].restriction = "restriction=only",
                              role |-> s[q].role, from |-> {}, to |-> {}]
  BY <1>6, <1>7, <1>8, Zenon DEF SideRead, ViaOf
<1>10. s[q].id \notin Seen(s, q)
  BY <1>3 DEF Seen
<1>11. QED
  BY <1>4, <1>6, <1>9, <1>10

\* From row q to row o the references of one way of r have been read.
Advanced(e, s, r, q, o, refs) ==
  /\ r \in Speaking(e) /\ s[q].role \in {"from", "to"}
  /\ q \in Nat /\ o \in 1 .. Len(s) + 1 /\ q < o /\ BetweenSides(s, o) /\ s[o - 1].id = r.id
  /\ RefsSeen(e, s, r, s[q].role, o) = RefsSeen(e, s, r, s[q].role, q) \cup {refs}
  /\ \A role \in {"from", "to"} : role # s[q].role => RefsSeen(e, s, r, role, o) = RefsSeen(e, s, r, role, q)
  /\ Seen(s, o) = Seen(s, q) \cup {r.id}

\* What is read goes to its side.
LEMMA SidePassed ==
  ASSUME NEW e \in Extracts, Regular(e), NEW s, s = Ordered(RestrictionRows(WithRelations(e))),
         NEW q, BetweenSides(s, q), ~ AtEnd(s, q), NEW r \in Range(e.relations), r.id = s[q].id
  PROVE  Advanced(e, s, r, q, SideAt(s, q).q, SideAt(s, q).refs)
<1> DEFINE o == SideAt(s, q).q
<1>1. Len(s) \in Nat
  <2>1. Lists(s, RowsOf(RestrictionRows(WithRelations(e))))
    BY RestrictionRowsOrdered, Zenon
  <2>2. QED
    BY <2>1 DEF Lists
<1>2. q \in 1 .. Len(s)
  BY <1>1 DEF BetweenSides, AtEnd
<1>3. PICK t, role, w : AtSide(e, s, q, t, role, w)
  BY <1>2, SideKnown
<1>4. /\ t \in Speaking(e) /\ t \in Range(e.relations) /\ s[q].id = t.id /\ s[q].role = role /\ role \in {"from", "to"}
      /\ s[q].way = w.id /\ w \in Ways(e, t, role) /\ w \in RoadsOf(e)
  BY <1>3 DEF AtSide, OfSide, Speaking, Ways
<1>5. t = r
  BY <1>4, RelationKnown
<1>6. /\ SideAt(s, q).refs = w.refs
      /\ o \in 1 .. Len(s) + 1 /\ q < o
      /\ \A p \in q .. o - 1 : OfSide(s[p], r, role, w)
      /\ BetweenSides(s, o)
  BY <1>3, <1>5, SideFetched, Zenon
<1> HIDE DEF o
<1>7. ASSUME NEW p PROVE p \in 1 .. o - 1 <=> p \in 1 .. q - 1 \/ p \in q .. o - 1
  BY <1>1, <1>2, <1>6
<1>8. q \in q .. o - 1 /\ o - 1 \in q .. o - 1
  BY <1>1, <1>2, <1>6
<1>9. \A v \in RoadsOf(e) : v.id = w.id => v = w
  BY <1>4, RoadKnown
<1>10. RefsSeen(e, s, r, role, o) = RefsSeen(e, s, r, role, q) \cup {w.refs}
  <2>1. ASSUME NEW x \in Ways(e, r, role)
        PROVE  (\E p \in 1 .. o - 1 : OfSide(s[p], r, role, x)) <=>
                 (\E p \in 1 .. q - 1 : OfSide(s[p], r, role, x)) \/ x = w
    <3>1. x \in RoadsOf(e)
      BY DEF Ways
    <3>2. ASSUME NEW p \in q .. o - 1 PROVE OfSide(s[p], r, role, x) <=> x = w
      <4>1. OfSide(s[p], r, role, w)
        BY <1>6
      <4>2. QED
        BY <1>9, <3>1, <4>1 DEF OfSide
    <3>3. QED
      BY <1>7, <1>8, <3>2
  <2>2. w \in Ways(e, r, role)
    BY <1>4, <1>5
  <2>3. QED
    BY <2>1, <2>2 DEF RefsSeen
<1>11. ASSUME NEW other, other # role PROVE RefsSeen(e, s, r, other, o) = RefsSeen(e, s, r, other, q)
  <2>1. ASSUME NEW x, NEW p \in q .. o - 1 PROVE ~ OfSide(s[p], r, other, x)
    <3>1. OfSide(s[p], r, role, w)
      BY <1>6
    <3>2. QED
      BY <1>11, <3>1 DEF OfSide
  <2>2. \A x : (\E p \in 1 .. o - 1 : OfSide(s[p], r, other, x)) <=>
               (\E p \in 1 .. q - 1 : OfSide(s[p], r, other, x))
    BY <1>7, <2>1
  <2>3. QED
    BY <2>2 DEF RefsSeen
<1>12. Seen(s, o) = Seen(s, q) \cup {r.id}
  <2>1. \A p \in q .. o - 1 : s[p].id = r.id
    BY <1>6 DEF OfSide
  <2>2. QED
    BY <1>7, <1>8, <2>1 DEF Seen
<1>13. s[o - 1].id = r.id
  BY <1>6, <1>8 DEF OfSide
<1>14. QED
  BY <1>2, <1>4, <1>5, <1>6, <1>10, <1>11, <1>12, <1>13 DEF o, Advanced

\* A restriction is read when no row of it is left.
LEMMA RestrictionPassed ==
  ASSUME NEW e \in Extracts, Regular(e), NEW s, s = Ordered(RestrictionRows(WithRelations(e))),
         NEW o \in 1 .. Len(s) + 1, o - 1 \in 1 .. Len(s), NEW r \in Speaking(e), s[o - 1].id = r.id,
         AtEnd(s, o) \/ s[o].id # r.id
  PROVE  /\ Between(s, o)
         /\ \A role \in {"from", "to"} : RefsSeen(e, s, r, role, o) = SideOf(e, r, role)
<1> DEFINE R == RowsOf(RestrictionRows(WithRelations(e)))
<1>1. Lists(s, R) /\ (\A p \in 1 .. Len(s) : IsSideRow(e, s[p]))
      /\ \A i, j \in 1 .. Len(s) : i < j => SideOrdered(s[i], s[j])
  BY RestrictionRowsOrdered, Zenon
<1>2. \A x : x \in R <=> IsSideRow(e, x)
  BY RestrictionRowsKeyed, Zenon
<1> HIDE DEF R
<1>3. Len(s) \in Nat /\ \A x \in R : \E i \in 1 .. Len(s) : s[i] = x
  BY <1>1 DEF Lists
<1>4. \A p \in 1 .. Len(s) : s[p].id \in Nat
  BY <1>1, SideRowKnown
<1>5. \A i, j \in 1 .. Len(s) : i < j => s[i].id <= s[j].id
  <2>1. \A x, y : SideOrdered(x, y) => x.id < y.id \/ x.id = y.id
    BY DEF SideOrdered
  <2>2. QED
    BY <1>1, <1>4, <2>1
<1>6. ASSUME NEW p \in 1 .. o - 1 PROVE p \in 1 .. Len(s) /\ s[p].id <= r.id
  <2>1. p \in 1 .. Len(s) /\ (p = o - 1 \/ p < o - 1)
    BY <1>3
  <2>2. QED
    BY <1>4, <1>5, <2>1
<1>7. ASSUME NEW m \in o .. Len(s) PROVE m \in 1 .. Len(s) /\ s[m].id > r.id
  <2>1. m \in 1 .. Len(s) /\ o \in 1 .. Len(s) /\ o - 1 < o /\ (m = o \/ o < m) /\ ~ AtEnd(s, o)
    BY <1>3 DEF AtEnd
  <2>2. s[o - 1].id <= s[o].id /\ s[o].id # r.id
    BY <1>5, <2>1
  <2>3. s[o].id <= s[m].id
    BY <1>4, <1>5, <2>1
  <2>4. s[o].id \in Nat /\ s[m].id \in Nat /\ r.id \in Nat
    BY <1>4, <2>1
  <2>5. QED
    BY <2>1, <2>2, <2>3, <2>4
<1>8. r.id \in Nat
  BY <1>4
<1>9. Between(s, o)
  <2>1. ASSUME NEW p \in 1 .. o - 1, NEW m \in o .. Len(s) PROVE s[p].id # s[m].id
    <3>1. s[p].id <= r.id /\ s[m].id > r.id /\ s[p].id \in Nat /\ s[m].id \in Nat
      BY <1>4, <1>6, <1>7
    <3>2. QED
      BY <1>8, <3>1
  <2>2. QED
    BY <2>1 DEF Between
<1>10. ASSUME NEW role \in {"from", "to"} PROVE RefsSeen(e, s, r, role, o) = SideOf(e, r, role)
  <2>1. SideOf(e, r, role) = {w.refs : w \in Ways(e, r, role)}
    BY Zenon DEF SideOf, Ways
  <2>2. ASSUME NEW w \in Ways(e, r, role) PROVE \E p \in 1 .. o - 1 : OfSide(s[p], r, role, w)
    <3>1. w \in RoadsOf(e)
      BY DEF Ways
    <3>2. w.refs # <<>> /\ w.refs \in Seq(Nat)
      BY <3>1, RoadKnown DEF Regular
    <3>3. 1 \in DOMAIN w.refs
      BY <3>2
    <3>4. IsSideRow(e, SideRow(r, role, w, 1))
      BY <3>3 DEF IsSideRow
    <3>5. PICK p \in 1 .. Len(s) : s[p] = SideRow(r, role, w, 1)
      BY <1>2, <1>3, <3>4
    <3>6. OfSide(s[p], r, role, w)
      BY <3>5, SideRowFields DEF OfSide
    <3>7. p \notin o .. Len(s)
      BY <1>7, <1>8, <3>6 DEF OfSide
    <3>8. p \in 1 .. o - 1
      BY <1>3, <3>7
    <3>9. QED
      BY <3>6, <3>8
  <2>3. QED
    BY <2>1, <2>2 DEF RefsSeen
<1>11. QED
  BY <1>9, <1>10

\* At the end of the rows all complete restrictions have been seen.
LEMMA RestrictionsSeen ==
  ASSUME NEW e \in Extracts, Regular(e), NEW s, s = Ordered(RestrictionRows(WithRelations(e))),
         NEW q, Between(s, q), AtEnd(s, q)
  PROVE  \A r \in Complete(e) : r.id \in Seen(s, q)
<1> DEFINE R == RowsOf(RestrictionRows(WithRelations(e)))
<1>1. Lists(s, R)
  BY RestrictionRowsOrdered, Zenon
<1>2. \A x : x \in R <=> IsSideRow(e, x)
  BY RestrictionRowsKeyed, Zenon
<1> HIDE DEF R
<1> TAKE r \in Complete(e)
<1>3. r \in Speaking(e) /\ SideOf(e, r, "from") # {}
  BY CompleteSpeaks
<1>4. PICK w \in Ways(e, r, "from") : TRUE
  BY <1>3 DEF SideOf, Ways
<1>5. w \in RoadsOf(e)
  BY DEF Ways
<1>6. w.refs # <<>> /\ w.refs \in Seq(Nat)
  BY <1>5, RoadKnown DEF Regular
<1>7. 1 \in DOMAIN w.refs
  BY <1>6
<1>8. IsSideRow(e, SideRow(r, "from", w, 1))
  BY <1>3, <1>7 DEF IsSideRow
<1>9. PICK p \in 1 .. Len(s) : s[p] = SideRow(r, "from", w, 1)
  BY <1>1, <1>2, <1>8 DEF Lists
<1>10. p \in 1 .. q - 1
  BY <1>1 DEF Between, AtEnd, Lists
<1>11. QED
  BY <1>9, <1>10, SideRowFields DEF Seen

-----------------------------------------------------------------------------
(* The steps of the import.                                                *)

\* A list of nothing, and one that is longer by a new element.
LEMMA ListGrown ==
  /\ Lists(<<>>, {})
  /\ \A S, s, x : Lists(s, S) /\ x \notin S => Lists(Append(s, x), S \cup {x})
<1>1. Lists(<<>>, {})
  <2>1. <<>> \in Seq({}) /\ Len(<<>>) = 0 /\ DOMAIN <<>> = 1 .. 0 /\ 0 \in Nat
    OBVIOUS
  <2>2. QED
    BY <2>1 DEF Lists
<1>2. ASSUME NEW S, NEW s, NEW x, Lists(s, S), x \notin S PROVE Lists(Append(s, x), S \cup {x})
  <2> DEFINE n == Len(s)  t == Append(s, x)
  <2>1. s \in Seq(S) /\ n \in Nat /\ \A i \in 1 .. n : s[i] \in S
    BY <1>2 DEF Lists
  <2>2. s \in Seq(S \cup {x})
    BY <2>1
  <2>3. t \in Seq(S \cup {x}) /\ Len(t) = n + 1 /\ \A i \in 1 .. n + 1 : t[i] = IF i = n + 1 THEN x ELSE s[i]
    BY <2>1, <2>2
  <2>4. DOMAIN t = 1 .. n + 1
    BY <2>1, <2>3
  <2> HIDE DEF n, t
  <2>5. \A i \in 1 .. n + 1 : i = n + 1 \/ i \in 1 .. n
    BY <2>1
  <2>6. \A i \in 1 .. n : i \in 1 .. n + 1 /\ i # n + 1
    BY <2>1
  <2>7. \A y \in S \cup {x} : \E i \in 1 .. n + 1 : t[i] = y
    <3>1. ASSUME NEW y \in S PROVE \E i \in 1 .. n + 1 : t[i] = y
      <4>1. PICK i \in 1 .. n : s[i] = y
        BY <1>2, <3>1 DEF Lists, n
      <4>2. QED
        BY <4>1, <2>3, <2>6
    <3>2. n + 1 \in 1 .. n + 1
      BY <2>1
    <3>3. QED
      BY <3>1, <3>2, <2>3
  <2>8. \A i \in 1 .. n + 1 : t[i] \in S \cup {x}
    BY <2>1, <2>3, <2>5
  <2>9. ASSUME NEW i \in 1 .. n + 1, NEW j \in 1 .. n + 1, t[i] = t[j] PROVE i = j
    <3>1. \A k, l \in 1 .. n : s[k] = s[l] => k = l
      BY <1>2 DEF Lists, n
    <3>2. QED
      BY <2>1, <2>3, <2>5, <2>9, <3>1, <1>2
  <2>10. n + 1 \in Nat
    BY <2>1
  <2>11. QED
    BY <2>3, <2>4, <2>7, <2>8, <2>9, <2>10 DEF Lists, t
<1>3. QED
  BY <1>1, <1>2

\* So it is with the restrictions that are found.
LEMMA FoundGrown ==
  ASSUME NEW e
  PROVE  /\ FoundRestrictions(e, <<>>, {})
         /\ \A R, s, r : FoundRestrictions(e, s, R) /\ r \notin R =>
              FoundRestrictions(e, Append(s, Said(e, r)), R \cup {r})
<1>1. FoundRestrictions(e, <<>>, {})
  <2>1. <<>> \in [DOMAIN <<>> -> {}] /\ <<>> = [i \in DOMAIN <<>> |-> Said(e, <<>>[i])]
    OBVIOUS
  <2>2. QED
    BY <2>1, ListGrown DEF FoundRestrictions
<1>2. ASSUME NEW R, NEW s, NEW r, FoundRestrictions(e, s, R), r \notin R
      PROVE  FoundRestrictions(e, Append(s, Said(e, r)), R \cup {r})
  <2>1. PICK t \in [DOMAIN s -> R] : Lists(t, R) /\ s = [i \in DOMAIN t |-> Said(e, t[i])]
    BY <1>2 DEF FoundRestrictions
  <2> DEFINE u == Append(t, r)  n == Len(t)
  <2>2. Lists(u, R \cup {r}) /\ t \in Seq(R) /\ n \in Nat /\ DOMAIN t = 1 .. n
    <3>1. Lists(u, R \cup {r})
      BY <2>1, <1>2, ListGrown
    <3>2. QED
      BY <3>1, <2>1 DEF Lists
  <2>3. /\ u \in Seq(R \cup {r}) /\ Len(u) = n + 1 /\ DOMAIN u = 1 .. n + 1
        /\ \A i \in 1 .. n + 1 : u[i] = IF i = n + 1 THEN r ELSE t[i]
    <3>1. Len(u) = n + 1 /\ \A i \in 1 .. n + 1 : u[i] = IF i = n + 1 THEN r ELSE t[i]
      BY <2>2
    <3>2. QED
      BY <3>1, <2>2 DEF Lists
  <2> DEFINE A == {Said(e, t[i]) : i \in 1 .. n}
  <2>4. s \in [1 .. n -> A]
    BY <2>1, <2>2
  <2>5. s \in Seq(A) /\ Len(s) = n
    BY <2>4, <2>2
  <2>6. s \in Seq(A \cup {Said(e, r)})
    BY <2>5
  <2> HIDE DEF A
  <2> DEFINE v == Append(s, Said(e, r))
  <2>7. /\ DOMAIN v = 1 .. n + 1 /\ v = [i \in 1 .. n + 1 |-> v[i]]
        /\ \A i \in 1 .. n + 1 : v[i] = IF i = n + 1 THEN Said(e, r) ELSE s[i]
    <3> HIDE DEF n
    <3>1. ASSUME NEW B, NEW x \in B, s \in Seq(B)
          PROVE  LET w == Append(s, x) IN
                 /\ w \in Seq(B) /\ Len(w) = n + 1
                 /\ \A i \in 1 .. n + 1 : w[i] = IF i = n + 1 THEN x ELSE s[i]
      BY <3>1, <2>2, <2>5
    <3>2. v \in Seq(A \cup {Said(e, r)}) /\ Len(v) = n + 1
          /\ \A i \in 1 .. n + 1 : v[i] = IF i = n + 1 THEN Said(e, r) ELSE s[i]
      BY <3>1, <2>6
    <3>3. DOMAIN v = 1 .. n + 1
      BY <3>2, <2>2
    <3> HIDE DEF v
    <3>4. v = [i \in 1 .. n + 1 |-> v[i]]
      BY <3>2, <3>3
    <3>5. QED
      BY <3>2, <3>3, <3>4
  <2>8. \A i \in 1 .. n : s[i] = Said(e, t[i])
    BY <2>1, <2>2
  <2> HIDE DEF u, n, v
  <2>9. \A i \in 1 .. n + 1 : v[i] = Said(e, u[i])
    <3>1. \A i \in 1 .. n + 1 : i = n + 1 \/ i \in 1 .. n
      BY <2>2
    <3>2. QED
      BY <3>1, <2>3, <2>7, <2>8
  <2>10. v = [i \in DOMAIN u |-> Said(e, u[i])]
    BY <2>3, <2>7, <2>9
  <2>11. u \in [DOMAIN v -> R \cup {r}]
    BY <2>3, <2>7
  <2>12. QED
    BY <2>2, <2>10, <2>11 DEF FoundRestrictions, v
<1>3. QED
  BY <1>1, <1>2

\* None at first, and all when every one has been passed.
LEMMA NoneAndAll ==
  ASSUME NEW E, NEW I
  PROVE  WithIds(E, {}) = {} /\ ((\A x \in E : x.id \in I) => WithIds(E, I) = E)
BY DEF WithIds

\* The iterator before the first row.
LEMMA AtFirst ==
  ASSUME NEW R, NEW s, Lists(s, R)
  PROVE  Between(s, 1) /\ Seen(s, 1) = {}
<1>1. Len(s) \in Nat
  BY DEF Lists
<1>2. 1 \in 1 .. Len(s) + 1 /\ 1 .. 1 - 1 = {}
  BY <1>1
<1>3. QED
  BY <1>2 DEF Between, Seen

\* At first the database is empty or holds the extract.
LEMMA RoadInitInv == RoadInit => RoadInv
<1> SUFFICES ASSUME RoadInit, Regular(extract) PROVE Importing(extract)
  BY DEF RoadInit, RoadInv, Recovering
<1>1. extract \in Extracts
  BY DEF RoadInit
<1>2. Imported(extract) = WithRelations(extract)
  BY <1>1, FileImported
<1>3. QED
  BY <1>2 DEF RoadInit, Importing

\* The query of the nodes starts with none seen.
LEMMA NodesQueried ==
  ASSUME NEW e \in Extracts, Query(WithRelations(e), "junctions"), tables' = WithRelations(e),
         found' = NothingFound, side' = NoSide
  PROVE  Recovering(e)'
<1>1. PICK K \in Results(WithRelations(e), "junctions") : rows_of' = Ordered(K)
  BY DEF Query
<1>2. \E down \in BOOLEAN : K = NodeRows(WithRelations(e), down)
  BY <1>1 DEF Results
<1>3. PICK down : down \in BOOLEAN /\ rows_of' = Ordered(NodeRows(WithRelations(e), down))
  BY <1>1, <1>2
<1>4. Lists(rows_of', RowsOf(NodeRows(WithRelations(e), down)))
  BY <1>3, NodeRowsOrdered
<1>5. Between(rows_of', 1) /\ Seen(rows_of', 1) = {}
  BY <1>4, AtFirst
<1>6. WithIds(JunctionsOf(e), {}) = {}
  BY NoneAndAll
<1>7. phase' = "junctions" /\ qit' = 1
  BY DEF Query
<1>8. Lists(found.nodes', WithIds(JunctionsOf(e), Seen(rows_of', qit')))
  BY <1>5, <1>6, <1>7, ListGrown DEF NothingFound
<1>9. ReadingNodes(e)'
  BY <1>3, <1>5, <1>7, <1>8 DEF ReadingNodes, NothingFound
<1>10. QED
  BY <1>9 DEF Recovering

\* An empty database is filled, one that holds the extract is queried.
LEMMA OpenKept ==
  ASSUME NEW e \in Extracts, Regular(e), Recovering(e), OpenDatabase
  PROVE  Recovering(e)'
<1>1. /\ phase = "open" /\ found = NothingFound /\ side = NoSide
      /\ file = FileOf(e) /\ cached = NoElements /\ tables \in {EmptyTables, WithRelations(e)}
  <2>1. phase = "open"
    BY DEF OpenDatabase
  <2>2. QED
    BY <2>1 DEF Recovering, Importing, ReadingNodes, ReadingWays, ReadingRestrictions, AllRead
<1>2. UNCHANGED <<file, cached, tables, found, side>>
  BY DEF OpenDatabase
<1>3. CASE tables.node = {}
  <2>1. phase' = "parse"
    BY <1>3 DEF OpenDatabase
  <2>2. file = SubSeq(FileOf(e), 0 + 1, 5)
    <3>1. FileOf(e) = [n \in 1 .. 5 |-> FileOf(e)[n]] /\ Len(FileOf(e)) = 5
      BY FileParts
    <3>2. QED
      BY <1>1, <3>1
  <2>3. cached = Read(e, 0)
    BY <1>1 DEF NoElements, Read
  <2>4. \E n \in 0 .. 5 : file' = SubSeq(FileOf(e), n + 1, 5) /\ cached' = Read(e, n)
    BY <2>2, <2>3, <1>2
  <2>5. Importing(e)'
    BY <1>1, <1>2, <2>1, <2>4 DEF Importing
  <2>6. QED
    BY <2>5 DEF Recovering
<1>4. CASE tables.node # {}
  <2>1. tables = WithRelations(e)
    BY <1>1, <1>4 DEF EmptyTables
  <2>2. Query(WithRelations(e), "junctions")
    BY <2>1, <1>4 DEF OpenDatabase
  <2>3. QED
    BY <1>1, <1>2, <2>1, <2>2, NodesQueried
<1>5. QED
  BY <1>3, <1>4

\* One blob after the other.
LEMMA ParseKept ==
  ASSUME NEW e \in Extracts, Regular(e), Recovering(e), ParseBlob
  PROVE  Recovering(e)'
<1>1. /\ phase = "parse" /\ found = NothingFound /\ side = NoSide
      /\ \E n \in 0 .. 5 : file = SubSeq(FileOf(e), n + 1, 5) /\ cached = Read(e, n)
      /\ tables \in {EmptyTables, WithRelations(e)}
  <2>1. phase = "parse"
    BY DEF ParseBlob
  <2>2. QED
    BY <2>1 DEF Recovering, Importing, ReadingNodes, ReadingWays, ReadingRestrictions, AllRead
<1>2. /\ UNCHANGED <<tables, phase, found, side>> /\ file # <<>>
      /\ file' = Tail(file) /\ cached' = CacheElements(cached, Head(file))
  BY DEF ParseBlob
<1>3. PICK n \in 0 .. 5 : file = SubSeq(FileOf(e), n + 1, 5) /\ cached = Read(e, n)
  BY <1>1
<1>4. n < 5 /\ Head(file) = FileOf(e)[n + 1] /\ Tail(file) = SubSeq(FileOf(e), n + 2, 5)
  <2>1. /\ SubSeq(FileOf(e), n + 1, 5) = <<>> <=> n = 5
        /\ n < 5 => /\ Head(SubSeq(FileOf(e), n + 1, 5)) = FileOf(e)[n + 1]
                    /\ Tail(SubSeq(FileOf(e), n + 1, 5)) = SubSeq(FileOf(e), n + 2, 5)
    BY FileLeft
  <2>2. n < 5
    BY <2>1, <1>2, <1>3
  <2>3. QED
    BY <2>1, <2>2, <1>3
<1>5. n \in 0 .. 4 /\ n + 1 \in 0 .. 5 /\ (n + 1) + 1 = n + 2
  BY <1>4
<1>6. cached' = Read(e, n + 1)
  BY <1>2, <1>3, <1>4, <1>5, BlobsRead
<1>7. \E k \in 0 .. 5 : file' = SubSeq(FileOf(e), k + 1, 5) /\ cached' = Read(e, k)
  BY <1>2, <1>4, <1>5, <1>6
<1>8. Importing(e)'
  BY <1>1, <1>2, <1>7 DEF Importing
<1>9. QED
  BY <1>8 DEF Recovering

\* The three insertions, of which none adds to what is there.
LEMMA InsertKept ==
  ASSUME NEW e \in Extracts, Regular(e), Recovering(e), InsertNodes \/ InsertWays \/ InsertRelations
  PROVE  Recovering(e)'
<1>1. /\ phase \in {"parse", "ways", "relations"} /\ found = NothingFound /\ side = NoSide
      /\ phase = "parse" =>
           /\ \E n \in 0 .. 5 : file = SubSeq(FileOf(e), n + 1, 5) /\ cached = Read(e, n)
           /\ tables \in {EmptyTables, WithRelations(e)}
      /\ phase \in {"ways", "relations"} => cached = Read(e, 5)
      /\ phase = "ways" => tables \in {WithNodes(e), WithRelations(e)}
      /\ phase = "relations" => tables \in {WithWays(e), WithRelations(e)}
  <2>1. phase \in {"parse", "ways", "relations"}
    BY DEF InsertNodes, InsertWays, InsertRelations
  <2>2. QED
    BY <2>1 DEF Recovering, Importing, ReadingNodes, ReadingWays, ReadingRestrictions, AllRead
<1>2. UNCHANGED <<found, side>>
  BY DEF InsertNodes, InsertWays, InsertRelations
<1>3. Read(e, 5).nodes = e.nodes /\ Read(e, 5).ways = e.ways /\ Read(e, 5).relations = e.relations
  BY DEF Read
<1>4. CASE InsertNodes
  <2>1. /\ phase = "parse" /\ file = <<>> /\ phase' = "ways" /\ cached' = cached
        /\ tables' = insert_cached_nodes(tables, cached.nodes)
    BY <1>4 DEF InsertNodes
  <2>2. PICK n \in 0 .. 5 : file = SubSeq(FileOf(e), n + 1, 5) /\ cached = Read(e, n)
    BY <1>1, <2>1
  <2>3. SubSeq(FileOf(e), n + 1, 5) = <<>> <=> n = 5
    BY FileLeft
  <2>4. cached = Read(e, 5)
    BY <2>1, <2>2, <2>3
  <2>5. tables' \in {WithNodes(e), WithRelations(e)}
    <3>1. tables' = insert_cached_nodes(tables, e.nodes) /\ tables \in {EmptyTables, WithRelations(e)}
      BY <1>1, <1>3, <2>1, <2>4
    <3>2. CASE tables = EmptyTables
      BY <3>1, <3>2 DEF WithNodes
    <3>3. CASE tables = WithRelations(e)
      BY <3>1, <3>3, InsertedAgain
    <3>4. QED
      BY <3>1, <3>2, <3>3
  <2>6. Importing(e)'
    BY <1>1, <1>2, <2>1, <2>4, <2>5 DEF Importing
  <2>7. QED
    BY <2>6 DEF Recovering
<1>5. CASE InsertWays
  <2>1. /\ phase = "ways" /\ phase' = "relations" /\ cached' = cached
        /\ tables' = insert_cached_ways(tables, cached.ways)
    BY <1>5 DEF InsertWays
  <2>2. tables' \in {WithWays(e), WithRelations(e)}
    <3>1. tables' = insert_cached_ways(tables, e.ways) /\ tables \in {WithNodes(e), WithRelations(e)}
      BY <1>1, <1>3, <2>1
    <3>2. CASE tables = WithNodes(e)
      BY <3>1, <3>2 DEF WithWays
    <3>3. CASE tables = WithRelations(e)
      BY <3>1, <3>3, InsertedAgain
    <3>4. QED
      BY <3>1, <3>2, <3>3
  <2>3. Importing(e)'
    BY <1>1, <1>2, <2>1, <2>2 DEF Importing
  <2>4. QED
    BY <2>3 DEF Recovering
<1>6. CASE InsertRelations
  <2>1. /\ phase = "relations" /\ Query(tables', "junctions")
        /\ tables' = insert_cached_relations(tables, cached.relations)
    BY <1>6 DEF InsertRelations
  <2>2. tables' = WithRelations(e)
    <3>1. tables' = insert_cached_relations(tables, e.relations) /\ tables \in {WithWays(e), WithRelations(e)}
      BY <1>1, <1>3, <2>1
    <3>2. CASE tables = WithWays(e)
      BY <3>1, <3>2 DEF WithRelations
    <3>3. CASE tables = WithRelations(e)
      BY <3>1, <3>3, InsertedAgain
    <3>4. QED
      BY <3>1, <3>2, <3>3
  <2>3. Query(WithRelations(e), "junctions")
    BY <2>1, <2>2
  <2>4. QED
    BY <1>1, <1>2, <2>2, <2>3, NodesQueried
<1>7. QED
  BY <1>4, <1>5, <1>6

\* What has been found; the next element goes to its end.
IsFound(f, nds, wys, trs) == f = [nodes |-> nds, ways |-> wys, restrictions |-> trs]

\* An element appended changes its own list only.
LEMMA FoundPut ==
  ASSUME NEW f, NEW nds, NEW wys, NEW trs, IsFound(f, nds, wys, trs), NEW x
  PROVE  /\ IsFound([f EXCEPT !.nodes = Append(@, x)], Append(nds, x), wys, trs)
         /\ IsFound([f EXCEPT !.ways = Append(@, x)], nds, Append(wys, x), trs)
         /\ IsFound([f EXCEPT !.restrictions = Append(@, x)], nds, wys, Append(trs, x))
<1>1. f = [nodes |-> nds, ways |-> wys, restrictions |-> trs]
  BY DEF IsFound
<1>2. f.nodes = nds /\ f.ways = wys /\ f.restrictions = trs
  BY <1>1
<1> DEFINE a == Append(f.nodes, x)  b == Append(f.ways, x)  c == Append(f.restrictions, x)
<1>3. a = Append(nds, x) /\ b = Append(wys, x) /\ c = Append(trs, x)
  BY <1>2
<1> HIDE DEF a, b, c
<1>4. /\ IsFound([f EXCEPT !.nodes = a], a, wys, trs)
      /\ IsFound([f EXCEPT !.ways = b], nds, b, trs)
      /\ IsFound([f EXCEPT !.restrictions = c], nds, wys, c)
  BY <1>1 DEF IsFound
<1>5. QED
  BY <1>3, <1>4, Zenon DEF a, b, c

\* The parts of what has been found.
LEMMA FoundParts ==
  ASSUME NEW f, NEW nds, NEW wys, NEW trs, IsFound(f, nds, wys, trs)
  PROVE  f.nodes = nds /\ f.ways = wys /\ f.restrictions = trs
BY DEF IsFound

\* The junctions, one for each node of a road.
LEMMA JunctionKnown ==
  ASSUME NEW e \in Extracts
  PROVE  /\ \A n \in RoadNodes(e) :
              /\ JunctionOf(n) \in JunctionsOf(e) /\ JunctionOf(n).id = n.id /\ n.id > 0 /\ n.id \in Nat
              /\ \A j \in JunctionsOf(e) : j.id = n.id => j = JunctionOf(n)
         /\ \A j \in JunctionsOf(e) : \E n \in RoadNodes(e) : j = JunctionOf(n)
<1>1. \A j : j \in JunctionsOf(e) <=> \E n \in RoadNodes(e) : j = JunctionOf(n)
  BY DEF JunctionsOf, RoadNodes, JunctionOf
<1>2. \A n : JunctionOf(n).id = n.id
  BY DEF JunctionOf
<1>3. ASSUME NEW n \in RoadNodes(e)
      PROVE  n.id > 0 /\ n.id \in Nat /\ \A m \in RoadNodes(e) : m.id = n.id => m = n
  <2>1. n \in Range(e.nodes) /\ \A m \in RoadNodes(e) : m \in Range(e.nodes)
    BY DEF RoadNodes
  <2>2. n \in ExtractNode /\ n.id > 0 /\ \A m \in Range(e.nodes) : m.id = n.id => m = n
    BY <2>1, Elements
  <2>3. n.id \in Nat
    BY <2>2, ExtractAssumption DEF ExtractNode
  <2>4. QED
    BY <2>1, <2>2, <2>3
<1>4. QED
  BY <1>1, <1>2, <1>3

\* The query of the ways starts with none seen.
LEMMA WaysQueried ==
  ASSUME NEW e \in Extracts, Query(WithRelations(e), "segments"), tables' = WithRelations(e),
         found' = [nodes |-> found.nodes, ways |-> <<>>, restrictions |-> <<>>],
         Lists(found.nodes, JunctionsOf(e)), side' = NoSide
  PROVE  Recovering(e)'
<1>1. rows_of' = Ordered(WayRows(WithRelations(e))) /\ phase' = "segments" /\ qit' = 1
  BY DEF Query, Results
<1>2. Lists(rows_of', RowsOf(WayRows(WithRelations(e))))
  BY <1>1, WayRowsOrdered
<1>3. Between(rows_of', 1) /\ Seen(rows_of', 1) = {}
  BY <1>2, AtFirst
<1>4. WithIds(RoadsOf(e), {}) = {}
  BY NoneAndAll
<1>5. /\ found' = [nodes |-> found.nodes', ways |-> found.ways', restrictions |-> <<>>]
      /\ found.nodes' = found.nodes /\ found.ways' = <<>>
  OBVIOUS
<1>6. Lists(found.ways', WithIds(RoadsOf(e), Seen(rows_of', qit')))
  BY <1>1, <1>3, <1>4, <1>5, ListGrown
<1>7. ReadingWays(e)'
  BY <1>1, <1>3, <1>5, <1>6 DEF ReadingWays
<1>8. QED
  BY <1>7 DEF Recovering

\* A node is retrieved with its own tags, and with it all its rows are passed;
\* past the last row all have been.
LEMMA NodesKept ==
  ASSUME NEW e \in Extracts, Regular(e), Recovering(e), FetchNode \/ EndOfNodes
  PROVE  Recovering(e)'
<1>1. ReadingNodes(e) /\ phase = "junctions"
  <2>1. phase = "junctions"
    BY DEF FetchNode, EndOfNodes
  <2>2. QED
    BY <2>1 DEF Recovering, Importing, ReadingWays, ReadingRestrictions, AllRead
<1>2. UNCHANGED <<tables, side>>
  BY DEF FetchNode, EndOfNodes
<1>3. PICK down : down \in BOOLEAN /\ rows_of = Ordered(NodeRows(WithRelations(e), down))
  BY <1>1 DEF ReadingNodes
<1>4. Between(rows_of, qit) /\ Lists(found.nodes, WithIds(JunctionsOf(e), Seen(rows_of, qit)))
  BY <1>1 DEF ReadingNodes
<1>5. CASE FetchNode
  <2>1. /\ ~ AtEnd(rows_of, qit) /\ rows_of' = rows_of /\ qit' = NodeAt(rows_of, qit).q
        /\ IF NodeAt(rows_of, qit).element = Thrown THEN phase' = "failed" /\ UNCHANGED found
           ELSE found' = [found EXCEPT !.nodes = Append(@, NodeAt(rows_of, qit).element)] /\ UNCHANGED phase
    BY <1>5 DEF FetchNode
  <2>2. PICK n \in RoadNodes(e) :
          /\ NodeAt(rows_of, qit).element = JunctionOf(n)
          /\ Between(rows_of, NodeAt(rows_of, qit).q)
          /\ n.id \notin Seen(rows_of, qit)
          /\ Seen(rows_of, NodeAt(rows_of, qit).q) = Seen(rows_of, qit) \cup {n.id}
    BY <1>3, <1>4, <2>1, NodeFetched
  <2> DEFINE j == JunctionOf(n)
  <2>3. j \in JunctionsOf(e) /\ j.id = n.id /\ n.id \in Nat /\ \A i \in JunctionsOf(e) : i.id = j.id => i = j
    BY JunctionKnown
  <2>4. j # Thrown
    BY <2>3 DEF Thrown, Null
  <2>5. found' = [found EXCEPT !.nodes = Append(@, j)] /\ phase' = phase
    BY <2>1, <2>2, <2>4
  <2> HIDE DEF j
  <2>6. /\ found' = [nodes |-> Append(found.nodes, j), ways |-> <<>>, restrictions |-> <<>>]
        /\ found.nodes' = Append(found.nodes, j)
    <3>1. IsFound(found, found.nodes, <<>>, <<>>)
      BY <1>1 DEF ReadingNodes, IsFound
    <3>2. IsFound(found', Append(found.nodes, j), <<>>, <<>>)
      BY <2>5, <3>1, FoundPut, Zenon
    <3>3. found.nodes' = Append(found.nodes, j)
      BY <3>2, FoundParts, Zenon
    <3>4. QED
      BY <3>2, <3>3, Zenon DEF IsFound
  <2>7. /\ j \notin WithIds(JunctionsOf(e), Seen(rows_of, qit))
        /\ WithIds(JunctionsOf(e), Seen(rows_of, qit) \cup {j.id})
             = WithIds(JunctionsOf(e), Seen(rows_of, qit)) \cup {j}
    <3>1. j.id \notin Seen(rows_of, qit)
      BY <2>2, <2>3
    <3>2. QED
      BY <2>3, <3>1 DEF WithIds
  <2>8. Lists(found.nodes', WithIds(JunctionsOf(e), Seen(rows_of', qit')))
    <3>1. Seen(rows_of', qit') = Seen(rows_of, qit) \cup {j.id}
      BY <2>1, <2>2, <2>3
    <3>2. Lists(Append(found.nodes, j), WithIds(JunctionsOf(e), Seen(rows_of, qit)) \cup {j})
      BY <1>4, <2>7, ListGrown, Zenon
    <3>3. QED
      BY <3>1, <3>2, <2>6, <2>7
  <2>9. ReadingNodes(e)'
    <3>1. found' = [nodes |-> found.nodes', ways |-> <<>>, restrictions |-> <<>>]
      BY <2>6
    <3>2. Between(rows_of', qit')
      BY <2>1, <2>2
    <3>3. phase' = "junctions" /\ tables' = WithRelations(e) /\ side' = NoSide
      BY <1>1, <1>2, <2>5 DEF ReadingNodes
    <3>4. QED
      BY <3>1, <3>2, <3>3, <1>3, <2>1, <2>8 DEF ReadingNodes
  <2>10. QED
    BY <2>9 DEF Recovering
<1>6. CASE EndOfNodes
  <2>1. AtEnd(rows_of, qit) /\ Query(tables, "segments") /\ found' = found
    BY <1>6 DEF EndOfNodes
  <2>2. \A n \in RoadNodes(e) : n.id \in Seen(rows_of, qit)
    BY <1>3, <1>4, <2>1, NodesSeen
  <2>3. \A j \in JunctionsOf(e) : j.id \in Seen(rows_of, qit)
    BY <2>2, JunctionKnown
  <2>4. Lists(found.nodes, JunctionsOf(e))
    BY <1>4, <2>3, NoneAndAll
  <2>5. /\ found' = [nodes |-> found.nodes, ways |-> <<>>, restrictions |-> <<>>]
        /\ tables = WithRelations(e) /\ side' = NoSide /\ tables' = WithRelations(e)
    BY <1>1, <1>2, <2>1 DEF ReadingNodes
  <2>6. QED
    BY <2>1, <2>4, <2>5, WaysQueried
<1>7. QED
  BY <1>5, <1>6

\* The query of the restrictions starts with none seen.
LEMMA RestrictionsQueried ==
  ASSUME NEW e \in Extracts, Regular(e), model' = Compact,
         Query(WithRelations(e), "turns"), tables' = WithRelations(e),
         found' = [nodes |-> found.nodes, ways |-> found.ways, restrictions |-> <<>>],
         Lists(found.nodes, JunctionsOf(e)), Lists(found.ways, RoadsOf(e)), side' = NoSide
  PROVE  Recovering(e)'
<1>1. rows_of' = Ordered(RestrictionRows(WithRelations(e))) /\ phase' = "turns" /\ qit' = 1
  BY DEF Query, Results
<1>2. Lists(rows_of', RowsOf(RestrictionRows(WithRelations(e))))
  BY <1>1, RestrictionRowsOrdered
<1>3. Between(rows_of', 1) /\ Seen(rows_of', 1) = {}
  BY <1>2, AtFirst
<1>4. WithIds(Complete(e), {}) = {}
  BY NoneAndAll
<1>5. /\ found' = [nodes |-> found.nodes', ways |-> found.ways', restrictions |-> found.restrictions']
      /\ found.nodes' = found.nodes /\ found.ways' = found.ways /\ found.restrictions' = <<>>
  OBVIOUS
<1>6. FoundRestrictions(e, found.restrictions', WithIds(Complete(e), Seen(rows_of', qit')))
  BY <1>1, <1>3, <1>4, <1>5, FoundGrown
<1>7. BetweenRestrictions(e)'
  BY <1>1, <1>3, <1>6 DEF BetweenRestrictions
<1>8. ReadingRestrictions(e)'
  BY <1>1, <1>5, <1>7 DEF ReadingRestrictions
<1>9. QED
  BY <1>8 DEF Recovering

\* A way is retrieved with its own tags and references; past the last row all
\* have been.
LEMMA WaysKept ==
  ASSUME NEW e \in Extracts, Regular(e), Recovering(e), FetchWay \/ EndOfWays, UNCHANGED model
  PROVE  Recovering(e)'
<1>1. ReadingWays(e) /\ phase = "segments"
  <2>1. phase = "segments"
    BY DEF FetchWay, EndOfWays
  <2>2. QED
    BY <2>1 DEF Recovering, Importing, ReadingNodes, ReadingRestrictions, AllRead
<1>2. UNCHANGED <<tables, side>>
  BY DEF FetchWay, EndOfWays
<1>3. rows_of = Ordered(WayRows(WithRelations(e)))
  BY <1>1 DEF ReadingWays
<1>4. /\ Between(rows_of, qit) /\ Lists(found.nodes, JunctionsOf(e))
      /\ Lists(found.ways, WithIds(RoadsOf(e), Seen(rows_of, qit)))
      /\ found = [nodes |-> found.nodes, ways |-> found.ways, restrictions |-> <<>>]
  BY <1>1 DEF ReadingWays
<1>5. CASE FetchWay
  <2>1. /\ ~ AtEnd(rows_of, qit) /\ rows_of' = rows_of /\ qit' = WayAt(rows_of, qit).q
        /\ IF WayAt(rows_of, qit).element = Thrown THEN phase' = "failed" /\ UNCHANGED found
           ELSE found' = [found EXCEPT !.ways = Append(@, WayAt(rows_of, qit).element)] /\ UNCHANGED phase
    BY <1>5 DEF FetchWay
  <2>2. \A w \in RoadsOf(e) : w.refs # <<>>
    BY DEF Regular
  <2>3. PICK w \in RoadsOf(e) :
          /\ WayAt(rows_of, qit).element = w
          /\ Between(rows_of, WayAt(rows_of, qit).q)
          /\ w.id \notin Seen(rows_of, qit)
          /\ Seen(rows_of, WayAt(rows_of, qit).q) = Seen(rows_of, qit) \cup {w.id}
    BY <1>3, <1>4, <2>1, <2>2, WayFetched
  <2>4. w.id \in Nat /\ \A v \in RoadsOf(e) : v.id = w.id => v = w
    BY RoadKnown
  <2>5. w # Thrown
    BY <2>4 DEF Thrown, Null
  <2>6. found' = [found EXCEPT !.ways = Append(@, w)] /\ phase' = phase
    BY <2>1, <2>3, <2>5
  <2>7. /\ found' = [nodes |-> found.nodes, ways |-> Append(found.ways, w), restrictions |-> <<>>]
        /\ found.ways' = Append(found.ways, w) /\ found.nodes' = found.nodes
    <3>1. IsFound(found, found.nodes, found.ways, <<>>)
      BY <1>4, Zenon DEF IsFound
    <3>2. IsFound(found', found.nodes, Append(found.ways, w), <<>>)
      BY <2>6, <3>1, FoundPut, Zenon
    <3>3. found.ways' = Append(found.ways, w) /\ found.nodes' = found.nodes
      BY <3>2, FoundParts, Zenon
    <3>4. QED
      BY <3>2, <3>3, Zenon DEF IsFound
  <2>8. /\ w \notin WithIds(RoadsOf(e), Seen(rows_of, qit))
        /\ WithIds(RoadsOf(e), Seen(rows_of, qit) \cup {w.id})
             = WithIds(RoadsOf(e), Seen(rows_of, qit)) \cup {w}
    BY <2>3, <2>4 DEF WithIds
  <2>9. Lists(found.ways', WithIds(RoadsOf(e), Seen(rows_of', qit')))
    <3>1. Seen(rows_of', qit') = Seen(rows_of, qit) \cup {w.id}
      BY <2>1, <2>3
    <3>2. Lists(Append(found.ways, w), WithIds(RoadsOf(e), Seen(rows_of, qit)) \cup {w})
      BY <1>4, <2>8, ListGrown, Zenon
    <3>3. QED
      BY <3>1, <3>2, <2>7, <2>8
  <2>10. ReadingWays(e)'
    <3>1. found' = [nodes |-> found.nodes', ways |-> found.ways', restrictions |-> <<>>]
      BY <2>7
    <3>2. Between(rows_of', qit')
      BY <2>1, <2>3
    <3>3. phase' = "segments" /\ tables' = WithRelations(e) /\ side' = NoSide
      BY <1>1, <1>2, <2>6 DEF ReadingWays
    <3>4. QED
      BY <3>1, <3>2, <3>3, <1>3, <1>4, <2>1, <2>7, <2>9 DEF ReadingWays
  <2>11. QED
    BY <2>10 DEF Recovering
<1>6. CASE EndOfWays
  <2>1. /\ AtEnd(rows_of, qit) /\ found' = found
        /\ IF model = Compact THEN Query(tables, "turns") ELSE phase' = "retrieved"
    BY <1>6 DEF EndOfWays
  <2>2. \A w \in RoadsOf(e) : w.id \in Seen(rows_of, qit)
    BY <1>3, <1>4, <2>1, WaysSeen
  <2>3. Lists(found.ways, RoadsOf(e))
    BY <1>4, <2>2, NoneAndAll
  <2>4. tables = WithRelations(e) /\ side' = NoSide /\ tables' = WithRelations(e)
    BY <1>1, <1>2 DEF ReadingWays
  <2>5. CASE model = Compact
    <3>1. Query(WithRelations(e), "turns") /\ model' = Compact
      BY <2>1, <2>4, <2>5
    <3>2. QED
      BY <1>4, <2>1, <2>3, <2>4, <3>1, RestrictionsQueried
  <2>6. CASE model # Compact
    <3>1. /\ phase' = "retrieved" /\ model' # Compact
          /\ found' = [nodes |-> found.nodes', ways |-> found.ways', restrictions |-> found.restrictions']
          /\ found.nodes' = found.nodes /\ found.ways' = found.ways /\ found.restrictions' = <<>>
      BY <1>4, <2>1, <2>6
    <3>2. AllRead(e)'
      BY <1>4, <2>3, <3>1 DEF AllRead
    <3>3. QED
      BY <3>2 DEF Recovering
  <2>7. QED
    BY <2>5, <2>6
<1>7. QED
  BY <1>5, <1>6

\* A restriction that is read.
IsSide(x, id, via, only, role, from, to) ==
  x = [id |-> id, via |-> via, only |-> only, role |-> role, from |-> from, to |-> to]

\* The parts of a restriction that is read.
LEMMA SideParts ==
  ASSUME NEW x, NEW id, NEW via, NEW only, NEW role, NEW from, NEW to,
         IsSide(x, id, via, only, role, from, to)
  PROVE  x.id = id /\ x.via = via /\ x.only = only /\ x.role = role /\ x.from = from /\ x.to = to
BY DEF IsSide

\* References read change one side of it, the next role nothing else.
LEMMA SidePut ==
  ASSUME NEW x, NEW id, NEW via, NEW only, NEW role, NEW from, NEW to,
         IsSide(x, id, via, only, role, from, to), NEW refs, NEW next
  PROVE  /\ IsSide([x EXCEPT !.from = @ \cup {refs}], id, via, only, role, from \cup {refs}, to)
         /\ IsSide([x EXCEPT !.to = @ \cup {refs}], id, via, only, role, from, to \cup {refs})
         /\ IsSide([x EXCEPT !.role = next], id, via, only, next, from, to)
<1>1. x = [id |-> id, via |-> via, only |-> only, role |-> role, from |-> from, to |-> to]
  BY DEF IsSide
<1>2. x.from = from /\ x.to = to
  BY <1>1
<1> DEFINE f == x.from \cup {refs}  t == x.to \cup {refs}
<1>3. f = from \cup {refs} /\ t = to \cup {refs}
  BY <1>2
<1> HIDE DEF f, t
<1>4. /\ IsSide([x EXCEPT !.from = f], id, via, only, role, f, to)
      /\ IsSide([x EXCEPT !.to = t], id, via, only, role, from, t)
      /\ IsSide([x EXCEPT !.role = next], id, via, only, next, from, to)
  BY <1>1 DEF IsSide
<1>5. QED
  BY <1>3, <1>4, Zenon DEF f, t

\* Between two restrictions, and within one.
LEMMA RestrictionPhases ==
  ASSUME NEW e \in Extracts, Regular(e), Recovering(e), phase = "turns"
  PROVE  /\ ReadingRestrictions(e)
         /\ side = NoSide => BetweenRestrictions(e)
         /\ side # NoSide => WithinRestriction(e)
<1>1. ReadingRestrictions(e)
  BY DEF Recovering, Importing, ReadingNodes, ReadingWays, AllRead
<1>2. WithinRestriction(e) => side # NoSide
  <2> SUFFICES ASSUME WithinRestriction(e), side = NoSide PROVE FALSE
    OBVIOUS
  <2>1. PICK r \in Range(e.relations) : side = SideRead(e, rows_of, r, qit)
    BY DEF WithinRestriction
  <2>2. side.id = r.id
    BY <2>1, SideParts DEF SideRead, IsSide
  <2>3. r.id \in Nat
    BY RelationKnown
  <2>4. QED
    BY <2>2, <2>3 DEF NoSide, Null
<1>3. BetweenRestrictions(e) => side = NoSide
  BY DEF BetweenRestrictions
<1>4. QED
  BY <1>1, <1>2, <1>3 DEF ReadingRestrictions

\* The rows of a new restriction begin.
LEMMA RestrictionBegun ==
  ASSUME NEW e \in Extracts, Regular(e), Recovering(e), OpenRestriction, UNCHANGED model
  PROVE  Recovering(e)'
<1> DEFINE R == rows_of[qit]
<1>1. /\ phase = "turns" /\ ~ AtEnd(rows_of, qit) /\ side = NoSide
      /\ side' = [id |-> R.id, via |-> R.via, only |-> R.restriction = "restriction=only",
                  role |-> R.role, from |-> {}, to |-> {}]
      /\ UNCHANGED <<tables, phase, rows_of, qit, found>>
  BY DEF OpenRestriction
<1>2. /\ model = Compact /\ tables = WithRelations(e) /\ rows_of = Ordered(RestrictionRows(WithRelations(e)))
      /\ found = [nodes |-> found.nodes, ways |-> found.ways, restrictions |-> found.restrictions]
      /\ Lists(found.nodes, JunctionsOf(e)) /\ Lists(found.ways, RoadsOf(e))
      /\ Between(rows_of, qit)
      /\ FoundRestrictions(e, found.restrictions, WithIds(Complete(e), Seen(rows_of, qit)))
  BY <1>1, RestrictionPhases DEF ReadingRestrictions, BetweenRestrictions
<1>3. /\ BetweenSides(rows_of, qit) /\ R.id \notin Seen(rows_of, qit)
      /\ \E r \in Range(e.relations) :
           /\ r.id = R.id
           /\ SideRead(e, rows_of, r, qit) =
                [id |-> R.id, via |-> R.via, only |-> R.restriction = "restriction=only",
                 role |-> R.role, from |-> {}, to |-> {}]
  BY <1>1, <1>2, RestrictionOpened
<1>4. Seen(rows_of, qit) \ {R.id} = Seen(rows_of, qit)
  BY <1>3
<1>5. \E r \in Range(e.relations) : r.id = R.id /\ side' = SideRead(e, rows_of, r, qit)
  BY <1>1, <1>3
<1> HIDE DEF R
<1>6. /\ ~ AtEnd(rows_of, qit) /\ BetweenSides(rows_of, qit)
      /\ FoundRestrictions(e, found.restrictions, WithIds(Complete(e), Seen(rows_of, qit) \ {rows_of[qit].id}))
      /\ \E r \in Range(e.relations) : r.id = rows_of[qit].id /\ side' = SideRead(e, rows_of, r, qit)
  BY <1>1, <1>2, <1>3, <1>4, <1>5 DEF R
<1>7. WithinRestriction(e)'
  <2>1. rows_of' = rows_of /\ qit' = qit /\ found' = found
    BY <1>1
  <2>2. QED
    BY <1>6, <2>1 DEF WithinRestriction
<1>8. ReadingRestrictions(e)'
  BY <1>1, <1>2, <1>7 DEF ReadingRestrictions
<1>9. QED
  BY <1>8 DEF Recovering

\* A restriction of which both sides have been found is added, any other is not.
LEMMA RestrictionAdded ==
  ASSUME NEW e \in Extracts, Regular(e), NEW r \in Speaking(e), NEW I, r.id \notin I,
         NEW s, FoundRestrictions(e, s, WithIds(Complete(e), I)), NEW t,
         t = IF SideOf(e, r, "from") # {} /\ SideOf(e, r, "to") # {} THEN Append(s, Said(e, r)) ELSE s
  PROVE  FoundRestrictions(e, t, WithIds(Complete(e), I \cup {r.id}))
<1>1. r \in Range(e.relations) /\ \A x \in Complete(e) : x \in Range(e.relations)
  BY DEF Speaking, Complete
<1>2. \A x \in Complete(e) : x.id = r.id => x = r
  BY <1>1, RelationKnown
<1>3. r \in Complete(e) <=> SideOf(e, r, "from") # {} /\ SideOf(e, r, "to") # {}
  BY CompleteSpeaks
<1>4. CASE r \in Complete(e)
  <2>1. /\ r \notin WithIds(Complete(e), I)
        /\ WithIds(Complete(e), I \cup {r.id}) = WithIds(Complete(e), I) \cup {r}
    BY <1>2, <1>4 DEF WithIds
  <2>2. FoundRestrictions(e, Append(s, Said(e, r)), WithIds(Complete(e), I) \cup {r})
    BY <2>1, FoundGrown, Zenon
  <2>3. t = Append(s, Said(e, r))
    BY <1>3, <1>4
  <2>4. QED
    BY <2>1, <2>2, <2>3
<1>5. CASE r \notin Complete(e)
  <2>1. WithIds(Complete(e), I \cup {r.id}) = WithIds(Complete(e), I)
    BY <1>2, <1>5 DEF WithIds
  <2>2. t = s
    BY <1>3, <1>5
  <2>3. QED
    BY <2>1, <2>2
<1>6. QED
  BY <1>4, <1>5

\* One way of a side is read; with the last row of a restriction all of its ways
\* have been.
LEMMA RestrictionRead ==
  ASSUME NEW e \in Extracts, Regular(e), Recovering(e), ReadSide, UNCHANGED model
  PROVE  Recovering(e)'
<1> DEFINE o == SideAt(rows_of, qit).q
           refs == SideAt(rows_of, qit).refs
           R == IF side.role = "from" THEN [side EXCEPT !.from = @ \cup {refs}]
                ELSE [side EXCEPT !.to = @ \cup {refs}]
           goes == ~ AtEnd(rows_of, o) /\ rows_of[o].id = side.id
           said == [via |-> R.via, only |-> R.only, from |-> R.from, to |-> R.to]
<1>1. /\ phase = "turns" /\ side # NoSide /\ qit' = o
      /\ UNCHANGED <<tables, phase, rows_of>>
      /\ goes => side' = [R EXCEPT !.role = rows_of[o].role] /\ found' = found
      /\ ~ goes =>
           /\ side' = NoSide
           /\ found' = IF R.from # {} /\ R.to # {}
                       THEN [found EXCEPT !.restrictions = Append(@, said)] ELSE found
  BY DEF ReadSide, Kept
<1> HIDE DEF o, refs, goes, said
<1>2. /\ model = Compact /\ tables = WithRelations(e) /\ rows_of = Ordered(RestrictionRows(WithRelations(e)))
      /\ found = [nodes |-> found.nodes, ways |-> found.ways, restrictions |-> found.restrictions]
      /\ Lists(found.nodes, JunctionsOf(e)) /\ Lists(found.ways, RoadsOf(e))
      /\ WithinRestriction(e)
  BY <1>1, RestrictionPhases DEF ReadingRestrictions
<1>3. PICK r \in Range(e.relations) : r.id = rows_of[qit].id /\ side = SideRead(e, rows_of, r, qit)
  BY <1>2 DEF WithinRestriction
<1> DEFINE I == Seen(rows_of, qit) \ {r.id}
           from == RefsSeen(e, rows_of, r, "from", o)
           to == RefsSeen(e, rows_of, r, "to", o)
           via == CHOOSE v \in Vias(r) : TRUE
           only == "restriction=only" \in r.tags
           role == rows_of[qit].role
<1>4. /\ BetweenSides(rows_of, qit) /\ ~ AtEnd(rows_of, qit)
      /\ FoundRestrictions(e, found.restrictions, WithIds(Complete(e), I))
  BY <1>2, <1>3 DEF WithinRestriction
<1>5. /\ r \in Speaking(e) /\ role \in {"from", "to"}
      /\ qit \in Nat /\ o \in 1 .. Len(rows_of) + 1 /\ qit < o /\ BetweenSides(rows_of, o)
      /\ rows_of[o - 1].id = r.id
      /\ RefsSeen(e, rows_of, r, role, o) = RefsSeen(e, rows_of, r, role, qit) \cup {refs}
      /\ \A x \in {"from", "to"} : x # role => RefsSeen(e, rows_of, r, x, o) = RefsSeen(e, rows_of, r, x, qit)
      /\ Seen(rows_of, o) = Seen(rows_of, qit) \cup {r.id}
  <2>1. Advanced(e, rows_of, r, qit, SideAt(rows_of, qit).q, SideAt(rows_of, qit).refs)
    BY <1>2, <1>3, <1>4, SidePassed, Zenon
  <2>2. QED
    BY <2>1, Zenon DEF o, refs, Advanced
<1>6. /\ IsSide(side, r.id, via, only, role,
                RefsSeen(e, rows_of, r, "from", qit), RefsSeen(e, rows_of, r, "to", qit))
      /\ side.role = role /\ side.id = r.id
  <2>1. IsSide(side, r.id, via, only, role,
               RefsSeen(e, rows_of, r, "from", qit), RefsSeen(e, rows_of, r, "to", qit))
    BY <1>3 DEF IsSide, SideRead
  <2> HIDE DEF via, only, role
  <2>2. QED
    BY <2>1, SideParts, Zenon
<1>7. IsSide(R, r.id, via, only, role, from, to)
  <2> HIDE DEF via, only
  <2>1. CASE role = "from"
    <3>1. from = RefsSeen(e, rows_of, r, "from", qit) \cup {refs} /\ to = RefsSeen(e, rows_of, r, "to", qit)
      BY <1>5, <2>1
    <3>2. R = [side EXCEPT !.from = @ \cup {refs}]
      BY <1>6, <2>1, Zenon
    <3> HIDE DEF role, from, to, R
    <3>3. IsSide([side EXCEPT !.from = @ \cup {refs}], r.id, via, only, role,
                 RefsSeen(e, rows_of, r, "from", qit) \cup {refs}, RefsSeen(e, rows_of, r, "to", qit))
      BY <1>6, SidePut, Zenon
    <3>4. QED
      BY <3>1, <3>2, <3>3, Zenon
  <2>2. CASE role = "to"
    <3>1. from = RefsSeen(e, rows_of, r, "from", qit) /\ to = RefsSeen(e, rows_of, r, "to", qit) \cup {refs}
      BY <1>5, <2>2
    <3>2. R = [side EXCEPT !.to = @ \cup {refs}]
      <4>1. side.role # "from"
        BY <1>6, <2>2
      <4>2. QED
        BY <4>1, Zenon
    <3> HIDE DEF role, from, to, R
    <3>3. IsSide([side EXCEPT !.to = @ \cup {refs}], r.id, via, only, role,
                 RefsSeen(e, rows_of, r, "from", qit), RefsSeen(e, rows_of, r, "to", qit) \cup {refs})
      BY <1>6, SidePut, Zenon
    <3>4. QED
      BY <3>1, <3>2, <3>3, Zenon
  <2>3. QED
    BY <1>5, <2>1, <2>2
<1>8. R.via = via /\ R.only = only /\ R.from = from /\ R.to = to
  <2> HIDE DEF R, via, only, role, from, to
  <2>1. QED
    BY <1>7, SideParts, Zenon
<1> HIDE DEF R
<1>9. r.id \notin I /\ Seen(rows_of, o) = I \cup {r.id} /\ Seen(rows_of, o) \ {r.id} = I
  BY <1>5
<1>10. rows_of' = rows_of /\ qit' = o
  BY <1>1
<1>11. CASE goes
  <2>1. /\ side' = [R EXCEPT !.role = rows_of[o].role] /\ found' = found
        /\ ~ AtEnd(rows_of, o) /\ rows_of[o].id = r.id
    BY <1>1, <1>6, <1>11 DEF goes
  <2>2. side' = SideRead(e, rows_of, r, o)
    <3> HIDE DEF via, only, role, from, to
    <3>1. IsSide([R EXCEPT !.role = rows_of[o].role], r.id, via, only, rows_of[o].role, from, to)
      BY <1>7, SidePut, Zenon
    <3>2. QED
      BY <2>1, <3>1, Zenon DEF IsSide, SideRead, via, only, from, to
  <2> HIDE DEF from, to, via, only, role
  <2>3. WithinRestriction(e)'
    <3>1. /\ ~ AtEnd(rows_of, o) /\ BetweenSides(rows_of, o)
          /\ \E x \in Range(e.relations) : x.id = rows_of[o].id /\ side' = SideRead(e, rows_of, x, o)
      BY <1>5, <2>1, <2>2
    <3>2. FoundRestrictions(e, found.restrictions, WithIds(Complete(e), Seen(rows_of, o) \ {rows_of[o].id}))
      <4>1. Seen(rows_of, o) \ {rows_of[o].id} = I
        BY <1>9, <2>1
      <4>2. QED
        BY <1>4, <4>1
    <3>3. QED
      BY <1>10, <2>1, <3>1, <3>2 DEF WithinRestriction
  <2>4. ReadingRestrictions(e)'
    BY <1>1, <1>2, <2>1, <2>3 DEF ReadingRestrictions
  <2>5. QED
    BY <2>4 DEF Recovering
<1>12. CASE ~ goes
  <2>1. AtEnd(rows_of, o) \/ rows_of[o].id # r.id
    BY <1>6, <1>12 DEF goes
  <2>2. o - 1 \in 1 .. Len(rows_of)
    <3>1. Len(rows_of) \in Nat
      <4>1. Lists(rows_of, RowsOf(RestrictionRows(WithRelations(e))))
        BY <1>2, RestrictionRowsOrdered
      <4>2. QED
        BY <4>1 DEF Lists
    <3>2. qit \in 1 .. Len(rows_of) + 1
      BY <1>4 DEF BetweenSides
    <3>3. QED
      BY <1>5, <3>1, <3>2
  <2>3. /\ Between(rows_of, o)
        /\ \A x \in {"from", "to"} : RefsSeen(e, rows_of, r, x, o) = SideOf(e, r, x)
    BY <1>2, <1>5, <2>1, <2>2, RestrictionPassed
  <2>4. from = SideOf(e, r, "from") /\ to = SideOf(e, r, "to")
    BY <2>3
  <2> HIDE DEF from, to
  <2>5. said = Said(e, r)
    BY <1>8, <2>4 DEF said, Said
  <2> HIDE DEF via, only, role
  <2>6. /\ side' = NoSide
        /\ found' = IF from # {} /\ to # {}
                    THEN [found EXCEPT !.restrictions = Append(@, said)] ELSE found
    BY <1>1, <1>8, <1>12, Zenon
  <2> DEFINE t == IF from # {} /\ to # {} THEN Append(found.restrictions, said) ELSE found.restrictions
  <2>7. IsFound(found', found.nodes, found.ways, t)
    <3>1. IsFound(found, found.nodes, found.ways, found.restrictions)
      BY <1>2, Zenon DEF IsFound
    <3>2. IsFound([found EXCEPT !.restrictions = Append(@, said)], found.nodes, found.ways,
                  Append(found.restrictions, said))
      BY <3>1, FoundPut, Zenon
    <3>3. CASE from # {} /\ to # {}
      <4>1. found' = [found EXCEPT !.restrictions = Append(@, said)] /\ t = Append(found.restrictions, said)
        BY <2>6, <3>3, Zenon
      <4>2. QED
        BY <3>2, <4>1, Zenon
    <3>4. CASE ~ (from # {} /\ to # {})
      <4>1. found' = found /\ t = found.restrictions
        BY <2>6, <3>4, Zenon
      <4>2. QED
        BY <3>1, <4>1, Zenon
    <3>5. QED
      BY <3>3, <3>4
  <2>8. FoundRestrictions(e, t, WithIds(Complete(e), Seen(rows_of, o)))
    <3>1. t = IF SideOf(e, r, "from") # {} /\ SideOf(e, r, "to") # {}
              THEN Append(found.restrictions, Said(e, r)) ELSE found.restrictions
      BY <2>4, <2>5
    <3> HIDE DEF t
    <3>2. FoundRestrictions(e, t, WithIds(Complete(e), I \cup {r.id}))
      <4> HIDE DEF I
      <4>1. QED
        BY <1>4, <1>5, <1>9, <3>1, RestrictionAdded
    <3>3. QED
      BY <1>9, <3>2
  <2> HIDE DEF t
  <2>9. /\ found' = [nodes |-> found.nodes', ways |-> found.ways', restrictions |-> found.restrictions']
        /\ found.nodes' = found.nodes /\ found.ways' = found.ways /\ found.restrictions' = t
    <3>1. found.nodes' = found.nodes /\ found.ways' = found.ways /\ found.restrictions' = t
      BY <2>7, FoundParts, Zenon
    <3>2. QED
      BY <2>7, <3>1, Zenon DEF IsFound
  <2>10. BetweenRestrictions(e)'
    BY <1>10, <2>3, <2>6, <2>8, <2>9 DEF BetweenRestrictions
  <2>11. ReadingRestrictions(e)'
    BY <1>1, <1>2, <2>9, <2>10 DEF ReadingRestrictions
  <2>12. QED
    BY <2>11 DEF Recovering
<1>13. QED
  BY <1>11, <1>12

\* Past the last row all restrictions have been read.
LEMMA RestrictionsEnded ==
  ASSUME NEW e \in Extracts, Regular(e), Recovering(e), EndOfRestrictions, UNCHANGED model
  PROVE  Recovering(e)'
<1>1. /\ phase = "turns" /\ AtEnd(rows_of, qit) /\ side = NoSide /\ phase' = "retrieved"
      /\ found' = found
  BY DEF EndOfRestrictions
<1>2. /\ rows_of = Ordered(RestrictionRows(WithRelations(e))) /\ Between(rows_of, qit)
      /\ found = [nodes |-> found.nodes, ways |-> found.ways, restrictions |-> found.restrictions]
      /\ Lists(found.nodes, JunctionsOf(e)) /\ Lists(found.ways, RoadsOf(e))
      /\ FoundRestrictions(e, found.restrictions, WithIds(Complete(e), Seen(rows_of, qit)))
  BY <1>1, RestrictionPhases DEF ReadingRestrictions, BetweenRestrictions
<1>3. \A r \in Complete(e) : r.id \in Seen(rows_of, qit)
  BY <1>1, <1>2, RestrictionsSeen
<1>4. FoundRestrictions(e, found.restrictions, Complete(e))
  BY <1>2, <1>3, NoneAndAll
<1>5. model = Compact
  BY <1>1, RestrictionPhases DEF ReadingRestrictions
<1>6. AllRead(e)'
  BY <1>1, <1>2, <1>4, <1>5 DEF AllRead
<1>7. QED
  BY <1>6 DEF Recovering

\* The rows are handed over when all have been retrieved, and stay as they are.
LEMMA HandOverKept ==
  ASSUME NEW e \in Extracts, Regular(e), Recovering(e), HandOver
  PROVE  AllRead(e) /\ Recovering(e)'
<1>1. phase = "retrieved" /\ phase' = "build" /\ found' = found /\ model' = model
  BY DEF HandOver, Retrieve
<1>2. AllRead(e)
  BY <1>1 DEF Recovering, Importing, ReadingNodes, ReadingWays, ReadingRestrictions
<1>3. AllRead(e)'
  BY <1>1, <1>2 DEF AllRead
<1>4. QED
  BY <1>2, <1>3 DEF Recovering

\* Building touches nothing of the import.
LEMMA OthersKept ==
  ASSUME NEW e \in Extracts, Recovering(e), UNCHANGED <<model, import>>
  PROVE  Recovering(e)'
<1>1. /\ file' = file /\ cached' = cached /\ tables' = tables /\ phase' = phase /\ rows_of' = rows_of
      /\ qit' = qit /\ found' = found /\ side' = side /\ model' = model
  BY DEF import
<1>2. (Importing(e)' <=> Importing(e)) /\ (AllRead(e)' <=> AllRead(e))
  BY <1>1 DEF Importing, AllRead
<1>3. (ReadingNodes(e)' <=> ReadingNodes(e)) /\ (ReadingWays(e)' <=> ReadingWays(e))
  BY <1>1 DEF ReadingNodes, ReadingWays
<1>4. /\ BetweenRestrictions(e)' <=> BetweenRestrictions(e)
      /\ WithinRestriction(e)' <=> WithinRestriction(e)
  BY <1>1 DEF BetweenRestrictions, WithinRestriction
<1>5. ReadingRestrictions(e)' <=> ReadingRestrictions(e)
  BY <1>1, <1>4 DEF ReadingRestrictions
<1>6. QED
  BY <1>2, <1>3, <1>5 DEF Recovering

\* No step writes the extract.
LEMMA ExtractStays ==
  ASSUME [RoadNext]_<<vars, import>>
  PROVE  extract' = extract
<1>1. Import => extract' = extract
  BY DEF Import, OpenDatabase, ParseBlob, InsertNodes, InsertWays, InsertRelations, FetchNode,
         EndOfNodes, FetchWay, EndOfWays, OpenRestriction, ReadSide, EndOfRestrictions
<1>2. HandOver => extract' = extract
  BY DEF HandOver
<1>3. QED
  BY <1>1, <1>2 DEF RoadNext, import

\* Every step of the import and of the builder keeps the invariant.
LEMMA RoadStepInv ==
  ASSUME RoadInv, [RoadNext]_<<vars, import>>
  PROVE  RoadInv'
<1>1. extract' = extract
  BY ExtractStays
<1>2. PICK e : e = extract
  OBVIOUS
<1>3. e \in Extracts
  BY <1>2 DEF RoadInv
<1> SUFFICES ASSUME Regular(e) PROVE Recovering(e)'
  BY <1>1, <1>2 DEF RoadInv
<1>4. Recovering(e)
  BY <1>2 DEF RoadInv
<1>5. CASE Import /\ UNCHANGED vars
  <2>1. UNCHANGED model
    BY <1>5 DEF vars
  <2>2. QED
    BY <1>3, <1>4, <1>5, <2>1, OpenKept, ParseKept, InsertKept, NodesKept, WaysKept,
       RestrictionBegun, RestrictionRead, RestrictionsEnded DEF Import
<1>6. CASE HandOver
  BY <1>3, <1>4, <1>6, HandOverKept
<1>7. CASE Build /\ UNCHANGED import
  <2>1. UNCHANGED model
    BY <1>7 DEF Build, AddNode, AddSection, CreateTurnTable, AddTurnCost
  <2>2. QED
    BY <1>3, <1>4, <1>7, <2>1, OthersKept
<1>8. CASE UNCHANGED <<vars, import>>
  <2>1. UNCHANGED <<model, import>>
    BY <1>8 DEF vars
  <2>2. QED
    BY <1>3, <1>4, <2>1, OthersKept
<1>9. QED
  BY <1>5, <1>6, <1>7, <1>8 DEF RoadNext

\* What has been read is what the extract says, throughout.
LEMMA RoadInvariant == RoadSpec => []RoadInv
<1>1. RoadInit => RoadInv
  BY RoadInitInv
<1>2. RoadInv /\ [RoadNext]_<<vars, import>> => RoadInv'
  BY RoadStepInv
<1>3. QED
  BY <1>1, <1>2, PTL DEF RoadSpec

-----------------------------------------------------------------------------

\* A list of a set has as many elements as the set.
LEMMA ListedOnce ==
  ASSUME NEW S, NEW s, Lists(s, S)
  PROVE  OneEach(s, S)
<1>1. Range(s) = S
  BY DEF Lists, Range
<1>2. Len(s) = Cardinality(S)
  <2>1. Len(s) \in Nat /\ DOMAIN s = 1 .. Len(s)
    BY DEF Lists
  <2>2. s \in Bijection(1 .. Len(s), S)
    <3>1. s \in [1 .. Len(s) -> S]
      BY <2>1 DEF Lists
    <3>2. \A i, j \in 1 .. Len(s) : s[i] = s[j] => i = j
      BY DEF Lists
    <3>3. \A x \in S : \E i \in 1 .. Len(s) : s[i] = x
      BY DEF Lists
    <3>4. QED
      BY <3>1, <3>2, <3>3, Zenon DEF Bijection, Injection, Surjection, IsInjective
  <2>3. QED
    <3>1. IsFiniteSet(1 .. Len(s)) /\ Cardinality(1 .. Len(s)) = Len(s)
      <4>1. 1 \in Int /\ Len(s) \in Int /\ 1 <= Len(s) + 1
        BY <2>1
      <4>2. IsFiniteSet(1 .. Len(s)) /\ Cardinality(1 .. Len(s)) = IF 1 > Len(s) THEN 0 ELSE Len(s) - 1 + 1
        BY <4>1, FS_Interval, Zenon
      <4>3. QED
        BY <2>1, <4>2
    <3>2. Cardinality(1 .. Len(s)) = Cardinality(S)
      <4>1. ExistsBijection(1 .. Len(s), S)
        BY <2>2 DEF ExistsBijection
      <4>2. QED
        BY <3>1, <4>1, FS_Bijection, Zenon
    <3>3. QED
      BY <3>1, <3>2
<1>3. QED
  BY <1>1, <1>2 DEF OneEach

\* One restriction has been found for each that is said.
LEMMA RestrictionsFoundOnce ==
  ASSUME NEW e \in Extracts, Regular(e), NEW s, FoundRestrictions(e, s, Complete(e))
  PROVE  /\ Range(s) = {r[2] : r \in RestrictionsOf(e)}
         /\ Len(s) = Cardinality(RestrictionsOf(e))
<1> DEFINE C == Complete(e)
           f == [r \in C |-> <<r.id, Said(e, r)>>]
<1>1. RestrictionsOf(e) = {f[r] : r \in C}
  BY DEF RestrictionsOf, Complete, Said
<1>2. PICK t \in [DOMAIN s -> C] : Lists(t, C) /\ s = [i \in DOMAIN t |-> Said(e, t[i])]
  BY DEF FoundRestrictions
<1>3. /\ Len(t) \in Nat /\ DOMAIN t = 1 .. Len(t) /\ \A i \in 1 .. Len(t) : t[i] \in C
      /\ \A r \in C : \E i \in 1 .. Len(t) : t[i] = r
  BY <1>2 DEF Lists
<1>4. Len(s) = Len(t)
  BY <1>2, <1>3
<1>5. Len(t) = Cardinality(C)
  BY <1>2, ListedOnce DEF OneEach
<1>6. Range(s) = {r[2] : r \in RestrictionsOf(e)}
  <2>1. \A x : x \in Range(s) <=> \E r \in C : x = Said(e, r)
    <3>1. DOMAIN s = 1 .. Len(t) /\ \A i \in 1 .. Len(t) : s[i] = Said(e, t[i])
      BY <1>2, <1>3
    <3> HIDE DEF C
    <3>2. QED
      BY <1>3, <3>1 DEF Range
  <2>2. \A r \in C : f[r][2] = Said(e, r)
    OBVIOUS
  <2> HIDE DEF C, f
  <2>3. \A x : x \in {r[2] : r \in RestrictionsOf(e)} <=> \E r \in C : x = f[r][2]
    BY <1>1
  <2>4. \A x : x \in Range(s) <=> x \in {r[2] : r \in RestrictionsOf(e)}
    <3>1. ASSUME NEW x PROVE (\E r \in C : x = Said(e, r)) <=> (\E r \in C : x = f[r][2])
      BY <2>2, Zenon
    <3>2. QED
      BY <2>1, <2>3, <3>1, Zenon
  <2>5. QED
    BY <2>4
<1>7. Cardinality({f[r] : r \in C}) = Cardinality(C)
  <2>1. IsFiniteSet(C)
    <3>1. C \in SUBSET Range(e.relations)
      BY DEF Complete
    <3>2. QED
      BY <3>1, Elements, FS_Subset
  <2>2. \A x, y \in C : f[x] = f[y] => x = y
    <3>1. \A x \in C : f[x][1] = x.id
      OBVIOUS
    <3>2. \A x, y \in C : x.id = y.id => x = y
      BY RelationKnown DEF Complete
    <3> HIDE DEF C, f
    <3>3. QED
      BY <3>1, <3>2
  <2> HIDE DEF C, f
  <2>3. QED
    BY <2>1, <2>2, FiniteValues
<1>8. QED
  BY <1>1, <1>4, <1>5, <1>6, <1>7

\* What build_graph retrieves of a regular extract is what the extract says of the
\* road network, whatever ids, tags, roads and restrictions it has: no tag or
\* reference slips to a neighbour, no element is lost or doubled.
THEOREM NetworkIsRecovered == RoadSpec => []NetworkRecovered
<1>1. ASSUME RoadInv PROVE NetworkRecovered
  <2> SUFFICES ASSUME Regular(extract)
               PROVE  /\ phase # "failed"
                      /\ phase \in {"retrieved", "build"} =>
                           /\ OneEach(found.nodes, JunctionsOf(extract))
                           /\ OneEach(found.ways, RoadsOf(extract))
                           /\ model = Compact =>
                                /\ Range(found.restrictions) = {r[2] : r \in RestrictionsOf(extract)}
                                /\ Len(found.restrictions) = Cardinality(RestrictionsOf(extract))
    BY DEF NetworkRecovered
  <2>1. extract \in Extracts /\ Recovering(extract)
    BY <1>1 DEF RoadInv
  <2>2. phase # "failed"
    BY <2>1 DEF Recovering, Importing, ReadingNodes, ReadingWays, ReadingRestrictions, AllRead
  <2>3. phase \in {"retrieved", "build"} => AllRead(extract)
    BY <2>1 DEF Recovering, Importing, ReadingNodes, ReadingWays, ReadingRestrictions
  <2>4. QED
    BY <2>1, <2>2, <2>3, ListedOnce, RestrictionsFoundOnce DEF AllRead
<1>2. QED
  BY <1>1, RoadInvariant, PTL

-----------------------------------------------------------------------------
(* What the builder is handed.                                             *)

\* The rows that the builder gets.
HandedOver(f) ==
  [nodes |-> [i \in DOMAIN f.nodes |-> f.nodes[i].id],
   ways |-> [i \in DOMAIN f.ways |-> [refs |-> f.ways[i].refs, tags |-> f.ways[i].tags]],
   restrictions |-> f.restrictions]

\* The restrictions are of the type the builder takes.
RestrictionRecord == [via : Id, only : BOOLEAN, from : SUBSET Seq(Id), to : SUBSET Seq(Id)]

\* What a relation says is such a restriction.
LEMMA SaidTyped ==
  ASSUME NEW e \in Extracts, NEW r \in Complete(e)
  PROVE  Said(e, r) \in RestrictionRecord
<1>1. r \in Range(e.relations) /\ Vias(r) # {}
  BY DEF Complete
<1>2. PICK i \in DOMAIN e.relations : e.relations[i] = r
  BY <1>1 DEF Range
<1>3. \A mem \in Range(r.members) : mem.type = "node" => mem.id \in Id
  <2>1. IsExtract(e)
    BY ExtractAssumption
  <2>2. \A k \in DOMAIN e.relations : \A mem \in Range(e.relations[k].members) :
          mem.type = "node" => mem.id \in Id
    BY <2>1 DEF IsExtract
  <2>3. QED
    BY <1>2, <2>2
<1>4. Vias(r) \subseteq Id
  BY <1>3 DEF Vias
<1> DEFINE v == CHOOSE x \in Vias(r) : TRUE
<1>5. v \in Id
  BY <1>1, <1>4
<1> HIDE DEF v
<1>6. \A role : SideOf(e, r, role) \in SUBSET Seq(Id)
  <2>1. \A w \in RoadsOf(e) : w.refs \in Seq(Id)
    <3>1. \A w \in RoadsOf(e) : w \in Range(e.ways)
      BY DEF RoadsOf
    <3>2. \A w \in Range(e.ways) : w \in ExtractWay
      BY Elements
    <3>3. QED
      BY <3>1, <3>2 DEF ExtractWay
  <2>2. QED
    BY <2>1 DEF SideOf
<1>7. ("restriction=only" \in r.tags) \in BOOLEAN
  OBVIOUS
<1>8. Said(e, r) = [via |-> v, only |-> "restriction=only" \in r.tags,
                    from |-> SideOf(e, r, "from"), to |-> SideOf(e, r, "to")]
  BY DEF Said, v
<1>9. QED
  BY <1>5, <1>6, <1>7, <1>8 DEF RestrictionRecord

\* What is retrieved of a regular extract is a database the builder takes.
LEMMA DatabaseMade ==
  ASSUME NEW e \in Extracts, Regular(e), JunctionsOf(e) # {}, NEW f,
         Lists(f.nodes, JunctionsOf(e)), Lists(f.ways, RoadsOf(e)),
         f.restrictions = <<>> \/ FoundRestrictions(e, f.restrictions, Complete(e))
  PROVE  IsDatabase(HandedOver(f))
<1> DEFINE d == HandedOver(f)  n == Len(f.nodes)
<1>1. /\ d.nodes = [i \in DOMAIN f.nodes |-> f.nodes[i].id]
      /\ d.ways = [i \in DOMAIN f.ways |-> [refs |-> f.ways[i].refs, tags |-> f.ways[i].tags]]
      /\ d.restrictions = f.restrictions
      /\ d = [nodes |-> d.nodes, ways |-> d.ways, restrictions |-> d.restrictions]
  BY DEF HandedOver
<1> HIDE DEF d
<1>2. /\ n \in Nat /\ DOMAIN f.nodes = 1 .. n /\ (\A i \in 1 .. n : f.nodes[i] \in JunctionsOf(e))
      /\ (\A i, j \in 1 .. n : f.nodes[i] = f.nodes[j] => i = j)
      /\ \A j \in JunctionsOf(e) : \E i \in 1 .. n : f.nodes[i] = j
  BY DEF Lists
<1> HIDE DEF n
<1>3. \A j \in JunctionsOf(e) : j.id \in Id /\ \A k \in JunctionsOf(e) : k.id = j.id => k = j
  <2>1. \A m \in RoadNodes(e) : m.id \in Id
    <3>1. \A m \in RoadNodes(e) : m \in Range(e.nodes)
      BY DEF RoadNodes
    <3>2. \A m \in Range(e.nodes) : m \in ExtractNode
      BY Elements
    <3>3. QED
      BY <3>1, <3>2 DEF ExtractNode
  <2>2. QED
    BY <2>1, JunctionKnown
<1>4. d.nodes \in Seq(Id) /\ d.nodes # <<>> /\ \A i, j \in DOMAIN d.nodes : d.nodes[i] = d.nodes[j] => i = j
  <2>1. d.nodes \in [1 .. n -> Id] /\ \A i \in 1 .. n : d.nodes[i] = f.nodes[i].id
    BY <1>1, <1>2, <1>3
  <2>2. d.nodes \in Seq(Id)
    BY <1>2, <2>1
  <2>3. \E i : i \in 1 .. n
    BY <1>2
  <2>4. d.nodes # <<>>
    <3>1. DOMAIN d.nodes = 1 .. n
      BY <2>1
    <3>2. DOMAIN <<>> = {}
      OBVIOUS
    <3>3. QED
      BY <2>3, <3>1, <3>2
  <2>5. \A i, j \in 1 .. n : d.nodes[i] = d.nodes[j] => i = j
    BY <1>2, <1>3, <2>1
  <2>6. QED
    BY <2>1, <2>2, <2>4, <2>5
<1>5. d.ways \in Seq([refs : Seq(Id), tags : SUBSET Tag])
  <2> DEFINE m == Len(f.ways)  W == [refs : Seq(Id), tags : SUBSET Tag]
  <2>1. m \in Nat /\ DOMAIN f.ways = 1 .. m /\ \A i \in 1 .. m : f.ways[i] \in RoadsOf(e)
    BY DEF Lists
  <2> HIDE DEF m
  <2>2. \A w \in RoadsOf(e) : w.refs \in Seq(Id) /\ w.tags \in SUBSET Tag
    <3>1. \A w \in RoadsOf(e) : w \in Range(e.ways)
      BY DEF RoadsOf
    <3>2. \A w \in Range(e.ways) : w \in ExtractWay
      BY Elements
    <3>3. QED
      BY <3>1, <3>2 DEF ExtractWay
  <2>3. \A i \in 1 .. m : [refs |-> f.ways[i].refs, tags |-> f.ways[i].tags]
                            \in [refs : Seq(Id), tags : SUBSET Tag]
    BY <2>1, <2>2
  <2>4. d.ways \in [1 .. m -> W]
    BY <1>1, <2>1, <2>3
  <2> HIDE DEF W
  <2>5. d.ways \in Seq(W)
    BY <2>1, <2>4
  <2>6. QED
    BY <2>5 DEF W
<1>6. d.restrictions \in Seq(RestrictionRecord)
  <2>1. CASE f.restrictions = <<>>
    BY <1>1, <2>1
  <2>2. CASE FoundRestrictions(e, f.restrictions, Complete(e))
    <3> DEFINE s == f.restrictions
    <3>1. PICK t \in [DOMAIN s -> Complete(e)] :
            Lists(t, Complete(e)) /\ s = [i \in DOMAIN t |-> Said(e, t[i])]
      BY <2>2 DEF FoundRestrictions
    <3>2. Len(t) \in Nat /\ DOMAIN t = 1 .. Len(t) /\ \A i \in 1 .. Len(t) : t[i] \in Complete(e)
      BY <3>1 DEF Lists
    <3> HIDE DEF s
    <3>3. s \in [1 .. Len(t) -> RestrictionRecord]
      BY <3>1, <3>2, SaidTyped
    <3>4. s \in Seq(RestrictionRecord)
      BY <3>2, <3>3
    <3>5. QED
      BY <1>1, <3>4 DEF s
  <2>3. QED
    BY <2>1, <2>2
<1>7. d \in Database
  BY <1>1, <1>4, <1>5, <1>6 DEF Database, RestrictionRecord
<1>8. QED
  BY <1>4, <1>7 DEF IsDatabase, d

-----------------------------------------------------------------------------

\* An extract that the queries get right, in which some road has a node.
Fed == Regular(extract) /\ JunctionsOf(extract) # {}

\* A step of the import is nothing to the builder, and what it is handed is a
\* database.
LEMMA FedStep ==
  ASSUME RoadInv, Fed, [RoadNext]_<<vars, import>>
  PROVE  [Next]_vars /\ Fed'
<1>1. extract' = extract
  BY ExtractStays
<1>2. PICK e : e = extract
  OBVIOUS
<1>3. e \in Extracts /\ Regular(e) /\ Recovering(e) /\ JunctionsOf(e) # {}
  BY <1>2 DEF RoadInv, Fed
<1>4. Fed'
  BY <1>1 DEF Fed
<1>5. CASE HandOver
  <2>1. Retrieve(HandedOver(found))
    BY <1>5 DEF HandOver, HandedOver
  <2>2. AllRead(e)
    BY <1>3, <1>5, HandOverKept
  <2>3. IsDatabase(HandedOver(found))
    BY <1>3, <2>2, DatabaseMade DEF AllRead
  <2>4. database' = HandedOver(found)
    BY <2>1 DEF Retrieve
  <2>5. Retrieve(database')
    BY <2>1, <2>4, Zenon
  <2>6. QED
    BY <1>4, <2>3, <2>4, <2>5 DEF Next
<1>6. CASE Build
  BY <1>4, <1>6 DEF Next
<1>7. CASE UNCHANGED vars
  BY <1>4, <1>7
<1>8. QED
  BY <1>5, <1>6, <1>7 DEF RoadNext

\* The composition implements the builder.
THEOREM BuilderIsFed == RoadSpec /\ Fed => Spec
<1>1. RoadInit => Init
  BY DEF RoadInit
<1>2. RoadInv /\ Fed /\ [RoadNext]_<<vars, import>> => [Next]_vars /\ Fed'
  BY FedStep
<1>3. QED
  BY <1>1, <1>2, RoadInvariant, PTL DEF RoadSpec, Spec

-----------------------------------------------------------------------------
(* From the file to the graph.                                             *)

\* The database of the builder is what was retrieved.
Delivered == phase = "build" => database = HandedOver(found)

\* The rows found stay as they are once they are handed over.
LEMMA StaysDelivered == RoadSpec => []Delivered
<1>1. RoadInit => Delivered
  BY DEF RoadInit, Delivered
<1>2. ASSUME Delivered, [RoadNext]_<<vars, import>> PROVE Delivered'
  <2>1. CASE Import
    <3>1. phase # "build" /\ phase' # "build"
      BY <2>1 DEF Import, OpenDatabase, ParseBlob, InsertNodes, InsertWays, InsertRelations, FetchNode,
                  EndOfNodes, FetchWay, EndOfWays, OpenRestriction, ReadSide, EndOfRestrictions, Query
    <3>2. QED
      BY <3>1 DEF Delivered
  <2>2. CASE HandOver
    <3>1. database' = HandedOver(found) /\ found' = found
      BY <2>2 DEF HandOver, HandedOver, Retrieve
    <3>2. QED
      BY <3>1 DEF Delivered
  <2>3. CASE Build /\ UNCHANGED import
    <3>1. database' = database /\ found' = found /\ phase' = phase
      BY <2>3 DEF Build, AddNode, AddSection, CreateTurnTable, AddTurnCost, import
    <3>2. QED
      BY <1>2, <3>1 DEF Delivered
  <2>4. CASE UNCHANGED <<vars, import>>
    <3>1. database' = database /\ found' = found /\ phase' = phase
      BY <2>4 DEF vars, import
    <3>2. QED
      BY <1>2, <3>1 DEF Delivered
  <2>5. QED
    BY <1>2, <2>1, <2>2, <2>3, <2>4 DEF RoadNext
<1>3. QED
  BY <1>1, <1>2, PTL DEF RoadSpec

\* A road may be used from x to its neighbour y.
RoadLeads(w, x, y) ==
  /\ Taken(w.tags)
  /\ \E i \in 1 .. Len(w.refs) - 1 :
       \/ w.refs[i] = x /\ w.refs[i + 1] = y /\ ~ Closed(w.tags, "along")
       \/ w.refs[i] = y /\ w.refs[i + 1] = x /\ ~ Closed(w.tags, "against")

\* The extract has every node of its roads.
Inside(e) == \A w \in RoadsOf(e) : Range(w.refs) \subseteq {n.id : n \in Range(e.nodes)}

\* The graph that is built of an extract: its vertices are the junctions, each
\* once, and its arcs the roads, in the directions in which they may be used.
GraphOfExtract ==
  phase = "build" /\ Built =>
    /\ OneEach(ids, {j.id : j \in JunctionsOf(extract)})
    /\ \A u, v \in Vertices :
         /\ (\E w \in RoadsOf(extract) : RoadLeads(w, ids[u + 1], ids[v + 1])) => <<u, v>> \in DOMAIN arcs
         /\ <<u, v>> \in DOMAIN arcs /\ (Inside(extract) \/ 0 \notin {u, v}) =>
              \E w \in RoadsOf(extract) : RoadLeads(w, ids[u + 1], ids[v + 1])
    /\ model = Compact /\ Inside(extract) /\ Unambiguous(database) =>
         \A a, b \in DOMAIN arcs : a[2] = b[1] =>
           LET cell == turn_table[a[2]][<<arcs[a].entry_point, arcs[b].exit_point>>] IN
           cell = Infinity <=>
             \/ UTurn(a, b)
             \/ \E r \in RestrictionsOf(extract) :
                  Forbids(r[2], ids[a[1] + 1], ids[a[2] + 1], ids[b[2] + 1])

\* The ways of the database are the roads.
LEMMA WaysAreRoads ==
  ASSUME NEW e, NEW f, Lists(f.ways, RoadsOf(e)), database = HandedOver(f)
  PROVE  /\ \A k \in DOMAIN database.ways : \E w \in RoadsOf(e) :
              database.ways[k].refs = w.refs /\ database.ways[k].tags = w.tags
         /\ \A w \in RoadsOf(e) : \E k \in DOMAIN database.ways :
              database.ways[k].refs = w.refs /\ database.ways[k].tags = w.tags
<1>1. database.ways = [i \in DOMAIN f.ways |-> [refs |-> f.ways[i].refs, tags |-> f.ways[i].tags]]
  BY DEF HandedOver
<1>2. /\ DOMAIN f.ways = 1 .. Len(f.ways) /\ \A i \in 1 .. Len(f.ways) : f.ways[i] \in RoadsOf(e)
      /\ \A w \in RoadsOf(e) : \E i \in 1 .. Len(f.ways) : f.ways[i] = w
  BY DEF Lists
<1>3. DOMAIN database.ways = 1 .. Len(f.ways)
  BY <1>1, <1>2
<1>4. \A i \in 1 .. Len(f.ways) :
        database.ways[i].refs = f.ways[i].refs /\ database.ways[i].tags = f.ways[i].tags
  BY <1>1, <1>2
<1>5. QED
  BY <1>2, <1>3, <1>4

\* What holds of the database holds of the extract, whose roads it has.
LEMMA ExtractDrawn ==
  ASSUME RoadInv, Fed, Delivered, IInv, StreetsJoined, TurnsForbidden, NetworkRecovered
  PROVE  GraphOfExtract
<1> SUFFICES ASSUME phase = "build", Built PROVE GraphOfExtract
  BY DEF GraphOfExtract
<1>1. PICK e : e = extract
  OBVIOUS
<1>2. e \in Extracts /\ Regular(e) /\ Recovering(e)
  BY <1>1 DEF RoadInv, Fed
<1>3. AllRead(e)
  BY <1>2 DEF Recovering, Importing, ReadingNodes, ReadingWays, ReadingRestrictions
<1>4. Lists(found.nodes, JunctionsOf(e)) /\ Lists(found.ways, RoadsOf(e))
  BY <1>3 DEF AllRead
<1>5. database = HandedOver(found)
  BY DEF Delivered
<1> DEFINE J == JunctionsOf(e)  n == Len(found.nodes)
<1>6. /\ n \in Nat /\ DOMAIN found.nodes = 1 .. n /\ \A i \in 1 .. n : found.nodes[i] \in J
      /\ (\A i, j \in 1 .. n : found.nodes[i] = found.nodes[j] => i = j)
      /\ \A j \in J : \E i \in 1 .. n : found.nodes[i] = j
  BY <1>4 DEF Lists
<1> HIDE DEF n
<1>7. Len(ids) = n /\ DOMAIN ids = 1 .. n /\ \A i \in 1 .. n : ids[i] = found.nodes[i].id
  <2>1. /\ ids \in Seq(Id) /\ nodes = <<>> /\ Len(ids) + Len(nodes) = Len(database.nodes)
        /\ \A i \in 1 .. Len(ids) : ids[i] = database.nodes[i]
    BY DEF IInv, Numbered, Built
  <2>2. database.nodes = [i \in DOMAIN found.nodes |-> found.nodes[i].id]
    BY <1>5 DEF HandedOver
  <2>3. database.nodes = [i \in 1 .. n |-> found.nodes[i].id]
    BY <1>6, <2>2
  <2>4. Len(database.nodes) = n /\ \A i \in 1 .. n : database.nodes[i] = found.nodes[i].id
    BY <1>6, <2>3
  <2>5. Len(ids) \in Nat /\ Len(ids) = n
    BY <1>6, <2>1, <2>4
  <2>6. QED
    BY <2>1, <2>4, <2>5
<1>8. \A j, k \in J : j.id = k.id => j = k
  BY <1>2, JunctionKnown
<1>9. OneEach(ids, {j.id : j \in J})
  <2>1. Lists(ids, {j.id : j \in J})
    <3> DEFINE I == {j.id : j \in J}
    <3>1. ids \in Seq(I)
      <4>1. \A i \in 1 .. n : ids[i] \in I
        BY <1>6, <1>7
      <4>2. ids = [i \in 1 .. n |-> ids[i]]
        <5>1. ids \in Seq(Id)
          BY DEF IInv, Numbered
        <5>2. QED
          BY <1>7, <5>1
      <4> HIDE DEF I
      <4>3. QED
        BY <1>6, <4>1, <4>2
    <3>2. \A x \in I : \E i \in 1 .. n : ids[i] = x
      BY <1>6, <1>7
    <3>3. \A i \in 1 .. n : ids[i] \in I
      BY <1>6, <1>7
    <3>4. \A i, j \in 1 .. n : ids[i] = ids[j] => i = j
      BY <1>6, <1>7, <1>8
    <3> HIDE DEF I
    <3>5. Lists(ids, I)
      BY <1>6, <1>7, <3>1, <3>2, <3>3, <3>4 DEF Lists
    <3>6. QED
      BY <3>5 DEF I
  <2>2. QED
    BY <2>1, ListedOnce
<1> HIDE DEF J
<1>10. /\ \A k \in DOMAIN database.ways : \E w \in RoadsOf(e) :
            database.ways[k].refs = w.refs /\ database.ways[k].tags = w.tags
       /\ \A w \in RoadsOf(e) : \E k \in DOMAIN database.ways :
            database.ways[k].refs = w.refs /\ database.ways[k].tags = w.tags
  BY <1>4, <1>5, WaysAreRoads
<1>11. \A x, y : (\E k \in DOMAIN database.ways : Leads(k, x, y)) <=> \E w \in RoadsOf(e) : RoadLeads(w, x, y)
  <2>1. ASSUME NEW k \in DOMAIN database.ways, NEW w \in RoadsOf(e),
               database.ways[k].refs = w.refs, database.ways[k].tags = w.tags, NEW x, NEW y
        PROVE  Leads(k, x, y) <=> RoadLeads(w, x, y)
    BY <2>1 DEF Leads, RoadLeads
  <2>2. QED
    BY <1>10, <2>1
<1>12. Inside(e) => Within(database)
  <2> SUFFICES ASSUME Inside(e), NEW k \in DOMAIN database.ways
               PROVE  Range(database.ways[k].refs) \subseteq Range(database.nodes)
    BY DEF Within
  <2>1. PICK w \in RoadsOf(e) : database.ways[k].refs = w.refs
    BY <1>10
  <2>2. ASSUME NEW x \in Range(w.refs) PROVE x \in Range(database.nodes)
    <3>1. PICK m \in Range(e.nodes) : x = m.id
      BY <2>2 DEF Inside
    <3>2. m \in RoadNodes(e)
      BY <2>2, <3>1 DEF RoadNodes
    <3>3. JunctionOf(m) \in J /\ JunctionOf(m).id = x
      BY <1>2, <3>1, <3>2, JunctionKnown DEF J
    <3>4. PICK i \in 1 .. n : found.nodes[i] = JunctionOf(m)
      BY <1>6, <3>3
    <3>5. database.nodes = [l \in DOMAIN found.nodes |-> found.nodes[l].id]
      BY <1>5 DEF HandedOver
    <3>6. i \in DOMAIN database.nodes /\ database.nodes[i] = x
      BY <1>6, <3>3, <3>4, <3>5
    <3>7. QED
      BY <3>6 DEF Range
  <2>3. QED
    BY <2>1, <2>2
<1>13. \A u, v \in Vertices :
         /\ (\E w \in RoadsOf(e) : RoadLeads(w, ids[u + 1], ids[v + 1])) => <<u, v>> \in DOMAIN arcs
         /\ <<u, v>> \in DOMAIN arcs /\ (Inside(e) \/ 0 \notin {u, v}) =>
              \E w \in RoadsOf(e) : RoadLeads(w, ids[u + 1], ids[v + 1])
  <2>1. ASSUME NEW u \in Vertices, NEW v \in Vertices
        PROVE  /\ (\E k \in DOMAIN database.ways : Leads(k, ids[u + 1], ids[v + 1])) => <<u, v>> \in DOMAIN arcs
               /\ <<u, v>> \in DOMAIN arcs /\ (Within(database) \/ 0 \notin {u, v}) =>
                    Leads(arcs[<<u, v>>].way, ids[u + 1], ids[v + 1])
    BY DEF StreetsJoined
  <2>2. \A a \in DOMAIN arcs : arcs[a].way \in DOMAIN database.ways
    BY DEF IInv, NothingElse
  <2>3. QED
    BY <1>11, <1>12, <2>1, <2>2
<1>14. ASSUME model = Compact, Inside(e), Unambiguous(database),
              NEW a \in DOMAIN arcs, NEW b \in DOMAIN arcs, a[2] = b[1]
       PROVE  turn_table[a[2]][<<arcs[a].entry_point, arcs[b].exit_point>>] = Infinity <=>
                \/ UTurn(a, b)
                \/ \E r \in RestrictionsOf(e) : Forbids(r[2], ids[a[1] + 1], ids[a[2] + 1], ids[b[2] + 1])
  <2>1. turn_table[a[2]][<<arcs[a].entry_point, arcs[b].exit_point>>] = Infinity <=>
          \/ UTurn(a, b)
          \/ \E r \in Range(database.restrictions) :
               Forbids(r, ids[a[1] + 1], ids[a[2] + 1], ids[b[2] + 1])
    BY <1>12, <1>14 DEF TurnsForbidden
  <2>2. Range(database.restrictions) = {r[2] : r \in RestrictionsOf(e)}
    <3>1. database.restrictions = found.restrictions
      BY <1>5 DEF HandedOver
    <3>2. Range(found.restrictions) = {r[2] : r \in RestrictionsOf(e)}
      BY <1>1, <1>2, <1>14 DEF NetworkRecovered
    <3>3. QED
      BY <3>1, <3>2
  <2>3. QED
    BY <2>1, <2>2
<1>15. QED
  BY <1>1, <1>9, <1>13, <1>14 DEF GraphOfExtract, J

\* From the file to the graph: what is built of an extract that the queries get
\* right has its junctions for vertices, its roads for arcs and, in the turn
\* tables, its restrictions.
THEOREM ExtractIsBuilt == RoadSpec /\ Fed => []GraphOfExtract
<1>1. RoadSpec /\ Fed => []Fed
  <2>1. RoadInv /\ Fed /\ [RoadNext]_<<vars, import>> => Fed'
    BY FedStep
  <2>2. QED
    BY <2>1, RoadInvariant, PTL DEF RoadSpec
<1>2. RoadInv /\ Fed /\ Delivered /\ IInv /\ StreetsJoined /\ TurnsForbidden /\ NetworkRecovered
        => GraphOfExtract
  BY ExtractDrawn
<1>3. QED
  BY <1>1, <1>2, RoadInvariant, BuilderIsFed, StaysDelivered, Invariant, ArcsAreStreets,
     TurnsAreForbidden, NetworkIsRecovered, PTL

=============================================================================
