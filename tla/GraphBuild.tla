----------------------------- MODULE GraphBuild -----------------------------
(***************************************************************************)
(* graph_builder and its four models: a graph made of the rows of the OSM  *)
(* database, node after node, section after section, and for the compact   *)
(* representation the turn tables.                                         *)
(*                                                                         *)
(* A behaviour is one call of build_graph: retrieve the rows, then add     *)
(* them.  Vertices are numbered from 0 as boost does; an arc is the pair   *)
(* of its ends, since the adjacency list keeps the arcs out of a vertex in *)
(* a set.  Lengths and names of arcs are abstracted to the way they are    *)
(* taken from.                                                             *)
(***************************************************************************)
EXTENDS Integers, Sequences, FiniteSets, SequencesExt, OsmFeatures

CONSTANTS
  Id,      \* ids of OSM nodes
  Models   \* models to build

\* What the queries of a database can return: ids, ways, and for a restriction
\* the refs of the ways on either side.
Database ==
  [nodes : Seq(Id),
   ways : Seq([refs : Seq(Id), tags : SUBSET Tag]),
   restrictions : Seq([via : Id, only : BOOLEAN, from : SUBSET Seq(Id), to : SUBSET Seq(Id)])]

IsDatabase(d) ==
  /\ d \in Database
  /\ d.nodes # <<>>
  /\ \A i, j \in DOMAIN d.nodes : d.nodes[i] = d.nodes[j] => i = j

Compact == "road_compact_representation_model"

ASSUME ModelAssumption ==
  Models \subseteq {Compact, "road_simplified_model", "pedestrian_simplified_model",
                    "bicriterion_bicycle_model"}

VARIABLES
  database, model,
  nodes, sections, untabled, restrictions,  \* what is still to be added
  ids,          \* the vertices: ids[v + 1] is the id of vertex v
  vtxmap,       \* _vtxmap
  arcs,         \* <<u, v>> -> the properties of that arc
  edgmap,       \* _edgmap
  edge_index,   \* _edge_index
  turn_table,   \* vertex -> its table, or NoTable
  descending    \* whether later arcs are allocated at lower addresses

rows == <<nodes, sections, untabled, restrictions>>
vars == <<database, model, nodes, sections, untabled, restrictions, ids, vtxmap,
          arcs, edgmap, edge_index, turn_table, descending>>

Infinity == 1
NoTable == <<>>
Empty == [x \in {} |-> x]

\* create_network_segments: the sections of all ways, in order.
SectionsOf(ways) ==
  FlattenSeq([w \in DOMAIN ways |->
    [i \in 1 .. Len(ways[w].refs) - 1 |->
       [sid |-> ways[w].refs[i], tid |-> ways[w].refs[i + 1], way |-> w]]])

\* Before anything is retrieved.
NoDatabase == [nodes |-> <<>>, ways |-> <<>>, restrictions |-> <<>>]

Init ==
  /\ model \in Models
  /\ database = NoDatabase
  /\ nodes = <<>> /\ sections = <<>> /\ untabled = {} /\ restrictions = <<>>
  /\ ids = <<>> /\ vtxmap = Empty
  /\ arcs = Empty /\ edgmap = Empty /\ edge_index = 0
  /\ turn_table = Empty
  /\ descending \in IF model = Compact THEN BOOLEAN ELSE {FALSE}

\* What the queries return.  Only the compact model asks for restrictions.
Retrieve(d) ==
  /\ database = NoDatabase
  /\ database' = d
  /\ nodes' = d.nodes
  /\ sections' = SectionsOf(d.ways)
  /\ restrictions' = IF model = Compact THEN d.restrictions ELSE <<>>
  /\ UNCHANGED <<model, untabled, ids, vtxmap, arcs, edgmap, edge_index, turn_table, descending>>

AddNode ==
  /\ nodes # <<>>
  /\ nodes' = Tail(nodes)
  /\ ids' = Append(ids, Head(nodes))
  /\ vtxmap' = [x \in DOMAIN vtxmap \cup {Head(nodes)} |->
                  IF x = Head(nodes) THEN Len(ids) ELSE vtxmap[x]]
  \* add_turn_costs will visit every vertex.
  /\ untabled' = IF model = Compact THEN 0 .. Len(ids) ELSE {}
  /\ turn_table' = [v \in 0 .. Len(ids) |-> NoTable]
  /\ UNCHANGED <<database, model, sections, restrictions, arcs, edgmap, edge_index, descending>>

-----------------------------------------------------------------------------
(* add_section                                                             *)

\* Whether the model takes a way at all, and in which direction its sections.
Taken(tags) ==
  CASE model \in {Compact, "road_simplified_model"} -> is_road_highway(tags)
    [] model = "pedestrian_simplified_model" -> is_pedestrian_highway(tags)
    [] model = "bicriterion_bicycle_model" -> is_cyclable_highway(tags)

DirectionsMatter == model \in {Compact, "road_simplified_model"}

Forward(tags) ==
  /\ Taken(tags)
  /\ DirectionsMatter => is_not_oneway_highway(tags) \/ is_forward_oneway_highway(tags)

\* Mutant: one-way streets are driven the other way, too.
BackwardAlways(tags) == Taken(tags)

Backward(tags) ==
  /\ Taken(tags)
  /\ DirectionsMatter => is_not_oneway_highway(tags) \/ is_reverse_oneway_highway(tags)

\* Mutant: a vertex that add_edge does not know yet.
ReferencePastEnd(map, id) ==
  IF id \in DOMAIN map THEN map
  ELSE [x \in DOMAIN map \cup {id} |-> IF x = id THEN Len(ids) ELSE map[x]]

\* (_vtxmap)[id]: an id that is not there is inserted, with vertex 0.
Reference(map, id) ==
  IF id \in DOMAIN map THEN map
  ELSE [x \in DOMAIN map \cup {id} |-> IF x = id THEN 0 ELSE map[x]]

Graph == [arcs |-> arcs, edgmap |-> edgmap, edge_index |-> edge_index]

\* Mutant: the index is counted up for arcs that are there already.
AddArcCounting(G, u, v, way) ==
  [arcs |-> IF <<u, v>> \in DOMAIN G.arcs THEN G.arcs
            ELSE [a \in DOMAIN G.arcs \cup {<<u, v>>} |->
                    IF a # <<u, v>> THEN G.arcs[a]
                    ELSE [edge_index |-> G.edge_index, way |-> way, entry_point |-> 0, exit_point |-> 0]],
   edgmap |-> IF <<u, v>> \in DOMAIN G.arcs THEN G.edgmap ELSE
                [i \in DOMAIN G.edgmap \cup {G.edge_index} |->
                   IF i = G.edge_index THEN <<u, v>> ELSE G.edgmap[i]],
   edge_index |-> G.edge_index + 1]

\* boost::add_edge and what follows when it inserted.  Only the compact model
\* numbers its arcs.
AddArc(G, u, v, way) ==
  LET new == [edge_index |-> G.edge_index, way |-> way, entry_point |-> 0, exit_point |-> 0]
  IN  IF <<u, v>> \in DOMAIN G.arcs THEN G ELSE
      [arcs |-> [a \in DOMAIN G.arcs \cup {<<u, v>>} |->
                   IF a = <<u, v>> THEN new ELSE G.arcs[a]],
       edgmap |-> IF model # Compact THEN G.edgmap ELSE
                  [i \in DOMAIN G.edgmap \cup {G.edge_index} |->
                     IF i = G.edge_index THEN <<u, v>> ELSE G.edgmap[i]],
       edge_index |-> IF model # Compact THEN G.edge_index ELSE G.edge_index + 1]

AddSection ==
  /\ nodes = <<>> /\ sections # <<>>
  /\ LET e    == Head(sections)
         tags == database.ways[e.way].tags
         map  == Reference(Reference(vtxmap, e.sid), e.tid)
         s    == map[e.sid]
         t    == map[e.tid]
         G1   == IF Forward(tags) THEN AddArc(Graph, s, t, e.way) ELSE Graph
         G2   == IF Backward(tags) THEN AddArc(G1, t, s, e.way) ELSE G1
     IN  /\ vtxmap' = map
         /\ arcs' = G2.arcs /\ edgmap' = G2.edgmap /\ edge_index' = G2.edge_index
  /\ sections' = Tail(sections)
  /\ UNCHANGED <<database, model, nodes, untabled, restrictions, ids, turn_table, descending>>

-----------------------------------------------------------------------------
(* add_turn_costs                                                          *)

InArcs(v)  == {a \in DOMAIN arcs : a[2] = v}
OutArcs(v) == {a \in DOMAIN arcs : a[1] = v}

\* operator < of edge descriptors compares the addresses of their properties.
Lower(a, b) == IF descending THEN arcs[a].edge_index > arcs[b].edge_index
                             ELSE arcs[a].edge_index < arcs[b].edge_index

\* The place of a among the arcs S, sorted, from 0.
Place(a, S) == Cardinality({b \in S : Lower(b, a)})

UTurn(a, b) == a[1] = b[2]

\* Where there is something to turn from and to: an index for every arc, and
\* a table by these indices.
create_turn_table(v) ==
  LET in == InArcs(v)  out == OutArcs(v) IN
  IF in = {} \/ out = {} THEN UNCHANGED <<arcs, turn_table>> ELSE
  /\ arcs' = [a \in DOMAIN arcs |-> [arcs[a] EXCEPT
       !.entry_point = IF a \in in THEN Place(a, in) ELSE arcs[a].entry_point,
       !.exit_point  = IF a \in out THEN Place(a, out) ELSE arcs[a].exit_point]]
  /\ turn_table' = [turn_table EXCEPT ![v] =
       [x \in (0 .. Cardinality(in) - 1) \X (0 .. Cardinality(out) - 1) |->
          IF \E a \in in, b \in out : UTurn(a, b) /\ x = <<Place(a, in), Place(b, out)>>
          THEN Infinity ELSE 0]]

CreateTurnTable ==
  /\ nodes = <<>> /\ sections = <<>> /\ untabled # {}
  /\ LET v == CHOOSE u \in untabled : \A w \in untabled : u <= w IN
       /\ create_turn_table(v)
       /\ untabled' = untabled \ {v}
  /\ UNCHANGED <<database, model, nodes, sections, restrictions, ids, vtxmap, edgmap,
                 edge_index, descending>>

\* Nodes of the ways whose refs are in W.
NodesOf(W) == UNION {Range(refs) : refs \in W}

\* Mutant: an only_ restriction binds those who come from elsewhere, too.
RestrictedFromAnywhere(r, nf, nt) ==
  r.only # (nf \in NodesOf(r.from) /\ nt \in NodesOf(r.to))

is_restricted_maneuver(r, nf, nt) ==
  LET nfFound == nf \in NodesOf(r.from)
      ntFound == nt \in NodesOf(r.to)
  IN  r.only # (nfFound /\ ntFound) /\ nfFound

\* The indices a restriction names in the table of its via.
Cells(r, v) ==
  {<<arcs[c[1]].entry_point, arcs[c[2]].exit_point>> :
     c \in {d \in InArcs(v) \X OutArcs(v) :
              is_restricted_maneuver(r, ids[d[1][1] + 1], ids[d[2][2] + 1])}}

AddTurnCost ==
  /\ nodes = <<>> /\ sections = <<>> /\ untabled = {} /\ restrictions # <<>>
  /\ LET r == Head(restrictions) IN
       IF r.via \notin DOMAIN vtxmap THEN UNCHANGED turn_table
       ELSE turn_table' = [turn_table EXCEPT ![vtxmap[r.via]] =
              [x \in DOMAIN @ |->
                 IF x \in Cells(r, vtxmap[r.via]) THEN Infinity ELSE @[x]]]
  /\ restrictions' = Tail(restrictions)
  /\ UNCHANGED <<database, model, nodes, sections, untabled, ids, vtxmap, arcs, edgmap,
                 edge_index, descending>>

Build == AddNode \/ AddSection \/ CreateTurnTable \/ AddTurnCost

\* The builder takes whatever is retrieved.
Next == (IsDatabase(database') /\ Retrieve(database')) \/ Build

Spec == Init /\ [][Next]_vars

-----------------------------------------------------------------------------
(* What is built.                                                          *)

Built == nodes = <<>> /\ sections = <<>> /\ untabled = {} /\ restrictions = <<>>

Vertices == 0 .. Len(ids) - 1

\* A cell for every arc into v and every arc out of it.
IsTable(table, v) ==
  /\ DOMAIN table = (0 .. Cardinality(InArcs(v)) - 1) \X (0 .. Cardinality(OutArcs(v)) - 1)
  /\ Range(table) \subseteq {0, Infinity}

\* Every variable has its type: all maps lead to vertices that are there.
TypeOK ==
  /\ database = NoDatabase \/ IsDatabase(database)
  /\ model \in Models
  /\ ids \in Seq(Id)
  /\ vtxmap \in [DOMAIN vtxmap -> Vertices]
  /\ DOMAIN arcs \subseteq Vertices \X Vertices
  /\ DOMAIN edgmap \subseteq Nat
  /\ \A i \in DOMAIN edgmap : edgmap[i] \in DOMAIN arcs
  /\ edge_index \in Nat
  /\ DOMAIN turn_table = Vertices
  /\ \A v \in Vertices : turn_table[v] = NoTable \/ IsTable(turn_table[v], v)

\* The arc search sizes its arrays by the number of arcs, addresses them by
\* edge_index and finds the arc again in _edgmap: the numbers must be dense and
\* the two maps inverse, although a section may be in several ways, and every
\* second one of them inserts nothing.
EdgesIndexed ==
  model = Compact =>
    /\ DOMAIN edgmap = 0 .. Cardinality(DOMAIN arcs) - 1
    /\ \A a \in DOMAIN arcs : edgmap[arcs[a].edge_index] = a

\* Tags that give a way one direction, by the direction.
OneWay == [along |-> {"motorway", "oneway=yes"}, against |-> {"oneway=-1"}]

\* A vehicle may not go in the direction d of a way that is said to be one-way
\* in the other direction only; who walks or cycles may.
Closed(tags, d) ==
  /\ DirectionsMatter
  /\ tags \cap OneWay[d] = {}
  /\ \E c \in DOMAIN OneWay : tags \cap OneWay[c] # {}

\* The ways of the database that may be used from x to its neighbour y.
Leads(w, x, y) ==
  LET way == database.ways[w] IN
  /\ Taken(way.tags)
  /\ \E i \in 1 .. Len(way.refs) - 1 :
       \/ way.refs[i] = x /\ way.refs[i + 1] = y /\ ~ Closed(way.tags, "along")
       \/ way.refs[i] = y /\ way.refs[i + 1] = x /\ ~ Closed(way.tags, "against")

\* Every ref of a way is a node of the database.
Within(d) == \A w \in DOMAIN d.ways : Range(d.ways[w].refs) \subseteq Range(d.nodes)

\* An arc joins two nodes exactly if some street leads from the one to the
\* other; but at the vertex that stands for the nodes missing from the
\* database there may be more.
StreetsJoined ==
  Built => \A u, v \in Vertices :
    /\ (\E w \in DOMAIN database.ways : Leads(w, ids[u + 1], ids[v + 1])) => <<u, v>> \in DOMAIN arcs
    /\ <<u, v>> \in DOMAIN arcs /\ (Within(database) \/ 0 \notin {u, v}) =>
         Leads(arcs[<<u, v>>].way, ids[u + 1], ids[v + 1])

\* What a restriction of the extract forbids: to leave its from way, along which
\* one came to via, by a way that is not allowed.
Adjoin(W, x, y) ==
  \E refs \in W : \E i \in 1 .. Len(refs) - 1 : {refs[i], refs[i + 1]} = {x, y}

Forbids(r, x, v, y) ==
  /\ r.via = v
  /\ Adjoin(r.from, x, v)
  /\ IF r.only THEN ~ Adjoin(r.to, v, y) ELSE Adjoin(r.to, v, y)

\* No street runs past a way of a restriction, between two of its nodes of
\* which only the via is next to the other one.
Unambiguous(d) ==
  \A k \in DOMAIN d.restrictions :
    LET r == d.restrictions[k] IN
    \A W \in {r.from, r.to} : \A x \in NodesOf(W) :
      (\E w \in DOMAIN d.ways : Leads(w, x, r.via) \/ Leads(w, r.via, x)) => Adjoin(W, x, r.via)

\* What the search reads, through the indices of two arcs, from the table of the
\* vertex between them, is infinite exactly for U-turns and for the manoeuvres
\* that a restriction forbids, in whatever order the arcs are sorted.
TurnsForbidden ==
  Built /\ model = Compact /\ Within(database) /\ Unambiguous(database) =>
    \A a, b \in DOMAIN arcs : a[2] = b[1] =>
      LET cell == turn_table[a[2]][<<arcs[a].entry_point, arcs[b].exit_point>>] IN
      cell = Infinity <=>
        \/ UTurn(a, b)
        \/ \E r \in Range(database.restrictions) :
             Forbids(r, ids[a[1] + 1], ids[a[2] + 1], ids[b[2] + 1])

=============================================================================
