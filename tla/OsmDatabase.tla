---------------------------- MODULE OsmDatabase ----------------------------
(***************************************************************************)
(* sqlite_database_helper_t: the tables of the OSM database, what the      *)
(* three insertions add to them, and the rows and elements of the three    *)
(* queries.                                                                *)
(*                                                                         *)
(* Element = [id, lon, tags], [id, tags, refs], [id, tags, members].       *)
(***************************************************************************)
EXTENDS Integers, Sequences, FiniteSets, SequencesExt, OsmFeatures, PbfFile

Null  == -1      \* NULL in a column of numbers
NoTag == "NULL"  \* NULL in k and v

\* Values of tag highway; the ones the view leaves out.
HighwayV  == {"street", "construction"} \cup motorwayV \cup trunkV \cup pedestrianV \cup cyclewayV
NoStreetV == {"construction"}

RestrictionKV == {"restriction=no", "restriction=only", "restriction:hgv=no"}

\* LIKE compares without regard to case.
Like(role, pattern) == role = pattern \/ (role = "From" /\ pattern = "from")

EmptyTables == [node |-> {}, way |-> {}, relation |-> {}, node_in_way |-> {},
                member_in_relation |-> {}, tag |-> {}]

Tags(element, e, tags) == {[of |-> element, id |-> e.id, kv |-> t] : t \in tags}

\* Mutant: the elevation is counted as a tag of the table.
CountingElevation(T, nds) ==
  [T EXCEPT
    !.node = @ \cup {[id |-> n.id, lon |-> n.lon, ele |-> "ele" \in n.tags,
                      ntags |-> Cardinality(n.tags)] : n \in Range(nds)},
    !.tag = @ \cup UNION {Tags("node", n, n.tags \ {"ele"}) : n \in Range(nds)}]

\* The elevation has a column of its own.
insert_cached_nodes(T, nds) ==
  [T EXCEPT
    !.node = @ \cup {[id |-> n.id, lon |-> n.lon, ele |-> "ele" \in n.tags,
                      ntags |-> Cardinality(n.tags \ {"ele"})] : n \in Range(nds)},
    !.tag = @ \cup UNION {Tags("node", n, n.tags \ {"ele"}) : n \in Range(nds)}]

insert_cached_ways(T, wys) ==
  [T EXCEPT
    !.way = @ \cup {[id |-> w.id, nrefs |-> Len(w.refs), ntags |-> Cardinality(w.tags)] : w \in Range(wys)},
    !.node_in_way = @ \cup UNION {{[way_id |-> w.id, node_id |-> w.refs[i], order_ |-> i - 1] :
                                     i \in DOMAIN w.refs} : w \in Range(wys)},
    !.tag = @ \cup UNION {Tags("way", w, w.tags) : w \in Range(wys)}]

insert_cached_relations(T, rls) ==
  [T EXCEPT
    !.relation = @ \cup {r.id : r \in Range(rls)},
    !.member_in_relation = @ \cup UNION {{[id_of_relation |-> r.id, type |-> mem.type, id |-> mem.id,
                                           role |-> mem.role] : mem \in Range(r.members)} : r \in Range(rls)},
    !.tag = @ \cup UNION {Tags("relation", r, r.tags) : r \in Range(rls)}]

-----------------------------------------------------------------------------
(* The views.                                                              *)

highway(T) ==
  {w \in T.way :
     \/ \E t \in T.tag : t.of = "way" /\ t.id = w.id /\ t.kv \in HighwayV \ NoStreetV
     \/ \E mem \in T.member_in_relation : mem.type = "way" /\ mem.id = w.id /\ Like(mem.role, "outer")}

\* A row for each combination of a via node, a from member, a to member and a
\* tag.  Who is no way has NULL for way_from or way_to.
node_as_via_restriction(T) ==
  LET Members(role) == {mem \in T.member_in_relation : Like(mem.role, role)}
      WayOf(mem) == IF mem.type = "way" THEN mem.id ELSE Null
  IN  {[id |-> c[1].id_of_relation, via |-> c[1].id,
        role_from |-> c[2].role, way_from |-> WayOf(c[2]),
        role_to |-> c[3].role, way_to |-> WayOf(c[3]), restriction |-> c[4].kv] :
        c \in {d \in Members("via") \X Members("from") \X Members("to") \X T.tag :
                 /\ d[1].type = "node"
                 /\ d[4].of = "relation" /\ d[4].kv \in RestrictionKV
                 /\ {d[2].id_of_relation, d[3].id_of_relation, d[4].id} = {d[1].id_of_relation}}}

-----------------------------------------------------------------------------
(* The rows of the queries.                                                *)

\* The first of the columns that differ decides.
Before(a, b) == \E i \in DOMAIN a : a[i] < b[i] /\ \A j \in 1 .. i - 1 : a[j] = b[j]

\* The rows of K, each by how many come before it.  A row comes with its key.
Ordered(K) ==
  LET place(k) == Cardinality({l \in K : Before(l[1], k[1])})
  IN  FlattenSeq([n \in 1 .. Cardinality(K) |->
        SetToSeq({k[2] : k \in {l \in K : place(l) = n - 1}})])

\* LEFT JOIN tag: a row for each tag, or one with NULL.
TagsOf(T, element, e) ==
  LET kvs == {t.kv : t \in {u \in T.tag : u.of = element /\ u.id = e.id}} IN
  IF kvs = {} THEN {NoTag} ELSE kvs

\* No ORDER BY: node after node, from either end of the table.
NodeRows(T, down) ==
  LET roads == {w.id : w \in highway(T)}
      used == {r.node_id : r \in {s \in T.node_in_way : s.way_id \in roads}}
      row(n, t) == [id |-> n.id, lon |-> n.lon, ele |-> n.ele, ntags |-> n.ntags, kv |-> t]
  IN  UNION {{<<<<IF down THEN - n.id ELSE n.id>>, row(n, t)>> : t \in TagsOf(T, "node", n)} :
               n \in {m \in T.node : m.id \in used}}

\* The tags of a way, whose order_ is NULL, come before its references.
WayRows(T) ==
  LET row(w, t, r, o) == <<<<w.id, o>>, [id |-> w.id, ntags |-> w.ntags, nrefs |-> w.nrefs,
                                         kv |-> t, node_id |-> r, order_ |-> o]>>
      roads == highway(T)
  IN  UNION {{row(w, t, Null, Null) : t \in TagsOf(T, "way", w)}
             \cup {row(w, NoTag, s.node_id, s.order_) :
                     s \in {r \in T.node_in_way : r.way_id = w.id}} : w \in roads}

\* ORDER BY id, way_from DESC, order_from, way_to, order_to: from ways first, with
\* NULL for way_to and order_to, and the other way round.
RestrictionRows(T) ==
  LET row(v, role, w, r) == [id |-> v.id, restriction |-> v.restriction, via |-> v.via, role |-> role,
                             way |-> w.id, nrefs |-> w.nrefs, nd |-> r.node_id, order_ |-> r.order_]
      from(v, w, r) == <<<<v.id, - w.id, r.order_, Null, Null>>, row(v, v.role_from, w, r)>>
      to(v, w, r)   == <<<<v.id, - Null, Null, w.id, r.order_>>, row(v, v.role_to, w, r)>>
      passed == {c \in node_as_via_restriction(T) \X highway(T) \X T.node_in_way :
                   c[3].way_id = c[2].id}
  IN  {from(c[1], c[2], c[3]) : c \in {d \in passed : d[2].id = d[1].way_from}}
      \cup {to(c[1], c[2], c[3]) : c \in {d \in passed : d[2].id = d[1].way_to}}

-----------------------------------------------------------------------------
(* The iterator, at row q of rows; past them it is at the end.             *)

AtEnd(rows, q) == q > Len(rows)

\* ++qit, n times.  Past the end SQLite runs the statement once more.
Skip(rows, q, n) == ((q - 1 + n) % (Len(rows) + 1)) + 1

\* The n rows from q on, or what is read there at the end: columns of NULL.
Block(rows, q, n) ==
  [i \in 1 .. n |-> LET p == Skip(rows, q, i - 1) IN
     IF AtEnd(rows, p) THEN [kv |-> NoTag, node_id |-> Null, nd |-> Null] ELSE rows[p]]

AtLeastOne(n) == IF n = 0 THEN 1 ELSE n

\* A number that is NULL is read as 0; text that is NULL makes std::string throw.
Number(x) == IF x = Null THEN 0 ELSE x
Thrown == [id |-> Null]

\* What an iteration of a loop of retrieve makes of the rows at q.
NodeAt(rows, q) ==
  LET r == rows[q]
      tags == {b.kv : b \in Range(Block(rows, q, r.ntags))}
  IN  [element |-> IF NoTag \in tags THEN Thrown
                   ELSE [id |-> r.id, lon |-> r.lon, ele |-> r.ele, tags |-> tags],
       q |-> Skip(rows, q, AtLeastOne(r.ntags))]

WayAt(rows, q) ==
  LET r    == rows[q]
      tags == {b.kv : b \in Range(Block(rows, q, r.ntags))}
      q1   == Skip(rows, q, AtLeastOne(r.ntags))
      refs == [i \in 1 .. r.nrefs |-> Number(Block(rows, q1, r.nrefs)[i].node_id)]
  IN  [element |-> IF NoTag \in tags THEN Thrown ELSE [id |-> r.id, tags |-> tags, refs |-> refs],
       q |-> Skip(rows, q1, AtLeastOne(r.nrefs))]

\* Mutant: the iterator does not move on.
SideStandingStill(rows, q) ==
  LET r == rows[q] IN
  [refs |-> [i \in 1 .. r.nrefs |-> Number(Block(rows, q, r.nrefs)[i].nd)], q |-> q]

\* One way of one side of a restriction.
SideAt(rows, q) ==
  LET r == rows[q] IN
  [refs |-> [i \in 1 .. r.nrefs |-> Number(Block(rows, q, r.nrefs)[i].nd)],
   q |-> Skip(rows, q, AtLeastOne(r.nrefs))]

=============================================================================
