---------------------------- MODULE RoadNetwork ----------------------------
(***************************************************************************)
(* construct_model and build_graph: from the file of an extract, through   *)
(* the element caches and the tables of the OSM database, to the rows the  *)
(* graph builder adds.  GraphBuild takes any database for its input; this  *)
(* is how it comes by one.                                                 *)
(*                                                                         *)
(* A behaviour is one model built.  The database is empty, or holds what   *)
(* an earlier model has imported.  The rows are added when all have been   *)
(* retrieved; the code adds the nodes before it asks for the ways, but on  *)
(* the same thread, and what it has added is not read by the queries.      *)
(***************************************************************************)
EXTENDS GraphBuild, OsmDatabase

CONSTANTS
  Extracts,  \* what the files may hold, in the form FileOf writes
  MaxRead    \* ways retrieved at most, for a query that is run again and again

\* Ids are positive and name one element of their kind.  A tag is neither the end
\* of the tags of a dense node nor NULL.
IsExtract(e) ==
  /\ e \in [nodes : Seq([id : Id, lon : Int, tags : SUBSET STRING]),
            ways : Seq([id : Nat, refs : Seq(Id), tags : SUBSET Tag]),
            relations : Seq([id : Nat, tags : SUBSET STRING,
                             members : Seq([type : STRING, id : Nat, role : STRING])]),
            dense : BOOLEAN, offset : Int, packed : STRING]
  /\ \A S \in {e.nodes, e.ways, e.relations} :
       /\ \A i \in DOMAIN S : S[i].id > 0 /\ IsFiniteSet(S[i].tags) /\ {Stop, NoTag} \cap S[i].tags = {}
       /\ \A i, j \in DOMAIN S : S[i].id = S[j].id => i = j
  /\ \A w \in DOMAIN e.ways : 0 \notin Range(e.ways[w].refs)
  /\ \A r \in DOMAIN e.relations : \A mem \in Range(e.relations[r].members) :
       mem.type = "node" => mem.id \in Id

ASSUME ExtractAssumption ==
  /\ Id \subseteq Nat /\ MaxRead \in Nat
  /\ \A e \in Extracts : IsExtract(e)

VARIABLES
  extract,  \* what the file holds
  file,     \* its blobs still to be read
  cached,   \* _cached_nds, _cached_wys, _cached_rls
  tables,   \* the database on disk
  phase,    \* what construct_model is at
  rows_of,  \* the rows of the query that is read
  qit,      \* the row its iterator is at
  found,    \* nds, wys and trs
  side      \* the restriction that is read, NoSide between two of them

import == <<extract, file, cached, tables, phase, rows_of, qit, found, side>>

NoSide == [id |-> Null]
NoElements == [nodes |-> <<>>, ways |-> <<>>, relations |-> <<>>]
NothingFound == [nodes |-> <<>>, ways |-> <<>>, restrictions |-> <<>>]

\* The callbacks cache the elements of a blob; blobs of no data are passed over.
CacheElements(cache, blob) ==
  IF blob.type # "OSMData" THEN cache ELSE
  LET groups == read_blob(blob)
      of     == [g \in DOMAIN groups |-> parse_primitivegroup(groups[g], blob.lon_offset)]
  IN  [nodes |-> cache.nodes \o FlattenSeq([g \in DOMAIN of |-> of[g].nodes]),
       ways  |-> cache.ways \o FlattenSeq([g \in DOMAIN of |-> of[g].ways]),
       relations |-> cache.relations \o FlattenSeq([g \in DOMAIN of |-> of[g].relations])]

\* What is cached after each of the blobs.
Cached(blobs) ==
  LET after[n \in 0 .. Len(blobs)] ==
        IF n = 0 THEN NoElements ELSE CacheElements(after[n - 1], blobs[n])
  IN  after[Len(blobs)]

\* The database after an import of the file of e.
Imported(e) ==
  LET read == Cached(FileOf(e)) IN
  insert_cached_relations(
    insert_cached_ways(insert_cached_nodes(EmptyTables, read.nodes), read.ways), read.relations)

RoadInit ==
  /\ Init
  /\ extract \in Extracts
  /\ file = FileOf(extract)
  /\ cached = NoElements
  /\ tables \in {EmptyTables, Imported(extract)}
  /\ phase = "open"
  /\ rows_of = <<>> /\ qit = 1
  /\ found = NothingFound /\ side = NoSide

-----------------------------------------------------------------------------
(* The import.                                                             *)

\* What the queries may return.
Results(T, name) ==
  CASE name = "junctions" -> {NodeRows(T, down) : down \in BOOLEAN}
    [] name = "segments"  -> {WayRows(T)}
    [] name = "turns"     -> {RestrictionRows(T)}

\* A query of the tables T, its iterator at the first row.
Query(T, name) ==
  /\ phase' = name
  /\ \E K \in Results(T, name) : rows_of' = Ordered(K)
  /\ qit' = 1

\* if (_dbh.empty())
OpenDatabase ==
  /\ phase = "open"
  /\ IF tables.node = {} THEN phase' = "parse" /\ UNCHANGED <<rows_of, qit>>
     ELSE Query(tables, "junctions")
  /\ UNCHANGED <<extract, file, cached, tables, found, side>>

ParseBlob ==
  /\ phase = "parse" /\ file # <<>>
  /\ file' = Tail(file)
  /\ cached' = CacheElements(cached, Head(file))
  /\ UNCHANGED <<extract, tables, phase, rows_of, qit, found, side>>

\* The three transactions of commit.
InsertNodes ==
  /\ phase = "parse" /\ file = <<>>
  /\ tables' = insert_cached_nodes(tables, cached.nodes)
  /\ phase' = "ways"
  /\ UNCHANGED <<extract, file, cached, rows_of, qit, found, side>>

InsertWays ==
  /\ phase = "ways"
  /\ tables' = insert_cached_ways(tables, cached.ways)
  /\ phase' = "relations"
  /\ UNCHANGED <<extract, file, cached, rows_of, qit, found, side>>

InsertRelations ==
  /\ phase = "relations"
  /\ tables' = insert_cached_relations(tables, cached.relations)
  /\ cached' = NoElements
  /\ Query(tables', "junctions")
  /\ UNCHANGED <<extract, file, found, side>>

-----------------------------------------------------------------------------
(* retrieve.  An exception ends build_graph.                               *)

FetchNode ==
  /\ phase = "junctions" /\ ~ AtEnd(rows_of, qit)
  /\ LET n == NodeAt(rows_of, qit) IN
     /\ qit' = n.q
     /\ IF n.element = Thrown THEN phase' = "failed" /\ UNCHANGED found
        ELSE found' = [found EXCEPT !.nodes = Append(@, n.element)] /\ UNCHANGED phase
  /\ UNCHANGED <<extract, file, cached, tables, rows_of, side>>

EndOfNodes ==
  /\ phase = "junctions" /\ AtEnd(rows_of, qit)
  /\ Query(tables, "segments")
  /\ UNCHANGED <<extract, file, cached, tables, found, side>>

FetchWay ==
  /\ phase = "segments" /\ ~ AtEnd(rows_of, qit) /\ Len(found.ways) < MaxRead
  /\ LET w == WayAt(rows_of, qit) IN
     /\ qit' = w.q
     /\ IF w.element = Thrown THEN phase' = "failed" /\ UNCHANGED found
        ELSE found' = [found EXCEPT !.ways = Append(@, w.element)] /\ UNCHANGED phase
  /\ UNCHANGED <<extract, file, cached, tables, rows_of, side>>

EndOfWays ==
  /\ phase = "segments" /\ AtEnd(rows_of, qit)
  /\ IF model = Compact THEN Query(tables, "turns")
     ELSE phase' = "retrieved" /\ UNCHANGED <<rows_of, qit>>
  /\ UNCHANGED <<extract, file, cached, tables, found, side>>

OpenRestriction ==
  /\ phase = "turns" /\ ~ AtEnd(rows_of, qit) /\ side = NoSide
  /\ LET r == rows_of[qit] IN
       side' = [id |-> r.id, via |-> r.via, only |-> r.restriction = "restriction=only",
                role |-> r.role, from |-> {}, to |-> {}]
  /\ UNCHANGED <<extract, file, cached, tables, phase, rows_of, qit, found>>

\* if (fromFound && toFound)
Kept(r) == r.from # {} /\ r.to # {}

\* One way after the other goes to the side its role names, as long as the rows
\* are of the same relation.  A role that is neither "from" nor "to", though it
\* is LIKE one of them, is looked at again and again.
ReadSide ==
  /\ phase = "turns" /\ side # NoSide /\ side.role \in {"from", "to"}
  /\ LET way == SideAt(rows_of, qit)
         r   == IF side.role = "from" THEN [side EXCEPT !.from = @ \cup {way.refs}]
                ELSE [side EXCEPT !.to = @ \cup {way.refs}]
     IN  /\ qit' = way.q
         /\ IF ~ AtEnd(rows_of, way.q) /\ rows_of[way.q].id = side.id
            THEN side' = [r EXCEPT !.role = rows_of[way.q].role] /\ UNCHANGED found
            ELSE /\ side' = NoSide
                 /\ found' = IF ~ Kept(r) THEN found ELSE
                      [found EXCEPT !.restrictions = Append(@,
                         [via |-> r.via, only |-> r.only, from |-> r.from, to |-> r.to])]
  /\ UNCHANGED <<extract, file, cached, tables, phase, rows_of>>

EndOfRestrictions ==
  /\ phase = "turns" /\ AtEnd(rows_of, qit) /\ side = NoSide
  /\ phase' = "retrieved"
  /\ UNCHANGED <<extract, file, cached, tables, rows_of, qit, found, side>>

-----------------------------------------------------------------------------

Import ==
  \/ OpenDatabase \/ ParseBlob \/ InsertNodes \/ InsertWays \/ InsertRelations
  \/ FetchNode \/ EndOfNodes \/ FetchWay \/ EndOfWays
  \/ OpenRestriction \/ ReadSide \/ EndOfRestrictions

\* The graph builder gets the ids of the nodes, the ways and the restrictions.
HandOver ==
  /\ phase = "retrieved"
  /\ Retrieve([nodes |-> [i \in DOMAIN found.nodes |-> found.nodes[i].id],
               ways |-> [i \in DOMAIN found.ways |->
                           [refs |-> found.ways[i].refs, tags |-> found.ways[i].tags]],
               restrictions |-> found.restrictions])
  /\ phase' = "build"
  /\ UNCHANGED <<extract, file, cached, tables, rows_of, qit, found, side>>

RoadNext ==
  \/ Import /\ UNCHANGED vars
  \/ HandOver
  \/ Build /\ UNCHANGED import

\* Building a model is a straight run on the thread that builds the planner.
RoadSpec == RoadInit /\ [][RoadNext]_<<vars, import>> /\ WF_<<vars, import>>(RoadNext)

-----------------------------------------------------------------------------
(* What the extract says.                                                  *)

\* Streets, and outlines of areas that may be walked across, as of all others.
IsRoad(e, w) ==
  \/ w.tags \cap (HighwayV \ NoStreetV) # {}
  \/ \E r \in Range(e.relations) : \E mem \in Range(r.members) :
       mem.type = "way" /\ mem.id = w.id /\ mem.role = "outer"

RoadsOf(e) == {w \in Range(e.ways) : IsRoad(e, w)}

JunctionsOf(e) ==
  {[id |-> n.id, lon |-> n.lon, ele |-> "ele" \in n.tags, tags |-> n.tags \ {"ele"}] :
     n \in {m \in Range(e.nodes) : \E w \in RoadsOf(e) : m.id \in Range(w.refs)}}

SideOf(e, r, role) ==
  {w.refs : w \in {v \in RoadsOf(e) : \E mem \in Range(r.members) :
                     mem.type = "way" /\ mem.id = v.id /\ mem.role = role}}

Vias(r) == {mem.id : mem \in {v \in Range(r.members) : v.type = "node" /\ v.role = "via"}}

\* One for each relation that has a tag, a via and a road on either side.
RestrictionsOf(e) ==
  LET said(r) == [via |-> CHOOSE v \in Vias(r) : TRUE, only |-> "restriction=only" \in r.tags,
                  from |-> SideOf(e, r, "from"), to |-> SideOf(e, r, "to")]
      complete(r) == /\ r.tags \cap RestrictionKV # {} /\ Vias(r) # {}
                     /\ SideOf(e, r, "from") # {} /\ SideOf(e, r, "to") # {}
  IN  {<<r.id, said(r)>> : r \in {s \in Range(e.relations) : complete(s)}}

\* What the queries take for granted: no road without nodes, one tag and one via
\* for a restriction, roles in lower case; and the reader, compressed data and no
\* offset in a block of dense nodes.
Regular(e) ==
  /\ e.packed = "zlib_data"
  /\ e.dense => e.offset = 0
  /\ \A w \in RoadsOf(e) : w.refs # <<>>
  /\ \A r \in Range(e.relations) :
       /\ Cardinality(r.tags \cap RestrictionKV) <= 1 /\ Cardinality(Vias(r)) <= 1
       /\ \A mem \in Range(r.members) : mem.role # "From"

OneEach(s, S) == Range(s) = S /\ Len(s) = Cardinality(S)

\* What is retrieved, row after row by the counts of tags and references that
\* were stored with the elements, is what the extract says of the road network:
\* no tag or reference has slipped to a neighbour, no element is lost or doubled.
NetworkRecovered ==
  Regular(extract) =>
    /\ phase # "failed"
    /\ phase \in {"retrieved", "build"} =>
         /\ OneEach(found.nodes, JunctionsOf(extract))
         /\ OneEach(found.ways, RoadsOf(extract))
         /\ model = Compact =>
              /\ Range(found.restrictions) = {r[2] : r \in RestrictionsOf(extract)}
              /\ Len(found.restrictions) = Cardinality(RestrictionsOf(extract))

\* The model of a regular extract is built at last: all rows are passed, also
\* those of a restriction, which are looped over by their roles.
NetworkBuilt == (phase = "open" /\ Regular(extract)) ~> (phase = "build" /\ Built)

=============================================================================
