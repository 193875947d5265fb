--------------------------- MODULE MCRoadNetwork ---------------------------
(***************************************************************************)
(* Extracts of a crossroads of four nodes around node 2, with a street     *)
(* that others share sections with; node 9 lies outside the extract, node  *)
(* 6 on no road.                                                           *)
(***************************************************************************)
EXTENDS RoadNetwork

MCId == {0, 1, 2, 3, 4, 5, 6, 9}

Main == <<1, 2, 3>>

\* Ways across, one of them sharing a section with Main, one leaving the box,
\* one running past it.
Crossings == {<<4, 2, 5>>, <<4, 2, 1>>, <<3, 2, 1>>, <<4, 2, 9>>, <<9, 2, 4>>, <<1, 3>>}

TagSets == {{}, {"street"}, {"street", "oneway=yes"}, {"street", "oneway=-1"},
            {"motorway", "oneway=-1"}, {"motorway_link"}, {"trunk", "foot=no"}, {"cycleway"},
            {"track"}, {"footway", "motor_vehicle=yes"}, {"street", "access=no"},
            {"street", "motor_vehicle=no", "bicycle=no"}, {"construction"}}

\* In planet order, dense; and the other way round, plain, with an offset.
Dense1 == <<[id |-> 1, lon |-> 4, tags |-> {"ele"}], [id |-> 2, lon |-> 2, tags |-> {"ele", "crossing"}],
            [id |-> 3, lon |-> 7, tags |-> {}], [id |-> 4, lon |-> 1, tags |-> {"crossing"}],
            [id |-> 5, lon |-> 5, tags |-> {}], [id |-> 6, lon |-> 3, tags |-> {"crossing"}]>>
Plain  == [i \in 1 .. 6 |-> [Dense1[7 - i] EXCEPT !.tags = {}]]

Way(id, refs, tags) == [id |-> id, refs |-> refs, tags |-> tags]
Member(type, id, role) == [type |-> type, id |-> id, role |-> role]
Relation(id, tags, members) == [id |-> id, tags |-> tags, members |-> members]

\* The crossing is a road at least as the outline of an area.
Area == Relation(31, {"multipolygon"}, <<Member("way", 12, "outer"), Member("way", 13, "inner")>>)

Restriction(id, via, from, to, tag) ==
  Relation(id, {tag}, <<Member("way", from, "from"), Member("node", via, "via"), Member("way", to, "to")>>)

\* A side that is no road, and a side of two ways.
Broken == Relation(33, {"restriction=no"},
            <<Member("way", 13, "from"), Member("node", 2, "via"), Member("way", 12, "to")>>)
Wide == Relation(34, {"restriction=no"},
            <<Member("way", 11, "from"), Member("way", 12, "from"), Member("node", 2, "via"),
              Member("way", 11, "to")>>)

Restrictions ==
  {<<Restriction(32, via, 11, 12, tag)>> : via \in {2, 9}, tag \in {"restriction=no", "restriction=only"}}
    \cup {<<Broken, Wide>>,
          <<Restriction(32, 2, 12, 11, "restriction:hgv=no"), Restriction(35, 2, 11, 12, "restriction=only")>>}

Extract(crossing, tags, relations, dense) ==
  [nodes |-> IF dense THEN Dense1 ELSE Plain, dense |-> dense, offset |-> IF dense THEN 0 ELSE 3,
   packed |-> "zlib_data",
   ways |-> <<Way(11, Main, {"street"}), Way(12, crossing, tags), Way(13, <<3, 6>>, {"building"})>>,
   relations |-> relations]

\* Each with one of the things the queries take for granted left out.
Base == Extract(<<4, 2, 5>>, {"street"}, <<Restriction(32, 2, 11, 12, "restriction=no")>>, TRUE)

Irregular ==
  {[Base EXCEPT !.offset = 3], [Base EXCEPT !.packed = "raw"],
   [Base EXCEPT !.ways[1].refs = <<>>], [Base EXCEPT !.ways[2].refs = <<>>],
   [Base EXCEPT !.relations[1].members[1].role = "From"],
   [Base EXCEPT !.relations[1].tags = {"restriction=no", "restriction:hgv=no"}]}

MCExtracts ==
  {Extract(c, t, <<Area>>, d) : c \in Crossings, t \in TagSets, d \in BOOLEAN}
    \cup {Extract(c, t, r, d) : c \in Crossings, r \in Restrictions, d \in BOOLEAN,
                                t \in {{"street"}, {"street", "oneway=yes"}, {"construction"}}}
    \cup Irregular

MCModels == {Compact, "road_simplified_model", "pedestrian_simplified_model",
             "bicriterion_bicycle_model"}

=============================================================================
