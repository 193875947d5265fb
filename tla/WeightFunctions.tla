-------------------------- MODULE WeightFunctions --------------------------
(***************************************************************************)
(* What an arc costs a search on foot or by car: its length, or what the   *)
(* weight functor of the strategy makes of its length and of the highway   *)
(* value of its way.  The doubles of the code are integers here: lengths   *)
(* in centimetres, weighted ones in hundredths of them, and times in units *)
(* of which all speeds give a whole number, 2502500 to the second.         *)
(***************************************************************************)
EXTENDS Naturals

\* highwayK, in the order in which std::map keeps tags.
highwayK == <<"area:highway", "highway", "highway_1">>

\* tags: a function from keys to values.
get_highway_value(tags) ==
  IF \A i \in DOMAIN highwayK : highwayK[i] \notin DOMAIN tags THEN "nd"
  ELSE tags[highwayK[CHOOSE i \in DOMAIN highwayK :
               /\ highwayK[i] \in DOMAIN tags
               /\ \A j \in 1 .. i - 1 : highwayK[j] \notin DOMAIN tags]]

\* The metres between the ends of an arc, and a centimetre: no arc is without length.
get_model_edge_weight(metres) == 100 * metres + 1

\* What the builders store with every arc they make of a way.
Edge(arc) ==
  [weight |-> get_model_edge_weight(arc.metres), highway_value |-> get_highway_value(arc.tags)]

-----------------------------------------------------------------------------
\* The functors

identity_weight_functor(e) == e.weight

Priority(hval) ==
  CASE hval \in {"primary", "primary_link"} -> 40
    [] hval \in {"secondary", "secondary_link"} -> 30
    [] hval \in {"cycleway", "steps", "track", "bridleway", "path", "viaduct", "private",
                 "via_ferrata"} -> 15
    [] hval \in {"residential", "living_street", "residential_link"} -> 10
    [] hval \in {"pedestrian", "footway", "corridor"} -> 5
    [] OTHER -> 25

\* Mutant: the priority alone is the coefficient.
QuietestWithoutBase(e) == e.weight * Priority(e.highway_value)

quietest_pedestrian_functor(e) == e.weight * (50 + Priority(e.highway_value))

\* In km/h.
MaxSpeed(hval) ==
  CASE hval \in {"motorway", "motorway_link"} -> 130
    [] hval \in {"trunk", "trunk_link"} -> 90
    [] hval \in {"primary", "primary_link"} -> 70
    [] hval \in {"secondary", "secondary_link"} -> 55
    [] hval \in {"residential", "residential_link", "living_street"} -> 35
    [] hval \in {"pedestrian", "footway"} -> 15
    [] OTHER -> 45

\* weight / (max_speed / 3.6), where 3.6 / 9009000 of a second is one.
fastest_road_functor(e) == e.weight * (90090 \div MaxSpeed(e.highway_value))

\* A strategy that is not known means the shortest way, and so does that of the
\* bicycle on a graph whose weights are not pairs.
get_functor_for(strategy, edges) ==
  [a \in DOMAIN edges |->
    CASE strategy = "quietest_pedestrian_weight_function" -> quietest_pedestrian_functor(edges[a])
      [] strategy = "fastest_road_weight_function" -> fastest_road_functor(edges[a])
      [] OTHER -> identity_weight_functor(edges[a])]

=============================================================================
