--------------------------- MODULE TransitNetwork ---------------------------
(***************************************************************************)
(* The life of a public transport planner: the timetable is built from its *)
(* document and saved, or loaded from what an earlier run saved, and a     *)
(* search reads it.  Raptor takes the stops and the trips of each route    *)
(* for constants: here they are those of the document searched, and the    *)
(* offsets of the timetable must lead to them.                             *)
(*                                                                         *)
(* The process may be stopped before the search, in the middle of saving,  *)
(* too, and be started again.  The documents of Documents are only         *)
(* retrieved; that of Searched is searched afterwards.                     *)
(***************************************************************************)
EXTENDS Raptor, Timetable

CONSTANT Searched

\* The counters of a timetable do not wrap: n_stops of a route has 16 bits, the
\* offsets have 32.
ASSUME DocumentAssumption ==
  /\ \A doc \in Documents :
       /\ Trusted(doc)
       /\ \A l \in DOMAIN doc : Len(WayOf(doc[l])) < 65536
       /\ Len(Entries(doc)) \div 65536 < 65536
  /\ Searched \in Documents

\* The network that the search is held to is what the document searched says, its
\* lines and its stops numbered from 0 in the order of their ids.
ASSUME NetworkAssumption ==
  LET directions == Ascending(Directions(Searched))
      stops      == Ascending(StopIds(Searched))
  IN  /\ Route = 0 .. Len(directions) - 1 /\ Stop = 0 .. Len(stops) - 1
      /\ \A r \in Route :
           LET line == LineOf(Searched, directions[r + 1]) IN
           /\ RouteStops[r] = [i \in DOMAIN WayOf(line) |-> Index(stops, WayOf(line)[i])]
           /\ Trips[r] = TripsOf(line)

\* A query may come from where no stop is near.
ASSUME QueriesAssumption == <<>> \in Origins \cap Destinations

VARIABLES
  asked,       \* whether the query has been made
  serialized,  \* the file of the cache: Absent, Partial or a timetable
  refused      \* whether retrieve_public_transport has thrown

process == <<timetable, asked, refused>>

Absent  == [file |-> "absent"]
Partial == [file |-> "partial"]

\* The cache may be filled already: what a run has saved is what it has built,
\* so the file of an earlier run is reached by Restart.
TransitInit ==
  /\ TimetableInit
  /\ Init /\ sources = <<>> /\ targets = <<>>
  /\ asked = FALSE /\ refused = FALSE
  /\ serialized = Absent

ParseTimetable ==
  /\ serialized = Absent
  /\ TimetableNext
  /\ UNCHANGED <<vars, asked, serialized, refused>>

\* save_public_transport
SaveTimetable ==
  /\ Built /\ serialized = Absent
  /\ serialized' = tt
  /\ UNCHANGED <<vars, process>>

Loading == ~ Built /\ ~ refused /\ serialized # Absent

\* Mutant: what could be read of a file is taken for the timetable.
LoadTimetableUnchecked ==
  /\ Loading
  /\ tt' = IF serialized = Partial THEN rtimetable(sr_map, rs_map, rtstime_map) ELSE serialized
  /\ UNCHANGED <<vars, document, todo, sr_map, rs_map, rtstime_map, asked, serialized, refused>>

\* load_public_transport, instead of parsing the document.
LoadTimetable ==
  /\ Loading /\ serialized # Partial
  /\ tt' = serialized
  /\ UNCHANGED <<vars, document, todo, sr_map, rs_map, rtstime_map, asked, serialized, refused>>

\* The archive throws, and nothing removes the file.
LoadRefused ==
  /\ Loading /\ serialized = Partial
  /\ refused' = TRUE
  /\ UNCHANGED <<vars, timetable, asked, serialized>>

\* Only the file outlives the process.
Restart ==
  /\ Built /\ ~ asked
  /\ document' = document
  /\ todo' = Entries(document)
  /\ sr_map' = EmptyMap /\ rs_map' = EmptyMap /\ rtstime_map' = EmptyMap
  /\ tt' = NoTimetable
  /\ serialized' \in IF serialized = Absent THEN {Absent, Partial} ELSE {serialized}
  /\ UNCHANGED <<vars, asked, refused>>

\* The stops near the two ends of a query.
Ask ==
  /\ Built /\ serialized # Absent /\ document = Searched /\ ~ asked
  /\ asked' = TRUE
  /\ sources' \in Origins /\ targets' \in Destinations
  /\ UNCHANGED <<tables, pc, back, pareto_set, timetable, serialized, refused>>

Search == asked /\ Next /\ UNCHANGED <<process, serialized>>

TransitNext ==
  \/ ParseTimetable \/ SaveTimetable \/ LoadTimetable \/ LoadRefused
  \/ Restart \/ Ask \/ Search

TransitSpec == TransitInit /\ [][TransitNext]_<<vars, process, serialized>>

-----------------------------------------------------------------------------

\* What the search finds through the offsets of timetable t is the network.
ReadAsNetwork(t) ==
  /\ t.n_routes = Cardinality(Route) /\ t.n_stops = Cardinality(Stop)
  /\ \A r \in Route :
       LET trips == ScannedTrips(t, r + 1) IN
       /\ ScannedStops(t, r + 1) = RouteStops[r]
       /\ [n \in DOMAIN trips |-> TimesOf(t, trips[n], t.routes[r + 1].n_stops)] = Trips[r]
  /\ \A x \in Stop : Range(ScannedRoutes(t, x + 1)) = {r \in Route : Serves(r, x)}

\* The search and the timetable hold values of their kinds; the search does not
\* change the timetable.
TransitTypeOK == TypeOK /\ (~ asked => TimetableTypeOK)

\* Read by its offsets, the timetable gives back its document (rtimetable), in
\* whichever run of the planner the document was parsed.
LayoutFaithful == Built /\ ~ asked => Faithful(document, tt)

\* What the search finds through the offsets is the network whose journeys it is
\* held to: the stops of each route, its trips in their order with their times,
\* and at each stop the routes through it.  It is so in whichever run of the
\* planner the timetable was parsed, and wherever a run was stopped.
SearchReadsTimetable ==
  Built /\ document = Searched /\ ~ asked => ReadAsNetwork(tt)

=============================================================================
