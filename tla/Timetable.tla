----------------------------- MODULE Timetable -----------------------------
(***************************************************************************)
(* From a JSON document to timetable_Rt: json_director reads it stop by    *)
(* stop into the three maps of raptor_timetable_builder, and rtimetable    *)
(* flattens the maps into arrays that address each other by offsets.       *)
(* Offsets and indices count from 0, as in the code; sequences from 1.     *)
(***************************************************************************)
EXTENDS TransitData

CONSTANT Documents   \* the documents a timetable may be built from

VARIABLES
  document,
  todo,        \* the stop entries of the document not read yet
  sr_map,      \* _sr_map: stop -> its routes
  rs_map,      \* _rs_map: route -> its stops
  rtstime_map, \* _rtstime_map: route -> ride -> its times
  tt           \* the timetable, or NoTimetable

timetable == <<document, todo, sr_map, rs_map, rtstime_map, tt>>

NoTimetable == [n_stops |-> -1]

\* The nested loops of construct_model: lines, rides, stops.
RideEntries(line, ride) ==
  [n \in DOMAIN ride.stops |-> [rid |-> line.direction, number |-> ride.number,
                                sid |-> ride.stops[n][1], time |-> ride.stops[n][2]]]

LineEntries(line) ==
  FlattenSeq([i \in DOMAIN line.rides |-> RideEntries(line, line.rides[i])])

Entries(doc) == FlattenSeq([l \in DOMAIN doc |-> LineEntries(doc[l])])

EmptyMap == [k \in {} |-> <<>>]
At(map, k) == IF k \in DOMAIN map THEN map[k] ELSE <<>>

\* push_back(v) on the list stored at k, which is made when absent.
Pushed(map, k, v) ==
  [x \in DOMAIN map \cup {k} |-> IF x = k THEN Append(At(map, k), v) ELSE map[x]]

TimetableInit ==
  /\ document \in Documents
  /\ todo = Entries(document)
  /\ sr_map = EmptyMap /\ rs_map = EmptyMap /\ rtstime_map = EmptyMap
  /\ tt = NoTimetable

\* add_stop, for the stops of ride 0 only.
add_stop(e) ==
  IF e.number = 0
  THEN sr_map' = Pushed(sr_map, e.sid, e.rid) /\ rs_map' = Pushed(rs_map, e.rid, e.sid)
  ELSE UNCHANGED <<sr_map, rs_map>>

add_stop_time(e) ==
  LET rides == IF e.rid \in DOMAIN rtstime_map THEN rtstime_map[e.rid] ELSE EmptyMap
  IN  rtstime_map' = [r \in DOMAIN rtstime_map \cup {e.rid} |->
        IF r = e.rid THEN Pushed(rides, e.number, e.time) ELSE rtstime_map[r]]

ReadStop ==
  /\ todo # <<>>
  /\ add_stop(Head(todo))
  /\ add_stop_time(Head(todo))
  /\ todo' = Tail(todo)
  /\ UNCHANGED <<document, tt>>

-----------------------------------------------------------------------------
(* rtimetable.  Maps are read in the order of their keys: sr, rs and      *)
(* times stand for _sr_map, _rs_map and _rtstime_map.                      *)

Rids(times) == Ascending(DOMAIN times)
Sids(sr)    == Ascending(DOMAIN sr)

Rides(times, rid) == InTripOrder(DOMAIN times[rid])

\* std::distance from the first key.
Index(keys, k) == (CHOOSE i \in DOMAIN keys : keys[i] = k) - 1

\* Mutant: the counter is advanced only after it has been used for a route.
OffsetLate(seqs, i) == Len(FlattenSeq(SubSeq(seqs, 1, i - 2)))

\* How many elements the sequences before the i-th hold: the offset of it.
Offset(seqs, i) == Len(FlattenSeq(SubSeq(seqs, 1, i - 1)))

\* What is kept of each route and of each stop.
RouteTrips(times)    == [r \in DOMAIN Rids(times) |-> Rides(times, Rids(times)[r])]
StopLists(rs, times) == [r \in DOMAIN Rids(times) |-> At(rs, Rids(times)[r])]
RouteLists(sr)       == [x \in DOMAIN Sids(sr) |-> sr[Sids(sr)[x]]]

\* The stop times of the trips of a route.
RouteTimes(times, rid) ==
  [n \in DOMAIN Rides(times, rid) |-> times[rid][Rides(times, rid)[n]]]

\* The stop times of each trip, all trips one after the other.
StopTimes(times) == FlattenSeq([r \in DOMAIN Rids(times) |-> RouteTimes(times, Rids(times)[r])])

\* The number of stops of a route is that of the last trip looped over.
StopCount(times, rid) == Len(times[rid][Last(Rides(times, rid))])

rtimetable(sr, rs, times) ==
  LET ids    == FlattenSeq(RouteTrips(times))
      stops  == FlattenSeq(StopLists(rs, times))
      routes == FlattenSeq(RouteLists(sr))
  IN  [n_stops  |-> Len(Sids(sr)),
       n_routes |-> Len(Rids(times)),
       routes   |-> [r \in DOMAIN Rids(times) |->
                      [id |-> Rids(times)[r], n_stops |-> StopCount(times, Rids(times)[r]),
                       route_stops_offset |-> Offset(StopLists(rs, times), r),
                       trips_offset |-> Offset(RouteTrips(times), r)]],
       trips    |-> [n \in DOMAIN ids |->
                      [id |-> ids[n], stop_times_offset |-> Offset(StopTimes(times), n)]],
       stops    |-> [x \in DOMAIN Sids(sr) |->
                      [id |-> Sids(sr)[x], stop_routes_offset |-> Offset(RouteLists(sr), x)]],
       route_stops |-> [i \in DOMAIN stops |-> Index(Sids(sr), stops[i])],
       stop_routes |-> [i \in DOMAIN routes |-> Index(Rids(times), routes[i])],
       stop_times  |-> FlattenSeq(StopTimes(times))]

Build ==
  /\ todo = <<>> /\ tt = NoTimetable
  /\ tt' = rtimetable(sr_map, rs_map, rtstime_map)
  /\ UNCHANGED <<document, todo, sr_map, rs_map, rtstime_map>>

TimetableNext == ReadStop \/ Build

-----------------------------------------------------------------------------
(* What the search reads of a timetable t: all by offsets.                 *)

\* From the offset of an element to that of the next one or the end of the array.
Section(offset, next, array) == SubSeq(array, offset + 1, next)

\* The loops of RAPTOR_algorithm over the stops of a route, its trips, and the
\* routes of a stop.
ScannedStops(t, r) ==
  [i \in 1 .. t.routes[r].n_stops |-> t.route_stops[t.routes[r].route_stops_offset + i]]

ScannedTrips(t, r) ==
  Section(t.routes[r].trips_offset,
          IF r = t.n_routes THEN Len(t.trips) ELSE t.routes[r + 1].trips_offset, t.trips)

ScannedRoutes(t, x) ==
  Section(t.stops[x].stop_routes_offset,
          IF x = t.n_stops THEN Len(t.stop_routes) ELSE t.stops[x + 1].stop_routes_offset,
          t.stop_routes)

TimesOf(t, trip, n) == [i \in 1 .. n |-> t.stop_times[trip.stop_times_offset + i]]

Built == tt # NoTimetable

\* Every index and offset of a timetable is inside its array: the search uses
\* them unchecked.
Addressed(t) ==
  /\ \A i \in DOMAIN t.route_stops : t.route_stops[i] \in 0 .. t.n_stops - 1
  /\ \A i \in DOMAIN t.stop_routes : t.stop_routes[i] \in 0 .. t.n_routes - 1
  /\ \A r \in DOMAIN t.routes :
       /\ t.routes[r].route_stops_offset + t.routes[r].n_stops <= Len(t.route_stops)
       /\ \A n \in DOMAIN ScannedTrips(t, r) :
            ScannedTrips(t, r)[n].stop_times_offset + t.routes[r].n_stops <= Len(t.stop_times)

\* The maps are maps of lists.
TimetableTypeOK ==
  /\ document \in Documents
  /\ \A x \in DOMAIN sr_map : sr_map[x] \in Seq(DOMAIN rs_map)
  /\ \A r \in DOMAIN rs_map : rs_map[r] \in Seq(DOMAIN sr_map)
  /\ \A r \in DOMAIN rtstime_map : \A n \in DOMAIN rtstime_map[r] :
       rtstime_map[r][n] \in Seq(Nat)
  /\ Built => Addressed(tt)

\* Reading the arrays of timetable t the way the search does gives back the
\* document doc: the stops of every line in order, each of its rides once with
\* its time at each stop, and at each stop the lines that serve it.  Three kinds
\* of offsets advance at different paces to make that true.
Faithful(doc, t) ==
  /\ {t.routes[r].id : r \in DOMAIN t.routes} = Directions(doc)
  /\ \A r \in DOMAIN t.routes :
       LET line  == LineOf(doc, t.routes[r].id)
           trips == ScannedTrips(t, r)
       IN  /\ [i \in DOMAIN ScannedStops(t, r) |-> t.stops[ScannedStops(t, r)[i] + 1].id]
                = WayOf(line)
           /\ Len(trips) = Len(line.rides)
           /\ \A k \in DOMAIN line.rides : \E n \in DOMAIN trips :
                /\ trips[n].id = line.rides[k].number
                /\ TimesOf(t, trips[n], t.routes[r].n_stops) = TimesOfRide(line.rides[k])
  /\ {t.stops[x].id : x \in DOMAIN t.stops} = StopIds(doc)
  /\ \A x \in DOMAIN t.stops :
       {t.routes[y + 1].id : y \in Range(ScannedRoutes(t, x))} =
       {d \in Directions(doc) : t.stops[x].id \in Range(WayOf(LineOf(doc, d)))}

=============================================================================
