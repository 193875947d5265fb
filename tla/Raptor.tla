------------------------------- MODULE Raptor -------------------------------
(***************************************************************************)
(* Round-based public transport search (RAPTOR_algorithm).  Round k scans  *)
(* the routes through stops that round k-1 improved and records arrivals   *)
(* with k+1 rides; afterwards one journey per number of rides is read back *)
(* from the labels.                                                        *)
(*                                                                         *)
(* A behaviour is one call of compute.  The timetable is given as what the *)
(* offsets of timetable_Rt address: the stops of each route, and its trips *)
(* in the order in which they are laid out (module Timetable builds and    *)
(* checks that layout).  rtimetable adds no transfers, so the loop of      *)
(* look_at_foot_paths over them has no turn, and every walk between two    *)
(* rides is a wait at one stop.                                            *)
(***************************************************************************)
EXTENDS Integers, Sequences, FiniteSets, FiniteSetsExt, SequencesExt

CONSTANTS
  Stop,          \* sidx
  Route,         \* ridx
  RouteStops,    \* RouteStops[r]: the stops of route r in order
  Trips,         \* Trips[r]: its trips in layout order, each the sequence of
                 \* its times; a stop has one time, arrival and departure
  Origins,       \* near_stops_src: sequences of <<stop, time to be there>>
  Destinations,  \* near_stops_trg: sequences of <<stop, time to walk on>>;
                 \* both without the stops that are not in the timetable
  MaxTransfers   \* MAX_TRANSFER

UNREACHED == 2147483647
UNDEFINED == -1

\* Any time that may be added to another one without passing UNREACHED.
Instant == 0 .. UNREACHED \div 2
Time    == 0 .. UNREACHED

NearStops == Seq(Stop \X Instant)

ASSUME TimetableAssumption ==
  /\ Stop \subseteq Nat /\ IsFiniteSet(Stop)
  /\ Route \subseteq Nat /\ IsFiniteSet(Route)
  /\ RouteStops \in [Route -> Seq(Stop)]
  /\ Trips \in [Route -> Seq(Seq(Instant))]
  /\ \A r \in Route : \A n \in DOMAIN Trips[r] : Len(Trips[r][n]) = Len(RouteStops[r])

\* The neighbourhood searches visit a vertex once.
ASSUME QueryAssumption ==
  /\ Origins \subseteq NearStops /\ Destinations \subseteq NearStops
  /\ \A q \in Origins \cup Destinations :
       \A i, j \in DOMAIN q : q[i][1] = q[j][1] => i = j

\* Round 0 uses row 1 of the labels as its support row, so there must be one.
ASSUME RoundsAssumption == MaxTransfers \in Nat \ {0}

RAPTOR_MAX_ROUNDS == 5
n_rounds == IF MaxTransfers + 1 > RAPTOR_MAX_ROUNDS THEN RAPTOR_MAX_ROUNDS
                                                    ELSE MaxTransfers + 1
Rows == 0 .. n_rounds - 1

VARIABLES
  sources, targets,  \* the near stops that stopidx_map knows
  labels,            \* round_earliest_arrival_times[round][stop]
  minimum,           \* minimun_arrival_times
  marked_stops,
  Q,                 \* routes to scan, each with the position to start from
  pending,           \* those of Q that the round has still to scan
  round,
  at,                \* the iteration in hand: route, position, trip boarded,
                     \* where and when; or NoRoute
  pc,
  back,              \* the walk back of get_transit_route
  pareto_set

query == <<sources, targets>>
tables == <<labels, minimum, marked_stops, Q, pending, round, at>>
vars  == <<sources, targets, labels, minimum, marked_stops, Q, pending, round,
           at, pc, back, pareto_set>>

-----------------------------------------------------------------------------

StopsOf(near) == {near[i][1] : i \in DOMAIN near}

\* The time that goes with stop x in a vector of near stops; the labels of
\* row 0 keep it as from_location_time or to_location_time.
TimeAt(near, x) ==
  IF x \in StopsOf(near) THEN near[CHOOSE i \in DOMAIN near : near[i][1] = x][2]
                         ELSE UNREACHED

Serves(r, x) == x \in Range(RouteStops[r])

\* get_route_stops_index: the first position of x in r.
IndexIn(r, x) == Min({i \in DOMAIN RouteStops[r] : RouteStops[r][i] = x})

\* accumulate_routes_for_stop for each stop of S, on an empty Q: every route
\* through S, from the earliest of its stops in S.
QueueFor(S) ==
  [r \in {q \in Route : \E x \in S : Serves(q, x)} |->
     Min({IndexIn(r, x) : x \in {y \in S : Serves(r, y)}})]

\* get_earlier_trip: the first trip in layout order that leaves after prev.
get_earlier_trip(r, i, prev) ==
  LET late == {n \in DOMAIN Trips[r] : Trips[r][n][i] > prev}
  IN  IF late = {} THEN UNDEFINED ELSE Min(late)

Blank == [time |-> UNREACHED, walk_time |-> UNREACHED, walk_from |-> UNDEFINED,
          back_stop |-> UNDEFINED, back_route |-> UNDEFINED,
          back_trip |-> UNDEFINED, board_time |-> UNREACHED]

NoRoute == [route |-> UNDEFINED]

\* The walk back from round n, no target chosen yet.
BackFrom(n) == [n_xfers |-> n, round |-> n, sidx |-> UNDEFINED, path |-> <<>>]

Init ==
  /\ sources \in Origins /\ targets \in Destinations
  /\ labels  = [k \in Rows |-> [x \in Stop |-> Blank]]
  /\ minimum = [x \in Stop |-> UNREACHED]
  /\ marked_stops = {}
  /\ Q = QueueFor({}) /\ pending = {}
  /\ round = 0
  /\ at = NoRoute
  /\ pc = "initialize"
  /\ back = BackFrom(0)
  /\ pareto_set = <<>>

\* raptor_initialization: the stops near the origin are reached on foot, as
\* recorded in row 0 and, for round 0 to read, in row 1.  It is enough that some
\* stop is near either end: where the timetable knows none of them, the search
\* goes on without.
Initialize ==
  /\ pc = "initialize"
  /\ minimum' = [x \in Stop |-> TimeAt(sources, x)]
  /\ labels' = [labels EXCEPT
       ![0] = [x \in Stop |-> [Blank EXCEPT !.time = TimeAt(sources, x)]],
       ![1] = [x \in Stop |-> IF x \notin StopsOf(sources) THEN Blank ELSE
                 [Blank EXCEPT !.time = TimeAt(sources, x),
                               !.walk_time = TimeAt(sources, x),
                               !.walk_from = x]]]
  /\ Q' = QueueFor(StopsOf(sources))
  /\ pending' = DOMAIN Q'
  /\ pc' = "scan"
  /\ UNCHANGED <<query, marked_stops, round, at, back, pareto_set>>

\* No stop at all near one of the ends: solver_exception.
NothingNear ==
  /\ pc = "initialize"
  /\ sources = <<>> \/ targets = <<>>
  /\ pc' = "failed"
  /\ UNCHANGED <<query, tables, back, pareto_set>>

-----------------------------------------------------------------------------
(* A round: every queued route in order of its index, stop after stop.     *)

last_round == IF round = 0 THEN 1 ELSE round - 1

NextRoute ==
  /\ pc = "scan" /\ at = NoRoute /\ pending # {}
  /\ LET r == Min(pending) IN
       /\ at' = [route |-> r, pos |-> Q[r], trip |-> UNDEFINED,
                 board_stop |-> UNDEFINED, board_time |-> UNREACHED]
       /\ pending' = pending \ {r}
  /\ UNCHANGED <<query, labels, minimum, marked_stops, Q, round, pc, back, pareto_set>>

Scanning == pc = "scan" /\ at # NoRoute

CurrentStop == RouteStops[at.route][at.pos]
Aboard      == at.trip # UNDEFINED
TripTime    == Trips[at.route][at.trip][at.pos]
prev_time   == labels[last_round][CurrentStop].walk_time

\* A trip is wanted where the last round arrived, unless the one boarded
\* leaves no later than that arrival.
catch_trip == prev_time # UNREACHED /\ (Aboard => prev_time < TripTime)

\* Mutant: one stop too many.
AdvanceTooFar(iteration) ==
  at' = IF iteration.pos > Len(RouteStops[iteration.route]) THEN NoRoute
        ELSE [iteration EXCEPT !.pos = @ + 1]

Advance(iteration) ==
  at' = IF iteration.pos = Len(RouteStops[iteration.route]) THEN NoRoute
        ELSE [iteration EXCEPT !.pos = @ + 1]

\* Mutant: the stop and time of boarding are kept from the first trip.
BoardKeepingStop ==
  /\ Scanning /\ catch_trip
  /\ LET trip == get_earlier_trip(at.route, at.pos, prev_time) IN
       /\ trip # UNDEFINED
       /\ Advance(IF Aboard THEN [at EXCEPT !.trip = trip]
                  ELSE [at EXCEPT !.trip = trip, !.board_stop = CurrentStop,
                                  !.board_time = Trips[at.route][trip][at.pos]])
  /\ UNCHANGED <<query, labels, minimum, marked_stops, Q, pending, round, pc,
                 back, pareto_set>>

\* Board, or change to an earlier trip; the loop then goes on to the next stop
\* without a look at the arrival of the trip that was boarded before.
Board ==
  /\ Scanning /\ catch_trip
  /\ LET trip == get_earlier_trip(at.route, at.pos, prev_time) IN
       /\ trip # UNDEFINED
       /\ Advance([at EXCEPT !.trip = trip, !.board_stop = CurrentStop,
                             !.board_time = Trips[at.route][trip][at.pos]])
  /\ UNCHANGED <<query, labels, minimum, marked_stops, Q, pending, round, pc,
                 back, pareto_set>>

\* The last trip has left.
MissTrips ==
  /\ Scanning /\ catch_trip
  /\ get_earlier_trip(at.route, at.pos, prev_time) = UNDEFINED
  /\ Advance(at)
  /\ UNCHANGED <<query, labels, minimum, marked_stops, Q, pending, round, pc,
                 back, pareto_set>>

\* Mutant: prune against the target reached first instead of the last one.
TooLateForFirst ==
  LET upper == Min({minimum[x] : x \in StopsOf(targets)})
  IN  upper # UNREACHED /\ TripTime > upper

\* No target can be improved by an arrival as late as this.
TooLateForTargets ==
  LET upper == Max({minimum[x] : x \in StopsOf(targets)})
  IN  upper # UNREACHED /\ TripTime > upper

Improves == TripTime < minimum[CurrentStop]

Alight ==
  /\ Scanning /\ ~ catch_trip /\ Aboard
  /\ targets # <<>> /\ ~ TooLateForTargets /\ Improves
  /\ labels' = [labels EXCEPT ![round][CurrentStop] =
       [@ EXCEPT !.time = TripTime, !.back_route = at.route, !.back_trip = at.trip,
                 !.back_stop = at.board_stop, !.board_time = at.board_time]]
  /\ minimum' = [minimum EXCEPT ![CurrentStop] = TripTime]
  /\ marked_stops' = marked_stops \cup {CurrentStop}
  /\ Advance(at)
  /\ UNCHANGED <<query, Q, pending, round, pc, back, pareto_set>>

RideOn ==
  /\ Scanning /\ ~ catch_trip
  /\ Aboard => targets # <<>> /\ (TooLateForTargets \/ ~ Improves)
  /\ Advance(at)
  /\ UNCHANGED <<query, labels, minimum, marked_stops, Q, pending, round, pc,
                 back, pareto_set>>

\* None of the stops near the destination is known: max_element of an empty
\* vector is dereferenced at the first arrival, a null pointer.
NoTargetKnown ==
  /\ Scanning /\ ~ catch_trip /\ Aboard
  /\ targets = <<>>
  /\ pc' = "crashed"
  /\ UNCHANGED <<query, tables, back, pareto_set>>

\* look_at_foot_paths, and at the end of round 0 the support row is cleared.
EndRound ==
  /\ pc = "scan" /\ at = NoRoute /\ pending = {}
  /\ labels' = [k \in Rows |-> [x \in Stop |->
       IF k = round /\ x \in marked_stops
       THEN [labels[k][x] EXCEPT !.walk_time = labels[k][x].time, !.walk_from = x]
       ELSE IF round = 0 /\ k = 1 /\ x \in StopsOf(sources)
       THEN [labels[k][x] EXCEPT !.walk_time = UNREACHED, !.walk_from = UNDEFINED]
       ELSE labels[k][x]]]
  /\ Q' = QueueFor(marked_stops)
  /\ pending' = DOMAIN Q'
  /\ marked_stops' = {}
  /\ round' = round + 1
  /\ pc' = IF round' = n_rounds THEN "read" ELSE "scan"
  /\ UNCHANGED <<query, minimum, at, back, pareto_set>>

-----------------------------------------------------------------------------
(* get_transit_route: for every number of transfers, back from the target  *)
(* that is best in that round.                                             *)

WALK == -2

ReachedBy(n)    == {i \in DOMAIN targets : labels[n][targets[i][1]].walk_time # UNREACHED}
Location(n, i)  == labels[n][targets[i][1]].walk_time + targets[i][2]

SkipRound ==
  /\ pc = "read" /\ back.n_xfers < n_rounds
  /\ ReachedBy(back.n_xfers) = {}
  /\ back' = BackFrom(back.n_xfers + 1)
  /\ UNCHANGED <<query, tables, pc, pareto_set>>

\* Mutant: the walk from the target to the destination is not counted.
PickFirstTarget ==
  /\ pc = "read" /\ back.n_xfers < n_rounds
  /\ ReachedBy(back.n_xfers) # {}
  /\ back' = [back EXCEPT !.sidx = targets[Min(ReachedBy(back.n_xfers))][1]]
  /\ pc' = "walk back"
  /\ UNCHANGED <<query, tables, pareto_set>>

\* The first of the targets from which the destination is reached earliest.
PickTarget ==
  /\ pc = "read" /\ back.n_xfers < n_rounds
  /\ ReachedBy(back.n_xfers) # {}
  /\ LET n    == back.n_xfers
         best == {i \in ReachedBy(n) : \A j \in ReachedBy(n) : Location(n, i) <= Location(n, j)}
     IN  back' = [back EXCEPT !.sidx = targets[Min(best)][1]]
  /\ pc' = "walk back"
  /\ UNCHANGED <<query, tables, pareto_set>>

walk == labels[back.round][back.sidx]
ride == labels[back.round][walk.walk_from]

\* The labels a leg needs are there.  Where they are not the code leaves the
\* loop with a truncated path, which JourneysTravellable shows never to happen.
LegRecorded ==
  /\ back.sidx # UNDEFINED
  /\ walk.walk_time # UNREACHED
  /\ ride.time # UNREACHED

Leg == << [sidx_from |-> ride.back_stop, sidx_to |-> walk.walk_from,
           departure_time |-> ride.board_time, arrival_time |-> ride.time,
           ridx |-> ride.back_route, tidx |-> ride.back_trip],
          [sidx_from |-> walk.walk_from, sidx_to |-> back.sidx,
           departure_time |-> ride.time, arrival_time |-> walk.walk_time,
           ridx |-> WALK, tidx |-> WALK] >>

FollowLeg ==
  /\ pc = "walk back" /\ back.round >= 0
  /\ LegRecorded
  /\ back' = [back EXCEPT !.path = Leg \o @, !.sidx = ride.back_stop, !.round = @ - 1]
  /\ UNCHANGED <<query, tables, pc, pareto_set>>

\* The sources upstream of the first stop, no farther from the origin, where
\* the same trip is the one to be caught.
EarlierSources(first) ==
  {i \in DOMAIN sources :
     LET pos == IndexIn(first.ridx, sources[i][1]) IN
     /\ Serves(first.ridx, sources[i][1])
     /\ pos < IndexIn(first.ridx, first.sidx_from)
     /\ sources[i][2] <= TimeAt(sources, first.sidx_from)
     /\ get_earlier_trip(first.ridx, pos, sources[i][2]) = first.tidx}

\* The first ride is boarded at the nearest of those, the last one in a tie.
BoardedEarlier(first) ==
  LET S == EarlierSources(first)
      i == Max({j \in S : \A l \in S : sources[j][2] <= sources[l][2]})
      x == sources[i][1]
  IN  IF S = {} THEN first
      ELSE [first EXCEPT !.sidx_from = x,
              !.departure_time = Trips[first.ridx][first.tidx][IndexIn(first.ridx, x)]]

\* The state at which the first ride starts; were it unreached, the code would
\* give up this journey and all with more rides.
FirstState == labels[0][BoardedEarlier(Head(back.path)).sidx_from]

FinishPath ==
  /\ pc = "walk back" /\ back.round < 0
  /\ FirstState.time # UNREACHED
  /\ pareto_set' = Append(pareto_set,
       [n_rides |-> back.n_xfers + 1,
        connections |-> <<BoardedEarlier(Head(back.path))>> \o Tail(back.path)])
  /\ back' = BackFrom(back.n_xfers + 1)
  /\ pc' = "read"
  /\ UNCHANGED <<query, tables>>

Finish ==
  /\ pc = "read" /\ back.n_xfers = n_rounds
  /\ pc' = "done"
  /\ UNCHANGED <<query, tables, back, pareto_set>>

Next ==
  \/ Initialize \/ NothingNear
  \/ NextRoute \/ Board \/ MissTrips \/ Alight \/ RideOn \/ NoTargetKnown \/ EndRound
  \/ SkipRound \/ PickTarget \/ FollowLeg \/ FinishPath \/ Finish

Spec == Init /\ [][Next]_vars

\* No trip goes back in time, and none overtakes one that is laid out before it.
\* Nothing in the code sees to either: a document's times are taken as they come,
\* and the trips are laid out by the digits of their numbers.
TimesInOrder(trips) ==
  \A r \in DOMAIN trips : \A n \in DOMAIN trips[r] :
    /\ \A i, j \in DOMAIN trips[r][n] : i < j => trips[r][n][i] <= trips[r][n][j]
    /\ \A m \in DOMAIN trips[r] : m < n =>
         \A i \in DOMAIN trips[r][n] : trips[r][m][i] <= trips[r][n][i]

-----------------------------------------------------------------------------
(* The reference: what can be done with the timetable, whatever the order  *)
(* in which trips are laid out.                                            *)

\* <<r, n, i, j>>: trip n of r, from its i-th stop to its j-th.
Ride == UNION {{<<r, n, i, j>> : n \in DOMAIN Trips[r], i \in DOMAIN RouteStops[r],
                                 j \in DOMAIN RouteStops[r]} : r \in Route}

\* Every <<stop, time>> at which one can arrive with at most k rides, boarding
\* only trips that leave later than one arrived.
Arrivals(k) ==
  LET f[n \in 0 .. k] ==
        IF n = 0 THEN Range(sources)
        ELSE LET before == f[n - 1] IN
             before \cup
               {<<RouteStops[d[1]][d[4]], Trips[d[1]][d[2]][d[4]]>> : d \in
                  {e \in Ride : e[3] < e[4] /\ \E a \in before :
                     /\ a[1] = RouteStops[e[1]][e[3]]
                     /\ a[2] < Trips[e[1]][e[2]][e[3]]}}
  IN  f[k]

\* The earliest of the arrivals A at x.
EarliestAt(A, x) == Min({a[2] : a \in {b \in A : b[1] = x}} \cup {UNREACHED})

LabelType == [time : Time, walk_time : Time, walk_from : Stop \cup {UNDEFINED},
              back_stop : Stop \cup {UNDEFINED}, back_route : Route \cup {UNDEFINED},
              back_trip : Nat \cup {UNDEFINED}, board_time : Time]

\* Every variable has its type; the queue names positions of its routes, and
\* the round in hand has its row, which the unchecked C arrays rely on.
TypeOK ==
  /\ sources \in Origins /\ targets \in Destinations
  /\ labels \in [Rows -> [Stop -> LabelType]]
  /\ minimum \in [Stop -> Time]
  /\ marked_stops \subseteq Stop
  /\ DOMAIN Q \subseteq Route
  /\ \A r \in DOMAIN Q : Q[r] \in DOMAIN RouteStops[r]
  /\ pending \subseteq DOMAIN Q
  /\ round \in 0 .. n_rounds
  /\ pc \in {"initialize", "scan", "read", "walk back", "done", "failed", "crashed"}
  /\ pc = "scan" => round \in Rows
  /\ at # NoRoute => /\ at.route \in Route
                     /\ at.pos \in DOMAIN RouteStops[at.route]
                     /\ at.trip \in DOMAIN Trips[at.route] \cup {UNDEFINED}
                     /\ at.board_stop \in Stop \cup {UNDEFINED}
                     /\ at.board_time \in Time
  /\ back.n_xfers \in 0 .. n_rounds
  /\ back.round \in -1 .. n_rounds
  /\ back.sidx \in Stop \cup {UNDEFINED}

RoundBegins == pc = "scan" /\ at = NoRoute /\ pending = DOMAIN Q

\* "The algorithm associates with each stop the earliest known arrival time
\* with up to i trips": after as many rounds the best times are exactly the
\* earliest possible at every stop that is not pruned, that is, reached no
\* later than the last of the targets; and never is a time too early.
\* Pruning, the skipped arrivals of Board and the shared minimum could each
\* break it.  (Without a target nothing is asked of it.)
ArrivalsExact ==
  targets # <<>> /\ (RoundBegins \/ pc = "read") =>
    LET arrivals == Arrivals(round)
        upper    == Max({minimum[x] : x \in StopsOf(targets)})
    IN  \A x \in Stop :
          /\ minimum[x] >= EarliestAt(arrivals, x)
          /\ EarliestAt(arrivals, x) <= upper => minimum[x] = EarliestAt(arrivals, x)

\* A ride of a journey is a stretch of its trip.
OnTrip(c) ==
  \E i, j \in DOMAIN RouteStops[c.ridx] :
    /\ i < j
    /\ RouteStops[c.ridx][i] = c.sidx_from /\ RouteStops[c.ridx][j] = c.sidx_to
    /\ Trips[c.ridx][c.tidx][i] = c.departure_time
    /\ Trips[c.ridx][c.tidx][j] = c.arrival_time

\* What get_transit_route follows backwards is recorded: no label on the way
\* was left out or overwritten by a later round or by clearing the support row.
JourneyRecorded ==
  pc = "walk back" =>
    IF back.round >= 0 THEN LegRecorded
    ELSE back.sidx \in StopsOf(sources) /\ FirstState.time # UNREACHED

\* No journey is read back from labels that are not there, and
\* every journey of the answer can be travelled: it starts at a stop reached
\* from the origin before the first departure, alternates rides along trips
\* and waits, changes at the stop and after the time of arrival, has the number
\* of rides it says, and ends near the destination.
JourneysTravellable ==
  /\ JourneyRecorded
  /\ \A p \in Range(pareto_set) :
      LET c == p.connections IN
      /\ Len(c) = 2 * p.n_rides
      /\ c[1].departure_time > TimeAt(sources, c[1].sidx_from)
      /\ \A i \in DOMAIN c :
           IF i % 2 = 1
           THEN /\ OnTrip(c[i])
                /\ i > 1 => c[i].departure_time > c[i - 1].arrival_time
           ELSE /\ c[i].ridx = WALK /\ c[i].sidx_from = c[i].sidx_to
                /\ c[i].departure_time = c[i].arrival_time
                /\ c[i].departure_time = c[i - 1].arrival_time
      /\ \A i \in 2 .. Len(c) : c[i].sidx_from = c[i - 1].sidx_to
      /\ c[Len(c)].sidx_to \in StopsOf(targets)

\* When a journey gets to the destination.
AtDestination(p) ==
  LET last == p.connections[Len(p.connections)]
  IN  last.arrival_time + TimeAt(targets, last.sidx_to)

\* With at most k rides the answer holds a journey that gets to the destination
\* as early as any, unless no ride is better than to walk from one stop that is
\* near both ends.
BestJourneys ==
  pc = "done" =>
    \A k \in 1 .. n_rounds :
      LET best(n) == Min({a[2] + TimeAt(targets, a[1]) :
                            a \in {b \in Arrivals(n) : b[1] \in StopsOf(targets)}}
                         \cup {UNREACHED})
          found   == {AtDestination(p) : p \in {q \in Range(pareto_set) : q.n_rides <= k}}
      IN  best(k) < best(0) => found # {} /\ Min(found) = best(k)

\* get_earlier_trip is to "return the earliest trip in route that one can catch
\* at stop": where a trip is caught, none leaves after the arrival but before it.
EarliestTripCaught ==
  Scanning /\ catch_trip =>
    LET trip == get_earlier_trip(at.route, at.pos, prev_time) IN
    \A n \in DOMAIN Trips[at.route] :
      Trips[at.route][n][at.pos] > prev_time =>
        Trips[at.route][trip][at.pos] <= Trips[at.route][n][at.pos]

=============================================================================
