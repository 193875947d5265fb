------------------------ MODULE TransitNetworkProofs ------------------------
(***************************************************************************)
(* The public transport search on every timetable and every query: no      *)
(* journey is read back from labels that are not there, and every journey  *)
(* of the answer can be travelled.  Where the timetable is in order, the   *)
(* best times are exact and the answer holds the best journeys.            *)
(*                                                                         *)
(* For the first part nothing is assumed of the order in which trips are   *)
(* laid out, nor of the times along a trip.  The argument is that a label  *)
(* is written once its ride is known (RidesRecorded), that the row it was  *)
(* boarded from is not written any more (WalksKnown, RowsAhead), and that  *)
(* the walk back from a round goes through exactly the rows below it       *)
(* (WalkedBack).  For the second, that no ride which could be taken is     *)
(* forgotten before it is covered by a best time or by the trip one is on  *)
(* (NoRideForgotten), and that what a round improves at a target is what   *)
(* the journeys are read from (RowsFound, BestAnswered).                   *)
(*                                                                         *)
(* The last part is about the timetable that the search reads: it is that  *)
(* of its document, read by offsets, wherever the planner was stopped.     *)
(* The argument is that the maps hold what has been read of the document   *)
(* (MapsRead), that maps are looped over by keys in order, each once       *)
(* (Lists), and that the elements of the lists laid out one after the      *)
(* other are found from their offsets on (Flattens), so that each loop of  *)
(* the search finds its own part of the document (ReadBack).               *)
(***************************************************************************)
EXTENDS TransitNetwork, NaturalLemmas, SequenceTheorems, FiniteSetTheorems

Iterations == [route : Route, pos : Nat, trip : Nat \cup {UNDEFINED},
               board_stop : Stop \cup {UNDEFINED}, board_time : Time]

Connections == [sidx_from : Stop, sidx_to : Stop,
                departure_time : Time, arrival_time : Time,
                ridx : Route \cup {WALK}, tidx : Nat \cup {WALK}]

\* Time t at x is after the arrival that a ride of round k starts from.
Left(k, x, t) ==
  /\ x \in Stop /\ t \in Instant
  /\ IF k = 0 THEN x \in StopsOf(sources) /\ TimeAt(sources, x) < t
              ELSE labels[k - 1][x].walk_time < t

\* Trip n of route r leaves x at time t, before it comes to position j.
Boarded(r, n, j, x, t) ==
  \E i \in DOMAIN RouteStops[r] :
    i < j /\ RouteStops[r][i] = x /\ Trips[r][n][i] = t

\* Trip n of route r leaves x at time t and then comes to y at time u.
Ridden(r, n, x, t, y, u) ==
  /\ r \in Route /\ n \in DOMAIN Trips[r]
  /\ \E j \in DOMAIN RouteStops[r] :
       RouteStops[r][j] = y /\ Trips[r][n][j] = u /\ Boarded(r, n, j, x, t)

\* Before the first round nothing is recorded; what is read is complete; and a
\* walk back starts with an empty path.
InOrder ==
  /\ pc = "initialize" =>
       /\ round = 0 /\ at = NoRoute /\ marked_stops = {} /\ pareto_set = <<>>
       /\ labels = [k \in Rows |-> [x \in Stop |-> Blank]]
  /\ pc \in {"read", "walk back", "done"} => round = n_rounds
  /\ pc # "walk back" => back = BackFrom(back.n_xfers)
  /\ at # NoRoute => pc \in {"scan", "crashed"} /\ at \in Iterations

\* Rows of later rounds hold no rides.
RowsAhead ==
  \A k \in Rows : k > round => \A x \in Stop : labels[k][x].back_route = UNDEFINED

\* Who can be walked from: in a finished round, a stop where a ride of that round
\* ended, from its arrival on; and in round 0 the sources, in the support row.
WalksKnown ==
  \A k \in Rows : \A x \in Stop : labels[k][x].walk_time # UNREACHED =>
    IF k < round
    THEN /\ labels[k][x].walk_time = labels[k][x].time
         /\ labels[k][x].walk_from = x
         /\ labels[k][x].back_route # UNDEFINED
    ELSE /\ k = 1 /\ round = 0
         /\ x \in StopsOf(sources) /\ labels[k][x].walk_time = TimeAt(sources, x)

\* The ride that a label tells of can be taken.
RideAt(k, x) ==
  LET l == labels[k][x] IN
  /\ Ridden(l.back_route, l.back_trip, l.back_stop, l.board_time, x, l.time)
  /\ Left(k, l.back_stop, l.board_time)

RidesRecorded ==
  \A k \in Rows : \A x \in Stop : labels[k][x].back_route # UNDEFINED => RideAt(k, x)

MarkedRode ==
  /\ marked_stops # {} => round \in Rows
  /\ \A x \in marked_stops : labels[round][x].back_route # UNDEFINED

\* The trip in hand was boarded at an earlier stop of the route.
OnBoard ==
  at # NoRoute /\ at.trip # UNDEFINED =>
    /\ Boarded(at.route, at.trip, at.pos, at.board_stop, at.board_time)
    /\ Left(round, at.board_stop, at.board_time)

\* A first ride is found to start at a stop that is reached.
SourcesReached ==
  pc \notin {"initialize", "failed", "crashed"} =>
    \A x \in StopsOf(sources) : labels[0][x].time # UNREACHED

\* Rides and waits by turns, each after the one before.
Alternates(c) ==
  \A i \in DOMAIN c :
    IF i % 2 = 1
    THEN /\ Ridden(c[i].ridx, c[i].tidx, c[i].sidx_from, c[i].departure_time,
                   c[i].sidx_to, c[i].arrival_time)
         /\ i > 1 => c[i].departure_time > c[i - 1].arrival_time
    ELSE /\ c[i].ridx = WALK /\ c[i].sidx_from = c[i].sidx_to
         /\ c[i].departure_time = c[i].arrival_time
         /\ c[i].departure_time = c[i - 1].arrival_time

Linked(c) == \A i \in 2 .. Len(c) : c[i].sidx_from = c[i - 1].sidx_to

WalkBacks == [n_xfers : Rows, round : Int, sidx : Stop, path : Seq(Connections)]

\* The path read so far leads from the stop in hand to a target.
PathRead(b) ==
  /\ Len(b.path) = 2 * (b.n_xfers - b.round)
  /\ Alternates(b.path) /\ Linked(b.path)
  /\ b.path = <<>> => b.sidx \in StopsOf(targets)
  /\ b.path # <<>> =>
       /\ b.path[1].sidx_from = b.sidx
       /\ Left(b.round + 1, b.sidx, b.path[1].departure_time)
       /\ b.path[Len(b.path)].sidx_to \in StopsOf(targets)

\* The labels are being read backwards.
WalkingBack == pc = "walk back"

WalkedBack ==
  WalkingBack =>
    /\ back \in WalkBacks /\ -1 <= back.round /\ back.round <= back.n_xfers
    /\ back.round >= 0 => labels[back.round][back.sidx].walk_time # UNREACHED
    /\ PathRead(back)

\* A journey of n rides from the origin to the destination.
Travels(c, n) ==
  /\ c \in Seq(Connections) /\ Len(c) = 2 * n /\ n \in Nat \ {0}
  /\ c[1].departure_time > TimeAt(sources, c[1].sidx_from)
  /\ Alternates(c) /\ Linked(c)
  /\ c[Len(c)].sidx_to \in StopsOf(targets)

Answers == \A m \in DOMAIN pareto_set : Travels(pareto_set[m].connections, pareto_set[m].n_rides)

IInv ==
  /\ TypeOK /\ InOrder
  /\ RowsAhead /\ WalksKnown /\ RidesRecorded /\ MarkedRode /\ OnBoard
  /\ SourcesReached
  /\ WalkedBack
  /\ Answers

-----------------------------------------------------------------------------
(* The timetable and the query.                                            *)

\* There are from two to five rounds.
LEMMA Rounds ==
  /\ n_rounds \in 2 .. 5
  /\ Rows = 0 .. n_rounds - 1
  /\ 0 \in Rows /\ 1 \in Rows
  /\ \A k \in Rows : k \in Int /\ k >= 0 /\ k < n_rounds
<1>1. n_rounds \in 2 .. 5
  BY RoundsAssumption DEF n_rounds, RAPTOR_MAX_ROUNDS
<1>2. QED
  BY <1>1 DEF Rows

\* No row is beyond a lower one.
LEMMA RowBelow ==
  ASSUME NEW n \in Rows, NEW k \in Int, 0 <= k, k <= n
  PROVE  k \in Rows /\ k < n_rounds
<1>1. n \in 0 .. n_rounds - 1 /\ n_rounds \in 2 .. 5
  BY Rounds
<1>2. k \in 0 .. n_rounds - 1 /\ k < n_rounds
  BY <1>1
<1>3. QED
  BY <1>2, Rounds

\* The least of a set of natural numbers is one of them, and below the others.
LEMMA Least ==
  ASSUME NEW L \in SUBSET Nat, L # {}
  PROVE  Min(L) \in L /\ \A c \in L : Min(L) <= c
<1>1. \E x \in L : \A y \in L : x <= y
  BY LeastNatural
<1>2. QED
  BY <1>1 DEF Min

\* The greatest of a bounded set of natural numbers is one of them.
LEMMA Greatest ==
  ASSUME NEW n \in Nat, NEW L \in SUBSET (0 .. n), L # {}
  PROVE  Max(L) \in L /\ \A c \in L : Max(L) >= c
<1> DEFINE M == {n - x : x \in L}
<1>1. M \in SUBSET Nat /\ M # {}
  <2>1. PICK x : x \in L
    OBVIOUS
  <2>2. n - x \in M
    BY <2>1
  <2>3. \A c \in L : n - c \in Nat
    OBVIOUS
  <2>4. M \subseteq Nat
    BY <2>3
  <2> HIDE DEF M
  <2>5. QED
    BY <2>2, <2>4
<1>2. PICK y \in M : \A z \in M : y <= z
  <2> HIDE DEF M
  <2>1. QED
    BY <1>1, LeastNatural
<1>3. PICK x \in L : y = n - x
  BY <1>2
<1>4. \A c \in L : n - c \in M
  OBVIOUS
<1>5. ASSUME NEW c \in L PROVE x >= c
  <2>1. c \in Nat /\ x \in Nat
    OBVIOUS
  <2>2. n - x <= n - c
    <3> HIDE DEF M
    <3>1. QED
      BY <1>2, <1>3, <1>4
  <2>3. QED
    BY <2>1, <2>2
<1>6. QED
  BY <1>3, <1>5 DEF Max

\* A trip has a time at each stop of its route.
LEMMA TripTimes ==
  ASSUME NEW r \in Route, NEW n \in DOMAIN Trips[r], NEW i \in DOMAIN RouteStops[r]
  PROVE  /\ Trips[r][n][i] \in Instant
         /\ n \in Nat \ {0} /\ i \in Nat \ {0}
         /\ RouteStops[r][i] \in Stop
         /\ i <= Len(RouteStops[r]) /\ Len(RouteStops[r]) \in Nat
<1>1. RouteStops[r] \in Seq(Stop) /\ Trips[r] \in Seq(Seq(Instant))
  BY TimetableAssumption
<1>2. Trips[r][n] \in Seq(Instant) /\ Len(Trips[r][n]) = Len(RouteStops[r])
  BY <1>1, TimetableAssumption
<1>3. QED
  BY <1>1, <1>2

\* Instants are times before UNREACHED.
LEMMA Instants ==
  /\ Instant \subseteq Time /\ UNREACHED \in Time
  /\ \A t \in Time : t \in Nat /\ t <= UNREACHED
  /\ \A t \in Instant : t \in Nat /\ t < UNREACHED /\ t # UNREACHED
<1>1. UNREACHED \in Nat /\ UNREACHED > 0
  BY SMT DEF UNREACHED
<1>2. UNREACHED \div 2 \in Nat /\ UNREACHED \div 2 < UNREACHED
  BY <1>1
<1>3. QED
  BY <1>1, <1>2 DEF Instant, Time

\* The positions of a stop on a route.
LEMMA Indexed ==
  ASSUME NEW r \in Route, NEW x, Serves(r, x)
  PROVE  /\ IndexIn(r, x) \in DOMAIN RouteStops[r]
         /\ RouteStops[r][IndexIn(r, x)] = x
         /\ \A i \in DOMAIN RouteStops[r] : RouteStops[r][i] = x => IndexIn(r, x) <= i
<1> DEFINE I == {i \in DOMAIN RouteStops[r] : RouteStops[r][i] = x}
<1>1. RouteStops[r] \in Seq(Stop)
  BY TimetableAssumption
<1>2. I \in SUBSET Nat /\ I # {}
  BY <1>1 DEF Serves, Range
<1>3. IndexIn(r, x) = Min(I)
  BY DEF IndexIn
<1>4. Min(I) \in I /\ \A i \in I : Min(I) <= i
  <2> HIDE DEF I
  <2>1. QED
    BY <1>2, Least
<1>5. QED
  BY <1>3, <1>4

\* A queue names positions of its routes.
LEMMA Queued ==
  ASSUME NEW S \in SUBSET Stop
  PROVE  /\ DOMAIN QueueFor(S) \subseteq Route
         /\ \A r \in DOMAIN QueueFor(S) : QueueFor(S)[r] \in DOMAIN RouteStops[r]
<1>1. DOMAIN QueueFor(S) = {q \in Route : \E x \in S : Serves(q, x)}
  BY DEF QueueFor
<1>2. ASSUME NEW r \in DOMAIN QueueFor(S)
      PROVE  QueueFor(S)[r] \in DOMAIN RouteStops[r]
  <2> DEFINE I == {IndexIn(r, x) : x \in {y \in S : Serves(r, y)}}
  <2>1. r \in Route /\ \E x \in S : Serves(r, x)
    BY <1>1, <1>2
  <2>2. I \subseteq DOMAIN RouteStops[r] /\ I # {}
    BY <2>1, Indexed
  <2>3. RouteStops[r] \in Seq(Stop)
    BY <2>1, TimetableAssumption
  <2>4. I \in SUBSET Nat
    <3>1. DOMAIN RouteStops[r] \subseteq Nat
      BY <2>3
    <3> HIDE DEF I
    <3>2. QED
      BY <2>2, <3>1
  <2>5. QueueFor(S)[r] = Min(I)
    BY <1>1, <1>2 DEF QueueFor
  <2>6. Min(I) \in I
    <3> HIDE DEF I
    <3>1. QED
      BY <2>2, <2>4, Least
  <2>7. QED
    BY <2>2, <2>5, <2>6
<1>3. QED
  BY <1>1, <1>2

\* The trip that get_earlier_trip finds leaves after prev.
LEMMA TripFound ==
  ASSUME NEW r \in Route, NEW i \in DOMAIN RouteStops[r], NEW prev,
         get_earlier_trip(r, i, prev) # UNDEFINED
  PROVE  /\ get_earlier_trip(r, i, prev) \in DOMAIN Trips[r]
         /\ Trips[r][get_earlier_trip(r, i, prev)][i] > prev
<1> DEFINE late == {n \in DOMAIN Trips[r] : Trips[r][n][i] > prev}
<1>1. late # {} /\ get_earlier_trip(r, i, prev) = Min(late)
  BY DEF get_earlier_trip
<1>2. late \in SUBSET Nat
  BY TripTimes
<1>3. Min(late) \in late
  <2> HIDE DEF late
  <2>1. QED
    BY <1>1, <1>2, Least
<1>4. QED
  BY <1>1, <1>3

\* The stops near an end, and the times that go with them.
LEMMA Near ==
  ASSUME NEW near \in Origins \cup Destinations
  PROVE  /\ near \in Seq(Stop \X Instant)
         /\ StopsOf(near) \subseteq Stop
         /\ \A x \in StopsOf(near) : TimeAt(near, x) \in Instant
         /\ \A x : TimeAt(near, x) \in Time
         /\ \A i \in DOMAIN near : /\ near[i][1] \in StopsOf(near)
                                   /\ TimeAt(near, near[i][1]) = near[i][2]
<1>1. near \in Seq(Stop \X Instant)
  BY QueryAssumption DEF NearStops
<1>2. \A i \in DOMAIN near : near[i][1] \in Stop /\ near[i][2] \in Instant
  BY <1>1
<1>3. \A i, j \in DOMAIN near : near[i][1] = near[j][1] => i = j
  BY QueryAssumption
<1>4. \A i \in DOMAIN near : TimeAt(near, near[i][1]) = near[i][2]
  <2> TAKE i \in DOMAIN near
  <2>1. near[i][1] \in StopsOf(near)
    BY DEF StopsOf
  <2>2. (CHOOSE j \in DOMAIN near : near[j][1] = near[i][1]) = i
    BY <1>3
  <2>3. QED
    BY <2>1, <2>2 DEF TimeAt
<1>5. \A x \in StopsOf(near) : x \in Stop /\ TimeAt(near, x) \in Instant
  BY <1>2, <1>4 DEF StopsOf
<1>6. \A x : x \notin StopsOf(near) => TimeAt(near, x) = UNREACHED
  BY DEF TimeAt
<1>7. \A x : TimeAt(near, x) \in Time
  BY <1>5, <1>6, Instants
<1>8. \A i \in DOMAIN near : near[i][1] \in StopsOf(near)
  BY DEF StopsOf
<1>9. QED
  BY <1>1, <1>4, <1>5, <1>7, <1>8

-----------------------------------------------------------------------------
(* What the steps of a round do.                                           *)

\* No index is UNDEFINED.
LEMMA Undefined == UNDEFINED \notin Nat /\ UNDEFINED \notin Route /\ UNDEFINED \notin Stop
BY TimetableAssumption DEF UNDEFINED

\* A label without an arrival is a label.
LEMMA BlankType ==
  /\ Blank \in LabelType
  /\ Blank.time = UNREACHED /\ Blank.walk_time = UNREACHED /\ Blank.back_route = UNDEFINED
BY Instants DEF Blank, LabelType

\* The iteration in hand is at a stop of its route.
LEMMA AtStop ==
  ASSUME TypeOK, InOrder, Scanning
  PROVE  /\ at \in Iterations /\ at.route \in Route /\ at.pos \in DOMAIN RouteStops[at.route]
         /\ CurrentStop \in Stop
         /\ round \in Rows /\ last_round \in Rows
         /\ prev_time \in Time
         /\ Aboard => at.trip \in DOMAIN Trips[at.route] /\ TripTime \in Instant
<1>1. /\ at \in Iterations /\ at.route \in Route /\ at.pos \in DOMAIN RouteStops[at.route]
      /\ at.trip \in DOMAIN Trips[at.route] \cup {UNDEFINED}
      /\ round \in Rows
  BY DEF TypeOK, InOrder, Scanning
<1>2. CurrentStop \in Stop
  <2>1. RouteStops[at.route] \in Seq(Stop)
    BY <1>1, TimetableAssumption
  <2>2. QED
    BY <1>1, <2>1 DEF CurrentStop
<1>3. last_round \in Rows
  BY <1>1, Rounds DEF last_round
<1>4. labels[last_round][CurrentStop] \in LabelType
  BY <1>2, <1>3 DEF TypeOK
<1>5. prev_time \in Time
  BY <1>4 DEF prev_time, LabelType
<1>6. Aboard => at.trip \in DOMAIN Trips[at.route] /\ TripTime \in Instant
  BY <1>1, TripTimes DEF Aboard, TripTime
<1>7. QED
  BY <1>1, <1>2, <1>3, <1>5, <1>6

\* The iteration it is taken to the next stop of its route, if there is one.
Onward(it) ==
  \/ at' = NoRoute
  \/ /\ at' \in Iterations
     /\ at'.route = it.route /\ at'.pos = it.pos + 1
     /\ at'.pos \in DOMAIN RouteStops[it.route]
     /\ at'.trip = it.trip /\ at'.board_stop = it.board_stop /\ at'.board_time = it.board_time

\* Going on to the next stop keeps the iteration in hand of its type.
LEMMA Advanced ==
  ASSUME NEW it \in Iterations, it.pos \in DOMAIN RouteStops[it.route], Advance(it)
  PROVE  Onward(it)
<1>1. it.route \in Route
  BY DEF Iterations
<1>2. RouteStops[it.route] \in Seq(Stop)
  BY <1>1, TimetableAssumption
<1>3. CASE it.pos = Len(RouteStops[it.route])
  BY <1>3 DEF Advance, Onward
<1>4. CASE it.pos # Len(RouteStops[it.route])
  <2>1. at' = [it EXCEPT !.pos = it.pos + 1]
    BY <1>4 DEF Advance
  <2>2. it.pos \in Nat /\ it.pos + 1 \in DOMAIN RouteStops[it.route]
    BY <1>2, <1>4
  <2>3. it.pos + 1 \in Nat
    BY <2>2
  <2>4. QED
    BY <2>1, <2>2, <2>3 DEF Iterations, Onward
<1>5. QED
  BY <1>3, <1>4

\* A trip caught at the stop in hand: n leaves after the last round's arrival.
Caught(it) ==
  /\ it \in Iterations /\ it.route = at.route /\ it.pos = at.pos
  /\ it.trip \in DOMAIN Trips[at.route]
  /\ it.board_stop = CurrentStop
  /\ it.board_time = Trips[at.route][it.trip][at.pos]
  /\ it.board_time \in Instant /\ prev_time < it.board_time
  /\ Onward(it)

\* What boarding a trip leaves in hand.
LEMMA Boards ==
  ASSUME TypeOK, InOrder, Board
  PROVE  \E it : Caught(it)
<1> DEFINE trip == get_earlier_trip(at.route, at.pos, prev_time)
           time == Trips[at.route][trip][at.pos]
           it == [at EXCEPT !.trip = trip, !.board_stop = CurrentStop, !.board_time = time]
<1>1. /\ at \in Iterations /\ at.route \in Route /\ at.pos \in DOMAIN RouteStops[at.route]
      /\ CurrentStop \in Stop /\ prev_time \in Time
  BY AtStop DEF Board
<1>2. trip # UNDEFINED /\ Advance(it)
  BY DEF Board
<1>3. trip \in DOMAIN Trips[at.route] /\ time > prev_time
  BY <1>1, <1>2, TripFound
<1>4. time \in Instant /\ trip \in Nat
  BY <1>1, <1>3, TripTimes
<1>5. time \in Time /\ prev_time < time
  BY <1>1, <1>3, <1>4, Instants
<1> HIDE DEF trip, time
<1>6. /\ it \in Iterations /\ it.route = at.route /\ it.pos = at.pos
      /\ it.trip = trip /\ it.board_stop = CurrentStop /\ it.board_time = time
  BY <1>1, <1>4, <1>5 DEF Iterations
<1>7. Onward(it)
  <2>1. it.pos \in DOMAIN RouteStops[it.route]
    BY <1>1, <1>6
  <2> HIDE DEF it
  <2>2. QED
    BY <1>2, <1>6, <2>1, Advanced
<1>8. time = Trips[at.route][trip][at.pos]
  BY DEF time
<1> HIDE DEF it
<1>9. Caught(it)
  BY <1>3, <1>4, <1>5, <1>6, <1>7, <1>8 DEF Caught
<1>10. QED
  BY <1>9

\* The other steps take the iteration in hand to the next stop.
LEMMA Passes ==
  ASSUME TypeOK, InOrder, MissTrips \/ Alight \/ RideOn
  PROVE  Onward(at)
<1>1. Scanning /\ Advance(at)
  BY DEF MissTrips, Alight, RideOn
<1>2. at \in Iterations /\ at.pos \in DOMAIN RouteStops[at.route]
  BY <1>1, AtStop
<1>3. QED
  BY <1>1, <1>2, Advanced

\* An arrival is recorded in the label of the stop, and nothing else is changed.
AlightsAt(k, x) ==
  LET l == labels[k][x]  new == labels'[k][x] IN
  IF k = round /\ x = CurrentStop
  THEN /\ new.time = TripTime
       /\ new.back_route = at.route /\ new.back_trip = at.trip
       /\ new.back_stop = at.board_stop /\ new.board_time = at.board_time
       /\ new.walk_time = l.walk_time /\ new.walk_from = l.walk_from
  ELSE new = l

\* What an arrival writes, and that nothing else is written.
LEMMA Alights ==
  ASSUME TypeOK, InOrder, Alight
  PROVE  /\ labels' \in [Rows -> [Stop -> LabelType]]
         /\ \A k \in Rows : \A x \in Stop : AlightsAt(k, x)
<1> DEFINE l == labels[round][CurrentStop]
           new == [l EXCEPT !.time = TripTime, !.back_route = at.route, !.back_trip = at.trip,
                            !.back_stop = at.board_stop, !.board_time = at.board_time]
<1>1. /\ at \in Iterations /\ CurrentStop \in Stop /\ round \in Rows
      /\ at.trip \in DOMAIN Trips[at.route] /\ TripTime \in Instant
  BY AtStop DEF Alight
<1>2. labels \in [Rows -> [Stop -> LabelType]]
  BY DEF TypeOK
<1>3. labels' = [labels EXCEPT ![round][CurrentStop] = new]
  BY DEF Alight
<1>4. l \in LabelType
  BY <1>1, <1>2
<1>5. TripTime \in Time /\ at.board_time \in Time /\ at.route \in Route
  BY <1>1, Instants DEF Iterations
<1>6. at.trip \in Nat \cup {UNDEFINED} /\ at.board_stop \in Stop \cup {UNDEFINED}
  BY <1>1 DEF Iterations
<1> HIDE DEF l
<1>7. /\ new \in LabelType
      /\ new.time = TripTime
      /\ new.back_route = at.route /\ new.back_trip = at.trip
      /\ new.back_stop = at.board_stop /\ new.board_time = at.board_time
      /\ new.walk_time = l.walk_time /\ new.walk_from = l.walk_from
  BY <1>4, <1>5, <1>6 DEF LabelType
<1> HIDE DEF new
<1>8. labels' \in [Rows -> [Stop -> LabelType]]
  BY <1>1, <1>2, <1>3, <1>7
<1>9. \A k \in Rows : \A x \in Stop :
        labels'[k][x] = IF k = round /\ x = CurrentStop THEN new ELSE labels[k][x]
  BY <1>1, <1>2, <1>3
<1>10. QED
  BY <1>7, <1>8, <1>9 DEF AlightsAt, l

\* The end of a round only changes from where one can walk on.
RoundEndsAt(k, x) ==
  LET l == labels[k][x]  new == labels'[k][x] IN
  /\ new.time = l.time /\ new.back_route = l.back_route /\ new.back_trip = l.back_trip
  /\ new.back_stop = l.back_stop /\ new.board_time = l.board_time
  /\ IF k = round /\ x \in marked_stops
     THEN new.walk_time = l.time /\ new.walk_from = x
     ELSE IF round = 0 /\ k = 1 /\ x \in StopsOf(sources)
     THEN new.walk_time = UNREACHED
     ELSE new = l

\* What the end of a round writes, and what stays.
LEMMA RoundEnds ==
  ASSUME TypeOK, EndRound
  PROVE  /\ labels' \in [Rows -> [Stop -> LabelType]]
         /\ \A k \in Rows : \A x \in Stop : RoundEndsAt(k, x)
<1> DEFINE reach(k, x) == [labels[k][x] EXCEPT !.walk_time = labels[k][x].time, !.walk_from = x]
           clear(k, x) == [labels[k][x] EXCEPT !.walk_time = UNREACHED, !.walk_from = UNDEFINED]
<1>1. labels \in [Rows -> [Stop -> LabelType]]
  BY DEF TypeOK
<1>2. labels' = [k \in Rows |-> [x \in Stop |->
         IF k = round /\ x \in marked_stops THEN reach(k, x)
         ELSE IF round = 0 /\ k = 1 /\ x \in StopsOf(sources) THEN clear(k, x)
         ELSE labels[k][x]]]
  BY DEF EndRound
<1>3. ASSUME NEW k \in Rows, NEW x \in Stop
      PROVE  /\ reach(k, x) \in LabelType
             /\ reach(k, x).time = labels[k][x].time
             /\ reach(k, x).back_route = labels[k][x].back_route
             /\ reach(k, x).back_trip = labels[k][x].back_trip
             /\ reach(k, x).back_stop = labels[k][x].back_stop
             /\ reach(k, x).board_time = labels[k][x].board_time
             /\ reach(k, x).walk_time = labels[k][x].time
             /\ reach(k, x).walk_from = x
  <2>1. labels[k][x] \in LabelType
    BY <1>1
  <2>2. QED
    BY <2>1 DEF LabelType
<1>4. ASSUME NEW k \in Rows, NEW x \in Stop
      PROVE  /\ clear(k, x) \in LabelType
             /\ clear(k, x).time = labels[k][x].time
             /\ clear(k, x).back_route = labels[k][x].back_route
             /\ clear(k, x).back_trip = labels[k][x].back_trip
             /\ clear(k, x).back_stop = labels[k][x].back_stop
             /\ clear(k, x).board_time = labels[k][x].board_time
             /\ clear(k, x).walk_time = UNREACHED
  <2>1. labels[k][x] \in LabelType
    BY <1>1
  <2>2. QED
    BY <2>1, Instants DEF LabelType
<1> HIDE DEF reach, clear
<1>5. ASSUME NEW k \in Rows, NEW x \in Stop
      PROVE  labels'[k][x] \in LabelType /\ RoundEndsAt(k, x)
  <2>1. CASE k = round /\ x \in marked_stops
    <3>1. labels'[k][x] = reach(k, x)
      BY <1>2, <2>1
    <3>2. QED
      BY <1>3, <2>1, <3>1 DEF RoundEndsAt
  <2>2. CASE ~ (k = round /\ x \in marked_stops) /\ round = 0 /\ k = 1 /\ x \in StopsOf(sources)
    <3>1. labels'[k][x] = clear(k, x)
      BY <1>2, <2>2
    <3>2. QED
      BY <1>4, <2>2, <3>1 DEF RoundEndsAt
  <2>3. CASE /\ ~ (k = round /\ x \in marked_stops)
             /\ ~ (round = 0 /\ k = 1 /\ x \in StopsOf(sources))
    <3>1. labels'[k][x] = labels[k][x]
      BY <1>2, <2>3
    <3>2. labels[k][x] \in LabelType
      BY <1>1
    <3>3. QED
      BY <2>3, <3>1, <3>2 DEF RoundEndsAt
  <2>4. QED
    BY <2>1, <2>2, <2>3
<1>6. labels' \in [Rows -> [Stop -> LabelType]]
  <2>1. \A k \in Rows : \A x \in Stop : labels'[k][x] \in LabelType
    BY <1>5
  <2>2. \E f : labels' = [k \in Rows |-> [x \in Stop |-> f[k][x]]]
    BY <1>2
  <2>3. QED
    BY <2>1, <2>2
<1>7. QED
  BY <1>5, <1>6

\* The leg that the walk back comes to is recorded, and was ridden.
LEMMA LegKnown ==
  ASSUME IInv, WalkingBack, back.round >= 0
  PROVE  /\ back \in WalkBacks /\ back.round \in Rows /\ walk \in LabelType
         /\ walk.walk_from = back.sidx /\ walk.walk_time = ride.time
         /\ ride \in LabelType /\ ride = walk /\ ride.time \in Instant
         /\ Ridden(ride.back_route, ride.back_trip, ride.back_stop, ride.board_time,
                   back.sidx, ride.time)
         /\ Left(back.round, ride.back_stop, ride.board_time)
         /\ LegRecorded
<1>1. /\ back \in WalkBacks /\ -1 <= back.round /\ back.round <= back.n_xfers
      /\ labels[back.round][back.sidx].walk_time # UNREACHED
      /\ round = n_rounds
  BY DEF WalkingBack, IInv, WalkedBack, InOrder
<1>2. back.n_xfers \in Rows /\ back.sidx \in Stop
  BY <1>1 DEF WalkBacks
<1>3. back.round \in Rows /\ back.round < round
  <2>1. back.round \in Int
    BY <1>1 DEF WalkBacks
  <2>2. QED
    BY <1>1, <1>2, <2>1, RowBelow
<1>4. /\ walk.walk_time = walk.time /\ walk.walk_from = back.sidx
      /\ walk.back_route # UNDEFINED
  BY <1>1, <1>2, <1>3 DEF IInv, WalksKnown, walk
<1>5. ride = walk
  BY <1>4 DEF ride, walk
<1>6. walk \in LabelType
  BY <1>2, <1>3 DEF IInv, TypeOK, walk
<1>7. /\ Ridden(ride.back_route, ride.back_trip, ride.back_stop, ride.board_time,
                back.sidx, ride.time)
      /\ Left(back.round, ride.back_stop, ride.board_time)
  BY <1>2, <1>3, <1>4, <1>5 DEF IInv, RidesRecorded, RideAt, walk
<1>8. ride.time \in Instant
  BY <1>7, TripTimes DEF Ridden
<1>9. LegRecorded
  BY <1>1, <1>2, <1>5, <1>8, Undefined, Instants DEF LegRecorded, walk
<1>10. QED
  BY <1>1, <1>3, <1>4, <1>5, <1>6, <1>7, <1>8, <1>9

\* A search that has not begun.
LEMMA InitInv ==
  ASSUME Init
  PROVE  IInv
<1>1. TypeOK
  <2>1. labels \in [Rows -> [Stop -> LabelType]]
    BY BlankType DEF Init
  <2>2. minimum \in [Stop -> Time]
    BY Instants DEF Init
  <2>3. DOMAIN Q \subseteq Route /\ \A r \in DOMAIN Q : Q[r] \in DOMAIN RouteStops[r]
    BY Queued DEF Init
  <2>4. round = 0 /\ 0 \in 0 .. n_rounds /\ pc = "initialize"
    BY Rounds DEF Init
  <2>5. back.n_xfers \in 0 .. n_rounds /\ back.round \in -1 .. n_rounds
        /\ back.sidx \in Stop \cup {UNDEFINED}
    BY Rounds DEF Init, BackFrom
  <2>6. QED
    BY <2>1, <2>2, <2>3, <2>4, <2>5 DEF Init, TypeOK
<1>2. InOrder
  <2>1. back = BackFrom(back.n_xfers)
    BY DEF Init, BackFrom
  <2>2. QED
    BY <2>1 DEF Init, InOrder
<1>3. \A k \in Rows : \A x \in Stop :
        labels[k][x].walk_time = UNREACHED /\ labels[k][x].back_route = UNDEFINED
  BY BlankType DEF Init
<1>4. RowsAhead /\ WalksKnown /\ RidesRecorded
  BY <1>3 DEF RowsAhead, WalksKnown, RidesRecorded
<1>5. MarkedRode /\ OnBoard /\ SourcesReached /\ WalkedBack
  BY DEF WalkingBack, Init, MarkedRode, OnBoard, SourcesReached, WalkedBack
<1>6. Answers
  BY DEF Init, Answers
<1>7. QED
  BY <1>1, <1>2, <1>4, <1>5, <1>6 DEF IInv

\* The labels of the stops near the origin, as they are before round 0.
StartsAt(k, x) ==
  /\ labels'[k][x] \in LabelType /\ labels'[k][x].back_route = UNDEFINED
  /\ k = 0 => labels'[k][x].time = TimeAt(sources, x)
  /\ labels'[k][x].walk_time =
       IF k = 1 /\ x \in StopsOf(sources) THEN TimeAt(sources, x) ELSE UNREACHED

\* What initialization writes.
LEMMA Starts ==
  ASSUME TypeOK, InOrder, Initialize
  PROVE  /\ labels' \in [Rows -> [Stop -> LabelType]]
         /\ \A k \in Rows : \A x \in Stop : StartsAt(k, x)
<1> DEFINE first(x) == [Blank EXCEPT !.time = TimeAt(sources, x)]
           support(x) == [Blank EXCEPT !.time = TimeAt(sources, x),
                            !.walk_time = TimeAt(sources, x), !.walk_from = x]
<1>1. sources \in Origins /\ StopsOf(sources) \subseteq Stop
  BY Near DEF TypeOK
<1>2. \A x : TimeAt(sources, x) \in Time
  BY <1>1, Near
<1>3. /\ labels = [k \in Rows |-> [x \in Stop |-> Blank]]
      /\ labels' = [labels EXCEPT ![0] = [x \in Stop |-> first(x)],
                      ![1] = [x \in Stop |-> IF x \notin StopsOf(sources) THEN Blank
                                                                     ELSE support(x)]]
  BY DEF Initialize, InOrder
<1>4. ASSUME NEW x \in Stop
      PROVE  /\ first(x) \in LabelType /\ first(x).back_route = UNDEFINED
             /\ first(x).time = TimeAt(sources, x) /\ first(x).walk_time = UNREACHED
             /\ support(x) \in LabelType /\ support(x).back_route = UNDEFINED
             /\ support(x).walk_time = TimeAt(sources, x)
  BY <1>2, BlankType DEF LabelType
<1> HIDE DEF first, support
<1>5. ASSUME NEW k \in Rows, NEW x \in Stop
      PROVE  labels'[k][x] = IF k = 0 THEN first(x)
                             ELSE IF k = 1 /\ x \in StopsOf(sources) THEN support(x)
                             ELSE Blank
  <2> DEFINE zero == [y \in Stop |-> first(y)]
             one  == [y \in Stop |-> IF y \notin StopsOf(sources) THEN Blank ELSE support(y)]
  <2>1. labels'[k] = IF k = 1 THEN one ELSE IF k = 0 THEN zero ELSE [y \in Stop |-> Blank]
    <3> HIDE DEF zero, one
    <3>1. labels' = [labels EXCEPT ![0] = zero, ![1] = one]
      BY <1>3 DEF zero, one
    <3>2. QED
      BY <1>3, <3>1
  <2>2. 0 # 1
    OBVIOUS
  <2>3. QED
    BY <2>1, <2>2
<1>6. DOMAIN labels' = Rows /\ \A k \in Rows : labels'[k] = [x \in Stop |-> labels'[k][x]]
  BY <1>3, Rounds
<1>7. ASSUME NEW k \in Rows, NEW x \in Stop
      PROVE  labels'[k][x] \in LabelType /\ StartsAt(k, x)
  BY <1>4, <1>5, BlankType DEF StartsAt
<1>8. labels' = [k \in Rows |-> labels'[k]]
  BY <1>3, Rounds
<1>9. \A k \in Rows : labels'[k] \in [Stop -> LabelType]
  BY <1>6, <1>7
<1>10. QED
  BY <1>7, <1>8, <1>9

-----------------------------------------------------------------------------
(* Every step keeps the invariant, one part after the other.               *)

\* The iteration in hand, as TypeOK has it.
OnRoute ==
  at # NoRoute => /\ at.route \in Route
                  /\ at.pos \in DOMAIN RouteStops[at.route]
                  /\ at.trip \in DOMAIN Trips[at.route] \cup {UNDEFINED}
                  /\ at.board_stop \in Stop \cup {UNDEFINED}
                  /\ at.board_time \in Time

\* The next stop of an iteration is one of the route.
LEMMA OnwardOnRoute ==
  ASSUME NEW it \in Iterations, it.trip \in DOMAIN Trips[it.route] \cup {UNDEFINED}, Onward(it)
  PROVE  OnRoute' /\ (at' # NoRoute => at' \in Iterations)
BY DEF Onward, OnRoute, Iterations

\* The iteration in hand and its successor are well formed.
LEMMA AtStep ==
  ASSUME IInv, [Next]_vars
  PROVE  OnRoute' /\ (at' # NoRoute => at' \in Iterations /\ pc' \in {"scan", "crashed"})
<1>1. CASE UNCHANGED at /\ ~ (at # NoRoute /\ pc' # pc)
  BY <1>1 DEF IInv, TypeOK, InOrder, OnRoute
<1>2. CASE NextRoute
  <2> DEFINE r == Min(pending)
  <2>1. pending \in SUBSET Nat /\ pending # {} /\ pending \subseteq Route
    BY <1>2, TimetableAssumption DEF NextRoute, IInv, TypeOK
  <2>2. r \in pending
    BY <2>1, Least
  <2>3. r \in Route /\ Q[r] \in DOMAIN RouteStops[r]
    BY <2>1, <2>2 DEF IInv, TypeOK
  <2>4. Q[r] \in Nat
    BY <2>3, TimetableAssumption
  <2>5. at' = [route |-> r, pos |-> Q[r], trip |-> UNDEFINED,
               board_stop |-> UNDEFINED, board_time |-> UNREACHED]
    BY <1>2 DEF NextRoute
  <2> HIDE DEF r
  <2>6. at' \in Iterations /\ OnRoute'
    BY <2>3, <2>4, <2>5, Instants DEF Iterations, OnRoute
  <2>7. pc' = "scan"
    BY <1>2 DEF NextRoute
  <2>8. QED
    BY <2>6, <2>7
<1>3. CASE Board
  <2>1. PICK it : Caught(it)
    BY <1>3, Boards DEF IInv
  <2>2. it \in Iterations /\ it.trip \in DOMAIN Trips[it.route] /\ Onward(it)
    BY <2>1 DEF Caught
  <2>3. pc' = "scan"
    BY <1>3 DEF Board, Scanning
  <2>4. QED
    BY <2>2, <2>3, OnwardOnRoute
<1>4. CASE MissTrips \/ Alight \/ RideOn
  <2>1. Onward(at)
    BY <1>4, Passes DEF IInv
  <2>2. Scanning /\ pc' = pc
    BY <1>4 DEF MissTrips, Alight, RideOn
  <2>3. at \in Iterations /\ at.trip \in DOMAIN Trips[at.route] \cup {UNDEFINED}
    BY <2>2 DEF Scanning, IInv, TypeOK, InOrder
  <2>4. QED
    BY <2>1, <2>2, <2>3, OnwardOnRoute DEF Scanning
<1>5. CASE Initialize \/ NothingNear
  <2>1. at = NoRoute /\ UNCHANGED at
    BY <1>5 DEF Initialize, NothingNear, IInv, InOrder, tables
  <2>2. QED
    BY <1>1, <2>1
<1>6. CASE EndRound
  <2>1. at = NoRoute /\ UNCHANGED at
    BY <1>6 DEF EndRound
  <2>2. QED
    BY <1>1, <2>1
<1>7. CASE SkipRound \/ PickTarget \/ FollowLeg \/ FinishPath \/ Finish
  <2>1. pc \notin {"scan", "crashed"} /\ UNCHANGED at
    BY <1>7 DEF SkipRound, PickTarget, FollowLeg, FinishPath, Finish, tables
  <2>2. at = NoRoute
    BY <2>1 DEF IInv, InOrder
  <2>3. QED
    BY <1>1, <2>1, <2>2
<1>8. CASE NoTargetKnown
  <2>1. UNCHANGED at /\ pc' = "crashed"
    BY <1>8 DEF NoTargetKnown, tables
  <2>2. QED
    BY <2>1 DEF IInv, TypeOK, InOrder, OnRoute
<1>9. CASE UNCHANGED vars
  BY <1>1, <1>9 DEF vars
<1>10. QED
  BY <1>2, <1>3, <1>4, <1>5, <1>6, <1>7, <1>8, <1>9 DEF Next

\* The tables keep their types.
TablesTyped ==
  /\ labels \in [Rows -> [Stop -> LabelType]]
  /\ minimum \in [Stop -> Time]
  /\ marked_stops \subseteq Stop
  /\ DOMAIN Q \subseteq Route
  /\ \A r \in DOMAIN Q : Q[r] \in DOMAIN RouteStops[r]
  /\ pending \subseteq DOMAIN Q
  /\ round \in 0 .. n_rounds

\* Every step keeps labels, minima and marks of their types.
LEMMA TablesStep ==
  ASSUME IInv, [Next]_vars
  PROVE  TablesTyped'
<1>1. TablesTyped
  BY DEF IInv, TypeOK, TablesTyped
<1>2. CASE UNCHANGED <<labels, minimum, marked_stops, Q, pending, round>>
  BY <1>1, <1>2 DEF TablesTyped
<1>3. CASE Initialize
  <2>1. labels' \in [Rows -> [Stop -> LabelType]]
    BY <1>3, Starts DEF IInv
  <2>2. /\ sources \in Origins /\ StopsOf(sources) \in SUBSET Stop
        /\ \A x : TimeAt(sources, x) \in Time
    BY Near DEF IInv, TypeOK
  <2>3. minimum' \in [Stop -> Time]
    BY <1>3, <2>2 DEF Initialize
  <2>4. Q' = QueueFor(StopsOf(sources)) /\ pending' = DOMAIN Q'
    BY <1>3 DEF Initialize
  <2>5. UNCHANGED <<marked_stops, round>>
    BY <1>3 DEF Initialize
  <2>6. QED
    BY <1>1, <2>1, <2>2, <2>3, <2>4, <2>5, Queued DEF TablesTyped
<1>4. CASE NextRoute
  <2>1. /\ UNCHANGED <<labels, minimum, marked_stops, Q, round>>
        /\ pending' \subseteq pending
    BY <1>4 DEF NextRoute
  <2>2. QED
    BY <1>1, <2>1 DEF TablesTyped
<1>5. CASE Alight
  <2>1. CurrentStop \in Stop /\ TripTime \in Time
    BY <1>5, AtStop, Instants DEF Alight, IInv
  <2>2. labels' \in [Rows -> [Stop -> LabelType]]
    BY <1>5, Alights DEF IInv
  <2>3. /\ UNCHANGED <<Q, pending, round>>
        /\ minimum' = [minimum EXCEPT ![CurrentStop] = TripTime]
        /\ marked_stops' = marked_stops \cup {CurrentStop}
    BY <1>5 DEF Alight
  <2>4. minimum' \in [Stop -> Time] /\ marked_stops' \subseteq Stop
    BY <1>1, <2>1, <2>3 DEF TablesTyped
  <2>5. QED
    BY <1>1, <2>2, <2>3, <2>4 DEF TablesTyped
<1>6. CASE EndRound
  <2>1. labels' \in [Rows -> [Stop -> LabelType]]
    BY <1>6, RoundEnds DEF IInv
  <2>2. Q' = QueueFor(marked_stops) /\ pending' = DOMAIN Q' /\ marked_stops' = {}
    BY <1>6 DEF EndRound
  <2>3. marked_stops \in SUBSET Stop
    BY <1>1 DEF TablesTyped
  <2>4. minimum' = minimum /\ round' = round + 1 /\ round \in Rows
    BY <1>6 DEF EndRound, IInv, TypeOK
  <2>5. round' \in 0 .. n_rounds
    BY <2>4, Rounds
  <2>6. QED
    BY <1>1, <2>1, <2>2, <2>3, <2>4, <2>5, Queued DEF TablesTyped
<1>7. CASE NothingNear \/ NoTargetKnown \/ Board \/ MissTrips \/ RideOn \/ SkipRound \/ PickTarget
           \/ FollowLeg \/ FinishPath \/ Finish \/ UNCHANGED vars
  <2>1. UNCHANGED <<labels, minimum, marked_stops, Q, pending, round>>
    BY <1>7 DEF NothingNear, NoTargetKnown, Board, MissTrips, RideOn, SkipRound, PickTarget, FollowLeg,
                FinishPath, Finish, tables, vars
  <2>2. QED
    BY <1>2, <2>1
<1>8. QED
  BY <1>3, <1>4, <1>5, <1>6, <1>7 DEF Next

\* A leg in front of a path that goes on from where it ends is a path.
LEMMA Prefixed ==
  ASSUME NEW p \in Seq(Connections), Alternates(p), Linked(p),
         NEW a \in Connections, NEW b \in Connections,
         Ridden(a.ridx, a.tidx, a.sidx_from, a.departure_time, a.sidx_to, a.arrival_time),
         b.ridx = WALK, b.sidx_from = a.sidx_to, b.sidx_to = a.sidx_to,
         b.departure_time = a.arrival_time, b.arrival_time = a.arrival_time,
         p # <<>> => p[1].sidx_from = b.sidx_to /\ p[1].departure_time > b.arrival_time
  PROVE  /\ <<a, b>> \o p \in Seq(Connections) /\ Len(<<a, b>> \o p) = 2 + Len(p)
         /\ Alternates(<<a, b>> \o p) /\ Linked(<<a, b>> \o p)
         /\ (<<a, b>> \o p)[1] = a
         /\ (<<a, b>> \o p)[2 + Len(p)] = IF p = <<>> THEN b ELSE p[Len(p)]
<1> DEFINE c == <<a, b>> \o p
<1>1. <<a, b>> \in Seq(Connections)
  OBVIOUS
<1>2. c \in Seq(Connections) /\ Len(c) = 2 + Len(p) /\ Len(p) \in Nat
  BY <1>1
<1>3. c[1] = a /\ c[2] = b /\ \A i \in 3 .. Len(c) : c[i] = p[i - 2]
  BY <1>1
<1>4. DOMAIN c = 1 .. Len(c) /\ DOMAIN p = 1 .. Len(p)
  BY <1>2
<1> HIDE DEF c
<1>5. ASSUME NEW i \in DOMAIN c
      PROVE  IF i % 2 = 1
             THEN /\ Ridden(c[i].ridx, c[i].tidx, c[i].sidx_from, c[i].departure_time,
                            c[i].sidx_to, c[i].arrival_time)
                  /\ i > 1 => c[i].departure_time > c[i - 1].arrival_time
             ELSE /\ c[i].ridx = WALK /\ c[i].sidx_from = c[i].sidx_to
                  /\ c[i].departure_time = c[i].arrival_time
                  /\ c[i].departure_time = c[i - 1].arrival_time
  <2>1. CASE i = 1
    <3>1. 1 % 2 = 1 /\ ~ (1 > 1)
      OBVIOUS
    <3>2. QED
      BY <1>3, <2>1, <3>1
  <2>2. CASE i = 2
    <3>1. 2 % 2 # 1 /\ 2 - 1 = 1
      OBVIOUS
    <3>2. QED
      BY <1>3, <2>2, <3>1
  <2>3. CASE i \in 3 .. Len(c)
    <3>1. PICK n \in DOMAIN p : n = i - 2 /\ i = n + 2
      BY <1>2, <1>4, <2>3
    <3>2. i % 2 = n % 2 /\ n \in Nat /\ n >= 1 /\ i > 1
      BY <1>4, <3>1
    <3>3. c[i] = p[n]
      BY <1>3, <2>3, <3>1
    <3>4. CASE n = 1
      <4>1. c[i - 1] = b /\ 1 % 2 = 1
        <5>1. i - 1 = 2 /\ 1 % 2 = 1
          BY <3>1, <3>2, <3>4
        <5>2. QED
          BY <1>3, <5>1
      <4>2. Ridden(p[n].ridx, p[n].tidx, p[n].sidx_from, p[n].departure_time,
                   p[n].sidx_to, p[n].arrival_time)
        BY <3>4, <4>1 DEF Alternates
      <4>3. p[n].departure_time > b.arrival_time
        BY <1>4, <3>1, <3>4
      <4>4. QED
        BY <3>2, <3>3, <3>4, <4>1, <4>2, <4>3
    <3>5. CASE n > 1
      <4>1. c[i - 1] = p[n - 1]
        <5>1. i - 1 \in 3 .. Len(c) /\ (i - 1) - 2 = n - 1
          BY <1>2, <2>3, <3>1, <3>2, <3>5
        <5>2. QED
          BY <1>3, <5>1
      <4>2. QED
        BY <3>2, <3>3, <3>5, <4>1 DEF Alternates
    <3>6. QED
      BY <3>2, <3>4, <3>5
  <2>4. QED
    BY <1>2, <1>4, <2>1, <2>2, <2>3
<1>6. ASSUME NEW i \in 2 .. Len(c)
      PROVE  c[i].sidx_from = c[i - 1].sidx_to
  <2>1. CASE i = 2
    BY <1>3, <2>1
  <2>2. CASE i = 3
    <3>1. c[i] = p[1] /\ p # <<>> /\ c[i - 1] = b
      BY <1>2, <1>3, <2>2
    <3>2. QED
      BY <3>1
  <2>3. CASE i > 3
    <3>1. c[i] = p[i - 2] /\ c[i - 1] = p[(i - 2) - 1] /\ i - 2 \in 2 .. Len(p)
      BY <1>2, <1>3, <2>3
    <3>2. QED
      BY <3>1 DEF Linked
  <2>4. QED
    BY <1>2, <2>1, <2>2, <2>3
<1>7. Alternates(c) /\ Linked(c)
  BY <1>5, <1>6 DEF Alternates, Linked
<1>8. c[2 + Len(p)] = IF p = <<>> THEN b ELSE p[Len(p)]
  <2>1. CASE p = <<>>
    BY <1>3, <2>1
  <2>2. CASE p # <<>>
    <3>1. 2 + Len(p) \in 3 .. Len(c) /\ (2 + Len(p)) - 2 = Len(p)
      BY <1>2, <2>2
    <3>2. QED
      BY <1>3, <2>2, <3>1
  <2>3. QED
    BY <2>1, <2>2
<1>9. QED
  BY <1>2, <1>3, <1>7, <1>8 DEF c

\* With n + 1 rides the destination is reached earliest from x.
BestTarget(n, x) ==
  /\ x \in StopsOf(targets) /\ labels[n][x].walk_time # UNREACHED
  /\ \A i \in ReachedBy(n) : labels[n][x].walk_time + TimeAt(targets, x) <= Location(n, i)

\* The reading back starts at the best of the targets.
LEMMA PicksBest ==
  ASSUME IInv, PickTarget
  PROVE  BestTarget(back.n_xfers, back'.sidx)
<1> DEFINE n == back.n_xfers
           R == ReachedBy(n)
           best == {i \in R : \A j \in R : Location(n, i) <= Location(n, j)}
           x == targets[Min(best)][1]
<1>1. /\ back = BackFrom(n) /\ R # {} /\ back' = [back EXCEPT !.sidx = x]
      /\ n \in 0 .. n_rounds /\ n < n_rounds
  BY DEF PickTarget, IInv, InOrder, TypeOK
<1>2. back'.sidx = x
  BY <1>1 DEF BackFrom
<1>3. n \in Rows
  BY <1>1, Rounds
<1>4. /\ targets \in Seq(Stop \X Instant)
      /\ \A i \in DOMAIN targets : /\ targets[i][1] \in StopsOf(targets)
                                   /\ TimeAt(targets, targets[i][1]) = targets[i][2]
      /\ StopsOf(targets) \subseteq Stop
  BY Near DEF IInv, TypeOK
<1>5. /\ R \subseteq DOMAIN targets
      /\ \A i \in R : labels[n][targets[i][1]].walk_time # UNREACHED
  BY DEF ReachedBy
<1>6. \A i \in R : Location(n, i) \in Nat
  <2> TAKE i \in R
  <2>1. targets[i][1] \in Stop /\ targets[i][2] \in Nat
    BY <1>4, <1>5, Instants
  <2>2. labels[n][targets[i][1]] \in LabelType
    BY <1>3, <2>1 DEF IInv, TypeOK
  <2>3. labels[n][targets[i][1]].walk_time \in Nat
    BY <2>2, Instants DEF LabelType
  <2>4. QED
    BY <2>1, <2>3 DEF Location
<1>7. best # {}
  <2> DEFINE L == {Location(n, i) : i \in R}
  <2> HIDE DEF R
  <2>1. L \in SUBSET Nat /\ L # {}
    BY <1>1, <1>6
  <2>2. PICK m \in L : \A z \in L : m <= z
    <3> HIDE DEF L
    <3>1. QED
      BY <2>1, LeastNatural
  <2>3. PICK i \in R : m = Location(n, i)
    BY <2>2
  <2>4. i \in best
    BY <2>2, <2>3
  <2>5. QED
    BY <2>4
<1>8. Min(best) \in best
  <2>1. best \in SUBSET Nat
    <3>1. DOMAIN targets \subseteq Nat
      BY <1>4
    <3> HIDE DEF R
    <3>2. QED
      BY <1>5, <3>1
  <2> HIDE DEF best
  <2>2. QED
    BY <1>7, <2>1, Least
<1>9. PICK i \in R : i = Min(best) /\ \A j \in R : Location(n, i) <= Location(n, j)
  BY <1>8
<1> HIDE DEF R, best
<1>10. x = targets[i][1] /\ x \in StopsOf(targets) /\ TimeAt(targets, x) = targets[i][2]
       /\ labels[n][x].walk_time # UNREACHED
  BY <1>4, <1>5, <1>9
<1>11. Location(n, i) = labels[n][x].walk_time + TimeAt(targets, x)
  BY <1>10 DEF Location
<1> HIDE DEF x, n
<1>12. BestTarget(n, x)
  BY <1>9, <1>10, <1>11 DEF BestTarget, R
<1>13. QED
  BY <1>2, <1>12 DEF n

\* The walk back of a number of rides starts at a target reached by them.
LEMMA Picks ==
  ASSUME IInv, PickTarget
  PROVE  /\ back' \in WalkBacks /\ back'.n_xfers = back.n_xfers
         /\ back'.round = back'.n_xfers /\ back'.path = <<>>
         /\ back'.sidx \in StopsOf(targets)
         /\ labels[back'.round][back'.sidx].walk_time # UNREACHED
<1> DEFINE n == back.n_xfers  x == back'.sidx
<1>1. /\ back = BackFrom(n) /\ n \in 0 .. n_rounds /\ n < n_rounds
      /\ \E y : back' = [back EXCEPT !.sidx = y]
  BY DEF PickTarget, IInv, InOrder, TypeOK
<1>2. n \in Rows /\ n \in Int
  BY <1>1, Rounds
<1>3. x \in StopsOf(targets) /\ labels[n][x].walk_time # UNREACHED
  BY PicksBest DEF BestTarget
<1>4. x \in Stop
  BY <1>3, Near DEF IInv, TypeOK
<1>5. back' = [n_xfers |-> n, round |-> n, sidx |-> x, path |-> <<>>]
  BY <1>1 DEF BackFrom
<1>6. <<>> \in Seq(Connections)
  OBVIOUS
<1> HIDE DEF n, x
<1>7. back' \in WalkBacks
  BY <1>2, <1>4, <1>5, <1>6 DEF WalkBacks
<1>8. QED
  BY <1>3, <1>5, <1>7 DEF n, x

\* A leg is put in front of the path.
LEMMA Follows ==
  ASSUME IInv, FollowLeg
  PROVE  /\ back' \in WalkBacks
         /\ back'.n_xfers = back.n_xfers /\ back'.round = back.round - 1
         /\ back'.sidx = ride.back_stop /\ PathRead(back')
         /\ Left(back.round, back'.sidx, back'.path[1].departure_time)
         /\ back'.path # <<>>
         /\ IF back.path = <<>>
            THEN /\ back'.path[Len(back'.path)].sidx_to = back.sidx
                 /\ back'.path[Len(back'.path)].arrival_time = walk.walk_time
            ELSE back'.path[Len(back'.path)] = back.path[Len(back.path)]
<1> DEFINE a == [sidx_from |-> ride.back_stop, sidx_to |-> walk.walk_from,
                 departure_time |-> ride.board_time, arrival_time |-> ride.time,
                 ridx |-> ride.back_route, tidx |-> ride.back_trip]
           b == [sidx_from |-> walk.walk_from, sidx_to |-> back.sidx,
                 departure_time |-> ride.time, arrival_time |-> walk.walk_time,
                 ridx |-> WALK, tidx |-> WALK]
<1>1. /\ back \in WalkBacks /\ back.round \in Rows /\ walk \in LabelType
      /\ walk.walk_from = back.sidx /\ walk.walk_time = ride.time
      /\ ride \in LabelType /\ ride.time \in Instant
      /\ Ridden(ride.back_route, ride.back_trip, ride.back_stop, ride.board_time,
                back.sidx, ride.time)
      /\ Left(back.round, ride.back_stop, ride.board_time)
  BY LegKnown DEF WalkingBack, FollowLeg
<1>2. /\ ride.back_stop \in Stop /\ ride.board_time \in Time /\ ride.time \in Time
      /\ ride.back_route \in Route /\ ride.back_trip \in Nat
      /\ back.sidx \in Stop
  BY <1>1, TripTimes, Instants DEF Left, Ridden, WalkBacks
<1>3. a \in Connections /\ b \in Connections
  BY <1>1, <1>2 DEF Connections
<1>4. PathRead(back)
  BY DEF WalkingBack, FollowLeg, IInv, WalkedBack
<1>5. back.path # <<>> => /\ back.path[1].sidx_from = back.sidx
                          /\ back.path[1].departure_time > ride.time
  <2> SUFFICES ASSUME back.path # <<>> PROVE /\ back.path[1].sidx_from = back.sidx
                                             /\ back.path[1].departure_time > ride.time
    OBVIOUS
  <2>1. /\ back.path[1].sidx_from = back.sidx
        /\ Left(back.round + 1, back.sidx, back.path[1].departure_time)
    BY <1>4 DEF PathRead
  <2>2. back.round \in Nat
    BY <1>1, Rounds
  <2>3. back.round + 1 # 0 /\ (back.round + 1) - 1 = back.round
    BY <2>2
  <2>4. /\ labels[back.round][back.sidx].walk_time < back.path[1].departure_time
        /\ back.path[1].departure_time \in Instant
    BY <2>1, <2>3 DEF Left
  <2>5. ride.time < back.path[1].departure_time
    BY <1>1, <2>4 DEF walk
  <2>6. QED
    BY <1>2, <2>1, <2>4, <2>5, Instants
<1>6. /\ a.sidx_from = ride.back_stop /\ a.sidx_to = back.sidx
      /\ a.departure_time = ride.board_time /\ a.arrival_time = ride.time
      /\ a.ridx = ride.back_route /\ a.tidx = ride.back_trip
      /\ b.sidx_from = back.sidx /\ b.sidx_to = back.sidx
      /\ b.departure_time = ride.time /\ b.arrival_time = ride.time /\ b.ridx = WALK
  BY <1>1
<1>7. Leg = <<a, b>>
  BY DEF Leg
<1> HIDE DEF a, b
<1> DEFINE c == <<a, b>> \o back.path
<1>8. back.path \in Seq(Connections) /\ Alternates(back.path) /\ Linked(back.path)
  BY <1>1, <1>4 DEF PathRead, WalkBacks
<1>9. /\ c \in Seq(Connections) /\ Len(c) = 2 + Len(back.path)
      /\ Alternates(c) /\ Linked(c)
      /\ c[1] = a
      /\ c[2 + Len(back.path)] = IF back.path = <<>> THEN b ELSE back.path[Len(back.path)]
  BY <1>1, <1>3, <1>5, <1>6, <1>8, Prefixed
<1>10. back' = [back EXCEPT !.path = c, !.sidx = ride.back_stop, !.round = back.round - 1]
  BY <1>7 DEF FollowLeg
<1>11. back.round - 1 \in Int /\ back.round \in Int
  BY <1>1, Rounds
<1> HIDE DEF c
<1>12. /\ back' \in WalkBacks
       /\ back'.n_xfers = back.n_xfers /\ back'.round = back.round - 1
       /\ back'.sidx = ride.back_stop /\ back'.path = c
  BY <1>1, <1>2, <1>9, <1>10, <1>11 DEF WalkBacks
<1>13. Left(back.round, back'.sidx, back'.path[1].departure_time)
  BY <1>1, <1>6, <1>9, <1>12
<1>14. PathRead(back')
  <2>1. back.n_xfers \in Int
    BY <1>1, Rounds DEF WalkBacks
  <2>2. Len(c) = 2 * (back'.n_xfers - back'.round)
    BY <1>4, <1>9, <1>11, <1>12, <2>1 DEF PathRead
  <2>3. c # <<>> /\ Len(back.path) \in Nat
    BY <1>8, <1>9
  <2>4. c[Len(c)].sidx_to \in StopsOf(targets)
    BY <1>4, <1>6, <1>9 DEF PathRead
  <2>5. Left(back'.round + 1, back'.sidx, c[1].departure_time)
    <3>1. back'.round + 1 = back.round
      BY <1>11, <1>12
    <3>2. QED
      BY <1>12, <1>13, <3>1
  <2>6. QED
    BY <1>6, <1>9, <1>12, <2>2, <2>3, <2>4, <2>5 DEF PathRead
<1>15. /\ c # <<>>
       /\ IF back.path = <<>>
          THEN c[Len(c)].sidx_to = back.sidx /\ c[Len(c)].arrival_time = walk.walk_time
          ELSE c[Len(c)] = back.path[Len(back.path)]
  <2>1. Len(back.path) \in Nat
    BY <1>8
  <2>2. QED
    BY <1>1, <1>6, <1>9, <2>1
<1>16. QED
  BY <1>12, <1>13, <1>14, <1>15

\* Control keeps its order, and the walk back its place.
LEMMA OrderStep ==
  ASSUME IInv, [Next]_vars
  PROVE  /\ InOrder'
         /\ pc' \in {"initialize", "scan", "read", "walk back", "done", "failed", "crashed"}
         /\ pc' = "scan" => round' \in Rows
         /\ back'.n_xfers \in 0 .. n_rounds /\ back'.round \in -1 .. n_rounds
         /\ back'.sidx \in Stop \cup {UNDEFINED}
<1> DEFINE Control == /\ pc' \in {"initialize", "scan", "read", "walk back", "done", "failed", "crashed"}
                      /\ pc' = "scan" => round' \in Rows
                      /\ pc' \in {"read", "walk back", "done"} => round' = n_rounds
                      /\ pc' = "initialize" => UNCHANGED <<round, at, marked_stops,
                                                           pareto_set, labels, pc>>
           Back == /\ pc' # "walk back" => back' = BackFrom(back'.n_xfers)
                   /\ back'.n_xfers \in 0 .. n_rounds /\ back'.round \in -1 .. n_rounds
                   /\ back'.sidx \in Stop \cup {UNDEFINED}
<1>1. Control
  <2>1. CASE UNCHANGED vars
    BY <2>1 DEF vars, IInv, TypeOK, InOrder
  <2>2. CASE Initialize
    <3>1. round = 0 /\ pc' = "scan" /\ round' = round
      BY <2>2 DEF Initialize, IInv, InOrder
    <3>2. QED
      BY <3>1, Rounds
  <2>3. CASE NothingNear \/ NoTargetKnown
    BY <2>3 DEF NothingNear, NoTargetKnown
  <2>4. CASE NextRoute \/ Board \/ MissTrips \/ Alight \/ RideOn
    <3>1. pc = "scan" /\ pc' = pc /\ round' = round
      BY <2>4 DEF NextRoute, Board, MissTrips, Alight, RideOn, Scanning
    <3>2. QED
      BY <3>1 DEF IInv, TypeOK
  <2>5. CASE EndRound
    <3>1. /\ round \in Rows /\ round' = round + 1
          /\ pc' = IF round' = n_rounds THEN "read" ELSE "scan"
      BY <2>5 DEF EndRound, IInv, TypeOK
    <3>2. round' # n_rounds => round' \in Rows
      BY <3>1, Rounds
    <3>3. QED
      BY <3>1, <3>2
  <2>6. CASE SkipRound \/ PickTarget \/ FollowLeg \/ FinishPath \/ Finish
    <3>1. /\ pc \in {"read", "walk back"} /\ pc' \in {"read", "walk back", "done"}
          /\ round' = round
      BY <2>6 DEF SkipRound, PickTarget, FollowLeg, FinishPath, Finish, tables
    <3>2. QED
      BY <3>1 DEF IInv, InOrder
  <2>7. QED
    BY <2>1, <2>2, <2>3, <2>4, <2>5, <2>6 DEF Next
<1>2. Back
  <2>1. CASE back' = back /\ pc' # "walk back" /\ pc # "walk back"
    BY <2>1 DEF IInv, TypeOK, InOrder
  <2>2. CASE \E n \in 0 .. n_rounds : back' = BackFrom(n)
    <3>1. PICK n \in 0 .. n_rounds : back' = BackFrom(n)
      BY <2>2
    <3>2. n \in -1 .. n_rounds
      BY <3>1, Rounds
    <3>3. QED
      BY <3>1, <3>2 DEF BackFrom
  <2>3. CASE SkipRound \/ FinishPath
    <3>1. back.n_xfers \in 0 .. n_rounds /\ back.n_xfers < n_rounds
      <4>1. CASE SkipRound
        BY <4>1 DEF SkipRound, IInv, TypeOK
      <4>2. CASE FinishPath
        <5>1. back.n_xfers \in Rows
          BY <4>2 DEF WalkingBack, FinishPath, IInv, WalkedBack, WalkBacks
        <5>2. QED
          BY <5>1, Rounds
      <4>3. QED
        BY <2>3, <4>1, <4>2
    <3>2. back.n_xfers + 1 \in 0 .. n_rounds
      BY <3>1, Rounds
    <3>3. back' = BackFrom(back.n_xfers + 1)
      BY <2>3 DEF SkipRound, FinishPath
    <3>4. QED
      BY <2>2, <3>2, <3>3
  <2>4. CASE PickTarget
    <3>1. pc' = "walk back" /\ back' \in WalkBacks /\ back'.round = back'.n_xfers
      BY <2>4, Picks DEF PickTarget
    <3>2. back'.n_xfers \in Rows /\ back'.sidx \in Stop
      BY <3>1 DEF WalkBacks
    <3>3. \A k \in Rows : k \in 0 .. n_rounds /\ k \in -1 .. n_rounds
      BY Rounds
    <3>4. QED
      BY <3>1, <3>2, <3>3
  <2>5. CASE FollowLeg
    <3>1. /\ pc' = "walk back" /\ back' \in WalkBacks
          /\ back'.round = back.round - 1 /\ back.round \in Rows
      BY <2>5, Follows, LegKnown DEF WalkingBack, FollowLeg
    <3>2. back'.n_xfers \in Rows /\ back'.sidx \in Stop
      BY <3>1 DEF WalkBacks
    <3>3. \A k \in Rows : k \in 0 .. n_rounds /\ k - 1 \in -1 .. n_rounds
      BY Rounds
    <3>4. QED
      BY <3>1, <3>2, <3>3
  <2>6. CASE Initialize \/ NothingNear \/ NoTargetKnown \/ NextRoute \/ Board \/ MissTrips \/ Alight \/ RideOn
             \/ EndRound \/ Finish
    <3>1. back' = back /\ pc' # "walk back" /\ pc # "walk back"
      BY <2>6 DEF Initialize, NothingNear, NoTargetKnown, NextRoute, Board, MissTrips, Alight, RideOn,
                  EndRound, Finish, Scanning
    <3>2. QED
      BY <2>1, <3>1
  <2>7. CASE UNCHANGED vars
    BY <2>7 DEF vars, IInv, TypeOK, InOrder
  <2>8. QED
    BY <2>3, <2>4, <2>5, <2>6, <2>7 DEF Next
<1>3. at' # NoRoute => at' \in Iterations /\ pc' \in {"scan", "crashed"}
  BY AtStep
<1>4. InOrder'
  <2>1. pc' = "initialize" => /\ round' = 0 /\ at' = NoRoute /\ marked_stops' = {}
                              /\ pareto_set' = <<>>
                              /\ labels' = [k \in Rows |-> [x \in Stop |-> Blank]]
    BY <1>1 DEF IInv, InOrder
  <2> HIDE DEF Control, Back
  <2>2. pc' \in {"read", "walk back", "done"} => round' = n_rounds
    BY <1>1 DEF Control
  <2>3. pc' # "walk back" => back' = BackFrom(back'.n_xfers)
    BY <1>2 DEF Back
  <2>4. QED
    BY <1>3, <2>1, <2>2, <2>3 DEF InOrder
<1>5. QED
  BY <1>1, <1>2, <1>4

\* Every variable keeps its type.
LEMMA TypeStep ==
  ASSUME IInv, [Next]_vars
  PROVE  TypeOK'
<1>1. sources' \in Origins /\ targets' \in Destinations
  BY DEF IInv, TypeOK, Next, vars, query, Initialize, NothingNear, NoTargetKnown, NextRoute, Board, MissTrips,
         Alight, RideOn, EndRound, SkipRound, PickTarget, FollowLeg, FinishPath, Finish
<1>2. QED
  BY <1>1, TablesStep, OrderStep, AtStep DEF TypeOK, TablesTyped, OnRoute

\* The steps that leave the labels of the rounds alone.
LEMMA Unwritten ==
  ASSUME [Next]_vars, ~ Initialize, ~ Alight, ~ EndRound
  PROVE  UNCHANGED <<labels, marked_stops, round, sources, targets>>
BY DEF Next, vars, query, tables, NothingNear, NoTargetKnown, NextRoute, Board, MissTrips, RideOn, SkipRound,
       PickTarget, FollowLeg, FinishPath, Finish

\* The two ends of the query stay.
LEMMA QueryKept ==
  ASSUME [Next]_vars
  PROVE  UNCHANGED <<sources, targets>>
BY DEF Next, vars, query, Initialize, NothingNear, NoTargetKnown, NextRoute, Board, MissTrips,
       Alight, RideOn, EndRound, SkipRound, PickTarget, FollowLeg, FinishPath, Finish

\* A ride still leaves after the arrival it starts from when that row is not written.
LEMMA LeftKept ==
  ASSUME NEW k \in Rows, NEW x, NEW t, Left(k, x, t), UNCHANGED sources,
         k # 0 => \A y \in Stop : labels'[k - 1][y].walk_time = labels[k - 1][y].walk_time
  PROVE  Left(k, x, t)'
BY DEF Left, StopsOf, TimeAt

\* Rounds and rows are numbers.
LEMMA RoundNumber ==
  ASSUME TypeOK
  PROVE  round \in Nat /\ \A k \in Rows : k \in Nat
<1>1. n_rounds \in Nat
  BY Rounds
<1>2. \A k \in Rows : k \in Int /\ k >= 0
  BY Rounds
<1>3. round \in 0 .. n_rounds
  BY DEF TypeOK
<1>4. QED
  BY <1>1, <1>2, <1>3

\* A ride is only written in the row of the round in hand.
LEMMA RowsAheadStep ==
  ASSUME IInv, [Next]_vars
  PROVE  RowsAhead'
<1>1. CASE Initialize
  BY <1>1, Starts DEF IInv, RowsAhead, StartsAt
<1>2. CASE Alight
  <2>1. round' = round /\ \A k \in Rows : \A x \in Stop : AlightsAt(k, x)
    BY <1>2, Alights DEF IInv, Alight
  <2>2. \A k \in Rows : k > round => k # round
    BY RoundNumber DEF IInv
  <2>3. QED
    BY <2>1, <2>2 DEF IInv, RowsAhead, AlightsAt
<1>3. CASE EndRound
  <2>1. round' = round + 1 /\ \A k \in Rows : \A x \in Stop : RoundEndsAt(k, x)
    BY <1>3, RoundEnds DEF IInv, EndRound
  <2>2. \A k \in Rows : k > round + 1 => k > round
    BY RoundNumber DEF IInv
  <2>3. QED
    BY <2>1, <2>2 DEF IInv, RowsAhead, RoundEndsAt
<1>4. CASE ~ Initialize /\ ~ Alight /\ ~ EndRound
  BY <1>4, Unwritten DEF IInv, RowsAhead
<1>5. QED
  BY <1>1, <1>2, <1>3, <1>4

\* A round ends by letting people walk from where it arrived; the support row
\* is cleared when it has been read.
LEMMA WalksKnownStep ==
  ASSUME IInv, [Next]_vars
  PROVE  WalksKnown'
<1>1. UNCHANGED sources
  BY QueryKept
<1>2. CASE Initialize
  <2>1. round' = 0 /\ \A k \in Rows : ~ (k < 0)
    <3>1. round' = 0
      BY <1>2 DEF Initialize, IInv, InOrder
    <3>2. \A k \in Rows : k \in Nat
      BY RoundNumber DEF IInv
    <3>3. QED
      BY <3>1, <3>2
  <2>2. \A k \in Rows : \A x \in Stop : StartsAt(k, x)
    BY <1>2, Starts DEF IInv
  <2>3. QED
    BY <1>1, <2>1, <2>2 DEF WalksKnown, StartsAt, StopsOf, TimeAt
<1>3. CASE Alight
  <2>1. round' = round /\ \A k \in Rows : \A x \in Stop : AlightsAt(k, x)
    BY <1>3, Alights DEF IInv, Alight
  <2>2. ASSUME NEW k \in Rows, NEW x \in Stop
        PROVE  /\ labels'[k][x].walk_time = labels[k][x].walk_time
               /\ k # round => labels'[k][x] = labels[k][x]
    BY <2>1 DEF AlightsAt
  <2>3. \A k \in Rows : k < round => k # round
    BY RoundNumber DEF IInv
  <2>4. QED
    BY <1>1, <2>1, <2>2, <2>3 DEF IInv, WalksKnown, StopsOf, TimeAt
<1>4. CASE EndRound
  <2>1. round' = round + 1 /\ round \in Rows
    BY <1>4 DEF IInv, TypeOK, EndRound
  <2>2. ASSUME NEW k \in Rows, NEW x \in Stop, labels'[k][x].walk_time # UNREACHED
        PROVE  /\ k < round + 1
               /\ labels'[k][x].walk_time = labels'[k][x].time
               /\ labels'[k][x].walk_from = x
               /\ labels'[k][x].back_route # UNDEFINED
    <3>1. RoundEndsAt(k, x)
      BY <1>4, RoundEnds DEF IInv
    <3>2. k \in Int /\ round \in Int
      BY <2>1, Rounds
    <3>3. CASE k = round /\ x \in marked_stops
      <4>1. labels[k][x].back_route # UNDEFINED
        BY <3>3 DEF IInv, MarkedRode
      <4>2. QED
        BY <3>1, <3>2, <3>3, <4>1 DEF RoundEndsAt
    <3>4. CASE ~ (k = round /\ x \in marked_stops)
      <4>1. ~ (round = 0 /\ k = 1 /\ x \in StopsOf(sources)) /\ labels'[k][x] = labels[k][x]
        BY <2>2, <3>1, <3>4 DEF RoundEndsAt
      <4>2. k < round /\ labels[k][x].walk_time = labels[k][x].time
            /\ labels[k][x].walk_from = x /\ labels[k][x].back_route # UNDEFINED
        BY <2>2, <4>1 DEF IInv, WalksKnown
      <4>3. QED
        BY <3>2, <4>1, <4>2
    <3>5. QED
      BY <3>3, <3>4
  <2>3. QED
    BY <2>1, <2>2 DEF WalksKnown
<1>5. CASE ~ Initialize /\ ~ Alight /\ ~ EndRound
  BY <1>5, Unwritten DEF IInv, WalksKnown, StopsOf, TimeAt
<1>6. QED
  BY <1>2, <1>3, <1>4, <1>5

\* Nothing is written of the row that a ride was boarded from.
LEMMA BoardedFromKept ==
  ASSUME IInv, [Next]_vars, ~ Initialize,
         NEW k \in Rows, k <= round, k # 0
  PROVE  \A y \in Stop : labels'[k - 1][y].walk_time = labels[k - 1][y].walk_time
<1>1. k \in Nat /\ k - 1 \in Rows /\ k - 1 # round /\ round # 0
  <2>1. k \in Nat /\ round \in Nat
    BY RoundNumber DEF IInv
  <2>2. k - 1 \in Int /\ 0 <= k - 1 /\ k - 1 <= k /\ k - 1 # round /\ round # 0
    BY <2>1
  <2>3. QED
    BY <2>1, <2>2, RowBelow
<1>2. CASE Alight
  BY <1>1, <1>2, Alights DEF IInv, AlightsAt
<1>3. CASE EndRound
  BY <1>1, <1>3, RoundEnds DEF IInv, RoundEndsAt
<1>4. CASE ~ Alight /\ ~ EndRound
  BY <1>4, Unwritten
<1>5. QED
  BY <1>2, <1>3, <1>4

\* A label that tells of a ride still does so after a step that keeps it, or
\* writes such a ride into it.
LEMMA RideWritten ==
  ASSUME IInv, [Next]_vars, ~ Initialize, NEW k \in Rows, NEW x \in Stop, k <= round,
         NEW r, NEW n, NEW y, NEW t, NEW u, Ridden(r, n, y, t, x, u), Left(k, y, t),
         labels'[k][x].back_route = r, labels'[k][x].back_trip = n,
         labels'[k][x].back_stop = y, labels'[k][x].board_time = t, labels'[k][x].time = u
  PROVE  RideAt(k, x)'
<1>1. k # 0 => \A z \in Stop : labels'[k - 1][z].walk_time = labels[k - 1][z].walk_time
  BY BoardedFromKept
<1>2. Left(k, y, t)'
  BY <1>1, QueryKept, LeftKept
<1>3. QED
  BY <1>2 DEF RideAt, Left, Ridden, Boarded

\* An arrival is written with the trip that is aboard and the place where it was
\* boarded; no later step writes to the row it was boarded from.
LEMMA RidesRecordedStep ==
  ASSUME IInv, [Next]_vars
  PROVE  RidesRecorded'
<1>1. CASE Initialize
  <2>1. \A k \in Rows : \A x \in Stop : labels'[k][x].back_route = UNDEFINED
    BY <1>1, Starts DEF IInv, StartsAt
  <2>2. QED
    BY <2>1 DEF RidesRecorded
<1>2. CASE ~ Initialize
  <2> SUFFICES ASSUME NEW k \in Rows, NEW x \in Stop, labels'[k][x].back_route # UNDEFINED
               PROVE  RideAt(k, x)'
    BY DEF RidesRecorded
  <2>1. ASSUME /\ labels'[k][x].time = labels[k][x].time
               /\ labels'[k][x].back_route = labels[k][x].back_route
               /\ labels'[k][x].back_trip = labels[k][x].back_trip
               /\ labels'[k][x].back_stop = labels[k][x].back_stop
               /\ labels'[k][x].board_time = labels[k][x].board_time
        PROVE  RideAt(k, x)'
    <3>1. labels[k][x].back_route # UNDEFINED
      BY <2>1
    <3>2. ~ (k > round)
      BY <3>1 DEF IInv, RowsAhead
    <3>3. k <= round
      BY <3>2, RoundNumber DEF IInv
    <3>4. RideAt(k, x)
      BY <3>1 DEF IInv, RidesRecorded
    <3>5. PICK r, n, y, t, u : /\ r = labels[k][x].back_route /\ n = labels[k][x].back_trip
                               /\ y = labels[k][x].back_stop /\ t = labels[k][x].board_time
                               /\ u = labels[k][x].time
      OBVIOUS
    <3>6. Ridden(r, n, y, t, x, u) /\ Left(k, y, t)
      BY <3>4, <3>5 DEF RideAt
    <3>7. QED
      BY <1>2, <2>1, <3>3, <3>5, <3>6, RideWritten
  <2>2. CASE Alight /\ k = round /\ x = CurrentStop
    <3>1. AlightsAt(k, x)
      BY <2>2, Alights DEF IInv
    <3>2. PICK r, n, y, t, u : /\ r = at.route /\ n = at.trip
                               /\ y = at.board_stop /\ t = at.board_time /\ u = TripTime
      OBVIOUS
    <3>3. /\ labels'[k][x].back_route = r /\ labels'[k][x].back_trip = n
          /\ labels'[k][x].back_stop = y /\ labels'[k][x].board_time = t
          /\ labels'[k][x].time = u
      BY <2>2, <3>1, <3>2 DEF AlightsAt
    <3>4. at.route \in Route /\ at.pos \in DOMAIN RouteStops[at.route]
          /\ at.trip \in DOMAIN Trips[at.route] /\ at # NoRoute /\ at.trip # UNDEFINED
      BY <2>2, AtStop DEF Alight, Scanning, Aboard, IInv
    <3>5. /\ Boarded(at.route, at.trip, at.pos, at.board_stop, at.board_time)
          /\ Left(round, at.board_stop, at.board_time)
      BY <3>4 DEF IInv, OnBoard
    <3>6. Ridden(r, n, y, t, x, u) /\ Left(k, y, t)
      BY <2>2, <3>2, <3>4, <3>5 DEF Ridden, CurrentStop, TripTime
    <3>7. k <= round
      BY <2>2, RoundNumber DEF IInv
    <3>8. QED
      BY <1>2, <3>3, <3>6, <3>7, RideWritten
  <2>3. CASE Alight /\ ~ (k = round /\ x = CurrentStop)
    <3>1. labels'[k][x] = labels[k][x]
      BY <2>3, Alights DEF IInv, AlightsAt
    <3>2. QED
      BY <2>1, <3>1
  <2>4. CASE EndRound
    <3>1. RoundEndsAt(k, x)
      BY <2>4, RoundEnds DEF IInv
    <3>2. QED
      BY <2>1, <3>1 DEF RoundEndsAt
  <2>5. CASE ~ Alight /\ ~ EndRound
    <3>1. labels'[k][x] = labels[k][x]
      BY <1>2, <2>5, Unwritten
    <3>2. QED
      BY <2>1, <3>1
  <2>6. QED
    BY <2>2, <2>3, <2>4, <2>5
<1>3. QED
  BY <1>1, <1>2

\* A stop is marked when an arrival is written.
LEMMA MarkedRodeStep ==
  ASSUME IInv, [Next]_vars
  PROVE  MarkedRode'
<1>1. CASE Initialize
  <2>1. marked_stops' = {}
    BY <1>1 DEF Initialize, IInv, InOrder
  <2>2. QED
    BY <2>1 DEF MarkedRode
<1>2. CASE Alight
  <2>1. /\ marked_stops' = marked_stops \cup {CurrentStop} /\ round' = round
        /\ marked_stops \subseteq Stop
    BY <1>2 DEF Alight, IInv, TypeOK
  <2>2. /\ at.route \in Route /\ round \in Rows /\ CurrentStop \in Stop
    BY <1>2, AtStop DEF Alight, IInv
  <2>3. ASSUME NEW x \in marked_stops'
        PROVE  labels'[round][x].back_route # UNDEFINED
    <3>1. x \in Stop /\ (x # CurrentStop => x \in marked_stops)
      BY <2>1, <2>2, <2>3
    <3>2. AlightsAt(round, x)
      BY <1>2, <2>2, <3>1, Alights DEF IInv
    <3>3. CASE x = CurrentStop
      BY <2>2, <3>2, <3>3, Undefined DEF AlightsAt
    <3>4. CASE x # CurrentStop
      BY <3>1, <3>2, <3>4 DEF AlightsAt, IInv, MarkedRode
    <3>5. QED
      BY <3>3, <3>4
  <2>4. QED
    BY <2>1, <2>2, <2>3 DEF MarkedRode
<1>3. CASE EndRound
  <2>1. marked_stops' = {}
    BY <1>3 DEF EndRound
  <2>2. QED
    BY <2>1 DEF MarkedRode
<1>4. CASE ~ Initialize /\ ~ Alight /\ ~ EndRound
  BY <1>4, Unwritten DEF IInv, MarkedRode
<1>5. QED
  BY <1>1, <1>2, <1>3, <1>4

\* A trip is caught after the arrival of the last round; from then on the route
\* only goes on.
LEMMA OnBoardStep ==
  ASSUME IInv, [Next]_vars
  PROVE  OnBoard'
<1>1. CASE Board
  <2>1. PICK it : Caught(it)
    BY <1>1, Boards DEF IInv
  <2>2. /\ round \in Rows /\ at.route \in Route /\ at.pos \in DOMAIN RouteStops[at.route]
        /\ CurrentStop \in Stop /\ prev_time \in Time
    BY <1>1, AtStop DEF Board, IInv
  <2>3. at.pos \in Nat
    <3>1. RouteStops[at.route] \in Seq(Stop)
      BY <2>2, TimetableAssumption
    <3>2. QED
      BY <2>2, <3>1
  <2>4. UNCHANGED <<labels, round, sources>>
    BY <1>1 DEF Board, query
  <2>5. Left(round, CurrentStop, it.board_time)
    <3>1. it.board_time \in Instant /\ prev_time < it.board_time
      BY <2>1 DEF Caught
    <3>2. CASE round = 0
      <4>1. prev_time = labels[1][CurrentStop].walk_time /\ prev_time # UNREACHED
        BY <1>1, <3>2 DEF Board, catch_trip, prev_time, last_round
      <4>2. CurrentStop \in StopsOf(sources) /\ prev_time = TimeAt(sources, CurrentStop)
        BY <2>2, <3>2, <4>1, Rounds DEF IInv, WalksKnown
      <4>3. QED
        BY <2>2, <3>1, <3>2, <4>2 DEF Left
    <3>3. CASE round # 0
      BY <2>2, <3>1, <3>3 DEF Left, prev_time, last_round
    <3>4. QED
      BY <3>2, <3>3
  <2>6. CASE at' = NoRoute
    BY <2>6 DEF OnBoard
  <2>7. CASE at' # NoRoute
    <3>1. /\ at'.route = at.route /\ at'.pos = at.pos + 1 /\ at'.trip = it.trip
          /\ at'.board_stop = CurrentStop /\ at'.board_time = it.board_time
          /\ it.board_time = Trips[at.route][it.trip][at.pos]
      BY <2>1, <2>7 DEF Caught, Onward
    <3>2. Boarded(at.route, it.trip, at.pos + 1, CurrentStop, it.board_time)
      BY <2>2, <2>3, <3>1 DEF Boarded, CurrentStop
    <3>3. QED
      BY <2>4, <2>5, <3>1, <3>2 DEF OnBoard, Left, StopsOf, TimeAt, Boarded
  <2>8. QED
    BY <2>6, <2>7
<1>2. CASE MissTrips \/ Alight \/ RideOn
  <2>1. Scanning /\ UNCHANGED round
    BY <1>2 DEF MissTrips, Alight, RideOn
  <2>2. Onward(at) /\ round \in Rows /\ at.pos \in Nat
    BY <1>2, <2>1, Passes, AtStop DEF IInv, Iterations
  <2> SUFFICES ASSUME at' # NoRoute, at'.trip # UNDEFINED
               PROVE  OnBoard'
    BY DEF OnBoard
  <2>3. /\ at'.route = at.route /\ at'.pos = at.pos + 1 /\ at'.trip = at.trip
        /\ at'.board_stop = at.board_stop /\ at'.board_time = at.board_time
    BY <2>2 DEF Onward
  <2>4. /\ Boarded(at.route, at.trip, at.pos, at.board_stop, at.board_time)
        /\ Left(round, at.board_stop, at.board_time)
    BY <2>1, <2>3 DEF Scanning, IInv, OnBoard
  <2>5. PICK r, n, j, y, t, k : /\ r = at.route /\ n = at.trip /\ j = at.pos
                                /\ y = at.board_stop /\ t = at.board_time /\ k = round
    OBVIOUS
  <2>6. Boarded(r, n, j + 1, y, t)
    <3>1. PICK i \in DOMAIN RouteStops[r] :
            i < j /\ RouteStops[r][i] = y /\ Trips[r][n][i] = t
      BY <2>4, <2>5 DEF Boarded
    <3>2. i \in Nat
      <4>1. r \in Route
        BY <2>1, <2>5, AtStop DEF IInv
      <4>2. QED
        BY <3>1, <4>1, TimetableAssumption
    <3>3. i < j + 1
      BY <2>2, <2>5, <3>1, <3>2
    <3>4. QED
      BY <3>1, <3>3 DEF Boarded
  <2>7. Left(k, y, t)'
    <3>1. k \in Rows /\ k <= round /\ Left(k, y, t) /\ ~ Initialize
      BY <2>1, <2>2, <2>4, <2>5, RoundNumber DEF IInv, Scanning, Initialize
    <3>2. k # 0 => \A z \in Stop : labels'[k - 1][z].walk_time = labels[k - 1][z].walk_time
      BY <3>1, BoardedFromKept
    <3>3. QED
      BY <3>1, <3>2, QueryKept, LeftKept
  <2>8. QED
    BY <2>1, <2>3, <2>5, <2>6, <2>7 DEF OnBoard
<1>3. CASE NextRoute
  <2>1. at'.trip = UNDEFINED
    BY <1>3 DEF NextRoute
  <2>2. QED
    BY <2>1 DEF OnBoard
<1>4. CASE Initialize \/ NothingNear \/ EndRound \/ SkipRound \/ PickTarget \/ FollowLeg
           \/ FinishPath \/ Finish
  <2>1. at' = at /\ at = NoRoute
    <3>1. CASE EndRound
      BY <3>1 DEF EndRound
    <3>2. CASE ~ EndRound
      <4>1. pc \notin {"scan", "crashed"} /\ at' = at
        BY <1>4, <3>2 DEF Initialize, NothingNear, SkipRound, PickTarget, FollowLeg,
                          FinishPath, Finish, tables
      <4>2. QED
        BY <4>1 DEF IInv, InOrder
    <3>3. QED
      BY <3>1, <3>2
  <2>2. QED
    BY <2>1 DEF OnBoard
<1>5. CASE NoTargetKnown \/ UNCHANGED vars
  BY <1>5 DEF NoTargetKnown, query, tables, vars, IInv, OnBoard, Left, StopsOf, TimeAt, Boarded
<1>6. QED
  BY <1>1, <1>2, <1>3, <1>4, <1>5 DEF Next

\* No step unreaches a source.
LEMMA SourcesReachedStep ==
  ASSUME IInv, [Next]_vars
  PROVE  SourcesReached'
<1>1. StopsOf(sources) \subseteq Stop /\ 0 \in Rows
  BY Near, Rounds DEF IInv, TypeOK
<1>2. StopsOf(sources)' = StopsOf(sources)
  BY QueryKept DEF StopsOf
<1>3. CASE Initialize
  <2>1. \A x \in StopsOf(sources) : /\ labels'[0][x].time = TimeAt(sources, x)
                                    /\ TimeAt(sources, x) \in Instant
    BY <1>1, <1>3, Starts, Near DEF IInv, TypeOK, StartsAt
  <2>2. QED
    BY <1>2, <2>1, Instants DEF SourcesReached
<1>4. CASE NothingNear \/ NoTargetKnown
  BY <1>4 DEF NothingNear, NoTargetKnown, SourcesReached
<1>5. CASE ~ Initialize /\ ~ NothingNear /\ ~ NoTargetKnown
  <2>1. pc' \notin {"initialize", "failed", "crashed"} => pc \notin {"initialize", "failed", "crashed"}
    BY <1>5 DEF Next, vars, NextRoute, Board, MissTrips, Alight, RideOn, EndRound, Scanning,
                SkipRound, PickTarget, FollowLeg, FinishPath, Finish
  <2>2. ASSUME NEW x \in StopsOf(sources), labels[0][x].time # UNREACHED
        PROVE  labels'[0][x].time # UNREACHED
    <3>1. CASE Alight
      <4>1. AlightsAt(0, x) /\ TripTime \in Instant
        BY <1>1, <3>1, Alights, AtStop DEF IInv, Alight
      <4>2. QED
        BY <2>2, <4>1, Instants DEF AlightsAt
    <3>2. CASE EndRound
      BY <1>1, <2>2, <3>2, RoundEnds DEF IInv, RoundEndsAt
    <3>3. CASE ~ Alight /\ ~ EndRound
      BY <1>5, <2>2, <3>3, Unwritten
    <3>4. QED
      BY <3>1, <3>2, <3>3
  <2>3. QED
    BY <1>2, <2>1, <2>2 DEF IInv, SourcesReached
<1>6. QED
  BY <1>3, <1>4, <1>5

\* A leg is put before the path that was read so far, and leads there.
LEMMA WalkedBackStep ==
  ASSUME IInv, [Next]_vars
  PROVE  WalkedBack'
<1> SUFFICES ASSUME WalkingBack'
             PROVE  WalkedBack'
  BY DEF WalkedBack
<1>1. CASE PickTarget
  <2>1. UNCHANGED <<labels, sources, targets>>
    BY <1>1 DEF PickTarget, query, tables
  <2>2. /\ back' \in WalkBacks
        /\ back'.round = back'.n_xfers /\ back'.path = <<>>
        /\ back'.sidx \in StopsOf(targets)
        /\ labels[back'.round][back'.sidx].walk_time # UNREACHED
    BY <1>1, Picks
  <2>3. back'.n_xfers \in Nat /\ back'.round \in Int
    BY <2>2, RoundNumber DEF IInv, WalkBacks
  <2>4. /\ -1 <= back'.round /\ back'.round <= back'.n_xfers
        /\ 2 * (back'.n_xfers - back'.round) = 0
    <3>1. \A k \in Nat : -1 <= k /\ k <= k /\ 2 * (k - k) = 0
      OBVIOUS
    <3>2. QED
      BY <2>2, <2>3, <3>1
  <2>5. Len(back'.path) = 2 * (back'.n_xfers - back'.round)
    BY <2>2, <2>4
  <2>6. Alternates(<<>>) /\ Linked(<<>>)
    <3>1. DOMAIN <<>> = {} /\ 2 .. Len(<<>>) = {}
      OBVIOUS
    <3>2. QED
      BY <3>1 DEF Alternates, Linked
  <2>7. PathRead(back)'
    BY <2>1, <2>2, <2>5, <2>6 DEF PathRead, StopsOf, Alternates, Linked
  <2>8. QED
    BY <2>1, <2>2, <2>4, <2>7 DEF WalkedBack
<1>2. CASE FollowLeg
  <2>1. UNCHANGED <<labels, sources, targets>>
    BY <1>2 DEF FollowLeg, query, tables
  <2>2. /\ back' \in WalkBacks
        /\ back'.n_xfers = back.n_xfers /\ back'.round = back.round - 1
        /\ back'.sidx = ride.back_stop /\ PathRead(back')
        /\ Left(back.round, back'.sidx, back'.path[1].departure_time)
    BY <1>2, Follows
  <2>3. /\ back.round \in Rows /\ back.round >= 0 /\ back.round <= back.n_xfers
        /\ back.n_xfers \in Rows
    BY <1>2, LegKnown DEF WalkingBack, FollowLeg, IInv, WalkedBack, WalkBacks
  <2>4. back.round \in Nat /\ back.n_xfers \in Nat
    BY <2>3, RoundNumber DEF IInv
  <2>5. -1 <= back'.round /\ back'.round <= back'.n_xfers
    <3>1. \A k, n \in Nat : k <= n => -1 <= k - 1 /\ k - 1 <= n
      OBVIOUS
    <3>2. QED
      BY <2>2, <2>3, <2>4, <3>1
  <2>6. back'.round >= 0 => labels[back'.round][back'.sidx].walk_time # UNREACHED
    <3> SUFFICES ASSUME back'.round >= 0
                 PROVE  labels[back'.round][back'.sidx].walk_time # UNREACHED
      OBVIOUS
    <3>1. back.round # 0 /\ back.round - 1 = back'.round
      <4>1. \A k \in Nat : k - 1 >= 0 => k # 0
        OBVIOUS
      <4>2. QED
        BY <2>2, <2>4, <4>1
    <3>2. PICK t : t = back'.path[1].departure_time
      OBVIOUS
    <3>3. t \in Instant /\ labels[back'.round][back'.sidx].walk_time < t
      BY <2>2, <3>1, <3>2 DEF Left
    <3>4. t \in Nat /\ t < UNREACHED /\ UNREACHED \in Nat
      BY <3>3, Instants
    <3>5. ~ (UNREACHED < t)
      BY <3>4
    <3>6. QED
      BY <3>3, <3>5
  <2>7. PathRead(back)'
    BY <2>1, <2>2 DEF PathRead, Left, StopsOf, TimeAt, Alternates, Linked, Ridden, Boarded
  <2>8. /\ back' \in WalkBacks
        /\ back'.round >= 0 => labels'[back'.round][back'.sidx].walk_time # UNREACHED
    BY <2>1, <2>2, <2>6
  <2>9. QED
    BY <2>5, <2>7, <2>8 DEF WalkedBack
<1>3. CASE UNCHANGED vars
  <2>1. UNCHANGED <<labels, sources, targets, back, pc>>
    BY <1>3 DEF vars, query, tables
  <2>2. PathRead(back)' <=> PathRead(back)
    BY <2>1 DEF PathRead, Left, StopsOf, TimeAt, Alternates, Linked, Ridden, Boarded
  <2>3. WalkingBack' <=> WalkingBack
    BY <2>1 DEF WalkingBack
  <2>4. QED
    BY <2>1, <2>2, <2>3 DEF IInv, WalkedBack
<1>4. QED
  <2>1. ~ (\/ Initialize \/ NothingNear \/ NoTargetKnown \/ NextRoute \/ Board \/ MissTrips \/ Alight \/ RideOn
           \/ EndRound \/ SkipRound \/ FinishPath \/ Finish)
    BY DEF WalkingBack, Initialize, NothingNear, NoTargetKnown, NextRoute, Board, MissTrips, Alight, RideOn, EndRound,
           Scanning, SkipRound, FinishPath, Finish
  <2>2. QED
    BY <1>1, <1>2, <1>3, <2>1 DEF Next

\* Boarded where BoardedEarlier says, the first ride is caught at a stop reached in
\* time, and goes to the same place.
LEMMA EarlierBoarding ==
  ASSUME TypeOK, NEW first \in Connections, Left(0, first.sidx_from, first.departure_time),
         Ridden(first.ridx, first.tidx, first.sidx_from, first.departure_time,
                first.sidx_to, first.arrival_time),
         NEW c, c = BoardedEarlier(first)
  PROVE  /\ c \in Connections /\ c.sidx_to = first.sidx_to
         /\ c.arrival_time = first.arrival_time
         /\ Left(0, c.sidx_from, c.departure_time)
         /\ Ridden(c.ridx, c.tidx, c.sidx_from, c.departure_time, c.sidx_to, c.arrival_time)
<1> DEFINE S == EarlierSources(first)
           best == {j \in S : \A l \in S : sources[j][2] <= sources[l][2]}
           i == Max(best)
           x == sources[i][1]
           pos == IndexIn(first.ridx, x)
           time == Trips[first.ridx][first.tidx][pos]
<1>1. CASE S = {}
  BY <1>1 DEF BoardedEarlier
<1>2. CASE S # {}
  <2>1. /\ sources \in Seq(Stop \X Instant)
        /\ \A j \in DOMAIN sources : /\ sources[j][1] \in StopsOf(sources)
                                     /\ TimeAt(sources, sources[j][1]) = sources[j][2]
    BY Near DEF TypeOK
  <2>2. S \subseteq DOMAIN sources
    BY DEF EarlierSources
  <2>3. \A j \in DOMAIN sources : sources[j][1] \in Stop /\ sources[j][2] \in Nat
    BY <2>1, Instants
  <2>4. best # {}
    <3> DEFINE L == {sources[j][2] : j \in S}
    <3> HIDE DEF S
    <3>1. L \in SUBSET Nat /\ L # {}
      BY <1>2, <2>2, <2>3
    <3>2. PICK m \in L : \A z \in L : m <= z
      <4> HIDE DEF L
      <4>1. QED
        BY <3>1, LeastNatural
    <3>3. PICK j \in S : m = sources[j][2]
      BY <3>2
    <3>4. j \in best
      BY <3>2, <3>3
    <3>5. QED
      BY <3>4
  <2>5. i \in S
    <3>1. DOMAIN sources \subseteq 0 .. Len(sources) /\ Len(sources) \in Nat
      BY <2>1
    <3>2. best \in SUBSET (0 .. Len(sources)) /\ best \subseteq S
      <4> HIDE DEF S
      <4>1. QED
        BY <2>2, <3>1
    <3> HIDE DEF best
    <3>3. Max(best) \in best
      BY <2>4, <3>1, <3>2, Greatest
    <3>4. QED
      BY <3>2, <3>3
  <2> HIDE DEF best, i
  <2>6. /\ i \in DOMAIN sources /\ Serves(first.ridx, x)
        /\ pos < IndexIn(first.ridx, first.sidx_from)
        /\ get_earlier_trip(first.ridx, pos, sources[i][2]) = first.tidx
    BY <2>5 DEF EarlierSources
  <2>7. first.ridx \in Route /\ first.tidx \in DOMAIN Trips[first.ridx]
    BY DEF Ridden
  <2>8. PICK j \in DOMAIN RouteStops[first.ridx] :
          /\ RouteStops[first.ridx][j] = first.sidx_to
          /\ Trips[first.ridx][first.tidx][j] = first.arrival_time
          /\ Boarded(first.ridx, first.tidx, j, first.sidx_from, first.departure_time)
    BY DEF Ridden
  <2>9. PICK h \in DOMAIN RouteStops[first.ridx] :
          h < j /\ RouteStops[first.ridx][h] = first.sidx_from
    BY <2>8 DEF Boarded
  <2>10. pos \in DOMAIN RouteStops[first.ridx] /\ RouteStops[first.ridx][pos] = x
    BY <2>6, <2>7, Indexed
  <2>11. pos < j
    <3>1. Serves(first.ridx, first.sidx_from)
      BY <2>9 DEF Serves, Range
    <3>2. IndexIn(first.ridx, first.sidx_from) <= h
      BY <2>7, <2>9, <3>1, Indexed
    <3>3. IndexIn(first.ridx, first.sidx_from) \in DOMAIN RouteStops[first.ridx]
      BY <2>7, <3>1, Indexed
    <3>4. \A m \in DOMAIN RouteStops[first.ridx] : m \in Nat
      <4>1. RouteStops[first.ridx] \in Seq(Stop)
        BY <2>7, TimetableAssumption
      <4>2. QED
        BY <4>1
    <3>5. \A a, b, d, e \in Nat : a < b /\ b <= d /\ d < e => a < e
      OBVIOUS
    <3>6. QED
      BY <2>6, <2>8, <2>9, <2>10, <3>2, <3>3, <3>4, <3>5
  <2>12. first.tidx # UNDEFINED
    BY <2>7, TripTimes, Undefined, TimetableAssumption
  <2>13. time > sources[i][2] /\ time \in Instant
    BY <2>6, <2>7, <2>10, <2>12, TripFound, TripTimes
  <2>14. x \in Stop /\ x \in StopsOf(sources) /\ TimeAt(sources, x) = sources[i][2]
    BY <2>1, <2>3, <2>6
  <2>15. c = [first EXCEPT !.sidx_from = x, !.departure_time = time]
    BY <1>2 DEF BoardedEarlier, i, best
  <2>16. time = Trips[first.ridx][first.tidx][pos]
    OBVIOUS
  <2> HIDE DEF time, pos, x
  <2>17. time \in Time
    BY <2>13, Instants
  <2>18. /\ c \in Connections /\ c.sidx_to = first.sidx_to
         /\ c.arrival_time = first.arrival_time /\ c.sidx_from = x
         /\ c.departure_time = time /\ c.ridx = first.ridx /\ c.tidx = first.tidx
    BY <2>14, <2>15, <2>17 DEF Connections
  <2>19. Left(0, c.sidx_from, c.departure_time)
    <3>1. TimeAt(sources, x) < time
      BY <2>3, <2>6, <2>13, <2>14, Instants
    <3>2. QED
      BY <2>13, <2>14, <2>18, <3>1 DEF Left
  <2>20. Boarded(first.ridx, first.tidx, j, x, time)
    BY <2>10, <2>11, <2>16 DEF Boarded
  <2>21. Ridden(c.ridx, c.tidx, c.sidx_from, c.departure_time, c.sidx_to, c.arrival_time)
    BY <2>7, <2>8, <2>18, <2>20 DEF Ridden
  <2>22. QED
    BY <2>18, <2>19, <2>21
<1>3. QED
  BY <1>1, <1>2

\* A path with another start of its first ride.
LEMMA Restarted ==
  ASSUME NEW p \in Seq(Connections), p # <<>>, Alternates(p), Linked(p),
         NEW a \in Connections, a.sidx_to = p[1].sidx_to, a.arrival_time = p[1].arrival_time,
         Ridden(a.ridx, a.tidx, a.sidx_from, a.departure_time, a.sidx_to, a.arrival_time),
         Len(p) # 1
  PROVE  /\ <<a>> \o Tail(p) \in Seq(Connections) /\ Len(<<a>> \o Tail(p)) = Len(p)
         /\ Alternates(<<a>> \o Tail(p)) /\ Linked(<<a>> \o Tail(p))
         /\ (<<a>> \o Tail(p))[1] = a
         /\ (<<a>> \o Tail(p))[Len(p)] = p[Len(p)]
<1> DEFINE c == <<a>> \o Tail(p)
<1>1. <<a>> \in Seq(Connections) /\ Tail(p) \in Seq(Connections)
      /\ Len(Tail(p)) = Len(p) - 1 /\ Len(p) \in Nat /\ Len(p) > 1
  <2>1. \A S : \A x \in S : <<x>> \in Seq(S)
    OBVIOUS
  <2>2. Len(p) \in Nat /\ Len(p) # 0
    OBVIOUS
  <2>3. Len(p) > 1
    <3>1. \A n \in Nat : n # 0 /\ n # 1 => n > 1
      OBVIOUS
    <3>2. QED
      BY <2>2, <3>1
  <2>4. Tail(p) \in Seq(Connections) /\ Len(Tail(p)) = Len(p) - 1
    OBVIOUS
  <2>5. QED
    BY <2>1, <2>2, <2>3, <2>4
<1>2. c \in Seq(Connections) /\ Len(c) = Len(p)
  BY <1>1
<1>3. c[1] = a /\ \A i \in 2 .. Len(p) : c[i] = p[i]
  BY <1>1
<1>4. DOMAIN c = 1 .. Len(p) /\ DOMAIN p = 1 .. Len(p)
  BY <1>2
<1> HIDE DEF c
<1>5. ASSUME NEW i \in 1 .. Len(p)
      PROVE  c[i].arrival_time = p[i].arrival_time /\ c[i].sidx_to = p[i].sidx_to
  BY <1>1, <1>3
<1>6. Alternates(c)
  <2> SUFFICES ASSUME NEW i \in DOMAIN c
               PROVE  IF i % 2 = 1
                      THEN /\ Ridden(c[i].ridx, c[i].tidx, c[i].sidx_from, c[i].departure_time,
                                     c[i].sidx_to, c[i].arrival_time)
                           /\ i > 1 => c[i].departure_time > c[i - 1].arrival_time
                      ELSE /\ c[i].ridx = WALK /\ c[i].sidx_from = c[i].sidx_to
                           /\ c[i].departure_time = c[i].arrival_time
                           /\ c[i].departure_time = c[i - 1].arrival_time
    BY DEF Alternates
  <2>1. CASE i = 1
    <3>1. 1 % 2 = 1 /\ ~ (1 > 1)
      OBVIOUS
    <3>2. QED
      BY <1>3, <2>1, <3>1
  <2>2. CASE i # 1
    <3>1. c[i] = p[i] /\ i \in DOMAIN p /\ i - 1 \in 1 .. Len(p)
      BY <1>1, <1>3, <1>4, <2>2
    <3>2. c[i - 1].arrival_time = p[i - 1].arrival_time
      BY <1>5, <3>1
    <3>3. QED
      BY <3>1, <3>2 DEF Alternates
  <2>3. QED
    BY <2>1, <2>2
<1>7. Linked(c)
  <2> SUFFICES ASSUME NEW i \in 2 .. Len(p)
               PROVE  c[i].sidx_from = c[i - 1].sidx_to
    BY <1>2 DEF Linked
  <2>1. i - 1 \in 1 .. Len(p)
    BY <1>1
  <2>2. QED
    BY <1>3, <1>5, <2>1 DEF Linked
<1>8. c[Len(p)] = p[Len(p)]
  BY <1>1, <1>3
<1>9. QED
  BY <1>2, <1>3, <1>6, <1>7, <1>8 DEF c

\* When the walk back has come to the origin, the path is a journey once its first
\* ride is boarded at the best place, and that ride starts where the origin is.
LEMMA Arrived ==
  ASSUME IInv, WalkingBack, back.round < 0
  PROVE  /\ Travels(<<BoardedEarlier(Head(back.path))>> \o Tail(back.path), back.n_xfers + 1)
         /\ back.sidx \in StopsOf(sources) /\ FirstState.time # UNREACHED
         /\ back.path # <<>>
         /\ (<<BoardedEarlier(Head(back.path))>> \o Tail(back.path))[Len(back.path)]
              = back.path[Len(back.path)]
<1> DEFINE p == back.path
           first == Head(p)
<1>1. /\ back \in WalkBacks /\ -1 <= back.round /\ PathRead(back)
  BY DEF IInv, WalkedBack
<1>2. back.round = -1 /\ back.n_xfers \in Nat /\ back.n_xfers \in Rows
  <2>1. \A k \in Int : k < 0 /\ -1 <= k => k = -1
    OBVIOUS
  <2>2. QED
    BY <1>1, <2>1, RoundNumber DEF WalkBacks, IInv
<1>3. Len(p) = 2 * (back.n_xfers + 1)
  <2>1. \A n \in Nat : 2 * (n - (-1)) = 2 * (n + 1)
    OBVIOUS
  <2>2. QED
    BY <1>1, <1>2, <2>1 DEF PathRead
<1>4. p \in Seq(Connections) /\ Alternates(p) /\ Linked(p)
  BY <1>1 DEF WalkBacks, PathRead
<1>5. p # <<>> /\ Len(p) # 1 /\ Len(p) \in Nat /\ Len(p) > 1
  <2>1. \A n \in Nat : 2 * (n + 1) # 1 /\ 2 * (n + 1) # 0
    OBVIOUS
  <2>2. QED
    BY <1>2, <1>3, <1>4, <2>1
<1>6. first = p[1] /\ first \in Connections
  BY <1>4, <1>5
<1>7. /\ first.sidx_from = back.sidx
      /\ Left(0, back.sidx, first.departure_time)
      /\ p[Len(p)].sidx_to \in StopsOf(targets)
  <2>1. (-1) + 1 = 0
    OBVIOUS
  <2>2. QED
    BY <1>1, <1>2, <1>5, <1>6, <2>1 DEF PathRead
<1>8. Ridden(first.ridx, first.tidx, first.sidx_from, first.departure_time,
             first.sidx_to, first.arrival_time)
  <2>1. 1 % 2 = 1 /\ 1 \in DOMAIN p
    BY <1>4, <1>5
  <2>2. QED
    BY <1>4, <1>6, <2>1 DEF Alternates
<1>9. PICK a : a = BoardedEarlier(first)
  OBVIOUS
<1>10. /\ a \in Connections /\ a.sidx_to = first.sidx_to /\ a.arrival_time = first.arrival_time
       /\ Left(0, a.sidx_from, a.departure_time)
       /\ Ridden(a.ridx, a.tidx, a.sidx_from, a.departure_time, a.sidx_to, a.arrival_time)
  BY <1>6, <1>7, <1>8, <1>9, EarlierBoarding DEF IInv
<1> DEFINE c == <<a>> \o Tail(p)
<1>11. /\ c \in Seq(Connections) /\ Len(c) = Len(p) /\ Alternates(c) /\ Linked(c)
       /\ c[1] = a /\ c[Len(p)] = p[Len(p)]
  BY <1>4, <1>5, <1>6, <1>10, Restarted
<1>12. a.sidx_from \in StopsOf(sources) /\ TimeAt(sources, a.sidx_from) < a.departure_time
       /\ a.departure_time \in Nat
  BY <1>10, Instants DEF Left
<1>13. TimeAt(sources, a.sidx_from) \in Nat
  BY Near, Instants DEF IInv, TypeOK
<1>14. a.departure_time > TimeAt(sources, a.sidx_from)
  BY <1>12, <1>13
<1>15. back.n_xfers + 1 \in Nat \ {0}
  BY <1>2
<1> HIDE DEF c
<1>16. Travels(c, back.n_xfers + 1)
  BY <1>3, <1>7, <1>11, <1>14, <1>15 DEF Travels
<1>17. FirstState.time # UNREACHED
  BY <1>9, <1>12 DEF WalkingBack, FirstState, IInv, SourcesReached
<1>18. QED
  BY <1>5, <1>7, <1>9, <1>11, <1>16, <1>17 DEF c, Left

\* A path that has been read down to row 0 is a journey, also when it is
\* boarded earlier.
LEMMA AnswersStep ==
  ASSUME IInv, [Next]_vars
  PROVE  Answers'
<1>1. UNCHANGED <<sources, targets>>
  BY QueryKept
<1>2. \A c, n : Travels(c, n) => Travels(c, n)'
  BY <1>1 DEF Travels, TimeAt, StopsOf, Alternates, Linked, Ridden, Boarded
<1>3. CASE FinishPath
  <2>1. PICK c, n : /\ c = <<BoardedEarlier(Head(back.path))>> \o Tail(back.path)
                    /\ n = back.n_xfers + 1
    OBVIOUS
  <2>2. Travels(c, n)
    BY <1>3, <2>1, Arrived DEF WalkingBack, FinishPath
  <2>3. PICK e : e = [n_rides |-> n, connections |-> c]
    OBVIOUS
  <2>4. pareto_set' = Append(pareto_set, e)
    BY <1>3, <2>1, <2>3 DEF FinishPath
  <2>5. e.n_rides = n /\ e.connections = c
    BY <2>3
  <2>6. QED
    BY <1>2, <2>2, <2>4, <2>5 DEF IInv, Answers
<1>4. CASE ~ FinishPath
  <2>1. UNCHANGED pareto_set
    BY <1>4 DEF Next, vars, Initialize, NothingNear, NoTargetKnown, NextRoute, Board, MissTrips, Alight,
                RideOn, EndRound, SkipRound, PickTarget, FollowLeg, Finish
  <2>2. QED
    BY <1>2, <2>1 DEF IInv, Answers
<1>5. QED
  BY <1>3, <1>4

\* Every step of the search keeps the invariant.
LEMMA StepInv ==
  ASSUME IInv, [Next]_vars
  PROVE  IInv'
BY TypeStep, OrderStep, RowsAheadStep, WalksKnownStep, RidesRecordedStep, MarkedRodeStep,
   OnBoardStep, SourcesReachedStep, WalkedBackStep, AnswersStep DEF IInv

\* What the invariant says of the answer is what JourneysTravellable says.
LEMMA Travellable ==
  ASSUME IInv
  PROVE  JourneysTravellable
<1>1. JourneyRecorded
  <2>1. CASE back.round >= 0
    BY <2>1, LegKnown DEF WalkingBack, JourneyRecorded
  <2>2. CASE ~ (back.round >= 0)
    <3>1. WalkingBack => back.round < 0
      BY <2>2 DEF IInv, WalkedBack, WalkBacks
    <3>2. QED
      BY <2>2, <3>1, Arrived DEF WalkingBack, JourneyRecorded
  <2>3. QED
    BY <2>1, <2>2
<1>2. ASSUME NEW p \in Range(pareto_set)
      PROVE  Travels(p.connections, p.n_rides)
  BY <1>2 DEF IInv, Answers, Range
<1>3. ASSUME NEW c, Alternates(c), NEW i \in DOMAIN c
      PROVE  IF i % 2 = 1
             THEN OnTrip(c[i]) /\ (i > 1 => c[i].departure_time > c[i - 1].arrival_time)
             ELSE /\ c[i].ridx = WALK /\ c[i].sidx_from = c[i].sidx_to
                  /\ c[i].departure_time = c[i].arrival_time
                  /\ c[i].departure_time = c[i - 1].arrival_time
  BY <1>3 DEF Alternates, Ridden, Boarded, OnTrip
<1>4. QED
  BY <1>1, <1>2, <1>3 DEF JourneysTravellable, Travels, Linked

-----------------------------------------------------------------------------
(* The life of a planner.                                                  *)

\* Until a query is made the search has not begun.
TransitInv == IInv /\ (asked = FALSE => Init) /\ asked \in BOOLEAN

\* The invariant holds from the first query on, whatever happened to the
\* timetable before.
LEMMA TransitInvariance == TransitSpec => []TransitInv
<1>1. TransitInit => TransitInv
  BY InitInv DEF TransitInit, TransitInv
<1>2. TransitInv /\ [TransitNext]_<<vars, process, serialized>> => TransitInv'
  <2> SUFFICES ASSUME TransitInv, [TransitNext]_<<vars, process, serialized>>
               PROVE  TransitInv'
    OBVIOUS
  <2>1. CASE Search
    <3>1. [Next]_vars /\ asked = TRUE /\ asked' = asked
      BY <2>1 DEF Search, process, TransitInv
    <3>2. IInv'
      BY <3>1, StepInv DEF TransitInv
    <3>3. QED
      BY <3>1, <3>2 DEF TransitInv
  <2>2. CASE Ask
    <3>1. /\ asked = FALSE /\ asked' = TRUE
          /\ sources' \in Origins /\ targets' \in Destinations
          /\ UNCHANGED <<labels, minimum, marked_stops, Q, pending, round, at, pc, back,
                         pareto_set>>
      BY <2>2 DEF Ask, tables, TransitInv
    <3>2. Init'
      BY <3>1 DEF TransitInv, Init
    <3>3. IInv'
      BY <3>2, InitInv, PTL
    <3>4. QED
      BY <3>1, <3>3 DEF TransitInv
  <2>3. CASE \/ ParseTimetable \/ SaveTimetable \/ LoadTimetable \/ LoadRefused \/ Restart
             \/ UNCHANGED <<vars, process, serialized>>
    <3>1. UNCHANGED vars /\ asked' = asked
      BY <2>3 DEF ParseTimetable, SaveTimetable, LoadTimetable, LoadRefused, Restart, process
    <3>2. IInv'
      BY <3>1, StepInv DEF TransitInv
    <3>3. Init => Init'
      BY <3>1 DEF vars, Init
    <3>4. QED
      BY <3>1, <3>2, <3>3 DEF TransitInv
  <2>4. QED
    BY <2>1, <2>2, <2>3 DEF TransitNext
<1>3. QED
  BY <1>1, <1>2, PTL DEF TransitSpec

\* What the invariant says holds in every state.
LEMMA Invariance == TransitSpec => []IInv
<1>1. TransitInv => IInv
  BY DEF TransitInv
<1>2. QED
  BY <1>1, TransitInvariance, PTL

\* Every variable of the search keeps its type, for every timetable and every
\* query: the positions and rows that the unchecked arrays of RAPTOR_algorithm
\* are read at exist.
THEOREM SearchTypes == TransitSpec => []TypeOK
<1>1. IInv => TypeOK
  BY DEF IInv
<1>2. QED
  BY <1>1, Invariance, PTL

\* get_transit_route never meets a label that is not there, and every journey it
\* returns can be travelled: rides along trips and waits by turns, each after the
\* one before, from a stop near the origin to one near the destination.
THEOREM TravellableJourneys == TransitSpec => []JourneysTravellable
<1>1. IInv => JourneysTravellable
  BY Travellable
<1>2. QED
  BY <1>1, Invariance, PTL

-----------------------------------------------------------------------------
(* What can be reached.  The reference of the model, ride by ride.         *)

\* The arrivals B, and those one more ride makes of them.
OneRideMore(B) ==
  B \cup {<<RouteStops[d[1]][d[4]], Trips[d[1]][d[2]][d[4]]>> : d \in
            {e \in Ride : e[3] < e[4] /\ \E a \in B :
               /\ a[1] = RouteStops[e[1]][e[3]]
               /\ a[2] < Trips[e[1]][e[2]][e[3]]}}

\* Arrivals(k), from the arrivals A on foot.
Reach(A, k) ==
  LET f[n \in 0 .. k] == IF n = 0 THEN A ELSE OneRideMore(f[n - 1])
  IN  f[k]

\* Where one can be, and when.
Places == Stop \X Instant

\* The arrivals of the reference are those of so many rides.
LEMMA ArrivalsReach ==
  ASSUME NEW k
  PROVE  Arrivals(k) = Reach(Range(sources), k)
BY DEF Arrivals, Reach, OneRideMore

\* A ride is along a trip of a route, between two of its positions.
LEMMA RideKnown ==
  ASSUME NEW d \in Ride
  PROVE  /\ d[1] \in Route /\ d[2] \in DOMAIN Trips[d[1]]
         /\ d[3] \in DOMAIN RouteStops[d[1]] /\ d[4] \in DOMAIN RouteStops[d[1]]
<1>1. PICK r \in Route : d \in {<<r, n, i, j>> : n \in DOMAIN Trips[r], i \in DOMAIN RouteStops[r],
                                 j \in DOMAIN RouteStops[r]}
  BY DEF Ride
<1>2. PICK n \in DOMAIN Trips[r], i \in DOMAIN RouteStops[r], j \in DOMAIN RouteStops[r] :
        d = <<r, n, i, j>>
  BY <1>1
<1>3. QED
  BY <1>2

\* A ride brings one to a stop at a time that can be reckoned with.
LEMMA RideMore ==
  ASSUME NEW B \in SUBSET Places
  PROVE  OneRideMore(B) \in SUBSET Places /\ B \subseteq OneRideMore(B)
<1>1. ASSUME NEW d \in Ride
      PROVE  <<RouteStops[d[1]][d[4]], Trips[d[1]][d[2]][d[4]]>> \in Places
  BY RideKnown, TripTimes DEF Places
<1>2. QED
  BY <1>1 DEF OneRideMore

\* A trip that leaves after one arrived takes one on to its later stops.
LEMMA RideReaches ==
  ASSUME NEW B \in SUBSET Places, NEW r \in Route, NEW n \in DOMAIN Trips[r],
         NEW i \in DOMAIN RouteStops[r], NEW j \in DOMAIN RouteStops[r], i < j,
         NEW t, <<RouteStops[r][i], t>> \in B, t < Trips[r][n][i]
  PROVE  <<RouteStops[r][j], Trips[r][n][j]>> \in OneRideMore(B)
<1> DEFINE e == <<r, n, i, j>>  a == <<RouteStops[r][i], t>>
<1>1. e \in Ride
  BY DEF Ride
<1>2. e[1] = r /\ e[2] = n /\ e[3] = i /\ e[4] = j /\ a[1] = RouteStops[r][i] /\ a[2] = t
  OBVIOUS
<1> HIDE DEF e, a
<1>3. e[3] < e[4] /\ \E b \in B : b[1] = RouteStops[e[1]][e[3]] /\ b[2] < Trips[e[1]][e[2]][e[3]]
  BY <1>2 DEF a
<1>4. <<RouteStops[e[1]][e[4]], Trips[e[1]][e[2]][e[4]]>> \in OneRideMore(B)
  BY <1>1, <1>3 DEF OneRideMore
<1>5. QED
  BY <1>2, <1>4

\* Trip n of r brings one from an arrival of B, at its i-th stop, to x at time t.
Boardable(B, r, n, i, j, x, t) ==
  /\ r \in Route /\ n \in DOMAIN Trips[r]
  /\ i \in DOMAIN RouteStops[r] /\ j \in DOMAIN RouteStops[r] /\ i < j
  /\ RouteStops[r][j] = x /\ Trips[r][n][j] = t
  /\ \E u \in Instant : <<RouteStops[r][i], u>> \in B /\ u < Trips[r][n][i]

\* What one more ride brings, a trip brings that leaves after one arrived.
LEMMA ReachedByRide ==
  ASSUME NEW B \in SUBSET Places, NEW x, NEW t, <<x, t>> \in OneRideMore(B), <<x, t>> \notin B
  PROVE  \E r, n, i, j : Boardable(B, r, n, i, j, x, t)
<1>1. PICK d \in Ride : /\ d[3] < d[4]
                        /\ \E a \in B : a[1] = RouteStops[d[1]][d[3]] /\ a[2] < Trips[d[1]][d[2]][d[3]]
                        /\ <<x, t>> = <<RouteStops[d[1]][d[4]], Trips[d[1]][d[2]][d[4]]>>
  BY DEF OneRideMore
<1>2. PICK a \in B : a[1] = RouteStops[d[1]][d[3]] /\ a[2] < Trips[d[1]][d[2]][d[3]]
  BY <1>1
<1>3. a = <<a[1], a[2]>> /\ a[2] \in Instant
  BY DEF Places
<1>4. Boardable(B, d[1], d[2], d[3], d[4], x, t)
  BY <1>1, <1>2, <1>3, RideKnown DEF Boardable
<1>5. QED
  BY <1>4

\* The sets of arrivals grow ride by ride.
LEMMA ReachGrows ==
  ASSUME NEW A \in SUBSET Places, NEW k \in Nat
  PROVE  /\ Reach(A, 0) = A /\ Reach(A, k) \in SUBSET Places
         /\ Reach(A, k + 1) = OneRideMore(Reach(A, k))
<1> DEFINE V == SUBSET Places
           Goes(f, n) == f = [m \in 0 .. n |-> IF m = 0 THEN A ELSE OneRideMore(f[m - 1])]
           f(n) == CHOOSE g : Goes(g, n)
<1>1. \A n : Reach(A, n) = f(n)[n]
  BY DEF Reach
<1>2. ASSUME NEW n \in Nat PROVE \E g : Goes(g, n)
  <2> DEFINE step == [p \in V \X (1 .. n) |-> OneRideMore(p[1])]
  <2>1. Steps(step, V, n)
    BY RideMore DEF Steps
  <2> HIDE DEF V
  <2>2. PICK g : Iterates(g, A, step, V, n)
    <3>1. A \in V
      BY DEF V
    <3> HIDE DEF step
    <3>2. QED
      BY <2>1, <3>1, Iteration
  <2>3. \A m \in 1 .. n : g[m] = OneRideMore(g[m - 1])
    <3> SUFFICES ASSUME NEW m \in 1 .. n PROVE g[m] = OneRideMore(g[m - 1])
      OBVIOUS
    <3>1. <<g[m - 1], m>> \in V \X (1 .. n)
      BY <2>2 DEF Iterates
    <3>2. QED
      BY <2>2, <3>1 DEF Iterates
  <2>4. g = [m \in 0 .. n |-> g[m]] /\ g[0] = A
    BY <2>2 DEF Iterates
  <2>5. \A m \in 0 .. n : m = 0 \/ m \in 1 .. n
    OBVIOUS
  <2>6. \A m \in 0 .. n : g[m] = IF m = 0 THEN A ELSE OneRideMore(g[m - 1])
    <3>1. 0 \notin 1 .. n
      OBVIOUS
    <3>2. QED
      BY <2>3, <2>4, <2>5, <3>1, Zenon
  <2>7. Goes(g, n)
    BY <2>4, <2>6
  <2>8. QED
    BY <2>7
<1>3. ASSUME NEW n \in Nat
      PROVE  /\ f(n)[0] = A
             /\ \A m \in 1 .. n : f(n)[m] = OneRideMore(f(n)[m - 1])
  <2> DEFINE g == f(n)
  <2>1. Goes(g, n)
    BY <1>2
  <2> HIDE DEF g
  <2>2. \A m \in 0 .. n : g[m] = IF m = 0 THEN A ELSE OneRideMore(g[m - 1])
    BY <2>1
  <2>3. 0 \in 0 .. n /\ \A m \in 1 .. n : m \in 0 .. n /\ m # 0
    OBVIOUS
  <2>4. g[0] = A /\ \A m \in 1 .. n : g[m] = OneRideMore(g[m - 1])
    BY <2>2, <2>3
  <2>5. QED
    BY <2>4 DEF g
<1> HIDE DEF f
<1>4. ASSUME NEW n \in Nat PROVE \A m \in 0 .. n : f(n + 1)[m] = f(n)[m]
  <2> DEFINE T == {m \in 0 .. n : f(n + 1)[m] = f(n)[m]}
  <2>1. n + 1 \in Nat
    OBVIOUS
  <2>2. 0 \in T
    BY <1>3, <2>1
  <2>3. ASSUME NEW m \in 0 .. n - 1, m \in T PROVE m + 1 \in T
    <3>1. m + 1 \in 0 .. n /\ m + 1 \in 1 .. n /\ m + 1 \in 1 .. n + 1 /\ (m + 1) - 1 = m
      OBVIOUS
    <3>2. f(n + 1)[m + 1] = OneRideMore(f(n + 1)[m]) /\ f(n)[m + 1] = OneRideMore(f(n)[m])
      BY <1>3, <2>1, <3>1
    <3>3. QED
      BY <2>3, <3>1, <3>2
  <2> HIDE DEF T
  <2>4. \A m \in 0 .. n : m \in T
    BY <2>2, <2>3, InductionUpTo
  <2>5. QED
    BY <2>4 DEF T
<1>5. ASSUME NEW n \in Nat PROVE Reach(A, n + 1) = OneRideMore(Reach(A, n))
  <2>1. n + 1 \in Nat /\ n + 1 \in 1 .. n + 1 /\ (n + 1) - 1 = n /\ n \in 0 .. n
    OBVIOUS
  <2>2. f(n + 1)[n + 1] = OneRideMore(f(n + 1)[n])
    BY <1>3, <2>1
  <2>3. QED
    BY <1>1, <1>4, <2>1, <2>2
<1>6. Reach(A, 0) = A
  BY <1>1, <1>3
<1>7. Reach(A, k) \in V
  <2> DEFINE T == {m \in 0 .. k : Reach(A, m) \in V}
  <2>1. 0 \in T
    BY <1>6
  <2>2. ASSUME NEW m \in 0 .. k - 1, m \in T PROVE m + 1 \in T
    <3>1. m \in Nat /\ m + 1 \in 0 .. k
      OBVIOUS
    <3>2. QED
      BY <1>5, <2>2, <3>1, RideMore
  <2> HIDE DEF T
  <2>3. \A m \in 0 .. k : m \in T
    BY <2>1, <2>2, InductionUpTo
  <2>4. QED
    BY <2>3 DEF T
<1>8. QED
  BY <1>5, <1>6, <1>7

\* The earliest of some arrivals at a stop.
LEMMA EarliestOf ==
  ASSUME NEW B \in SUBSET Places, NEW x
  PROVE  /\ EarliestAt(B, x) \in Time
         /\ \A t : <<x, t>> \in B => t \in Instant /\ EarliestAt(B, x) <= t
         /\ EarliestAt(B, x) # UNREACHED => <<x, EarliestAt(B, x)>> \in B
<1> DEFINE L == {a[2] : a \in {b \in B : b[1] = x}} \cup {UNREACHED}
<1>1. \A a \in B : a = <<a[1], a[2]>> /\ a[2] \in Instant
  BY DEF Places
<1>2. L \subseteq Time
  BY <1>1, Instants
<1>3. L \in SUBSET Nat /\ L # {}
  BY <1>2, Instants
<1>4. EarliestAt(B, x) = Min(L)
  BY DEF EarliestAt
<1>5. ASSUME NEW t, <<x, t>> \in B PROVE t \in L /\ t \in Instant
  BY <1>1, <1>5
<1>6. \A t \in L : t # UNREACHED => <<x, t>> \in B
  BY <1>1
<1> HIDE DEF L
<1>7. Min(L) \in L /\ \A c \in L : Min(L) <= c
  BY <1>3, Least
<1>8. QED
  BY <1>2, <1>4, <1>5, <1>6, <1>7

\* The earliest that one can be at x with at most k rides.
Soonest(A, k, x) == EarliestAt(Reach(A, k), x)

\* The soonest arrival is one of the arrivals, and none is before it.
LEMMA SoonestOf ==
  ASSUME NEW A \in SUBSET Places, NEW k \in Nat, NEW x
  PROVE  /\ Soonest(A, k, x) \in Time
         /\ \A t : <<x, t>> \in Reach(A, k) => t \in Instant /\ Soonest(A, k, x) <= t
         /\ Soonest(A, k, x) # UNREACHED => <<x, Soonest(A, k, x)>> \in Reach(A, k)
BY EarliestOf, ReachGrows DEF Soonest

\* One more ride takes no arrival away.
LEMMA SoonerWithMore ==
  ASSUME NEW A \in SUBSET Places, NEW k \in Nat, NEW x
  PROVE  /\ Reach(A, k) \subseteq Reach(A, k + 1)
         /\ Soonest(A, k + 1, x) <= Soonest(A, k, x)
<1>1. Reach(A, k) \subseteq Reach(A, k + 1)
  BY ReachGrows, RideMore
<1>2. /\ Soonest(A, k, x) \in Time
      /\ Soonest(A, k, x) # UNREACHED => <<x, Soonest(A, k, x)>> \in Reach(A, k)
  BY SoonestOf
<1>5. k + 1 \in Nat
  OBVIOUS
<1>6. /\ Soonest(A, k + 1, x) \in Time
      /\ \A t : <<x, t>> \in Reach(A, k + 1) => Soonest(A, k + 1, x) <= t
  BY <1>5, SoonestOf
<1>3. CASE Soonest(A, k, x) = UNREACHED
  BY <1>1, <1>3, <1>6, Instants
<1>4. CASE Soonest(A, k, x) # UNREACHED
  BY <1>1, <1>2, <1>4, <1>6
<1>7. QED
  BY <1>1, <1>3, <1>4

-----------------------------------------------------------------------------
(* What the search finds of it.  From here on the order of the timetable   *)
(* counts (TimesInOrder): the scan boards the first trip laid out that     *)
(* leaves late enough, and stays on it.                                    *)

\* The earliest that one can be at x with at most k rides.
Earliest(k, x) == Soonest(Range(sources), k, x)

\* The latest of the best times of some stops: no arrival later than that of the
\* targets is of use.
Latest(best, S) == Max({best[x] : x \in S})

\* The search has set out, and knows where to.
Begun == pc \notin {"initialize", "failed", "crashed"} /\ targets # <<>>

\* What is recorded can be reached with the rides it is recorded with.
RowsArrive ==
  \A k \in Rows : \A x \in Stop :
    labels[k][x].back_route # UNDEFINED =>
      <<x, labels[k][x].time>> \in Reach(Range(sources), k + 1)

\* A best time can be had: with the rides of this round at the stops it has
\* improved, with those of the rounds before at the others.
MinimumArrives ==
  \A x \in Stop : minimum[x] # UNREACHED =>
    <<x, minimum[x]>> \in Reach(Range(sources), IF x \in marked_stops THEN round + 1 ELSE round)

\* The minimum of a stop is what its mark stands for, and no more than what the
\* round in hand starts from.
MarkedMinimum == \A x \in marked_stops : labels[round][x].time = minimum[x]

\* The best times are no later than those that the round starts from.
MinimumLow ==
  pc = "scan" => \A x \in Stop : minimum[x] <= labels[last_round][x].walk_time

\* What could be reached with the rides of the earlier rounds is, unless too late.
EarlierFound ==
  Begun => \A x \in Stop :
    Earliest(round, x) <= Latest(minimum, StopsOf(targets)) => minimum[x] <= Earliest(round, x)

\* The ride along trip n of r to its j-th stop has been made use of, or is of none.
Covered(best, S, r, n, j) ==
  best[RouteStops[r][j]] <= Trips[r][n][j] \/ Trips[r][n][j] > Latest(best, S)

\* The i-th stop of r is still to be looked at.
Coming(r, i) ==
  \/ r \in pending /\ Q[r] <= i
  \/ at # NoRoute /\ at.route = r /\ at.pos <= i

\* From the i-th stop of r one is on the way to the j-th, as early as with trip n.
OnTheWay(r, n, i, j) ==
  /\ at # NoRoute /\ at.route = r /\ i < at.pos /\ at.pos <= j
  /\ Aboard /\ Trips[r][at.trip][j] <= Trips[r][n][j]

\* No ride from where one can be in time is forgotten.
RideInHand(r, n, i, j) ==
  \/ Covered(minimum, StopsOf(targets), r, n, j)
  \/ /\ Coming(r, i)
     /\ labels[last_round][RouteStops[r][i]].walk_time = Earliest(round, RouteStops[r][i])
  \/ OnTheWay(r, n, i, j)

\* Every ride that the arrivals of the rounds before allow is in hand.
NoRideForgotten ==
  pc = "scan" /\ targets # <<>> =>
    \A r \in Route : \A n \in DOMAIN Trips[r] : \A i, j \in DOMAIN RouteStops[r] :
      i < j /\ Earliest(round, RouteStops[r][i]) < Trips[r][n][i] => RideInHand(r, n, i, j)

\* A mark is made only once the round has taken a route.
RoundTaken ==
  at # NoRoute \/ marked_stops # {} => pending # DOMAIN Q

\* The best times are exact between the rounds because of what holds within one.
ExactInv ==
  /\ MinimumArrives /\ MarkedMinimum /\ MinimumLow
  /\ EarlierFound /\ NoRideForgotten /\ RoundTaken

\* The sources are places.
LEMMA SourcePlaces ==
  ASSUME TypeOK
  PROVE  Range(sources) \in SUBSET Places
<1>1. sources \in Seq(Stop \X Instant)
  BY Near DEF TypeOK
<1>2. QED
  BY <1>1 DEF Range, Places

\* The soonest arrival is a time, and no later with one more ride.
LEMMA EarliestTime ==
  ASSUME TypeOK, NEW k \in Nat, NEW x
  PROVE  /\ Earliest(k, x) \in Time /\ Earliest(k, x) \in Nat
         /\ Earliest(k + 1, x) <= Earliest(k, x)
BY SourcePlaces, SoonestOf, SoonerWithMore, Instants DEF Earliest

\* The latest time of some stops.
LEMMA LatestOf ==
  ASSUME NEW best \in [Stop -> Time], NEW S \in SUBSET Stop, S # {}
  PROVE  /\ Latest(best, S) \in Nat
         /\ \A x \in S : best[x] <= Latest(best, S)
         /\ \E x \in S : best[x] = Latest(best, S)
<1> DEFINE L == {best[x] : x \in S}
<1>1. L \in SUBSET (0 .. UNREACHED) /\ L # {}
  BY DEF Time
<1>2. UNREACHED \in Nat
  BY Instants
<1> HIDE DEF L
<1>3. Max(L) \in L /\ \A c \in L : Max(L) >= c
  BY <1>1, <1>2, Greatest
<1>4. Max(L) \in Nat /\ \A c \in L : c \in Nat
  <2>1. 0 .. UNREACHED \subseteq Nat
    BY <1>2
  <2>2. QED
    BY <1>1, <1>3, <2>1
<1>5. Latest(best, S) = Max(L)
  BY DEF Latest, L
<1>6. \A x \in S : best[x] \in L
  BY DEF L
<1>7. \E x \in S : best[x] = Max(L)
  BY <1>3 DEF L
<1>8. QED
  BY <1>3, <1>4, <1>5, <1>6, <1>7

\* As best times fall, so does the latest of them.
LEMMA LatestFalls ==
  ASSUME NEW old \in [Stop -> Time], NEW new \in [Stop -> Time], NEW S \in SUBSET Stop, S # {},
         \A x \in Stop : new[x] <= old[x]
  PROVE  Latest(new, S) <= Latest(old, S)
<1>1. PICK x \in S : new[x] = Latest(new, S)
  BY LatestOf
<1>2. new[x] <= old[x] /\ old[x] <= Latest(old, S) /\ Latest(old, S) \in Nat
  BY LatestOf
<1>3. new[x] \in Nat /\ old[x] \in Nat
  BY Instants
<1>4. QED
  BY <1>1, <1>2, <1>3

\* A ride that is covered stays so as best times fall.
LEMMA CoveredStays ==
  ASSUME NEW old \in [Stop -> Time], NEW new \in [Stop -> Time], NEW S \in SUBSET Stop, S # {},
         \A x \in Stop : new[x] <= old[x],
         NEW r \in Route, NEW n \in DOMAIN Trips[r], NEW j \in DOMAIN RouteStops[r],
         Covered(old, S, r, n, j)
  PROVE  Covered(new, S, r, n, j)
<1>1. Latest(new, S) <= Latest(old, S) /\ Latest(new, S) \in Nat /\ Latest(old, S) \in Nat
  BY LatestFalls, LatestOf
<1>2. Trips[r][n][j] \in Nat /\ RouteStops[r][j] \in Stop
  BY TripTimes, Instants
<1>3. new[RouteStops[r][j]] <= old[RouteStops[r][j]] /\ new[RouteStops[r][j]] \in Nat
      /\ old[RouteStops[r][j]] \in Nat
  BY <1>2, Instants
<1>4. QED
  BY <1>1, <1>2, <1>3 DEF Covered

\* Every recorded arrival is one of the reference, round by round.
LEMMA RecordedArrive ==
  ASSUME IInv
  PROVE  RowsArrive
<1> DEFINE A == Range(sources)
           R == {k \in 0 .. n_rounds - 1 : \A x \in Stop : labels[k][x].back_route # UNDEFINED =>
                   <<x, labels[k][x].time>> \in Reach(A, k + 1)}
<1>1. A \in SUBSET Places
  BY SourcePlaces DEF IInv
<1>2. ASSUME NEW k \in Rows, NEW x \in Stop, labels[k][x].back_route # UNDEFINED,
             k # 0 => k - 1 \in R
      PROVE  <<x, labels[k][x].time>> \in Reach(A, k + 1)
  <2> DEFINE l == labels[k][x]
  <2>1. /\ Ridden(l.back_route, l.back_trip, l.back_stop, l.board_time, x, l.time)
        /\ Left(k, l.back_stop, l.board_time)
    BY <1>2 DEF IInv, RidesRecorded, RideAt
  <2> HIDE DEF l
  <2>2. PICK j \in DOMAIN RouteStops[l.back_route] :
          /\ RouteStops[l.back_route][j] = x /\ Trips[l.back_route][l.back_trip][j] = l.time
          /\ Boarded(l.back_route, l.back_trip, j, l.back_stop, l.board_time)
    BY <2>1 DEF Ridden
  <2>3. PICK i \in DOMAIN RouteStops[l.back_route] :
          /\ i < j /\ RouteStops[l.back_route][i] = l.back_stop
          /\ Trips[l.back_route][l.back_trip][i] = l.board_time
    BY <2>2 DEF Boarded
  <2>4. k \in Nat
    BY RoundNumber DEF IInv
  <2>5. \E t : <<l.back_stop, t>> \in Reach(A, k) /\ t < l.board_time
    <3>1. CASE k = 0
      <4>1. l.back_stop \in StopsOf(sources) /\ TimeAt(sources, l.back_stop) < l.board_time
        BY <2>1, <3>1 DEF Left
      <4>2. <<l.back_stop, TimeAt(sources, l.back_stop)>> \in A
        <5>1. PICK m \in DOMAIN sources : sources[m][1] = l.back_stop
          BY <4>1 DEF StopsOf
        <5>2. sources \in Seq(Stop \X Instant) /\ TimeAt(sources, sources[m][1]) = sources[m][2]
          BY <5>1, Near DEF IInv, TypeOK
        <5>3. sources[m] = <<sources[m][1], sources[m][2]>>
          BY <5>2
        <5>4. QED
          BY <5>1, <5>2, <5>3 DEF Range
      <4>3. Reach(A, k) = A
        BY <1>1, <3>1, ReachGrows
      <4>4. QED
        BY <4>1, <4>2, <4>3
    <3>2. CASE k # 0
      <4> DEFINE t == labels[k - 1][l.back_stop].walk_time
      <4>1. l.back_stop \in Stop /\ l.board_time \in Instant /\ t < l.board_time
        BY <2>1, <3>2 DEF Left
      <4>2. k - 1 \in Rows /\ k - 1 \in R
        BY <1>2, <2>4, <3>2, RowBelow DEF Rows
      <4>3. t # UNREACHED
        BY <4>1, Instants
      <4>4. k <= round
        BY <1>2, <2>4, RoundNumber DEF IInv, RowsAhead
      <4>5. k - 1 < round
        BY <2>4, <4>4, RoundNumber DEF IInv
      <4>6. t = labels[k - 1][l.back_stop].time /\ labels[k - 1][l.back_stop].back_route # UNDEFINED
        BY <4>1, <4>2, <4>3, <4>5 DEF IInv, WalksKnown
      <4>7. <<l.back_stop, t>> \in Reach(A, (k - 1) + 1)
        BY <4>1, <4>2, <4>6
      <4>8. (k - 1) + 1 = k
        BY <2>4
      <4> HIDE DEF t
      <4>9. QED
        BY <4>1, <4>7, <4>8
    <3>3. QED
      BY <3>1, <3>2
  <2>6. PICK t : <<l.back_stop, t>> \in Reach(A, k) /\ t < l.board_time
    BY <2>5
  <2>7. l.back_route \in Route /\ l.back_trip \in DOMAIN Trips[l.back_route]
    BY <2>1 DEF Ridden
  <2>8. Reach(A, k) \in SUBSET Places /\ Reach(A, k + 1) = OneRideMore(Reach(A, k))
    BY <1>1, <2>4, ReachGrows
  <2>9. <<x, l.time>> \in OneRideMore(Reach(A, k))
    BY <2>2, <2>3, <2>6, <2>7, <2>8, RideReaches
  <2>10. QED
    BY <2>8, <2>9 DEF l
<1>3. n_rounds - 1 \in Nat /\ Rows = 0 .. n_rounds - 1
  BY Rounds
<1>4. 0 \in R
  <2>1. 0 \in Rows /\ 0 \in 0 .. n_rounds - 1
    BY Rounds, <1>3
  <2>2. QED
    BY <1>2, <2>1
<1>5. ASSUME NEW k \in 0 .. (n_rounds - 1) - 1, k \in R PROVE k + 1 \in R
  <2>1. k + 1 \in 0 .. n_rounds - 1 /\ k + 1 \in Rows /\ (k + 1) - 1 = k
    BY <1>3
  <2>2. QED
    BY <1>2, <1>5, <2>1
<1> HIDE DEF R
<1>6. \A k \in 0 .. n_rounds - 1 : k \in R
  BY <1>3, <1>4, <1>5, InductionUpTo
<1>7. QED
  BY <1>3, <1>6 DEF R, RowsArrive

\* Best times fall, and only by an arrival.
LEMMA MinimumFalls ==
  ASSUME IInv, [Next]_vars, ~ Initialize
  PROVE  /\ minimum \in [Stop -> Time] /\ minimum' \in [Stop -> Time]
         /\ \A x \in Stop : minimum'[x] <= minimum[x]
         /\ ~ Alight => minimum' = minimum
<1>1. minimum \in [Stop -> Time] /\ minimum' \in [Stop -> Time]
  <2>1. TablesTyped'
    BY TablesStep
  <2>2. QED
    BY <2>1 DEF IInv, TypeOK, TablesTyped
<1>2. \A x \in Stop : minimum[x] \in Nat
  BY <1>1, Instants
<1>3. CASE Alight
  <2>1. minimum' = [minimum EXCEPT ![CurrentStop] = TripTime] /\ Improves
    BY <1>3 DEF Alight
  <2>2. TripTime \in Nat /\ CurrentStop \in Stop
    BY <1>3, AtStop, Instants DEF Alight, IInv
  <2> HIDE DEF CurrentStop, TripTime
  <2>3. QED
    BY <1>1, <1>2, <1>3, <2>1, <2>2 DEF Improves
<1>4. CASE ~ Alight
  <2>1. minimum' = minimum
    BY <1>4 DEF Next, vars, query, tables, Initialize, NothingNear, NoTargetKnown, NextRoute, Board, MissTrips,
            RideOn, EndRound, SkipRound, PickTarget, FollowLeg, FinishPath, Finish
  <2>2. QED
    BY <1>1, <1>2, <2>1
<1>5. QED
  BY <1>1, <1>3, <1>4

\* An arrival, as the tables have it.
LEMMA ArrivalWritten ==
  ASSUME IInv, Alight
  PROVE  /\ CurrentStop \in Stop /\ TripTime \in Instant /\ round \in Rows /\ round' = round
         /\ minimum' = [minimum EXCEPT ![CurrentStop] = TripTime]
         /\ marked_stops' = marked_stops \cup {CurrentStop}
         /\ labels'[round][CurrentStop].time = TripTime
         /\ labels'[round][CurrentStop].back_route # UNDEFINED
         /\ \A x \in Stop \ {CurrentStop} : labels'[round][x] = labels[round][x]
         /\ \A k \in Rows : \A x \in Stop : labels'[k][x].walk_time = labels[k][x].walk_time
<1>1. /\ CurrentStop \in Stop /\ TripTime \in Instant /\ round \in Rows /\ at.route \in Route
  BY AtStop DEF Alight, IInv
<1>2. round' = round /\ minimum' = [minimum EXCEPT ![CurrentStop] = TripTime]
      /\ marked_stops' = marked_stops \cup {CurrentStop}
  BY DEF Alight
<1>3. \A k \in Rows : \A x \in Stop : AlightsAt(k, x)
  BY Alights DEF IInv
<1>4. AlightsAt(round, CurrentStop)
  BY <1>1, <1>3
<1>5. labels'[round][CurrentStop].time = TripTime /\ labels'[round][CurrentStop].back_route # UNDEFINED
  BY <1>1, <1>4, Undefined DEF AlightsAt
<1>6. \A x \in Stop \ {CurrentStop} : labels'[round][x] = labels[round][x]
  BY <1>1, <1>3 DEF AlightsAt
<1>7. ASSUME NEW k \in Rows, NEW x \in Stop
      PROVE  labels'[k][x].walk_time = labels[k][x].walk_time
  <2>1. AlightsAt(k, x)
    BY <1>3
  <2>2. QED
    BY <2>1 DEF AlightsAt
<1>8. QED
  BY <1>1, <1>2, <1>5, <1>6, <1>7

\* The best times are arrivals of the reference.
LEMMA MinimumArrivesStep ==
  ASSUME IInv, IInv', MinimumArrives, [Next]_vars
  PROVE  MinimumArrives'
<1> DEFINE A == Range(sources)
<1>1. A \in SUBSET Places /\ sources' = sources
  BY SourcePlaces, QueryKept DEF IInv
<1>2. round \in Nat
  BY RoundNumber DEF IInv
<1>3. Reach(A, 0) = A /\ Reach(A, round) \subseteq Reach(A, round + 1)
  BY <1>1, <1>2, ReachGrows, SoonerWithMore
<1>4. CASE Initialize
  <2>1. /\ minimum' = [x \in Stop |-> TimeAt(sources, x)] /\ round' = round /\ marked_stops' = marked_stops
        /\ round = 0 /\ marked_stops = {}
    BY <1>4 DEF Initialize, IInv, InOrder
  <2>2. ASSUME NEW x \in Stop, minimum'[x] # UNREACHED
        PROVE  <<x, minimum'[x]>> \in A
    <3>1. x \in StopsOf(sources) /\ minimum'[x] = TimeAt(sources, x)
      BY <2>1, <2>2 DEF TimeAt
    <3>2. PICK m \in DOMAIN sources : sources[m][1] = x
      BY <3>1 DEF StopsOf
    <3>3. sources \in Seq(Stop \X Instant) /\ TimeAt(sources, sources[m][1]) = sources[m][2]
      BY <3>2, Near DEF IInv, TypeOK
    <3>4. sources[m] = <<sources[m][1], sources[m][2]>>
      BY <3>3
    <3>5. QED
      BY <3>1, <3>2, <3>3, <3>4 DEF Range
  <2>3. QED
    BY <1>1, <1>3, <2>1, <2>2 DEF MinimumArrives
<1>5. CASE Alight
  <2>1. /\ CurrentStop \in Stop /\ round \in Rows /\ round' = round
        /\ minimum' = [minimum EXCEPT ![CurrentStop] = TripTime]
        /\ marked_stops' = marked_stops \cup {CurrentStop}
        /\ labels'[round][CurrentStop].time = TripTime
        /\ labels'[round][CurrentStop].back_route # UNDEFINED
    BY <1>5, ArrivalWritten
  <2>2. RowsArrive'
    BY RecordedArrive, PTL
  <2>3. <<CurrentStop, TripTime>> \in Reach(A, round + 1)
    BY <1>1, <2>1, <2>2 DEF RowsArrive
  <2>4. minimum \in [Stop -> Time]
    BY DEF IInv, TypeOK
  <2> HIDE DEF CurrentStop, TripTime
  <2>5. QED
    BY <1>1, <2>1, <2>3, <2>4 DEF MinimumArrives
<1>6. CASE EndRound
  <2>1. minimum' = minimum /\ marked_stops' = {} /\ round' = round + 1
    BY <1>6 DEF EndRound
  <2>2. QED
    BY <1>1, <1>3, <2>1 DEF MinimumArrives
<1>7. CASE ~ Initialize /\ ~ Alight /\ ~ EndRound
  <2>1. minimum' = minimum /\ marked_stops' = marked_stops /\ round' = round
    BY <1>7, MinimumFalls, Unwritten
  <2>2. QED
    BY <1>1, <2>1 DEF MinimumArrives
<1>8. QED
  BY <1>4, <1>5, <1>6, <1>7

\* The label of a marked stop is its best time.
LEMMA MarkedMinimumStep ==
  ASSUME IInv, MarkedMinimum, [Next]_vars
  PROVE  MarkedMinimum'
<1>1. CASE Initialize
  <2>1. marked_stops' = {}
    BY <1>1 DEF Initialize, IInv, InOrder
  <2>2. QED
    BY <2>1 DEF MarkedMinimum
<1>2. CASE Alight
  <2>1. /\ round' = round /\ CurrentStop \in Stop
        /\ minimum' = [minimum EXCEPT ![CurrentStop] = TripTime]
        /\ marked_stops' = marked_stops \cup {CurrentStop}
        /\ labels'[round][CurrentStop].time = TripTime
        /\ \A x \in Stop \ {CurrentStop} : labels'[round][x] = labels[round][x]
    BY <1>2, ArrivalWritten
  <2>2. minimum \in [Stop -> Time] /\ marked_stops \subseteq Stop
    BY DEF IInv, TypeOK
  <2> HIDE DEF CurrentStop, TripTime
  <2>3. QED
    BY <2>1, <2>2 DEF MarkedMinimum
<1>3. CASE EndRound
  <2>1. marked_stops' = {}
    BY <1>3 DEF EndRound
  <2>2. QED
    BY <2>1 DEF MarkedMinimum
<1>4. CASE ~ Initialize /\ ~ Alight /\ ~ EndRound
  <2>1. minimum' = minimum /\ marked_stops' = marked_stops /\ round' = round /\ labels' = labels
    BY <1>4, MinimumFalls, Unwritten
  <2>2. QED
    BY <2>1 DEF MarkedMinimum
<1>5. QED
  BY <1>1, <1>2, <1>3, <1>4

\* A mark is made after a route was taken.
LEMMA RoundTakenStep ==
  ASSUME IInv, RoundTaken, [Next]_vars
  PROVE  RoundTaken'
<1>1. CASE NextRoute
  <2>1. pending' = pending \ {Min(pending)} /\ pending # {} /\ Q' = Q
    BY <1>1 DEF NextRoute
  <2>2. pending \in SUBSET Nat /\ pending \subseteq DOMAIN Q
    BY TimetableAssumption DEF IInv, TypeOK
  <2>3. Min(pending) \in pending
    BY <2>1, <2>2, Least
  <2>4. pending' # DOMAIN Q'
    BY <2>1, <2>2, <2>3
  <2>5. QED
    BY <2>4 DEF RoundTaken
<1>2. CASE Board \/ MissTrips \/ Alight \/ RideOn
  <2>1. at # NoRoute /\ pending' = pending /\ Q' = Q
    BY <1>2 DEF Board, MissTrips, Alight, RideOn, Scanning
  <2>2. QED
    BY <2>1 DEF RoundTaken
<1>3. CASE EndRound
  <2>1. at' = NoRoute /\ marked_stops' = {}
    BY <1>3 DEF EndRound
  <2>2. QED
    BY <2>1 DEF RoundTaken
<1>4. CASE Initialize
  <2>1. at' = NoRoute /\ marked_stops' = {}
    BY <1>4 DEF Initialize, IInv, InOrder
  <2>2. QED
    BY <2>1 DEF RoundTaken
<1>5. CASE ~ (NextRoute \/ Board \/ MissTrips \/ Alight \/ RideOn \/ EndRound \/ Initialize)
  <2>1. UNCHANGED tables
    BY <1>5 DEF Next, vars, tables, NothingNear, NoTargetKnown, SkipRound, PickTarget, FollowLeg, FinishPath, Finish
  <2>2. QED
    BY <2>1 DEF tables, RoundTaken
<1>6. QED
  BY <1>1, <1>2, <1>3, <1>4, <1>5

\* A round starts from where the last one arrived, and no stop was reached later.
LEMMA MinimumLowStep ==
  ASSUME IInv, IInv', MinimumLow, MarkedMinimum, [Next]_vars
  PROVE  MinimumLow'
<1>1. CASE Initialize
  <2>1. /\ minimum' = [x \in Stop |-> TimeAt(sources, x)] /\ round' = 0
        /\ 1 \in Rows /\ sources \in Origins
    BY <1>1, Rounds DEF Initialize, IInv, InOrder, TypeOK
  <2>2. last_round' = 1
    BY <2>1 DEF last_round
  <2>3. ASSUME NEW x \in Stop PROVE minimum'[x] <= labels'[1][x].walk_time
    <3>1. labels'[1][x].walk_time = IF x \in StopsOf(sources) THEN TimeAt(sources, x) ELSE UNREACHED
      BY <1>1, <2>1, Starts DEF IInv, StartsAt
    <3>2. minimum'[x] = TimeAt(sources, x) /\ TimeAt(sources, x) \in Time
      BY <2>1, Near
    <3>3. TimeAt(sources, x) \in Nat /\ TimeAt(sources, x) <= UNREACHED
      BY <3>2, Instants
    <3>4. QED
      BY <3>1, <3>2, <3>3
  <2>4. QED
    BY <2>2, <2>3 DEF MinimumLow
<1>2. ASSUME pc' = "scan", Board \/ MissTrips \/ Alight \/ RideOn \/ NextRoute \/ UNCHANGED vars
      PROVE  MinimumLow'
  <2>1. pc = "scan" /\ round' = round
    BY <1>2 DEF Board, MissTrips, Alight, RideOn, NextRoute, Scanning, vars
  <2>2. last_round \in Rows /\ last_round' = last_round
    <3>1. round \in Rows /\ round \in Nat /\ 1 \in Rows
      BY <2>1, Rounds, RoundNumber DEF IInv, TypeOK
    <3>2. round = 0 \/ (0 <= round - 1 /\ round - 1 <= round /\ round - 1 \in Int)
      BY <3>1
    <3>3. QED
      BY <2>1, <3>1, <3>2, RowBelow DEF last_round
  <2>3. ~ Initialize
    BY <2>1 DEF Initialize
  <2>4. minimum \in [Stop -> Time] /\ minimum' \in [Stop -> Time]
        /\ \A x \in Stop : minimum'[x] <= minimum[x]
    BY <2>3, MinimumFalls
  <2>5. ASSUME NEW x \in Stop PROVE labels'[last_round][x].walk_time = labels[last_round][x].walk_time
    <3>1. CASE Alight
      BY <2>2, <3>1, ArrivalWritten
    <3>2. CASE ~ Alight
      BY <1>2, <3>2 DEF Board, MissTrips, RideOn, NextRoute, vars
    <3>3. QED
      BY <3>1, <3>2
  <2>6. ASSUME NEW x \in Stop PROVE minimum'[x] <= labels'[last_round][x].walk_time
    <3>1. labels[last_round][x].walk_time \in Nat
      <4>1. labels[last_round][x] \in LabelType
        BY <2>2 DEF IInv, TypeOK
      <4>2. QED
        BY <4>1, Instants DEF LabelType
    <3>2. minimum[x] \in Nat /\ minimum'[x] \in Nat
      BY <2>4, Instants
    <3>3. minimum[x] <= labels[last_round][x].walk_time
      BY <2>1 DEF MinimumLow
    <3>4. QED
      BY <2>4, <2>5, <3>1, <3>2, <3>3
  <2>7. QED
    BY <2>2, <2>6 DEF MinimumLow
<1>3. CASE EndRound /\ pc' = "scan"
  <2>1. round' = round + 1 /\ minimum' = minimum /\ round \in Rows /\ round \in Nat
    BY <1>3, RoundNumber DEF EndRound, IInv, TypeOK
  <2>2. last_round' = round
    BY <2>1 DEF last_round
  <2>3. ASSUME NEW x \in Stop PROVE minimum'[x] <= labels'[round][x].walk_time
    <3>1. RoundEndsAt(round, x) /\ labels[round][x] \in LabelType
      BY <1>3, <2>1, RoundEnds DEF IInv, TypeOK
    <3>2. minimum[x] \in Nat /\ minimum[x] <= UNREACHED
      BY Instants DEF IInv, TypeOK
    <3>3. CASE x \in marked_stops
      <4>1. labels'[round][x].walk_time = labels[round][x].time
        BY <3>1, <3>3 DEF RoundEndsAt
      <4>2. QED
        BY <2>1, <3>2, <3>3, <4>1 DEF MarkedMinimum
    <3>4. CASE x \notin marked_stops
      <4>1. labels[round][x].walk_time = UNREACHED
        <5>1. ~ (round < round) /\ ~ (round = 1 /\ round = 0)
          BY <2>1
        <5>2. QED
          BY <2>1, <5>1 DEF IInv, WalksKnown
      <4>2. labels'[round][x].walk_time = UNREACHED
        BY <3>1, <3>4, <4>1 DEF RoundEndsAt
      <4>3. QED
        BY <2>1, <3>2, <4>2
    <3>5. QED
      BY <3>3, <3>4
  <2>4. QED
    BY <2>2, <2>3 DEF MinimumLow
<1>4. CASE pc' # "scan"
  BY <1>4 DEF MinimumLow
<1>5. ASSUME pc' = "scan"
      PROVE  \/ Initialize \/ EndRound
             \/ Board \/ MissTrips \/ Alight \/ RideOn \/ NextRoute \/ UNCHANGED vars
  BY <1>5 DEF Next, NothingNear, NoTargetKnown, SkipRound, PickTarget, FollowLeg, FinishPath, Finish
<1>6. QED
  BY <1>1, <1>2, <1>3, <1>4, <1>5

\* When every route of a round has been taken, every ride was made use of.
LEMMA RidesDone ==
  ASSUME NoRideForgotten, EndRound, targets # <<>>,
         NEW r \in Route, NEW n \in DOMAIN Trips[r],
         NEW i \in DOMAIN RouteStops[r], NEW j \in DOMAIN RouteStops[r], i < j,
         Earliest(round, RouteStops[r][i]) < Trips[r][n][i]
  PROVE  Covered(minimum, StopsOf(targets), r, n, j)
BY DEF EndRound, NoRideForgotten, RideInHand, Coming, OnTheWay

\* The targets are stops, and there are some when the search has set out for them.
LEMMA TargetStops ==
  ASSUME IInv, Begun
  PROVE  StopsOf(targets) \in SUBSET Stop /\ StopsOf(targets) # {}
<1>1. targets \in Seq(Stop \X Instant) /\ StopsOf(targets) \subseteq Stop /\ targets # <<>>
  BY Near DEF IInv, TypeOK, Begun
<1>2. 1 \in DOMAIN targets
  BY <1>1
<1>3. QED
  BY <1>1, <1>2 DEF StopsOf

\* Being near the origin is as early as one can be at a stop without a ride.
LEMMA EarliestOnFoot ==
  ASSUME TypeOK, NEW x
  PROVE  Earliest(0, x) = TimeAt(sources, x)
<1> DEFINE A == Range(sources)
<1>1. A \in SUBSET Places /\ sources \in Seq(Stop \X Instant)
  BY SourcePlaces, Near DEF TypeOK
<1>2. Reach(A, 0) = A
  BY <1>1, ReachGrows
<1>3. /\ Earliest(0, x) \in Time
      /\ \A t : <<x, t>> \in A => Earliest(0, x) <= t
      /\ Earliest(0, x) # UNREACHED => <<x, Earliest(0, x)>> \in A
  BY <1>1, <1>2, SoonestOf DEF Earliest
<1>4. ASSUME x \in StopsOf(sources) PROVE <<x, TimeAt(sources, x)>> \in A /\ TimeAt(sources, x) \in Instant
  <2>1. PICK m \in DOMAIN sources : sources[m][1] = x
    BY <1>4 DEF StopsOf
  <2>2. TimeAt(sources, sources[m][1]) = sources[m][2] /\ TimeAt(sources, x) \in Instant
    BY <1>4, <2>1, Near DEF TypeOK
  <2>3. sources[m] = <<sources[m][1], sources[m][2]>>
    BY <1>1
  <2>4. QED
    BY <1>1, <2>1, <2>2, <2>3 DEF Range
<1>5. ASSUME NEW t, <<x, t>> \in A PROVE x \in StopsOf(sources) /\ t = TimeAt(sources, x)
  <2>1. PICK m \in DOMAIN sources : sources[m] = <<x, t>>
    BY <1>1, <1>5 DEF Range
  <2>2. sources[m][1] \in StopsOf(sources) /\ TimeAt(sources, sources[m][1]) = sources[m][2]
    BY <2>1, Near DEF TypeOK
  <2>3. sources[m][1] = x /\ sources[m][2] = t
    BY <2>1
  <2>4. QED
    BY <2>2, <2>3
<1> HIDE DEF A
<1>6. CASE x \in StopsOf(sources)
  <2>1. Earliest(0, x) <= TimeAt(sources, x) /\ TimeAt(sources, x) # UNREACHED
    BY <1>3, <1>4, <1>6, Instants
  <2>2. TimeAt(sources, x) \in Instant /\ Earliest(0, x) \in Time
    BY <1>3, <1>4, <1>6
  <2>3. Earliest(0, x) # UNREACHED
    BY <2>1, <2>2, Instants
  <2>4. QED
    BY <1>3, <1>5, <2>3
<1>7. CASE x \notin StopsOf(sources)
  <2>1. TimeAt(sources, x) = UNREACHED
    BY <1>7 DEF TimeAt
  <2>2. QED
    BY <1>3, <1>5, <1>7, <2>1
<1>8. QED
  BY <1>6, <1>7

\* At the end of a round all that can be reached with one more ride was found.
LEMMA FoundInRound ==
  ASSUME IInv, ExactInv, EndRound, targets # <<>>, NEW x \in Stop,
         Earliest(round + 1, x) <= Latest(minimum, StopsOf(targets))
  PROVE  minimum[x] <= Earliest(round + 1, x)
<1> DEFINE A == Range(sources)
           e == Earliest(round + 1, x)
<1>1. A \in SUBSET Places /\ round \in Nat /\ round + 1 \in Nat
  BY SourcePlaces, RoundNumber DEF IInv
<1>2. minimum \in [Stop -> Time] /\ minimum[x] \in Nat /\ minimum[x] <= UNREACHED
  BY Instants DEF IInv, TypeOK
<1>3. e \in Time /\ (e # UNREACHED => <<x, e>> \in OneRideMore(Reach(A, round)))
  BY <1>1, SoonestOf, ReachGrows DEF Earliest
<1>4. Reach(A, round) \in SUBSET Places
  BY <1>1, ReachGrows
<1>5. pc = "scan" /\ Begun
  BY DEF EndRound, Begun
<1>6. StopsOf(targets) \in SUBSET Stop /\ StopsOf(targets) # {}
  BY <1>5, TargetStops DEF ExactInv
<1>7. Latest(minimum, StopsOf(targets)) \in Nat
  BY <1>2, <1>6, LatestOf
<1>8. e \in Nat
  BY <1>3, Instants
<1>9. CASE e = UNREACHED
  BY <1>2, <1>9
<1>10. CASE <<x, e>> \in Reach(A, round)
  <2>1. Earliest(round, x) <= e /\ Earliest(round, x) \in Nat
    BY <1>1, <1>10, SoonestOf, EarliestTime DEF Earliest, IInv
  <2>2. Earliest(round, x) <= Latest(minimum, StopsOf(targets))
    BY <1>7, <1>8, <2>1
  <2>3. minimum[x] <= Earliest(round, x)
    BY <1>5, <2>2 DEF ExactInv, EarlierFound
  <2>4. QED
    BY <1>2, <1>8, <2>1, <2>3
<1>11. CASE e # UNREACHED /\ <<x, e>> \notin Reach(A, round)
  <2>1. PICK r, n, i, j : Boardable(Reach(A, round), r, n, i, j, x, e)
    BY <1>3, <1>4, <1>11, ReachedByRide
  <2>2. PICK u \in Instant : <<RouteStops[r][i], u>> \in Reach(A, round) /\ u < Trips[r][n][i]
    BY <2>1 DEF Boardable
  <2>3. Earliest(round, RouteStops[r][i]) <= u /\ Earliest(round, RouteStops[r][i]) \in Nat
    BY <1>1, <2>2, SoonestOf, EarliestTime DEF Earliest, IInv
  <2>4. /\ r \in Route /\ n \in DOMAIN Trips[r] /\ i \in DOMAIN RouteStops[r]
        /\ j \in DOMAIN RouteStops[r] /\ i < j /\ RouteStops[r][j] = x /\ Trips[r][n][j] = e
    BY <2>1 DEF Boardable
  <2>5. Trips[r][n][i] \in Nat /\ u \in Nat
    BY <2>2, <2>4, TripTimes, Instants
  <2>6. Earliest(round, RouteStops[r][i]) < Trips[r][n][i]
    BY <2>2, <2>3, <2>5
  <2>7. Covered(minimum, StopsOf(targets), r, n, j)
    BY <2>4, <2>6, RidesDone DEF ExactInv
  <2>8. minimum[x] <= e \/ e > Latest(minimum, StopsOf(targets))
    BY <2>4, <2>7 DEF Covered
  <2> HIDE DEF e
  <2>9. QED
    BY <1>2, <1>7, <1>8, <2>8 DEF e
<1>12. QED
  BY <1>9, <1>10, <1>11

\* What the earlier rounds could reach has been found.
LEMMA EarlierFoundStep ==
  ASSUME IInv, IInv', ExactInv, [Next]_vars
  PROVE  EarlierFound'
<1>1. sources' = sources /\ targets' = targets
  BY QueryKept
<1>2. CASE Initialize
  <2>1. minimum' = [x \in Stop |-> TimeAt(sources, x)] /\ round' = 0
    BY <1>2 DEF Initialize, IInv, InOrder
  <2>2. ASSUME NEW x \in Stop PROVE minimum'[x] <= Earliest(0, x)
    <3>1. Earliest(0, x) = TimeAt(sources, x) /\ Earliest(0, x) \in Time
      BY EarliestOnFoot, EarliestTime DEF IInv
    <3>2. minimum'[x] = Earliest(0, x) /\ Earliest(0, x) \in Nat
      BY <2>1, <3>1, Instants
    <3>3. QED
      BY <3>2
  <2>3. QED
    BY <1>1, <2>1, <2>2 DEF EarlierFound, Earliest
<1>3. ASSUME EndRound, Begun'
      PROVE  EarlierFound'
  <2>1. minimum' = minimum /\ round' = round + 1 /\ targets # <<>>
    BY <1>1, <1>3 DEF EndRound, Begun
  <2>2. QED
    BY <1>1, <1>3, <2>1, FoundInRound DEF EarlierFound, Earliest
<1>4. ASSUME ~ Initialize, ~ EndRound, Begun'
      PROVE  EarlierFound'
  <2>1. Begun /\ round' = round
    BY <1>1, <1>4 DEF Next, vars, Begun, NothingNear, NoTargetKnown, NextRoute, Board, MissTrips, Alight, RideOn,
            SkipRound, PickTarget, FollowLeg, FinishPath, Finish, Scanning, query, tables
  <2>2. /\ minimum \in [Stop -> Time] /\ minimum' \in [Stop -> Time]
        /\ \A x \in Stop : minimum'[x] <= minimum[x]
    BY <1>4, MinimumFalls
  <2>3. StopsOf(targets) \in SUBSET Stop /\ StopsOf(targets) # {}
    BY <2>1, TargetStops
  <2>4. /\ Latest(minimum', StopsOf(targets)) <= Latest(minimum, StopsOf(targets))
        /\ Latest(minimum', StopsOf(targets)) \in Nat /\ Latest(minimum, StopsOf(targets)) \in Nat
    BY <2>2, <2>3, LatestFalls, LatestOf
  <2>5. ASSUME NEW x \in Stop, Earliest(round, x) <= Latest(minimum', StopsOf(targets))
        PROVE  minimum'[x] <= Earliest(round, x)
    <3>1. Earliest(round, x) \in Nat
      BY RoundNumber, EarliestTime DEF IInv
    <3>2. minimum[x] \in Nat /\ minimum'[x] \in Nat /\ minimum'[x] <= minimum[x]
      BY <2>2, Instants
    <3>3. Earliest(round, x) <= Latest(minimum, StopsOf(targets))
      BY <2>4, <2>5, <3>1
    <3>4. minimum[x] <= Earliest(round, x)
      BY <2>1, <3>3 DEF ExactInv, EarlierFound
    <3>5. QED
      BY <3>1, <3>2, <3>4
  <2>6. QED
    BY <1>1, <2>1, <2>3, <2>5 DEF EarlierFound, Earliest
<1>5. CASE ~ Begun'
  BY <1>5 DEF EarlierFound
<1>6. QED
  BY <1>2, <1>3, <1>4, <1>5

\* A route through a stop of S is queued, from that stop or before.
LEMMA QueuedFrom ==
  ASSUME NEW S \in SUBSET Stop, NEW r \in Route, NEW i \in DOMAIN RouteStops[r],
         RouteStops[r][i] \in S
  PROVE  r \in DOMAIN QueueFor(S) /\ QueueFor(S)[r] <= i
<1> DEFINE x == RouteStops[r][i]
           I == {IndexIn(r, y) : y \in {z \in S : Serves(r, z)}}
<1>1. Serves(r, x)
  BY DEF Serves, Range
<1>2. IndexIn(r, x) <= i /\ IndexIn(r, x) \in I
  BY <1>1, Indexed
<1>3. I \in SUBSET Nat /\ I # {}
  <2>1. ASSUME NEW y, Serves(r, y) PROVE IndexIn(r, y) \in Nat
    BY <2>1, Indexed, TripTimes, TimetableAssumption
  <2>2. QED
    BY <1>2, <2>1
<1>4. r \in DOMAIN QueueFor(S) /\ QueueFor(S)[r] = Min(I)
  BY <1>1 DEF QueueFor
<1> HIDE DEF I
<1>5. Min(I) \in I /\ Min(I) <= IndexIn(r, x)
  BY <1>2, <1>3, Least
<1>6. Min(I) \in Nat /\ IndexIn(r, x) \in Nat /\ i \in Nat
  <2>1. RouteStops[r] \in Seq(Stop)
    BY TimetableAssumption
  <2>2. i \in Nat
    BY <2>1
  <2>3. QED
    BY <1>2, <1>3, <1>5, <2>2
<1>7. QED
  BY <1>2, <1>4, <1>5, <1>6

\* Before the last stop of a route there is a next one to go on to.
LEMMA GoesOn ==
  ASSUME NEW it \in Iterations, it.pos \in DOMAIN RouteStops[it.route], Advance(it),
         NEW j \in DOMAIN RouteStops[it.route], it.pos < j
  PROVE  /\ at' # NoRoute /\ at'.route = it.route /\ at'.pos = it.pos + 1 /\ at'.trip = it.trip
         /\ it.pos + 1 <= j
<1>1. it.route \in Route /\ RouteStops[it.route] \in Seq(Stop)
  BY TimetableAssumption DEF Iterations
<1>2. it.pos # Len(RouteStops[it.route]) /\ it.pos + 1 <= j
  BY <1>1
<1>3. at' = [it EXCEPT !.pos = @ + 1]
  BY <1>2 DEF Advance
<1>4. at'.route = it.route /\ at'.pos = it.pos + 1 /\ at'.trip = it.trip
  BY <1>3 DEF Iterations
<1>5. at' # NoRoute
  BY <1>1, <1>4, Undefined DEF NoRoute
<1>6. QED
  BY <1>2, <1>4, <1>5

\* The trip caught is the first in layout order that leaves late enough.
LEMMA FirstTrip ==
  ASSUME NEW r \in Route, NEW i \in DOMAIN RouteStops[r], NEW prev,
         NEW n \in DOMAIN Trips[r], prev < Trips[r][n][i]
  PROVE  /\ get_earlier_trip(r, i, prev) # UNDEFINED
         /\ get_earlier_trip(r, i, prev) \in DOMAIN Trips[r]
         /\ get_earlier_trip(r, i, prev) <= n
<1> DEFINE late == {m \in DOMAIN Trips[r] : Trips[r][m][i] > prev}
<1>1. n \in late
  OBVIOUS
<1>2. late \in SUBSET Nat /\ late \subseteq DOMAIN Trips[r]
  BY TripTimes
<1>3. get_earlier_trip(r, i, prev) = Min(late)
  BY <1>1 DEF get_earlier_trip
<1> HIDE DEF late
<1>4. Min(late) \in late /\ Min(late) <= n
  BY <1>1, <1>2, Least
<1>5. Min(late) \in Nat
  BY <1>2, <1>4
<1>6. QED
  BY <1>2, <1>3, <1>4, <1>5, Undefined

\* An earlier trip is at each stop no later, and every trip at each stop no later
\* than at the stops after it.
LEMMA TripsOrdered ==
  ASSUME TimesInOrder(Trips), NEW r \in Route, NEW n \in DOMAIN Trips[r], NEW j \in DOMAIN RouteStops[r]
  PROVE  /\ \A m \in DOMAIN Trips[r] : m <= n => Trips[r][m][j] <= Trips[r][n][j]
         /\ \A i \in DOMAIN RouteStops[r] : i < j => Trips[r][n][i] <= Trips[r][n][j]
<1>1. RouteStops[r] \in Seq(Stop) /\ Trips \in [Route -> Seq(Seq(Instant))]
  BY TimetableAssumption
<1>2. \A m \in DOMAIN Trips[r] : DOMAIN Trips[r][m] = DOMAIN RouteStops[r]
  <2> TAKE m \in DOMAIN Trips[r]
  <2>1. Trips[r][m] \in Seq(Instant) /\ Len(Trips[r][m]) = Len(RouteStops[r])
    BY <1>1, TimetableAssumption
  <2>2. QED
    BY <1>1, <2>1
<1>3. \A m \in DOMAIN Trips[r] : m \in Nat /\ Trips[r][m][j] \in Nat
  BY TripTimes, Instants
<1>4. \A m \in DOMAIN Trips[r] : m < n => Trips[r][m][j] <= Trips[r][n][j]
  BY <1>1, <1>2 DEF TimesInOrder
<1>5. \A i \in DOMAIN RouteStops[r] : i < j => Trips[r][n][i] <= Trips[r][n][j]
  BY <1>1, <1>2 DEF TimesInOrder
<1>6. \A m \in DOMAIN Trips[r] : m <= n => m = n \/ m < n
  BY <1>3
<1>7. QED
  BY <1>3, <1>4, <1>5, <1>6

\* A ride that one is on the way with.
LEMMA RodeOn ==
  ASSUME TimesInOrder(Trips), IInv, MinimumLow, EarlierFound, targets # <<>>,
         Board \/ MissTrips \/ Alight \/ RideOn,
         NEW r \in Route, NEW n \in DOMAIN Trips[r],
         NEW i \in DOMAIN RouteStops[r], NEW j \in DOMAIN RouteStops[r],
         OnTheWay(r, n, i, j)
  PROVE  Covered(minimum', StopsOf(targets), r, n, j) \/ OnTheWay(r, n, i, j)'
<1>1. Scanning /\ pc = "scan" /\ Begun /\ ~ Initialize
  BY DEF Board, MissTrips, Alight, RideOn, Scanning, Begun, Initialize
<1>2. /\ at \in Iterations /\ at.route \in Route /\ at.pos \in DOMAIN RouteStops[at.route]
      /\ CurrentStop \in Stop /\ prev_time \in Time
      /\ Aboard => at.trip \in DOMAIN Trips[at.route] /\ TripTime \in Instant
  BY <1>1, AtStop DEF IInv
<1>3. /\ at.route = r /\ i < at.pos /\ at.pos <= j /\ Aboard /\ at.trip \in DOMAIN Trips[r]
      /\ Trips[r][at.trip][j] <= Trips[r][n][j]
  BY <1>2 DEF OnTheWay
<1>4. /\ Trips[r][n][j] \in Nat /\ Trips[r][at.trip][j] \in Nat /\ i \in Nat /\ j \in Nat
      /\ at.pos \in Nat /\ TripTime \in Nat /\ prev_time \in Nat
  BY <1>2, <1>3, TripTimes, Instants
<1>5. [Next]_vars
  BY DEF Next
<1>6. /\ minimum \in [Stop -> Time] /\ minimum' \in [Stop -> Time]
      /\ \A x \in Stop : minimum'[x] <= minimum[x]
  BY <1>1, <1>5, MinimumFalls
<1>7. StopsOf(targets) \in SUBSET Stop /\ StopsOf(targets) # {}
  BY <1>1, TargetStops
<1>8. CASE at.pos < j
  <2>1. CASE Board
    <3> DEFINE trip == get_earlier_trip(at.route, at.pos, prev_time)
               it == [at EXCEPT !.trip = trip, !.board_stop = CurrentStop,
                                !.board_time = Trips[at.route][trip][at.pos]]
    <3>1. prev_time < Trips[at.route][at.trip][at.pos] /\ Advance(it) /\ trip # UNDEFINED
      BY <1>3, <2>1 DEF Board, catch_trip, TripTime
    <3>2. trip \in DOMAIN Trips[r] /\ trip <= at.trip
      BY <1>2, <1>3, <3>1, FirstTrip
    <3>3. Trips[r][trip][j] <= Trips[r][at.trip][j] /\ Trips[r][trip][j] \in Nat
      BY <1>3, <3>2, TripsOrdered, TripTimes, Instants
    <3>4. it.route = at.route /\ it.pos = at.pos /\ it.trip = trip /\ it \in Iterations
      <4>1. trip \in Nat /\ Trips[at.route][trip][at.pos] \in Time
        BY <1>2, <1>3, <3>2, TripTimes, Instants
      <4> HIDE DEF trip
      <4>2. QED
        BY <1>2, <4>1 DEF Iterations
    <3> HIDE DEF trip, it
    <3>5. /\ at' # NoRoute /\ at'.route = r /\ at'.pos = at.pos + 1 /\ at'.trip = trip
          /\ at.pos + 1 <= j
      BY <1>2, <1>3, <1>8, <3>1, <3>4, GoesOn
    <3>6. Trips[r][trip][j] <= Trips[r][n][j] /\ i < at.pos + 1
      BY <1>3, <1>4, <3>3
    <3>7. OnTheWay(r, n, i, j)'
      BY <1>3, <3>1, <3>5, <3>6 DEF OnTheWay, Aboard
    <3>8. QED
      BY <3>7
  <2>2. CASE ~ Board
    <3>1. Advance(at)
      BY <2>2 DEF MissTrips, Alight, RideOn
    <3>2. /\ at' # NoRoute /\ at'.route = r /\ at'.pos = at.pos + 1 /\ at'.trip = at.trip
          /\ at.pos + 1 <= j
      BY <1>2, <1>3, <1>8, <3>1, GoesOn
    <3>3. i < at.pos + 1
      BY <1>3, <1>4
    <3>4. OnTheWay(r, n, i, j)'
      BY <1>3, <3>2, <3>3 DEF OnTheWay, Aboard
    <3>5. QED
      BY <3>4
  <2>3. QED
    BY <2>1, <2>2
<1>9. CASE at.pos = j
  <2>1. TripTime = Trips[r][at.trip][j] /\ TripTime <= Trips[r][n][j] /\ CurrentStop = RouteStops[r][j]
    BY <1>3, <1>9 DEF TripTime, CurrentStop
  <2>2. minimum[CurrentStop] \in Nat /\ minimum'[CurrentStop] \in Nat
        /\ minimum'[CurrentStop] <= minimum[CurrentStop]
    BY <1>2, <1>6, Instants
  <2>3. CASE Board \/ MissTrips
    <3>1. prev_time < TripTime
      BY <1>3, <2>3 DEF Board, MissTrips, catch_trip
    <3>2. minimum[CurrentStop] <= prev_time
      BY <1>1, <1>2 DEF MinimumLow, prev_time
    <3>3. minimum'[CurrentStop] <= Trips[r][n][j]
      BY <1>4, <2>1, <2>2, <3>1, <3>2
    <3>4. QED
      BY <2>1, <3>3 DEF Covered
  <2>4. CASE Alight
    <3>1. minimum' = [minimum EXCEPT ![CurrentStop] = TripTime]
      BY <2>4 DEF Alight
    <3>2. minimum'[CurrentStop] = TripTime
      BY <1>2, <1>6, <3>1
    <3>3. QED
      BY <2>1, <3>2 DEF Covered
  <2>5. CASE RideOn
    <3>1. TripTime > Latest(minimum, StopsOf(targets)) \/ ~ (TripTime < minimum[CurrentStop])
      BY <1>3, <2>5 DEF RideOn, TooLateForTargets, Improves, Latest
    <3>2. Latest(minimum, StopsOf(targets)) \in Nat /\ minimum' = minimum
      BY <1>6, <1>7, <2>5, LatestOf DEF RideOn
    <3>3. minimum[CurrentStop] <= Trips[r][n][j] \/ Trips[r][n][j] > Latest(minimum, StopsOf(targets))
      BY <1>4, <2>1, <2>2, <3>1, <3>2
    <3>4. QED
      BY <2>1, <3>2, <3>3 DEF Covered
  <2>6. QED
    BY <2>3, <2>4, <2>5
<1>10. QED
  BY <1>3, <1>4, <1>8, <1>9

\* A ride from the stop in hand, when one is there in time: one is on board of a
\* trip as early, or will be after this stop.
LEMMA TripCaught ==
  ASSUME TimesInOrder(Trips), IInv, Board \/ MissTrips \/ Alight \/ RideOn,
         NEW r, NEW i, at.route = r, at.pos = i,
         NEW n \in DOMAIN Trips[r], NEW j \in DOMAIN RouteStops[r], i < j,
         prev_time < Trips[r][n][i]
  PROVE  OnTheWay(r, n, i, j)'
<1>1. Scanning
  BY DEF Board, MissTrips, Alight, RideOn
<1>2. /\ at \in Iterations /\ at.route = r /\ at.pos = i
      /\ r \in Route /\ i \in DOMAIN RouteStops[r] /\ CurrentStop \in Stop /\ prev_time \in Time
      /\ Aboard => at.trip \in DOMAIN Trips[r] /\ TripTime \in Instant
  BY <1>1, AtStop DEF IInv
<1>3. /\ Trips[r][n][i] \in Nat /\ Trips[r][n][i] < UNREACHED /\ prev_time \in Nat
      /\ i \in Nat /\ j \in Nat /\ n \in Nat
  BY <1>2, TripTimes, Instants
<1>4. /\ get_earlier_trip(r, i, prev_time) # UNDEFINED
      /\ get_earlier_trip(r, i, prev_time) \in DOMAIN Trips[r]
      /\ get_earlier_trip(r, i, prev_time) <= n
  BY <1>2, FirstTrip
<1>5. CASE Board
  <2> DEFINE trip == get_earlier_trip(r, i, prev_time)
             it == [at EXCEPT !.trip = trip, !.board_stop = CurrentStop,
                              !.board_time = Trips[at.route][trip][at.pos]]
  <2>1. Advance(it)
    BY <1>5 DEF Board
  <2>2. Trips[r][trip][j] <= Trips[r][n][j]
    BY <1>2, <1>4, TripsOrdered
  <2>3. it.route = at.route /\ it.pos = at.pos /\ it.trip = trip /\ it \in Iterations
    <3>1. trip \in Nat /\ Trips[at.route][trip][at.pos] \in Time
      BY <1>2, <1>4, TripTimes, Instants
    <3> HIDE DEF trip
    <3>2. QED
      BY <1>2, <3>1 DEF Iterations
  <2> HIDE DEF trip, it
  <2>4. /\ at' # NoRoute /\ at'.route = r /\ at'.pos = i + 1 /\ at'.trip = trip /\ i + 1 <= j
    BY <1>2, <2>1, <2>3, GoesOn
  <2>5. i < i + 1 /\ trip # UNDEFINED
    BY <1>3, <1>4 DEF trip
  <2>6. QED
    BY <2>2, <2>4, <2>5 DEF OnTheWay, Aboard
<1>6. CASE MissTrips
  BY <1>4, <1>6 DEF MissTrips
<1>7. CASE Alight \/ RideOn
  <2>1. ~ catch_trip /\ Advance(at)
    BY <1>7 DEF Alight, RideOn
  <2>2. Aboard /\ ~ (prev_time < TripTime)
    <3>1. prev_time # UNREACHED
      BY <1>3
    <3>2. QED
      BY <2>1, <3>1 DEF catch_trip
  <2>3. at.trip \in DOMAIN Trips[r] /\ TripTime = Trips[r][at.trip][i] /\ TripTime \in Nat
    BY <1>2, <2>2, Instants DEF TripTime
  <2>4. at.trip <= n
    <3>1. at.trip \in Nat
      BY <1>2, <2>3, TripTimes
    <3>2. CASE n < at.trip
      <4>1. n <= at.trip
        BY <1>3, <3>1, <3>2
      <4>2. Trips[r][n][i] <= Trips[r][at.trip][i]
        BY <1>2, <2>3, <4>1, TripsOrdered
      <4>3. QED
        BY <1>3, <2>2, <2>3, <4>2
    <3>3. QED
      BY <1>3, <3>1, <3>2
  <2>5. Trips[r][at.trip][j] <= Trips[r][n][j]
    BY <1>2, <2>3, <2>4, TripsOrdered
  <2>6. /\ at' # NoRoute /\ at'.route = r /\ at'.pos = i + 1 /\ at'.trip = at.trip /\ i + 1 <= j
    BY <1>2, <2>1, GoesOn
  <2>7. i < i + 1
    BY <1>3
  <2>8. QED
    BY <2>2, <2>5, <2>6, <2>7 DEF OnTheWay, Aboard
<1>8. QED
  BY <1>5, <1>6, <1>7

\* One turn of the loop over the stops of a route loses no ride.
LEMMA StopLosesNone ==
  ASSUME TimesInOrder(Trips), IInv, ExactInv, targets # <<>>,
         Board \/ MissTrips \/ Alight \/ RideOn,
         NEW r \in Route, NEW n \in DOMAIN Trips[r],
         NEW i \in DOMAIN RouteStops[r], NEW j \in DOMAIN RouteStops[r], i < j,
         Earliest(round, RouteStops[r][i]) < Trips[r][n][i]
  PROVE  RideInHand(r, n, i, j)'
<1>1. Scanning /\ pc = "scan" /\ Begun /\ ~ Initialize /\ [Next]_vars
  BY DEF Board, MissTrips, Alight, RideOn, Scanning, Begun, Initialize, Next
<1>2. /\ at \in Iterations /\ at.route \in Route /\ at.pos \in DOMAIN RouteStops[at.route]
      /\ CurrentStop \in Stop /\ prev_time \in Time
      /\ round \in Rows /\ last_round \in Rows
  BY <1>1, AtStop DEF IInv
<1>3. /\ minimum \in [Stop -> Time] /\ minimum' \in [Stop -> Time]
      /\ \A x \in Stop : minimum'[x] <= minimum[x]
  BY <1>1, MinimumFalls
<1>4. StopsOf(targets) \in SUBSET Stop /\ StopsOf(targets) # {} /\ targets' = targets /\ sources' = sources
  BY <1>1, TargetStops, QueryKept DEF ExactInv
<1>5. round' = round /\ last_round' = last_round /\ pending' = pending /\ Q' = Q
  BY DEF Board, MissTrips, Alight, RideOn, last_round
<1>6. \A x \in Stop : labels'[last_round][x].walk_time = labels[last_round][x].walk_time
  <2>1. CASE Alight
    BY <1>2, <2>1, ArrivalWritten
  <2>2. CASE ~ Alight
    BY <2>2 DEF Board, MissTrips, RideOn
  <2>3. QED
    BY <2>1, <2>2
<1>7. i \in Nat /\ j \in Nat /\ at.pos \in Nat /\ RouteStops[r][i] \in Stop
  BY <1>2, TripTimes DEF Iterations
<1>8. RideInHand(r, n, i, j)
  BY <1>1 DEF ExactInv, NoRideForgotten
<1>9. CASE Covered(minimum, StopsOf(targets), r, n, j)
  <2>1. Covered(minimum', StopsOf(targets), r, n, j)
    BY <1>3, <1>4, <1>9, CoveredStays
  <2>2. QED
    BY <1>4, <2>1 DEF RideInHand
<1>10. CASE OnTheWay(r, n, i, j)
  <2>1. Covered(minimum', StopsOf(targets), r, n, j) \/ OnTheWay(r, n, i, j)'
    BY <1>10, RodeOn DEF ExactInv
  <2>2. QED
    BY <1>4, <2>1 DEF RideInHand
<1>11. CASE /\ Coming(r, i)
            /\ labels[last_round][RouteStops[r][i]].walk_time = Earliest(round, RouteStops[r][i])
  <2>1. (labels[last_round][RouteStops[r][i]].walk_time = Earliest(round, RouteStops[r][i]))'
    BY <1>4, <1>5, <1>6, <1>7, <1>11 DEF Earliest
  <2>2. CASE r \in pending /\ Q[r] <= i
    <3>1. Coming(r, i)'
      BY <1>5, <2>2 DEF Coming
    <3>2. QED
      BY <2>1, <3>1 DEF RideInHand
  <2>3. CASE at.route = r /\ at.pos < i
    <3>1. \E it \in Iterations : it.route = at.route /\ it.pos = at.pos /\ Advance(it)
      <4>1. CASE Board
        <5>1. PICK it : Caught(it)
          BY <4>1, Boards DEF IInv
        <5> DEFINE trip == get_earlier_trip(at.route, at.pos, prev_time)
                   new == [at EXCEPT !.trip = trip, !.board_stop = CurrentStop,
                                     !.board_time = Trips[at.route][trip][at.pos]]
        <5>2. Advance(new) /\ trip # UNDEFINED
          BY <4>1 DEF Board
        <5>3. trip \in DOMAIN Trips[at.route]
          BY <1>2, <5>2, TripFound
        <5>4. trip \in Nat /\ Trips[at.route][trip][at.pos] \in Time
          BY <1>2, <5>3, TripTimes, Instants
        <5> HIDE DEF trip
        <5>5. new \in Iterations /\ new.route = at.route /\ new.pos = at.pos
          BY <1>2, <5>4 DEF Iterations
        <5>6. QED
          BY <5>2, <5>5
      <4>2. CASE ~ Board
        BY <1>2, <4>2 DEF MissTrips, Alight, RideOn
      <4>3. QED
        BY <4>1, <4>2
    <3>2. PICK it \in Iterations : it.route = at.route /\ it.pos = at.pos /\ Advance(it)
      BY <3>1
    <3>3. at' # NoRoute /\ at'.route = r /\ at'.pos = at.pos + 1 /\ at.pos + 1 <= i
      BY <1>2, <2>3, <3>2, GoesOn
    <3>4. Coming(r, i)'
      BY <3>3 DEF Coming
    <3>5. QED
      BY <2>1, <3>4 DEF RideInHand
  <2>4. CASE at.route = r /\ at.pos = i
    <3>1. prev_time < Trips[r][n][i]
      BY <1>11, <2>4 DEF prev_time, CurrentStop
    <3>2. OnTheWay(r, n, i, j)'
      BY <2>4, <3>1, TripCaught
    <3>3. QED
      BY <3>2 DEF RideInHand
  <2>5. QED
    BY <1>7, <1>11, <2>2, <2>3, <2>4 DEF Coming
<1>12. QED
  BY <1>8, <1>9, <1>10, <1>11 DEF RideInHand

\* The first round looks at every route from where one can be on foot.
LEMMA AllQueuedFirst ==
  ASSUME IInv, Initialize, NEW r \in Route, NEW n \in DOMAIN Trips[r],
         NEW i \in DOMAIN RouteStops[r], NEW j \in DOMAIN RouteStops[r],
         Earliest(0, RouteStops[r][i]) < Trips[r][n][i]
  PROVE  RideInHand(r, n, i, j)'
<1> DEFINE x == RouteStops[r][i]  S == StopsOf(sources)
<1>1. /\ round = 0 /\ round' = 0 /\ 1 \in Rows /\ sources' = sources /\ S \in SUBSET Stop
      /\ Q' = QueueFor(S) /\ pending' = DOMAIN Q'
  BY Rounds, Near DEF Initialize, IInv, InOrder, TypeOK, query
<1>2. x \in Stop /\ Trips[r][n][i] \in Instant
  BY TripTimes
<1>3. Earliest(0, x) = TimeAt(sources, x) /\ Earliest(0, x) \in Nat
  BY EarliestOnFoot, EarliestTime DEF IInv
<1>4. x \in S
  <2>1. TimeAt(sources, x) # UNREACHED
    BY <1>2, <1>3, Instants
  <2>2. QED
    BY <2>1 DEF TimeAt
<1>5. r \in DOMAIN Q' /\ Q'[r] <= i
  BY <1>1, <1>4, QueuedFrom
<1>6. last_round' = 1
  BY <1>1 DEF last_round
<1>7. labels'[1][x].walk_time = TimeAt(sources, x)
  BY <1>1, <1>2, <1>4, Starts DEF IInv, StartsAt
<1>8. Coming(r, i)'
  BY <1>1, <1>5 DEF Coming
<1>9. (labels[last_round][RouteStops[r][i]].walk_time = Earliest(round, RouteStops[r][i]))'
  BY <1>1, <1>3, <1>6, <1>7 DEF Earliest
<1>10. QED
  BY <1>8, <1>9 DEF RideInHand

\* A round looks at every route from where the last one arrived; other stops are
\* no better reached than before, so their rides were looked at already.
LEMMA AllQueued ==
  ASSUME TimesInOrder(Trips), IInv, ExactInv, EndRound, pc' = "scan", MinimumArrives', [Next]_vars,
         targets # <<>>,
         NEW r \in Route, NEW n \in DOMAIN Trips[r],
         NEW i \in DOMAIN RouteStops[r], NEW j \in DOMAIN RouteStops[r], i < j,
         Earliest(round + 1, RouteStops[r][i]) < Trips[r][n][i]
  PROVE  RideInHand(r, n, i, j)'
<1> DEFINE x == RouteStops[r][i]  A == Range(sources)  best == Latest(minimum, StopsOf(targets))
           e == Earliest(round + 1, x)
<1>1. /\ round \in Nat /\ round \in Rows /\ round + 1 \in Nat /\ A \in SUBSET Places
      /\ marked_stops \in SUBSET Stop /\ pc = "scan" /\ Begun /\ ~ Initialize
  <2>1. pc = "scan" /\ Begun /\ ~ Initialize
    BY DEF EndRound, Begun, Initialize
  <2>2. round \in Rows /\ marked_stops \in SUBSET Stop /\ TypeOK
    BY <2>1 DEF IInv, TypeOK
  <2>3. round \in Nat /\ A \in SUBSET Places
    BY <2>2, RoundNumber, SourcePlaces
  <2>4. round + 1 \in Nat
    BY <2>3
  <2>5. QED
    BY <2>1, <2>2, <2>3, <2>4
<1>2. /\ minimum' = minimum /\ round' = round + 1 /\ Q' = QueueFor(marked_stops)
      /\ pending' = DOMAIN Q' /\ marked_stops' = {} /\ sources' = sources /\ targets' = targets
  BY DEF EndRound, query
<1>3. /\ x \in Stop /\ Trips[r][n][i] \in Nat /\ Trips[r][n][j] \in Nat
      /\ Trips[r][n][i] < UNREACHED /\ UNREACHED \in Nat
  BY TripTimes, Instants
<1>4. StopsOf(targets) \in SUBSET Stop /\ StopsOf(targets) # {} /\ minimum \in [Stop -> Time]
  BY <1>1, TargetStops DEF ExactInv, IInv, TypeOK
<1>5. best \in Nat /\ minimum[x] \in Nat /\ e \in Nat
  BY <1>1, <1>3, <1>4, LatestOf, Instants, EarliestTime DEF IInv
<1>6. CASE e > best
  <2>1. Trips[r][n][i] <= Trips[r][n][j]
    BY TripsOrdered
  <2>2. Trips[r][n][j] > best
    BY <1>3, <1>5, <1>6, <2>1
  <2>3. Covered(minimum, StopsOf(targets), r, n, j)'
    BY <1>2, <2>2 DEF Covered
  <2>4. QED
    BY <2>3 DEF RideInHand
<1>7. CASE e <= best
  <2>1. minimum[x] <= e
    BY <1>3, <1>7, FoundInRound
  <2>2. minimum[x] # UNREACHED
    BY <1>3, <1>5, <2>1
  <2>3. minimum[x] = e
    <3>1. <<x, minimum[x]>> \in Reach(A, round + 1)
      BY <1>2, <1>3, <2>2 DEF MinimumArrives
    <3>2. e <= minimum[x]
      BY <1>1, <3>1, SoonestOf DEF Earliest
    <3>3. QED
      BY <1>5, <2>1, <3>2
  <2>4. CASE x \in marked_stops
    <3>1. r \in DOMAIN Q' /\ Q'[r] <= i
      BY <1>1, <1>2, <2>4, QueuedFrom
    <3>2. Coming(r, i)'
      BY <1>2, <3>1 DEF Coming
    <3>3. last_round' = round
      BY <1>1, <1>2 DEF last_round
    <3>4. labels'[round][x].walk_time = labels[round][x].time
      <4>1. RoundEndsAt(round, x)
        BY <1>1, <1>3, RoundEnds DEF IInv
      <4>2. QED
        BY <2>4, <4>1 DEF RoundEndsAt
    <3>5. labels'[round][x].walk_time = e
      BY <2>3, <2>4, <3>4 DEF ExactInv, MarkedMinimum
    <3>6. (labels[last_round][RouteStops[r][i]].walk_time = Earliest(round, RouteStops[r][i]))'
      BY <1>2, <3>3, <3>5 DEF Earliest
    <3>7. QED
      BY <3>2, <3>6 DEF RideInHand
  <2>5. CASE x \notin marked_stops
    <3>1. <<x, minimum[x]>> \in Reach(A, round)
      BY <1>3, <2>2, <2>5 DEF ExactInv, MinimumArrives
    <3>2. Earliest(round, x) <= minimum[x] /\ Earliest(round, x) \in Nat
      BY <1>1, <3>1, SoonestOf, EarliestTime DEF Earliest, IInv
    <3>3. Earliest(round, x) < Trips[r][n][i]
      BY <1>3, <1>5, <2>3, <3>2
    <3>4. Covered(minimum, StopsOf(targets), r, n, j)
      BY <3>3, RidesDone DEF ExactInv
    <3>5. Covered(minimum, StopsOf(targets), r, n, j)'
      BY <1>2, <3>4 DEF Covered
    <3>6. QED
      BY <3>5 DEF RideInHand
  <2>6. QED
    BY <2>4, <2>5
<1>8. QED
  BY <1>5, <1>6, <1>7

\* No step forgets a ride.
LEMMA NoRideForgottenStep ==
  ASSUME TimesInOrder(Trips), IInv, ExactInv, MinimumArrives', [Next]_vars
  PROVE  NoRideForgotten'
<1> SUFFICES ASSUME pc' = "scan", targets # <<>>,
                    NEW r \in Route, NEW n \in DOMAIN Trips[r],
                    NEW i \in DOMAIN RouteStops[r], NEW j \in DOMAIN RouteStops[r], i < j,
                    (Earliest(round, RouteStops[r][i]) < Trips[r][n][i])'
             PROVE  RideInHand(r, n, i, j)'
  BY QueryKept DEF NoRideForgotten
<1>1. sources' = sources /\ targets' = targets
  BY QueryKept
<1>2. Earliest(round', RouteStops[r][i]) < Trips[r][n][i]
  BY <1>1 DEF Earliest
<1>3. CASE Initialize
  <2>1. round' = 0
    BY <1>3 DEF Initialize, IInv, InOrder
  <2>2. QED
    BY <1>2, <1>3, <2>1, AllQueuedFirst
<1>4. CASE EndRound
  <2>1. round' = round + 1
    BY <1>4 DEF EndRound
  <2>2. QED
    BY <1>2, <1>4, <2>1, AllQueued
<1>5. CASE Board \/ MissTrips \/ Alight \/ RideOn
  <2>1. round' = round
    BY <1>5 DEF Board, MissTrips, Alight, RideOn
  <2>2. QED
    BY <1>2, <1>5, <2>1, StopLosesNone
<1>6. CASE NextRoute
  <2>1. /\ pc = "scan" /\ at = NoRoute /\ round' = round /\ labels' = labels /\ minimum' = minimum
        /\ Q' = Q /\ pending' = pending \ {Min(pending)}
        /\ at' = [route |-> Min(pending), pos |-> Q[Min(pending)], trip |-> UNDEFINED,
                  board_stop |-> UNDEFINED, board_time |-> UNREACHED]
        /\ pending # {}
    BY <1>6 DEF NextRoute
  <2>2. Min(pending) \in Route
    <3>1. pending \in SUBSET Nat /\ pending \subseteq Route
      BY TimetableAssumption DEF IInv, TypeOK
    <3>2. QED
      BY <2>1, <3>1, Least
  <2>3. at' # NoRoute /\ at'.route = Min(pending) /\ at'.pos = Q[Min(pending)]
    BY <2>1, <2>2, Undefined DEF NoRoute
  <2>4. RideInHand(r, n, i, j)
    BY <1>2, <2>1 DEF ExactInv, NoRideForgotten
  <2>5. ~ OnTheWay(r, n, i, j)
    BY <2>1 DEF OnTheWay
  <2>6. CASE Covered(minimum, StopsOf(targets), r, n, j)
    BY <1>1, <2>1, <2>6 DEF RideInHand
  <2>7. CASE /\ Coming(r, i)
             /\ labels[last_round][RouteStops[r][i]].walk_time = Earliest(round, RouteStops[r][i])
    <3>1. r \in pending /\ Q[r] <= i
      BY <2>1, <2>7 DEF Coming
    <3>2. Coming(r, i)'
      BY <2>1, <2>3, <3>1 DEF Coming
    <3>3. (labels[last_round][RouteStops[r][i]].walk_time = Earliest(round, RouteStops[r][i]))'
      BY <1>1, <2>1, <2>7 DEF Earliest, last_round
    <3>4. QED
      BY <3>2, <3>3 DEF RideInHand
  <2>8. QED
    BY <2>4, <2>5, <2>6, <2>7 DEF RideInHand
<1>7. CASE UNCHANGED vars
  <2>1. /\ pc' = pc /\ at' = at /\ round' = round /\ labels' = labels /\ minimum' = minimum
        /\ Q' = Q /\ pending' = pending
    BY <1>7 DEF vars
  <2>2. RideInHand(r, n, i, j)
    BY <1>2, <2>1 DEF ExactInv, NoRideForgotten
  <2>3. QED
    BY <1>1, <2>1, <2>2 DEF RideInHand, Covered, Coming, OnTheWay, Aboard, Earliest, last_round
<1>8. \/ Initialize \/ EndRound \/ NextRoute \/ Board \/ MissTrips \/ Alight \/ RideOn
      \/ UNCHANGED vars
  BY DEF Next, NothingNear, NoTargetKnown, SkipRound, PickTarget, FollowLeg, FinishPath, Finish
<1>9. QED
  BY <1>3, <1>4, <1>5, <1>6, <1>7, <1>8

\* Every step of the search keeps what it knows of the times.
LEMMA ExactStep ==
  ASSUME TimesInOrder(Trips), IInv, IInv', ExactInv, [Next]_vars
  PROVE  ExactInv'
<1>1. MinimumArrives'
  BY MinimumArrivesStep DEF ExactInv
<1>2. MarkedMinimum' /\ MinimumLow' /\ RoundTaken'
  BY MarkedMinimumStep, MinimumLowStep, RoundTakenStep DEF ExactInv
<1>3. EarlierFound' /\ NoRideForgotten'
  BY <1>1, EarlierFoundStep, NoRideForgottenStep
<1>4. QED
  BY <1>1, <1>2, <1>3 DEF ExactInv

\* Before the search sets out nothing is promised.
LEMMA ExactInit ==
  ASSUME Init
  PROVE  ExactInv
<1>1. /\ minimum = [x \in Stop |-> UNREACHED] /\ marked_stops = {} /\ pc = "initialize"
      /\ at = NoRoute
  BY DEF Init
<1>2. MinimumArrives /\ MarkedMinimum /\ MinimumLow /\ RoundTaken
  BY <1>1 DEF MinimumArrives, MarkedMinimum, MinimumLow, RoundTaken
<1>3. EarlierFound /\ NoRideForgotten
  BY <1>1 DEF EarlierFound, Begun, NoRideForgotten
<1>4. QED
  BY <1>2, <1>3 DEF ExactInv

\* What the rounds know between them is that their times are exact.
LEMMA Exact ==
  ASSUME IInv, ExactInv
  PROVE  ArrivalsExact
<1> SUFFICES ASSUME targets # <<>>, RoundBegins \/ pc = "read", NEW x \in Stop
             PROVE  /\ minimum[x] >= EarliestAt(Arrivals(round), x)
                    /\ EarliestAt(Arrivals(round), x) <= Latest(minimum, StopsOf(targets)) =>
                         minimum[x] = EarliestAt(Arrivals(round), x)
  BY DEF ArrivalsExact, Latest
<1>1. round \in Nat /\ Range(sources) \in SUBSET Places
  BY RoundNumber, SourcePlaces DEF IInv
<1>2. EarliestAt(Arrivals(round), x) = Earliest(round, x)
  BY ArrivalsReach DEF Earliest, Soonest
<1>3. marked_stops = {}
  <2>1. CASE RoundBegins
    BY <2>1 DEF RoundBegins, ExactInv, RoundTaken
  <2>2. CASE pc = "read"
    <3>1. round = n_rounds /\ (marked_stops # {} => round \in Rows)
      BY <2>2 DEF IInv, InOrder, MarkedRode
    <3>2. n_rounds \notin Rows
      BY Rounds
    <3>3. QED
      BY <3>1, <3>2
  <2>3. QED
    BY <2>1, <2>2
<1>4. /\ minimum[x] \in Nat /\ minimum[x] <= UNREACHED
      /\ Earliest(round, x) \in Nat /\ Earliest(round, x) <= UNREACHED
  BY <1>1, EarliestTime, Instants DEF IInv, TypeOK
<1>5. minimum[x] >= Earliest(round, x)
  <2>1. CASE minimum[x] = UNREACHED
    BY <1>4, <2>1
  <2>2. CASE minimum[x] # UNREACHED
    <3>1. <<x, minimum[x]>> \in Reach(Range(sources), round)
      BY <1>3, <2>2 DEF ExactInv, MinimumArrives
    <3>2. Earliest(round, x) <= minimum[x]
      BY <1>1, <3>1, SoonestOf DEF Earliest
    <3>3. QED
      BY <1>4, <3>2
  <2>3. QED
    BY <2>1, <2>2
<1>6. Begun
  BY DEF RoundBegins, Begun
<1>7. Earliest(round, x) <= Latest(minimum, StopsOf(targets)) => minimum[x] <= Earliest(round, x)
  BY <1>6 DEF ExactInv, EarlierFound
<1>8. QED
  BY <1>2, <1>4, <1>5, <1>7

\* With what holds of the whole component.
ExactTransitInv == TransitInv /\ ExactInv

\* The search keeps its best times exact, whatever happens to the timetable
\* meanwhile.
LEMMA ExactInvariance ==
  ASSUME TimesInOrder(Trips)
  PROVE  TransitSpec => [](IInv /\ ExactInv)
<1>1. TransitInit => ExactTransitInv
  BY InitInv, ExactInit DEF TransitInit, TransitInv, ExactTransitInv
<1>2. TransitInv /\ TransitInv' /\ ExactInv /\ [TransitNext]_<<vars, process, serialized>> => ExactInv'
  <2> SUFFICES ASSUME TransitInv, TransitInv', ExactInv, [TransitNext]_<<vars, process, serialized>>
               PROVE  ExactInv'
    OBVIOUS
  <2>1. CASE Ask
    <3>1. Init'
      <4>1. /\ asked = FALSE
            /\ sources' \in Origins /\ targets' \in Destinations
            /\ UNCHANGED <<labels, minimum, marked_stops, Q, pending, round, at, pc, back,
                           pareto_set>>
        BY <2>1 DEF Ask, tables, TransitInv
      <4>2. QED
        BY <4>1 DEF TransitInv, Init
    <3>2. QED
      BY <3>1, ExactInit, PTL
  <2>2. CASE ~ Ask
    <3>1. [Next]_vars
      BY <2>2 DEF TransitNext, Search, ParseTimetable, SaveTimetable, LoadTimetable, LoadRefused, Restart
    <3>2. QED
      BY <3>1, ExactStep DEF TransitInv
  <2>3. QED
    BY <2>1, <2>2
<1>3. ExactTransitInv => IInv /\ ExactInv
  BY DEF ExactTransitInv, TransitInv
<1>4. QED
  BY <1>1, <1>2, <1>3, TransitInvariance, PTL DEF TransitSpec, ExactTransitInv

\* The best times of the rounds are exact: the earliest possible at every stop not
\* reached later than the last of the targets, and never too early.
THEOREM ExactArrivals ==
  ASSUME TimesInOrder(Trips)
  PROVE  TransitSpec => []ArrivalsExact
<1>1. IInv /\ ExactInv => ArrivalsExact
  BY Exact
<1>2. QED
  BY <1>1, ExactInvariance, PTL

-----------------------------------------------------------------------------
(* The best journeys.  What a round improves at a target is in its row,    *)
(* every row that reaches a target gives a journey, and that journey ends  *)
(* at the best target of its row.                                          *)

\* What the answer consists of.
Journeys == [n_rides : Nat, connections : Seq(Connections)]

\* What a round improved at a target, it wrote in its row.
RowsFound ==
  \A m \in Rows : m < round =>
    \A x \in StopsOf(targets) : Earliest(m + 1, x) < Earliest(m, x) =>
      labels[m][x].walk_time = Earliest(m + 1, x)

\* Connections c end at such a target, at its time.
EndsBest(n, c) ==
  /\ BestTarget(n, c[Len(c)].sidx_to)
  /\ c[Len(c)].arrival_time = labels[n][c[Len(c)].sidx_to].walk_time

\* The walk back is from the best target of its row.
BestRead ==
  WalkingBack =>
    IF back.path = <<>> THEN BestTarget(back.n_xfers, back.sidx)
                        ELSE EndsBest(back.n_xfers, back.path)

\* The journeys answered end so, and there is one for each row of labels that the
\* reading back has passed and that reaches a target.
BestAnswered ==
  /\ pareto_set \in Seq(Journeys)
  /\ pc \in {"initialize", "scan", "failed", "crashed"} => pareto_set = <<>> /\ back.n_xfers = 0
  /\ pc = "done" => back.n_xfers = n_rounds
  /\ \A m \in DOMAIN pareto_set :
       \E n \in Rows : /\ pareto_set[m].n_rides = n + 1
                       /\ EndsBest(n, pareto_set[m].connections)
  /\ \A n \in Rows : n < back.n_xfers /\ ReachedBy(n) # {} =>
       \E m \in DOMAIN pareto_set : pareto_set[m].n_rides = n + 1

\* What a round improved at a target is in its row when it ends.
LEMMA RoundFound ==
  ASSUME IInv, ExactInv, EndRound, NEW x \in StopsOf(targets),
         Earliest(round + 1, x) < Earliest(round, x)
  PROVE  labels'[round][x].walk_time = Earliest(round + 1, x)
<1> DEFINE A == Range(sources)  e == Earliest(round + 1, x)  best == Latest(minimum, StopsOf(targets))
<1>1. pc = "scan" /\ targets # <<>> /\ Begun
  <2>1. targets # <<>>
    BY DEF StopsOf
  <2>2. QED
    BY <2>1 DEF EndRound, Begun
<1>2. round \in Rows /\ TypeOK
  BY <1>1 DEF IInv, TypeOK
<1>3. round \in Nat /\ round + 1 \in Nat /\ A \in SUBSET Places
  BY <1>2, RoundNumber, SourcePlaces
<1>4. StopsOf(targets) \in SUBSET Stop /\ StopsOf(targets) # {} /\ minimum \in [Stop -> Time]
  BY <1>1, <1>2, TargetStops DEF ExactInv, TypeOK
<1>5. /\ x \in Stop /\ best \in Nat /\ minimum[x] <= best /\ minimum[x] \in Nat /\ minimum[x] <= UNREACHED
      /\ UNREACHED \in Nat
  BY <1>4, LatestOf, Instants
<1>6. /\ e \in Nat /\ e <= UNREACHED /\ Earliest(round, x) \in Nat /\ Earliest(round, x) <= UNREACHED
  BY <1>2, <1>3, EarliestTime, Instants
<1>7. ASSUME minimum[x] # UNREACHED PROVE <<x, minimum[x]>> \in Reach(A, round + 1)
  <2>1. Reach(A, round) \subseteq Reach(A, round + 1)
    BY <1>3, SoonerWithMore
  <2>2. QED
    BY <1>5, <1>7, <2>1 DEF ExactInv, MinimumArrives
<1>8. e <= minimum[x]
  BY <1>3, <1>5, <1>6, <1>7, SoonestOf DEF Earliest
<1>9. minimum[x] <= e
  <2>1. e <= best
    BY <1>5, <1>6, <1>8
  <2>2. QED
    BY <1>1, <1>5, <2>1, FoundInRound
<1>10. minimum[x] = e /\ minimum[x] # UNREACHED
  BY <1>5, <1>6, <1>8, <1>9
<1>11. x \in marked_stops
  <2> SUFFICES ASSUME x \notin marked_stops PROVE FALSE
    OBVIOUS
  <2>1. <<x, minimum[x]>> \in Reach(A, round)
    BY <1>5, <1>10 DEF ExactInv, MinimumArrives
  <2>2. Earliest(round, x) <= minimum[x]
    BY <1>3, <2>1, SoonestOf DEF Earliest
  <2>3. QED
    BY <1>5, <1>6, <1>10, <2>2
<1>12. RoundEndsAt(round, x)
  BY <1>2, <1>5, RoundEnds
<1>13. QED
  BY <1>10, <1>11, <1>12 DEF RoundEndsAt, ExactInv, MarkedMinimum

\* Finished rows are not written any more.
LEMMA RowsFoundStep ==
  ASSUME IInv, ExactInv, RowsFound, [Next]_vars
  PROVE  RowsFound'
<1>1. sources' = sources /\ targets' = targets
  BY QueryKept
<1>2. round \in Nat /\ \A k \in Rows : k \in Nat
  BY RoundNumber DEF IInv
<1>3. StopsOf(targets) \subseteq Stop
  BY Near DEF IInv, TypeOK
<1>4. CASE Initialize
  <2>1. round' = 0
    BY <1>4 DEF Initialize, IInv, InOrder
  <2>2. \A m \in Rows : ~ (m < 0)
    BY <1>2
  <2>3. QED
    BY <2>1, <2>2 DEF RowsFound
<1>5. CASE Alight
  <2>1. round' = round /\ \A k \in Rows : \A x \in Stop : labels'[k][x].walk_time = labels[k][x].walk_time
    BY <1>5, ArrivalWritten
  <2>2. QED
    BY <1>1, <1>3, <2>1 DEF RowsFound, Earliest
<1>6. CASE EndRound
  <2>1. round' = round + 1
    BY <1>6 DEF EndRound
  <2>2. ASSUME NEW m \in Rows, m < round + 1, NEW x \in StopsOf(targets),
               Earliest(m + 1, x) < Earliest(m, x)
        PROVE  labels'[m][x].walk_time = Earliest(m + 1, x)
    <3>1. CASE m = round
      BY <1>6, <2>2, <3>1, RoundFound
    <3>2. CASE m # round
      <4>1. m < round /\ ~ (round = 0 /\ m = 1)
        BY <1>2, <2>2, <3>2
      <4>2. RoundEndsAt(m, x)
        BY <1>3, <1>6, RoundEnds DEF IInv
      <4>3. labels'[m][x].walk_time = labels[m][x].walk_time
        BY <3>2, <4>1, <4>2 DEF RoundEndsAt
      <4>4. QED
        BY <2>2, <4>1, <4>3 DEF RowsFound
    <3>3. QED
      BY <3>1, <3>2
  <2>3. QED
    BY <1>1, <2>1, <2>2 DEF RowsFound, Earliest
<1>7. CASE ~ Initialize /\ ~ Alight /\ ~ EndRound
  <2>1. round' = round /\ labels' = labels
    BY <1>7, Unwritten
  <2>2. QED
    BY <1>1, <2>1 DEF RowsFound, Earliest
<1>8. QED
  BY <1>4, <1>5, <1>6, <1>7

\* The labels and the targets decide what is best.
LEMMA BestKept ==
  ASSUME UNCHANGED <<labels, targets>>, NEW n, NEW c, NEW x
  PROVE  /\ BestTarget(n, x) <=> BestTarget(n, x)'
         /\ EndsBest(n, c) <=> EndsBest(n, c)'
         /\ ReachedBy(n)' = ReachedBy(n)
<1>1. ReachedBy(n)' = ReachedBy(n)
  BY DEF ReachedBy
<1>2. \A y : BestTarget(n, y) <=> BestTarget(n, y)'
  BY <1>1 DEF BestTarget, Location
<1>3. QED
  BY <1>1, <1>2 DEF EndsBest

\* A path ends where the reading back started.
LEMMA BestReadStep ==
  ASSUME IInv, IInv', BestRead, [Next]_vars
  PROVE  BestRead'
<1> SUFFICES ASSUME WalkingBack' PROVE BestRead'
  BY DEF BestRead
<1>1. CASE PickTarget
  <2>1. UNCHANGED <<labels, targets>>
    BY <1>1 DEF PickTarget, query, tables
  <2>2. back'.n_xfers = back.n_xfers /\ back'.path = <<>>
    BY <1>1, Picks
  <2>3. PICK n, x : n = back'.n_xfers /\ x = back'.sidx
    OBVIOUS
  <2>4. BestTarget(n, x)
    BY <1>1, <2>2, <2>3, PicksBest
  <2>5. BestTarget(n, x)'
    BY <2>1, <2>4, BestKept
  <2>6. QED
    BY <2>2, <2>3, <2>5 DEF BestRead
<1>2. CASE FollowLeg
  <2>1. UNCHANGED <<labels, targets>> /\ WalkingBack /\ back.round >= 0
    BY <1>2 DEF FollowLeg, query, tables, WalkingBack
  <2>2. /\ back'.n_xfers = back.n_xfers /\ back'.path # <<>>
        /\ IF back.path = <<>>
           THEN /\ back'.path[Len(back'.path)].sidx_to = back.sidx
                /\ back'.path[Len(back'.path)].arrival_time = walk.walk_time
           ELSE back'.path[Len(back'.path)] = back.path[Len(back.path)]
    BY <1>2, Follows
  <2>3. PICK n, c : n = back'.n_xfers /\ c = back'.path
    OBVIOUS
  <2>4. EndsBest(n, c)
    <3>1. CASE back.path = <<>>
      <4>1. BestTarget(n, back.sidx)
        BY <2>1, <2>2, <2>3, <3>1 DEF BestRead
      <4>2. back.round = n
        <5>1. PathRead(back) /\ back \in WalkBacks
          BY <2>1 DEF IInv, WalkedBack
        <5>2. 0 = 2 * (back.n_xfers - back.round)
          BY <3>1, <5>1 DEF PathRead
        <5>3. back.n_xfers \in Nat /\ back.round \in Int
          BY <5>1, RoundNumber DEF IInv, WalkBacks
        <5>4. \A a, b \in Int : 0 = 2 * (a - b) => a = b
          OBVIOUS
        <5>5. QED
          BY <2>2, <2>3, <5>2, <5>3, <5>4
      <4>3. c[Len(c)].sidx_to = back.sidx /\ c[Len(c)].arrival_time = labels[n][back.sidx].walk_time
        BY <2>2, <2>3, <3>1, <4>2 DEF walk
      <4>4. QED
        BY <4>1, <4>3 DEF EndsBest
    <3>2. CASE back.path # <<>>
      <4>1. EndsBest(n, back.path)
        BY <2>1, <2>2, <2>3, <3>2 DEF BestRead
      <4>2. c[Len(c)] = back.path[Len(back.path)]
        BY <2>2, <2>3, <3>2
      <4>3. QED
        BY <4>1, <4>2 DEF EndsBest
    <3>3. QED
      BY <3>1, <3>2
  <2>5. EndsBest(n, c)'
    BY <2>1, <2>4, BestKept
  <2>6. QED
    BY <2>2, <2>3, <2>5 DEF BestRead
<1>3. CASE UNCHANGED vars
  <2>1. UNCHANGED <<labels, targets, back>> /\ WalkingBack
    BY <1>3 DEF vars, WalkingBack
  <2>2. PICK n, c, x : n = back.n_xfers /\ c = back.path /\ x = back.sidx
    OBVIOUS
  <2>3. IF c = <<>> THEN BestTarget(n, x) ELSE EndsBest(n, c)
    BY <2>1, <2>2 DEF BestRead
  <2>4. IF c = <<>> THEN BestTarget(n, x)' ELSE EndsBest(n, c)'
    BY <2>1, <2>3, BestKept
  <2>5. QED
    BY <2>1, <2>2, <2>4 DEF BestRead
<1>4. QED
  <2>1. ~ (\/ Initialize \/ NothingNear \/ NoTargetKnown \/ NextRoute \/ Board \/ MissTrips \/ Alight \/ RideOn
           \/ EndRound \/ SkipRound \/ FinishPath \/ Finish)
    BY DEF WalkingBack, Initialize, NothingNear, NoTargetKnown, NextRoute, Board, MissTrips, Alight, RideOn, EndRound,
           Scanning, SkipRound, FinishPath, Finish
  <2>2. QED
    BY <1>1, <1>2, <1>3, <2>1 DEF Next

\* A journey is answered when its path has been read.
LEMMA JourneyAnswered ==
  ASSUME IInv, BestRead, FinishPath
  PROVE  \E e \in Journeys : /\ pareto_set' = Append(pareto_set, e)
                             /\ e.n_rides = back.n_xfers + 1
                             /\ EndsBest(back.n_xfers, e.connections)
<1>1. WalkingBack /\ back.round < 0
  BY DEF WalkingBack, FinishPath
<1>2. PICK c, n : /\ c = <<BoardedEarlier(Head(back.path))>> \o Tail(back.path)
                  /\ n = back.n_xfers + 1
  OBVIOUS
<1>3. Travels(c, n) /\ back.path # <<>> /\ c[Len(back.path)] = back.path[Len(back.path)]
  BY <1>1, <1>2, Arrived
<1>4. Len(c) = Len(back.path)
  <2>1. back \in WalkBacks /\ PathRead(back) /\ -1 <= back.round
    BY <1>1 DEF IInv, WalkedBack
  <2>2. back.round \in Int /\ back.n_xfers \in Nat
    BY <2>1, RoundNumber DEF IInv, WalkBacks
  <2>3. \A k \in Int : k < 0 /\ -1 <= k => k = -1
    OBVIOUS
  <2>4. back.round = -1
    BY <1>1, <2>1, <2>2, <2>3
  <2>5. \A k \in Nat : 2 * (k - (-1)) = 2 * (k + 1)
    OBVIOUS
  <2>6. QED
    BY <1>2, <1>3, <2>1, <2>2, <2>4, <2>5 DEF PathRead, Travels
<1>5. EndsBest(back.n_xfers, c)
  <2>1. EndsBest(back.n_xfers, back.path)
    BY <1>1, <1>3 DEF BestRead
  <2>2. QED
    BY <1>3, <1>4, <2>1 DEF EndsBest
<1>6. PICK e : e = [n_rides |-> n, connections |-> c]
  OBVIOUS
<1>7. pareto_set' = Append(pareto_set, e)
  BY <1>2, <1>6 DEF FinishPath
<1>8. e.n_rides = n /\ e.connections = c
  BY <1>6
<1>9. e \in Journeys
  BY <1>3, <1>6 DEF Travels, Journeys
<1>10. QED
  BY <1>2, <1>5, <1>7, <1>8, <1>9

\* Each row of labels that reaches a target makes a journey.
LEMMA BestAnsweredStep ==
  ASSUME IInv, BestRead, BestAnswered, [Next]_vars
  PROVE  BestAnswered'
<1> DEFINE N == back.n_xfers
<1>1. N \in Nat /\ \A n \in Rows : n \in Nat
  <2>1. N \in 0 .. n_rounds
    BY DEF IInv, TypeOK
  <2>2. n_rounds \in Nat
    BY Rounds
  <2>3. QED
    BY <2>1, <2>2, RoundNumber DEF IInv
<1>2. CASE FinishPath
  <2>1. PICK e \in Journeys : /\ pareto_set' = Append(pareto_set, e)
                              /\ e.n_rides = N + 1
                              /\ EndsBest(N, e.connections)
    BY <1>2, JourneyAnswered
  <2>2. UNCHANGED <<labels, targets>> /\ back' = BackFrom(N + 1) /\ pc' = "read"
    BY <1>2 DEF FinishPath, query, tables
  <2>3. back'.n_xfers = N + 1
    BY <2>2 DEF BackFrom
  <2>4. N \in Rows
    BY <1>2 DEF WalkingBack, FinishPath, IInv, WalkedBack, WalkBacks
  <2> DEFINE P == pareto_set  L == Len(pareto_set)
  <2>5. P \in Seq(Journeys)
    BY DEF BestAnswered
  <2>6. /\ pareto_set' \in Seq(Journeys) /\ Len(pareto_set') = L + 1 /\ L \in Nat
        /\ \A m \in 1 .. L : pareto_set'[m] = P[m]
        /\ pareto_set'[L + 1] = e
    BY <2>1, <2>5, AppendProperties
  <2> HIDE DEF N
  <2>7. ASSUME NEW m \in DOMAIN pareto_set'
        PROVE  (\E n \in Rows : /\ pareto_set[m].n_rides = n + 1
                                /\ EndsBest(n, pareto_set[m].connections))'
    <3>1. CASE m \in 1 .. L
      <4>1. m \in DOMAIN P
        BY <2>5, <3>1
      <4>2. PICK n \in Rows : P[m].n_rides = n + 1 /\ EndsBest(n, P[m].connections)
        BY <4>1 DEF BestAnswered
      <4>3. PICK c : c = P[m].connections
        OBVIOUS
      <4>4. EndsBest(n, c)'
        BY <2>2, <4>2, <4>3, BestKept
      <4>5. QED
        BY <2>6, <3>1, <4>2, <4>3, <4>4
    <3>2. CASE m = L + 1
      <4>1. PICK n, c : n = N /\ c = e.connections
        OBVIOUS
      <4>2. EndsBest(n, c)'
        BY <2>1, <2>2, <4>1, BestKept
      <4>3. QED
        BY <2>1, <2>4, <2>6, <3>2, <4>1, <4>2
    <3>3. QED
      BY <2>6, <3>1, <3>2
  <2>8. ASSUME NEW n \in Rows, n < N + 1, ReachedBy(n) # {}
        PROVE  \E m \in DOMAIN pareto_set' : pareto_set'[m].n_rides = n + 1
    <3>1. CASE n = N
      <4>1. L + 1 \in DOMAIN pareto_set'
        BY <2>6
      <4>2. QED
        BY <2>1, <2>6, <3>1, <4>1
    <3>2. CASE n # N
      <4>1. n < N
        BY <1>1, <2>8, <3>2
      <4>2. PICK m \in DOMAIN P : P[m].n_rides = n + 1
        BY <2>8, <4>1 DEF BestAnswered, N
      <4>3. m \in 1 .. L /\ m \in DOMAIN pareto_set'
        BY <2>5, <2>6
      <4>4. QED
        BY <2>6, <4>2, <4>3
    <3>3. QED
      BY <3>1, <3>2
  <2>9. \A n \in Rows : ReachedBy(n)' = ReachedBy(n)
    BY <2>2, BestKept
  <2>10. QED
    BY <2>2, <2>3, <2>6, <2>7, <2>8, <2>9 DEF BestAnswered
<1>3. ASSUME UNCHANGED <<labels, targets, pareto_set>>,
             pc' \in {"initialize", "scan", "failed", "crashed"} => pareto_set' = <<>> /\ back'.n_xfers = 0,
             pc' = "done" => back'.n_xfers = n_rounds,
             back'.n_xfers = N \/ (back'.n_xfers = N + 1 /\ ReachedBy(N) = {})
      PROVE  BestAnswered'
  <2>1. ASSUME NEW m \in DOMAIN pareto_set
        PROVE  (\E n \in Rows : /\ pareto_set[m].n_rides = n + 1
                                /\ EndsBest(n, pareto_set[m].connections))'
    <3>1. PICK n \in Rows : pareto_set[m].n_rides = n + 1 /\ EndsBest(n, pareto_set[m].connections)
      BY DEF BestAnswered
    <3>2. PICK c : c = pareto_set[m].connections
      OBVIOUS
    <3>3. EndsBest(n, c)'
      BY <1>3, <3>1, <3>2, BestKept
    <3>4. QED
      BY <1>3, <3>1, <3>2, <3>3
  <2>2. ASSUME NEW n \in Rows, n < back'.n_xfers, ReachedBy(n)' # {}
        PROVE  \E m \in DOMAIN pareto_set : pareto_set[m].n_rides = n + 1
    <3>1. ReachedBy(n) # {}
      BY <1>3, <2>2, BestKept
    <3>2. n < N
      <4>1. n # N \/ back'.n_xfers = N
        BY <1>3, <3>1
      <4>2. QED
        BY <1>1, <1>3, <2>2, <4>1
    <3>3. QED
      BY <3>1, <3>2 DEF BestAnswered
  <2>3. QED
    BY <1>3, <2>1, <2>2 DEF BestAnswered
<1>4. ASSUME pc \in {"initialize", "scan"}, UNCHANGED <<back, pareto_set, targets>>, pc' # "done"
      PROVE  BestAnswered'
  <2>1. pareto_set = <<>> /\ N = 0
    BY <1>4 DEF BestAnswered
  <2>2. \A n \in Rows : ~ (n < 0)
    BY <1>1
  <2>3. <<>> \in Seq(Journeys) /\ DOMAIN <<>> = {}
    OBVIOUS
  <2>4. QED
    BY <1>4, <2>1, <2>2, <2>3 DEF BestAnswered
<1>5. CASE Initialize \/ NothingNear \/ NoTargetKnown \/ NextRoute \/ Board \/ MissTrips \/ Alight \/ RideOn \/ EndRound
  <2>1. pc \in {"initialize", "scan"} /\ UNCHANGED <<back, pareto_set, targets>> /\ pc' # "done"
    BY <1>5 DEF Initialize, NothingNear, NoTargetKnown, NextRoute, Board, MissTrips, Alight, RideOn, EndRound,
       Scanning, query
  <2>2. QED
    BY <1>4, <2>1
<1>6. CASE SkipRound
  <2>1. UNCHANGED <<labels, targets, pareto_set>> /\ back' = BackFrom(N + 1) /\ pc' = "read" /\ ReachedBy(N) = {}
    BY <1>6 DEF SkipRound, query, tables
  <2>2. back'.n_xfers = N + 1
    BY <2>1 DEF BackFrom
  <2>3. QED
    BY <1>3, <2>1, <2>2
<1>7. CASE PickTarget \/ FollowLeg
  <2>1. UNCHANGED <<labels, targets, pareto_set>> /\ pc' \notin {"initialize", "scan", "failed", "crashed", "done"}
    BY <1>7 DEF PickTarget, FollowLeg, query, tables
  <2>2. back'.n_xfers = N
    BY <1>7, Picks, Follows
  <2>3. QED
    BY <1>3, <2>1, <2>2
<1>8. CASE Finish
  <2>1. UNCHANGED <<labels, targets, pareto_set>> /\ back' = back /\ pc' = "done" /\ N = n_rounds
    BY <1>8 DEF Finish, query, tables
  <2>2. QED
    BY <1>3, <2>1
<1>9. CASE UNCHANGED vars
  <2>1. UNCHANGED <<labels, targets, pareto_set, back, pc>>
    BY <1>9 DEF vars
  <2>2. QED
    BY <1>3, <2>1 DEF BestAnswered
<1>10. QED
  BY <1>2, <1>5, <1>6, <1>7, <1>8, <1>9 DEF Next

\* When the arrivals B let one be at the destination.
BestOf(B, near) ==
  Min({a[2] + TimeAt(near, a[1]) : a \in {b \in B : b[1] \in StopsOf(near)}} \cup {UNREACHED})

\* It is no later than any of them allows, and one of them allows it.
LEMMA BestOfArrivals ==
  ASSUME NEW B \in SUBSET Places, NEW near \in Origins \cup Destinations
  PROVE  /\ BestOf(B, near) \in Nat /\ BestOf(B, near) <= UNREACHED
         /\ \A x \in StopsOf(near) : \A t : <<x, t>> \in B => BestOf(B, near) <= t + TimeAt(near, x)
         /\ BestOf(B, near) # UNREACHED =>
              \E x \in StopsOf(near) : \E t \in Instant :
                <<x, t>> \in B /\ BestOf(B, near) = t + TimeAt(near, x)
<1> DEFINE C == {b \in B : b[1] \in StopsOf(near)}
           L == {a[2] + TimeAt(near, a[1]) : a \in C} \cup {UNREACHED}
<1>1. \A a \in B : a = <<a[1], a[2]>> /\ a[2] \in Instant
  BY DEF Places
<1>2. \A x \in StopsOf(near) : TimeAt(near, x) \in Nat
  BY Near, Instants
<1>3. \A a \in C : a[2] + TimeAt(near, a[1]) \in Nat
  BY <1>1, <1>2, Instants
<1>4. L \in SUBSET Nat /\ L # {} /\ UNREACHED \in L
  BY <1>3, Instants
<1>5. BestOf(B, near) = Min(L)
  BY DEF BestOf
<1>6. ASSUME NEW x \in StopsOf(near), NEW t, <<x, t>> \in B
      PROVE  t + TimeAt(near, x) \in L
  <2>1. <<x, t>> \in C /\ <<x, t>>[1] = x /\ <<x, t>>[2] = t
    BY <1>6
  <2> HIDE DEF C
  <2>2. QED
    BY <2>1
<1>7. ASSUME NEW c \in L, c # UNREACHED
      PROVE  \E x \in StopsOf(near) : \E t \in Instant : <<x, t>> \in B /\ c = t + TimeAt(near, x)
  <2>1. PICK a \in C : c = a[2] + TimeAt(near, a[1])
    BY <1>7
  <2>2. a = <<a[1], a[2]>> /\ a[1] \in StopsOf(near) /\ a[2] \in Instant /\ a \in B
    BY <1>1
  <2>3. QED
    BY <2>1, <2>2
<1> HIDE DEF L
<1>8. Min(L) \in L /\ \A c \in L : Min(L) <= c
  BY <1>4, Least
<1>9. Min(L) \in Nat
  BY <1>4, <1>8
<1>10. QED
  BY <1>4, <1>5, <1>6, <1>7, <1>8, <1>9

\* A time that more rides bring was written in the row of the round that brought it.
LEMMA BroughtBy ==
  ASSUME IInv, RowsFound, NEW k \in 1 .. n_rounds, k <= round, NEW x \in StopsOf(targets),
         Earliest(k, x) # Earliest(0, x)
  PROVE  \E m \in Rows : m < k /\ labels[m][x].walk_time = Earliest(k, x)
<1> DEFINE T == {m \in Nat : m <= k /\ Earliest(m, x) = Earliest(k, x)}
<1>1. k \in Nat /\ n_rounds \in Nat /\ round \in Nat
  BY Rounds, RoundNumber DEF IInv
<1>2. k \in T /\ T \in SUBSET Nat
  BY <1>1
<1>3. PICK q \in T : \A p \in T : q <= p
  <2> HIDE DEF T
  <2>1. QED
    BY <1>2, LeastNatural
<1>4. q \in Nat /\ q <= k /\ q # 0 /\ Earliest(q, x) = Earliest(k, x)
  OBVIOUS
<1>5. PICK m \in Nat : q = m + 1
  <2>1. q - 1 \in Nat /\ q = (q - 1) + 1
    BY <1>4
  <2>2. QED
    BY <2>1
<1>6. m < k /\ m < round /\ m <= n_rounds - 1 /\ m \notin T
  BY <1>1, <1>3, <1>4, <1>5
<1>7. m \in Rows
  BY <1>1, <1>5, <1>6, Rounds
<1>8. Earliest(m, x) # Earliest(k, x)
  BY <1>5, <1>6
<1>9. Earliest(m + 1, x) <= Earliest(m, x) /\ Earliest(m + 1, x) \in Nat /\ Earliest(m, x) \in Nat
  BY <1>5, <1>1, EarliestTime DEF IInv
<1>10. Earliest(m + 1, x) < Earliest(m, x) /\ Earliest(m + 1, x) = Earliest(k, x)
  BY <1>4, <1>5, <1>8, <1>9
<1>11. labels[m][x].walk_time = Earliest(k, x)
  BY <1>6, <1>7, <1>10 DEF RowsFound
<1>12. QED
  BY <1>6, <1>7, <1>11

\* Arrivals stay possible with more rides.
LEMMA ReachMonotone ==
  ASSUME NEW A \in SUBSET Places, NEW k \in Nat, NEW m \in 0 .. k
  PROVE  Reach(A, m) \subseteq Reach(A, k)
<1> DEFINE S == {d \in 0 .. k : d >= m => Reach(A, m) \subseteq Reach(A, d)}
<1>1. 0 \in S
  <2>1. 0 >= m => m = 0
    OBVIOUS
  <2>2. QED
    BY <2>1
<1>2. ASSUME NEW d \in 0 .. k - 1, d \in S PROVE d + 1 \in S
  <2>1. Reach(A, d) \subseteq Reach(A, d + 1)
    BY SoonerWithMore
  <2>2. d + 1 >= m => d >= m \/ d + 1 = m
    OBVIOUS
  <2>3. d + 1 \in 0 .. k
    OBVIOUS
  <2>4. QED
    BY <1>2, <2>1, <2>2, <2>3
<1> HIDE DEF S
<1>3. \A d \in 0 .. k : d \in S
  BY <1>1, <1>2, InductionUpTo
<1>4. k \in S
  BY <1>3
<1>5. QED
  BY <1>4 DEF S

\* A journey is no better than the reference allows.
LEMMA JourneyPossible ==
  ASSUME IInv, NEW n \in Rows, n < round, NEW c, EndsBest(n, c), NEW k \in Nat, n + 1 <= k
  PROVE  BestOf(Reach(Range(sources), k), targets)
           <= c[Len(c)].arrival_time + TimeAt(targets, c[Len(c)].sidx_to)
<1> DEFINE last == c[Len(c)]  x == c[Len(c)].sidx_to  A == Range(sources)
<1>1. /\ x \in StopsOf(targets) /\ labels[n][x].walk_time # UNREACHED
      /\ last.arrival_time = labels[n][x].walk_time
  BY DEF EndsBest, BestTarget
<1>2. targets \in Origins \cup Destinations /\ StopsOf(targets) \subseteq Stop
  BY Near DEF IInv, TypeOK
<1> HIDE DEF x, last
<1>3. labels[n][x].walk_time = labels[n][x].time /\ labels[n][x].back_route # UNDEFINED
  BY <1>1, <1>2 DEF IInv, WalksKnown
<1>4. <<x, labels[n][x].time>> \in Reach(A, n + 1)
  BY <1>1, <1>2, <1>3, RecordedArrive DEF RowsArrive
<1>5. A \in SUBSET Places /\ n \in Nat
  BY SourcePlaces, RoundNumber DEF IInv
<1>6. Reach(A, n + 1) \subseteq Reach(A, k) /\ Reach(A, k) \in SUBSET Places
  <2>1. n + 1 \in 0 .. k
    BY <1>5
  <2>2. QED
    BY <1>5, <2>1, ReachMonotone, ReachGrows
<1>7. <<x, last.arrival_time>> \in Reach(A, k)
  BY <1>1, <1>3, <1>4, <1>6
<1>8. BestOf(Reach(A, k), targets) <= last.arrival_time + TimeAt(targets, x)
  BY <1>1, <1>2, <1>6, <1>7, BestOfArrivals
<1>9. QED
  BY <1>8 DEF x, last

\* A time that more rides bring to the destination is that of a journey answered.
LEMMA SomeJourney ==
  ASSUME IInv, RowsFound, BestAnswered, pc = "done", NEW k \in 1 .. n_rounds,
         BestOf(Reach(Range(sources), k), targets) < BestOf(Reach(Range(sources), 0), targets)
  PROVE  \E q \in DOMAIN pareto_set :
           /\ pareto_set[q].n_rides <= k
           /\ AtDestination(pareto_set[q]) <= BestOf(Reach(Range(sources), k), targets)
<1> DEFINE A == Range(sources)
           b == BestOf(Reach(A, k), targets)
           b0 == BestOf(Reach(A, 0), targets)
<1>1. /\ round = n_rounds /\ back.n_xfers = n_rounds /\ n_rounds \in Nat /\ k \in Nat /\ k <= round
      /\ \A m \in Rows : m \in Nat
  BY Rounds, RoundNumber DEF IInv, InOrder, BestAnswered
<1>2. /\ targets \in Origins \cup Destinations /\ StopsOf(targets) \subseteq Stop /\ TypeOK
      /\ \A x \in StopsOf(targets) : TimeAt(targets, x) \in Nat
  BY Near, Instants DEF IInv, TypeOK
<1>3. A \in SUBSET Places /\ Reach(A, k) \in SUBSET Places /\ Reach(A, 0) \in SUBSET Places
  BY <1>1, <1>2, SourcePlaces, ReachGrows
<1>4. /\ b \in Nat /\ b0 \in Nat /\ b < b0 /\ b # UNREACHED
      /\ \A x \in StopsOf(targets) : \A t : <<x, t>> \in Reach(A, 0) => b0 <= t + TimeAt(targets, x)
  <2>1. b \in Nat /\ b0 \in Nat /\ b0 <= UNREACHED /\ UNREACHED \in Nat /\ b < b0
    BY <1>2, <1>3, BestOfArrivals, Instants
  <2>2. \A x \in StopsOf(targets) : \A t : <<x, t>> \in Reach(A, 0) => b0 <= t + TimeAt(targets, x)
    BY <1>2, <1>3, BestOfArrivals
  <2> HIDE DEF b, b0
  <2>3. QED
    BY <2>1, <2>2
<1>5. PICK x \in StopsOf(targets) : \E t \in Instant :
         <<x, t>> \in Reach(A, k) /\ b = t + TimeAt(targets, x)
  BY <1>2, <1>3, <1>4, BestOfArrivals
<1>6. PICK t \in Instant : <<x, t>> \in Reach(A, k) /\ b = t + TimeAt(targets, x)
  BY <1>5
<1>7. /\ b <= Earliest(k, x) + TimeAt(targets, x)
      /\ Earliest(k, x) <= t /\ Earliest(k, x) \in Nat /\ Earliest(k, x) # UNREACHED
      /\ <<x, Earliest(k, x)>> \in Reach(A, k)
  <2>1. /\ Earliest(k, x) <= t /\ Earliest(k, x) \in Nat
        /\ Earliest(k, x) # UNREACHED => <<x, Earliest(k, x)>> \in Reach(A, k)
    BY <1>1, <1>2, <1>3, <1>6, SoonestOf, EarliestTime DEF Earliest
  <2>2. Earliest(k, x) # UNREACHED
    BY <2>1, Instants
  <2>3. b <= Earliest(k, x) + TimeAt(targets, x)
    BY <1>2, <1>3, <2>1, <2>2, BestOfArrivals
  <2>4. QED
    BY <2>1, <2>2, <2>3
<1> HIDE DEF b, b0
<1>8. Earliest(k, x) = t
  BY <1>2, <1>6, <1>7, Instants
<1>9. Earliest(k, x) # Earliest(0, x)
  <2> SUFFICES ASSUME Earliest(k, x) = Earliest(0, x) PROVE FALSE
    OBVIOUS
  <2>1. <<x, Earliest(0, x)>> \in Reach(A, 0)
    BY <1>3, <1>7, SoonestOf DEF Earliest
  <2>2. b0 <= Earliest(0, x) + TimeAt(targets, x)
    BY <1>4, <2>1
  <2>3. QED
    BY <1>4, <1>6, <1>8, <2>2
<1>10. PICK m \in Rows : m < k /\ labels[m][x].walk_time = Earliest(k, x)
  BY <1>1, <1>9, BroughtBy
<1>11. PICK i \in DOMAIN targets : x = targets[i][1]
  BY DEF StopsOf
<1>12. i \in ReachedBy(m) /\ m < back.n_xfers
  <2>1. i \in ReachedBy(m)
    BY <1>7, <1>10, <1>11 DEF ReachedBy
  <2>2. QED
    BY <1>1, <1>10, <2>1
<1>13. PICK q \in DOMAIN pareto_set : pareto_set[q].n_rides = m + 1
  BY <1>12 DEF BestAnswered
<1>14. PICK n \in Rows : pareto_set[q].n_rides = n + 1 /\ EndsBest(n, pareto_set[q].connections)
  BY DEF BestAnswered
<1>15. n = m
  BY <1>1, <1>13, <1>14
<1>16. AtDestination(pareto_set[q]) <= Location(m, i)
  <2> DEFINE last == pareto_set[q].connections[Len(pareto_set[q].connections)]
  <2>1. EndsBest(m, pareto_set[q].connections)
    BY <1>14, <1>15
  <2>2. BestTarget(m, last.sidx_to) /\ last.arrival_time = labels[m][last.sidx_to].walk_time
    BY <2>1 DEF EndsBest
  <2>3. last.arrival_time + TimeAt(targets, last.sidx_to) <= Location(m, i)
    BY <1>12, <2>2 DEF BestTarget
  <2>4. QED
    BY <2>3 DEF AtDestination
<1>17. Location(m, i) = b
  <2>1. targets[i][2] = TimeAt(targets, x)
    BY <1>2, <1>11, Near
  <2>2. QED
    BY <1>6, <1>8, <1>10, <1>11, <2>1 DEF Location
<1>18. pareto_set[q].n_rides <= k
  BY <1>1, <1>10, <1>13
<1>19. QED
  BY <1>16, <1>17, <1>18 DEF b

\* The journeys answered are the best.
LEMMA Best ==
  ASSUME IInv, RowsFound, BestAnswered
  PROVE  BestJourneys
<1> DEFINE A == Range(sources)
           b(n) == BestOf(Reach(A, n), targets)
           found(k) == {AtDestination(p) : p \in {q \in Range(pareto_set) : q.n_rides <= k}}
<1>1. ASSUME pc = "done", NEW k \in 1 .. n_rounds, b(k) < b(0)
      PROVE  found(k) # {} /\ Min(found(k)) = b(k)
  <2>1. /\ n_rounds \in Nat /\ k \in Nat /\ pareto_set \in Seq(Journeys) /\ round = n_rounds
        /\ \A m \in Rows : m \in Nat /\ m < n_rounds
    BY <1>1, Rounds, RoundNumber DEF IInv, InOrder, BestAnswered
  <2>2. ASSUME NEW q \in DOMAIN pareto_set, pareto_set[q].n_rides <= k
        PROVE  b(k) <= AtDestination(pareto_set[q]) /\ AtDestination(pareto_set[q]) \in Nat
    <3> DEFINE c == pareto_set[q].connections
    <3>1. PICK n \in Rows : pareto_set[q].n_rides = n + 1 /\ EndsBest(n, c)
      BY DEF BestAnswered
    <3>2. n < round /\ n + 1 <= k
      BY <2>1, <2>2, <3>1
    <3>3. b(k) <= c[Len(c)].arrival_time + TimeAt(targets, c[Len(c)].sidx_to)
      BY <2>1, <3>1, <3>2, JourneyPossible
    <3>4. c[Len(c)].arrival_time \in Nat /\ TimeAt(targets, c[Len(c)].sidx_to) \in Nat
      <4>1. /\ c[Len(c)].sidx_to \in StopsOf(targets)
            /\ c[Len(c)].arrival_time = labels[n][c[Len(c)].sidx_to].walk_time
        BY <3>1 DEF EndsBest, BestTarget
      <4>2. targets \in Origins \cup Destinations /\ StopsOf(targets) \subseteq Stop
        BY Near DEF IInv, TypeOK
      <4>3. labels[n][c[Len(c)].sidx_to].walk_time \in Time
        BY <4>1, <4>2 DEF IInv, TypeOK, LabelType
      <4>4. TimeAt(targets, c[Len(c)].sidx_to) \in Time
        BY <4>2, Near
      <4>5. QED
        BY <4>1, <4>3, <4>4, Instants
    <3>5. QED
      BY <3>3, <3>4 DEF AtDestination
  <2>3. PICK q \in DOMAIN pareto_set : pareto_set[q].n_rides <= k /\ AtDestination(pareto_set[q]) <= b(k)
    BY <1>1, SomeJourney
  <2>4. pareto_set[q] \in Range(pareto_set) /\ \A p \in Range(pareto_set) : \E l \in DOMAIN pareto_set : p = pareto_set[l]
    BY DEF Range
  <2>5. b(k) \in Nat
    <3>1. A \in SUBSET Places /\ targets \in Origins \cup Destinations
      BY SourcePlaces DEF IInv, TypeOK
    <3>2. QED
      BY <2>1, <3>1, ReachGrows, BestOfArrivals
  <2> DEFINE F == found(k)
  <2>6. AtDestination(pareto_set[q]) \in F
    BY <2>3, <2>4
  <2>7. ASSUME NEW d \in F PROVE d \in Nat /\ b(k) <= d
    <3>1. PICK p \in Range(pareto_set) : p.n_rides <= k /\ d = AtDestination(p)
      OBVIOUS
    <3>2. PICK l \in DOMAIN pareto_set : p = pareto_set[l]
      BY <2>4
    <3> HIDE DEF b
    <3>3. QED
      BY <2>2, <3>1, <3>2
  <2>8. AtDestination(pareto_set[q]) = b(k)
    <3> HIDE DEF b
    <3>1. QED
      BY <2>2, <2>3, <2>5
  <2> HIDE DEF b, F
  <2>9. F \in SUBSET Nat /\ F # {}
    BY <2>6, <2>7
  <2>10. Min(F) \in F /\ \A c \in F : Min(F) <= c
    BY <2>9, Least
  <2>11. Min(F) <= b(k) /\ b(k) <= Min(F) /\ Min(F) \in Nat
    BY <2>6, <2>7, <2>8, <2>10
  <2>12. F # {} /\ Min(F) = b(k)
    BY <2>5, <2>9, <2>11
  <2>13. QED
    BY <2>12 DEF F
<1>2. \A n : b(n) = BestOf(Arrivals(n), targets)
  BY ArrivalsReach
<1>3. ASSUME pc = "done", NEW k \in 1 .. n_rounds,
             BestOf(Arrivals(k), targets) < BestOf(Arrivals(0), targets)
      PROVE  found(k) # {} /\ Min(found(k)) = BestOf(Arrivals(k), targets)
  <2> HIDE DEF found, b
  <2>1. QED
    BY <1>1, <1>2, <1>3
<1>4. QED
  BY <1>3 DEF BestJourneys, BestOf

\* The answer is the best because of what it is read from.
BestInv == RowsFound /\ BestRead /\ BestAnswered

\* Before the search nothing is answered.
LEMMA BestInit ==
  ASSUME Init
  PROVE  BestInv
<1>1. round = 0 /\ pc = "initialize" /\ pareto_set = <<>> /\ back.n_xfers = 0
  BY DEF Init, BackFrom
<1>2. RowsFound
  <2>1. \A m \in Rows : ~ (m < 0)
    BY Rounds
  <2>2. QED
    BY <1>1, <2>1 DEF RowsFound
<1>3. BestRead
  BY <1>1 DEF BestRead, WalkingBack
<1>4. BestAnswered
  <2>1. \A n \in Rows : ~ (n < 0)
    BY Rounds
  <2>2. pareto_set \in Seq(Journeys) /\ DOMAIN pareto_set = {}
    BY <1>1
  <2>3. QED
    BY <1>1, <2>1, <2>2 DEF BestAnswered
<1>5. QED
  BY <1>2, <1>3, <1>4 DEF BestInv

\* The search keeps it so, query after query.
LEMMA BestInvariance ==
  ASSUME TimesInOrder(Trips)
  PROVE  TransitSpec => [](IInv /\ BestInv)
<1>1. TransitInit => BestInv
  BY BestInit DEF TransitInit
<1>2. IInv /\ IInv' /\ ExactInv /\ BestInv /\ [TransitNext]_<<vars, process, serialized>> /\ TransitInv => BestInv'
  <2> SUFFICES ASSUME IInv, IInv', ExactInv, BestInv, [TransitNext]_<<vars, process, serialized>>,
                      TransitInv
               PROVE  BestInv'
    OBVIOUS
  <2>1. CASE Ask
    <3>1. Init'
      <4>1. /\ asked = FALSE
            /\ sources' \in Origins /\ targets' \in Destinations
            /\ UNCHANGED <<labels, minimum, marked_stops, Q, pending, round, at, pc, back,
                           pareto_set>>
        BY <2>1 DEF Ask, tables, TransitInv
      <4>2. QED
        BY <4>1 DEF TransitInv, Init
    <3>2. QED
      BY <3>1, BestInit, PTL
  <2>2. CASE ~ Ask
    <3>1. [Next]_vars
      BY <2>2 DEF TransitNext, Search, ParseTimetable, SaveTimetable, LoadTimetable, LoadRefused, Restart
    <3>2. QED
      BY <3>1, RowsFoundStep, BestReadStep, BestAnsweredStep DEF BestInv
  <2>3. QED
    BY <2>1, <2>2
<1>3. QED
  BY <1>1, <1>2, ExactInvariance, TransitInvariance, PTL DEF TransitSpec

\* The answer holds, for every number of rides, a journey that gets to the
\* destination as early as any, unless no ride is better than to walk: whatever
\* is written into the rows while they are scanned, what get_pareto_set reads back
\* from them is the best.
THEOREM JourneysAreBest ==
  ASSUME TimesInOrder(Trips)
  PROVE  TransitSpec => []BestJourneys
<1>1. IInv /\ BestInv => BestJourneys
  BY Best DEF BestInv
<1>2. QED
  BY <1>1, BestInvariance, PTL

-----------------------------------------------------------------------------
(* The timetable.  The invariant of reading, building and keeping it.      *)

\* The stops of the rides of a line as they are read.
RideLists(line) == [i \in DOMAIN line.rides |-> RideEntries(line, line.rides[i])]

\* How many entries of a document come before those of the i-th ride of line l.
Base(doc, l, i) ==
  Offset([m \in DOMAIN doc |-> LineEntries(doc[m])], l) + Offset(RideLists(doc[l]), i)

\* The first k entries of a document, and those of them that are stops of ride 0.
Read(doc, k)       == {Entries(doc)[p] : p \in 1 .. k}
ReadOfFirst(doc, k) == {e \in Read(doc, k) : e.number = 0}

\* _sr_map and _rs_map when the first k entries have been read: who serves each
\* stop, and which lines there are.
StopsRead(doc, k, sr, rs) ==
  /\ DOMAIN sr = {e.sid : e \in ReadOfFirst(doc, k)}
  /\ \A x \in DOMAIN sr :
       /\ sr[x] \in Seq(DOMAIN rs)
       /\ Range(sr[x]) = {e.rid : e \in {f \in ReadOfFirst(doc, k) : f.sid = x}}

RoutesRead(doc, k, sr, rs) ==
  /\ DOMAIN rs = {e.rid : e \in ReadOfFirst(doc, k)}
  /\ \A d \in DOMAIN rs : rs[d] \in Seq(DOMAIN sr)

\* _rtstime_map by then.
TimesRead(doc, k, times) ==
  /\ DOMAIN times = {e.rid : e \in Read(doc, k)}
  /\ \A d \in DOMAIN times :
       /\ DOMAIN times[d] = {e.number : e \in {f \in Read(doc, k) : f.rid = d}}
       /\ \A n \in DOMAIN times[d] : times[d][n] \in Seq(Nat)

\* How many stops of the i-th ride of line l are among the first k entries.
Progress(doc, k, l, i) ==
  IF k < Base(doc, l, i) + Len(doc[l].rides[i].stops) THEN k - Base(doc, l, i)
                                                     ELSE Len(doc[l].rides[i].stops)

\* What has been read of the i-th ride of line l is recorded in its order.
RideRead(doc, k, rs, times, l, i) ==
  LET d == doc[l].direction
      n == doc[l].rides[i].number
  IN  /\ times[d][n] = SubSeq(TimesOfRide(doc[l].rides[i]), 1, Progress(doc, k, l, i))
      /\ n = 0 => rs[d] = SubSeq(StopsOfRide(doc[l].rides[i]), 1, Progress(doc, k, l, i))

RidesRead(doc, k, rs, times) ==
  \A l \in DOMAIN doc : \A i \in DOMAIN doc[l].rides :
    k > Base(doc, l, i) /\ doc[l].rides[i].stops # <<>> => RideRead(doc, k, rs, times, l, i)

\* The three maps when the first k entries of a document have been read.
MapsRead(doc, k, sr, rs, times) ==
  /\ StopsRead(doc, k, sr, rs)
  /\ RoutesRead(doc, k, sr, rs)
  /\ TimesRead(doc, k, times)
  /\ RidesRead(doc, k, rs, times)

\* The three maps when all of a document has been read.
MapsFull(doc, sr, rs, times) ==
  /\ DOMAIN sr = StopIds(doc)
  /\ \A x \in DOMAIN sr :
       /\ sr[x] \in Seq(Directions(doc))
       /\ Range(sr[x]) = {d \in Directions(doc) : x \in Range(WayOf(LineOf(doc, d)))}
  /\ DOMAIN rs = Directions(doc) /\ DOMAIN times = Directions(doc)
  /\ \A d \in Directions(doc) :
       /\ rs[d] = WayOf(LineOf(doc, d))
       /\ DOMAIN times[d] = Numbers(LineOf(doc, d))
       /\ \A n \in DOMAIN times[d] : times[d][n] = TimesOfRide(RideOf(LineOf(doc, d), n))

\* What a timetable of a document is: one that can be read by its offsets.
LaidOutFrom(doc, t) ==
  Addressed(t) /\ Faithful(doc, t) /\ (doc = Searched => ReadAsNetwork(t))

\* Reading goes on from where it is, and what is built or saved is a timetable of
\* the document.
TimetableInv ==
  /\ document \in Documents
  /\ \E k \in 0 .. Len(Entries(document)) :
       /\ todo = SubSeq(Entries(document), k + 1, Len(Entries(document)))
       /\ MapsRead(document, k, sr_map, rs_map, rtstime_map)
  /\ tt = NoTimetable \/ LaidOutFrom(document, tt)
  /\ serialized \in {Absent, Partial} \/ LaidOutFrom(document, serialized)

-----------------------------------------------------------------------------
(* Keys in order.  A std::map is looped over by its keys, and the place of *)
(* a key is how many come before it.                                       *)

\* A strict total order on S, as the set of its pairs.
StrictOrder(S, before) ==
  /\ \A x \in S : <<x, x>> \notin before
  /\ \A x, y \in S : <<x, y>> \in before \/ <<y, x>> \in before \/ x = y
  /\ \A x, y, z \in S : <<x, y>> \in before /\ <<y, z>> \in before => <<x, z>> \in before

\* How many elements of S come before x.
Before(S, before, x) == {y \in S : <<y, x>> \in before}

\* Every place is that of one element of a finite set, since different elements
\* have different numbers of elements before them.
LEMMA SortedPlaces ==
  ASSUME NEW S, IsFiniteSet(S), NEW before, StrictOrder(S, before)
  PROVE  /\ Lists(Sorted(S, before), S)
         /\ Len(Sorted(S, before)) = Cardinality(S)
         /\ \A i \in 1 .. Cardinality(S) :
              Cardinality(Before(S, before, Sorted(S, before)[i])) = i - 1
<1> DEFINE n == Cardinality(S)
           B(x) == Before(S, before, x)
           rank == [x \in S |-> Cardinality(B(x))]
           s == Sorted(S, before)
<1>1. n \in Nat
  BY FS_CardinalityType
<1>2. ASSUME NEW x \in S
      PROVE  IsFiniteSet(B(x)) /\ Cardinality(B(x)) \in Nat /\ rank[x] = Cardinality(B(x))
             /\ rank[x] \in 0 .. n - 1
  <2>1. B(x) \in SUBSET S /\ x \notin B(x)
    BY DEF Before, StrictOrder
  <2>2. IsFiniteSet(B(x)) /\ Cardinality(B(x)) <= n /\ (n = Cardinality(B(x)) => S = B(x))
    BY <2>1, FS_Subset
  <2>3. Cardinality(B(x)) \in Nat
    BY <2>2, FS_CardinalityType
  <2>4. n # Cardinality(B(x))
    BY <2>1, <2>2
  <2> HIDE DEF B, n
  <2>5. rank[x] = Cardinality(B(x))
    OBVIOUS
  <2>6. QED
    BY <1>1, <2>2, <2>3, <2>4, <2>5
<1>3. ASSUME NEW x \in S, NEW y \in S, <<x, y>> \in before PROVE rank[x] < rank[y]
  <2>1. B(x) \in SUBSET B(y)
    BY <1>3 DEF Before, StrictOrder
  <2>2. x \in B(y) /\ x \notin B(x)
    BY <1>3 DEF Before, StrictOrder
  <2>3. IsFiniteSet(B(y)) /\ rank[x] = Cardinality(B(x)) /\ rank[y] = Cardinality(B(y))
        /\ rank[x] \in Int /\ rank[y] \in Int
    BY <1>2
  <2> HIDE DEF B, rank
  <2>4. Cardinality(B(x)) <= Cardinality(B(y)) /\ Cardinality(B(x)) # Cardinality(B(y))
    BY <2>1, <2>2, <2>3, FS_Subset
  <2>5. QED
    BY <2>3, <2>4
<1>4. ASSUME NEW x \in S, NEW y \in S, rank[x] = rank[y] PROVE x = y
  <2>1. rank[x] \in Int /\ rank[y] \in Int
    BY <1>2
  <2>2. ~ (<<x, y>> \in before) /\ ~ (<<y, x>> \in before)
    <3> HIDE DEF rank
    <3>1. QED
      BY <1>3, <1>4, <2>1
  <2>3. QED
    BY <2>2 DEF StrictOrder
<1>5. ASSUME NEW i \in 1 .. n PROVE \E x \in S : rank[x] = i - 1
  <2> SUFFICES ASSUME \A x \in S : rank[x] # i - 1 PROVE FALSE
    OBVIOUS
  <2> DEFINE T == (0 .. n - 1) \ {i - 1}
  <2>1. IsFiniteSet(0 .. n - 1) /\ Cardinality(0 .. n - 1) = n
    <3> HIDE DEF n
    <3>1. QED
      BY <1>1, FS_Interval
  <2>2. i - 1 \in 0 .. n - 1
    BY <1>1
  <2>3. IsFiniteSet(T) /\ Cardinality(T) = n - 1
    <3> HIDE DEF n
    <3>1. QED
      BY <2>1, <2>2, FS_RemoveElement
  <2>4. rank \in [S -> T]
    <3> HIDE DEF n, B
    <3>1. QED
      BY <1>2
  <2> HIDE DEF T, rank
  <2>5. Cardinality(T) < Cardinality(S)
    BY <1>1, <2>3
  <2>6. \E x, y \in S : x # y /\ rank[x] = rank[y]
    BY <2>3, <2>4, <2>5, FS_PigeonHole
  <2>7. QED
    BY <1>4, <2>6
<1>6. ASSUME NEW i \in 1 .. n PROVE s[i] \in S /\ rank[s[i]] = i - 1
  <2> DEFINE Here(x) == Cardinality({y \in S : <<y, x>> \in before}) = i - 1
  <2>1. s[i] = CHOOSE x \in S : Here(x)
    BY DEF Sorted
  <2>2. \E x \in S : Here(x)
    BY <1>5 DEF Before
  <2>3. s[i] \in S /\ Here(s[i])
    <3> HIDE DEF Here, s
    <3>1. QED
      BY <2>1, <2>2
  <2>4. QED
    BY <2>3 DEF Before
<1>7. s \in [1 .. n -> S]
  <2>1. s = [i \in 1 .. n |->
               CHOOSE x \in S : Cardinality({y \in S : <<y, x>> \in before}) = i - 1]
    BY DEF Sorted
  <2> HIDE DEF s, n
  <2>2. QED
    BY <1>6, <2>1, Zenon
<1> HIDE DEF s, n
<1>8. s \in Seq(S) /\ Len(s) = n /\ DOMAIN s = 1 .. n
  BY <1>1, <1>7
<1>9. ASSUME NEW x \in S PROVE \E i \in 1 .. n : s[i] = x
  <2>1. rank[x] \in 0 .. n - 1
    BY <1>2
  <2> HIDE DEF rank
  <2>2. rank[x] + 1 \in 1 .. n /\ (rank[x] + 1) - 1 = rank[x]
    BY <1>1, <2>1
  <2>3. s[rank[x] + 1] \in S /\ rank[s[rank[x] + 1]] = rank[x]
    BY <1>6, <2>2
  <2>4. s[rank[x] + 1] = x
    BY <1>4, <2>3
  <2>5. QED
    BY <2>2, <2>4
<1>10. ASSUME NEW i \in 1 .. n, NEW j \in 1 .. n, s[i] = s[j] PROVE i = j
  <2> HIDE DEF rank
  <2>1. i - 1 = j - 1
    BY <1>6, <1>10
  <2>2. QED
    BY <1>1, <2>1
<1>11. Lists(s, S)
  BY <1>1, <1>6, <1>8, <1>9, <1>10 DEF Lists
<1>12. \A i \in 1 .. n : Cardinality(Before(S, before, s[i])) = i - 1
  BY <1>2, <1>6
<1>13. QED
  BY <1>8, <1>11, <1>12 DEF s, n

\* The keys of a map in their order.
LEMMA AscendingLists ==
  ASSUME NEW S \in SUBSET Nat, IsFiniteSet(S)
  PROVE  Lists(Ascending(S), S) /\ Len(Ascending(S)) = Cardinality(S)
<1> DEFINE before == {p \in S \X S : p[1] < p[2]}
<1>1. \A x, y \in S : <<x, y>> \in before <=> x < y
  OBVIOUS
<1> HIDE DEF before
<1>2. StrictOrder(S, before)
  <2>1. \A x \in S : <<x, x>> \notin before
    BY <1>1
  <2>2. \A x, y \in S : <<x, y>> \in before \/ <<y, x>> \in before \/ x = y
    <3>1. \A x, y \in S : x < y \/ y < x \/ x = y
      OBVIOUS
    <3>2. QED
      BY <1>1, <3>1, Zenon
  <2>3. \A x, y, z \in S : <<x, y>> \in before /\ <<y, z>> \in before => <<x, z>> \in before
    BY <1>1
  <2>4. QED
    BY <2>1, <2>2, <2>3 DEF StrictOrder
<1>3. Lists(Sorted(S, before), S) /\ Len(Sorted(S, before)) = Cardinality(S)
  BY <1>2, SortedPlaces
<1>4. QED
  BY <1>3 DEF Ascending, before

\* The rides of a line in the order of their ids.
LEMMA TripOrderLists ==
  ASSUME NEW S \in SUBSET RideNumber
  PROVE  Lists(InTripOrder(S), S) /\ Len(InTripOrder(S)) = Cardinality(S)
<1> DEFINE before == {p \in S \X S : RideBefore(p[1], p[2])}
<1>1. \A x, y \in S : <<x, y>> \in before <=> RideBefore(x, y)
  OBVIOUS
<1> HIDE DEF before
<1>2. IsFiniteSet(S)
  <2>1. PICK n \in Int : n = 999
    OBVIOUS
  <2>2. IsFiniteSet(0 .. n)
    BY FS_Interval
  <2>3. S \in SUBSET (0 .. n)
    BY <2>1 DEF RideNumber
  <2>4. QED
    BY <2>2, <2>3, FS_Subset
<1>3. \A x \in S : x \in Int /\ Padded(x) \in Int
  BY DEF RideNumber, Padded
<1>4. StrictOrder(S, before)
  <2>1. \A x \in S : <<x, x>> \notin before
    BY <1>1, <1>3 DEF RideBefore
  <2>2. \A x, y \in S : <<x, y>> \in before \/ <<y, x>> \in before \/ x = y
    <3>1. \A x, y \in S : RideBefore(x, y) \/ RideBefore(y, x) \/ x = y
      BY <1>3 DEF RideBefore
    <3>2. QED
      BY <1>1, <3>1, Zenon
  <2>3. \A x, y, z \in S : <<x, y>> \in before /\ <<y, z>> \in before => <<x, z>> \in before
    BY <1>1, <1>3 DEF RideBefore
  <2>4. QED
    BY <2>1, <2>2, <2>3 DEF StrictOrder
<1>5. Lists(Sorted(S, before), S) /\ Len(Sorted(S, before)) = Cardinality(S)
  BY <1>2, <1>4, SortedPlaces
<1>6. QED
  BY <1>5 DEF InTripOrder, before

-----------------------------------------------------------------------------
(* Sequences one after the other.  Where an element of each of them is, by *)
(* the offset of its sequence.                                             *)

\* The first k sequences alone are flattened to the first k concatenations.
LEMMA PrefixFlattened ==
  ASSUME NEW S, NEW ss \in Seq(Seq(S)), NEW f, Concats(f, ss, S), NEW k \in 0 .. Len(ss)
  PROVE  FlattenSeq(SubSeq(ss, 1, k)) = f[k]
<1> DEFINE t == SubSeq(ss, 1, k)
           g == [i \in 0 .. k |-> f[i]]
<1>1. t \in Seq(Seq(S)) /\ Len(t) = k /\ \A i \in 1 .. k : t[i] = ss[i]
  OBVIOUS
<1> HIDE DEF t
<1>2. Concats(g, t, S)
  <2>1. Len(ss) \in Nat /\ k \in Nat
    OBVIOUS
  <2>2. f \in [0 .. Len(ss) -> Seq(S)] /\ f[0] = <<>>
        /\ \A i \in 1 .. Len(ss) : f[i] = f[i - 1] \o ss[i]
    BY DEF Concats
  <2>3. g \in [0 .. k -> Seq(S)] /\ g[0] = <<>>
    BY <2>1, <2>2
  <2>4. ASSUME NEW i \in 1 .. k PROVE g[i] = g[i - 1] \o t[i]
    <3>1. g[i] = f[i] /\ g[i - 1] = f[i - 1] /\ i \in 1 .. Len(ss)
      BY <2>1
    <3>2. QED
      BY <1>1, <2>2, <3>1
  <2> HIDE DEF g
  <2>5. QED
    BY <1>1, <2>3, <2>4 DEF Concats
<1> HIDE DEF g
<1>3. FlattenSeq(t) = g[k]
  BY <1>1, <1>2, FlattenIsLast
<1>4. QED
  BY <1>3 DEF t, g

\* The sequence s holds the sequences ss one after the other, each from its offset
\* on.
Flattens(ss, s, S) ==
  /\ s \in Seq(S)
  /\ Offset(ss, 1) = 0 /\ Offset(ss, Len(ss) + 1) = Len(s)
  /\ \A i \in 1 .. Len(ss) :
       /\ Offset(ss, i) \in Nat /\ Offset(ss, i + 1) = Offset(ss, i) + Len(ss[i])
       /\ \A j \in 1 .. Len(ss[i]) : s[Offset(ss, i) + j] = ss[i][j]
  /\ \A i, k \in 1 .. Len(ss) + 1 : i < k => Offset(ss, i + 1) <= Offset(ss, k)
  /\ \A p \in 1 .. Len(s) : \E i \in 1 .. Len(ss) : p - Offset(ss, i) \in 1 .. Len(ss[i])

\* FlattenSeq lays the sequences out one after the other.
LEMMA FlattenedByOffsets ==
  ASSUME NEW S, NEW ss \in Seq(Seq(S))
  PROVE  Flattens(ss, FlattenSeq(ss), S)
<1>1. PICK f : Concats(f, ss, S)
  BY ConcatsExist
<1> DEFINE n == Len(ss)
           s == FlattenSeq(ss)
<1>2. n \in Nat /\ \A i \in 1 .. n : ss[i] \in Seq(S) /\ Len(ss[i]) \in Nat
  OBVIOUS
<1>3. s = f[n]
  BY <1>1, FlattenIsLast
<1>4. \A k \in 0 .. n : FlattenSeq(SubSeq(ss, 1, k)) = f[k]
  BY <1>1, PrefixFlattened
<1>5. f \in [0 .. n -> Seq(S)] /\ f[0] = <<>> /\ \A i \in 1 .. n : f[i] = f[i - 1] \o ss[i]
  BY <1>1 DEF Concats
<1> HIDE DEF n, s
<1>6. \A i \in 0 .. n : f[i] \in Seq(S) /\ Len(f[i]) \in Nat
  BY <1>5
<1>7. \A i \in 1 .. n + 1 : Offset(ss, i) = Len(f[i - 1])
  <2>1. \A i \in 1 .. n + 1 : i - 1 \in 0 .. n
    BY <1>2
  <2>2. QED
    BY <1>4, <2>1 DEF Offset
<1> DEFINE T == {k \in 0 .. n : ConcatOffsets(ss, f, k)}
<1>8. 0 \in T
  BY <1>2, <1>5 DEF ConcatOffsets
<1>9. ASSUME NEW k \in 0 .. n - 1, k \in T PROVE k + 1 \in T
  <2>1. ConcatOffsets(ss, f, k + 1)
    BY <1>1, <1>9, OneMoreConcat DEF n
  <2>2. k + 1 \in 0 .. n
    BY <1>2
  <2>3. QED
    BY <2>1, <2>2
<1>10. \A k \in 0 .. n : ConcatOffsets(ss, f, k)
  <2> HIDE DEF T
  <2>1. \A k \in 0 .. n : k \in T
    BY <1>2, <1>8, <1>9, InductionUpTo
  <2>2. QED
    BY <2>1 DEF T
<1>11. \A i \in 1 .. n : Len(f[i]) = Len(f[i - 1]) + Len(ss[i])
  <2> SUFFICES ASSUME NEW i \in 1 .. n PROVE Len(f[i]) = Len(f[i - 1]) + Len(ss[i])
    OBVIOUS
  <2>1. i - 1 \in 0 .. n
    BY <1>2
  <2>2. PICK u \in Seq(S) : u = f[i - 1]
    BY <1>6, <2>1
  <2>3. PICK v \in Seq(S) : v = ss[i]
    BY <1>2
  <2>4. Len(u \o v) = Len(u) + Len(v)
    OBVIOUS
  <2>5. f[i] = u \o v
    BY <1>5, <2>2, <2>3
  <2>6. QED
    BY <2>2, <2>3, <2>4, <2>5
<1>12. s \in Seq(S) /\ Offset(ss, 1) = 0 /\ Offset(ss, n + 1) = Len(s)
  <2>1. 1 \in 1 .. n + 1 /\ n + 1 \in 1 .. n + 1 /\ 1 - 1 = 0 /\ (n + 1) - 1 = n /\ n \in 0 .. n
    BY <1>2
  <2>2. Offset(ss, 1) = Len(f[0]) /\ Offset(ss, n + 1) = Len(f[n])
    BY <1>7, <2>1
  <2>3. QED
    BY <1>3, <1>5, <1>6, <2>1, <2>2
<1>13. ASSUME NEW i \in 1 .. n
       PROVE  /\ Offset(ss, i) \in Nat /\ Offset(ss, i + 1) = Offset(ss, i) + Len(ss[i])
              /\ \A j \in 1 .. Len(ss[i]) : s[Offset(ss, i) + j] = ss[i][j]
  <2>1. i \in 1 .. n + 1 /\ i + 1 \in 1 .. n + 1 /\ i - 1 \in 0 .. n /\ (i + 1) - 1 = i /\ n \in 0 .. n
    BY <1>2
  <2>2. Offset(ss, i) = Len(f[i - 1]) /\ Offset(ss, i + 1) = Len(f[i])
    BY <1>7, <2>1
  <2>3. \A j \in 1 .. Len(ss[i]) : f[n][Len(f[i - 1]) + j] = ss[i][j]
    BY <1>10, <2>1 DEF ConcatOffsets
  <2>4. QED
    BY <1>3, <1>6, <1>11, <2>1, <2>2, <2>3
<1>14. ASSUME NEW i \in 1 .. n + 1, NEW k \in 1 .. n + 1, i < k
       PROVE  Offset(ss, i + 1) <= Offset(ss, k)
  <2>1. k - 1 \in 0 .. n /\ i \in 1 .. k - 1 /\ i + 1 \in 1 .. n + 1 /\ (i + 1) - 1 = i
    BY <1>2, <1>14
  <2>2. Len(f[i]) <= Len(f[k - 1])
    BY <1>10, <2>1 DEF ConcatOffsets
  <2>3. Offset(ss, i + 1) = Len(f[i]) /\ Offset(ss, k) = Len(f[k - 1])
    BY <1>7, <2>1
  <2>4. QED
    BY <2>2, <2>3
<1>15. ASSUME NEW p \in 1 .. Len(s)
       PROVE  \E i \in 1 .. n : p - Offset(ss, i) \in 1 .. Len(ss[i])
  <2>1. n \in 0 .. n /\ p \in 1 .. Len(f[n])
    BY <1>2, <1>3
  <2>2. PICK i \in 1 .. n : p - Len(f[i - 1]) \in 1 .. Len(ss[i])
    BY <1>10, <2>1 DEF ConcatOffsets
  <2>3. i \in 1 .. n + 1
    BY <1>2
  <2>4. QED
    BY <1>7, <2>2, <2>3
<1>16. QED
  BY <1>12, <1>13, <1>14, <1>15 DEF Flattens, n, s

-----------------------------------------------------------------------------
(* The entries of a document.  The stop entries of a ride lie together, in *)
(* its order.                                                              *)

Entry == [rid : Nat, number : RideNumber, sid : Nat, time : Nat]

\* The entry of the j-th stop of the i-th ride of line l.
StopEntry(doc, l, i, j) ==
  [rid |-> doc[l].direction, number |-> doc[l].rides[i].number,
   sid |-> doc[l].rides[i].stops[j][1], time |-> doc[l].rides[i].stops[j][2]]

\* What a document is made of.
LEMMA DocumentTypes ==
  ASSUME NEW doc \in Document
  PROVE  /\ Len(doc) \in Nat /\ DOMAIN doc = 1 .. Len(doc)
         /\ \A l \in DOMAIN doc :
              /\ doc[l].direction \in Nat
              /\ Len(doc[l].rides) \in Nat /\ DOMAIN doc[l].rides = 1 .. Len(doc[l].rides)
              /\ \A i \in DOMAIN doc[l].rides :
                   /\ doc[l].rides[i].number \in RideNumber
                   /\ doc[l].rides[i].stops \in Seq(Nat \X Nat)
                   /\ Len(doc[l].rides[i].stops) \in Nat
                   /\ DOMAIN doc[l].rides[i].stops = 1 .. Len(doc[l].rides[i].stops)
                   /\ \A j \in DOMAIN doc[l].rides[i].stops :
                        /\ doc[l].rides[i].stops[j][1] \in Nat
                        /\ doc[l].rides[i].stops[j][2] \in Nat
<1> DEFINE R == [number : RideNumber, stops : Seq(Nat \X Nat)]
           L == [direction : Nat, rides : Seq(R)]
<1>1. doc \in Seq(L)
  BY DEF Document
<1> HIDE DEF L
<1>2. Len(doc) \in Nat /\ DOMAIN doc = 1 .. Len(doc) /\ \A l \in DOMAIN doc : doc[l] \in L
  BY <1>1
<1>3. ASSUME NEW l \in DOMAIN doc
      PROVE  doc[l].direction \in Nat /\ doc[l].rides \in Seq(R)
  BY <1>2 DEF L
<1> HIDE DEF R
<1>4. ASSUME NEW l \in DOMAIN doc
      PROVE  /\ Len(doc[l].rides) \in Nat /\ DOMAIN doc[l].rides = 1 .. Len(doc[l].rides)
             /\ \A i \in DOMAIN doc[l].rides : doc[l].rides[i] \in R
  BY <1>3
<1>5. ASSUME NEW l \in DOMAIN doc, NEW i \in DOMAIN doc[l].rides
      PROVE  doc[l].rides[i].number \in RideNumber /\ doc[l].rides[i].stops \in Seq(Nat \X Nat)
  BY <1>4 DEF R
<1>6. ASSUME NEW s \in Seq(Nat \X Nat)
      PROVE  /\ Len(s) \in Nat /\ DOMAIN s = 1 .. Len(s)
             /\ \A j \in DOMAIN s : s[j][1] \in Nat /\ s[j][2] \in Nat
  OBVIOUS
<1>7. QED
  BY <1>2, <1>3, <1>4, <1>5, <1>6

\* The entries of a ride.
LEMMA RideEntriesTypes ==
  ASSUME NEW doc \in Document, NEW l \in DOMAIN doc, NEW i \in DOMAIN doc[l].rides
  PROVE  /\ RideEntries(doc[l], doc[l].rides[i]) \in Seq(Entry)
         /\ Len(RideEntries(doc[l], doc[l].rides[i])) = Len(doc[l].rides[i].stops)
         /\ \A j \in 1 .. Len(doc[l].rides[i].stops) :
              RideEntries(doc[l], doc[l].rides[i])[j] = StopEntry(doc, l, i, j)
<1> DEFINE e == RideEntries(doc[l], doc[l].rides[i])
           m == Len(doc[l].rides[i].stops)
<1>1. /\ doc[l].direction \in Nat /\ doc[l].rides[i].number \in RideNumber
      /\ m \in Nat /\ DOMAIN doc[l].rides[i].stops = 1 .. m
      /\ \A j \in 1 .. m : /\ doc[l].rides[i].stops[j][1] \in Nat
                           /\ doc[l].rides[i].stops[j][2] \in Nat
  BY DocumentTypes
<1> HIDE DEF m
<1>2. e = [j \in 1 .. m |-> StopEntry(doc, l, i, j)]
  BY <1>1 DEF RideEntries, StopEntry
<1>3. \A j \in 1 .. m : StopEntry(doc, l, i, j) \in Entry
  BY <1>1 DEF StopEntry, Entry
<1> HIDE DEF e
<1>4. e \in [1 .. m -> Entry] /\ \A j \in 1 .. m : e[j] = StopEntry(doc, l, i, j)
  BY <1>2, <1>3
<1>5. e \in Seq(Entry) /\ Len(e) = m
  BY <1>1, <1>4
<1>6. QED
  BY <1>4, <1>5 DEF e, m

\* The entries of a line lie ride after ride.
LEMMA LineEntriesPlaced ==
  ASSUME NEW doc \in Document, NEW l \in DOMAIN doc
  PROVE  /\ Flattens(RideLists(doc[l]), LineEntries(doc[l]), Entry)
         /\ Len(RideLists(doc[l])) = Len(doc[l].rides)
         /\ \A i \in DOMAIN doc[l].rides :
              RideLists(doc[l])[i] = RideEntries(doc[l], doc[l].rides[i])
<1> DEFINE r == RideLists(doc[l])
           m == Len(doc[l].rides)
<1>1. m \in Nat /\ DOMAIN doc[l].rides = 1 .. m
  BY DocumentTypes
<1>2. \A i \in 1 .. m : RideEntries(doc[l], doc[l].rides[i]) \in Seq(Entry)
  BY <1>1, RideEntriesTypes
<1>3. r = [i \in 1 .. m |-> RideEntries(doc[l], doc[l].rides[i])]
  BY <1>1 DEF RideLists
<1>4. LineEntries(doc[l]) = FlattenSeq(r)
  BY DEF LineEntries, RideLists
<1> HIDE DEF r, m
<1>5. r \in Seq(Seq(Entry)) /\ Len(r) = m
  <2>1. r \in [1 .. m -> Seq(Entry)]
    BY <1>2, <1>3
  <2>2. QED
    BY <1>1, <2>1
<1>6. Flattens(r, LineEntries(doc[l]), Entry)
  BY <1>4, <1>5, FlattenedByOffsets
<1>7. QED
  BY <1>1, <1>3, <1>5, <1>6 DEF r, m

\* Every stop of every ride has its place among the entries, and nothing else has.
LEMMA EntriesPlaced ==
  ASSUME NEW doc \in Document
  PROVE  /\ Entries(doc) \in Seq(Entry)
         /\ \A l \in DOMAIN doc : \A i \in DOMAIN doc[l].rides :
              /\ Base(doc, l, i) \in Nat
              /\ Base(doc, l, i) + Len(doc[l].rides[i].stops) <= Len(Entries(doc))
              /\ \A j \in 1 .. Len(doc[l].rides[i].stops) :
                   Entries(doc)[Base(doc, l, i) + j] = StopEntry(doc, l, i, j)
         /\ \A p \in 1 .. Len(Entries(doc)) :
              \E l \in DOMAIN doc : \E i \in DOMAIN doc[l].rides :
                p - Base(doc, l, i) \in 1 .. Len(doc[l].rides[i].stops)
<1> DEFINE L == [m \in DOMAIN doc |-> LineEntries(doc[m])]
           E == Entries(doc)
           n == Len(doc)
<1>1. n \in Nat /\ DOMAIN doc = 1 .. n
  BY DocumentTypes
<1>2. \A l \in 1 .. n : L[l] = LineEntries(doc[l]) /\ LineEntries(doc[l]) \in Seq(Entry)
  BY <1>1, LineEntriesPlaced DEF Flattens
<1>3. E = FlattenSeq(L)
  BY DEF Entries
<1>4. L \in Seq(Seq(Entry)) /\ Len(L) = n
  <2>1. L \in [1 .. n -> Seq(Entry)]
    BY <1>1, <1>2
  <2> HIDE DEF L, n
  <2>2. QED
    BY <1>1, <2>1
<1>5. Flattens(L, E, Entry)
  <2> HIDE DEF L, E
  <2>1. QED
    BY <1>3, <1>4, FlattenedByOffsets
<1>6. \A l \in DOMAIN doc : \A i \in DOMAIN doc[l].rides :
        Base(doc, l, i) = Offset(L, l) + Offset(RideLists(doc[l]), i)
  BY DEF Base
<1> HIDE DEF L, E, n
<1>7. /\ E \in Seq(Entry) /\ Len(E) \in Nat /\ Offset(L, n + 1) = Len(E)
      /\ \A l \in 1 .. n : /\ Offset(L, l) \in Nat
                           /\ Offset(L, l + 1) = Offset(L, l) + Len(LineEntries(doc[l]))
                           /\ \A j \in 1 .. Len(LineEntries(doc[l])) :
                                E[Offset(L, l) + j] = LineEntries(doc[l])[j]
      /\ \A i, k \in 1 .. n + 1 : i < k => Offset(L, i + 1) <= Offset(L, k)
      /\ \A p \in 1 .. Len(E) :
           \E l \in 1 .. n : p - Offset(L, l) \in 1 .. Len(LineEntries(doc[l]))
  <2>1. E \in Seq(Entry) /\ Offset(L, n + 1) = Len(E)
    BY <1>4, <1>5 DEF Flattens
  <2>2. Len(E) \in Nat
    BY <2>1
  <2>3. ASSUME NEW l \in 1 .. n
        PROVE  /\ Offset(L, l) \in Nat
               /\ Offset(L, l + 1) = Offset(L, l) + Len(LineEntries(doc[l]))
               /\ \A j \in 1 .. Len(LineEntries(doc[l])) :
                    E[Offset(L, l) + j] = LineEntries(doc[l])[j]
    BY <1>2, <1>4, <1>5 DEF Flattens
  <2>4. \A i, k \in 1 .. n + 1 : i < k => Offset(L, i + 1) <= Offset(L, k)
    BY <1>4, <1>5 DEF Flattens
  <2>5. ASSUME NEW p \in 1 .. Len(E)
        PROVE  \E l \in 1 .. n : p - Offset(L, l) \in 1 .. Len(LineEntries(doc[l]))
    <3>1. PICK l \in 1 .. n : p - Offset(L, l) \in 1 .. Len(L[l])
      BY <1>4, <1>5 DEF Flattens
    <3>2. L[l] = LineEntries(doc[l])
      BY <1>2
    <3>3. QED
      BY <3>1, <3>2
  <2>6. QED
    BY <2>1, <2>2, <2>3, <2>4, <2>5
<1>8. ASSUME NEW l \in 1 .. n
      PROVE  /\ Len(LineEntries(doc[l])) \in Nat
             /\ Offset(L, l) + Len(LineEntries(doc[l])) <= Len(E)
  <2>1. Len(LineEntries(doc[l])) \in Nat
    BY <1>2
  <2>2. l \in 1 .. n + 1 /\ n + 1 \in 1 .. n + 1 /\ l < n + 1
    BY <1>1
  <2>3. Offset(L, l + 1) <= Offset(L, n + 1)
    BY <1>7, <2>2
  <2>4. QED
    BY <1>7, <2>1, <2>3
<1>9. ASSUME NEW l \in DOMAIN doc, NEW i \in DOMAIN doc[l].rides
      PROVE  LET R == RideLists(doc[l])  m == Len(doc[l].rides[i].stops) IN
             /\ m \in Nat /\ Offset(R, i) \in Nat
             /\ Offset(R, i) + m <= Len(LineEntries(doc[l]))
             /\ \A j \in 1 .. m :
                  LineEntries(doc[l])[Offset(R, i) + j] = StopEntry(doc, l, i, j)
  <2> DEFINE R == RideLists(doc[l])
             c == Len(doc[l].rides)
             m == Len(doc[l].rides[i].stops)
  <2>1. c \in Nat /\ i \in 1 .. c /\ m \in Nat
    BY DocumentTypes
  <2>2. Flattens(R, LineEntries(doc[l]), Entry) /\ Len(R) = c
        /\ R[i] = RideEntries(doc[l], doc[l].rides[i])
    BY LineEntriesPlaced
  <2>3. Len(R[i]) = m /\ \A j \in 1 .. m : R[i][j] = StopEntry(doc, l, i, j)
    BY <2>2, RideEntriesTypes
  <2> HIDE DEF R, c, m
  <2>4. /\ Offset(R, i) \in Nat /\ Offset(R, i + 1) = Offset(R, i) + m
        /\ \A j \in 1 .. m : LineEntries(doc[l])[Offset(R, i) + j] = R[i][j]
    BY <2>1, <2>2, <2>3 DEF Flattens
  <2>5. Offset(R, i + 1) <= Offset(R, c + 1) /\ Offset(R, c + 1) = Len(LineEntries(doc[l]))
    <3>1. i \in 1 .. c + 1 /\ c + 1 \in 1 .. c + 1 /\ i < c + 1
      BY <2>1
    <3>2. QED
      BY <2>2, <3>1 DEF Flattens
  <2>6. QED
    BY <2>1, <2>3, <2>4, <2>5 DEF R, m
<1>10. ASSUME NEW l \in DOMAIN doc, NEW i \in DOMAIN doc[l].rides
       PROVE  /\ Base(doc, l, i) \in Nat
              /\ Base(doc, l, i) + Len(doc[l].rides[i].stops) <= Len(E)
              /\ \A j \in 1 .. Len(doc[l].rides[i].stops) :
                   E[Base(doc, l, i) + j] = StopEntry(doc, l, i, j)
  <2> DEFINE o == Offset(RideLists(doc[l]), i)
             m == Len(doc[l].rides[i].stops)
             w == Len(LineEntries(doc[l]))
  <2>1. Base(doc, l, i) = Offset(L, l) + o /\ l \in 1 .. n
    BY <1>1, <1>6
  <2>2. m \in Nat /\ o \in Nat /\ o + m <= w
        /\ \A j \in 1 .. m : LineEntries(doc[l])[o + j] = StopEntry(doc, l, i, j)
    BY <1>9
  <2>3. w \in Nat /\ Offset(L, l) + w <= Len(E) /\ Offset(L, l) \in Nat
        /\ \A j \in 1 .. w : E[Offset(L, l) + j] = LineEntries(doc[l])[j]
    BY <1>7, <1>8, <2>1
  <2> HIDE DEF o, m, w
  <2>4. ASSUME NEW j \in 1 .. m PROVE E[Base(doc, l, i) + j] = StopEntry(doc, l, i, j)
    <3>1. o + j \in 1 .. w /\ Offset(L, l) + (o + j) = Base(doc, l, i) + j
      BY <2>1, <2>2, <2>3
    <3>2. E[Offset(L, l) + (o + j)] = LineEntries(doc[l])[o + j]
      BY <2>3, <3>1
    <3>3. QED
      BY <2>2, <3>1, <3>2
  <2>5. Base(doc, l, i) \in Nat /\ Base(doc, l, i) + m <= Len(E)
    BY <1>7, <2>1, <2>2, <2>3
  <2>6. QED
    BY <2>4, <2>5 DEF m
<1>11. ASSUME NEW p \in 1 .. Len(E)
       PROVE  \E l \in DOMAIN doc : \E i \in DOMAIN doc[l].rides :
                p - Base(doc, l, i) \in 1 .. Len(doc[l].rides[i].stops)
  <2>1. PICK l \in 1 .. n : p - Offset(L, l) \in 1 .. Len(LineEntries(doc[l]))
    BY <1>7
  <2>2. l \in DOMAIN doc
    BY <1>1
  <2> DEFINE R == RideLists(doc[l])
             c == Len(doc[l].rides)
             q == p - Offset(L, l)
  <2>3. c \in Nat /\ DOMAIN doc[l].rides = 1 .. c
    BY <2>2, DocumentTypes
  <2>4. Flattens(R, LineEntries(doc[l]), Entry) /\ Len(R) = c
        /\ \A i \in 1 .. c : R[i] = RideEntries(doc[l], doc[l].rides[i])
    BY <2>2, <2>3, LineEntriesPlaced
  <2>5. PICK i \in 1 .. c : q - Offset(R, i) \in 1 .. Len(R[i])
    <3> HIDE DEF R, c, q
    <3>1. q \in 1 .. Len(LineEntries(doc[l]))
      BY <2>1 DEF q
    <3>2. QED
      BY <2>4, <3>1 DEF Flattens
  <2>6. Len(R[i]) = Len(doc[l].rides[i].stops)
    BY <2>2, <2>3, <2>4, RideEntriesTypes
  <2>7. Offset(R, i) \in Nat /\ Offset(L, l) \in Nat
    BY <1>7, <2>4 DEF Flattens
  <2>8. q - Offset(R, i) = p - Base(doc, l, i)
    BY <1>6, <2>2, <2>3, <2>7
  <2>9. QED
    BY <2>2, <2>3, <2>5, <2>6, <2>8
<1>12. QED
  BY <1>7, <1>10, <1>11 DEF E

-----------------------------------------------------------------------------
(* Reading.  What add_stop and add_stop_time make of the maps, entry by    *)
(* entry.                                                                  *)

\* Appending the next element to the first n of a sequence.
LEMMA AppendNext ==
  ASSUME NEW S, NEW s \in Seq(S), NEW n \in 0 .. Len(s) - 1
  PROVE  Append(SubSeq(s, 1, n), s[n + 1]) = SubSeq(s, 1, n + 1)
OBVIOUS

\* An element is appended to a sequence.
LEMMA AppendedRange ==
  ASSUME NEW V, NEW s \in Seq(V), NEW v \in V
  PROVE  Append(s, v) \in Seq(V) /\ Range(Append(s, v)) = Range(s) \cup {v}
<1> DEFINE t == Append(s, v)
           n == Len(s)
<1>1. /\ t \in Seq(V) /\ n \in Nat /\ DOMAIN s = 1 .. n /\ DOMAIN t = 1 .. n + 1
      /\ t[n + 1] = v /\ \A i \in 1 .. n : t[i] = s[i]
  OBVIOUS
<1> HIDE DEF t, n
<1>2. Range(t) = {t[i] : i \in 1 .. n + 1} /\ Range(s) = {s[i] : i \in 1 .. n}
  BY <1>1 DEF Range
<1>3. 1 .. n + 1 = (1 .. n) \cup {n + 1}
  BY <1>1
<1>4. Range(t) = Range(s) \cup {v}
  BY <1>1, <1>2, <1>3
<1>5. QED
  BY <1>1, <1>4 DEF t

ListsOf(map, V) == \A x \in DOMAIN map : map[x] \in Seq(V)

\* The lists of map are those of an earlier map but for one value at the end of one.
OneMore(map, earlier, key, v, V) ==
  /\ DOMAIN map = DOMAIN earlier \cup {key}
  /\ \A x \in DOMAIN earlier : x # key => map[x] = earlier[x]
  /\ map[key] = Append(At(earlier, key), v)
  /\ \A x \in DOMAIN map : map[x] \in Seq(V)
  /\ Range(map[key]) = Range(At(earlier, key)) \cup {v}

\* push_back adds one value to the list of one key.
LEMMA PushedLists ==
  ASSUME NEW V, NEW map, NEW key, NEW v \in V, ListsOf(map, V)
  PROVE  OneMore(Pushed(map, key, v), map, key, v, V)
<1>1. At(map, key) \in Seq(V)
  BY DEF At, ListsOf
<1>2. DOMAIN Pushed(map, key, v) = DOMAIN map \cup {key}
  BY DEF Pushed
<1>3. \A x \in DOMAIN map : x # key => Pushed(map, key, v)[x] = map[x]
  BY DEF Pushed
<1>4. Pushed(map, key, v)[key] = Append(At(map, key), v)
  BY DEF Pushed
<1>5. Append(At(map, key), v) \in Seq(V)
      /\ Range(Append(At(map, key), v)) = Range(At(map, key)) \cup {v}
  BY <1>1, AppendedRange
<1>6. \A x \in DOMAIN Pushed(map, key, v) : Pushed(map, key, v)[x] \in Seq(V)
  BY <1>2, <1>3, <1>4, <1>5 DEF ListsOf
<1>7. QED
  BY <1>2, <1>3, <1>4, <1>5, <1>6 DEF OneMore

\* One more entry is read.
LEMMA ReadNext ==
  ASSUME NEW doc \in Document, NEW k \in 0 .. Len(Entries(doc)) - 1
  PROVE  LET e == Entries(doc)[k + 1] IN
         /\ Read(doc, k + 1) = Read(doc, k) \cup {e}
         /\ ReadOfFirst(doc, k + 1) =
              ReadOfFirst(doc, k) \cup (IF e.number = 0 THEN {e} ELSE {})
         /\ e \in Entry /\ Read(doc, k) \in SUBSET Entry
<1> DEFINE E == Entries(doc)
           e == E[k + 1]
<1>1. E \in Seq(Entry)
  BY EntriesPlaced
<1> HIDE DEF E
<1>2. Len(E) \in Nat /\ k \in Nat /\ k + 1 \in 1 .. Len(E) /\ \A p \in 1 .. k : p \in 1 .. Len(E)
  BY <1>1 DEF E
<1>3. e \in Entry /\ \A p \in 1 .. k : E[p] \in Entry
  BY <1>1, <1>2
<1>4. 1 .. k + 1 = (1 .. k) \cup {k + 1}
  BY <1>2
<1>5. Read(doc, k) = {E[p] : p \in 1 .. k} /\ Read(doc, k + 1) = {E[p] : p \in 1 .. k + 1}
  BY DEF Read, E
<1>6. Read(doc, k + 1) = Read(doc, k) \cup {e}
  BY <1>4, <1>5
<1>7. ReadOfFirst(doc, k + 1) = ReadOfFirst(doc, k) \cup (IF e.number = 0 THEN {e} ELSE {})
  <2> HIDE DEF e
  <2>1. QED
    BY <1>6 DEF ReadOfFirst
<1>8. QED
  BY <1>3, <1>5, <1>6, <1>7 DEF E

\* The maps after add_stop and add_stop_time for an entry.
StopAdded(e, sr, rs, sr2, rs2) ==
  IF e.number = 0 THEN sr2 = Pushed(sr, e.sid, e.rid) /\ rs2 = Pushed(rs, e.rid, e.sid)
                  ELSE sr2 = sr /\ rs2 = rs

RidesAt(times, d) == IF d \in DOMAIN times THEN times[d] ELSE EmptyMap

TimeAdded(e, times, times2) ==
  times2 = [r \in DOMAIN times \cup {e.rid} |->
              IF r = e.rid THEN Pushed(RidesAt(times, e.rid), e.number, e.time)
                           ELSE times[r]]

\* Lists with more values are lists of more values.
LEMMA WiderSequences ==
  ASSUME NEW V, NEW W, V \subseteq W, NEW s \in Seq(V)
  PROVE  s \in Seq(W)
OBVIOUS

\* add_stop keeps _sr_map and _rs_map up with the entries.
LEMMA StopsReadStep ==
  ASSUME NEW doc \in Document, NEW k \in 0 .. Len(Entries(doc)) - 1,
         NEW sr, NEW rs, StopsRead(doc, k, sr, rs), RoutesRead(doc, k, sr, rs),
         NEW sr2, NEW rs2, StopAdded(Entries(doc)[k + 1], sr, rs, sr2, rs2)
  PROVE  StopsRead(doc, k + 1, sr2, rs2) /\ RoutesRead(doc, k + 1, sr2, rs2)
<1> DEFINE e == Entries(doc)[k + 1]
           F == ReadOfFirst(doc, k)
           G == ReadOfFirst(doc, k + 1)
<1>1. G = F \cup (IF e.number = 0 THEN {e} ELSE {})
  BY ReadNext
<1>2. StopAdded(e, sr, rs, sr2, rs2)
  OBVIOUS
<1>3. /\ DOMAIN sr = {f.sid : f \in F} /\ DOMAIN rs = {f.rid : f \in F}
      /\ \A x \in DOMAIN sr :
           /\ sr[x] \in Seq(DOMAIN rs)
           /\ Range(sr[x]) = {f.rid : f \in {g \in F : g.sid = x}}
      /\ \A d \in DOMAIN rs : rs[d] \in Seq(DOMAIN sr)
  BY DEF StopsRead, RoutesRead
<1> SUFFICES /\ DOMAIN sr2 = {f.sid : f \in G} /\ DOMAIN rs2 = {f.rid : f \in G}
             /\ \A x \in DOMAIN sr2 :
                  /\ sr2[x] \in Seq(DOMAIN rs2)
                  /\ Range(sr2[x]) = {f.rid : f \in {g \in G : g.sid = x}}
             /\ \A d \in DOMAIN rs2 : rs2[d] \in Seq(DOMAIN sr2)
  BY DEF StopsRead, RoutesRead
<1> HIDE DEF e, F, G
<1>4. CASE e.number # 0
  <2>1. G = F /\ sr2 = sr /\ rs2 = rs
    BY <1>1, <1>2, <1>4 DEF StopAdded
  <2>2. QED
    BY <1>3, <2>1
<1>5. CASE e.number = 0
  <2>1. G = F \cup {e} /\ sr2 = Pushed(sr, e.sid, e.rid) /\ rs2 = Pushed(rs, e.rid, e.sid)
    BY <1>1, <1>2, <1>5 DEF StopAdded
  <2> DEFINE R == DOMAIN rs \cup {e.rid}
             X == DOMAIN sr \cup {e.sid}
  <2>2. \A x \in DOMAIN sr : sr[x] \in Seq(R)
    <3>1. DOMAIN rs \subseteq R
      OBVIOUS
    <3> HIDE DEF R
    <3>2. QED
      BY <1>3, <3>1, WiderSequences
  <2>3. \A d \in DOMAIN rs : rs[d] \in Seq(X)
    <3>1. DOMAIN sr \subseteq X
      OBVIOUS
    <3> HIDE DEF X
    <3>2. QED
      BY <1>3, <3>1, WiderSequences
  <2>4. /\ DOMAIN sr2 = X
        /\ \A x \in DOMAIN sr : x # e.sid => sr2[x] = sr[x]
        /\ \A x \in X : sr2[x] \in Seq(R)
        /\ Range(sr2[e.sid]) = Range(At(sr, e.sid)) \cup {e.rid}
    <3>1. e.rid \in R
      OBVIOUS
    <3> HIDE DEF R
    <3>2. OneMore(sr2, sr, e.sid, e.rid, R)
      BY <2>1, <2>2, <3>1, PushedLists DEF ListsOf
    <3>3. QED
      BY <3>2 DEF OneMore
  <2>5. DOMAIN rs2 = R /\ \A d \in R : rs2[d] \in Seq(X)
    <3>1. e.sid \in X
      OBVIOUS
    <3> HIDE DEF X
    <3>2. OneMore(rs2, rs, e.rid, e.sid, X)
      BY <2>1, <2>3, <3>1, PushedLists DEF ListsOf
    <3>3. QED
      BY <3>2 DEF OneMore
  <2>6. X = {f.sid : f \in G} /\ R = {f.rid : f \in G}
    BY <1>3, <2>1
  <2>7. ASSUME NEW x \in X PROVE Range(sr2[x]) = {f.rid : f \in {g \in G : g.sid = x}}
    <3>1. CASE x # e.sid
      <4>1. x \in DOMAIN sr /\ sr2[x] = sr[x]
        BY <2>4, <3>1
      <4>2. {g \in G : g.sid = x} = {g \in F : g.sid = x}
        BY <2>1, <3>1
      <4>3. QED
        BY <1>3, <4>1, <4>2
    <3>2. CASE x = e.sid
      <4>1. Range(At(sr, e.sid)) = {f.rid : f \in {g \in F : g.sid = e.sid}}
        <5>1. CASE e.sid \in DOMAIN sr
          BY <1>3, <5>1 DEF At
        <5>2. CASE e.sid \notin DOMAIN sr
          <6>1. Range(At(sr, e.sid)) = {}
            BY <5>2 DEF At, Range
          <6>2. {g \in F : g.sid = e.sid} = {}
            BY <1>3, <5>2
          <6>3. QED
            BY <6>1, <6>2
        <5>3. QED
          BY <5>1, <5>2
      <4>2. {g \in G : g.sid = e.sid} = {g \in F : g.sid = e.sid} \cup {e}
        BY <2>1
      <4>3. {f.rid : f \in {g \in G : g.sid = e.sid}}
              = {f.rid : f \in {g \in F : g.sid = e.sid}} \cup {e.rid}
        BY <4>2
      <4>4. QED
        BY <2>4, <3>2, <4>1, <4>3
    <3>3. QED
      BY <3>1, <3>2
  <2> HIDE DEF X, R
  <2>8. QED
    BY <2>4, <2>5, <2>6, <2>7
<1>6. QED
  BY <1>4, <1>5

\* The ride that add_stop_time adds a time to.
LEMMA TimeAddedLists ==
  ASSUME NEW times, NEW e \in Entry, NEW times2, TimeAdded(e, times, times2),
         ListsOf(RidesAt(times, e.rid), Nat)
  PROVE  /\ DOMAIN times2 = DOMAIN times \cup {e.rid}
         /\ \A d \in DOMAIN times : d # e.rid => times2[d] = times[d]
         /\ OneMore(times2[e.rid], RidesAt(times, e.rid), e.number, e.time, Nat)
<1>1. e.time \in Nat
  BY DEF Entry
<1>2. /\ DOMAIN times2 = DOMAIN times \cup {e.rid}
      /\ \A d \in DOMAIN times : d # e.rid => times2[d] = times[d]
      /\ times2[e.rid] = Pushed(RidesAt(times, e.rid), e.number, e.time)
  BY DEF TimeAdded
<1>3. QED
  BY <1>1, <1>2, PushedLists

\* add_stop_time keeps _rtstime_map up with the entries.
LEMMA TimesReadStep ==
  ASSUME NEW doc \in Document, NEW k \in 0 .. Len(Entries(doc)) - 1,
         NEW times, TimesRead(doc, k, times),
         NEW times2, TimeAdded(Entries(doc)[k + 1], times, times2)
  PROVE  TimesRead(doc, k + 1, times2)
<1> DEFINE e == Entries(doc)[k + 1]
           P == Read(doc, k)
           N == Read(doc, k + 1)
           rides == RidesAt(times, e.rid)
<1>1. N = P \cup {e} /\ e \in Entry
  BY ReadNext
<1>2. /\ DOMAIN times = {f.rid : f \in P}
      /\ \A d \in DOMAIN times :
           /\ DOMAIN times[d] = {f.number : f \in {g \in P : g.rid = d}}
           /\ \A n \in DOMAIN times[d] : times[d][n] \in Seq(Nat)
  BY DEF TimesRead
<1>3. /\ DOMAIN times2 = DOMAIN times \cup {e.rid}
      /\ \A d \in DOMAIN times : d # e.rid => times2[d] = times[d]
      /\ DOMAIN times2[e.rid] = DOMAIN rides \cup {e.number}
      /\ \A n \in DOMAIN times2[e.rid] : times2[e.rid][n] \in Seq(Nat)
  <2>1. \A n \in DOMAIN rides : rides[n] \in Seq(Nat)
    BY <1>2 DEF RidesAt, EmptyMap
  <2>2. TimeAdded(e, times, times2)
    OBVIOUS
  <2> HIDE DEF e
  <2>3. /\ DOMAIN times2 = DOMAIN times \cup {e.rid}
        /\ \A d \in DOMAIN times : d # e.rid => times2[d] = times[d]
        /\ OneMore(times2[e.rid], RidesAt(times, e.rid), e.number, e.time, Nat)
    BY <1>1, <2>1, <2>2, TimeAddedLists DEF ListsOf
  <2>4. QED
    BY <2>3 DEF OneMore
<1> SUFFICES /\ DOMAIN times2 = {f.rid : f \in N}
             /\ \A d \in DOMAIN times2 :
                  /\ DOMAIN times2[d] = {f.number : f \in {g \in N : g.rid = d}}
                  /\ \A n \in DOMAIN times2[d] : times2[d][n] \in Seq(Nat)
  BY DEF TimesRead
<1>4. DOMAIN rides = {f.number : f \in {g \in P : g.rid = e.rid}}
  <2> HIDE DEF e, P
  <2>1. CASE e.rid \in DOMAIN times
    BY <1>2, <2>1 DEF RidesAt
  <2>2. CASE e.rid \notin DOMAIN times
    <3>1. {g \in P : g.rid = e.rid} = {}
      BY <1>2, <2>2
    <3>2. DOMAIN rides = {}
      BY <2>2 DEF RidesAt, EmptyMap
    <3>3. QED
      BY <3>1, <3>2
  <2>3. QED
    BY <2>1, <2>2
<1> HIDE DEF e, P, N, rides
<1>5. DOMAIN times2 = {f.rid : f \in N}
  BY <1>1, <1>2, <1>3
<1>6. ASSUME NEW d \in DOMAIN times2
      PROVE  /\ DOMAIN times2[d] = {f.number : f \in {g \in N : g.rid = d}}
             /\ \A n \in DOMAIN times2[d] : times2[d][n] \in Seq(Nat)
  <2>1. CASE d # e.rid
    <3>1. d \in DOMAIN times /\ times2[d] = times[d]
      BY <1>3, <2>1
    <3>2. {g \in N : g.rid = d} = {g \in P : g.rid = d}
      BY <1>1, <2>1
    <3>3. QED
      BY <1>2, <3>1, <3>2
  <2>2. CASE d = e.rid
    <3>1. {g \in N : g.rid = e.rid} = {g \in P : g.rid = e.rid} \cup {e}
      BY <1>1
    <3>2. {f.number : f \in {g \in N : g.rid = e.rid}}
            = {f.number : f \in {g \in P : g.rid = e.rid}} \cup {e.number}
      BY <3>1
    <3>3. QED
      BY <1>3, <1>4, <2>2, <3>2
  <2>3. QED
    BY <2>1, <2>2
<1>7. QED
  BY <1>5, <1>6

\* The entries with the direction of a line and the number of one of its rides are
\* the stops of that ride.
LEMMA EntryOfRide ==
  ASSUME NEW doc, Trusted(doc), NEW p \in 1 .. Len(Entries(doc)),
         NEW l \in DOMAIN doc, NEW i \in DOMAIN doc[l].rides
  PROVE  /\ p - Base(doc, l, i) \in 1 .. Len(doc[l].rides[i].stops) <=>
              /\ Entries(doc)[p].rid = doc[l].direction
              /\ Entries(doc)[p].number = doc[l].rides[i].number
         /\ p - Base(doc, l, i) \in 1 .. Len(doc[l].rides[i].stops) =>
              Entries(doc)[p] = StopEntry(doc, l, i, p - Base(doc, l, i))
<1> DEFINE E == Entries(doc)
<1>1. /\ doc \in Document
      /\ \A a, c \in DOMAIN doc : doc[a].direction = doc[c].direction => a = c
      /\ \A a \in DOMAIN doc : \A c, g \in DOMAIN doc[a].rides :
           doc[a].rides[c].number = doc[a].rides[g].number => c = g
  BY DEF Trusted
<1>2. ASSUME NEW a \in DOMAIN doc, NEW c \in DOMAIN doc[a].rides,
             p - Base(doc, a, c) \in 1 .. Len(doc[a].rides[c].stops)
      PROVE  /\ E[p] = StopEntry(doc, a, c, p - Base(doc, a, c))
             /\ E[p].rid = doc[a].direction /\ E[p].number = doc[a].rides[c].number
  <2> DEFINE b == Base(doc, a, c)
             m == Len(doc[a].rides[c].stops)
  <2>1. b \in Nat /\ \A j \in 1 .. m : E[b + j] = StopEntry(doc, a, c, j)
    BY <1>1, EntriesPlaced
  <2>2. p - b \in 1 .. m
    BY <1>2
  <2> HIDE DEF b, m, E
  <2>3. b + (p - b) = p
    BY <2>1
  <2>4. E[p] = StopEntry(doc, a, c, p - b)
    BY <2>1, <2>2, <2>3
  <2>5. E[p].rid = doc[a].direction /\ E[p].number = doc[a].rides[c].number
    BY <2>4 DEF StopEntry
  <2>6. QED
    BY <2>4, <2>5 DEF b
<1>3. PICK a \in DOMAIN doc : \E c \in DOMAIN doc[a].rides :
        p - Base(doc, a, c) \in 1 .. Len(doc[a].rides[c].stops)
  BY <1>1, EntriesPlaced
<1>4. PICK c \in DOMAIN doc[a].rides : p - Base(doc, a, c) \in 1 .. Len(doc[a].rides[c].stops)
  BY <1>3
<1>5. E[p].rid = doc[a].direction /\ E[p].number = doc[a].rides[c].number
  BY <1>2, <1>4
<1> HIDE DEF E
<1>6. ASSUME E[p].rid = doc[l].direction, E[p].number = doc[l].rides[i].number
      PROVE  p - Base(doc, l, i) \in 1 .. Len(doc[l].rides[i].stops)
  <2>1. a = l
    BY <1>1, <1>5, <1>6
  <2>2. c = i
    BY <1>1, <1>5, <1>6, <2>1
  <2>3. QED
    BY <1>4, <2>1, <2>2
<1>7. QED
  BY <1>2, <1>6 DEF E

\* A ride has been begun when its first stop has been read.
LEMMA RideBegun ==
  ASSUME NEW doc, Trusted(doc), NEW k \in 0 .. Len(Entries(doc)),
         NEW l \in DOMAIN doc, NEW i \in DOMAIN doc[l].rides, doc[l].rides[i].stops # <<>>
  PROVE  k > Base(doc, l, i) <=>
           \E f \in Read(doc, k) : f.rid = doc[l].direction /\ f.number = doc[l].rides[i].number
<1> DEFINE b == Base(doc, l, i)
           m == Len(doc[l].rides[i].stops)
           E == Entries(doc)
<1>0. doc \in Document
  BY DEF Trusted
<1>1. b \in Nat /\ b + m <= Len(E) /\ E \in Seq(Entry)
  BY <1>0, EntriesPlaced
<1>2. m \in Nat \ {0}
  <2>1. doc[l].rides[i].stops \in Seq(Nat \X Nat)
    BY <1>0, DocumentTypes
  <2>2. QED
    BY <2>1
<1> HIDE DEF b, m, E
<1>3. Len(E) \in Nat /\ k \in Nat /\ k <= Len(E)
  BY <1>1 DEF E
<1>4. ASSUME k > b
      PROVE  \E f \in Read(doc, k) : f.rid = doc[l].direction /\ f.number = doc[l].rides[i].number
  <2>1. b + 1 \in 1 .. Len(E) /\ b + 1 \in 1 .. k /\ (b + 1) - b \in 1 .. m
    BY <1>1, <1>2, <1>3, <1>4
  <2>2. E[b + 1].rid = doc[l].direction /\ E[b + 1].number = doc[l].rides[i].number
    BY <2>1, EntryOfRide DEF E, b, m
  <2>3. E[b + 1] \in Read(doc, k)
    BY <2>1 DEF Read, E
  <2>4. QED
    BY <2>2, <2>3
<1>5. ASSUME NEW f \in Read(doc, k),
             f.rid = doc[l].direction, f.number = doc[l].rides[i].number
      PROVE  k > b
  <2>1. PICK p \in 1 .. k : f = E[p]
    BY DEF Read, E
  <2>2. p \in 1 .. Len(E)
    BY <1>3
  <2>3. p - b \in 1 .. m
    BY <1>5, <2>1, <2>2, EntryOfRide DEF E, b, m
  <2>4. QED
    BY <1>1, <1>2, <1>3, <2>3
<1>6. QED
  BY <1>4, <1>5 DEF b

\* So it has a list of times from then on, and ride 0 one of stops.
LEMMA RideListed ==
  ASSUME NEW doc, Trusted(doc), NEW k \in 0 .. Len(Entries(doc)),
         NEW l \in DOMAIN doc, NEW i \in DOMAIN doc[l].rides, doc[l].rides[i].stops # <<>>,
         NEW sr, NEW rs, NEW times, RoutesRead(doc, k, sr, rs), TimesRead(doc, k, times)
  PROVE  /\ k > Base(doc, l, i) <=>
              /\ doc[l].direction \in DOMAIN times
              /\ doc[l].rides[i].number \in DOMAIN times[doc[l].direction]
         /\ doc[l].rides[i].number = 0 =>
              (k > Base(doc, l, i) <=> doc[l].direction \in DOMAIN rs)
<1> DEFINE d == doc[l].direction
           n == doc[l].rides[i].number
           P == Read(doc, k)
           begun == k > Base(doc, l, i)
<1>1. begun <=> \E f \in P : f.rid = d /\ f.number = n
  BY RideBegun
<1>2. /\ DOMAIN times = {e.rid : e \in P}
      /\ \A x \in DOMAIN times : DOMAIN times[x] = {e.number : e \in {f \in P : f.rid = x}}
  BY DEF TimesRead
<1>3. DOMAIN rs = {e.rid : e \in {f \in P : f.number = 0}}
  BY DEF RoutesRead, ReadOfFirst
<1> HIDE DEF d, n, P, begun
<1>4. begun <=> d \in DOMAIN times /\ n \in DOMAIN times[d]
  <2>1. ASSUME NEW f \in P, f.rid = d, f.number = n
        PROVE  d \in DOMAIN times /\ n \in DOMAIN times[d]
    <3>1. d \in DOMAIN times
      BY <1>2, <2>1
    <3>2. n \in {e.number : e \in {g \in P : g.rid = d}}
      BY <2>1
    <3>3. QED
      BY <1>2, <3>1, <3>2
  <2>2. ASSUME d \in DOMAIN times, n \in DOMAIN times[d]
        PROVE  \E f \in P : f.rid = d /\ f.number = n
    <3>1. n \in {e.number : e \in {g \in P : g.rid = d}}
      BY <1>2, <2>2
    <3>2. QED
      BY <3>1
  <2>3. QED
    BY <1>1, <2>1, <2>2, Zenon
<1>5. ASSUME n = 0 PROVE begun <=> d \in DOMAIN rs
  <2>1. ASSUME NEW f \in P, f.rid = d, f.number = n PROVE d \in DOMAIN rs
    BY <1>3, <1>5, <2>1
  <2>2. ASSUME d \in DOMAIN rs PROVE \E f \in P : f.rid = d /\ f.number = n
    BY <1>3, <1>5, <2>2
  <2>3. QED
    BY <1>1, <2>1, <2>2, Zenon
<1>6. QED
  BY <1>4, <1>5 DEF d, n, begun

\* The stops and the times of a ride.
LEMMA RideSequences ==
  ASSUME NEW doc \in Document, NEW l \in DOMAIN doc, NEW i \in DOMAIN doc[l].rides
  PROVE  LET r == doc[l].rides[i]  m == Len(doc[l].rides[i].stops) IN
         /\ m \in Nat
         /\ TimesOfRide(r) \in Seq(Nat) /\ Len(TimesOfRide(r)) = m
         /\ StopsOfRide(r) \in Seq(Nat) /\ Len(StopsOfRide(r)) = m
         /\ \A j \in 1 .. m : /\ TimesOfRide(r)[j] = r.stops[j][2]
                              /\ StopsOfRide(r)[j] = r.stops[j][1]
<1> DEFINE r == doc[l].rides[i]
           m == Len(doc[l].rides[i].stops)
<1>1. m \in Nat /\ DOMAIN r.stops = 1 .. m
      /\ \A j \in 1 .. m : r.stops[j][1] \in Nat /\ r.stops[j][2] \in Nat
  BY DocumentTypes
<1> HIDE DEF r, m
<1>2. TimesOfRide(r) = [j \in 1 .. m |-> r.stops[j][2]]
      /\ StopsOfRide(r) = [j \in 1 .. m |-> r.stops[j][1]]
  BY <1>1 DEF TimesOfRide, StopsOfRide
<1>3. TimesOfRide(r) \in [1 .. m -> Nat] /\ StopsOfRide(r) \in [1 .. m -> Nat]
  BY <1>1, <1>2
<1>4. TimesOfRide(r) \in Seq(Nat) /\ Len(TimesOfRide(r)) = m
      /\ StopsOfRide(r) \in Seq(Nat) /\ Len(StopsOfRide(r)) = m
  BY <1>1, <1>3
<1>5. \A j \in 1 .. m : TimesOfRide(r)[j] = r.stops[j][2] /\ StopsOfRide(r)[j] = r.stops[j][1]
  BY <1>2
<1>6. QED
  BY <1>1, <1>4, <1>5 DEF r, m

\* What is read goes to the end of its own ride.
LEMMA RidesReadStep ==
  ASSUME NEW doc, Trusted(doc), NEW k \in 0 .. Len(Entries(doc)) - 1,
         NEW sr, NEW rs, NEW times, RoutesRead(doc, k, sr, rs), TimesRead(doc, k, times),
         RidesRead(doc, k, rs, times),
         NEW sr2, NEW rs2, StopAdded(Entries(doc)[k + 1], sr, rs, sr2, rs2),
         NEW times2, TimeAdded(Entries(doc)[k + 1], times, times2)
  PROVE  RidesRead(doc, k + 1, rs2, times2)
<1> SUFFICES ASSUME NEW l \in DOMAIN doc, NEW i \in DOMAIN doc[l].rides,
                    k + 1 > Base(doc, l, i), doc[l].rides[i].stops # <<>>
             PROVE  RideRead(doc, k + 1, rs2, times2, l, i)
  BY DEF RidesRead
<1> DEFINE e == Entries(doc)[k + 1]
           d == doc[l].direction
           r == doc[l].rides[i]
           n == r.number
           b == Base(doc, l, i)
           m == Len(r.stops)
           T == TimesOfRide(r)
           S == StopsOfRide(r)
<1>0. doc \in Document
  BY DEF Trusted
<1>1. b \in Nat /\ b + m <= Len(Entries(doc)) /\ Entries(doc) \in Seq(Entry)
  BY <1>0, EntriesPlaced
<1>2. Len(Entries(doc)) \in Nat /\ k \in Nat /\ k + 1 \in 1 .. Len(Entries(doc))
      /\ k \in 0 .. Len(Entries(doc))
  BY <1>1
<1>3. /\ m \in Nat /\ T \in Seq(Nat) /\ Len(T) = m /\ S \in Seq(Nat) /\ Len(S) = m
      /\ \A j \in 1 .. m : T[j] = r.stops[j][2] /\ S[j] = r.stops[j][1]
  BY <1>0, RideSequences
<1>4. e \in Entry /\ m # 0
  <2>1. r.stops \in Seq(Nat \X Nat) /\ r.stops # <<>>
    BY <1>0, DocumentTypes
  <2>2. m # 0
    <3> HIDE DEF r
    <3>1. QED
      BY <2>1
  <2>3. QED
    BY <1>0, <2>2, ReadNext
<1>5. /\ (k + 1) - b \in 1 .. m <=> e.rid = d /\ e.number = n
      /\ (k + 1) - b \in 1 .. m => e = StopEntry(doc, l, i, (k + 1) - b)
  BY <1>2, EntryOfRide
<1>6. k > b <=> d \in DOMAIN times /\ n \in DOMAIN times[d]
  BY <1>2, RideListed
<1>7. n = 0 => (k > b <=> d \in DOMAIN rs)
  BY <1>2, RideListed
<1>8. k > b => /\ times[d][n] = SubSeq(T, 1, Progress(doc, k, l, i))
               /\ n = 0 => rs[d] = SubSeq(S, 1, Progress(doc, k, l, i))
  BY DEF RidesRead, RideRead
<1>9. Progress(doc, k, l, i) = (IF k < b + m THEN k - b ELSE m)
      /\ Progress(doc, k + 1, l, i) = (IF k + 1 < b + m THEN (k + 1) - b ELSE m)
  BY DEF Progress
<1>10. /\ DOMAIN times2 = DOMAIN times \cup {e.rid}
       /\ \A x \in DOMAIN times : x # e.rid => times2[x] = times[x]
       /\ OneMore(times2[e.rid], RidesAt(times, e.rid), e.number, e.time, Nat)
  <2>1. ListsOf(RidesAt(times, e.rid), Nat)
    BY DEF ListsOf, RidesAt, EmptyMap, TimesRead
  <2>2. TimeAdded(e, times, times2)
    OBVIOUS
  <2> HIDE DEF e
  <2>3. QED
    BY <1>4, <2>1, <2>2, TimeAddedLists
<1>11. IF e.number = 0
       THEN /\ \A x \in DOMAIN rs : x # e.rid => rs2[x] = rs[x]
            /\ rs2[e.rid] = Append(At(rs, e.rid), e.sid)
       ELSE rs2 = rs
  <2>1. StopAdded(e, sr, rs, sr2, rs2)
    OBVIOUS
  <2> HIDE DEF e
  <2>2. QED
    BY <2>1 DEF StopAdded, Pushed
<1>12. k + 1 > b
  OBVIOUS
<1> SUFFICES /\ times2[d][n] = SubSeq(T, 1, Progress(doc, k + 1, l, i))
             /\ n = 0 => rs2[d] = SubSeq(S, 1, Progress(doc, k + 1, l, i))
  BY DEF RideRead
<1> HIDE DEF e, d, r, b, m, T, S
<1>13. CASE (k + 1) - b \in 1 .. m
  <2> DEFINE j == (k + 1) - b
  <2>1. j \in 1 .. m /\ e.rid = d /\ e.number = n /\ e = StopEntry(doc, l, i, j)
    BY <1>5, <1>13
  <2>2. e.time = T[j] /\ e.sid = S[j]
    <3>1. e.time = doc[l].rides[i].stops[j][2] /\ e.sid = doc[l].rides[i].stops[j][1]
      BY <2>1 DEF StopEntry
    <3>2. QED
      BY <1>3, <2>1, <3>1 DEF r
  <2>3. Progress(doc, k + 1, l, i) = j
    BY <1>1, <1>2, <1>3, <1>9, <2>1
  <2>4. j - 1 \in 0 .. m - 1 /\ (j - 1) + 1 = j
    BY <1>3, <2>1
  <2>5. At(RidesAt(times, d), n) = SubSeq(T, 1, j - 1)
        /\ (n = 0 => At(rs, d) = SubSeq(S, 1, j - 1))
    <3>1. CASE k > b
      <4>1. Progress(doc, k, l, i) = j - 1
        BY <1>1, <1>2, <1>3, <1>9, <2>1, <3>1
      <4>2. d \in DOMAIN times /\ n \in DOMAIN times[d] /\ times[d][n] = SubSeq(T, 1, j - 1)
        BY <1>6, <1>8, <3>1, <4>1
      <4>3. n = 0 => d \in DOMAIN rs /\ rs[d] = SubSeq(S, 1, j - 1)
        BY <1>7, <1>8, <3>1, <4>1
      <4>4. QED
        BY <4>2, <4>3 DEF At, RidesAt
    <3>2. CASE ~ (k > b)
      <4>1. j - 1 = 0
        BY <1>1, <1>2, <2>1, <3>2
      <4>2. SubSeq(T, 1, 0) = <<>> /\ SubSeq(S, 1, 0) = <<>>
        BY <1>3
      <4>3. ~ (d \in DOMAIN times /\ n \in DOMAIN times[d])
        BY <1>6, <3>2
      <4>4. n = 0 => d \notin DOMAIN rs
        BY <1>7, <3>2
      <4>5. At(RidesAt(times, d), n) = <<>>
        BY <4>3 DEF At, RidesAt, EmptyMap
      <4>6. n = 0 => At(rs, d) = <<>>
        BY <4>4 DEF At
      <4>7. QED
        BY <4>1, <4>2, <4>5, <4>6
    <3>3. QED
      BY <3>1, <3>2
  <2>6. Append(SubSeq(T, 1, j - 1), T[j]) = SubSeq(T, 1, j)
        /\ Append(SubSeq(S, 1, j - 1), S[j]) = SubSeq(S, 1, j)
    <3>1. PICK q \in 0 .. m - 1 : q = j - 1
      BY <2>4
    <3>2. q + 1 = j
      BY <2>4, <3>1
    <3> HIDE DEF j
    <3>3. Append(SubSeq(T, 1, q), T[q + 1]) = SubSeq(T, 1, q + 1)
          /\ Append(SubSeq(S, 1, q), S[q + 1]) = SubSeq(S, 1, q + 1)
      BY <1>3, AppendNext
    <3>4. QED
      BY <3>1, <3>2, <3>3
  <2> HIDE DEF j
  <2>7. times2[d][n] = SubSeq(T, 1, j)
    <3>1. times2[d][n] = Append(At(RidesAt(times, d), n), e.time)
      BY <1>10, <2>1 DEF OneMore
    <3>2. QED
      BY <2>2, <2>5, <2>6, <3>1
  <2>8. n = 0 => rs2[d] = SubSeq(S, 1, j)
    BY <1>11, <2>1, <2>2, <2>5, <2>6
  <2>9. QED
    BY <2>3, <2>7, <2>8
<1>14. CASE ~ ((k + 1) - b \in 1 .. m)
  <2>1. k > b /\ Progress(doc, k + 1, l, i) = m /\ Progress(doc, k, l, i) = m
    BY <1>1, <1>2, <1>3, <1>4, <1>9, <1>12, <1>14
  <2>2. d \in DOMAIN times /\ n \in DOMAIN times[d] /\ times[d][n] = SubSeq(T, 1, m)
    BY <1>6, <1>8, <2>1
  <2>3. n = 0 => d \in DOMAIN rs /\ rs[d] = SubSeq(S, 1, m)
    BY <1>7, <1>8, <2>1
  <2>4. ~ (e.rid = d /\ e.number = n)
    BY <1>5, <1>14
  <2>5. times2[d][n] = times[d][n]
    <3>1. CASE e.rid # d
      BY <1>10, <2>2, <3>1
    <3>2. CASE e.rid = d
      <4>1. RidesAt(times, d) = times[d] /\ e.number # n
        BY <2>2, <2>4, <3>2 DEF RidesAt
      <4>2. QED
        BY <1>10, <2>2, <3>2, <4>1 DEF OneMore
    <3>3. QED
      BY <3>1, <3>2
  <2>6. n = 0 => rs2[d] = rs[d]
    BY <1>11, <2>3, <2>4
  <2>7. QED
    BY <2>1, <2>2, <2>3, <2>5, <2>6
<1>15. QED
  BY <1>13, <1>14

\* The three maps keep up with the entries.
LEMMA MapsReadStep ==
  ASSUME NEW doc, Trusted(doc), NEW k \in 0 .. Len(Entries(doc)) - 1,
         NEW sr, NEW rs, NEW times, MapsRead(doc, k, sr, rs, times),
         NEW sr2, NEW rs2, StopAdded(Entries(doc)[k + 1], sr, rs, sr2, rs2),
         NEW times2, TimeAdded(Entries(doc)[k + 1], times, times2)
  PROVE  MapsRead(doc, k + 1, sr2, rs2, times2)
<1>1. doc \in Document
  BY DEF Trusted
<1>2. /\ StopsRead(doc, k, sr, rs) /\ RoutesRead(doc, k, sr, rs) /\ TimesRead(doc, k, times)
      /\ RidesRead(doc, k, rs, times)
  BY DEF MapsRead
<1>3. StopsRead(doc, k + 1, sr2, rs2) /\ RoutesRead(doc, k + 1, sr2, rs2)
  BY <1>1, <1>2, StopsReadStep
<1>4. TimesRead(doc, k + 1, times2)
  BY <1>1, <1>2, TimesReadStep
<1>5. RidesRead(doc, k + 1, rs2, times2)
  BY <1>2, RidesReadStep
<1>6. QED
  BY <1>3, <1>4, <1>5 DEF MapsRead

\* Before the first of them is read they are empty.
LEMMA MapsReadInit ==
  ASSUME NEW doc, Trusted(doc)
  PROVE  MapsRead(doc, 0, EmptyMap, EmptyMap, EmptyMap)
<1>1. doc \in Document
  BY DEF Trusted
<1>2. Read(doc, 0) = {} /\ ReadOfFirst(doc, 0) = {}
  BY DEF Read, ReadOfFirst
<1>3. DOMAIN EmptyMap = {}
  BY DEF EmptyMap
<1>4. RidesRead(doc, 0, EmptyMap, EmptyMap)
  BY <1>1, EntriesPlaced DEF RidesRead
<1>5. QED
  BY <1>2, <1>3, <1>4 DEF MapsRead, StopsRead, RoutesRead, TimesRead

-----------------------------------------------------------------------------
(* All of a document.  What the maps hold when nothing is left to read.    *)

\* A line of a trusted document: all its rides go its way, and its direction and
\* their numbers name them.
LEMMA TrustedLine ==
  ASSUME NEW doc, Trusted(doc), NEW l \in DOMAIN doc
  PROVE  /\ 1 \in DOMAIN doc[l].rides
         /\ WayOf(doc[l]) \in Seq(Nat)
         /\ LineOf(doc, doc[l].direction) = doc[l]
         /\ \E i \in DOMAIN doc[l].rides : doc[l].rides[i].number = 0
         /\ \A i \in DOMAIN doc[l].rides :
              /\ StopsOfRide(doc[l].rides[i]) = WayOf(doc[l])
              /\ Len(doc[l].rides[i].stops) = Len(WayOf(doc[l]))
              /\ RideOf(doc[l], doc[l].rides[i].number) = doc[l].rides[i]
<1>1. doc \in Document
  BY DEF Trusted
<1>2. /\ \A a, c \in DOMAIN doc : doc[a].direction = doc[c].direction => a = c
      /\ \E i \in DOMAIN doc[l].rides : doc[l].rides[i].number = 0
      /\ \A i, j \in DOMAIN doc[l].rides :
           /\ doc[l].rides[i].number = doc[l].rides[j].number => i = j
           /\ StopsOfRide(doc[l].rides[i]) = StopsOfRide(doc[l].rides[j])
  BY DEF Trusted
<1>3. 1 \in DOMAIN doc[l].rides
  <2>1. Len(doc[l].rides) \in Nat /\ DOMAIN doc[l].rides = 1 .. Len(doc[l].rides)
    BY <1>1, DocumentTypes
  <2>2. QED
    BY <1>2, <2>1
<1>4. LineOf(doc, doc[l].direction) = doc[l]
  <2> DEFINE c == CHOOSE a \in DOMAIN doc : doc[a].direction = doc[l].direction
  <2>1. c \in DOMAIN doc /\ doc[c].direction = doc[l].direction
    OBVIOUS
  <2>2. c = l
    <3> HIDE DEF c
    <3>1. QED
      BY <1>2, <2>1
  <2>3. LineOf(doc, doc[l].direction) = doc[c]
    BY DEF LineOf
  <2>4. QED
    BY <2>2, <2>3
<1>5. WayOf(doc[l]) = StopsOfRide(doc[l].rides[1]) /\ WayOf(doc[l]) \in Seq(Nat)
  BY <1>1, <1>3, RideSequences DEF WayOf
<1>6. ASSUME NEW i \in DOMAIN doc[l].rides
      PROVE  /\ StopsOfRide(doc[l].rides[i]) = WayOf(doc[l])
             /\ Len(doc[l].rides[i].stops) = Len(WayOf(doc[l]))
             /\ RideOf(doc[l], doc[l].rides[i].number) = doc[l].rides[i]
  <2>1. StopsOfRide(doc[l].rides[i]) = WayOf(doc[l])
    BY <1>2, <1>3, <1>5
  <2>2. Len(StopsOfRide(doc[l].rides[i])) = Len(doc[l].rides[i].stops)
    BY <1>1, RideSequences
  <2> DEFINE c == CHOOSE a \in DOMAIN doc[l].rides :
                    doc[l].rides[a].number = doc[l].rides[i].number
  <2>3. c \in DOMAIN doc[l].rides /\ doc[l].rides[c].number = doc[l].rides[i].number
    OBVIOUS
  <2>4. c = i
    <3> HIDE DEF c
    <3>1. QED
      BY <1>2, <2>3
  <2>5. RideOf(doc[l], doc[l].rides[i].number) = doc[l].rides[c]
    BY DEF RideOf
  <2>6. QED
    BY <2>1, <2>2, <2>4, <2>5
<1>7. QED
  BY <1>2, <1>3, <1>4, <1>5, <1>6

\* When all has been read, every stop of every ride has.
LEMMA AllRead ==
  ASSUME NEW doc, Trusted(doc), NEW e
  PROVE  e \in Read(doc, Len(Entries(doc))) <=>
           \E l \in DOMAIN doc : \E i \in DOMAIN doc[l].rides :
             \E j \in 1 .. Len(doc[l].rides[i].stops) : e = StopEntry(doc, l, i, j)
<1> DEFINE E == Entries(doc)
<1>1. doc \in Document
  BY DEF Trusted
<1>2. E \in Seq(Entry)
  BY <1>1, EntriesPlaced
<1>3. Len(E) \in Nat
  BY <1>2
<1>4. e \in Read(doc, Len(E)) <=> \E p \in 1 .. Len(E) : e = E[p]
  BY DEF Read
<1>5. ASSUME NEW p \in 1 .. Len(E)
      PROVE  \E l \in DOMAIN doc : \E i \in DOMAIN doc[l].rides :
               \E j \in 1 .. Len(doc[l].rides[i].stops) : E[p] = StopEntry(doc, l, i, j)
  <2>1. PICK l \in DOMAIN doc : \E i \in DOMAIN doc[l].rides :
          p - Base(doc, l, i) \in 1 .. Len(doc[l].rides[i].stops)
    BY <1>1, EntriesPlaced
  <2>2. PICK i \in DOMAIN doc[l].rides :
          p - Base(doc, l, i) \in 1 .. Len(doc[l].rides[i].stops)
    BY <2>1
  <2>3. E[p] = StopEntry(doc, l, i, p - Base(doc, l, i))
    BY <2>2, EntryOfRide
  <2>4. QED
    BY <2>2, <2>3
<1>6. ASSUME NEW l \in DOMAIN doc, NEW i \in DOMAIN doc[l].rides,
             NEW j \in 1 .. Len(doc[l].rides[i].stops)
      PROVE  \E p \in 1 .. Len(E) : StopEntry(doc, l, i, j) = E[p]
  <2> DEFINE b == Base(doc, l, i)
             m == Len(doc[l].rides[i].stops)
  <2>1. b \in Nat /\ b + m <= Len(E) /\ E[b + j] = StopEntry(doc, l, i, j)
    BY <1>1, EntriesPlaced
  <2>2. m \in Nat /\ j \in 1 .. m
    BY <1>1, DocumentTypes
  <2> HIDE DEF b, m, E
  <2>3. b + j \in 1 .. Len(E)
    BY <1>3, <2>1, <2>2
  <2>4. QED
    BY <2>1, <2>3
<1> HIDE DEF E
<1>7. QED
  BY <1>4, <1>5, <1>6 DEF E

\* Entries of ride 0 say of a line where it stops.
LEMMA FirstRead ==
  ASSUME NEW doc, Trusted(doc)
  PROVE  /\ \A e \in ReadOfFirst(doc, Len(Entries(doc))) : \E l \in DOMAIN doc :
              doc[l].direction = e.rid /\ e.sid \in Range(WayOf(doc[l]))
         /\ \A l \in DOMAIN doc : \A x \in Range(WayOf(doc[l])) :
              \E e \in ReadOfFirst(doc, Len(Entries(doc))) :
                e.rid = doc[l].direction /\ e.sid = x
<1> DEFINE P == Read(doc, Len(Entries(doc)))
<1>1. doc \in Document
  BY DEF Trusted
<1>2. ASSUME NEW e \in P, e.number = 0
      PROVE  \E l \in DOMAIN doc : doc[l].direction = e.rid /\ e.sid \in Range(WayOf(doc[l]))
  <2>1. PICK l \in DOMAIN doc : \E i \in DOMAIN doc[l].rides :
          \E j \in 1 .. Len(doc[l].rides[i].stops) : e = StopEntry(doc, l, i, j)
    BY AllRead
  <2>2. PICK i \in DOMAIN doc[l].rides :
          \E j \in 1 .. Len(doc[l].rides[i].stops) : e = StopEntry(doc, l, i, j)
    BY <2>1
  <2>3. PICK j \in 1 .. Len(doc[l].rides[i].stops) : e = StopEntry(doc, l, i, j)
    BY <2>2
  <2>4. e.rid = doc[l].direction /\ e.sid = doc[l].rides[i].stops[j][1]
    BY <2>3 DEF StopEntry
  <2>5. WayOf(doc[l]) = StopsOfRide(doc[l].rides[i])
        /\ Len(WayOf(doc[l])) = Len(doc[l].rides[i].stops) /\ WayOf(doc[l]) \in Seq(Nat)
    BY TrustedLine
  <2>6. WayOf(doc[l])[j] = e.sid
    BY <1>1, <1>2, <2>4, <2>5, RideSequences
  <2>7. e.sid \in Range(WayOf(doc[l]))
    <3>1. PICK w \in Seq(Nat) : w = WayOf(doc[l])
      BY <2>5
    <3>2. j \in DOMAIN w /\ w[j] = e.sid
      BY <2>5, <2>6, <3>1
    <3>3. QED
      BY <3>1, <3>2 DEF Range
  <2>8. QED
    BY <1>2, <2>4, <2>7
<1>3. ASSUME NEW l \in DOMAIN doc, NEW x \in Range(WayOf(doc[l]))
      PROVE  \E e \in P : e.number = 0 /\ e.rid = doc[l].direction /\ e.sid = x
  <2>1. PICK i \in DOMAIN doc[l].rides : doc[l].rides[i].number = 0
    BY TrustedLine
  <2>2. WayOf(doc[l]) = StopsOfRide(doc[l].rides[i])
        /\ Len(WayOf(doc[l])) = Len(doc[l].rides[i].stops) /\ WayOf(doc[l]) \in Seq(Nat)
    BY TrustedLine
  <2>3. PICK j \in 1 .. Len(doc[l].rides[i].stops) : WayOf(doc[l])[j] = x
    <3>1. PICK w \in Seq(Nat) : w = WayOf(doc[l])
      BY <2>2
    <3>2. \E j \in 1 .. Len(w) : w[j] = x
      BY <1>3, <3>1 DEF Range
    <3>3. QED
      BY <2>2, <3>1, <3>2
  <2>4. doc[l].rides[i].stops[j][1] = x
    BY <1>1, <2>2, <2>3, RideSequences
  <2>5. StopEntry(doc, l, i, j) \in P
    BY AllRead
  <2>6. /\ StopEntry(doc, l, i, j).number = 0
        /\ StopEntry(doc, l, i, j).rid = doc[l].direction
        /\ StopEntry(doc, l, i, j).sid = x
    BY <1>3, <2>1, <2>4 DEF StopEntry
  <2>7. QED
    BY <2>5, <2>6
<1> HIDE DEF P
<1>4. ReadOfFirst(doc, Len(Entries(doc))) = {e \in P : e.number = 0}
  BY DEF ReadOfFirst, P
<1>5. QED
  BY <1>2, <1>3, <1>4

\* The lines that stop somewhere.
LEMMA DirectionsOf ==
  ASSUME NEW doc, Trusted(doc), NEW d
  PROVE  /\ d \in Directions(doc) <=>
              \E l \in DOMAIN doc : doc[l].direction = d /\ WayOf(doc[l]) # <<>>
         /\ d \in Directions(doc) <=>
              \E l \in DOMAIN doc : doc[l].direction = d /\ \E x : x \in Range(WayOf(doc[l]))
<1>1. d \in Directions(doc) <=>
        \E l \in DOMAIN doc : doc[l].direction = d /\ WayOf(doc[l]) # <<>>
  BY DEF Directions
<1>2. ASSUME NEW l \in DOMAIN doc
      PROVE  WayOf(doc[l]) # <<>> <=> \E x : x \in Range(WayOf(doc[l]))
  <2>1. PICK w \in Seq(Nat) : w = WayOf(doc[l])
    BY TrustedLine
  <2>2. w # <<>> <=> \E j : j \in DOMAIN w
    <3>1. w # <<>> => 1 \in DOMAIN w
      OBVIOUS
    <3>2. w = <<>> => DOMAIN w = {}
      OBVIOUS
    <3>3. QED
      BY <3>1, <3>2
  <2>3. (\E j : j \in DOMAIN w) <=> \E x : x \in Range(w)
    BY DEF Range
  <2>4. QED
    BY <2>1, <2>2, <2>3
<1>3. QED
  BY <1>1, <1>2

\* When all of a document has been read the maps hold what it says.
LEMMA AllMapsRead ==
  ASSUME NEW doc, Trusted(doc), NEW sr, NEW rs, NEW times,
         MapsRead(doc, Len(Entries(doc)), sr, rs, times)
  PROVE  MapsFull(doc, sr, rs, times)
<1> DEFINE k == Len(Entries(doc))
           P == Read(doc, k)
           F == ReadOfFirst(doc, k)
           D == Directions(doc)
<1>1. doc \in Document
  BY DEF Trusted
<1>2. Entries(doc) \in Seq(Entry)
  BY <1>1, EntriesPlaced
<1>3. k \in Nat /\ k \in 0 .. Len(Entries(doc))
  BY <1>2
<1>4. /\ DOMAIN sr = {e.sid : e \in F} /\ DOMAIN rs = {e.rid : e \in F}
      /\ \A x \in DOMAIN sr :
           /\ sr[x] \in Seq(DOMAIN rs)
           /\ Range(sr[x]) = {e.rid : e \in {f \in F : f.sid = x}}
  BY DEF MapsRead, StopsRead, RoutesRead
<1>5. /\ DOMAIN times = {e.rid : e \in P}
      /\ \A d \in DOMAIN times : DOMAIN times[d] = {e.number : e \in {f \in P : f.rid = d}}
  BY DEF MapsRead, TimesRead
<1>6. /\ \A e \in F : \E l \in DOMAIN doc :
           doc[l].direction = e.rid /\ e.sid \in Range(WayOf(doc[l]))
      /\ \A l \in DOMAIN doc : \A x \in Range(WayOf(doc[l])) :
           \E e \in F : e.rid = doc[l].direction /\ e.sid = x
  BY FirstRead
<1>7. \A d : /\ d \in D <=> \E l \in DOMAIN doc : doc[l].direction = d /\ WayOf(doc[l]) # <<>>
             /\ d \in D <=> \E l \in DOMAIN doc :
                              doc[l].direction = d /\ \E x : x \in Range(WayOf(doc[l]))
  BY DirectionsOf
<1>8. \A e : e \in P <=> \E l \in DOMAIN doc : \E i \in DOMAIN doc[l].rides :
                           \E j \in 1 .. Len(doc[l].rides[i].stops) : e = StopEntry(doc, l, i, j)
  BY AllRead
<1>9. \A l \in DOMAIN doc : LineOf(doc, doc[l].direction) = doc[l]
  BY TrustedLine
<1>10. StopIds(doc) = {x \in StopIds(doc) : TRUE}
       /\ \A x : x \in StopIds(doc) <=> \E l \in DOMAIN doc : x \in Range(WayOf(doc[l]))
  BY DEF StopIds
<1>11. \A a, c \in DOMAIN doc : doc[a].direction = doc[c].direction => a = c
  BY DEF Trusted
<1>12. ASSUME NEW l \in DOMAIN doc, WayOf(doc[l]) # <<>>, NEW i \in DOMAIN doc[l].rides
       PROVE  /\ Len(doc[l].rides[i].stops) \in Nat \ {0} /\ doc[l].rides[i].stops # <<>>
              /\ StopEntry(doc, l, i, 1) \in P
              /\ RideRead(doc, k, rs, times, l, i)
              /\ Progress(doc, k, l, i) = Len(doc[l].rides[i].stops)
  <2> DEFINE m == Len(doc[l].rides[i].stops)
             b == Base(doc, l, i)
  <2>1. m = Len(WayOf(doc[l])) /\ WayOf(doc[l]) \in Seq(Nat)
    BY TrustedLine
  <2>2. m \in Nat \ {0}
    <3>1. PICK w \in Seq(Nat) : w = WayOf(doc[l])
      BY <2>1
    <3>2. Len(w) \in Nat \ {0}
      BY <1>12, <3>1
    <3>3. QED
      BY <2>1, <3>1, <3>2
  <2>3. b \in Nat /\ b + m <= k
    BY <1>1, EntriesPlaced
  <2>4. doc[l].rides[i].stops # <<>>
    <3>1. Len(<<>>) = 0
      OBVIOUS
    <3>2. QED
      BY <2>2, <3>1
  <2>5. StopEntry(doc, l, i, 1) \in P
    <3>1. 1 \in 1 .. m
      BY <2>2
    <3>2. QED
      BY <1>8, <3>1
  <2> HIDE DEF m, b, k
  <2>6. k > b /\ ~ (k < b + m)
    BY <1>3, <2>2, <2>3
  <2>7. RideRead(doc, k, rs, times, l, i)
    BY <2>4, <2>6 DEF MapsRead, RidesRead, b, k
  <2>8. Progress(doc, k, l, i) = m
    BY <2>6 DEF Progress, b, m
  <2>9. QED
    BY <2>2, <2>4, <2>5, <2>7, <2>8 DEF m, k
<1> HIDE DEF k, P, F, D
<1>13. DOMAIN rs = D
  <2>1. ASSUME NEW d \in DOMAIN rs PROVE d \in D
    <3>1. PICK e \in F : e.rid = d
      BY <1>4
    <3>2. PICK l \in DOMAIN doc : doc[l].direction = d /\ e.sid \in Range(WayOf(doc[l]))
      BY <1>6, <3>1
    <3>3. QED
      BY <1>7, <3>2
  <2>2. ASSUME NEW d \in D PROVE d \in DOMAIN rs
    <3>1. PICK l \in DOMAIN doc : doc[l].direction = d /\ \E x : x \in Range(WayOf(doc[l]))
      BY <1>7
    <3>2. PICK x : x \in Range(WayOf(doc[l]))
      BY <3>1
    <3>3. \E e \in F : e.rid = d /\ e.sid = x
      BY <1>6, <3>1, <3>2
    <3>4. QED
      BY <1>4, <3>3
  <2>3. QED
    BY <2>1, <2>2
<1>14. DOMAIN times = D
  <2>1. ASSUME NEW d \in DOMAIN times PROVE d \in D
    <3>1. PICK e \in P : e.rid = d
      BY <1>5
    <3>2. PICK l \in DOMAIN doc : \E i \in DOMAIN doc[l].rides :
            \E j \in 1 .. Len(doc[l].rides[i].stops) : e = StopEntry(doc, l, i, j)
      BY <1>8
    <3>3. PICK i \in DOMAIN doc[l].rides :
            \E j \in 1 .. Len(doc[l].rides[i].stops) : e = StopEntry(doc, l, i, j)
      BY <3>2
    <3>4. PICK j \in 1 .. Len(doc[l].rides[i].stops) : e = StopEntry(doc, l, i, j)
      BY <3>3
    <3>5. doc[l].direction = d
      BY <3>1, <3>4 DEF StopEntry
    <3>6. WayOf(doc[l]) # <<>>
      <4>1. Len(doc[l].rides[i].stops) = Len(WayOf(doc[l]))
        BY TrustedLine
      <4>2. Len(<<>>) = 0
        OBVIOUS
      <4>3. Len(doc[l].rides[i].stops) \in Nat
        BY <1>1, DocumentTypes
      <4>4. Len(doc[l].rides[i].stops) # 0
        BY <3>4, <4>3
      <4>5. QED
        BY <4>1, <4>2, <4>4
    <3>7. QED
      BY <1>7, <3>5, <3>6
  <2>2. ASSUME NEW d \in D PROVE d \in DOMAIN times
    <3>1. PICK l \in DOMAIN doc : doc[l].direction = d /\ WayOf(doc[l]) # <<>>
      BY <1>7
    <3>2. 1 \in DOMAIN doc[l].rides
      BY TrustedLine
    <3>3. StopEntry(doc, l, 1, 1) \in P /\ StopEntry(doc, l, 1, 1).rid = d
      BY <1>12, <3>1, <3>2 DEF StopEntry
    <3>4. QED
      BY <1>5, <3>3
  <2>3. QED
    BY <2>1, <2>2
<1>15. DOMAIN sr = StopIds(doc)
  <2>1. ASSUME NEW x \in DOMAIN sr PROVE x \in StopIds(doc)
    <3>1. PICK e \in F : e.sid = x
      BY <1>4
    <3>2. PICK l \in DOMAIN doc : x \in Range(WayOf(doc[l]))
      BY <1>6, <3>1
    <3>3. QED
      BY <1>10, <3>2
  <2>2. ASSUME NEW x \in StopIds(doc) PROVE x \in DOMAIN sr
    <3>1. PICK l \in DOMAIN doc : x \in Range(WayOf(doc[l]))
      BY <1>10
    <3>2. \E e \in F : e.rid = doc[l].direction /\ e.sid = x
      BY <1>6, <3>1
    <3>3. QED
      BY <1>4, <3>2
  <2>3. QED
    BY <2>1, <2>2
<1>16. ASSUME NEW x \in DOMAIN sr
       PROVE  Range(sr[x]) = {d \in D : x \in Range(WayOf(LineOf(doc, d)))}
  <2>1. ASSUME NEW d \in Range(sr[x]) PROVE d \in D /\ x \in Range(WayOf(LineOf(doc, d)))
    <3>1. PICK e \in F : e.sid = x /\ e.rid = d
      <4>1. Range(sr[x]) = {e.rid : e \in {f \in F : f.sid = x}}
        BY <1>4
      <4>2. d \in {e.rid : e \in {f \in F : f.sid = x}}
        BY <4>1, Zenon
      <4>3. QED
        BY <4>2
    <3>2. PICK l \in DOMAIN doc : doc[l].direction = d /\ x \in Range(WayOf(doc[l]))
      BY <1>6, <3>1
    <3>3. QED
      BY <1>7, <1>9, <3>2
  <2>2. ASSUME NEW d \in D, x \in Range(WayOf(LineOf(doc, d))) PROVE d \in Range(sr[x])
    <3>1. PICK l \in DOMAIN doc : doc[l].direction = d
      BY <1>7
    <3>2. x \in Range(WayOf(doc[l]))
      BY <1>9, <2>2, <3>1
    <3>3. PICK e \in F : e.rid = d /\ e.sid = x
      BY <1>6, <3>1, <3>2
    <3>4. d \in {g.rid : g \in {f \in F : f.sid = x}}
      BY <3>3
    <3>5. QED
      BY <1>4, <3>4
  <2>3. QED
    BY <2>1, <2>2
<1>17. ASSUME NEW d \in D
       PROVE  /\ rs[d] = WayOf(LineOf(doc, d))
              /\ DOMAIN times[d] = Numbers(LineOf(doc, d))
              /\ \A n \in DOMAIN times[d] : times[d][n] = TimesOfRide(RideOf(LineOf(doc, d), n))
  <2>1. PICK l \in DOMAIN doc : doc[l].direction = d /\ WayOf(doc[l]) # <<>>
    BY <1>7
  <2>2. LineOf(doc, d) = doc[l]
    BY <1>9, <2>1
  <2>3. ASSUME NEW i \in DOMAIN doc[l].rides
        PROVE  /\ times[d][doc[l].rides[i].number] = TimesOfRide(doc[l].rides[i])
               /\ doc[l].rides[i].number = 0 => rs[d] = StopsOfRide(doc[l].rides[i])
    <3> DEFINE m == Len(doc[l].rides[i].stops)
    <3>1. PICK t \in Seq(Nat) : t = TimesOfRide(doc[l].rides[i]) /\ Len(t) = m
      BY <1>1, RideSequences
    <3>2. PICK s \in Seq(Nat) : s = StopsOfRide(doc[l].rides[i]) /\ Len(s) = m
      BY <1>1, RideSequences
    <3>3. /\ times[d][doc[l].rides[i].number] = SubSeq(t, 1, m)
          /\ doc[l].rides[i].number = 0 => rs[d] = SubSeq(s, 1, m)
      BY <1>12, <2>1, <3>1, <3>2 DEF RideRead
    <3> HIDE DEF m
    <3>4. SubSeq(t, 1, m) = t /\ SubSeq(s, 1, m) = s
      BY <3>1, <3>2
    <3>5. QED
      BY <3>1, <3>2, <3>3, <3>4
  <2>4. rs[d] = WayOf(LineOf(doc, d))
    <3>1. PICK i \in DOMAIN doc[l].rides : doc[l].rides[i].number = 0
      BY TrustedLine
    <3>2. StopsOfRide(doc[l].rides[i]) = WayOf(doc[l])
      BY TrustedLine
    <3>3. QED
      BY <2>2, <2>3, <3>1, <3>2
  <2>5. DOMAIN times[d] = Numbers(doc[l])
    <3>1. DOMAIN times[d] = {e.number : e \in {f \in P : f.rid = d}}
      BY <1>5, <1>14
    <3>2. ASSUME NEW n \in DOMAIN times[d] PROVE n \in Numbers(doc[l])
      <4>1. PICK e \in P : e.rid = d /\ e.number = n
        BY <3>1
      <4>2. PICK a \in DOMAIN doc : \E i \in DOMAIN doc[a].rides :
              \E j \in 1 .. Len(doc[a].rides[i].stops) : e = StopEntry(doc, a, i, j)
        BY <1>8
      <4>3. PICK i \in DOMAIN doc[a].rides :
              \E j \in 1 .. Len(doc[a].rides[i].stops) : e = StopEntry(doc, a, i, j)
        BY <4>2
      <4>4. doc[a].direction = d /\ doc[a].rides[i].number = n
        BY <4>1, <4>3 DEF StopEntry
      <4>5. a = l
        BY <1>11, <2>1, <4>4
      <4>6. QED
        BY <4>4, <4>5 DEF Numbers
    <3>3. ASSUME NEW n \in Numbers(doc[l]) PROVE n \in DOMAIN times[d]
      <4>1. PICK i \in DOMAIN doc[l].rides : doc[l].rides[i].number = n
        BY DEF Numbers
      <4>2. StopEntry(doc, l, i, 1) \in P
        BY <1>12, <2>1
      <4>3. StopEntry(doc, l, i, 1).rid = d /\ StopEntry(doc, l, i, 1).number = n
        BY <2>1, <4>1 DEF StopEntry
      <4>4. QED
        BY <3>1, <4>2, <4>3
    <3>4. QED
      BY <3>2, <3>3
  <2>6. ASSUME NEW n \in DOMAIN times[d] PROVE times[d][n] = TimesOfRide(RideOf(doc[l], n))
    <3>1. PICK i \in DOMAIN doc[l].rides : doc[l].rides[i].number = n
      BY <2>5 DEF Numbers
    <3>2. RideOf(doc[l], n) = doc[l].rides[i]
      BY <3>1, TrustedLine
    <3>3. QED
      BY <2>3, <3>1, <3>2
  <2>7. QED
    BY <2>2, <2>4, <2>5, <2>6
<1>18. QED
  BY <1>4, <1>13, <1>14, <1>15, <1>16, <1>17 DEF MapsFull, D

-----------------------------------------------------------------------------
(* The layout.  What rtimetable makes of the maps, found by offsets.       *)

\* The first n numbers.
LEMMA FiniteUpTo ==
  ASSUME NEW n \in Nat
  PROVE  IsFiniteSet(1 .. n)
  BY FS_Interval

\* What a function makes of a finite set is finite.
LEMMA FiniteImage ==
  ASSUME NEW S, IsFiniteSet(S), NEW f
  PROVE  IsFiniteSet({f[x] : x \in S})
<1> DEFINE T == {f[x] : x \in S}
           g == [x \in S |-> f[x]]
<1>1. g \in Surjection(S, T)
  BY DEF Surjection
<1>2. QED
  BY <1>1, FS_Surjection

\* Directions and stops of a document are finitely many numbers.
LEMMA KeysOfDocument ==
  ASSUME NEW doc, Trusted(doc)
  PROVE  /\ Directions(doc) \in SUBSET Nat /\ IsFiniteSet(Directions(doc))
         /\ StopIds(doc) \in SUBSET Nat /\ IsFiniteSet(StopIds(doc))
<1>1. doc \in Document
  BY DEF Trusted
<1>2. Len(doc) \in Nat /\ DOMAIN doc = 1 .. Len(doc)
      /\ \A l \in DOMAIN doc : doc[l].direction \in Nat
  BY <1>1, DocumentTypes
<1>3. Directions(doc) \in SUBSET Nat
  BY <1>2 DEF Directions
<1>4. IsFiniteSet(Directions(doc))
  <2> DEFINE f == [l \in DOMAIN doc |-> doc[l].direction]
             T == {f[l] : l \in DOMAIN doc}
  <2>1. IsFiniteSet(DOMAIN doc)
    BY <1>2, FiniteUpTo
  <2>2. IsFiniteSet(T)
    <3> HIDE DEF f
    <3>1. QED
      BY <2>1, FiniteImage
  <2>3. Directions(doc) \in SUBSET T
    BY DEF Directions
  <2> HIDE DEF T
  <2>4. QED
    BY <2>2, <2>3, FS_Subset
<1> DEFINE E == Entries(doc)
<1>5. E \in Seq(Entry)
  BY <1>1, EntriesPlaced
<1> HIDE DEF E
<1>6. Len(E) \in Nat /\ \A p \in 1 .. Len(E) : E[p].sid \in Nat
  <2>1. \A p \in 1 .. Len(E) : E[p] \in Entry
    BY <1>5
  <2>2. QED
    BY <1>5, <2>1 DEF Entry
<1> DEFINE g == [p \in 1 .. Len(E) |-> E[p].sid]
           U == {g[p] : p \in 1 .. Len(E)}
<1>7. IsFiniteSet(U) /\ U \in SUBSET Nat
  <2>1. IsFiniteSet(1 .. Len(E))
    BY <1>6, FiniteUpTo
  <2>2. IsFiniteSet(U)
    <3> HIDE DEF g
    <3>1. QED
      BY <2>1, FiniteImage
  <2>3. QED
    BY <1>6, <2>2
<1>8. StopIds(doc) \in SUBSET U
  <2> SUFFICES ASSUME NEW x \in StopIds(doc) PROVE x \in U
    OBVIOUS
  <2>1. PICK l \in DOMAIN doc : x \in Range(WayOf(doc[l]))
    BY DEF StopIds
  <2>2. PICK e \in ReadOfFirst(doc, Len(E)) : e.sid = x
    BY <2>1, FirstRead DEF E
  <2>3. PICK p \in 1 .. Len(E) : e = E[p]
    BY DEF ReadOfFirst, Read, E
  <2>4. QED
    BY <2>2, <2>3
<1> HIDE DEF U
<1>9. StopIds(doc) \in SUBSET Nat /\ IsFiniteSet(StopIds(doc))
  BY <1>7, <1>8, FS_Subset
<1>10. QED
  BY <1>3, <1>4, <1>9

\* The rides of a line have as many numbers.
LEMMA NumbersOfLine ==
  ASSUME NEW doc, Trusted(doc), NEW l \in DOMAIN doc
  PROVE  /\ Numbers(doc[l]) \in SUBSET RideNumber
         /\ Cardinality(Numbers(doc[l])) = Len(doc[l].rides)
         /\ Numbers(doc[l]) # {}
<1> DEFINE m == Len(doc[l].rides)
           N == Numbers(doc[l])
           f == [i \in 1 .. m |-> doc[l].rides[i].number]
<1>1. doc \in Document
  BY DEF Trusted
<1>2. m \in Nat /\ DOMAIN doc[l].rides = 1 .. m
      /\ \A i \in 1 .. m : doc[l].rides[i].number \in RideNumber
  BY <1>1, DocumentTypes
<1>3. \A i, j \in 1 .. m : doc[l].rides[i].number = doc[l].rides[j].number => i = j
  BY <1>2 DEF Trusted
<1> HIDE DEF m
<1>4. N = {doc[l].rides[i].number : i \in 1 .. m}
  BY <1>2 DEF Numbers
<1>5. N \in SUBSET RideNumber
  BY <1>2, <1>4
<1>6. f \in Bijection(1 .. m, N)
  <2>1. f \in [1 .. m -> N]
    BY <1>4
  <2>2. \A i, j \in 1 .. m : f[i] = f[j] => i = j
    BY <1>3
  <2>3. \A x \in N : \E i \in 1 .. m : f[i] = x
    BY <1>4
  <2> HIDE DEF f, N
  <2>4. QED
    BY <2>1, <2>2, <2>3 DEF Bijection, Injection, Surjection, IsInjective
<1>7. Cardinality(N) = m
  <2>1. ExistsBijection(1 .. m, N)
    BY <1>6 DEF ExistsBijection
  <2>2. QED
    BY <1>2, <2>1, FS_CountingElements
<1>8. N # {}
  <2>1. 1 \in DOMAIN doc[l].rides
    BY TrustedLine
  <2>2. QED
    BY <2>1 DEF Numbers
<1>9. QED
  BY <1>5, <1>7, <1>8 DEF m

\* The place of a key, from 0, leads back to the key.
LEMMA IndexOfKey ==
  ASSUME NEW S, NEW s, Lists(s, S)
  PROVE  /\ \A x \in S : Index(s, x) \in 0 .. Len(s) - 1 /\ s[Index(s, x) + 1] = x
         /\ \A i \in 1 .. Len(s) : Index(s, s[i]) = i - 1
<1>1. /\ Len(s) \in Nat /\ DOMAIN s = 1 .. Len(s)
      /\ \A x \in S : \E i \in 1 .. Len(s) : s[i] = x
      /\ \A i \in 1 .. Len(s) : s[i] \in S
      /\ \A i, j \in 1 .. Len(s) : s[i] = s[j] => i = j
  BY DEF Lists
<1>2. ASSUME NEW x \in S
      PROVE  Index(s, x) + 1 \in 1 .. Len(s) /\ s[Index(s, x) + 1] = x /\ Index(s, x) \in Int
  <2> DEFINE c == CHOOSE i \in DOMAIN s : s[i] = x
  <2>1. c \in 1 .. Len(s) /\ s[c] = x
    BY <1>1
  <2>2. Index(s, x) = c - 1
    BY DEF Index
  <2> HIDE DEF c
  <2>3. Index(s, x) + 1 = c /\ Index(s, x) \in Int
    BY <1>1, <2>1, <2>2
  <2>4. QED
    BY <2>1, <2>3
<1>3. ASSUME NEW i \in 1 .. Len(s) PROVE Index(s, s[i]) = i - 1
  <2>1. s[i] \in S
    BY <1>1
  <2>2. Index(s, s[i]) + 1 = i /\ Index(s, s[i]) \in Int
    BY <1>1, <1>2, <2>1
  <2>3. QED
    BY <2>2
<1>4. QED
  BY <1>1, <1>2, <1>3

\* Offsets only depend on lengths.
LEMMA SameOffsets ==
  ASSUME NEW S, NEW ss \in Seq(Seq(S)), NEW V, NEW vv \in Seq(Seq(V)),
         Len(vv) = Len(ss), \A i \in 1 .. Len(ss) : Len(vv[i]) = Len(ss[i])
  PROVE  \A i \in 1 .. Len(ss) + 1 : Offset(vv, i) = Offset(ss, i)
<1> DEFINE n == Len(ss)
           T == {k \in 0 .. n : Offset(vv, k + 1) = Offset(ss, k + 1)}
<1>1. n \in Nat
  OBVIOUS
<1>2. Flattens(ss, FlattenSeq(ss), S) /\ Flattens(vv, FlattenSeq(vv), V)
  BY FlattenedByOffsets
<1>3. /\ Offset(ss, 1) = 0 /\ Offset(vv, 1) = 0
      /\ \A i \in 1 .. n : /\ Offset(ss, i + 1) = Offset(ss, i) + Len(ss[i])
                           /\ Offset(vv, i + 1) = Offset(vv, i) + Len(ss[i])
  BY <1>2 DEF Flattens
<1> HIDE DEF n
<1>4. 0 \in T
  BY <1>1, <1>3
<1>5. ASSUME NEW k \in 0 .. n - 1, k \in T PROVE k + 1 \in T
  <2>1. PICK i \in 1 .. n : i = k + 1
    BY <1>1
  <2>2. Offset(vv, i + 1) = Offset(ss, i + 1)
    BY <1>3, <1>5, <2>1
  <2>3. k + 1 \in 0 .. n
    BY <1>1
  <2>4. QED
    BY <2>1, <2>2, <2>3
<1>6. \A k \in 0 .. n : Offset(vv, k + 1) = Offset(ss, k + 1)
  <2> HIDE DEF T
  <2>1. \A k \in 0 .. n : k \in T
    BY <1>1, <1>4, <1>5, InductionUpTo
  <2>2. QED
    BY <2>1 DEF T
<1>7. ASSUME NEW i \in 1 .. n + 1 PROVE Offset(vv, i) = Offset(ss, i)
  <2>1. PICK k \in 0 .. n : k + 1 = i
    <3>1. i - 1 \in 0 .. n /\ (i - 1) + 1 = i
      BY <1>1
    <3>2. QED
      BY <3>1
  <2>2. QED
    BY <1>6, <2>1
<1>8. QED
  BY <1>7 DEF n

\* From the offset of a sequence to the next one lie its elements.
LEMMA SectionOf ==
  ASSUME NEW S, NEW ss \in Seq(Seq(S)), NEW V, NEW array \in Seq(V),
         Len(array) = Len(FlattenSeq(ss)), NEW r \in 1 .. Len(ss)
  PROVE  LET next == IF r = Len(ss) THEN Len(array) ELSE Offset(ss, r + 1)
             part == Section(Offset(ss, r), next, array)
         IN  /\ part \in Seq(V) /\ Len(part) = Len(ss[r])
             /\ Offset(ss, r) \in Nat /\ Offset(ss, r) + Len(ss[r]) <= Len(array)
             /\ \A k \in 1 .. Len(ss[r]) : /\ part[k] = array[Offset(ss, r) + k]
                                           /\ Offset(ss, r) + k \in 1 .. Len(array)
<1> DEFINE n == Len(ss)
           o == Offset(ss, r)
           m == Len(ss[r])
           next == IF r = Len(ss) THEN Len(array) ELSE Offset(ss, r + 1)
           part == Section(Offset(ss, r), next, array)
<1>1. n \in Nat /\ r \in 1 .. n /\ m \in Nat
  <2>1. ss[r] \in Seq(S)
    OBVIOUS
  <2>2. QED
    BY <2>1
<1>2. Flattens(ss, FlattenSeq(ss), S)
  BY FlattenedByOffsets
<1>3. o \in Nat /\ Offset(ss, r + 1) = o + m /\ Offset(ss, n + 1) = Len(array)
  BY <1>2 DEF Flattens
<1>4. Offset(ss, r + 1) <= Len(array)
  <2>1. r \in 1 .. n + 1 /\ n + 1 \in 1 .. n + 1 /\ r < n + 1
    BY <1>1
  <2>2. Offset(ss, r + 1) <= Offset(ss, n + 1)
    BY <1>2, <2>1 DEF Flattens
  <2>3. QED
    BY <1>3, <2>2
<1>5. next = o + m
  BY <1>3
<1>6. part = SubSeq(array, o + 1, o + m)
  BY <1>5 DEF Section
<1> HIDE DEF n, o, m, next, part
<1>7. Len(array) \in Nat /\ o + m <= Len(array)
  BY <1>3, <1>4
<1>8. part \in Seq(V) /\ Len(part) = m
  BY <1>1, <1>3, <1>6, <1>7
<1>9. \A k \in 1 .. m : part[k] = array[o + k] /\ o + k \in 1 .. Len(array)
  BY <1>1, <1>3, <1>6, <1>7
<1>10. QED
  BY <1>3, <1>7, <1>8, <1>9 DEF o, m, next, part

\* The line of a direction.
LEMMA LineOfDirection ==
  ASSUME NEW doc, Trusted(doc), NEW d \in Directions(doc)
  PROVE  \E l \in DOMAIN doc :
           doc[l].direction = d /\ LineOf(doc, d) = doc[l] /\ WayOf(doc[l]) # <<>>
<1>1. PICK l \in DOMAIN doc : doc[l].direction = d /\ WayOf(doc[l]) # <<>>
  BY DirectionsOf
<1>2. QED
  BY <1>1, TrustedLine

\* The maps are looped over in the order of their keys.
LEMMA KeyLists ==
  ASSUME NEW doc, Trusted(doc), NEW sr, NEW rs, NEW times, MapsFull(doc, sr, rs, times)
  PROVE  /\ Rids(times) = Ascending(Directions(doc))
         /\ Lists(Rids(times), Directions(doc))
         /\ Len(Rids(times)) = Cardinality(Directions(doc))
         /\ Sids(sr) = Ascending(StopIds(doc))
         /\ Lists(Sids(sr), StopIds(doc))
         /\ Len(Sids(sr)) = Cardinality(StopIds(doc))
         /\ \A d \in Directions(doc) :
              /\ Rides(times, d) = InTripOrder(Numbers(LineOf(doc, d)))
              /\ Lists(Rides(times, d), Numbers(LineOf(doc, d)))
              /\ Numbers(LineOf(doc, d)) \in SUBSET RideNumber
              /\ Len(Rides(times, d)) = Len(LineOf(doc, d).rides)
              /\ Len(Rides(times, d)) # 0
<1>1. /\ DOMAIN sr = StopIds(doc) /\ DOMAIN times = Directions(doc)
      /\ \A d \in Directions(doc) : DOMAIN times[d] = Numbers(LineOf(doc, d))
  BY DEF MapsFull
<1>2. Rids(times) = Ascending(Directions(doc)) /\ Sids(sr) = Ascending(StopIds(doc))
      /\ \A d \in Directions(doc) : Rides(times, d) = InTripOrder(Numbers(LineOf(doc, d)))
  BY <1>1 DEF Rids, Sids, Rides
<1>3. /\ Lists(Ascending(Directions(doc)), Directions(doc))
      /\ Len(Ascending(Directions(doc))) = Cardinality(Directions(doc))
      /\ Lists(Ascending(StopIds(doc)), StopIds(doc))
      /\ Len(Ascending(StopIds(doc))) = Cardinality(StopIds(doc))
  BY KeysOfDocument, AscendingLists
<1>4. ASSUME NEW d \in Directions(doc)
      PROVE  /\ Lists(Rides(times, d), Numbers(LineOf(doc, d)))
             /\ Numbers(LineOf(doc, d)) \in SUBSET RideNumber
             /\ Len(Rides(times, d)) = Len(LineOf(doc, d).rides)
             /\ Len(Rides(times, d)) # 0
  <2>1. PICK l \in DOMAIN doc : LineOf(doc, d) = doc[l]
    BY LineOfDirection
  <2>2. /\ Numbers(doc[l]) \in SUBSET RideNumber /\ Numbers(doc[l]) # {}
        /\ Cardinality(Numbers(doc[l])) = Len(doc[l].rides)
    BY NumbersOfLine
  <2>3. /\ Lists(InTripOrder(Numbers(doc[l])), Numbers(doc[l]))
        /\ Len(InTripOrder(Numbers(doc[l]))) = Cardinality(Numbers(doc[l]))
    BY <2>2, TripOrderLists
  <2>4. Len(Rides(times, d)) # 0
    <3>1. PICK x : x \in Numbers(doc[l])
      BY <2>2
    <3>2. PICK i \in 1 .. Len(Rides(times, d)) : Rides(times, d)[i] = x
      BY <1>2, <2>1, <2>3, <3>1 DEF Lists
    <3>3. QED
      BY <3>2
  <2>5. QED
    BY <1>2, <2>1, <2>2, <2>3, <2>4
<1>5. QED
  BY <1>2, <1>3, <1>4

\* A list with an element for each of the first n numbers is a sequence.
LEMMA SequenceByElements ==
  ASSUME NEW n \in Nat, NEW V, NEW s, s = [i \in 1 .. n |-> s[i]],
         \A i \in 1 .. n : s[i] \in V
  PROVE  s \in Seq(V) /\ Len(s) = n /\ DOMAIN s = 1 .. n
<1>1. s \in [1 .. n -> V]
  OBVIOUS
<1>2. QED
  BY <1>1

\* The times of the trips of each route.
TimeLists(times) == [r \in DOMAIN Rids(times) |-> RouteTimes(times, Rids(times)[r])]

\* What is laid out: for each route its rides, its stops and their times, and for
\* each stop its routes.
LaidOutLists(doc, sr, rs, times) ==
  /\ RouteTrips(times) \in Seq(Seq(RideNumber))
  /\ Len(RouteTrips(times)) = Len(Rids(times))
  /\ StopLists(rs, times) \in Seq(Seq(StopIds(doc)))
  /\ Len(StopLists(rs, times)) = Len(Rids(times))
  /\ TimeLists(times) \in Seq(Seq(Seq(Nat)))
  /\ Len(TimeLists(times)) = Len(Rids(times))
  /\ RouteLists(sr) \in Seq(Seq(Directions(doc)))
  /\ Len(RouteLists(sr)) = Len(Sids(sr))
  /\ \A r \in 1 .. Len(Rids(times)) :
       /\ RouteTrips(times)[r] = Rides(times, Rids(times)[r])
       /\ StopLists(rs, times)[r] = WayOf(LineOf(doc, Rids(times)[r]))
       /\ Len(TimeLists(times)[r]) = Len(Rides(times, Rids(times)[r]))
       /\ \A k \in 1 .. Len(Rides(times, Rids(times)[r])) :
            TimeLists(times)[r][k] =
              TimesOfRide(RideOf(LineOf(doc, Rids(times)[r]), Rides(times, Rids(times)[r])[k]))
  /\ \A x \in 1 .. Len(Sids(sr)) : RouteLists(sr)[x] = sr[Sids(sr)[x]]

\* They are sequences of sequences of their kinds.
LEMMA ListsLaidOut ==
  ASSUME NEW doc, Trusted(doc), NEW sr, NEW rs, NEW times, MapsFull(doc, sr, rs, times)
  PROVE  LaidOutLists(doc, sr, rs, times)
<1> DEFINE R == Rids(times)
           n == Len(R)
           Z == Sids(sr)
           z == Len(Z)
<1>0. doc \in Document
  BY DEF Trusted
<1>1. /\ n \in Nat /\ DOMAIN R = 1 .. n /\ \A r \in 1 .. n : R[r] \in Directions(doc)
      /\ z \in Nat /\ DOMAIN Z = 1 .. z /\ \A x \in 1 .. z : Z[x] \in StopIds(doc)
  BY KeyLists DEF Lists
<1>2. /\ DOMAIN sr = StopIds(doc) /\ \A x \in DOMAIN sr : sr[x] \in Seq(Directions(doc))
      /\ DOMAIN rs = Directions(doc)
      /\ \A d \in Directions(doc) :
           /\ rs[d] = WayOf(LineOf(doc, d)) /\ DOMAIN times[d] = Numbers(LineOf(doc, d))
           /\ \A k \in DOMAIN times[d] : times[d][k] = TimesOfRide(RideOf(LineOf(doc, d), k))
  BY DEF MapsFull
<1> HIDE DEF R, n, Z, z
<1>3. RouteLists(sr) \in Seq(Seq(Directions(doc))) /\ Len(RouteLists(sr)) = z
      /\ \A x \in 1 .. z : RouteLists(sr)[x] = sr[Z[x]]
  <2>1. RouteLists(sr) = [x \in 1 .. z |-> sr[Z[x]]]
    BY <1>1 DEF RouteLists, Z
  <2>2. \A x \in 1 .. z : RouteLists(sr)[x] = sr[Z[x]] /\ sr[Z[x]] \in Seq(Directions(doc))
    BY <1>1, <1>2, <2>1
  <2>3. RouteLists(sr) = [x \in 1 .. z |-> RouteLists(sr)[x]]
    BY <2>1
  <2>4. QED
    BY <1>1, <2>2, <2>3, SequenceByElements
<1>4. StopLists(rs, times) \in Seq(Seq(StopIds(doc))) /\ Len(StopLists(rs, times)) = n
      /\ \A r \in 1 .. n : StopLists(rs, times)[r] = WayOf(LineOf(doc, R[r]))
  <2>1. StopLists(rs, times) = [r \in 1 .. n |-> At(rs, R[r])]
    BY <1>1 DEF StopLists, R
  <2>2. ASSUME NEW r \in 1 .. n
        PROVE  /\ StopLists(rs, times)[r] = WayOf(LineOf(doc, R[r]))
               /\ WayOf(LineOf(doc, R[r])) \in Seq(StopIds(doc))
    <3>1. StopLists(rs, times)[r] = WayOf(LineOf(doc, R[r]))
      BY <1>1, <1>2, <2>1 DEF At
    <3>2. PICK l \in DOMAIN doc : LineOf(doc, R[r]) = doc[l]
      BY <1>1, LineOfDirection
    <3>3. PICK w \in Seq(Nat) : w = WayOf(doc[l])
      BY TrustedLine
    <3>4. Range(w) \subseteq StopIds(doc)
      BY <3>3 DEF StopIds
    <3>5. w \in Seq(StopIds(doc))
      <4>1. \A j \in 1 .. Len(w) : w[j] \in StopIds(doc)
        BY <3>4 DEF Range
      <4> HIDE DEF Range
      <4>2. QED
        BY <4>1
    <3>6. QED
      BY <3>1, <3>2, <3>3, <3>5
  <2>3. StopLists(rs, times) = [r \in 1 .. n |-> StopLists(rs, times)[r]]
    BY <2>1
  <2>4. QED
    BY <1>1, <2>2, <2>3, SequenceByElements
<1>5. RouteTrips(times) \in Seq(Seq(RideNumber)) /\ Len(RouteTrips(times)) = n
      /\ \A r \in 1 .. n : RouteTrips(times)[r] = Rides(times, R[r])
  <2>1. RouteTrips(times) = [r \in 1 .. n |-> Rides(times, R[r])]
    BY <1>1 DEF RouteTrips, R
  <2>2. ASSUME NEW r \in 1 .. n PROVE Rides(times, R[r]) \in Seq(RideNumber)
    <3>1. PICK N \in SUBSET RideNumber : Rides(times, R[r]) \in Seq(N)
      BY <1>1, KeyLists DEF Lists
    <3>2. QED
      BY <3>1, WiderSequences
  <2>3. \A r \in 1 .. n : RouteTrips(times)[r] = Rides(times, R[r])
    BY <2>1
  <2>4. RouteTrips(times) = [r \in 1 .. n |-> RouteTrips(times)[r]]
    BY <2>1
  <2>5. QED
    BY <1>1, <2>2, <2>3, <2>4, SequenceByElements
<1>6. TimeLists(times) \in Seq(Seq(Seq(Nat))) /\ Len(TimeLists(times)) = n
      /\ \A r \in 1 .. n :
           /\ Len(TimeLists(times)[r]) = Len(Rides(times, R[r]))
           /\ \A k \in 1 .. Len(Rides(times, R[r])) :
                TimeLists(times)[r][k]
                  = TimesOfRide(RideOf(LineOf(doc, R[r]), Rides(times, R[r])[k]))
  <2>1. TimeLists(times) = [r \in 1 .. n |-> RouteTimes(times, R[r])]
    BY <1>1 DEF TimeLists, R
  <2>2. ASSUME NEW r \in 1 .. n
        PROVE  /\ RouteTimes(times, R[r]) \in Seq(Seq(Nat))
               /\ Len(RouteTimes(times, R[r])) = Len(Rides(times, R[r]))
               /\ \A k \in 1 .. Len(Rides(times, R[r])) :
                    RouteTimes(times, R[r])[k]
                      = TimesOfRide(RideOf(LineOf(doc, R[r]), Rides(times, R[r])[k]))
    <3>1. PICK d \in Directions(doc) : d = R[r]
      BY <1>1
    <3>2. PICK l \in DOMAIN doc : LineOf(doc, d) = doc[l]
      BY LineOfDirection
    <3> DEFINE q == Rides(times, d)
               m == Len(q)
    <3>3. m \in Nat /\ DOMAIN q = 1 .. m /\ \A k \in 1 .. m : q[k] \in Numbers(LineOf(doc, d))
      BY KeyLists DEF Lists
    <3> HIDE DEF q, m
    <3>4. RouteTimes(times, d) = [k \in 1 .. m |-> times[d][q[k]]]
      BY <3>3 DEF RouteTimes, q
    <3>5. ASSUME NEW k \in 1 .. m
          PROVE  /\ times[d][q[k]] = TimesOfRide(RideOf(LineOf(doc, d), q[k]))
                 /\ times[d][q[k]] \in Seq(Nat)
      <4>1. times[d][q[k]] = TimesOfRide(RideOf(LineOf(doc, d), q[k]))
        BY <1>2, <3>3
      <4>2. PICK i \in DOMAIN doc[l].rides : doc[l].rides[i].number = q[k]
        BY <3>2, <3>3 DEF Numbers
      <4>3. RideOf(doc[l], q[k]) = doc[l].rides[i]
        BY <4>2, TrustedLine
      <4>4. TimesOfRide(doc[l].rides[i]) \in Seq(Nat)
        BY <1>0, RideSequences
      <4>5. QED
        BY <3>2, <4>1, <4>3, <4>4
    <3>6. \A k \in 1 .. m : RouteTimes(times, d)[k] = times[d][q[k]]
      BY <3>4
    <3>7. RouteTimes(times, d) = [k \in 1 .. m |-> RouteTimes(times, d)[k]]
      BY <3>4
    <3>8. \A k \in 1 .. m : RouteTimes(times, d)[k] \in Seq(Nat)
      BY <3>5, <3>6
    <3>9. RouteTimes(times, d) \in Seq(Seq(Nat)) /\ Len(RouteTimes(times, d)) = m
      BY <3>3, <3>7, <3>8, SequenceByElements
    <3>10. QED
      BY <3>1, <3>5, <3>6, <3>9 DEF q, m
  <2>3. \A r \in 1 .. n : TimeLists(times)[r] = RouteTimes(times, R[r])
    BY <2>1
  <2>4. TimeLists(times) = [r \in 1 .. n |-> TimeLists(times)[r]]
    BY <2>1
  <2>5. \A r \in 1 .. n : TimeLists(times)[r] \in Seq(Seq(Nat))
    BY <2>2, <2>3
  <2>6. TimeLists(times) \in Seq(Seq(Seq(Nat))) /\ Len(TimeLists(times)) = n
    BY <1>1, <2>4, <2>5, SequenceByElements
  <2>7. QED
    BY <2>2, <2>3, <2>6
<1>7. QED
  BY <1>3, <1>4, <1>5, <1>6 DEF R, n, Z, z, LaidOutLists

\* The fields of a timetable that has been laid out.
Fields(t, sr, rs, times) ==
  /\ t.n_stops = Len(Sids(sr)) /\ t.n_routes = Len(Rids(times))
  /\ DOMAIN t.routes = DOMAIN Rids(times)
  /\ \A r \in DOMAIN Rids(times) :
       /\ t.routes[r].id = Rids(times)[r]
       /\ t.routes[r].n_stops = StopCount(times, Rids(times)[r])
       /\ t.routes[r].route_stops_offset = Offset(StopLists(rs, times), r)
       /\ t.routes[r].trips_offset = Offset(RouteTrips(times), r)
  /\ t.trips = [n \in DOMAIN FlattenSeq(RouteTrips(times)) |->
                  [id |-> FlattenSeq(RouteTrips(times))[n],
                   stop_times_offset |-> Offset(StopTimes(times), n)]]
  /\ DOMAIN t.stops = DOMAIN Sids(sr)
  /\ \A x \in DOMAIN Sids(sr) :
       /\ t.stops[x].id = Sids(sr)[x]
       /\ t.stops[x].stop_routes_offset = Offset(RouteLists(sr), x)
  /\ t.route_stops = [i \in DOMAIN FlattenSeq(StopLists(rs, times)) |->
                        Index(Sids(sr), FlattenSeq(StopLists(rs, times))[i])]
  /\ t.stop_routes = [i \in DOMAIN FlattenSeq(RouteLists(sr)) |->
                        Index(Rids(times), FlattenSeq(RouteLists(sr))[i])]
  /\ t.stop_times = FlattenSeq(StopTimes(times))

\* They are what rtimetable writes to them.
LEMMA TimetableFields ==
  ASSUME NEW sr, NEW rs, NEW times
  PROVE  Fields(rtimetable(sr, rs, times), sr, rs, times)
  BY DEF rtimetable, Fields

\* All trips one after the other have their times in the same places.
LEMMA TimesInPlace ==
  ASSUME NEW doc, Trusted(doc), NEW sr, NEW rs, NEW times, MapsFull(doc, sr, rs, times)
  PROVE  /\ StopTimes(times) \in Seq(Seq(Nat))
         /\ Len(StopTimes(times)) = Len(FlattenSeq(RouteTrips(times)))
         /\ \A r \in 1 .. Len(Rids(times)) : \A k \in 1 .. Len(Rides(times, Rids(times)[r])) :
              StopTimes(times)[Offset(RouteTrips(times), r) + k]
                = TimesOfRide(RideOf(LineOf(doc, Rids(times)[r]), Rides(times, Rids(times)[r])[k]))
<1> DEFINE n == Len(Rids(times))
           ss == RouteTrips(times)
           vv == TimeLists(times)
           w == StopTimes(times)
<1>1. /\ ss \in Seq(Seq(RideNumber)) /\ Len(ss) = n
      /\ vv \in Seq(Seq(Seq(Nat))) /\ Len(vv) = n
      /\ \A r \in 1 .. n :
           /\ ss[r] = Rides(times, Rids(times)[r])
           /\ Len(vv[r]) = Len(Rides(times, Rids(times)[r]))
           /\ \A k \in 1 .. Len(Rides(times, Rids(times)[r])) :
                vv[r][k] = TimesOfRide(RideOf(LineOf(doc, Rids(times)[r]),
                                              Rides(times, Rids(times)[r])[k]))
  <2>1. LaidOutLists(doc, sr, rs, times)
    BY ListsLaidOut
  <2>2. QED
    BY <2>1 DEF LaidOutLists
<1>2. w = FlattenSeq(vv)
  BY DEF StopTimes, TimeLists
<1> HIDE DEF n, ss, vv, w
<1>3. \A r \in 1 .. n : Len(vv[r]) = Len(ss[r])
  BY <1>1
<1>4. n \in Nat
  BY <1>1
<1>5. \A i \in 1 .. n + 1 : Offset(vv, i) = Offset(ss, i)
  BY <1>1, <1>3, SameOffsets
<1>6. Flattens(ss, FlattenSeq(ss), RideNumber) /\ Flattens(vv, w, Seq(Nat))
  BY <1>1, <1>2, FlattenedByOffsets
<1>7. w \in Seq(Seq(Nat)) /\ Offset(vv, n + 1) = Len(w)
      /\ \A r \in 1 .. n : \A k \in 1 .. Len(vv[r]) : w[Offset(vv, r) + k] = vv[r][k]
  BY <1>1, <1>6 DEF Flattens
<1>8. Offset(ss, n + 1) = Len(FlattenSeq(ss))
  BY <1>1, <1>6 DEF Flattens
<1>9. Len(w) = Len(FlattenSeq(ss))
  BY <1>4, <1>5, <1>7, <1>8
<1>10. ASSUME NEW r \in 1 .. n, NEW k \in 1 .. Len(Rides(times, Rids(times)[r]))
       PROVE  w[Offset(ss, r) + k]
                = TimesOfRide(RideOf(LineOf(doc, Rids(times)[r]), Rides(times, Rids(times)[r])[k]))
  <2>1. Offset(vv, r) = Offset(ss, r)
    BY <1>4, <1>5
  <2>2. k \in 1 .. Len(vv[r]) /\ vv[r][k] = TimesOfRide(RideOf(LineOf(doc, Rids(times)[r]),
                                                  Rides(times, Rids(times)[r])[k]))
    BY <1>1
  <2>3. w[Offset(vv, r) + k] = vv[r][k]
    BY <1>7, <2>2
  <2>4. QED
    BY <2>1, <2>2, <2>3
<1>11. QED
  BY <1>7, <1>9, <1>10 DEF n, ss, w

\* The rides of a line by their numbers: all go its way.
LEMMA RideOfNumber ==
  ASSUME NEW doc, Trusted(doc), NEW d \in Directions(doc), NEW m \in Numbers(LineOf(doc, d))
  PROVE  /\ TimesOfRide(RideOf(LineOf(doc, d), m)) \in Seq(Nat)
         /\ Len(TimesOfRide(RideOf(LineOf(doc, d), m))) = Len(WayOf(LineOf(doc, d)))
         /\ WayOf(LineOf(doc, d)) \in Seq(Nat)
<1>1. doc \in Document
  BY DEF Trusted
<1>2. PICK l \in DOMAIN doc : LineOf(doc, d) = doc[l]
  BY LineOfDirection
<1>3. PICK i \in DOMAIN doc[l].rides : doc[l].rides[i].number = m
  BY <1>2 DEF Numbers
<1>4. RideOf(doc[l], m) = doc[l].rides[i]
      /\ Len(doc[l].rides[i].stops) = Len(WayOf(doc[l])) /\ WayOf(doc[l]) \in Seq(Nat)
  BY <1>3, TrustedLine
<1>5. TimesOfRide(doc[l].rides[i]) \in Seq(Nat)
      /\ Len(TimesOfRide(doc[l].rides[i])) = Len(doc[l].rides[i].stops)
  BY <1>1, RideSequences
<1>6. QED
  BY <1>2, <1>4, <1>5

\* What the search finds of route r: the stops of its line and its trips in their
\* order.
RouteReadBack(doc, t, r) ==
  LET line   == LineOf(doc, t.routes[r].id)
      way    == WayOf(line)
      stops  == ScannedStops(t, r)
      trips  == ScannedTrips(t, r)
      order  == InTripOrder(Numbers(line))
  IN  /\ t.routes[r].n_stops = Len(way) /\ Len(way) \in Nat
      /\ t.routes[r].route_stops_offset + Len(way) <= Len(t.route_stops)
      /\ stops = [i \in 1 .. Len(way) |-> stops[i]]
      /\ \A i \in 1 .. Len(way) :
           stops[i] \in 0 .. t.n_stops - 1 /\ t.stops[stops[i] + 1].id = way[i]
      /\ DOMAIN trips = 1 .. Len(trips) /\ Len(trips) = Len(order) /\ Len(trips) = Len(line.rides)
      /\ \A k \in 1 .. Len(order) :
           /\ trips[k].id = order[k]
           /\ trips[k].stop_times_offset + Len(way) <= Len(t.stop_times)
           /\ TimesOf(t, trips[k], Len(way)) = TimesOfRide(RideOf(line, order[k]))

\* What it finds at stop x: the routes of the lines that serve it.
StopReadBack(doc, t, x) ==
  LET routes == ScannedRoutes(t, x)
  IN  /\ Range(routes) \subseteq 0 .. t.n_routes - 1
      /\ {t.routes[y + 1].id : y \in Range(routes)} =
           {d \in Directions(doc) : t.stops[x].id \in Range(WayOf(LineOf(doc, d)))}

ReadBack(doc, t) ==
  /\ t.n_routes = Cardinality(Directions(doc)) /\ DOMAIN t.routes = 1 .. t.n_routes
  /\ t.n_stops = Cardinality(StopIds(doc)) /\ DOMAIN t.stops = 1 .. t.n_stops
  /\ \A r \in 1 .. t.n_routes :
       t.routes[r].id = Ascending(Directions(doc))[r] /\ RouteReadBack(doc, t, r)
  /\ \A x \in 1 .. t.n_stops :
       t.stops[x].id = Ascending(StopIds(doc))[x] /\ StopReadBack(doc, t, x)
  /\ \A i \in DOMAIN t.route_stops : t.route_stops[i] \in 0 .. t.n_stops - 1
  /\ \A i \in DOMAIN t.stop_routes : t.stop_routes[i] \in 0 .. t.n_routes - 1

\* The trips of a route.
LEMMA TripsReadBack ==
  ASSUME NEW doc, Trusted(doc), NEW sr, NEW rs, NEW times, MapsFull(doc, sr, rs, times),
         NEW t, Fields(t, sr, rs, times), NEW r \in 1 .. Len(Rids(times))
  PROVE  LET d     == Rids(times)[r]
             way   == WayOf(LineOf(doc, d))
             trips == ScannedTrips(t, r)
         IN  /\ DOMAIN trips = 1 .. Len(trips) /\ Len(trips) = Len(Rides(times, d))
             /\ \A k \in 1 .. Len(Rides(times, d)) :
                  /\ trips[k].id = Rides(times, d)[k]
                  /\ trips[k].stop_times_offset + Len(way) <= Len(t.stop_times)
                  /\ TimesOf(t, trips[k], Len(way))
                       = TimesOfRide(RideOf(LineOf(doc, d), Rides(times, d)[k]))
<1> DEFINE n == Len(Rids(times))
           ss == RouteTrips(times)
           ids == FlattenSeq(ss)
           w == StopTimes(times)
           d == Rids(times)[r]
           order == Rides(times, d)
           m == Len(order)
           o == Offset(ss, r)
           array == t.trips
           V == [id : RideNumber, stop_times_offset : Nat]
           next == IF r = Len(ss) THEN Len(array) ELSE Offset(ss, r + 1)
           trips == Section(o, next, array)
           way == WayOf(LineOf(doc, d))
<1>1. /\ ss \in Seq(Seq(RideNumber)) /\ Len(ss) = n /\ ss[r] = order
      /\ n \in Nat /\ DOMAIN Rids(times) = 1 .. n /\ d \in Directions(doc)
  <2>1. Lists(Rids(times), Directions(doc))
    BY KeyLists
  <2>2. n \in Nat /\ DOMAIN Rids(times) = 1 .. n /\ d \in Directions(doc)
    <3>1. PICK R : R = Rids(times)
      OBVIOUS
    <3>2. Len(R) \in Nat /\ DOMAIN R = 1 .. Len(R) /\ \A i \in 1 .. Len(R) : R[i] \in Directions(doc)
      BY <2>1, <3>1 DEF Lists
    <3>3. QED
      BY <3>1, <3>2
  <2> HIDE DEF ss, n, order
  <2>3. LaidOutLists(doc, sr, rs, times)
    BY ListsLaidOut
  <2>4. /\ ss \in Seq(Seq(RideNumber)) /\ Len(ss) = n /\ ss[r] = order
    BY <2>3 DEF LaidOutLists, ss, n, order
  <2>5. QED
    BY <2>2, <2>4, Zenon
<1>2. Flattens(ss, ids, RideNumber)
  BY <1>1, FlattenedByOffsets
<1>3. w \in Seq(Seq(Nat)) /\ Len(w) = Len(ids)
      /\ \A k \in 1 .. m : w[o + k] = TimesOfRide(RideOf(LineOf(doc, d), order[k]))
  BY TimesInPlace
<1>4. Flattens(w, FlattenSeq(w), Nat)
  BY <1>3, FlattenedByOffsets
<1>5. array = [p \in DOMAIN ids |-> [id |-> ids[p], stop_times_offset |-> Offset(w, p)]]
      /\ t.stop_times = FlattenSeq(w) /\ t.n_routes = n
      /\ t.routes[r].trips_offset = o
      /\ (r # n => t.routes[r + 1].trips_offset = Offset(ss, r + 1))
  <2>1. array = [p \in DOMAIN ids |-> [id |-> ids[p], stop_times_offset |-> Offset(w, p)]]
        /\ t.stop_times = FlattenSeq(w) /\ t.n_routes = n
    BY DEF Fields
  <2>2. \A a \in 1 .. n : t.routes[a].trips_offset = Offset(ss, a)
    BY <1>1 DEF Fields
  <2>3. r \in 1 .. n /\ (r # n => r + 1 \in 1 .. n)
    BY <1>1
  <2> HIDE DEF array, ids, w, n, ss, o
  <2>4. t.routes[r].trips_offset = Offset(ss, r)
        /\ (r # n => t.routes[r + 1].trips_offset = Offset(ss, r + 1))
    BY <2>2, <2>3
  <2>5. QED
    BY <2>1, <2>4 DEF o
<1>6. ScannedTrips(t, r) = trips
  BY <1>1, <1>5 DEF ScannedTrips
<1>7. /\ ids \in Seq(RideNumber) /\ Len(ids) \in Nat /\ DOMAIN ids = 1 .. Len(ids)
      /\ \A p \in 1 .. Len(ids) : ids[p] \in RideNumber
  <2>1. ids \in Seq(RideNumber)
    BY <1>2 DEF Flattens
  <2> HIDE DEF ids
  <2>2. QED
    BY <2>1
<1>8. /\ \A p \in 1 .. Len(w) : Offset(w, p) \in Nat
      /\ \A p \in 1 .. Len(w) : \A j \in 1 .. Len(w[p]) :
           FlattenSeq(w)[Offset(w, p) + j] = w[p][j]
      /\ \A p \in 1 .. Len(w) : Offset(w, p) + Len(w[p]) <= Len(FlattenSeq(w))
  <2> HIDE DEF w
  <2>1. Len(w) \in Nat
    BY <1>3
  <2>2. ASSUME NEW p \in 1 .. Len(w)
        PROVE  Offset(w, p) + Len(w[p]) <= Len(FlattenSeq(w))
    <3>1. p \in 1 .. Len(w) + 1 /\ Len(w) + 1 \in 1 .. Len(w) + 1 /\ p < Len(w) + 1
      BY <2>1
    <3>2. Offset(w, p + 1) <= Offset(w, Len(w) + 1)
      BY <1>4, <3>1 DEF Flattens
    <3>3. Offset(w, p + 1) = Offset(w, p) + Len(w[p])
          /\ Offset(w, Len(w) + 1) = Len(FlattenSeq(w))
      BY <1>4 DEF Flattens
    <3>4. QED
      BY <3>2, <3>3
  <2>3. QED
    BY <1>4, <2>2 DEF Flattens
<1> HIDE DEF n, ss, ids, w, d, order, m, o, array
<1>9. /\ array \in Seq(V) /\ Len(array) = Len(ids)
      /\ \A p \in 1 .. Len(ids) : array[p].id = ids[p] /\ array[p].stop_times_offset = Offset(w, p)
  <2>1. \A p \in 1 .. Len(ids) :
          array[p] = [id |-> ids[p], stop_times_offset |-> Offset(w, p)]
    BY <1>5, <1>7
  <2>2. array = [p \in 1 .. Len(ids) |-> array[p]]
    BY <1>5, <1>7
  <2>3. ASSUME NEW p \in 1 .. Len(ids) PROVE array[p] \in V
    <3>1. ids[p] \in RideNumber /\ Offset(w, p) \in Nat
      BY <1>3, <1>7, <1>8
    <3>2. [id |-> ids[p], stop_times_offset |-> Offset(w, p)] \in V
      BY <3>1
    <3>3. QED
      BY <2>1, <3>2
  <2> HIDE DEF V
  <2>4. array \in Seq(V) /\ Len(array) = Len(ids)
    BY <1>7, <2>2, <2>3, SequenceByElements
  <2>5. ASSUME NEW p \in 1 .. Len(ids)
        PROVE  array[p].id = ids[p] /\ array[p].stop_times_offset = Offset(w, p)
    <3>1. array[p] = [id |-> ids[p], stop_times_offset |-> Offset(w, p)]
      BY <2>1
    <3>2. QED
      BY <3>1
  <2>6. QED
    BY <2>4, <2>5
<1> HIDE DEF V
<1>10. /\ trips \in Seq(V) /\ Len(trips) = m
       /\ o \in Nat /\ o + m <= Len(array)
       /\ \A k \in 1 .. m : trips[k] = array[o + k] /\ o + k \in 1 .. Len(array)
  <2>1. /\ trips \in Seq(V) /\ Len(trips) = Len(ss[r])
        /\ Offset(ss, r) \in Nat /\ Offset(ss, r) + Len(ss[r]) <= Len(array)
        /\ \A k \in 1 .. Len(ss[r]) : /\ trips[k] = array[Offset(ss, r) + k]
                                      /\ Offset(ss, r) + k \in 1 .. Len(array)
    <3>1. r \in 1 .. Len(ss) /\ Len(array) = Len(FlattenSeq(ss))
      BY <1>1, <1>9 DEF ids, n
    <3>2. QED
      BY <1>1, <1>9, <3>1, SectionOf DEF o
  <2>2. QED
    BY <1>1, <2>1 DEF m, o
<1> HIDE DEF trips
<1>11. ASSUME NEW k \in 1 .. m
       PROVE  /\ trips[k].id = order[k]
              /\ trips[k].stop_times_offset + Len(way) <= Len(t.stop_times)
              /\ TimesOf(t, trips[k], Len(way)) = TimesOfRide(RideOf(LineOf(doc, d), order[k]))
  <2>1. trips[k] = array[o + k] /\ o + k \in 1 .. Len(ids)
    BY <1>9, <1>10
  <2>2. trips[k].id = ids[o + k] /\ trips[k].stop_times_offset = Offset(w, o + k)
    BY <1>9, <2>1
  <2>3. ids[o + k] = order[k]
    <3>1. r \in 1 .. Len(ss) /\ k \in 1 .. Len(ss[r])
      BY <1>1 DEF m, n
    <3>2. ids[Offset(ss, r) + k] = ss[r][k]
      BY <1>2, <3>1 DEF Flattens
    <3>3. QED
      BY <1>1, <3>2 DEF o
  <2> DEFINE f == TimesOfRide(RideOf(LineOf(doc, d), order[k]))
  <2>4. w[o + k] = f
    BY <1>3
  <2>5. f \in Seq(Nat) /\ Len(f) = Len(way)
    <3>1. order[k] \in Numbers(LineOf(doc, d))
      BY <1>1, KeyLists DEF Lists, order, m
    <3>2. QED
      BY <1>1, <3>1, RideOfNumber
  <2> HIDE DEF f, way
  <2>6. /\ Offset(w, o + k) + Len(f) <= Len(FlattenSeq(w))
        /\ \A j \in 1 .. Len(f) : FlattenSeq(w)[Offset(w, o + k) + j] = f[j]
    BY <1>3, <1>8, <2>1, <2>4
  <2>7. TimesOf(t, trips[k], Len(way)) = [j \in 1 .. Len(way) |-> f[j]]
    BY <1>5, <2>2, <2>5, <2>6 DEF TimesOf
  <2>8. [j \in 1 .. Len(way) |-> f[j]] = f
    BY <2>5
  <2>9. QED
    BY <1>5, <2>2, <2>3, <2>5, <2>6, <2>7, <2>8 DEF f
<1>12. DOMAIN trips = 1 .. Len(trips)
  BY <1>10
<1>13. QED
  BY <1>6, <1>10, <1>11, <1>12 DEF d, order, m, way

\* The stops of a route, as many as its last trip has.
LEMMA StopsReadBack ==
  ASSUME NEW doc, Trusted(doc), NEW sr, NEW rs, NEW times, MapsFull(doc, sr, rs, times),
         NEW t, Fields(t, sr, rs, times), NEW r \in 1 .. Len(Rids(times))
  PROVE  LET way == WayOf(LineOf(doc, Rids(times)[r]))
             stops == ScannedStops(t, r)
         IN  /\ t.routes[r].n_stops = Len(way) /\ Len(way) \in Nat
             /\ t.routes[r].route_stops_offset + Len(way) <= Len(t.route_stops)
             /\ stops = [i \in 1 .. Len(way) |-> stops[i]]
             /\ \A i \in 1 .. Len(way) :
                  /\ stops[i] = Index(Sids(sr), way[i])
                  /\ stops[i] \in 0 .. t.n_stops - 1 /\ t.stops[stops[i] + 1].id = way[i]
<1> DEFINE n == Len(Rids(times))
           ss == StopLists(rs, times)
           s == FlattenSeq(ss)
           d == Rids(times)[r]
           way == WayOf(LineOf(doc, d))
           m == Len(way)
           order == Rides(times, d)
           c == Len(order)
           Z == Sids(sr)
           o == Offset(ss, r)
<1>1. /\ n \in Nat /\ DOMAIN Rids(times) = 1 .. n /\ d \in Directions(doc)
      /\ Lists(Z, StopIds(doc))
  BY KeyLists DEF Lists
<1>2. /\ ss \in Seq(Seq(StopIds(doc))) /\ Len(ss) = n /\ ss[r] = way
  <2> HIDE DEF ss, n, way
  <2>1. LaidOutLists(doc, sr, rs, times)
    BY ListsLaidOut
  <2>2. QED
    BY <2>1 DEF LaidOutLists, ss, n, way, d
<1>3. Flattens(ss, s, StopIds(doc))
  BY <1>2, FlattenedByOffsets
<1>4. /\ t.routes[r].n_stops = StopCount(times, d)
      /\ t.routes[r].route_stops_offset = o
      /\ t.n_stops = Len(Z)
      /\ t.route_stops = [i \in DOMAIN s |-> Index(Z, s[i])]
      /\ \A x \in DOMAIN Z : t.stops[x].id = Z[x]
  <2> HIDE DEF ss, s, Z, o, n
  <2>1. r \in DOMAIN Rids(times)
    BY <1>1 DEF n
  <2>2. QED
    BY <2>1 DEF Fields, ss, s, Z, o, d
<1>5. c \in Nat /\ c # 0 /\ order[c] \in Numbers(LineOf(doc, d))
      /\ DOMAIN times[d] = Numbers(LineOf(doc, d))
      /\ times[d][order[c]] = TimesOfRide(RideOf(LineOf(doc, d), order[c]))
  <2> HIDE DEF d
  <2>1. c # 0 /\ Lists(order, Numbers(LineOf(doc, d)))
    BY <1>1, KeyLists
  <2>2. c \in Nat /\ \A i \in 1 .. c : order[i] \in Numbers(LineOf(doc, d))
    BY <2>1 DEF Lists
  <2>3. c \in 1 .. c
    BY <2>1, <2>2
  <2>4. order[c] \in Numbers(LineOf(doc, d))
    BY <2>2, <2>3
  <2>5. DOMAIN times[d] = Numbers(LineOf(doc, d))
        /\ \A k \in DOMAIN times[d] : times[d][k] = TimesOfRide(RideOf(LineOf(doc, d), k))
    BY <1>1 DEF MapsFull
  <2>6. QED
    BY <2>1, <2>2, <2>4, <2>5
<1>6. StopCount(times, d) = m /\ way \in Seq(Nat)
  <2>1. Len(TimesOfRide(RideOf(LineOf(doc, d), order[c]))) = m /\ way \in Seq(Nat)
    BY <1>1, <1>5, RideOfNumber
  <2>2. StopCount(times, d) = Len(times[d][order[c]])
    BY DEF StopCount, Last
  <2>3. QED
    BY <1>5, <2>1, <2>2
<1> HIDE DEF ss, s, order, c, o, n
<1>7. m \in Nat /\ \A i \in 1 .. m : way[i] \in StopIds(doc)
  <2>1. PICK v \in Seq(Seq(StopIds(doc))) : v = ss /\ r \in 1 .. Len(v)
    BY <1>1, <1>2 DEF n
  <2>2. way \in Seq(StopIds(doc))
    BY <1>2, <2>1
  <2> HIDE DEF way
  <2>3. QED
    BY <2>2
<1> HIDE DEF way, d
<1>8. /\ s \in Seq(StopIds(doc)) /\ o \in Nat /\ o + m <= Len(s)
      /\ \A i \in 1 .. m : s[o + i] = way[i]
  <2> HIDE DEF m
  <2>1. r \in 1 .. Len(ss) /\ Len(ss) \in Nat
    BY <1>1, <1>2 DEF n
  <2>2. /\ s \in Seq(StopIds(doc)) /\ o \in Nat /\ Offset(ss, r + 1) = o + m
        /\ Offset(ss, Len(ss) + 1) = Len(s)
        /\ \A i \in 1 .. m : s[o + i] = way[i]
    BY <1>2, <1>3, <2>1 DEF Flattens, o, m
  <2>3. Offset(ss, r + 1) <= Len(s)
    <3>1. r \in 1 .. Len(ss) + 1 /\ Len(ss) + 1 \in 1 .. Len(ss) + 1 /\ r < Len(ss) + 1
      BY <2>1
    <3>2. QED
      BY <1>3, <2>2, <3>1 DEF Flattens
  <2>4. QED
    BY <2>2, <2>3
<1> HIDE DEF m
<1>9. Len(s) \in Nat /\ DOMAIN s = 1 .. Len(s) /\ Len(t.route_stops) = Len(s)
  <2>1. Len(s) \in Nat /\ DOMAIN s = 1 .. Len(s)
    BY <1>8
  <2>2. t.route_stops = [i \in 1 .. Len(s) |-> Index(Z, s[i])]
    BY <1>4, <2>1
  <2>3. QED
    BY <2>1, <2>2
<1>10. ScannedStops(t, r) = [i \in 1 .. m |-> t.route_stops[o + i]]
  BY <1>4, <1>6 DEF ScannedStops
<1>11. ASSUME NEW i \in 1 .. m
       PROVE  /\ ScannedStops(t, r)[i] = Index(Z, way[i])
              /\ ScannedStops(t, r)[i] \in 0 .. t.n_stops - 1
              /\ t.stops[ScannedStops(t, r)[i] + 1].id = way[i]
  <2>1. o + i \in DOMAIN s /\ s[o + i] = way[i]
    BY <1>7, <1>8, <1>9
  <2>2. ScannedStops(t, r)[i] = Index(Z, way[i])
    BY <1>4, <1>10, <2>1
  <2>3. Index(Z, way[i]) \in 0 .. Len(Z) - 1 /\ Z[Index(Z, way[i]) + 1] = way[i]
    BY <1>1, <1>7, IndexOfKey
  <2>4. Index(Z, way[i]) + 1 \in DOMAIN Z
    BY <1>1, <2>3 DEF Lists
  <2>5. QED
    BY <1>4, <2>2, <2>3, <2>4
<1>12. ScannedStops(t, r) = [i \in 1 .. m |-> ScannedStops(t, r)[i]]
  BY <1>10
<1>13. QED
  BY <1>4, <1>6, <1>7, <1>8, <1>9, <1>11, <1>12 DEF m, way, d, Z

\* The routes of a stop.
LEMMA RoutesReadBack ==
  ASSUME NEW doc, Trusted(doc), NEW sr, NEW rs, NEW times, MapsFull(doc, sr, rs, times),
         NEW t, Fields(t, sr, rs, times), NEW x \in 1 .. Len(Sids(sr))
  PROVE  StopReadBack(doc, t, x)
<1> DEFINE n == Len(Rids(times))
           R == Rids(times)
           Z == Sids(sr)
           z == Len(Z)
           ss == RouteLists(sr)
           s == FlattenSeq(ss)
           D == Directions(doc)
           q == sr[Z[x]]
           m == Len(q)
           o == Offset(ss, x)
           array == t.stop_routes
           next == IF x = Len(ss) THEN Len(array) ELSE Offset(ss, x + 1)
           part == Section(o, next, array)
           V == 0 .. n - 1
<1>1. /\ n \in Nat /\ DOMAIN R = 1 .. n /\ Lists(R, D)
      /\ z \in Nat /\ DOMAIN Z = 1 .. z /\ Z[x] \in StopIds(doc)
  BY KeyLists DEF Lists
<1>2. /\ ss \in Seq(Seq(D)) /\ Len(ss) = z /\ ss[x] = q
  <2> HIDE DEF ss, z, q, D
  <2>1. LaidOutLists(doc, sr, rs, times)
    BY ListsLaidOut
  <2>2. QED
    BY <2>1 DEF LaidOutLists, ss, z, q, Z, D
<1>3. q \in Seq(D) /\ Range(q) = {d \in D : Z[x] \in Range(WayOf(LineOf(doc, d)))}
  BY <1>1 DEF MapsFull
<1>4. Flattens(ss, s, D)
  BY <1>2, FlattenedByOffsets
<1>5. /\ t.n_routes = n /\ t.n_stops = z
      /\ \A r \in 1 .. n : t.routes[r].id = R[r]
      /\ \A y \in 1 .. z : t.stops[y].id = Z[y] /\ t.stops[y].stop_routes_offset = Offset(ss, y)
      /\ array = [i \in DOMAIN s |-> Index(R, s[i])]
  <2> HIDE DEF ss, s, n, z, array
  <2>1. QED
    BY <1>1 DEF Fields, ss, s, R, Z, n, z, array
<1>6. ScannedRoutes(t, x) = part
  <2>0. z \in Nat /\ x \in 1 .. z
    BY <1>1
  <2> HIDE DEF ss, z, array
  <2>1. x # z => x + 1 \in 1 .. z
    BY <2>0
  <2>2. t.stops[x].stop_routes_offset = o
        /\ (x # z => t.stops[x + 1].stop_routes_offset = Offset(ss, x + 1))
    BY <1>5, <2>1 DEF z
  <2>3. QED
    BY <1>2, <1>5, <2>2 DEF ScannedRoutes, array
<1>7. s \in Seq(D)
  BY <1>4 DEF Flattens
<1> HIDE DEF s, ss, R, Z, z, n, D, array
<1>8. Len(s) \in Nat /\ DOMAIN s = 1 .. Len(s) /\ \A i \in 1 .. Len(s) : s[i] \in D
  BY <1>7
<1>9. /\ \A d \in D : Index(R, d) \in V /\ R[Index(R, d) + 1] = d
  BY <1>1, IndexOfKey DEF n
<1> HIDE DEF V
<1>10. array \in Seq(V) /\ Len(array) = Len(s) /\ DOMAIN array = 1 .. Len(s)
       /\ \A i \in 1 .. Len(s) : array[i] = Index(R, s[i])
  <2>1. array = [i \in 1 .. Len(s) |-> Index(R, s[i])]
    BY <1>5, <1>8
  <2>2. array = [i \in 1 .. Len(s) |-> array[i]]
    BY <2>1
  <2>3. \A i \in 1 .. Len(s) : array[i] \in V
    BY <1>8, <1>9, <2>1
  <2>4. QED
    BY <1>8, <2>1, <2>2, <2>3, SequenceByElements
<1>11. /\ part \in Seq(V) /\ Len(part) = m
       /\ \A k \in 1 .. m : part[k] = array[o + k] /\ o + k \in 1 .. Len(array)
  <2>1. x \in 1 .. Len(ss) /\ Len(array) = Len(FlattenSeq(ss))
    BY <1>1, <1>2, <1>10 DEF s, z, Z
  <2> HIDE DEF o
  <2>2. /\ part \in Seq(V) /\ Len(part) = Len(ss[x])
        /\ \A k \in 1 .. Len(ss[x]) : /\ part[k] = array[Offset(ss, x) + k]
                                      /\ Offset(ss, x) + k \in 1 .. Len(array)
    BY <1>2, <1>10, <2>1, SectionOf, SMTT(40) DEF o
  <2>3. QED
    BY <1>2, <2>2 DEF o
<1> HIDE DEF part
<1>12. ASSUME NEW k \in 1 .. m PROVE part[k] = Index(R, q[k]) /\ q[k] \in D
  <2>1. s[o + k] = q[k]
    <3>1. x \in 1 .. Len(ss) /\ k \in 1 .. Len(ss[x])
      BY <1>1, <1>2 DEF z, Z
    <3>2. QED
      BY <1>2, <1>4, <3>1 DEF Flattens
  <2>2. o + k \in 1 .. Len(s)
    BY <1>10, <1>11
  <2>3. QED
    BY <1>8, <1>10, <1>11, <2>1, <2>2
<1> HIDE DEF o, q
<1>13. m \in Nat /\ DOMAIN q = 1 .. m /\ DOMAIN part = 1 .. m
  BY <1>3, <1>11
<1> HIDE DEF m
<1>14. Range(part) = {part[k] : k \in 1 .. m} /\ Range(q) = {q[k] : k \in 1 .. m}
  BY <1>13 DEF Range
<1>15. \A k \in 1 .. m : part[k] \in V /\ t.routes[part[k] + 1].id = q[k]
  <2>1. ASSUME NEW k \in 1 .. m PROVE part[k] \in V /\ t.routes[part[k] + 1].id = q[k]
    <3>1. part[k] \in V /\ R[part[k] + 1] = q[k]
      BY <1>9, <1>12
    <3>2. part[k] + 1 \in 1 .. n
      BY <1>1, <3>1 DEF V
    <3>3. QED
      BY <1>5, <3>1, <3>2
  <2>2. QED
    BY <2>1
<1>16. {t.routes[y + 1].id : y \in Range(part)} = Range(q)
  BY <1>14, <1>15
<1>17. Range(part) \subseteq V
  BY <1>14, <1>15
<1>18. t.stops[x].id = Z[x]
  BY <1>5 DEF z, Z
<1>19. QED
  BY <1>3, <1>5, <1>6, <1>16, <1>17, <1>18 DEF StopReadBack, V, D

-----------------------------------------------------------------------------
(* Reading back.  What is found is the document, and the network of the    *)
(* search.                                                                 *)

\* Indices of keys are places of keys.
LEMMA IndicesInside ==
  ASSUME NEW K, NEW keys, Lists(keys, K), NEW ss \in Seq(Seq(K)), NEW array,
         array = [i \in DOMAIN FlattenSeq(ss) |-> Index(keys, FlattenSeq(ss)[i])]
  PROVE  \A i \in DOMAIN array : array[i] \in 0 .. Len(keys) - 1
<1> DEFINE s == FlattenSeq(ss)
<1>1. s \in Seq(K)
  BY FlattenedByOffsets DEF Flattens
<1>2. \A x \in K : Index(keys, x) \in 0 .. Len(keys) - 1
  BY IndexOfKey
<1> HIDE DEF s
<1>3. \A i \in DOMAIN s : s[i] \in K
  BY <1>1
<1>4. QED
  BY <1>2, <1>3 DEF s

\* What is laid out is read back.
LEMMA LayoutReadBack ==
  ASSUME NEW doc, Trusted(doc), NEW sr, NEW rs, NEW times, MapsFull(doc, sr, rs, times),
         NEW t, Fields(t, sr, rs, times)
  PROVE  ReadBack(doc, t)
<1> DEFINE R == Rids(times)
           Z == Sids(sr)
<1>1. /\ Lists(R, Directions(doc)) /\ R = Ascending(Directions(doc))
      /\ Len(R) = Cardinality(Directions(doc))
      /\ Lists(Z, StopIds(doc)) /\ Z = Ascending(StopIds(doc))
      /\ Len(Z) = Cardinality(StopIds(doc))
      /\ \A d \in Directions(doc) :
           /\ Rides(times, d) = InTripOrder(Numbers(LineOf(doc, d)))
           /\ Len(Rides(times, d)) = Len(LineOf(doc, d).rides)
  BY KeyLists
<1>2. Len(R) \in Nat /\ DOMAIN R = 1 .. Len(R) /\ \A i \in 1 .. Len(R) : R[i] \in Directions(doc)
      /\ Len(Z) \in Nat /\ DOMAIN Z = 1 .. Len(Z)
  BY <1>1 DEF Lists
<1>3. LaidOutLists(doc, sr, rs, times)
  BY ListsLaidOut
<1>4. /\ t.n_stops = Len(Z) /\ t.n_routes = Len(R)
      /\ DOMAIN t.routes = 1 .. Len(R) /\ DOMAIN t.stops = 1 .. Len(Z)
      /\ \A r \in 1 .. Len(R) : t.routes[r].id = R[r]
      /\ \A x \in 1 .. Len(Z) : t.stops[x].id = Z[x]
  BY <1>2 DEF Fields
<1> HIDE DEF R, Z
<1>5. ASSUME NEW r \in 1 .. Len(R) PROVE RouteReadBack(doc, t, r)
  <2> DEFINE d == R[r]
             line == LineOf(doc, d)
             way == WayOf(line)
             stops == ScannedStops(t, r)
             trips == ScannedTrips(t, r)
             order == InTripOrder(Numbers(line))
  <2>1. /\ t.routes[r].n_stops = Len(way) /\ Len(way) \in Nat
        /\ t.routes[r].route_stops_offset + Len(way) <= Len(t.route_stops)
        /\ stops = [i \in 1 .. Len(way) |-> stops[i]]
        /\ \A i \in 1 .. Len(way) :
             stops[i] \in 0 .. t.n_stops - 1 /\ t.stops[stops[i] + 1].id = way[i]
    BY StopsReadBack DEF R
  <2>2. Rides(times, d) = order /\ Len(order) = Len(line.rides)
    BY <1>1, <1>2
  <2>3. /\ DOMAIN trips = 1 .. Len(trips) /\ Len(trips) = Len(Rides(times, d))
        /\ \A k \in 1 .. Len(Rides(times, d)) :
             /\ trips[k].id = Rides(times, d)[k]
             /\ trips[k].stop_times_offset + Len(way) <= Len(t.stop_times)
             /\ TimesOf(t, trips[k], Len(way)) = TimesOfRide(RideOf(line, Rides(times, d)[k]))
    BY TripsReadBack DEF R
  <2>4. t.routes[r].id = d
    BY <1>4
  <2> HIDE DEF stops, trips
  <2>5. /\ DOMAIN trips = 1 .. Len(trips) /\ Len(trips) = Len(order)
        /\ Len(trips) = Len(line.rides)
        /\ \A k \in 1 .. Len(order) :
             /\ trips[k].id = order[k]
             /\ trips[k].stop_times_offset + Len(way) <= Len(t.stop_times)
             /\ TimesOf(t, trips[k], Len(way)) = TimesOfRide(RideOf(line, order[k]))
    BY <2>2, <2>3
  <2> HIDE DEF d
  <2>6. QED
    BY <2>1, <2>4, <2>5 DEF RouteReadBack, stops, trips
<1>6. ASSUME NEW x \in 1 .. Len(Z) PROVE StopReadBack(doc, t, x)
  BY RoutesReadBack DEF Z
<1>7. \A i \in DOMAIN t.route_stops : t.route_stops[i] \in 0 .. t.n_stops - 1
  <2>1. StopLists(rs, times) \in Seq(Seq(StopIds(doc)))
    BY <1>3 DEF LaidOutLists
  <2>2. t.route_stops = [i \in DOMAIN FlattenSeq(StopLists(rs, times)) |->
                          Index(Z, FlattenSeq(StopLists(rs, times))[i])]
    BY DEF Fields, Z
  <2>3. QED
    BY <1>1, <1>4, <2>1, <2>2, IndicesInside
<1>8. \A i \in DOMAIN t.stop_routes : t.stop_routes[i] \in 0 .. t.n_routes - 1
  <2>1. RouteLists(sr) \in Seq(Seq(Directions(doc)))
    BY <1>3 DEF LaidOutLists
  <2>2. t.stop_routes = [i \in DOMAIN FlattenSeq(RouteLists(sr)) |->
                          Index(R, FlattenSeq(RouteLists(sr))[i])]
    BY DEF Fields, R
  <2>3. QED
    BY <1>1, <1>4, <2>1, <2>2, IndicesInside
<1>9. QED
  BY <1>1, <1>4, <1>5, <1>6, <1>7, <1>8 DEF ReadBack

\* The places of routes and stops, which a timetable numbers in order.
LEMMA PlacesReadBack ==
  ASSUME NEW doc, Trusted(doc), NEW t, ReadBack(doc, t)
  PROVE  /\ {t.routes[r].id : r \in DOMAIN t.routes} = Directions(doc)
         /\ {t.stops[x].id : x \in DOMAIN t.stops} = StopIds(doc)
<1>1. /\ Lists(Ascending(Directions(doc)), Directions(doc))
      /\ Len(Ascending(Directions(doc))) = Cardinality(Directions(doc))
      /\ Lists(Ascending(StopIds(doc)), StopIds(doc))
      /\ Len(Ascending(StopIds(doc))) = Cardinality(StopIds(doc))
  BY KeysOfDocument, AscendingLists
<1>2. PICK R : R = Ascending(Directions(doc))
  OBVIOUS
<1>3. PICK Z : Z = Ascending(StopIds(doc))
  OBVIOUS
<1>4. /\ \A d \in Directions(doc) : \E i \in 1 .. Len(R) : R[i] = d
      /\ \A i \in 1 .. Len(R) : R[i] \in Directions(doc)
      /\ \A x \in StopIds(doc) : \E i \in 1 .. Len(Z) : Z[i] = x
      /\ \A i \in 1 .. Len(Z) : Z[i] \in StopIds(doc)
  BY <1>1, <1>2, <1>3 DEF Lists
<1>5. /\ DOMAIN t.routes = 1 .. Len(R) /\ DOMAIN t.stops = 1 .. Len(Z)
      /\ \A r \in 1 .. Len(R) : t.routes[r].id = R[r]
      /\ \A x \in 1 .. Len(Z) : t.stops[x].id = Z[x]
  BY <1>1, <1>2, <1>3 DEF ReadBack
<1>6. QED
  BY <1>4, <1>5

\* Every index and offset is inside its array.
LEMMA ReadBackAddressed ==
  ASSUME NEW doc, NEW t, ReadBack(doc, t)
  PROVE  Addressed(t)
<1>1. /\ \A i \in DOMAIN t.route_stops : t.route_stops[i] \in 0 .. t.n_stops - 1
      /\ \A i \in DOMAIN t.stop_routes : t.stop_routes[i] \in 0 .. t.n_routes - 1
      /\ DOMAIN t.routes = 1 .. t.n_routes
      /\ \A r \in 1 .. t.n_routes : RouteReadBack(doc, t, r)
  BY DEF ReadBack
<1>2. ASSUME NEW r \in DOMAIN t.routes
      PROVE  /\ t.routes[r].route_stops_offset + t.routes[r].n_stops <= Len(t.route_stops)
             /\ \A n \in DOMAIN ScannedTrips(t, r) :
                  ScannedTrips(t, r)[n].stop_times_offset + t.routes[r].n_stops
                    <= Len(t.stop_times)
  BY <1>1 DEF RouteReadBack
<1>3. QED
  BY <1>1, <1>2 DEF Addressed

\* It gives back its document.
LEMMA ReadBackFaithful ==
  ASSUME NEW doc, Trusted(doc), NEW t, ReadBack(doc, t)
  PROVE  Faithful(doc, t)
<1>1. doc \in Document
  BY DEF Trusted
<1>2. /\ {t.routes[r].id : r \in DOMAIN t.routes} = Directions(doc)
      /\ {t.stops[x].id : x \in DOMAIN t.stops} = StopIds(doc)
  BY PlacesReadBack
<1>3. /\ DOMAIN t.routes = 1 .. t.n_routes /\ DOMAIN t.stops = 1 .. t.n_stops
      /\ \A r \in 1 .. t.n_routes : RouteReadBack(doc, t, r)
      /\ \A x \in 1 .. t.n_stops : StopReadBack(doc, t, x)
  BY DEF ReadBack
<1>4. ASSUME NEW r \in DOMAIN t.routes
      PROVE  LET line  == LineOf(doc, t.routes[r].id)
                 trips == ScannedTrips(t, r)
             IN  /\ [i \in DOMAIN ScannedStops(t, r) |-> t.stops[ScannedStops(t, r)[i] + 1].id]
                      = WayOf(line)
                 /\ Len(trips) = Len(line.rides)
                 /\ \A k \in DOMAIN line.rides : \E n \in DOMAIN trips :
                      /\ trips[n].id = line.rides[k].number
                      /\ TimesOf(t, trips[n], t.routes[r].n_stops) = TimesOfRide(line.rides[k])
  <2> DEFINE d == t.routes[r].id
             line == LineOf(doc, d)
             way == WayOf(line)
             stops == ScannedStops(t, r)
             trips == ScannedTrips(t, r)
             order == InTripOrder(Numbers(line))
  <2>1. d \in Directions(doc)
    BY <1>2
  <2>2. /\ t.routes[r].n_stops = Len(way) /\ Len(way) \in Nat
        /\ stops = [i \in 1 .. Len(way) |-> stops[i]]
        /\ \A i \in 1 .. Len(way) : t.stops[stops[i] + 1].id = way[i]
        /\ DOMAIN trips = 1 .. Len(trips) /\ Len(trips) = Len(order)
        /\ Len(trips) = Len(line.rides)
        /\ \A k \in 1 .. Len(order) :
             /\ trips[k].id = order[k]
             /\ TimesOf(t, trips[k], Len(way)) = TimesOfRide(RideOf(line, order[k]))
    BY <1>3 DEF RouteReadBack
  <2> HIDE DEF d, stops, trips
  <2>3. PICK l \in DOMAIN doc : line = doc[l]
    BY <2>1, LineOfDirection
  <2>4. way \in Seq(Nat)
    BY <2>3, TrustedLine
  <2>5. Lists(order, Numbers(line))
    <3>1. Numbers(doc[l]) \in SUBSET RideNumber
      BY NumbersOfLine
    <3>2. QED
      BY <2>3, <3>1, TripOrderLists
  <2>6. \A m \in Numbers(line) : \E i \in 1 .. Len(order) : order[i] = m
    BY <2>5 DEF Lists
  <2> HIDE DEF line, way, order
  <2>7. [i \in DOMAIN stops |-> t.stops[stops[i] + 1].id] = way
    <3>1. DOMAIN stops = 1 .. Len(way)
      BY <2>2
    <3>2. way = [i \in 1 .. Len(way) |-> way[i]]
      BY <2>4
    <3>3. QED
      BY <2>2, <3>1, <3>2
  <2>8. ASSUME NEW k \in DOMAIN line.rides
        PROVE  \E n \in DOMAIN trips :
                 /\ trips[n].id = line.rides[k].number
                 /\ TimesOf(t, trips[n], t.routes[r].n_stops) = TimesOfRide(line.rides[k])
    <3>1. line.rides[k].number \in Numbers(line)
      BY DEF Numbers
    <3>2. PICK n \in 1 .. Len(order) : order[n] = line.rides[k].number
      BY <2>6, <3>1
    <3>3. RideOf(line, line.rides[k].number) = line.rides[k]
      BY <2>3, TrustedLine
    <3>4. QED
      BY <2>2, <3>2, <3>3
  <2>9. QED
    BY <2>2, <2>7, <2>8 DEF d, line, way, stops, trips
<1>5. ASSUME NEW x \in DOMAIN t.stops
      PROVE  {t.routes[y + 1].id : y \in Range(ScannedRoutes(t, x))} =
             {d \in Directions(doc) : t.stops[x].id \in Range(WayOf(LineOf(doc, d)))}
  BY <1>3 DEF StopReadBack
<1>6. QED
  BY <1>2, <1>4, <1>5 DEF Faithful

\* There are n numbers from 0.
LEMMA FromZero ==
  ASSUME NEW n \in Nat
  PROVE  Cardinality(0 .. n - 1) = n
  BY FS_Interval

\* A document searched gives back the network, in which routes and stops are what
\* the timetable makes of them: places of ids.
LEMMA ReadBackNetwork ==
  ASSUME NEW t, ReadBack(Searched, t)
  PROVE  ReadAsNetwork(t)
<1> DEFINE doc == Searched
           D == Directions(doc)
           R == Ascending(D)
           S == StopIds(doc)
           Z == Ascending(S)
           n == Len(R)
           z == Len(Z)
<1>1. Trusted(doc)
  BY DocumentAssumption
<1>2. /\ Route = 0 .. n - 1 /\ Stop = 0 .. z - 1
      /\ \A r \in Route :
           /\ RouteStops[r] = [i \in DOMAIN WayOf(LineOf(doc, R[r + 1])) |->
                                Index(Z, WayOf(LineOf(doc, R[r + 1]))[i])]
           /\ Trips[r] = TripsOf(LineOf(doc, R[r + 1]))
  BY NetworkAssumption
<1>3. /\ Lists(R, D) /\ n = Cardinality(D)
      /\ Lists(Z, S) /\ z = Cardinality(S)
  BY <1>1, KeysOfDocument, AscendingLists
<1> HIDE DEF R, D, Z, S, doc
<1>4. /\ n \in Nat /\ \A i \in 1 .. n : R[i] \in D
      /\ \A i, j \in 1 .. n : R[i] = R[j] => i = j
      /\ z \in Nat /\ \A i \in 1 .. z : Z[i] \in S
      /\ \A i, j \in 1 .. z : Z[i] = Z[j] => i = j
  BY <1>3 DEF Lists
<1> HIDE DEF n, z
<1>5. /\ t.n_routes = n /\ t.n_stops = z
      /\ \A r \in 1 .. n : t.routes[r].id = R[r] /\ RouteReadBack(doc, t, r)
      /\ \A x \in 1 .. z : t.stops[x].id = Z[x] /\ StopReadBack(doc, t, x)
  BY <1>3 DEF ReadBack, R, Z, D, S, doc
<1>6. /\ Cardinality(Route) = n /\ Cardinality(Stop) = z
      /\ \A r \in Route : r + 1 \in 1 .. n
      /\ \A x \in Stop : x + 1 \in 1 .. z
  <2>1. Cardinality(0 .. n - 1) = n /\ Cardinality(0 .. z - 1) = z
    BY <1>4, FromZero
  <2>2. QED
    BY <1>2, <1>4, <2>1
<1>7. /\ \A x \in S : Index(Z, x) \in 0 .. z - 1 /\ Z[Index(Z, x) + 1] = x
      /\ \A i \in 1 .. z : Index(Z, Z[i]) = i - 1
  BY <1>3, IndexOfKey DEF z
<1>8. ASSUME NEW r \in Route
      PROVE  LET trips == ScannedTrips(t, r + 1) IN
             /\ ScannedStops(t, r + 1) = RouteStops[r]
             /\ [k \in DOMAIN trips |-> TimesOf(t, trips[k], t.routes[r + 1].n_stops)] = Trips[r]
  <2> DEFINE line == LineOf(doc, t.routes[r + 1].id)
             way == WayOf(line)
             stops == ScannedStops(t, r + 1)
             trips == ScannedTrips(t, r + 1)
             order == InTripOrder(Numbers(line))
             m == t.routes[r + 1].n_stops
  <2>1. /\ m = Len(way)
        /\ stops = [i \in 1 .. Len(way) |-> stops[i]]
        /\ \A i \in 1 .. Len(way) :
             stops[i] \in 0 .. t.n_stops - 1 /\ t.stops[stops[i] + 1].id = way[i]
        /\ DOMAIN trips = 1 .. Len(trips) /\ Len(trips) = Len(order)
        /\ \A k \in 1 .. Len(order) :
             TimesOf(t, trips[k], Len(way)) = TimesOfRide(RideOf(line, order[k]))
    BY <1>5, <1>6 DEF RouteReadBack
  <2>2. line = LineOf(doc, R[r + 1]) /\ R[r + 1] \in Directions(doc)
    BY <1>4, <1>5, <1>6 DEF D
  <2> HIDE DEF line
  <2>3. PICK l \in DOMAIN doc : line = doc[l]
    BY <1>1, <2>2, LineOfDirection
  <2>4. way \in Seq(Nat)
    BY <1>1, <2>3, TrustedLine
  <2>5. DOMAIN order = 1 .. Len(order)
    <3>1. Numbers(doc[l]) \in SUBSET RideNumber
      BY <1>1, NumbersOfLine
    <3>2. Lists(order, Numbers(line))
      BY <2>3, <3>1, TripOrderLists
    <3>3. QED
      BY <3>2 DEF Lists
  <2>6. /\ Trips[r] = TripsOf(line)
        /\ RouteStops[r] = [i \in DOMAIN way |-> Index(Z, way[i])]
    BY <1>2, <2>2
  <2>7. TripsOf(line) = [k \in 1 .. Len(order) |-> TimesOfRide(RideOf(line, order[k]))]
    BY <2>5 DEF TripsOf
  <2> HIDE DEF way, stops, trips, order, m
  <2>8. stops = RouteStops[r]
    <3>1. DOMAIN way = 1 .. Len(way)
      BY <2>4
    <3>2. ASSUME NEW i \in 1 .. Len(way) PROVE stops[i] = Index(Z, way[i])
      <4>1. stops[i] + 1 \in 1 .. z /\ stops[i] \in Int /\ Z[stops[i] + 1] = way[i]
        BY <1>4, <1>5, <2>1
      <4>2. QED
        BY <1>7, <4>1
    <3>3. QED
      BY <2>1, <2>6, <3>1, <3>2
  <2>9. [k \in DOMAIN trips |-> TimesOf(t, trips[k], m)] = TripsOf(line)
    BY <2>1, <2>7
  <2>10. QED
    BY <2>6, <2>8, <2>9 DEF stops, trips, m
<1>9. ASSUME NEW x \in Stop
      PROVE  Range(ScannedRoutes(t, x + 1)) = {r \in Route : Serves(r, x)}
  <2> DEFINE Y == Range(ScannedRoutes(t, x + 1))
  <2>1. /\ Y \subseteq 0 .. t.n_routes - 1
        /\ {t.routes[y + 1].id : y \in Y}
             = {d \in Directions(doc) : t.stops[x + 1].id \in Range(WayOf(LineOf(doc, d)))}
    BY <1>5, <1>6 DEF StopReadBack
  <2>2. t.stops[x + 1].id = Z[x + 1] /\ \A y \in Route : t.routes[y + 1].id = R[y + 1]
    BY <1>5, <1>6
  <2> HIDE DEF Y
  <2>3. Y \subseteq Route
    BY <1>2, <1>5, <2>1
  <2>4. {R[y + 1] : y \in Y} = {d \in D : Z[x + 1] \in Range(WayOf(LineOf(doc, d)))}
    BY <2>1, <2>2, <2>3 DEF D
  <2>5. ASSUME NEW r \in Route
        PROVE  Serves(r, x) <=> Z[x + 1] \in Range(WayOf(LineOf(doc, R[r + 1])))
    <3>1. PICK way \in Seq(Nat) : way = WayOf(LineOf(doc, R[r + 1])) /\ Range(way) \subseteq S
      <4>1. R[r + 1] \in Directions(doc)
        BY <1>4, <1>6 DEF D
      <4>2. PICK l \in DOMAIN doc : LineOf(doc, R[r + 1]) = doc[l]
        BY <1>1, <4>1, LineOfDirection
      <4>3. WayOf(doc[l]) \in Seq(Nat)
        BY <1>1, TrustedLine
      <4>4. Range(WayOf(doc[l])) \subseteq S
        BY DEF StopIds, S
      <4>5. QED
        BY <4>2, <4>3, <4>4
    <3>2. RouteStops[r] = [i \in DOMAIN way |-> Index(Z, way[i])]
      BY <1>2, <3>1
    <3>3. Serves(r, x) <=> \E i \in DOMAIN way : Index(Z, way[i]) = x
      BY <3>2 DEF Serves, Range
    <3>4. \A i \in DOMAIN way : Index(Z, way[i]) = x <=> way[i] = Z[x + 1]
      <4>1. ASSUME NEW i \in DOMAIN way PROVE Index(Z, way[i]) = x <=> way[i] = Z[x + 1]
        <5>1. way[i] \in S
          BY <3>1 DEF Range
        <5>2. Z[Index(Z, way[i]) + 1] = way[i]
          BY <1>7, <5>1
        <5>3. Index(Z, Z[x + 1]) = (x + 1) - 1 /\ (x + 1) - 1 = x
          BY <1>2, <1>4, <1>6, <1>7
        <5>4. QED
          BY <5>2, <5>3
      <4>2. QED
        BY <4>1
    <3>5. QED
      BY <3>1, <3>3, <3>4 DEF Range
  <2>6. ASSUME NEW y \in Y PROVE y \in Route /\ Serves(y, x)
    <3>1. y \in Route /\ R[y + 1] \in {d \in D : Z[x + 1] \in Range(WayOf(LineOf(doc, d)))}
      BY <2>3, <2>4
    <3>2. QED
      BY <2>5, <3>1
  <2>7. ASSUME NEW r \in Route, Serves(r, x) PROVE r \in Y
    <3>1. R[r + 1] \in {R[y + 1] : y \in Y}
      BY <1>4, <1>6, <2>4, <2>5, <2>7
    <3>2. PICK y \in Y : R[y + 1] = R[r + 1]
      BY <3>1
    <3>3. y + 1 \in 1 .. n /\ r + 1 \in 1 .. n /\ y \in Int /\ r \in Int
      BY <1>2, <1>4, <1>6, <2>3
    <3>4. y + 1 = r + 1
      BY <1>4, <3>2, <3>3
    <3>5. y = r
      BY <3>3, <3>4
    <3>6. QED
      BY <3>5
  <2>8. QED
    BY <2>6, <2>7 DEF Y
<1>10. QED
  BY <1>5, <1>6, <1>8, <1>9 DEF ReadAsNetwork

\* A timetable of maps that hold all of a document is one of the document.
LEMMA LayoutOf ==
  ASSUME NEW doc, Trusted(doc), NEW sr, NEW rs, NEW times, MapsFull(doc, sr, rs, times)
  PROVE  LaidOutFrom(doc, rtimetable(sr, rs, times))
<1> DEFINE t == rtimetable(sr, rs, times)
<1>1. Fields(t, sr, rs, times)
  BY TimetableFields
<1> HIDE DEF t
<1>2. ReadBack(doc, t)
  BY <1>1, LayoutReadBack
<1>3. Addressed(t) /\ Faithful(doc, t)
  BY <1>2, ReadBackAddressed, ReadBackFaithful
<1>4. doc = Searched => ReadAsNetwork(t)
  BY <1>2, ReadBackNetwork
<1>5. QED
  BY <1>3, <1>4 DEF LaidOutFrom, t

\* What the maps hold while a document is read are maps of lists.
LEMMA MapsReadTypes ==
  ASSUME NEW doc, NEW k, NEW sr, NEW rs, NEW times, MapsRead(doc, k, sr, rs, times)
  PROVE  /\ \A x \in DOMAIN sr : sr[x] \in Seq(DOMAIN rs)
         /\ \A r \in DOMAIN rs : rs[r] \in Seq(DOMAIN sr)
         /\ \A r \in DOMAIN times : \A n \in DOMAIN times[r] : times[r][n] \in Seq(Nat)
  BY DEF MapsRead, StopsRead, RoutesRead, TimesRead

-----------------------------------------------------------------------------
(* The process.  Reading, building, saving, loading and restarting keep    *)
(* the invariant.                                                          *)

\* Reading begins with nothing read.
LEMMA TimetableInvInit ==
  ASSUME NEW doc \in Documents
  PROVE  /\ 0 \in 0 .. Len(Entries(doc))
         /\ Entries(doc) = SubSeq(Entries(doc), 0 + 1, Len(Entries(doc)))
         /\ MapsRead(doc, 0, EmptyMap, EmptyMap, EmptyMap)
<1>1. Trusted(doc)
  BY DocumentAssumption
<1>2. Entries(doc) \in Seq(Entry)
  BY <1>1, EntriesPlaced DEF Trusted
<1>3. PICK s \in Seq(Entry) : s = Entries(doc)
  BY <1>2
<1>4. Len(s) \in Nat /\ s = SubSeq(s, 1, Len(s))
  OBVIOUS
<1>5. QED
  BY <1>1, <1>3, <1>4, MapsReadInit

\* Reading goes on by one entry.
LEMMA ReadStopInv ==
  ASSUME TimetableInv, ReadStop, UNCHANGED serialized
  PROVE  TimetableInv'
<1>1. PICK doc \in Documents : doc = document
  BY DEF TimetableInv
<1>2. Trusted(doc) /\ Entries(doc) \in Seq(Entry)
  BY DocumentAssumption, EntriesPlaced DEF Trusted
<1>3. PICK E \in Seq(Entry) : E = Entries(doc)
  BY <1>2
<1>4. PICK k \in 0 .. Len(E) : /\ todo = SubSeq(E, k + 1, Len(E))
                               /\ MapsRead(doc, k, sr_map, rs_map, rtstime_map)
  BY <1>1, <1>3 DEF TimetableInv
<1>5. /\ todo # <<>> /\ add_stop(Head(todo)) /\ add_stop_time(Head(todo)) /\ todo' = Tail(todo)
      /\ document' = document /\ tt' = tt /\ serialized' = serialized
  BY DEF ReadStop
<1>6. /\ k \in 0 .. Len(E) - 1 /\ k + 1 \in 0 .. Len(E)
      /\ Head(todo) = E[k + 1] /\ todo' = SubSeq(E, (k + 1) + 1, Len(E))
  <2>1. Len(E) \in Nat /\ k < Len(E)
    BY <1>4, <1>5
  <2>2. Head(todo) = E[k + 1]
    BY <1>4, <2>1
  <2>3. Tail(SubSeq(E, k + 1, Len(E))) = SubSeq(E, (k + 1) + 1, Len(E))
    BY <2>1
  <2>4. QED
    BY <1>4, <1>5, <2>1, <2>2, <2>3
<1>7. StopAdded(E[k + 1], sr_map, rs_map, sr_map', rs_map')
  BY <1>5, <1>6 DEF add_stop, StopAdded
<1>8. TimeAdded(E[k + 1], rtstime_map, rtstime_map')
  BY <1>5, <1>6 DEF add_stop_time, TimeAdded, RidesAt
<1>9. MapsRead(doc, k + 1, sr_map', rs_map', rtstime_map')
  <2>1. PICK sr, rs, times : sr = sr_map /\ rs = rs_map /\ times = rtstime_map
    OBVIOUS
  <2>2. PICK sr2, rs2, times2 : sr2 = sr_map' /\ rs2 = rs_map' /\ times2 = rtstime_map'
    OBVIOUS
  <2>3. MapsRead(doc, k + 1, sr2, rs2, times2)
    BY <1>2, <1>3, <1>4, <1>6, <1>7, <1>8, <2>1, <2>2, MapsReadStep
  <2>4. QED
    BY <2>2, <2>3
<1>10. /\ tt' = NoTimetable \/ LaidOutFrom(doc, tt')
       /\ serialized' \in {Absent, Partial} \/ LaidOutFrom(doc, serialized')
  BY <1>1, <1>5 DEF TimetableInv, NoTimetable, Absent, Partial
<1>11. QED
  BY <1>1, <1>3, <1>5, <1>6, <1>9, <1>10 DEF TimetableInv, NoTimetable, Absent, Partial

\* What is built when all has been read is a timetable of the document.
LEMMA BuildInv ==
  ASSUME TimetableInv, Build, UNCHANGED serialized
  PROVE  TimetableInv'
<1>1. PICK doc \in Documents : doc = document
  BY DEF TimetableInv
<1>2. Trusted(doc) /\ Entries(doc) \in Seq(Entry)
  BY DocumentAssumption, EntriesPlaced DEF Trusted
<1>3. PICK E \in Seq(Entry) : E = Entries(doc)
  BY <1>2
<1>4. PICK k \in 0 .. Len(E) : /\ todo = SubSeq(E, k + 1, Len(E))
                               /\ MapsRead(doc, k, sr_map, rs_map, rtstime_map)
  BY <1>1, <1>3 DEF TimetableInv
<1>5. /\ todo = <<>> /\ tt' = rtimetable(sr_map, rs_map, rtstime_map)
      /\ UNCHANGED <<document, todo, sr_map, rs_map, rtstime_map, serialized>>
  BY DEF Build
<1>6. k = Len(E)
  <2>1. SubSeq(E, k + 1, Len(E)) = <<>>
    BY <1>4, <1>5
  <2>2. Len(E) \in Nat /\ k \in 0 .. Len(E)
    OBVIOUS
  <2>3. ~ (k < Len(E))
    <3> SUFFICES ASSUME k < Len(E) PROVE FALSE
      OBVIOUS
    <3>1. Len(SubSeq(E, k + 1, Len(E))) = Len(E) - k
      BY <2>2
    <3>2. Len(<<>>) = 0
      OBVIOUS
    <3>3. Len(SubSeq(E, k + 1, Len(E))) = 0
      BY <2>1, <3>2, Zenon
    <3>4. QED
      BY <2>2, <3>1, <3>3
  <2>4. QED
    BY <2>2, <2>3
<1>7. MapsFull(doc, sr_map, rs_map, rtstime_map)
  BY <1>2, <1>3, <1>4, <1>6, AllMapsRead
<1>8. LaidOutFrom(doc, tt')
  BY <1>2, <1>5, <1>7, LayoutOf
<1>9. serialized' \in {Absent, Partial} \/ LaidOutFrom(doc, serialized')
  BY <1>1, <1>5 DEF TimetableInv, Absent, Partial
<1>10. QED
  BY <1>1, <1>3, <1>4, <1>5, <1>8, <1>9 DEF TimetableInv, NoTimetable, Absent, Partial

\* Whatever the process does, reading, building, saving and loading keep to the
\* document, across restarts.
LEMMA TimetableInvariance == TransitSpec => []TimetableInv
<1>1. TransitInit => TimetableInv
  <2> SUFFICES ASSUME TransitInit PROVE TimetableInv
    OBVIOUS
  <2>1. /\ document \in Documents /\ todo = Entries(document) /\ tt = NoTimetable
        /\ sr_map = EmptyMap /\ rs_map = EmptyMap /\ rtstime_map = EmptyMap
        /\ serialized = Absent
    BY DEF TransitInit, TimetableInit
  <2>2. QED
    BY <2>1, TimetableInvInit DEF TimetableInv
<1>2. TimetableInv /\ [TransitNext]_<<vars, process, serialized>> => TimetableInv'
  <2> SUFFICES ASSUME TimetableInv, [TransitNext]_<<vars, process, serialized>>
               PROVE  TimetableInv'
    OBVIOUS
  <2>1. CASE ParseTimetable
    BY <2>1, ReadStopInv, BuildInv DEF ParseTimetable, TimetableNext
  <2>2. CASE SaveTimetable
    BY <2>2 DEF SaveTimetable, TimetableInv, process, timetable, Built
  <2>3. CASE LoadTimetable
    BY <2>3 DEF LoadTimetable, Loading, TimetableInv
  <2>4. CASE LoadRefused
    BY <2>4 DEF LoadRefused, TimetableInv, timetable
  <2>5. CASE Restart
    <3>1. PICK doc \in Documents : doc = document
      BY DEF TimetableInv
    <3>2. /\ document' = doc /\ todo' = Entries(doc) /\ tt' = NoTimetable
          /\ sr_map' = EmptyMap /\ rs_map' = EmptyMap /\ rtstime_map' = EmptyMap
          /\ serialized' = serialized \/ serialized' \in {Absent, Partial}
      BY <2>5, <3>1 DEF Restart, Absent, Partial
    <3>3. serialized' \in {Absent, Partial} \/ LaidOutFrom(doc, serialized')
      BY <3>1, <3>2 DEF TimetableInv, Absent, Partial
    <3>4. \E k \in 0 .. Len(Entries(doc)) :
            /\ todo' = SubSeq(Entries(doc), k + 1, Len(Entries(doc)))
            /\ MapsRead(doc, k, sr_map', rs_map', rtstime_map')
      BY <3>2, TimetableInvInit
    <3>5. QED
      BY <3>2, <3>3, <3>4 DEF TimetableInv, NoTimetable, Absent, Partial
  <2>6. CASE Ask
    BY <2>6 DEF Ask, TimetableInv, timetable
  <2>7. CASE Search
    BY <2>7 DEF Search, TimetableInv, process, timetable
  <2>8. CASE UNCHANGED <<vars, process, serialized>>
    BY <2>8 DEF TimetableInv, process, timetable
  <2>9. QED
    BY <2>1, <2>2, <2>3, <2>4, <2>5, <2>6, <2>7, <2>8 DEF TransitNext
<1>3. QED
  BY <1>1, <1>2, PTL DEF TransitSpec

\* The search and the timetable hold values of their kinds, for every set of
\* documents and in whichever run of the planner: every offset and index that the
\* search follows unchecked, of a timetable built or loaded, is inside its array.
THEOREM TimetableTypes == TransitSpec => []TransitTypeOK
<1>1. TimetableInv => TimetableTypeOK
  <2> SUFFICES ASSUME TimetableInv PROVE TimetableTypeOK
    OBVIOUS
  <2>1. document \in Documents /\ (Built => Addressed(tt))
    BY DEF TimetableInv, Built, LaidOutFrom
  <2>2. PICK k \in 0 .. Len(Entries(document)) :
          MapsRead(document, k, sr_map, rs_map, rtstime_map)
    BY DEF TimetableInv
  <2>3. QED
    BY <2>1, <2>2, MapsReadTypes DEF TimetableTypeOK
<1>2. TypeOK /\ TimetableInv => TransitTypeOK
  BY <1>1 DEF TransitTypeOK
<1>3. QED
  BY <1>2, SearchTypes, TimetableInvariance, PTL

\* rtimetable: the three kinds of offsets, which advance at different paces over
\* maps read in the order of their keys, give every document back, whatever lines,
\* rides and stops it has, also when the timetable comes from the file of an
\* earlier run.
THEOREM FaithfulLayout == TransitSpec => []LayoutFaithful
<1>1. TimetableInv => LayoutFaithful
  BY DEF TimetableInv, LaidOutFrom, LayoutFaithful, Built
<1>2. QED
  BY <1>1, TimetableInvariance, PTL

\* What the loops of RAPTOR_algorithm find through the offsets is the network that
\* the other theorems are about.
THEOREM NetworkRead == TransitSpec => []SearchReadsTimetable
<1>1. TimetableInv => SearchReadsTimetable
  BY DEF TimetableInv, LaidOutFrom, SearchReadsTimetable, Built
<1>2. QED
  BY <1>1, TimetableInvariance, PTL

=============================================================================
