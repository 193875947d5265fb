---------------------------- MODULE TransitData ----------------------------
(***************************************************************************)
(* The vocabulary of timetables: the JSON document a timetable is built    *)
(* from, and the order in which its names sort.  A stop and a line         *)
(* direction are numbers in the order of their ids; a ride has a number.   *)
(***************************************************************************)
EXTENDS Integers, Sequences, FiniteSets, SequencesExt

\* Ride numbers have up to three digits.
RideNumber == 0 .. 999

\* The lines of a document; each stop of a ride comes with the time at it.
Document ==
  Seq([direction : Nat, rides : Seq([number : RideNumber, stops : Seq(Nat \X Nat)])])

\* The elements of a finite set one after the other: the place of each is given
\* by how many come before it, and so is that of a key of a std::map.
Sorted(S, before) ==
  [i \in 1 .. Cardinality(S) |->
     CHOOSE x \in S : Cardinality({y \in S : <<y, x>> \in before}) = i - 1]

Ascending(S) == Sorted(S, {p \in S \X S : p[1] < p[2]})

\* The digits of a ride number, filled up on the right.
Padded(n) == IF n < 10 THEN 100 * n ELSE IF n < 100 THEN 10 * n ELSE n

\* Trips are keyed by strings that end in the number of their ride, as ToString
\* writes it, so they sort as strings do: ride 10 comes before ride 2.
RideBefore(m, n) ==
  \/ Padded(m) < Padded(n)
  \/ Padded(m) = Padded(n) /\ m < n

InTripOrder(rides) == Sorted(rides, {p \in rides \X rides : RideBefore(p[1], p[2])})

\* The stops of a ride, and the times at them.
StopsOfRide(ride) == [i \in DOMAIN ride.stops |-> ride.stops[i][1]]
TimesOfRide(ride) == [i \in DOMAIN ride.stops |-> ride.stops[i][2]]

\* What json_director trusts of a document: directions name lines, ride 0 gives
\* the stops of a line, and all its rides serve them.
Trusted(doc) ==
  /\ doc \in Document
  /\ \A l, m \in DOMAIN doc : doc[l].direction = doc[m].direction => l = m
  /\ \A l \in DOMAIN doc :
       LET rides == doc[l].rides IN
       /\ \E i \in DOMAIN rides : rides[i].number = 0
       /\ \A i, j \in DOMAIN rides :
            /\ rides[i].number = rides[j].number => i = j
            /\ StopsOfRide(rides[i]) = StopsOfRide(rides[j])

-----------------------------------------------------------------------------
(* What a trusted document says.                                           *)

LineOf(doc, d) == doc[CHOOSE l \in DOMAIN doc : doc[l].direction = d]

\* The stops of a line.
WayOf(line) == StopsOfRide(line.rides[1])

\* The lines that stop somewhere, by direction, and where they do.
Directions(doc) == {doc[l].direction : l \in {m \in DOMAIN doc : WayOf(doc[m]) # <<>>}}
StopIds(doc)    == UNION {Range(WayOf(doc[l])) : l \in DOMAIN doc}

Numbers(line) == {line.rides[k].number : k \in DOMAIN line.rides}

RideOf(line, n) == line.rides[CHOOSE k \in DOMAIN line.rides : line.rides[k].number = n]

\* The rides of a line as they sort, each by its times.
TripsOf(line) ==
  [n \in DOMAIN InTripOrder(Numbers(line)) |->
     TimesOfRide(RideOf(line, InTripOrder(Numbers(line))[n]))]

=============================================================================
