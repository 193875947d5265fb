-------------------------- MODULE MCTransitNetwork --------------------------
(***************************************************************************)
(* A town with three lines.  Line 0 crosses it, line 1 is the faster way   *)
(* between two of its stops and goes on to a stop of its own, line 2 is a  *)
(* loop that passes one stop twice.  Their ids are not without gaps.       *)
(*                                                                         *)
(* Besides, documents of two lines, in either order, with one to three     *)
(* rides in any order, along a straight way, a way back, a loop, or with   *)
(* no stop at all.                                                         *)
(***************************************************************************)
EXTENDS TransitNetwork

MCStop  == 0 .. 4
MCRoute == 0 .. 2

MCRouteStops == [r \in MCRoute |->
  CASE r = 0 -> <<0, 1, 2, 3>>
    [] r = 1 -> <<1, 3, 4>>
    [] r = 2 -> <<2, 4, 2, 0>>]

\* The rides of each line, from the first to the last of the day.
RideTimes == [r \in MCRoute |->
  CASE r = 0 -> << <<1, 3, 5, 8>>, <<4, 6, 8, 11>>, <<8, 10, 12, 15>> >>
    [] r = 1 -> << <<3, 4, 9>>, <<5, 6, 10>> >>
    [] r = 2 -> << <<2, 4, 6, 7>>, <<6, 7, 9, 11>> >>]

\* Their numbers: without a gap, and as on a day on which few of them run.
Daily  == <<0, 1, 2>>
Sunday == <<0, 2, 10>>

\* The rides as the timetable lays them out, numbered as given.
LaidOut(numbers) ==
  [r \in MCRoute |->
     LET rides == {numbers[n] : n \in DOMAIN RideTimes[r]}
         order == InTripOrder(rides)
     IN  [n \in DOMAIN order |->
            RideTimes[r][CHOOSE k \in DOMAIN RideTimes[r] : numbers[k] = order[n]]]]

DailyTrips  == LaidOut(Daily)
SundayTrips == LaidOut(Sunday)

\* What the exactness of the search rests on holds of the one and not of the other.
ASSUME DaysAssumption == TimesInOrder(DailyTrips) /\ ~ TimesInOrder(SundayTrips)

\* The document of the town.
TownDocument(numbers) ==
  [l \in 1 .. 3 |->
     [direction |-> 3 * l,
      rides |-> [n \in DOMAIN RideTimes[l - 1] |->
        [number |-> numbers[n],
         stops |-> [i \in DOMAIN MCRouteStops[l - 1] |->
                      <<2 * MCRouteStops[l - 1][i] + 1, RideTimes[l - 1][n][i]>>]]]]]

DailyTown  == TownDocument(Daily)
SundayTown == TownDocument(Sunday)

\* One or two stops near the origin, or none.
MCOrigins ==
  {<<>>} \cup {<< <<x, d>> >> : x \in MCStop, d \in {0, 3}}
         \cup {<< <<x, 0>>, <<y, d>> >> : x \in MCStop, y \in MCStop, d \in {1, 4}}

MCDestinations ==
  {<<>>} \cup {<< <<x, 0>> >> : x \in MCStop}
         \cup {<< <<x, 0>>, <<y, d>> >> : x \in MCStop, y \in MCStop, d \in {1, 4}}

Once(S) == {q \in S : Len(q) = 2 => q[1][1] # q[2][1]}

MCNearOrigin      == Once(MCOrigins)
MCNearDestination == Once(MCDestinations)

MCMaxTransfers == 2

Ways == {<<>>, <<0, 1, 2>>, <<2, 0>>, <<1, 3, 1>>}
RideOrders == {<<0>>, <<0, 1>>, <<1, 0>>, <<0, 2, 10>>, <<10, 0, 2>>}

\* Later rides have higher numbers.
Line(d, way, numbers) ==
  [direction |-> d,
   rides |-> [k \in DOMAIN numbers |->
     [number |-> numbers[k],
      stops |-> [i \in DOMAIN way |-> <<way[i], 20 * numbers[k] + 10 * d + i>>]]]]

FewLines ==
  {<<Line(o[1], v, m), Line(o[2], w, n)>> :
     o \in {<<0, 1>>, <<1, 0>>}, v \in Ways, w \in Ways, m \in RideOrders, n \in RideOrders}

DailyDocuments  == FewLines \cup {DailyTown}
SundayDocuments == FewLines \cup {SundayTown}

=============================================================================
