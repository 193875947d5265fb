-------------------------- MODULE MCBicycleSearch --------------------------
(***************************************************************************)
(* Five junctions: 3 is reached from 0 directly, by 1 or by 2, and the     *)
(* target 4 from 3 only.  In towns of a few metres epsilon has no effect;  *)
(* in longer ones it has; in wide ones vertex 2 lies out of the ellipse.   *)
(***************************************************************************)
EXTENDS BicycleSearch

MCVertex == 0 .. 4

Streets == {{0, 1}, {1, 3}, {0, 2}, {2, 3}, {0, 3}, {3, 4}}

\* Distances along a line on which each vertex has a place.
Along(place) ==
  [u \in MCVertex |-> [v \in MCVertex |->
    IF place[u] < place[v] THEN place[v] - place[u] ELSE place[u] - place[v]]]

At5(a, b, c, d, e) == [v \in MCVertex |-> <<a, b, c, d, e>>[v + 1]]

\* Lengths in the order 0-1, 1-3, 0-2, 2-3, 0-3, 3-4.
Lengths(l) ==
  [street \in Streets |->
    CASE street = {0, 1} -> l[1] [] street = {1, 3} -> l[2]
      [] street = {0, 2} -> l[3] [] street = {2, 3} -> l[4]
      [] street = {0, 3} -> l[5] [] street = {3, 4} -> l[6]]

Towns(lengths, safe, place) ==
  {[length |-> Lengths(l), safe |-> f, distance |-> Along(place)] : l \in lengths, f \in safe}

Short == Towns({1} \X {1, 2} \X {2} \X {1, 2} \X {1, 4} \X {1}, SUBSET Streets,
               At5(0, 0, 0, 0, 0))

Long == Towns({4} \X {36, 39} \X {20} \X {20, 21} \X {10, 41} \X {40}, SUBSET Streets,
              At5(0, 4, 0, 5, 5))

Wide == Towns({300, 400} \X {150, 250} \X {900} \X {1350} \X {450, 470} \X {150},
              {{}, {{0, 1}, {1, 3}}, {{0, 2}, {2, 3}}, {{3, 4}}, Streets},
              At5(0, 300, -900, 450, 600))

Wider == Towns({600, 800} \X {300, 500} \X {900} \X {1800} \X {900, 940} \X {300},
              {{}, {{0, 1}, {1, 3}}, {{0, 2}, {2, 3}}, {{3, 4}}, Streets},
              At5(0, 600, -900, 900, 1200))

MCTown == Short \cup Long \cup Wide \cup Wider

MCTrip == {<<0, 4>>, <<3, 0>>}

MCLongTown == Long
MCLongTrip == {<<0, 4>>}

=============================================================================
