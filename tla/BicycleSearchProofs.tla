------------------------ MODULE BicycleSearchProofs ------------------------
(***************************************************************************)
(* What holds of the bicycle search in any town: one pass along two bags   *)
(* merges them exactly, no label is invented, when the search stops the    *)
(* target has a label for every route through the ellipse, and the routes  *)
(* written cost what the labels chosen say and lie apart.                  *)
(***************************************************************************)
EXTENDS BicycleSearch, NaturalLemmas, FiniteSetTheorems, SequenceTheorems

-----------------------------------------------------------------------------
(* Labels, and bags: the further a label is, the safer.                    *)

Label == Nat \X Nat

Stairs(S) ==
  \A m, n \in DOMAIN S : m < n => S[m][1] < S[n][1] /\ S[n][2] < S[m][2]

IsBag(S) == S \in Seq(Label) /\ Stairs(S)

\* The positions of a bag are numbers, its elements labels.
LEMMA BagParts ==
  ASSUME NEW S, IsBag(S)
  PROVE  /\ Len(S) \in Nat /\ DOMAIN S = 1 .. Len(S)
         /\ \A n \in 1 .. Len(S) : S[n] \in Label /\ S[n][1] \in Nat /\ S[n][2] \in Nat
         /\ \A m, n \in 1 .. Len(S) : m < n => S[m][1] < S[n][1] /\ S[n][2] < S[m][2]
<1>1. S \in Seq(Label)
  BY DEF IsBag
<1>2. Len(S) \in Nat /\ DOMAIN S = 1 .. Len(S)
  BY <1>1, LenProperties
<1>3. \A n \in 1 .. Len(S) : S[n] \in Label
  BY <1>1, ElementOfSeq
<1>4. \A n \in 1 .. Len(S) : S[n][1] \in Nat /\ S[n][2] \in Nat
  BY <1>3 DEF Label
<1>5. QED
  BY <1>2, <1>3, <1>4 DEF IsBag, Stairs

\* The members of a sequence are its elements.
LEMMA Members ==
  ASSUME NEW T, NEW S \in Seq(T)
  PROVE  \A x : x \in ToSet(S) <=> \E n \in 1 .. Len(S) : x = S[n]
BY LenProperties DEF ToSet

\* A label inflated is one, not below it, and inflating keeps the order.
LEMMA InflatedLabel ==
  ASSUME NEW a \in Label
  PROVE  Inflated(a) \in Label /\ Covers(a, Inflated(a))
<1>1. a[1] \in Nat /\ a[2] \in Nat
  BY DEF Label
<1>2. \A x \in Nat : (105 * x) \div 100 \in Nat /\ x <= (105 * x) \div 100
  OBVIOUS
<1>3. QED
  BY <1>1, <1>2 DEF Inflated, Covers, Label

\* One that is longer, or less safe, is so when both are inflated.
LEMMA InflatedStrictly ==
  ASSUME NEW x \in Nat, NEW y \in Nat, x < y
  PROVE  (105 * x) \div 100 < (105 * y) \div 100
OBVIOUS

\* A bag inflated label by label is a bag of as many labels, still sorted.
LEMMA InflatedBag ==
  ASSUME NEW X, IsBag(X)
  PROVE  /\ IsBag([k \in DOMAIN X |-> Inflated(X[k])])
         /\ Len([k \in DOMAIN X |-> Inflated(X[k])]) = Len(X)
         /\ \A k \in 1 .. Len(X) : [m \in DOMAIN X |-> Inflated(X[m])][k] = Inflated(X[k])
<1>1. /\ Len(X) \in Nat /\ DOMAIN X = 1 .. Len(X)
      /\ \A n \in 1 .. Len(X) : X[n] \in Label /\ X[n][1] \in Nat /\ X[n][2] \in Nat
      /\ \A m, n \in 1 .. Len(X) : m < n => X[m][1] < X[n][1] /\ X[n][2] < X[m][2]
  BY BagParts
<1> DEFINE I == [k \in DOMAIN X |-> Inflated(X[k])]
<1>2. \A k \in 1 .. Len(X) : I[k] = Inflated(X[k]) /\ I[k] \in Label
  BY <1>1, InflatedLabel
<1>3. I \in [1 .. Len(X) -> Label]
  BY <1>1, <1>2
<1> HIDE DEF I
<1>4. I \in Seq(Label) /\ DOMAIN I = 1 .. Len(X)
  BY <1>1, <1>3
<1>5. Len(I) = Len(X)
  BY <1>1, <1>4, LenProperties
<1>6. ASSUME NEW m \in 1 .. Len(X), NEW n \in 1 .. Len(X), m < n
      PROVE  I[m][1] < I[n][1] /\ I[n][2] < I[m][2]
  <2>1. X[m][1] < X[n][1] /\ X[n][2] < X[m][2]
    BY <1>1, <1>6
  <2>2. /\ (105 * X[m][1]) \div 100 < (105 * X[n][1]) \div 100
        /\ (105 * X[n][2]) \div 100 < (105 * X[m][2]) \div 100
    BY <1>1, <2>1, InflatedStrictly
  <2>3. QED
    BY <1>2, <2>2 DEF Inflated
<1>7. QED
  BY <1>2, <1>4, <1>5, <1>6 DEF I, IsBag, Stairs

\* The labels of a bag from a position on.
LEMMA RestOfBag ==
  ASSUME NEW S, IsBag(S), NEW n \in 1 .. Len(S) + 1
  PROVE  /\ IsBag(SubSeq(S, n, Len(S)))
         /\ \A x : x \in ToSet(SubSeq(S, n, Len(S))) <=> \E k \in n .. Len(S) : x = S[k]
         /\ n = Len(S) + 1 => SubSeq(S, n, Len(S)) = <<>>
<1>1. /\ Len(S) \in Nat /\ DOMAIN S = 1 .. Len(S)
      /\ \A m \in 1 .. Len(S) : S[m] \in Label
      /\ \A k, m \in 1 .. Len(S) : k < m => S[k][1] < S[m][1] /\ S[m][2] < S[k][2]
  BY BagParts
<1>2. PICK R : R = SubSeq(S, n, Len(S))
  OBVIOUS
<1>3. /\ R \in Seq(Label)
      /\ Len(R) = IF n <= Len(S) THEN Len(S) - n + 1 ELSE 0
      /\ \A i \in 1 .. Len(S) - n + 1 : R[i] = S[n + i - 1]
  <2>1. n \in Int /\ Len(S) \in Int /\ \A i \in n .. Len(S) : S[i] \in Label
    BY <1>1
  <2>2. QED
    BY <1>2, <2>1, SubSeqProperties
<1>4. Len(R) = Len(S) - n + 1 /\ DOMAIN R = 1 .. Len(R)
  BY <1>1, <1>3, LenProperties
<1>5. Stairs(R)
  <2> SUFFICES ASSUME NEW k \in 1 .. Len(R), NEW m \in 1 .. Len(R), k < m
               PROVE  R[k][1] < R[m][1] /\ R[m][2] < R[k][2]
    BY <1>4 DEF Stairs
  <2>1. n + k - 1 \in 1 .. Len(S) /\ n + m - 1 \in 1 .. Len(S) /\ n + k - 1 < n + m - 1
    BY <1>1, <1>4
  <2>2. R[k] = S[n + k - 1] /\ R[m] = S[n + m - 1]
    BY <1>3, <1>4
  <2>3. QED
    BY <1>1, <2>1, <2>2
<1>6. ASSUME NEW x PROVE x \in ToSet(R) <=> \E k \in n .. Len(S) : x = S[k]
  <2>1. x \in ToSet(R) <=> \E m \in 1 .. Len(R) : x = R[m]
    BY <1>3, Members
  <2>2. ASSUME NEW m \in 1 .. Len(R), x = R[m] PROVE \E k \in n .. Len(S) : x = S[k]
    <3>1. n + m - 1 \in n .. Len(S) /\ x = S[n + m - 1]
      BY <1>1, <1>3, <1>4, <2>2
    <3>2. QED
      BY <3>1
  <2>3. ASSUME NEW k \in n .. Len(S), x = S[k] PROVE \E m \in 1 .. Len(R) : x = R[m]
    <3>1. PICK m \in 1 .. Len(R) : k = n + m - 1
      <4>1. k - n + 1 \in 1 .. Len(R) /\ k = n + (k - n + 1) - 1
        BY <1>1, <1>4
      <4>2. QED
        BY <4>1
    <3>2. R[m] = S[k]
      BY <1>3, <1>4, <3>1
    <3>3. QED
      BY <2>3, <3>2
  <2>4. QED
    BY <2>1, <2>2, <2>3
<1>7. n = Len(S) + 1 => R = <<>>
  BY <1>1, <1>2, SubSeqEmpty
<1>8. QED
  BY <1>2, <1>3, <1>5, <1>6, <1>7 DEF IsBag

\* A label put before a bag of labels that are all further and safer.
LEMMA Prepended ==
  ASSUME NEW R, IsBag(R), NEW a \in Label,
         \A x \in ToSet(R) : a[1] < x[1] /\ x[2] < a[2]
  PROVE  /\ IsBag(<<a>> \o R)
         /\ \A x : x \in ToSet(<<a>> \o R) <=> x = a \/ x \in ToSet(R)
<1>1. R \in Seq(Label) /\ <<a>> \in Seq(Label) /\ Len(<<a>>) = 1 /\ <<a>>[1] = a
  BY DEF IsBag
<1>2. PICK Q : Q = <<a>> \o R
  OBVIOUS
<1>3. PICK one : one = <<a>>
  OBVIOUS
<1>4. /\ Q \in Seq(Label)
      /\ Len(Q) = 1 + Len(R)
      /\ \A i \in 1 .. 1 + Len(R) : Q[i] = IF i <= 1 THEN one[i] ELSE R[i - 1]
  <2>1. Q = one \o R /\ one \in Seq(Label) /\ Len(one) = 1
    BY <1>1, <1>2, <1>3
  <2>2. /\ one \o R \in Seq(Label)
        /\ Len(one \o R) = Len(one) + Len(R)
        /\ \A i \in 1 .. Len(one) + Len(R) :
             (one \o R)[i] = IF i <= Len(one) THEN one[i] ELSE R[i - Len(one)]
    BY <1>1, <2>1, ConcatProperties, Zenon
  <2>3. QED
    BY <2>1, <2>2
<1>5. Len(R) \in Nat /\ DOMAIN Q = 1 .. Len(Q) /\ DOMAIN R = 1 .. Len(R)
  BY <1>1, <1>4, LenProperties
<1>6. Q[1] = a /\ \A i \in 2 .. Len(Q) : Q[i] = R[i - 1] /\ i - 1 \in 1 .. Len(R)
  BY <1>1, <1>3, <1>4, <1>5
<1>7. \A i \in 1 .. Len(Q) : i = 1 \/ i \in 2 .. Len(Q)
  BY <1>4, <1>5
<1>8. ASSUME NEW x PROVE x \in ToSet(Q) <=> x = a \/ x \in ToSet(R)
  <2>1. x \in ToSet(Q) <=> \E m \in 1 .. Len(Q) : x = Q[m]
    BY <1>4, Members
  <2>2. x \in ToSet(R) <=> \E m \in 1 .. Len(R) : x = R[m]
    BY <1>1, Members
  <2>3. ASSUME NEW m \in 1 .. Len(R), x = R[m] PROVE \E i \in 1 .. Len(Q) : x = Q[i]
    <3>1. m + 1 \in 2 .. Len(Q) /\ m + 1 \in 1 .. Len(Q) /\ (m + 1) - 1 = m
      BY <1>4, <1>5
    <3>2. Q[m + 1] = x
      BY <1>6, <2>3, <3>1
    <3>3. QED
      BY <3>1, <3>2
  <2>4. 1 \in 1 .. Len(Q)
    BY <1>4, <1>5
  <2>5. QED
    BY <1>6, <1>7, <2>1, <2>2, <2>3, <2>4
<1>9. \A i \in 1 .. Len(R) : a[1] < R[i][1] /\ R[i][2] < a[2]
  BY <1>1, Members
<1>10. Stairs(Q)
  <2> SUFFICES ASSUME NEW k \in 1 .. Len(Q), NEW m \in 1 .. Len(Q), k < m
               PROVE  Q[k][1] < Q[m][1] /\ Q[m][2] < Q[k][2]
    BY <1>5 DEF Stairs
  <2>1. m \in 2 .. Len(Q)
    BY <1>4, <1>5
  <2>2. CASE k = 1
    BY <1>6, <1>9, <2>1, <2>2
  <2>3. CASE k \in 2 .. Len(Q)
    <3>1. k - 1 < m - 1 /\ k - 1 \in 1 .. Len(R) /\ m - 1 \in 1 .. Len(R)
      BY <1>6, <2>1, <2>3
    <3>2. R[k - 1][1] < R[m - 1][1] /\ R[m - 1][2] < R[k - 1][2]
      BY <1>5, <3>1 DEF IsBag, Stairs
    <3>3. QED
      BY <1>6, <2>1, <2>3, <3>2
  <2>4. QED
    BY <1>7, <2>2, <2>3
<1>11. QED
  BY <1>2, <1>4, <1>8, <1>10 DEF IsBag

-----------------------------------------------------------------------------
(* The walk along two bags.  It is a recursion over pairs of positions, and *)
(* each turn leaves fewer labels in front of them.                          *)

\* The first label that is safer than a, and all after it, are; none before is.
LEMMA SaferFound ==
  ASSUME NEW S, IsBag(S), NEW a \in Label, NEW n \in 1 .. Len(S) + 1
  PROVE  /\ Safer(S, a, n) \in n .. Len(S) + 1
         /\ \A m \in n .. Len(S) : m < Safer(S, a, n) => a[2] <= S[m][2]
         /\ \A m \in n .. Len(S) : Safer(S, a, n) <= m => S[m][2] < a[2]
<1>1. /\ Len(S) \in Nat
      /\ \A m \in 1 .. Len(S) : S[m][2] \in Nat
      /\ \A k, m \in 1 .. Len(S) : k < m => S[m][2] < S[k][2]
  BY BagParts
<1>2. a[2] \in Nat
  BY DEF Label
<1> DEFINE T == {k \in n .. Len(S) : S[k][2] < a[2]} \cup {Len(S) + 1}
<1>3. T \in SUBSET Nat /\ T # {}
  BY <1>1
<1>4. PICK k \in T : \A m \in T : k <= m
  <2> HIDE DEF T
  <2>1. QED
    BY <1>3, LeastNatural
<1>5. Safer(S, a, n) \in T /\ \A m \in T : Safer(S, a, n) <= m
  <2>1. Safer(S, a, n) = CHOOSE x \in T : \A m \in T : x <= m
    BY DEF Safer, Min
  <2> HIDE DEF T
  <2>2. QED
    BY <1>4, <2>1
<1>6. PICK x : x = Safer(S, a, n)
  OBVIOUS
<1>7. x \in T /\ \A m \in T : x <= m
  BY <1>5, <1>6
<1>8. x \in n .. Len(S) + 1
  BY <1>1, <1>7
<1>9. ASSUME NEW m \in n .. Len(S), m < x PROVE a[2] <= S[m][2]
  <2>1. m \notin T
    BY <1>7, <1>8, <1>9
  <2>2. QED
    BY <1>1, <1>2, <2>1
<1>10. ASSUME NEW m \in n .. Len(S), x <= m PROVE S[m][2] < a[2]
  <2>1. x \in n .. Len(S) /\ S[x][2] < a[2]
    BY <1>1, <1>7, <1>8, <1>10
  <2>2. CASE m = x
    BY <2>1, <2>2
  <2>3. CASE x < m
    BY <1>1, <1>2, <2>1, <2>3
  <2>4. QED
    BY <1>8, <1>10, <2>2, <2>3
<1>11. QED
  BY <1>6, <1>8, <1>9, <1>10

\* The pairs of positions, what the walk makes at one, and one turn of it.
Grid(X, Y) == (1 .. Len(X) + 1) \X (1 .. Len(Y) + 1)
Result == [kept : Seq(Label), merged : Seq(Label)]

Ended(X, Y, p) == p[1] > Len(X) \/ p[2] > Len(Y)

Following(X, seen, Y, p) ==
  IF seen[p[1]] = Y[p[2]] THEN <<p[1] + 1, p[2] + 1>>
  ELSE IF Before(seen[p[1]], Y[p[2]]) THEN <<p[1] + 1, Safer(Y, seen[p[1]], p[2])>>
  ELSE <<Safer(seen, Y[p[2]], p[1]), p[2] + 1>>

Turn(X, seen, Y, p, r) ==
  IF Ended(X, Y, p)
  THEN [kept   |-> SubSeq(X, p[1], Len(X)),
        merged |-> SubSeq(X, p[1], Len(X)) \o SubSeq(Y, p[2], Len(Y))]
  ELSE IF seen[p[1]] = Y[p[2]]
  THEN [kept |-> r.kept, merged |-> <<Y[p[2]]>> \o r.merged]
  ELSE IF Before(seen[p[1]], Y[p[2]])
  THEN [kept |-> <<X[p[1]]>> \o r.kept, merged |-> <<X[p[1]]>> \o r.merged]
  ELSE [kept |-> r.kept, merged |-> <<Y[p[2]]>> \o r.merged]

\* What may be walked along: two bags, and labels seen for the first.
Walkable(X, seen, Y) == IsBag(X) /\ IsBag(seen) /\ IsBag(Y) /\ Len(seen) = Len(X)

\* Where the walk has not ended, the positions are those of labels, and the
\* next ones are in front of them.
LEMMA NextTurn ==
  ASSUME NEW X, NEW seen, NEW Y, Walkable(X, seen, Y), NEW p \in Grid(X, Y), ~ Ended(X, Y, p)
  PROVE  /\ p[1] \in 1 .. Len(X) /\ p[2] \in 1 .. Len(Y)
         /\ Following(X, seen, Y, p) \in Grid(X, Y)
         /\ p[1] + p[2] < Following(X, seen, Y, p)[1] + Following(X, seen, Y, p)[2]
         /\ X[p[1]] \in Label /\ seen[p[1]] \in Label /\ Y[p[2]] \in Label
<1>1. PICK i \in 1 .. Len(X) + 1 : i = p[1]
  BY DEF Grid
<1>2. PICK j \in 1 .. Len(Y) + 1 : j = p[2]
  BY DEF Grid
<1>3. IsBag(X) /\ IsBag(seen) /\ IsBag(Y) /\ Len(seen) = Len(X)
  BY DEF Walkable
<1>4. Len(X) \in Nat /\ Len(Y) \in Nat
  BY <1>3, BagParts
<1>5. i \in 1 .. Len(X) /\ j \in 1 .. Len(Y)
  BY <1>1, <1>2, <1>4 DEF Ended
<1>6. X[i] \in Label /\ seen[i] \in Label /\ Y[j] \in Label
  BY <1>3, <1>5, BagParts
<1>7. Safer(Y, seen[i], j) \in j .. Len(Y) + 1 /\ Safer(seen, Y[j], i) \in i .. Len(X) + 1
  BY <1>3, <1>5, <1>6, SaferFound
<1>8. i + 1 \in 1 .. Len(X) + 1 /\ j + 1 \in 1 .. Len(Y) + 1
  BY <1>4, <1>5
<1>9. PICK y \in j .. Len(Y) + 1 : y = Safer(Y, seen[i], j)
  BY <1>7
<1>10. PICK x \in i .. Len(X) + 1 : x = Safer(seen, Y[j], i)
  BY <1>7
<1>11. Following(X, seen, Y, p) \in {<<i + 1, j + 1>>, <<i + 1, y>>, <<x, j + 1>>}
  BY <1>1, <1>2, <1>9, <1>10 DEF Following
<1>12. x \in 1 .. Len(X) + 1 /\ y \in 1 .. Len(Y) + 1
  BY <1>4
<1>13. QED
  BY SMTT(20), <1>1, <1>2, <1>4, <1>5, <1>6, <1>8, <1>11, <1>12 DEF Grid

\* The walk made at each pair of positions is one turn from that of the next.
Unfolded(X, seen, Y, f) ==
  /\ f \in [Grid(X, Y) -> Result]
  /\ \A p \in Grid(X, Y) :
       f[p] = Turn(X, seen, Y, p, f[Following(X, seen, Y, p)])
  /\ Walk(X, seen, Y) = f[<<1, 1>>]

\* A turn of the walk makes a result of the result of the turns after it.
LEMMA TurnMakes ==
  ASSUME NEW X, NEW seen, NEW Y, Walkable(X, seen, Y), NEW p \in Grid(X, Y),
         NEW r, ~ Ended(X, Y, p) => r \in Result
  PROVE  Turn(X, seen, Y, p, r) \in Result
<1>1. IsBag(X) /\ IsBag(Y)
  BY DEF Walkable
<1>2. Len(X) \in Nat /\ Len(Y) \in Nat
  BY <1>1, BagParts
<1>3. CASE Ended(X, Y, p)
  <2>1. p[1] \in 1 .. Len(X) + 1 /\ p[2] \in 1 .. Len(Y) + 1
    BY DEF Grid
  <2>2. IsBag(SubSeq(X, p[1], Len(X))) /\ IsBag(SubSeq(Y, p[2], Len(Y)))
    BY <1>1, <2>1, RestOfBag
  <2>3. PICK A \in Seq(Label) : A = SubSeq(X, p[1], Len(X))
    BY <2>2 DEF IsBag
  <2>4. PICK B \in Seq(Label) : B = SubSeq(Y, p[2], Len(Y))
    BY <2>2 DEF IsBag
  <2>5. A \o B \in Seq(Label)
    BY ConcatProperties
  <2>6. Turn(X, seen, Y, p, r) = [kept |-> A, merged |-> A \o B]
    BY <1>3, <2>3, <2>4 DEF Turn
  <2>7. QED
    BY <2>5, <2>6 DEF Result
<1>4. CASE ~ Ended(X, Y, p)
  <2>1. r \in Result /\ X[p[1]] \in Label /\ Y[p[2]] \in Label
    BY <1>4, NextTurn
  <2>2. ASSUME NEW a \in Label, NEW R \in Seq(Label) PROVE <<a>> \o R \in Seq(Label)
    OBVIOUS
  <2>3. r.kept \in Seq(Label) /\ r.merged \in Seq(Label)
    BY <2>1 DEF Result
  <2>4. PICK x \in Label : x = X[p[1]]
    BY <2>1
  <2>5. PICK y \in Label : y = Y[p[2]]
    BY <2>1
  <2>6. /\ <<x>> \o r.kept \in Seq(Label) /\ <<x>> \o r.merged \in Seq(Label)
        /\ <<y>> \o r.merged \in Seq(Label)
    BY <2>2, <2>3
  <2>7. Turn(X, seen, Y, p, r) \in {[kept |-> r.kept, merged |-> <<y>> \o r.merged],
                                    [kept |-> <<x>> \o r.kept, merged |-> <<x>> \o r.merged]}
    BY <1>4, <2>4, <2>5 DEF Turn
  <2>8. /\ [kept |-> r.kept, merged |-> <<y>> \o r.merged] \in Result
        /\ [kept |-> <<x>> \o r.kept, merged |-> <<x>> \o r.merged] \in Result
    BY <2>3, <2>6 DEF Result
  <2>9. QED
    BY <2>7, <2>8
<1>5. QED
  BY <1>3, <1>4

\* A record updated.
LEMMA ResultUpdated ==
  ASSUME NEW r \in Result, NEW y, NEW z
  PROVE  /\ [r EXCEPT !.merged = z] = [kept |-> r.kept, merged |-> z]
         /\ [r EXCEPT !.kept = y, !.merged = z] = [kept |-> y, merged |-> z]
<1>1. [r EXCEPT !.merged = z] = [kept |-> r.kept, merged |-> z]
  BY DEF Result
<1>2. PICK q : q = [r EXCEPT !.kept = y]
  OBVIOUS
<1>3. q \in [kept : {y}, merged : Seq(Label)]
  BY <1>2 DEF Result
<1>4. [q EXCEPT !.merged = z] = [kept |-> y, merged |-> z]
  BY <1>3
<1>5. QED
  BY <1>1, <1>2, <1>4, Zenon

\* No label is sorted before itself.
LEMMA NotBeforeItself ==
  ASSUME NEW a \in Label
  PROVE  ~ Before(a, a)
BY DEF Before, Label

\* The recursion over two positions defines a function: each turn is at a
\* position nearer to the ends of the two bags.
LEMMA WalkUnfolds ==
  ASSUME NEW X, NEW seen, NEW Y, Walkable(X, seen, Y)
  PROVE  \E f : Unfolded(X, seen, Y, f)
<1>1. Len(X) \in Nat /\ Len(Y) \in Nat
  BY BagParts DEF Walkable
<1>2. PICK G : G = Grid(X, Y)
  OBVIOUS
<1>3. PICK n : n = Len(X) + Len(Y)
  OBVIOUS
<1> DEFINE rank == [p \in G |-> n + 2 - (p[1] + p[2])]
           step == [q \in G \X [G -> Result] |->
                      Turn(X, seen, Y, q[1], q[2][Following(X, seen, Y, q[1])])]
<1>4. n \in Nat /\ rank \in [G -> 0 .. n]
  BY <1>1, <1>2, <1>3 DEF Grid
<1>5. Result # {}
  <2>1. <<>> \in Seq(Label)
    OBVIOUS
  <2>2. [kept |-> <<>>, merged |-> <<>>] \in Result
    BY <2>1 DEF Result
  <2>3. QED
    BY <2>2
<1>6. ASSUME NEW p \in G, NEW f \in [G -> Result]
      PROVE  /\ step[<<p, f>>] = Turn(X, seen, Y, p, f[Following(X, seen, Y, p)])
             /\ step[<<p, f>>] \in Result
  <2>1. step[<<p, f>>] = Turn(X, seen, Y, p, f[Following(X, seen, Y, p)])
    OBVIOUS
  <2>2. ~ Ended(X, Y, p) => f[Following(X, seen, Y, p)] \in Result
    BY <1>2, NextTurn
  <2>3. Turn(X, seen, Y, p, f[Following(X, seen, Y, p)]) \in Result
    <3>1. PICK r : r = f[Following(X, seen, Y, p)]
      OBVIOUS
    <3>2. QED
      BY <1>2, <2>2, <3>1, TurnMakes
  <2>4. QED
    BY <2>1, <2>3
<1>7. step \in [G \X [G -> Result] -> Result]
  <2>1. \A q \in G \X [G -> Result] : step[q] \in Result
    <3> SUFFICES ASSUME NEW q \in G \X [G -> Result] PROVE step[q] \in Result
      OBVIOUS
    <3>1. PICK p \in G, f \in [G -> Result] : q = <<p, f>>
      OBVIOUS
    <3> HIDE DEF step
    <3>2. QED
      BY <1>6, <3>1
  <2>2. QED
    BY <2>1
<1>8. Founded(step, G, Result, rank)
  <2> SUFFICES ASSUME NEW f \in [G -> Result], NEW g \in [G -> Result], NEW p \in G,
                      \A q \in G : rank[q] < rank[p] => f[q] = g[q]
               PROVE  step[<<p, f>>] = step[<<p, g>>]
    BY DEF Founded
  <2>1. CASE Ended(X, Y, p)
    <3> HIDE DEF step
    <3>1. QED
      BY <1>6, <2>1 DEF Turn
  <2>2. CASE ~ Ended(X, Y, p)
    <3>1. PICK q : q = Following(X, seen, Y, p)
      OBVIOUS
    <3>2. q \in G /\ p[1] + p[2] < q[1] + q[2]
      BY <1>2, <2>2, <3>1, NextTurn
    <3>3. rank[q] < rank[p]
      BY <1>1, <1>2, <1>3, <3>2 DEF Grid
    <3>4. f[q] = g[q]
      BY <3>2, <3>3
    <3> HIDE DEF step
    <3>5. QED
      BY <1>6, <3>1, <3>4
  <2>3. QED
    BY <2>1, <2>2
<1>9. \E f \in [G -> Result] : \A p \in G : f[p] = step[<<p, f>>]
  <2> HIDE DEF rank, step
  <2>1. n \in Nat /\ rank \in [G -> 0 .. n] /\ Result # {}
    BY <1>4, <1>5
  <2>2. \E f : Recursive(f, G, Result, step)
    BY <2>1, <1>7, <1>8, Recursion
  <2>3. QED
    BY <2>2 DEF Recursive
<1>10. PICK f \in [G -> Result] : \A p \in G : f[p] = step[<<p, f>>]
  BY <1>9
<1>11. \A p \in G : f[p] = Turn(X, seen, Y, p, f[Following(X, seen, Y, p)])
  <2> HIDE DEF step
  <2>1. QED
    BY <1>6, <1>10
<1> HIDE DEF step, rank
<1> DEFINE Body(w, p) ==
      LET i == p[1]
          j == p[2]
      IN  IF i > Len(X) \/ j > Len(Y)
          THEN [kept   |-> SubSeq(X, i, Len(X)),
                merged |-> SubSeq(X, i, Len(X)) \o SubSeq(Y, j, Len(Y))]
          ELSE CASE seen[i] = Y[j] ->
                      [w[<<i + 1, j + 1>>] EXCEPT !.merged = <<Y[j]>> \o @]
                 [] Before(seen[i], Y[j]) ->
                      [w[<<i + 1, Safer(Y, seen[i], j)>>] EXCEPT
                        !.kept = <<X[i]>> \o @, !.merged = <<X[i]>> \o @]
                 [] OTHER ->
                      [w[<<Safer(seen, Y[j], i), j + 1>>] EXCEPT
                        !.merged = <<Y[j]>> \o @]
           walk == CHOOSE w : w = [p \in G |-> Body(w, p)]
<1>12. ASSUME NEW w \in [G -> Result], NEW p \in G
       PROVE  Body(w, p) = Turn(X, seen, Y, p, w[Following(X, seen, Y, p)])
  <2>1. CASE Ended(X, Y, p)
    BY <2>1 DEF Turn, Ended
  <2>2. CASE ~ Ended(X, Y, p)
    <3>1. PICK r \in Result : r = w[Following(X, seen, Y, p)]
      BY <1>2, <2>2, NextTurn
    <3>2. ASSUME NEW a
          PROVE  /\ [r EXCEPT !.merged = <<a>> \o @] = [kept |-> r.kept, merged |-> <<a>> \o r.merged]
                 /\ [r EXCEPT !.kept = <<a>> \o @, !.merged = <<a>> \o @]
                      = [kept |-> <<a>> \o r.kept, merged |-> <<a>> \o r.merged]
      <4>1. PICK y : y = <<a>> \o r.kept
        OBVIOUS
      <4>2. PICK z : z = <<a>> \o r.merged
        OBVIOUS
      <4>3. QED
        BY <4>1, <4>2, ResultUpdated, Zenon
    <3>3. CASE seen[p[1]] = Y[p[2]]
      <4>1. r = w[<<p[1] + 1, p[2] + 1>>]
        BY <3>1, <3>3 DEF Following
      <4>2. ~ Before(seen[p[1]], Y[p[2]])
        BY <1>2, <2>2, <3>3, NextTurn, NotBeforeItself
      <4>3. Body(w, p) = [r EXCEPT !.merged = <<Y[p[2]]>> \o @]
        BY <2>2, <3>3, <4>1, <4>2, Zenon DEF Ended
      <4>4. QED
        BY <2>2, <3>1, <3>2, <3>3, <4>3 DEF Turn
    <3>4. CASE seen[p[1]] # Y[p[2]] /\ Before(seen[p[1]], Y[p[2]])
      <4>1. r = w[<<p[1] + 1, Safer(Y, seen[p[1]], p[2])>>]
        BY <3>1, <3>4 DEF Following
      <4>2. QED
        BY <2>2, <3>1, <3>2, <3>4, <4>1 DEF Turn, Ended
    <3>5. CASE seen[p[1]] # Y[p[2]] /\ ~ Before(seen[p[1]], Y[p[2]])
      <4>1. r = w[<<Safer(seen, Y[p[2]], p[1]), p[2] + 1>>]
        BY <3>1, <3>5 DEF Following
      <4>2. QED
        BY <2>2, <3>1, <3>2, <3>5, <4>1 DEF Turn, Ended
    <3>6. QED
      BY <3>3, <3>4, <3>5
  <2>3. QED
    BY <2>1, <2>2
<1>13. Walk(X, seen, Y) = walk[<<1, 1>>]
  BY <1>2 DEF Walk, Grid
<1>14. f = [p \in G |-> Body(f, p)]
  <2> HIDE DEF Body
  <2>1. QED
    BY <1>11, <1>12
<1>15. walk = [p \in G |-> Body(walk, p)]
  <2> HIDE DEF Body
  <2>1. QED
    BY <1>14
<1>16. \A p \in G : walk[p] = Body(walk, p)
  <2> HIDE DEF walk, Body
  <2>1. QED
    BY <1>15
<1> HIDE DEF walk
<1> DEFINE T == {m \in 0 .. n + 1 : \A p \in G : n + 2 - (p[1] + p[2]) < m => walk[p] = f[p]}
<1>17. 0 \in T
  BY <1>4 DEF rank
<1>18. ASSUME NEW m \in 0 .. (n + 1) - 1, m \in T PROVE m + 1 \in T
  <2> SUFFICES ASSUME NEW p \in G, n + 2 - (p[1] + p[2]) < m + 1 PROVE walk[p] = f[p]
    BY <1>4
  <2>1. CASE Ended(X, Y, p)
    <3>1. Body(walk, p) = Body(f, p)
      BY <2>1 DEF Ended
    <3> HIDE DEF Body
    <3>2. QED
      BY <1>11, <1>12, <1>16, <3>1
  <2>2. CASE ~ Ended(X, Y, p)
    <3>1. PICK q \in G : q = Following(X, seen, Y, p)
      BY <1>2, <2>2, NextTurn
    <3>2. p[1] + p[2] < q[1] + q[2]
      BY <1>2, <2>2, <3>1, NextTurn
    <3>3. n + 2 - (q[1] + q[2]) < m
      <4>1. p[1] \in Nat /\ p[2] \in Nat /\ q[1] \in Nat /\ q[2] \in Nat /\ n \in Nat
        BY <1>1, <1>2, <1>3 DEF Grid
      <4>2. PICK x \in Nat : x = p[1] + p[2]
        BY <4>1
      <4>3. PICK y \in Nat : y = q[1] + q[2]
        BY <4>1
      <4>4. x < y /\ n + 2 - x < m + 1
        BY <3>2, <4>2, <4>3
      <4>5. n + 2 - y < m
        BY <4>1, <4>4
      <4>6. QED
        BY <4>3, <4>5
    <3>4. walk[q] = f[q]
      BY <1>18, <3>3
    <3>5. Body(walk, p) = Body(f, p)
      <4>1. CASE seen[p[1]] = Y[p[2]]
        <5>1. ~ Before(seen[p[1]], Y[p[2]])
          BY <1>2, <2>2, <4>1, NextTurn, NotBeforeItself
        <5>2. QED
          BY <3>1, <3>4, <4>1, <5>1 DEF Following
      <4>2. CASE seen[p[1]] # Y[p[2]] /\ Before(seen[p[1]], Y[p[2]])
        BY <3>1, <3>4, <4>2 DEF Following
      <4>3. CASE seen[p[1]] # Y[p[2]] /\ ~ Before(seen[p[1]], Y[p[2]])
        BY <3>1, <3>4, <4>3 DEF Following
      <4>4. QED
        BY <4>1, <4>2, <4>3
    <3> HIDE DEF Body
    <3>6. QED
      BY <1>11, <1>12, <1>16, <3>5
  <2>3. QED
    BY <2>1, <2>2
<1> HIDE DEF T
<1>19. n + 1 \in T
  BY <1>4, <1>17, <1>18, InductionUpTo
<1>20. walk[<<1, 1>>] = f[<<1, 1>>]
  <2>1. <<1, 1>> \in G /\ n + 2 - (1 + 1) < n + 1
    BY <1>1, <1>2, <1>3 DEF Grid
  <2>2. QED
    BY <1>19, <2>1 DEF T
<1>21. QED
  BY <1>2, <1>11, <1>13, <1>20 DEF Unfolded

-----------------------------------------------------------------------------
(* What the walk makes: the labels of X that none of Y covers, and, merged, *)
(* those of Y that none of X but an equal one covers.                       *)

\* None of Y from position j on covers the k-th label; none of X from i on
\* covers the l-th of Y, unless they are the same.
Free(seen, Y, k, j)  == \A l \in j .. Len(Y) : ~ Covers(Y[l], seen[k])
Alone(X, Y, l, i)    == \A k \in i .. Len(X) : Covers(X[k], Y[l]) => X[k] = Y[l]

Keeps(X, seen, Y, i, j, x) == \E k \in i .. Len(X) : x = X[k] /\ Free(seen, Y, k, j)
Stays(X, Y, i, j, x)       == \E l \in j .. Len(Y) : x = Y[l] /\ Alone(X, Y, l, i)

Exact(X, seen, Y, i, j, r) ==
  /\ IsBag(r.kept)
  /\ \A x : x \in ToSet(r.kept) <=> Keeps(X, seen, Y, i, j, x)
  /\ seen = X =>
       /\ IsBag(r.merged)
       /\ \A x : x \in ToSet(r.merged) <=> Keeps(X, X, Y, i, j, x) \/ Stays(X, Y, i, j, x)

\* Labels passed over in Y cover none of X still to come, or none of Y.
LEMMA FreeSkip ==
  ASSUME NEW seen, NEW Y, Len(Y) \in Nat, NEW k, NEW j \in 1 .. Len(Y) + 1,
         NEW m \in j .. Len(Y) + 1,
         \A l \in j .. Len(Y) : l < m => ~ Covers(Y[l], seen[k])
  PROVE  Free(seen, Y, k, j) <=> Free(seen, Y, k, m)
<1>1. \A l \in m .. Len(Y) : l \in j .. Len(Y)
  OBVIOUS
<1>2. \A l \in j .. Len(Y) : l < m \/ l \in m .. Len(Y)
  OBVIOUS
<1>3. QED
  BY <1>1, <1>2 DEF Free

\* Labels of X that do not cover a label of Y may be skipped when one looks for
\* those that do.
LEMMA AloneSkip ==
  ASSUME NEW X, NEW Y, Len(X) \in Nat, NEW l, NEW i \in 1 .. Len(X) + 1,
         NEW m \in i .. Len(X) + 1,
         \A k \in i .. Len(X) : k < m => ~ Covers(X[k], Y[l])
  PROVE  Alone(X, Y, l, i) <=> Alone(X, Y, l, m)
<1>1. \A k \in m .. Len(X) : k \in i .. Len(X)
  OBVIOUS
<1>2. \A k \in i .. Len(X) : k < m \/ k \in m .. Len(X)
  OBVIOUS
<1>3. QED
  BY <1>1, <1>2 DEF Alone

\* Labels passed over that are covered are not kept.
LEMMA KeepsSkip ==
  ASSUME NEW X, NEW seen, NEW Y, Len(X) \in Nat, NEW j, NEW n,
         NEW i \in 1 .. Len(X) + 1, NEW m \in i .. Len(X) + 1,
         \A k \in i .. Len(X) : k < m => ~ Free(seen, Y, k, j),
         \A k \in m .. Len(X) : Free(seen, Y, k, j) <=> Free(seen, Y, k, n)
  PROVE  \A x : Keeps(X, seen, Y, i, j, x) <=> Keeps(X, seen, Y, m, n, x)
<1>1. \A k \in m .. Len(X) : k \in i .. Len(X)
  OBVIOUS
<1>2. \A k \in i .. Len(X) : k < m \/ k \in m .. Len(X)
  OBVIOUS
<1>3. QED
  BY <1>1, <1>2 DEF Keeps

\* Labels of Y that are covered may be skipped when one looks for those that stay.
LEMMA StaysSkip ==
  ASSUME NEW X, NEW Y, Len(Y) \in Nat, NEW i, NEW n,
         NEW j \in 1 .. Len(Y) + 1, NEW m \in j .. Len(Y) + 1,
         \A l \in j .. Len(Y) : l < m => ~ Alone(X, Y, l, i),
         \A l \in m .. Len(Y) : Alone(X, Y, l, i) <=> Alone(X, Y, l, n)
  PROVE  \A x : Stays(X, Y, i, j, x) <=> Stays(X, Y, n, m, x)
<1>1. \A l \in m .. Len(Y) : l \in j .. Len(Y)
  OBVIOUS
<1>2. \A l \in j .. Len(Y) : l < m \/ l \in m .. Len(Y)
  OBVIOUS
<1>3. QED
  BY <1>1, <1>2 DEF Stays

\* The first label is kept when it is not covered.
LEMMA KeepsFirst ==
  ASSUME NEW X, NEW seen, NEW Y, Len(X) \in Nat, NEW j, NEW n,
         NEW i \in 1 .. Len(X), NEW m, m = i + 1, Free(seen, Y, i, j),
         \A k \in m .. Len(X) : Free(seen, Y, k, j) <=> Free(seen, Y, k, n)
  PROVE  \A x : Keeps(X, seen, Y, i, j, x) <=> x = X[i] \/ Keeps(X, seen, Y, m, n, x)
<1>1. \A k \in m .. Len(X) : k \in i .. Len(X)
  OBVIOUS
<1>2. \A k \in i .. Len(X) : k = i \/ k \in m .. Len(X)
  OBVIOUS
<1>3. i \in i .. Len(X)
  OBVIOUS
<1>4. QED
  BY <1>1, <1>2, <1>3 DEF Keeps

\* The first label of Y stays, if none of X covers it.
LEMMA StaysFirst ==
  ASSUME NEW X, NEW Y, Len(Y) \in Nat, NEW i, NEW n,
         NEW j \in 1 .. Len(Y), NEW m, m = j + 1, Alone(X, Y, j, i),
         \A l \in m .. Len(Y) : Alone(X, Y, l, i) <=> Alone(X, Y, l, n)
  PROVE  \A x : Stays(X, Y, i, j, x) <=> x = Y[j] \/ Stays(X, Y, n, m, x)
<1>1. \A l \in m .. Len(Y) : l \in j .. Len(Y)
  OBVIOUS
<1>2. \A l \in j .. Len(Y) : l = j \/ l \in m .. Len(Y)
  OBVIOUS
<1>3. j \in j .. Len(Y)
  OBVIOUS
<1>4. QED
  BY <1>1, <1>2, <1>3 DEF Stays

\* What is kept or stays comes from the two bags.
LEMMA FromBags ==
  ASSUME NEW X, NEW seen, NEW Y, NEW i, NEW j, NEW x
  PROVE  /\ Keeps(X, seen, Y, i, j, x) => \E k \in i .. Len(X) : x = X[k]
         /\ Stays(X, Y, i, j, x) => \E l \in j .. Len(Y) : x = Y[l]
BY DEF Keeps, Stays

\* Where the two labels are the same, that of X is covered, and neither covers
\* what is still to come.
LEMMA AtEqual ==
  ASSUME NEW X, NEW seen, NEW Y, Walkable(X, seen, Y),
         NEW i \in 1 .. Len(X), NEW j \in 1 .. Len(Y), seen[i] = Y[j],
         NEW m, m = i + 1, NEW n, n = j + 1
  PROVE  /\ \A x : Keeps(X, seen, Y, i, j, x) <=> Keeps(X, seen, Y, m, n, x)
         /\ seen = X =>
              /\ \A x : Stays(X, Y, i, j, x) <=> x = Y[j] \/ Stays(X, Y, m, n, x)
              /\ \A x : Keeps(X, seen, Y, m, n, x) \/ Stays(X, Y, m, n, x) =>
                   Y[j][1] < x[1] /\ x[2] < Y[j][2]
<1>1. IsBag(X) /\ IsBag(seen) /\ IsBag(Y) /\ Len(seen) = Len(X)
  BY DEF Walkable
<1>2. Len(X) \in Nat /\ Len(Y) \in Nat
  BY <1>1, BagParts
<1>3. /\ \A k \in 1 .. Len(X) : seen[k][1] \in Nat /\ seen[k][2] \in Nat
      /\ \A k, l \in 1 .. Len(X) : k < l => seen[k][1] < seen[l][1] /\ seen[l][2] < seen[k][2]
  BY <1>1, BagParts
<1>4. /\ \A k \in 1 .. Len(Y) : Y[k][1] \in Nat /\ Y[k][2] \in Nat
      /\ \A k, l \in 1 .. Len(Y) : k < l => Y[k][1] < Y[l][1] /\ Y[l][2] < Y[k][2]
  BY <1>1, BagParts
<1>5. ~ Free(seen, Y, i, j)
  BY <1>2, <1>4 DEF Free, Covers
<1>6. m \in i .. Len(X) + 1 /\ i \in 1 .. Len(X) + 1 /\ n \in j .. Len(Y) + 1 /\ j \in 1 .. Len(Y) + 1
  BY <1>2
<1>7. ASSUME NEW k \in m .. Len(X) PROVE Free(seen, Y, k, j) <=> Free(seen, Y, k, n)
  <2>1. seen[k][2] < Y[j][2] /\ k \in 1 .. Len(X)
    BY <1>2, <1>3, <1>7
  <2>2. ~ Covers(Y[j], seen[k])
    BY <1>3, <1>4, <2>1 DEF Covers
  <2>3. \A l \in j .. Len(Y) : l < n => l = j
    BY <1>2
  <2>4. QED
    BY <1>2, <1>6, <2>2, <2>3, FreeSkip
<1>8. \A k \in i .. Len(X) : k < m => ~ Free(seen, Y, k, j)
  <2>1. \A k \in i .. Len(X) : k < m => k = i
    BY <1>2
  <2>2. QED
    BY <1>5, <2>1
<1>9. \A x : Keeps(X, seen, Y, i, j, x) <=> Keeps(X, seen, Y, m, n, x)
  BY <1>2, <1>6, <1>7, <1>8, KeepsSkip
<1>10. ASSUME seen = X
       PROVE  /\ \A x : Stays(X, Y, i, j, x) <=> x = Y[j] \/ Stays(X, Y, m, n, x)
              /\ \A x : Keeps(X, seen, Y, m, n, x) \/ Stays(X, Y, m, n, x) =>
                   Y[j][1] < x[1] /\ x[2] < Y[j][2]
  <2>1. Alone(X, Y, j, i)
    <3> SUFFICES ASSUME NEW k \in i .. Len(X), Covers(X[k], Y[j]) PROVE X[k] = Y[j]
      BY DEF Alone
    <3>1. CASE k = i
      BY <1>10, <3>1
    <3>2. CASE k # i
      <4>1. X[i][1] < X[k][1] /\ X[k][1] \in Nat /\ X[i][1] \in Nat
        BY <1>2, <1>3, <1>10, <3>2
      <4>2. QED
        BY <1>10, <4>1 DEF Covers
    <3>3. QED
      BY <3>1, <3>2
  <2>2. ASSUME NEW l \in n .. Len(Y) PROVE Alone(X, Y, l, i) <=> Alone(X, Y, l, m)
    <3>1. Y[l][2] < Y[j][2] /\ l \in 1 .. Len(Y)
      BY <1>2, <1>4
    <3>2. ~ Covers(X[i], Y[l])
      BY <1>4, <1>10, <3>1 DEF Covers
    <3>3. \A k \in i .. Len(X) : k < m => k = i
      BY <1>2
    <3>4. QED
      BY <1>2, <1>6, <3>2, <3>3, AloneSkip
  <2>3. \A x : Stays(X, Y, i, j, x) <=> x = Y[j] \/ Stays(X, Y, m, n, x)
    BY <1>2, <2>1, <2>2, StaysFirst
  <2>4. ASSUME NEW k \in m .. Len(X) PROVE Y[j][1] < X[k][1] /\ X[k][2] < Y[j][2]
    <3>1. k \in 1 .. Len(X) /\ i < k
      BY <1>2
    <3>2. seen[i][1] < seen[k][1] /\ seen[k][2] < seen[i][2]
      BY <1>3, <3>1
    <3>3. QED
      BY <1>10, <3>2
  <2>5. \A l \in n .. Len(Y) : Y[j][1] < Y[l][1] /\ Y[l][2] < Y[j][2]
    BY <1>2, <1>4
  <2>6. ASSUME NEW x, Keeps(X, seen, Y, m, n, x) \/ Stays(X, Y, m, n, x)
        PROVE  Y[j][1] < x[1] /\ x[2] < Y[j][2]
    <3>1. CASE \E k \in m .. Len(X) : x = X[k]
      BY <2>4, <3>1
    <3>2. CASE \E l \in n .. Len(Y) : x = Y[l]
      BY <2>5, <3>2
    <3>3. QED
      BY <2>6, <3>1, <3>2, FromBags
  <2>7. QED
    BY <2>3, <2>6
<1>11. QED
  BY <1>9, <1>10

\* Where that of X comes first, it is kept, and covers the labels of Y passed.
LEMMA AtBefore ==
  ASSUME NEW X, NEW seen, NEW Y, Walkable(X, seen, Y),
         NEW i \in 1 .. Len(X), NEW j \in 1 .. Len(Y), Before(seen[i], Y[j]),
         NEW m, m = i + 1, NEW n, n = Safer(Y, seen[i], j)
  PROVE  /\ \A x : Keeps(X, seen, Y, i, j, x) <=> x = X[i] \/ Keeps(X, seen, Y, m, n, x)
         /\ \A x : Keeps(X, seen, Y, m, n, x) => X[i][1] < x[1] /\ x[2] < X[i][2]
         /\ seen = X =>
              /\ \A x : Stays(X, Y, i, j, x) <=> Stays(X, Y, m, n, x)
              /\ \A x : Stays(X, Y, m, n, x) => X[i][1] < x[1] /\ x[2] < X[i][2]
<1>1. IsBag(X) /\ IsBag(seen) /\ IsBag(Y) /\ Len(seen) = Len(X)
  BY DEF Walkable
<1>2. Len(X) \in Nat /\ Len(Y) \in Nat
  BY <1>1, BagParts
<1>3. /\ \A k \in 1 .. Len(X) : seen[k][1] \in Nat /\ seen[k][2] \in Nat
      /\ \A k, l \in 1 .. Len(X) : k < l => seen[k][1] < seen[l][1] /\ seen[l][2] < seen[k][2]
      /\ seen[i] \in Label
  BY <1>1, BagParts
<1>4. /\ \A k \in 1 .. Len(Y) : Y[k][1] \in Nat /\ Y[k][2] \in Nat
      /\ \A k, l \in 1 .. Len(Y) : k < l => Y[k][1] < Y[l][1] /\ Y[l][2] < Y[k][2]
  BY <1>1, BagParts
<1>5. \A k, l \in 1 .. Len(X) : k < l => X[k][1] < X[l][1] /\ X[l][2] < X[k][2]
  BY <1>1, BagParts
<1>6. m \in i .. Len(X) + 1 /\ i \in 1 .. Len(X) + 1 /\ j \in 1 .. Len(Y) + 1
  BY <1>2
<1>7. /\ n \in j .. Len(Y) + 1
      /\ \A l \in j .. Len(Y) : l < n => seen[i][2] <= Y[l][2]
      /\ \A l \in j .. Len(Y) : n <= l => Y[l][2] < seen[i][2]
  BY <1>1, <1>3, <1>6, SaferFound
<1>8. ASSUME NEW l \in j .. Len(Y)
      PROVE  seen[i][1] <= Y[l][1] /\ ~ Covers(Y[l], seen[i]) /\ l \in 1 .. Len(Y)
  <2>1. l \in 1 .. Len(Y) /\ (l = j \/ Y[j][1] < Y[l][1])
    BY <1>2, <1>4
  <2>2. QED
    BY SMTT(20), <1>3, <1>4, <2>1 DEF Before, Covers
<1>9. Free(seen, Y, i, j)
  BY <1>8 DEF Free
<1>10. ASSUME NEW k \in m .. Len(X) PROVE Free(seen, Y, k, j) <=> Free(seen, Y, k, n)
  <2>1. seen[k][2] < seen[i][2] /\ k \in 1 .. Len(X)
    BY <1>2, <1>3
  <2>2. ASSUME NEW l \in j .. Len(Y), l < n PROVE ~ Covers(Y[l], seen[k])
    <3>1. seen[i][2] <= Y[l][2] /\ l \in 1 .. Len(Y)
      BY <1>7, <1>8, <2>2
    <3>2. QED
      BY <1>3, <1>4, <2>1, <3>1 DEF Covers
  <2>3. QED
    BY <1>2, <1>6, <1>7, <2>2, FreeSkip
<1>11. \A x : Keeps(X, seen, Y, i, j, x) <=> x = X[i] \/ Keeps(X, seen, Y, m, n, x)
  BY <1>2, <1>9, <1>10, KeepsFirst
<1>12. \A k \in m .. Len(X) : X[i][1] < X[k][1] /\ X[k][2] < X[i][2]
  BY <1>2, <1>5
<1>13. ASSUME seen = X
       PROVE  /\ \A x : Stays(X, Y, i, j, x) <=> Stays(X, Y, m, n, x)
              /\ \A x : Stays(X, Y, m, n, x) => X[i][1] < x[1] /\ x[2] < X[i][2]
  <2>1. ASSUME NEW l \in j .. Len(Y), l < n PROVE ~ Alone(X, Y, l, i)
    <3>1. Covers(X[i], Y[l])
      BY <1>7, <1>8, <1>13, <2>1 DEF Covers
    <3>2. X[i] # Y[l]
      <4>1. Covers(X[i], X[i])
        BY <1>3, <1>13 DEF Covers
      <4>2. QED
        BY <1>8, <1>13, <4>1
    <3>3. i \in i .. Len(X)
      OBVIOUS
    <3>4. QED
      BY <3>1, <3>2, <3>3 DEF Alone
  <2>2. ASSUME NEW l \in n .. Len(Y)
        PROVE  /\ Alone(X, Y, l, i) <=> Alone(X, Y, l, m)
               /\ X[i][1] < Y[l][1] /\ Y[l][2] < X[i][2]
    <3>1. l \in j .. Len(Y) /\ n <= l /\ l \in 1 .. Len(Y)
      BY <1>2, <1>7
    <3>2. Y[l][2] < X[i][2]
      BY <1>7, <1>13, <3>1
    <3>3. ~ Covers(X[i], Y[l])
      BY <1>3, <1>4, <1>13, <3>1, <3>2 DEF Covers
    <3>4. \A k \in i .. Len(X) : k < m => k = i
      BY <1>2
    <3>5. Alone(X, Y, l, i) <=> Alone(X, Y, l, m)
      BY <1>2, <1>6, <3>3, <3>4, AloneSkip
    <3>6. X[i][1] < Y[l][1]
      <4>1. X[i][1] <= Y[l][1] /\ ~ Covers(Y[l], X[i])
        BY <1>8, <1>13, <3>1
      <4>2. QED
        BY <1>3, <1>4, <1>13, <3>1, <3>2, <4>1 DEF Covers
    <3>7. QED
      BY <3>2, <3>5, <3>6
  <2>3. \A x : Stays(X, Y, i, j, x) <=> Stays(X, Y, m, n, x)
    BY <1>2, <1>6, <1>7, <2>1, <2>2, StaysSkip
  <2>4. ASSUME NEW x, Stays(X, Y, m, n, x) PROVE X[i][1] < x[1] /\ x[2] < X[i][2]
    <3>1. PICK l \in n .. Len(Y) : x = Y[l]
      BY <2>4 DEF Stays
    <3>2. QED
      BY <2>2, <3>1
  <2>5. QED
    BY <2>3, <2>4
<1>14. QED
  BY <1>11, <1>12, <1>13, FromBags

\* Where that of Y comes first, it stays, and covers the labels of X passed.
LEMMA AtAfter ==
  ASSUME NEW X, NEW seen, NEW Y, Walkable(X, seen, Y),
         NEW i \in 1 .. Len(X), NEW j \in 1 .. Len(Y),
         seen[i] # Y[j], ~ Before(seen[i], Y[j]),
         NEW m, m = Safer(seen, Y[j], i), NEW n, n = j + 1
  PROVE  /\ \A x : Keeps(X, seen, Y, i, j, x) <=> Keeps(X, seen, Y, m, n, x)
         /\ seen = X =>
              /\ \A x : Stays(X, Y, i, j, x) <=> x = Y[j] \/ Stays(X, Y, m, n, x)
              /\ \A x : Keeps(X, seen, Y, m, n, x) \/ Stays(X, Y, m, n, x) =>
                   Y[j][1] < x[1] /\ x[2] < Y[j][2]
<1>1. IsBag(X) /\ IsBag(seen) /\ IsBag(Y) /\ Len(seen) = Len(X)
  BY DEF Walkable
<1>2. Len(X) \in Nat /\ Len(Y) \in Nat
  BY <1>1, BagParts
<1>3. /\ \A k \in 1 .. Len(X) : seen[k][1] \in Nat /\ seen[k][2] \in Nat
      /\ \A k, l \in 1 .. Len(X) : k < l => seen[k][1] < seen[l][1] /\ seen[l][2] < seen[k][2]
      /\ seen[i] \in Label
  BY <1>1, BagParts
<1>4. /\ \A k \in 1 .. Len(Y) : Y[k][1] \in Nat /\ Y[k][2] \in Nat
      /\ \A k, l \in 1 .. Len(Y) : k < l => Y[k][1] < Y[l][1] /\ Y[l][2] < Y[k][2]
      /\ Y[j] \in Label
  BY <1>1, BagParts
<1>5. n \in j .. Len(Y) + 1 /\ i \in 1 .. Len(X) + 1 /\ j \in 1 .. Len(Y) + 1
  BY <1>2
<1>6. /\ m \in i .. Len(X) + 1
      /\ \A k \in i .. Len(X) : k < m => Y[j][2] <= seen[k][2]
      /\ \A k \in i .. Len(X) : m <= k => seen[k][2] < Y[j][2]
  BY <1>1, <1>4, <1>5, SaferFound
<1>7. Y[j][1] < seen[i][1] \/ (Y[j][1] = seen[i][1] /\ Y[j][2] < seen[i][2])
  <2>1. PICK a \in Nat, b \in Nat : seen[i] = <<a, b>>
    BY <1>3 DEF Label
  <2>2. PICK c \in Nat, d \in Nat : Y[j] = <<c, d>>
    BY <1>4 DEF Label
  <2>3. a # c \/ b # d
    BY <2>1, <2>2
  <2>4. ~ (a < c) /\ ~ (a = c /\ b < d)
    BY <2>1, <2>2 DEF Before
  <2>5. QED
    BY <2>1, <2>2, <2>3, <2>4
<1>8. ASSUME NEW k \in i .. Len(X)
      PROVE  Y[j][1] <= seen[k][1] /\ ~ Covers(seen[k], Y[j]) /\ k \in 1 .. Len(X)
  <2>1. k \in 1 .. Len(X) /\ (k = i \/ seen[i][1] < seen[k][1])
    BY <1>2, <1>3
  <2>2. /\ seen[k][1] \in Nat /\ seen[k][2] \in Nat /\ seen[i][1] \in Nat /\ seen[i][2] \in Nat
        /\ Y[j][1] \in Nat /\ Y[j][2] \in Nat
    BY <1>3, <1>4, <2>1
  <2>3. CASE k = i
    <3>1. Y[j][1] < seen[k][1] \/ (Y[j][1] = seen[k][1] /\ Y[j][2] < seen[k][2])
      BY <1>7, <2>3
    <3>2. QED
      BY <2>1, <2>2, <3>1 DEF Covers
  <2>4. CASE seen[i][1] < seen[k][1]
    <3>1. Y[j][1] < seen[k][1]
      BY <1>7, <2>2, <2>4
    <3>2. QED
      BY <2>1, <2>2, <3>1 DEF Covers
  <2>5. QED
    BY <2>1, <2>3, <2>4
<1>9. ASSUME NEW k \in i .. Len(X), k < m PROVE ~ Free(seen, Y, k, j)
  <2>1. Covers(Y[j], seen[k]) /\ j \in j .. Len(Y)
    BY <1>6, <1>8, <1>9 DEF Covers
  <2>2. QED
    BY <2>1 DEF Free
<1>10. ASSUME NEW k \in m .. Len(X) PROVE Free(seen, Y, k, j) <=> Free(seen, Y, k, n)
  <2>1. k \in i .. Len(X) /\ m <= k
    BY <1>2, <1>6
  <2>2. ~ Covers(Y[j], seen[k])
    BY <1>3, <1>4, <1>6, <1>8, <2>1 DEF Covers
  <2>3. \A l \in j .. Len(Y) : l < n => l = j
    BY <1>2
  <2>4. QED
    BY <1>2, <1>5, <2>2, <2>3, FreeSkip
<1>11. \A x : Keeps(X, seen, Y, i, j, x) <=> Keeps(X, seen, Y, m, n, x)
  BY <1>2, <1>5, <1>6, <1>9, <1>10, KeepsSkip
<1>12. ASSUME seen = X
       PROVE  /\ \A x : Stays(X, Y, i, j, x) <=> x = Y[j] \/ Stays(X, Y, m, n, x)
              /\ \A x : Keeps(X, seen, Y, m, n, x) \/ Stays(X, Y, m, n, x) =>
                   Y[j][1] < x[1] /\ x[2] < Y[j][2]
  <2>1. Alone(X, Y, j, i)
    BY <1>8, <1>12 DEF Alone
  <2>2. ASSUME NEW l \in n .. Len(Y) PROVE Alone(X, Y, l, i) <=> Alone(X, Y, l, m)
    <3>1. Y[l][2] < Y[j][2] /\ l \in 1 .. Len(Y)
      <4>1. l \in 1 .. Len(Y) /\ j < l
        BY <1>2
      <4>2. QED
        BY <1>4, <4>1
    <3>2. ASSUME NEW k \in i .. Len(X), k < m PROVE ~ Covers(X[k], Y[l])
      <4>1. Y[j][2] <= X[k][2] /\ k \in 1 .. Len(X)
        BY <1>6, <1>8, <1>12, <3>2
      <4>2. QED
        BY <1>3, <1>4, <1>12, <3>1, <4>1 DEF Covers
    <3>3. QED
      BY <1>2, <1>5, <1>6, <3>2, AloneSkip
  <2>3. \A x : Stays(X, Y, i, j, x) <=> x = Y[j] \/ Stays(X, Y, m, n, x)
    BY <1>2, <2>1, <2>2, StaysFirst
  <2>4. ASSUME NEW k \in m .. Len(X) PROVE Y[j][1] < X[k][1] /\ X[k][2] < Y[j][2]
    <3>1. k \in i .. Len(X) /\ m <= k
      BY <1>2, <1>6
    <3>2. X[k][2] < Y[j][2] /\ Y[j][1] <= X[k][1] /\ ~ Covers(X[k], Y[j]) /\ k \in 1 .. Len(X)
      BY <1>6, <1>8, <1>12, <3>1
    <3>3. QED
      BY <1>3, <1>4, <1>12, <3>2 DEF Covers
  <2>5. \A l \in n .. Len(Y) : Y[j][1] < Y[l][1] /\ Y[l][2] < Y[j][2]
    BY SMTT(20), <1>2, <1>4
  <2>6. ASSUME NEW x, Keeps(X, seen, Y, m, n, x) \/ Stays(X, Y, m, n, x)
        PROVE  Y[j][1] < x[1] /\ x[2] < Y[j][2]
    <3>1. CASE \E k \in m .. Len(X) : x = X[k]
      BY <2>4, <3>1
    <3>2. CASE \E l \in n .. Len(Y) : x = Y[l]
      BY <2>5, <3>2
    <3>3. QED
      BY <2>6, <3>1, <3>2, FromBags
  <2>7. QED
    BY <2>3, <2>6
<1>13. QED
  BY <1>11, <1>12

\* From every pair of positions on, the walk makes just that.
LEMMA TurnExact ==
  ASSUME NEW X, NEW seen, NEW Y, Walkable(X, seen, Y), NEW p \in Grid(X, Y),
         NEW q, q = Following(X, seen, Y, p), NEW r,
         ~ Ended(X, Y, p) => Exact(X, seen, Y, q[1], q[2], r)
  PROVE  Exact(X, seen, Y, p[1], p[2], Turn(X, seen, Y, p, r))
<1>1. PICK i \in 1 .. Len(X) + 1 : i = p[1]
  BY DEF Grid
<1>2. PICK j \in 1 .. Len(Y) + 1 : j = p[2]
  BY DEF Grid
<1>3. IsBag(X) /\ IsBag(Y) /\ Len(X) \in Nat /\ Len(Y) \in Nat
  BY BagParts DEF Walkable
<1>4. CASE Ended(X, Y, p)
  <2>1. PICK A : A = SubSeq(X, i, Len(X))
    OBVIOUS
  <2>2. PICK B : B = SubSeq(Y, j, Len(Y))
    OBVIOUS
  <2>3. /\ IsBag(A) /\ IsBag(B)
        /\ \A x : x \in ToSet(A) <=> \E k \in i .. Len(X) : x = X[k]
        /\ \A x : x \in ToSet(B) <=> \E l \in j .. Len(Y) : x = Y[l]
        /\ i = Len(X) + 1 => A = <<>>
        /\ j = Len(Y) + 1 => B = <<>>
    BY <1>3, <2>1, <2>2, RestOfBag
  <2>4. Turn(X, seen, Y, p, r) = [kept |-> A, merged |-> A \o B]
    BY <1>1, <1>2, <1>4, <2>1, <2>2 DEF Turn
  <2>5. i = Len(X) + 1 \/ j = Len(Y) + 1
    BY <1>1, <1>2, <1>3, <1>4 DEF Ended
  <2>6. A \in Seq(Label) /\ B \in Seq(Label)
    BY <2>3 DEF IsBag
  <2>7. CASE i = Len(X) + 1
    <3>1. \A k \in i .. Len(X) : FALSE
      BY <1>3, <2>7
    <3>2. A \o B = B /\ A = <<>>
      BY <2>3, <2>6, <2>7, ConcatEmptySeq
    <3>3. \A x : ~ Keeps(X, seen, Y, i, j, x)
      BY <3>1 DEF Keeps
    <3>4. \A x : Stays(X, Y, i, j, x) <=> x \in ToSet(B)
      BY <2>3, <3>1 DEF Stays, Alone
    <3>5. \A x : x \notin ToSet(A)
      BY <2>3, <3>1
    <3>6. QED
      BY <1>1, <1>2, <2>3, <2>4, <3>2, <3>3, <3>4, <3>5 DEF Exact
  <2>8. CASE j = Len(Y) + 1
    <3>1. \A l \in j .. Len(Y) : FALSE
      BY <1>3, <2>8
    <3>2. A \o B = A
      BY <2>3, <2>6, <2>8, ConcatEmptySeq
    <3>3. \A x : ~ Stays(X, Y, i, j, x)
      BY <3>1 DEF Stays
    <3>4. \A x : Keeps(X, seen, Y, i, j, x) <=> x \in ToSet(A)
      BY <2>3, <3>1 DEF Keeps, Free
    <3>5. QED
      BY <1>1, <1>2, <2>3, <2>4, <3>2, <3>3, <3>4 DEF Exact
  <2>9. QED
    BY <2>5, <2>7, <2>8
<1>5. CASE ~ Ended(X, Y, p)
  <2>1. i \in 1 .. Len(X) /\ j \in 1 .. Len(Y) /\ X[i] \in Label /\ Y[j] \in Label
    BY <1>1, <1>2, <1>5, NextTurn
  <2>2. PICK m : m = q[1]
    OBVIOUS
  <2>3. PICK n : n = q[2]
    OBVIOUS
  <2>4. Exact(X, seen, Y, m, n, r)
    BY <1>5, <2>2, <2>3
  <2>5. IsBag(r.kept) /\ \A x : x \in ToSet(r.kept) <=> Keeps(X, seen, Y, m, n, x)
    BY <2>4 DEF Exact
  <2>6. ASSUME seen = X
        PROVE  /\ IsBag(r.merged)
               /\ \A x : x \in ToSet(r.merged) <=>
                    Keeps(X, seen, Y, m, n, x) \/ Stays(X, Y, m, n, x)
    BY <2>4, <2>6 DEF Exact
  <2>7. PICK T : T = Turn(X, seen, Y, p, r)
    OBVIOUS
  <2>8. CASE seen[i] = Y[j]
    <3>1. m = i + 1 /\ n = j + 1
      BY <1>1, <1>2, <2>2, <2>3, <2>8 DEF Following
    <3>2. T.kept = r.kept /\ T.merged = <<Y[j]>> \o r.merged
      BY <1>1, <1>2, <1>5, <2>7, <2>8 DEF Turn
    <3>3. \A x : Keeps(X, seen, Y, i, j, x) <=> Keeps(X, seen, Y, m, n, x)
      BY <2>1, <2>8, <3>1, AtEqual
    <3>4. ASSUME seen = X
          PROVE  /\ IsBag(T.merged)
                 /\ \A x : x \in ToSet(T.merged) <=>
                      Keeps(X, seen, Y, i, j, x) \/ Stays(X, Y, i, j, x)
      <4>1. /\ \A x : Stays(X, Y, i, j, x) <=> x = Y[j] \/ Stays(X, Y, m, n, x)
            /\ \A x : Keeps(X, seen, Y, m, n, x) \/ Stays(X, Y, m, n, x) =>
                   Y[j][1] < x[1] /\ x[2] < Y[j][2]
        BY <2>1, <2>8, <3>1, <3>4, AtEqual
      <4>2. \A x \in ToSet(r.merged) : Y[j][1] < x[1] /\ x[2] < Y[j][2]
        BY <2>6, <3>4, <4>1
      <4>3. /\ IsBag(<<Y[j]>> \o r.merged)
            /\ \A x : x \in ToSet(<<Y[j]>> \o r.merged) <=> x = Y[j] \/ x \in ToSet(r.merged)
        BY <2>1, <2>6, <3>4, <4>2, Prepended
      <4>4. QED
        BY <2>6, <3>2, <3>3, <3>4, <4>1, <4>3
    <3>5. QED
      BY <1>1, <1>2, <2>5, <2>7, <3>2, <3>3, <3>4 DEF Exact
  <2>9. CASE seen[i] # Y[j] /\ Before(seen[i], Y[j])
    <3>1. m = i + 1 /\ n = Safer(Y, seen[i], j)
      BY <1>1, <1>2, <2>2, <2>3, <2>9 DEF Following
    <3>2. T.kept = <<X[i]>> \o r.kept /\ T.merged = <<X[i]>> \o r.merged
      BY <1>1, <1>2, <1>5, <2>7, <2>9 DEF Turn
    <3>3. /\ \A x : Keeps(X, seen, Y, i, j, x) <=> x = X[i] \/ Keeps(X, seen, Y, m, n, x)
          /\ \A x : Keeps(X, seen, Y, m, n, x) => X[i][1] < x[1] /\ x[2] < X[i][2]
      BY <2>1, <2>9, <3>1, AtBefore
    <3>4. /\ IsBag(<<X[i]>> \o r.kept)
          /\ \A x : x \in ToSet(<<X[i]>> \o r.kept) <=> x = X[i] \/ x \in ToSet(r.kept)
      <4>1. \A x \in ToSet(r.kept) : X[i][1] < x[1] /\ x[2] < X[i][2]
        BY <2>5, <3>3
      <4>2. QED
        BY <2>1, <2>5, <4>1, Prepended
    <3>5. ASSUME seen = X
          PROVE  /\ IsBag(T.merged)
                 /\ \A x : x \in ToSet(T.merged) <=>
                      Keeps(X, seen, Y, i, j, x) \/ Stays(X, Y, i, j, x)
      <4>1. /\ \A x : Stays(X, Y, i, j, x) <=> Stays(X, Y, m, n, x)
            /\ \A x : Stays(X, Y, m, n, x) => X[i][1] < x[1] /\ x[2] < X[i][2]
        BY <2>1, <2>9, <3>1, <3>5, AtBefore
      <4>2. \A x \in ToSet(r.merged) : X[i][1] < x[1] /\ x[2] < X[i][2]
        BY <2>6, <3>3, <3>5, <4>1
      <4>3. /\ IsBag(<<X[i]>> \o r.merged)
            /\ \A x : x \in ToSet(<<X[i]>> \o r.merged) <=> x = X[i] \/ x \in ToSet(r.merged)
        BY <2>1, <2>6, <3>5, <4>2, Prepended
      <4>4. QED
        BY <2>6, <3>2, <3>3, <3>5, <4>1, <4>3
    <3>6. QED
      BY <1>1, <1>2, <2>5, <2>7, <3>2, <3>3, <3>4, <3>5 DEF Exact
  <2>10. CASE seen[i] # Y[j] /\ ~ Before(seen[i], Y[j])
    <3>1. m = Safer(seen, Y[j], i) /\ n = j + 1
      BY <1>1, <1>2, <2>2, <2>3, <2>10 DEF Following
    <3>2. T.kept = r.kept /\ T.merged = <<Y[j]>> \o r.merged
      BY <1>1, <1>2, <1>5, <2>7, <2>10 DEF Turn
    <3>3. \A x : Keeps(X, seen, Y, i, j, x) <=> Keeps(X, seen, Y, m, n, x)
      BY <2>1, <2>10, <3>1, AtAfter
    <3>4. ASSUME seen = X
          PROVE  /\ IsBag(T.merged)
                 /\ \A x : x \in ToSet(T.merged) <=>
                      Keeps(X, seen, Y, i, j, x) \/ Stays(X, Y, i, j, x)
      <4>1. /\ \A x : Stays(X, Y, i, j, x) <=> x = Y[j] \/ Stays(X, Y, m, n, x)
            /\ \A x : Keeps(X, seen, Y, m, n, x) \/ Stays(X, Y, m, n, x) =>
                   Y[j][1] < x[1] /\ x[2] < Y[j][2]
        BY <2>1, <2>10, <3>1, <3>4, AtAfter
      <4>2. \A x \in ToSet(r.merged) : Y[j][1] < x[1] /\ x[2] < Y[j][2]
        BY <2>6, <3>4, <4>1
      <4>3. /\ IsBag(<<Y[j]>> \o r.merged)
            /\ \A x : x \in ToSet(<<Y[j]>> \o r.merged) <=> x = Y[j] \/ x \in ToSet(r.merged)
        BY <2>1, <2>6, <3>4, <4>2, Prepended
      <4>4. QED
        BY <2>6, <3>2, <3>3, <3>4, <4>1, <4>3
    <3>5. QED
      BY <1>1, <1>2, <2>5, <2>7, <3>2, <3>3, <3>4 DEF Exact
  <2>11. QED
    BY <2>8, <2>9, <2>10
<1>6. QED
  BY <1>4, <1>5

\* The walk from the beginning of both bags keeps what it should and nothing
\* else: by induction over the distance to the ends.
LEMMA WalkExact ==
  ASSUME NEW X, NEW seen, NEW Y, Walkable(X, seen, Y)
  PROVE  Exact(X, seen, Y, 1, 1, Walk(X, seen, Y))
<1>1. PICK f : Unfolded(X, seen, Y, f)
  BY WalkUnfolds
<1>2. Len(X) \in Nat /\ Len(Y) \in Nat
  BY BagParts DEF Walkable
<1>3. PICK n \in Nat : n = Len(X) + Len(Y) + 2
  BY <1>2
<1> DEFINE right(p) == Exact(X, seen, Y, p[1], p[2], f[p])
           T == {m \in 0 .. n : \A p \in Grid(X, Y) : n - (p[1] + p[2]) < m => right(p)}
<1>4. 0 \in T
  BY <1>2, <1>3 DEF Grid
<1>5. ASSUME NEW m \in 0 .. n - 1, m \in T PROVE m + 1 \in T
  <2> SUFFICES ASSUME NEW p \in Grid(X, Y), n - (p[1] + p[2]) < m + 1 PROVE right(p)
    OBVIOUS
  <2>1. PICK q : q = Following(X, seen, Y, p)
    OBVIOUS
  <2>2. ASSUME ~ Ended(X, Y, p) PROVE Exact(X, seen, Y, q[1], q[2], f[q])
    <3>1. q \in Grid(X, Y) /\ p[1] + p[2] < q[1] + q[2]
      BY <2>1, <2>2, NextTurn
    <3>2. n - (q[1] + q[2]) < m
      BY SMTT(20), <1>2, <1>3, <3>1 DEF Grid
    <3>3. QED
      BY <1>5, <3>1, <3>2
  <2>3. PICK r : r = f[q]
    OBVIOUS
  <2>4. Exact(X, seen, Y, p[1], p[2], Turn(X, seen, Y, p, r))
    BY <2>1, <2>2, <2>3, TurnExact
  <2>5. f[p] = Turn(X, seen, Y, p, r)
    BY <1>1, <2>1, <2>3 DEF Unfolded
  <2>6. QED
    BY <2>4, <2>5
<1> HIDE DEF T
<1>6. n \in T
  BY <1>4, <1>5, InductionUpTo
<1>7. <<1, 1>> \in Grid(X, Y) /\ n - (1 + 1) < n
  BY <1>2, <1>3 DEF Grid
<1>8. PICK p : p = <<1, 1>>
  OBVIOUS
<1>9. p \in Grid(X, Y) /\ n - (p[1] + p[2]) < n /\ p[1] = 1 /\ p[2] = 1
  BY <1>7, <1>8
<1>10. Exact(X, seen, Y, 1, 1, f[p])
  BY <1>6, <1>9 DEF T
<1>11. QED
  BY <1>1, <1>8, <1>10 DEF Unfolded

-----------------------------------------------------------------------------
(* The three merges.                                                        *)

\* pruned labels: those that none of Y covers, once inflated.
LEMMA PrunedIs ==
  ASSUME NEW X, IsBag(X), NEW Y, IsBag(Y)
  PROVE  /\ IsBag(Pruned(X, Y))
         /\ \A x : x \in ToSet(Pruned(X, Y)) <=>
              x \in ToSet(X) /\ \A b \in ToSet(Y) : ~ Covers(b, Inflated(x))
<1>1. PICK seen : seen = [k \in DOMAIN X |-> Inflated(X[k])]
  OBVIOUS
<1>2. /\ IsBag(seen) /\ Len(seen) = Len(X)
      /\ \A k \in 1 .. Len(X) : seen[k] = Inflated(X[k])
  BY <1>1, InflatedBag
<1>3. PICK r : r = Walk(X, seen, Y)
  OBVIOUS
<1>4. Exact(X, seen, Y, 1, 1, r)
  BY <1>2, <1>3, WalkExact DEF Walkable
<1>5. Pruned(X, Y) = r.kept
  BY <1>1, <1>3 DEF Pruned
<1>6. \A x : x \in ToSet(X) <=> \E k \in 1 .. Len(X) : x = X[k]
  BY Members DEF IsBag
<1>7. \A x : x \in ToSet(Y) <=> \E k \in 1 .. Len(Y) : x = Y[k]
  BY Members DEF IsBag
<1>8. \A k \in 1 .. Len(X) :
        Free(seen, Y, k, 1) <=> \A b \in ToSet(Y) : ~ Covers(b, Inflated(X[k]))
  BY <1>2, <1>7 DEF Free
<1>9. \A x : Keeps(X, seen, Y, 1, 1, x) <=>
               x \in ToSet(X) /\ \A b \in ToSet(Y) : ~ Covers(b, Inflated(x))
  BY <1>6, <1>8 DEF Keeps
<1>10. QED
  BY <1>4, <1>5, <1>9 DEF Exact

\* A label covers itself.
LEMMA CoversItself ==
  ASSUME NEW a \in Label
  PROVE  Covers(a, a)
BY DEF Covers, Label

\* Covering is transitive.
LEMMA CoversOn ==
  ASSUME NEW a \in Label, NEW b \in Label, NEW c \in Label, Covers(a, b), Covers(b, c)
  PROVE  Covers(a, c)
BY DEF Covers, Label

\* A label moved along a street is a label, covered by what it was.
LEMMA PlusLabel ==
  ASSUME NEW a \in Label, NEW len \in Label
  PROVE  Plus(a, len) \in Label /\ Covers(a, Plus(a, len))
BY DEF Plus, Covers, Label

\* Labels moved along an arc.
LEMMA MovedIs ==
  ASSUME NEW X, IsBag(X), NEW len \in Label
  PROVE  /\ IsBag(Moved(X, len))
         /\ \A x : x \in ToSet(Moved(X, len)) <=> \E a \in ToSet(X) : x = Plus(a, len)
<1>1. /\ Len(X) \in Nat /\ DOMAIN X = 1 .. Len(X)
      /\ \A n \in 1 .. Len(X) : X[n] \in Label /\ X[n][1] \in Nat /\ X[n][2] \in Nat
      /\ \A m, n \in 1 .. Len(X) : m < n => X[m][1] < X[n][1] /\ X[n][2] < X[m][2]
  BY BagParts
<1>2. PICK M : M = Moved(X, len)
  OBVIOUS
<1>3. len[1] \in Nat /\ len[2] \in Nat
  BY DEF Label
<1>4. \A k \in 1 .. Len(X) : M[k] = Plus(X[k], len)
  BY <1>1, <1>2 DEF Moved
<1>5. \A k \in 1 .. Len(X) : M[k] \in Label
  BY <1>1, <1>4, PlusLabel
<1>6. M \in [1 .. Len(X) -> Label]
  BY <1>1, <1>2, <1>5 DEF Moved
<1>7. M \in Seq(Label) /\ DOMAIN M = 1 .. Len(X)
  BY <1>1, <1>6
<1>8. Len(M) = Len(X)
  BY <1>1, <1>7, LenProperties
<1>9. ASSUME NEW m \in 1 .. Len(X), NEW n \in 1 .. Len(X), m < n
      PROVE  M[m][1] < M[n][1] /\ M[n][2] < M[m][2]
  <2>1. X[m][1] < X[n][1] /\ X[n][2] < X[m][2]
    BY <1>1, <1>9
  <2>2. QED
    BY SMTT(20), <1>1, <1>3, <1>4, <2>1 DEF Plus
<1>10. \A x : x \in ToSet(X) <=> \E k \in 1 .. Len(X) : x = X[k]
  BY Members DEF IsBag
<1>11. \A x : x \in ToSet(M) <=> \E k \in 1 .. Len(X) : x = M[k]
  BY <1>7, <1>8, Members
<1>12. \A x : x \in ToSet(M) <=> \E a \in ToSet(X) : x = Plus(a, len)
  BY <1>4, <1>10, <1>11
<1>13. QED
  BY <1>2, <1>7, <1>8, <1>9, <1>12 DEF IsBag, Stairs

\* merged labels: those of X that none of Y covers, and those of Y that none of X
\* covers but the same.
LEMMA MergedIs ==
  ASSUME NEW X, IsBag(X), NEW Y, IsBag(Y)
  PROVE  /\ IsBag(Merged(X, Y))
         /\ \A x : x \in ToSet(Merged(X, Y)) <=>
              \/ x \in ToSet(X) /\ \A b \in ToSet(Y) : ~ Covers(b, x)
              \/ x \in ToSet(Y) /\ \A a \in ToSet(X) : Covers(a, x) => a = x
<1>1. PICK r : r = Walk(X, X, Y)
  OBVIOUS
<1>2. Exact(X, X, Y, 1, 1, r)
  BY <1>1, WalkExact DEF Walkable
<1>3. Merged(X, Y) = r.merged
  BY <1>1 DEF Merged
<1>4. \A x : x \in ToSet(X) <=> \E k \in 1 .. Len(X) : x = X[k]
  BY Members DEF IsBag
<1>5. \A x : x \in ToSet(Y) <=> \E k \in 1 .. Len(Y) : x = Y[k]
  BY Members DEF IsBag
<1>6. \A x : Keeps(X, X, Y, 1, 1, x) <=>
               x \in ToSet(X) /\ \A b \in ToSet(Y) : ~ Covers(b, x)
  BY <1>4, <1>5 DEF Keeps, Free
<1>7. \A x : Stays(X, Y, 1, 1, x) <=>
               x \in ToSet(Y) /\ \A a \in ToSet(X) : Covers(a, x) => a = x
  BY <1>4, <1>5 DEF Stays, Alone
<1>8. QED
  BY <1>2, <1>3, <1>6, <1>7 DEF Exact

\* The members of a bag are labels.
LEMMA BagLabels ==
  ASSUME NEW S, IsBag(S)
  PROVE  \A x \in ToSet(S) : x \in Label
<1>1. S \in Seq(Label)
  BY DEF IsBag
<1>2. QED
  BY <1>1, Members, ElementOfSeq

\* A label that comes into the bag Y from X along an arc.
Comes(Y, X, len, x) ==
  /\ \E a \in ToSet(X) : x = Plus(a, len)
  /\ \A b \in ToSet(Y) : ~ Covers(b, Inflated(x))

\* epsilon_approximation_merge makes, in one pass, what a comparison of all pairs
\* would: none of Y covers a label that comes in, for it would cover it inflated.
LEMMA MergeIs ==
  ASSUME NEW Y, IsBag(Y), NEW X, IsBag(X), NEW len \in Label
  PROVE  /\ IsBag(Merge(Y, X, len))
         /\ \A x : x \in ToSet(Merge(Y, X, len)) <=>
              \/ Comes(Y, X, len, x)
              \/ x \in ToSet(Y) /\ \A a : Comes(Y, X, len, a) => ~ Covers(a, x)
<1>1. PICK M : M = Moved(X, len)
  OBVIOUS
<1>2. IsBag(M) /\ \A x : x \in ToSet(M) <=> \E a \in ToSet(X) : x = Plus(a, len)
  BY <1>1, MovedIs
<1>3. PICK P : P = Pruned(M, Y)
  OBVIOUS
<1>4. /\ IsBag(P)
      /\ \A x : x \in ToSet(P) <=>
           x \in ToSet(M) /\ \A b \in ToSet(Y) : ~ Covers(b, Inflated(x))
  BY <1>2, <1>3, PrunedIs
<1>5. \A x : x \in ToSet(P) <=> Comes(Y, X, len, x)
  BY <1>2, <1>4 DEF Comes
<1>6. PICK R : R = Merged(P, Y)
  OBVIOUS
<1>7. /\ IsBag(R)
      /\ \A x : x \in ToSet(R) <=>
              \/ x \in ToSet(P) /\ \A b \in ToSet(Y) : ~ Covers(b, x)
              \/ x \in ToSet(Y) /\ \A a \in ToSet(P) : Covers(a, x) => a = x
  BY <1>4, <1>6, MergedIs
<1>8. R = Merge(Y, X, len)
  BY <1>1, <1>3, <1>6 DEF Merge
<1>9. ASSUME NEW x \in ToSet(P), NEW b \in ToSet(Y) PROVE ~ Covers(b, x)
  <2>1. x \in Label /\ b \in Label
    BY <1>4, BagLabels
  <2>2. Inflated(x) \in Label /\ Covers(x, Inflated(x))
    BY <2>1, InflatedLabel
  <2>3. ~ Covers(b, Inflated(x))
    BY <1>4
  <2>4. QED
    BY <2>1, <2>2, <2>3, CoversOn
<1>10. ASSUME NEW a \in ToSet(P), NEW x \in ToSet(Y) PROVE a # x
  <2>1. x \in Label
    BY BagLabels
  <2>2. QED
    BY <1>9, <2>1, CoversItself
<1>11. \A x : x \in ToSet(R) <=>
              \/ x \in ToSet(P)
              \/ x \in ToSet(Y) /\ \A a \in ToSet(P) : ~ Covers(a, x)
  BY <1>7, <1>9, <1>10
<1>12. QED
  BY <1>5, <1>7, <1>8, <1>11

\* Every label of Y, and every one of X moved and inflated, is covered after.
LEMMA MergeCovers ==
  ASSUME NEW Y, IsBag(Y), NEW X, IsBag(X), NEW len \in Label
  PROVE  /\ \A y \in ToSet(Y) : \E b \in ToSet(Merge(Y, X, len)) : Covers(b, y)
         /\ \A a \in ToSet(X) : \E b \in ToSet(Merge(Y, X, len)) : Covers(b, Inflated(Plus(a, len)))
<1>1. PICK R : R = Merge(Y, X, len)
  OBVIOUS
<1>2. /\ IsBag(R)
      /\ \A x : x \in ToSet(R) <=>
              \/ Comes(Y, X, len, x)
              \/ x \in ToSet(Y) /\ \A a : Comes(Y, X, len, a) => ~ Covers(a, x)
  BY <1>1, MergeIs
<1>3. ASSUME NEW y \in ToSet(Y) PROVE \E b \in ToSet(R) : Covers(b, y)
  <2>1. y \in Label
    BY BagLabels
  <2>2. Covers(y, y)
    BY <2>1, CoversItself
  <2>3. QED
    BY <1>2, <2>2
<1>4. ASSUME NEW a \in ToSet(X) PROVE \E b \in ToSet(R) : Covers(b, Inflated(Plus(a, len)))
  <2>1. PICK x : x = Plus(a, len)
    OBVIOUS
  <2>2. x \in Label /\ Inflated(x) \in Label /\ Covers(x, Inflated(x))
    BY <2>1, BagLabels, PlusLabel, InflatedLabel
  <2>3. CASE Comes(Y, X, len, x)
    BY <1>2, <2>1, <2>2, <2>3
  <2>4. CASE ~ Comes(Y, X, len, x)
    <3>1. PICK y \in ToSet(Y) : Covers(y, Inflated(x))
      BY <2>1, <2>4 DEF Comes
    <3>2. PICK b \in ToSet(R) : Covers(b, y)
      BY <1>3
    <3>3. b \in Label /\ y \in Label
      BY <1>2, BagLabels
    <3>4. Covers(b, Inflated(x))
      BY <2>2, <3>1, <3>2, <3>3, CoversOn
    <3>5. QED
      BY <2>1, <3>4
  <2>5. QED
    BY <2>3, <2>4
<1>5. QED
  BY <1>1, <1>3, <1>4

\* target_pruning compares all pairs, too.
LEMMA TargetPrunedIs ==
  ASSUME NEW T, IsBag(T), NEW X, IsBag(X)
  PROVE  TargetPruned(T, X) => \A x \in ToSet(X) : \E c \in ToSet(T) : Covers(c, x)
<1>1. PICK r : r = Walk(X, X, T)
  OBVIOUS
<1>2. Exact(X, X, T, 1, 1, r)
  BY <1>1, WalkExact DEF Walkable
<1>3. \A x : x \in ToSet(X) <=> \E k \in 1 .. Len(X) : x = X[k]
  BY Members DEF IsBag
<1>4. \A x : x \in ToSet(T) <=> \E k \in 1 .. Len(T) : x = T[k]
  BY Members DEF IsBag
<1>5. TargetPruned(T, X) => r.kept = <<>>
  BY <1>1 DEF TargetPruned
<1>6. \A x : x \notin ToSet(<<>>)
  BY DEF ToSet
<1>7. TargetPruned(T, X) => \A x : ~ Keeps(X, X, T, 1, 1, x)
  BY <1>2, <1>5, <1>6 DEF Exact
<1>8. ASSUME NEW k \in 1 .. Len(X), \A x : ~ Keeps(X, X, T, 1, 1, x)
      PROVE  \E l \in 1 .. Len(T) : Covers(T[l], X[k])
  BY Zenon, <1>8 DEF Keeps, Free
<1>9. ASSUME TargetPruned(T, X), NEW x \in ToSet(X) PROVE \E c \in ToSet(T) : Covers(c, x)
  <2>1. PICK k \in 1 .. Len(X) : x = X[k]
    BY <1>3, <1>9
  <2>2. PICK l \in 1 .. Len(T) : Covers(T[l], X[k])
    BY <1>7, <1>8, <1>9
  <2>3. QED
    BY <1>4, <2>1, <2>2
<1>10. QED
  BY <1>9

-----------------------------------------------------------------------------
(* The search.                                                              *)

\* The streets of a network, and what one costs, either way.
Joined(g, u, v) == {u, v} \in DOMAIN g.length
CostIn(g, u, v) ==
  <<g.length[{u, v}], IF {u, v} \in g.safe THEN 0 ELSE g.length[{u, v}]>>

\* A street joins two junctions both ways, at the same cost, of which the unsafe
\* part is no more than its length.
LEMMA StreetCost ==
  ASSUME NEW g \in Town, NEW u, NEW v, Joined(g, u, v)
  PROVE  /\ u \in Vertex /\ v \in Vertex /\ u # v /\ Joined(g, v, u)
         /\ CostIn(g, u, v) \in Label /\ CostIn(g, u, v)[2] <= CostIn(g, u, v)[1]
         /\ CostIn(g, v, u) = CostIn(g, u, v)
<1>1. {u, v} \in DOMAIN g.length
  BY DEF Joined
<1>2. PICK x \in Vertex, y \in Vertex : x # y /\ {u, v} = {x, y}
  BY <1>1, TownAssumption
<1>3. u \in Vertex /\ v \in Vertex /\ u # v
  BY <1>2
<1>4. PICK l \in Nat : l = g.length[{u, v}]
  BY <1>1, TownAssumption
<1>5. {v, u} = {u, v}
  OBVIOUS
<1>6. CostIn(g, u, v) \in {<<l, 0>>, <<l, l>>}
  BY <1>4 DEF CostIn
<1>7. \A c \in {<<l, 0>>, <<l, l>>} : c \in Label /\ c[2] <= c[1]
  BY <1>4 DEF Label
<1>8. CostIn(g, v, u) = CostIn(g, u, v)
  BY <1>5 DEF CostIn
<1>9. QED
  BY <1>1, <1>3, <1>5, <1>6, <1>7, <1>8 DEF Joined

\* The operators of the search, in terms of the town asked about.
LEMMA NetworkOf ==
  /\ \A u, v : Weight(u, v) = CostIn(town, u, v)
  /\ \A u, v : u \in Neighbours(v) <=> u \in Vertex /\ Joined(town, u, v)
BY DEF Weight, CostIn, Neighbours, Joined

Asked == town \in Town /\ s \in Vertex /\ t \in Vertex

Bags ==
  /\ bag \in [Vertex -> Seq(Label)]
  /\ \A v \in Vertex : IsBag(bag[v])
  /\ \A v \in Vertex : \A a \in ToSet(bag[v]) : a[2] <= a[1]

\* Nothing is shorter than standing at the source.
Source == \A x : x \in ToSet(bag[s]) <=> x = <<0, 0>>

Opened ==
  /\ open \in Seq(Vertex) /\ IsInjective(open)
  /\ \A v \in ToSet(open) : bag[v] # <<>>
  /\ s # t => t \notin ToSet(open)

Merging == from \in Vertex /\ \A k \in arcs : Joined(town, k, from)

Reading ==
  /\ at \in Vertex /\ label \in Label /\ path \in Seq(Vertex \X Vertex)
  /\ path = <<>> => at = t
  /\ path # <<>> => path[1][1] = at /\ path[Len(path)][2] = t

\* What has been read back, while there are labels left to read.
Answer == [weight : Label, path : Seq(Vertex \X Vertex)]
Collected ==
  /\ pc \in {"search", "read", "choose", "dump", "done"}
  /\ pc = "search" => pareto = <<>>
  /\ pc = "read" => pareto \in Seq(Answer) /\ Len(pareto) < Len(bag[t])

IInv == Asked /\ Bags /\ Source /\ Opened /\ Merging /\ Reading /\ Collected

\* A sequence that is not empty has a first member.
LEMMA NonEmpty ==
  ASSUME NEW T, NEW S \in Seq(T)
  PROVE  S # <<>> <=> \E x : x \in ToSet(S)
<1>1. ASSUME S # <<>> PROVE S[1] \in ToSet(S)
  <2>1. Len(S) \in Nat \ {0}
    BY <1>1, EmptySeq
  <2>2. 1 \in 1 .. Len(S)
    BY <2>1
  <2>3. QED
    BY <2>2, Members
<1>2. ASSUME S = <<>> PROVE \A x : x \notin ToSet(S)
  BY <1>2 DEF ToSet
<1>3. QED
  BY <1>1, <1>2

\* The invariant holds of a query.
LEMMA InitInv == Init => IInv
<1> SUFFICES ASSUME Init PROVE IInv
  OBVIOUS
<1>1. Asked
  BY TripAssumption DEF Init, Asked
<1>2. /\ bag = [v \in Vertex |-> IF v = s THEN <<<<0, 0>>>> ELSE <<>>]
      /\ open = <<s>> /\ from = s /\ arcs = {} /\ pareto = <<>> /\ at = t
      /\ label = <<0, 0>> /\ path = <<>> /\ pc = "search"
  BY DEF Init
<1>3. PICK zero \in Label : zero = <<0, 0>>
  BY DEF Label
<1>4. IsBag(<<zero>>) /\ \A x : x \in ToSet(<<zero>>) <=> x = zero
  BY DEF IsBag, Stairs, ToSet
<1>5. IsBag(<<>>) /\ \A x : x \notin ToSet(<<>>)
  BY DEF IsBag, Stairs, ToSet
<1>6. \A v \in Vertex : bag[v] = IF v = s THEN <<zero>> ELSE <<>>
  BY <1>2, <1>3
<1>7. \A v \in Vertex : IsBag(bag[v])
  BY <1>4, <1>5, <1>6
<1>8. bag \in [Vertex -> Seq(Label)]
  BY <1>2, <1>7 DEF IsBag
<1>9. \A v \in Vertex : \A a \in ToSet(bag[v]) : a[2] <= a[1]
  BY <1>3, <1>4, <1>5, <1>6
<1>10. Bags
  BY <1>7, <1>8, <1>9 DEF Bags
<1>11. Source
  BY <1>1, <1>3, <1>4, <1>6 DEF Source, Asked
<1>12. Opened
  <2>1. open \in Seq(Vertex) /\ IsInjective(open) /\ \A v : v \in ToSet(open) <=> v = s
    BY <1>1, <1>2 DEF Asked, IsInjective, ToSet
  <2>2. bag[s] # <<>>
    BY <1>1, <1>6 DEF Asked
  <2>3. QED
    BY <2>1, <2>2 DEF Opened
<1>13. Merging /\ Reading /\ Collected
  <2>1. label \in Label
    BY <1>2, <1>3
  <2>2. path \in Seq(Vertex \X Vertex)
    BY <1>2
  <2>3. QED
    BY <1>1, <1>2, <2>1, <2>2 DEF Asked, Merging, Reading, Collected
<1>14. QED
  BY <1>1, <1>10, <1>11, <1>12, <1>13 DEF IInv

\* Some open vertex comes first: its first label is the shortest, the safest of
\* these, and of vertices with the same label it is the one opened first.
LEMMA SelectedOpen ==
  ASSUME IInv, open # <<>>
  PROVE  Selected \in DOMAIN open
<1>1. open \in Seq(Vertex) /\ DOMAIN open = 1 .. Len(open) /\ Len(open) \in Nat \ {0}
  BY LenProperties, EmptySeq DEF IInv, Opened
<1> DEFINE first(k) == bag[open[k]][1]
<1>2. ASSUME NEW k \in DOMAIN open PROVE first(k) \in Label
  <2>1. open[k] \in Vertex /\ open[k] \in ToSet(open)
    BY <1>1, ElementOfSeq, Members
  <2>2. bag[open[k]] \in Seq(Label) /\ bag[open[k]] # <<>>
    BY <2>1 DEF IInv, Opened, Bags
  <2>3. 1 \in 1 .. Len(bag[open[k]])
    <3>1. Len(bag[open[k]]) \in Nat \ {0}
      BY <2>2, EmptySeq
    <3>2. QED
      BY <3>1
  <2>4. QED
    BY <2>2, <2>3, ElementOfSeq
<1>3. PICK f \in [DOMAIN open -> Label] : \A k \in DOMAIN open : f[k] = first(k)
  <2>1. [k \in DOMAIN open |-> first(k)] \in [DOMAIN open -> Label]
    BY <1>2
  <2>2. QED
    BY <2>1
<1> HIDE DEF first
<1>4. \A k \in DOMAIN open : f[k][1] \in Nat /\ f[k][2] \in Nat /\ f[k] = <<f[k][1], f[k][2]>>
  BY <1>3 DEF Label
<1>5. PICK x \in {f[k][1] : k \in DOMAIN open} : \A y \in {f[k][1] : k \in DOMAIN open} : x <= y
  <2>1. {f[k][1] : k \in DOMAIN open} \in SUBSET Nat /\ {f[k][1] : k \in DOMAIN open} # {}
    BY <1>1, <1>4
  <2>2. PICK S : S = {f[k][1] : k \in DOMAIN open}
    OBVIOUS
  <2>3. QED
    BY <2>1, <2>2, LeastNatural
<1> DEFINE K == {k \in DOMAIN open : f[k][1] = x}
<1>6. PICK z \in {f[k][2] : k \in K} : \A y \in {f[k][2] : k \in K} : z <= y
  <2>1. {f[k][2] : k \in K} \in SUBSET Nat /\ {f[k][2] : k \in K} # {}
    BY <1>4, <1>5
  <2>2. PICK S : S = {f[k][2] : k \in K}
    OBVIOUS
  <2>3. QED
    BY <2>1, <2>2, LeastNatural
<1> DEFINE L == {k \in K : f[k][2] = z}
<1>7. PICK k \in L : \A m \in L : k <= m
  <2>1. L \in SUBSET Nat /\ L # {}
    BY <1>1, <1>6
  <2>2. PICK S : S = L
    OBVIOUS
  <2>3. QED
    BY <2>1, <2>2, LeastNatural
<1>8. ASSUME NEW m \in DOMAIN open \ {k}
      PROVE  Before(f[k], f[m]) \/ (f[k] = f[m] /\ k < m)
  <2>1. f[k][1] = x /\ f[k][2] = z /\ k \in DOMAIN open
    OBVIOUS
  <2>2. x \in Nat /\ z \in Nat /\ f[m][1] \in Nat /\ f[m][2] \in Nat /\ k \in Nat /\ m \in Nat
    BY <1>1, <1>4, <2>1
  <2>3. x <= f[m][1]
    BY <1>5
  <2>4. CASE x < f[m][1]
    BY <2>1, <2>4 DEF Before
  <2>5. CASE f[m][1] = x /\ z < f[m][2]
    BY <2>1, <2>5 DEF Before
  <2>6. CASE f[m][1] = x /\ f[m][2] = z
    <3>1. m \in L
      BY <2>6
    <3>2. k <= m /\ k # m
      BY <1>7, <3>1
    <3>3. f[k] = f[m]
      <4>1. f[k] = <<x, z>> /\ f[m] = <<x, z>>
        BY <1>4, <2>1, <2>6
      <4>2. QED
        BY <4>1
    <3>4. QED
      BY <2>2, <3>2, <3>3
  <2>7. f[m][1] = x => z <= f[m][2]
    BY <1>6
  <2>8. QED
    BY <2>2, <2>3, <2>4, <2>5, <2>6, <2>7
<1>9. k \in DOMAIN open
  OBVIOUS
<1>10. \A m \in DOMAIN open \ {k} : Before(first(k), first(m)) \/ (first(k) = first(m) /\ k < m)
  BY <1>3, <1>8, <1>9
<1>11. Selected = CHOOSE i \in DOMAIN open :
        \A m \in DOMAIN open \ {i} : Before(first(i), first(m)) \/ (first(i) = first(m) /\ i < m)
  BY DEF Selected, first
<1>12. QED
  BY <1>9, <1>10, <1>11

\* A sequence without one of its places.
LEMMA Removed ==
  ASSUME NEW T, NEW S \in Seq(T), NEW n \in 1 .. Len(S), IsInjective(S)
  PROVE  /\ RemoveAt(S, n) \in Seq(T) /\ IsInjective(RemoveAt(S, n))
         /\ \A x : x \in ToSet(RemoveAt(S, n)) <=> x \in ToSet(S) /\ x # S[n]
<1>1. Len(S) \in Nat /\ DOMAIN S = 1 .. Len(S) /\ \A i \in 1 .. Len(S) : S[i] \in T
  BY LenProperties, ElementOfSeq
<1>2. PICK A : A = SubSeq(S, 1, n - 1)
  OBVIOUS
<1>3. PICK B : B = SubSeq(S, n + 1, Len(S))
  OBVIOUS
<1>4. /\ A \in Seq(T) /\ Len(A) = n - 1 /\ \A i \in 1 .. n - 1 : A[i] = S[i]
  <2>1. 1 \in Int /\ n - 1 \in Int /\ \A i \in 1 .. n - 1 : S[i] \in T
    BY <1>1
  <2>2. /\ A \in Seq(T) /\ Len(A) = (IF 1 <= n - 1 THEN (n - 1) - 1 + 1 ELSE 0)
        /\ \A i \in 1 .. (n - 1) - 1 + 1 : A[i] = S[1 + i - 1]
    BY <1>2, <2>1, SubSeqProperties
  <2>3. \A i \in 1 .. n - 1 : 1 + i - 1 = i /\ i \in 1 .. (n - 1) - 1 + 1
    BY <1>1
  <2>4. QED
    BY <1>1, <2>2, <2>3
<1>5. /\ B \in Seq(T) /\ Len(B) = Len(S) - n /\ \A i \in 1 .. Len(S) - n : B[i] = S[n + i]
  <2>1. n + 1 \in Int /\ Len(S) \in Int /\ \A i \in n + 1 .. Len(S) : S[i] \in T
    BY <1>1
  <2>2. /\ B \in Seq(T) /\ Len(B) = (IF n + 1 <= Len(S) THEN Len(S) - (n + 1) + 1 ELSE 0)
        /\ \A i \in 1 .. Len(S) - (n + 1) + 1 : B[i] = S[(n + 1) + i - 1]
    BY <1>3, <2>1, SubSeqProperties
  <2>3. ASSUME NEW i \in 1 .. Len(S) - n PROVE B[i] = S[n + i]
    <3>1. (n + 1) + i - 1 = n + i /\ i \in 1 .. Len(S) - (n + 1) + 1
      BY <1>1
    <3>2. B[i] = S[(n + 1) + i - 1]
      BY <2>2, <3>1
    <3>3. QED
      BY <3>1, <3>2
  <2>4. Len(B) = Len(S) - n
    <3>1. PICK l \in Nat : l = Len(S)
      BY <1>1
    <3>2. Len(B) = IF n + 1 <= l THEN l - (n + 1) + 1 ELSE 0
      BY <2>2, <3>1
    <3>3. n \in 1 .. l
      BY <3>1
    <3>4. (IF n + 1 <= l THEN l - (n + 1) + 1 ELSE 0) = l - n
      BY <3>3
    <3>5. QED
      BY <3>1, <3>2, <3>4
  <2>5. QED
    BY <2>2, <2>3, <2>4
<1>6. PICK R : R = RemoveAt(S, n)
  OBVIOUS
<1>7. R = A \o B
  BY <1>2, <1>3, <1>6 DEF RemoveAt
<1>8. /\ A \o B \in Seq(T) /\ Len(A \o B) = Len(A) + Len(B)
      /\ \A i \in 1 .. Len(A) + Len(B) : (A \o B)[i] = IF i <= Len(A) THEN A[i] ELSE B[i - Len(A)]
  BY <1>4, <1>5, ConcatProperties, Zenon
<1>9. R \in Seq(T) /\ Len(R) = Len(S) - 1 /\ DOMAIN R = 1 .. Len(S) - 1
  <2>1. R \in Seq(T) /\ Len(R) = Len(S) - 1
    BY <1>1, <1>4, <1>5, <1>7, <1>8
  <2>2. QED
    BY <2>1, LenProperties
<1>10. ASSUME NEW i \in 1 .. Len(S) - 1
       PROVE  R[i] = IF i < n THEN S[i] ELSE S[i + 1]
  <2>1. R[i] = IF i <= Len(A) THEN A[i] ELSE B[i - Len(A)]
    BY <1>1, <1>4, <1>5, <1>7, <1>8
  <2>2. CASE i < n
    BY <1>1, <1>4, <2>1, <2>2
  <2>3. CASE ~ (i < n)
    <3>1. i - (n - 1) \in 1 .. Len(S) - n /\ n + (i - (n - 1)) = i + 1 /\ ~ (i <= n - 1)
      BY <1>1, <2>3
    <3>2. QED
      BY <1>4, <1>5, <2>1, <2>3, <3>1
  <2>4. QED
    BY <2>2, <2>3
<1>11. IsInjective(R)
  <2> SUFFICES ASSUME NEW i \in 1 .. Len(S) - 1, NEW j \in 1 .. Len(S) - 1, R[i] = R[j] PROVE i = j
    BY <1>9 DEF IsInjective
  <2>1. \A a, b \in 1 .. Len(S) : S[a] = S[b] => a = b
    BY <1>1 DEF IsInjective
  <2>2. i \in 1 .. Len(S) /\ i + 1 \in 1 .. Len(S) /\ j \in 1 .. Len(S) /\ j + 1 \in 1 .. Len(S)
    BY <1>1
  <2>3. QED
    BY <1>1, <1>10, <2>1, <2>2
<1>12. ASSUME NEW x PROVE x \in ToSet(R) <=> x \in ToSet(S) /\ x # S[n]
  <2>1. x \in ToSet(R) <=> \E i \in 1 .. Len(S) - 1 : x = R[i]
    BY <1>9, Members
  <2>2. x \in ToSet(S) <=> \E i \in 1 .. Len(S) : x = S[i]
    BY Members
  <2>3. ASSUME NEW i \in 1 .. Len(S) - 1, x = R[i] PROVE x \in ToSet(S) /\ x # S[n]
    <3>1. PICK m \in 1 .. Len(S) : m = IF i < n THEN i ELSE i + 1
      BY <1>1
    <3>2. x = S[m] /\ m # n
      BY <1>1, <1>10, <2>3, <3>1
    <3>3. QED
      BY <1>1, <2>2, <3>2 DEF IsInjective
  <2>4. ASSUME NEW m \in 1 .. Len(S), x = S[m], x # S[n] PROVE \E i \in 1 .. Len(S) - 1 : x = R[i]
    <3>1. PICK i : i = IF m < n THEN m ELSE m - 1
      OBVIOUS
    <3>2. i \in 1 .. Len(S) - 1 /\ m = IF i < n THEN i ELSE i + 1
      BY <1>1, <2>4, <3>1
    <3>3. QED
      BY <1>10, <2>4, <3>2
  <2>5. QED
    BY <2>1, <2>2, <2>3, <2>4
<1>13. QED
  BY <1>6, <1>9, <1>11, <1>12

\* One turn of the loop: the bag of the vertex selected merged into that of j.
Arrives(j) ==
  /\ j \in arcs /\ j \in Vertex /\ j # from /\ from \in Vertex
  /\ Joined(town, from, j) /\ CostIn(town, from, j) \in Label
  /\ bag' = [bag EXCEPT ![j] = Merge(bag[j], bag[from], CostIn(town, from, j))]
  /\ open' = IF Opens(bag'[j] # bag[j], j) THEN Append(open, j) ELSE open
  /\ arcs' = arcs \ {j}
  /\ UNCHANGED <<query, pc, from, pareto, reading, geojson>>

\* A step along an arc is the arrival at the neighbour of the least number.
LEMMA ExtendArrives ==
  ASSUME IInv, Extend
  PROVE  \E j : Arrives(j)
<1>1. \A k \in arcs : Joined(town, k, from) /\ k \in Vertex /\ k \in Nat
  BY StreetCost, VertexAssumption DEF IInv, Asked, Merging
<1>2. PICK j \in arcs : \A k \in arcs : j <= k
  <2>1. arcs \in SUBSET Nat /\ arcs # {}
    BY <1>1 DEF Extend
  <2>2. QED
    BY <2>1, LeastNatural
<1>3. Min(arcs) \in arcs
  BY <1>2 DEF Min
<1>4. PICK m : m = Min(arcs)
  OBVIOUS
<1>5. m \in arcs /\ m \in Vertex /\ m # from /\ Joined(town, from, m)
      /\ CostIn(town, from, m) \in Label /\ from \in Vertex
  <2>1. m \in arcs /\ Joined(town, m, from) /\ town \in Town
    BY <1>1, <1>3, <1>4 DEF IInv, Asked
  <2>2. /\ m \in Vertex /\ from \in Vertex /\ m # from /\ Joined(town, from, m)
        /\ CostIn(town, m, from) \in Label /\ CostIn(town, from, m) = CostIn(town, m, from)
    BY <2>1, StreetCost
  <2>3. QED
    BY <2>1, <2>2
<1>6. Weight(from, m) = CostIn(town, from, m)
  BY NetworkOf
<1>7. Arrives(m)
  BY <1>4, <1>5, <1>6 DEF Extend, Arrives
<1>8. QED
  BY <1>7

\* The bags after it: a label that was there is still covered.
LEMMA BagsAfter ==
  ASSUME IInv, NEW j, Arrives(j)
  PROVE  /\ Bags'
         /\ \A v \in Vertex : v # j => bag'[v] = bag[v]
         /\ bag'[j] = Merge(bag[j], bag[from], CostIn(town, from, j))
         /\ \A v \in Vertex : \A b \in ToSet(bag[v]) : \E c \in ToSet(bag'[v]) : Covers(c, b)
         /\ IsBag(bag[from]) /\ IsBag(bag[j])
<1>1. PICK w \in Label : w = CostIn(town, from, j)
  BY DEF Arrives
<1>2. /\ bag \in [Vertex -> Seq(Label)] /\ \A v \in Vertex : IsBag(bag[v])
      /\ \A v \in Vertex : \A a \in ToSet(bag[v]) : a[2] <= a[1]
  BY DEF IInv, Bags
<1>3. j \in Vertex /\ from \in Vertex /\ IsBag(bag[from]) /\ IsBag(bag[j])
  BY <1>2 DEF Arrives
<1>4. bag' = [bag EXCEPT ![j] = Merge(bag[j], bag[from], w)]
  BY <1>1 DEF Arrives
<1>5. PICK M : M = Merge(bag[j], bag[from], w)
  OBVIOUS
<1>6. bag'[j] = M /\ \A v \in Vertex : v # j => bag'[v] = bag[v]
  BY <1>2, <1>3, <1>4, <1>5
<1>7. /\ IsBag(M)
      /\ \A x : x \in ToSet(M) <=>
              \/ Comes(bag[j], bag[from], w, x)
              \/ x \in ToSet(bag[j]) /\ \A a : Comes(bag[j], bag[from], w, a) => ~ Covers(a, x)
  BY <1>3, <1>5, MergeIs
<1>8. M \in Seq(Label)
  BY <1>7 DEF IsBag
<1>9. bag' \in [Vertex -> Seq(Label)]
  BY <1>2, <1>3, <1>4, <1>5, <1>8
<1>10. w[2] <= w[1]
  BY <1>1, StreetCost DEF IInv, Asked, Arrives
<1>11. ASSUME NEW x \in ToSet(M) PROVE x[2] <= x[1]
  <2>1. CASE x \in ToSet(bag[j])
    BY <1>2, <1>3, <2>1
  <2>2. CASE Comes(bag[j], bag[from], w, x)
    <3>1. PICK a \in ToSet(bag[from]) : x = Plus(a, w)
      BY <2>2 DEF Comes
    <3>2. a \in Label /\ a[2] <= a[1]
      BY <1>2, <1>3, BagLabels
    <3>3. QED
      BY <1>10, <3>1, <3>2 DEF Plus, Label
  <2>3. QED
    BY <1>7, <2>1, <2>2
<1>12. \A v \in Vertex : IsBag(bag'[v]) /\ \A a \in ToSet(bag'[v]) : a[2] <= a[1]
  BY <1>2, <1>6, <1>7, <1>11
<1>13. \A v \in Vertex : \A b \in ToSet(bag[v]) : \E c \in ToSet(bag'[v]) : Covers(c, b)
  <2> SUFFICES ASSUME NEW v \in Vertex, NEW b \in ToSet(bag[v])
               PROVE  \E c \in ToSet(bag'[v]) : Covers(c, b)
    OBVIOUS
  <2>1. CASE v = j
    BY <1>3, <1>5, <1>6, <2>1, MergeCovers
  <2>2. CASE v # j
    <3>1. b \in Label
      BY <1>2, BagLabels
    <3>2. Covers(b, b) /\ b \in ToSet(bag'[v])
      BY <1>6, <2>2, <3>1, CoversItself
    <3>3. QED
      BY <3>2
  <2>3. QED
    BY <2>1, <2>2
<1>14. QED
  BY <1>1, <1>3, <1>5, <1>6, <1>9, <1>12, <1>13 DEF Bags

\* Standing at the source covers every label: nothing is merged into its bag.
LEMMA SourceStays ==
  ASSUME IInv, NEW j, Arrives(j), j = s
  PROVE  \A x : x \in ToSet(bag'[j]) <=> x \in ToSet(bag[j])
<1>1. PICK w \in Label : w = CostIn(town, from, j)
  BY DEF Arrives
<1>2. IsBag(bag[from]) /\ IsBag(bag[j]) /\ bag'[j] = Merge(bag[j], bag[from], w)
  BY <1>1, BagsAfter
<1>3. \A x : x \in ToSet(bag'[j]) <=>
              \/ Comes(bag[j], bag[from], w, x)
              \/ x \in ToSet(bag[j]) /\ \A a : Comes(bag[j], bag[from], w, a) => ~ Covers(a, x)
  BY <1>2, MergeIs
<1>4. <<0, 0>> \in ToSet(bag[j])
  BY DEF IInv, Source
<1>5. ASSUME NEW x PROVE ~ Comes(bag[j], bag[from], w, x)
  <2> SUFFICES ASSUME Comes(bag[j], bag[from], w, x) PROVE FALSE
    OBVIOUS
  <2>1. PICK a \in ToSet(bag[from]) : x = Plus(a, w)
    BY DEF Comes
  <2>2. Inflated(x) \in Label
    BY <1>2, <2>1, BagLabels, PlusLabel, InflatedLabel
  <2>3. Covers(<<0, 0>>, Inflated(x))
    BY <2>2 DEF Covers, Label
  <2>4. QED
    BY <1>4, <2>3 DEF Comes
<1>6. QED
  BY <1>3, <1>5

\* Every step keeps the invariant.
LEMMA StepInv == IInv /\ [Next]_vars => IInv'
<1> SUFFICES ASSUME IInv, [Next]_vars PROVE IInv'
  OBVIOUS
<1>1. CASE Select
  <2>1. open \in Seq(Vertex) /\ DOMAIN open = 1 .. Len(open) /\ IsInjective(open)
    BY LenProperties DEF IInv, Opened
  <2>2. PICK n \in 1 .. Len(open) : n = Selected
    BY <1>1, <2>1, SelectedOpen DEF Select
  <2>3. /\ from' = open[n] /\ open' = RemoveAt(open, n) /\ arcs' = Neighbours(open[n])
        /\ UNCHANGED <<query, pc, bag, pareto, reading, geojson>>
    BY <1>1, <2>2 DEF Select
  <2>4. /\ open' \in Seq(Vertex) /\ IsInjective(open')
        /\ \A x : x \in ToSet(open') => x \in ToSet(open)
    BY <2>1, <2>3, Removed
  <2>5. Opened'
    BY <2>3, <2>4 DEF IInv, Opened, query
  <2>6. from' \in Vertex
    BY <2>1, <2>3, ElementOfSeq
  <2>7. Merging'
    <3>1. \A k \in arcs' : Joined(town', k, from')
      BY <2>3, NetworkOf DEF query
    <3>2. QED
      BY <2>6, <3>1 DEF Merging
  <2>8. Asked' /\ Bags' /\ Source' /\ Reading' /\ Collected'
    BY <2>3 DEF IInv, Asked, Bags, Source, Reading, Collected, query, reading
  <2>9. QED
    BY <2>5, <2>7, <2>8 DEF IInv
<1>2. CASE Extend
  <2>1. PICK j : Arrives(j)
    BY <1>2, ExtendArrives
  <2>2. /\ Bags' /\ \A v \in Vertex : v # j => bag'[v] = bag[v]
        /\ \A v \in Vertex : \A b \in ToSet(bag[v]) : \E c \in ToSet(bag'[v]) : Covers(c, b)
    BY <2>1, BagsAfter
  <2>3. /\ j \in Vertex /\ from \in Vertex /\ j \in arcs
        /\ open' = IF Opens(bag'[j] # bag[j], j) THEN Append(open, j) ELSE open
        /\ arcs' = arcs \ {j} /\ from' = from /\ town' = town /\ s' = s /\ t' = t
        /\ pc' = pc /\ pareto' = pareto /\ at' = at /\ label' = label /\ path' = path
    BY <2>1 DEF Arrives, query, reading
  <2>4. Asked' /\ Merging' /\ Reading'
    BY <2>3 DEF IInv, Asked, Merging, Reading
  <2>5. Source'
    <3>1. \A x : x \in ToSet(bag'[s]) <=> x \in ToSet(bag[s])
      <4>1. CASE j = s
        BY <2>1, <4>1, SourceStays
      <4>2. CASE j # s
        BY <2>2, <4>2 DEF IInv, Asked
      <4>3. QED
        BY <4>1, <4>2
    <3>2. QED
      BY <2>3, <3>1 DEF IInv, Source
  <2>6. \A v \in Vertex : bag[v] # <<>> => bag'[v] # <<>>
    <3> SUFFICES ASSUME NEW v \in Vertex, bag[v] # <<>> PROVE bag'[v] # <<>>
      OBVIOUS
    <3>1. bag[v] \in Seq(Label) /\ bag'[v] \in Seq(Label)
      BY <2>2 DEF IInv, Bags
    <3>2. PICK b : b \in ToSet(bag[v])
      BY <3>1, NonEmpty
    <3>3. PICK c : c \in ToSet(bag'[v])
      BY <2>2, <3>2
    <3>4. QED
      BY <3>1, <3>3, NonEmpty
  <2>7. Opened'
    <3>1. /\ open \in Seq(Vertex) /\ IsInjective(open)
          /\ \A v \in ToSet(open) : bag[v] # <<>>
          /\ s # t => t \notin ToSet(open)
      BY DEF IInv, Opened
    <3>2. \A v \in ToSet(open) : v \in Vertex
      BY <3>1, Members, ElementOfSeq
    <3>3. CASE open' = open
      BY <2>3, <2>6, <3>1, <3>2, <3>3 DEF Opened
    <3>4. CASE open' = Append(open, j) /\ Opens(bag'[j] # bag[j], j)
      <4>1. bag'[j] # bag[j] /\ j \notin ToSet(open) /\ j # t
        BY <3>4 DEF Opens
      <4>2. /\ open' \in Seq(Vertex) /\ Len(open') = Len(open) + 1
            /\ \A i \in 1 .. Len(open) : open'[i] = open[i]
            /\ open'[Len(open) + 1] = j
        BY <2>3, <3>1, <3>4, AppendProperties
      <4>3. Len(open) \in Nat /\ DOMAIN open = 1 .. Len(open) /\ DOMAIN open' = 1 .. Len(open) + 1
        BY <3>1, <4>2, LenProperties
      <4>4. \A x : x \in ToSet(open) <=> \E i \in 1 .. Len(open) : x = open[i]
        BY <3>1, Members
      <4>5. \A x : x \in ToSet(open') <=> \E i \in 1 .. Len(open) + 1 : x = open'[i]
        BY <4>2, Members
      <4>6. \A i \in 1 .. Len(open) + 1 : i = Len(open) + 1 \/ i \in 1 .. Len(open)
        BY <4>3
      <4>7. \A x \in ToSet(open') : x = j \/ x \in ToSet(open)
        BY <4>2, <4>4, <4>5, <4>6
      <4>8. IsInjective(open')
        <5> SUFFICES ASSUME NEW i \in 1 .. Len(open) + 1, NEW k \in 1 .. Len(open) + 1,
                            open'[i] = open'[k]
                     PROVE  i = k
          BY <4>3 DEF IsInjective
        <5>1. CASE i \in 1 .. Len(open) /\ k \in 1 .. Len(open)
          BY <3>1, <4>2, <4>3, <5>1 DEF IsInjective
        <5>2. \A m \in 1 .. Len(open) : open'[m] # j
          BY <4>1, <4>2, <4>4
        <5>3. QED
          BY <4>2, <4>6, <5>1, <5>2
      <4>9. bag'[j] # <<>>
        <5>1. bag[j] \in Seq(Label) /\ bag'[j] \in Seq(Label)
          BY <2>2, <2>3 DEF IInv, Bags
        <5>2. CASE bag[j] = <<>>
          BY <4>1, <5>2
        <5>3. CASE bag[j] # <<>>
          BY <2>3, <2>6, <5>3
        <5>4. QED
          BY <5>2, <5>3
      <4>10. QED
        BY <2>3, <2>6, <3>1, <3>2, <4>1, <4>2, <4>7, <4>8, <4>9 DEF Opened
    <3>5. QED
      BY <2>3, <3>3, <3>4
  <2>8. Collected'
    <3>1. pc # "read"
      BY <1>2 DEF Extend
    <3>2. QED
      BY <2>3, <3>1 DEF IInv, Collected
  <2>9. QED
    BY <2>2, <2>4, <2>5, <2>7, <2>8 DEF IInv
<1>3. CASE Exhausted
  <2>1. /\ pc = "search" /\ at' = t /\ path' = <<>> /\ label' = (IF 1 <= Len(bag[t]) THEN bag[t][1] ELSE label)
        /\ pc' = (IF 1 <= Len(bag[t]) THEN "read" ELSE "choose")
        /\ town' = town /\ s' = s /\ t' = t /\ bag' = bag /\ pareto' = pareto
        /\ open' = open /\ from' = from /\ arcs' = arcs
    BY <1>3 DEF Exhausted, Read, Goal, query, searching
  <2>2. Asked' /\ Bags' /\ Source' /\ Opened' /\ Merging'
    BY <2>1 DEF IInv, Asked, Bags, Source, Opened, Merging
  <2>3. bag[t] \in Seq(Label) /\ t \in Vertex /\ Len(bag[t]) \in Nat
    BY LenProperties DEF IInv, Asked, Bags
  <2>4. label' \in Label
    <3>1. CASE 1 <= Len(bag[t])
      <4>1. 1 \in 1 .. Len(bag[t])
        BY <2>3, <3>1
      <4>2. QED
        BY <2>1, <2>3, <3>1, <4>1, ElementOfSeq
    <3>2. CASE ~ (1 <= Len(bag[t]))
      BY <2>1, <3>2 DEF IInv, Reading
    <3>3. QED
      BY <3>1, <3>2
  <2>5. <<>> \in Seq(Vertex \X Vertex) /\ <<>> \in Seq(Answer) /\ Len(<<>>) = 0
    OBVIOUS
  <2>6. Reading'
    BY <2>1, <2>3, <2>4, <2>5 DEF Reading
  <2>7. Collected'
    BY <2>1, <2>3, <2>5 DEF IInv, Collected
  <2>8. QED
    BY <2>2, <2>6, <2>7 DEF IInv
<1>4. CASE StepBack
  <2>1. PICK u : u = Min(Holders)
    OBVIOUS
  <2>2. /\ at' = u /\ label' = Minus(label, Weight(u, at)) /\ path' = <<<<u, at>>>> \o path
        /\ town' = town /\ s' = s /\ t' = t /\ bag' = bag /\ pareto' = pareto
        /\ open' = open /\ from' = from /\ arcs' = arcs /\ pc' = pc /\ Holders # {}
    BY <1>4, <2>1 DEF StepBack, query, searching
  <2>3. u \in Holders
    <3>1. Holders \in SUBSET Nat
      BY VertexAssumption DEF Holders, Neighbours
    <3>2. PICK x \in Holders : \A y \in Holders : x <= y
      BY <2>2, <3>1, LeastNatural
    <3>3. QED
      BY <2>1, <3>2 DEF Min
  <2>4. u \in Vertex /\ Minus(label, Weight(u, at)) \in ToSet(bag[u])
    BY <2>3 DEF Holders, Neighbours
  <2>5. label' \in Label
    BY <2>2, <2>4, BagLabels DEF IInv, Bags
  <2>6. path \in Seq(Vertex \X Vertex) /\ at \in Vertex
    BY DEF IInv, Reading
  <2>7. PICK e \in Vertex \X Vertex : e = <<u, at>>
    BY <2>4, <2>6
  <2>8. PICK one \in Seq(Vertex \X Vertex) : one = <<e>> /\ Len(one) = 1 /\ one[1] = e
    <3>1. \A S : \A x \in S : <<x>> \in Seq(S) /\ Len(<<x>>) = 1 /\ <<x>>[1] = x
      OBVIOUS
    <3>2. <<e>> \in Seq(Vertex \X Vertex) /\ Len(<<e>>) = 1 /\ <<e>>[1] = e
      BY <3>1
    <3>3. QED
      BY <3>2, Zenon
  <2>9. /\ one \o path \in Seq(Vertex \X Vertex) /\ Len(one \o path) = Len(one) + Len(path)
        /\ \A i \in 1 .. Len(one) + Len(path) :
             (one \o path)[i] = IF i <= Len(one) THEN one[i] ELSE path[i - Len(one)]
    BY <2>6, ConcatProperties, Zenon
  <2>10. Len(path) \in Nat /\ (path = <<>> => Len(path) = 0) /\ (path # <<>> => Len(path) \in Nat \ {0})
    BY <2>6, EmptySeq, LenProperties
  <2>11. path' = one \o path
    BY <2>2, <2>7, <2>8
  <2>12. path' \in Seq(Vertex \X Vertex) /\ Len(path') = Len(path) + 1 /\ path'[1] = e
    <3>1. 1 \in 1 .. Len(one) + Len(path) /\ 1 <= Len(one)
      BY <2>8, <2>10
    <3>2. path'[1] = e
      BY <2>8, <2>9, <2>11, <3>1
    <3>3. QED
      BY <2>8, <2>9, <2>10, <2>11, <3>2
  <2>13. path'[Len(path')][2] = t
    <3>1. CASE path = <<>>
      <4>1. Len(path') = 1
        BY <2>10, <2>12, <3>1
      <4>2. QED
        BY <2>7, <2>12, <3>1, <4>1 DEF IInv, Reading
    <3>2. CASE path # <<>>
      <4>1. PICK l \in Nat \ {0} : l = Len(path)
        BY <2>10, <3>2
      <4>2. Len(path') \in 1 .. Len(one) + Len(path) /\ ~ (Len(path') <= Len(one))
            /\ Len(path') - Len(one) = Len(path)
        BY <2>8, <2>12, <4>1
      <4>3. path'[Len(path')] = path[Len(path)]
        BY <2>9, <2>11, <4>2
      <4>4. QED
        BY <3>2, <4>3 DEF IInv, Reading
    <3>3. QED
      BY <3>1, <3>2
  <2>14. path' # <<>>
    <3>1. Len(path') # 0
      BY <2>10, <2>12
    <3>2. QED
      BY <3>1, EmptySeq
  <2>15. Reading'
    BY <2>2, <2>4, <2>5, <2>7, <2>12, <2>13, <2>14 DEF Reading
  <2>16. Asked' /\ Bags' /\ Source' /\ Opened' /\ Merging' /\ Collected'
    BY <2>2 DEF IInv, Asked, Bags, Source, Opened, Merging, Collected
  <2>17. QED
    BY <2>15, <2>16 DEF IInv
<1>5. CASE PushPath
  <2>1. pareto \in Seq(Answer) /\ Len(pareto) < Len(bag[t]) /\ Len(pareto) \in Nat
    BY <1>5, LenProperties DEF PushPath, IInv, Collected
  <2>2. PICK n : n = Len(pareto) + 1
    OBVIOUS
  <2>3. /\ at' = t /\ path' = <<>> /\ label' = (IF n + 1 <= Len(bag[t]) THEN bag[t][n + 1] ELSE label)
        /\ pc' = (IF n + 1 <= Len(bag[t]) THEN "read" ELSE "choose")
        /\ town' = town /\ s' = s /\ t' = t /\ bag' = bag
        /\ pareto' = Append(pareto, [weight |-> bag[t][n], path |-> path])
        /\ open' = open /\ from' = from /\ arcs' = arcs
    BY <1>5, <2>2 DEF PushPath, Read, Goal, query, searching
  <2>4. Asked' /\ Bags' /\ Source' /\ Opened' /\ Merging'
    BY <2>3 DEF IInv, Asked, Bags, Source, Opened, Merging
  <2>5. bag[t] \in Seq(Label) /\ t \in Vertex /\ Len(bag[t]) \in Nat
    BY LenProperties DEF IInv, Asked, Bags
  <2>6. label' \in Label
    <3>1. CASE n + 1 <= Len(bag[t])
      <4>1. n + 1 \in 1 .. Len(bag[t])
        BY <2>1, <2>2, <2>5, <3>1
      <4>2. QED
        BY <2>3, <2>5, <3>1, <4>1, ElementOfSeq
    <3>2. CASE ~ (n + 1 <= Len(bag[t]))
      BY <2>3, <3>2 DEF IInv, Reading
    <3>3. QED
      BY <3>1, <3>2
  <2>7. Reading'
    <3>1. <<>> \in Seq(Vertex \X Vertex)
      OBVIOUS
    <3>2. QED
      BY <2>3, <2>5, <2>6, <3>1 DEF Reading
  <2>8. Collected'
    <3>1. n \in 1 .. Len(bag[t])
      BY <2>1, <2>2, <2>5
    <3>2. bag[t][n] \in Label /\ path \in Seq(Vertex \X Vertex)
      BY <2>5, <3>1, ElementOfSeq DEF IInv, Reading
    <3>3. [weight |-> bag[t][n], path |-> path] \in Answer
      BY <3>2 DEF Answer
    <3>4. pareto' \in Seq(Answer) /\ Len(pareto') = n
      BY <2>1, <2>2, <2>3, <3>3, AppendProperties
    <3>5. pc' = "read" => n < Len(bag[t])
      BY <2>1, <2>2, <2>3, <2>5
    <3>6. QED
      BY <2>3, <3>4, <3>5 DEF Collected
  <2>9. QED
    BY <2>4, <2>7, <2>8 DEF IInv
<1>6. CASE Choose \/ DumpGeojson
  <2>1. /\ town' = town /\ s' = s /\ t' = t /\ bag' = bag /\ open' = open /\ from' = from
        /\ arcs' = arcs /\ at' = at /\ label' = label /\ path' = path /\ pc' \in {"dump", "done"}
    BY <1>6 DEF Choose, DumpGeojson, query, searching, reading
  <2>2. QED
    BY <2>1 DEF IInv, Asked, Bags, Source, Opened, Merging, Reading, Collected
<1>7. CASE UNCHANGED vars
  BY <1>7 DEF vars, query, searching, reading, IInv, Asked, Bags, Source, Opened, Merging,
              Reading, Collected
<1>8. QED
  BY <1>1, <1>2, <1>3, <1>4, <1>5, <1>6, <1>7 DEF Next

\* Types are right in every reachable state: bags are stairs of labels, open
\* vertices are listed once and have labels, what is read back leads to the target.
THEOREM TypeCorrect == Spec => []TypeOK
<1>1. IInv => TypeOK
  <2> SUFFICES ASSUME IInv PROVE TypeOK
    OBVIOUS
  <2>1. \A v \in Vertex : IsBag(bag[v]) /\ \A a \in ToSet(bag[v]) : a[2] <= a[1]
    BY DEF IInv, Bags
  <2>2. \A v \in Vertex : \A a \in ToSet(bag[v]) : a \in Nat \X Nat /\ a[2] <= a[1]
    BY <2>1, BagLabels DEF Label
  <2>3. BagsUndominated
    <3> SUFFICES ASSUME NEW v \in Vertex, NEW a \in ToSet(bag[v]), NEW b \in ToSet(bag[v]), a # b
                 PROVE  ~ Covers(a, b)
      BY DEF BagsUndominated
    <3>1. PICK S : S = bag[v] /\ IsBag(S)
      BY <2>1
    <3>2. S \in Seq(Label)
      BY <3>1 DEF IsBag
    <3>3. PICK m \in 1 .. Len(S) : a = S[m]
      BY <3>1, <3>2, Members
    <3>4. PICK n \in 1 .. Len(S) : b = S[n]
      BY <3>1, <3>2, Members
    <3>5. /\ S[m][1] \in Nat /\ S[m][2] \in Nat /\ S[n][1] \in Nat /\ S[n][2] \in Nat
          /\ m < n => S[n][2] < S[m][2]
          /\ n < m => S[n][1] < S[m][1]
          /\ m \in Nat /\ n \in Nat
      BY <3>1, BagParts
    <3>6. m < n \/ n < m
      BY <3>3, <3>4, <3>5
    <3>7. QED
      BY <3>3, <3>4, <3>5, <3>6 DEF Covers
  <2>4. ToSet(open) \subseteq Vertex /\ IsInjective(open) /\ (s # t => t \notin ToSet(open))
    <3>1. open \in Seq(Vertex)
      BY DEF IInv, Opened
    <3>2. \A v \in ToSet(open) : v \in Vertex
      BY <3>1, Members, ElementOfSeq
    <3>3. QED
      BY <3>2 DEF IInv, Opened
  <2>5. from \in Vertex /\ arcs \subseteq Vertex
    BY StreetCost DEF IInv, Asked, Merging
  <2>6. QED
    BY <2>2, <2>3, <2>4, <2>5 DEF TypeOK, IInv, Reading, Collected, Label
<1>2. QED
  BY <1>1, InitInv, StepInv, PTL DEF Spec

\* At all times the one pass of epsilon_approximation_merge, along any street,
\* would leave what a comparison of all pairs of labels would.
THEOREM MergesExact == Spec => []MergeExact
<1>1. IInv => MergeExact
  <2> SUFFICES ASSUME IInv, NEW u \in Vertex, NEW v \in Neighbours(u)
               PROVE  LET moved == {Plus(a, Weight(u, v)) : a \in ToSet(bag[u])}
                          new   == {a \in moved : \A b \in ToSet(bag[v]) : ~ Covers(b, Inflated(a))}
                          stay  == {b \in ToSet(bag[v]) : \A a \in new : ~ Covers(a, b)}
                      IN  ToSet(Merge(bag[v], bag[u], Weight(u, v))) = stay \cup new
    BY DEF MergeExact
  <2> DEFINE moved == {Plus(a, Weight(u, v)) : a \in ToSet(bag[u])}
             new   == {a \in moved : \A b \in ToSet(bag[v]) : ~ Covers(b, Inflated(a))}
             stay  == {b \in ToSet(bag[v]) : \A a \in new : ~ Covers(a, b)}
  <2>1. Joined(town, v, u) /\ v \in Vertex /\ town \in Town
    BY NetworkOf DEF IInv, Asked
  <2>2. Joined(town, u, v)
    BY <2>1, StreetCost
  <2>3. PICK w \in Label : w = Weight(u, v)
    BY <2>1, <2>2, StreetCost, NetworkOf
  <2>4. IsBag(bag[u]) /\ IsBag(bag[v])
    BY <2>1 DEF IInv, Bags
  <2>5. PICK M : M = Merge(bag[v], bag[u], w)
    OBVIOUS
  <2>6. \A x : x \in ToSet(M) <=>
              \/ Comes(bag[v], bag[u], w, x)
              \/ x \in ToSet(bag[v]) /\ \A a : Comes(bag[v], bag[u], w, a) => ~ Covers(a, x)
    BY <2>4, <2>5, MergeIs
  <2>7. \A x : x \in new <=> Comes(bag[v], bag[u], w, x)
    BY <2>3 DEF Comes
  <2> HIDE DEF new
  <2>8. \A x : x \in ToSet(M) <=> x \in stay \cup new
    BY <2>6, <2>7
  <2> HIDE DEF stay
  <2>9. ToSet(M) = stay \cup new
    BY <2>8
  <2>10. QED
    BY <2>3, <2>5, <2>9 DEF new, stay
<1>2. QED
  BY <1>1, InitInv, StepInv, PTL DEF Spec

-----------------------------------------------------------------------------
(* Where labels come from.                                                  *)

\* A route from x without a repeated vertex, and what its beginnings cost.
IsRoute(g, x, r) ==
  /\ r \in Seq(Vertex) /\ Len(r) \in Nat \ {0}
  /\ r[1] = x /\ IsInjective(r)
  /\ \A k \in 1 .. Len(r) : \A m \in 1 .. Len(r) : m = k + 1 => Joined(g, r[k], r[m])

Priced(g, r, c) ==
  /\ c \in Seq(Label) /\ Len(c) = Len(r)
  /\ c[1] = <<0, 0>>
  /\ \A k \in 1 .. Len(r) : \A m \in 1 .. Len(r) :
       m = k + 1 => c[m] = Plus(c[k], CostIn(g, r[k], r[m]))

\* Such a route to v costs a, its beginnings no more, and at each of its
\* vertices there is a label that covers what it has cost by then.
Leads(g, x, B, v, a, r, c) ==
  /\ IsRoute(g, x, r) /\ Priced(g, r, c)
  /\ r[Len(r)] = v /\ c[Len(r)] = a
  /\ \A k \in 1 .. Len(r) : Covers(c[k], a)
  /\ \A k \in 1 .. Len(r) : \E b \in ToSet(B[r[k]]) : Covers(b, c[k])

Led(g, x, B, v, a) == \E r, c : Leads(g, x, B, v, a, r, c)

Travelled == \A v \in Vertex : \A a \in ToSet(bag[v]) : Led(town, s, bag, v, a)

\* Bags whose labels only get better.
Better(B, C) ==
  /\ \A v \in Vertex : \A b \in ToSet(B[v]) : b \in Label
  /\ \A v \in Vertex : \A b \in ToSet(C[v]) : b \in Label
  /\ \A v \in Vertex : \A b \in ToSet(B[v]) : \E c \in ToSet(C[v]) : Covers(c, b)

\* A route that leads to a label still does when the bags get better.
LEMMA LeadsStill ==
  ASSUME NEW g, NEW x, NEW B, NEW C, NEW v, NEW a, NEW r, NEW c,
         Better(B, C), Leads(g, x, B, v, a, r, c)
  PROVE  /\ \A k \in 1 .. Len(r) : \E b \in ToSet(C[r[k]]) : Covers(b, c[k])
         /\ Leads(g, x, C, v, a, r, c)
<1>1. /\ \A k \in 1 .. Len(r) : \E b \in ToSet(B[r[k]]) : Covers(b, c[k])
      /\ r \in Seq(Vertex) /\ c \in Seq(Label) /\ Len(c) = Len(r)
  BY DEF Leads, IsRoute, Priced
<1>2. ASSUME NEW k \in 1 .. Len(r) PROVE \E b \in ToSet(C[r[k]]) : Covers(b, c[k])
  <2>1. r[k] \in Vertex /\ c[k] \in Label
    BY <1>1, ElementOfSeq
  <2>2. PICK b \in ToSet(B[r[k]]) : Covers(b, c[k])
    BY <1>1
  <2>3. PICK d \in ToSet(C[r[k]]) : Covers(d, b)
    BY <2>1, <2>2 DEF Better
  <2>4. b \in Label /\ d \in Label
    BY <2>1, <2>2, <2>3 DEF Better
  <2>5. Covers(d, c[k])
    BY <2>1, <2>2, <2>3, <2>4, CoversOn
  <2>6. QED
    BY <2>5
<1>3. QED
  BY <1>2 DEF Leads

\* A label moved along a street is led by a longer route: the vertex cannot be on
\* the route already, for then what is there would cover it.
LEMMA LeadsOn ==
  ASSUME NEW g \in Town, NEW x, NEW B, NEW C, NEW v, NEW a, NEW r, NEW c,
         Better(B, C), Leads(g, x, B, v, a, r, c),
         NEW j, Joined(g, v, j), NEW e, e = Plus(a, CostIn(g, v, j)),
         \A b \in ToSet(B[j]) : ~ Covers(b, Inflated(e)), e \in ToSet(C[j])
  PROVE  Led(g, x, C, j, e)
<1>1. /\ r \in Seq(Vertex) /\ Len(r) \in Nat \ {0} /\ r[1] = x /\ IsInjective(r)
      /\ \A k \in 1 .. Len(r) : \A m \in 1 .. Len(r) : m = k + 1 => Joined(g, r[k], r[m])
      /\ c \in Seq(Label) /\ Len(c) = Len(r) /\ c[1] = <<0, 0>>
      /\ \A k \in 1 .. Len(r) : \A m \in 1 .. Len(r) :
           m = k + 1 => c[m] = Plus(c[k], CostIn(g, r[k], r[m]))
      /\ r[Len(r)] = v /\ c[Len(r)] = a
      /\ \A k \in 1 .. Len(r) : Covers(c[k], a)
      /\ \A k \in 1 .. Len(r) : \E b \in ToSet(B[r[k]]) : Covers(b, c[k])
  BY DEF Leads, IsRoute, Priced
<1>2. PICK n \in Nat \ {0} : n = Len(r)
  BY <1>1
<1>3. \A k \in 1 .. n : r[k] \in Vertex /\ c[k] \in Label
  BY <1>1, <1>2, ElementOfSeq
<1>4. a \in Label /\ j \in Vertex /\ CostIn(g, v, j) \in Label
  BY <1>1, <1>2, <1>3, StreetCost
<1>5. e \in Label /\ Covers(a, e) /\ Inflated(e) \in Label /\ Covers(e, Inflated(e))
  BY <1>4, PlusLabel, InflatedLabel
<1>6. ASSUME NEW k \in 1 .. n PROVE r[k] # j /\ Covers(c[k], e)
  <2>1. c[k] \in Label /\ Covers(c[k], a)
    BY <1>1, <1>2, <1>3
  <2>2. Covers(c[k], e)
    BY <1>4, <1>5, <2>1, CoversOn
  <2>3. PICK b \in ToSet(B[r[k]]) : Covers(b, c[k])
    BY <1>1, <1>2
  <2>4. b \in Label
    BY <1>3, <2>3 DEF Better
  <2>5. Covers(b, e)
    BY <1>5, <2>1, <2>2, <2>3, <2>4, CoversOn
  <2>6. Covers(b, Inflated(e))
    BY <1>5, <2>4, <2>5, CoversOn
  <2>7. QED
    BY <2>2, <2>3, <2>6
<1>7. PICK R : R = Append(r, j)
  OBVIOUS
<1>8. PICK D : D = Append(c, e)
  OBVIOUS
<1>9. /\ R \in Seq(Vertex) /\ Len(R) = n + 1 /\ R[n + 1] = j
      /\ \A k \in 1 .. n : R[k] = r[k]
  BY <1>1, <1>2, <1>4, <1>7, AppendProperties
<1>10. /\ D \in Seq(Label) /\ Len(D) = n + 1 /\ D[n + 1] = e
       /\ \A k \in 1 .. n : D[k] = c[k]
  BY <1>1, <1>2, <1>5, <1>8, AppendProperties
<1>11. DOMAIN R = 1 .. n + 1 /\ DOMAIN r = 1 .. n
  BY <1>1, <1>2, <1>9, LenProperties
<1>12. \A k \in 1 .. n + 1 : k = n + 1 \/ k \in 1 .. n
  BY <1>2
<1>13. 1 \in 1 .. n /\ n \in 1 .. n
  BY <1>2
<1>14. IsInjective(R)
  <2> SUFFICES ASSUME NEW k \in 1 .. n + 1, NEW m \in 1 .. n + 1, R[k] = R[m] PROVE k = m
    BY <1>11 DEF IsInjective
  <2>1. CASE k \in 1 .. n /\ m \in 1 .. n
    BY <1>1, <1>9, <1>11, <2>1 DEF IsInjective
  <2>2. \A i \in 1 .. n : R[i] # j
    BY <1>6, <1>9
  <2>3. QED
    BY <1>9, <1>12, <2>1, <2>2
<1>15. ASSUME NEW k \in 1 .. n + 1, NEW m \in 1 .. n + 1, m = k + 1
       PROVE  Joined(g, R[k], R[m]) /\ D[m] = Plus(D[k], CostIn(g, R[k], R[m]))
  <2>1. k \in 1 .. n /\ R[k] = r[k] /\ D[k] = c[k]
    BY <1>2, <1>9, <1>10, <1>15
  <2>2. CASE m \in 1 .. n
    <3>1. Joined(g, r[k], r[m]) /\ c[m] = Plus(c[k], CostIn(g, r[k], r[m]))
      BY <1>1, <1>2, <1>15, <2>1, <2>2
    <3>2. QED
      BY <1>9, <1>10, <2>1, <2>2, <3>1
  <2>3. CASE m = n + 1
    <3>1. k = n
      BY <1>2, <1>15, <2>3
    <3>2. QED
      BY <1>1, <1>2, <1>9, <1>10, <2>1, <2>3, <3>1
  <2>4. QED
    BY <1>12, <2>2, <2>3
<1>16. IsRoute(g, x, R)
  <2>1. Len(R) \in Nat \ {0} /\ R[1] = x
    BY <1>1, <1>9, <1>13
  <2>2. QED
    BY <1>9, <1>14, <1>15, <2>1 DEF IsRoute
<1>17. Priced(g, R, D)
  BY <1>1, <1>9, <1>10, <1>13, <1>15 DEF Priced
<1>18. \A k \in 1 .. n + 1 : Covers(D[k], e)
  BY <1>5, <1>6, <1>10, <1>12, CoversItself
<1>19. \A k \in 1 .. n + 1 : \E b \in ToSet(C[R[k]]) : Covers(b, D[k])
  <2>1. \A k \in 1 .. n : \E b \in ToSet(C[r[k]]) : Covers(b, c[k])
    BY <1>2, LeadsStill
  <2>2. Covers(e, e)
    BY <1>5, CoversItself
  <2>3. QED
    BY <1>9, <1>10, <1>12, <2>1, <2>2
<1>20. Leads(g, x, C, j, e, R, D)
  BY <1>9, <1>10, <1>16, <1>17, <1>18, <1>19 DEF Leads
<1>21. QED
  BY <1>20 DEF Led

\* The empty route leads to the label of the source.
LEMMA InitTravelled == Init => Travelled
<1> SUFFICES ASSUME Init, NEW v \in Vertex, NEW a \in ToSet(bag[v])
             PROVE  Led(town, s, bag, v, a)
  BY DEF Travelled
<1>1. IInv
  BY InitInv
<1>2. s \in Vertex /\ \A x : x \in ToSet(bag[s]) <=> x = <<0, 0>>
  BY <1>1 DEF IInv, Asked, Source
<1>3. v = s
  <2> SUFFICES ASSUME v # s PROVE FALSE
    OBVIOUS
  <2>1. bag[v] = <<>>
    BY DEF Init
  <2>2. QED
    BY <2>1 DEF ToSet
<1>4. PICK zero \in Label : zero = <<0, 0>>
  BY DEF Label
<1>5. a = zero
  BY <1>2, <1>3, <1>4
<1>6. PICK r \in Seq(Vertex) : r = <<s>> /\ Len(r) = 1 /\ r[1] = s /\ DOMAIN r = {1}
  <2>1. \A S : \A x \in S : <<x>> \in Seq(S) /\ Len(<<x>>) = 1 /\ <<x>>[1] = x /\ DOMAIN <<x>> = {1}
    OBVIOUS
  <2>2. <<s>> \in Seq(Vertex) /\ Len(<<s>>) = 1 /\ <<s>>[1] = s /\ DOMAIN <<s>> = {1}
    BY <1>2, <2>1
  <2>3. QED
    BY <2>2, Zenon
<1>7. PICK c \in Seq(Label) : c = <<zero>> /\ Len(c) = 1 /\ c[1] = zero
  <2>1. \A S : \A x \in S : <<x>> \in Seq(S) /\ Len(<<x>>) = 1 /\ <<x>>[1] = x
    OBVIOUS
  <2>2. <<zero>> \in Seq(Label) /\ Len(<<zero>>) = 1 /\ <<zero>>[1] = zero
    BY <2>1
  <2>3. QED
    BY <2>2, Zenon
<1>8. \A k \in 1 .. 1 : k = 1
  OBVIOUS
<1>9. IsRoute(town, s, r)
  BY <1>6, <1>8 DEF IsRoute, IsInjective
<1>10. Priced(town, r, c)
  BY <1>4, <1>6, <1>7, <1>8 DEF Priced
<1>11. Covers(zero, zero)
  BY CoversItself
<1>12. Leads(town, s, bag, v, a, r, c)
  BY <1>2, <1>3, <1>4, <1>5, <1>6, <1>7, <1>8, <1>9, <1>10, <1>11 DEF Leads
<1>13. QED
  BY <1>12 DEF Led

\* Every step keeps labels travelled.
LEMMA StepTravelled == IInv /\ Travelled /\ [Next]_vars => Travelled'
<1> SUFFICES ASSUME IInv, Travelled, [Next]_vars PROVE Travelled'
  OBVIOUS
<1>1. CASE Extend
  <2>1. PICK j : Arrives(j)
    BY <1>1, ExtendArrives
  <2>2. PICK w \in Label : w = CostIn(town, from, j)
    BY <2>1 DEF Arrives
  <2>3. /\ Bags' /\ \A v \in Vertex : v # j => bag'[v] = bag[v]
        /\ bag'[j] = Merge(bag[j], bag[from], w)
        /\ \A v \in Vertex : \A b \in ToSet(bag[v]) : \E c \in ToSet(bag'[v]) : Covers(c, b)
        /\ IsBag(bag[from]) /\ IsBag(bag[j])
    BY <2>1, <2>2, BagsAfter
  <2>4. /\ town' = town /\ s' = s /\ town \in Town /\ from \in Vertex /\ j \in Vertex
        /\ Joined(town, from, j)
    BY <2>1 DEF Arrives, query, IInv, Asked
  <2>5. Better(bag, bag')
    <3>1. \A v \in Vertex : IsBag(bag[v]) /\ IsBag(bag'[v])
      BY <2>3 DEF IInv, Bags
    <3>2. \A v \in Vertex : \A b \in ToSet(bag[v]) : b \in Label
      BY <3>1, BagLabels
    <3>3. \A v \in Vertex : \A b \in ToSet(bag'[v]) : b \in Label
      BY <3>1, BagLabels
    <3>4. QED
      BY <2>3, <3>2, <3>3 DEF Better
  <2>6. ASSUME NEW v \in Vertex, NEW a \in ToSet(bag[v]) PROVE Led(town, s, bag', v, a)
    <3>1. Led(town, s, bag, v, a)
      BY DEF Travelled
    <3>2. PICK r, c : Leads(town, s, bag, v, a, r, c)
      BY <3>1 DEF Led
    <3>3. QED
      BY <2>5, <3>2, LeadsStill DEF Led
  <2>7. ASSUME NEW x \in ToSet(bag'[j]), x \notin ToSet(bag[j]) PROVE Led(town, s, bag', j, x)
    <3>1. Comes(bag[j], bag[from], w, x)
      BY <2>3, <2>7, MergeIs
    <3>2. PICK a \in ToSet(bag[from]) : x = Plus(a, CostIn(town, from, j))
      BY <2>2, <3>1 DEF Comes
    <3>3. PICK r, c : Leads(town, s, bag, from, a, r, c)
      BY <2>4 DEF Travelled, Led
    <3>4. \A b \in ToSet(bag[j]) : ~ Covers(b, Inflated(x))
      BY <3>1 DEF Comes
    <3>5. QED
      BY <2>4, <2>5, <3>2, <3>3, <3>4, LeadsOn
  <2>8. \A v \in Vertex : \A a \in ToSet(bag'[v]) : Led(town, s, bag', v, a)
    BY <2>3, <2>6, <2>7
  <2>9. QED
    BY <2>4, <2>8 DEF Travelled
<1>2. CASE bag' = bag /\ town' = town /\ s' = s
  BY <1>2 DEF Travelled
<1>3. Next => Extend \/ (bag' = bag /\ town' = town /\ s' = s)
  BY DEF Next, Select, Exhausted, StepBack, PushPath, Choose, DumpGeojson, query
<1>4. QED
  BY <1>1, <1>2, <1>3 DEF vars, query

\* The routes of the reference with one street more.
Longer(D) ==
  D \cup UNION {{Append(r, u) : u \in Neighbours(Last(r)) \ ToSet(r)} : r \in D}

\* The routes of the reference one junction longer.
LEMMA LongerBy ==
  ASSUME NEW D, NEW x
  PROVE  x \in Longer(D) <=>
           \/ x \in D
           \/ \E r \in D : \E u \in Vertex :
                Joined(town, u, r[Len(r)]) /\ u \notin ToSet(r) /\ x = Append(r, u)
<1>1. \A r : Last(r) = r[Len(r)]
  BY DEF Last
<1>2. \A r : \A u : u \in Neighbours(Last(r)) <=> u \in Vertex /\ Joined(town, u, r[Len(r)])
  BY <1>1, NetworkOf
<1>3. QED
  BY <1>2 DEF Longer

\* The routes of the reference, by their number of streets.
ListedBy(f) ==
  LET n == Cardinality(Vertex) - 1 IN
  /\ n \in Nat
  /\ f \in [0 .. n -> SUBSET Seq(Vertex)]
  /\ f[0] = {<<s>>}
  /\ \A k \in 1 .. n : f[k] = Longer(f[k - 1])
  /\ \A v : Routes(v) = {r \in f[n] : Last(r) = v}

\* The recursion of the reference defines a function.
LEMMA RoutesUnfold ==
  ASSUME s \in Vertex
  PROVE  \E f : ListedBy(f)
<1> DEFINE n == Cardinality(Vertex) - 1
           V == SUBSET Seq(Vertex)
           Unfolds(f) == f = [k \in 0 .. n |-> IF k = 0 THEN {<<s>>} ELSE Longer(f[k - 1])]
           longer == CHOOSE f : Unfolds(f)
<1>1. n \in Nat
  <2>1. Cardinality(Vertex) \in Nat
    BY VertexAssumption, FS_CardinalityType
  <2>2. Cardinality(Vertex) # 0
    BY VertexAssumption, FS_EmptySet
  <2>3. QED
    BY <2>1, <2>2
<1>2. {<<s>>} \in V
  OBVIOUS
<1>3. ASSUME NEW D \in V PROVE Longer(D) \in V
  <2> SUFFICES ASSUME NEW x \in Longer(D), x \notin D PROVE x \in Seq(Vertex)
    OBVIOUS
  <2>1. PICK r \in D : \E u \in Vertex : x = Append(r, u)
    BY LongerBy
  <2>2. PICK u \in Vertex : x = Append(r, u)
    BY <2>1
  <2>3. r \in Seq(Vertex)
    OBVIOUS
  <2>4. QED
    BY <2>2, <2>3, AppendProperties
<1>4. \A v : Routes(v) = {r \in longer[n] : Last(r) = v}
  BY DEF Routes, Longer
<1>5. \E f : Unfolds(f)
  <2> DEFINE step == [p \in V \X (1 .. n) |-> Longer(p[1])]
  <2>1. Steps(step, V, n)
    BY <1>3 DEF Steps
  <2> HIDE DEF n, V
  <2>2. PICK f : Iterates(f, {<<s>>}, step, V, n)
    <3> HIDE DEF step
    <3>1. QED
      BY <1>1, <1>2, <2>1, Iteration
  <2>3. ASSUME NEW k \in 1 .. n PROVE f[k] = Longer(f[k - 1])
    <3>1. <<f[k - 1], k>> \in V \X (1 .. n)
      BY <1>1, <2>2 DEF Iterates
    <3>2. QED
      BY <2>2, <3>1 DEF Iterates
  <2>4. f = [k \in 0 .. n |-> f[k]] /\ f[0] = {<<s>>}
    BY <2>2 DEF Iterates
  <2>5. \A k \in 0 .. n : k = 0 \/ k \in 1 .. n
    BY <1>1
  <2>6. \A k \in 0 .. n : f[k] = IF k = 0 THEN {<<s>>} ELSE Longer(f[k - 1])
    <3>1. f[0] = {<<s>>} /\ 0 \notin 1 .. n
      BY <2>4
    <3>2. QED
      BY <2>3, <2>5, <3>1, Zenon
  <2>7. Unfolds(f)
    BY <2>4, <2>6
  <2>8. QED
    BY <2>7
<1>6. Unfolds(longer)
  BY <1>5
<1> HIDE DEF longer
<1>7. \A k \in 0 .. n : longer[k] = IF k = 0 THEN {<<s>>} ELSE Longer(longer[k - 1])
  BY <1>6
<1>8. longer = [k \in 0 .. n |-> longer[k]]
  BY <1>6, <1>7
<1> HIDE DEF Unfolds, n
<1>9. \A k \in 0 .. n : longer[k] \in V
  <2> DEFINE T == {k \in 0 .. n : longer[k] \in V}
  <2>1. 0 \in T
    <3>1. 0 \in 0 .. n
      BY <1>1
    <3>2. longer[0] = {<<s>>}
      BY <1>7, <3>1
    <3> HIDE DEF V
    <3>3. QED
      BY <1>2, <3>1, <3>2
  <2>2. ASSUME NEW k \in 0 .. n - 1, k \in T PROVE k + 1 \in T
    <3>1. k + 1 \in 0 .. n /\ k + 1 # 0 /\ (k + 1) - 1 = k
      BY <1>1
    <3>2. longer[k + 1] = Longer(longer[k])
      BY <1>7, <3>1
    <3>3. QED
      BY <1>3, <2>2, <3>1, <3>2
  <2> HIDE DEF T
  <2>3. \A k \in 0 .. n : k \in T
    BY <1>1, <2>1, <2>2, InductionUpTo
  <2>4. QED
    BY <2>3 DEF T
<1>10. longer \in [0 .. n -> V]
  BY <1>8, <1>9
<1>11. longer[0] = {<<s>>} /\ \A k \in 1 .. n : longer[k] = Longer(longer[k - 1])
  BY <1>1, <1>7
<1>12. ListedBy(longer)
  BY <1>1, <1>4, <1>10, <1>11 DEF n, ListedBy
<1>13. QED
  BY <1>12

\* One step of that recursion.
LEMMA ListedStep ==
  ASSUME NEW f, ListedBy(f), NEW k \in 0 .. (Cardinality(Vertex) - 1) - 1
  PROVE  f[k + 1] = Longer(f[k])
<1>1. PICK n \in Nat : n = Cardinality(Vertex) - 1
  BY DEF ListedBy
<1>2. PICK j : j = k + 1
  OBVIOUS
<1>3. j \in 1 .. n /\ j - 1 = k
  BY <1>1, <1>2
<1>4. f[j] = Longer(f[j - 1])
  BY <1>1, <1>3 DEF ListedBy
<1>5. QED
  BY <1>2, <1>3, <1>4

\* A route without a repeated vertex has no more vertices than there are.
LEMMA RouteShort ==
  ASSUME NEW r \in Seq(Vertex), IsInjective(r)
  PROVE  Len(r) <= Cardinality(Vertex) /\ Cardinality(Vertex) \in Nat
<1>1. Len(r) \in Nat /\ DOMAIN r = 1 .. Len(r) /\ r \in [1 .. Len(r) -> Vertex]
  BY LenProperties
<1>2. r \in Injection(1 .. Len(r), Vertex)
  BY <1>1 DEF Injection, IsInjective
<1>3. Cardinality(1 .. Len(r)) = Len(r)
  BY <1>1, FS_Interval
<1>4. QED
  BY <1>2, <1>3, VertexAssumption, FS_Injection, FS_CardinalityType

\* The reference has all routes from the source without a repeated vertex.
LEMMA RouteListed ==
  ASSUME IInv, NEW r, IsRoute(town, s, r)
  PROVE  r \in Routes(r[Len(r)])
<1>1. /\ r \in Seq(Vertex) /\ Len(r) \in Nat \ {0} /\ r[1] = s /\ IsInjective(r)
      /\ \A k \in 1 .. Len(r) : \A m \in 1 .. Len(r) : m = k + 1 => Joined(town, r[k], r[m])
      /\ town \in Town /\ s \in Vertex /\ DOMAIN r = 1 .. Len(r)
  BY LenProperties DEF IsRoute, IInv, Asked
<1>2. PICK f : ListedBy(f)
  BY <1>1, RoutesUnfold
<1>3. PICK n \in Nat : n = Cardinality(Vertex) - 1
  BY <1>2 DEF ListedBy
<1>4. f[0] = {<<s>>} /\ \A v : Routes(v) = {p \in f[n] : Last(p) = v}
  BY <1>2, <1>3 DEF ListedBy
<1>5. \A i \in 1 .. Len(r) : r[i] \in Vertex
  BY <1>1, ElementOfSeq
<1>6. ASSUME NEW i \in 1 .. Len(r)
      PROVE  /\ SubSeq(r, 1, i) \in Seq(Vertex) /\ Len(SubSeq(r, 1, i)) = i
             /\ \A k \in 1 .. i : SubSeq(r, 1, i)[k] = r[k]
  <2>1. \A k \in 1 .. i : r[k] \in Vertex
    BY <1>1, <1>5
  <2>2. PICK B : B = SubSeq(r, 1, i)
    OBVIOUS
  <2>3. /\ B \in Seq(Vertex) /\ Len(B) = (IF 1 <= i THEN i - 1 + 1 ELSE 0)
        /\ \A k \in 1 .. i - 1 + 1 : B[k] = r[1 + k - 1]
    BY <2>1, <2>2, SubSeqProperties
  <2>4. Len(B) = i /\ \A k \in 1 .. i : k \in 1 .. i - 1 + 1 /\ 1 + k - 1 = k
    BY <1>1, <2>3
  <2>5. \A k \in 1 .. i : B[k] = r[k]
    BY <2>3, <2>4
  <2>6. QED
    BY <2>2, <2>3, <2>4, <2>5
<1> DEFINE T == {k \in 0 .. n : \A i \in 1 .. Len(r) : i <= k + 1 => SubSeq(r, 1, i) \in f[k]}
<1>7. SubSeq(r, 1, 1) = <<s>>
  <2>1. 1 \in 1 .. Len(r) /\ 1 \in 1 .. 1
    BY <1>1
  <2>2. PICK B : B = SubSeq(r, 1, 1)
    OBVIOUS
  <2>3. B \in Seq(Vertex) /\ Len(B) = 1 /\ B[1] = s
    BY <1>1, <1>6, <2>1, <2>2
  <2>4. <<s>> \in Seq(Vertex) /\ Len(<<s>>) = 1 /\ <<s>>[1] = s
    BY <1>1
  <2>5. \A i \in 1 .. 1 : i = 1
    OBVIOUS
  <2>6. B = <<s>>
    BY <2>3, <2>4, <2>5, SeqEqual
  <2>7. QED
    BY <2>2, <2>6
<1>8. 0 \in T
  <2>1. \A i \in 1 .. Len(r) : i <= 0 + 1 => i = 1
    BY <1>1
  <2>2. <<s>> \in f[0]
    BY <1>4
  <2>3. \A i \in 1 .. Len(r) : i <= 0 + 1 => SubSeq(r, 1, i) \in f[0]
    BY <1>7, <2>1, <2>2, Zenon
  <2>4. QED
    BY <1>3, <2>3
<1>9. ASSUME NEW k \in 0 .. n - 1, k \in T PROVE k + 1 \in T
  <2>1. f[k + 1] = Longer(f[k])
    BY <1>2, <1>3, ListedStep
  <2>2. \A p \in f[k] : p \in f[k + 1]
    BY <2>1, LongerBy
  <2>3. ASSUME NEW i \in 1 .. Len(r), i <= (k + 1) + 1 PROVE SubSeq(r, 1, i) \in f[k + 1]
    <3>1. CASE i <= k + 1
      BY <1>9, <2>2, <3>1
    <3>2. CASE i = k + 2
      <4>1. PICK j \in 1 .. Len(r) : j = k + 1 /\ i = j + 1 /\ j <= k + 1
        BY <1>1, <3>2
      <4>2. PICK B : B = SubSeq(r, 1, j)
        OBVIOUS
      <4>3. B \in f[k]
        BY <1>9, <4>1, <4>2
      <4>4. /\ B \in Seq(Vertex) /\ Len(B) = j /\ \A m \in 1 .. j : B[m] = r[m]
        BY <1>6, <4>2
      <4>5. j \in 1 .. j
        BY <4>1
      <4>6. B[Len(B)] = r[j]
        BY <4>4, <4>5
      <4>7. Joined(town, r[j], r[i])
        BY <1>1, <4>1
      <4>8. Joined(town, r[i], B[Len(B)])
        BY <1>1, <4>6, <4>7, StreetCost
      <4>9. r[i] \notin ToSet(B)
        <5> SUFFICES ASSUME NEW m \in 1 .. j, r[i] = B[m] PROVE FALSE
          BY <4>4, Members
        <5>1. m \in 1 .. Len(r) /\ m # i
          BY <1>1, <4>1
        <5>2. r[i] = r[m]
          BY <4>4
        <5>3. QED
          BY <1>1, <5>1, <5>2 DEF IsInjective
      <4>10. SubSeq(r, 1, i) = Append(B, r[i])
        <5>1. PICK C : C = SubSeq(r, 1, i)
          OBVIOUS
        <5>2. C \in Seq(Vertex) /\ Len(C) = i /\ \A m \in 1 .. i : C[m] = r[m]
          BY <1>6, <5>1
        <5>3. PICK D : D = Append(B, r[i])
          OBVIOUS
        <5>4. /\ D \in Seq(Vertex) /\ Len(D) = j + 1 /\ D[j + 1] = r[i]
              /\ \A m \in 1 .. j : D[m] = B[m]
          BY <1>5, <4>4, <5>3, AppendProperties
        <5>5. \A m \in 1 .. i : m = i \/ m \in 1 .. j
          BY <4>1
        <5>6. \A m \in 1 .. i : C[m] = D[m]
          BY <4>1, <4>4, <5>2, <5>4, <5>5
        <5>7. C = D
          BY <4>1, <5>2, <5>4, <5>6, SeqEqual
        <5>8. QED
          BY <5>1, <5>3, <5>7
      <4>11. PICK C : C = SubSeq(r, 1, i)
        OBVIOUS
      <4>12. PICK u \in Vertex : u = r[i]
        BY <1>5
      <4>13. Joined(town, u, B[Len(B)]) /\ u \notin ToSet(B) /\ C = Append(B, u)
        BY <4>8, <4>9, <4>10, <4>11, <4>12
      <4>14. C \in Longer(f[k])
        BY <4>3, <4>13, LongerBy
      <4>15. QED
        BY <2>1, <4>11, <4>14
    <3>3. QED
      BY <1>1, <2>3, <3>1, <3>2
  <2>4. QED
    BY <2>3
<1> HIDE DEF T
<1>10. n \in T
  BY <1>8, <1>9, InductionUpTo
<1>11. Len(r) \in 1 .. Len(r) /\ Len(r) <= n + 1
  BY <1>1, <1>3, RouteShort
<1>12. SubSeq(r, 1, Len(r)) \in f[n]
  BY <1>10, <1>11 DEF T
<1>13. r \in f[n]
  BY <1>1, <1>12, SubSeqFull
<1>14. QED
  BY <1>4, <1>13 DEF Last

\* And nothing else.
LEMMA ListedRoute ==
  ASSUME IInv, NEW v, NEW r \in Routes(v)
  PROVE  IsRoute(town, s, r) /\ r[Len(r)] = v
<1>1. town \in Town /\ s \in Vertex
  BY DEF IInv, Asked
<1>2. PICK f : ListedBy(f)
  BY <1>1, RoutesUnfold
<1>3. PICK n \in Nat : n = Cardinality(Vertex) - 1
  BY <1>2 DEF ListedBy
<1>4. /\ f[0] = {<<s>>} /\ \A x : Routes(x) = {p \in f[n] : Last(p) = x}
  BY <1>2, <1>3 DEF ListedBy
<1> DEFINE T == {k \in 0 .. n : \A p \in f[k] : IsRoute(town, s, p)}
<1>5. 0 \in T
  <2>1. \A S : \A x \in S : <<x>> \in Seq(S) /\ Len(<<x>>) = 1 /\ <<x>>[1] = x /\ DOMAIN <<x>> = {1}
    OBVIOUS
  <2>2. PICK p \in Seq(Vertex) : p = <<s>> /\ Len(p) = 1 /\ p[1] = s /\ DOMAIN p = {1}
    BY <1>1, <2>1, Zenon
  <2>3. \A k \in 1 .. 1 : k = 1
    OBVIOUS
  <2>4. IsRoute(town, s, p)
    BY <2>2, <2>3 DEF IsRoute, IsInjective
  <2>5. QED
    BY <1>4, <2>2, <2>4
<1>6. ASSUME NEW k \in 0 .. n - 1, k \in T PROVE k + 1 \in T
  <2>1. f[k + 1] = Longer(f[k])
    BY <1>2, <1>3, ListedStep
  <2>2. ASSUME NEW q \in f[k + 1] PROVE IsRoute(town, s, q)
    <3>1. CASE q \in f[k]
      BY <1>6, <3>1
    <3>2. CASE \E p \in f[k] : \E u \in Vertex :
                 Joined(town, u, p[Len(p)]) /\ u \notin ToSet(p) /\ q = Append(p, u)
      <4>1. PICK p \in f[k] : \E u \in Vertex :
                 Joined(town, u, p[Len(p)]) /\ u \notin ToSet(p) /\ q = Append(p, u)
        BY <3>2
      <4>2. PICK u \in Vertex : Joined(town, u, p[Len(p)]) /\ u \notin ToSet(p) /\ q = Append(p, u)
        BY <4>1
      <4>3. /\ p \in Seq(Vertex) /\ Len(p) \in Nat \ {0} /\ p[1] = s /\ IsInjective(p)
            /\ \A i \in 1 .. Len(p) : \A m \in 1 .. Len(p) : m = i + 1 => Joined(town, p[i], p[m])
        BY <1>6 DEF IsRoute
      <4>4. PICK l \in Nat \ {0} : l = Len(p)
        BY <4>3
      <4>5. /\ q \in Seq(Vertex) /\ Len(q) = l + 1 /\ q[l + 1] = u
            /\ \A i \in 1 .. l : q[i] = p[i]
        BY <4>2, <4>3, <4>4, AppendProperties
      <4>6. DOMAIN q = 1 .. l + 1 /\ DOMAIN p = 1 .. l
        BY <4>3, <4>4, <4>5, LenProperties
      <4>7. \A i \in 1 .. l + 1 : i = l + 1 \/ i \in 1 .. l
        BY <4>4
      <4>8. 1 \in 1 .. l
        BY <4>4
      <4>9. \A i \in 1 .. l : q[i] # u
        BY <4>2, <4>3, <4>4, <4>5, Members
      <4>10. IsInjective(q)
        <5> SUFFICES ASSUME NEW i \in 1 .. l + 1, NEW m \in 1 .. l + 1, q[i] = q[m] PROVE i = m
          BY <4>6 DEF IsInjective
        <5>1. CASE i \in 1 .. l /\ m \in 1 .. l
          BY <4>3, <4>5, <4>6, <5>1 DEF IsInjective
        <5>2. QED
          BY <4>5, <4>7, <4>9, <5>1
      <4>11. ASSUME NEW i \in 1 .. l + 1, NEW m \in 1 .. l + 1, m = i + 1
             PROVE  Joined(town, q[i], q[m])
        <5>1. i \in 1 .. l /\ q[i] = p[i]
          BY <4>4, <4>5, <4>11
        <5>2. CASE m \in 1 .. l
          BY <4>3, <4>4, <4>5, <4>11, <5>1, <5>2
        <5>3. CASE m = l + 1
          <6>1. i = l
            BY <4>4, <4>11, <5>3
          <6>2. Joined(town, p[Len(p)], u)
            BY <1>1, <4>2, StreetCost
          <6>3. QED
            BY <4>4, <4>5, <5>1, <5>3, <6>1, <6>2
        <5>4. QED
          BY <4>7, <5>2, <5>3
      <4>12. Len(q) \in Nat \ {0} /\ q[1] = s
        BY <4>3, <4>4, <4>5, <4>8
      <4>13. QED
        BY <4>5, <4>10, <4>11, <4>12 DEF IsRoute
    <3>3. QED
      BY <2>1, <3>1, <3>2, LongerBy
  <2>3. QED
    BY <2>2
<1> HIDE DEF T
<1>7. n \in T
  BY <1>5, <1>6, InductionUpTo
<1>8. r \in f[n] /\ Last(r) = v
  BY <1>4
<1>9. QED
  BY <1>7, <1>8 DEF T, Last

\* A walk along streets.
Goes(g, r) ==
  /\ r \in Seq(Vertex) /\ Len(r) \in Nat \ {0}
  /\ \A k \in 1 .. Len(r) : \A m \in 1 .. Len(r) : m = k + 1 => Joined(g, r[k], r[m])

\* A route is one.
LEMMA RouteGoes ==
  ASSUME NEW g, NEW x, NEW r, IsRoute(g, x, r)
  PROVE  Goes(g, r)
BY DEF Goes, IsRoute

\* What the beginnings of a route cost, by the reference.
Totalled(r, u) ==
  /\ u \in [0 .. Len(r) -> Label]
  /\ u[1] = <<0, 0>>
  /\ \A k \in 1 .. Len(r) : \A m \in 1 .. Len(r) :
       m = k + 1 => u[m] = Plus(u[k], CostIn(town, r[k], r[m]))
  /\ Total(r) = u[Len(r)]

\* The recursion that sums up a walk defines a function.
LEMMA TotalUnfolds ==
  ASSUME IInv, NEW r, Goes(town, r)
  PROVE  \E u : Totalled(r, u)
<1>1. PICK n \in Nat \ {0} : n = Len(r)
  BY DEF Goes
<1>2. PICK zero \in Label : zero = <<0, 0>>
  BY DEF Label
<1> DEFINE next(u, k) == IF k <= 1 THEN zero ELSE Plus(u, Weight(r[k - 1], r[k]))
           Unfolds(f) == f = [k \in 0 .. n |-> next(f[k - 1], k)]
           upto == CHOOSE f : Unfolds(f)
           step == [p \in Label \X (1 .. n) |-> next(p[1], p[2])]
<1>3. ASSUME NEW u \in Label, NEW k \in 1 .. n PROVE next(u, k) \in Label
  <2>1. CASE k <= 1
    BY <1>2, <2>1
  <2>2. CASE ~ (k <= 1)
    <3>1. k - 1 \in 1 .. n /\ k = (k - 1) + 1
      BY <2>2
    <3>2. Joined(town, r[k - 1], r[k]) /\ town \in Town
      BY <1>1, <3>1 DEF Goes, IInv, Asked
    <3>3. Weight(r[k - 1], r[k]) \in Label
      BY <3>2, StreetCost, NetworkOf
    <3>4. QED
      BY <2>2, <3>3, PlusLabel
  <2>3. QED
    BY <2>1, <2>2
<1>4. Total(r) = upto[n]
  BY <1>1, <1>2 DEF Total
<1>5. \E f : Unfolds(f)
  <2>1. Steps(step, Label, n)
    <3>1. \A p \in Label \X (1 .. n) : next(p[1], p[2]) \in Label
      <4> HIDE DEF next
      <4>1. QED
        BY <1>3
    <3> HIDE DEF next
    <3>2. QED
      BY <3>1 DEF Steps
  <2>2. PICK f : Iterates(f, zero, step, Label, n)
    <3> HIDE DEF step
    <3>1. QED
      BY <1>2, <2>1, Iteration
  <2>3. ASSUME NEW k \in 1 .. n PROVE f[k] = next(f[k - 1], k)
    <3>1. <<f[k - 1], k>> \in Label \X (1 .. n)
      BY <2>2 DEF Iterates
    <3>2. step[<<f[k - 1], k>>] = next(f[k - 1], k)
      <4> HIDE DEF next
      <4>1. QED
        BY <3>1
    <3>3. QED
      BY <2>2, <3>2 DEF Iterates
  <2>4. f[0] = next(f[0 - 1], 0)
    <3>1. f[0] = zero
      BY <2>2 DEF Iterates
    <3>2. QED
      BY <3>1
  <2>5. f = [k \in 0 .. n |-> f[k]]
    BY <2>2 DEF Iterates
  <2>6. \A k \in 0 .. n : k = 0 \/ k \in 1 .. n
    BY <1>1
  <2> HIDE DEF next
  <2>7. \A k \in 0 .. n : f[k] = next(f[k - 1], k)
    BY <2>3, <2>4, <2>6, Zenon
  <2>8. Unfolds(f)
    BY <2>5, <2>7
  <2>9. QED
    BY <2>8
<1>6. Unfolds(upto)
  BY <1>5
<1> HIDE DEF upto, step
<1>7. \A k \in 0 .. n : upto[k] = next(upto[k - 1], k)
  <2> HIDE DEF next
  <2>1. QED
    BY <1>6
<1>8. upto = [k \in 0 .. n |-> upto[k]]
  <2> HIDE DEF next
  <2>1. QED
    BY <1>6, <1>7
<1>9. upto[0] = zero /\ upto[1] = zero
  <2>1. 0 \in 0 .. n /\ 1 \in 0 .. n
    BY <1>1
  <2>2. upto[0] = next(upto[0 - 1], 0) /\ upto[1] = next(upto[1 - 1], 1)
    <3> HIDE DEF next
    <3>1. QED
      BY <1>7, <2>1
  <2>3. QED
    BY <2>2
<1>10. \A k \in 0 .. n : upto[k] \in Label
  <2> DEFINE T == {k \in 0 .. n : upto[k] \in Label}
  <2>1. 0 \in T
    BY <1>9
  <2>2. ASSUME NEW k \in 0 .. n - 1, k \in T PROVE k + 1 \in T
    <3>1. k + 1 \in 0 .. n /\ k + 1 \in 1 .. n /\ (k + 1) - 1 = k
      OBVIOUS
    <3> HIDE DEF next
    <3>2. upto[k + 1] = next(upto[k], k + 1)
      BY <1>7, <3>1
    <3>3. QED
      BY <1>3, <2>2, <3>1, <3>2
  <2> HIDE DEF T
  <2>3. \A k \in 0 .. n : k \in T
    BY <2>1, <2>2, InductionUpTo
  <2>4. QED
    BY <2>3 DEF T
<1>11. upto \in [0 .. n -> Label]
  BY <1>8, <1>10
<1>12. ASSUME NEW k \in 1 .. n, NEW m \in 1 .. n, m = k + 1
       PROVE  upto[m] = Plus(upto[k], CostIn(town, r[k], r[m]))
  <2>1. m \in 0 .. n /\ ~ (m <= 1) /\ m - 1 = k
    BY <1>12
  <2>2. upto[m] = Plus(upto[m - 1], Weight(r[m - 1], r[m]))
    BY <1>7, <2>1
  <2>3. QED
    BY <2>1, <2>2, NetworkOf
<1>13. Totalled(r, upto)
  BY <1>1, <1>2, <1>4, <1>9, <1>11, <1>12 DEF Totalled
<1>14. QED
  BY <1>13

\* A label a walk leads to is the total of the walk.
LEMMA TotalPriced ==
  ASSUME IInv, NEW r, NEW c, Goes(town, r), Priced(town, r, c)
  PROVE  Total(r) = c[Len(r)]
<1>1. PICK u : Totalled(r, u)
  BY TotalUnfolds
<1>2. PICK n \in Nat \ {0} : n = Len(r)
  BY DEF Goes
<1>3. /\ c[1] = <<0, 0>>
      /\ \A k \in 1 .. n : \A m \in 1 .. n :
           m = k + 1 => c[m] = Plus(c[k], CostIn(town, r[k], r[m]))
  BY <1>2 DEF Priced
<1>4. /\ u[1] = <<0, 0>> /\ Total(r) = u[n]
      /\ \A k \in 1 .. n : \A m \in 1 .. n :
           m = k + 1 => u[m] = Plus(u[k], CostIn(town, r[k], r[m]))
  BY <1>1, <1>2 DEF Totalled
<1> DEFINE T == {k \in 0 .. n - 1 : c[k + 1] = u[k + 1]}
<1>5. 0 \in T
  BY <1>2, <1>3, <1>4
<1>6. ASSUME NEW k \in 0 .. (n - 1) - 1, k \in T PROVE k + 1 \in T
  <2>1. PICK i \in 1 .. n : i = k + 1
    BY <1>2
  <2>2. PICK m \in 1 .. n : m = i + 1
    BY <1>2, <2>1
  <2>3. c[i] = u[i]
    BY <1>6, <2>1
  <2>4. c[m] = u[m]
    BY <1>3, <1>4, <2>2, <2>3
  <2>5. (k + 1) + 1 = m /\ k + 1 \in 0 .. n - 1
    BY <1>2, <2>1, <2>2
  <2>6. QED
    BY <2>4, <2>5
<1> HIDE DEF T
<1>7. n - 1 \in Nat /\ n - 1 \in 0 .. n - 1 /\ (n - 1) + 1 = n
  BY <1>2
<1>8. n - 1 \in T
  BY <1>5, <1>6, <1>7, InductionUpTo
<1>9. QED
  BY <1>2, <1>4, <1>7, <1>8 DEF T

\* However often bags are merged back and forth, every label is what some route
\* without a repeated vertex costs.
THEOREM LabelsAreReal == Spec => []LabelsReal
<1>1. IInv /\ Travelled => LabelsReal
  <2> SUFFICES ASSUME IInv, Travelled, NEW v \in Vertex, NEW a \in ToSet(bag[v])
               PROVE  \E r \in Routes(v) : a = Total(r)
    BY DEF LabelsReal
  <2>1. PICK r, c : Leads(town, s, bag, v, a, r, c)
    BY DEF Travelled, Led
  <2>2. IsRoute(town, s, r) /\ Priced(town, r, c) /\ r[Len(r)] = v /\ c[Len(r)] = a
    BY <2>1 DEF Leads
  <2>3. r \in Routes(v) /\ Total(r) = a
    BY <2>2, RouteListed, RouteGoes, TotalPriced
  <2>4. QED
    BY <2>3
<1>2. QED
  BY <1>1, InitInv, StepInv, InitTravelled, StepTravelled, PTL DEF Spec

-----------------------------------------------------------------------------
(* What labels at the target cover.                                         *)

\* A label inflated as often as a route has streets.
Inflations(f, a, n) ==
  /\ f \in [0 .. n -> Label]
  /\ f[0] = a
  /\ \A k \in 0 .. n : \A m \in 0 .. n : m = k + 1 => f[m] = Inflated(f[k])

\* The recursion that inflates a label n times defines a function.
LEMMA AllowanceUnfolds ==
  ASSUME NEW a \in Label, NEW n \in Nat
  PROVE  \E f : Inflations(f, a, n) /\ Allowance(a, n) = f[n]
<1> DEFINE Unfolds(f) == f = [k \in 0 .. n |-> IF k = 0 THEN a ELSE Inflated(f[k - 1])]
           inflated == CHOOSE f : Unfolds(f)
           step == [p \in Label \X (1 .. n) |-> Inflated(p[1])]
<1>1. Allowance(a, n) = inflated[n]
  BY DEF Allowance
<1>2. \E f : Unfolds(f)
  <2>1. Steps(step, Label, n)
    BY InflatedLabel DEF Steps
  <2>2. PICK f : Iterates(f, a, step, Label, n)
    <3> HIDE DEF step
    <3>1. QED
      BY <2>1, Iteration
  <2>3. ASSUME NEW k \in 1 .. n PROVE f[k] = Inflated(f[k - 1])
    <3>1. <<f[k - 1], k>> \in Label \X (1 .. n)
      BY <2>2 DEF Iterates
    <3>2. QED
      BY <2>2, <3>1 DEF Iterates
  <2>4. f = [k \in 0 .. n |-> f[k]] /\ f[0] = a
    BY <2>2 DEF Iterates
  <2>5. \A k \in 0 .. n : k = 0 \/ k \in 1 .. n
    OBVIOUS
  <2>6. \A k \in 0 .. n : f[k] = IF k = 0 THEN a ELSE Inflated(f[k - 1])
    <3>1. f[0] = a /\ 0 \notin 1 .. n
      BY <2>4
    <3>2. QED
      BY <2>3, <2>5, <3>1, Zenon
  <2>7. Unfolds(f)
    BY <2>4, <2>6
  <2>8. QED
    BY <2>7
<1>3. Unfolds(inflated)
  BY <1>2
<1> HIDE DEF inflated
<1>4. \A k \in 0 .. n : inflated[k] = IF k = 0 THEN a ELSE Inflated(inflated[k - 1])
  BY <1>3
<1>5. inflated = [k \in 0 .. n |-> inflated[k]]
  BY <1>3, <1>4
<1> HIDE DEF Unfolds
<1>6. inflated[0] = a
  BY <1>4
<1>7. ASSUME NEW k \in 0 .. n, NEW m \in 0 .. n, m = k + 1 PROVE inflated[m] = Inflated(inflated[k])
  <2>1. m # 0 /\ m - 1 = k
    BY <1>7
  <2>2. QED
    BY <1>4, <2>1
<1>8. \A k \in 0 .. n : inflated[k] \in Label
  <2> DEFINE T == {k \in 0 .. n : inflated[k] \in Label}
  <2>1. 0 \in T
    BY <1>6
  <2>2. ASSUME NEW k \in 0 .. n - 1, k \in T PROVE k + 1 \in T
    <3>1. PICK m \in 0 .. n : m = k + 1
      OBVIOUS
    <3>2. inflated[m] = Inflated(inflated[k]) /\ inflated[k] \in Label
      BY <1>7, <2>2, <3>1
    <3>3. QED
      BY <3>1, <3>2, InflatedLabel
  <2> HIDE DEF T
  <2>3. \A k \in 0 .. n : k \in T
    BY <2>1, <2>2, InductionUpTo
  <2>4. QED
    BY <2>3 DEF T
<1>9. Inflations(inflated, a, n)
  BY <1>5, <1>6, <1>7, <1>8 DEF Inflations
<1>10. QED
  BY <1>1, <1>9

\* One inflation more, and what none leaves.
LEMMA AllowanceSteps ==
  ASSUME NEW a \in Label, NEW n \in Nat, NEW m \in Nat, m = n + 1
  PROVE  /\ Allowance(a, n) \in Label
         /\ Allowance(a, 0) = a
         /\ Allowance(a, m) = Inflated(Allowance(a, n))
<1>1. PICK f : Inflations(f, a, n) /\ Allowance(a, n) = f[n]
  BY AllowanceUnfolds
<1>2. PICK g : Inflations(g, a, m) /\ Allowance(a, m) = g[m]
  BY AllowanceUnfolds
<1>3. PICK h : Inflations(h, a, 0) /\ Allowance(a, 0) = h[0]
  BY AllowanceUnfolds
<1> DEFINE T == {k \in 0 .. n : f[k] = g[k]}
<1>4. 0 \in T
  BY <1>1, <1>2 DEF Inflations
<1>5. ASSUME NEW k \in 0 .. n - 1, k \in T PROVE k + 1 \in T
  <2>1. PICK i \in 0 .. n : i = k + 1
    OBVIOUS
  <2>2. i \in 0 .. m /\ k \in 0 .. m /\ k \in 0 .. n
    OBVIOUS
  <2>3. f[i] = Inflated(f[k]) /\ g[i] = Inflated(g[k])
    BY <1>1, <1>2, <2>1, <2>2 DEF Inflations
  <2>4. QED
    BY <1>5, <2>1, <2>3
<1> HIDE DEF T
<1>6. n \in T
  BY <1>4, <1>5, InductionUpTo
<1>7. g[m] = Inflated(g[n])
  <2>1. n \in 0 .. m /\ m \in 0 .. m
    OBVIOUS
  <2>2. QED
    BY <1>2, <2>1 DEF Inflations
<1>8. f[n] \in Label
  BY <1>1 DEF Inflations
<1>9. QED
  BY <1>1, <1>2, <1>3, <1>6, <1>7, <1>8 DEF T, Inflations

\* Inflation keeps the order of labels.
LEMMA InflatedKeeps ==
  ASSUME NEW a \in Label, NEW b \in Label, Covers(a, b)
  PROVE  Covers(Inflated(a), Inflated(b))
<1>1. \A x, y \in Nat : x <= y => (105 * x) \div 100 <= (105 * y) \div 100
  OBVIOUS
<1>2. a[1] \in Nat /\ a[2] \in Nat /\ b[1] \in Nat /\ b[2] \in Nat
  BY DEF Label
<1>3. QED
  BY <1>1, <1>2 DEF Covers, Inflated

\* Inflating before a street is added is no more than inflating the sum.
LEMMA InflatedSum ==
  ASSUME NEW a \in Label, NEW w \in Label
  PROVE  Covers(Plus(Inflated(a), w), Inflated(Plus(a, w)))
<1>1. \A x, y \in Nat : (105 * x) \div 100 + y <= (105 * (x + y)) \div 100
  OBVIOUS
<1>2. a[1] \in Nat /\ a[2] \in Nat /\ w[1] \in Nat /\ w[2] \in Nat
  BY DEF Label
<1>3. QED
  BY <1>1, <1>2 DEF Covers, Inflated, Plus

\* A street added keeps the order of labels.
LEMMA PlusKeeps ==
  ASSUME NEW a \in Label, NEW b \in Label, NEW w \in Label, Covers(a, b)
  PROVE  Covers(Plus(a, w), Plus(b, w))
BY DEF Covers, Plus, Label

\* A street can be added before or after the inflations, which are more then.
LEMMA AllowanceSum ==
  ASSUME NEW a \in Label, NEW w \in Label, NEW n \in Nat
  PROVE  Covers(Plus(Allowance(a, n), w), Allowance(Plus(a, w), n))
<1>1. PICK b \in Label : b = Plus(a, w)
  BY PlusLabel
<1> DEFINE T == {k \in 0 .. n : Covers(Plus(Allowance(a, k), w), Allowance(b, k))}
<1>2. 0 \in T
  BY <1>1, AllowanceSteps, CoversItself
<1>3. ASSUME NEW k \in 0 .. n - 1, k \in T PROVE k + 1 \in T
  <2>1. PICK m \in 0 .. n : m = k + 1
    OBVIOUS
  <2>2. PICK x \in Label : x = Allowance(a, k)
    BY AllowanceSteps
  <2>3. PICK y \in Label : y = Allowance(b, k)
    BY AllowanceSteps
  <2>4. Allowance(a, m) = Inflated(x) /\ Allowance(b, m) = Inflated(y)
    BY <2>1, <2>2, <2>3, AllowanceSteps
  <2>5. Plus(x, w) \in Label /\ Covers(Plus(x, w), y)
    BY <1>3, <2>2, <2>3, PlusLabel
  <2>6. Covers(Plus(Inflated(x), w), Inflated(Plus(x, w)))
    BY InflatedSum
  <2>7. Covers(Inflated(Plus(x, w)), Inflated(y))
    BY <2>5, InflatedKeeps
  <2>8. Plus(Inflated(x), w) \in Label /\ Inflated(Plus(x, w)) \in Label /\ Inflated(y) \in Label
    BY <2>5, InflatedLabel, PlusLabel
  <2>9. Covers(Plus(Inflated(x), w), Inflated(y))
    BY <2>6, <2>7, <2>8, CoversOn
  <2>10. QED
    BY <2>1, <2>4, <2>9
<1> HIDE DEF T
<1>4. n \in T
  BY <1>2, <1>3, InductionUpTo
<1>5. QED
  BY <1>1, <1>4 DEF T

\* A label of a vertex that is neither open nor out of the search is covered at
\* the target, or has been moved to the neighbours, but for those still to come.
Propagated ==
  \A v \in Vertex : \A a \in ToSet(bag[v]) :
    \/ v = t
    \/ v # s /\ ~ InEllipse(v)
    \/ v \in ToSet(open)
    \/ \E c \in ToSet(bag[t]) : Covers(c, a)
    \/ \A k \in Vertex : Joined(town, v, k) =>
         \/ v = from /\ k \in arcs
         \/ \E b \in ToSet(bag[k]) : Covers(b, Inflated(Plus(a, CostIn(town, v, k))))

\* Before the search begins the source is open, and nothing else has a label.
LEMMA InitPropagated == Init => Propagated
<1> SUFFICES ASSUME Init, NEW v \in Vertex, NEW a \in ToSet(bag[v]) PROVE v \in ToSet(open)
  BY DEF Propagated
<1>1. v = s
  <2> SUFFICES ASSUME v # s PROVE FALSE
    OBVIOUS
  <2>1. bag[v] = <<>>
    BY DEF Init
  <2>2. QED
    BY <2>1 DEF ToSet
<1>2. QED
  BY <1>1 DEF Init, ToSet

\* A junction selected is no longer open, but all its arcs are to be extended.
LEMMA SelectPropagated ==
  ASSUME IInv, Propagated, Select
  PROVE  Propagated'
<1>1. open \in Seq(Vertex) /\ DOMAIN open = 1 .. Len(open) /\ IsInjective(open) /\ town \in Town
  BY LenProperties DEF IInv, Asked, Opened
<1>2. PICK n \in 1 .. Len(open) : n = Selected
  BY <1>1, SelectedOpen DEF Select
<1>3. PICK i \in Vertex : i = open[n]
  BY <1>1, ElementOfSeq
<1>4. /\ from' = i /\ open' = RemoveAt(open, n) /\ arcs' = Neighbours(i) /\ arcs = {}
      /\ town' = town /\ s' = s /\ t' = t /\ bag' = bag
  BY <1>2, <1>3 DEF Select, query
<1>5. \A x : x \in ToSet(open') <=> x \in ToSet(open) /\ x # i
  BY <1>1, <1>3, <1>4, Removed
<1>6. \A v : InEllipse(v)' <=> InEllipse(v)
  BY <1>4 DEF InEllipse
<1>7. ASSUME NEW v \in Vertex, NEW a \in ToSet(bag[v])
      PROVE  \/ v = t
             \/ v # s /\ ~ InEllipse(v)
             \/ v \in ToSet(open')
             \/ \E c \in ToSet(bag[t]) : Covers(c, a)
             \/ \A k \in Vertex : Joined(town, v, k) =>
                  \/ v = i /\ k \in Neighbours(i)
                  \/ \E b \in ToSet(bag[k]) : Covers(b, Inflated(Plus(a, CostIn(town, v, k))))
  <2>1. CASE v = i
    <3>1. \A k \in Vertex : Joined(town, v, k) => k \in Neighbours(i)
      BY <1>1, <2>1, StreetCost, NetworkOf
    <3>2. QED
      BY <2>1, <3>1
  <2>2. CASE v # i
    <3>1. \/ v = t
          \/ v # s /\ ~ InEllipse(v)
          \/ v \in ToSet(open)
          \/ \E c \in ToSet(bag[t]) : Covers(c, a)
          \/ \A k \in Vertex : Joined(town, v, k) =>
               \/ v = from /\ k \in arcs
               \/ \E b \in ToSet(bag[k]) : Covers(b, Inflated(Plus(a, CostIn(town, v, k))))
      BY DEF Propagated
    <3>2. \A k : k \notin arcs
      BY <1>4
    <3>3. QED
      BY <1>5, <2>2, <3>1, <3>2, Zenon
  <2>3. QED
    BY <2>1, <2>2
<1>8. QED
  BY <1>4, <1>6, <1>7 DEF Propagated

\* An arc extended has its labels covered at the other end, or that end is open.
LEMMA ExtendPropagated ==
  ASSUME IInv, Propagated, Extend
  PROVE  Propagated'
<1>1. PICK j : Arrives(j)
  BY ExtendArrives
<1>2. /\ Bags' /\ \A v \in Vertex : v # j => bag'[v] = bag[v]
      /\ bag'[j] = Merge(bag[j], bag[from], CostIn(town, from, j))
      /\ \A v \in Vertex : \A b \in ToSet(bag[v]) : \E c \in ToSet(bag'[v]) : Covers(c, b)
      /\ IsBag(bag[from]) /\ IsBag(bag[j])
  BY <1>1, BagsAfter
<1>3. /\ j \in Vertex /\ j \in arcs /\ j # from /\ from \in Vertex /\ t \in Vertex
      /\ town \in Town /\ Joined(town, from, j) /\ CostIn(town, from, j) \in Label
      /\ open' = IF Opens(bag'[j] # bag[j], j) THEN Append(open, j) ELSE open
      /\ arcs' = arcs \ {j} /\ from' = from /\ town' = town /\ s' = s /\ t' = t
      /\ open \in Seq(Vertex)
  BY <1>1 DEF Arrives, query, IInv, Asked, Opened
<1>4. \A v \in Vertex : IsBag(bag[v]) /\ IsBag(bag'[v])
  BY <1>2 DEF IInv, Bags
<1>5. \A v \in Vertex : InEllipse(v)' <=> InEllipse(v)
  BY <1>3 DEF InEllipse
<1>6. /\ \A x \in ToSet(open) : x \in ToSet(open')
      /\ Opens(bag'[j] # bag[j], j) => j \in ToSet(open')
  <2>1. CASE Opens(bag'[j] # bag[j], j)
    <3>1. PICK l \in Nat : l = Len(open)
      BY <1>3, LenProperties
    <3>2. /\ open' \in Seq(Vertex) /\ Len(open') = l + 1
          /\ \A i \in 1 .. l : open'[i] = open[i]
          /\ open'[l + 1] = j
      BY <1>3, <2>1, <3>1, AppendProperties
    <3>3. l + 1 \in 1 .. l + 1 /\ \A i \in 1 .. l : i \in 1 .. l + 1
      BY <3>1
    <3>4. \A x : x \in ToSet(open) <=> \E i \in 1 .. l : x = open[i]
      BY <1>3, <3>1, Members
    <3>5. \A x : x \in ToSet(open') <=> \E i \in 1 .. l + 1 : x = open'[i]
      BY <3>2, Members
    <3>6. QED
      BY <3>2, <3>3, <3>4, <3>5
  <2>2. CASE ~ Opens(bag'[j] # bag[j], j)
    BY <1>3, <2>2
  <2>3. QED
    BY <2>1, <2>2
<1>7. ASSUME NEW v \in Vertex, NEW z \in Label, NEW b \in ToSet(bag[v]), Covers(b, z)
      PROVE  \E c \in ToSet(bag'[v]) : Covers(c, z)
  <2>1. PICK c \in ToSet(bag'[v]) : Covers(c, b)
    BY <1>2
  <2>2. b \in Label /\ c \in Label
    BY <1>4, BagLabels
  <2>3. Covers(c, z)
    BY <1>7, <2>1, <2>2, CoversOn
  <2>4. QED
    BY <2>3
<1>8. ASSUME NEW v \in Vertex, NEW a \in ToSet(bag[v]), a \in ToSet(bag'[v])
      PROVE  \/ v = t
             \/ v # s /\ ~ InEllipse(v)
             \/ v \in ToSet(open')
             \/ \E c \in ToSet(bag'[t]) : Covers(c, a)
             \/ \A k \in Vertex : Joined(town, v, k) =>
                  \/ v = from /\ k \in arcs'
                  \/ \E b \in ToSet(bag'[k]) : Covers(b, Inflated(Plus(a, CostIn(town, v, k))))
  <2>1. a \in Label
    BY <1>4, BagLabels
  <2>2. CASE v = t \/ (v # s /\ ~ InEllipse(v)) \/ v \in ToSet(open)
    BY <1>6, <2>2
  <2>3. CASE \E c \in ToSet(bag[t]) : Covers(c, a)
    BY <1>3, <1>7, <2>1, <2>3
  <2>4. CASE \A k \in Vertex : Joined(town, v, k) =>
               \/ v = from /\ k \in arcs
               \/ \E b \in ToSet(bag[k]) : Covers(b, Inflated(Plus(a, CostIn(town, v, k))))
    <3>1. ASSUME NEW k \in Vertex, Joined(town, v, k), ~ (v = from /\ k \in arcs')
          PROVE  \E b \in ToSet(bag'[k]) : Covers(b, Inflated(Plus(a, CostIn(town, v, k))))
      <4>1. PICK z \in Label : z = Inflated(Plus(a, CostIn(town, v, k)))
        BY <1>3, <2>1, <3>1, StreetCost, PlusLabel, InflatedLabel
      <4>2. CASE \E b \in ToSet(bag[k]) : Covers(b, z)
        BY <1>7, <4>1, <4>2
      <4>3. CASE v = from /\ k \in arcs
        <5>1. k = j
          BY <1>3, <3>1, <4>3
        <5>2. PICK w \in Label : w = CostIn(town, from, j)
          BY <1>3
        <5>3. \E b \in ToSet(Merge(bag[j], bag[from], w)) : Covers(b, Inflated(Plus(a, w)))
          BY <1>2, <4>3, MergeCovers
        <5>4. QED
          BY <1>2, <4>3, <5>1, <5>2, <5>3
      <4>4. QED
        BY <2>4, <3>1, <4>1, <4>2, <4>3
    <3>2. QED
      BY <3>1
  <2>5. QED
    BY <2>2, <2>3, <2>4 DEF Propagated
<1>9. ASSUME NEW a \in ToSet(bag'[j]), a \notin ToSet(bag[j])
      PROVE  \/ j = t
             \/ j # s /\ ~ InEllipse(j)
             \/ j \in ToSet(open')
             \/ \E c \in ToSet(bag'[t]) : Covers(c, a)
  <2>1. bag'[j] # bag[j]
    BY <1>9
  <2>2. j # s
    BY <1>1, <1>9, SourceStays
  <2>3. TargetPruned(bag'[t], bag'[j]) => \E c \in ToSet(bag'[t]) : Covers(c, a)
    BY <1>3, <1>4, TargetPrunedIs
  <2>4. \/ Opens(bag'[j] # bag[j], j) \/ ~ InEllipse(j) \/ j \in ToSet(open) \/ j = t
        \/ TargetPruned(bag'[t], bag'[j])
    BY <1>3, <2>1 DEF Opens
  <2>5. QED
    BY <1>6, <2>2, <2>3, <2>4
<1>10. ASSUME NEW v \in Vertex, NEW a \in ToSet(bag'[v])
       PROVE  \/ v = t
              \/ v # s /\ ~ InEllipse(v)
              \/ v \in ToSet(open')
              \/ \E c \in ToSet(bag'[t]) : Covers(c, a)
              \/ \A k \in Vertex : Joined(town, v, k) =>
                   \/ v = from /\ k \in arcs'
                   \/ \E b \in ToSet(bag'[k]) : Covers(b, Inflated(Plus(a, CostIn(town, v, k))))
  <2>1. CASE a \in ToSet(bag[v])
    BY <1>8, <2>1
  <2>2. CASE a \notin ToSet(bag[v])
    <3>1. v = j
      BY <1>2, <2>2
    <3>2. QED
      BY <1>9, <2>2, <3>1
  <2>3. QED
    BY <2>1, <2>2
<1>11. QED
  BY <1>3, <1>5, <1>10 DEF Propagated

\* Every step keeps labels propagated.
LEMMA StepPropagated == IInv /\ Propagated /\ [Next]_vars => Propagated'
<1> SUFFICES ASSUME IInv, Propagated, [Next]_vars PROVE Propagated'
  OBVIOUS
<1>1. CASE UNCHANGED <<town, s, t, bag, open, from, arcs>>
  <2>1. \A v \in Vertex : InEllipse(v)' <=> InEllipse(v)
    BY <1>1 DEF InEllipse
  <2>2. QED
    BY <1>1, <2>1 DEF Propagated
<1>2. Next => Select \/ Extend \/ UNCHANGED <<town, s, t, bag, open, from, arcs>>
  BY DEF Next, Exhausted, StepBack, PushPath, Choose, DumpGeojson, query, searching
<1>3. UNCHANGED vars => UNCHANGED <<town, s, t, bag, open, from, arcs>>
  BY DEF vars, query, searching
<1>4. QED
  BY <1>1, <1>2, <1>3, SelectPropagated, ExtendPropagated

\* When no vertex is open, the target has a label for each route through the
\* ellipse: along the route either a label goes on that covers what the route has
\* cost by then, inflated once for each street, or the target has one already.
LEMMA RouteCovered ==
  ASSUME IInv, Propagated, arcs = {}, open = <<>>, NEW r \in Routes(t),
         \A k \in 2 .. Len(r) - 1 : InEllipse(r[k])
  PROVE  \E a \in ToSet(bag[t]) : Covers(a, Allowance(Total(r), Len(r) - 1))
<1>1. IsRoute(town, s, r) /\ r[Len(r)] = t
  BY ListedRoute
<1>2. PICK n \in Nat \ {0} : n = Len(r)
  BY <1>1 DEF IsRoute
<1>3. PICK u : Totalled(r, u)
  BY <1>1, RouteGoes, TotalUnfolds
<1>4. /\ r \in Seq(Vertex) /\ r[1] = s /\ r[n] = t
      /\ \A k \in 1 .. n : r[k] \in Vertex
      /\ \A k \in 1 .. n : \A m \in 1 .. n : r[k] = r[m] => k = m
      /\ \A k \in 1 .. n : \A m \in 1 .. n : m = k + 1 => Joined(town, r[k], r[m])
      /\ s \in Vertex /\ t \in Vertex /\ town \in Town
  <2>1. r \in Seq(Vertex) /\ DOMAIN r = 1 .. n /\ \A k \in 1 .. n : r[k] \in Vertex
    BY <1>1, <1>2, LenProperties, ElementOfSeq DEF IsRoute
  <2>2. QED
    BY <1>1, <1>2, <2>1 DEF IsRoute, IsInjective, IInv, Asked
<1>5. /\ \A k \in 1 .. n : u[k] \in Label
      /\ u[1] = <<0, 0>> /\ Total(r) = u[n]
      /\ \A k \in 1 .. n : \A m \in 1 .. n :
           m = k + 1 => u[m] = Plus(u[k], CostIn(town, r[k], r[m]))
  BY <1>2, <1>3 DEF Totalled
<1> DEFINE At(v, k) == \E a \in ToSet(bag[v]) : Covers(a, Allowance(u[k + 1], k))
           T == {k \in 0 .. n - 1 : At(t, k) \/ At(r[k + 1], k)}
<1>6. \A v \in Vertex : \A a \in ToSet(bag[v]) : a \in Label
  BY BagLabels DEF IInv, Bags
<1>7. 0 \in T
  <2>1. <<0, 0>> \in ToSet(bag[s]) /\ 1 \in 1 .. n
    BY <1>2 DEF IInv, Source
  <2>2. Allowance(u[1], 0) = u[1] /\ Covers(u[1], u[1])
    BY SMTT(20), <1>5, <2>1, AllowanceSteps, CoversItself
  <2>3. At(r[0 + 1], 0)
    BY SMTT(20), <1>4, <1>5, <2>1, <2>2
  <2>4. QED
    BY <1>2, <2>3
<1>8. ASSUME NEW k \in 0 .. (n - 1) - 1, k \in T PROVE k + 1 \in T
  <2>1. PICK i \in 1 .. n : i = k + 1
    BY <1>2
  <2>2. PICK m \in 1 .. n : m = i + 1
    BY <1>2, <2>1
  <2>3. PICK w \in Label : w = CostIn(town, r[i], r[m])
    BY <1>4, <2>2, StreetCost
  <2>4. PICK x \in Label : x = u[i]
    BY <1>5
  <2>5. u[m] = Plus(x, w) /\ Plus(x, w) \in Label
    BY <1>5, <2>2, <2>3, <2>4, PlusLabel
  <2>6. PICK y \in Label : y = Allowance(x, k)
    BY AllowanceSteps
  <2>7. PICK z \in Label : z = Allowance(Plus(x, w), k)
    BY <2>5, AllowanceSteps
  <2>8. Allowance(u[m], i) = Inflated(z) /\ Inflated(z) \in Label
    BY <2>1, <2>5, <2>7, AllowanceSteps, InflatedLabel
  <2>9. Covers(Plus(y, w), z) /\ Plus(y, w) \in Label
    BY <2>6, <2>7, AllowanceSum, PlusLabel
  <2>10. Covers(y, Inflated(z))
    <3>1. Covers(y, Plus(y, w)) /\ Covers(z, Inflated(z))
      BY PlusLabel, InflatedLabel
    <3>2. Covers(y, z)
      BY <2>9, <3>1, CoversOn
    <3>3. QED
      BY <2>8, <3>1, <3>2, CoversOn
  <2>11. ASSUME NEW v \in Vertex, NEW a \in ToSet(bag[v]), Covers(a, y)
         PROVE  \E b \in ToSet(bag[v]) : Covers(b, Inflated(z))
    <3>1. Covers(a, Inflated(z))
      BY <1>6, <2>8, <2>10, <2>11, CoversOn
    <3>2. QED
      BY <3>1
  <2>12. CASE \E c \in ToSet(bag[t]) : Covers(c, y)
    <3>1. \E b \in ToSet(bag[t]) : Covers(b, Inflated(z))
      BY <1>4, <2>11, <2>12
    <3>2. QED
      BY <1>2, <2>1, <2>2, <2>8, <3>1
  <2>13. CASE \E a \in ToSet(bag[r[i]]) : Covers(a, y)
    <3>1. PICK a \in ToSet(bag[r[i]]) : Covers(a, y)
      BY <2>13
    <3>2. r[i] \in Vertex /\ r[m] \in Vertex /\ r[i] # t /\ Joined(town, r[i], r[m])
      BY <1>2, <1>4, <2>2
    <3>3. r[i] = s \/ InEllipse(r[i])
      <4>1. i = 1 \/ i \in 2 .. Len(r) - 1
        BY <1>2, <2>2
      <4>2. QED
        BY <1>4, <4>1
    <3>4. \A v : v \notin ToSet(open)
      BY DEF ToSet
    <3>5. \/ \E c \in ToSet(bag[t]) : Covers(c, a)
          \/ \E b \in ToSet(bag[r[m]]) : Covers(b, Inflated(Plus(a, CostIn(town, r[i], r[m]))))
      BY <3>1, <3>2, <3>3, <3>4 DEF Propagated
    <3>6. a \in Label
      BY <1>6, <3>1, <3>2
    <3>7. CASE \E c \in ToSet(bag[t]) : Covers(c, a)
      <4>1. PICK c \in ToSet(bag[t]) : Covers(c, a)
        BY <3>7
      <4>2. Covers(c, y)
        BY <1>4, <1>6, <3>1, <3>6, <4>1, CoversOn
      <4>3. QED
        BY <2>12, <4>2
    <3>8. CASE \E b \in ToSet(bag[r[m]]) : Covers(b, Inflated(Plus(a, w)))
      <4>1. PICK b \in ToSet(bag[r[m]]) : Covers(b, Inflated(Plus(a, w)))
        BY <3>8
      <4>2. Covers(Plus(a, w), Plus(y, w)) /\ Plus(a, w) \in Label
        BY <3>1, <3>6, PlusKeeps, PlusLabel
      <4>3. Covers(Plus(a, w), z)
        BY <2>9, <4>2, CoversOn
      <4>4. Covers(Inflated(Plus(a, w)), Inflated(z)) /\ Inflated(Plus(a, w)) \in Label
        BY <4>2, <4>3, InflatedKeeps, InflatedLabel
      <4>5. Covers(b, Inflated(z))
        BY <1>6, <2>8, <3>2, <4>1, <4>4, CoversOn
      <4>6. \E c \in ToSet(bag[r[m]]) : Covers(c, Allowance(u[m], i))
        BY <2>8, <4>5
      <4>7. QED
        BY <1>2, <2>1, <2>2, <4>6
    <3>9. QED
      BY <2>3, <3>5, <3>7, <3>8
  <2>14. QED
    BY <1>8, <2>1, <2>4, <2>6, <2>12, <2>13
<1> HIDE DEF T
<1>9. n - 1 \in Nat /\ n - 1 \in 0 .. n - 1 /\ (n - 1) + 1 = n
  BY <1>2
<1>10. n - 1 \in T
  BY <1>7, <1>8, <1>9, InductionUpTo
<1>11. At(t, n - 1)
  <2>1. At(t, n - 1) \/ At(r[(n - 1) + 1], n - 1)
    BY <1>10 DEF T
  <2>2. r[(n - 1) + 1] = t
    BY <1>4, <1>9
  <2>3. QED
    BY <2>1, <2>2
<1>12. QED
  BY <1>2, <1>5, <1>9, <1>11

\* Neither the labels pruned by epsilon, nor those erased, nor the vertices left
\* closed because the target covered them, lose more than the allowance.
THEOREM TargetIsCovered == Spec => []TargetCovered
<1>1. IInv /\ Propagated => TargetCovered
  <2> SUFFICES ASSUME IInv, Propagated, arcs = {}, open = <<>>, NEW r \in Routes(t),
                      \A k \in 2 .. Len(r) - 1 : InEllipse(r[k])
               PROVE  \E a \in ToSet(bag[t]) : Covers(a, Allowance(Total(r), Len(r) - 1))
    BY DEF TargetCovered
  <2>1. QED
    BY RouteCovered
<1>2. QED
  BY <1>1, InitInv, StepInv, InitPropagated, StepPropagated, PTL DEF Spec

-----------------------------------------------------------------------------
(* The routes written.                                                      *)

\* The arcs p lead from v to y along the walk r.  Its beginnings cost, from the
\* label b on, what c says, and a in the end.
Reads(g, y, p, r, c, v, b, a) ==
  /\ Goes(g, r) /\ r[1] = v /\ r[Len(r)] = y
  /\ p \in Seq(Vertex \X Vertex) /\ Len(r) = Len(p) + 1
  /\ \A k \in 1 .. Len(p) : \A m \in 1 .. Len(r) : m = k + 1 => p[k] = <<r[k], r[m]>>
  /\ c \in Seq(Label) /\ Len(c) = Len(r) /\ c[1] = b /\ c[Len(r)] = a
  /\ \A k \in 1 .. Len(r) : \A m \in 1 .. Len(r) :
       m = k + 1 => c[m] = Plus(c[k], CostIn(g, r[k], r[m]))

ReadBack(g, y, p, v, b, a) == \E r, c : Reads(g, y, p, r, c, v, b, a)

\* What is left of the label being read is a label of the vertex come to.
Retraced ==
  pc = "read" =>
    /\ label \in ToSet(bag[at])
    /\ ReadBack(town, t, path, at, label, bag[t][Len(pareto) + 1])

\* The route of a label found is one from the source, which costs the label.
Found(g, x, y, answer) == ReadBack(g, y, answer.path, x, <<0, 0>>, answer.weight)

\* So far, each label of the target with its route, in the order of the bag.
Gathered ==
  pc \in {"search", "read", "choose"} =>
    /\ pareto \in Seq(Answer)
    /\ pc = "choose" => Len(pareto) = Len(bag[t])
    /\ \A k \in 1 .. Len(pareto) :
         pareto[k].weight = bag[t][k] /\ Found(town, s, t, pareto[k])

\* Some of the labels B are far apart, but perhaps the first and the last.
Apiece(S, B) ==
  /\ S \in Seq(Answer)
  /\ \A k \in 1 .. Len(S) : S[k].weight \in ToSet(B)
  /\ Len(B) > 0 => Len(S) > 0 /\ S[1].weight = B[1] /\ S[Len(S)].weight = B[Len(B)]
  /\ \A k, m \in 1 .. Len(S) : k < m =>
       /\ S[k].weight[1] < S[m].weight[1]
       /\ k # 1 \/ m # Len(S) => Far(S[k].weight, S[m].weight, B[1], B[Len(B)])

Dumped ==
  pc \in {"dump", "done"} =>
    /\ Apiece(pareto, bag[t])
    /\ \A k \in 1 .. Len(pareto) : Found(town, s, t, pareto[k])
    /\ pc = "done" =>
         geojson = {[stroke |-> n % 9, coordinates |-> Line(pareto[n].path)] : n \in DOMAIN pareto}

Answered == Retraced /\ Gathered /\ Dumped

\* The sequences chosen from the beginnings of what there is to choose from.
ChosenBy(all, f) ==
  LET n == Len(all) - 1
      far(a, b) == Far(a.weight, b.weight, all[1].weight, all[Len(all)].weight)
  IN  /\ f \in [1 .. n -> Seq(Answer)]
      /\ f[1] = <<all[1]>>
      /\ \A k \in 1 .. n : \A m \in 1 .. n : m = k + 1 =>
           \/ f[m] = f[k]
           \/ f[m] = Append(f[k], all[m]) /\ far(f[k][Len(f[k])], all[m]) /\ far(all[m], all[Len(all)])
      /\ Chosen(all) = Append(f[n], all[Len(all)])

\* The recursion over the labels to choose from defines a function.
LEMMA ChosenUnfolds ==
  ASSUME NEW all \in Seq(Answer), Len(all) > 1
  PROVE  \E f : ChosenBy(all, f)
<1>1. PICK n \in Nat \ {0} : n = Len(all) - 1
  BY LenProperties
<1>2. \A k \in 1 .. n + 1 : all[k] \in Answer
  BY <1>1, ElementOfSeq
<1>3. PICK first \in Answer : first = all[1]
  BY <1>1, <1>2
<1>4. PICK last \in Answer : last = all[n + 1]
  BY <1>1, <1>2
<1>5. PICK one \in Seq(Answer) : one = <<first>>
  <2>1. \A S : \A x \in S : <<x>> \in Seq(S)
    OBVIOUS
  <2>2. <<first>> \in Seq(Answer)
    BY <2>1
  <2>3. QED
    BY <2>2, Zenon
<1> DEFINE far(a, b) == Far(a.weight, b.weight, first.weight, last.weight)
           next(u, k) == IF k = 1 THEN one
                         ELSE IF far(Last(u), all[k]) /\ far(all[k], last) THEN Append(u, all[k]) ELSE u
           Unfolds(f) == f = [k \in 1 .. n |-> next(f[k - 1], k)]
           chosen == CHOOSE f : Unfolds(f)
           step == [p \in Seq(Answer) \X (1 .. n) |-> next(p[1], p[2])]
<1>6. ASSUME NEW u \in Seq(Answer), NEW k \in 1 .. n PROVE next(u, k) \in Seq(Answer)
  <2>1. all[k] \in Answer
    BY <1>2
  <2>2. Append(u, all[k]) \in Seq(Answer)
    BY <2>1, AppendProperties
  <2>3. QED
    BY <1>5, <2>2
<1>7. Chosen(all) = Append(chosen[n], last)
  <2>1. ~ (Len(all) <= 1) /\ Len(all) - 1 = n /\ Len(all) = n + 1
    BY <1>1, LenProperties
  <2>2. QED
    BY <1>3, <1>4, <1>5, <2>1 DEF Chosen
<1>8. \E f : Unfolds(f)
  <2>1. Steps(step, Seq(Answer), n)
    <3>1. \A p \in Seq(Answer) \X (1 .. n) : next(p[1], p[2]) \in Seq(Answer)
      <4> HIDE DEF next
      <4>1. QED
        BY <1>6
    <3> HIDE DEF next
    <3>2. QED
      BY <3>1 DEF Steps
  <2>2. PICK f : Iterates(f, one, step, Seq(Answer), n)
    <3> HIDE DEF step
    <3>1. QED
      BY <1>5, <2>1, Iteration
  <2>3. ASSUME NEW k \in 1 .. n PROVE f[k] = next(f[k - 1], k)
    <3>1. <<f[k - 1], k>> \in Seq(Answer) \X (1 .. n)
      BY <2>2 DEF Iterates
    <3>2. step[<<f[k - 1], k>>] = next(f[k - 1], k)
      <4> HIDE DEF next
      <4>1. QED
        BY <3>1
    <3>3. QED
      BY <2>2, <3>2 DEF Iterates
  <2> DEFINE g == [k \in 1 .. n |-> f[k]]
  <2>4. ASSUME NEW k \in 1 .. n PROVE g[k] = next(g[k - 1], k)
    <3>1. CASE k = 1
      BY <2>3, <3>1
    <3>2. CASE k # 1
      <4>1. k - 1 \in 1 .. n
        BY <3>2
      <4>2. g[k - 1] = f[k - 1] /\ g[k] = f[k]
        BY <4>1
      <4> HIDE DEF next, g
      <4>3. QED
        BY <2>3, <4>2
    <3>3. QED
      BY <3>1, <3>2
  <2>5. g = [k \in 1 .. n |-> g[k]]
    OBVIOUS
  <2> HIDE DEF next, g
  <2>6. g = [k \in 1 .. n |-> next(g[k - 1], k)]
    BY <2>4, <2>5
  <2>7. QED
    BY <2>6
<1>9. Unfolds(chosen)
  BY <1>8
<1> HIDE DEF chosen, step
<1>10. \A k \in 1 .. n : chosen[k] = next(chosen[k - 1], k)
  <2> HIDE DEF next
  <2>1. QED
    BY <1>9
<1>11. chosen = [k \in 1 .. n |-> chosen[k]]
  <2> HIDE DEF next
  <2>1. QED
    BY <1>9, <1>10
<1>12. 1 \in 1 .. n /\ chosen[1] = one
  BY <1>1, <1>10
<1>13. \A k \in 1 .. n : chosen[k] \in Seq(Answer)
  <2> DEFINE T == {k \in 0 .. n - 1 : chosen[k + 1] \in Seq(Answer)}
  <2>1. 0 \in T
    BY <1>1, <1>12
  <2>2. ASSUME NEW k \in 0 .. (n - 1) - 1, k \in T PROVE k + 1 \in T
    <3>1. PICK i \in 1 .. n : i = k + 1
      BY <1>1
    <3>2. PICK m \in 1 .. n : m = i + 1 /\ m - 1 = i
      BY <1>1, <3>1
    <3>3. chosen[i] \in Seq(Answer)
      BY <2>2, <3>1
    <3>4. chosen[m] = next(chosen[i], m)
      <4> HIDE DEF next
      <4>1. QED
        BY <1>10, <3>2
    <3>5. chosen[m] \in Seq(Answer)
      <4> HIDE DEF next
      <4>1. QED
        BY <1>6, <3>3, <3>4
    <3>6. (k + 1) + 1 = m /\ k + 1 \in 0 .. n - 1
      BY <1>1, <3>1, <3>2
    <3>7. QED
      BY <3>5, <3>6
  <2> HIDE DEF T
  <2>3. n - 1 \in Nat
    BY <1>1
  <2>4. \A k \in 0 .. n - 1 : k \in T
    BY <2>1, <2>2, <2>3, InductionUpTo
  <2>5. ASSUME NEW k \in 1 .. n PROVE chosen[k] \in Seq(Answer)
    <3>1. k - 1 \in 0 .. n - 1 /\ (k - 1) + 1 = k
      BY <1>1
    <3>2. QED
      BY <2>4, <3>1 DEF T
  <2>6. QED
    BY <2>5
<1>14. chosen \in [1 .. n -> Seq(Answer)]
  BY <1>11, <1>13
<1>15. ASSUME NEW k \in 1 .. n, NEW m \in 1 .. n, m = k + 1
       PROVE  \/ chosen[m] = chosen[k]
              \/ /\ chosen[m] = Append(chosen[k], all[m])
                 /\ far(chosen[k][Len(chosen[k])], all[m]) /\ far(all[m], last)
  <2>1. m # 1 /\ m - 1 = k
    BY <1>15
  <2>2. chosen[m] = next(chosen[k], m)
    <3> HIDE DEF next
    <3>1. QED
      BY <1>10, <2>1
  <2>3. Last(chosen[k]) = chosen[k][Len(chosen[k])]
    BY DEF Last
  <2> HIDE DEF far
  <2>4. QED
    BY <2>1, <2>2, <2>3
<1>16. Len(all) = n + 1
  BY <1>1, LenProperties
<1>17. ChosenBy(all, chosen)
  BY <1>1, <1>3, <1>4, <1>5, <1>7, <1>12, <1>14, <1>15, <1>16 DEF ChosenBy
<1>18. QED
  BY <1>17

\* Far apart is shorter and safer, and adds up.
LEMMA FarAdds ==
  ASSUME NEW a \in Label, NEW b \in Label, NEW first \in Label, NEW last \in Label,
         first[1] <= last[1], last[2] <= first[2], Far(a, b, first, last)
  PROVE  /\ a[1] < b[1] /\ b[2] < a[2]
         /\ \A x \in Label : x[1] <= a[1] /\ a[2] <= x[2] => Far(x, b, first, last)
<1>1. \A x \in Label : x[1] \in Nat /\ x[2] \in Nat
  BY DEF Label
<1>2. QED
  BY <1>1 DEF Far, Apart

\* Of labels in their order, those chosen are far apart, each from each, but for
\* the first and the last.
LEMMA ChosenApiece ==
  ASSUME NEW B, IsBag(B), NEW all \in Seq(Answer), Len(all) = Len(B),
         \A k \in 1 .. Len(all) : all[k].weight = B[k]
  PROVE  /\ Apiece(Chosen(all), B)
         /\ \A k \in 1 .. Len(Chosen(all)) : \E m \in 1 .. Len(all) : Chosen(all)[k] = all[m]
<1>1. /\ Len(B) \in Nat /\ \A n \in 1 .. Len(B) : B[n] \in Label /\ B[n][1] \in Nat /\ B[n][2] \in Nat
      /\ \A m, n \in 1 .. Len(B) : m < n => B[m][1] < B[n][1] /\ B[n][2] < B[m][2]
  BY BagParts
<1>2. \A n \in 1 .. Len(B) : B[n] \in ToSet(B)
  BY Members DEF IsBag
<1>3. CASE Len(B) <= 1
  <2>1. Chosen(all) = all
    BY <1>3 DEF Chosen
  <2>2. \A k, m \in 1 .. Len(all) : ~ (k < m)
    BY <1>1, <1>3
  <2>3. Len(B) > 0 => Len(B) = 1 /\ 1 \in 1 .. Len(all)
    BY <1>1, <1>3
  <2>4. QED
    BY <1>2, <2>1, <2>2, <2>3 DEF Apiece
<1>4. CASE Len(B) > 1
  <2>1. PICK n \in Nat \ {0} : n = Len(B) - 1
    <3>1. Len(B) \in Nat
      BY <1>1
    <3>2. QED
      BY <1>4, <3>1
  <2>2. PICK l \in 1 .. n + 1 : l = n + 1
    BY <2>1
  <2>3. PICK f : ChosenBy(all, f)
    BY <1>4, ChosenUnfolds
  <2>4. PICK first \in Label : first = B[1]
    BY <1>1, <2>1
  <2>5. PICK last \in Label : last = B[l]
    BY <1>1, <2>1, <2>2
  <2>6. Len(all) = l /\ Len(B) = l /\ Len(all) - 1 = n /\ l \in Nat
    BY <1>1, <2>1, <2>2
  <2>7. all[1].weight = first /\ all[l].weight = last
    BY <2>1, <2>2, <2>4, <2>5, <2>6
  <2>8. /\ \A k \in 1 .. n : f[k] \in Seq(Answer)
        /\ f[1] = <<all[1]>> /\ Chosen(all) = Append(f[n], all[l])
        /\ \A k \in 1 .. n : \A m \in 1 .. n : m = k + 1 =>
             \/ f[m] = f[k]
             \/ /\ f[m] = Append(f[k], all[m])
                /\ Far(f[k][Len(f[k])].weight, all[m].weight, first, last)
                /\ Far(all[m].weight, last, first, last)
    BY <2>3, <2>6, <2>7 DEF ChosenBy
  <2>9. first[1] < last[1] /\ last[2] < first[2] /\ first[1] \in Nat /\ last[1] \in Nat
        /\ first[2] \in Nat /\ last[2] \in Nat
    BY <1>1, <2>1, <2>2, <2>4, <2>5, <2>6
  <2> DEFINE Right(S) ==
               /\ S \in Seq(Answer) /\ Len(S) \in Nat \ {0} /\ S[1] = all[1]
               /\ \A k \in 1 .. Len(S) : S[k].weight \in Label /\ \E m \in 1 .. l : S[k] = all[m]
               /\ \A k \in 1 .. Len(S) : \A m \in 1 .. Len(S) :
                    k < m => Far(S[k].weight, S[m].weight, first, last)
               /\ \A k \in 1 .. Len(S) : k # 1 => Far(S[k].weight, last, first, last)
             T == {k \in 0 .. n - 1 : Right(f[k + 1])}
  <2>10. \A m \in 1 .. l : all[m] \in Answer /\ all[m].weight \in Label /\ all[m].weight = B[m]
    BY <1>1, <2>6, ElementOfSeq
  <2>11. 0 \in T
    <3>1. PICK a \in Answer : a = all[1]
      BY <2>2, <2>10
    <3>2. f[1] = <<a>> /\ 1 \in 1 .. n /\ 1 \in 1 .. l
      BY <2>1, <2>2, <2>8, <3>1
    <3>3. f[1] \in Seq(Answer) /\ Len(f[1]) = 1 /\ f[1][1] = a
      BY <2>8, <3>2
    <3>4. \A k \in 1 .. Len(f[1]) : k = 1
      BY <3>3
    <3>5. \A k \in 1 .. Len(f[1]) : \A m \in 1 .. Len(f[1]) : ~ (k < m)
      BY <3>3
    <3>6. Right(f[1])
      BY <2>10, <3>1, <3>2, <3>3, <3>4, <3>5
    <3> HIDE DEF Right
    <3>7. QED
      BY <2>1, <3>6
  <2>12. ASSUME NEW S, Right(S), NEW m \in 1 .. l,
                Far(S[Len(S)].weight, all[m].weight, first, last),
                Far(all[m].weight, last, first, last)
         PROVE  Right(Append(S, all[m]))
    <3>1. PICK D : D = Append(S, all[m])
      OBVIOUS
    <3>2. PICK j \in Nat \ {0} : j = Len(S)
      BY <2>12
    <3>3. /\ D \in Seq(Answer) /\ Len(D) = j + 1 /\ D[j + 1] = all[m]
          /\ \A k \in 1 .. j : D[k] = S[k]
      BY <2>10, <2>12, <3>1, <3>2, AppendProperties
    <3>4. \A k \in 1 .. j + 1 : k \in 1 .. j \/ k = j + 1
      BY <3>2
    <3>5. ASSUME NEW k \in 1 .. j + 1
          PROVE  D[k].weight \in Label /\ \E i \in 1 .. l : D[k] = all[i]
      <4>1. CASE k \in 1 .. j
        <5>1. D[k] = S[k] /\ k \in 1 .. Len(S)
          BY <3>2, <3>3, <4>1
        <5>2. QED
          BY <2>12, <5>1
      <4>2. CASE k = j + 1
        BY <2>10, <3>3, <4>2
      <4>3. QED
        BY <3>4, <4>1, <4>2
    <3>6. ASSUME NEW k \in 1 .. j PROVE Far(S[k].weight, all[m].weight, first, last)
      <4>1. CASE k = j
        BY <2>12, <3>2, <4>1
      <4>2. CASE k # j
        <5>1. k < j /\ j \in 1 .. Len(S) /\ k \in 1 .. Len(S)
          BY <3>2, <4>2
        <5>2. Far(S[k].weight, S[j].weight, first, last) /\ S[k].weight \in Label /\ S[j].weight \in Label
          BY <2>12, <5>1
        <5>3. PICK a \in Label : a = S[k].weight
          BY <5>2
        <5>4. PICK b \in Label : b = S[j].weight
          BY <5>2
        <5>5. PICK c \in Label : c = all[m].weight
          BY <2>10
        <5>6. Far(a, b, first, last) /\ Far(b, c, first, last)
          BY <2>12, <3>2, <5>2, <5>3, <5>4, <5>5
        <5> HIDE DEF Right
        <5>7. first[1] <= last[1] /\ last[2] <= first[2]
          BY <2>9
        <5>8. a[1] < b[1] /\ b[2] < a[2]
          BY <5>6, <5>7, FarAdds
        <5>9. a[1] <= b[1] /\ b[2] <= a[2]
          BY <5>8 DEF Label
        <5>10. Far(a, c, first, last)
          BY <5>6, <5>7, <5>9, FarAdds
        <5>11. QED
          BY <5>3, <5>5, <5>10
      <4>3. QED
        BY <4>1, <4>2
    <3>7. ASSUME NEW k \in 1 .. j + 1, NEW i \in 1 .. j + 1, k < i
          PROVE  Far(D[k].weight, D[i].weight, first, last)
      <4>1. k \in 1 .. j
        BY <3>7
      <4>2. CASE i = j + 1
        BY <3>3, <3>6, <4>1, <4>2
      <4>3. CASE i \in 1 .. j
        BY <2>12, <3>2, <3>3, <3>7, <4>1, <4>3
      <4>4. QED
        BY <3>4, <4>2, <4>3
    <3>8. ASSUME NEW k \in 1 .. j + 1, k # 1 PROVE Far(D[k].weight, last, first, last)
      BY <2>12, <3>2, <3>3, <3>4, <3>8
    <3>9. D[1] = all[1]
      BY <2>12, <3>2, <3>3
    <3>10. Right(D)
      BY <3>2, <3>3, <3>5, <3>7, <3>8, <3>9
    <3> HIDE DEF Right
    <3>11. QED
      BY <3>1, <3>10
  <2>13. ASSUME NEW k \in 0 .. (n - 1) - 1, k \in T PROVE k + 1 \in T
    <3>1. PICK i \in 1 .. n : i = k + 1
      BY <2>1
    <3>2. PICK m \in 1 .. n : m = i + 1
      BY <2>1, <3>1
    <3> HIDE DEF Right
    <3>3. Right(f[i])
      BY <2>13, <3>1
    <3>4. m \in 1 .. l
      BY <2>2, <3>2
    <3>5. Right(f[m])
      BY <2>8, <2>12, <3>2, <3>3, <3>4
    <3>6. (k + 1) + 1 = m /\ k + 1 \in 0 .. n - 1
      BY <2>1, <3>1, <3>2
    <3>7. QED
      BY <3>5, <3>6
  <2> HIDE DEF T
  <2>14. n - 1 \in Nat /\ n - 1 \in 0 .. n - 1 /\ (n - 1) + 1 = n
    BY <2>1
  <2>15. n - 1 \in T
    BY <2>11, <2>13, <2>14, InductionUpTo
  <2>16. Right(f[n])
    <3> HIDE DEF Right
    <3>1. QED
      BY <2>14, <2>15 DEF T
  <2>17. PICK S : S = f[n]
    OBVIOUS
  <2>18. PICK j \in Nat \ {0} : j = Len(S)
    BY <2>16, <2>17
  <2>19. PICK D : D = Chosen(all)
    OBVIOUS
  <2>20. /\ D \in Seq(Answer) /\ Len(D) = j + 1 /\ D[j + 1] = all[l]
         /\ \A k \in 1 .. j : D[k] = S[k]
    BY <2>2, <2>8, <2>10, <2>16, <2>17, <2>18, <2>19, AppendProperties
  <2>21. \A k \in 1 .. j + 1 : k \in 1 .. j \/ k = j + 1
    BY <2>18
  <2>22. \A k \in 1 .. j + 1 : \E i \in 1 .. l : D[k] = all[i]
    BY <2>2, <2>16, <2>17, <2>18, <2>20, <2>21
  <2>23. \A k \in 1 .. j + 1 : D[k].weight \in ToSet(B) /\ D[k].weight \in Label
    BY <1>2, <2>6, <2>10, <2>22
  <2>24. D[1] = all[1]
    BY <2>16, <2>17, <2>18, <2>20
  <2>25. ASSUME NEW k \in 1 .. j + 1, NEW i \in 1 .. j + 1, k < i
         PROVE  /\ D[k].weight[1] < D[i].weight[1]
                /\ k # 1 \/ i # j + 1 => Far(D[k].weight, D[i].weight, first, last)
    <3>1. k \in 1 .. j
      BY <2>25
    <3>2. CASE i = j + 1 /\ k = 1
      BY <2>7, <2>9, <2>20, <2>24, <3>2
    <3>3. CASE i = j + 1 /\ k # 1
      <4>1. Far(D[k].weight, D[i].weight, first, last)
        BY <2>7, <2>16, <2>17, <2>18, <2>20, <3>1, <3>3
      <4>2. QED
        BY <2>9, <2>23, <4>1, FarAdds
    <3>4. CASE i \in 1 .. j
      <4>1. Far(D[k].weight, D[i].weight, first, last)
        BY <2>16, <2>17, <2>18, <2>20, <2>25, <3>1, <3>4
      <4>2. QED
        BY <2>9, <2>23, <4>1, FarAdds
    <3>5. QED
      BY <2>21, <3>2, <3>3, <3>4
  <2> HIDE DEF Right
  <2>26. Apiece(D, B)
    BY <2>4, <2>5, <2>6, <2>7, <2>18, <2>20, <2>23, <2>24, <2>25 DEF Apiece
  <2>27. QED
    BY <2>6, <2>19, <2>20, <2>22, <2>26
<1>5. QED
  BY <1>1, <1>3, <1>4

\* Nothing read back: the route has come to where it leads.
LEMMA ReadNothing ==
  ASSUME NEW g, NEW y \in Vertex, NEW a \in Label
  PROVE  ReadBack(g, y, <<>>, y, a, a)
<1>1. \A S : \A x \in S : <<x>> \in Seq(S) /\ Len(<<x>>) = 1 /\ <<x>>[1] = x
  OBVIOUS
<1>2. PICK r \in Seq(Vertex) : r = <<y>> /\ Len(r) = 1 /\ r[1] = y
  BY <1>1, Zenon
<1>3. PICK c \in Seq(Label) : c = <<a>> /\ Len(c) = 1 /\ c[1] = a
  BY <1>1, Zenon
<1>4. <<>> \in Seq(Vertex \X Vertex) /\ Len(<<>>) = 0
  OBVIOUS
<1>5. Goes(g, r)
  BY <1>2 DEF Goes
<1>6. Reads(g, y, <<>>, r, c, y, a, a)
  BY <1>2, <1>3, <1>4, <1>5 DEF Reads
<1>7. QED
  BY <1>6 DEF ReadBack

\* A sequence put behind one element.
LEMMA PutBefore ==
  ASSUME NEW V, NEW x \in V, NEW q \in Seq(V)
  PROVE  /\ <<x>> \o q \in Seq(V) /\ Len(<<x>> \o q) = Len(q) + 1 /\ (<<x>> \o q)[1] = x
         /\ \A k \in 1 .. Len(q) : \A m \in 1 .. Len(q) + 1 : m = k + 1 => (<<x>> \o q)[m] = q[k]
<1>1. \A S : \A z \in S : <<z>> \in Seq(S) /\ Len(<<z>>) = 1 /\ <<z>>[1] = z
  OBVIOUS
<1>2. PICK one \in Seq(V) : one = <<x>> /\ Len(one) = 1 /\ one[1] = x
  BY <1>1, Zenon
<1>3. /\ one \o q \in Seq(V) /\ Len(one \o q) = Len(one) + Len(q)
      /\ \A i \in 1 .. Len(one) + Len(q) :
           (one \o q)[i] = IF i <= Len(one) THEN one[i] ELSE q[i - Len(one)]
  BY ConcatProperties, Zenon
<1>4. PICK w \in Seq(V) : w = one \o q
  BY <1>3
<1>5. PICK l \in Nat : l = Len(q)
  BY LenProperties
<1>6. \A i \in 1 .. l + 1 : w[i] = IF i <= 1 THEN one[i] ELSE q[i - 1]
  BY <1>2, <1>3, <1>4, <1>5
<1>7. Len(w) = l + 1 /\ w[1] = x
  BY <1>2, <1>3, <1>4, <1>5, <1>6
<1>8. \A k \in 1 .. l : \A m \in 1 .. l + 1 : m = k + 1 => w[m] = q[k]
  BY <1>6
<1>9. QED
  BY <1>2, <1>4, <1>5, <1>7, <1>8

\* One arc more is read back.
LEMMA ReadOn ==
  ASSUME NEW g, NEW y, NEW p, NEW v, NEW b, NEW a, ReadBack(g, y, p, v, b, a),
         NEW u \in Vertex, v \in Vertex, Joined(g, u, v),
         NEW d \in Label, b = Plus(d, CostIn(g, u, v))
  PROVE  ReadBack(g, y, <<<<u, v>>>> \o p, u, d, a)
<1>1. PICK r, c : Reads(g, y, p, r, c, v, b, a)
  BY DEF ReadBack
<1>2. PICK n \in Nat \ {0} : n = Len(r)
  BY <1>1 DEF Reads, Goes
<1>3. PICK e \in Vertex \X Vertex : e = <<u, v>>
  OBVIOUS
<1>4. r \in Seq(Vertex) /\ c \in Seq(Label) /\ p \in Seq(Vertex \X Vertex)
  BY <1>1 DEF Reads, Goes
<1>5. /\ Len(c) = n /\ Len(p) = n - 1 /\ r[1] = v /\ r[n] = y /\ c[1] = b /\ c[n] = a
      /\ \A k \in 1 .. n : \A m \in 1 .. n : m = k + 1 => Joined(g, r[k], r[m])
      /\ \A k \in 1 .. n : \A m \in 1 .. n : m = k + 1 => c[m] = Plus(c[k], CostIn(g, r[k], r[m]))
  <2>1. Len(p) \in Nat /\ n = Len(p) + 1
    BY <1>1, <1>2, <1>4, LenProperties DEF Reads
  <2>2. QED
    BY <1>1, <1>2, <2>1 DEF Reads, Goes
<1>6. \A k \in 1 .. n - 1 : \A m \in 1 .. n : m = k + 1 => p[k] = <<r[k], r[m]>>
  BY <1>1, <1>2, <1>5 DEF Reads
<1>7. PICK R : R = <<u>> \o r
  OBVIOUS
<1>8. PICK C : C = <<d>> \o c
  OBVIOUS
<1>9. PICK P : P = <<e>> \o p
  OBVIOUS
<1>10. /\ R \in Seq(Vertex) /\ Len(R) = n + 1 /\ R[1] = u
       /\ \A k \in 1 .. n : \A m \in 1 .. n + 1 : m = k + 1 => R[m] = r[k]
  BY ONLY u \in Vertex, <1>2, <1>4, <1>7, PutBefore
<1>11. /\ C \in Seq(Label) /\ Len(C) = n + 1 /\ C[1] = d
       /\ \A k \in 1 .. n : \A m \in 1 .. n + 1 : m = k + 1 => C[m] = c[k]
  BY ONLY d \in Label, <1>4, <1>5, <1>8, PutBefore
<1>12. /\ P \in Seq(Vertex \X Vertex) /\ Len(P) = n /\ P[1] = e
       /\ \A k \in 1 .. n - 1 : \A m \in 1 .. n : m = k + 1 => P[m] = p[k]
  <2>1. /\ P \in Seq(Vertex \X Vertex) /\ Len(P) = Len(p) + 1 /\ P[1] = e
        /\ \A k \in 1 .. Len(p) : \A m \in 1 .. Len(p) + 1 : m = k + 1 => P[m] = p[k]
    BY ONLY e \in Vertex \X Vertex, <1>4, <1>9, PutBefore
  <2>2. Len(p) + 1 = n
    BY <1>2, <1>5
  <2>3. QED
    BY <1>5, <2>1, <2>2
<1>13. \A k \in 1 .. n + 1 : k = 1 \/ \E i \in 1 .. n : k = i + 1
  <2>1. \A k \in 1 .. n + 1 : k # 1 => k - 1 \in 1 .. n /\ k = (k - 1) + 1
    BY <1>2
  <2>2. QED
    BY <2>1
<1>14. ASSUME NEW k \in 1 .. n + 1, NEW m \in 1 .. n + 1, m = k + 1
       PROVE  /\ Joined(g, R[k], R[m])
              /\ C[m] = Plus(C[k], CostIn(g, R[k], R[m]))
              /\ P[k] = <<R[k], R[m]>>
  <2>1. k \in 1 .. n
    BY <1>14
  <2>2. R[m] = r[k] /\ C[m] = c[k]
    BY <1>10, <1>11, <1>14, <2>1
  <2>3. CASE k = 1
    BY <1>3, <1>5, <1>10, <1>11, <1>12, <2>2, <2>3
  <2>4. CASE k # 1
    <3>1. PICK i \in 1 .. n - 1 : k = i + 1
      <4>1. k - 1 \in 1 .. n - 1 /\ k = (k - 1) + 1
        BY <2>1, <2>4
      <4>2. QED
        BY <4>1
    <3>2. i \in 1 .. n
      BY <3>1
    <3>3. R[k] = r[i] /\ C[k] = c[i] /\ P[k] = p[i]
      BY <1>10, <1>11, <1>12, <2>1, <3>1, <3>2
    <3>4. /\ Joined(g, r[i], r[k]) /\ c[k] = Plus(c[i], CostIn(g, r[i], r[k]))
          /\ p[i] = <<r[i], r[k]>>
      BY <1>5, <1>6, <2>1, <3>1, <3>2
    <3>5. QED
      BY <2>2, <3>3, <3>4
  <2>5. QED
    BY <2>3, <2>4
<1>15. R[n + 1] = y /\ C[n + 1] = a
  <2>1. n \in 1 .. n /\ n + 1 \in 1 .. n + 1
    BY <1>2
  <2>2. QED
    BY <1>5, <1>10, <1>11, <2>1
<1>16. Goes(g, R)
  BY <1>2, <1>10, <1>14 DEF Goes
<1>17. Reads(g, y, P, R, C, u, d, a)
  <2>1. \A k \in 1 .. n : k \in 1 .. n + 1
    BY <1>2
  <2>2. QED
    BY <1>10, <1>11, <1>12, <1>14, <1>15, <1>16, <2>1 DEF Reads
<1>18. QED
  BY <1>3, <1>9, <1>17 DEF ReadBack

\* Before the search nothing has been read back.
LEMMA InitAnswered == Init => Answered
<1> SUFFICES ASSUME Init PROVE Answered
  OBVIOUS
<1>1. pc = "search" /\ pareto = <<>>
  BY DEF Init
<1>2. <<>> \in Seq(Answer) /\ Len(<<>>) = 0
  OBVIOUS
<1>3. QED
  BY <1>1, <1>2 DEF Answered, Retraced, Gathered, Dumped

\* The next label is read from the target on, if there is one.
LEMMA ReadStarts ==
  ASSUME IInv, NEW n \in 1 .. Len(bag[t])
  PROVE  bag[t][n] \in ToSet(bag[t]) /\ ReadBack(town, t, <<>>, t, bag[t][n], bag[t][n])
<1>1. bag[t] \in Seq(Label) /\ t \in Vertex
  BY DEF IInv, Asked, Bags
<1>2. bag[t][n] \in Label
  BY <1>1, ElementOfSeq
<1>3. bag[t][n] \in ToSet(bag[t])
  BY <1>1, Members
<1>4. QED
  BY <1>1, <1>2, <1>3, ReadNothing

\* Every step keeps what has been read back and chosen right.
LEMMA StepAnswered == IInv /\ Answered /\ [Next]_vars => Answered'
<1> SUFFICES ASSUME IInv, Answered, [Next]_vars PROVE Answered'
  OBVIOUS
<1>1. bag[t] \in Seq(Label) /\ Len(bag[t]) \in Nat /\ t \in Vertex /\ s \in Vertex /\ town \in Town
  BY LenProperties DEF IInv, Asked, Bags
<1>2. CASE Select \/ Extend
  <2>1. /\ pc = "search" /\ pc' = pc /\ pareto' = pareto
    BY <1>2 DEF Select, Extend
  <2>2. pareto' = <<>> /\ <<>> \in Seq(Answer) /\ Len(<<>>) = 0
    BY <2>1 DEF IInv, Collected
  <2>3. QED
    BY <2>1, <2>2 DEF Answered, Retraced, Gathered, Dumped
<1>3. CASE Exhausted
  <2>1. /\ pc = "search" /\ at' = t /\ path' = <<>>
        /\ label' = (IF 1 <= Len(bag[t]) THEN bag[t][1] ELSE label)
        /\ pc' = (IF 1 <= Len(bag[t]) THEN "read" ELSE "choose")
        /\ town' = town /\ s' = s /\ t' = t /\ bag' = bag /\ pareto' = pareto
    BY <1>3 DEF Exhausted, Read, Goal, query, searching
  <2>2. pareto' = <<>> /\ <<>> \in Seq(Answer) /\ Len(<<>>) = 0
    BY <2>1 DEF IInv, Collected
  <2>3. Retraced'
    <3> SUFFICES ASSUME pc' = "read"
                 PROVE  label' \in ToSet(bag'[at']) /\
                        ReadBack(town', t', path', at', label', bag'[t'][Len(pareto') + 1])
      BY DEF Retraced
    <3>1. 1 \in 1 .. Len(bag[t]) /\ label' = bag[t][1] /\ Len(pareto') + 1 = 1
      BY <1>1, <2>1, <2>2
    <3>2. QED
      BY <2>1, <3>1, ReadStarts
  <2>4. Gathered'
    <3>1. pc' = "choose" => Len(pareto') = Len(bag'[t'])
      BY <1>1, <2>1, <2>2
    <3>2. QED
      BY <2>2, <3>1 DEF Gathered
  <2>5. Dumped'
    BY <2>1 DEF Dumped
  <2>6. QED
    BY <2>3, <2>4, <2>5 DEF Answered
<1>4. CASE StepBack
  <2>1. PICK u : u = Min(Holders)
    OBVIOUS
  <2>2. /\ at' = u /\ label' = Minus(label, Weight(u, at)) /\ path' = <<<<u, at>>>> \o path
        /\ town' = town /\ s' = s /\ t' = t /\ bag' = bag /\ pareto' = pareto
        /\ pc = "read" /\ pc' = pc /\ Holders # {}
    BY <1>4, <2>1 DEF StepBack, query, searching
  <2>3. u \in Holders
    <3>1. Holders \in SUBSET Nat
      BY VertexAssumption DEF Holders, Neighbours
    <3>2. PICK x \in Holders : \A y \in Holders : x <= y
      BY <2>2, <3>1, LeastNatural
    <3>3. QED
      BY <2>1, <3>2 DEF Min
  <2>4. u \in Vertex /\ Joined(town, u, at) /\ label' \in ToSet(bag[u])
    BY <2>2, <2>3, NetworkOf DEF Holders
  <2>5. label' \in Label
    BY <2>4, BagLabels DEF IInv, Bags
  <2>6. at \in Vertex /\ label \in Label
    BY DEF IInv, Reading
  <2>7. PICK w \in Label : w = CostIn(town, u, at)
    BY <1>1, <2>4, StreetCost
  <2>8. label = Plus(label', w)
    <3>1. PICK x \in Nat, y \in Nat : label = <<x, y>>
      BY <2>6 DEF Label
    <3>2. PICK i \in Nat, j \in Nat : w = <<i, j>>
      BY <2>7 DEF Label
    <3>3. label' = Minus(label, w)
      BY <2>2, <2>7, NetworkOf
    <3>4. label' = <<x - i, y - j>>
      BY <3>1, <3>2, <3>3 DEF Minus
    <3>5. QED
      BY <3>1, <3>2, <3>4 DEF Plus
  <2>9. ReadBack(town, t, path, at, label, bag[t][Len(pareto) + 1])
    BY <2>2 DEF Answered, Retraced
  <2>10. ReadBack(town, t, path', u, label', bag[t][Len(pareto) + 1])
    BY <2>2, <2>4, <2>5, <2>6, <2>7, <2>8, <2>9, ReadOn
  <2>11. Retraced'
    BY <2>2, <2>4, <2>10 DEF Retraced
  <2>12. Gathered' /\ Dumped'
    BY <2>2 DEF Answered, Gathered, Dumped
  <2>13. QED
    BY <2>11, <2>12 DEF Answered
<1>5. CASE PushPath
  <2>1. PICK n : n = Len(pareto) + 1
    OBVIOUS
  <2>2. /\ pc = "read" /\ at = s /\ at' = t /\ path' = <<>>
        /\ label' = (IF n + 1 <= Len(bag[t]) THEN bag[t][n + 1] ELSE label)
        /\ pc' = (IF n + 1 <= Len(bag[t]) THEN "read" ELSE "choose")
        /\ town' = town /\ s' = s /\ t' = t /\ bag' = bag
        /\ pareto' = Append(pareto, [weight |-> bag[t][n], path |-> path])
    BY <1>5, <2>1 DEF PushPath, Read, Goal, query, searching
  <2>3. PICK m \in Nat : m = Len(pareto) /\ m < Len(bag[t]) /\ n = m + 1
    BY <2>1, <2>2, LenProperties DEF IInv, Collected
  <2>4. pareto \in Seq(Answer) /\ \A k \in 1 .. m : pareto[k].weight = bag[t][k] /\ Found(town, s, t, pareto[k])
    BY <2>2, <2>3 DEF Answered, Gathered
  <2>5. PICK a \in Answer : a = [weight |-> bag[t][n], path |-> path] /\ a.weight = bag[t][n] /\ a.path = path
    <3>1. n \in 1 .. Len(bag[t])
      BY <1>1, <2>3
    <3>2. bag[t][n] \in Label /\ path \in Seq(Vertex \X Vertex)
      BY <1>1, <3>1, ElementOfSeq DEF IInv, Reading
    <3>3. [weight |-> bag[t][n], path |-> path] \in Answer
      BY <3>2 DEF Answer
    <3>4. QED
      BY <3>3
  <2>6. label = <<0, 0>>
    BY <2>2 DEF Answered, Retraced, IInv, Source
  <2>7. Found(town, s, t, a)
    BY <2>1, <2>2, <2>5, <2>6 DEF Answered, Retraced, Found
  <2>8. /\ pareto' \in Seq(Answer) /\ Len(pareto') = n /\ pareto'[n] = a
        /\ \A k \in 1 .. m : pareto'[k] = pareto[k]
    BY <2>2, <2>3, <2>4, <2>5, AppendProperties
  <2>9. ASSUME NEW k \in 1 .. n PROVE pareto'[k].weight = bag[t][k] /\ Found(town, s, t, pareto'[k])
    <3>1. k \in 1 .. m \/ k = n
      BY <2>3
    <3>2. QED
      BY <2>4, <2>5, <2>7, <2>8, <3>1
  <2>10. Gathered'
    <3>1. pc' = "choose" => Len(pareto') = Len(bag'[t'])
      BY <1>1, <2>2, <2>3, <2>8
    <3>2. QED
      BY <2>2, <2>8, <2>9, <3>1 DEF Gathered
  <2>11. Retraced'
    <3> SUFFICES ASSUME pc' = "read"
                 PROVE  label' \in ToSet(bag'[at']) /\
                        ReadBack(town', t', path', at', label', bag'[t'][Len(pareto') + 1])
      BY DEF Retraced
    <3>1. PICK k \in 1 .. Len(bag[t]) : k = n + 1
      BY <1>1, <2>2, <2>3
    <3>2. label' = bag[t][k] /\ Len(pareto') + 1 = k
      BY <2>2, <2>8, <3>1
    <3>3. QED
      BY <2>2, <3>2, ReadStarts
  <2>12. Dumped'
    BY <2>2 DEF Dumped
  <2>13. QED
    BY <2>10, <2>11, <2>12 DEF Answered
<1>6. CASE Choose
  <2>1. /\ pc = "choose" /\ pc' = "dump" /\ pareto' = Chosen(pareto)
        /\ town' = town /\ s' = s /\ t' = t /\ bag' = bag
    BY <1>6 DEF Choose, query
  <2>2. /\ pareto \in Seq(Answer) /\ Len(pareto) = Len(bag[t])
        /\ \A k \in 1 .. Len(pareto) : pareto[k].weight = bag[t][k] /\ Found(town, s, t, pareto[k])
    BY <2>1 DEF Answered, Gathered
  <2>3. IsBag(bag[t])
    BY <1>1 DEF IInv, Bags
  <2>4. /\ Apiece(pareto', bag[t])
        /\ \A k \in 1 .. Len(pareto') : \E m \in 1 .. Len(pareto) : pareto'[k] = pareto[m]
    BY <2>1, <2>2, <2>3, ChosenApiece
  <2>5. \A k \in 1 .. Len(pareto') : Found(town, s, t, pareto'[k])
    BY <2>2, <2>4
  <2>6. QED
    BY <2>1, <2>4, <2>5 DEF Answered, Retraced, Gathered, Dumped
<1>7. CASE DumpGeojson
  <2>1. /\ pc = "dump" /\ pc' = "done" /\ pareto' = pareto
        /\ geojson' = {[stroke |-> n % 9, coordinates |-> Line(pareto[n].path)] : n \in DOMAIN pareto}
        /\ town' = town /\ s' = s /\ t' = t /\ bag' = bag
    BY <1>7 DEF DumpGeojson, query
  <2>2. Apiece(pareto, bag[t]) /\ \A k \in 1 .. Len(pareto) : Found(town, s, t, pareto[k])
    BY <2>1 DEF Answered, Dumped
  <2>3. Dumped'
    BY <2>1, <2>2 DEF Dumped
  <2>4. QED
    BY <2>1, <2>3 DEF Answered, Retraced, Gathered
<1>8. CASE UNCHANGED vars
  BY <1>8 DEF vars, query, reading, Answered, Retraced, Gathered, Dumped
<1>9. QED
  BY <1>2, <1>3, <1>4, <1>5, <1>6, <1>7, <1>8 DEF Next

\* The line drawn of a route is the walk it makes, and its total is the label.
LEMMA LineIs ==
  ASSUME IInv, s # t, NEW answer \in Answer, Found(town, s, t, answer)
  PROVE  LET line == Line(answer.path)
         IN  line[1] = s /\ line[Len(line)] = t /\ Total(line) = answer.weight
<1>1. PICK p \in Seq(Vertex \X Vertex) : p = answer.path
  BY DEF Answer
<1>2. PICK r, c : Reads(town, t, p, r, c, s, <<0, 0>>, answer.weight)
  BY <1>1 DEF Found, ReadBack
<1>3. PICK n \in Nat : n = Len(p) /\ DOMAIN p = 1 .. n
  BY <1>1, LenProperties
<1>4. /\ r \in Seq(Vertex) /\ Len(r) = n + 1 /\ r[1] = s /\ r[n + 1] = t /\ Goes(town, r)
      /\ \A k \in 1 .. n : \A m \in 1 .. n + 1 : m = k + 1 => p[k] = <<r[k], r[m]>>
  BY <1>2, <1>3 DEF Reads, Goes
<1>5. n # 0
  <2>1. CASE n = 0
    BY <1>4, <2>1
  <2>2. QED
    BY <2>1
<1>6. p # <<>>
  BY <1>3, <1>5
<1>7. PICK q : q = [k \in 1 .. n |-> p[k][2]]
  OBVIOUS
<1>8. Line(p) = <<s>> \o q
  <2>1. 1 \in 1 .. n /\ 2 \in 1 .. n + 1 /\ 2 = 1 + 1
    BY <1>3, <1>5
  <2>2. p[1][1] = s
    BY <1>4, <2>1
  <2>3. QED
    BY <1>3, <1>6, <1>7, <2>2 DEF Line
<1>9. ASSUME NEW k \in 1 .. n PROVE q[k] = r[k + 1] /\ q[k] \in Vertex
  <2>1. PICK m \in 1 .. n + 1 : m = k + 1
    OBVIOUS
  <2>2. p[k] = <<r[k], r[m]>> /\ r[m] \in Vertex
    BY <1>4, <2>1, ElementOfSeq
  <2>3. QED
    BY <1>7, <2>1, <2>2
<1>10. q \in Seq(Vertex) /\ Len(q) = n
  <2>1. q \in [1 .. n -> Vertex]
    BY <1>7, <1>9
  <2>2. \A V : \A f \in [1 .. n -> V] : f \in Seq(V)
    BY <1>3
  <2>3. q \in Seq(Vertex)
    BY <2>1, <2>2
  <2>4. QED
    BY <1>3, <1>7, <2>3, LenProperties
<1>11. PICK l : l = <<s>> \o q
  OBVIOUS
<1>12. s \in Vertex
  BY DEF IInv, Asked
<1>13. /\ l \in Seq(Vertex) /\ Len(l) = n + 1 /\ l[1] = s
       /\ \A k \in 1 .. n : \A m \in 1 .. n + 1 : m = k + 1 => l[m] = q[k]
  BY ONLY <1>10, <1>11, <1>12, PutBefore
<1>14. l = r
  <2>1. ASSUME NEW m \in 1 .. n + 1 PROVE l[m] = r[m]
    <3>1. CASE m = 1
      BY <1>4, <1>13, <3>1
    <3>2. CASE m # 1
      <4>1. PICK k \in 1 .. n : m = k + 1
        <5>1. m - 1 \in 1 .. n /\ m = (m - 1) + 1
          BY <3>2
        <5>2. QED
          BY <5>1
      <4>2. QED
        BY <1>9, <1>13, <4>1
    <3>3. QED
      BY <3>1, <3>2
  <2>2. QED
    BY <1>4, <1>13, <2>1, SeqEqual
<1>15. Priced(town, r, c) /\ c[Len(r)] = answer.weight
  BY <1>2 DEF Reads, Priced
<1>16. Total(r) = answer.weight
  BY <1>4, <1>15, TotalPriced
<1>17. QED
  BY <1>1, <1>4, <1>8, <1>11, <1>14, <1>16

\* As many lines are written as there are costs among them: labels of a bag
\* differ, and each cost tells its line.
LEMMA OneLineEach ==
  ASSUME NEW n \in Nat, NEW F, NEW C, NEW feature, NEW cost,
         F = {feature[k] : k \in 1 .. n}, C = {cost[f] : f \in F},
         \A k, m \in 1 .. n : k < m => cost[feature[k]] # cost[feature[m]]
  PROVE  Cardinality(F) = Cardinality(C)
<1> DEFINE up == [k \in 1 .. n |-> feature[k]]
           on == [f \in F |-> cost[f]]
<1>1. IsFiniteSet(1 .. n)
  BY FS_Interval
<1>2. up \in Surjection(1 .. n, F)
  BY DEF Surjection
<1>3. IsFiniteSet(F)
  BY <1>1, <1>2, FS_Surjection
<1>4. on \in Surjection(F, C)
  BY DEF Surjection
<1>5. ASSUME NEW f \in F, NEW g \in F, on[f] = on[g] PROVE f = g
  <2>1. PICK k \in 1 .. n : f = feature[k]
    OBVIOUS
  <2>2. PICK m \in 1 .. n : g = feature[m]
    OBVIOUS
  <2>3. ~ (k < m) /\ ~ (m < k)
    BY <1>5, <2>1, <2>2
  <2>4. QED
    BY <2>1, <2>2, <2>3
<1>6. on \in Injection(F, C)
  BY <1>4, <1>5 DEF Injection, IsInjective, Surjection
<1>7. QED
  BY <1>3, <1>4, <1>6, FS_Surjection

\* The routes written lead from the source to the target and cost the labels
\* chosen, among them the shortest and the safest, and the others lie apart.
THEOREM AnswersAreSpread == Spec => []AnswerSpread
<1>1. IInv /\ Answered => AnswerSpread
  <2> SUFFICES ASSUME IInv, Answered, pc = "done", s # t
               PROVE  LET labels == bag[t]
                          n      == Len(labels)
                          costs  == {Total(f.coordinates) : f \in geojson}
                      IN  /\ \A f \in geojson : f.coordinates[1] = s /\ Last(f.coordinates) = t
                          /\ Cardinality(geojson) = Cardinality(costs)
                          /\ costs \subseteq ToSet(bag[t])
                          /\ n > 0 => {labels[1], labels[n]} \subseteq costs
                          /\ \A a, b \in costs :
                               a[1] < b[1] /\ {a, b} # {labels[1], labels[n]} =>
                                 Far(a, b, labels[1], labels[n])
    BY DEF AnswerSpread
  <2> DEFINE labels == bag[t]
             costs  == {Total(f.coordinates) : f \in geojson}
  <2>1. /\ Apiece(pareto, labels)
        /\ \A k \in 1 .. Len(pareto) : Found(town, s, t, pareto[k])
        /\ geojson = {[stroke |-> n % 9, coordinates |-> Line(pareto[n].path)] : n \in DOMAIN pareto}
    BY DEF Answered, Dumped
  <2>2. PICK l \in Nat : l = Len(pareto) /\ DOMAIN pareto = 1 .. l
    BY <2>1, LenProperties DEF Apiece
  <2>3. \A k \in 1 .. l : pareto[k] \in Answer
    BY <2>1, <2>2, ElementOfSeq DEF Apiece
  <2> DEFINE feature == [n \in 1 .. l |-> [stroke |-> n % 9, coordinates |-> Line(pareto[n].path)]]
             cost    == [f \in geojson |-> Total(f.coordinates)]
  <2>4. \A k \in 1 .. l :
          LET line == Line(pareto[k].path)
          IN  line[1] = s /\ line[Len(line)] = t /\ Total(line) = pareto[k].weight
    BY <2>1, <2>2, <2>3, LineIs
  <2>5. geojson = {feature[k] : k \in 1 .. l}
    BY <2>1, <2>2
  <2>6. \A k \in 1 .. l : /\ feature[k] \in geojson
                          /\ feature[k].coordinates = Line(pareto[k].path)
    BY <2>5
  <2>7. \A k \in 1 .. l : cost[feature[k]] = pareto[k].weight
    BY <2>4, <2>6
  <2>8. costs = {cost[f] : f \in geojson}
    OBVIOUS
  <2>9. \A x : x \in costs <=> \E k \in 1 .. l : x = pareto[k].weight
    <3>1. \A x : x \in costs <=> \E f \in geojson : x = cost[f]
      BY <2>8
    <3> HIDE DEF costs, cost, feature
    <3>2. QED
      BY <2>5, <2>7, <3>1
  <2>10. \A k \in 1 .. l : pareto[k].weight \in Label /\ pareto[k].weight[1] \in Nat
    BY <2>3 DEF Answer, Label
  <2>11. \A k, m \in 1 .. l : k < m => pareto[k].weight[1] < pareto[m].weight[1]
    BY <2>1, <2>2 DEF Apiece
  <2>12. Cardinality(geojson) = Cardinality(costs)
    <3>1. \A k, m \in 1 .. l : k < m => cost[feature[k]] # cost[feature[m]]
      <4>1. \A k, m \in 1 .. l : k < m => pareto[k].weight # pareto[m].weight
        BY <2>10, <2>11
      <4> HIDE DEF cost, feature
      <4>2. QED
        BY <2>7, <4>1
    <3> HIDE DEF costs, cost, feature
    <3>2. QED
      BY <2>5, <2>8, <3>1, OneLineEach
  <2>13. ASSUME NEW f \in geojson PROVE f.coordinates[1] = s /\ Last(f.coordinates) = t
    <3>1. PICK k \in 1 .. l : f = feature[k]
      BY <2>5
    <3>2. f.coordinates = Line(pareto[k].path)
      BY <2>6, <3>1
    <3>3. QED
      BY <2>4, <3>2 DEF Last
  <2>14. \A k \in 1 .. l : pareto[k].weight \in ToSet(labels)
    BY <2>1, <2>2 DEF Apiece
  <2>15. Len(labels) > 0 => /\ 1 \in 1 .. l /\ l \in 1 .. l
                            /\ pareto[1].weight = labels[1] /\ pareto[l].weight = labels[Len(labels)]
    BY <2>1, <2>2 DEF Apiece
  <2>16. ASSUME NEW a \in costs, NEW b \in costs,
                a[1] < b[1], {a, b} # {labels[1], labels[Len(labels)]}
         PROVE  Far(a, b, labels[1], labels[Len(labels)])
    <3>1. PICK k \in 1 .. l : a = pareto[k].weight
      BY <2>9
    <3>2. PICK m \in 1 .. l : b = pareto[m].weight
      BY <2>9
    <3>3. k < m
      <4>1. k # m
        BY <2>10, <2>16, <3>1, <3>2
      <4>2. ~ (m < k)
        BY <2>10, <2>11, <2>16, <3>1, <3>2
      <4>3. QED
        BY <4>1, <4>2
    <3>4. k # 1 \/ m # l
      <4> SUFFICES ASSUME k = 1, m = l PROVE FALSE
        OBVIOUS
      <4>1. ToSet(labels) # {}
        BY <2>14, <3>1
      <4>2. Len(labels) > 0
        <5>1. labels \in Seq(Label)
          BY DEF IInv, Asked, Bags
        <5>2. labels # <<>>
          BY <4>1 DEF ToSet
        <5>3. QED
          BY <5>1, <5>2, EmptySeq
      <4>3. QED
        BY <2>15, <2>16, <3>1, <3>2, <4>2
    <3>5. Far(pareto[k].weight, pareto[m].weight, labels[1], labels[Len(labels)])
      BY <2>1, <2>2, <3>3, <3>4 DEF Apiece
    <3>6. QED
      BY <3>1, <3>2, <3>5
  <2> HIDE DEF costs
  <2>17. costs \subseteq ToSet(labels)
    BY <2>9, <2>14
  <2>18. Len(labels) > 0 => {labels[1], labels[Len(labels)]} \subseteq costs
    BY <2>9, <2>15
  <2>19. QED
    BY <2>12, <2>13, <2>16, <2>17, <2>18 DEF costs
<1>2. QED
  BY <1>1, InitInv, StepInv, InitAnswered, StepAnswered, PTL DEF Spec
=============================================================================
