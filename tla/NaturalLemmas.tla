---------------------------- MODULE NaturalLemmas ----------------------------
(***************************************************************************)
(* Induction over the natural numbers for sets instead of predicates, and  *)
(* the sequences of values that a recursion from 0 to n goes through.  The *)
(* proofs use them to unfold the recursive functions of the model.         *)
(***************************************************************************)
EXTENDS Integers, SequencesExt, WellFoundedInduction, TLAPS

\* A set of natural numbers has a least element.
LEMMA LeastNatural ==
  ASSUME NEW T \in SUBSET Nat, T # {}
  PROVE  \E x \in T : \A y \in T : x <= y
<1>1. \E x \in T : \A y \in T : ~ (<<y, x>> \in OpToRel(<, Nat))
  BY WFMin, NatLessThanWellFounded
<1>2. \A x, y \in T : <<y, x>> \in OpToRel(<, Nat) <=> y < x
  BY DEF OpToRel
<1>3. \E x \in T : \A y \in T : ~ (y < x)
  BY <1>1, <1>2, Zenon
<1>4. PICK x \in T : \A y \in T : ~ (y < x)
  BY <1>3
<1>5. \A y \in T : x <= y
  BY <1>4
<1>6. QED
  BY <1>5

\* A remainder is below the divisor.
LEMMA Remainder ==
  ASSUME NEW a \in Nat, NEW b \in Nat \ {0}
  PROVE  a % b \in 0 .. b - 1
OBVIOUS

\* What holds of 0, and of k + 1 when it holds of k, holds up to n.
LEMMA InductionUpTo ==
  ASSUME NEW n \in Nat, NEW S, 0 \in S,
         \A k \in 0 .. n - 1 : k \in S => k + 1 \in S
  PROVE  \A k \in 0 .. n : k \in S
<1> DEFINE T == {k \in 0 .. n : k \notin S}
<1> SUFFICES ASSUME T # {} PROVE FALSE
  OBVIOUS
<1>1. PICK x \in T : \A y \in T : x <= y
  <2>1. T \in SUBSET Nat
    OBVIOUS
  <2> HIDE DEF T
  <2>2. QED
    BY <2>1, LeastNatural
<1>2. x # 0 /\ x - 1 \in 0 .. n - 1
  OBVIOUS
<1>3. x - 1 \in S
  BY <1>1, <1>2
<1>4. QED
  BY <1>2, <1>3

\* What leads from each value to the next, up to the n-th.
Steps(step, V, n) == step \in [V \X (1 .. n) -> V]

\* The sequence of values that the steps lead to from a first value.
Iterates(f, v, step, V, n) ==
  /\ f \in [0 .. n -> V]
  /\ f[0] = v
  /\ \A k \in 1 .. n : f[k] = step[<<f[k - 1], k>>]

\* There is such a sequence.
LEMMA Iteration ==
  ASSUME NEW V, NEW v \in V, NEW n \in Nat, NEW step, Steps(step, V, n)
  PROVE  \E f : Iterates(f, v, step, V, n)
<1> USE DEF Steps, Iterates
<1> DEFINE S == {m \in 0 .. n : \E f : Iterates(f, v, step, V, m)}
<1>1. 0 \in S
  <2>1. Iterates([k \in 0 .. 0 |-> v], v, step, V, 0)
    OBVIOUS
  <2>2. \E f : Iterates(f, v, step, V, 0)
    BY <2>1
  <2> HIDE DEF Iterates
  <2>3. QED
    BY <2>2
<1>2. ASSUME NEW m \in 0 .. n - 1, m \in S
      PROVE  m + 1 \in S
  <2>1. PICK f : Iterates(f, v, step, V, m)
    BY <1>2
  <2> DEFINE next == step[<<f[m], m + 1>>]
             g == [k \in 0 .. m + 1 |-> IF k = m + 1 THEN next ELSE f[k]]
  <2>2. next \in V
    BY <2>1
  <2>3. g \in [0 .. m + 1 -> V]
    BY <2>1, <2>2
  <2>4. ASSUME NEW k \in 1 .. m + 1
        PROVE  g[k] = step[<<g[k - 1], k>>]
    <3>1. CASE k = m + 1
      <4>1. g[k - 1] = f[m] /\ g[k] = next
        BY <3>1
      <4>2. QED
        BY <3>1, <4>1
    <3>2. CASE k \in 1 .. m
      <4>1. g[k] = f[k] /\ g[k - 1] = f[k - 1]
        BY <3>2
      <4> HIDE DEF g
      <4>2. QED
        BY <2>1, <3>2, <4>1
    <3>3. QED
      BY <3>1, <3>2
  <2>5. g[0] = v
    BY <2>1
  <2> HIDE DEF g
  <2>6. \E h : Iterates(h, v, step, V, m + 1)
    BY <2>3, <2>4, <2>5
  <2> HIDE DEF Iterates
  <2>7. QED
    BY <2>6
<1> HIDE DEF S
<1>3. n \in S
  BY <1>1, <1>2, InductionUpTo
<1>4. QED
  BY <1>3 DEF S

\* Steps that only look at values of lower rank.
Founded(step, D, V, rank) ==
  \A f, g \in [D -> V] : \A p \in D :
    (\A q \in D : rank[q] < rank[p] => f[q] = g[q]) => step[<<p, f>>] = step[<<p, g>>]

\* The function that such steps define.
Recursive(f, D, V, step) == f \in [D -> V] /\ \A p \in D : f[p] = step[<<p, f>>]

\* A recursion in several arguments, each step of which lowers a rank, defines a
\* function.
LEMMA Recursion ==
  ASSUME NEW D, NEW V, V # {}, NEW n \in Nat, NEW rank \in [D -> 0 .. n],
         NEW step \in [D \X [D -> V] -> V], Founded(step, D, V, rank)
  PROVE  \E f : Recursive(f, D, V, step)
<1> DEFINE Right(f, m) == \A p \in D : rank[p] < m => f[p] = step[<<p, f>>]
           S == {m \in 0 .. n + 1 : \E f \in [D -> V] : Right(f, m)}
<1>1. 0 \in S
  <2>1. PICK v \in V : TRUE
    OBVIOUS
  <2>2. [p \in D |-> v] \in [D -> V]
    BY <2>1
  <2>3. \A p \in D : ~ (rank[p] < 0)
    OBVIOUS
  <2>4. \E f \in [D -> V] : Right(f, 0)
    BY <2>2, <2>3
  <2>5. QED
    BY <2>4
<1>2. ASSUME NEW m \in 0 .. (n + 1) - 1, m \in S PROVE m + 1 \in S
  <2>1. PICK f \in [D -> V] : Right(f, m)
    BY <1>2
  <2> DEFINE g == [p \in D |-> IF rank[p] < m THEN f[p] ELSE step[<<p, f>>]]
  <2>2. g \in [D -> V]
    BY <2>1
  <2>3. \A p \in D : g[p] = step[<<p, f>>]
    BY <2>1
  <2>4. \A q \in D : rank[q] < m => g[q] = f[q]
    OBVIOUS
  <2> HIDE DEF g
  <2>5. ASSUME NEW p \in D, rank[p] < m + 1 PROVE g[p] = step[<<p, g>>]
    <3>1. \A q \in D : rank[q] < rank[p] => g[q] = f[q]
      BY <2>4, <2>5
    <3>2. step[<<p, g>>] = step[<<p, f>>]
      BY <2>2, <3>1 DEF Founded
    <3>3. QED
      BY <2>3, <3>2
  <2>6. \E h \in [D -> V] : Right(h, m + 1)
    BY <2>2, <2>5
  <2>7. QED
    BY <2>6
<1> HIDE DEF S
<1>3. n + 1 \in S
  BY <1>1, <1>2, InductionUpTo
<1>4. PICK f \in [D -> V] : Right(f, n + 1)
  BY <1>3 DEF S
<1>5. \A p \in D : rank[p] < n + 1
  OBVIOUS
<1>6. Recursive(f, D, V, step)
  BY <1>4, <1>5 DEF Recursive
<1>7. QED
  BY <1>6

-----------------------------------------------------------------------------
(* Sequences: what it is to list a set, and sequences one after the other. *)

\* The sequence s has every element of S once.
Lists(s, S) ==
  /\ s \in Seq(S) /\ Len(s) \in Nat /\ DOMAIN s = 1 .. Len(s)
  /\ \A x \in S : \E i \in 1 .. Len(s) : s[i] = x
  /\ \A i \in 1 .. Len(s) : s[i] \in S
  /\ \A i, j \in 1 .. Len(s) : s[i] = s[j] => i = j

\* Element k of f is the concatenation of the first k of the sequences ss.
Concats(f, ss, S) ==
  /\ f \in [0 .. Len(ss) -> Seq(S)]
  /\ f[0] = <<>>
  /\ \A k \in 1 .. Len(ss) : f[k] = f[k - 1] \o ss[k]

\* Sequences have such partial concatenations.
LEMMA ConcatsExist ==
  ASSUME NEW S, NEW ss \in Seq(Seq(S))
  PROVE  \E f : Concats(f, ss, S)
<1> DEFINE n == Len(ss)
           step == [p \in Seq(S) \X (1 .. n) |-> p[1] \o ss[p[2]]]
<1>1. n \in Nat /\ <<>> \in Seq(S) /\ \A k \in 1 .. n : ss[k] \in Seq(S)
  OBVIOUS
<1> HIDE DEF n
<1>2. ASSUME NEW p \in Seq(S) \X (1 .. n) PROVE p[1] \o ss[p[2]] \in Seq(S)
  <2>1. PICK s \in Seq(S), t \in Seq(S) : s = p[1] /\ t = ss[p[2]]
    BY <1>1
  <2>2. s \o t \in Seq(S)
    OBVIOUS
  <2>3. QED
    BY <2>1, <2>2
<1>3. Steps(step, Seq(S), n)
  BY <1>2 DEF Steps
<1> HIDE DEF step
<1>4. PICK f : Iterates(f, <<>>, step, Seq(S), n)
  BY <1>1, <1>3, Iteration
<1>5. ASSUME NEW k \in 1 .. n PROVE f[k] = f[k - 1] \o ss[k]
  <2>1. k - 1 \in 0 .. n
    BY <1>1
  <2>2. f[k - 1] \in Seq(S) /\ f[k] = step[<<f[k - 1], k>>]
    BY <1>4, <2>1 DEF Iterates
  <2>3. step[<<f[k - 1], k>>] = f[k - 1] \o ss[k]
    BY <2>2 DEF step
  <2>4. QED
    BY <2>2, <2>3
<1>6. Concats(f, ss, S)
  BY <1>4, <1>5 DEF Concats, Iterates, n
<1>7. QED
  BY <1>6

\* The last of them is what FlattenSeq returns.
LEMMA FlattenIsLast ==
  ASSUME NEW S, NEW ss \in Seq(Seq(S)), NEW f, Concats(f, ss, S)
  PROVE  FlattenSeq(ss) = f[Len(ss)]
<1> DEFINE n == Len(ss)
           Unfolds(h) == h = [i \in 1 .. n |-> IF i = 1 THEN ss[i] ELSE h[i - 1] \o ss[i]]
<1>1. n \in Nat /\ \A k \in 1 .. n : ss[k] \in Seq(S)
  OBVIOUS
<1>2. CASE n = 0
  <2>1. FlattenSeq(ss) = <<>>
    BY <1>2 DEF FlattenSeq
  <2>2. QED
    BY <1>2, <2>1 DEF Concats
<1>3. CASE n # 0
  <2> DEFINE flatten == CHOOSE h : Unfolds(h)
             g == [i \in 1 .. n |-> f[i]]
  <2>1. FlattenSeq(ss) = flatten[n]
    BY <1>3 DEF FlattenSeq
  <2> HIDE DEF n
  <2>2. f[0] = <<>> /\ \A k \in 1 .. n : f[k] = f[k - 1] \o ss[k]
    BY DEF Concats, n
  <2>3. ASSUME NEW i \in 1 .. n PROVE f[i] = IF i = 1 THEN ss[i] ELSE g[i - 1] \o ss[i]
    <3>1. CASE i = 1
      <4>1. <<>> \o ss[i] = ss[i]
        BY <1>1
      <4>2. f[i] = f[i - 1] \o ss[i]
        BY <2>2, Zenon
      <4>3. i - 1 = 0
        BY <3>1
      <4>4. QED
        BY <2>2, <3>1, <4>1, <4>2, <4>3, Zenon
    <3>2. CASE i # 1
      <4>1. i - 1 \in 1 .. n
        BY <1>1, <3>2
      <4>2. g[i - 1] = f[i - 1]
        BY <4>1
      <4>3. QED
        BY <2>2, <3>2, <4>2
    <3>3. QED
      BY <3>1, <3>2
  <2>4. Unfolds(g)
    BY <2>3
  <2>5. Unfolds(flatten)
    BY <2>4
  <2> HIDE DEF flatten
  <2>6. \A i \in 1 .. n : flatten[i] = IF i = 1 THEN ss[i] ELSE flatten[i - 1] \o ss[i]
    BY <2>5
  <2> HIDE DEF Unfolds, g
  <2> DEFINE T == {k \in 0 .. n - 1 : flatten[k + 1] = f[k + 1]}
  <2>7. 0 \in T
    <3>1. 1 \in 1 .. n /\ 0 \in 0 .. n - 1
      BY <1>1, <1>3
    <3>2. flatten[1] = ss[1] /\ f[1] = f[0] \o ss[1]
      <4>1. PICK j \in 1 .. n : j = 1
        BY <3>1
      <4>2. flatten[j] = ss[j] /\ f[j] = f[j - 1] \o ss[j]
        BY <2>2, <2>6, <4>1, Zenon
      <4>3. j - 1 = 0
        BY <4>1
      <4>4. QED
        BY <4>1, <4>2, <4>3, Zenon
    <3>3. <<>> \o ss[1] = ss[1]
      BY <1>1, <3>1
    <3>4. flatten[1] = f[1]
      BY <2>2, <3>2, <3>3
    <3>5. QED
      BY <3>1, <3>4
  <2>8. ASSUME NEW k \in 0 .. n - 1 - 1, k \in T PROVE k + 1 \in T
    <3>1. k + 2 \in 1 .. n /\ k + 1 \in 0 .. n - 1 /\ k + 1 + 1 = k + 2
      BY <1>1
    <3>2. PICK j \in 1 .. n : j = k + 2
      BY <3>1
    <3>3. j # 1 /\ j - 1 = k + 1
      BY <3>2
    <3>4. flatten[j] = flatten[j - 1] \o ss[j] /\ f[j] = f[j - 1] \o ss[j]
      BY <2>2, <2>6, <3>3, Zenon
    <3>5. flatten[k + 1] = f[k + 1]
      BY <2>8
    <3>6. flatten[j] = f[j]
      BY <3>3, <3>4, <3>5, Zenon
    <3>7. flatten[k + 1 + 1] = f[k + 1 + 1]
      BY <3>1, <3>2, <3>6
    <3>8. QED
      BY <3>1, <3>7
  <2>9. n - 1 \in T
    <3>1. n - 1 \in Nat /\ n - 1 \in 0 .. n - 1
      BY <1>1, <1>3
    <3> HIDE DEF T
    <3>2. \A k \in 0 .. n - 1 : k \in T
      BY <2>7, <2>8, <3>1, InductionUpTo
    <3>3. QED
      BY <3>1, <3>2
  <2>10. QED
    BY <1>1, <2>1, <2>9 DEF n
<1>4. QED
  BY <1>2, <1>3

\* Where the elements of the first k sequences are in their concatenation.
ConcatOffsets(ss, f, k) ==
  /\ \A i \in 1 .. k :
       /\ Len(f[i]) <= Len(f[k])
       /\ \A j \in 1 .. Len(ss[i]) : f[k][Len(f[i - 1]) + j] = ss[i][j]
  /\ \A p \in 1 .. Len(f[k]) : \E i \in 1 .. k : p - Len(f[i - 1]) \in 1 .. Len(ss[i])

\* One more sequence is concatenated.
LEMMA OneMoreConcat ==
  ASSUME NEW S, NEW ss \in Seq(Seq(S)), NEW f, Concats(f, ss, S),
         NEW k \in 0 .. Len(ss) - 1, ConcatOffsets(ss, f, k)
  PROVE  ConcatOffsets(ss, f, k + 1)
<1> DEFINE n == Len(ss)
<1>1. n \in Nat /\ \A i \in 1 .. n : ss[i] \in Seq(S) /\ Len(ss[i]) \in Nat
  OBVIOUS
<1>2. f \in [0 .. n -> Seq(S)] /\ f[0] = <<>> /\ \A i \in 1 .. n : f[i] = f[i - 1] \o ss[i]
  BY DEF Concats
<1>3. k \in 0 .. n /\ k + 1 \in 1 .. n /\ k \in Nat
  BY <1>1
<1> HIDE DEF n
<1>4. \A i \in 0 .. n : f[i] \in Seq(S) /\ Len(f[i]) \in Nat
  BY <1>2
<1>5. f[k + 1] = f[k] \o ss[k + 1]
  <2>1. PICK i \in 1 .. n : i = k + 1
    BY <1>3
  <2>2. f[i] = f[i - 1] \o ss[i]
    BY <1>2, Zenon
  <2>3. i - 1 = k
    BY <1>3, <2>1
  <2>4. QED
    BY <2>1, <2>2, <2>3, Zenon
<1>6. PICK a \in Seq(S) : a = f[k]
  BY <1>3, <1>4
<1>7. PICK b \in Seq(S) : b = ss[k + 1]
  BY <1>1, <1>3
<1>8. f[k + 1] = a \o b
  BY <1>5, <1>6, <1>7
<1>9. /\ Len(a \o b) = Len(a) + Len(b)
      /\ \A p \in 1 .. Len(a) : (a \o b)[p] = a[p]
      /\ \A j \in 1 .. Len(b) : (a \o b)[Len(a) + j] = b[j]
  OBVIOUS
<1>10. Len(a) \in Nat /\ Len(b) \in Nat
  OBVIOUS
<1>11. \A i \in 1 .. k : i - 1 \in 0 .. n /\ i \in 0 .. n /\ i \in 1 .. n
  BY <1>1, <1>3
<1>12. ASSUME NEW i \in 1 .. k + 1
       PROVE  /\ Len(f[i]) <= Len(f[k + 1])
              /\ \A j \in 1 .. Len(ss[i]) : f[k + 1][Len(f[i - 1]) + j] = ss[i][j]
  <2>1. CASE i = k + 1
    <3>1. i - 1 = k
      BY <1>3, <2>1
    <3>2. Len(f[i]) <= Len(f[k + 1])
      BY <1>3, <1>4, <2>1
    <3>3. \A j \in 1 .. Len(ss[i]) : f[k + 1][Len(f[i - 1]) + j] = ss[i][j]
      BY <1>6, <1>7, <1>8, <1>9, <2>1, <3>1
    <3>4. QED
      BY <3>2, <3>3
  <2>2. CASE i # k + 1
    <3>1. i \in 1 .. k
      BY <1>3, <2>2
    <3>2. Len(f[i]) <= Len(a) /\ \A j \in 1 .. Len(ss[i]) : a[Len(f[i - 1]) + j] = ss[i][j]
      BY <1>6, <3>1 DEF ConcatOffsets
    <3>3. Len(f[i]) \in Nat /\ Len(f[i]) <= Len(a) + Len(b)
      BY <1>4, <1>10, <1>11, <3>1, <3>2
    <3>4. ASSUME NEW j \in 1 .. Len(ss[i])
          PROVE  (a \o b)[Len(f[i - 1]) + j] = ss[i][j]
      <4>1. Len(f[i]) = Len(f[i - 1]) + Len(ss[i])
        <5>1. PICK u \in Seq(S) : u = f[i - 1]
          BY <1>4, <1>11, <3>1
        <5>2. PICK v \in Seq(S) : v = ss[i]
          BY <1>1, <1>11, <3>1
        <5>3. Len(u \o v) = Len(u) + Len(v)
          OBVIOUS
        <5>4. f[i] = u \o v
          BY <1>2, <1>11, <3>1, <5>1, <5>2
        <5>5. QED
          BY <5>1, <5>2, <5>3, <5>4
      <4>2. Len(f[i - 1]) \in Nat /\ Len(ss[i]) \in Nat
        BY <1>1, <1>4, <1>11, <3>1
      <4>3. Len(f[i - 1]) + j \in 1 .. Len(a)
        <5>1. PICK u \in Nat : u = Len(f[i - 1])
          BY <4>2
        <5>2. PICK v \in Nat : v = Len(ss[i])
          BY <4>2
        <5>3. u + v <= Len(a) /\ j \in 1 .. v
          BY <3>2, <4>1, <5>1, <5>2
        <5>4. u + j \in 1 .. Len(a)
          BY <1>10, <5>3
        <5>5. QED
          BY <5>1, <5>4
      <4>4. (a \o b)[Len(f[i - 1]) + j] = a[Len(f[i - 1]) + j]
        BY <1>9, <4>3
      <4>5. QED
        BY <3>2, <4>4
    <3>5. QED
      BY <1>8, <1>9, <3>3, <3>4
  <2>3. QED
    BY <2>1, <2>2
<1>13. ASSUME NEW p \in 1 .. Len(f[k + 1])
       PROVE  \E i \in 1 .. k + 1 : p - Len(f[i - 1]) \in 1 .. Len(ss[i])
  <2>1. p \in 1 .. Len(a) + Len(b)
    BY <1>8, <1>9
  <2>2. CASE p <= Len(a)
    <3>1. p \in 1 .. Len(f[k])
      BY <1>6, <2>1, <2>2
    <3>2. PICK i \in 1 .. k : p - Len(f[i - 1]) \in 1 .. Len(ss[i])
      BY <3>1 DEF ConcatOffsets
    <3>3. i \in 1 .. k + 1
      BY <1>3
    <3>4. QED
      BY <3>2, <3>3
  <2>3. CASE p > Len(a)
    <3>1. p - Len(a) \in 1 .. Len(b)
      BY <1>10, <2>1, <2>3
    <3>2. (k + 1) - 1 = k /\ k + 1 \in 1 .. k + 1
      BY <1>3
    <3>3. p - Len(f[(k + 1) - 1]) \in 1 .. Len(ss[k + 1])
      BY <1>6, <1>7, <3>1, <3>2
    <3>4. QED
      BY <3>2, <3>3
  <2>4. QED
    BY <1>10, <2>1, <2>2, <2>3
<1>14. QED
  BY <1>12, <1>13 DEF ConcatOffsets

\* The sequence s is made of the sequences ss, each of them after its offset.
Laid(ss, s, offset) ==
  /\ offset \in [1 .. Len(ss) + 1 -> Nat] /\ offset[1] = 0 /\ offset[Len(ss) + 1] = Len(s)
  /\ \A i \in 1 .. Len(ss) : offset[i + 1] = offset[i] + Len(ss[i])
  /\ \A i, k \in 1 .. Len(ss) + 1 : i <= k => offset[i] <= offset[k]
  /\ \A i \in 1 .. Len(ss) : \A j \in 1 .. Len(ss[i]) : s[offset[i] + j] = ss[i][j]
  /\ \A p \in 1 .. Len(s) : \E i \in 1 .. Len(ss) : p - offset[i] \in 1 .. Len(ss[i])

\* FlattenSeq lays the sequences out one after the other.
LEMMA FlattenedInPlace ==
  ASSUME NEW S, NEW ss \in Seq(Seq(S))
  PROVE  FlattenSeq(ss) \in Seq(S) /\ \E offset : Laid(ss, FlattenSeq(ss), offset)
<1>1. PICK f : Concats(f, ss, S)
  BY ConcatsExist
<1> DEFINE n == Len(ss)
           T == {k \in 0 .. n : ConcatOffsets(ss, f, k)}
           offset == [i \in 1 .. n + 1 |-> Len(f[i - 1])]
<1>2. n \in Nat /\ \A i \in 1 .. n : ss[i] \in Seq(S) /\ Len(ss[i]) \in Nat
  OBVIOUS
<1>3. FlattenSeq(ss) = f[n]
  BY <1>1, FlattenIsLast
<1>4. f \in [0 .. n -> Seq(S)] /\ f[0] = <<>> /\ \A i \in 1 .. n : f[i] = f[i - 1] \o ss[i]
  BY <1>1 DEF Concats
<1> HIDE DEF n
<1>5. 0 \in T
  BY <1>2, <1>4 DEF ConcatOffsets
<1>6. ASSUME NEW k \in 0 .. n - 1, k \in T PROVE k + 1 \in T
  <2>1. ConcatOffsets(ss, f, k + 1)
    BY <1>1, <1>6, OneMoreConcat DEF n
  <2>2. k + 1 \in 0 .. n
    BY <1>2
  <2>3. QED
    BY <2>1, <2>2
<1>7. \A k \in 0 .. n : ConcatOffsets(ss, f, k)
  <2> HIDE DEF T
  <2>1. \A k \in 0 .. n : k \in T
    BY <1>2, <1>5, <1>6, InductionUpTo
  <2>2. QED
    BY <2>1 DEF T
<1>8. \A i \in 0 .. n : f[i] \in Seq(S) /\ Len(f[i]) \in Nat
  BY <1>4
<1>9. offset \in [1 .. n + 1 -> Nat]
  <2>1. \A i \in 1 .. n + 1 : Len(f[i - 1]) \in Nat
    BY <1>2, <1>8
  <2>2. QED
    BY <2>1
<1>10. \A i \in 1 .. n + 1 : offset[i] = Len(f[i - 1])
  OBVIOUS
<1> HIDE DEF offset, T
<1>11. 1 \in 1 .. n + 1 /\ n + 1 \in 1 .. n + 1 /\ 1 - 1 = 0 /\ n + 1 - 1 = n /\ n \in 0 .. n
  BY <1>2
<1>12. offset[1] = 0 /\ offset[n + 1] = Len(f[n])
  BY <1>4, <1>10, <1>11
<1>13. ASSUME NEW i \in 1 .. n PROVE offset[i + 1] = offset[i] + Len(ss[i])
  <2>1. i - 1 \in 0 .. n /\ i \in 1 .. n + 1 /\ i + 1 \in 1 .. n + 1 /\ i + 1 - 1 = i
    BY <1>2
  <2>2. PICK u \in Seq(S) : u = f[i - 1]
    BY <1>8, <2>1
  <2>3. PICK v \in Seq(S) : v = ss[i]
    BY <1>2
  <2>4. Len(u \o v) = Len(u) + Len(v)
    OBVIOUS
  <2>5. f[i] = u \o v
    BY <1>4, <2>2, <2>3
  <2>6. offset[i] = Len(f[i - 1]) /\ offset[i + 1] = Len(f[i + 1 - 1])
    BY <1>10, <2>1
  <2>7. offset[i + 1] = Len(f[i])
    BY <2>1, <2>6
  <2>8. QED
    BY <2>2, <2>3, <2>4, <2>5, <2>6, <2>7, Zenon
<1>14. ASSUME NEW i \in 1 .. n + 1, NEW k \in 1 .. n + 1, i <= k PROVE offset[i] <= offset[k]
  <2>1. i - 1 \in 0 .. n /\ k - 1 \in 0 .. n
    BY <1>2
  <2>2. CASE i = 1
    BY <1>9, <1>12, <2>2
  <2>3. CASE i # 1
    <3>1. i - 1 \in 1 .. k - 1
      BY <1>2, <1>14, <2>3
    <3>2. Len(f[i - 1]) <= Len(f[k - 1])
      BY <1>7, <2>1, <3>1 DEF ConcatOffsets
    <3>3. QED
      BY <1>10, <3>2
  <2>4. QED
    BY <2>2, <2>3
<1>15. /\ \A i \in 1 .. n : \A j \in 1 .. Len(ss[i]) : f[n][offset[i] + j] = ss[i][j]
       /\ \A p \in 1 .. Len(f[n]) : \E i \in 1 .. n : p - offset[i] \in 1 .. Len(ss[i])
  <2>1. \A i \in 1 .. n : offset[i] = Len(f[i - 1])
    BY <1>2, <1>10
  <2>2. ConcatOffsets(ss, f, n)
    BY <1>7, <1>11
  <2>3. \A i \in 1 .. n : \A j \in 1 .. Len(ss[i]) : f[n][offset[i] + j] = ss[i][j]
    <3>1. \A i \in 1 .. n : \A j \in 1 .. Len(ss[i]) : f[n][Len(f[i - 1]) + j] = ss[i][j]
      BY <2>2, Zenon DEF ConcatOffsets
    <3>2. QED
      BY <2>1, <3>1
  <2>4. \A p \in 1 .. Len(f[n]) : \E i \in 1 .. n : p - offset[i] \in 1 .. Len(ss[i])
    <3>1. \A p \in 1 .. Len(f[n]) : \E i \in 1 .. n : p - Len(f[i - 1]) \in 1 .. Len(ss[i])
      BY <2>2, Zenon DEF ConcatOffsets
    <3>2. QED
      BY <2>1, <3>1
  <2>5. QED
    BY <2>3, <2>4
<1>16. Laid(ss, f[n], offset)
  BY <1>9, <1>12, <1>13, <1>14, <1>15 DEF Laid, n
<1>17. QED
  BY <1>3, <1>8, <1>11, <1>16

=============================================================================
