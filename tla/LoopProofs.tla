------------------------------ MODULE LoopProofs -----------------------------
(***************************************************************************)
(* Lemmas about Loops.  IterateEquation says that Iterate is the function  *)
(* its definition asks for, by Induction on 0..n, which rests on the       *)
(* well-foundedness of strict inclusion among finite sets.                 *)
(***************************************************************************)
EXTENDS Loops, FiniteSetTheorems, WellFoundedInduction, TLAPS

\* A nonempty set of numbers up to N has a least element.
LEMMA LeastElement ==
    ASSUME NEW N \in Nat, NEW T \in SUBSET (0..N), T # {}
    PROVE  \E x \in T : \A y \in T : x <= y
<1> DEFINE Below == {0..(x-1) : x \in T}
           Order == StrictSubsetOrdering(0..N)
<1>1. IsFiniteSet(0..N)
  BY FS_Interval
<1>2. IsWellFoundedOn(Order, FiniteSubsetsOf(0..N))
  BY FS_StrictSubsetOrderingWellFounded
<1>3. Below \subseteq FiniteSubsetsOf(0..N)
  <2>1. FiniteSubsetsOf(0..N) = SUBSET (0..N)
    BY <1>1, FS_FiniteSubsetsOfFinite
  <2>2. Below \subseteq SUBSET (0..N)
    OBVIOUS
  <2>3. QED
    BY <2>1, <2>2
<1>4. Below # {}
  OBVIOUS
<1>5. \E s \in Below : \A t \in Below : ~ (<<t, s>> \in Order)
  <2> HIDE DEF Below, Order
  <2>1. QED
    BY <1>2, <1>3, <1>4, WFMin
<1>6. PICK m \in T : \A y \in T : ~ (<<0..(y-1), 0..(m-1)>> \in Order)
  BY <1>5
<1>7. ASSUME NEW y \in T, y < m
      PROVE  FALSE
  <2>1. /\ 0..(y-1) \subseteq 0..(m-1) /\ 0..(y-1) # 0..(m-1)
        /\ 0..(y-1) \in SUBSET (0..N) /\ 0..(m-1) \in SUBSET (0..N)
    <3>1. y \in 0..(m-1) /\ y \notin 0..(y-1)
      BY <1>7
    <3>2. QED
      BY <3>1, <1>7
  <2>2. QED
    BY <2>1, <1>6, Zenon DEF StrictSubsetOrdering
<1>8. QED
  BY <1>7

\* Induction on 0..N, for the set of numbers that have the property.
LEMMA Induction ==
    ASSUME NEW N \in Nat, NEW P \in SUBSET (0..N),
           0 \in P, \A i \in 1..N : i - 1 \in P => i \in P
    PROVE  P = 0..N
<1> SUFFICES ASSUME (0..N) \ P # {}
             PROVE  FALSE
  OBVIOUS
<1>1. PICK m \in (0..N) \ P : \A y \in (0..N) \ P : m <= y
  BY LeastElement
<1>2. m \in 1..N
  OBVIOUS
<1>3. m - 1 \in P
  BY <1>1, <1>2
<1>4. QED
  BY <1>1, <1>2, <1>3

\* f is what n turns make of start.
Turns(f, turn, start, n) ==
    f[0] = start /\ \A i \in 1..n : f[i] = turn[i][f[i-1]]

\* Iterate(turn, start, n) is the function its definition asks for.
LEMMA IterateEquation ==
    ASSUME NEW n \in Nat, NEW S, NEW start \in S,
           NEW turn \in [1..n -> [S -> S]]
    PROVE  /\ Iterate(turn, start, n) \in [0..n -> S]
           /\ Turns(Iterate(turn, start, n), turn, start, n)
<1> DEFINE Upto(k) == \E g \in [0..k -> S] :
                         /\ g[0] = start
                         /\ \A i \in 1..k : g[i] = turn[i][g[i-1]]
           P == {k \in 0..n : Upto(k)}
<1>1. Upto(0)
  <2> DEFINE g == [i \in 0..0 |-> start]
  <2>1. g \in [0..0 -> S] /\ g[0] = start
    OBVIOUS
  <2>2. \A i \in 1..0 : g[i] = turn[i][g[i-1]]
    OBVIOUS
  <2>3. QED
    BY <2>1, <2>2
<1>2. ASSUME NEW k \in 1..n, Upto(k - 1)
      PROVE  Upto(k)
  <2>1. PICK g \in [0..(k-1) -> S] :
                /\ g[0] = start
                /\ \A i \in 1..(k-1) : g[i] = turn[i][g[i-1]]
    BY <1>2
  <2> DEFINE h == [i \in 0..k |-> IF i = k THEN turn[k][g[k-1]] ELSE g[i]]
  <2>2. h \in [0..k -> S]
    OBVIOUS
  <2>3. h[0] = start
    BY <2>1
  <2>4. ASSUME NEW i \in 1..k
        PROVE  h[i] = turn[i][h[i-1]]
    <3>1. h[i-1] = g[i-1]
      OBVIOUS
    <3>2. CASE i = k
      BY <3>1, <3>2
    <3>3. CASE i # k
      <4>1. i \in 1..(k-1)
        BY <3>3
      <4>2. h[i] = g[i]
        BY <3>3
      <4>3. QED
        BY <4>1, <4>2, <3>1, <2>1
    <3>4. QED
      BY <3>2, <3>3
  <2>5. QED
    BY <2>2, <2>3, <2>4
<1> HIDE DEF Upto
<1>3. P = 0..n
  <2>1. 0 \in P
    BY <1>1
  <2>2. \A i \in 1..n : i - 1 \in P => i \in P
    BY <1>2
  <2> HIDE DEF P
  <2>3. P \in SUBSET (0..n)
    BY DEF P
  <2>4. QED
    BY <2>1, <2>2, <2>3, Induction
<1>4. Upto(n)
  BY <1>3
<1> DEFINE Eq(f) == f = [i \in 0..n |-> IF i = 0 THEN start
                                        ELSE turn[i][f[i-1]]]
           it == Iterate(turn, start, n)
<1>5. \E g : Eq(g)
  <2>1. PICK g \in [0..n -> S] : /\ g[0] = start
                                 /\ \A i \in 1..n : g[i] = turn[i][g[i-1]]
    BY <1>4 DEF Upto
  <2>2. \A i \in 0..n : g[i] = IF i = 0 THEN start ELSE turn[i][g[i-1]]
    BY <2>1
  <2>3. Eq(g)
    BY <2>2
  <2>4. QED
    BY <2>3
<1>6. Iterate(turn, start, n) = CHOOSE f : Eq(f)
  BY Zenon DEF Iterate
<1>7. Eq(Iterate(turn, start, n))
  <2> HIDE DEF Eq
  <2>1. Eq(CHOOSE f : Eq(f))
    BY <1>5, Zenon
  <2>2. QED
    BY <2>1, <1>6, Zenon
<1> HIDE DEF it
<1>8. Eq(it)
  BY <1>7 DEF it
<1> DEFINE Typed == {i \in 0..n : it[i] \in S}
<1>9. 0 \in Typed
  BY <1>8
<1>10. ASSUME NEW i \in 1..n, i - 1 \in Typed
      PROVE  i \in Typed
  <2>1. it[i-1] \in S
    BY <1>10
  <2>2. it[i] = turn[i][it[i-1]]
    BY <1>8
  <2>3. QED
    BY <2>1, <2>2
<1>11. Typed = 0..n
  <2> HIDE DEF Typed
  <2>1. Typed \in SUBSET (0..n)
    BY DEF Typed
  <2>2. QED
    BY <1>9, <1>10, <2>1, Induction
<1>12. \A i \in 0..n : it[i] \in S
  BY <1>11
<1>13. it \in [0..n -> S]
  BY <1>8, <1>12
<1>14. it[0] = start /\ \A i \in 1..n : it[i] = turn[i][it[i-1]]
  BY <1>8
<1>15. QED
  BY <1>13, <1>14 DEF it, Turns

\* What holds at the start and survives every turn holds all along.
LEMMA IterateInvariant ==
    ASSUME NEW n \in Nat, NEW S, NEW start \in S,
           NEW turn \in [1..n -> [S -> S]],
           NEW I \in SUBSET S, start \in I,
           \A i \in 1..n : \A s \in I : turn[i][s] \in I
    PROVE  \A i \in 0..n : Iterate(turn, start, n)[i] \in I
<1> DEFINE it == Iterate(turn, start, n)
           P == {i \in 0..n : it[i] \in I}
<1>1. it \in [0..n -> S] /\ Turns(it, turn, start, n)
  BY IterateEquation
<1> HIDE DEF it
<1>2. 0 \in P
  BY <1>1 DEF Turns
<1>3. ASSUME NEW i \in 1..n, i - 1 \in P
      PROVE  i \in P
  <2>1. it[i] = turn[i][it[i-1]] /\ it[i-1] \in I
    BY <1>1, <1>3 DEF Turns
  <2>2. QED
    BY <2>1
<1>4. P = 0..n
  <2> HIDE DEF P
  <2>1. P \in SUBSET (0..n)
    BY DEF P
  <2>2. QED
    BY <1>2, <1>3, <2>1, Induction
<1>5. QED
  BY <1>4 DEF it

\* The functions f and g agree on D.
SameOn(f, g, D) == \A i \in D : f[i] = g[i]

\* Two loops whose turns agree on the first n turns agree after each of them.
LEMMA IterateAgree ==
    ASSUME NEW m \in Nat, NEW n \in Nat, n <= m, NEW S, NEW start \in S,
           NEW turn1 \in [1..m -> [S -> S]], NEW turn2 \in [1..n -> [S -> S]],
           SameOn(turn1, turn2, 1..n)
    PROVE  SameOn(Iterate(turn1, start, m), Iterate(turn2, start, n), 0..n)
<1> DEFINE f == Iterate(turn1, start, m)
           g == Iterate(turn2, start, n)
           P == {i \in 0..n : f[i] = g[i]}
<1>1. /\ f \in [0..m -> S] /\ f[0] = start
      /\ \A i \in 1..m : f[i] = turn1[i][f[i-1]]
  BY IterateEquation DEF Turns
<1>2. /\ g \in [0..n -> S] /\ g[0] = start
      /\ \A i \in 1..n : g[i] = turn2[i][g[i-1]]
  BY IterateEquation DEF Turns
<1> HIDE DEF f, g
<1>3. 0 \in P
  BY <1>1, <1>2
<1>4. ASSUME NEW i \in 1..n, i - 1 \in P
      PROVE  i \in P
  <2>1. f[i] = turn1[i][f[i-1]] /\ g[i] = turn2[i][g[i-1]]
    BY <1>1, <1>2
  <2>2. f[i-1] = g[i-1] /\ turn1[i] = turn2[i]
    BY <1>4 DEF SameOn
  <2>3. QED
    BY <2>1, <2>2
<1>5. P = 0..n
  <2> HIDE DEF P
  <2>1. P \in SUBSET (0..n)
    BY DEF P
  <2>2. QED
    BY <1>3, <1>4, <2>1, Induction
<1>6. QED
  BY <1>5 DEF f, g, SameOn

-----------------------------------------------------------------------------
(* Sums *)

LEMMA SumSeqType ==
    ASSUME NEW n \in Nat, NEW s \in [1..n -> Int]
    PROVE  SumSeq(s) \in Int
<1> DEFINE turn == [i \in 1..Len(s) |-> [sum \in Int |-> sum + s[i]]]
<1>1. Len(s) = n
  OBVIOUS
<1>2. turn \in [1..n -> [Int -> Int]]
  BY <1>1
<1> HIDE DEF turn
<1>3. Iterate(turn, 0, n) \in [0..n -> Int]
  <2>1. 0 \in Int
    OBVIOUS
  <2>2. QED
    BY <1>2, <2>1, IterateEquation, Zenon
<1>4. SumSeq(s) = Iterate(turn, 0, n)[n]
  BY <1>1 DEF SumSeq, turn
<1>5. QED
  BY <1>3, <1>4

\* A sum of one term more, and a sum of naturals.
LEMMA SumSeqAppend ==
    ASSUME NEW n \in Nat, NEW s \in [1..n -> Int], NEW t \in [1..n+1 -> Int],
           \A i \in 1..n : t[i] = s[i]
    PROVE  SumSeq(t) = SumSeq(s) + t[n+1]
<1> DEFINE turn1 == [i \in 1..Len(t) |-> [sum \in Int |-> sum + t[i]]]
           turn2 == [i \in 1..Len(s) |-> [sum \in Int |-> sum + s[i]]]
<1>1. Len(s) = n /\ Len(t) = n + 1 /\ n + 1 \in Nat
  OBVIOUS
<1>2. /\ turn1 \in [1..n+1 -> [Int -> Int]]
      /\ turn2 \in [1..n -> [Int -> Int]]
  BY <1>1
<1>3. SameOn(turn1, turn2, 1..n)
  BY <1>1 DEF SameOn
<1>4. \A sum \in Int : turn1[n+1][sum] = sum + t[n+1]
  BY <1>1
<1>5. /\ SumSeq(t) = Iterate(turn1, 0, n + 1)[n+1]
      /\ SumSeq(s) = Iterate(turn2, 0, n)[n]
  BY <1>1 DEF SumSeq
<1> HIDE DEF turn1, turn2
<1>6. 0 \in Int /\ n <= n + 1
  OBVIOUS
<1>7. SameOn(Iterate(turn1, 0, n + 1), Iterate(turn2, 0, n), 0..n)
  BY <1>1, <1>2, <1>3, <1>6, IterateAgree, Zenon
<1>8. /\ Iterate(turn1, 0, n + 1) \in [0..n+1 -> Int]
      /\ \A i \in 1..n+1 : Iterate(turn1, 0, n + 1)[i]
                             = turn1[i][Iterate(turn1, 0, n + 1)[i-1]]
  <2>1. /\ Iterate(turn1, 0, n + 1) \in [0..n+1 -> Int]
        /\ Turns(Iterate(turn1, 0, n + 1), turn1, 0, n + 1)
    BY <1>1, <1>2, <1>6, IterateEquation, Zenon
  <2>2. QED
    BY <2>1 DEF Turns
<1>9. Iterate(turn1, 0, n + 1)[n+1] = Iterate(turn1, 0, n + 1)[n] + t[n+1]
  <2>1. n + 1 \in 1..n+1 /\ n \in 0..n+1 /\ n + 1 - 1 = n
    OBVIOUS
  <2>2. Iterate(turn1, 0, n + 1)[n] \in Int
    BY <1>8, <2>1
  <2>3. Iterate(turn1, 0, n + 1)[n+1] = turn1[n+1][Iterate(turn1, 0, n + 1)[n]]
    BY <1>8, <2>1
  <2>4. QED
    BY <1>4, <2>2, <2>3
<1>10. Iterate(turn1, 0, n + 1)[n] = Iterate(turn2, 0, n)[n]
  BY <1>7 DEF SameOn
<1>11. QED
  BY <1>5, <1>9, <1>10

LEMMA SumSeqNat ==
    ASSUME NEW n \in Nat, NEW s \in [1..n -> Nat]
    PROVE  SumSeq(s) \in Nat
<1> DEFINE turn == [i \in 1..Len(s) |-> [sum \in Int |-> sum + s[i]]]
<1>1. Len(s) = n /\ s \in [1..n -> Int]
  OBVIOUS
<1>2. turn \in [1..n -> [Int -> Int]]
  BY <1>1
<1>3. \A i \in 1..n : \A sum \in Nat : turn[i][sum] \in Nat
  BY <1>1
<1>4. SumSeq(s) = Iterate(turn, 0, n)[n]
  BY <1>1 DEF SumSeq
<1> HIDE DEF turn
<1>5. 0 \in Int /\ 0 \in Nat /\ Nat \in SUBSET Int /\ n \in 0..n
  OBVIOUS
<1>6. \A i \in 0..n : Iterate(turn, 0, n)[i] \in Nat
  BY <1>2, <1>3, <1>5, IterateInvariant, Zenon
<1>7. QED
  BY <1>4, <1>5, <1>6

\* The sums of the first terms: none, and one more at a time.
LEMMA SumPrefixes ==
    ASSUME NEW n \in Nat, NEW f \in [1..n -> Int]
    PROVE  /\ SumSeq([i \in 1..0 |-> f[i]]) = 0
           /\ \A k \in 0..n : SumSeq([i \in 1..k |-> f[i]]) \in Int
           /\ \A k \in 1..n : SumSeq([i \in 1..k |-> f[i]])
                                = SumSeq([i \in 1..k-1 |-> f[i]]) + f[k]
<1>1. \A k \in 0..n : [i \in 1..k |-> f[i]] \in [1..k -> Int]
  OBVIOUS
<1>2. \A k \in 0..n : SumSeq([i \in 1..k |-> f[i]]) \in Int
  BY <1>1, SumSeqType
<1>3. ASSUME NEW k \in 1..n
      PROVE  SumSeq([i \in 1..k |-> f[i]])
               = SumSeq([i \in 1..k-1 |-> f[i]]) + f[k]
  <2>1. PICK m \in Nat : m = k - 1 /\ m + 1 = k
    OBVIOUS
  <2>2. PICK s, t : s = [i \in 1..m |-> f[i]] /\ t = [i \in 1..k |-> f[i]]
    OBVIOUS
  <2>3. s \in [1..m -> Int] /\ t \in [1..m+1 -> Int]
    BY <2>1, <2>2
  <2>4. (\A i \in 1..m : t[i] = s[i]) /\ t[m+1] = f[k]
    BY <2>1, <2>2
  <2>5. SumSeq(t) = SumSeq(s) + t[m+1]
    BY <2>3, <2>4, SumSeqAppend
  <2>6. QED
    BY <2>1, <2>2, <2>4, <2>5
<1>4. SumSeq([i \in 1..0 |-> f[i]]) = 0
  <2>1. PICK s : s = [i \in 1..0 |-> f[i]]
    OBVIOUS
  <2>2. Len(s) = 0
    BY <2>1
  <2> DEFINE turn == [i \in 1..Len(s) |-> [sum \in Int |-> sum + s[i]]]
  <2>3. turn \in [1..0 -> [Int -> Int]]
    BY <2>2
  <2>4. SumSeq(s) = Iterate(turn, 0, 0)[0]
    BY <2>2 DEF SumSeq
  <2> HIDE DEF turn
  <2>5. PICK z \in Nat : z = 0
    OBVIOUS
  <2>6. Turns(Iterate(turn, z, z), turn, z, z)
    <3>1. z \in Int /\ turn \in [1..z -> [Int -> Int]]
      BY <2>3, <2>5
    <3>2. QED
      BY <3>1, IterateEquation
  <2>7. QED
    BY <2>1, <2>4, <2>5, <2>6 DEF Turns
<1>5. QED
  BY <1>2, <1>3, <1>4

=============================================================================
