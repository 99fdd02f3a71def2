--------------------------- MODULE NumbersProofs ----------------------------
(***************************************************************************)
(* Proofs about Random, and that the numbers of src/random.h are numbers   *)
(* it may be instantiated with; about Decimal, for strings of any length;  *)
(* and about Coding, for numbers, slices and keys of any size.             *)
(***************************************************************************)
EXTENDS Random, Decimal, Coding, Integers, WellFoundedInduction, TLAPS

-----------------------------------------------------------------------------
(* Random: the numbers of the code *)

\* 16807 has an inverse modulo 2^32, so no product with it is a multiple of 2^32
\* unless the seed is one, although the product wraps (random.h:26).
THEOREM CodesNumbers ==
  \A s \in Nat : 0 < s /\ s <= 2147483647 => (s * 16807) % 4294967296 # 0
<1> SUFFICES ASSUME NEW s \in Nat, 0 < s, s <= 2147483647,
                    (s * 16807) % 4294967296 = 0
             PROVE  FALSE
  BY SMT
<1> DEFINE k == (s * 16807) \div 4294967296
<1>1. k \in Nat /\ s * 16807 = 4294967296 * k
  BY SMT
<1> HIDE DEF k
\* 16807 * 1278498327 = 1 + 5003 * 2^32
<1>2. s = 4294967296 * (1278498327 * k - 5003 * s)
  BY <1>1, SMT
<1>3. 1278498327 * k - 5003 * s \in Int
  BY <1>1, SMT
<1> QED
  BY <1>2, <1>3, SMT

-----------------------------------------------------------------------------
(* Random: the invariant *)

\* One step of the generator stays within 31 bits and away from 0.
LEMMA AdvanceLives ==
  ASSUME NEW s \in 0 .. M
  PROVE  Advance(s) \in 0 .. M /\ (Advance(s) = 0 <=> s = 0)
<1> USE RandomAssumption DEF M
<1> DEFINE product == (s * A) % (2 * Half)
           high == product \div Half
           low == product % Half
<1>1. product \in 0 .. 2 * Half - 1 /\ (product = 0 <=> s = 0)
  OBVIOUS
<1>2. product = Half * high + low /\ low \in 0 .. Half - 1 /\ high \in Nat
  BY <1>1
<1>3. high \in 0 .. 1
  BY <1>1, <1>2
<1>4. Advance(s) = IF high + low > M THEN high + low - M ELSE high + low
  BY DEF Advance
<1> HIDE DEF product, high, low
<1> QED
  BY <1>1, <1>2, <1>3, <1>4

\* The generator of random.h leaves 0 alone and is never caught by it.
THEOREM GeneratorLives == RandomSpec => []SeedLives
<1> USE RandomAssumption DEF M
<1>1. RandomInit => SeedLives
  BY DEF RandomInit, SeedLives
<1>2. SeedLives /\ [RandomNext]_randomVars => SeedLives'
  BY AdvanceLives DEF SeedLives, RandomNext, randomHeight, Draw, DrawLast, randomVars
<1> QED
  BY <1>1, <1>2, PTL DEF RandomSpec

-----------------------------------------------------------------------------
(* Induction and recursion *)

\* A set of natural numbers has a least member: the induction of all these proofs,
\* for the loops of the code are recursive functions.
LEMMA LeastNatural ==
  ASSUME NEW S \in SUBSET Nat, S # {}
  PROVE  \E n \in S : \A k \in S : n <= k
<1> DEFINE R == OpToRel(<, Nat)
<1>1. IsWellFoundedOn(R, Nat)
  BY NatLessThanWellFounded
<1>2. \A a, b \in Nat : <<a, b>> \in R <=> a < b
  BY DEF OpToRel
<1>3. \E n \in S : \A k \in S : ~(<<k, n>> \in R)
  BY <1>1, WFMin
<1> HIDE DEF R
<1>4. PICK n \in S : \A k \in S : ~(<<k, n>> \in R)
  BY <1>3
<1>5. ASSUME NEW k \in S PROVE n <= k
  <2>1. n \in Nat /\ k \in Nat
    OBVIOUS
  <2>2. ~(k < n)
    BY <1>2, <1>4, <2>1, Zenon
  <2> QED
    BY <2>1, <2>2
<1> QED
  BY <1>5

\* Induction, over sets
LEMMA Induction ==
  ASSUME NEW S \in SUBSET Nat, 0 \in S, \A n \in S : n + 1 \in S
  PROVE  S = Nat
<1>1. SUFFICES ASSUME Nat \ S # {} PROVE FALSE
  OBVIOUS
<1>2. PICK n \in Nat \ S : \A k \in Nat \ S : n <= k
  BY <1>1, LeastNatural
<1>3. n # 0 /\ n - 1 \in Nat
  BY <1>2
<1>4. n - 1 \in S
  BY <1>2, <1>3
<1> QED
  BY <1>2, <1>3, <1>4

\* g is first at 0 and follows from the value before, and up to N does.
Recurs(first, step, g) == g[0] = first /\ \A n \in Nat : g[n + 1] = step[n + 1][g[n]]
RecursTo(N, first, step, g) ==
  g[0] = first /\ \A n \in 1 .. N : g[n] = step[n][g[n - 1]]

\* A function on the numbers can be defined by its value at 0 and by its value at each n
\* from that at n - 1.
LEMMA Recursion ==
  ASSUME NEW S, NEW first \in S, NEW step \in [Nat -> [S -> S]]
  PROVE  \E g \in [Nat -> S] : Recurs(first, step, g)
<1> DEFINE Begins(g, n) == \A k \in 0 .. n : g[k] = IF k = 0 THEN first ELSE step[k][g[k - 1]]
<1>1. \A n \in Nat : \E g \in [Nat -> S] : Begins(g, n)
  <2> DEFINE T == {n \in Nat : \E g \in [Nat -> S] : Begins(g, n)}
  <2>1. 0 \in T
    <3>1. [n \in Nat |-> first] \in [Nat -> S]
      OBVIOUS
    <3>2. Begins([n \in Nat |-> first], 0)
      OBVIOUS
    <3> QED
      BY <3>1, <3>2
  <2>2. ASSUME NEW n \in T PROVE n + 1 \in T
    <3>1. PICK g \in [Nat -> S] : Begins(g, n)
      BY <2>2
    <3> DEFINE h == [g EXCEPT ![n + 1] = step[n + 1][g[n]]]
    <3>2. n \in Nat /\ g[n] \in S /\ h \in [Nat -> S]
      OBVIOUS
    <3>3. ASSUME NEW k \in 0 .. n + 1
          PROVE  h[k] = IF k = 0 THEN first ELSE step[k][h[k - 1]]
      <4>1. CASE k = n + 1
        BY <3>2, <4>1
      <4>2. CASE k \in 0 .. n
        BY <3>1, <3>2, <4>2
      <4> QED
        BY <3>2, <4>1, <4>2
    <3> HIDE DEF h
    <3>4. Begins(h, n + 1)
      BY <3>3
    <3> QED
      BY <3>2, <3>4
  <2> HIDE DEF T
  <2>3. T = Nat
    <3>1. T \in SUBSET Nat
      BY DEF T
    <3> QED
      BY <2>1, <2>2, <3>1, Induction
  <2> QED
    BY <2>3 DEF T
<1>2. ASSUME NEW g \in [Nat -> S], NEW h \in [Nat -> S], NEW n \in Nat, NEW m \in Nat,
             Begins(g, n), Begins(h, m), n <= m
      PROVE  g[n] = h[n]
  <2> DEFINE T == {k \in Nat : k <= n => g[k] = h[k]}
  <2>1. 0 \in T
    <3>1. 0 \in 0 .. n /\ 0 \in 0 .. m
      OBVIOUS
    <3> QED
      BY <1>2, <3>1
  <2>2. ASSUME NEW k \in T PROVE k + 1 \in T
    <3>1. ASSUME k + 1 <= n PROVE g[k + 1] = h[k + 1]
      <4>1. k + 1 \in 0 .. n /\ k + 1 \in 0 .. m /\ k + 1 # 0 /\ k + 1 - 1 = k
        BY <1>2, <3>1
      <4>2. g[k] = h[k]
        BY <3>1
      <4>3. g[k + 1] = step[k + 1][g[k]]
        BY <1>2, <4>1
      <4>4. h[k + 1] = step[k + 1][h[k]]
        BY <1>2, <4>1
      <4> QED
        BY <4>2, <4>3, <4>4
    <3> QED
      BY <3>1
  <2> HIDE DEF T
  <2>3. T = Nat
    <3>1. T \in SUBSET Nat
      BY DEF T
    <3> QED
      BY <2>1, <2>2, <3>1, Induction
  <2> QED
    BY <2>3 DEF T
<1> DEFINE part == [n \in Nat |-> CHOOSE g \in [Nat -> S] : Begins(g, n)]
<1>3. \A n \in Nat : part[n] \in [Nat -> S] /\ Begins(part[n], n)
  BY <1>1
<1> HIDE DEF part
<1> DEFINE f == [n \in Nat |-> part[n][n]]
<1>4. f \in [Nat -> S]
  BY <1>3
<1>5. ASSUME NEW n \in Nat
      PROVE  f[n] = IF n = 0 THEN first ELSE step[n][f[n - 1]]
  <2>1. CASE n = 0
    <3>1. 0 \in 0 .. 0
      OBVIOUS
    <3> QED
      BY <1>3, <2>1, <3>1
  <2>2. CASE n # 0
    <3>1. n - 1 \in Nat /\ n - 1 <= n /\ n \in 0 .. n
      BY <2>2
    <3>2. part[n - 1][n - 1] = part[n][n - 1]
      BY <1>2, <1>3, <3>1
    <3>3. part[n][n] = step[n][part[n][n - 1]]
      BY <1>3, <2>2, <3>1
    <3> QED
      BY <2>2, <3>1, <3>2, <3>3
  <2> QED
    BY <2>1, <2>2
<1> HIDE DEF f
<1>6. f[0] = first
  BY <1>5
<1>7. ASSUME NEW n \in Nat PROVE f[n + 1] = step[n + 1][f[n]]
  <2>1. n + 1 \in Nat /\ n + 1 # 0 /\ n + 1 - 1 = n
    OBVIOUS
  <2> QED
    BY <1>5, <2>1
<1> QED
  BY <1>4, <1>6, <1>7 DEF Recurs

\* What Power is
LEMMA PowerIs ==
  ASSUME NEW b \in Nat
  PROVE  /\ Power(b, 0) = 1
         /\ \A n \in Nat : Power(b, n) \in Nat /\ Power(b, n + 1) = b * Power(b, n)
<1> DEFINE step == [n \in Nat |-> [p \in Nat |-> b * p]]
<1>1. step \in [Nat -> [Nat -> Nat]]
  OBVIOUS
<1>2. PICK g \in [Nat -> Nat] : Recurs(1, step, g)
  <2>1. 1 \in Nat
    OBVIOUS
  <2> HIDE DEF step
  <2> QED
    BY <1>1, <2>1, Recursion
<1>3. \A n \in Nat : step[n + 1][g[n]] = b * g[n]
  OBVIOUS
<1> HIDE DEF step
<1>4. g = [k \in Nat |-> IF k = 0 THEN 1 ELSE b * g[k - 1]]
  <2>1. ASSUME NEW n \in Nat, n # 0 PROVE g[n] = b * g[n - 1]
    <3>1. n - 1 \in Nat /\ n - 1 + 1 = n
      BY <2>1
    <3> QED
      BY <1>2, <1>3, <3>1 DEF Recurs
  <2> QED
    BY <1>2, <2>1 DEF Recurs
<1> DEFINE power == CHOOSE f : f = [k \in Nat |-> IF k = 0 THEN 1 ELSE b * f[k - 1]]
<1>5. power = [k \in Nat |-> IF k = 0 THEN 1 ELSE b * power[k - 1]]
  BY <1>4
<1>6. \A n : Power(b, n) = power[n]
  BY DEF Power
<1> HIDE DEF power
<1>7. power[0] = 1 /\ \A n \in Nat : power[n + 1] = b * power[n]
  BY <1>5
<1> DEFINE T == {n \in Nat : power[n] \in Nat}
<1>8. T = Nat
  <2>1. T \in SUBSET Nat /\ 0 \in T /\ \A n \in T : n + 1 \in T
    BY <1>7
  <2> HIDE DEF T
  <2> QED
    BY <2>1, Induction
<1>9. \A n \in Nat : power[n] \in Nat
  <2>1. \A n \in T : power[n] \in Nat
    OBVIOUS
  <2> HIDE DEF T
  <2> QED
    BY <1>8, <2>1
<1> HIDE DEF T
<1> QED
  BY <1>6, <1>7, <1>9

\* The same of a function on the numbers up to N
LEMMA RecursionTo ==
  ASSUME NEW S, NEW N \in Nat, NEW first \in S, NEW step \in [Nat -> [S -> S]]
  PROVE  \E g \in [0 .. N -> S] : RecursTo(N, first, step, g)
<1>1. PICK f \in [Nat -> S] : Recurs(first, step, f)
  BY Recursion
<1> DEFINE g == [n \in 0 .. N |-> f[n]]
<1>2. g \in [0 .. N -> S] /\ g[0] = first
  <2>1. 0 \in 0 .. N
    OBVIOUS
  <2>2. g \in [0 .. N -> S]
    OBVIOUS
  <2> QED
    BY <1>1, <2>1, <2>2 DEF Recurs
<1>3. ASSUME NEW n \in 1 .. N PROVE g[n] = step[n][g[n - 1]]
  <2>1. n - 1 \in 0 .. N /\ n \in 0 .. N /\ n - 1 \in Nat /\ n - 1 + 1 = n
    OBVIOUS
  <2>2. f[n] = step[n][f[n - 1]]
    BY <1>1, <2>1 DEF Recurs
  <2> QED
    BY <2>1, <2>2
<1> HIDE DEF g
<1> QED
  BY <1>2, <1>3 DEF RecursTo

\* The sums of the first members of a sequence: those of GroupSum and decodeFixed
LEMMA SumExists ==
  ASSUME NEW N \in Nat, NEW f \in [1 .. N -> Nat]
  PROVE  \E g \in [0 .. N -> Nat] :
           g[0] = 0 /\ \A n \in 1 .. N : g[n] = g[n - 1] + f[n]
<1> DEFINE step == [n \in Nat |-> [p \in Nat |-> p + IF n \in 1 .. N THEN f[n] ELSE 0]]
<1>1. step \in [Nat -> [Nat -> Nat]]
  OBVIOUS
<1>2. PICK g \in [0 .. N -> Nat] : RecursTo(N, 0, step, g)
  <2>1. 0 \in Nat
    OBVIOUS
  <2> HIDE DEF step
  <2> QED
    BY <1>1, <2>1, RecursionTo
<1>3. ASSUME NEW n \in 1 .. N PROVE step[n][g[n - 1]] = g[n - 1] + f[n]
  <2>1. n - 1 \in 0 .. N /\ n \in Nat
    OBVIOUS
  <2>2. g[n - 1] \in Nat
    BY <2>1
  <2> QED
    BY <2>1, <2>2
<1> HIDE DEF step
<1> QED
  BY <1>2, <1>3 DEF RecursTo

\* Induction up to N
LEMMA RangeInduction ==
  ASSUME NEW N \in Nat, NEW S \in SUBSET (0 .. N), 0 \in S, \A n \in S : n < N => n + 1 \in S
  PROVE  S = 0 .. N
<1> DEFINE T == S \cup {n \in Nat : n > N}
<1>1. T \in SUBSET Nat /\ 0 \in T
  <2>1. \A n \in S : n \in Nat
    OBVIOUS
  <2>2. T \subseteq Nat
    BY <2>1
  <2>3. 0 \in T
    OBVIOUS
  <2> HIDE DEF T
  <2> QED
    BY <2>2, <2>3
<1>2. ASSUME NEW n \in T PROVE n + 1 \in T
  <2>1. CASE n \in S /\ n < N
    BY <2>1
  <2>2. CASE n \in Nat /\ n >= N
    BY <2>2
  <2> QED
    BY <2>1, <2>2
<1> HIDE DEF T
<1>3. T = Nat
  BY <1>1, <1>2, Induction
<1>4. \A n \in 0 .. N : n \in S
  BY <1>3 DEF T
<1> QED
  BY <1>4

-----------------------------------------------------------------------------
(* ConsumeDecimalNumber: the digits and the loop *)

\* How many digits a Slice begins with is well defined.
LEMMA DigitsAre ==
  ASSUME NEW s \in Seq(Nat)
  PROVE  /\ Digits(s) \in 0 .. Len(s)
         /\ \A i \in 1 .. Digits(s) : s[i] < Ten
         /\ Digits(s) < Len(s) => s[Digits(s) + 1] >= Ten
<1> DEFINE S == {n \in 0 .. Len(s) : n < Len(s) => s[n + 1] >= Ten}
<1>1. Len(s) \in S
  OBVIOUS
<1>2. PICK n \in S : \A k \in S : n <= k
  <2>1. S \in SUBSET Nat /\ S # {}
    BY <1>1
  <2> HIDE DEF S
  <2> QED
    BY <2>1, LeastNatural
<1>3. ASSUME NEW i \in 1 .. n PROVE s[i] < Ten
  <2>1. i - 1 \in 0 .. Len(s) /\ i - 1 < Len(s) /\ i - 1 + 1 = i /\ i - 1 < n /\ i \in 1 .. Len(s)
    OBVIOUS
  <2>2. i - 1 \notin S
    <3>1. n \in Nat
      OBVIOUS
    <3> HIDE DEF S
    <3> QED
      BY <1>2, <2>1, <3>1
  <2>3. ~(s[i] >= Ten)
    BY <2>1, <2>2
  <2> QED
    BY <2>1, <2>3, DecimalAssumption
<1>4. \E m \in 0 .. Len(s) : /\ \A i \in 1 .. m : s[i] < Ten
                             /\ m < Len(s) => s[m + 1] >= Ten
  BY <1>3
<1> HIDE DEF S
<1> QED
  BY <1>4 DEF Digits

\* The number is what reading digit after digit makes of it.
LEMMA NumberIs ==
  ASSUME NEW s \in Seq(Nat)
  PROVE  \E h \in [0 .. Digits(s) -> Nat] :
           /\ h[0] = 0
           /\ \A n \in 1 .. Digits(s) : h[n] = h[n - 1] * Ten + s[n]
           /\ Number(s) = h[Digits(s)]
<1> DEFINE D == Digits(s)
<1>1. D \in Nat /\ D \in 0 .. Len(s) /\ Ten \in Nat
      /\ \A n \in 1 .. D : s[n] \in Nat
  BY DigitsAre, DecimalAssumption
<1> HIDE DEF D
<1>2. \A k \in Nat : Power(Ten, k) \in Nat /\ Power(Ten, k + 1) = Ten * Power(Ten, k)
  BY <1>1, PowerIs
<1>3. Power(Ten, 0) = 1
  BY <1>1, PowerIs
<1> DEFINE term == [n \in 1 .. D |-> s[n] * Power(Ten, D - n)]
<1>4. term \in [1 .. D -> Nat]
  <2>1. \A a, b \in Nat : a * b \in Nat
    OBVIOUS
  <2>2. \A n \in 1 .. D : D - n \in Nat
    BY <1>1
  <2> QED
    BY <1>1, <1>2, <2>1, <2>2
<1>5. \A n \in 1 .. D : term[n] = s[n] * Power(Ten, D - n)
  OBVIOUS
<1> HIDE DEF term
<1>6. PICK g \in [0 .. D -> Nat] : g[0] = 0 /\ \A n \in 1 .. D : g[n] = g[n - 1] + term[n]
  BY <1>1, <1>4, SumExists
<1>7. g = [n \in 0 .. D |-> IF n = 0 THEN 0 ELSE g[n - 1] + s[n] * Power(Ten, D - n)]
  BY <1>1, <1>5, <1>6
<1> DEFINE sum == CHOOSE f : f = [n \in 0 .. D |->
                    IF n = 0 THEN 0 ELSE f[n - 1] + s[n] * Power(Ten, D - n)]
<1>8. sum = [n \in 0 .. D |-> IF n = 0 THEN 0 ELSE sum[n - 1] + s[n] * Power(Ten, D - n)]
  BY <1>7
<1>9. Number(s) = sum[D]
  BY DEF Number, D
<1> HIDE DEF sum
<1>10. sum[0] = 0 /\ \A n \in 1 .. D : sum[n] = sum[n - 1] + s[n] * Power(Ten, D - n)
  <2>1. 0 \in 0 .. D /\ \A n \in 1 .. D : n \in 0 .. D /\ n # 0
    BY <1>1
  <2> QED
    BY <1>8, <2>1
<1> DEFINE step == [n \in Nat |-> [p \in Nat |-> IF n \in 1 .. D THEN p * Ten + s[n] ELSE 0]]
<1>11. step \in [Nat -> [Nat -> Nat]]
  BY <1>1
<1>12. PICK h \in [0 .. D -> Nat] : RecursTo(D, 0, step, h)
  <2>1. 0 \in Nat
    OBVIOUS
  <2> HIDE DEF step
  <2> QED
    BY <1>1, <1>11, <2>1, RecursionTo
<1>13. h[0] = 0 /\ \A n \in 1 .. D : h[n] = h[n - 1] * Ten + s[n]
  <2>1. ASSUME NEW n \in 1 .. D PROVE h[n] = h[n - 1] * Ten + s[n]
    <3>1. n \in Nat /\ n - 1 \in 0 .. D
      BY <1>1
    <3>2. h[n - 1] \in Nat
      BY <3>1
    <3>3. step[n][h[n - 1]] = h[n - 1] * Ten + s[n]
      BY <3>1, <3>2
    <3> HIDE DEF step
    <3> QED
      BY <1>12, <3>3 DEF RecursTo
  <2> HIDE DEF step
  <2> QED
    BY <1>12, <2>1 DEF RecursTo
<1> HIDE DEF step
<1> DEFINE S == {n \in 0 .. D : sum[n] = h[n] * Power(Ten, D - n)}
<1>14. 0 \in S
  <2>1. D - 0 = D /\ Power(Ten, D) \in Nat
    BY <1>1, <1>2
  <2> QED
    BY <1>1, <1>10, <1>13, <2>1
<1>15. ASSUME NEW n \in S, n < D PROVE n + 1 \in S
  <2>1. n \in 0 .. D /\ n + 1 \in 1 .. D /\ n + 1 - 1 = n /\ D - (n + 1) \in Nat
        /\ D - n = D - (n + 1) + 1
    BY <1>1, <1>15
  <2> DEFINE p == Power(Ten, D - (n + 1))
  <2>2. p \in Nat /\ Power(Ten, D - n) = Ten * p
    BY <1>2, <2>1
  <2>3. sum[n + 1] = h[n] * (Ten * p) + s[n + 1] * p
    BY <1>10, <2>1, <2>2
  <2>4. h[n] \in Nat /\ s[n + 1] \in Nat /\ h[n + 1] = h[n] * Ten + s[n + 1]
    <3>1. h[n] \in Nat
      BY <2>1
    <3>2. s[n + 1] \in Nat
      BY <1>1, <2>1
    <3>3. h[n + 1] = h[n + 1 - 1] * Ten + s[n + 1]
      BY <1>13, <2>1
    <3> QED
      BY <2>1, <3>1, <3>2, <3>3
  <2> HIDE DEF p
  <2>5. \A a, b, t \in Nat : a * (t * p) + b * p = (a * t + b) * p
    BY <2>2
  <2>6. sum[n + 1] = h[n + 1] * p
    <3>1. h[n] * (Ten * p) + s[n + 1] * p = (h[n] * Ten + s[n + 1]) * p
      BY <1>1, <2>4, <2>5
    <3> QED
      BY <2>3, <2>4, <3>1 DEF p
  <2> QED
    BY <2>1, <2>6 DEF p
<1> HIDE DEF S
<1>16. S = 0 .. D
  <2>1. S \in SUBSET (0 .. D)
    BY DEF S
  <2> QED
    BY <1>1, <1>14, <1>15, <2>1, RangeInduction
<1>17. sum[D] = h[D]
  <2>1. D \in S /\ D - D = 0 /\ h[D] \in Nat
    BY <1>1, <1>16
  <2> QED
    BY <1>3, <2>1 DEF S
<1> QED
  BY <1>9, <1>12, <1>13, <1>17 DEF D

\* The results of a loop that has looked at a slice
Loops(s) == [v : 0 .. kMaxUint64, digits : 0 .. Len(s), ends : BOOLEAN, fails : BOOLEAN]

\* The test of ConsumeDecimalNumber() before each digit fails exactly when the number
\* with that digit exceeds kMaxUint64 (logging.h, "Overflow check").
LEMMA OverflowsIf ==
  ASSUME NEW v \in 0 .. kMaxUint64, NEW c \in 0 .. Ten - 1
  PROVE  Overflows(v, c) <=> v * Ten + c > kMaxUint64
<1> DEFINE q == kMaxUint64 \div Ten
           r == kMaxUint64 % Ten
<1>1. Ten \in Nat /\ Ten > 1 /\ kMaxUint64 \in Nat /\ v \in Nat /\ c \in Nat /\ c < Ten
  BY DecimalAssumption
<1>2. q \in Nat /\ r \in Nat /\ r < Ten /\ kMaxUint64 = Ten * q + r
  BY <1>1
<1>3. Overflows(v, c) <=> v > q \/ (v = q /\ c > r)
  BY DEF Overflows
<1> HIDE DEF q, r
<1>4. CASE v > q
  <2>1. v * Ten >= (q + 1) * Ten
    BY <1>1, <1>2, <1>4
  <2>2. (q + 1) * Ten = Ten * q + Ten
    BY <1>1, <1>2
  <2>3. v * Ten \in Nat /\ Ten * q \in Nat
    BY <1>1, <1>2
  <2> QED
    BY <1>1, <1>2, <1>3, <1>4, <2>1, <2>2, <2>3
<1>5. CASE v = q
  <2>1. v * Ten = Ten * q /\ Ten * q \in Nat
    BY <1>1, <1>2, <1>5
  <2> QED
    BY <1>1, <1>2, <1>3, <1>5, <2>1
<1>6. CASE v < q
  <2>1. (v + 1) * Ten <= Ten * q
    BY <1>1, <1>2, <1>6
  <2>2. (v + 1) * Ten = v * Ten + Ten
    BY <1>1, <1>2
  <2>3. v * Ten \in Nat /\ Ten * q \in Nat
    BY <1>1, <1>2
  <2> QED
    BY <1>1, <1>2, <1>3, <1>6, <2>1, <2>2, <2>3
<1> QED
  BY <1>1, <1>2, <1>4, <1>5, <1>6

\* One turn of the loop: it ends, fails, or takes a digit.
LEMMA TurnIs ==
  ASSUME NEW s \in Seq(Nat), NEW l \in Loops(s)
  PROVE  /\ Turn(s, l) \in Loops(s)
         /\ l.digits = Len(s) \/ s[l.digits + 1] >= Ten
              => Turn(s, l) = [l EXCEPT !.ends = TRUE]
         /\ l.digits < Len(s) /\ s[l.digits + 1] < Ten
              => LET next == l.v * Ten + s[l.digits + 1]
                 IN  Turn(s, l) = IF next > kMaxUint64 THEN [l EXCEPT !.fails = TRUE]
                                  ELSE [l EXCEPT !.v = next, !.digits = @ + 1]
<1>1. Ten \in Nat /\ kMaxUint64 \in Nat
  BY DecimalAssumption
<1>2. l.v \in 0 .. kMaxUint64 /\ l.digits \in 0 .. Len(s)
  BY DEF Loops
<1>3. l.digits < Len(s) => s[l.digits + 1] \in Nat
  BY <1>2
<1>4. ASSUME l.digits = Len(s) \/ s[l.digits + 1] >= Ten
      PROVE  Turn(s, l) = [l EXCEPT !.ends = TRUE] /\ Turn(s, l) \in Loops(s)
  <2>1. Turn(s, l) = [l EXCEPT !.ends = TRUE]
    BY <1>4 DEF Turn
  <2>2. [l EXCEPT !.ends = TRUE] \in Loops(s)
    BY DEF Loops
  <2> QED
    BY <2>1, <2>2
<1> DEFINE next == l.v * Ten + s[l.digits + 1]
<1>5. ASSUME l.digits < Len(s), s[l.digits + 1] < Ten
      PROVE  /\ Turn(s, l) = IF next > kMaxUint64 THEN [l EXCEPT !.fails = TRUE]
                             ELSE [l EXCEPT !.v = next, !.digits = @ + 1]
             /\ Turn(s, l) \in Loops(s)
  <2> DEFINE c == s[l.digits + 1]
  <2>1. c \in 0 .. Ten - 1 /\ c \in Nat /\ l.digits + 1 \in 0 .. Len(s)
    BY <1>1, <1>2, <1>3, <1>5
  <2>2. Overflows(l.v, c) <=> next > kMaxUint64
    BY <1>2, <2>1, OverflowsIf
  <2>3. next \in Nat
    <3>1. l.v \in Nat
      BY <1>1, <1>2
    <3>2. \A a, b, d \in Nat : a * b + d \in Nat
      OBVIOUS
    <3> QED
      BY <1>1, <2>1, <3>1, <3>2
  <2>4. ~(l.digits = Len(s) \/ c >= Ten)
    BY <1>1, <1>2, <1>5, <2>1
  <2>5. Turn(s, l) = IF next > kMaxUint64 THEN [l EXCEPT !.fails = TRUE]
                     ELSE [l EXCEPT !.v = next, !.digits = @ + 1]
    BY <2>2, <2>4 DEF Turn
  <2> HIDE DEF c, next
  <2>6. CASE next > kMaxUint64
    <3>1. [l EXCEPT !.fails = TRUE] \in Loops(s)
      BY DEF Loops
    <3> QED
      BY <2>5, <2>6, <3>1
  <2>7. CASE ~(next > kMaxUint64)
    <3>1. next \in 0 .. kMaxUint64
      BY <1>1, <2>3, <2>7
    <3>2. [l EXCEPT !.v = next, !.digits = @ + 1] \in Loops(s)
      BY <2>1, <3>1 DEF Loops
    <3> QED
      BY <2>5, <2>7, <3>2
  <2> QED
    BY <2>5, <2>6, <2>7
<1>6. Turn(s, l) \in Loops(s)
  BY <1>1, <1>2, <1>3, <1>4, <1>5
<1> QED
  BY <1>4, <1>5, <1>6

\* The loop takes all digits and their number, or fails when they are too many: the
\* number of the first digits never exceeds that of all.
LEMMA LoopIs ==
  ASSUME NEW s \in Seq(Nat)
  PROVE  /\ Loop(s) \in Loops(s)
         /\ Loop(s).fails => Number(s) > kMaxUint64 /\ Digits(s) > 0
         /\ ~Loop(s).fails => /\ Loop(s).digits = Digits(s)
                              /\ Loop(s).v = Number(s) /\ Number(s) <= kMaxUint64
<1> DEFINE N == Len(s) + 1
           first == [v |-> 0, digits |-> 0, ends |-> FALSE, fails |-> FALSE]
           D == Digits(s)
<1>1. N \in Nat /\ Ten \in Nat /\ Ten > 1 /\ kMaxUint64 \in Nat /\ Len(s) \in Nat
  BY DecimalAssumption
<1>2. first \in Loops(s)
  BY <1>1 DEF Loops
<1> DEFINE step == [n \in Nat |-> [l \in Loops(s) |->
                      IF l.ends \/ l.fails THEN l ELSE Turn(s, l)]]
<1>3. step \in [Nat -> [Loops(s) -> Loops(s)]]
  BY TurnIs
<1>4. PICK g \in [0 .. N -> Loops(s)] : RecursTo(N, first, step, g)
  <2> HIDE DEF step, first, N
  <2> QED
    BY <1>1, <1>2, <1>3, RecursionTo
<1>5. g = [n \in 0 .. N |->
             IF n = 0 THEN first
             ELSE IF g[n - 1].ends \/ g[n - 1].fails THEN g[n - 1] ELSE Turn(s, g[n - 1])]
  <2>1. ASSUME NEW n \in 1 .. N
        PROVE  g[n] = IF g[n - 1].ends \/ g[n - 1].fails THEN g[n - 1] ELSE Turn(s, g[n - 1])
    <3>1. n - 1 \in 0 .. N /\ n \in Nat
      BY <1>1
    <3>2. g[n - 1] \in Loops(s)
      BY <3>1
    <3>3. step[n][g[n - 1]] = IF g[n - 1].ends \/ g[n - 1].fails THEN g[n - 1]
                              ELSE Turn(s, g[n - 1])
      BY <3>1, <3>2
    <3> HIDE DEF step, first, N
    <3> QED
      BY <1>4, <3>3 DEF RecursTo
  <2> HIDE DEF step, first, N
  <2>2. g[0] = first
    BY <1>4 DEF RecursTo
  <2> QED
    BY <1>1, <2>1, <2>2
<1> HIDE DEF step
<1> DEFINE turns == CHOOSE f : f = [n \in 0 .. N |->
             IF n = 0 THEN first
             ELSE IF f[n - 1].ends \/ f[n - 1].fails THEN f[n - 1] ELSE Turn(s, f[n - 1])]
<1>6. turns = [n \in 0 .. N |->
             IF n = 0 THEN first
             ELSE IF turns[n - 1].ends \/ turns[n - 1].fails THEN turns[n - 1]
             ELSE Turn(s, turns[n - 1])]
  BY <1>5
<1>7. Loop(s) = turns[N]
  BY DEF Loop
<1> HIDE DEF turns, N
<1>8. turns[0] = first
  <2>1. 0 \in 0 .. N
    BY <1>1
  <2> HIDE DEF first
  <2> QED
    BY <1>6, <2>1
<1>9. ASSUME NEW n \in 0 .. N, n < N
      PROVE  turns[n + 1] = IF turns[n].ends \/ turns[n].fails THEN turns[n]
                            ELSE Turn(s, turns[n])
  <2>1. n + 1 \in 0 .. N /\ n + 1 # 0 /\ n + 1 - 1 = n
    BY <1>1, <1>9
  <2> HIDE DEF first
  <2> QED
    BY <1>6, <2>1
<1>10. /\ D \in 0 .. Len(s) /\ D \in Nat
       /\ \A i \in 1 .. D : s[i] < Ten
       /\ D < Len(s) => s[D + 1] >= Ten
  BY DigitsAre
<1>11. PICK h \in [0 .. D -> Nat] :
         /\ h[0] = 0 /\ \A n \in 1 .. D : h[n] = h[n - 1] * Ten + s[n]
         /\ Number(s) = h[D]
  BY NumberIs
<1> HIDE DEF D
<1>12. \A n \in 0 .. D : h[n] <= h[D]
  <2> DEFINE S == {m \in 0 .. D : \A n \in 0 .. m : h[n] <= h[m]}
  <2>1. 0 \in S
    <3>1. 0 \in 0 .. D /\ \A n \in 0 .. 0 : n = 0
      BY <1>10
    <3>2. h[0] <= h[0]
      BY <1>11
    <3> QED
      BY <3>1, <3>2
  <2>2. ASSUME NEW m \in S, m < D PROVE m + 1 \in S
    <3>1. m \in 0 .. D /\ m + 1 \in 1 .. D /\ m + 1 \in 0 .. D /\ m + 1 - 1 = m
      BY <1>10, <2>2
    <3>2. h[m] \in Nat /\ s[m + 1] \in Nat /\ h[m + 1] \in Nat
      BY <1>10, <3>1
    <3>3. h[m + 1] = h[m] * Ten + s[m + 1]
      BY <1>11, <3>1
    <3>4. \A a, b, t \in Nat : t > 1 => a * t + b >= a
      OBVIOUS
    <3>5. h[m] <= h[m + 1]
      BY <1>1, <3>2, <3>3, <3>4
    <3>6. ASSUME NEW n \in 0 .. m + 1 PROVE h[n] <= h[m + 1]
      <4>1. CASE n \in 0 .. m
        <5>1. h[n] <= h[m] /\ h[n] \in Nat
          BY <1>10, <3>1, <4>1
        <5> QED
          BY <3>2, <3>5, <5>1
      <4>2. CASE n = m + 1
        BY <3>2, <4>2
      <4> QED
        BY <1>10, <3>1, <4>1, <4>2
    <3> QED
      BY <3>1, <3>6
  <2>3. S \in SUBSET (0 .. D)
    OBVIOUS
  <2>4. \A m \in S : \A n \in 0 .. m : h[n] <= h[m]
    OBVIOUS
  <2> HIDE DEF S
  <2>5. S = 0 .. D
    BY <1>10, <2>1, <2>2, <2>3, RangeInduction
  <2> QED
    BY <1>10, <2>4, <2>5
<1> DEFINE Good(l, n) ==
             /\ l \in Loops(s)
             /\ l.fails => h[D] > kMaxUint64 /\ D > 0
             /\ ~l.fails => /\ l.digits <= D /\ l.v = h[l.digits]
                            /\ l.ends => l.digits = D
                            /\ ~l.ends => l.digits = n
           S == {n \in 0 .. N : Good(turns[n], n)}
<1>13. 0 \in S
  <2>1. Good(first, 0)
    BY <1>2, <1>10, <1>11
  <2> HIDE DEF first, Good
  <2>2. 0 \in 0 .. N
    BY <1>1 DEF N
  <2> QED
    BY <1>8, <2>1, <2>2
<1>14. ASSUME NEW n \in S, n < N PROVE n + 1 \in S
  <2> HIDE DEF first
  <2> DEFINE l == turns[n]
  <2>1. n \in 0 .. N /\ n + 1 \in 0 .. N /\ Good(l, n)
    BY <1>1, <1>14 DEF N
  <2>2. turns[n + 1] = IF l.ends \/ l.fails THEN l ELSE Turn(s, l)
    BY <1>9, <1>14, <2>1
  <2> HIDE DEF l, S
  <2>3. CASE l.ends \/ l.fails
    <3>1. Good(l, n + 1)
      BY <2>1, <2>3 DEF Loops
    <3> HIDE DEF Good
    <3> QED
      BY <2>1, <2>2, <2>3, <3>1 DEF S
  <2>4. CASE ~l.ends /\ ~l.fails
    <3>1. /\ l \in Loops(s) /\ l.digits = n /\ n <= D /\ l.v = h[n] /\ n \in Nat
          /\ l.fails = FALSE /\ l.ends = FALSE
      BY <2>1, <2>4, <1>1 DEF Loops, N
    <3>2. CASE n = D
      <4>1. l.digits = Len(s) \/ s[l.digits + 1] >= Ten
        <5>1. CASE D = Len(s)
          BY <3>1, <3>2, <5>1
        <5>2. CASE D < Len(s)
          BY <1>10, <3>1, <3>2, <5>2
        <5> QED
          BY <1>1, <1>10, <5>1, <5>2
      <4>2. Turn(s, l) = [l EXCEPT !.ends = TRUE] /\ Turn(s, l) \in Loops(s)
        BY <3>1, <4>1, TurnIs
      <4>3. Good(Turn(s, l), n + 1)
        BY <1>10, <3>1, <3>2, <4>2 DEF Loops
      <4> HIDE DEF Good
      <4> QED
        BY <2>1, <2>2, <2>4, <4>3 DEF S
    <3>3. CASE n < D
      <4>1. n + 1 \in 1 .. D /\ n + 1 \in 0 .. D /\ n < Len(s) /\ n + 1 - 1 = n
        BY <1>10, <3>1, <3>3
      <4>2. s[n + 1] < Ten /\ h[n + 1] = h[n] * Ten + s[n + 1] /\ h[n + 1] \in Nat
            /\ h[n + 1] <= h[D] /\ h[D] \in Nat
        <5>1. s[n + 1] < Ten
          BY <1>10, <4>1
        <5>2. h[n + 1] = h[n] * Ten + s[n + 1]
          BY <1>11, <3>1, <4>1
        <5>3. h[n + 1] \in Nat /\ h[n + 1] <= h[D] /\ h[D] \in Nat
          BY <1>10, <1>12, <4>1
        <5> QED
          BY <4>1, <5>1, <5>2, <5>3
      <4>3. Turn(s, l) = IF h[n + 1] > kMaxUint64 THEN [l EXCEPT !.fails = TRUE]
                         ELSE [l EXCEPT !.v = h[n + 1], !.digits = n + 1]
        <5>1. l.digits < Len(s) /\ s[l.digits + 1] < Ten
          BY <3>1, <4>1, <4>2
        <5>2. l.v * Ten + s[l.digits + 1] = h[n + 1] /\ l.digits + 1 = n + 1
          BY <3>1, <4>2
        <5>3. l \in Loops(s)
          BY <3>1
        <5>4. LET next == l.v * Ten + s[l.digits + 1]
              IN  Turn(s, l) = IF next > kMaxUint64 THEN [l EXCEPT !.fails = TRUE]
                               ELSE [l EXCEPT !.v = next, !.digits = @ + 1]
          BY <5>1, <5>3, TurnIs
        <5> HIDE DEF Good
        <5> QED
          BY <5>2, <5>4
      <4>4. Turn(s, l) \in Loops(s)
        BY <3>1, TurnIs
      <4>5. CASE h[n + 1] > kMaxUint64
        <5>1. Turn(s, l).fails /\ h[D] > kMaxUint64 /\ D > 0
          BY <1>1, <1>10, <3>1, <3>3, <4>2, <4>3, <4>5 DEF Loops
        <5>2. Good(Turn(s, l), n + 1)
          BY <4>4, <5>1
        <5> HIDE DEF Good
        <5> QED
          BY <2>1, <2>2, <2>4, <5>2 DEF S
      <4>6. CASE ~(h[n + 1] > kMaxUint64)
        <5>1. /\ Turn(s, l).digits = n + 1 /\ Turn(s, l).v = h[n + 1]
              /\ Turn(s, l).fails = FALSE /\ Turn(s, l).ends = FALSE
          BY <3>1, <4>3, <4>6 DEF Loops
        <5>2. Good(Turn(s, l), n + 1)
          BY <1>10, <3>1, <3>3, <4>4, <5>1
        <5> HIDE DEF Good
        <5> QED
          BY <2>1, <2>2, <2>4, <5>2 DEF S
      <4> QED
        BY <4>5, <4>6
    <3> QED
      BY <1>10, <3>1, <3>2, <3>3
  <2> QED
    BY <2>3, <2>4
<1>15. Good(turns[N], N)
  <2>1. S \in SUBSET (0 .. N) /\ \A n \in S : Good(turns[n], n)
    OBVIOUS
  <2> HIDE DEF S, Good
  <2>2. S = 0 .. N
    BY <1>1, <1>13, <1>14, <2>1, RangeInduction DEF N
  <2> QED
    BY <1>1, <2>1, <2>2 DEF N
<1>16. ~turns[N].fails => turns[N].ends
  <2>1. turns[N] \in Loops(s) /\ turns[N].digits \in 0 .. Len(s)
    BY <1>15 DEF Loops
  <2> QED
    BY <1>1, <1>15, <2>1 DEF N
<1>17. turns[N].v \in 0 .. kMaxUint64
  BY <1>15 DEF Loops
<1>18. ~turns[N].fails => /\ turns[N].digits = D /\ turns[N].v = h[D]
                          /\ h[D] <= kMaxUint64
  BY <1>1, <1>15, <1>16, <1>17
<1> QED
  BY <1>7, <1>11, <1>15, <1>18 DEF D

-----------------------------------------------------------------------------
(* ConsumeDecimalNumber: the invariant *)

\* The type of the state
DecimalTypes ==
  /\ in \in Seq(Nat) /\ begin \in Seq(Nat) /\ val \in Nat /\ ok \in BOOLEAN

\* At the start nothing was consumed yet.
LEMMA DecimalStart == DecimalInit => DecimalTypes /\ NumbersConsumed
<1> SUFFICES ASSUME DecimalInit PROVE DecimalTypes /\ NumbersConsumed
  OBVIOUS
<1>1. in \in Seq(Characters) /\ Characters \subseteq Nat
  BY DecimalAssumption DEF DecimalInit
<1>2. in \in Seq(Nat)
  <2>1. Len(in) \in Nat /\ DOMAIN in = 1 .. Len(in)
    BY <1>1
  <2>2. \A i \in 1 .. Len(in) : in[i] \in Nat
    <3>1. \A i \in 1 .. Len(in) : in[i] \in Characters
      BY <1>1
    <3> QED
      BY <1>1, <3>1
  <2>3. in = [i \in 1 .. Len(in) |-> in[i]]
    BY <1>1
  <2>4. [i \in 1 .. Len(in) |-> in[i]] \in Seq(Nat)
    BY <2>1, <2>2
  <2> QED
    BY <2>3, <2>4
<1> QED
  BY <1>2 DEF DecimalInit, DecimalTypes, NumbersConsumed

\* ConsumeDecimalNumber() and ConsumeChar() preserve the property.
LEMMA DecimalStep ==
  DecimalTypes /\ NumbersConsumed /\ [DecimalNext]_decimalVars
    => DecimalTypes' /\ NumbersConsumed'
<1> SUFFICES ASSUME DecimalTypes, NumbersConsumed, [DecimalNext]_decimalVars
             PROVE  DecimalTypes' /\ NumbersConsumed'
  OBVIOUS
<1>1. CASE ConsumeDecimalNumber
  <2> DEFINE l == Loop(in)
  <2>1. in \in Seq(Nat) /\ val \in Nat
    BY DEF DecimalTypes
  <2>2. /\ l \in Loops(in)
        /\ l.fails => Number(in) > kMaxUint64 /\ Digits(in) > 0
        /\ ~l.fails => l.digits = Digits(in) /\ l.v = Number(in) /\ Number(in) <= kMaxUint64
    BY <2>1, LoopIs
  <2>3. /\ in' = SubSeq(in, l.digits + 1, Len(in))
        /\ val' = IF l.fails THEN val ELSE l.v
        /\ ok' = (~l.fails /\ l.digits > 0)
        /\ begin' = in
    BY <1>1 DEF ConsumeDecimalNumber
  <2> HIDE DEF l
  <2>4. l.v \in Nat /\ l.digits \in Nat /\ l.fails \in BOOLEAN /\ Len(in) \in Nat
    BY <2>1, <2>2, DecimalAssumption DEF Loops
  <2>5. SubSeq(in, l.digits + 1, Len(in)) \in Seq(Nat)
    BY <2>1, <2>4
  <2>6. DecimalTypes'
    BY <2>1, <2>3, <2>4, <2>5 DEF DecimalTypes
  <2>7. l.fails => ~(Number(in) <= kMaxUint64)
    <3>1. ASSUME l.fails PROVE Number(in) \in Nat
      <4>1. PICK h \in [0 .. Digits(in) -> Nat] : Number(in) = h[Digits(in)]
        BY <2>1, NumberIs
      <4>2. Digits(in) \in 0 .. Len(in)
        BY <2>1, DigitsAre
      <4> QED
        BY <2>4, <4>1, <4>2
    <3> QED
      BY <2>2, <3>1, DecimalAssumption
  <2>8. NumbersConsumed'
    <3>1. CASE l.fails
      BY <2>3, <2>7, <3>1 DEF NumbersConsumed
    <3>2. CASE ~l.fails
      BY <2>2, <2>3, <3>2 DEF NumbersConsumed
    <3> QED
      BY <3>1, <3>2
  <2> QED
    BY <2>6, <2>8
<1>2. ASSUME NEW c \in Characters, ConsumeChar(c)
      PROVE  DecimalTypes' /\ NumbersConsumed'
  <2>1. begin' = <<>> /\ val' = val /\ ok' \in BOOLEAN
    BY <1>2 DEF ConsumeChar, DecimalTypes
  <2>2. in' \in Seq(Nat)
    <3>1. in # <<>> => Tail(in) \in Seq(Nat)
      BY DEF DecimalTypes
    <3>2. in' = in \/ (in # <<>> /\ in' = Tail(in))
      BY <1>2 DEF ConsumeChar
    <3> QED
      BY <3>1, <3>2 DEF DecimalTypes
  <2> QED
    BY <2>1, <2>2 DEF DecimalTypes, NumbersConsumed
<1>3. CASE UNCHANGED decimalVars
  BY <1>3 DEF decimalVars, DecimalTypes, NumbersConsumed
<1> QED
  BY <1>1, <1>2, <1>3 DEF DecimalNext

\* ConsumeDecimalNumber() takes exactly the digits that *in begins with, and their
\* number, or says that there is none that fits (logging.h), for strings of any length.
THEOREM DecimalsAreConsumed == DecimalSpec => []NumbersConsumed
<1>1. DecimalSpec => [](DecimalTypes /\ NumbersConsumed)
  BY DecimalStart, DecimalStep, PTL DEF DecimalSpec
<1> QED
  BY <1>1, PTL

-----------------------------------------------------------------------------
(* Coding: division and powers *)

\* Division with remainder
LEMMA DivMod ==
  ASSUME NEW a \in Nat, NEW b \in Nat, b > 0
  PROVE  /\ a \div b \in Nat /\ a % b \in Nat /\ a % b < b
         /\ a = (a \div b) * b + (a % b)
<1>1. a = b * (a \div b) + (a % b)
  OBVIOUS
<1>2. a \div b \in Nat /\ a % b \in Nat /\ a % b < b
  OBVIOUS
<1>3. b * (a \div b) = (a \div b) * b
  BY <1>2
<1> QED
  BY <1>1, <1>2, <1>3

\* Quotient and remainder are the only ones.
LEMMA Quotient ==
  ASSUME NEW q \in Nat, NEW b \in Nat, NEW r \in Nat, r < b
  PROVE  (q * b + r) \div b = q /\ (q * b + r) % b = r
<1> DEFINE a == q * b + r
<1>1. a \in Nat
  OBVIOUS
<1>2. /\ a \div b \in Nat /\ a % b \in Nat /\ a % b < b
      /\ a = (a \div b) * b + (a % b)
  <2>1. b > 0
    OBVIOUS
  <2> HIDE DEF a
  <2> QED
    BY <1>1, <2>1, DivMod
<1> DEFINE x == a \div b
           y == a % b
<1>3. x * b + y = q * b + r /\ x \in Nat /\ y \in Nat /\ y < b
  BY <1>2
<1> HIDE DEF x, y
<1>4. ~(x < q)
  <2>1. SUFFICES ASSUME x < q PROVE FALSE
    OBVIOUS
  <2>2. (q - x) * b >= b
    BY <1>3, <2>1
  <2>3. q * b = x * b + (q - x) * b
    BY <1>3
  <2> QED
    BY <1>3, <2>2, <2>3
<1>5. ~(q < x)
  <2>1. SUFFICES ASSUME q < x PROVE FALSE
    OBVIOUS
  <2>2. (x - q) * b >= b
    BY <1>3, <2>1
  <2>3. x * b = q * b + (x - q) * b
    BY <1>3
  <2> QED
    BY <1>3, <2>2, <2>3
<1> QED
  BY <1>3, <1>4, <1>5 DEF x, y

\* To shift twice is to shift once, and the remainder is made of the remainders.
LEMMA Dividing ==
  ASSUME NEW v \in Nat, NEW b \in Nat, NEW p \in Nat, b > 0, p > 0
  PROVE  /\ (v \div p) \div b = v \div (b * p)
         /\ (v \div b) \div p = v \div (b * p)
         /\ v % (b * p) = (v % p) + ((v \div p) % b) * p
<1>1. ASSUME NEW x \in Nat, NEW y \in Nat, x > 0, y > 0
      PROVE  /\ (v \div y) \div x = v \div (x * y)
             /\ v % (x * y) = (v % y) + ((v \div y) % x) * y
  <2> DEFINE q == v \div y
             r == v % y
             s == q \div x
             t == q % x
  <2>1. q \in Nat /\ r \in Nat /\ r < y /\ v = q * y + r
    BY <1>1, DivMod
  <2> HIDE DEF q, r
  <2>2. s \in Nat /\ t \in Nat /\ t < x /\ q = s * x + t
    BY <1>1, <2>1, DivMod
  <2> HIDE DEF s, t
  <2>3. v = s * (x * y) + (t * y + r)
    <3>1. q * y = s * (x * y) + t * y
      BY <2>1, <2>2
    <3> QED
      BY <2>1, <2>2, <3>1
  <2>4. t * y + r \in Nat /\ t * y + r < x * y
    <3>1. (t + 1) * y <= x * y
      BY <2>2
    <3>2. (t + 1) * y = t * y + y /\ t * y \in Nat /\ x * y \in Nat
      BY <2>2
    <3> QED
      BY <2>1, <3>1, <3>2
  <2>5. x * y \in Nat
    OBVIOUS
  <2>6. v \div (x * y) = s /\ v % (x * y) = t * y + r
    <3> DEFINE z == x * y
               w == t * y + r
    <3>1. z \in Nat /\ w \in Nat /\ w < z /\ v = s * z + w
      BY <2>3, <2>4, <2>5
    <3> HIDE DEF z, w
    <3>2. v \div z = s /\ v % z = w
      BY <2>2, <3>1, Quotient
    <3> QED
      BY <3>2 DEF z, w
  <2> QED
    BY <2>1, <2>2, <2>6 DEF q, r, s, t
<1>2. b * p = p * b
  OBVIOUS
<1> QED
  BY <1>1, <1>2

\* Powers of two and more grow.
LEMMA PowerGrows ==
  ASSUME NEW b \in Nat, b > 1
  PROVE  /\ \A n \in Nat : Power(b, n) \in Nat /\ Power(b, n) > n
         /\ \A m, n \in Nat : m <= n => Power(b, m) <= Power(b, n)
<1>1. /\ Power(b, 0) = 1
      /\ \A n \in Nat : Power(b, n) \in Nat /\ Power(b, n + 1) = b * Power(b, n)
  BY PowerIs
<1>2. \A n \in Nat : Power(b, n) > n
  <2> DEFINE S == {n \in Nat : Power(b, n) > n}
  <2>1. 0 \in S
    BY <1>1
  <2>2. ASSUME NEW n \in S PROVE n + 1 \in S
    <3>1. Power(b, n) \in Nat /\ Power(b, n) > n /\ Power(b, n + 1) = b * Power(b, n)
      BY <1>1
    <3>2. \A p \in Nat : b * p >= 2 * p
      OBVIOUS
    <3>3. Power(b, n + 1) >= 2 * Power(b, n) /\ Power(b, n + 1) \in Nat
      <4>1. b * Power(b, n) >= 2 * Power(b, n)
        BY <3>1, <3>2
      <4>2. n + 1 \in Nat
        OBVIOUS
      <4>3. Power(b, n + 1) \in Nat
        BY <1>1, <4>2
      <4> QED
        BY <3>1, <4>1, <4>3
    <3>4. Power(b, n + 1) > n + 1
      BY <3>1, <3>3
    <3> QED
      BY <3>4
  <2>3. S \in SUBSET Nat /\ \A n \in S : Power(b, n) > n
    OBVIOUS
  <2> HIDE DEF S
  <2>4. S = Nat
    BY <2>1, <2>2, <2>3, Induction
  <2> QED
    BY <2>3, <2>4
<1>3. ASSUME NEW m \in Nat, NEW n \in Nat, m <= n PROVE Power(b, m) <= Power(b, n)
  <2> DEFINE S == {k \in Nat : Power(b, m) <= Power(b, m + k)}
  <2>1. 0 \in S
    BY <1>1
  <2>2. ASSUME NEW k \in S PROVE k + 1 \in S
    <3>1. m + k \in Nat /\ m + (k + 1) = m + k + 1
      OBVIOUS
    <3>2. Power(b, m + k) \in Nat /\ Power(b, m + (k + 1)) = b * Power(b, m + k)
          /\ Power(b, m) \in Nat /\ Power(b, m + (k + 1)) \in Nat
      BY <1>1, <3>1
    <3>3. \A p \in Nat : b * p >= p
      OBVIOUS
    <3>4. Power(b, m) <= Power(b, m + k)
      OBVIOUS
    <3>5. Power(b, m) <= Power(b, m + (k + 1))
      BY <3>2, <3>3, <3>4
    <3> QED
      BY <3>5
  <2>3. S \in SUBSET Nat /\ \A k \in S : Power(b, m) <= Power(b, m + k)
    OBVIOUS
  <2> HIDE DEF S
  <2>4. S = Nat
    BY <2>1, <2>2, <2>3, Induction
  <2>5. n - m \in Nat /\ m + (n - m) = n
    BY <1>3
  <2>6. Power(b, m) <= Power(b, m + (n - m))
    BY <2>3, <2>4, <2>5
  <2> QED
    BY <2>5, <2>6
<1> QED
  BY <1>1, <1>2, <1>3

\* The numbers that the codes are made with
LEMMA Bases == Base \in Nat /\ Base > 1 /\ 2 * Base \in Nat /\ 2 * Base > 1 /\ Base < 2 * Base
               /\ Max32 \in Nat /\ Max64 \in Nat
BY VarintAssumption

-----------------------------------------------------------------------------
(* Coding: groups *)

\* v takes n groups.
Groups(n, v) ==
  n \in Nat /\ n > 0 /\ v < Power(Base, n) /\ (n > 1 => v >= Power(Base, n - 1))

\* A number takes no two numbers of groups,
LEMMA GroupsUnique ==
  ASSUME NEW v \in Nat, NEW m, NEW n, Groups(m, v), Groups(n, v)
  PROVE  m = n
<1>1. ASSUME NEW i \in Nat, NEW j \in Nat, Groups(i, v), Groups(j, v) PROVE ~(i < j)
  <2> SUFFICES ASSUME i < j PROVE FALSE
    OBVIOUS
  <2>1. v < Power(Base, i) /\ v >= Power(Base, j - 1) /\ j - 1 \in Nat /\ i <= j - 1
    BY <1>1 DEF Groups
  <2>2. Power(Base, i) <= Power(Base, j - 1)
    BY <2>1, Bases, PowerGrows
  <2>3. Power(Base, i) \in Nat /\ Power(Base, j - 1) \in Nat
    BY <2>1, Bases, PowerGrows
  <2> QED
    BY <2>1, <2>2, <2>3
<1> QED
  BY <1>1 DEF Groups

\* and some number of groups.
LEMMA GroupsExist ==
  ASSUME NEW v \in Nat
  PROVE  \E n : Groups(n, v)
<1> DEFINE S == {n \in Nat : n > 0 /\ v < Power(Base, n)}
<1>1. v + 1 \in S
  <2>1. v + 1 \in Nat /\ Power(Base, v + 1) > v + 1 /\ Power(Base, v + 1) \in Nat
    BY Bases, PowerGrows
  <2> QED
    BY <2>1
<1>2. S \in SUBSET Nat /\ S # {}
  BY <1>1
<1> HIDE DEF S
<1>3. PICK n \in S : \A k \in S : n <= k
  BY <1>2, LeastNatural
<1>4. n \in Nat /\ n > 0 /\ v < Power(Base, n)
  BY DEF S
<1>5. ASSUME n > 1 PROVE v >= Power(Base, n - 1)
  <2>1. n - 1 \in Nat /\ n - 1 > 0 /\ ~(n <= n - 1)
    BY <1>4, <1>5
  <2>2. ~(v < Power(Base, n - 1))
    BY <1>3, <2>1 DEF S
  <2>3. Power(Base, n - 1) \in Nat
    BY <2>1, Bases, PowerGrows
  <2> QED
    BY <2>2, <2>3
<1> QED
  BY <1>4, <1>5 DEF Groups

\* It takes one more than its quotient.
LEMMA GroupsStep ==
  ASSUME NEW v \in Nat
  PROVE  /\ v < Base => Groups(1, v)
         /\ v >= Base => \A n : Groups(n, v \div Base) => Groups(n + 1, v)
<1>1. /\ Power(Base, 0) = 1
      /\ \A n \in Nat : Power(Base, n) \in Nat /\ Power(Base, n + 1) = Base * Power(Base, n)
  BY Bases, PowerIs
<1>2. Power(Base, 1) = Base
  <2>1. Power(Base, 0 + 1) = Base * Power(Base, 0)
    BY <1>1
  <2> QED
    BY <1>1, <2>1, Bases
<1>3. v < Base => Groups(1, v)
  BY <1>2 DEF Groups
<1>4. ASSUME v >= Base, NEW n, Groups(n, v \div Base) PROVE Groups(n + 1, v)
  <2> DEFINE q == v \div Base
             r == v % Base
  <2>1. q \in Nat /\ r \in Nat /\ r < Base /\ v = q * Base + r
    BY Bases, DivMod
  <2> HIDE DEF q, r
  <2>2. n \in Nat /\ n > 0 /\ q < Power(Base, n) /\ (n > 1 => q >= Power(Base, n - 1))
    BY <1>4 DEF Groups, q
  <2>3. v < Power(Base, n + 1)
    <3>1. \A p \in Nat : q < p => q * Base + r < Base * p
      <4>1. ASSUME NEW p \in Nat, q < p PROVE q * Base + r < Base * p
        <5>1. (q + 1) * Base <= p * Base
          BY <2>1, <4>1, Bases
        <5>2. (q + 1) * Base = q * Base + Base /\ p * Base = Base * p
              /\ q * Base \in Nat /\ Base * p \in Nat
          BY <2>1, Bases
        <5> QED
          BY <2>1, <5>1, <5>2, Bases
      <4> QED
        BY <4>1
    <3> QED
      BY <1>1, <2>1, <2>2, <3>1
  <2>4. v >= Power(Base, n)
    <3>1. CASE n = 1
      BY <1>2, <1>4, <3>1
    <3>2. CASE n > 1
      <4>1. n - 1 \in Nat /\ n - 1 + 1 = n
        BY <2>2, <3>2
      <4>2. Power(Base, n) = Base * Power(Base, n - 1) /\ Power(Base, n - 1) \in Nat
        BY <1>1, <4>1
      <4>3. \A p \in Nat : q >= p => q * Base + r >= Base * p
        <5>1. ASSUME NEW p \in Nat, q >= p PROVE q * Base + r >= Base * p
          <6>1. q * Base >= p * Base /\ p * Base = Base * p /\ q * Base \in Nat
            BY <2>1, <5>1, Bases
          <6> QED
            BY <2>1, <6>1, Bases
        <5> QED
          BY <5>1
      <4> QED
        BY <2>1, <2>2, <3>2, <4>2, <4>3
    <3> QED
      BY <2>2, <3>1, <3>2
  <2> QED
    BY <2>2, <2>3, <2>4 DEF Groups
<1> QED
  BY <1>3, <1>4

\* Sequences with the same members are the same.
LEMMA SameSeq ==
  ASSUME NEW S, NEW s \in Seq(S), NEW t \in Seq(S), Len(s) = Len(t),
         \A i \in 1 .. Len(s) : s[i] = t[i]
  PROVE  s = t
<1>1. s = [i \in 1 .. Len(s) |-> s[i]] /\ t = [i \in 1 .. Len(t) |-> t[i]]
  OBVIOUS
<1> QED
  BY <1>1

\* The comparisons of encodeVarint32 find how many groups a number takes.
LEMMA Groups32Is ==
  ASSUME NEW v \in Nat, v < Max32
  PROVE  Groups(Groups32(v), v) /\ Groups32(v) \in 1 .. 5
<1>1. PICK n : Groups(n, v)
  BY GroupsExist
<1>2. n \in Nat /\ n > 0 /\ v < Power(Base, n) /\ (n > 1 => v >= Power(Base, n - 1))
  BY <1>1 DEF Groups
<1>3. /\ \A k \in Nat : Power(Base, k) \in Nat
      /\ \A j, k \in Nat : j <= k => Power(Base, j) <= Power(Base, k)
  BY Bases, PowerGrows
<1>4. n <= 5
  <2> SUFFICES ASSUME ~(n <= 5) PROVE FALSE
    OBVIOUS
  <2>1. n - 1 \in Nat /\ n > 1 /\ 5 <= n - 1 /\ 5 \in Nat
    BY <1>2
  <2>2. v >= Power(Base, n - 1) /\ Power(Base, 5) <= Power(Base, n - 1)
    BY <1>2, <1>3, <2>1
  <2>3. Max32 < Power(Base, 5)
    BY VarintAssumption
  <2>4. Power(Base, 5) \in Nat /\ Power(Base, n - 1) \in Nat
    BY <1>3, <2>1
  <2> QED
    BY <2>2, <2>3, <2>4, Bases
<1> DEFINE Is(m) == /\ m < 5 => v < Power(Base, m)
                    /\ \A k \in 1 .. m - 1 : v >= Power(Base, k)
<1>5. Is(n)
  <2>1. ASSUME NEW k \in 1 .. n - 1 PROVE v >= Power(Base, k)
    <3>1. k \in Nat /\ n - 1 \in Nat /\ k <= n - 1 /\ n > 1
      BY <1>2
    <3>2. Power(Base, k) <= Power(Base, n - 1) /\ Power(Base, k) \in Nat
          /\ Power(Base, n - 1) \in Nat
      BY <1>3, <3>1
    <3> QED
      BY <1>2, <3>1, <3>2
  <2> QED
    BY <1>2, <2>1
<1> DEFINE m == Groups32(v)
<1>6. m \in 1 .. 5 /\ Is(m)
  <2>1. n \in 1 .. 5
    BY <1>2, <1>4
  <2> QED
    BY <1>5, <2>1 DEF Groups32
<1> HIDE DEF m
<1>7. v < Power(Base, m)
  <2>1. CASE m < 5
    BY <1>6, <2>1
  <2>2. CASE m = 5
    BY <2>2, VarintAssumption, <1>3
  <2> QED
    BY <1>6, <2>1, <2>2
<1>8. m > 1 => v >= Power(Base, m - 1)
  <2>1. m > 1 => m - 1 \in 1 .. m - 1
    BY <1>6
  <2> QED
    BY <1>6, <2>1
<1> QED
  BY <1>6, <1>7, <1>8 DEF Groups, m

\* The bytes that n groups of v are written in
Code(n, v) ==
  [i \in 1 .. n |-> IF i < n THEN More(v \div Power(Base, i - 1)) ELSE v \div Power(Base, i - 1)]

\* The bytes of a number: only the last one has no flag.
LEMMA CodeIs ==
  ASSUME NEW v \in Nat, NEW n, Groups(n, v)
  PROVE  /\ n \in Nat /\ Code(n, v) \in Seq(CodedByte) /\ Len(Code(n, v)) = n
         /\ \A i \in 1 .. n :
              /\ Code(n, v)[i] = IF i < n THEN More(v \div Power(Base, i - 1))
                                 ELSE v \div Power(Base, i - 1)
              /\ Code(n, v)[i] < Base <=> i = n
              /\ Code(n, v)[i] % Base = (v \div Power(Base, i - 1)) % Base
<1>1. n \in Nat /\ n > 0 /\ v < Power(Base, n) /\ (n > 1 => v >= Power(Base, n - 1))
  BY DEF Groups
<1>2. \A k \in Nat : Power(Base, k) \in Nat /\ Power(Base, k) > 0
                     /\ Power(Base, k + 1) = Base * Power(Base, k)
  <2>1. ASSUME NEW k \in Nat PROVE Power(Base, k) \in Nat /\ Power(Base, k) > k
    BY Bases, PowerGrows
  <2>2. ASSUME NEW k \in Nat PROVE Power(Base, k + 1) = Base * Power(Base, k)
    BY Bases, PowerIs
  <2>3. ASSUME NEW k \in Nat PROVE Power(Base, k) > 0
    BY <2>1
  <2> QED
    BY <2>1, <2>2, <2>3
<1>3. ASSUME NEW i \in 1 .. n
      PROVE  LET q == v \div Power(Base, i - 1)
             IN  /\ q \in Nat /\ (i = n => q < Base)
                 /\ More(q) \in CodedByte /\ More(q) >= Base
                 /\ More(q) % Base = q % Base
                 /\ q < Base => q \in CodedByte
  <2> DEFINE p == Power(Base, i - 1)
             q == v \div p
             r == v % p
  <2>1. i \in Nat /\ i - 1 \in Nat /\ i - 1 + 1 = i
    BY <1>1
  <2>2. p \in Nat /\ p > 0 /\ Power(Base, i) = Base * p
    BY <1>2, <2>1
  <2> HIDE DEF p
  <2>3. q \in Nat /\ r \in Nat /\ r < p /\ v = q * p + r
    BY <2>2, DivMod
  <2> HIDE DEF q, r
  <2>4. i = n => q < Base
    <3> SUFFICES ASSUME i = n, q >= Base PROVE FALSE
      BY <2>3, Bases
    <3>1. q * p >= Base * p /\ q * p \in Nat /\ Base * p \in Nat
      BY <2>2, <2>3, Bases
    <3> QED
      BY <1>1, <2>2, <2>3, <3>1
  <2> DEFINE m == q % Base
             d == q \div Base
  <2>5. m \in Nat /\ m < Base /\ d \in Nat
    BY <2>3, Bases, DivMod
  <2> HIDE DEF m, d
  <2>6. More(q) = 1 * Base + m
    BY <2>5, Bases DEF More, m
  <2>7. More(q) % Base = m
    <3>1. PICK one \in Nat : one = 1
      OBVIOUS
    <3>2. (one * Base + m) % Base = m
      BY <2>5, Bases, Quotient
    <3> QED
      BY <2>6, <3>1, <3>2
  <2>8. More(q) \in CodedByte /\ More(q) >= Base /\ (q < Base => q \in CodedByte)
    BY <2>3, <2>5, <2>6, Bases DEF CodedByte
  <2> QED
    BY <2>3, <2>4, <2>7, <2>8 DEF p, q, m
<1>4. ASSUME NEW i \in 1 .. n
      PROVE  /\ Code(n, v)[i] = IF i < n THEN More(v \div Power(Base, i - 1))
                                ELSE v \div Power(Base, i - 1)
             /\ Code(n, v)[i] \in CodedByte
             /\ Code(n, v)[i] < Base <=> i = n
             /\ Code(n, v)[i] % Base = (v \div Power(Base, i - 1)) % Base
  <2> DEFINE q == v \div Power(Base, i - 1)
  <2>1. /\ q \in Nat /\ (i = n => q < Base)
        /\ More(q) \in CodedByte /\ More(q) >= Base
        /\ More(q) % Base = q % Base
        /\ q < Base => q \in CodedByte
    BY <1>3
  <2>2. Code(n, v)[i] = IF i < n THEN More(q) ELSE q
    BY DEF Code
  <2>3. i \in Nat /\ i <= n /\ More(q) \in Nat
    BY <1>1, <2>1, Bases DEF CodedByte
  <2> HIDE DEF q
  <2>4. ASSUME i < n
        PROVE  /\ Code(n, v)[i] \in CodedByte
               /\ Code(n, v)[i] < Base <=> i = n
               /\ Code(n, v)[i] % Base = q % Base
    <3>1. Code(n, v)[i] = More(q) /\ i # n
      BY <1>1, <2>2, <2>3, <2>4
    <3> QED
      BY <2>1, <2>3, <3>1, Bases
  <2>5. ASSUME i = n
        PROVE  /\ Code(n, v)[i] \in CodedByte
               /\ Code(n, v)[i] < Base <=> i = n
               /\ Code(n, v)[i] % Base = q % Base
    <3>1. Code(n, v)[i] = q
      BY <1>1, <2>2, <2>3, <2>5
    <3> QED
      BY <2>1, <2>3, <2>5, <3>1, Bases
  <2>6. /\ Code(n, v)[i] \in CodedByte
        /\ Code(n, v)[i] < Base <=> i = n
        /\ Code(n, v)[i] % Base = q % Base
    BY <1>1, <2>3, <2>4, <2>5
  <2> QED
    BY <2>2, <2>6 DEF q
<1>5. Code(n, v) \in Seq(CodedByte) /\ Len(Code(n, v)) = n
  <2>1. Code(n, v) \in [1 .. n -> CodedByte]
    <3>1. Code(n, v) = [i \in 1 .. n |-> Code(n, v)[i]]
      BY DEF Code
    <3>2. \A i \in 1 .. n : Code(n, v)[i] \in CodedByte
      BY <1>4
    <3> HIDE DEF Code
    <3> QED
      BY <3>1, <3>2
  <2> QED
    BY <1>1, <2>1
<1> QED
  BY <1>1, <1>4, <1>5

\* encodeVarint32 writes the groups of the number.
LEMMA Encode32Is ==
  ASSUME NEW v \in Nat, v < Max32
  PROVE  Groups(Groups32(v), v) /\ encodeVarint32(v) = Code(Groups32(v), v)
         /\ Groups32(v) \in 1 .. 5
BY Groups32Is DEF encodeVarint32, Code

\* What the numbers take
Size(v) == CHOOSE n : Groups(n, v)

\* How many groups there are, by the quotient
LEMMA SizeIs ==
  ASSUME NEW v \in Nat
  PROVE  /\ Groups(Size(v), v) /\ Size(v) \in Nat /\ Size(v) > 0
         /\ \A n : Groups(n, v) => n = Size(v)
         /\ v < Base => Size(v) = 1
         /\ v >= Base => /\ v \div Base \in Nat /\ v \div Base < v
                         /\ Size(v) = 1 + Size(v \div Base)
<1>1. \A u \in Nat : Groups(Size(u), u) /\ Size(u) \in Nat /\ Size(u) > 0
  <2>1. ASSUME NEW u \in Nat PROVE Groups(Size(u), u)
    BY GroupsExist DEF Size
  <2> QED
    BY <2>1 DEF Groups
<1>2. \A n : Groups(n, v) => n = Size(v)
  BY <1>1, GroupsUnique
<1>3. v < Base => Size(v) = 1
  BY <1>2, GroupsStep
<1>4. ASSUME v >= Base
      PROVE  v \div Base \in Nat /\ v \div Base < v /\ Size(v) = 1 + Size(v \div Base)
  <2> DEFINE q == v \div Base
             r == v % Base
  <2>1. q \in Nat /\ r \in Nat /\ v = q * Base + r
    BY Bases, DivMod
  <2> HIDE DEF q, r
  <2>2. q < v
    <3>1. q > 0 => q * Base > q
      BY <2>1, Bases
    <3>2. q = 0 => q < v
      BY <1>4, <2>1, Bases
    <3>3. q * Base \in Nat
      BY <2>1, Bases
    <3> QED
      BY <2>1, <3>1, <3>2, <3>3
  <2>3. Groups(Size(q) + 1, v)
    BY <1>1, <1>4, <2>1, GroupsStep DEF q
  <2>4. Size(v) = Size(q) + 1 /\ Size(q) \in Nat
    BY <1>1, <1>2, <2>1, <2>3
  <2>5. Size(v) = 1 + Size(q)
    BY <2>4
  <2> QED
    BY <2>1, <2>2, <2>5 DEF q
<1> QED
  BY <1>1, <1>2, <1>3, <1>4

\* varintLength is the number of groups.
LEMMA LengthIs ==
  ASSUME NEW v \in Nat
  PROVE  varintLength(v) = Size(v)
<1> DEFINE g == [u \in Nat |-> Size(u)]
<1>1. g = [u \in Nat |-> IF u >= Base THEN 1 + g[u \div Base] ELSE 1]
  <2>1. ASSUME NEW u \in Nat PROVE g[u] = IF u >= Base THEN 1 + g[u \div Base] ELSE 1
    BY SizeIs, Bases
  <2> QED
    BY <2>1
<1> HIDE DEF g
<1>2. length64 = [u \in Nat |-> IF u >= Base THEN 1 + length64[u \div Base] ELSE 1]
  BY <1>1 DEF length64
<1>3. \A u \in Nat : length64[u] = IF u >= Base THEN 1 + length64[u \div Base] ELSE 1
  BY <1>2
<1> DEFINE S == {u \in Nat : length64[u] # Size(u)}
<1>4. S = {}
  <2> SUFFICES ASSUME S # {} PROVE FALSE
    OBVIOUS
  <2>1. S \in SUBSET Nat /\ \A u \in S : length64[u] # Size(u)
    OBVIOUS
  <2>2. \A u \in Nat : u \notin S => length64[u] = Size(u)
    OBVIOUS
  <2> HIDE DEF S
  <2>3. PICK u \in S : \A w \in S : u <= w
    BY <2>1, LeastNatural
  <2>4. u \in Nat
    BY <2>1
  <2>5. CASE u < Base
    <3>1. length64[u] = 1 /\ Size(u) = 1
      BY <1>3, <2>4, <2>5, SizeIs, Bases
    <3> QED
      BY <2>1, <3>1
  <2>6. CASE u >= Base
    <3>1. u \div Base \in Nat /\ u \div Base < u /\ Size(u) = 1 + Size(u \div Base)
      BY <2>4, <2>6, SizeIs
    <3>2. u \div Base \notin S
      BY <2>3, <2>4, <3>1
    <3>3. length64[u \div Base] = Size(u \div Base)
      BY <2>2, <3>1, <3>2
    <3>4. length64[u] = 1 + length64[u \div Base]
      BY <1>3, <2>4, <2>6
    <3> QED
      BY <2>1, <3>1, <3>3, <3>4
  <2> QED
    BY <2>4, <2>5, <2>6, Bases
<1>5. v \notin S
  BY <1>4
<1> QED
  BY <1>5 DEF varintLength

\* The groups of a number are its lowest and those of its quotient.
LEMMA CodeStep ==
  ASSUME NEW v \in Nat
  PROVE  Code(Size(v), v) = IF v >= Base
                            THEN <<More(v)>> \o Code(Size(v \div Base), v \div Base)
                            ELSE <<v>>
<1>1. /\ Power(Base, 0) = 1
      /\ \A k \in Nat : Power(Base, k) \in Nat /\ Power(Base, k) > 0
      /\ \A k \in Nat : Power(Base, k + 1) = Base * Power(Base, k)
  <2>1. ASSUME NEW k \in Nat PROVE Power(Base, k) \in Nat /\ Power(Base, k) > k
    BY Bases, PowerGrows
  <2>2. \A k \in Nat : Power(Base, k) > 0
    BY <2>1
  <2> QED
    BY <2>1, <2>2, Bases, PowerIs
<1>2. v \div Power(Base, 0) = v
  BY <1>1
<1>3. CASE v < Base
  <2>1. Size(v) = 1 /\ Groups(1, v)
    BY <1>3, SizeIs
  <2>2. Code(1, v) = [i \in 1 .. 1 |-> v]
    <3>1. \A i \in 1 .. 1 : i = 1 /\ i - 1 = 0
      OBVIOUS
    <3>2. \A i \in 1 .. 1 :
            (IF i < 1 THEN More(v \div Power(Base, i - 1)) ELSE v \div Power(Base, i - 1)) = v
      BY <1>2, <3>1
    <3> QED
      BY <3>2 DEF Code
  <2>3. [i \in 1 .. 1 |-> v] = <<v>>
    OBVIOUS
  <2> QED
    BY <1>3, <2>1, <2>2, <2>3, Bases
<1>4. CASE v >= Base
  <2> DEFINE q == v \div Base
             n == Size(q)
             t == Code(n, q)
  <2>1. q \in Nat /\ Size(v) = n + 1 /\ n \in Nat /\ n > 0 /\ Groups(n, q) /\ Groups(n + 1, v)
    <3>1. v \div Base \in Nat /\ Size(v) = 1 + Size(v \div Base)
      BY <1>4, SizeIs
    <3>2. Groups(Size(v), v)
      BY SizeIs
    <3>3. Groups(Size(q), q) /\ Size(q) \in Nat /\ Size(q) > 0
      BY <3>1, SizeIs
    <3>4. Size(v) = Size(q) + 1
      BY <3>1, <3>3
    <3> QED
      BY <3>1, <3>2, <3>3, <3>4
  <2>2. /\ t \in Seq(CodedByte) /\ Len(t) = n
        /\ \A i \in 1 .. n : t[i] = IF i < n THEN More(q \div Power(Base, i - 1))
                                    ELSE q \div Power(Base, i - 1)
    BY <2>1, CodeIs
  <2>3. \A i \in Nat : i > 0 => q \div Power(Base, i - 1) = v \div Power(Base, i)
    <3>1. ASSUME NEW i \in Nat, i > 0 PROVE q \div Power(Base, i - 1) = v \div Power(Base, i)
      <4>1. i - 1 \in Nat /\ i - 1 + 1 = i
        BY <3>1
      <4>2. Power(Base, i - 1) \in Nat /\ Power(Base, i - 1) > 0
            /\ Power(Base, i) = Base * Power(Base, i - 1)
        BY <1>1, <4>1
      <4> QED
        BY <4>2, Dividing, Bases
    <3> QED
      BY <3>1
  <2>4. /\ Code(n + 1, v) \in Seq(CodedByte) /\ Len(Code(n + 1, v)) = n + 1
        /\ \A i \in 1 .. n + 1 :
             Code(n + 1, v)[i] = IF i < n + 1 THEN More(v \div Power(Base, i - 1))
                                 ELSE v \div Power(Base, i - 1)
    BY <2>1, CodeIs
  <2> HIDE DEF q, n, t
  <2>5. More(v) \in CodedByte
    BY Bases, DivMod DEF More, CodedByte
  <2> DEFINE w == <<More(v)>> \o t
  <2>6. w \in Seq(CodedByte) /\ Len(w) = n + 1
    BY <2>1, <2>2, <2>5
  <2>7. ASSUME NEW i \in 1 .. n + 1 PROVE w[i] = Code(n + 1, v)[i]
    <3>1. i \in Nat /\ i > 0 /\ i <= n + 1
      BY <2>1
    <3>2. CASE i = 1
      <4>1. w[1] = More(v) /\ i - 1 = 0
        BY <2>1, <2>2, <2>5, <3>2
      <4>2. Code(n + 1, v)[i] = More(v \div Power(Base, 0))
        BY <2>1, <2>4, <3>1, <3>2, <4>1
      <4> QED
        BY <1>2, <3>2, <4>1, <4>2
    <3>3. CASE i > 1
      <4>1. i - 1 \in 1 .. n /\ (i - 1 < n <=> i < n + 1) /\ i - 1 \in Nat /\ i - 1 > 0
        BY <2>1, <3>1, <3>3
      <4>2. w[i] = t[i - 1]
        BY <2>1, <2>2, <2>5, <3>1, <3>3
      <4>3. q \div Power(Base, i - 1 - 1) = v \div Power(Base, i - 1)
        BY <2>3, <4>1
      <4>4. t[i - 1] = IF i - 1 < n THEN More(q \div Power(Base, i - 1 - 1))
                       ELSE q \div Power(Base, i - 1 - 1)
        BY <2>2, <4>1
      <4> QED
        BY <2>4, <4>1, <4>2, <4>3, <4>4
    <3>4. i = 1 \/ i > 1
      BY <3>1
    <3> HIDE DEF w
    <3> QED
      BY <3>2, <3>3, <3>4
  <2> HIDE DEF w
  <2>8. w = Code(n + 1, v)
    BY <2>4, <2>6, <2>7, SameSeq
  <2> QED
    BY <1>4, <2>1, <2>8 DEF w, t, n, q
<1> QED
  BY <1>3, <1>4, Bases

\* The loop of encodeVarint64 writes what encodeVarint32 writes.
LEMMA Encode64Is ==
  ASSUME NEW v \in Nat
  PROVE  encodeVarint64(v) = Code(Size(v), v)
<1> DEFINE g == [u \in Nat |-> Code(Size(u), u)]
<1>1. g = [u \in Nat |-> IF u >= Base THEN <<More(u)>> \o g[u \div Base] ELSE <<u>>]
  <2>1. ASSUME NEW u \in Nat
        PROVE  g[u] = IF u >= Base THEN <<More(u)>> \o g[u \div Base] ELSE <<u>>
    <3>1. u >= Base => u \div Base \in Nat
      BY SizeIs
    <3> QED
      BY <3>1, CodeStep
  <2> QED
    BY <2>1
<1> HIDE DEF g
<1>2. encode64 = [u \in Nat |-> IF u >= Base THEN <<More(u)>> \o encode64[u \div Base]
                                ELSE <<u>>]
  BY <1>1 DEF encode64
<1>3. \A u \in Nat : encode64[u] = IF u >= Base THEN <<More(u)>> \o encode64[u \div Base]
                                   ELSE <<u>>
  BY <1>2
<1> DEFINE S == {u \in Nat : encode64[u] # Code(Size(u), u)}
<1>4. S = {}
  <2> SUFFICES ASSUME S # {} PROVE FALSE
    OBVIOUS
  <2>1. S \in SUBSET Nat /\ \A u \in S : encode64[u] # Code(Size(u), u)
    OBVIOUS
  <2>2. \A u \in Nat : u \notin S => encode64[u] = Code(Size(u), u)
    OBVIOUS
  <2> HIDE DEF S
  <2>3. PICK u \in S : \A w \in S : u <= w
    BY <2>1, LeastNatural
  <2>4. u \in Nat
    BY <2>1
  <2>5. CASE u < Base
    <3>1. ~(u >= Base)
      BY <2>4, <2>5, Bases
    <3>2. encode64[u] = <<u>> /\ Code(Size(u), u) = <<u>>
      BY <1>3, <2>4, <3>1, CodeStep
    <3> QED
      BY <2>1, <3>2
  <2>6. CASE u >= Base
    <3>1. u \div Base \in Nat /\ u \div Base < u
      BY <2>4, <2>6, SizeIs
    <3>2. u \div Base \notin S
      BY <2>3, <2>4, <3>1
    <3>3. encode64[u \div Base] = Code(Size(u \div Base), u \div Base)
      BY <2>2, <3>1, <3>2
    <3>4. encode64[u] = <<More(u)>> \o encode64[u \div Base]
      BY <1>3, <2>4, <2>6
    <3>5. Code(Size(u), u) = <<More(u)>> \o Code(Size(u \div Base), u \div Base)
      BY <2>4, <2>6, CodeStep
    <3> QED
      BY <2>1, <3>3, <3>4, <3>5
  <2> QED
    BY <2>4, <2>5, <2>6, Bases
<1>5. v \notin S
  BY <1>4
<1> QED
  BY <1>5 DEF encodeVarint64

-----------------------------------------------------------------------------
(* Coding: decoding *)

\* g sums up the first n digits of v in a notation of base b.
SumsUp(g, n, v, b) ==
  /\ g \in [0 .. n -> Nat] /\ g[0] = 0
  /\ \A k \in 1 .. n : g[k] = g[k - 1] + ((v \div Power(b, k - 1)) % b) * Power(b, k - 1)

\* The sum of the digits, each at its place, is the number.
LEMMA DigitSum ==
  ASSUME NEW b \in Nat, b > 1, NEW n \in Nat, NEW v \in Nat, NEW g, SumsUp(g, n, v, b)
  PROVE  g[n] = v % Power(b, n)
<1>0. /\ g \in [0 .. n -> Nat] /\ g[0] = 0
       /\ \A k \in 1 .. n : g[k] = g[k - 1] + ((v \div Power(b, k - 1)) % b) * Power(b, k - 1)
  BY DEF SumsUp
<1>1. /\ Power(b, 0) = 1
      /\ \A k \in Nat : Power(b, k) \in Nat /\ Power(b, k) > 0
      /\ \A k \in Nat : Power(b, k + 1) = b * Power(b, k)
  <2>1. ASSUME NEW k \in Nat PROVE Power(b, k) \in Nat /\ Power(b, k) > k
    BY PowerGrows
  <2>2. \A k \in Nat : Power(b, k) > 0
    BY <2>1
  <2> QED
    BY <2>1, <2>2, PowerIs
<1> DEFINE S == {k \in 0 .. n : g[k] = v % Power(b, k)}
<1>2. 0 \in S
  <2>1. v % 1 = 0 /\ 0 \in 0 .. n
    OBVIOUS
  <2> QED
    BY <1>1, <1>0, <2>1
<1>3. ASSUME NEW k \in S, k < n PROVE k + 1 \in S
  <2>1. k \in Nat /\ k + 1 \in 0 .. n /\ k + 1 \in 1 .. n /\ k + 1 - 1 = k
        /\ g[k] = v % Power(b, k)
    BY <1>3
  <2> DEFINE p == Power(b, k)
  <2>2. p \in Nat /\ p > 0 /\ Power(b, k + 1) = b * p
    BY <1>1, <2>1
  <2>3. g[k + 1] = g[k] + ((v \div p) % b) * p
    BY <1>0, <2>1
  <2>4. g[k] = v % p
    BY <2>1
  <2> HIDE DEF p, S
  <2>5. v % (b * p) = (v % p) + ((v \div p) % b) * p
    <3>1. b > 0
      OBVIOUS
    <3> QED
      BY <2>2, <3>1, Dividing
  <2>6. g[k + 1] = v % Power(b, k + 1)
    BY <2>2, <2>3, <2>4, <2>5
  <2> QED
    BY <2>1, <2>6 DEF S
<1>4. S \in SUBSET (0 .. n) /\ \A k \in S : g[k] = v % Power(b, k)
  OBVIOUS
<1> HIDE DEF S
<1>5. S = 0 .. n
  BY <1>2, <1>3, <1>4, RangeInduction
<1> QED
  BY <1>4, <1>5

\* The loops of getVarint32PtrFallback and getVarint64Ptr put groups together.
LEMMA GroupSumIs ==
  ASSUME NEW s, NEW n \in Nat, NEW v \in Nat,
         \A i \in 1 .. n : s[i] % Base = (v \div Power(Base, i - 1)) % Base
  PROVE  GroupSum(s, n) = v % Power(Base, n)
<1>1. /\ \A k \in Nat : Power(Base, k) \in Nat /\ Power(Base, k) > 0
  <2>1. ASSUME NEW k \in Nat PROVE Power(Base, k) \in Nat /\ Power(Base, k) > k
    BY PowerGrows, Bases
  <2> QED
    BY <2>1
<1> DEFINE term == [k \in 1 .. n |-> (s[k] % Base) * Power(Base, k - 1)]
<1>2. term \in [1 .. n -> Nat]
  <2>1. ASSUME NEW k \in 1 .. n PROVE (s[k] % Base) * Power(Base, k - 1) \in Nat
    <3>1. k - 1 \in Nat
      OBVIOUS
    <3>2. Power(Base, k - 1) \in Nat /\ Power(Base, k - 1) > 0
      BY <1>1, <3>1
    <3>3. v \div Power(Base, k - 1) \in Nat
      BY <3>2, DivMod
    <3>4. (v \div Power(Base, k - 1)) % Base \in Nat
      BY <3>3, Bases, DivMod
    <3>5. s[k] % Base \in Nat
      BY <3>4
    <3>6. \A x, y \in Nat : x * y \in Nat
      OBVIOUS
    <3> QED
      BY <3>2, <3>5, <3>6
  <2> QED
    BY <2>1
<1>3. \A k \in 1 .. n : term[k] = (s[k] % Base) * Power(Base, k - 1)
  OBVIOUS
<1> HIDE DEF term
<1>4. PICK g \in [0 .. n -> Nat] : g[0] = 0 /\ \A k \in 1 .. n : g[k] = g[k - 1] + term[k]
  BY <1>2, SumExists
<1>5. g = [k \in 0 .. n |-> IF k = 0 THEN 0
                           ELSE g[k - 1] + (s[k] % Base) * Power(Base, k - 1)]
  BY <1>3, <1>4
<1> DEFINE sum == CHOOSE f : f = [k \in 0 .. n |->
                    IF k = 0 THEN 0 ELSE f[k - 1] + (s[k] % Base) * Power(Base, k - 1)]
<1>6. sum = [k \in 0 .. n |-> IF k = 0 THEN 0
                             ELSE sum[k - 1] + (s[k] % Base) * Power(Base, k - 1)]
  BY <1>5
<1>7. GroupSum(s, n) = sum[n]
  BY DEF GroupSum
<1> HIDE DEF sum
<1>8. sum[0] = 0 /\ \A k \in 1 .. n : sum[k] = sum[k - 1] + (s[k] % Base) * Power(Base, k - 1)
  <2>1. 0 \in 0 .. n /\ \A k \in 1 .. n : k \in 0 .. n /\ k # 0
    OBVIOUS
  <2> QED
    BY <1>6, <2>1
<1>9. \A k \in 1 .. n :
        sum[k] = sum[k - 1] + ((v \div Power(Base, k - 1)) % Base) * Power(Base, k - 1)
  BY <1>8
<1>10. sum \in [0 .. n -> Nat]
  <2> DEFINE S == {k \in 0 .. n : sum[k] \in Nat}
  <2>1. 0 \in S
    BY <1>8
  <2>2. ASSUME NEW k \in S, k < n PROVE k + 1 \in S
    <3>1. k + 1 \in 0 .. n /\ k + 1 \in 1 .. n /\ k + 1 - 1 = k /\ sum[k] \in Nat
      BY <2>2
    <3>2. sum[k + 1] = sum[k] + (s[k + 1] % Base) * Power(Base, k)
      BY <1>8, <3>1
    <3>3. term[k + 1] = (s[k + 1] % Base) * Power(Base, k) /\ term[k + 1] \in Nat
      BY <1>2, <1>3, <3>1
    <3>4. sum[k + 1] \in Nat
      BY <3>1, <3>2, <3>3
    <3> QED
      BY <3>1, <3>4
  <2>3. S \in SUBSET (0 .. n) /\ \A k \in S : sum[k] \in Nat
    OBVIOUS
  <2> HIDE DEF S
  <2>4. S = 0 .. n
    BY <2>1, <2>2, <2>3, RangeInduction
  <2>5. \A k \in 0 .. n : sum[k] \in Nat
    BY <2>3, <2>4
  <2>6. sum = [k \in 0 .. n |-> sum[k]]
    BY <1>6
  <2> QED
    BY <2>5, <2>6
<1>11. SumsUp(sum, n, v, Base)
  BY <1>8, <1>9, <1>10 DEF SumsUp
<1>12. sum[n] = v % Power(Base, n)
  BY <1>11, DigitSum, Bases
<1> QED
  BY <1>7, <1>12

\* A number below p is its remainder.
LEMMA ModSmall ==
  ASSUME NEW v \in Nat, NEW p \in Nat, v < p
  PROVE  v % p = v
OBVIOUS

\* One of two sequences begins with the other.
Agree(s, t) == \A i \in 1 .. Len(s) : i <= Len(t) => s[i] = t[i]

\* A number that is there completely is read, whatever follows it,
LEMMA GetPtrWhole ==
  ASSUME NEW s \in Seq(CodedByte), NEW v \in Nat, NEW n, Groups(n, v), NEW most \in Nat,
         n <= most, NEW max \in Nat, v < max, n <= Len(s), Agree(s, Code(n, v))
  PROVE  GetPtr(s, most, max) = [value |-> v, used |-> n]
<1>1. /\ n \in Nat /\ n > 0 /\ v < Power(Base, n) /\ Power(Base, n) \in Nat
      /\ Len(s) \in Nat
  BY Bases, PowerGrows DEF Groups
<1>2. \A i \in 1 .. n : /\ s[i] < Base <=> i = n
                        /\ s[i] % Base = (v \div Power(Base, i - 1)) % Base
  <2>1. \A i \in 1 .. n : i \in 1 .. Len(s) /\ i <= n
    BY <1>1
  <2>2. Len(Code(n, v)) = n
    BY CodeIs
  <2>3. \A i \in 1 .. n : s[i] = Code(n, v)[i]
    BY <2>1, <2>2 DEF Agree
  <2> QED
    BY <2>3, CodeIs
<1> DEFINE L == Lasts(s, most)
<1>3. n \in L
  BY <1>1, <1>2 DEF Lasts
<1>4. \A i \in L : n <= i
  <2>1. ASSUME NEW i \in L, i < n PROVE FALSE
    <3>1. i \in 1 .. n /\ i # n /\ s[i] < Base
      BY <1>1, <2>1 DEF Lasts
    <3> QED
      BY <1>2, <3>1
  <2>2. \A i \in L : i \in Nat
    BY DEF Lasts
  <2> QED
    BY <1>1, <2>1, <2>2
<1>5. L # {} /\ \A i \in L : i \in Nat
  BY <1>3 DEF Lasts
<1> DEFINE last == CHOOSE i \in L : \A j \in L : i <= j
<1>6. GetPtr(s, most, max) = [value |-> GroupSum(s, last) % max, used |-> last]
  BY <1>5 DEF GetPtr
<1> HIDE DEF L
<1>7. last = n
  <2>1. last \in L /\ \A j \in L : last <= j
    BY <1>3, <1>4
  <2> HIDE DEF last
  <2> QED
    BY <1>1, <1>3, <1>4, <1>5, <2>1
<1> HIDE DEF last
<1>8. GroupSum(s, n) = v % Power(Base, n)
  BY <1>1, <1>2, GroupSumIs
<1>9. v % Power(Base, n) = v /\ v % max = v
  BY <1>1, ModSmall
<1> QED
  BY <1>6, <1>7, <1>8, <1>9

\* and one that is cut off is not.
LEMMA GetPtrCut ==
  ASSUME NEW s \in Seq(CodedByte), NEW v \in Nat, NEW n, Groups(n, v), NEW most \in Nat,
         NEW max \in Nat, Len(s) < n, Agree(s, Code(n, v))
  PROVE  GetPtr(s, most, max) = [value |-> 0, used |-> 0]
<1>1. n \in Nat /\ Len(s) \in Nat
  BY DEF Groups
<1>2. \A i \in 1 .. n : Code(n, v)[i] < Base <=> i = n
  BY CodeIs
<1>3. \A i \in 1 .. Len(s) : ~(s[i] < Base)
  <2>1. \A i \in 1 .. Len(s) : i \in 1 .. n /\ i # n /\ i <= n
    BY <1>1
  <2>2. Len(Code(n, v)) = n
    BY CodeIs
  <2>3. \A i \in 1 .. Len(s) : s[i] = Code(n, v)[i]
    BY <2>1, <2>2 DEF Agree
  <2> QED
    BY <1>2, <2>1, <2>3
<1>4. Lasts(s, most) = {}
  <2> SUFFICES ASSUME NEW i \in Lasts(s, most) PROVE FALSE
    OBVIOUS
  <2>1. i \in 1 .. Len(s) /\ s[i] < Base
    BY <1>1 DEF Lasts
  <2> QED
    BY <1>3, <2>1
<1> QED
  BY <1>4 DEF GetPtr

\* The bytes of encodeFixed32 and encodeFixed64
LEMMA EncodeFixedIs ==
  ASSUME NEW v \in Nat, NEW n \in Nat
  PROVE  /\ encodeFixed(v, n) \in Seq(CodedByte) /\ Len(encodeFixed(v, n)) = n
         /\ \A i \in 1 .. n : encodeFixed(v, n)[i] = (v \div Power(2 * Base, i - 1)) % (2 * Base)
<1>1. ASSUME NEW i \in 1 .. n
      PROVE  (v \div Power(2 * Base, i - 1)) % (2 * Base) \in CodedByte
  <2>1. i - 1 \in Nat
    OBVIOUS
  <2>2. Power(2 * Base, i - 1) \in Nat /\ Power(2 * Base, i - 1) > i - 1
    BY <2>1, Bases, PowerGrows
  <2>3. v \div Power(2 * Base, i - 1) \in Nat
    BY <2>1, <2>2, DivMod
  <2> DEFINE q == v \div Power(2 * Base, i - 1)
             b == 2 * Base
  <2>4. b \in Nat /\ b > 0 /\ CodedByte = 0 .. b - 1
    BY Bases DEF CodedByte
  <2>5. q \in Nat
    BY <2>3
  <2> HIDE DEF q, b
  <2>6. q % b \in CodedByte
    BY <2>4, <2>5
  <2> QED
    BY <2>6 DEF q, b
<1>2. encodeFixed(v, n) \in [1 .. n -> CodedByte]
  BY <1>1 DEF encodeFixed
<1> QED
  BY <1>2 DEF encodeFixed

\* decodeFixed32 and decodeFixed64 put them together again.
LEMMA DecodeFixedIs ==
  ASSUME NEW s, NEW n \in Nat, NEW v \in Nat,
         \A i \in 1 .. n : s[i] = (v \div Power(2 * Base, i - 1)) % (2 * Base)
  PROVE  decodeFixed(s, n) = v % Power(2 * Base, n)
<1> DEFINE b == 2 * Base
<1>1. b \in Nat /\ b > 1
  BY Bases
<1>2. \A i \in 1 .. n : s[i] = (v \div Power(b, i - 1)) % b
  OBVIOUS
<1> DEFINE sum == CHOOSE f : f = [k \in 0 .. n |->
                    IF k = 0 THEN 0 ELSE f[k - 1] + s[k] * Power(b, k - 1)]
<1>3. decodeFixed(s, n) = sum[n]
  BY DEF decodeFixed
<1> HIDE DEF b
<1>4. /\ \A k \in Nat : Power(b, k) \in Nat /\ Power(b, k) > 0
  <2>1. ASSUME NEW k \in Nat PROVE Power(b, k) \in Nat /\ Power(b, k) > k
    BY PowerGrows, <1>1
  <2> QED
    BY <2>1
<1> DEFINE term == [k \in 1 .. n |-> s[k] * Power(b, k - 1)]
<1>5. term \in [1 .. n -> Nat]
  <2>1. ASSUME NEW k \in 1 .. n PROVE s[k] * Power(b, k - 1) \in Nat
    <3>1. k - 1 \in Nat
      OBVIOUS
    <3>2. Power(b, k - 1) \in Nat /\ Power(b, k - 1) > 0
      BY <1>4, <3>1
    <3>3. v \div Power(b, k - 1) \in Nat
      BY <3>2, DivMod
    <3>4. (v \div Power(b, k - 1)) % b \in Nat
      BY <3>3, <1>1, DivMod
    <3>5. s[k] \in Nat
      BY <1>2, <3>4
    <3>6. \A x, y \in Nat : x * y \in Nat
      OBVIOUS
    <3> QED
      BY <3>2, <3>5, <3>6
  <2> QED
    BY <2>1
<1>6. \A k \in 1 .. n : term[k] = s[k] * Power(b, k - 1)
  OBVIOUS
<1> HIDE DEF term
<1>7. PICK g \in [0 .. n -> Nat] : g[0] = 0 /\ \A k \in 1 .. n : g[k] = g[k - 1] + term[k]
  BY <1>5, SumExists
<1>8. g = [k \in 0 .. n |-> IF k = 0 THEN 0 ELSE g[k - 1] + s[k] * Power(b, k - 1)]
  BY <1>6, <1>7
<1>9. sum = [k \in 0 .. n |-> IF k = 0 THEN 0 ELSE sum[k - 1] + s[k] * Power(b, k - 1)]
  BY <1>8
<1> HIDE DEF sum
<1>10. sum[0] = 0 /\ \A k \in 1 .. n : sum[k] = sum[k - 1] + s[k] * Power(b, k - 1)
  <2>1. 0 \in 0 .. n /\ \A k \in 1 .. n : k \in 0 .. n /\ k # 0
    OBVIOUS
  <2> QED
    BY <1>9, <2>1
<1>11. \A k \in 1 .. n :
         sum[k] = sum[k - 1] + ((v \div Power(b, k - 1)) % b) * Power(b, k - 1)
  BY <1>2, <1>10
<1>12. sum \in [0 .. n -> Nat]
  <2> DEFINE S == {k \in 0 .. n : sum[k] \in Nat}
  <2>1. 0 \in S
    BY <1>10
  <2>2. ASSUME NEW k \in S, k < n PROVE k + 1 \in S
    <3>1. k + 1 \in 0 .. n /\ k + 1 \in 1 .. n /\ k + 1 - 1 = k /\ sum[k] \in Nat
      BY <2>2
    <3>2. sum[k + 1] = sum[k] + s[k + 1] * Power(b, k)
      BY <1>10, <3>1
    <3>3. term[k + 1] = s[k + 1] * Power(b, k) /\ term[k + 1] \in Nat
      BY <1>5, <1>6, <3>1
    <3>4. sum[k + 1] \in Nat
      BY <3>1, <3>2, <3>3
    <3> QED
      BY <3>1, <3>4
  <2>3. S \in SUBSET (0 .. n) /\ \A k \in S : sum[k] \in Nat
    OBVIOUS
  <2> HIDE DEF S
  <2>4. S = 0 .. n
    BY <2>1, <2>2, <2>3, RangeInduction
  <2>5. \A k \in 0 .. n : sum[k] \in Nat
    BY <2>3, <2>4
  <2>6. sum = [k \in 0 .. n |-> sum[k]]
    BY <1>9
  <2> QED
    BY <2>5, <2>6
<1>13. sum[n] = v % Power(b, n)
  <2>1. SumsUp(sum, n, v, b)
    BY <1>10, <1>11, <1>12 DEF SumsUp
  <2> QED
    BY <1>1, <2>1, DigitSum
<1> QED
  BY <1>3, <1>13 DEF b

-----------------------------------------------------------------------------
(* Coding: the items *)

\* The internal keys that clients put
Keys == [user_key : Slices, sequence : CodedSequenceNumbers, type : ValueTypes]

\* What can be put
Kinds == {"32", "64", "fixed32", "fixed64", "slice", "key"}

\* The values that are put
Values == Numbers \cup Slices \cup Keys

\* The bytes w are what a client puts for a value.
Sent(kind, value, w) ==
  \/ kind = "32" /\ value \in Numbers /\ value < Max32 /\ w = encodeVarint32(value)
  \/ kind = "64" /\ value \in Numbers /\ w = encodeVarint64(value)
  \/ kind = "fixed32" /\ value \in Numbers /\ value < Max32 /\ w = encodeFixed(value, 4)
  \/ kind = "fixed64" /\ value \in Numbers /\ w = encodeFixed(value, 8)
  \/ kind = "slice" /\ value \in Slices /\ w = encodeVarint32(Len(value)) \o value
  \/ kind = "key" /\ value \in Keys
     /\ w = encodeVarint32(Len(value.user_key) + 8) \o appendInternalKey(value)

\* A number below Base ^ k takes at most k groups.
LEMMA SizeBound ==
  ASSUME NEW v \in Nat, NEW k \in Nat, k > 0, v < Power(Base, k)
  PROVE  Size(v) <= k
<1> SUFFICES ASSUME ~(Size(v) <= k) PROVE FALSE
  OBVIOUS
<1> DEFINE n == Size(v)
<1>1. n \in Nat /\ n > k /\ v < Power(Base, k)
  BY SizeIs
<1>2. Groups(n, v)
  BY SizeIs
<1> HIDE DEF n
<1>4. n > 1 /\ n - 1 \in Nat /\ k <= n - 1
  BY <1>1
<1>5. v >= Power(Base, n - 1)
  BY <1>2, <1>4 DEF Groups
<1>6. Power(Base, k) <= Power(Base, n - 1) /\ Power(Base, k) \in Nat
      /\ Power(Base, n - 1) \in Nat
  BY <1>4, Bases, PowerGrows
<1> QED
  BY <1>1, <1>5, <1>6

\* What \o does
LEMMA Joined ==
  ASSUME NEW S, NEW s \in Seq(S), NEW t \in Seq(S), NEW m, NEW n, Len(s) = m, Len(t) = n
  PROVE  /\ s \o t \in Seq(S) /\ Len(s \o t) = m + n
         /\ \A i \in 1 .. m : (s \o t)[i] = s[i]
         /\ \A i \in 1 .. n : (s \o t)[m + i] = t[i]
OBVIOUS

\* What SubSeq does
LEMMA PartIs ==
  ASSUME NEW S, NEW s \in Seq(S), NEW m \in Nat, NEW n \in Nat, m + n <= Len(s)
  PROVE  /\ SubSeq(s, m + 1, m + n) \in Seq(S) /\ Len(SubSeq(s, m + 1, m + n)) = n
         /\ \A i \in 1 .. n : SubSeq(s, m + 1, m + n)[i] = s[m + i]
<1>1. Len(s) \in Nat
  OBVIOUS
<1> QED
  BY <1>1

\* What Drop does: Slice::removePrefix
LEMMA DropIs ==
  ASSUME NEW S, NEW s \in Seq(S), NEW m \in Nat, m <= Len(s)
  PROVE  /\ Drop(s, m) \in Seq(S) /\ Len(Drop(s, m)) = Len(s) - m
         /\ \A i \in 1 .. Len(s) - m : Drop(s, m)[i] = s[m + i]
<1>1. Len(s) \in Nat
  OBVIOUS
<1> QED
  BY <1>1 DEF Drop

\* To drop twice is to drop once.
LEMMA DropTwice ==
  ASSUME NEW S, NEW s \in Seq(S), NEW m \in Nat, NEW n \in Nat, m + n <= Len(s)
  PROVE  Drop(Drop(s, m), n) = Drop(s, m + n)
<1>1. Len(s) \in Nat /\ m <= Len(s) /\ m + n \in Nat
  OBVIOUS
<1> PICK x : x = Drop(s, m)
  OBVIOUS
<1>2. /\ x \in Seq(S) /\ Len(x) = Len(s) - m
      /\ \A i \in 1 .. Len(s) - m : x[i] = s[m + i]
  BY <1>1, DropIs
<1> PICK y : y = Drop(x, n)
  OBVIOUS
<1>3. n <= Len(x) /\ Len(x) - n = Len(s) - (m + n)
  BY <1>1, <1>2
<1>4. /\ y \in Seq(S) /\ Len(y) = Len(s) - (m + n)
      /\ \A i \in 1 .. Len(s) - (m + n) : y[i] = x[n + i]
  <2>1. /\ y \in Seq(S) /\ Len(y) = Len(x) - n
        /\ \A i \in 1 .. Len(x) - n : y[i] = x[n + i]
    <3>1. x \in Seq(S) /\ n <= Len(x)
      BY <1>2, <1>3
    <3> QED
      BY <3>1, DropIs
  <2> QED
    BY <1>3, <2>1
<1> PICK z : z = Drop(s, m + n)
  OBVIOUS
<1>5. /\ z \in Seq(S) /\ Len(z) = Len(s) - (m + n)
      /\ \A i \in 1 .. Len(s) - (m + n) : z[i] = s[(m + n) + i]
  BY <1>1, DropIs
<1>6. ASSUME NEW i \in 1 .. Len(s) - (m + n) PROVE y[i] = z[i]
  <2>1. n + i \in 1 .. Len(s) - m /\ m + (n + i) = (m + n) + i
    BY <1>1
  <2> QED
    BY <1>2, <1>4, <1>5, <2>1
<1>7. y = z
  BY <1>4, <1>5, <1>6, SameSeq
<1> QED
  BY <1>7

\* The numbers and the lengths that clients put fit into the codes.
LEMMA InputsAre ==
  /\ \A v \in Numbers : v \in Nat /\ v < Max64 /\ v < Power(Base, 10) /\ v < Power(2 * Base, 8)
  /\ \A v \in Nat : v < Max32 => v < Power(Base, 5) /\ v < Power(2 * Base, 4)
  /\ \A d \in Slices : /\ d \in Seq(CodedByte) /\ Len(d) \in Nat /\ Len(d) < Max32
                       /\ Len(d) + 8 < Max32
  /\ \A b \in Nat : b > 1 => \A n \in Nat : Power(b, n) \in Nat
<1>1. \A b \in Nat : b > 1 => \A n \in Nat : Power(b, n) \in Nat
  BY PowerGrows
<1>2. /\ Power(Base, 5) \in Nat /\ Power(2 * Base, 4) \in Nat
      /\ Power(Base, 10) \in Nat /\ Power(2 * Base, 8) \in Nat
  BY <1>1, Bases
<1>3. \A v \in Numbers : v \in Nat /\ v < Max64
  BY CodingAssumption, Bases
<1>4. \A d \in Slices : /\ d \in Seq(CodedByte) /\ Len(d) \in Nat /\ Len(d) < Max32
                        /\ Len(d) + 8 < Max32
  <2>1. ASSUME NEW d \in Slices PROVE d \in Seq(CodedByte) /\ Len(d) + 8 < Max32
    BY CodingAssumption
  <2>2. ASSUME NEW d \in Slices PROVE Len(d) \in Nat
    BY <2>1
  <2> QED
    BY <2>1, <2>2, Bases
<1>5. /\ Max32 < Power(Base, 5) /\ Max32 <= Power(2 * Base, 4)
      /\ Max64 < Power(Base, 10) /\ Max64 <= Power(2 * Base, 8)
  BY VarintAssumption
<1>6. \A v \in Nat : v < Max32 => v < Power(Base, 5) /\ v < Power(2 * Base, 4)
  BY <1>2, <1>5, Bases
<1>7. \A v \in Nat : v < Max64 => v < Power(Base, 10) /\ v < Power(2 * Base, 8)
  BY <1>2, <1>5, Bases
<1> QED
  BY <1>1, <1>3, <1>4, <1>6, <1>7

\* A length, in front of a slice
LEMMA PrefixIs ==
  ASSUME NEW d \in Seq(CodedByte), Len(d) < Max32
  PROVE  LET n == Size(Len(d))
             w == encodeVarint32(Len(d)) \o d
         IN  /\ n \in 1 .. 5 /\ Groups(n, Len(d)) /\ w \in Seq(CodedByte)
             /\ Len(w) = n + Len(d)
             /\ \A i \in 1 .. n : w[i] = Code(n, Len(d))[i]
             /\ \A i \in 1 .. Len(d) : w[n + i] = d[i]
<1> DEFINE l == Len(d)
           n == Size(l)
           c == Code(n, l)
<1>1. l \in Nat
  OBVIOUS
<1>2. Groups(n, l) /\ n \in 1 .. 5 /\ encodeVarint32(l) = c
  <2>1. /\ Groups(Groups32(l), l) /\ encodeVarint32(l) = Code(Groups32(l), l)
        /\ Groups32(l) \in 1 .. 5
    BY <1>1, Encode32Is
  <2>2. Groups32(l) = n
    BY <1>1, <2>1, SizeIs
  <2> QED
    BY <2>1, <2>2
<1>3. c \in Seq(CodedByte) /\ Len(c) = n
  BY <1>1, <1>2, CodeIs
<1> HIDE DEF c, n
<1>4. /\ c \o d \in Seq(CodedByte) /\ Len(c \o d) = n + l
      /\ \A i \in 1 .. n : (c \o d)[i] = c[i]
      /\ \A i \in 1 .. l : (c \o d)[n + i] = d[i]
  BY <1>1, <1>2, <1>3
<1> QED
  BY <1>2, <1>4 DEF c, n

\* appendInternalKey: the user key, and the tag in eight bytes, from which the sequence
\* number and the type can be told
LEMMA KeyIs ==
  ASSUME NEW k \in Keys
  PROVE  LET num == packSequenceAndType(k.sequence, k.type)
             usize == Len(k.user_key)
             a == appendInternalKey(k)
         IN  /\ k.user_key \in Slices /\ usize \in Nat /\ num \in Nat
             /\ num < Power(2 * Base, 8)
             /\ num \div (2 * Base) = k.sequence /\ num % (2 * Base) = k.type
             /\ k.type \in {0, 1}
             /\ a \in Seq(CodedByte) /\ Len(a) = usize + 8
             /\ \A i \in 1 .. usize : a[i] = k.user_key[i]
             /\ \A i \in 1 .. 8 : a[usize + i] = encodeFixed(num, 8)[i]
<1> DEFINE num == packSequenceAndType(k.sequence, k.type)
           usize == Len(k.user_key)
           f == encodeFixed(num, 8)
           b == 2 * Base
           p == Power(b, 7)
<1>1. b \in Nat /\ b > 1 /\ p \in Nat /\ Power(b, 8) = b * p
  <2>1. Power(b, 7 + 1) = b * Power(b, 7) /\ Power(b, 7) \in Nat
    BY Bases, PowerIs
  <2>2. 7 + 1 = 8
    OBVIOUS
  <2> QED
    BY <2>1, <2>2, Bases
<1>2. /\ k.user_key \in Slices /\ k.type \in {0, 1} /\ k.sequence \in Nat /\ k.sequence < p
      /\ k.user_key \in Seq(CodedByte) /\ usize \in Nat
  <2>1. k.user_key \in Slices /\ k.type \in {0, 1} /\ k.sequence \in CodedSequenceNumbers
    BY DEF Keys, ValueTypes
  <2>2. k.sequence \in 0 .. p - 1
    BY <2>1, CodingAssumption
  <2>3. k.sequence \in Nat /\ k.sequence < p
    BY <1>1, <2>2
  <2>4. k.user_key \in Seq(CodedByte) /\ usize \in Nat
    BY <2>1, InputsAre
  <2> QED
    BY <2>1, <2>3, <2>4
<1>3. num = k.sequence * b + k.type
  BY DEF packSequenceAndType
<1> HIDE DEF b, p, num, f
<1>4. num \in Nat /\ num < b * p /\ num \div b = k.sequence /\ num % b = k.type
  <2>1. k.type \in Nat /\ k.type < b
    BY <1>1, <1>2
  <2>2. num \div b = k.sequence /\ num % b = k.type
    BY <1>1, <1>2, <1>3, <2>1, Quotient
  <2>3. (k.sequence + 1) * b <= p * b
    BY <1>1, <1>2
  <2>4. (k.sequence + 1) * b = k.sequence * b + b /\ p * b = b * p
        /\ k.sequence * b \in Nat /\ b * p \in Nat
    BY <1>1, <1>2
  <2>5. k.sequence * b + k.type < k.sequence * b + b
    BY <1>1, <2>1, <2>4
  <2>6. num \in Nat /\ num < b * p
    BY <1>1, <1>3, <2>1, <2>3, <2>4, <2>5
  <2> QED
    BY <2>2, <2>6
<1>5. f \in Seq(CodedByte) /\ Len(f) = 8
  BY <1>4, EncodeFixedIs DEF f
<1>6. appendInternalKey(k) = k.user_key \o f
  BY DEF appendInternalKey, f, num
<1>7. /\ k.user_key \o f \in Seq(CodedByte) /\ Len(k.user_key \o f) = usize + 8
      /\ \A i \in 1 .. usize : (k.user_key \o f)[i] = k.user_key[i]
      /\ \A i \in 1 .. 8 : (k.user_key \o f)[usize + i] = f[i]
  <2>1. PICK u : u = k.user_key
    OBVIOUS
  <2>2. u \in Seq(CodedByte) /\ Len(u) = usize /\ usize \in Nat
    BY <1>2, <2>1
  <2>3. /\ u \o f \in Seq(CodedByte) /\ Len(u \o f) = usize + 8
        /\ \A i \in 1 .. usize : (u \o f)[i] = u[i]
        /\ \A i \in 1 .. 8 : (u \o f)[usize + i] = f[i]
    <3>1. PICK S, n, m : S = CodedByte /\ n = 8 /\ m = usize
      OBVIOUS
    <3>2. u \in Seq(S) /\ f \in Seq(S) /\ Len(u) = m /\ Len(f) = n
      BY <1>5, <2>2, <3>1
    <3>3. /\ u \o f \in Seq(S) /\ Len(u \o f) = m + n
          /\ \A i \in 1 .. m : (u \o f)[i] = u[i]
          /\ \A i \in 1 .. n : (u \o f)[m + i] = f[i]
      BY <3>2, Joined
    <3> HIDE DEF usize
    <3> QED
      BY <3>1, <3>3
  <2> QED
    BY <2>1, <2>3
<1> QED
  BY <1>1, <1>2, <1>4, <1>6, <1>7 DEF b, f, num

\* The length of a value's bytes
LengthOK(kind, v, size) ==
  CASE kind = "32" -> size = varintLength(v) /\ size <= 5
    [] kind = "64" -> size = varintLength(v) /\ size <= 10
    [] kind = "fixed32" -> size = 4
    [] kind = "fixed64" -> size = 8
    [] kind = "slice" -> size = varintLength(Len(v)) + Len(v)
    [] kind = "key" ->
         LET usize == Len(v.user_key)
         IN  size = varintLength(usize + 8) + usize + 8 /\ size <= usize + 13

\* What is put has the length that LengthsAgree says.
LEMMA SentIs ==
  ASSUME NEW kind, NEW v, NEW w, Sent(kind, v, w)
  PROVE  /\ kind \in Kinds /\ v \in Values /\ w \in Seq(CodedByte)
         /\ LengthOK(kind, v, Len(w))
<1>1. CASE kind = "32" /\ v \in Numbers /\ v < Max32 /\ w = encodeVarint32(v)
  <2>1. v \in Nat /\ v < Power(Base, 5)
    BY <1>1, InputsAre
  <2>2. /\ Groups(Groups32(v), v) /\ w = Code(Groups32(v), v) /\ Groups32(v) \in 1 .. 5
    BY <1>1, <2>1, Encode32Is
  <2>3. w \in Seq(CodedByte) /\ Len(w) = Groups32(v)
    BY <2>1, <2>2, CodeIs
  <2>4. varintLength(v) = Groups32(v)
    BY <2>1, <2>2, SizeIs, LengthIs
  <2> QED
    BY <1>1, <2>2, <2>3, <2>4 DEF Kinds, Values, LengthOK
<1>2. CASE kind = "64" /\ v \in Numbers /\ w = encodeVarint64(v)
  <2>1. v \in Nat /\ v < Power(Base, 10)
    BY <1>2, InputsAre
  <2>2. w = Code(Size(v), v) /\ Groups(Size(v), v) /\ Size(v) \in Nat
    BY <1>2, <2>1, Encode64Is, SizeIs
  <2>3. w \in Seq(CodedByte) /\ Len(w) = Size(v)
    BY <2>1, <2>2, CodeIs
  <2>4. varintLength(v) = Size(v)
    BY <2>1, LengthIs
  <2>5. Size(v) <= 10
    BY <2>1, SizeBound
  <2> QED
    BY <1>2, <2>3, <2>4, <2>5 DEF Kinds, Values, LengthOK
<1>3. CASE kind = "fixed32" /\ v \in Numbers /\ v < Max32 /\ w = encodeFixed(v, 4)
  <2>1. v \in Nat
    BY <1>3, InputsAre
  <2>2. w \in Seq(CodedByte) /\ Len(w) = 4
    BY <1>3, <2>1, EncodeFixedIs
  <2> QED
    BY <1>3, <2>2 DEF Kinds, Values, LengthOK
<1>4. CASE kind = "fixed64" /\ v \in Numbers /\ w = encodeFixed(v, 8)
  <2>1. v \in Nat
    BY <1>4, InputsAre
  <2>2. w \in Seq(CodedByte) /\ Len(w) = 8
    BY <1>4, <2>1, EncodeFixedIs
  <2> QED
    BY <1>4, <2>2 DEF Kinds, Values, LengthOK
<1>5. CASE kind = "slice" /\ v \in Slices /\ w = encodeVarint32(Len(v)) \o v
  <2>1. v \in Seq(CodedByte) /\ Len(v) < Max32 /\ Len(v) \in Nat
    BY <1>5, InputsAre
  <2>2. w \in Seq(CodedByte) /\ Len(w) = Size(Len(v)) + Len(v)
    BY <1>5, <2>1, PrefixIs
  <2>3. varintLength(Len(v)) = Size(Len(v))
    BY <2>1, LengthIs
  <2> QED
    BY <1>5, <2>2, <2>3 DEF Kinds, Values, LengthOK
<1>6. CASE kind = "key" /\ v \in Keys
           /\ w = encodeVarint32(Len(v.user_key) + 8) \o appendInternalKey(v)
  <2> DEFINE a == appendInternalKey(v)
             usize == Len(v.user_key)
  <2>1. v.user_key \in Slices /\ usize \in Nat /\ a \in Seq(CodedByte) /\ Len(a) = usize + 8
    BY <1>6, KeyIs
  <2>2. usize + 8 < Max32 /\ usize + 8 \in Nat
    BY <2>1, InputsAre
  <2>3. w \in Seq(CodedByte) /\ Len(w) = Size(usize + 8) + (usize + 8)
        /\ Size(usize + 8) \in 1 .. 5
    <3>1. w = encodeVarint32(Len(a)) \o a
      BY <1>6, <2>1
    <3> HIDE DEF a, usize
    <3>2. w \in Seq(CodedByte) /\ Len(w) = Size(Len(a)) + Len(a) /\ Size(Len(a)) \in 1 .. 5
      BY <2>1, <2>2, <3>1, PrefixIs
    <3> QED
      BY <2>1, <3>2
  <2>4. varintLength(usize + 8) = Size(usize + 8)
    BY <2>2, LengthIs
  <2>5. Len(w) = varintLength(usize + 8) + usize + 8 /\ Len(w) <= usize + 13
    <3> HIDE DEF usize
    <3> QED
      BY <2>1, <2>3, <2>4
  <2> QED
    BY <1>6, <2>3, <2>5 DEF Kinds, Values, LengthOK
<1> QED
  BY <1>1, <1>2, <1>3, <1>4, <1>5, <1>6 DEF Sent

-----------------------------------------------------------------------------
(* Coding: the invariant *)

\* The items
Items == [kind : Kinds, value : Values, end : Nat]

\* The type of the state
CodingTypes ==
  /\ dst \in Seq(CodedByte) /\ items \in Seq(Items)
  /\ cut \in Int /\ cut >= -1 /\ cut <= Len(dst)
  /\ input \in Seq(CodedByte) /\ got \in Seq(Values) /\ failed \in BOOLEAN

\* The bytes w are those of an item, where it begins in dst.
Lies(w, i) ==
  /\ Sent(items[i].kind, items[i].value, w)
  /\ End(i) = End(i - 1) + Len(w) /\ End(i) <= Len(dst)
  /\ \A k \in 1 .. Len(w) : dst[End(i - 1) + k] = w[k]

\* The string is the bytes of its items, one after the other.
ItemsLie ==
  /\ \A i \in 1 .. Len(items) : \E w \in Seq(CodedByte) : Lies(w, i)
  /\ End(Len(items)) = Len(dst)

\* The getter has the values of the first items, and its input is what comes after
\* them, up to the cut; if it has failed, the cut is in the item after them.
GotOK ==
  /\ Len(got) <= Len(items) /\ \A i \in 1 .. Len(got) : got[i] = items[i].value
  /\ cut = -1 => got = <<>> /\ ~failed
  /\ cut # -1 /\ ~failed =>
       /\ End(Len(got)) <= cut /\ Len(input) = cut - End(Len(got))
       /\ \A k \in 1 .. Len(input) : input[k] = dst[End(Len(got)) + k]
  /\ failed => Len(got) < Len(items) /\ cut < End(Len(got) + 1)

\* The inductive invariant of Coding
CodingInv == CodingTypes /\ ItemsLie /\ GotOK

\* The invariant gives the three properties that the run checks.
LEMMA CodingInvImplies == CodingInv => GotIsSent /\ OnlyCutItemsFail /\ LengthsAgree
<1> SUFFICES ASSUME CodingInv PROVE GotIsSent /\ OnlyCutItemsFail /\ LengthsAgree
  OBVIOUS
<1>1. GotIsSent
  BY DEF CodingInv, CodingTypes, GotOK, GotIsSent
<1>2. OnlyCutItemsFail
  BY DEF CodingInv, CodingTypes, GotOK, OnlyCutItemsFail
<1>3. ASSUME NEW i \in DOMAIN items
      PROVE  LengthOK(items[i].kind, items[i].value, End(i) - End(i - 1))
  <2>1. i \in 1 .. Len(items) /\ items \in Seq(Items)
    BY DEF CodingInv, CodingTypes
  <2>2. PICK w \in Seq(CodedByte) : Lies(w, i)
    BY <2>1 DEF CodingInv, ItemsLie
  <2>3. End(i - 1) \in Nat
    <3>1. ASSUME NEW j \in 1 .. Len(items) PROVE items[j].end \in Nat
      <4>1. items[j] \in Items
        BY <2>1
      <4> QED
        BY <4>1 DEF Items
    <3>2. i - 1 = 0 \/ i - 1 \in 1 .. Len(items)
      BY <2>1
    <3> QED
      BY <3>1, <3>2 DEF End
  <2>4. Len(w) \in Nat
    OBVIOUS
  <2>5. End(i) - End(i - 1) = Len(w)
    BY <2>2, <2>3, <2>4 DEF Lies
  <2>6. Sent(items[i].kind, items[i].value, w)
    BY <2>2 DEF Lies
  <2> QED
    BY <2>5, <2>6, SentIs
<1> QED
  BY <1>1, <1>2, <1>3 DEF LengthsAgree, LengthOK

\* The empty string is the bytes of no items.
LEMMA CodingStart == CodingInit => CodingInv
<1> SUFFICES ASSUME CodingInit PROVE CodingInv
  OBVIOUS
<1>1. /\ dst = <<>> /\ items = <<>> /\ cut = -1 /\ input = <<>> /\ got = <<>>
      /\ failed = FALSE
  BY DEF CodingInit
<1>2. CodingTypes
  <2>1. \A S : <<>> \in Seq(S)
    OBVIOUS
  <2>2. Len(dst) = 0 /\ failed \in BOOLEAN
    BY <1>1
  <2>3. cut \in Int /\ cut >= -1 /\ cut <= 0
    BY <1>1
  <2> QED
    BY <1>1, <2>1, <2>2, <2>3 DEF CodingTypes
<1>3. ItemsLie
  BY <1>1 DEF ItemsLie, End
<1>4. GotOK
  BY <1>1 DEF GotOK
<1> QED
  BY <1>2, <1>3, <1>4 DEF CodingInv

\* Where the items end
LEMMA EndsAre ==
  ASSUME CodingInv
  PROVE  /\ \A i \in 0 .. Len(items) : End(i) \in Nat
         /\ \A i \in 1 .. Len(items) : items[i] \in Items
         /\ Len(items) \in Nat /\ Len(got) \in Nat /\ Len(dst) \in Nat /\ Len(input) \in Nat
<1>1. /\ items \in Seq(Items) /\ dst \in Seq(CodedByte) /\ got \in Seq(Values)
      /\ input \in Seq(CodedByte)
  BY DEF CodingInv, CodingTypes
<1>2. /\ Len(items) \in Nat /\ Len(got) \in Nat /\ Len(dst) \in Nat /\ Len(input) \in Nat
  BY <1>1
<1>3. ASSUME NEW i \in 1 .. Len(items) PROVE items[i] \in Items
  BY <1>1
<1>4. ASSUME NEW i \in 0 .. Len(items) PROVE End(i) \in Nat
  <2>1. CASE i = 0
    BY <2>1 DEF End
  <2>2. CASE i \in 1 .. Len(items)
    <3>1. items[i].end \in Nat
      BY <1>3, <2>2 DEF Items
    <3> QED
      BY <2>2, <3>1 DEF End
  <2> QED
    BY <1>2, <2>1, <2>2
<1> QED
  BY <1>2, <1>3, <1>4

\* A put appends the bytes of its item and leaves those before it alone.
LEMMA PutStep ==
  ASSUME CodingInv, NEW kind, NEW value, NEW bytes, Sent(kind, value, bytes),
         Put(kind, value, bytes)
  PROVE  CodingInv'
<1> DEFINE item == [kind |-> kind, value |-> value, end |-> Len(dst')]
<1> PICK n : n = Len(items)
  OBVIOUS
<1>1. /\ cut = -1 /\ dst' = dst \o bytes /\ items' = Append(items, item)
      /\ cut' = cut /\ input' = input /\ got' = got /\ failed' = failed
  BY DEF Put
<1>2. kind \in Kinds /\ value \in Values /\ bytes \in Seq(CodedByte)
  BY SentIs
<1>3. CodingTypes
  BY DEF CodingInv
<1>4. /\ dst' \in Seq(CodedByte) /\ Len(dst') = Len(dst) + Len(bytes)
      /\ \A k \in 1 .. Len(dst) : dst'[k] = dst[k]
      /\ \A k \in 1 .. Len(bytes) : dst'[Len(dst) + k] = bytes[k]
      /\ Len(bytes) \in Nat /\ Len(dst) \in Nat
  <2>1. dst \in Seq(CodedByte)
    BY <1>3 DEF CodingTypes
  <2> QED
    BY <1>1, <1>2, <2>1
<1>5. item \in Items
  BY <1>2, <1>4 DEF Items
<1> HIDE DEF item
<1>6. /\ items' \in Seq(Items) /\ Len(items') = n + 1 /\ items'[n + 1] = item
      /\ \A i \in 1 .. n : items'[i] = items[i]
      /\ n \in Nat
  <2>1. items \in Seq(Items)
    BY <1>3 DEF CodingTypes
  <2> QED
    BY <1>1, <1>5, <2>1
<1>7. item.kind = kind /\ item.value = value /\ item.end = Len(dst')
  BY DEF item
<1>8. \A i \in 0 .. n : End(i)' = End(i) /\ End(i) \in Nat
  <2>1. ASSUME NEW i \in 0 .. n PROVE End(i)' = End(i)
    <3>1. i = 0 \/ i \in 1 .. n
      BY <1>6
    <3> QED
      BY <1>6, <3>1 DEF End
  <2> QED
    BY <2>1, EndsAre
<1>9. End(n + 1)' = Len(dst')
  <2>1. n + 1 # 0
    BY <1>6
  <2> QED
    BY <1>6, <1>7, <2>1 DEF End
<1>10. End(n) = Len(dst)
  BY DEF CodingInv, ItemsLie
<1>11. CodingTypes'
  BY <1>1, <1>3, <1>4, <1>6 DEF CodingTypes
<1>12. ASSUME NEW i \in 1 .. n + 1 PROVE \E w \in Seq(CodedByte) : Lies(w, i)'
  <2>1. CASE i \in 1 .. n
    <3>1. PICK w \in Seq(CodedByte) : Lies(w, i)
      BY <2>1 DEF CodingInv, ItemsLie
    <3>2. i \in 0 .. n /\ i - 1 \in 0 .. n
      BY <1>6, <2>1
    <3>3. End(i)' = End(i) /\ End(i - 1)' = End(i - 1) /\ End(i - 1) \in Nat /\ End(i) \in Nat
      BY <1>8, <3>2
    <3>4. items'[i] = items[i]
      BY <1>6, <2>1
    <3>5. /\ Sent(items[i].kind, items[i].value, w)
          /\ End(i) = End(i - 1) + Len(w) /\ End(i) <= Len(dst)
          /\ \A k \in 1 .. Len(w) : dst[End(i - 1) + k] = w[k]
      BY <3>1 DEF Lies
    <3>6. ASSUME NEW k \in 1 .. Len(w) PROVE dst'[End(i - 1) + k] = w[k]
      <4>1. Len(w) \in Nat
        OBVIOUS
      <4>2. End(i - 1) + k \in 1 .. Len(dst)
        BY <1>4, <3>3, <3>5, <4>1
      <4> QED
        BY <1>4, <3>5, <4>2
    <3>7. Sent(items[i].kind, items[i].value, w)'
      BY <3>4, <3>5 DEF Sent
    <3>8. End(i)' <= Len(dst')
      BY <1>4, <3>3, <3>5
    <3>9. Lies(w, i)'
      BY <3>3, <3>5, <3>6, <3>7, <3>8 DEF Lies
    <3> QED
      BY <3>9
  <2>2. CASE i = n + 1
    <3>1. i - 1 = n /\ n \in 0 .. n
      BY <1>6, <2>2
    <3>2. End(i - 1)' = Len(dst) /\ End(i)' = Len(dst')
      BY <1>8, <1>9, <1>10, <2>2, <3>1
    <3>3. items'[i] = item
      BY <1>6, <2>2
    <3>4. Sent(items[i].kind, items[i].value, bytes)'
      BY <1>7, <3>3 DEF Sent
    <3>5. \A k \in 1 .. Len(bytes) : dst'[End(i - 1)' + k] = bytes[k]
      BY <1>4, <3>2
    <3>6. Lies(bytes, i)'
      BY <1>4, <3>2, <3>4, <3>5 DEF Lies
    <3> QED
      BY <1>2, <3>6
  <2> QED
    BY <1>6, <2>1, <2>2
<1>13. ItemsLie'
  BY <1>6, <1>9, <1>12 DEF ItemsLie
<1>14. GotOK'
  BY <1>1, <1>6 DEF CodingInv, GotOK
<1> QED
  BY <1>11, <1>13, <1>14 DEF CodingInv

\* What LookupKey and encodeKey make of an internal key
LEMMA KeysAre ==
  ASSUME NEW d \in Slices, NEW seq \in CodedSequenceNumbers, NEW type \in ValueTypes
  PROVE  LET k == ParsedInternalKey(d, seq, type)
         IN  /\ Sent("key", k, encodeKey(appendInternalKey(k)))
             /\ type = 1 => Sent("key", k, LookupKey(d, seq))
<1> DEFINE k == ParsedInternalKey(d, seq, type)
           a == appendInternalKey(k)
           p == encodeVarint32(Len(d) + 8)
           f == encodeFixed(packSequenceAndType(seq, type), 8)
<1>1. k \in Keys /\ k.user_key = d /\ k.sequence = seq /\ k.type = type
  BY DEF Keys, ParsedInternalKey
<1>2. Len(a) = Len(d) + 8
  BY <1>1, KeyIs
<1>3. a = d \o f
  BY <1>1 DEF appendInternalKey
<1>4. Sent("key", k, p \o a)
  BY <1>1 DEF Sent
<1>5. encodeKey(a) = p \o a
  BY <1>2 DEF encodeKey
<1>6. type = 1 => LookupKey(d, seq) = (p \o d) \o f
  BY DEF LookupKey
<1>7. (p \o d) \o f = p \o (d \o f)
  <2>1. d \in Seq(CodedByte) /\ Len(d) + 8 \in Nat /\ Len(d) + 8 < Max32
    BY InputsAre
  <2>2. p \in Seq(CodedByte)
    BY <2>1, Encode32Is, CodeIs
  <2>3. f \in Seq(CodedByte)
    <3>1. packSequenceAndType(seq, type) \in Nat
      BY <1>1, KeyIs
    <3> QED
      BY <3>1, EncodeFixedIs
  <2> HIDE DEF p, f
  <2>4. \A x, y, z \in Seq(CodedByte) : (x \o y) \o z = x \o (y \o z)
    OBVIOUS
  <2> QED
    BY <2>1, <2>2, <2>3, <2>4
<1> HIDE DEF k, a, p, f
<1> QED
  BY <1>3, <1>4, <1>5, <1>6, <1>7 DEF k, a

\* The getter of the whole string, or of a part
LEMMA HandStep ==
  ASSUME CodingInv, NEW n \in 0 .. Len(dst), Hand(n)
  PROVE  CodingInv'
<1>1. /\ cut = -1 /\ cut' = n /\ input' = SubSeq(dst, 1, n)
      /\ dst' = dst /\ items' = items /\ got' = got /\ failed' = failed
  BY DEF Hand
<1>2. CodingTypes /\ ItemsLie /\ GotOK
  BY DEF CodingInv
<1>3. dst \in Seq(CodedByte) /\ Len(dst) \in Nat /\ n \in Nat /\ n <= Len(dst)
  <2>1. dst \in Seq(CodedByte)
    BY <1>2 DEF CodingTypes
  <2> QED
    BY <2>1
<1>4. /\ input' \in Seq(CodedByte) /\ Len(input') = n
      /\ \A k \in 1 .. n : input'[k] = dst[k]
  BY <1>1, <1>3
<1>5. CodingTypes'
  BY <1>1, <1>2, <1>3, <1>4 DEF CodingTypes
<1>6. ItemsLie'
  <2>1. ASSUME NEW i PROVE End(i)' = End(i)
    BY <1>1 DEF End
  <2>2. ASSUME NEW i, NEW w, Lies(w, i) PROVE Lies(w, i)'
    BY <1>1, <2>1, <2>2 DEF Lies, Sent
  <2> QED
    BY <1>1, <1>2, <2>1, <2>2 DEF ItemsLie
<1>7. got = <<>> /\ ~failed
  BY <1>1, <1>2 DEF GotOK
<1>8. End(0) = 0
  BY DEF End
<1>9. Len(items) \in Nat
  BY EndsAre
<1>10. GotOK'
  <2>1. Len(got') = 0 /\ End(Len(got))' = 0
    BY <1>1, <1>7, <1>8 DEF End
  <2> QED
    BY <1>1, <1>3, <1>4, <1>7, <1>9, <2>1 DEF GotOK
<1> QED
  BY <1>5, <1>6, <1>10 DEF CodingInv

\* The bytes w of the next item to get, of which the input is or begins with
Ahead(w) ==
  /\ Sent(items[Len(got) + 1].kind, items[Len(got) + 1].value, w)
  /\ End(Len(got) + 1) = End(Len(got)) + Len(w)
  /\ Agree(input, w)

\* The input begins with the bytes of the next item, or is a part of them.
LEMMA AheadIs ==
  ASSUME CodingInv, cut # -1, ~failed, Len(got) < Len(items)
  PROVE  \E w \in Seq(CodedByte) : Ahead(w)
<1> PICK i : i = Len(got) + 1
  OBVIOUS
<1>1. Len(got) \in Nat /\ Len(items) \in Nat /\ i \in 1 .. Len(items) /\ i - 1 = Len(got)
      /\ i - 1 \in 0 .. Len(items)
  BY EndsAre
<1>2. End(i - 1) \in Nat
  BY <1>1, EndsAre
<1>3. PICK w \in Seq(CodedByte) : Lies(w, i)
  BY <1>1 DEF CodingInv, ItemsLie
<1>4. \A k \in 1 .. Len(input) : input[k] = dst[End(i - 1) + k]
  BY <1>1 DEF CodingInv, GotOK
<1>5. \A k \in 1 .. Len(w) : dst[End(i - 1) + k] = w[k]
  BY <1>3 DEF Lies
<1>6. ASSUME NEW k \in 1 .. Len(input), k <= Len(w) PROVE input[k] = w[k]
  <2>1. Len(w) \in Nat
    OBVIOUS
  <2>2. k \in 1 .. Len(w)
    BY <1>6, <2>1, EndsAre
  <2> QED
    BY <1>4, <1>5, <2>2
<1> QED
  BY <1>1, <1>3, <1>6 DEF Ahead, Agree, Lies

\* The item is there: the getter takes it.
LEMMA WholeStep ==
  ASSUME CodingInv, cut # -1, ~failed, Len(got) < Len(items),
         NEW w \in Seq(CodedByte), Ahead(w), Len(input) >= Len(w),
         got' = Append(got, items[Len(got) + 1].value), input' = Drop(input, Len(w)),
         dst' = dst, items' = items, cut' = cut, failed' = failed
  PROVE  CodingInv'
<1>1. CodingTypes /\ ItemsLie /\ GotOK
  BY DEF CodingInv
<1> PICK g : g = Len(got)
  OBVIOUS
<1>2. /\ g \in Nat /\ Len(items) \in Nat /\ g \in 0 .. Len(items) /\ g + 1 \in 0 .. Len(items)
      /\ g + 1 \in 1 .. Len(items)
  BY EndsAre
<1>3. End(g) \in Nat /\ End(g + 1) \in Nat /\ End(g + 1) = End(g) + Len(w) /\ Len(w) \in Nat
  BY <1>2, EndsAre DEF Ahead
<1>4. items[g + 1].value \in Values
  <2>1. items[g + 1] \in Items
    BY <1>2, EndsAre
  <2> QED
    BY <2>1 DEF Items
<1>5. /\ got' \in Seq(Values) /\ Len(got') = g + 1
      /\ \A i \in 1 .. g : got'[i] = got[i]
      /\ got'[g + 1] = items[g + 1].value
  <2>1. got \in Seq(Values)
    BY <1>1 DEF CodingTypes
  <2> QED
    BY <1>4, <2>1
<1>6. /\ input' \in Seq(CodedByte) /\ Len(input') = Len(input) - Len(w)
      /\ \A k \in 1 .. Len(input') : input'[k] = input[Len(w) + k]
  <2>1. input \in Seq(CodedByte)
    BY <1>1 DEF CodingTypes
  <2>2. PICK n : n = Len(w)
    OBVIOUS
  <2>3. /\ Drop(input, n) \in Seq(CodedByte) /\ Len(Drop(input, n)) = Len(input) - n
        /\ \A i \in 1 .. Len(input) - n : Drop(input, n)[i] = input[n + i]
    <3>1. n \in Nat /\ n <= Len(input)
      BY <1>3, <2>2
    <3> QED
      BY <2>1, <3>1, DropIs
  <2> QED
    BY <2>2, <2>3
<1>7. CodingTypes'
  BY <1>1, <1>5, <1>6 DEF CodingTypes
<1>8. \A i : End(i)' = End(i)
  BY DEF End
<1>9. ItemsLie'
  <2>1. ASSUME NEW i, NEW x, Lies(x, i) PROVE Lies(x, i)'
    BY <1>8, <2>1 DEF Lies, Sent
  <2> QED
    BY <1>1, <1>8, <2>1 DEF ItemsLie
<1>10. ASSUME NEW i \in 1 .. g + 1 PROVE got'[i] = items[i].value
  <2>1. CASE i = g + 1
    BY <1>5, <2>1
  <2>2. CASE i \in 1 .. g
    BY <1>1, <1>5, <2>2 DEF GotOK
  <2> QED
    BY <1>2, <2>1, <2>2
<1>11. cut \in Int /\ Len(input) \in Nat /\ Len(input) = cut - End(g)
  BY <1>1, EndsAre DEF GotOK, CodingTypes
<1>12. End(g + 1) <= cut /\ Len(input') = cut - End(g + 1)
  BY <1>3, <1>6, <1>11
<1>13. ASSUME NEW k \in 1 .. Len(input') PROVE input'[k] = dst[End(g + 1) + k]
  <2>1. Len(w) + k \in 1 .. Len(input) /\ k \in Int
    BY <1>3, <1>6, <1>11
  <2>2. input[Len(w) + k] = dst[End(g) + (Len(w) + k)]
    BY <1>1, <2>1 DEF GotOK
  <2>3. End(g) + (Len(w) + k) = End(g + 1) + k
    BY <1>3, <2>1
  <2> QED
    BY <1>6, <2>2, <2>3
<1>14. GotOK'
  <2>1. End(Len(got))' = End(g + 1)
    BY <1>5, <1>8 DEF End
  <2> QED
    BY <1>2, <1>5, <1>10, <1>12, <1>13, <2>1 DEF GotOK
<1> QED
  BY <1>7, <1>9, <1>14 DEF CodingInv

\* The end is in the item: the getter fails.
LEMMA CutStep ==
  ASSUME CodingInv, cut # -1, ~failed, Len(got) < Len(items),
         NEW w \in Seq(CodedByte), Ahead(w), Len(input) < Len(w),
         input' \in Seq(CodedByte), failed' = TRUE,
         got' = got, dst' = dst, items' = items, cut' = cut
  PROVE  CodingInv'
<1>1. CodingTypes /\ ItemsLie /\ GotOK
  BY DEF CodingInv
<1> PICK g : g = Len(got)
  OBVIOUS
<1>2. g \in 0 .. Len(items) /\ Len(items) \in Nat
  BY EndsAre
<1>3. End(g) \in Nat /\ End(g + 1) = End(g) + Len(w) /\ Len(w) \in Nat
  BY <1>2, EndsAre DEF Ahead
<1>4. cut \in Int /\ Len(input) \in Nat /\ Len(input) = cut - End(g)
  BY <1>1, EndsAre DEF GotOK, CodingTypes
<1>5. cut < End(g + 1)
  BY <1>3, <1>4
<1>6. CodingTypes'
  BY <1>1 DEF CodingTypes
<1>7. \A i : End(i)' = End(i)
  BY DEF End
<1>8. ItemsLie'
  <2>1. ASSUME NEW i, NEW x, Lies(x, i) PROVE Lies(x, i)'
    BY <1>7, <2>1 DEF Lies, Sent
  <2> QED
    BY <1>1, <1>7, <2>1 DEF ItemsLie
<1>9. GotOK'
  <2>1. End(Len(got) + 1)' = End(g + 1)
    BY <1>7 DEF End
  <2> QED
    BY <1>1, <1>5, <2>1 DEF GotOK
<1> QED
  BY <1>6, <1>8, <1>9 DEF CodingInv

\* A get whose result is the item if the item is there, and a failure if not
LEMMA GetStep ==
  ASSUME CodingInv, NEW kind, NEW r, Get(kind, r), NEW w \in Seq(CodedByte), Ahead(w),
         Len(w) # 0,
         Len(input) >= Len(w) => r = [value |-> items[Len(got) + 1].value, used |-> Len(w)],
         Len(input) < Len(w) => r.used = 0
  PROVE  CodingInv'
<1>1. /\ cut # -1 /\ ~failed /\ Len(got) < Len(items)
      /\ dst' = dst /\ items' = items /\ cut' = cut
  BY DEF Get, Expects
<1>2. Len(input) \in Nat /\ Len(w) \in Nat /\ input \in Seq(CodedByte)
  BY EndsAre DEF CodingInv, CodingTypes
<1>3. CASE Len(input) >= Len(w)
  <2>1. r.value = items[Len(got) + 1].value /\ r.used = Len(w)
    BY <1>3
  <2>2. /\ input' = Drop(input, Len(w)) /\ failed' = failed
        /\ got' = Append(got, items[Len(got) + 1].value)
    BY <2>1 DEF Get
  <2> QED
    BY <1>1, <1>3, <2>2, WholeStep
<1>4. CASE Len(input) < Len(w)
  <2>1. failed' = TRUE /\ input' = input /\ got' = got
    BY <1>4 DEF Get
  <2> QED
    BY <1>1, <1>2, <1>4, <2>1, CutStep
<1> QED
  BY <1>2, <1>3, <1>4

\* A number of variable length at the front of the input
LEMMA VarintIs ==
  ASSUME NEW s \in Seq(CodedByte), NEW v \in Nat, NEW most \in Nat, NEW max \in Nat, v < max,
         Size(v) <= most, Agree(s, Code(Size(v), v))
  PROVE  /\ Len(s) >= Size(v) => GetPtr(s, most, max) = [value |-> v, used |-> Size(v)]
         /\ Len(s) < Size(v) => GetPtr(s, most, max) = [value |-> 0, used |-> 0]
<1>1. Groups(Size(v), v) /\ Size(v) \in Nat
  BY SizeIs
<1> PICK n : n = Size(v)
  OBVIOUS
<1>2. Groups(n, v) /\ n <= most /\ Agree(s, Code(n, v)) /\ n \in Nat
  BY <1>1
<1>3. ASSUME n <= Len(s) PROVE GetPtr(s, most, max) = [value |-> v, used |-> n]
  BY <1>2, <1>3, GetPtrWhole
<1>4. ASSUME Len(s) < n PROVE GetPtr(s, most, max) = [value |-> 0, used |-> 0]
  BY <1>2, <1>4, GetPtrCut
<1> QED
  BY <1>2, <1>3, <1>4

\* getVarint32 and getVarint64
LEMMA GetVarintStep ==
  ASSUME CodingInv, getVarint32 \/ getVarint64
  PROVE  CodingInv'
<1>1. CASE getVarint32
  <2>1. Get("32", getVarint32Ptr(input))
    BY <1>1 DEF getVarint32
  <2>2. PICK w \in Seq(CodedByte) : Ahead(w)
    BY <2>1, AheadIs DEF Get, Expects
  <2> PICK v : v = items[Len(got) + 1].value
    OBVIOUS
  <2>3. items[Len(got) + 1].kind = "32"
    BY <2>1 DEF Get, Expects
  <2>4. v \in Numbers /\ v < Max32 /\ w = encodeVarint32(v)
    BY <2>2, <2>3 DEF Ahead, Sent
  <2>5. v \in Nat
    BY <2>4, InputsAre
  <2>6. w = Code(Size(v), v) /\ Size(v) <= 5 /\ Len(w) = Size(v) /\ Size(v) > 0
        /\ Size(v) \in Nat
    <3>1. /\ Groups(Groups32(v), v) /\ w = Code(Groups32(v), v) /\ Groups32(v) \in 1 .. 5
      BY <2>4, <2>5, Encode32Is
    <3>2. Groups32(v) = Size(v)
      BY <2>5, <3>1, SizeIs
    <3> PICK n : n = Size(v)
      OBVIOUS
    <3>3. Len(w) = n
      BY <2>5, <3>1, <3>2, CodeIs
    <3>4. n \in Nat /\ n > 0 /\ n <= 5
      BY <3>1, <3>2
    <3> QED
      BY <3>1, <3>2, <3>3, <3>4
  <2>7. Agree(input, Code(Size(v), v))
    BY <2>2, <2>6 DEF Ahead
  <2>8. input \in Seq(CodedByte) /\ Max32 \in Nat
    BY Bases DEF CodingInv, CodingTypes
  <2>9. PICK most, max : most = 5 /\ max = Max32
    OBVIOUS
  <2>10. /\ Len(input) >= Size(v) => GetPtr(input, most, max) = [value |-> v, used |-> Size(v)]
         /\ Len(input) < Size(v) => GetPtr(input, most, max) = [value |-> 0, used |-> 0]
    <3>1. most \in Nat /\ max \in Nat /\ v < max /\ Size(v) <= most
      BY <2>4, <2>6, <2>8, <2>9
    <3> QED
      BY <2>5, <2>7, <2>8, <3>1, VarintIs
  <2>11. PICK r : r = GetPtr(input, most, max)
    OBVIOUS
  <2>12. Get("32", r)
    BY <2>1, <2>9, <2>11 DEF getVarint32Ptr
  <2>13. /\ Len(input) >= Len(w) => r = [value |-> v, used |-> Len(w)]
         /\ Len(input) < Len(w) => r.used = 0
    BY <2>6, <2>10, <2>11
  <2> QED
    BY <2>2, <2>6, <2>12, <2>13, GetStep
<1>2. CASE getVarint64
  <2>1. Get("64", getVarint64Ptr(input))
    BY <1>2 DEF getVarint64
  <2>2. PICK w \in Seq(CodedByte) : Ahead(w)
    BY <2>1, AheadIs DEF Get, Expects
  <2> PICK v : v = items[Len(got) + 1].value
    OBVIOUS
  <2>3. items[Len(got) + 1].kind = "64"
    BY <2>1 DEF Get, Expects
  <2>4. v \in Numbers /\ w = encodeVarint64(v)
    BY <2>2, <2>3 DEF Ahead, Sent
  <2>5. v \in Nat /\ v < Max64 /\ v < Power(Base, 10)
    BY <2>4, InputsAre
  <2>6. w = Code(Size(v), v) /\ Size(v) <= 10 /\ Len(w) = Size(v) /\ Size(v) > 0
        /\ Size(v) \in Nat
    <3> PICK n : n = Size(v)
      OBVIOUS
    <3>1. w = Code(n, v) /\ Groups(n, v) /\ n \in Nat /\ n > 0
      BY <2>4, <2>5, Encode64Is, SizeIs
    <3>2. Len(w) = n
      BY <2>5, <3>1, CodeIs
    <3>3. n <= 10
      <4>1. PICK k : k = 10
        OBVIOUS
      <4>2. k \in Nat /\ k > 0 /\ v < Power(Base, k)
        BY <2>5, <4>1
      <4>3. Size(v) <= k
        BY <2>5, <4>2, SizeBound
      <4> QED
        BY <4>1, <4>3
    <3> QED
      BY <3>1, <3>2, <3>3
  <2>7. Agree(input, Code(Size(v), v))
    BY <2>2, <2>6 DEF Ahead
  <2>8. input \in Seq(CodedByte) /\ Max64 \in Nat
    BY Bases DEF CodingInv, CodingTypes
  <2>9. PICK most, max : most = 10 /\ max = Max64
    OBVIOUS
  <2>10. /\ Len(input) >= Size(v) => GetPtr(input, most, max) = [value |-> v, used |-> Size(v)]
         /\ Len(input) < Size(v) => GetPtr(input, most, max) = [value |-> 0, used |-> 0]
    <3>1. most \in Nat /\ max \in Nat /\ v < max /\ Size(v) <= most
      BY <2>5, <2>6, <2>8, <2>9
    <3> QED
      BY <2>5, <2>7, <2>8, <3>1, VarintIs
  <2>11. PICK r : r = GetPtr(input, most, max)
    OBVIOUS
  <2>12. Get("64", r)
    BY <2>1, <2>9, <2>11 DEF getVarint64Ptr
  <2>13. /\ Len(input) >= Len(w) => r = [value |-> v, used |-> Len(w)]
         /\ Len(input) < Len(w) => r.used = 0
    BY <2>6, <2>10, <2>11
  <2> QED
    BY <2>2, <2>6, <2>12, <2>13, GetStep
<1> QED
  BY <1>1, <1>2

\* A number of fixed length at the front of the input
LEMMA FixedIs ==
  ASSUME NEW s \in Seq(CodedByte), NEW v \in Nat, NEW n \in Nat, v < Power(2 * Base, n),
         n <= Len(s), Agree(s, encodeFixed(v, n))
  PROVE  decodeFixed(s, n) = v
<1>1. \A i \in 1 .. n : s[i] = (v \div Power(2 * Base, i - 1)) % (2 * Base)
  <2>1. Len(s) \in Nat /\ Len(encodeFixed(v, n)) = n
    BY EncodeFixedIs
  <2>2. \A i \in 1 .. n : i \in 1 .. Len(s) /\ i <= n
    BY <2>1
  <2>3. \A i \in 1 .. n : s[i] = encodeFixed(v, n)[i]
    BY <2>1, <2>2 DEF Agree
  <2> QED
    BY <2>3, EncodeFixedIs
<1>2. decodeFixed(s, n) = v % Power(2 * Base, n)
  BY <1>1, DecodeFixedIs
<1>3. Power(2 * Base, n) \in Nat
  BY Bases, PowerGrows
<1> QED
  BY <1>2, <1>3, ModSmall

\* decodeFixed32 and decodeFixed64, by a client that tests the length
LEMMA GetFixedStep ==
  ASSUME CodingInv, NEW kind, NEW n \in Nat, n > 0, getFixed(kind, n),
         \A v, w : Sent(kind, v, w) => /\ v \in Numbers /\ w = encodeFixed(v, n)
                                       /\ v \in Nat /\ v < Power(2 * Base, n)
  PROVE  CodingInv'
<1>1. PICK r : /\ r = IF Len(input) < n THEN [value |-> 0, used |-> 0]
                      ELSE [value |-> decodeFixed(input, n), used |-> n]
               /\ Get(kind, r)
  BY DEF getFixed
<1>2. PICK w \in Seq(CodedByte) : Ahead(w)
  BY <1>1, AheadIs DEF Get, Expects
<1> PICK v : v = items[Len(got) + 1].value
  OBVIOUS
<1>3. Sent(kind, v, w)
  BY <1>1, <1>2 DEF Ahead, Get, Expects
<1>4. v \in Nat /\ v < Power(2 * Base, n) /\ w = encodeFixed(v, n)
  BY <1>3
<1>5. Len(w) = n
  BY <1>4, EncodeFixedIs
<1>6. input \in Seq(CodedByte) /\ Len(input) \in Nat
  BY EndsAre DEF CodingInv, CodingTypes
<1>7. ASSUME Len(input) >= n PROVE decodeFixed(input, n) = v
  <2>1. Agree(input, encodeFixed(v, n))
    BY <1>2, <1>4 DEF Ahead
  <2> QED
    BY <1>4, <1>6, <1>7, <2>1, FixedIs
<1>8. /\ Len(input) >= Len(w) => r = [value |-> v, used |-> Len(w)]
      /\ Len(input) < Len(w) => r.used = 0
  BY <1>1, <1>5, <1>6, <1>7
<1> QED
  BY <1>1, <1>2, <1>5, <1>8, GetStep

\* parseInternalKey undoes appendInternalKey.
LEMMA ParsingIs ==
  ASSUME NEW k \in Keys
  PROVE  Parses(appendInternalKey(k)) /\ parseInternalKey(appendInternalKey(k)) = k
<1> PICK a : a = appendInternalKey(k)
  OBVIOUS
<1> PICK num : num = packSequenceAndType(k.sequence, k.type)
  OBVIOUS
<1> PICK u : u = k.user_key
  OBVIOUS
<1>1. /\ u \in Slices /\ Len(u) \in Nat /\ num \in Nat /\ num < Power(2 * Base, 8)
      /\ num \div (2 * Base) = k.sequence /\ num % (2 * Base) = k.type /\ k.type \in {0, 1}
      /\ a \in Seq(CodedByte) /\ Len(a) = Len(u) + 8
      /\ \A i \in 1 .. Len(u) : a[i] = u[i]
      /\ \A i \in 1 .. 8 : a[Len(u) + i] = encodeFixed(num, 8)[i]
  BY KeyIs
<1>2. u \in Seq(CodedByte)
  BY <1>1, InputsAre
<1> PICK t : t = SubSeq(a, Len(a) - 7, Len(a))
  OBVIOUS
<1>3. t \in Seq(CodedByte) /\ Len(t) = 8 /\ \A i \in 1 .. 8 : t[i] = a[Len(u) + i]
  <2>1. PICK m, n, S : m = Len(u) /\ n = 8 /\ S = CodedByte
    OBVIOUS
  <2>2. m \in Nat /\ n \in Nat /\ Len(a) = m + n /\ Len(a) - 7 = m + 1
    BY <1>1, <2>1
  <2>3. t = SubSeq(a, m + 1, m + n) /\ a \in Seq(S)
    BY <1>1, <2>1, <2>2
  <2>4. t \in Seq(S) /\ Len(t) = n /\ \A i \in 1 .. n : t[i] = a[m + i]
    BY <2>2, <2>3, PartIs
  <2> QED
    BY <2>1, <2>4
<1>4. decodeFixed(t, 8) = num
  <2>1. PICK n : n = 8
    OBVIOUS
  <2>2. Agree(t, encodeFixed(num, n))
    BY <1>1, <1>3, <2>1 DEF Agree
  <2>3. n \in Nat /\ n <= Len(t) /\ num < Power(2 * Base, n)
    BY <1>1, <1>3, <2>1
  <2>4. decodeFixed(t, n) = num
    BY <1>1, <1>3, <2>2, <2>3, FixedIs
  <2> QED
    BY <2>1, <2>4
<1>5. Parses(a)
  <2>1. Len(a) >= 8
    BY <1>1
  <2>2. k.type <= 1
    <3>1. PICK ty : ty = k.type
      OBVIOUS
    <3>2. ty \in {0, 1}
      BY <1>1, <3>1
    <3>3. ty <= 1
      BY <3>2
    <3> QED
      BY <3>1, <3>3
  <2> QED
    BY <1>1, <1>4, <2>1, <2>2 DEF Parses
<1>6. SubSeq(a, 1, Len(a) - 8) = u
  <2> PICK x : x = SubSeq(a, 1, Len(a) - 8)
    OBVIOUS
  <2>1. x \in Seq(CodedByte) /\ Len(x) = Len(u) /\ \A i \in 1 .. Len(x) : x[i] = u[i]
    <3>1. x = SubSeq(a, 1, Len(u))
      BY <1>1
    <3>2. x \in Seq(CodedByte) /\ Len(x) = Len(u) /\ \A i \in 1 .. Len(u) : x[i] = a[i]
      <4>1. PICK n : n = Len(u)
        OBVIOUS
      <4>2. x = SubSeq(a, 1, n) /\ n \in Nat /\ n <= Len(a)
        BY <1>1, <3>1, <4>1
      <4>3. /\ SubSeq(a, 1, n) \in Seq(CodedByte) /\ Len(SubSeq(a, 1, n)) = n
            /\ \A i \in 1 .. n : SubSeq(a, 1, n)[i] = a[i]
        <5>1. a \in Seq(CodedByte) /\ Len(a) \in Nat
          BY <1>1
        <5> HIDE <4>1
        <5> QED
          BY <4>2, <5>1
      <4> QED
        BY <4>1, <4>2, <4>3
    <3> QED
      BY <1>1, <3>2
  <2> QED
    BY <1>2, <2>1, SameSeq
<1>7. parseInternalKey(a) = [user_key |-> u, sequence |-> k.sequence, type |-> k.type]
  BY <1>1, <1>4, <1>6 DEF parseInternalKey
<1>8. k = [user_key |-> k.user_key, sequence |-> k.sequence, type |-> k.type]
  BY DEF Keys
<1> QED
  BY <1>5, <1>7, <1>8

\* The slice that a value of kind "slice" or "key" is sent as
IsSlice(d, kind, v, w) ==
  /\ Len(d) < Max32 /\ w = encodeVarint32(Len(d)) \o d
  /\ Accepts(kind, d) /\ Result(kind, d) = v

\* Slices and internal keys are put as slices with a length in front, and the getter
\* makes the same value of that slice.
LEMMA SliceIs ==
  ASSUME NEW kind \in {"slice", "key"}, NEW v, NEW w, Sent(kind, v, w)
  PROVE  \E d \in Seq(CodedByte) : IsSlice(d, kind, v, w)
<1>1. CASE kind = "slice"
  <2>1. v \in Slices /\ w = encodeVarint32(Len(v)) \o v
    BY <1>1 DEF Sent
  <2>2. v \in Seq(CodedByte) /\ Len(v) < Max32
    BY <2>1, InputsAre
  <2>3. Accepts(kind, v) /\ Result(kind, v) = v
    BY <1>1 DEF Accepts, Result
  <2> QED
    BY <2>1, <2>2, <2>3 DEF IsSlice
<1>2. CASE kind = "key"
  <2> PICK a : a = appendInternalKey(v)
    OBVIOUS
  <2>1. v \in Keys /\ w = encodeVarint32(Len(v.user_key) + 8) \o a
    BY <1>2 DEF Sent
  <2>2. /\ v.user_key \in Slices /\ a \in Seq(CodedByte)
        /\ Len(a) = Len(v.user_key) + 8
    BY <2>1, KeyIs
  <2>3. Len(a) < Max32
    BY <2>2, InputsAre
  <2>4. Accepts(kind, a) /\ Result(kind, a) = v
    BY <1>2, <2>1, ParsingIs DEF Accepts, Result
  <2> QED
    BY <2>1, <2>2, <2>3, <2>4 DEF IsSlice
<1> QED
  BY <1>1, <1>2

\* getLengthPrefixedSlice: the length may be cut, or the slice, or nothing.
LEMMA GetSliceStep ==
  ASSUME CodingInv, NEW kind \in {"slice", "key"}, getLengthPrefixedSlice(kind)
  PROVE  CodingInv'
<1>1. /\ cut # -1 /\ ~failed /\ Len(got) < Len(items) /\ items[Len(got) + 1].kind = kind
      /\ dst' = dst /\ items' = items /\ cut' = cut
  BY DEF getLengthPrefixedSlice, Expects
<1>2. PICK w \in Seq(CodedByte) : Ahead(w)
  BY <1>1, AheadIs
<1> PICK v : v = items[Len(got) + 1].value
  OBVIOUS
<1>2a. Sent(kind, v, w)
  BY <1>1, <1>2 DEF Ahead
<1>3. PICK d \in Seq(CodedByte) : IsSlice(d, kind, v, w)
  BY <1>2a, SliceIs
<1>3a. /\ Len(d) < Max32 /\ w = encodeVarint32(Len(d)) \o d
       /\ Accepts(kind, d) /\ Result(kind, d) = v
  BY <1>3 DEF IsSlice
<1> PICK n : n = Size(Len(d))
  OBVIOUS
<1>4. /\ n \in 1 .. 5 /\ Len(w) = n + Len(d)
      /\ \A i \in 1 .. n : w[i] = Code(n, Len(d))[i]
      /\ \A i \in 1 .. Len(d) : w[n + i] = d[i]
  BY <1>3a, PrefixIs
<1>5. Len(d) \in Nat /\ n \in Nat /\ n > 0 /\ n <= 5
  BY <1>4
<1>6. input \in Seq(CodedByte) /\ Len(input) \in Nat
  BY EndsAre DEF CodingInv, CodingTypes
<1>7. \A k \in 1 .. Len(input) : k <= n + Len(d) => input[k] = w[k]
  BY <1>2, <1>4 DEF Ahead, Agree
<1> PICK r : r = getVarint32Ptr(input)
  OBVIOUS
<1>8. /\ Len(input) >= n => r = [value |-> Len(d), used |-> n]
      /\ Len(input) < n => r = [value |-> 0, used |-> 0]
  <2>1. \A k \in 1 .. Len(input) : k <= n => input[k] = Code(n, Len(d))[k]
    <3>1. ASSUME NEW k \in 1 .. Len(input), k <= n PROVE input[k] = Code(n, Len(d))[k]
      <4>1. k \in 1 .. n /\ k <= n + Len(d)
        BY <1>5, <1>6, <3>1
      <4> QED
        BY <1>4, <1>7, <4>1
    <3> QED
      BY <3>1
  <2>2. PICK most, max : most = 5 /\ max = Max32
    OBVIOUS
  <2>3. most \in Nat /\ max \in Nat /\ Len(d) < max /\ n <= most
    BY <1>3a, <1>5, <2>2, Bases
  <2>4. r = GetPtr(input, most, max)
    BY <2>2 DEF getVarint32Ptr
  <2>5. /\ Len(input) >= n => GetPtr(input, most, max) = [value |-> Len(d), used |-> n]
        /\ Len(input) < n => GetPtr(input, most, max) = [value |-> 0, used |-> 0]
    <3>1. PICK l : l = Len(d)
      OBVIOUS
    <3>2. l \in Nat /\ n = Size(l) /\ \A k \in 1 .. Len(input) : k <= n => input[k] = Code(n, l)[k]
      BY <1>5, <2>1, <3>1
    <3>3. l < max
      BY <2>3, <3>1
    <3>4. input \in Seq(CodedByte) /\ Size(l) <= most /\ most \in Nat /\ max \in Nat
      BY <1>6, <2>3, <3>2
    <3>5. Agree(input, Code(Size(l), l))
      <4>1. Len(Code(n, l)) = n
        BY <3>2, SizeIs, CodeIs
      <4> QED
        BY <3>2, <4>1 DEF Agree
    <3>6. /\ Len(input) >= Size(l) => GetPtr(input, most, max) = [value |-> l, used |-> Size(l)]
          /\ Len(input) < Size(l) => GetPtr(input, most, max) = [value |-> 0, used |-> 0]
      BY <3>2, <3>3, <3>4, <3>5, VarintIs
    <3> QED
      BY <3>1, <3>2, <3>6
  <2> QED
    BY <2>4, <2>5
<1> PICK rest : rest = Drop(input, r.used)
  OBVIOUS
<1> PICK slice : slice = SubSeq(rest, 1, r.value)
  OBVIOUS
<1> PICK there \in BOOLEAN : there <=> r.used # 0 /\ Len(rest) >= r.value
  OBVIOUS
<1>9. /\ input' = IF there THEN Drop(rest, r.value) ELSE rest
      /\ IF there /\ Accepts(kind, slice)
         THEN got' = Append(got, Result(kind, slice)) /\ UNCHANGED failed
         ELSE failed' = TRUE /\ UNCHANGED got
  BY DEF getLengthPrefixedSlice
<1>10. CASE Len(input) < n
  <2>1. r.used = 0 /\ ~there
    BY <1>8, <1>10
  <2>2. rest \in Seq(CodedByte)
    BY <1>6, <2>1 DEF Drop
  <2>3. input' \in Seq(CodedByte) /\ failed' = TRUE /\ got' = got
    BY <1>9, <2>1, <2>2
  <2>4. Len(input) < Len(w)
    BY <1>4, <1>5, <1>6, <1>10
  <2> QED
    BY <1>1, <1>2, <2>3, <2>4, CutStep
<1>11. CASE Len(input) >= n
  <2>1. r.used = n /\ r.value = Len(d)
    BY <1>8, <1>11
  <2>2. /\ rest \in Seq(CodedByte) /\ Len(rest) = Len(input) - n
        /\ \A k \in 1 .. Len(rest) : rest[k] = input[n + k]
    <3>1. rest = Drop(input, n) /\ n <= Len(input)
      BY <1>11, <2>1
    <3>2. /\ Drop(input, n) \in Seq(CodedByte) /\ Len(Drop(input, n)) = Len(input) - n
          /\ \A k \in 1 .. Len(input) - n : Drop(input, n)[k] = input[n + k]
      BY <1>5, <1>6, <3>1, DropIs
    <3> QED
      BY <3>1, <3>2
  <2>3. CASE Len(rest) < Len(d)
    <3>1. ~there
      BY <1>5, <2>1, <2>2, <2>3
    <3>2. input' \in Seq(CodedByte) /\ failed' = TRUE /\ got' = got
      BY <1>9, <2>2, <3>1
    <3>3. Len(input) < Len(w)
      BY <1>4, <1>5, <1>6, <2>2, <2>3
    <3> QED
      BY <1>1, <1>2, <3>2, <3>3, CutStep
  <2>4. CASE Len(rest) >= Len(d)
    <3>1. there
      BY <1>5, <2>1, <2>4
    <3>2. slice = d
      <4>1. slice \in Seq(CodedByte) /\ Len(slice) = Len(d)
            /\ \A i \in 1 .. Len(d) : slice[i] = rest[i]
        BY <1>5, <2>1, <2>2, <2>4
      <4>2. ASSUME NEW i \in 1 .. Len(d) PROVE rest[i] = d[i]
        <5>1. i \in 1 .. Len(rest) /\ n + i \in 1 .. Len(input) /\ n + i <= n + Len(d)
          BY <1>5, <1>6, <2>2, <2>4
        <5> QED
          BY <1>4, <1>7, <2>2, <5>1
      <4> QED
        BY <4>1, <4>2, SameSeq
    <3>3. Len(input) >= Len(w)
      BY <1>4, <1>5, <1>6, <2>2, <2>4
    <3>4. input' = Drop(rest, Len(d)) /\ got' = Append(got, v) /\ failed' = failed
      BY <1>3a, <1>9, <2>1, <3>1, <3>2
    <3>5. Drop(rest, Len(d)) = Drop(input, Len(w))
      <4> PICK l : l = Len(d)
        OBVIOUS
      <4>1. l \in Nat /\ rest = Drop(input, n) /\ n + l <= Len(input)
        BY <1>4, <1>5, <1>6, <2>1, <3>3
      <4>2. Drop(rest, l) = Drop(input, n + l)
        BY <1>5, <1>6, <4>1, DropTwice
      <4> QED
        BY <1>4, <4>2
    <3> QED
      BY <1>1, <1>2, <3>3, <3>4, <3>5, WholeStep
  <2> QED
    BY <1>5, <2>2, <2>3, <2>4, <1>6
<1> QED
  BY <1>5, <1>6, <1>10, <1>11

\* Every put and every get preserves the invariant.
LEMMA CodingStep == CodingInv /\ [CodingNext]_codingVars => CodingInv'
<1> SUFFICES ASSUME CodingInv, [CodingNext]_codingVars PROVE CodingInv'
  OBVIOUS
<1>1. ASSUME NEW v \in Numbers,
             putVarint32(v) \/ putVarint64(v) \/ putFixed32(v) \/ putFixed64(v)
      PROVE  CodingInv'
  <2>1. CASE putVarint32(v)
    <3>1. Sent("32", v, encodeVarint32(v)) /\ Put("32", v, encodeVarint32(v))
      BY <2>1 DEF putVarint32, Sent
    <3> QED
      BY <3>1, PutStep
  <2>2. CASE putVarint64(v)
    <3>1. Sent("64", v, encodeVarint64(v)) /\ Put("64", v, encodeVarint64(v))
      BY <2>2 DEF putVarint64, Sent
    <3> QED
      BY <3>1, PutStep
  <2>3. CASE putFixed32(v)
    <3>1. Sent("fixed32", v, encodeFixed(v, 4)) /\ Put("fixed32", v, encodeFixed(v, 4))
      BY <2>3 DEF putFixed32, Sent
    <3> QED
      BY <3>1, PutStep
  <2>4. CASE putFixed64(v)
    <3>1. Sent("fixed64", v, encodeFixed(v, 8)) /\ Put("fixed64", v, encodeFixed(v, 8))
      BY <2>4 DEF putFixed64, Sent
    <3> QED
      BY <3>1, PutStep
  <2> QED
    BY <1>1, <2>1, <2>2, <2>3, <2>4
<1>2. ASSUME NEW d \in Slices, putLengthPrefixedSlice(d)
      PROVE  CodingInv'
  <2>1. Sent("slice", d, encodeVarint32(Len(d)) \o d)
        /\ Put("slice", d, encodeVarint32(Len(d)) \o d)
    BY <1>2 DEF putLengthPrefixedSlice, Sent
  <2> QED
    BY <2>1, PutStep
<1>3. ASSUME NEW d \in Slices, NEW seq \in CodedSequenceNumbers,
             \/ putLookupKey(d, seq)
             \/ \E type \in ValueTypes : putKey(ParsedInternalKey(d, seq, type))
      PROVE  CodingInv'
  <2>1. CASE putLookupKey(d, seq)
    <3> PICK type : type = 1
      OBVIOUS
    <3>1. type \in ValueTypes
      BY DEF ValueTypes
    <3>2. Sent("key", ParsedInternalKey(d, seq, type), LookupKey(d, seq))
      BY <3>1, KeysAre
    <3>3. Put("key", ParsedInternalKey(d, seq, type), LookupKey(d, seq))
      BY <2>1 DEF putLookupKey
    <3> QED
      BY <3>2, <3>3, PutStep
  <2>2. ASSUME NEW type \in ValueTypes, putKey(ParsedInternalKey(d, seq, type))
        PROVE  CodingInv'
    <3> PICK k : k = ParsedInternalKey(d, seq, type)
      OBVIOUS
    <3>1. Sent("key", k, encodeKey(appendInternalKey(k)))
      BY KeysAre
    <3>2. Put("key", k, encodeKey(appendInternalKey(k)))
      BY <2>2 DEF putKey
    <3> QED
      BY <3>1, <3>2, PutStep
  <2> QED
    BY <1>3, <2>1, <2>2
<1>4. ASSUME NEW n \in 0 .. Len(dst), Hand(n)
      PROVE  CodingInv'
  BY <1>4, HandStep
<1>5. ASSUME getVarint32 \/ getVarint64
      PROVE  CodingInv'
  BY <1>5, GetVarintStep
<1>6. ASSUME NEW kind \in {"slice", "key"}, getLengthPrefixedSlice(kind)
      PROVE  CodingInv'
  BY <1>6, GetSliceStep
<1>7. CASE getFixed("fixed32", 4)
  <2> PICK kind, n : kind = "fixed32" /\ n = 4
    OBVIOUS
  <2>1. ASSUME NEW v, NEW w, Sent(kind, v, w)
        PROVE  v \in Numbers /\ w = encodeFixed(v, n) /\ v \in Nat /\ v < Power(2 * Base, n)
    <3>1. v \in Numbers /\ v < Max32 /\ w = encodeFixed(v, n)
      BY <2>1 DEF Sent
    <3>2. v \in Nat /\ v < Power(2 * Base, n)
      BY <3>1, InputsAre
    <3> QED
      BY <3>1, <3>2
  <2>2. n \in Nat /\ n > 0 /\ getFixed(kind, n)
    BY <1>7
  <2> QED
    BY <2>1, <2>2, GetFixedStep
<1>8. CASE getFixed("fixed64", 8)
  <2> PICK kind, n : kind = "fixed64" /\ n = 8
    OBVIOUS
  <2>1. ASSUME NEW v, NEW w, Sent(kind, v, w)
        PROVE  v \in Numbers /\ w = encodeFixed(v, n) /\ v \in Nat /\ v < Power(2 * Base, n)
    <3>1. v \in Numbers /\ w = encodeFixed(v, n)
      BY <2>1 DEF Sent
    <3>2. v \in Nat /\ v < Power(2 * Base, n)
      BY <3>1, InputsAre
    <3> QED
      BY <3>1, <3>2
  <2>2. n \in Nat /\ n > 0 /\ getFixed(kind, n)
    BY <1>8
  <2> QED
    BY <2>1, <2>2, GetFixedStep
<1>9. CASE UNCHANGED codingVars
  <2>1. /\ dst' = dst /\ items' = items /\ cut' = cut /\ input' = input /\ got' = got
        /\ failed' = failed
    BY <1>9 DEF codingVars
  <2>2. \A i : End(i)' = End(i)
    BY <2>1 DEF End
  <2>3. ASSUME NEW i, NEW x, Lies(x, i) PROVE Lies(x, i)'
    BY <2>1, <2>2, <2>3 DEF Lies, Sent
  <2>4. CodingTypes'
    BY <2>1 DEF CodingInv, CodingTypes
  <2>5. ItemsLie'
    BY <2>1, <2>2, <2>3 DEF CodingInv, ItemsLie
  <2>6. GotOK'
    BY <2>1, <2>2 DEF CodingInv, GotOK
  <2> QED
    BY <2>4, <2>5, <2>6 DEF CodingInv
<1> QED
  BY <1>1, <1>2, <1>3, <1>4, <1>5, <1>6, <1>7, <1>8, <1>9 DEF CodingNext

\* The invariant holds of every string that is built and taken apart.
LEMMA CodingInvHolds == CodingSpec => []CodingInv
<1> QED
  BY CodingStart, CodingStep, PTL DEF CodingSpec

\* What is got is what was put, for any numbers, slices and keys in any order, and
\* wherever the string is cut (coding.cpp, put... and get...).
THEOREM GetsFindPuts == CodingSpec => []GotIsSent
<1>1. CodingInv => GotIsSent
  BY CodingInvImplies
<1> QED
  BY <1>1, CodingInvHolds, PTL

\* A get fails exactly when its item was cut off, and one that succeeds takes its item
\* and no byte more (coding.cpp, getVarint32Ptr, getLengthPrefixedSlice).
THEOREM GetsFailOnCuts == CodingSpec => []OnlyCutItemsFail
<1>1. CodingInv => OnlyCutItemsFail
  BY CodingInvImplies
<1> QED
  BY <1>1, CodingInvHolds, PTL

\* What is put is as long as varintLength says and fits into the buffers of its putter
\* (coding.cpp, putVarint32, putVarint64; dbformat.cpp, LookupKey).
THEOREM CodesHaveLengths == CodingSpec => []LengthsAgree
<1>1. CodingInv => LengthsAgree
  BY CodingInvImplies
<1> QED
  BY <1>1, CodingInvHolds, PTL
=============================================================================
