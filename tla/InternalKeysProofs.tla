------------------------ MODULE InternalKeysProofs -------------------------
(***************************************************************************)
(* Proofs about InternalKeys, for byte strings of any length: shortening   *)
(* and succession never move a key to the wrong side, and the order is a   *)
(* total one.                                                              *)
(***************************************************************************)
EXTENDS InternalKeys, SequenceTheorems, WellFoundedInduction, TLAPS

\* A set of natural numbers that is not empty has a least member.
LEMMA LeastNat ==
  ASSUME NEW S, S \subseteq Nat, S # {}
  PROVE  First(S) \in S /\ \A y \in S : First(S) <= y
<1> DEFINE R == {ss \in Nat \X Nat : ss[1] < ss[2]}
<1>1. IsWellFoundedOn(R, Nat)
  BY NatLessThanWellFounded DEF OpToRel
<1> HIDE DEF R
<1>2. \E x \in S : \A y \in S : ~(<<y, x>> \in R)
  BY <1>1, WFMin
<1>3. \A x, y \in Nat : <<y, x>> \notin R => x <= y
  BY DEF R
<1>4. \E x \in S : \A y \in S : x <= y
  BY <1>2, <1>3
<1> QED BY <1>4 DEF First

\* The bytewise order is asymmetric, so irreflexive.
LEMMA LessAsymmetric ==
  ASSUME NEW a \in Seq(Byte), NEW b \in Seq(Byte), Less(a, b)
  PROVE  ~Less(b, a) /\ a # b
<1> USE DEF Byte
<1>1. PICK i \in 1 .. Len(b) : /\ \A j \in 1 .. i - 1 : j <= Len(a) /\ a[j] = b[j]
                               /\ i <= Len(a) => a[i] < b[i]
  BY DEF Less
<1>2. Len(a) \in Nat /\ Len(b) \in Nat /\ i \in Nat /\ i >= 1
  OBVIOUS
<1>3. i <= Len(a) => a[i] \in Nat /\ b[i] \in Nat /\ a[i] # b[i]
  BY <1>1, <1>2, InternalKeysAssumption, ElementOfSeq
<1>4. a # b
  BY <1>1, <1>2, <1>3
<1>5. ASSUME NEW k \in 1 .. Len(a),
             \A j \in 1 .. k - 1 : j <= Len(b) /\ b[j] = a[j],
             k <= Len(b) => b[k] < a[k]
      PROVE  FALSE
  <2>1. CASE k < i
    <3>1. k \in 1 .. i - 1 /\ k \in 1 .. Len(b)
      BY <1>2, <2>1
    <3>2. a[k] = b[k] /\ a[k] \in Nat
      BY <1>1, <3>1, InternalKeysAssumption, ElementOfSeq
    <3> QED BY <1>2, <1>5, <3>1, <3>2
  <2>2. CASE k > i
    <3>1. i \in 1 .. k - 1 /\ i <= Len(a)
      BY <1>2, <2>2
    <3> QED BY <1>3, <1>5, <3>1
  <2>3. CASE k = i
    <3>1. i <= Len(a) /\ i <= Len(b)
      BY <1>2, <2>3
    <3> QED BY <1>1, <1>3, <1>5, <2>3, <3>1
  <2>4. k \in Nat
    OBVIOUS
  <2> QED BY <1>2, <2>1, <2>2, <2>3, <2>4
<1> QED BY <1>4, <1>5 DEF Less

\* The bytes of a string of at least two are those of its user key, and two more.
LEMMA UserIs ==
  ASSUME NEW k \in Seq(Byte), Len(k) >= 2
  PROVE  /\ User(k) \in Seq(Byte)
         /\ Len(User(k)) = Len(k) - 2
         /\ \A i \in 1 .. Len(User(k)) : User(k)[i] = k[i]
<1>1. Len(k) - 2 \in Nat
  OBVIOUS
<1>2. \A i \in 1 .. Len(k) - 2 : k[i] \in Byte
  BY ElementOfSeq
<1> DEFINE n == Len(k) - 2
           u == SubSeq(k, 1, n)
<1>3. /\ u \in Seq(Byte)
      /\ Len(u) = IF 1 <= n THEN n - 1 + 1 ELSE 0
      /\ \A i \in 1 .. n - 1 + 1 : u[i] = k[1 + i - 1]
  BY <1>1, <1>2, SubSeqProperties
<1>4. n \in Nat /\ User(k) = u
  BY <1>1 DEF User
<1> HIDE DEF u, n
<1>5. \A i \in 1 .. n : i \in 1 .. n - 1 + 1 /\ 1 + i - 1 = i
  BY <1>4
<1>6. Len(u) = n
  BY <1>3, <1>4
<1> QED BY <1>3, <1>4, <1>5, <1>6 DEF n

\* The user key of an internal key
LEMMA UserOfSeek ==
  ASSUME NEW u \in Seq(Byte)
  PROVE  /\ Seek(u) \in Seq(Byte) /\ Len(Seek(u)) = Len(u) + 2
         /\ Seek(u)[Len(Seek(u)) - 1] = 1
         /\ User(Seek(u)) = u
<1> DEFINE tag == <<1, MaxByte>>
<1>1. tag \in Seq(Byte) /\ Len(tag) = 2 /\ tag[1] = 1
  BY InternalKeysAssumption DEF Byte
<1> HIDE DEF tag
<1>2. Seek(u) = u \o tag
  BY DEF Seek, InternalKey, tag
<1>3. /\ Seek(u) \in Seq(Byte) /\ Len(Seek(u)) = Len(u) + Len(tag)
      /\ \A i \in 1 .. Len(u) + Len(tag) :
           Seek(u)[i] = IF i <= Len(u) THEN u[i] ELSE tag[i - Len(u)]
  <2>1. /\ u \o tag \in Seq(Byte) /\ Len(u \o tag) = Len(u) + Len(tag)
        /\ \A i \in 1 .. Len(u) + Len(tag) :
             (u \o tag)[i] = IF i <= Len(u) THEN u[i] ELSE tag[i - Len(u)]
    BY <1>1, ConcatProperties
  <2> HIDE DEF tag
  <2> QED BY <1>2, <2>1, Zenon
<1>4. Len(u) \in Nat /\ Len(Seek(u)) = Len(u) + 2
  BY <1>1, <1>3
<1>5. Seek(u)[Len(u) + 1] = 1
  <2>1. Len(u) + 1 \in 1 .. Len(u) + Len(tag) /\ ~(Len(u) + 1 <= Len(u)) /\ (Len(u) + 1) - Len(u) = 1
    BY <1>1, <1>4
  <2> QED BY <1>1, <1>3, <2>1
<1>6. User(Seek(u)) = u
  <2>1. /\ User(Seek(u)) \in Seq(Byte) /\ Len(User(Seek(u))) = Len(u)
        /\ \A i \in 1 .. Len(u) : User(Seek(u))[i] = Seek(u)[i]
    BY <1>3, <1>4, UserIs
  <2>2. \A i \in 1 .. Len(u) : User(Seek(u))[i] = u[i]
    BY <1>1, <1>3, <1>4, <2>1
  <2> QED BY <2>1, <2>2, SeqEqual
<1> QED BY <1>3, <1>4, <1>5, <1>6

\* The test on the whole internal key (dbformat.cpp:72) decides as one on the
\* user key would: bytes behind the user key cannot make the separator larger.
LEMMA GuardOnUserKey ==
  ASSUME NEW k \in Seq(Byte), Len(k) >= 2, NEW t \in Seq(Byte), Less(k, t)
  PROVE  Less(User(k), t)
<1> DEFINE u == User(k)
<1>1. u \in Seq(Byte) /\ Len(u) = Len(k) - 2 /\ \A i \in 1 .. Len(u) : u[i] = k[i]
  BY UserIs
<1>2. PICK i \in 1 .. Len(t) : /\ \A j \in 1 .. i - 1 : j <= Len(k) /\ k[j] = t[j]
                               /\ i <= Len(k) => k[i] < t[i]
  BY DEF Less
<1> HIDE DEF u
<1>3. Len(u) \in Nat /\ Len(k) \in Nat /\ Len(t) \in Nat /\ i \in Nat
  BY <1>1
<1>4. CASE i <= Len(u)
  <2>1. i <= Len(k) /\ u[i] = k[i] /\ \A j \in 1 .. i - 1 : j <= Len(u) /\ u[j] = k[j]
    BY <1>1, <1>3, <1>4
  <2> QED BY <1>2, <2>1 DEF Less, u
<1>5. CASE i > Len(u)
  <2>1. Len(u) + 1 \in 1 .. Len(t) /\ ~(Len(u) + 1 <= Len(u))
    BY <1>3, <1>5
  <2>2. \A j \in 1 .. (Len(u) + 1) - 1 : j <= Len(u) /\ u[j] = t[j]
    BY <1>1, <1>2, <1>3, <1>5
  <2> QED BY <2>1, <2>2 DEF Less, u
<1> QED BY <1>3, <1>4, <1>5

\* comparator.cpp:25-43: a separator that is not the string it was made of is
\* smaller than the limit.
LEMMA SeparatorBelowLimit ==
  ASSUME NEW u \in Seq(Byte), NEW l \in Seq(Byte), Separator(u, l) # u
  PROVE  Separator(u, l) \in Seq(Byte) /\ Less(Separator(u, l), l)
<1> DEFINE t == Separator(u, l)
           D == Differences(u, l)
           d == First(D)
<1>1. t # u
  OBVIOUS
<1>2. D # {} /\ u[d] < MaxByte /\ u[d] + 1 < l[d]
      /\ t = Resize([u EXCEPT ![d] = u[d] + 1], u[d] + 1)
  BY <1>1 DEF Separator
<1>3. D \subseteq Nat /\ \A i \in D : i \in 1 .. Len(u) /\ i \in 1 .. Len(l) /\ u[i] # l[i]
  BY DEF Differences
<1>4. d \in D /\ \A j \in D : d <= j
  BY <1>2, <1>3, LeastNat
<1> HIDE DEF t, D, d
<1>5. /\ u \in [1 .. Len(u) -> Byte] /\ Len(u) \in Nat /\ Len(l) \in Nat
      /\ d \in 1 .. Len(u) /\ d \in 1 .. Len(l) /\ d \in Nat
  BY <1>3, <1>4
<1> DEFINE n == u[d] + 1
           w == [u EXCEPT ![d] = n]
<1>6. n \in Byte /\ n \in Nat /\ n # 0
  BY <1>2, <1>5, InternalKeysAssumption DEF Byte
<1>7. \A j \in 1 .. d - 1 : u[j] = l[j] /\ j <= Len(u) /\ j \in DOMAIN u
  <2>1. ASSUME NEW j \in 1 .. d - 1 PROVE u[j] = l[j] /\ j <= Len(u) /\ j \in DOMAIN u
    <3>1. j \notin D
      BY <1>4, <1>5
    <3>2. j \in DOMAIN u /\ j \in DOMAIN l
      BY <1>5
    <3> QED BY <1>5, <3>1, <3>2 DEF D, Differences
  <2> QED BY <2>1
<1>8. w \in [1 .. Len(u) -> Byte] /\ w[d] = n /\ \A j \in 1 .. d - 1 : w[j] = u[j]
  BY <1>5, <1>6, <1>7
<1>9. Len(w) = Len(u)
  BY <1>5, <1>8
<1> HIDE DEF w
<1>10. /\ t \in Seq(Byte) /\ Len(t) = n
       /\ \A j \in 1 .. n : t[j] = IF j <= Len(u) THEN w[j] ELSE 0
  <2>1. t = [j \in 1 .. n |-> IF j <= Len(u) THEN w[j] ELSE 0]
    BY <1>2, <1>9 DEF Resize, w
  <2>2. \A j \in 1 .. n : (IF j <= Len(u) THEN w[j] ELSE 0) \in Byte
    <3>1. \A j \in 1 .. Len(u) : w[j] \in Byte
      BY <1>8
    <3>2. 0 \in Byte /\ \A j \in 1 .. n : j <= Len(u) => j \in 1 .. Len(u)
      BY <1>5, <1>6, InternalKeysAssumption DEF Byte
    <3> HIDE DEF n
    <3> QED BY <3>1, <3>2
  <2> HIDE DEF n
  <2>3. t \in [1 .. n -> Byte]
    BY <2>1, <2>2
  <2> QED BY <1>6, <2>1, <2>3
<1> HIDE DEF n
<1>11. n < l[d]
  BY <1>2 DEF n, d, D
<1>12. CASE d <= n
  <2>1. t[d] = n /\ \A j \in 1 .. d - 1 : j <= Len(t) /\ t[j] = l[j]
    BY <1>5, <1>6, <1>7, <1>8, <1>10, <1>12
  <2> QED BY <1>5, <1>10, <1>11, <2>1 DEF Less, t
<1>13. CASE d > n
  <2>1. n + 1 \in 1 .. Len(l) /\ ~(n + 1 <= Len(t))
    BY <1>5, <1>6, <1>10, <1>13
  <2>2. \A j \in 1 .. (n + 1) - 1 : j <= Len(t) /\ t[j] = l[j]
    BY <1>5, <1>6, <1>7, <1>8, <1>10, <1>13
  <2> QED BY <1>10, <2>1, <2>2 DEF Less, t
<1> QED BY <1>5, <1>6, <1>10, <1>12, <1>13 DEF t

-----------------------------------------------------------------------------
(* Successor *)

\* comparator.cpp:44-57: the successor is a larger string, and not a longer one,
\* if the string has a byte that is not the largest.
LEMMA SuccessorIs ==
  ASSUME NEW u \in Seq(Byte)
  PROVE  /\ Successor(u) \in Seq(Byte)
         /\ (\A i \in DOMAIN u : u[i] = MaxByte) => Successor(u) = u
         /\ (\E i \in DOMAIN u : u[i] # MaxByte)
              => Less(u, Successor(u)) /\ Len(Successor(u)) <= Len(u)
<1> DEFINE places == {i \in DOMAIN u : u[i] # MaxByte}
           d == First(places)
           w == [u EXCEPT ![d] = @ + 1]
<1>1. CASE places = {}
  BY <1>1 DEF Successor
<1>2. CASE places # {}
  <2>1. places \subseteq 1 .. Len(u) /\ places \subseteq Nat
    OBVIOUS
  <2>2. d \in places
    BY <1>2, <2>1, LeastNat
  <2> HIDE DEF d
  <2>3. d \in 1 .. Len(u) /\ u[d] # MaxByte /\ u[d] \in Byte
    BY <2>2, ElementOfSeq
  <2>4. u[d] + 1 \in Byte /\ u[d] < u[d] + 1
    BY <2>3, InternalKeysAssumption DEF Byte
  <2>5. /\ w \in [1 .. Len(u) -> Byte] /\ w \in Seq(Byte) /\ Len(w) = Len(u) /\ Len(u) \in Nat
        /\ w[d] = u[d] + 1 /\ \A j \in 1 .. d - 1 : w[j] = u[j]
    BY <2>3, <2>4
  <2> HIDE DEF w
  <2>6. \A i \in 1 .. d : i <= Len(w) /\ (IF i <= Len(w) THEN w[i] ELSE 0) \in Byte
    <3>1. \A i \in 1 .. d : i <= Len(w) /\ i \in 1 .. Len(u)
      BY <2>3, <2>5
    <3> QED BY <2>5, <3>1
  <2> DEFINE r == Resize(w, d)
  <2>7. r \in [1 .. d -> Byte] /\ d \in Nat /\ \A i \in 1 .. d : r[i] = w[i]
    BY <2>3, <2>6 DEF Resize
  <2> HIDE DEF r
  <2>8. r \in Seq(Byte) /\ Len(r) = d
    BY <2>7
  <2>9. \A j \in 1 .. d - 1 : j <= Len(u) /\ u[j] = r[j]
    BY <2>3, <2>5, <2>7
  <2>10. d \in 1 .. Len(r) /\ u[d] < r[d]
    BY <2>3, <2>4, <2>5, <2>7, <2>8
  <2>11. Less(u, r)
    BY <2>9, <2>10 DEF Less
  <2>12. Len(r) <= Len(u)
    BY <2>3, <2>8
  <2>13. Successor(u) = r
    BY <1>2 DEF Successor, w, d, r
  <2> QED BY <1>2, <2>8, <2>11, <2>12, <2>13
<1> QED BY <1>1, <1>2

-----------------------------------------------------------------------------
(* The client's steps *)

\* Both operations return an internal key, of which the user key is the one of
\* the argument or a larger one.
LEMMA InternalSeparatorIs ==
  ASSUME NEW k \in Seq(Byte), Len(k) >= 2, NEW l \in Seq(Byte), Len(l) >= 2
  PROVE  \/ InternalSeparator(k, l) = k
         \/ \E t \in Seq(Byte) : /\ InternalSeparator(k, l) = Seek(t)
                                 /\ Less(User(k), t) /\ Less(t, User(l))
<1> DEFINE t == Separator(User(k), User(l))
<1>1. CASE ~Less(k, t)
  BY <1>1 DEF InternalSeparator
<1>2. CASE Less(k, t)
  <2>1. User(k) \in Seq(Byte) /\ User(l) \in Seq(Byte)
    BY UserIs
  <2>2. t \in Seq(Byte)
    BY <2>1, SeparatorBelowLimit
  <2>3. Less(User(k), t)
    BY <1>2, <2>2, GuardOnUserKey
  <2>4. t # User(k)
    BY <2>1, <2>2, <2>3, LessAsymmetric
  <2>5. Less(t, User(l))
    BY <2>1, <2>4, SeparatorBelowLimit
  <2>6. InternalSeparator(k, l) = Seek(t)
    BY <1>2 DEF InternalSeparator
  <2> HIDE DEF t
  <2> QED BY <2>2, <2>3, <2>5, <2>6
<1> QED BY <1>1, <1>2

LEMMA InternalSuccessorIs ==
  ASSUME NEW k \in Seq(Byte), Len(k) >= 2
  PROVE  \/ /\ \A i \in DOMAIN User(k) : User(k)[i] = MaxByte
            /\ InternalSuccessor(k) = k
         \/ /\ \E i \in DOMAIN User(k) : User(k)[i] # MaxByte
            /\ \E t \in Seq(Byte) : /\ InternalSuccessor(k) = Seek(t) /\ Less(User(k), t)
                                   /\ Len(t) <= Len(User(k))
<1>1. User(k) \in Seq(Byte)
  BY UserIs
<1>2. CASE \A i \in DOMAIN User(k) : User(k)[i] = MaxByte
  <2>1. Successor(User(k)) = User(k)
    BY <1>1, <1>2, SuccessorIs
  <2>2. ~Less(User(k), User(k))
    BY <1>1, LessAsymmetric
  <2> QED BY <1>2, <2>1, <2>2 DEF InternalSuccessor
<1>3. CASE \E i \in DOMAIN User(k) : User(k)[i] # MaxByte
  <2>1. /\ Successor(User(k)) \in Seq(Byte) /\ Less(User(k), Successor(User(k)))
        /\ Len(Successor(User(k))) <= Len(User(k))
    BY <1>1, <1>3, SuccessorIs
  <2>2. InternalSuccessor(k) = Seek(Successor(User(k)))
    BY <2>1 DEF InternalSuccessor
  <2> QED BY <1>3, <2>1, <2>2
<1> QED BY <1>2, <1>3

\* A key made of a larger user key is larger, whatever its tag.
LEMMA SeekAbove ==
  ASSUME NEW k \in Seq(Byte), Len(k) >= 2, NEW t \in Seq(Byte), Less(User(k), t)
  PROVE  ~InternalLess(Seek(t), k)
<1>1. User(k) \in Seq(Byte) /\ User(Seek(t)) = t
  BY UserIs, UserOfSeek
<1>2. ~Less(t, User(k)) /\ t # User(k)
  BY <1>1, LessAsymmetric
<1> QED BY <1>1, <1>2 DEF InternalLess

\* A key is not below itself.
LEMMA NotBelowItself ==
  ASSUME NEW k \in Seq(Byte), Len(k) >= 2, \A i \in 1 .. Len(k) : k[i] \in Nat
  PROVE  ~InternalLess(k, k)
<1>1. ~Less(User(k), User(k))
  BY UserIs, LessAsymmetric
<1>2. Tag(k) \in Nat
  <2>1. Len(k) \in 1 .. Len(k) /\ Len(k) - 1 \in 1 .. Len(k)
    OBVIOUS
  <2>2. k[Len(k)] \in Nat /\ k[Len(k) - 1] \in Nat
    BY <2>1
  <2> QED BY <2>2, InternalKeysAssumption DEF Tag
<1>3. ~(Tag(k) < Tag(k))
  BY <1>2
<1> QED BY <1>1, <1>3 DEF InternalLess

\* An internal key that a client can hold
LEMMA InternalKeyIs ==
  ASSUME NEW u \in UserKeys, NEW q \in SequenceNumbers, NEW type \in Types
  PROVE  LET k == InternalKey(u, q, type)
         IN  k \in Seq(Byte) /\ Len(k) >= 2 /\ k[Len(k) - 1] \in Types
<1> DEFINE tag == <<type, q>>
           k == u \o tag
<1>1. type \in Byte /\ q \in Byte /\ u \in Seq(Byte)
  BY InternalKeysAssumption DEF Types, Byte
<1>2. tag \in Seq(Byte) /\ Len(tag) = 2 /\ tag[1] = type
  BY <1>1
<1> HIDE DEF tag
<1>3. /\ k \in Seq(Byte) /\ Len(k) = Len(u) + Len(tag)
      /\ \A i \in 1 .. Len(u) + Len(tag) : k[i] = IF i <= Len(u) THEN u[i] ELSE tag[i - Len(u)]
  BY <1>1, <1>2, ConcatProperties
<1> HIDE DEF k
<1>4. Len(u) \in Nat /\ Len(k) = Len(u) + 2 /\ Len(k) - 1 = Len(u) + 1
  BY <1>1, <1>2, <1>3
<1>5. k[Len(u) + 1] = tag[1]
  <2>1. Len(u) + 1 \in 1 .. Len(u) + Len(tag) /\ ~(Len(u) + 1 <= Len(u)) /\ (Len(u) + 1) - Len(u) = 1
    BY <1>2, <1>4
  <2> QED BY <1>3, <2>1
<1>6. k \in Seq(Byte) /\ Len(k) >= 2 /\ k[Len(k) - 1] \in Types
  BY <1>2, <1>3, <1>4, <1>5
<1>7. InternalKey(u, q, type) = k
  BY DEF InternalKey, k, tag
<1> QED BY <1>6, <1>7

\* The string a client holds always ends with a tag.
THEOREM TypeCorrect == Spec => []TypeOK
<1>1. ASSUME Init PROVE TypeOK
  <2>1. ASSUME NEW k \in InternalKeySet
        PROVE  k \in Seq(Byte) /\ Len(k) >= 2 /\ k[Len(k) - 1] \in Types
    <3>1. PICK u \in UserKeys, q \in SequenceNumbers, type \in Types : k = InternalKey(u, q, type)
      BY DEF InternalKeySet
    <3> QED BY <3>1, InternalKeyIs
  <2> QED BY <1>1, <2>1 DEF Init, TypeOK
<1>2. ASSUME TypeOK, [Next]_vars PROVE TypeOK'
  <2> DEFINE Good(k) == k \in Seq(Byte) /\ Len(k) >= 2 /\ k[Len(k) - 1] \in Types
  <2>1. Good(key) /\ Good(limit)
    BY <1>2 DEF TypeOK
  <2>2. \A t \in Seq(Byte) : Good(Seek(t))
    <3>1. ASSUME NEW t \in Seq(Byte) PROVE Good(Seek(t))
      <4>1. Len(t) \in Nat /\ 1 \in Types
        BY DEF Types
      <4> QED BY <4>1, UserOfSeek
    <3> QED BY <3>1
  <2>3. CASE Shorten
    <3>1. Good(InternalSeparator(key, limit))
      BY <2>1, <2>2, InternalSeparatorIs
    <3> QED BY <2>1, <2>3, <3>1 DEF Shorten, TypeOK
  <2>4. CASE Succeed
    <3>1. \/ InternalSuccessor(key) = key
          \/ \E t \in Seq(Byte) : InternalSuccessor(key) = Seek(t) /\ Less(User(key), t)
      BY <2>1, InternalSuccessorIs
    <3>2. Good(InternalSuccessor(key))
      BY <2>1, <2>2, <3>1
    <3> QED BY <2>1, <2>4, <3>2 DEF Succeed, TypeOK
  <2>5. CASE UNCHANGED vars
    BY <2>1, <2>5 DEF vars, TypeOK
  <2> QED BY <1>2, <2>3, <2>4, <2>5 DEF Next
<1> QED BY <1>1, <1>2, PTL DEF Spec

\* A key shortened towards a larger limit stays between what it was and the
\* limit in the internal order, for keys of any length (dbformat.cpp:65-79).
THEOREM SeparatorCorrect == Spec => ShortenedBetween
<1>1. ASSUME TypeOK, Shorten, InternalLess(key, limit)
      PROVE  ~InternalLess(key', key) /\ InternalLess(key', limit)
  <2>1. /\ key \in Seq(Byte) /\ Len(key) >= 2
        /\ limit \in Seq(Byte) /\ Len(limit) >= 2
    BY <1>1 DEF TypeOK
  <2>2. key' = InternalSeparator(key, limit)
    BY <1>1 DEF Shorten
  <2>3. CASE key' = key
    <3>1. ~InternalLess(key, key)
      <4>1. \A i \in 1 .. Len(key) : key[i] \in Nat
        <5>1. \A i \in 1 .. Len(key) : key[i] \in Byte
          BY <2>1, ElementOfSeq
        <5> QED BY <5>1 DEF Byte
      <4> QED BY <2>1, <4>1, NotBelowItself
    <3> QED BY <1>1, <2>3, <3>1
  <2>4. CASE \E t \in Seq(Byte) : /\ key' = Seek(t)
                                  /\ Less(User(key), t) /\ Less(t, User(limit))
    <3>1. PICK t \in Seq(Byte) : key' = Seek(t) /\ Less(User(key), t) /\ Less(t, User(limit))
      BY <2>4
    <3>2. ~InternalLess(Seek(t), key)
      BY <2>1, <3>1, SeekAbove
    <3>3. InternalLess(Seek(t), limit)
      BY <3>1, UserOfSeek DEF InternalLess
    <3> QED BY <3>1, <3>2, <3>3
  <2> QED BY <2>1, <2>2, <2>3, <2>4, InternalSeparatorIs
<1>2. TypeOK /\ [Next]_vars =>
        [Shorten /\ InternalLess(key, limit)
           => ~InternalLess(key', key) /\ InternalLess(key', limit)]_vars
  BY <1>1
<1> QED BY <1>2, TypeCorrect, PTL DEF Spec, ShortenedBetween

\* A successor is above its key in the internal order and not longer, for keys of
\* any length (dbformat.cpp:81-92).
THEOREM SuccessorCorrect == Spec => SuccessorAbove
<1>1. ASSUME TypeOK, Succeed, key' # key
      PROVE  InternalLess(key, key') /\ Len(key') <= Len(key)
  <2>1. key \in Seq(Byte) /\ Len(key) >= 2 /\ key' = InternalSuccessor(key)
    BY <1>1 DEF TypeOK, Succeed
  <2>2. PICK t \in Seq(Byte) : key' = Seek(t) /\ Less(User(key), t) /\ Len(t) <= Len(User(key))
    BY <1>1, <2>1, InternalSuccessorIs
  <2>3. InternalLess(key, Seek(t))
    BY <2>2, UserOfSeek DEF InternalLess
  <2>4. Len(Seek(t)) <= Len(key)
    <3>1. Len(User(key)) = Len(key) - 2 /\ Len(Seek(t)) = Len(t) + 2
      BY <2>1, UserIs, UserOfSeek
    <3>2. Len(t) \in Nat /\ Len(key) \in Nat
      BY <2>1
    <3> QED BY <2>2, <3>1, <3>2
  <2> QED BY <2>2, <2>3, <2>4
<1>2. TypeOK /\ [Next]_vars =>
        [Succeed => InternalLess(key, key') /\ Len(key') <= Len(key)]_vars
  BY <1>1 DEF Succeed, vars
<1> QED BY <1>2, TypeCorrect, PTL DEF Spec, SuccessorAbove

-----------------------------------------------------------------------------
(* The order of internal keys is total *)

\* The bytes of a string are natural numbers.
LEMMA BytesAreNumbers ==
  ASSUME NEW s \in Seq(Byte), NEW j \in 1 .. Len(s)
  PROVE  s[j] \in Nat
<1>1. s[j] \in Byte
  BY ElementOfSeq
<1>2. Byte \subseteq Nat
  BY InternalKeysAssumption DEF Byte
<1> QED BY <1>1, <1>2

\* The bytewise order is transitive.
LEMMA LessTransitive ==
  ASSUME NEW a \in Seq(Byte), NEW b \in Seq(Byte), NEW c \in Seq(Byte), Less(a, b), Less(b, c)
  PROVE  Less(a, c)
<1>1. PICK i \in 1 .. Len(b) : /\ \A j \in 1 .. i - 1 : j <= Len(a) /\ a[j] = b[j]
                               /\ i <= Len(a) => a[i] < b[i]
  BY DEF Less
<1>2. PICK k \in 1 .. Len(c) : /\ \A j \in 1 .. k - 1 : j <= Len(b) /\ b[j] = c[j]
                               /\ k <= Len(b) => b[k] < c[k]
  BY DEF Less
<1>3. Len(a) \in Nat /\ Len(b) \in Nat /\ Len(c) \in Nat
  OBVIOUS
<1>4. \A s \in Seq(Byte) : \A j \in 1 .. Len(s) : s[j] \in Nat
  BY BytesAreNumbers
<1>5. CASE i < k
  <2>1. i \in 1 .. k - 1 /\ i \in 1 .. Len(c) /\ b[i] = c[i]
    BY <1>2, <1>5
  <2>2. \A j \in 1 .. i - 1 : j <= Len(a) /\ a[j] = c[j]
    <3>1. \A j \in 1 .. i - 1 : j \in 1 .. k - 1
      BY <1>5
    <3> QED BY <1>1, <1>2, <3>1
  <2>3. i <= Len(a) => a[i] < c[i]
    BY <1>1, <2>1
  <2> QED BY <2>1, <2>2, <2>3 DEF Less
<1>6. CASE k <= i
  <2>1. \A j \in 1 .. k - 1 : j <= Len(a) /\ a[j] = c[j]
    <3>1. \A j \in 1 .. k - 1 : j \in 1 .. i - 1
      BY <1>6
    <3> QED BY <1>1, <1>2, <3>1
  <2>2. ASSUME k <= Len(a) PROVE a[k] < c[k]
    <3>1. k \in 1 .. Len(a) /\ k \in 1 .. Len(b) /\ k \in 1 .. Len(c)
      BY <1>3, <1>6, <2>2
    <3>2. a[k] \in Nat /\ b[k] \in Nat /\ c[k] \in Nat /\ b[k] < c[k]
      BY <1>2, <1>4, <3>1
    <3>3. a[k] = b[k] \/ a[k] < b[k]
      <4>1. CASE k = i
        BY <1>1, <4>1, <2>2
      <4>2. CASE k < i
        <5>1. k \in 1 .. i - 1
          BY <4>2
        <5> QED BY <1>1, <5>1
      <4> QED BY <1>6, <4>1, <4>2
    <3> QED BY <3>2, <3>3
  <2> QED BY <2>1, <2>2 DEF Less
<1> QED BY <1>5, <1>6

\* Two strings that are not below each other have the same bytes, so they are one.
LEMMA LessTotal ==
  ASSUME NEW a \in Seq(Byte), NEW b \in Seq(Byte), a # b
  PROVE  Less(a, b) \/ Less(b, a)
<1>1. \A s \in Seq(Byte) : \A j \in 1 .. Len(s) : s[j] \in Nat
  BY BytesAreNumbers
<1>2. Len(a) \in Nat /\ Len(b) \in Nat
  OBVIOUS
\* The places where one has a byte and the other has none, or another
<1> DEFINE Differ(i) == \/ i > Len(a) /\ i <= Len(b)
                        \/ i > Len(b) /\ i <= Len(a)
                        \/ i <= Len(a) /\ i <= Len(b) /\ a[i] # b[i]
           S == {i \in Nat \ {0} : Differ(i)}
<1>3. S # {}
  <2>1. CASE Len(a) = Len(b)
    <3>1. PICK i \in 1 .. Len(a) : a[i] # b[i]
      BY <2>1, SeqEqual
    <3>2. i \in S
      BY <1>2, <2>1, <3>1
    <3> QED BY <3>2
  <2>2. CASE Len(a) < Len(b)
    <3>1. Len(b) \in S
      BY <1>2, <2>2
    <3> QED BY <3>1
  <2>3. CASE Len(b) < Len(a)
    <3>1. Len(a) \in S
      BY <1>2, <2>3
    <3> QED BY <3>1
  <2> QED BY <1>2, <2>1, <2>2, <2>3
<1>4. PICK i \in S : \A j \in S : i <= j
  <2>1. S \subseteq Nat
    OBVIOUS
  <2> HIDE DEF S
  <2> QED BY <1>3, <2>1, LeastNat
<1>5. i \in Nat /\ i >= 1 /\ Differ(i)
  BY <1>4
<1>6. \A j \in 1 .. i - 1 : j <= Len(a) /\ j <= Len(b) /\ a[j] = b[j]
  <2>1. ASSUME NEW j \in 1 .. i - 1 PROVE j \notin S
    BY <1>4, <1>5
  <2>2. ASSUME NEW j \in 1 .. i - 1 PROVE ~Differ(j)
    BY <1>5, <2>1
  <2>3. ASSUME NEW j \in 1 .. i - 1 PROVE j <= Len(a) \/ j <= Len(b)
    BY <1>2, <1>5
  <2> QED BY <1>2, <1>5, <2>2, <2>3
<1>7. CASE i > Len(a) /\ i <= Len(b)
  BY <1>2, <1>5, <1>6, <1>7 DEF Less
<1>8. CASE i > Len(b) /\ i <= Len(a)
  BY <1>2, <1>5, <1>6, <1>8 DEF Less
<1>9. CASE i <= Len(a) /\ i <= Len(b) /\ a[i] # b[i]
  <2>1. i \in 1 .. Len(a) /\ i \in 1 .. Len(b)
    BY <1>2, <1>5, <1>9
  <2>2. a[i] < b[i] \/ b[i] < a[i]
    BY <1>1, <1>9, <2>1
  <2> QED BY <1>6, <2>1, <2>2 DEF Less
<1> QED BY <1>5, <1>7, <1>8, <1>9

\* A tag tells both of its bytes, the one of the sequence number first.
LEMMA TagIs ==
  ASSUME NEW a \in Seq(Byte), Len(a) >= 2, NEW b \in Seq(Byte), Len(b) >= 2, Tag(a) = Tag(b)
  PROVE  a[Len(a)] = b[Len(b)] /\ a[Len(a) - 1] = b[Len(b) - 1]
<1>1. PICK B \in Nat : B = MaxByte + 1
  BY InternalKeysAssumption
<1>2. \A s \in Seq(Byte) : Len(s) >= 2 => s[Len(s)] \in Byte /\ s[Len(s) - 1] \in Byte
  BY ElementOfSeq
<1>3. PICK p \in Byte : p = a[Len(a)]
  BY <1>2
<1>4. PICK q \in Byte : q = a[Len(a) - 1]
  BY <1>2
<1>5. PICK r \in Byte : r = b[Len(b)]
  BY <1>2
<1>6. PICK s \in Byte : s = b[Len(b) - 1]
  BY <1>2
<1>7. p * B + q = r * B + s
  BY <1>1, <1>3, <1>4, <1>5, <1>6 DEF Tag
<1>8. p \in Nat /\ q \in Nat /\ r \in Nat /\ s \in Nat /\ q < B /\ s < B
  BY <1>1, InternalKeysAssumption DEF Byte
<1>9. \A x, y \in Nat : x < y => x * B + B <= y * B
  <2>1. \A d \in Nat : d * B \in Nat
    BY <1>1
  <2>2. ASSUME NEW x \in Nat, NEW y \in Nat, x < y PROVE x * B + B <= y * B
    <3>1. PICK d \in Nat : y = x + 1 + d
      <4>1. y - x - 1 \in Nat /\ y = x + 1 + (y - x - 1)
        BY <2>2
      <4> QED BY <4>1
    <3>2. y * B = x * B + B + d * B
      BY <1>1, <3>1
    <3> QED BY <2>1, <3>2
  <2> QED BY <2>2
<1>10. p * B \in Nat /\ r * B \in Nat
  BY <1>1, <1>8
<1>11. p = r
  <2>1. PICK pB \in Nat : pB = p * B
    BY <1>10
  <2>2. PICK rB \in Nat : rB = r * B
    BY <1>10
  <2>3. pB + q = rB + s
    BY <1>7, <2>1, <2>2
  <2>4. (p < r => pB + B <= rB) /\ (r < p => rB + B <= pB)
    BY <1>8, <1>9, <2>1, <2>2
  <2> QED BY <1>1, <1>8, <2>3, <2>4
<1>12. q = s
  BY <1>7, <1>8, <1>10, <1>11
<1> QED BY <1>3, <1>4, <1>5, <1>6, <1>11, <1>12

\* The order of internal keys is a strict total order, on strings of any length that
\* end with a tag: what the searches of a skip list need of their comparator,
\* and what makes equal() of skiplist.h:43 the equality of keys (dbformat.cpp:51-63).
\* The model of SkipList has integers for keys.
THEOREM InternalOrder ==
  ASSUME NEW a \in Seq(Byte), Len(a) >= 2,
         NEW b \in Seq(Byte), Len(b) >= 2,
         NEW c \in Seq(Byte), Len(c) >= 2
  PROVE  /\ ~InternalLess(a, a)
         /\ InternalLess(a, b) /\ InternalLess(b, c) => InternalLess(a, c)
         /\ InternalLess(a, b) \/ a = b \/ InternalLess(b, a)
<1>1. /\ User(a) \in Seq(Byte) /\ User(b) \in Seq(Byte) /\ User(c) \in Seq(Byte)
  BY UserIs
<1>2. \A s \in Seq(Byte) : \A j \in 1 .. Len(s) : s[j] \in Nat
  BY BytesAreNumbers
<1>3. Tag(a) \in Nat /\ Tag(b) \in Nat /\ Tag(c) \in Nat
  <2>1. \A s \in Seq(Byte) : Len(s) >= 2 => s[Len(s)] \in Nat /\ s[Len(s) - 1] \in Nat
    <3>1. \A s \in Seq(Byte) : Len(s) >= 2 => s[Len(s)] \in Byte /\ s[Len(s) - 1] \in Byte
      BY ElementOfSeq
    <3>2. Byte \subseteq Nat
      BY InternalKeysAssumption DEF Byte
    <3> QED BY <3>1, <3>2
  <2>2. \A x, y \in Nat : x * (MaxByte + 1) + y \in Nat
    BY InternalKeysAssumption
  <2>3. \A s \in Seq(Byte) : Len(s) >= 2 => Tag(s) \in Nat
    BY <2>1, <2>2 DEF Tag
  <2> QED BY <2>3
<1>4. ~InternalLess(a, a)
  BY <1>2, NotBelowItself
<1>5. ASSUME InternalLess(a, b), InternalLess(b, c) PROVE InternalLess(a, c)
  <2>1. CASE Less(User(a), User(b)) /\ Less(User(b), User(c))
    BY <1>1, <2>1, LessTransitive DEF InternalLess
  <2>2. CASE Less(User(a), User(b)) /\ User(b) = User(c)
    BY <2>2 DEF InternalLess
  <2>3. CASE User(a) = User(b) /\ Less(User(b), User(c))
    BY <2>3 DEF InternalLess
  <2>4. CASE User(a) = User(b) /\ User(b) = User(c) /\ Tag(a) < Tag(b) /\ Tag(b) < Tag(c)
    BY <1>3, <2>4 DEF InternalLess
  <2> QED BY <1>5, <2>1, <2>2, <2>3, <2>4 DEF InternalLess
<1>6. ASSUME ~InternalLess(a, b), ~InternalLess(b, a) PROVE a = b
  <2>1. User(a) = User(b)
    BY <1>1, <1>6, LessTotal DEF InternalLess
  <2>2. Tag(a) = Tag(b)
    BY <1>3, <1>6, <2>1 DEF InternalLess
  <2>3. a[Len(a)] = b[Len(b)] /\ a[Len(a) - 1] = b[Len(b) - 1]
    BY <2>2, TagIs
  <2>4. Len(a) = Len(b)
    <3>1. Len(User(a)) = Len(a) - 2 /\ Len(User(b)) = Len(b) - 2
      BY UserIs
    <3> QED BY <2>1, <3>1
  <2>5. ASSUME NEW i \in 1 .. Len(a) PROVE a[i] = b[i]
    <3>1. CASE i <= Len(a) - 2
      <4>1. /\ i \in 1 .. Len(User(a)) /\ i \in 1 .. Len(User(b))
        BY <2>4, <3>1, UserIs
      <4>2. User(a)[i] = a[i]
        BY <4>1, UserIs
      <4>3. User(b)[i] = b[i]
        BY <4>1, UserIs
      <4> QED BY <2>1, <4>2, <4>3
    <3>2. CASE i = Len(a) - 1 \/ i = Len(a)
      BY <2>3, <2>4, <3>2
    <3> QED BY <3>1, <3>2
  <2> QED BY <2>4, <2>5, SeqEqual
<1> QED BY <1>4, <1>5, <1>6
=============================================================================
