---------------------------- MODULE InternalKeys ----------------------------
(***************************************************************************)
(* The order of keys and the keys between them: the bytewise comparator of *)
(* src/comparator.cpp and the InternalKeyComparator of src/dbformat.cpp    *)
(* that is built on it.  A client holds one internal key, shortens it      *)
(* towards limits or replaces it by a successor, any number of times.      *)
(*                                                                         *)
(* Keys are strings of bytes.  An internal key is a user key and a tag:    *)
(* the type, one byte, and the sequence number, seven bytes in the code    *)
(* and one here, the lowest byte first.                                    *)
(***************************************************************************)
EXTENDS Integers, Sequences

CONSTANTS
  MaxByte,         \* 255
  UserKeys,        \* the user keys that clients use
  SequenceNumbers  \* their sequence numbers

ASSUME InternalKeysAssumption ==
  /\ MaxByte \in Nat \ {0}
  /\ UserKeys \subseteq Seq(0 .. MaxByte)
  /\ SequenceNumbers \subseteq 0 .. MaxByte

Byte == 0 .. MaxByte
Types == {0, 1}  \* kTypeDeletion and kTypeValue

VARIABLES
  key,   \* the string a client passes as start or key
  limit  \* the limit it passes

vars == <<key, limit>>

-----------------------------------------------------------------------------
(* BytewiseComparatorImpl *)

\* Slice::compare: at the first difference, or a proper prefix
Less(a, b) ==
  \E i \in 1 .. Len(b) :
    /\ \A j \in 1 .. i - 1 : j <= Len(a) /\ a[j] = b[j]
    /\ i <= Len(a) => a[i] < b[i]

\* std::string::resize
Resize(s, n) == [i \in 1 .. n |-> IF i <= Len(s) THEN s[i] ELSE 0]

\* The places where both strings have a byte, and not the same
Differences(a, b) == {i \in DOMAIN a \cap DOMAIN b : a[i] # b[i]}

First(S) == CHOOSE i \in S : \A j \in S : i <= j

\* Separator as it must not be: without room for the byte below the limit's.
SeparatorTight(start, lim) ==
  IF Differences(start, lim) = {} THEN start
  ELSE LET i == First(Differences(start, lim))
           byte == start[i]
       IN  IF byte < MaxByte /\ byte + 1 <= lim[i]
           THEN Resize([start EXCEPT ![i] = byte + 1], byte + 1)
           ELSE start

\* BytewiseComparatorImpl::findShortestSeparator; the new length is the value
\* of the byte that differs, plus one, whatever its place.
Separator(start, lim) ==
  IF Differences(start, lim) = {} THEN start
  ELSE LET i == First(Differences(start, lim))
           byte == start[i]
       IN  IF byte < MaxByte /\ byte + 1 < lim[i]
           THEN Resize([start EXCEPT ![i] = byte + 1], byte + 1)
           ELSE start

\* Successor as it must not be: a byte too many is kept.
SuccessorPadded(k) ==
  LET places == {i \in DOMAIN k : k[i] # MaxByte}
  IN  IF places = {} THEN k
      ELSE Resize([k EXCEPT ![First(places)] = @ + 1], First(places) + 1)

\* BytewiseComparatorImpl::findShortSuccessor
Successor(k) ==
  LET places == {i \in DOMAIN k : k[i] # MaxByte}
  IN  IF places = {} THEN k
      ELSE Resize([k EXCEPT ![First(places)] = @ + 1], First(places))

-----------------------------------------------------------------------------
(* InternalKeyComparator *)

\* appendInternalKey
InternalKey(user, seq, type) == user \o <<type, seq>>

\* extractUserKey
User(k) == SubSeq(k, 1, Len(k) - 2)

\* decodeFixed64 of the last bytes
Tag(k) == k[Len(k)] * (MaxByte + 1) + k[Len(k) - 1]

\* compare(a, b) < 0: equal user keys are ordered by their tags.
InternalLess(a, b) ==
  \/ Less(User(a), User(b))
  \/ User(a) = User(b) /\ Tag(a) < Tag(b)

\* kMaxSequenceNumber, kValueTypeForSeek
Seek(user) == InternalKey(user, MaxByte, 1)

\* InternalSeparator as it must not be: the tag is forgotten.
InternalSeparatorBare(start, lim) ==
  LET tmp == Separator(User(start), User(lim))
  IN  IF Less(start, tmp) THEN tmp ELSE start

\* InternalKeyComparator::findShortestSeparator: the test compares the whole of
\* *start, its tag included, with a user key.
InternalSeparator(start, lim) ==
  LET tmp == Separator(User(start), User(lim))
  IN  IF Less(start, tmp) THEN Seek(tmp) ELSE start

\* InternalKeyComparator::findShortSuccessor
InternalSuccessor(k) ==
  LET tmp == Successor(User(k))
  IN  IF Less(User(k), tmp) THEN Seek(tmp) ELSE k

-----------------------------------------------------------------------------
(* The client *)

InternalKeySet == {InternalKey(u, s, t) : u \in UserKeys, s \in SequenceNumbers, t \in Types}

Init == key \in InternalKeySet /\ limit \in InternalKeySet

Shorten ==
  /\ key' = InternalSeparator(key, limit)
  /\ UNCHANGED limit

Succeed ==
  /\ key' = InternalSuccessor(key)
  /\ UNCHANGED limit

Next == Shorten \/ Succeed

Spec == Init /\ [][Next]_vars

-----------------------------------------------------------------------------
(* Properties *)

\* What parseInternalKey accepts: the string always ends with a tag.
TypeOK ==
  \A k \in {key, limit} :
    k \in Seq(Byte) /\ Len(k) >= 2 /\ k[Len(k) - 1] \in Types

\* A key shortened towards a larger limit stays at or above what it was and below
\* the limit, in the internal order (the assertions of dbformat.cpp:75-76 and
\* comparator.cpp:40), although the byte-wise separator may be longer than the
\* key, or fall below it, and is accepted by a test on the wrong string.
ShortenedBetween ==
  [][Shorten /\ InternalLess(key, limit)
       => ~InternalLess(key', key) /\ InternalLess(key', limit)]_vars

\* A key that is replaced by its successor is replaced by a larger one in the
\* internal order, and not by a longer one (dbformat.cpp:86-91).
SuccessorAbove ==
  [][Succeed => InternalLess(key, key') /\ Len(key') <= Len(key)]_vars
=============================================================================
