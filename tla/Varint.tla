------------------------------- MODULE Varint -------------------------------
(***************************************************************************)
(* How src/coding.cpp writes numbers into bytes and reads them back: fixed *)
(* lengths, and variable lengths.                                          *)
(*                                                                         *)
(* The code cuts numbers into groups of 7 bits and sets bit 7 of each byte *)
(* but the last.  Base is 2^7 there; a byte of a smaller Base has its flag *)
(* at Base too, so that the widths can be scaled down together: a number   *)
(* of "32 bits" has five groups, one of "64 bits" ten, and the last group  *)
(* is never full.                                                          *)
(***************************************************************************)
EXTENDS Integers, Sequences, Powers

CONSTANTS
  Base,   \* 128: the values of a group, and the flag of a byte
  Max32,  \* 2^32: the number of uint32_t values
  Max64   \* 2^64

ASSUME VarintAssumption ==
  /\ Base \in Nat \ {0, 1} /\ Max32 \in Nat /\ Max64 \in Nat
  /\ Power(Base, 4) < Max32 /\ Max32 < Power(Base, 5)
  /\ Power(Base, 9) < Max64 /\ Max64 < Power(Base, 10)
  /\ Max32 <= Power(2 * Base, 4) /\ Max64 <= Power(2 * Base, 8)

CodedByte == 0 .. 2 * Base - 1

-----------------------------------------------------------------------------
(* Encoding *)

\* v | B, cut to a byte: the lowest group with the flag set
More(v) == (v % Base) + Base

\* Groups32 as it must not be: v <= 1 << 7, ...
Groups32Equal(v) == CHOOSE n \in 1 .. 5 : /\ n < 5 => v <= Power(Base, n)
                                          /\ \A k \in 1 .. n - 1 : v > Power(Base, k)

\* The number of bytes that encodeVarint32 writes: v < 1 << 7, 14, 21, 28.
Groups32(v) == CHOOSE n \in 1 .. 5 : /\ n < 5 => v < Power(Base, n)
                                     /\ \A k \in 1 .. n - 1 : v >= Power(Base, k)

encodeVarint32(v) ==
  [i \in 1 .. Groups32(v) |->
     IF i < Groups32(v) THEN More(v \div Power(Base, i - 1)) ELSE v \div Power(Base, i - 1)]

\* The loop of encodeVarint64; \o is the byte it writes.
encode64[v \in Nat] == IF v >= Base THEN <<More(v)>> \o encode64[v \div Base] ELSE <<v>>

encodeVarint64(v) == encode64[v]

\* The loop of varintLength
length64[v \in Nat] == IF v >= Base THEN 1 + length64[v \div Base] ELSE 1

varintLength(v) == length64[v]

\* encodeFixed32 and encodeFixed64: n bytes, the lowest first
encodeFixed(v, n) == [i \in 1 .. n |-> (v \div Power(2 * Base, i - 1)) % (2 * Base)]

-----------------------------------------------------------------------------
(* Decoding.  s is what lies between p and limit; a result is the number, and *)
(* the number of bytes it took, 0 for a NULL.                                 *)

\* GroupSum as it must not be: byte << shift, with the flag.
GroupSumFlag(s, n) ==
  LET sum[k \in 0 .. n] ==
        IF k = 0 THEN 0 ELSE sum[k - 1] + s[k] * Power(Base, k - 1)
  IN  sum[n]

\* The sum of the first n groups of s, from shift 0 up
GroupSum(s, n) ==
  LET sum[k \in 0 .. n] ==
        IF k = 0 THEN 0 ELSE sum[k - 1] + (s[k] % Base) * Power(Base, k - 1)
  IN  sum[n]

\* The bytes without the flag among the first n of s
Lasts(s, n) == {i \in 1 .. n : i <= Len(s) /\ s[i] < Base}

\* GetPtr as it must not be: the loop ends one byte early.
GetPtrShort(s, n, max) ==
  IF Lasts(s, n - 1) = {} THEN [value |-> 0, used |-> 0]
  ELSE LET last == CHOOSE i \in Lasts(s, n - 1) : \A j \in Lasts(s, n - 1) : i <= j
       IN  [value |-> GroupSum(s, last) % max, used |-> last]

\* The loops of getVarint32PtrFallback and getVarint64Ptr; the first byte that
\* getVarint32Ptr tests itself is their case of one byte.
GetPtr(s, n, max) ==
  IF Lasts(s, n) = {} THEN [value |-> 0, used |-> 0]
  ELSE LET last == CHOOSE i \in Lasts(s, n) : \A j \in Lasts(s, n) : i <= j
       IN  [value |-> GroupSum(s, last) % max, used |-> last]

getVarint32Ptr(s) == GetPtr(s, 5, Max32)

getVarint64Ptr(s) == GetPtr(s, 10, Max64)

\* decodeFixed32 and decodeFixed64: the number in the first n bytes
decodeFixed(s, n) ==
  LET sum[k \in 0 .. n] ==
        IF k = 0 THEN 0 ELSE sum[k - 1] + s[k] * Power(2 * Base, k - 1)
  IN  sum[n]
=============================================================================
