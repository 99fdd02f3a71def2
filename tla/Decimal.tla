------------------------------ MODULE Decimal -------------------------------
(***************************************************************************)
(* ConsumeDecimalNumber and ConsumeChar of src/logging.cc: a client takes  *)
(* numbers and single characters from a Slice until a call returns false.  *)
(* Characters are numbers: those below Ten are the digits.                 *)
(***************************************************************************)
EXTENDS Naturals, Sequences, Powers

CONSTANTS
  Ten,           \* 10
  kMaxUint64,    \* 2^64 - 1
  Characters,    \* what Slices are made of
  DecimalSlices  \* the Slices that clients begin with

ASSUME DecimalAssumption ==
  /\ Ten \in Nat \ {0, 1} /\ kMaxUint64 \in Nat
  /\ 0 .. Ten - 1 \subseteq Characters /\ Characters \subseteq Nat
  /\ DecimalSlices \subseteq Seq(Characters)

VARIABLES
  in,     \* *in
  val,    \* *val
  begin,  \* history: *in before the last ConsumeDecimalNumber(), or <<>>
  ok      \* what the last call returned

decimalVars == <<in, val, begin, ok>>

DecimalInit ==
  /\ in \in DecimalSlices
  /\ val = 0 /\ begin = <<>> /\ ok = TRUE

-----------------------------------------------------------------------------

\* Overflows as it must not be: the last digit is not looked at.
OverflowsLate(v, delta) == v > kMaxUint64 \div Ten

\* v * 10 + delta would be too large.
Overflows(v, delta) ==
  \/ v > kMaxUint64 \div Ten
  \/ v = kMaxUint64 \div Ten /\ delta > kMaxUint64 % Ten

\* The loop: the number so far, how many digits it took, and if it goes on
Turn(s, loop) ==
  LET c == s[loop.digits + 1]
  IN  IF loop.digits = Len(s) \/ c >= Ten THEN [loop EXCEPT !.ends = TRUE]
      ELSE IF Overflows(loop.v, c) THEN [loop EXCEPT !.fails = TRUE]
      ELSE [loop EXCEPT !.v = (@ * Ten) + c, !.digits = @ + 1]

Loop(s) ==
  LET turns[n \in 0 .. Len(s) + 1] ==
        IF n = 0 THEN [v |-> 0, digits |-> 0, ends |-> FALSE, fails |-> FALSE]
        ELSE IF turns[n - 1].ends \/ turns[n - 1].fails THEN turns[n - 1]
        ELSE Turn(s, turns[n - 1])
  IN  turns[Len(s) + 1]

ConsumeDecimalNumber ==
  /\ ok
  /\ LET loop == Loop(in)
     IN  /\ in' = SubSeq(in, loop.digits + 1, Len(in))
         /\ val' = IF loop.fails THEN val ELSE loop.v
         /\ ok' = (~loop.fails /\ loop.digits > 0)
  /\ begin' = in

ConsumeChar(c) ==
  /\ ok
  /\ IF in # <<>> /\ Head(in) = c
     THEN in' = Tail(in) /\ UNCHANGED ok
     ELSE ok' = FALSE /\ UNCHANGED in
  /\ begin' = <<>> /\ UNCHANGED val

DecimalNext == ConsumeDecimalNumber \/ \E c \in Characters : ConsumeChar(c)

DecimalSpec == DecimalInit /\ [][DecimalNext]_decimalVars

-----------------------------------------------------------------------------
(* Properties *)

\* How many digits a Slice begins with, and the number they are
Digits(s) ==
  CHOOSE n \in 0 .. Len(s) :
    /\ \A i \in 1 .. n : s[i] < Ten
    /\ n < Len(s) => s[n + 1] >= Ten

Number(s) ==
  LET sum[n \in 0 .. Digits(s)] ==
        IF n = 0 THEN 0 ELSE sum[n - 1] + s[n] * Power(Ten, Digits(s) - n)
  IN  sum[Digits(s)]

\* ConsumeDecimalNumber() takes all the digits that *in begins with and their number
\* if there are any and it fits into 64 bits, and returns false otherwise, with
\* leading zeros and at the largest number, too (logging.h:38-42).
NumbersConsumed ==
  begin # <<>> =>
    /\ ok <=> Digits(begin) > 0 /\ Number(begin) <= kMaxUint64
    /\ ok => /\ val = Number(begin)
             /\ in = SubSeq(begin, Digits(begin) + 1, Len(begin))
=============================================================================
