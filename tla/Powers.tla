------------------------------- MODULE Powers --------------------------------
(***************************************************************************)
(* Powers of the base of a notation, for Varint and Decimal: b ^ n, as a   *)
(* recursive function instead of an operator of the standard modules, so   *)
(* that the proofs can say how a power follows from the one before.        *)
(***************************************************************************)
EXTENDS Naturals

Power(b, n) ==
  LET power[k \in Nat] == IF k = 0 THEN 1 ELSE b * power[k - 1]
  IN  power[n]
=============================================================================
