----------------------------- MODULE MCSkipList -----------------------------
(***************************************************************************)
(* Instances of SkipList for TLC: three keys, so that a key can go before, *)
(* between and after the others; heights up to three, so that a tower has  *)
(* a bottom, a middle and a top.                                           *)
(***************************************************************************)
EXTENDS SkipList

ThreeKeys == 1 .. 3

OnlySeekToLast == {"seekToLast"}
EverySearch == SearchOps
=============================================================================
