------------------------------ MODULE MCFiles -------------------------------
(* Constants for the runs of Files. *)
EXTENDS Files

\* Two strings of different lengths that agree in no byte
TwoStrings == {<<1, 2>>, <<3>>}
=============================================================================
