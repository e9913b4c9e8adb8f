---------------------------- MODULE MCWritePlane ----------------------------
(* Small instances of WritePlane for TLC. *)
EXTENDS WritePlane, TLC

CONSTANTS a, b

\* A write of one fragment, then one of two fragments over its block.
MCFragments == [w \in Writes |-> IF w = 1 THEN <<a>> ELSE <<a, b>>]
=============================================================================
