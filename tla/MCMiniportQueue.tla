-------------------------- MODULE MCMiniportQueue --------------------------
(* Small instances of MiniportQueue for TLC. *)
EXTENDS MiniportQueue, TLC

CONSTANTS r1, r2, w1, w2, rs1, ws1, ws2, es1, c1, c2

\* Two sectors for w1, one for w2: w1 needs two fragments through a one-sector
\* slot and one through a two-sector slot.
MCBytes == [w \in Writes |-> IF w = w1 THEN 2 ELSE 1]

\* Both write slots carry one sector.
MCCapacitySame == [slot \in WriteSlots |-> 2]

\* ws1 carries one sector, ws2 carries two: the shape rule decides.
MCCapacityMixed == [slot \in WriteSlots |-> IF slot = ws1 THEN 2 ELSE 3]

MCSymmetry == Permutations(Cpus)
=============================================================================
