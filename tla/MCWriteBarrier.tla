--------------------------- MODULE MCWriteBarrier ---------------------------
(* A small heap for TLC.                                                     *)
EXTENDS WriteBarrier, TLC

CONSTANTS c1, c2, c3, s1, k1

Symmetry == Permutations(Cells)

=============================================================================
