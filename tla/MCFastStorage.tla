--------------------------- MODULE MCFastStorage ---------------------------
(* FastStorage with segments of 6 and 12 iterations.  As in the code the     *)
(* strides do not divide the length of a segment.                            *)
EXTENDS FastStorage, TLC
ScaledStrides == [i \in 0 .. 1 |-> IF i = 0 THEN 4 ELSE 5]
Symmetry == Permutations(Threads)
=============================================================================
