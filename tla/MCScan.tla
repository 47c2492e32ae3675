------------------------------- MODULE MCScan -------------------------------
(* Small instances of FileScan for TLC. *)
EXTENDS FileScan, TLC

CONSTANTS p1, p2, f1, f2, f3, t1, t2, b1, b2, b3, b4

Symmetry == Permutations(Block) \cup Permutations(Text)
=============================================================================
