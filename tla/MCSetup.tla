------------------------------ MODULE MCSetup ------------------------------
(* Small instances of ProjectSetup for TLC. *)
EXTENDS SetupProperties, TLC

CONSTANTS p1, p2, i1, i2, i3

Symmetry == Permutations(Id) \cup Permutations(Process)
=============================================================================
