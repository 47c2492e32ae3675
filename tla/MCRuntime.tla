----------------------------- MODULE MCRuntime -----------------------------
(* Small instances of EngineRuntime for TLC. *)
EXTENDS RuntimeProperties, TLC

Symmetry == Permutations(FileId) \cup Permutations(Client) \cup Permutations(Path)
=============================================================================
