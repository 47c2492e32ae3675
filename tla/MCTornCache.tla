---------------------------- MODULE MCTornCache ----------------------------
(***************************************************************************)
(* The instances of MCEngine with snapshots that may not parse.            *)
(***************************************************************************)
EXTENDS MCEngine, EngineTornCache
=============================================================================
