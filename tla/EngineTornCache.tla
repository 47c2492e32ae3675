-------------------------- MODULE EngineTornCache --------------------------
(***************************************************************************)
(* Engine plus snapshots that do not parse to the end.  cache.db is the    *)
(* one file of a project no version of Elfiee migrates: a row written by   *)
(* another version, or damaged, is valid JSON in which a later field may   *)
(* not have the shape restore_full_state expects.                          *)
(*                                                                         *)
(* restore_full_state assigns blocks, editors, grants, counts and parents  *)
(* in this order and returns false at the first that does not parse.  The  *)
(* actor then replays the whole log, on top of what was assigned.          *)
(***************************************************************************)
EXTENDS EngineProperties

\* The fields in the order in which they are assigned.
FieldOrder == <<"blocks", "editors", "grants", "counts", "parents">>

\* The state of a projector whose field number n could not be restored.
RestoredUpTo(s, snapshot, n) ==
    [s EXCEPT !.blocks  = IF n > 1 THEN snapshot.blocks  ELSE @,
              !.editors = IF n > 2 THEN snapshot.editors ELSE @,
              !.grants  = IF n > 3 THEN snapshot.grants  ELSE @,
              !.counts  = IF n > 4 THEN snapshot.counts  ELSE @]

\* The slow path behind a restore that failed at some field: used_cache stays
\* false, and the projector is not replaced by a new one.
RestorePart(a) ==
    /\ phase[a] = "spawning" /\ cache # None
    /\ \E n \in 1..Len(FieldOrder) :
          st' = [st EXCEPT ![a] = RestoredUpTo(@, cache.state, n)]
    /\ todo' = [todo EXCEPT ![a] = log]
    /\ phase' = [phase EXCEPT ![a] = "up"]
    /\ UNCHANGED <<log, minted, cache, mark>>

TornNext == Next \/ \E a \in Actor : RestorePart(a)

TornSpec == Init /\ [][TornNext]_vars
=============================================================================
