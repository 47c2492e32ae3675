---------------------------- MODULE EventSourcing ---------------------------
(***************************************************************************)
(* What an Elfiee project promises to the clients of its engine, without   *)
(* saying how: there is one log, it only grows, and whenever the engine    *)
(* answers, the state it answers from is the replay of that log from       *)
(* nothing.  Snapshots, incremental replay, restarts and crashes are not   *)
(* part of the promise; Engine is shown to keep it.                        *)
(***************************************************************************)
EXTENDS Integers, Sequences

CONSTANTS Projected(_),   \* the state a log amounts to
          None            \* no state

VARIABLES log,    \* every event committed so far
          view    \* the state the engine answers from, None while it cannot

vars == <<log, view>>

Init == log = <<>> /\ view = None

\* One more event; the state has to be brought up to date before it is shown.
Commit ==
    /\ Len(log') = Len(log) + 1
    /\ SubSeq(log', 1, Len(log)) = log
    /\ view' = None

\* The engine is ready to answer: from the whole log and nothing else.
Reveal == view = None /\ view' = Projected(log) /\ UNCHANGED log

\* The engine stops answering.
Withdraw == view # None /\ view' = None /\ UNCHANGED log

Next == Commit \/ Reveal \/ Withdraw

Spec == Init /\ [][Next]_vars
=============================================================================
