-------------------------- MODULE RuntimeProperties --------------------------
(***************************************************************************)
(* What EngineRuntime must keep.                                           *)
(***************************************************************************)
EXTENDS EngineRuntime, FiniteSets

TypeOK ==
    /\ store \in [Path -> Seq(Entry)]
    /\ files \in [FileId -> Path \cup {None}]
    /\ engines \subseteq FileId
    /\ actor \in [FileId -> Actors]
    /\ call \in [Client -> Calls]
    /\ made \in [Client -> 0..MaxCalls]

Stored(p, e) == {i \in 1..Len(store[p]) : store[p][i] = e}

(* A client that heard its command was done finds its event in the store,  *)
(* once; one that heard it was refused, or that the engine closed, never   *)
(* does: a command behind a Shutdown in the mailbox has no effect          *)
(* (actor.rs, run and EngineHandle::process_command).                      *)
ToldTrue ==
    \A c \in Client :
        call[c].op = "send" /\ At(c, "idle") =>
            IF call[c].answer.kind = "done"
            THEN Cardinality(Stored(call[c].path, Tag(c))) = 1
            ELSE Stored(call[c].path, Tag(c)) = {}

(* The table of open files and the table of engines agree but for calls in *)
(* progress: a file that stays listed without an engine could never be     *)
(* used, closed or opened again (project.rs, open_project and              *)
(* close_project_by_id).  shutdown_all empties one table only.             *)
TablesAgree ==
    \A f \in FileId :
        \/ files[f] # None <=> f \in engines
        \/ \E c \in Client :
              \/ call[c].op = "shutdown_all"
              \/ call[c].file = f /\ call[c].at \in {"register", "forget"}

(* An engine that no other was ever opened beside knows everything that is *)
(* in its store: it replayed the whole seed, and what it commits it also   *)
(* applies (project.rs:22, "Must be called BEFORE spawn_engine() so the    *)
(* engine replays these events during init").  Two openings of one path,   *)
(* at once or one after the other, break it: hence Once.                   *)
Once(f) == \A g \in FileId \ {f} : actor[g].home # actor[f].home

SoleEngineSeesAll ==
    \A f \in FileId :
        Alive(f) /\ Once(f) => actor[f].seen = store[actor[f].home]

(* Whoever waits for an answer will get one: its message, and no other of  *)
(* its own, is in the mailbox of an engine that still works through it,    *)
(* also when a Shutdown stands before it; when the mailbox is dropped,     *)
(* nobody is left waiting (actor.rs, run and EngineHandle).                *)
WaitersAreHeard ==
    \A c \in Client :
        At(c, "wait") =>
            LET f == call[c].file
            IN  /\ Alive(f)
                /\ Cardinality({i \in 1..Len(actor[f].box) :
                                  actor[f].box[i].from = c}) = 1
=============================================================================
