------------------------------- MODULE Engine -------------------------------
(***************************************************************************)
(* The life of the engine actors of one project: opening it (bootstrap     *)
(* seed, snapshot, replay), serving commands, shutting down or crashing    *)
(* (src/engine/actor.rs, src/engine/event_store.rs,                        *)
(* src/engine/cache_store.rs, src/services/project.rs).                    *)
(*                                                                         *)
(* The event store and the snapshot cache are files; an actor is a task    *)
(* with its own copy of the state.  The code means a project to have one   *)
(* actor at a time: Actor has one member then.  Nothing in the store       *)
(* enforces it, so the module is written for any number.                   *)
(*                                                                         *)
(* One action is one statement that touches a file or replaces the state:  *)
(* between two of them an actor only computes, and what other actors do    *)
(* there does not matter to it.                                            *)
(***************************************************************************)
EXTENDS Capabilities

CONSTANTS Actor,            \* engine actors that may be spawned on the project
          System,           \* the system editor
          Menu,             \* the commands clients send
          RegistryOrders,   \* orders in which the registry lists its capabilities
          MaxLog            \* bound: clients commit nothing to a longer log

ASSUME SystemAssumption == System \in Editor
ASSUME MenuAssumption   == \A c \in Menu : IsCommand(c)
ASSUME OrdersAssumption ==
    \A o \in RegistryOrders :
        /\ o \in Seq(Capability)
        /\ {o[i] : i \in 1..Len(o)} = Registered
        /\ \A i, j \in 1..Len(o) : o[i] = o[j] => i = j
ASSUME MaxLogAssumption == MaxLog \in Nat

VARIABLES
    log,      \* eventstore.db: the events in order of rowid
    minted,   \* how many event ids have been drawn; ids are never drawn twice
    cache,    \* cache.db: the newest snapshot row, [id, state], or None
    phase,    \* where each actor is in its life
    st,       \* each actor's state projection
    todo,     \* events an actor has in hand: to insert while seeding, else to apply
    mark      \* the event id an actor read from the cache or for its snapshot

vars == <<log, minted, cache, phase, st, todo, mark>>

Phase == {"down",        \* no such task
          "seeding",     \* seed_bootstrap_events is inserting
          "spawning",    \* ElfileEngineActor::new before it reads anything
          "restored",    \* state restored from a snapshot, log not read yet
          "up",          \* replaying what it read, then serving its mailbox
          "closing"}     \* save_cache_snapshot has read the latest event id

Snapshot == [id: Nat, state: State]

\* The actor answers queries and takes the next command.
Serving(a) == phase[a] = "up" /\ todo[a] = <<>>

-----------------------------------------------------------------------------
(***************************************************************************)
(* The event store.                                                        *)
(***************************************************************************)

\* INSERT of one event, under a new id.
Insert(e) ==
    /\ log' = Append(log, [e EXCEPT !.id = minted + 1])
    /\ minted' = minted + 1

\* get_events_after_event_id.  For an id that is not in the table the
\* subquery is NULL, no row compares greater, and the answer is empty.
EventsAfter(l, id) ==
    IF \E i \in 1..Len(l) : l[i].id = id
    THEN SubSeq(l, (CHOOSE i \in 1..Len(l) : l[i].id = id) + 1, Len(l))
    ELSE <<>>

\* Blocks some event speaks of: no new block gets one of these ids.
Mentioned(l) ==
    {b \in Block : \E i \in 1..Len(l) :
        \/ l[i].entity = b
        \/ l[i].cap \in {"core.link", "core.unlink"} /\ b \in l[i].value.children}

-----------------------------------------------------------------------------
(***************************************************************************)
(* Opening a project.                                                      *)
(***************************************************************************)

\* The bootstrap events: the system editor, then one wildcard grant to it
\* per registered capability, each stamped with its position.
SeedEvent(order, i) ==
    [id     |-> 0,
     by     |-> System,
     cap    |-> IF i = 1 THEN "editor.create" ELSE "core.grant",
     entity |-> IF i = 1 THEN System ELSE Wild,
     value  |-> IF i = 1 THEN [editor |-> System]
                ELSE [editor |-> System, cap |-> order[i - 1], block |-> Wild],
     ts     |-> [ed \in Editor |-> IF ed = System THEN i ELSE 0]]

Seeds(order) == [i \in 1..(Len(order) + 1) |-> SeedEvent(order, i)]

\* open_project finds an empty store: it will seed it.
OpenNew(a) ==
    /\ phase[a] = "down" /\ log = <<>>
    /\ \E order \in RegistryOrders : todo' = [todo EXCEPT ![a] = Seeds(order)]
    /\ phase' = [phase EXCEPT ![a] = "seeding"]
    /\ UNCHANGED <<log, minted, cache, st, mark>>

\* open_project finds events, any number of them: nothing to seed.
OpenExisting(a) ==
    /\ phase[a] = "down" /\ log # <<>>
    /\ phase' = [phase EXCEPT ![a] = "spawning"]
    /\ UNCHANGED <<log, minted, cache, st, todo, mark>>

\* append_events inserts row by row; after the last one the actor is spawned.
SeedNext(a) ==
    /\ phase[a] = "seeding"
    /\ Insert(Head(todo[a]))
    /\ todo' = [todo EXCEPT ![a] = Tail(@)]
    /\ phase' = [phase EXCEPT ![a] = IF Len(todo[a]) = 1 THEN "spawning" ELSE @]
    /\ UNCHANGED <<cache, st, mark>>

\* Mutant of RestoreSnapshot: the reverse index is not part of the snapshot.
RestoreSnapshot_NoParents(a) ==
    /\ phase[a] = "spawning" /\ cache # None
    /\ st' = [st EXCEPT ![a] = [cache.state EXCEPT !.parents = Empty.parents]]
    /\ mark' = [mark EXCEPT ![a] = cache.id]
    /\ phase' = [phase EXCEPT ![a] = "restored"]
    /\ UNCHANGED <<log, minted, cache, todo>>

\* The newest snapshot is restored.
RestoreSnapshot(a) ==
    /\ phase[a] = "spawning" /\ cache # None
    /\ st' = [st EXCEPT ![a] = cache.state]
    /\ mark' = [mark EXCEPT ![a] = cache.id]
    /\ phase' = [phase EXCEPT ![a] = "restored"]
    /\ UNCHANGED <<log, minted, cache, todo>>

\* Then only the events after it are read.
FetchIncrement(a) ==
    /\ phase[a] = "restored"
    /\ todo' = [todo EXCEPT ![a] = EventsAfter(log, mark[a])]
    /\ mark' = [mark EXCEPT ![a] = None]
    /\ phase' = [phase EXCEPT ![a] = "up"]
    /\ UNCHANGED <<log, minted, cache, st>>

\* No snapshot, or a cache that cannot be opened or read: the whole log.
FetchAll(a) ==
    /\ phase[a] = "spawning"
    /\ todo' = [todo EXCEPT ![a] = log]
    /\ phase' = [phase EXCEPT ![a] = "up"]
    /\ UNCHANGED <<log, minted, cache, st, mark>>

\* The events after the snapshot cannot be read: the snapshot is dropped.
FetchFallback(a) ==
    /\ phase[a] = "restored"
    /\ st' = [st EXCEPT ![a] = Empty]
    /\ todo' = [todo EXCEPT ![a] = log]
    /\ mark' = [mark EXCEPT ![a] = None]
    /\ phase' = [phase EXCEPT ![a] = "up"]
    /\ UNCHANGED <<log, minted, cache>>

\* Mutant of ApplyNext: the event is not consumed.
ApplyNext_KeepsEvent(a) ==
    /\ phase[a] = "up" /\ todo[a] # <<>>
    /\ st' = [st EXCEPT ![a] = Apply(@, Head(todo[a]))]
    /\ UNCHANGED <<log, minted, cache, phase, todo, mark>>

\* apply_event, for the events read at start as for those just committed.
ApplyNext(a) ==
    /\ phase[a] = "up" /\ todo[a] # <<>>
    /\ st' = [st EXCEPT ![a] = Apply(@, Head(todo[a]))]
    /\ todo' = [todo EXCEPT ![a] = Tail(@)]
    /\ UNCHANGED <<log, minted, cache, phase, mark>>

-----------------------------------------------------------------------------
(***************************************************************************)
(* Serving and stopping.                                                   *)
(***************************************************************************)

\* Mutant of FreshFor: any id at all.
FreshFor_Any(c) == IF c.cap = "core.create" THEN Block ELSE {None}

\* Ids core.create may draw: a uuid nobody has seen yet.
FreshFor(c) ==
    IF c.cap = "core.create" THEN Block \ Mentioned(log) ELSE {None}

\* Mutant of ProcessCommand: the event is applied although it was not stored.
ProcessCommand_NotStored(a, c) ==
    /\ Serving(a)
    /\ Len(log) < MaxLog
    /\ \E fresh \in FreshFor(c) : \E e \in Outcome(st[a], c, fresh, minted + 1) :
          todo' = [todo EXCEPT ![a] = <<[e EXCEPT !.id = minted + 1]>>]
    /\ UNCHANGED <<log, minted, cache, phase, st, mark>>

\* process_command up to the commit: the checks and the handler read the
\* actor's own state, the event goes to the store.  A command without an
\* outcome changes nothing and is no step.
ProcessCommand(a, c) ==
    /\ Serving(a)
    /\ Len(log) < MaxLog
    /\ \E fresh \in FreshFor(c) : \E e \in Outcome(st[a], c, fresh, minted + 1) :
          /\ Insert(e)
          /\ todo' = [todo EXCEPT ![a] = <<[e EXCEPT !.id = minted + 1]>>]
    /\ UNCHANGED <<cache, phase, st, mark>>

\* Mutant of CloseRead: a shutdown may overtake the last committed event.
CloseRead_Early(a) ==
    /\ phase[a] = "up"
    /\ mark' = [mark EXCEPT ![a] = log[Len(log)].id]
    /\ phase' = [phase EXCEPT ![a] = "closing"]
    /\ todo' = [todo EXCEPT ![a] = <<>>]
    /\ UNCHANGED <<log, minted, cache, st>>

\* Shutdown reaches the actor: it reads the latest event id of the store...
CloseRead(a) ==
    /\ Serving(a)
    /\ mark' = [mark EXCEPT ![a] = log[Len(log)].id]
    /\ phase' = [phase EXCEPT ![a] = "closing"]
    /\ UNCHANGED <<log, minted, cache, st, todo>>

\* ...and files its state under that id, unless the cache refuses it.
CloseSave(a) ==
    /\ phase[a] = "closing"
    /\ \/ cache' = [id |-> mark[a], state |-> st[a]]
       \/ UNCHANGED cache
    /\ phase' = [phase EXCEPT ![a] = "down"]
    /\ st' = [st EXCEPT ![a] = Empty]
    /\ mark' = [mark EXCEPT ![a] = None]
    /\ UNCHANGED <<log, minted, todo>>

\* The process ends without a Shutdown message: a crash, a kill, or the end
\* of a CLI command, which never sends one.  Likewise an insert or a read that
\* fails while the project is opened: open_project gives up.
Crash(a) ==
    /\ phase[a] # "down"
    /\ phase' = [phase EXCEPT ![a] = "down"]
    /\ st' = [st EXCEPT ![a] = Empty]
    /\ todo' = [todo EXCEPT ![a] = <<>>]
    /\ mark' = [mark EXCEPT ![a] = None]
    /\ UNCHANGED <<log, minted, cache>>

\* Somebody deletes cache.db of a closed project.
CacheLost ==
    /\ \A a \in Actor : phase[a] = "down"
    /\ cache # None /\ cache' = None
    /\ UNCHANGED <<log, minted, phase, st, todo, mark>>

-----------------------------------------------------------------------------
Init ==
    /\ log = <<>> /\ minted = 0 /\ cache = None
    /\ phase = [a \in Actor |-> "down"]
    /\ st = [a \in Actor |-> Empty]
    /\ todo = [a \in Actor |-> <<>>]
    /\ mark = [a \in Actor |-> None]

\* The steps an actor takes by itself until it serves.
StartStep(a) ==
    \/ SeedNext(a) \/ RestoreSnapshot(a) \/ FetchIncrement(a)
    \/ FetchAll(a) \/ FetchFallback(a) \/ ApplyNext(a)

Step(a) ==
    \/ OpenNew(a) \/ OpenExisting(a) \/ StartStep(a)
    \/ \E c \in Menu : ProcessCommand(a, c)
    \/ CloseRead(a) \/ CloseSave(a) \/ Crash(a)

Next == CacheLost \/ \E a \in Actor : Step(a)

Spec == Init /\ [][Next]_vars

\* A started actor is scheduled until it has replayed what it read, and a
\* shutdown it has begun is finished; nobody owes it a command or a close.
FairSpec ==
    Spec /\ \A a \in Actor : WF_vars(StartStep(a)) /\ WF_vars(CloseSave(a))
=============================================================================
