--------------------------- MODULE EngineRuntime ---------------------------
(***************************************************************************)
(* The engines of one process and the callers that share them: opening and *)
(* closing projects, the mailbox, requests and replies                     *)
(* (src/services/project.rs, src/engine/manager.rs, src/state.rs, the run  *)
(* loop and the EngineHandle of src/engine/actor.rs).                      *)
(*                                                                         *)
(* What an event says does not matter here, only which command it is of.   *)
(* A call is a sequence of steps with other callers in between: one step   *)
(* per access to a shared table, a mailbox or the store.                   *)
(***************************************************************************)
EXTENDS Naturals, Sequences

CONSTANTS None,
          Client,      \* tasks that call the services
          FileId,      \* uuids open_project may draw
          Path,        \* project directories
          Ops,         \* what clients call
          SeedRows,    \* rows of the bootstrap seed
          MaxCalls     \* bound: calls of one client

ASSUME NoneAssumption ==
    /\ None \notin Client /\ None \notin FileId /\ None \notin Path
    /\ None \notin {"open", "close", "send", "read", "history", "shutdown_all"}
ASSUME OpsAssumption ==
    Ops \subseteq {"open", "close", "send", "read", "history", "shutdown_all"}
ASSUME SeedRowsAssumption == SeedRows \in Nat \ {0}
ASSUME MaxCallsAssumption == MaxCalls \in Nat

VARIABLES
    store,     \* eventstore.db of each project: entries in order of rowid
    files,     \* AppState.files: the path open under a file id, or None
    engines,   \* EngineManager.engines: the file ids with a handle
    actor,     \* the actor task of each file id
    call,      \* the call each client is in, or its last one
    made       \* how many calls each client has made

vars == <<store, files, engines, actor, call, made>>

\* An entry is a row of the seed or the event of the n-th call of a client.
Entry == [by: Client \cup {None}, n: 0..(SeedRows + MaxCalls), path: Path]

SeedRow(p, i) == [by |-> None, n |-> i, path |-> p]
Tag(c)        == [by |-> c, n |-> made[c], path |-> call[c].path]

Message == [kind: {"send", "read", "history"}, from: Client]
Poison  == [kind |-> "shutdown", from |-> None]

Life == {"unborn", "drawn", "running", "saving", "gone"}

Actors == [life: Life, home: Path \cup {None}, seen: Seq(Entry),
           box: Seq(Message \cup {Poison})]

Stage == {"idle", "open", "seedcheck", "seed", "load", "publish", "register",
          "close", "shutdown", "poison", "drop", "forget",
          "lookup", "handle", "deliver", "wait", "list", "sweep"}

\* Answers: of the actor ("done", "refused", "log"), of a service ("ok",
\* "failed"), and of an EngineHandle whose actor is gone ("closed").
Answer == [kind: {"none", "done", "refused", "log", "ok", "failed", "closed"},
           log: Seq(Entry)]

Said(kind) == [kind |-> kind, log |-> <<>>]

Calls == [op: Ops \cup {None}, at: Stage, path: Path \cup {None},
          file: FileId \cup {None}, row: Nat, left: SUBSET FileId,
          answer: Answer]

NoCall == [op |-> None, at |-> "idle", path |-> None, file |-> None,
           row |-> 0, left |-> {}, answer |-> Said("none")]

-----------------------------------------------------------------------------
At(c, stage) == call[c].at = stage

Goto(c, stage) == call' = [call EXCEPT ![c].at = stage]

\* The call ends with an answer.
Return(c, answer) ==
    call' = [call EXCEPT ![c].at = "idle", ![c].answer = answer]

FirstStage == [open |-> "open", close |-> "close", send |-> "lookup",
               read |-> "lookup", history |-> "lookup", shutdown_all |-> "list"]

\* Whoever shuts down every engine calls nothing more: no caller does it but
\* on the way out.
Begin(c) ==
    /\ At(c, "idle") /\ made[c] < MaxCalls /\ call[c].op # "shutdown_all"
    /\ made' = [made EXCEPT ![c] = @ + 1]
    /\ \E op \in Ops, p \in Path :
          call' = [call EXCEPT ![c] = [NoCall EXCEPT !.op = op, !.path = p,
                                                     !.at = FirstStage[op]]]
    /\ UNCHANGED <<store, files, engines, actor>>

\* list_open_files: the file ids a path is open under.
OpenAs(p) == {f \in FileId : files[f] = p}

-----------------------------------------------------------------------------
(***************************************************************************)
(* open_project                                                            *)
(***************************************************************************)

\* The path is open: its file id is the answer.
OpenFound(c) ==
    /\ At(c, "open")
    /\ \E f \in OpenAs(call[c].path) :
          call' = [call EXCEPT ![c].at = "idle", ![c].answer = Said("ok"),
                               ![c].file = f]
    /\ UNCHANGED <<store, files, engines, actor, made>>

\* It is not: a new file id.
OpenFresh(c) ==
    /\ At(c, "open") /\ OpenAs(call[c].path) = {}
    /\ \E f \in FileId :
          /\ actor[f].life = "unborn"
          /\ actor' = [actor EXCEPT ![f].life = "drawn", ![f].home = call[c].path]
          /\ call' = [call EXCEPT ![c].at = "seedcheck", ![c].file = f]
    /\ UNCHANGED <<store, files, engines, made>>

\* seed_bootstrap_events does nothing when the store holds any event.
SeedCheck(c) ==
    /\ At(c, "seedcheck")
    /\ call' = [call EXCEPT
                  ![c].at = IF store[call[c].path] = <<>> THEN "seed" ELSE "load",
                  ![c].row = 1]
    /\ UNCHANGED <<store, files, engines, actor, made>>

\* append_events, row by row.
Seed(c) ==
    /\ At(c, "seed")
    /\ store' = [store EXCEPT ![call[c].path] =
                                  Append(@, SeedRow(call[c].path, call[c].row))]
    /\ call' = [call EXCEPT
                  ![c].at  = IF call[c].row = SeedRows THEN "load" ELSE "seed",
                  ![c].row = IF call[c].row = SeedRows THEN @ ELSE @ + 1]
    /\ UNCHANGED <<files, engines, actor, made>>

\* spawn_engine: the id has no engine, the new actor replays the store...
Load(c) ==
    /\ At(c, "load") /\ call[c].file \notin engines
    /\ actor' = [actor EXCEPT ![call[c].file].seen = store[call[c].path]]
    /\ Goto(c, "publish")
    /\ UNCHANGED <<store, files, engines, made>>

\* ...runs, and its handle goes into the manager's table.
Publish(c) ==
    /\ At(c, "publish")
    /\ actor' = [actor EXCEPT ![call[c].file].life = "running"]
    /\ engines' = engines \cup {call[c].file}
    /\ Goto(c, "register")
    /\ UNCHANGED <<store, files, made>>

Register(c) ==
    /\ At(c, "register")
    /\ files' = [files EXCEPT ![call[c].file] = call[c].path]
    /\ Return(c, Said("ok"))
    /\ UNCHANGED <<store, engines, actor, made>>

\* No .elf directory, a store that cannot be opened, read or written.  A file
\* id that was drawn is drawn for good.
OpenFails(c) ==
    /\ call[c].at \in {"open", "seedcheck", "seed", "load"}
    /\ actor' = [f \in FileId |-> IF call[c].at # "open" /\ f = call[c].file
                                  THEN [actor[f] EXCEPT !.life = "gone"]
                                  ELSE actor[f]]
    /\ Return(c, Said("failed"))
    /\ UNCHANGED <<store, files, engines, made>>

OpenStep(c) == \/ OpenFound(c) \/ OpenFresh(c) \/ SeedCheck(c) \/ Seed(c)
               \/ Load(c) \/ Publish(c) \/ Register(c) \/ OpenFails(c)

-----------------------------------------------------------------------------
(***************************************************************************)
(* close_project, close_project_by_id, shutdown_engine, shutdown_all       *)
(***************************************************************************)
Alive(f) == actor[f].life \in {"running", "saving"}

\* Sending to an actor that is gone fails, and the failure is ignored.
Mail(f, msg) ==
    actor' = IF Alive(f) THEN [actor EXCEPT ![f].box = Append(@, msg)] ELSE actor

CloseFind(c) ==
    /\ At(c, "close")
    /\ \E f \in OpenAs(call[c].path) :
          call' = [call EXCEPT ![c].at = "shutdown", ![c].file = f]
    /\ UNCHANGED <<store, files, engines, actor, made>>

CloseUnknown(c) ==
    /\ At(c, "close") /\ OpenAs(call[c].path) = {}
    /\ Return(c, Said("failed"))
    /\ UNCHANGED <<store, files, engines, actor, made>>

\* The handle is cloned out of the table, if there is one.
CloseGet(c) ==
    /\ At(c, "shutdown")
    /\ IF call[c].file \in engines THEN Goto(c, "poison") ELSE Return(c, Said("failed"))
    /\ UNCHANGED <<store, files, engines, actor, made>>

CloseSend(c) ==
    /\ At(c, "poison")
    /\ Mail(call[c].file, Poison)
    /\ Goto(c, "drop")
    /\ UNCHANGED <<store, files, engines, made>>

CloseDrop(c) ==
    /\ At(c, "drop")
    /\ engines' = engines \ {call[c].file}
    /\ Goto(c, IF call[c].op = "close" THEN "forget" ELSE "sweep")
    /\ UNCHANGED <<store, files, actor, made>>

\* Mutant of CloseForget: the project stays in the list of open files.
CloseForget_KeepsFile(c) ==
    /\ At(c, "forget")
    /\ Return(c, Said("ok"))
    /\ UNCHANGED <<store, files, engines, actor, made>>

CloseForget(c) ==
    /\ At(c, "forget")
    /\ files' = [files EXCEPT ![call[c].file] = None]
    /\ Return(c, Said("ok"))
    /\ UNCHANGED <<store, engines, actor, made>>

\* shutdown_all lists the ids, shuts down one after the other...
SweepList(c) ==
    /\ At(c, "list")
    /\ call' = [call EXCEPT ![c].at = "sweep", ![c].left = engines]
    /\ UNCHANGED <<store, files, engines, actor, made>>

SweepNext(c) ==
    /\ At(c, "sweep")
    /\ \E f \in call[c].left :
          call' = [call EXCEPT ![c].at = IF f \in engines THEN "poison" ELSE @,
                               ![c].file = f, ![c].left = @ \ {f}]
    /\ UNCHANGED <<store, files, engines, actor, made>>

\* ...and clears the table, whatever it holds by then.
SweepClear(c) ==
    /\ At(c, "sweep") /\ call[c].left = {}
    /\ engines' = {}
    /\ Return(c, Said("ok"))
    /\ UNCHANGED <<store, files, actor, made>>

CloseStep(c) == \/ CloseFind(c) \/ CloseUnknown(c) \/ CloseGet(c) \/ CloseSend(c)
                \/ CloseDrop(c) \/ CloseForget(c)
                \/ SweepList(c) \/ SweepNext(c) \/ SweepClear(c)

-----------------------------------------------------------------------------
(***************************************************************************)
(* Commands and queries: find the project, clone the handle, send, wait.   *)
(***************************************************************************)

\* The file id the path is open under, or the project is not open.
Lookup(c) ==
    /\ At(c, "lookup")
    /\ IF OpenAs(call[c].path) = {} THEN Return(c, Said("failed"))
       ELSE \E f \in OpenAs(call[c].path) :
               call' = [call EXCEPT ![c].at = "handle", ![c].file = f]
    /\ UNCHANGED <<store, files, engines, actor, made>>

GetHandle(c) ==
    /\ At(c, "handle")
    /\ IF call[c].file \in engines THEN Goto(c, "deliver")
       ELSE Return(c, Said("failed"))
    /\ UNCHANGED <<store, files, engines, actor, made>>

\* The handle may be older than the engine's end: then nothing is sent.
Deliver(c) ==
    /\ At(c, "deliver")
    /\ Mail(call[c].file, [kind |-> call[c].op, from |-> c])
    /\ IF Alive(call[c].file) THEN Goto(c, "wait") ELSE Return(c, Said("closed"))
    /\ UNCHANGED <<store, files, engines, made>>

CallStep(c) == Lookup(c) \/ GetHandle(c) \/ Deliver(c)

-----------------------------------------------------------------------------
(***************************************************************************)
(* The actor's loop.                                                       *)
(***************************************************************************)
Receives(f, kind) ==
    /\ actor[f].life = "running" /\ actor[f].box # <<>>
    /\ Head(actor[f].box).kind = kind

Sender(f) == Head(actor[f].box).from

\* Mutant of Commit: the answer is given for an event that was not stored.
Commit_NotStored(f) ==
    /\ Receives(f, "send")
    /\ actor' = [actor EXCEPT ![f].box = Tail(@), ![f].seen = Append(@, Tag(Sender(f)))]
    /\ Return(Sender(f), Said("done"))
    /\ UNCHANGED <<store, files, engines, made>>

\* Mutant of Commit: the event is stored but not applied.
Commit_NotApplied(f) ==
    /\ Receives(f, "send")
    /\ store' = [store EXCEPT ![actor[f].home] = Append(@, Tag(Sender(f)))]
    /\ actor' = [actor EXCEPT ![f].box = Tail(@)]
    /\ Return(Sender(f), Said("done"))
    /\ UNCHANGED <<files, engines, made>>

\* process_command: the event is stored, applied, and answered for.
Commit(f) ==
    /\ Receives(f, "send")
    /\ store' = [store EXCEPT ![actor[f].home] = Append(@, Tag(Sender(f)))]
    /\ actor' = [actor EXCEPT ![f].box = Tail(@), ![f].seen = Append(@, Tag(Sender(f)))]
    /\ Return(Sender(f), Said("done"))
    /\ UNCHANGED <<files, engines, made>>

\* A check refuses it, or the insert fails.
Refuse(f) ==
    /\ Receives(f, "send")
    /\ actor' = [actor EXCEPT ![f].box = Tail(@)]
    /\ Return(Sender(f), Said("refused"))
    /\ UNCHANGED <<store, files, engines, made>>

\* get_block, get_all_blocks, get_all_editors, the grants, check_grant: from
\* the projection.
Read(f) ==
    /\ Receives(f, "read")
    /\ actor' = [actor EXCEPT ![f].box = Tail(@)]
    /\ Return(Sender(f), [kind |-> "log", log |-> actor[f].seen])
    /\ UNCHANGED <<store, files, engines, made>>

\* get_all_events and the other queries for events: from the store.
History(f) ==
    /\ Receives(f, "history")
    /\ actor' = [actor EXCEPT ![f].box = Tail(@)]
    /\ Return(Sender(f), [kind |-> "log", log |-> store[actor[f].home]])
    /\ UNCHANGED <<store, files, engines, made>>

\* Shutdown: the snapshot is saved before the mailbox is dropped.
TakeShutdown(f) ==
    /\ Receives(f, "shutdown")
    /\ actor' = [actor EXCEPT ![f].box = Tail(@), ![f].life = "saving"]
    /\ UNCHANGED <<store, files, engines, call, made>>

\* The mailbox goes, with what is in it: those who wait hear that it closed.
Hangup(f) ==
    /\ actor' = [actor EXCEPT ![f].box = <<>>, ![f].life = "gone"]
    /\ call' = [c \in Client |->
                  IF At(c, "wait") /\ call[c].file = f
                  THEN [call[c] EXCEPT !.at = "idle", !.answer = Said("closed")]
                  ELSE call[c]]
    /\ UNCHANGED <<store, files, engines, made>>

\* Mutant of Stop: the receiver outlives the loop.
Stop_KeepsMailbox(f) ==
    /\ actor[f].life = "saving"
    /\ actor' = [actor EXCEPT ![f].life = "gone"]
    /\ UNCHANGED <<store, files, engines, call, made>>

Stop(f) == actor[f].life = "saving" /\ Hangup(f)

\* Who holds a handle: the table, and calls between clone and reply.
Held(f) ==
    \/ f \in engines
    \/ \E c \in Client : /\ call[c].file = f
                         /\ call[c].at \in {"poison", "drop", "deliver", "wait"}

\* recv returns None once nobody does and the mailbox is empty: no snapshot.
Abandoned(f) ==
    /\ actor[f].life = "running" /\ actor[f].box = <<>> /\ ~Held(f)
    /\ Hangup(f)

ActorStep(f) == \/ Commit(f) \/ Refuse(f) \/ Read(f) \/ History(f)
                \/ TakeShutdown(f) \/ Stop(f) \/ Abandoned(f)

-----------------------------------------------------------------------------
Init ==
    /\ store = [p \in Path |-> <<>>]
    /\ files = [f \in FileId |-> None]
    /\ engines = {}
    /\ actor = [f \in FileId |-> [life |-> "unborn", home |-> None,
                                  seen |-> <<>>, box |-> <<>>]]
    /\ call = [c \in Client |-> NoCall]
    /\ made = [c \in Client |-> 0]

Work(c) == OpenStep(c) \/ CloseStep(c) \/ CallStep(c)

Next == \/ \E c \in Client : Begin(c) \/ Work(c)
        \/ \E f \in FileId : ActorStep(f)

Spec == Init /\ [][Next]_vars
=============================================================================
