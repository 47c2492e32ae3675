----------------------------- MODULE McpServer -----------------------------
(***************************************************************************)
(* The MCP server: connections with an identity each, tools that run a     *)
(* capability or read, resources addressed by URI (src/mcp/server.rs).     *)
(*                                                                         *)
(* A connection may have several requests in progress.  A request is       *)
(* followed from one access to shared state to the next: the table of open *)
(* projects, the identity behind its lock, the engine, the broadcast.      *)
(* What the engine decides about a command is Engine's business: here it   *)
(* accepts or refuses any command whose capability is registered.          *)
(***************************************************************************)
EXTENDS Naturals, Sequences, FiniteSets

CONSTANTS None,
          Conn,         \* connections
          Slot,         \* requests that may be in progress
          ConnOf,       \* the connection of each of them
          Path,         \* projects
          Begins,       \* pairs of paths, the first a prefix of the second's text
          Block,        \* block ids, but for new ones, which nobody looks at
          Registered,   \* the capabilities the registry holds
          Requests,     \* requests clients send on each connection
          MaxLog        \* bound: commands committed per project

ASSUME NoneAssumption   == None \notin Path \cup Block \cup Slot
ASSUME ConnAssumption   == ConnOf \in [Slot -> Conn]
ASSUME SlotAssumption   == IsFiniteSet(Slot)
ASSUME BeginsAssumption == /\ Begins \subseteq Path \X Path
                           /\ \A p \in Path : <<p, p>> \in Begins
ASSUME MaxLogAssumption == MaxLog \in Nat

\* The capability a tool runs; elfiee_exec is given one.
CapOf == [elfiee_block_create  |-> "core.create",
          elfiee_block_delete  |-> "core.delete",
          elfiee_block_rename  |-> "core.write",
          elfiee_block_link    |-> "core.link",
          elfiee_block_unlink  |-> "core.unlink",
          elfiee_grant         |-> "core.grant",
          elfiee_revoke        |-> "core.revoke",
          elfiee_editor_create |-> "core.editor_create",
          elfiee_editor_delete |-> "core.editor_delete"]

CommandTool == DOMAIN CapOf \cup {"elfiee_exec"}

ReadTool == {"elfiee_block_list", "elfiee_block_get", "elfiee_block_history",
             "elfiee_state_at_event"}

Tool == CommandTool \cup ReadTool \cup
        {"elfiee_auth", "elfiee_open", "elfiee_close", "elfiee_file_list",
         "list_resources", "read_resource"}

\* What read_resource can be asked for in a project, but for "files", which is
\* the list of projects.
Kind == {"files", "blocks", "grants", "events", "editors", "my-tasks", "my-grants",
         "block"}

\* block is the target, or the parent of elfiee_block_create; arg the editor
\* of elfiee_auth, the capability of elfiee_exec, the kind of read_resource.
IsRequest(r) ==
    /\ r.tool \in Tool
    /\ r.project \in Path
         \/ r.tool \in {"elfiee_auth", "elfiee_file_list", "list_resources"}
    /\ r.block \in Block \cup {None}
    /\ r.tool = "read_resource" => r.arg \in Kind

ASSUME RequestsAssumption == \A n \in Conn : \A r \in Requests[n] : IsRequest(r)

VARIABLES
    editor,   \* the identity of each connection, None before elfiee_auth
    lock,     \* the request that holds the write lock of the identity
    open,     \* projects that are open, with their engine
    log,      \* commands each project's engine has committed
    told,     \* how often each project was announced as changed
    req       \* the requests

vars == <<editor, lock, open, log, told, req>>

Stage == {"idle", "auth", "file", "who", "engine", "run", "announce", "look",
          "read", "route", "resolve", "serve"}

\* by: the identity read; live: its handle still leads to an engine; own: the
\* position of its commit; seen: how much of the log the answer shows; to: the
\* project a URI was taken to name.
NoRequest == [ask |-> None, at |-> "idle", by |-> None, live |-> FALSE, own |-> 0,
              seen |-> 0, to |-> None, result |-> "none"]

-----------------------------------------------------------------------------
Ask(s)  == req[s].ask
Home(s) == Ask(s).project
Mine(s) == ConnOf[s]

\* The project whose engine the request's handle is of.
Target(s) == IF Ask(s).tool = "read_resource" THEN req[s].to ELSE Home(s)

Goto(s, stage) == req' = [req EXCEPT ![s].at = stage]

Return(s, result) == req' = [req EXCEPT ![s].at = "idle", ![s].result = result]

\* The identity as try_read gives it: nothing while a writer holds the lock.
Identity(n) == IF lock[n] = None THEN editor[n] ELSE None

FirstStage(tool) ==
    CASE tool = "elfiee_auth" -> "auth"
      [] tool \in {"elfiee_open", "elfiee_close", "elfiee_file_list",
                   "list_resources"} -> "serve"
      [] tool = "read_resource" -> "route"
      [] OTHER -> "file"

Receive(s) ==
    /\ req[s].at = "idle"
    /\ \E r \in Requests[Mine(s)] :
          req' = [req EXCEPT ![s] = [NoRequest EXCEPT !.ask = r,
                                                      !.at = FirstStage(r.tool)]]
    /\ UNCHANGED <<editor, lock, open, log, told>>

-----------------------------------------------------------------------------
(***************************************************************************)
(* elfiee_auth: the lock is held while the skill guide is read.            *)
(***************************************************************************)

Authenticate(s) ==
    /\ req[s].at = "auth" /\ lock[Mine(s)] = None
    /\ lock' = [lock EXCEPT ![Mine(s)] = s]
    /\ editor' = [editor EXCEPT ![Mine(s)] = Ask(s).arg]
    /\ Goto(s, "serve")
    /\ UNCHANGED <<open, log, told>>

Release(s) ==
    /\ req[s].at = "serve" /\ Ask(s).tool = "elfiee_auth"
    /\ lock' = [lock EXCEPT ![Mine(s)] = None]
    /\ Return(s, "ok")
    /\ UNCHANGED <<editor, open, log, told>>

-----------------------------------------------------------------------------
(***************************************************************************)
(* Projects: elfiee_open, elfiee_close, elfiee_file_list, list_resources.  *)
(* None of them asks for an identity.                                      *)
(***************************************************************************)
Serves(s, tool) == req[s].at = "serve" /\ Ask(s).tool = tool

OpenProject(s) ==
    /\ Serves(s, "elfiee_open")
    /\ \/ open' = open \cup {Home(s)} /\ Return(s, "ok")
       \/ UNCHANGED open /\ Home(s) \notin open /\ Return(s, "failed")
    /\ UNCHANGED <<editor, lock, log, told>>

\* The engine stops: handles that others hold lead nowhere, also after the
\* project is opened again.
CloseProject(s) ==
    /\ Serves(s, "elfiee_close")
    /\ open' = open \ {Home(s)}
    /\ req' = [t \in Slot |->
                 IF t = s
                 THEN [req[s] EXCEPT !.at = "idle",
                         !.result = IF Home(s) \in open THEN "ok" ELSE "failed"]
                 ELSE IF req[t].live /\ Target(t) = Home(s)
                 THEN [req[t] EXCEPT !.live = FALSE]
                 ELSE req[t]]
    /\ UNCHANGED <<editor, lock, log, told>>

List(s) ==
    /\ Serves(s, "elfiee_file_list") \/ Serves(s, "list_resources")
    /\ Return(s, "data")
    /\ UNCHANGED <<editor, lock, open, log, told>>

-----------------------------------------------------------------------------
(***************************************************************************)
(* What every other tool begins with.                                      *)
(***************************************************************************)

GetFileId(s) ==
    /\ req[s].at = "file"
    /\ IF Home(s) \in open THEN Goto(s, "who") ELSE Return(s, "project_not_open")
    /\ UNCHANGED <<editor, lock, open, log, told>>

GetConnectionEditor(s) ==
    /\ req[s].at = "who"
    /\ IF Identity(Mine(s)) = None THEN Return(s, "not_authenticated")
       ELSE req' = [req EXCEPT ![s].at = "engine", ![s].by = Identity(Mine(s))]
    /\ UNCHANGED <<editor, lock, open, log, told>>

GetEngine(s) ==
    /\ req[s].at = "engine"
    /\ IF Home(s) \notin open THEN Return(s, "engine_not_found")
       ELSE req' = [req EXCEPT ![s].live = TRUE,
                      ![s].at = IF Ask(s).tool \in CommandTool THEN "run" ELSE "read"]
    /\ UNCHANGED <<editor, lock, open, log, told>>

\* How much of its project's log a handle shows.
Visible(s) == IF req[s].live THEN Len(log[Target(s)]) ELSE 0

\* What the services do in further messages is in Services: here a message is
\* answered by an engine that lives, and by none that has stopped.
Reads(s, tool) == req[s].at = "read" /\ Ask(s).tool = tool

Data(s) == req' = [req EXCEPT ![s].at = "idle", ![s].result = "data",
                              ![s].seen = Visible(s)]

\* Lists what may be seen, which is nothing if nobody answers.
ReadBlocks(s) ==
    /\ Reads(s, "elfiee_block_list")
    /\ Data(s)
    /\ UNCHANGED <<editor, lock, open, log, told>>

ReadBlock(s) ==
    /\ Reads(s, "elfiee_block_get")
    /\ (req[s].live /\ Data(s)) \/ Return(s, "refused")
    /\ UNCHANGED <<editor, lock, open, log, told>>

ReadHistory(s) ==
    /\ Reads(s, "elfiee_block_history")
    /\ (req[s].live /\ Data(s)) \/ Return(s, "refused")
    /\ UNCHANGED <<editor, lock, open, log, told>>

ReadPast(s) ==
    /\ Reads(s, "elfiee_state_at_event")
    /\ (req[s].live /\ Data(s)) \/ Return(s, "refused")
    /\ UNCHANGED <<editor, lock, open, log, told>>

-----------------------------------------------------------------------------
(***************************************************************************)
(* execute_capability.                                                     *)
(***************************************************************************)
CapabilityOf(s) == IF Ask(s).tool = "elfiee_exec" THEN Ask(s).arg ELSE CapOf[Ask(s).tool]

\* Mutant of Accept: the identity is looked up once more when the command goes
\* out, for whichever connection spoke last.
Accept_LateIdentity(s) ==
    /\ req[s].at = "run" /\ req[s].live
    /\ CapabilityOf(s) \in Registered /\ Len(log[Home(s)]) < MaxLog
    /\ \E n \in Conn :
          /\ editor[n] # None
          /\ log' = [log EXCEPT ![Home(s)] =
                       Append(@, [conn |-> Mine(s), by |-> editor[n],
                                  cap |-> CapabilityOf(s), block |-> Ask(s).block])]
    /\ req' = [req EXCEPT ![s].at = "announce", ![s].own = Len(log[Home(s)]) + 1]
    /\ UNCHANGED <<editor, lock, open, told>>

\* The engine commits the command.
Accept(s) ==
    /\ req[s].at = "run" /\ req[s].live
    /\ CapabilityOf(s) \in Registered /\ Len(log[Home(s)]) < MaxLog
    /\ log' = [log EXCEPT ![Home(s)] =
                 Append(@, [conn |-> Mine(s), by |-> req[s].by,
                            cap |-> CapabilityOf(s), block |-> Ask(s).block])]
    /\ req' = [req EXCEPT ![s].at = "announce", ![s].own = Len(log[Home(s)]) + 1]
    /\ UNCHANGED <<editor, lock, open, told>>

\* It refuses it, or is closed, or does not know the capability.
Refuse(s) ==
    /\ req[s].at = "run"
    /\ Return(s, IF req[s].live /\ CapabilityOf(s) \notin Registered
                 THEN "unknown_capability" ELSE "refused")
    /\ UNCHANGED <<editor, lock, open, log, told>>

\* Mutant of Announce: nobody is told about deletions.
Announce_NotDeletes(s) ==
    /\ req[s].at = "announce"
    /\ told' = [told EXCEPT ![Home(s)] = IF CapabilityOf(s) = "core.delete" THEN @ ELSE @ + 1]
    /\ Goto(s, "look")
    /\ UNCHANGED <<editor, lock, open, log>>

\* state_changed_tx.send: what becomes of it is in Notifications.
Announce(s) ==
    /\ req[s].at = "announce"
    /\ told' = [told EXCEPT ![Home(s)] = @ + 1]
    /\ Goto(s, "look")
    /\ UNCHANGED <<editor, lock, open, log>>

\* Mutant of Look: the answer shows the block as it was before.
Look_Before(s) ==
    /\ req[s].at = "look"
    /\ req' = [req EXCEPT ![s].at = "idle", ![s].result = "done",
                          ![s].seen = req[s].own - 1]
    /\ UNCHANGED <<editor, lock, open, log, told>>

\* get_block of the new block or of the target, for the answer.
Look(s) ==
    /\ req[s].at = "look"
    /\ req' = [req EXCEPT ![s].at = "idle", ![s].result = "done",
                          ![s].seen = Visible(s)]
    /\ UNCHANGED <<editor, lock, open, log, told>>

-----------------------------------------------------------------------------
(***************************************************************************)
(* read_resource: the project is found by the beginning of the URI's text, *)
(* in whatever order the table lists them.                                 *)
(***************************************************************************)

\* Mutant of Route: only the last project opened is looked at.
Route_Any(s) ==
    /\ req[s].at = "route"
    /\ IF Ask(s).arg = "files" THEN Return(s, "data")
       ELSE IF open = {} THEN Return(s, "project_not_open")
       ELSE \E p \in open : req' = [req EXCEPT ![s].at = "resolve", ![s].to = p]
    /\ UNCHANGED <<editor, lock, open, log, told>>

Route(s) ==
    /\ req[s].at = "route"
    /\ IF Ask(s).arg = "files" THEN Return(s, "data")
       ELSE IF ~\E p \in open : <<p, Home(s)>> \in Begins
       THEN Return(s, "project_not_open")
       ELSE \E p \in {q \in open : <<q, Home(s)>> \in Begins} :
               req' = [req EXCEPT ![s].at = "resolve", ![s].to = p]
    /\ UNCHANGED <<editor, lock, open, log, told>>

\* get_engine, and the identity, which a resource can do without.
Resolve(s) ==
    /\ req[s].at = "resolve"
    /\ IF req[s].to \notin open THEN Return(s, "engine_not_found")
       ELSE req' = [req EXCEPT ![s].at = "serve", ![s].live = TRUE,
                               ![s].by = Identity(Mine(s))]
    /\ UNCHANGED <<editor, lock, open, log, told>>

ServesKind(s, kinds) ==
    Serves(s, "read_resource") /\ req[s].to = Home(s) /\ Ask(s).arg \in kinds

Resource(s, result) ==
    req' = [req EXCEPT ![s].at = "idle", ![s].result = result, ![s].seen = Visible(s)]

\* Another project's path was cut off the URI.  What is left of it is no known
\* kind, or, under a directory called block, no known block.
Unresolved(s) ==
    /\ Serves(s, "read_resource") /\ req[s].to # Home(s)
    /\ \E result \in {"unknown_resource", "refused"} : Resource(s, result)
    /\ UNCHANGED <<editor, lock, open, log, told>>

\* Lists of the project: empty without an identity, and if nobody answers.
ProjectResource(s) ==
    /\ ServesKind(s, {"blocks", "grants", "events"})
    /\ Resource(s, IF req[s].by = None THEN "nothing" ELSE "data")
    /\ UNCHANGED <<editor, lock, open, log, told>>

\* The log could not be read.
EventsFail(s) ==
    /\ ServesKind(s, {"events"}) /\ req[s].by # None
    /\ Resource(s, "refused")
    /\ UNCHANGED <<editor, lock, open, log, told>>

\* A block is read as nobody without an identity.
BlockResource(s) ==
    /\ ServesKind(s, {"block"})
    /\ (req[s].live /\ Resource(s, "data")) \/ Resource(s, "refused")
    /\ UNCHANGED <<editor, lock, open, log, told>>

\* The editors, which everybody may list, and what is the asker's own.
OwnResource(s) ==
    /\ ServesKind(s, {"editors", "my-tasks", "my-grants"})
    /\ Resource(s, IF req[s].by = None /\ Ask(s).arg # "editors"
                   THEN "nothing" ELSE "data")
    /\ UNCHANGED <<editor, lock, open, log, told>>

-----------------------------------------------------------------------------
Init ==
    /\ editor = [n \in Conn |-> None]
    /\ lock = [n \in Conn |-> None]
    /\ open = {}
    /\ log = [p \in Path |-> <<>>]
    /\ told = [p \in Path |-> 0]
    /\ req = [s \in Slot |-> NoRequest]

Step(s) == \/ Authenticate(s) \/ Release(s)
           \/ OpenProject(s) \/ CloseProject(s) \/ List(s)
           \/ GetFileId(s) \/ GetConnectionEditor(s) \/ GetEngine(s)
           \/ ReadBlocks(s) \/ ReadBlock(s) \/ ReadHistory(s) \/ ReadPast(s)
           \/ Accept(s) \/ Refuse(s) \/ Announce(s) \/ Look(s)
           \/ Route(s) \/ Resolve(s) \/ Unresolved(s)
           \/ ProjectResource(s) \/ EventsFail(s) \/ BlockResource(s) \/ OwnResource(s)

Next == \E s \in Slot : Receive(s) \/ Step(s)

Spec == Init /\ [][Next]_vars
=============================================================================
