------------------------------ MODULE Services ------------------------------
(***************************************************************************)
(* The service layer between the transports and one engine                 *)
(* (src/services/*.rs): each service sends one message to the engine after *)
(* the other, and commands of other clients are served between two of them.*)
(*                                                                         *)
(* The engine is the one Engine implements: commands take effect one at a  *)
(* time (EventSourcing).  A service call is followed message by message;   *)
(* the other clients send the commands of Menu.                            *)
(***************************************************************************)
EXTENDS Capabilities

CONSTANTS Menu,        \* commands other clients send
          Calls,       \* calls of services: what, by whom, on which block
          Seed,        \* the log the engine starts with
          Prefixed,    \* editors whose id starts with "editor-"
          MaxLog       \* bound: the engine commits nothing to a longer log

ASSUME MenuAssumption     == \A c \in Menu : IsCommand(c)
ASSUME SeedAssumption     == Seed \in Seq(Event)
ASSUME PrefixedAssumption == Prefixed \subseteq Editor
ASSUME MaxLogAssumption   == MaxLog \in Nat

\* A call: who asks, the block where there is one, and for create_task what the
\* task is called and about.
IsCall(r) == /\ r.by \in Editor /\ r.block \in Block
             /\ r.arg \in [name: Text, description: Text]

ASSUME CallsAssumption == None \notin Calls /\ \A r \in Calls : IsCall(r)

VARIABLES
    log,      \* the events the engine has committed
    states,   \* its state after each of them; the last one is the present
    up,       \* whether the engine still serves
    call      \* the service call in progress, or the last one

vars == <<log, states, up, call>>

Now    == states[Len(states)]
Instant == Len(states)

\* From the moment it began, at a stage, with what the messages brought; lost is
\* a record of ours: the store did not take a command the engine had decided on.
Idle == [req |-> None, at |-> "idle", from |-> 0, till |-> 0, events |-> <<>>,
         blocks |-> <<>>, grants |-> {}, kept |-> <<>>, result |-> None,
         lost |-> FALSE]

Req == call.req

Goto(stage) == [call EXCEPT !.at = stage]

\* kind says which kind of answer, value what it holds.
Answer(kind, value) == [kind |-> kind, value |-> value]

Return(kind, value) ==
    call' = [call EXCEPT !.at = "idle", !.till = Instant, !.result = Answer(kind, value)]

-----------------------------------------------------------------------------
(***************************************************************************)
(* The engine, as a service sees it.                                       *)
(***************************************************************************)

\* One event is committed and applied.
Take(e) == /\ log' = Append(log, e)
           /\ states' = Append(states, Apply(Now, e))

Mentioned == {b \in Block : \E i \in 1..Len(log) :
                 \/ log[i].entity = b
                 \/ log[i].cap \in {"core.link", "core.unlink"}
                    /\ b \in log[i].value.children}

FreshFor(c) == IF c.cap = "core.create" THEN Block \ Mentioned ELSE {None}

Outcomes(c) == UNION {Outcome(Now, c, fresh, Len(log) + 1) : fresh \in FreshFor(c)}

\* A command of another client.
Elsewhere ==
    /\ up /\ Len(log) < MaxLog
    /\ \E c \in Menu : \E e \in Outcomes(c) : Take(e)
    /\ UNCHANGED <<up, call>>

\* The project is closed under the service.
CloseEngine == up /\ up' = FALSE /\ UNCHANGED <<log, states, call>>

\* EngineHandle answers for an engine that is gone: no block, no blocks, no
\* grants, no permission.
BlockOf(b) == IF up THEN Now.blocks[b] ELSE None
AllBlocks  == IF up THEN Now.blocks ELSE Empty.blocks
AllGrants  == IF up THEN Now.grants ELSE {}

\* CheckGrant: the owner, or a grant; the entity need not be a block.
Granted(s, ed, cap, entity) ==
    \/ entity \in Block /\ Exists(s, entity) /\ s.blocks[entity].owner = ed
    \/ HasGrant(s, ed, cap, entity)

\* Mutant of CheckGrant: a read is open to whoever holds any grant.
CheckGrant_AnyGrant(ed, cap, entity) ==
    up /\ \/ Granted(Now, ed, cap, entity)
          \/ \E g \in Now.grants : g.editor = ed /\ g.block = entity

CheckGrant(ed, cap, entity) == up /\ Granted(Now, ed, cap, entity)

ReadCap == [document |-> "document.read", task |-> "task.read",
            session |-> "session.read"]

-----------------------------------------------------------------------------
(***************************************************************************)
(* One block: get_block, read_document, read_task, read_session,           *)
(* get_block_history.  The block first, the permission in a second message.*)
(***************************************************************************)
BlockReads == {"get_block", "read_document", "read_task", "read_session",
               "get_block_history"}

\* The type a service insists on.
TypeFor == [read_document |-> "document", read_task |-> "task",
            read_session |-> "session"]

WrongType(rec) == Req.op \in DOMAIN TypeFor /\ rec.type # TypeFor[Req.op]

FetchBlock ==
    /\ call.at = "begin" /\ Req.op \in BlockReads
    /\ LET rec == BlockOf(Req.block) IN
       CASE rec = None -> Return("missing", None)
         [] rec # None /\ WrongType(rec) -> Return("type", None)
         [] OTHER -> call' = [Goto("check") EXCEPT !.blocks = rec]
    /\ UNCHANGED <<log, states, up>>

CheckRead ==
    /\ call.at = "check"
    /\ IF ~CheckGrant(Req.by, ReadCap[call.blocks.type], Req.block)
       THEN Return("denied", None)
       ELSE IF Req.op = "get_block_history" THEN call' = Goto("events")
       ELSE Return("block", call.blocks)
    /\ UNCHANGED <<log, states, up>>

\* get_events_by_entity: the events about a block, in the order of the log.
About(events, b) == SelectSeq(events, LAMBDA e : e.entity = b)

\* Mutant of FetchHistory: events of the editor instead of the block.
FetchHistory_ByEditor ==
    /\ call.at = "events"
    /\ IF up THEN Return("events", SelectSeq(log, LAMBDA e : e.by = Req.by))
       ELSE Return("closed", None)
    /\ UNCHANGED <<log, states, up>>

FetchHistory ==
    /\ call.at = "events"
    /\ IF up THEN Return("events", About(log, Req.block))
       ELSE Return("closed", None)
    /\ UNCHANGED <<log, states, up>>

-----------------------------------------------------------------------------
(***************************************************************************)
(* Lists: list_blocks and list_grants, each of two messages.               *)
(***************************************************************************)
Own(grants, ed) == {g \in grants : g.editor = ed}

\* Some grant of the editor's own names the block or everything.
Reaches(grants, ed, b) == \E g \in Own(grants, ed) : g.block \in {b, Wild}

FetchList ==
    /\ call.at = "begin"
    /\ \/ /\ Req.op = "list_blocks"
          /\ call' = [Goto("list") EXCEPT !.blocks = AllBlocks]
       \/ /\ Req.op = "list_grants"
          /\ call' = [Goto("list") EXCEPT !.grants = AllGrants]
    /\ UNCHANGED <<log, states, up>>

\* Mutant of ListBlocks: the filter forgets the owner.
ListBlocks_GrantsOnly ==
    /\ call.at = "list" /\ Req.op = "list_blocks"
    /\ Return("blocks", [b \in {x \in Block : /\ call.blocks[x] # None
                                              /\ Reaches(AllGrants, Req.by, x)}
                            |-> call.blocks[b]])
    /\ UNCHANGED <<log, states, up>>

ListBlocks ==
    /\ call.at = "list" /\ Req.op = "list_blocks"
    /\ Return("blocks", [b \in {x \in Block : /\ call.blocks[x] # None
                                              /\ \/ call.blocks[x].owner = Req.by
                                                 \/ Reaches(AllGrants, Req.by, x)}
                            |-> call.blocks[b]])
    /\ UNCHANGED <<log, states, up>>

ListGrants ==
    /\ call.at = "list" /\ Req.op = "list_grants"
    /\ Return("grants",
              {g \in call.grants :
                  \/ g.block = Wild
                  \/ Reaches(call.grants, Req.by, g.block)
                  \/ /\ AllBlocks[g.block] # None
                     /\ AllBlocks[g.block].owner = Req.by})
    /\ UNCHANGED <<log, states, up>>

-----------------------------------------------------------------------------
(***************************************************************************)
(* Events: list_events asks for every event whether it may be shown;       *)
(* get_state_at_event replays a prefix of the log.                         *)
(***************************************************************************)
FetchEvents ==
    /\ call.at = "begin" /\ Req.op \in {"list_events", "get_state_at_event"}
    /\ IF ~up THEN Return("closed", None)
       ELSE call' = [Goto(IF Req.op = "list_events" THEN "types" ELSE "travel")
                        EXCEPT !.events = log]
    /\ UNCHANGED <<log, states, up>>

\* The types of the blocks there are now; one that is gone counts as a document.
FetchTypes ==
    /\ call.at = "types"
    /\ call' = [Goto("filter") EXCEPT !.blocks = AllBlocks]
    /\ UNCHANGED <<log, states, up>>

CapFor(entity) ==
    IF entity \in Block /\ call.blocks[entity] # None
    THEN ReadCap[call.blocks[entity].type] ELSE "document.read"

\* Mutant of FilterNext: nothing is exempt.
FilterNext_All ==
    /\ call.at = "filter"
    /\ IF call.events = <<>> THEN Return("events", call.kept)
       ELSE LET e == Head(call.events)
                shown == CheckGrant(Req.by, CapFor(e.entity), e.entity)
            IN call' = [call EXCEPT !.events = Tail(@),
                                    !.kept = IF shown THEN Append(@, e) ELSE @]
    /\ UNCHANGED <<log, states, up>>

\* One check_grant per event, except for what belongs to the whole project.
FilterNext ==
    /\ call.at = "filter"
    /\ IF call.events = <<>> THEN Return("events", call.kept)
       ELSE LET e == Head(call.events)
                shown == \/ e.entity \in Prefixed \cup {Wild}
                         \/ CheckGrant(Req.by, CapFor(e.entity), e.entity)
            IN call' = [call EXCEPT !.events = Tail(@),
                                    !.kept = IF shown THEN Append(@, e) ELSE @]
    /\ UNCHANGED <<log, states, up>>

\* Mutant of Travel: the grants of today.
Travel_GrantsNow ==
    /\ call.at = "travel"
    /\ \E i \in 1..Len(call.events) :
          LET then == Replay(SubSeq(call.events, 1, i)) IN
          IF then.blocks[Req.block] = None THEN Return("missing", None)
          ELSE call' = [Goto("depart") EXCEPT !.blocks = then.blocks[Req.block],
                                              !.grants = Now.grants]
    /\ UNCHANGED <<log, states, up>>

\* Replayed to the event asked for, if the id is known and the block was there.
Travel ==
    /\ call.at = "travel"
    /\ \/ Return("missing", None)
       \/ \E i \in 1..Len(call.events) :
             LET then == Replay(SubSeq(call.events, 1, i)) IN
             IF then.blocks[Req.block] = None THEN Return("missing", None)
             ELSE call' = [Goto("depart") EXCEPT !.blocks = then.blocks[Req.block],
                                                 !.grants = then.grants]
    /\ UNCHANGED <<log, states, up>>

\* The permission is that of today, the block and the grants those of then.
Depart ==
    /\ call.at = "depart"
    /\ IF CheckGrant(Req.by, ReadCap[call.blocks.type], Req.block)
       THEN Return("past", [block |-> call.blocks, grants |-> call.grants])
       ELSE Return("denied", None)
    /\ UNCHANGED <<log, states, up>>

-----------------------------------------------------------------------------
(***************************************************************************)
(* One message: the editors, one of them, the grants of an editor or of a  *)
(* block.                                                                  *)
(***************************************************************************)
Ask ==
    /\ call.at = "begin"
    /\ \/ /\ Req.op = "list_editors"
          /\ Return("editors", IF up THEN Now.editors ELSE {})
       \/ /\ Req.op = "get_editor"
          /\ IF up /\ Req.by \in Now.editors THEN Return("editor", Req.by)
             ELSE Return("missing", None)
       \/ /\ Req.op = "get_editor_grants"
          /\ Return("grants", Own(AllGrants, Req.by))
       \/ /\ Req.op = "get_block_grants"
          /\ Return("grants", {g \in AllGrants : g.block \in {Req.block, Wild}})
    /\ UNCHANGED <<log, states, up>>

-----------------------------------------------------------------------------
(***************************************************************************)
(* Services that send a command and pass on the outcome; Menu is built     *)
(* from them.                                                              *)
(***************************************************************************)
Command(by, cap, block, arg) == [by |-> by, cap |-> cap, block |-> block, arg |-> arg]

Blank == [f \in Field |-> None]

RenameBlock(ed, b, name)      == Command(ed, "core.write", b, [name |-> name])
WriteDocument(ed, b, content) ==
    Command(ed, "document.write", b, [patch |-> [Blank EXCEPT !["content"] = content]])
WriteTask(ed, b, f, value)    ==
    Command(ed, "task.write", b, [patch |-> [Blank EXCEPT ![f] = value]])
CommitTask(ed, b)             == Command(ed, "task.commit", b, None)
AppendSession(ed, b, entry)   == Command(ed, "session.append", b, [entry |-> entry])
GrantPermission(ed, target, cap, b) ==
    Command(ed, "core.grant", b, [editor |-> target, cap |-> cap])
RevokePermission(ed, target, cap, b) ==
    Command(ed, "core.revoke", b, [editor |-> target, cap |-> cap])
CreateEditor(ed, id)          == Command(ed, "editor.create", None, [editor |-> id])
RemoveEditor(ed, id)         == Command(ed, "editor.delete", None, [editor |-> id])

\* create_task without its description.
NewTask(ed, name) ==
    Command(ed, "core.create", None, [name |-> name, type |-> "task", contents |-> Blank])

\* create_task: the block, which the engine may refuse or fail to store...
CreateTask ==
    /\ call.at = "begin" /\ Req.op = "create_task"
    /\ \/ Return("refused", None) /\ UNCHANGED <<log, states>>
       \/ /\ up /\ Len(log) < MaxLog
          /\ \E e \in Outcomes(NewTask(Req.by, Req.arg.name)) :
                Take(e) /\ call' = [Goto("describe") EXCEPT !.blocks = e.entity]
    /\ UNCHANGED up

Description == RenameBlock(Req.by, call.blocks, Req.arg.description)

\* ...then its description...
Describe ==
    /\ call.at = "describe"
    /\ IF ~up \/ Outcomes(Description) = {} THEN UNCHANGED <<log, states>>
       ELSE \E e \in Outcomes(Description) : Take(e)
    /\ Return("task", call.blocks)
    /\ UNCHANGED up

\* ...which the store may fail to take.  Any failure of the second command is
\* logged, and the call succeeds.
DescribeFails ==
    /\ call.at = "describe" /\ up /\ Outcomes(Description) # {}
    /\ call' = [call EXCEPT !.at = "idle", !.till = Instant, !.lost = TRUE,
                            !.result = Answer("task", call.blocks)]
    /\ UNCHANGED <<log, states, up>>

-----------------------------------------------------------------------------
Init ==
    /\ log = Seed
    /\ states = [i \in 1..(Len(Seed) + 1) |-> History(Seed)[i - 1]]
    /\ up = TRUE
    /\ call = Idle

Begin ==
    /\ call.at = "idle"
    /\ \E req \in Calls :
          call' = [Idle EXCEPT !.req = req, !.at = "begin", !.from = Instant]
    /\ UNCHANGED <<log, states, up>>

Message == \/ FetchBlock \/ CheckRead \/ FetchHistory
           \/ FetchList \/ ListBlocks \/ ListGrants
           \/ FetchEvents \/ FetchTypes \/ FilterNext \/ Travel \/ Depart
           \/ Ask \/ CreateTask \/ Describe \/ DescribeFails

Next == Begin \/ Message \/ Elsewhere \/ CloseEngine

Spec == Init /\ [][Next]_vars
=============================================================================
