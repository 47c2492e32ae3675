-------------------------- MODULE EngineProperties --------------------------
(***************************************************************************)
(* What is true of the engine of a project, stated on the log, the cache   *)
(* and the states the actors serve.  Unless a comment says otherwise the   *)
(* properties are meant for a project with one actor at a time.            *)
(***************************************************************************)
EXTENDS Engine

(***************************************************************************)
(* Every variable keeps its type: in particular every event that reaches   *)
(* the log has the value its capability's arm of apply_event reads.        *)
(***************************************************************************)
TypeOK ==
    /\ log \in Seq(Event)
    /\ minted \in Nat
    /\ cache \in Snapshot \cup {None}
    /\ phase \in [Actor -> Phase]
    /\ st \in [Actor -> State]
    /\ todo \in [Actor -> Seq(Event)]
    /\ mark \in [Actor -> Nat \cup {None}]

-----------------------------------------------------------------------------
(***************************************************************************)
(* The state an actor answers from is the replay of the whole log from     *)
(* nothing, however it got there: through a snapshot and the events after  *)
(* it, through full replay, or event by event while it served              *)
(* (ElfileEngineActor::new, process_command).                              *)
(***************************************************************************)
ViewIsReplay == \A a \in Actor : Serving(a) => st[a] = Replay(log)

(***************************************************************************)
(* The snapshot in cache.db is the replay of the log up to the event it is *)
(* filed under, so that starting from it and from nothing come to the same *)
(* (save_cache_snapshot).                                                  *)
(***************************************************************************)
SnapshotCoherent ==
    cache # None =>
        \E i \in 1..Len(log) :
            log[i].id = cache.id /\ cache.state = History(log)[i]

(***************************************************************************)
(* The reverse index parents, which apply_event maintains by differences   *)
(* and the snapshot stores on its own, agrees with the children lists in   *)
(* every state an actor serves.                                            *)
(***************************************************************************)
IndexAgrees == \A a \in Actor : Serving(a) => ParentsMirrorChildren(st[a])

(***************************************************************************)
(* The implement relation is acyclic in every state an actor serves: the   *)
(* check in front of the handler and the children map in the event are     *)
(* both made from the same state (check_link_cycle).                       *)
(***************************************************************************)
ImplementAcyclic == \A a \in Actor : Serving(a) => Acyclic(st[a])

(***************************************************************************)
(* Link and unlink events carry a whole children map.  In the log, a link  *)
(* adds one child to those the block had just before it and loses none; an *)
(* unlink removes at most one and adds none (link.rs, unlink.rs).          *)
(***************************************************************************)
LinksKeepOthers ==
    \A i \in 1..Len(log) :
        LET before == Kids(History(log)[i - 1], log[i].entity)
            after  == log[i].value.children
        IN  /\ log[i].cap = "core.link" =>
                 \E c \in Block \ before : after = before \cup {c}
            /\ log[i].cap = "core.unlink" =>
                 \E c \in Block : after = before \ {c}

(***************************************************************************)
(* Write events carry the whole contents.  In the log, a write leaves the  *)
(* fields it is not about as they were just before it: document.write      *)
(* those of a task, task.write the text (document_write.rs, task_write.rs).*)
(* No field that had a value loses it.                                     *)
(***************************************************************************)
WritesKeepOthers ==
    \A i \in 1..Len(log) :
        log[i].cap \in {"document.write", "task.write"} =>
            LET before == History(log)[i - 1].blocks[log[i].entity].contents
                after  == log[i].value.contents
                about  == IF log[i].cap = "document.write"
                          THEN {"content"} ELSE Field \ {"content"}
            IN  \A f \in Field :
                  /\ f \notin about => after[f] = before[f]
                  /\ after[f] = None => before[f] = None

-----------------------------------------------------------------------------
(***************************************************************************)
(* Authorization read off the log alone, without any projection.           *)
(***************************************************************************)

\* Before event i, block b has been created and not deleted since.
Live(i, b) ==
    \E j \in 1..(i - 1) :
        /\ log[j].cap = "core.create" /\ log[j].entity = b
        /\ \A k \in (j + 1)..(i - 1) :
              ~(log[k].cap = "core.delete" /\ log[k].entity = b)

Owns(i, ed, b) ==
    \E j \in 1..(i - 1) :
        log[j].cap = "core.create" /\ log[j].entity = b /\ log[j].by = ed

\* Before event i, a grant of cap on b to ed or to everybody has been made
\* and neither revoked nor lost with its editor.
InForce(i, ed, cap, b) ==
    \E j \in 1..(i - 1) :
        /\ log[j].cap = "core.grant"
        /\ log[j].value.cap = cap
        /\ log[j].value.editor \in {ed, Wild}
        /\ log[j].value.block \in {b, Wild}
        /\ \A k \in (j + 1)..(i - 1) :
              /\ ~(log[k].cap = "core.revoke" /\ log[k].value = log[j].value)
              /\ ~(log[k].cap = "editor.delete" /\ log[k].entity = log[j].value.editor)

\* What seed_bootstrap_events writes, bypassing the engine.
LikeSeed(e) ==
    /\ e.by = System
    /\ \/ e.cap = "editor.create" /\ e.entity = System
       \/ e.cap = "core.grant" /\ e.entity = Wild /\ e.value.editor = System

(***************************************************************************)
(* The log justifies itself: whoever committed an event was, at that point *)
(* of the log, the owner of a live block or the holder of a grant in       *)
(* force; nothing is ever committed on a block after its deletion, nor on  *)
(* the strength of a revoked grant (certificator, has_grant, and every     *)
(* restart in between).                                                    *)
(***************************************************************************)
EventsAreAuthorised ==
    \A i \in 1..Len(log) :
        LET e == log[i]
        IN  \/ LikeSeed(e)
            \/ /\ e.cap \in SystemLevel \/ e.entity = Wild
               /\ InForce(i, e.by, e.cap, Wild)
            \/ /\ e.cap \notin SystemLevel /\ e.entity # Wild
               /\ Live(i, e.entity)
               /\ Owns(i, e.by, e.entity) \/ InForce(i, e.by, e.cap, e.entity)

(***************************************************************************)
(* The vector clocks say the order of the log: a later event's clock is    *)
(* nowhere below an earlier one's and strictly above it at the later       *)
(* event's editor, across commands, seeds and restarts (process_command,   *)
(* step 5).                                                                *)
(***************************************************************************)
ClocksFollowLog ==
    \A i, j \in 1..Len(log) :
        i < j => /\ \A ed \in Editor : log[i].ts[ed] <= log[j].ts[ed]
                 /\ log[i].ts[log[j].by] < log[j].ts[log[j].by]

-----------------------------------------------------------------------------
(***************************************************************************)
(* Several actors on one store.  An actor applies the events it read when  *)
(* it started and those it commits itself, never those that others commit  *)
(* meanwhile, and its snapshot hands the gap on to the next one.           *)
(***************************************************************************)

\* The states one can come to by leaving out some of the first i events.
Readings(l) ==
    LET r[i \in 0..Len(l)] ==
          IF i = 0 THEN {Empty}
          ELSE LET before == r[i - 1] IN before \cup {Apply(s, l[i]) : s \in before}
    IN  r

(***************************************************************************)
(* However many actors share a store, and whatever they miss of each       *)
(* other's events: what an actor answers from is the replay, in order, of  *)
(* part of the log.  No event is applied twice, none after a later one,    *)
(* and nothing is served that is not in the store.                         *)
(***************************************************************************)
ServesReading == \A a \in Actor : Serving(a) => st[a] \in Readings(log)[Len(log)]

\* Ids a command may draw after the events of l.
Drawn(c, l) == IF c.cap = "core.create" THEN Block \ Mentioned(l) ELSE {None}

\* Event e answers a command made on one of the states, after the events of l.
Answers(e, states, l) ==
    \E s \in states, c \in Menu : \E fresh \in Drawn(c, l) :
       e \in Outcome(s, c, fresh, e.id)

Warranted(readings, l, i) ==
    LikeSeed(l[i]) \/ Answers(l[i], readings[i - 1], SubSeq(l, 1, i - 1))

(***************************************************************************)
(* However many actors share a store: every event in it is one that the    *)
(* checks and handlers answer a command with, on a state made of events    *)
(* before it, and a block gets an id that no event before it speaks of     *)
(* (process_command).  What is lost with the second actor is only that     *)
(* this state is the whole of the log before it.                           *)
(***************************************************************************)
EventsAreOutcomes ==
    LET readings == Readings(log)
    IN  \A i \in 1..Len(log) : Warranted(readings, log, i)

(***************************************************************************)
(* However many actors share a store: nobody acts without a ground.  An    *)
(* event on a block was committed by the editor who created the block, or  *)
(* under a grant made before it, and after the block was created; any      *)
(* other event under a wildcard grant made before it.                      *)
(***************************************************************************)
Created(i, b) == \E j \in 1..(i - 1) : log[j].cap = "core.create" /\ log[j].entity = b

Granted(i, ed, cap, b) ==
    \E j \in 1..(i - 1) :
        /\ log[j].cap = "core.grant" /\ log[j].value.cap = cap
        /\ log[j].value.editor \in {ed, Wild} /\ log[j].value.block \in {b, Wild}

EventsHaveGrounds ==
    \A i \in 1..Len(log) :
        LET e == log[i]
        IN  \/ LikeSeed(e)
            \/ /\ e.cap \in SystemLevel \/ e.entity = Wild
               /\ Granted(i, e.by, e.cap, Wild)
            \/ /\ e.cap \notin SystemLevel /\ e.entity # Wild
               /\ Created(i, e.entity)
               /\ Owns(i, e.by, e.entity) \/ Granted(i, e.by, e.cap, e.entity)

(***************************************************************************)
(* However many actors share a store: the reverse index of a state served  *)
(* names no parent that does not list the child.  An unlink made from a    *)
(* state with other children can leave a child without its entry, never an *)
(* entry without its child (apply_event).                                  *)
(***************************************************************************)
NoFalseParents(s) == \A p, c \in Block : p \in s.parents[c] => c \in Kids(s, p)

ParentsAreTrue == \A a \in Actor : Serving(a) => NoFalseParents(st[a])

-----------------------------------------------------------------------------
(***************************************************************************)
(* An opened project ends up serving, or its process ends: no order of     *)
(* seeding, snapshot and replay leaves an actor stuck, and a shutdown that *)
(* has begun comes to its end.  Holds for any number of actors.            *)
(***************************************************************************)
OpenSettles ==
    \A a \in Actor : phase[a] # "down" ~> Serving(a) \/ phase[a] = "down"

(***************************************************************************)
(* The engine keeps the promise of EventSourcing: what a client sees of it *)
(* is one growing log and states that replay all of it.                    *)
(***************************************************************************)
View ==
    IF \E a \in Actor : Serving(a)
    THEN st[CHOOSE a \in Actor : Serving(a)]
    ELSE None

Promise == INSTANCE EventSourcing WITH view <- View, Projected <- Replay

PromiseKept == Promise!Spec
=============================================================================
