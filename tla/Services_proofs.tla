--------------------------- MODULE Services_proofs ---------------------------
(***************************************************************************)
(* For any calls, any commands of others and any number of instants        *)
(* between two messages of a call: what is read was there and permitted,   *)
(* a history is whole, a list is right, a past is one instant, and a task  *)
(* that is reported has its description.                                   *)
(***************************************************************************)
EXTENDS ServiceProperties, Projection_proofs

Fresh(e) == e.cap = "core.create" => e.entity \in Block \ Mentioned

\* The states are those the log goes through, from the empty one.
Shape == /\ log \in Seq(Event) /\ states \in Seq(State)
         /\ Len(states) = Len(log) + 1 /\ Len(Seed) <= Len(log)
         /\ states[1] = Empty
         /\ \A i \in 1..Len(log) : states[i + 1] = Apply(states[i], log[i])

\* A block that is or was there is mentioned in the log.
Known == \A i \in 1..Len(states), b \in Block :
            Exists(states[i], b) => \E k \in 1..Len(log) : log[k].entity = b

\* Since the seed, a block has one owner.
OwnersStay == \A i, j \in (Len(Seed) + 1)..Len(states), b \in Block :
                 Exists(states[i], b) /\ Exists(states[j], b) =>
                    states[i].blocks[b].owner = states[j].blocks[b].owner

Engine == Shape /\ Known /\ OwnersStay

-----------------------------------------------------------------------------
(***************************************************************************)
(* What a call carries from one message to the next.                       *)
(***************************************************************************)
Since == call.from..Instant

Checking == /\ Req.op \in BlockReads /\ call.blocks \in BlockRec
            /\ \E i \in Since : call.blocks = states[i].blocks[Req.block]

Fetching == /\ Req.op = "get_block_history"
            /\ \E i \in Since, type \in BlockType :
                  MayRead(states[i], Req.by, Req.block, type)

Listing == Req.op = "list_blocks" =>
              \/ ~up /\ call.blocks = Empty.blocks
              \/ \E i \in Since : call.blocks = states[i].blocks

\* Of the first n - 1 events p are sifted, the others are still to come.
Filtering ==
    /\ Req.op = "list_events" /\ call.kept \in Seq(Event)
    /\ \E n \in Since, p \in Nat : /\ p < n
                                   /\ call.events = SubSeq(log, p + 1, n - 1)
                                   /\ Sifted(call.kept, p)
    /\ \A k \in 1..Len(call.kept) :
          \/ Public(call.kept[k])
          \/ \E j \in Since, type \in BlockType :
                MayRead(states[j], Req.by, call.kept[k].entity, type)
    /\ call.at = "filter" => call.blocks \in [Block -> BlockRec \cup {None}]

Traveling == /\ Req.op = "get_state_at_event"
             /\ \E n \in 0..Len(log) : call.events = SubSeq(log, 1, n)

Departing == /\ Req.op = "get_state_at_event" /\ call.blocks \in BlockRec
             /\ \E i \in 1..Instant : /\ call.blocks = states[i].blocks[Req.block]
                                      /\ call.grants = states[i].grants

\* The new task is still its creator's, or was deleted since.
Deleted(b) == \E i \in call.from..Len(log) :
                 log[i].entity = b /\ log[i].cap = "core.delete"

OwnedBy(s, b, ed) == Exists(s, b) /\ s.blocks[b].owner = ed

Describing == /\ Req.op = "create_task" /\ call.blocks \in Block
              /\ OwnedBy(Now, call.blocks, Req.by) \/ Deleted(call.blocks)

Stages == {"idle", "begin", "check", "events", "list", "types", "filter", "travel",
           "depart", "describe"}

IsRecord == call = [req |-> call.req, at |-> call.at, from |-> call.from,
                    till |-> call.till, events |-> call.events, blocks |-> call.blocks,
                    grants |-> call.grants, kept |-> call.kept, result |-> call.result,
                    lost |-> call.lost]

Underway ==
    /\ call.at \in Stages
    /\ IsRecord
    /\ call.at # "idle" => Req \in Calls
    /\ Req = None \/ (Req \in Calls /\ call.from \in (Len(Seed) + 1)..Instant)
    /\ call.at = "idle" /\ Req # None => call.till \in Since
    /\ call.at = "begin" => call.kept = <<>>
    /\ call.at = "check" => Checking
    /\ call.at = "events" => Fetching
    /\ call.at = "list" => Listing
    /\ call.at \in {"types", "filter"} => Filtering
    /\ call.at = "travel" => Traveling
    /\ call.at = "depart" => Departing
    /\ call.at = "describe" => Describing

\* Only the last answer needs the registry: the second command of create_task.
Answers == /\ ReadsArePermitted /\ HistoryIsWhole /\ ListIsRight
           /\ EventListIsRight /\ PastIsOneInstant
           /\ "core.write" \in Registered => TasksAreDescribed

ServiceInv == Engine /\ Underway /\ Answers

-----------------------------------------------------------------------------
(***************************************************************************)
(* The engine.                                                             *)
(***************************************************************************)

\* The log and the states are as they were, or one event longer.
Grown == \/ UNCHANGED <<log, states>>
         \/ \E e \in Event : Fresh(e) /\ Take(e)

LEMMA Instants ==
  ASSUME Shape
  PROVE  /\ Len(log) \in Nat /\ Instant \in Nat /\ Instant = Len(log) + 1
         /\ \A i \in 1..Len(log) : log[i] \in Event
         /\ \A i \in 1..Instant : states[i] \in State
         /\ Now \in State
<1>1. log \in Seq(Event) /\ states \in Seq(State) /\ Len(states) = Len(log) + 1
  BY DEF Shape
<1>2. /\ Len(log) \in Nat /\ \A i \in 1..Len(log) : log[i] \in Event
      /\ Len(states) \in Nat /\ \A i \in 1..Len(states) : states[i] \in State
  BY <1>1, LenProperties, ElementOfSeq
<1> QED BY <1>1, <1>2 DEF Instant, Now

(***************************************************************************)
(* What is in the log and among the states stays there.                    *)
(***************************************************************************)
LEMMA TakeAppends ==
  ASSUME Shape, NEW e \in Event, Take(e)
  PROVE  /\ Len(log') = Len(log) + 1 /\ Instant' = Instant + 1
         /\ \A i \in 1..Len(log) : log'[i] = log[i]
         /\ log'[Len(log) + 1] = e
         /\ \A i \in 1..Instant : states'[i] = states[i]
         /\ states'[Instant + 1] = Apply(Now, e) /\ Now' = Apply(Now, e)
         /\ log' \in Seq(Event) /\ states' \in Seq(State)
<1>1. log \in Seq(Event) /\ states \in Seq(State) /\ Now \in State
  BY Instants DEF Shape
<1>2. Apply(Now, e) \in State
  BY <1>1, ApplyType
<1>3. /\ Len(log') = Len(log) + 1 /\ log' \in Seq(Event)
      /\ \A i \in 1..Len(log) : log'[i] = log[i]
      /\ log'[Len(log) + 1] = e
  BY <1>1, AppendProperties DEF Take
<1>4. /\ Len(states') = Len(states) + 1 /\ states' \in Seq(State)
      /\ \A i \in 1..Len(states) : states'[i] = states[i]
      /\ states'[Len(states) + 1] = Apply(Now, e)
  BY <1>1, <1>2, AppendProperties DEF Take
<1> QED BY <1>3, <1>4 DEF Instant, Now

LEMMA GrownKeeps ==
  ASSUME Shape, Grown
  PROVE  /\ Instant' \in Nat /\ Len(log') \in Nat
         /\ Instant <= Instant' /\ Len(log) <= Len(log')
         /\ \A i \in 1..Len(log) : log'[i] = log[i]
         /\ \A i \in 1..Instant : states'[i] = states[i]
<1>1. CASE UNCHANGED <<log, states>>
  BY <1>1, Instants DEF Instant
<1>2. CASE \E e \in Event : Fresh(e) /\ Take(e)
  BY <1>2, Instants, TakeAppends
<1> QED BY <1>1, <1>2 DEF Grown

(***************************************************************************)
(* A block that an event does not delete stays.                            *)
(***************************************************************************)
LEMMA ApplyKeeps ==
  ASSUME NEW s \in State, NEW e \in Event, NEW b \in Block,
         Exists(s, b), ~(e.cap = "core.delete" /\ e.entity = b)
  PROVE  Exists(Apply(s, e), b)
<1> DEFINE t == Tick(s, e.ts)
<1>1. t \in State /\ t.blocks = s.blocks
  <2>1. e.ts \in Clock
    BY DEF Event
  <2> QED BY <2>1, TickType DEF Tick, State
<1> HIDE DEF t
<1>2. t.blocks \in [Block -> BlockRec \cup {None}] /\ t.blocks[b] \in BlockRec
  BY <1>1, StateFields DEF Exists
<1>3. \A rec \in BlockRec : rec # None
  BY NoBlockAssumption
<1>4. CASE e.cap = "core.create"
  <2>1. Apply(s, e) = PutBlock(t, e.entity, e.value) /\ e.value \in BlockRec
    BY <1>4 DEF Apply, t, Event, ValuesOf
  <2>2. Apply(s, e).blocks = [t.blocks EXCEPT ![e.entity] = e.value]
    BY <1>1, <2>1 DEF PutBlock, State
  <2> QED BY <1>2, <1>3, <2>1, <2>2 DEF Exists
<1>5. CASE e.cap = "core.delete"
  <2>1. Apply(s, e) = DeleteBlock(t, e.entity) /\ e.entity # b
    BY <1>5 DEF Apply, t
  <2>2. Apply(s, e).blocks[b] \in {t.blocks[b],
                                   [t.blocks[b] EXCEPT !.children = @ \ {e.entity}]}
    BY <1>1, <2>1 DEF DeleteBlock, Exists, State
  <2>3. [t.blocks[b] EXCEPT !.children = @ \ {e.entity}] \in BlockRec
    BY <1>2 DEF BlockRec
  <2> QED BY <1>2, <1>3, <2>2, <2>3 DEF Exists
<1>6. CASE e.cap = "core.write"
  <2>1. Apply(s, e) = Rename(t, e.entity, e.value.name) /\ e.value.name \in Text
    BY <1>6 DEF Apply, t, Event, ValuesOf
  <2>2. Apply(s, e).blocks[b] \in
          {t.blocks[b], [t.blocks[b] EXCEPT !.name = e.value.name]}
    BY <1>1, <1>2, <2>1 DEF Rename, State, Exists
  <2>3. [t.blocks[b] EXCEPT !.name = e.value.name] \in BlockRec
    BY <1>2, <2>1 DEF BlockRec
  <2> QED BY <1>2, <1>3, <2>2, <2>3 DEF Exists
<1>7. CASE e.cap \in {"document.write", "task.write"}
  <2> DEFINE over == Overlay(t.blocks[b].contents, e.value.contents)
  <2>1. /\ Apply(s, e) = WriteContents(t, e.entity, e.value.contents)
        /\ e.value.contents \in Contents
    BY <1>7 DEF Apply, t, Event, ValuesOf
  <2>2. Apply(s, e).blocks[b] \in {t.blocks[b], [t.blocks[b] EXCEPT !.contents = over]}
    BY <1>1, <1>2, <2>1 DEF WriteContents, State, Exists
  <2>3. over \in Contents
    BY <1>2, <2>1, BlockFields, OverlayType
  <2> HIDE DEF over
  <2>4. [t.blocks[b] EXCEPT !.contents = over] \in BlockRec
    BY <1>2, <2>3 DEF BlockRec
  <2> QED BY <1>2, <1>3, <2>2, <2>4 DEF Exists
<1>8. CASE e.cap \in {"core.link", "core.unlink"}
  <2> DEFINE kids == e.value.children
  <2>1. /\ Apply(s, e) \in {Relink(t, e.entity, kids), Unlink(t, e.entity, kids)}
        /\ kids \in SUBSET Block
    BY <1>8 DEF Apply, t, Event, ValuesOf
  <2> HIDE DEF kids
  <2>2. Apply(s, e).blocks[b] \in {t.blocks[b], [t.blocks[b] EXCEPT !.children = kids]}
    <3>1. CASE Apply(s, e) = Relink(t, e.entity, kids)
      BY <1>1, <1>2, <3>1 DEF Relink, State, Exists
    <3>2. CASE Apply(s, e) = Unlink(t, e.entity, kids)
      BY <1>1, <1>2, <3>2 DEF Unlink, State, Exists
    <3> QED BY <2>1, <3>1, <3>2
  <2>3. [t.blocks[b] EXCEPT !.children = kids] \in BlockRec
    BY <1>2, <2>1 DEF BlockRec
  <2> QED BY <1>2, <1>3, <2>2, <2>3 DEF Exists
<1>9. CASE e.cap \notin {"core.create", "core.delete", "core.write", "document.write",
                         "task.write", "core.link", "core.unlink"}
  <2>1. Apply(s, e) \in {AddGrant(t, e.value), RemoveGrant(t, e.value),
                         PutEditor(t, e.value.editor), DeleteEditor(t, e.entity), t}
    BY <1>9, Zenon DEF Apply, t
  <2>2. Apply(s, e).blocks[b] = t.blocks[b]
    BY <1>1, <2>1 DEF AddGrant, RemoveGrant, PutEditor, DeleteEditor, State
  <2> QED BY <1>2, <1>3, <2>2 DEF Exists
<1> QED BY <1>4, <1>5, <1>6, <1>7, <1>8, <1>9

(***************************************************************************)
(* A step of the engine preserves Engine.                                  *)
(***************************************************************************)
LEMMA EngineTake ==
  ASSUME Engine, NEW e \in Event, Fresh(e), Take(e)
  PROVE  Engine'
<1>1. Shape /\ Known /\ OwnersStay
  BY DEF Engine
<1>2. /\ Len(log) \in Nat /\ Instant = Len(log) + 1 /\ Len(states) = Len(log) + 1
      /\ Now \in State /\ \A i \in 1..Instant : states[i] \in State
      /\ Now = states[Instant]
  BY <1>1, Instants DEF Instant, Now
<1>3. /\ Len(log') = Len(log) + 1 /\ Len(states') = Len(states) + 1
      /\ \A i \in 1..Len(log) : log'[i] = log[i]
      /\ log'[Len(log) + 1] = e
      /\ \A i \in 1..Instant : states'[i] = states[i]
      /\ states'[Instant + 1] = Apply(Now, e)
      /\ log' \in Seq(Event) /\ states' \in Seq(State)
  BY <1>1, TakeAppends DEF Instant
<1>4. Shape'
  <2>1. states'[1] = Empty
    BY <1>1, <1>2, <1>3 DEF Shape
  <2>2. ASSUME NEW i \in 1..Len(log') PROVE states'[i + 1] = Apply(states'[i], log'[i])
    <3>1. CASE i \in 1..Len(log)
      BY <1>1, <1>2, <1>3, <3>1 DEF Shape
    <3>2. CASE i = Len(log) + 1
      BY <1>2, <1>3, <3>2
    <3> QED BY <1>2, <1>3, <3>1, <3>2
  <2>3. Len(Seed) <= Len(log')
    BY <1>1, <1>2, <1>3, SeedAssumption, LenProperties DEF Shape
  <2> QED BY <1>1, <1>3, <2>1, <2>2, <2>3 DEF Shape
<1>5. ASSUME NEW b \in Block, Exists(Apply(Now, e), b)
      PROVE  e.entity = b \/ \E k \in 1..Len(log) : log[k].entity = b
  <2>1. Exists(Now, b) \/ e.entity = b
    BY <1>2, <1>5, ApplyExists
  <2>2. Instant \in 1..Len(states)
    BY <1>2
  <2> QED BY <1>1, <1>2, <2>1, <2>2 DEF Known
<1>6. Known'
  <2> SUFFICES ASSUME NEW i \in 1..Len(states'), NEW b \in Block, Exists(states'[i], b)
               PROVE  \E k \in 1..Len(log') : log'[k].entity = b
    BY DEF Known, Exists
  <2>1. CASE i \in 1..Instant
    <3>1. Exists(states[i], b) /\ i \in 1..Len(states)
      BY <1>2, <1>3, <2>1
    <3>2. PICK k \in 1..Len(log) : log[k].entity = b
      BY <1>1, <3>1 DEF Known
    <3> QED BY <1>2, <1>3, <3>2
  <2>2. CASE i = Instant + 1
    <3>1. e.entity = b \/ \E k \in 1..Len(log) : log[k].entity = b
      BY <1>3, <1>5, <2>2
    <3> QED BY <1>2, <1>3, <3>1
  <2> QED BY <1>2, <1>3, <2>1, <2>2
<1>7. ASSUME NEW b \in Block, NEW i \in (Len(Seed) + 1)..Instant,
             Exists(states[i], b), Exists(Apply(Now, e), b)
      PROVE  Apply(Now, e).blocks[b].owner = states[i].blocks[b].owner
  <2>1. Len(Seed) \in Nat
    BY SeedAssumption, LenProperties
  <2>2. i \in 1..Len(states)
    BY <1>2, <2>1
  <2>3. PICK k \in 1..Len(log) : log[k].entity = b
    BY <1>1, <1>7, <2>2 DEF Known
  <2>4. b \in Mentioned
    BY <2>3 DEF Mentioned
  <2>5. ~(e.cap = "core.create" /\ e.entity = b)
    BY <2>4 DEF Fresh
  <2>6. Exists(Now, b) /\ Apply(Now, e).blocks[b].owner = Now.blocks[b].owner
    BY <1>2, <1>7, <2>5, ApplyOwner
  <2>7. Instant \in (Len(Seed) + 1)..Len(states) /\ i \in (Len(Seed) + 1)..Len(states)
    BY <1>2, <2>1
  <2> QED BY <1>1, <1>2, <1>7, <2>6, <2>7 DEF OwnersStay
<1>8. OwnersStay'
  <2> SUFFICES ASSUME NEW i \in (Len(Seed) + 1)..Len(states'),
                      NEW j \in (Len(Seed) + 1)..Len(states'), NEW b \in Block,
                      Exists(states'[i], b), Exists(states'[j], b)
               PROVE  states'[i].blocks[b].owner = states'[j].blocks[b].owner
    BY DEF OwnersStay, Exists
  <2>1. Len(Seed) \in Nat
    BY SeedAssumption, LenProperties
  <2>2. /\ i = Instant + 1 \/ (i \in (Len(Seed) + 1)..Instant /\ i \in 1..Instant)
        /\ j = Instant + 1 \/ (j \in (Len(Seed) + 1)..Instant /\ j \in 1..Instant)
    BY <1>2, <1>3, <2>1
  <2>3. CASE i = Instant + 1 /\ j = Instant + 1
    BY <2>3
  <2>4. CASE i = Instant + 1 /\ j \in (Len(Seed) + 1)..Instant /\ j \in 1..Instant
    BY <1>3, <1>7, <2>4
  <2>5. CASE j = Instant + 1 /\ i \in (Len(Seed) + 1)..Instant /\ i \in 1..Instant
    BY <1>3, <1>7, <2>5
  <2>6. CASE /\ i \in (Len(Seed) + 1)..Instant /\ i \in 1..Instant
             /\ j \in (Len(Seed) + 1)..Instant /\ j \in 1..Instant
    BY <1>1, <1>2, <1>3, <2>6 DEF OwnersStay
  <2> QED BY <2>2, <2>3, <2>4, <2>5, <2>6
<1> QED BY <1>4, <1>6, <1>8 DEF Engine

LEMMA EngineGrown ==
  ASSUME Engine, Grown
  PROVE  Engine'
<1>1. CASE UNCHANGED <<log, states>>
  BY <1>1 DEF Engine, Shape, Known, OwnersStay, Exists
<1>2. CASE \E e \in Event : Fresh(e) /\ Take(e)
  BY <1>2, EngineTake
<1> QED BY <1>1, <1>2 DEF Grown

(***************************************************************************)
(* Before the first message the engine has replayed the seed.              *)
(***************************************************************************)
LEMMA SeedKnown ==
  ASSUME NEW b \in Block
  PROVE  \A i \in 0..Len(Seed) : Exists(History(Seed)[i], b) =>
            \E k \in 1..Len(Seed) : Seed[k].entity = b
<1>1. /\ Len(Seed) \in Nat /\ \A i \in 1..Len(Seed) : Seed[i] \in Event
      /\ \A i \in 0..Len(Seed) : History(Seed)[i] \in State
      /\ History(Seed)[0] = Empty
      /\ \A i \in 1..Len(Seed) : History(Seed)[i] = Apply(History(Seed)[i - 1], Seed[i])
  BY SeedAssumption, LenProperties, ElementOfSeq, HistoryType, HistoryEquations
<1> SUFFICES ASSUME \A k \in 1..Len(Seed) : Seed[k].entity # b
             PROVE  \A i \in 0..Len(Seed) : ~Exists(History(Seed)[i], b)
  OBVIOUS
<1> DEFINE T == {i \in 0..Len(Seed) : Exists(History(Seed)[i], b)}
<1>2. SUFFICES ASSUME T # {} PROVE FALSE
  OBVIOUS
<1>3. PICK i \in T : \A j \in T : i <= j
  <2>1. T \in SUBSET Nat
    BY <1>1
  <2> QED BY <1>2, <2>1, LeastNat
<1>4. i # 0
  BY <1>1, <1>3 DEF Empty, Exists
<1>5. i \in 1..Len(Seed) /\ i - 1 \in 0..Len(Seed) /\ i - 1 \notin T
  BY <1>1, <1>3, <1>4
<1>6. Exists(Apply(History(Seed)[i - 1], Seed[i]), b) /\ ~Exists(History(Seed)[i - 1], b)
  BY <1>1, <1>3, <1>5
<1>7. Seed[i].entity = b
  BY <1>1, <1>5, <1>6, ApplyExists
<1> QED BY <1>5, <1>7

LEMMA EngineInit ==
  ASSUME Init
  PROVE  Engine
<1>1. /\ Len(Seed) \in Nat /\ Seed \in Seq(Event)
      /\ \A i \in 0..Len(Seed) : History(Seed)[i] \in State
      /\ History(Seed)[0] = Empty
      /\ \A i \in 1..Len(Seed) : History(Seed)[i] = Apply(History(Seed)[i - 1], Seed[i])
  BY SeedAssumption, LenProperties, HistoryType, HistoryEquations
<1>2. log = Seed /\ states = [i \in 1..(Len(Seed) + 1) |-> History(Seed)[i - 1]]
  BY DEF Init
<1>3. /\ states \in Seq(State) /\ Len(states) = Len(Seed) + 1
      /\ \A i \in 1..Len(states) : states[i] = History(Seed)[i - 1]
  BY <1>1, <1>2
<1>4. Shape
  <2>1. states[1] = Empty
    BY <1>1, <1>3
  <2>2. ASSUME NEW i \in 1..Len(log) PROVE states[i + 1] = Apply(states[i], log[i])
    BY <1>1, <1>2, <1>3
  <2> QED BY <1>1, <1>2, <1>3, <2>1, <2>2 DEF Shape
<1>5. Known
  <2> SUFFICES ASSUME NEW i \in 1..Len(states), NEW b \in Block, Exists(states[i], b)
               PROVE  \E k \in 1..Len(log) : log[k].entity = b
    BY DEF Known
  <2>1. i - 1 \in 0..Len(Seed) /\ states[i] = History(Seed)[i - 1]
    BY <1>1, <1>3
  <2> QED BY <1>2, <2>1, SeedKnown
<1>6. OwnersStay
  BY <1>1, <1>3 DEF OwnersStay
<1> QED BY <1>4, <1>5, <1>6 DEF Engine

-----------------------------------------------------------------------------
(***************************************************************************)
(* What a command commits.                                                 *)
(***************************************************************************)
LEMMA OutcomesAre ==
  ASSUME Shape, NEW c, IsCommand(c), NEW e \in Outcomes(c)
  PROVE  /\ e \in Event /\ Fresh(e) /\ e.cap = c.cap
         /\ c.cap = "core.create" => e.entity \in Block /\ e.value.owner = c.by
         /\ c.cap = "core.write" => e.entity = c.block
<1>1. PICK fresh \in FreshFor(c) : e \in Outcome(Now, c, fresh, Len(log) + 1)
  BY DEF Outcomes
<1>2. Now \in State /\ Len(log) + 1 \in Nat
  BY Instants
<1>3. c.cap = "core.create" => fresh \in Block \ Mentioned
  BY DEF FreshFor
<1>4. e \in Event
  BY <1>1, <1>2, <1>3, OutcomeType
<1>5. PICK body \in Handler(Now, c, fresh) :
        e = [id |-> Len(log) + 1, by |-> c.by, cap |-> c.cap,
             entity |-> body.entity, value |-> body.value, ts |-> Stamp(Now, c.by)]
  BY <1>1 DEF Outcome
<1>6. e.cap = c.cap /\ e.entity = body.entity /\ e.value = body.value
  BY <1>5
<1>7. ASSUME c.cap = "core.create"
      PROVE  e.entity = fresh /\ e.value.owner = c.by
  BY <1>6, <1>7 DEF Handler, HandleCreate, Emit, NewBlock
<1>8. ASSUME c.cap = "core.write"
      PROVE  e.entity = c.block
  BY <1>6, <1>8 DEF Handler, HandleWrite, Emit
<1> QED BY <1>3, <1>4, <1>6, <1>7, <1>8 DEF Fresh

\* The owner of a block may rename it.
LEMMA OwnerMayRename ==
  ASSUME NEW b \in Block, NEW ed \in Editor, NEW name \in Text,
         OwnedBy(Now, b, ed), "core.write" \in Registered
  PROVE  Outcomes(RenameBlock(ed, b, name)) # {}
<1> DEFINE c == RenameBlock(ed, b, name)
<1>1. c.by = ed /\ c.cap = "core.write" /\ c.block = b
  BY DEF RenameBlock, Command
<1> HIDE DEF c
<1>2. Admitted(Now, c)
  BY <1>1 DEF Admitted, Certified, NoTarget, SystemLevel, NoCycle, OwnedBy
<1>3. PICK body : body \in Handler(Now, c, None)
  BY <1>1 DEF Handler, HandleWrite, Emit
<1>4. Outcome(Now, c, None, Len(log) + 1) # {}
  BY <1>2, <1>3 DEF Outcome
<1>5. FreshFor(c) = {None}
  BY <1>1 DEF FreshFor
<1> QED BY <1>4, <1>5 DEF Outcomes, c

LEMMA CommandsOfServices ==
  ASSUME NEW r \in Calls
  PROVE  /\ IsCommand(NewTask(r.by, r.arg.name))
         /\ \A b \in Block : IsCommand(RenameBlock(r.by, b, r.arg.description))
         /\ r.by \in Editor /\ r.block \in Block /\ r.arg.description \in Text
<1>1. r.by \in Editor /\ r.block \in Block /\ r.arg.name \in Text /\ r.arg.description \in Text
  BY CallsAssumption DEF IsCall
<1>2. Blank \in Contents
  BY DEF Blank, Contents
<1> HIDE DEF Blank
<1>3. IsCommand(NewTask(r.by, r.arg.name))
  BY <1>1, <1>2 DEF NewTask, Command, IsCommand, BlockType
<1>4. ASSUME NEW b \in Block PROVE IsCommand(RenameBlock(r.by, b, r.arg.description))
  BY <1>1 DEF RenameBlock, Command, IsCommand
<1> QED BY <1>1, <1>3, <1>4

-----------------------------------------------------------------------------
(***************************************************************************)
(* While others are served, what the call carries and what it answered     *)
(* stay true.                                                              *)
(***************************************************************************)
LEMMA OwnedKept ==
  ASSUME Engine, NEW e \in Event, Fresh(e), Take(e), NEW b \in Block, NEW ed,
         OwnedBy(Now, b, ed), ~(e.cap = "core.delete" /\ e.entity = b)
  PROVE  OwnedBy(Now', b, ed)
<1>1. Shape /\ Known
  BY DEF Engine
<1>2. Now \in State /\ Now' = Apply(Now, e)
  BY <1>1, Instants, TakeAppends
<1>3. Exists(Now, b) /\ Now.blocks[b].owner = ed
  BY DEF OwnedBy
<1>4. Exists(Apply(Now, e), b)
  BY <1>2, <1>3, ApplyKeeps
<1>5. Instant \in 1..Len(states) /\ Now = states[Instant]
  BY <1>1, Instants DEF Now, Instant
<1>6. b \in Mentioned
  <2>1. PICK k \in 1..Len(log) : log[k].entity = b
    BY <1>1, <1>3, <1>5 DEF Known
  <2> QED BY <2>1 DEF Mentioned
<1>7. ~(e.cap = "core.create" /\ e.entity = b)
  BY <1>6 DEF Fresh
<1>8. Apply(Now, e).blocks[b].owner = Now.blocks[b].owner
  BY <1>2, <1>4, <1>7, ApplyOwner
<1> QED BY <1>2, <1>3, <1>4, <1>8 DEF OwnedBy

LEMMA DescribingKept ==
  ASSUME Engine, Grown, Describing, call' = call, call.from \in 1..Instant
  PROVE  Describing'
<1>1. Shape
  BY DEF Engine
<1>2. /\ Len(log) \in Nat /\ Instant = Len(log) + 1 /\ Instant \in Nat
      /\ Len(log') \in Nat /\ Len(log) <= Len(log')
      /\ \A i \in 1..Len(log) : log'[i] = log[i]
  BY <1>1, Instants, GrownKeeps
<1>3. Req' = Req /\ call'.blocks = call.blocks /\ call'.from = call.from
  BY DEF Req
<1>4. call.blocks \in Block /\ Req.op = "create_task"
  BY DEF Describing
<1>5. CASE Deleted(call.blocks)
  <2>1. PICK i \in call.from..Len(log) :
           log[i].entity = call.blocks /\ log[i].cap = "core.delete"
    BY <1>5 DEF Deleted
  <2>2. i \in call.from..Len(log') /\ log'[i] = log[i]
    BY <1>2, <2>1
  <2>3. Deleted(call.blocks)'
    BY <1>3, <2>1, <2>2 DEF Deleted
  <2> QED BY <1>3, <1>4, <2>3 DEF Describing
<1>6. CASE OwnedBy(Now, call.blocks, Req.by) /\ UNCHANGED <<log, states>>
  <2>1. Now' = Now
    BY <1>6 DEF Now
  <2> QED BY <1>3, <1>4, <1>6, <2>1 DEF Describing, OwnedBy, Exists
<1>7. CASE /\ OwnedBy(Now, call.blocks, Req.by)
           /\ \E e \in Event : Fresh(e) /\ Take(e)
  <2>1. PICK e \in Event : Fresh(e) /\ Take(e)
    BY <1>7
  <2>2. CASE e.cap = "core.delete" /\ e.entity = call.blocks
    <3>1. Len(log') = Len(log) + 1 /\ log'[Len(log) + 1] = e
      BY <1>1, <2>1, TakeAppends
    <3>2. Len(log) + 1 \in call.from..Len(log')
      BY <1>2, <3>1
    <3>3. Deleted(call.blocks)'
      BY <1>3, <2>2, <3>1, <3>2 DEF Deleted
    <3> QED BY <1>3, <1>4, <3>3 DEF Describing
  <2>3. CASE ~(e.cap = "core.delete" /\ e.entity = call.blocks)
    <3>1. OwnedBy(Now', call.blocks, Req.by)
      BY <1>4, <1>7, <2>1, <2>3, OwnedKept
    <3>2. OwnedBy(Now, call.blocks, Req.by)'
      BY <1>3, <3>1 DEF OwnedBy, Exists
    <3> QED BY <1>3, <1>4, <3>2 DEF Describing
  <2> QED BY <2>2, <2>3
<1> QED BY <1>5, <1>6, <1>7 DEF Describing, Grown

\* What is sifted from a prefix of the log stays so.
LEMMA SiftedKept ==
  ASSUME NEW p \in Nat, Sifted(call.kept, p), \A i \in 1..p : log'[i] = log[i],
         call'.kept = call.kept
  PROVE  Sifted(call.kept, p)'
BY DEF Sifted, Public

LEMMA CarriedKept ==
  ASSUME Engine, Underway, Grown, call' = call, up' => up
  PROVE  Underway'
<1>1. Shape /\ Len(Seed) \in Nat
  BY SeedAssumption, LenProperties DEF Engine
<1>2. /\ Len(log) \in Nat /\ Instant = Len(log) + 1 /\ Instant \in Nat
      /\ Len(log') \in Nat /\ Len(log) <= Len(log')
      /\ \A i \in 1..Len(log) : log'[i] = log[i]
      /\ Instant' \in Nat /\ Instant <= Instant'
      /\ \A i \in 1..Instant : states'[i] = states[i]
  BY <1>1, Instants, GrownKeeps
<1>3. Req' = Req
  BY DEF Req
<1>4. ASSUME call.at # "idle"
      PROVE  /\ call.from \in 1..Instant
             /\ \A i \in Since : i \in Since' /\ i \in 1..Instant /\ states'[i] = states[i]
  <2>1. Req # None /\ call.from \in (Len(Seed) + 1)..Instant
    BY <1>4, CallsAssumption DEF Underway
  <2> QED BY <1>1, <1>2, <2>1 DEF Since
<1>5. call'.at = "check" => Checking'
  <2> SUFFICES ASSUME call.at = "check" PROVE Checking'
    OBVIOUS
  <2>1. Checking
    BY DEF Underway
  <2>2. PICK i \in Since : call.blocks = states[i].blocks[Req.block]
    BY <2>1 DEF Checking
  <2>3. i \in Since' /\ states'[i] = states[i]
    BY <1>4, <2>2
  <2>4. call'.blocks = states'[i].blocks[Req'.block]
    BY <1>3, <2>2, <2>3
  <2> QED BY <1>3, <2>1, <2>3, <2>4 DEF Checking
<1>6. call'.at = "events" => Fetching'
  <2> SUFFICES ASSUME call.at = "events" PROVE Fetching'
    OBVIOUS
  <2>1. Fetching
    BY DEF Underway
  <2>2. PICK i \in Since, type \in BlockType : MayRead(states[i], Req.by, Req.block, type)
    BY <2>1 DEF Fetching
  <2>3. i \in Since' /\ states'[i] = states[i]
    BY <1>4, <2>2
  <2>4. MayRead(states'[i], Req'.by, Req'.block, type)
    BY <1>3, <2>2, <2>3
  <2>5. (\E k \in Since, t \in BlockType : MayRead(states[k], Req.by, Req.block, t))'
    BY <2>3, <2>4 DEF MayRead, Granted, HasGrant, Exists
  <2> QED BY <1>3, <2>1, <2>5 DEF Fetching
<1>7. call'.at = "list" => Listing'
  <2> SUFFICES ASSUME call.at = "list", Req.op = "list_blocks"
               PROVE  \/ ~up' /\ call'.blocks = Empty.blocks
                      \/ \E i \in Since' : call'.blocks = states'[i].blocks
    BY <1>3 DEF Listing
  <2>1. Listing
    BY DEF Underway
  <2>2. CASE ~up /\ call.blocks = Empty.blocks
    BY <2>2
  <2>3. CASE \E i \in Since : call.blocks = states[i].blocks
    BY <1>4, <2>3
  <2> QED BY <2>1, <2>2, <2>3 DEF Listing
<1>8. call'.at = "travel" => Traveling'
  <2> SUFFICES ASSUME call.at = "travel" PROVE Traveling'
    OBVIOUS
  <2>1. PICK n \in 0..Len(log) : call.events = SubSeq(log, 1, n)
    BY DEF Underway, Traveling
  <2>2. n \in 0..Len(log')
    BY <1>2
  <2>3. SubSeq(log', 1, n) = SubSeq(log, 1, n)
    BY <1>2
  <2> QED BY <1>3, <2>1, <2>2, <2>3 DEF Underway, Traveling
<1>9. call'.at = "depart" => Departing'
  <2> SUFFICES ASSUME call.at = "depart" PROVE Departing'
    OBVIOUS
  <2>1. Departing
    BY DEF Underway
  <2>2. PICK i \in 1..Instant : /\ call.blocks = states[i].blocks[Req.block]
                                /\ call.grants = states[i].grants
    BY <2>1 DEF Departing
  <2>3. i \in 1..Instant' /\ states'[i] = states[i]
    BY <1>2, <2>2
  <2> QED BY <1>3, <2>1, <2>2, <2>3 DEF Departing
<1>10. call'.at = "describe" => Describing'
  BY <1>4, DescribingKept DEF Underway
<1>11. call'.at \in {"types", "filter"} => Filtering'
  <2> SUFFICES ASSUME call.at \in {"types", "filter"} PROVE Filtering'
    OBVIOUS
  <2>1. Filtering
    BY DEF Underway
  <2>2. PICK n \in Since, p \in Nat : /\ p < n
                                      /\ call.events = SubSeq(log, p + 1, n - 1)
                                      /\ Sifted(call.kept, p)
    BY <2>1 DEF Filtering
  <2>3. n \in Since' /\ n \in 1..Instant
    BY <1>4, <2>2
  <2>4. SubSeq(log', p + 1, n - 1) = SubSeq(log, p + 1, n - 1)
    BY <1>2, <2>2, <2>3
  <2>5. Sifted(call.kept, p)'
    BY <1>2, <2>2, <2>3, SiftedKept
  <2>6. ASSUME NEW k \in 1..Len(call.kept)
        PROVE  \/ Public(call.kept[k])
               \/ \E j \in Since', type \in BlockType :
                     MayRead(states'[j], Req'.by, call.kept[k].entity, type)
    BY <1>3, <1>4, <2>1 DEF Filtering
  <2> QED BY <1>3, <2>1, <2>2, <2>3, <2>4, <2>5, <2>6
          DEF Filtering, MayRead, Granted, HasGrant, Exists, Public
<1>12. /\ IsRecord' /\ call'.at \in Stages
       /\ call'.at # "idle" => Req' \in Calls
       /\ call'.at = "begin" => call'.kept = <<>>
  BY <1>3 DEF Underway, IsRecord
<1>13. Req' = None \/ (Req' \in Calls /\ call'.from \in (Len(Seed) + 1)..Instant')
  BY <1>1, <1>2, <1>3 DEF Underway
<1>14. call'.at = "idle" /\ Req' # None => call'.till \in Since'
  BY <1>1, <1>2, <1>3 DEF Underway, Since
<1> QED BY <1>5, <1>6, <1>7, <1>8, <1>9, <1>10, <1>11, <1>12, <1>13, <1>14
         DEF Underway

LEMMA AnswersKept ==
  ASSUME Engine, Underway, Answers, Grown, call' = call, up' => up
  PROVE  Answers'
<1>1. Shape /\ Len(Seed) \in Nat
  BY SeedAssumption, LenProperties DEF Engine
<1>2. /\ Len(log) \in Nat /\ Instant = Len(log) + 1 /\ Instant \in Nat
      /\ Len(log') \in Nat /\ Len(log) <= Len(log')
      /\ \A i \in 1..Len(log) : log'[i] = log[i]
      /\ \A i \in 1..Instant : states'[i] = states[i]
  BY <1>1, Instants, GrownKeeps
<1>3. Req' = Req /\ \A op, kind : Answered(op, kind)' = Answered(op, kind)
  BY DEF Req, Answered
<1>4. ASSUME NEW op, NEW kind, Answered(op, kind)
      PROVE  \A i \in During : i \in During' /\ i \in 1..Instant /\ states'[i] = states[i]
  <2>1. call.from \in (Len(Seed) + 1)..Instant /\ call.till \in call.from..Instant
    BY <1>4 DEF Answered, Underway, Since, Req
  <2> QED BY <1>1, <1>2, <2>1 DEF During
<1>5. ReadsArePermitted'
  <2> SUFFICES ASSUME Answered(BlockReads, "block") PROVE ReadsArePermitted'
    BY <1>3 DEF ReadsArePermitted
  <2>1. PICK i, j \in During :
           /\ i <= j
           /\ states[i].blocks[Req.block] = call.result.value
           /\ MayRead(states[j], Req.by, Req.block, call.result.value.type)
    BY DEF Answers, ReadsArePermitted
  <2>2. /\ i \in During' /\ j \in During'
        /\ states'[i] = states[i] /\ states'[j] = states[j]
    BY <1>4, <2>1
  <2>3. /\ states'[i].blocks[Req'.block] = call'.result.value
        /\ MayRead(states'[j], Req'.by, Req'.block, call'.result.value.type)
    BY <1>3, <2>1, <2>2
  <2> QED BY <2>1, <2>2, <2>3
          DEF ReadsArePermitted, MayRead, Granted, HasGrant, Exists
<1>6. HistoryIsWhole'
  <2> SUFFICES ASSUME Answered({"get_block_history"}, "events") PROVE HistoryIsWhole'
    BY <1>3 DEF HistoryIsWhole
  <2>1. PICK i, j \in During :
           /\ i <= j
           /\ call.result.value = About(SubSeq(log, 1, j - 1), Req.block)
           /\ \E type \in BlockType : MayRead(states[i], Req.by, Req.block, type)
    BY DEF Answers, HistoryIsWhole
  <2>2. /\ i \in During' /\ j \in During' /\ j \in 1..Instant
        /\ states'[i] = states[i]
    BY <1>4, <2>1
  <2>3. SubSeq(log', 1, j - 1) = SubSeq(log, 1, j - 1)
    BY <1>2, <2>2
  <2>4. PICK type \in BlockType : MayRead(states[i], Req.by, Req.block, type)
    BY <2>1
  <2>5. /\ call'.result.value = About(SubSeq(log', 1, j - 1), Req'.block)
        /\ MayRead(states'[i], Req'.by, Req'.block, type)
    BY <1>3, <2>1, <2>2, <2>3, <2>4
  <2> QED BY <2>1, <2>2, <2>4, <2>5
          DEF HistoryIsWhole, MayRead, Granted, HasGrant, Exists
<1>7. ListIsRight'
  <2> SUFFICES ASSUME Answered({"list_blocks"}, "blocks") PROVE ListIsRight'
    BY <1>3 DEF ListIsRight
  <2>1. ASSUME NEW b \in Block
        PROVE  /\ up /\ (\A i \in During : His(states[i], b)) => b \in DOMAIN call.result.value
               /\ b \in DOMAIN call.result.value =>
                    \E i, j \in During :
                       /\ i <= j
                       /\ states[i].blocks[b] = call.result.value[b]
                       /\ \/ states[i].blocks[b].owner = Req.by
                          \/ Reaches(states[j].grants, Req.by, b)
    BY DEF Answers, ListIsRight
  <2>2. ASSUME NEW b \in Block, up',
               \A i \in During' : /\ Exists(states'[i], b)
                                  /\ \/ states'[i].blocks[b].owner = Req'.by
                                     \/ Reaches(states'[i].grants, Req'.by, b)
        PROVE  b \in DOMAIN call.result.value
    <3>1. ASSUME NEW i \in During PROVE His(states[i], b)
      <4>1. i \in During' /\ states'[i] = states[i]
        BY <1>4
      <4> QED BY <1>3, <2>2, <4>1 DEF His
    <3> QED BY <2>1, <2>2, <3>1
  <2>3. ASSUME NEW b \in Block, b \in DOMAIN call.result.value
        PROVE  \E i, j \in During' :
                 /\ i <= j
                 /\ states'[i].blocks[b] = call.result.value[b]
                 /\ \/ states'[i].blocks[b].owner = Req'.by
                    \/ Reaches(states'[j].grants, Req'.by, b)
    <3>1. PICK i, j \in During :
                 /\ i <= j
                 /\ states[i].blocks[b] = call.result.value[b]
                 /\ \/ states[i].blocks[b].owner = Req.by
                    \/ Reaches(states[j].grants, Req.by, b)
      BY <2>1, <2>3
    <3>2. /\ i \in During' /\ j \in During'
          /\ states'[i] = states[i] /\ states'[j] = states[j]
      BY <1>4, <3>1
    <3> QED BY <1>3, <3>1, <3>2
  <2> QED BY <2>2, <2>3 DEF ListIsRight, His, Exists, Reaches, Own
<1>8. PastIsOneInstant'
  <2> SUFFICES ASSUME Answered({"get_state_at_event"}, "past") PROVE PastIsOneInstant'
    BY <1>3 DEF PastIsOneInstant
  <2>1. PICK i \in 1..Instant : /\ states[i].blocks[Req.block] = call.result.value.block
                                /\ states[i].grants = call.result.value.grants
    BY DEF Answers, PastIsOneInstant
  <2>2. PICK j \in During :
           MayRead(states[j], Req.by, Req.block, call.result.value.block.type)
    BY DEF Answers, PastIsOneInstant
  <2>3. i \in 1..Instant' /\ states'[i] = states[i]
    BY <1>1, <1>2, <2>1, GrownKeeps
  <2>4. j \in During' /\ states'[j] = states[j]
    BY <1>4, <2>2
  <2>5. \E k \in 1..Instant' : /\ states'[k].blocks[Req'.block] = call'.result.value.block
                               /\ states'[k].grants = call'.result.value.grants
    BY <1>3, <2>1, <2>3
  <2>6. MayRead(states'[j], Req'.by, Req'.block, call'.result.value.block.type)
    BY <1>3, <2>2, <2>4
  <2> QED BY <2>4, <2>5, <2>6 DEF PastIsOneInstant, MayRead, Granted, HasGrant, Exists
<1>9. ASSUME "core.write" \in Registered PROVE TasksAreDescribed'
  <2> SUFFICES ASSUME Answered({"create_task"}, "task"), up', ~call.lost
               PROVE  TasksAreDescribed'
    BY <1>3 DEF TasksAreDescribed
  <2>1. PICK i \in call.from..Len(log) : /\ log[i].entity = call.result.value
                                         /\ log[i].cap \in {"core.write", "core.delete"}
    BY <1>9 DEF Answers, TasksAreDescribed
  <2>2. call.from \in 1..Instant
    BY <1>1, <1>2 DEF Answered, Underway, Req
  <2>3. i \in call'.from..Len(log') /\ log'[i] = log[i]
    <3>1. i \in 1..Len(log) /\ i >= call.from
      BY <1>2, <2>1, <2>2
    <3> QED BY <1>2, <2>2, <3>1
  <2> QED BY <2>1, <2>3 DEF TasksAreDescribed
<1>10. EventListIsRight'
  <2> SUFFICES ASSUME Answered({"list_events"}, "events") PROVE EventListIsRight'
    BY <1>3 DEF EventListIsRight
  <2> DEFINE shown == call.result.value
  <2>1. PICK n \in During : Sifted(shown, n - 1)
    BY DEF Answers, EventListIsRight
  <2>2. n \in During' /\ n \in 1..Instant /\ n - 1 \in Nat
    BY <1>4, <2>1
  <2>3. \A i \in 1..(n - 1) : log'[i] = log[i]
    BY <1>2, <2>2
  <2>4. Sifted(call.result.value, n - 1)'
    <3> DEFINE m == n - 1
    <3>1. /\ call'.result.value = shown /\ \A i \in 1..m : log'[i] = log[i]
          /\ Sifted(shown, m)
      BY <2>1, <2>3
    <3> HIDE DEF shown, m
    <3>2. \A i \in 1..m : Public(log'[i]) => \E k \in 1..Len(shown) : shown[k] = log'[i]
      BY ONLY <3>1 DEF Sifted
    <3>3. \A k \in 1..Len(shown) : \E i \in 1..m : shown[k] = log'[i]
      BY ONLY <3>1 DEF Sifted
    <3>4. \A k, l \in 1..Len(shown) :
             k < l => \E i, j \in 1..m : i < j /\ shown[k] = log'[i] /\ shown[l] = log'[j]
      BY ONLY <3>1 DEF Sifted
    <3> QED BY ONLY <3>1, <3>2, <3>3, <3>4 DEF Sifted, Public, m
  <2>5. ASSUME NEW k \in 1..Len(shown), shown[k].entity \in Block
        PROVE  \E j \in During', type \in BlockType :
                  MayRead(states'[j], Req'.by, shown[k].entity, type)
    <3>1. \E j \in During, type \in BlockType :
             MayRead(states[j], Req.by, shown[k].entity, type)
      BY <2>5 DEF Answers, EventListIsRight
    <3> QED BY <1>3, <1>4, <3>1
  <2> QED BY <2>2, <2>4, <2>5, ZenonT(60)
          DEF EventListIsRight, MayRead, Granted, HasGrant, Exists, Public
<1> QED BY <1>5, <1>6, <1>7, <1>8, <1>9, <1>10 DEF Answers

-----------------------------------------------------------------------------
(***************************************************************************)
(* Answering.                                                              *)
(***************************************************************************)
Ends(kind, value) ==
    /\ IsRecord' /\ call'.at = "idle" /\ call'.req = call.req /\ call'.from = call.from
    /\ call'.till = Instant /\ call'.result = [kind |-> kind, value |-> value]

LEMMA Ended ==
  ASSUME Engine, Underway, call.at # "idle", Grown,
         NEW kind, NEW value, Ends(kind, value)
  PROVE  /\ Underway' /\ Req' = Req /\ call'.result.value = value
         /\ \A i \in Since : i \in During' /\ i \in 1..Instant /\ states'[i] = states[i]
         /\ Instant \in Since
         /\ \A op, k : Answered(op, k)' => Req.op \in op /\ k = kind
<1>1. Shape /\ Len(Seed) \in Nat
  BY SeedAssumption, LenProperties DEF Engine
<1>2. /\ Len(log) \in Nat /\ Instant = Len(log) + 1 /\ Instant \in Nat
      /\ Instant' \in Nat /\ Instant <= Instant'
      /\ \A i \in 1..Instant : states'[i] = states[i]
  BY <1>1, Instants, GrownKeeps
<1>3. /\ IsRecord' /\ Req' = Req /\ call'.at = "idle" /\ call'.from = call.from
      /\ call'.till = Instant /\ call'.result = [kind |-> kind, value |-> value]
  BY DEF Ends, Req
<1>4. Req \in Calls /\ Req # None /\ call.from \in (Len(Seed) + 1)..Instant
  BY CallsAssumption DEF Underway
<1>5. Instant \in Since /\ Since \subseteq 1..Instant /\ Instant \in Since'
  BY <1>1, <1>2, <1>3, <1>4 DEF Since
<1>6. During' = Since
  BY <1>3 DEF During, Since
<1>7. Underway'
  BY <1>1, <1>2, <1>3, <1>4, <1>5 DEF Underway, Stages
<1>8. ASSUME NEW op, NEW k, Answered(op, k)'
      PROVE  Req.op \in op /\ k = kind
  BY <1>3, <1>8 DEF Answered
<1> QED BY <1>2, <1>3, <1>5, <1>6, <1>7, <1>8

LEMMA Returned ==
  ASSUME Engine, Underway, call.at # "idle", Grown,
         NEW kind, NEW value, Return(kind, value)
  PROVE  /\ Underway' /\ Req' = Req /\ call'.result.value = value
         /\ \A i \in Since : i \in During' /\ i \in 1..Instant /\ states'[i] = states[i]
         /\ Instant \in Since
         /\ \A op, k : Answered(op, k)' => Req.op \in op /\ k = kind
<1>1. Ends(kind, value)
  BY DEF Underway, IsRecord, Return, Answer, Ends
<1> QED BY <1>1, Ended

\* The answers nothing is promised about.
Plain == {"missing", "type", "denied", "closed", "refused", "editors", "editor", "grants"}

LEMMA PlainAnswer ==
  ASSUME Engine, Underway, call.at # "idle", Grown,
         NEW kind \in Plain, NEW value, Return(kind, value)
  PROVE  Underway' /\ Answers'
<1>1. /\ Underway'
      /\ \A op, k : Answered(op, k)' => Req.op \in op /\ k = kind
  BY Returned
<1>2. /\ ~Answered(BlockReads, "block")' /\ ~Answered({"get_block_history"}, "events")'
      /\ ~Answered({"list_blocks"}, "blocks")' /\ ~Answered({"list_events"}, "events")'
      /\ ~Answered({"get_state_at_event"}, "past")' /\ ~Answered({"create_task"}, "task")'
  BY <1>1 DEF Plain
<1> QED BY <1>1, <1>2 DEF Answers, ReadsArePermitted, HistoryIsWhole, ListIsRight,
                          EventListIsRight, PastIsOneInstant, TasksAreDescribed

(***************************************************************************)
(* From one stage to the next.                                             *)
(***************************************************************************)
LEMMA Moved ==
  ASSUME Engine, Underway, call.at # "idle", Grown, IsRecord', Req' = Req,
         call'.from = call.from, call'.at \in Stages \ {"idle", "begin"},
         call'.at = "check" => Checking',
         call'.at = "events" => Fetching',
         call'.at = "list" => Listing',
         call'.at \in {"types", "filter"} => Filtering',
         call'.at = "travel" => Traveling',
         call'.at = "depart" => Departing',
         call'.at = "describe" => Describing'
  PROVE  Underway' /\ Answers'
<1>1. Shape /\ Len(Seed) \in Nat
  BY SeedAssumption, LenProperties DEF Engine
<1>2. Instant \in Nat /\ Instant' \in Nat /\ Instant <= Instant'
  BY <1>1, Instants, GrownKeeps
<1>3. Req \in Calls /\ Req # None /\ call.from \in (Len(Seed) + 1)..Instant
  BY CallsAssumption DEF Underway
<1>4. Underway'
  BY <1>1, <1>2, <1>3 DEF Underway
<1>5. \A op, kind : ~Answered(op, kind)'
  BY DEF Answered
<1> QED BY <1>4, <1>5 DEF Answers, ReadsArePermitted, HistoryIsWhole, ListIsRight,
                          EventListIsRight, PastIsOneInstant, TasksAreDescribed

-----------------------------------------------------------------------------
(***************************************************************************)
(* The messages, one by one.                                               *)
(***************************************************************************)
Quiet == UNCHANGED <<log, states, up>>

LEMMA FetchBlockStep ==
  ASSUME Engine, Underway, FetchBlock
  PROVE  Underway' /\ Answers'
<1> DEFINE rec == BlockOf(Req.block)
<1>1. /\ call.at # "idle" /\ Grown /\ Quiet /\ Req.op \in BlockReads
  BY DEF FetchBlock, Grown, Quiet
<1>2. \/ \E kind \in {"missing", "type"} : Return(kind, None)
      \/ rec # None /\ call' = [Goto("check") EXCEPT !.blocks = rec]
  <2>1. CASE rec = None
    BY <2>1 DEF FetchBlock
  <2>2. CASE rec # None /\ WrongType(rec)
    BY <2>2 DEF FetchBlock
  <2>3. CASE rec # None /\ ~WrongType(rec)
    BY <2>3 DEF FetchBlock
  <2> QED BY <2>1, <2>2, <2>3
<1>3. CASE \E kind \in {"missing", "type"} : Return(kind, None)
  BY <1>1, <1>3, PlainAnswer DEF Plain
<1>4. CASE rec # None /\ call' = [Goto("check") EXCEPT !.blocks = rec]
  <2>1. up /\ rec = Now.blocks[Req.block]
    BY <1>4 DEF BlockOf
  <2> HIDE DEF rec
  <2>2. /\ IsRecord' /\ Req' = Req /\ call'.from = call.from /\ call'.at = "check"
        /\ call'.blocks = rec
    BY <1>4 DEF Underway, IsRecord, Goto, Req
  <2>3. Req \in Calls /\ Req # None /\ call.from \in (Len(Seed) + 1)..Instant
    BY <1>1, CallsAssumption DEF Underway
  <2>4. Instant \in Nat /\ Instant >= 1 /\ Now \in State /\ Now = states[Instant]
    BY Instants DEF Engine, Now, Instant
  <2>5. rec \in BlockRec
    BY <1>4, <2>1, <2>3, <2>4, CommandsOfServices, StateFields
  <2>6. Instant' = Instant /\ states' = states /\ Instant \in Since'
    BY <1>1, <2>2, <2>3, <2>4 DEF Quiet, Instant, Since
  <2>7. call'.blocks = states'[Instant].blocks[Req'.block]
    BY <2>1, <2>2, <2>4, <2>6
  <2>8. Checking'
    BY <1>1, <2>2, <2>5, <2>6, <2>7 DEF Checking
  <2> QED BY <1>1, <2>2, <2>8, Moved DEF Stages
<1> QED BY <1>2, <1>3, <1>4

LEMMA CheckReadStep ==
  ASSUME Engine, Underway, CheckRead
  PROVE  Underway' /\ Answers'
<1> DEFINE type == call.blocks.type
<1>1. /\ call.at = "check" /\ Grown /\ Quiet
  BY DEF CheckRead, Grown, Quiet
<1>2. Checking /\ type \in BlockType
  BY <1>1, BlockFields DEF Underway, Checking
<1>3. Instant \in Nat /\ Instant >= 1 /\ Now = states[Instant]
  BY Instants DEF Engine, Now, Instant
<1>4. CASE ~CheckGrant(Req.by, ReadCap[type], Req.block)
  <2>1. Return("denied", None)
    BY <1>4 DEF CheckRead
  <2> QED BY <1>1, <2>1, PlainAnswer DEF Plain
<1>5. CASE CheckGrant(Req.by, ReadCap[type], Req.block) /\ Req.op = "get_block_history"
  <2>1. call' = Goto("events")
    BY <1>5 DEF CheckRead
  <2>2. /\ IsRecord' /\ Req' = Req /\ call'.from = call.from /\ call'.at = "events"
    BY <2>1 DEF Underway, IsRecord, Goto, Req
  <2>3. MayRead(states[Instant], Req.by, Req.block, type)
    BY <1>3, <1>5 DEF CheckGrant, MayRead
  <2>4. Req \in Calls /\ Req # None /\ call.from \in (Len(Seed) + 1)..Instant
    BY <1>1, CallsAssumption DEF Underway
  <2>5. Instant' = Instant /\ states' = states /\ Instant \in Since'
    BY <1>1, <1>3, <2>2, <2>4 DEF Quiet, Instant, Since
  <2>6. MayRead(states'[Instant], Req'.by, Req'.block, type)
    BY <2>2, <2>3, <2>5
  <2>7. Fetching'
    BY <1>2, <1>5, <2>2, <2>5, <2>6 DEF Fetching, MayRead, Granted, HasGrant, Exists
  <2> QED BY <1>1, <2>2, <2>7, Moved DEF Stages
<1>6. CASE CheckGrant(Req.by, ReadCap[type], Req.block) /\ Req.op # "get_block_history"
  <2>1. Return("block", call.blocks)
    BY <1>6 DEF CheckRead
  <2>2. /\ Underway' /\ Req' = Req /\ call'.result.value = call.blocks
        /\ \A i \in Since : i \in During' /\ i \in 1..Instant /\ states'[i] = states[i]
        /\ Instant \in Since
        /\ \A op, k : Answered(op, k)' => Req.op \in op /\ k = "block"
    BY <1>1, <2>1, Returned
  <2>3. PICK i \in Since : call.blocks = states[i].blocks[Req.block]
    BY <1>2 DEF Checking
  <2>4. i <= Instant /\ i \in During' /\ Instant \in During'
    BY <1>3, <2>2, <2>3
  <2>5. states'[i].blocks[Req'.block] = call'.result.value
    BY <2>2, <2>3
  <2>6. MayRead(states'[Instant], Req'.by, Req'.block, call'.result.value.type)
    BY <1>3, <1>6, <2>2 DEF CheckGrant, MayRead
  <2>7. ReadsArePermitted'
    BY <2>4, <2>5, <2>6 DEF ReadsArePermitted, MayRead, Granted, HasGrant, Exists
  <2> QED BY <2>2, <2>7 DEF Answers, HistoryIsWhole, ListIsRight, EventListIsRight,
                            PastIsOneInstant, TasksAreDescribed
<1> QED BY <1>4, <1>5, <1>6

LEMMA FetchHistoryStep ==
  ASSUME Engine, Underway, FetchHistory
  PROVE  Underway' /\ Answers'
<1>1. /\ call.at = "events" /\ Grown /\ Quiet
  BY DEF FetchHistory, Grown, Quiet
<1>2. CASE ~up
  <2>1. Return("closed", None)
    BY <1>2 DEF FetchHistory
  <2> QED BY <1>1, <2>1, PlainAnswer DEF Plain
<1>3. CASE up
  <2>1. Return("events", About(log, Req.block))
    BY <1>3 DEF FetchHistory
  <2>2. /\ Underway' /\ Req' = Req /\ call'.result.value = About(log, Req.block)
        /\ \A i \in Since : i \in During' /\ i \in 1..Instant /\ states'[i] = states[i]
        /\ Instant \in Since
        /\ \A op, k : Answered(op, k)' => Req.op \in op /\ k = "events"
    BY <1>1, <2>1, Returned
  <2>3. PICK i \in Since, type \in BlockType : MayRead(states[i], Req.by, Req.block, type)
    BY <1>1 DEF Underway, Fetching
  <2>4. log' = log /\ log \in Seq(Event) /\ Instant = Len(log) + 1 /\ Len(log) \in Nat
    BY <1>1, Instants DEF Quiet, Engine, Shape
  <2>5. SubSeq(log', 1, Instant - 1) = log
    BY <2>4
  <2>6. i <= Instant /\ i \in During' /\ Instant \in During'
    BY <2>2, <2>3, <2>4
  <2>7. /\ call'.result.value = About(SubSeq(log', 1, Instant - 1), Req'.block)
        /\ MayRead(states'[i], Req'.by, Req'.block, type)
    BY <2>2, <2>3, <2>5
  <2>8. HistoryIsWhole'
    BY <2>3, <2>6, <2>7 DEF HistoryIsWhole, MayRead, Granted, HasGrant, Exists
  <2>9. ~Answered({"list_events"}, "events")'
    BY <1>1, <2>2 DEF Underway, Fetching
  <2> QED BY <2>2, <2>8, <2>9 DEF Answers, ReadsArePermitted, ListIsRight,
                                  EventListIsRight, PastIsOneInstant, TasksAreDescribed
<1> QED BY <1>2, <1>3

LEMMA FetchListStep ==
  ASSUME Engine, Underway, FetchList
  PROVE  Underway' /\ Answers'
<1>1. /\ call.at = "begin" /\ Grown /\ Quiet
  BY DEF FetchList, Grown, Quiet
<1>2. \/ Req.op = "list_blocks" /\ call' = [Goto("list") EXCEPT !.blocks = AllBlocks]
      \/ Req.op = "list_grants" /\ call' = [Goto("list") EXCEPT !.grants = AllGrants]
  BY DEF FetchList
<1>3. /\ IsRecord' /\ Req' = Req /\ call'.from = call.from /\ call'.at = "list"
      /\ Req.op = "list_blocks" => call'.blocks = AllBlocks
  BY <1>2 DEF Underway, IsRecord, Goto, Req
<1>4. Instant \in Nat /\ Instant >= 1 /\ Now = states[Instant]
  BY Instants DEF Engine, Now, Instant
<1>5. Req \in Calls /\ Req # None /\ call.from \in (Len(Seed) + 1)..Instant
  BY <1>1, CallsAssumption DEF Underway
<1>6. Instant' = Instant /\ states' = states /\ up' = up /\ Instant \in Since'
  BY <1>1, <1>3, <1>4, <1>5 DEF Quiet, Instant, Since
<1>7. Listing'
  <2>1. CASE up
    BY <1>3, <1>4, <1>6, <2>1 DEF AllBlocks, Listing
  <2>2. CASE ~up
    BY <1>3, <1>6, <2>2 DEF AllBlocks, Listing
  <2> QED BY <2>1, <2>2
<1> QED BY <1>1, <1>3, <1>7, Moved DEF Stages

LEMMA ListBlocksStep ==
  ASSUME Engine, Underway, ListBlocks
  PROVE  Underway' /\ Answers'
<1> DEFINE Listed == {x \in Block : /\ call.blocks[x] # None
                                    /\ \/ call.blocks[x].owner = Req.by
                                       \/ Reaches(AllGrants, Req.by, x)}
           list == [b \in Listed |-> call.blocks[b]]
<1>1. /\ call.at = "list" /\ Req.op = "list_blocks" /\ Grown /\ Quiet
      /\ Return("blocks", list)
  BY DEF ListBlocks, Grown, Quiet
<1>2. \A b : b \in DOMAIN list <=> b \in Listed
  OBVIOUS
<1>3. \A b \in Listed : list[b] = call.blocks[b]
  OBVIOUS
<1> HIDE DEF list
<1>4. /\ Underway' /\ Req' = Req /\ call'.result.value = list
      /\ \A i \in Since : i \in During' /\ i \in 1..Instant /\ states'[i] = states[i]
      /\ Instant \in Since
      /\ \A op, k : Answered(op, k)' => Req.op \in op /\ k = "blocks"
  BY <1>1, Returned
<1>5. /\ Instant \in Nat /\ Instant >= 1 /\ Now = states[Instant]
      /\ Len(Seed) \in Nat /\ Instant = Len(states)
  BY Instants, SeedAssumption, LenProperties DEF Engine, Now, Instant
<1>6. call.from \in (Len(Seed) + 1)..Instant
  BY <1>1, CallsAssumption DEF Underway
<1>7. \/ ~up /\ call.blocks = Empty.blocks
      \/ \E i \in Since : call.blocks = states[i].blocks
  BY <1>1 DEF Underway, Listing
<1>8. ASSUME NEW b \in Block, up, \A i \in Since : His(states[i], b)
      PROVE  b \in Listed
  <2>1. PICK i \in Since : call.blocks = states[i].blocks
    BY <1>7, <1>8
  <2>2. /\ Exists(states[i], b) /\ Exists(Now, b)
        /\ Now.blocks[b].owner = Req.by \/ Reaches(Now.grants, Req.by, b)
    BY <1>4, <1>5, <1>8 DEF His
  <2>3. i \in (Len(Seed) + 1)..Len(states) /\ Instant \in (Len(Seed) + 1)..Len(states)
    BY <1>5, <1>6 DEF Since
  <2>4. states[i].blocks[b].owner = Now.blocks[b].owner
    BY <1>5, <2>2, <2>3 DEF Engine, OwnersStay
  <2>5. AllGrants = Now.grants
    BY <1>8 DEF AllGrants
  <2> QED BY <2>1, <2>2, <2>4, <2>5 DEF Exists
<1>9. ASSUME NEW b \in Block, b \in Listed
      PROVE  \E i, j \in During' :
                /\ i <= j
                /\ states'[i].blocks[b] = list[b]
                /\ \/ states'[i].blocks[b].owner = Req.by
                   \/ Reaches(states'[j].grants, Req.by, b)
  <2>1. call.blocks[b] # None
    BY <1>9
  <2>2. PICK i \in Since : call.blocks = states[i].blocks
    BY <1>7, <2>1 DEF Empty
  <2>3. i <= Instant /\ i \in During' /\ Instant \in During' /\ states'[i] = states[i]
        /\ states'[Instant] = Now
    BY <1>4, <1>5, <2>2 DEF Since
  <2>4. states'[i].blocks[b] = list[b]
    BY <1>3, <1>9, <2>2, <2>3
  <2>5. call.blocks[b].owner = Req.by \/ Reaches(Now.grants, Req.by, b)
    BY <1>9 DEF AllGrants, Reaches, Own
  <2>6. states'[i].blocks[b].owner = Req.by \/ Reaches(states'[Instant].grants, Req.by, b)
    BY <2>2, <2>3, <2>5
  <2> QED BY <2>3, <2>4, <2>6
<1> HIDE DEF Listed
<1>10. ASSUME NEW b \in Block, up',
              \A i \in During' : /\ Exists(states'[i], b)
                                 /\ \/ states'[i].blocks[b].owner = Req'.by
                                    \/ Reaches(states'[i].grants, Req'.by, b)
       PROVE  b \in DOMAIN list
  <2>1. \A i \in Since : His(states[i], b)
    BY <1>4, <1>10 DEF His
  <2>2. up
    BY <1>1, <1>10 DEF Quiet
  <2> QED BY <1>2, <1>8, <2>1, <2>2
<1>11. ListIsRight'
  BY <1>2, <1>4, <1>9, <1>10 DEF ListIsRight, His, Exists, Reaches, Own
<1> QED BY <1>4, <1>11 DEF Answers, ReadsArePermitted, HistoryIsWhole, EventListIsRight,
                           PastIsOneInstant, TasksAreDescribed

LEMMA PlainSteps ==
  ASSUME Engine, Underway, ListGrants \/ Ask
  PROVE  Underway' /\ Answers'
<1>1. call.at # "idle" /\ Grown
  BY DEF ListGrants, Ask, Grown
<1>2. \E kind \in Plain : \E value : Return(kind, value)
  <2>1. CASE ListGrants
    BY <2>1 DEF ListGrants, Plain
  <2>2. CASE Ask
    BY <2>2 DEF Ask, Plain
  <2> QED BY <2>1, <2>2
<1> QED BY <1>1, <1>2, PlainAnswer

LEMMA FilteringNext ==
  ASSUME Req'.op = "list_events", call'.kept \in Seq(Event),
         (\E n \in Since, p \in Nat : /\ p < n
                                      /\ call.events = SubSeq(log, p + 1, n - 1)
                                      /\ Sifted(call.kept, p))',
         \A k \in 1..Len(call'.kept) :
            \/ Public(call'.kept[k])
            \/ \E j \in Since', type \in BlockType :
                  MayRead(states'[j], Req'.by, call'.kept[k].entity, type),
         call'.at = "filter" => call'.blocks \in [Block -> BlockRec \cup {None}]
  PROVE  Filtering'
BY DEF Filtering, MayRead, Granted, HasGrant, Exists, Public

LEMMA FetchEventsStep ==
  ASSUME Engine, Underway, FetchEvents
  PROVE  Underway' /\ Answers'
<1>1. /\ call.at = "begin" /\ Grown /\ Quiet /\ call.kept = <<>>
  BY DEF FetchEvents, Grown, Quiet, Underway
<1>2. CASE ~up
  <2>1. Return("closed", None)
    BY <1>2 DEF FetchEvents
  <2> QED BY <1>1, <2>1, PlainAnswer DEF Plain
<1>3. CASE up
  <2>1. /\ IsRecord' /\ Req' = Req /\ call'.from = call.from /\ call'.events = log
        /\ call'.kept = <<>>
        /\ \/ Req.op = "list_events" /\ call'.at = "types"
           \/ Req.op = "get_state_at_event" /\ call'.at = "travel"
    BY <1>1, <1>3 DEF FetchEvents, Underway, IsRecord, Goto, Req
  <2>2. /\ log' = log /\ log = SubSeq(log, 1, Len(log)) /\ Len(log) \in 0..Len(log)
        /\ Instant' = Instant /\ Instant \in Nat /\ Instant = Len(log) + 1
    BY <1>1, Instants DEF Quiet, Engine, Shape, Instant
  <2>3. (\E n \in 0..Len(log) : call.events = SubSeq(log, 1, n))'
    BY <2>1, <2>2
  <2>4. call'.at = "travel" => Traveling'
    BY <2>1, <2>3 DEF Traveling
  <2>5. Instant \in Since'
    BY <1>1, <2>1, <2>2, CallsAssumption DEF Underway, Since
  <2>6. Sifted(<<>>, 0)'
    BY DEF Sifted
  <2>7. Sifted(call.kept, 0)'
    BY <2>1, <2>6 DEF Sifted, Public
  <2>8. (\E n \in Since, p \in Nat : /\ p < n
                                     /\ call.events = SubSeq(log, p + 1, n - 1)
                                     /\ Sifted(call.kept, p))'
    <3>1. 0 < Instant /\ call'.events = SubSeq(log', 0 + 1, Instant - 1)
      BY <2>1, <2>2
    <3> QED BY <2>5, <2>7, <3>1
  <2>9. call'.at \in {"types", "filter"} => Filtering'
    <3> SUFFICES ASSUME call'.at \in {"types", "filter"} PROVE Filtering'
      OBVIOUS
    <3>1. call'.kept \in Seq(Event) /\ Len(call'.kept) = 0 /\ call'.at = "types"
      BY <2>1
    <3>2. Req'.op = "list_events"
      BY <2>1
    <3>3. \A k \in 1..Len(call'.kept) :
             \/ Public(call'.kept[k])
             \/ \E j \in Since', type \in BlockType :
                   MayRead(states'[j], Req'.by, call'.kept[k].entity, type)
      BY <3>1
    <3> QED BY <2>8, <3>1, <3>2, <3>3, FilteringNext
  <2> QED BY <1>1, <2>1, <2>4, <2>9, Moved DEF Stages
<1> QED BY <1>2, <1>3

LEMMA FetchTypesStep ==
  ASSUME Engine, Underway, FetchTypes
  PROVE  Underway' /\ Answers'
<1>1. /\ call.at = "types" /\ Grown /\ Quiet /\ Filtering
  BY DEF FetchTypes, Grown, Quiet, Underway
<1>2. /\ IsRecord' /\ Req' = Req /\ call'.from = call.from /\ call'.at = "filter"
      /\ call'.kept = call.kept /\ call'.events = call.events /\ call'.blocks = AllBlocks
  BY DEF FetchTypes, Underway, IsRecord, Goto, Req
<1>3. AllBlocks \in [Block -> BlockRec \cup {None}]
  BY Instants, StateFields DEF AllBlocks, Empty, Engine
<1>4. log' = log /\ states' = states /\ Since' = Since
  BY <1>1, <1>2 DEF Quiet, Since, Instant
<1>5. Filtering'
  <2>1. PICK n \in Since, p \in Nat : /\ p < n
                                      /\ call.events = SubSeq(log, p + 1, n - 1)
                                      /\ Sifted(call.kept, p)
    BY <1>1 DEF Filtering
  <2>2. Sifted(call.kept, p)'
    BY <1>2, <1>4, <2>1, SiftedKept
  <2>3. (\E m \in Since, q \in Nat : /\ q < m
                                     /\ call.events = SubSeq(log, q + 1, m - 1)
                                     /\ Sifted(call.kept, q))'
    BY <1>2, <1>4, <2>1, <2>2
  <2>4. \A k \in 1..Len(call'.kept) :
            \/ Public(call'.kept[k])
            \/ \E j \in Since', type \in BlockType :
                  MayRead(states'[j], Req'.by, call'.kept[k].entity, type)
    BY <1>1, <1>2, <1>4 DEF Filtering
  <2> QED BY <1>1, <1>2, <1>3, <2>3, <2>4, FilteringNext DEF Filtering
<1> QED BY <1>1, <1>2, <1>5, Moved DEF Stages

(***************************************************************************)
(* One more event is sifted.                                               *)
(***************************************************************************)
LEMMA SiftedSkip ==
  ASSUME NEW shown \in Seq(Event), NEW p \in Nat, Sifted(shown, p), ~Public(log[p + 1])
  PROVE  Sifted(shown, p + 1)
BY DEF Sifted

LEMMA SiftedMore ==
  ASSUME NEW shown \in Seq(Event), NEW p \in Nat, Sifted(shown, p),
         log[p + 1] \in Event
  PROVE  Sifted(Append(shown, log[p + 1]), p + 1)
<1> DEFINE e == log[p + 1]
           more == Append(shown, e)
<1>1. /\ Len(shown) \in Nat /\ Len(more) = Len(shown) + 1
      /\ \A k \in 1..Len(shown) : more[k] = shown[k]
      /\ more[Len(shown) + 1] = e
  BY AppendProperties, LenProperties
<1> HIDE DEF more
<1>2. ASSUME NEW i \in 1..(p + 1), Public(log[i])
      PROVE  \E k \in 1..Len(more) : more[k] = log[i]
  <2>1. CASE i \in 1..p
    <3>1. PICK k \in 1..Len(shown) : shown[k] = log[i]
      BY <1>2, <2>1 DEF Sifted
    <3> QED BY <1>1, <3>1
  <2>2. CASE i = p + 1
    BY <1>1, <2>2
  <2> QED BY <2>1, <2>2
<1>3. ASSUME NEW k \in 1..Len(more)
      PROVE  \E i \in 1..(p + 1) : more[k] = log[i]
  <2>1. CASE k \in 1..Len(shown)
    <3>1. PICK i \in 1..p : shown[k] = log[i]
      BY <2>1 DEF Sifted
    <3> QED BY <1>1, <2>1, <3>1
  <2>2. CASE k = Len(shown) + 1
    BY <1>1, <2>2
  <2> QED BY <1>1, <2>1, <2>2
<1>4. ASSUME NEW k \in 1..Len(more), NEW l \in 1..Len(more), k < l
      PROVE  \E i, j \in 1..(p + 1) : i < j /\ more[k] = log[i] /\ more[l] = log[j]
  <2>1. k \in 1..Len(shown)
    BY <1>1, <1>4
  <2>2. CASE l \in 1..Len(shown)
    <3>1. PICK i, j \in 1..p : i < j /\ shown[k] = log[i] /\ shown[l] = log[j]
      BY <1>4, <2>1, <2>2 DEF Sifted
    <3> QED BY <1>1, <2>1, <2>2, <3>1
  <2>3. CASE l = Len(shown) + 1
    <3>1. PICK i \in 1..p : shown[k] = log[i]
      BY <2>1 DEF Sifted
    <3>2. i \in 1..(p + 1) /\ p + 1 \in 1..(p + 1) /\ i < p + 1
      BY <3>1
    <3> QED BY <1>1, <2>1, <2>3, <3>1, <3>2
  <2> QED BY <1>1, <2>2, <2>3
<1> QED BY <1>2, <1>3, <1>4 DEF Sifted, more

\* The capability an event is filtered by is the read of some type.
LEMMA FilterCap ==
  ASSUME call.blocks \in [Block -> BlockRec \cup {None}], NEW entity
  PROVE  \E type \in BlockType : CapFor(entity) = ReadCap[type]
<1>1. CASE entity \in Block /\ call.blocks[entity] # None
  <2>1. call.blocks[entity] \in BlockRec
    BY <1>1
  <2> QED BY <1>1, <2>1, BlockFields DEF CapFor
<1>2. CASE ~(entity \in Block /\ call.blocks[entity] # None)
  BY <1>2 DEF CapFor, ReadCap, BlockType
<1> QED BY <1>1, <1>2

LEMMA FilterNextStep ==
  ASSUME Engine, Underway, FilterNext
  PROVE  Underway' /\ Answers'
<1>1. /\ call.at = "filter" /\ Grown /\ Quiet /\ Filtering /\ Shape
  BY DEF FilterNext, Grown, Quiet, Underway, Engine
<1>2. PICK n \in Since, p \in Nat : /\ p < n
                                    /\ call.events = SubSeq(log, p + 1, n - 1)
                                    /\ Sifted(call.kept, p)
  BY <1>1 DEF Filtering
<1>3. /\ Len(log) \in Nat /\ Instant = Len(log) + 1 /\ Now = states[Instant]
      /\ log \in Seq(Event) /\ \A i \in 1..Len(log) : log[i] \in Event
  BY <1>1, Instants DEF Shape, Now, Instant
<1>4. Instant \in Since /\ n \in 1..Instant
  BY <1>1, <1>2, <1>3, CallsAssumption, SeedAssumption, LenProperties DEF Underway, Since
<1>5. /\ log' = log /\ states' = states /\ Instant' = Instant
  BY <1>1 DEF Quiet, Instant
<1>6. CASE call.events = <<>>
  <2>1. Return("events", call.kept)
    BY <1>6 DEF FilterNext
  <2>2. /\ Underway' /\ Req' = Req /\ call'.result.value = call.kept
        /\ \A i \in Since : i \in During' /\ i \in 1..Instant /\ states'[i] = states[i]
        /\ \A op, k : Answered(op, k)' => Req.op \in op /\ k = "events"
    BY <1>1, <2>1, Returned
  <2>3. p = n - 1
    BY <1>2, <1>3, <1>4, <1>6
  <2>4. Sifted(call.kept, n - 1)
    BY <1>2, <2>3
  <2>5. Sifted(call.result.value, n - 1)'
    BY <1>5, <2>2, <2>4 DEF Sifted, Public
  <2>6. ASSUME NEW k \in 1..Len(call.kept), call.kept[k].entity \in Block
        PROVE  \E j \in During', type \in BlockType :
                  MayRead(states'[j], Req'.by, call.kept[k].entity, type)
    <3>1. ~Public(call.kept[k])
      BY <2>6, IdsAssumption, WildAssumption, PrefixedAssumption DEF Public
    <3> QED BY <1>1, <2>2, <3>1 DEF Filtering
  <2>7. EventListIsRight'
    <3>1. n \in During'
      BY <1>2, <2>2
    <3> QED BY <2>2, <2>5, <2>6, <3>1, ZenonT(60)
       DEF EventListIsRight, MayRead, Granted, HasGrant, Exists
  <2>8. ~Answered({"get_block_history"}, "events")'
    BY <1>1, <2>2 DEF Filtering
  <2> QED BY <2>2, <2>7, <2>8 DEF Answers, ReadsArePermitted, HistoryIsWhole, ListIsRight,
                                  PastIsOneInstant, TasksAreDescribed
<1>7. CASE call.events # <<>>
  <2> DEFINE e == Head(call.events)
             shown == \/ e.entity \in Prefixed \cup {Wild}
                      \/ CheckGrant(Req.by, CapFor(e.entity), e.entity)
             kept == IF shown THEN Append(call.kept, e) ELSE call.kept
  <2>1. call' = [call EXCEPT !.events = Tail(@), !.kept = IF shown THEN Append(@, e) ELSE @]
    BY <1>7 DEF FilterNext
  <2>2. /\ IsRecord' /\ Req' = Req /\ call'.from = call.from /\ call'.at = "filter"
        /\ call'.events = Tail(call.events) /\ call'.kept = kept
        /\ call'.blocks = call.blocks
    <3> HIDE DEF shown, e
    <3> QED BY <1>1, <2>1 DEF Underway, IsRecord, Req
  <2>3. /\ p + 1 < n /\ p + 1 \in 1..Len(log) /\ e = log[p + 1] /\ e \in Event
        /\ Tail(call.events) = SubSeq(log, (p + 1) + 1, n - 1)
    <3>1. p + 1 <= n - 1 /\ n - 1 <= Len(log)
      BY <1>2, <1>3, <1>4, <1>7
    <3>2. /\ Len(SubSeq(log, p + 1, n - 1)) = n - 1 - p
          /\ SubSeq(log, p + 1, n - 1) \in Seq(Event)
          /\ Head(SubSeq(log, p + 1, n - 1)) = log[p + 1]
      BY <1>2, <1>3, <1>4, <3>1
    <3>3. Tail(SubSeq(log, p + 1, n - 1)) = SubSeq(log, (p + 1) + 1, n - 1)
      BY <1>2, <1>3, <1>4, <3>1
    <3> QED BY <1>2, <1>3, <1>4, <3>1, <3>2, <3>3
  <2>4. call.kept \in Seq(Event) /\ Len(call.kept) \in Nat
    BY <1>1, LenProperties DEF Filtering
  <2>8. /\ p + 1 \in Nat /\ p + 1 < n
        /\ call'.events = SubSeq(log', (p + 1) + 1, n - 1)
    <3>1. call'.events = Tail(call.events)
      BY <2>2
    <3>2. Tail(call.events) = SubSeq(log, (p + 1) + 1, n - 1)
      BY <2>3
    <3>3. call'.events = SubSeq(log', (p + 1) + 1, n - 1)
      BY <1>5, <3>1, <3>2, Zenon
    <3> QED BY <2>3, <3>3
  <2>5. Since' = Since
    BY <1>5, <2>2 DEF Since
  <2> HIDE DEF e
  <2>6. CASE shown
    <3>1. /\ kept = Append(call.kept, e) /\ kept \in Seq(Event)
          /\ Len(kept) = Len(call.kept) + 1 /\ kept[Len(call.kept) + 1] = e
          /\ \A k \in 1..Len(call.kept) : kept[k] = call.kept[k]
      BY <2>3, <2>4, <2>6, AppendProperties
    <3>2. Sifted(kept, p + 1)
      BY <1>2, <2>3, <2>4, <3>1, SiftedMore
    <3>3. Public(e) \/ \E type \in BlockType : MayRead(states[Instant], Req.by, e.entity, type)
      <4>1. CASE CheckGrant(Req.by, CapFor(e.entity), e.entity)
        <5>1. PICK type \in BlockType : CapFor(e.entity) = ReadCap[type]
          BY <1>1, FilterCap DEF Filtering
        <5> QED BY <1>3, <4>1, <5>1 DEF CheckGrant, MayRead
      <4> QED BY <2>6, <4>1 DEF Public
    <3> HIDE DEF kept, shown
    <3>4. ASSUME NEW k \in 1..Len(kept)
          PROVE  \/ Public(kept[k])
                 \/ \E j \in Since, type \in BlockType :
                       MayRead(states[j], Req.by, kept[k].entity, type)
      <4>1. CASE k \in 1..Len(call.kept)
        BY <1>1, <3>1, <4>1 DEF Filtering
      <4>2. CASE k = Len(call.kept) + 1
        BY <1>4, <3>1, <3>3, <4>2
      <4> QED BY <2>4, <3>1, <4>1, <4>2
    <3>6. Sifted(call.kept, p + 1)'
      BY <1>5, <2>2, <3>2 DEF Sifted, Public
    <3>7. (\E m \in Since, q \in Nat : /\ q < m
                                       /\ call.events = SubSeq(log, q + 1, m - 1)
                                       /\ Sifted(call.kept, q))'
      BY <2>5, <2>8, <3>6
    <3>8. \A k \in 1..Len(call'.kept) :
              \/ Public(call'.kept[k])
              \/ \E j \in Since', type \in BlockType :
                    MayRead(states'[j], Req'.by, call'.kept[k].entity, type)
      BY <1>5, <2>2, <2>5, <3>4
    <3>9. Filtering'
      BY <1>1, <2>2, <3>1, <3>7, <3>8, FilteringNext DEF Filtering
    <3> QED BY <1>1, <2>2, <3>9, Moved DEF Stages
  <2>7. CASE ~shown
    <3>1. kept = call.kept /\ ~Public(e)
      BY <2>7 DEF Public
    <3>2. Sifted(kept, p + 1)
      BY <1>2, <2>3, <2>4, <3>1, SiftedSkip
    <3> HIDE DEF kept, shown
    <3>4. Sifted(call.kept, p + 1)'
      BY <1>5, <2>2, <3>2 DEF Sifted, Public
    <3>5. (\E m \in Since, q \in Nat : /\ q < m
                                       /\ call.events = SubSeq(log, q + 1, m - 1)
                                       /\ Sifted(call.kept, q))'
      BY <2>5, <2>8, <3>4
    <3>6. \A k \in 1..Len(call'.kept) :
              \/ Public(call'.kept[k])
              \/ \E j \in Since', type \in BlockType :
                    MayRead(states'[j], Req'.by, call'.kept[k].entity, type)
      BY <1>1, <1>5, <2>2, <2>5, <3>1 DEF Filtering
    <3>7. Filtering'
      BY <1>1, <2>2, <2>4, <3>1, <3>5, <3>6, FilteringNext DEF Filtering
    <3> QED BY <1>1, <2>2, <3>7, Moved DEF Stages
  <2> QED BY <2>6, <2>7
<1> QED BY <1>6, <1>7

(***************************************************************************)
(* A replay of the first i events of the log ends in the state the engine  *)
(* was in after them.                                                      *)
(***************************************************************************)
LEMMA PrefixReplay ==
  ASSUME Shape, NEW n \in 0..Len(log), NEW i \in 1..n
  PROVE  /\ Replay(SubSeq(SubSeq(log, 1, n), 1, i)) = states[i + 1]
         /\ i + 1 \in 1..Instant
<1> DEFINE l == SubSeq(SubSeq(log, 1, n), 1, i)
           g == [k \in 0..Len(log) |-> states[k + 1]]
<1>1. /\ Len(log) \in Nat /\ log \in Seq(Event) /\ Instant = Len(log) + 1
      /\ states[1] = Empty
      /\ \A k \in 1..Len(log) : states[k + 1] = Apply(states[k], log[k])
  BY Instants DEF Shape
<1>2. l \in Seq(Event) /\ Len(l) = i /\ \A k \in 1..i : l[k] = log[k]
  <2> DEFINE m == SubSeq(log, 1, n)
  <2>1. m \in Seq(Event) /\ Len(m) = n /\ \A k \in 1..n : m[k] = log[k]
    BY <1>1, SubSeqProperties
  <2> HIDE DEF m
  <2>2. /\ SubSeq(m, 1, i) \in Seq(Event) /\ Len(SubSeq(m, 1, i)) = i
        /\ \A k \in 1..i : SubSeq(m, 1, i)[k] = m[k]
    BY <2>1, SubSeqProperties
  <2> QED BY <1>1, <2>1, <2>2 DEF m
<1> HIDE DEF l
<1>3. Replays(History(l), l, i)
  BY <1>2, HistoryReplays
<1>4. Replays(g, log, Len(log))
  <2>1. \A k \in 0..Len(log) : g[k] = IF k = 0 THEN Empty ELSE Apply(g[k - 1], log[k])
    BY <1>1
  <2> QED BY <2>1 DEF Replays
<1> HIDE DEF g
<1>5. i \in Nat /\ Len(log) \in Nat /\ i <= Len(log) /\ \A k \in 1..i : l[k] = log[k]
  BY <1>1, <1>2
<1>6. \A k \in 0..i : History(l)[k] = g[k]
  BY ONLY <1>3, <1>4, <1>5, ReplayUnique
<1>7. History(l)[i] = g[i] /\ g[i] = states[i + 1]
  <2>1. i \in 0..i /\ i \in 0..Len(log)
    BY <1>5
  <2> QED BY <1>6, <2>1 DEF g
<1> QED BY <1>1, <1>2, <1>7 DEF Replay, l

LEMMA TravelStep ==
  ASSUME Engine, Underway, Travel
  PROVE  Underway' /\ Answers'
<1>1. /\ call.at = "travel" /\ Grown /\ Quiet /\ Shape
  BY DEF Travel, Grown, Quiet, Engine
<1>2. CASE Return("missing", None)
  BY <1>1, <1>2, PlainAnswer DEF Plain
<1>3. CASE \E i \in 1..Len(call.events) :
              LET then == Replay(SubSeq(call.events, 1, i)) IN
              /\ then.blocks[Req.block] # None
              /\ call' = [Goto("depart") EXCEPT !.blocks = then.blocks[Req.block],
                                                !.grants = then.grants]
  <2> DEFINE then(i) == Replay(SubSeq(call.events, 1, i))
  <2>1. PICK i \in 1..Len(call.events) :
           /\ then(i).blocks[Req.block] # None
           /\ call' = [Goto("depart") EXCEPT !.blocks = then(i).blocks[Req.block],
                                             !.grants = then(i).grants]
    BY <1>3
  <2>2. PICK n \in 0..Len(log) : call.events = SubSeq(log, 1, n)
    BY <1>1 DEF Underway, Traveling
  <2>3. Len(call.events) = n
    BY <1>1, <2>2, Instants, SubSeqProperties DEF Shape
  <2>4. then(i) = states[i + 1] /\ i + 1 \in 1..Instant
    BY <1>1, <2>1, <2>2, <2>3, PrefixReplay
  <2> HIDE DEF then
  <2>5. /\ IsRecord' /\ Req' = Req /\ call'.from = call.from /\ call'.at = "depart"
        /\ call'.blocks = then(i).blocks[Req.block] /\ call'.grants = then(i).grants
    BY <2>1 DEF Underway, IsRecord, Goto, Req
  <2>6. Req \in Calls /\ Req.block \in Block
    BY <1>1, CommandsOfServices DEF Underway
  <2>7. then(i) \in State
    BY <1>1, <2>4, Instants
  <2>8. then(i).blocks[Req.block] \in BlockRec
    BY <2>1, <2>6, <2>7, StateFields
  <2>9. Instant' = Instant /\ states' = states
    BY <1>1 DEF Quiet, Instant
  <2>10. Req.op = "get_state_at_event"
    BY <1>1 DEF Underway, Traveling
  <2>11. \E k \in 1..Instant' : /\ call'.blocks = states'[k].blocks[Req'.block]
                                /\ call'.grants = states'[k].grants
    BY <2>4, <2>5, <2>9
  <2>12. Departing'
    BY <2>5, <2>8, <2>10, <2>11 DEF Departing
  <2> QED BY <1>1, <2>5, <2>12, Moved DEF Stages
<1> QED BY <1>2, <1>3 DEF Travel

LEMMA DepartStep ==
  ASSUME Engine, Underway, Depart
  PROVE  Underway' /\ Answers'
<1> DEFINE past == [block |-> call.blocks, grants |-> call.grants]
           type == call.blocks.type
<1>1. /\ call.at = "depart" /\ Grown /\ Quiet /\ Departing
  BY DEF Depart, Grown, Quiet, Underway
<1>2. CASE ~CheckGrant(Req.by, ReadCap[type], Req.block)
  <2>1. Return("denied", None)
    BY <1>2 DEF Depart
  <2> QED BY <1>1, <2>1, PlainAnswer DEF Plain
<1>3. CASE CheckGrant(Req.by, ReadCap[type], Req.block)
  <2>1. Return("past", past)
    BY <1>3 DEF Depart
  <2>2. /\ Underway' /\ Req' = Req /\ call'.result.value = past
        /\ \A i \in Since : i \in During' /\ i \in 1..Instant /\ states'[i] = states[i]
        /\ Instant \in Since
        /\ \A op, k : Answered(op, k)' => Req.op \in op /\ k = "past"
    BY <1>1, <2>1, Returned
  <2>3. past.block = call.blocks /\ past.grants = call.grants
    OBVIOUS
  <2> HIDE DEF past
  <2>4. Now = states[Instant] /\ Instant' = Instant /\ states' = states
    BY <1>1 DEF Now, Instant, Quiet
  <2>5. \E i \in 1..Instant' : /\ states'[i].blocks[Req'.block] = call'.result.value.block
                               /\ states'[i].grants = call'.result.value.grants
    BY <1>1, <2>2, <2>3, <2>4 DEF Departing
  <2>6. MayRead(states'[Instant], Req'.by, Req'.block, call'.result.value.block.type)
    BY <1>3, <2>2, <2>3, <2>4 DEF CheckGrant, MayRead
  <2>7. Instant \in During'
    BY <2>2
  <2>8. PastIsOneInstant'
    BY <2>5, <2>6, <2>7 DEF PastIsOneInstant, MayRead, Granted, HasGrant, Exists
  <2> QED BY <2>2, <2>8 DEF Answers, ReadsArePermitted, HistoryIsWhole, ListIsRight,
                            EventListIsRight, TasksAreDescribed
<1> QED BY <1>2, <1>3

LEMMA CreateTaskStep ==
  ASSUME Engine, Underway, CreateTask
  PROVE  Grown /\ up' = up /\ Underway' /\ Answers'
<1> DEFINE c == NewTask(Req.by, Req.arg.name)
<1>1. call.at = "begin" /\ Req.op = "create_task" /\ up' = up /\ Shape /\ Req \in Calls
  BY DEF CreateTask, Engine, Underway
<1>2. IsCommand(c) /\ c.cap = "core.create" /\ c.by = Req.by
  BY <1>1, CommandsOfServices DEF NewTask, Command
<1>3. \/ Return("refused", None) /\ UNCHANGED <<log, states>>
      \/ \E e \in Outcomes(c) : Take(e) /\ call' = [Goto("describe") EXCEPT !.blocks = e.entity]
  BY DEF CreateTask
<1> HIDE DEF c
<1>4. CASE Return("refused", None) /\ UNCHANGED <<log, states>>
  <2>1. Grown
    BY <1>4 DEF Grown
  <2> QED BY <1>1, <1>4, <2>1, PlainAnswer DEF Plain
<1>5. CASE \E e \in Outcomes(c) :
              Take(e) /\ call' = [Goto("describe") EXCEPT !.blocks = e.entity]
  <2>1. PICK e \in Outcomes(c) :
           Take(e) /\ call' = [Goto("describe") EXCEPT !.blocks = e.entity]
    BY <1>5
  <2>2. /\ e \in Event /\ Fresh(e) /\ e.cap = "core.create"
        /\ e.entity \in Block /\ e.value.owner = Req.by
    BY <1>1, <1>2, OutcomesAre
  <2>3. Grown
    BY <2>1, <2>2 DEF Grown
  <2>4. /\ IsRecord' /\ Req' = Req /\ call'.from = call.from /\ call'.at = "describe"
        /\ call'.blocks = e.entity
    BY <2>1 DEF Underway, IsRecord, Goto, Req
  <2>5. Now \in State /\ Now' = Apply(Now, e)
    BY <1>1, <2>1, <2>2, Instants, TakeAppends
  <2>6. Apply(Now, e).blocks[e.entity] = e.value /\ e.value \in BlockRec
    <3> DEFINE t == Tick(Now, e.ts)
    <3>1. t \in State /\ e.value \in BlockRec
      BY <2>2, <2>5, TickType DEF Event, ValuesOf
    <3>2. Apply(Now, e) = PutBlock(t, e.entity, e.value)
      BY <2>2 DEF Apply
    <3> HIDE DEF t
    <3> QED BY <2>2, <3>1, <3>2 DEF PutBlock, State
  <2>7. OwnedBy(Now', e.entity, Req.by)
    BY <2>2, <2>5, <2>6, NoBlockAssumption DEF OwnedBy, Exists
  <2>8. Describing'
    BY <1>1, <2>2, <2>4, <2>7 DEF Describing, OwnedBy, Exists
  <2> QED BY <1>1, <2>3, <2>4, <2>8, Moved DEF Stages
<1> QED BY <1>3, <1>4, <1>5

(***************************************************************************)
(* The creator of a task may describe it: if the command is refused, the   *)
(* engine is closed or the task was deleted.                               *)
(***************************************************************************)
LEMMA DescribeStep ==
  ASSUME Engine, Underway, Describe
  PROVE  Grown /\ up' = up /\ Underway' /\ Answers'
<1> DEFINE c == Description
<1>1. /\ call.at = "describe" /\ up' = up /\ Shape /\ Req \in Calls /\ Describing
      /\ Return("task", call.blocks) /\ call.blocks \in Block
  BY DEF Describe, Engine, Underway, Describing
<1>2. IsCommand(c) /\ c.cap = "core.write" /\ c.block = call.blocks /\ Req.by \in Editor
      /\ Req.arg.description \in Text
  BY <1>1, CommandsOfServices DEF Description, RenameBlock, Command
<1>3. \/ (~up \/ Outcomes(c) = {}) /\ UNCHANGED <<log, states>>
      \/ \E e \in Outcomes(c) : Take(e)
  BY DEF Describe
<1>4. "core.write" \in Registered /\ OwnedBy(Now, call.blocks, Req.by) => Outcomes(c) # {}
  BY <1>1, <1>2, OwnerMayRename DEF Description
<1> HIDE DEF c
<1>5. /\ Len(log) \in Nat /\ Instant = Len(log) + 1
      /\ call.from \in (Len(Seed) + 1)..Instant /\ Len(Seed) \in Nat
  BY <1>1, Instants, SeedAssumption, LenProperties, CallsAssumption DEF Underway
<1>6. Grown
  BY <1>1, <1>2, <1>3, OutcomesAre DEF Grown
<1>7. /\ Underway' /\ Req' = Req /\ call'.result.value = call.blocks
      /\ \A op, k : Answered(op, k)' => Req.op \in op /\ k = "task"
  BY <1>1, <1>6, Returned
<1>8. call'.from = call.from
  BY <1>1 DEF Return, Underway, IsRecord
<1>9. ASSUME "core.write" \in Registered
      PROVE  \/ ~up'
             \/ \E i \in call.from..Len(log') :
                   /\ log'[i].entity = call.blocks
                   /\ log'[i].cap \in {"core.write", "core.delete"}
  <2>1. CASE ~up
    BY <1>1, <2>1
  <2>2. CASE \E e \in Outcomes(c) : Take(e)
    <3>1. PICK e \in Outcomes(c) : Take(e)
      BY <2>2
    <3>2. e \in Event /\ e.cap = "core.write" /\ e.entity = call.blocks
      BY <1>1, <1>2, OutcomesAre
    <3>3. Len(log') = Len(log) + 1 /\ log'[Len(log) + 1] = e
      BY <1>1, <3>1, <3>2, TakeAppends
    <3> QED BY <1>5, <3>2, <3>3
  <2>3. CASE Outcomes(c) = {} /\ UNCHANGED <<log, states>>
    <3>1. Deleted(call.blocks)
      BY <1>1, <1>4, <1>9, <2>3 DEF Describing
    <3> QED BY <2>3, <3>1 DEF Deleted
  <2> QED BY <1>3, <2>1, <2>2, <2>3
<1>10. "core.write" \in Registered => TasksAreDescribed'
  BY <1>7, <1>8, <1>9 DEF TasksAreDescribed
<1> QED BY <1>1, <1>6, <1>7, <1>10 DEF Answers, ReadsArePermitted, HistoryIsWhole,
                                       ListIsRight, EventListIsRight, PastIsOneInstant

LEMMA DescribeFailsStep ==
  ASSUME Engine, Underway, DescribeFails
  PROVE  Grown /\ up' = up /\ Underway' /\ Answers'
<1>1. Grown /\ up' = up /\ call.at = "describe"
  BY DEF DescribeFails, Grown
<1>2. Ends("task", call.blocks) /\ call'.lost
  BY DEF DescribeFails, Underway, IsRecord, Ends, Answer
<1>3. Underway' /\ \A op, k : Answered(op, k)' => Req.op \in op /\ k = "task"
  BY <1>1, <1>2, Ended
<1>4. TasksAreDescribed'
  BY <1>2 DEF TasksAreDescribed
<1> QED BY <1>1, <1>3, <1>4 DEF Answers, ReadsArePermitted, HistoryIsWhole,
                                ListIsRight, EventListIsRight, PastIsOneInstant

-----------------------------------------------------------------------------
(***************************************************************************)
(* The steps of others.                                                    *)
(***************************************************************************)
LEMMA OthersStep ==
  ASSUME Engine, Elsewhere
  PROVE  Grown /\ call' = call /\ up' = up
<1>1. PICK c \in Menu : \E e \in Outcomes(c) : Take(e)
  BY DEF Elsewhere
<1>2. PICK e \in Outcomes(c) : Take(e)
  BY <1>1
<1>3. IsCommand(c) /\ Shape
  BY MenuAssumption DEF Engine
<1>4. e \in Event /\ Fresh(e)
  BY <1>3, OutcomesAre
<1> QED BY <1>2, <1>4 DEF Grown, Elsewhere

LEMMA BeginStep ==
  ASSUME Engine, Underway, Begin
  PROVE  Underway' /\ Answers'
<1>1. PICK req \in Calls :
         call' = [Idle EXCEPT !.req = req, !.at = "begin", !.from = Instant]
  BY DEF Begin
<1>2. IsRecord' /\ Req' = req /\ call'.at = "begin" /\ call'.from = Instant
      /\ call'.kept = <<>>
  BY <1>1 DEF Idle, IsRecord, Req
<1>3. /\ Instant \in Nat /\ Instant' = Instant /\ Len(Seed) \in Nat
      /\ Instant \in (Len(Seed) + 1)..Instant
  BY Instants, SeedAssumption, LenProperties DEF Engine, Shape, Begin, Instant
<1>4. Underway'
  BY <1>1, <1>2, <1>3 DEF Underway, Stages
<1>5. \A op, kind : ~Answered(op, kind)'
  BY <1>2 DEF Answered
<1> QED BY <1>4, <1>5 DEF Answers, ReadsArePermitted, HistoryIsWhole, ListIsRight,
                          EventListIsRight, PastIsOneInstant, TasksAreDescribed

-----------------------------------------------------------------------------
LEMMA ServiceInit ==
  ASSUME Init
  PROVE  ServiceInv
<1>1. call = Idle /\ Req = None
  BY DEF Init, Idle, Req
<1>2. Underway
  BY <1>1 DEF Underway, Stages, IsRecord, Idle
<1>3. Answers
  BY <1>1 DEF Answers, Answered, ReadsArePermitted, HistoryIsWhole, ListIsRight,
              EventListIsRight, PastIsOneInstant, TasksAreDescribed, Idle
<1> QED BY <1>2, <1>3, EngineInit DEF ServiceInv

LEMMA ServiceStep ==
  ASSUME ServiceInv, [Next]_vars
  PROVE  ServiceInv'
<1>1. Engine /\ Underway /\ Answers
  BY DEF ServiceInv
<1>2. ASSUME Grown, call' = call, up' => up
      PROVE  ServiceInv'
  BY <1>1, <1>2, EngineGrown, CarriedKept, AnswersKept DEF ServiceInv
<1>3. ASSUME UNCHANGED <<log, states>>, Underway', Answers'
      PROVE  ServiceInv'
  BY <1>1, <1>3, EngineGrown DEF ServiceInv, Grown
<1>4. CASE UNCHANGED vars
  BY <1>2, <1>4 DEF vars, Grown
<1>5. CASE Begin
  BY <1>1, <1>3, <1>5, BeginStep DEF Begin
<1>6. CASE Elsewhere
  BY <1>1, <1>2, <1>6, OthersStep
<1>7. CASE CloseEngine
  BY <1>2, <1>7 DEF CloseEngine, Grown
<1>8. CASE FetchBlock
  BY <1>1, <1>3, <1>8, FetchBlockStep DEF FetchBlock
<1>9. CASE CheckRead
  BY <1>1, <1>3, <1>9, CheckReadStep DEF CheckRead
<1>10. CASE FetchHistory
  BY <1>1, <1>3, <1>10, FetchHistoryStep DEF FetchHistory
<1>11. CASE FetchList
  BY <1>1, <1>3, <1>11, FetchListStep DEF FetchList
<1>12. CASE ListBlocks
  BY <1>1, <1>3, <1>12, ListBlocksStep DEF ListBlocks
<1>13. CASE ListGrants \/ Ask
  BY <1>1, <1>3, <1>13, PlainSteps DEF ListGrants, Ask
<1>14. CASE FetchEvents
  BY <1>1, <1>3, <1>14, FetchEventsStep DEF FetchEvents
<1>15. CASE FetchTypes
  BY <1>1, <1>3, <1>15, FetchTypesStep DEF FetchTypes
<1>16. CASE FilterNext
  <2>1. UNCHANGED <<log, states>>
    BY <1>16, ZenonT(60) DEF FilterNext
  <2> QED BY <1>1, <1>3, <1>16, <2>1, FilterNextStep
<1>17. CASE Travel
  BY <1>1, <1>3, <1>17, TravelStep DEF Travel
<1>18. CASE Depart
  BY <1>1, <1>3, <1>18, DepartStep DEF Depart
<1>19. CASE CreateTask
  BY <1>1, <1>19, CreateTaskStep, EngineGrown DEF ServiceInv
<1>20. CASE Describe
  BY <1>1, <1>20, DescribeStep, EngineGrown DEF ServiceInv
<1>24. CASE DescribeFails
  BY <1>1, <1>24, DescribeFailsStep, EngineGrown DEF ServiceInv
<1> QED
  BY <1>4, <1>5, <1>6, <1>7, <1>8, <1>9, <1>10, <1>11, <1>12, <1>13, <1>14, <1>15,
     <1>16, <1>17, <1>18, <1>19, <1>20, <1>24 DEF Next, Message

(***************************************************************************)
(* The invariant of the service layer.                                     *)
(***************************************************************************)
THEOREM ServiceSafety == Spec => []ServiceInv
<1>1. Init => ServiceInv
  BY ServiceInit
<1>2. ServiceInv /\ [Next]_vars => ServiceInv'
  BY ServiceStep
<1> QED BY <1>1, <1>2, PTL DEF Spec

(***************************************************************************)
(* A block that a read returns was there, with these contents, during the  *)
(* call, and the editor could read it then or later in the call            *)
(* (block.rs:33, document.rs:7, task.rs:7, session.rs:7).                  *)
(***************************************************************************)
THEOREM ReadsWerePermitted == Spec => []ReadsArePermitted
<1>1. ServiceInv => ReadsArePermitted
  BY DEF ServiceInv, Answers
<1> QED BY <1>1, ServiceSafety, PTL

(***************************************************************************)
(* A history holds every event about the block up to one instant of the    *)
(* call (event.rs:46).                                                     *)
(***************************************************************************)
THEOREM HistoriesAreWhole == Spec => []HistoryIsWhole
<1>1. ServiceInv => HistoryIsWhole
  BY DEF ServiceInv, Answers
<1> QED BY <1>1, ServiceSafety, PTL

(***************************************************************************)
(* list_blocks, which reads the blocks and the grants in two messages,     *)
(* forgets no block that was the editor's throughout and shows none that   *)
(* never was (block.rs:8).                                                 *)
(***************************************************************************)
THEOREM ListsAreRight == Spec => []ListIsRight
<1>1. ServiceInv => ListIsRight
  BY DEF ServiceInv, Answers
<1> QED BY <1>1, ServiceSafety, PTL

(***************************************************************************)
(* An event list is of the log at one instant: nothing that concerns the   *)
(* whole project is missing, the order is that of the log, and what is     *)
(* about a block was readable during the call (event.rs:9).                *)
(***************************************************************************)
THEOREM EventListsAreRight == Spec => []EventListIsRight
<1>1. ServiceInv => EventListIsRight
  BY DEF ServiceInv, Answers
<1> QED BY <1>1, ServiceSafety, PTL

(***************************************************************************)
(* The block and the grants of a time-travel answer are those of one       *)
(* instant (event.rs:75).                                                  *)
(***************************************************************************)
THEOREM PastsAreOneInstant == Spec => []PastIsOneInstant
<1>1. ServiceInv => PastIsOneInstant
  BY DEF ServiceInv, Answers
<1> QED BY <1>1, ServiceSafety, PTL

(***************************************************************************)
(* A task that is reported as created is described or deleted, unless its  *)
(* engine closed or the store failed: no revocation between the two        *)
(* commands of create_task has the second refused (task.rs:40).  The       *)
(* hypothesis is that a block can be renamed at all: registry.rs registers *)
(* core.write at every start.                                              *)
(***************************************************************************)
THEOREM TasksGetDescribed ==
  ASSUME "core.write" \in Registered
  PROVE  Spec => []TasksAreDescribed
<1>1. ServiceInv => TasksAreDescribed
  BY DEF ServiceInv, Answers
<1> QED BY <1>1, ServiceSafety, PTL
=============================================================================
