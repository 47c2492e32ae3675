---------------------------- MODULE Engine_proofs ----------------------------
(***************************************************************************)
(* The engine for every number of editors, blocks and texts, every         *)
(* registry and every set of commands: first types, for any number of      *)
(* actors; then what holds of a project with one actor at a time, and what *)
(* the log of such a project says, also where starts from snapshots that   *)
(* do not parse to the end are repaired by the replay after them; last     *)
(* what is left of all this when several actors share the store.           *)
(***************************************************************************)
EXTENDS EngineTornCache, Projection_proofs

-----------------------------------------------------------------------------
(***************************************************************************)
(* Types: what the files hold has the shape the projection reads.          *)
(***************************************************************************)
LEMMA SeedsType ==
  ASSUME NEW order \in RegistryOrders
  PROVE  /\ Seeds(order) \in Seq(Event) /\ Seeds(order) # <<>>
         /\ \A i \in 1..Len(Seeds(order)) :
               Seeds(order)[i].cap \in {"editor.create", "core.grant"}
<1>1. order \in Seq(Capability) /\ Len(order) \in Nat
  BY OrdersAssumption, LenProperties
<1>2. \A i \in 1..(Len(order) + 1) :
        /\ SeedEvent(order, i) \in Event
        /\ SeedEvent(order, i).cap \in {"editor.create", "core.grant"}
  <2> SUFFICES ASSUME NEW i \in 1..(Len(order) + 1)
               PROVE  /\ SeedEvent(order, i) \in Event
                      /\ SeedEvent(order, i).cap \in {"editor.create", "core.grant"}
    OBVIOUS
  <2> DEFINE e == SeedEvent(order, i)
  <2>1. e.ts \in Clock
    BY <1>1 DEF SeedEvent, Clock
  <2>2. CASE i = 1
    <3>1. e.cap = "editor.create" /\ e.entity = System /\ e.value = [editor |-> System]
      BY <2>2 DEF SeedEvent
    <3>2. e.entity \in EntitiesOf(e.cap) /\ e.value \in ValuesOf(e.cap)
      BY <3>1, SystemAssumption DEF EntitiesOf, ValuesOf
    <3> QED BY <2>1, <3>1, <3>2, SystemAssumption, ValuesAreValues, EntitiesAreEntities
            DEF SeedEvent, Event, Capability
  <2>3. CASE i # 1
    <3>1. e.cap = "core.grant" /\ e.entity = Wild
      BY <2>3 DEF SeedEvent
    <3>2. e.value \in Grant
      <4>1. order[i - 1] \in Capability
        BY <1>1, <2>3, ElementOfSeq
      <4> QED BY <2>3, <4>1, SystemAssumption DEF SeedEvent, Grant
    <3>3. e.entity \in EntitiesOf(e.cap) /\ e.value \in ValuesOf(e.cap)
      BY <3>1, <3>2 DEF EntitiesOf, ValuesOf
    <3> QED BY <2>1, <3>1, <3>3, SystemAssumption, ValuesAreValues, EntitiesAreEntities
            DEF SeedEvent, Event, Capability
  <2> QED BY <2>2, <2>3
<1>3. /\ Seeds(order) = [i \in 1..(Len(order) + 1) |-> SeedEvent(order, i)]
      /\ Len(order) + 1 \in Nat
  BY <1>1 DEF Seeds
<1> QED BY <1>2, <1>3

LEMMA EventsAfterType ==
  ASSUME NEW l \in Seq(Event), NEW id
  PROVE  EventsAfter(l, id) \in Seq(Event)
<1>1. CASE \E i \in 1..Len(l) : l[i].id = id
  <2> DEFINE i == CHOOSE i \in 1..Len(l) : l[i].id = id
  <2>1. i \in 1..Len(l) /\ Len(l) \in Nat
    BY <1>1, LenProperties
  <2> HIDE DEF i
  <2>2. \A j \in (i + 1)..Len(l) : l[j] \in Event
    BY <2>1, ElementOfSeq
  <2>3. SubSeq(l, i + 1, Len(l)) \in Seq(Event)
    BY <2>1, <2>2, SubSeqProperties
  <2> QED BY <1>1, <2>3 DEF EventsAfter, i
<1>2. CASE ~ \E i \in 1..Len(l) : l[i].id = id
  BY <1>2, EmptySeq DEF EventsAfter
<1> QED BY <1>1, <1>2

(***************************************************************************)
(* TypeOK alone is not inductive: an actor asks for the latest event id of *)
(* the store, and takes the head of what it has to insert.                 *)
(***************************************************************************)
TypeInv ==
    /\ TypeOK
    /\ \A a \in Actor :
          /\ phase[a] \notin {"down", "seeding"} => log # <<>>
          /\ phase[a] = "seeding" => todo[a] # <<>>
          /\ phase[a] = "closing" => mark[a] \in Nat

LEMMA TypeInit == Init => TypeInv
BY EmptySeq, EmptyType DEF Init, TypeInv, TypeOK, Phase

\* A sequence of more than one member has a tail that is not empty.
LEMMA TailLeft ==
  ASSUME NEW S, NEW s \in Seq(S), s # <<>>, Len(s) # 1
  PROVE  Tail(s) # <<>>
<1>1. Len(Tail(s)) = Len(s) - 1
  BY HeadTailProperties
<1>2. Len(s) \in Nat \ {0}
  BY EmptySeq
<1>3. Len(<<>>) = 0
  BY EmptySeq
<1>4. Len(s) - 1 # 0
  BY <1>2
<1> QED BY <1>1, <1>3, <1>4

\* Inserting an event keeps the types of the store.
LEMMA InsertType ==
  ASSUME log \in Seq(Event), minted \in Nat, NEW e \in Event, Insert(e)
  PROVE  /\ [e EXCEPT !.id = minted + 1] \in Event
         /\ log' \in Seq(Event) /\ log' # <<>> /\ minted' \in Nat
<1>1. [e EXCEPT !.id = minted + 1] \in Event
  BY DEF Event
<1> QED BY <1>1, AppendProperties DEF Insert

LEMMA TypeNext == TypeInv /\ [Next]_vars => TypeInv'
<1> SUFFICES ASSUME TypeInv, [Next]_vars PROVE TypeInv'
  OBVIOUS
<1>1. /\ log \in Seq(Event) /\ minted \in Nat /\ cache \in Snapshot \cup {None}
      /\ phase \in [Actor -> Phase] /\ st \in [Actor -> State]
      /\ todo \in [Actor -> Seq(Event)] /\ mark \in [Actor -> Nat \cup {None}]
  BY DEF TypeInv, TypeOK
<1>2. \A a \in Actor : /\ phase[a] \notin {"down", "seeding"} => log # <<>>
                       /\ phase[a] = "seeding" => todo[a] # <<>>
                       /\ phase[a] = "closing" => mark[a] \in Nat
  BY DEF TypeInv
<1> USE DEF TypeInv, TypeOK, Phase
<1>3. ASSUME NEW a \in Actor, OpenNew(a) PROVE TypeInv'
  <2>1. PICK order \in RegistryOrders : todo' = [todo EXCEPT ![a] = Seeds(order)]
    BY <1>3 DEF OpenNew
  <2>2. Seeds(order) \in Seq(Event) /\ Seeds(order) # <<>>
    BY SeedsType
  <2> QED BY <1>1, <1>2, <1>3, <2>1, <2>2 DEF OpenNew
<1>4. ASSUME NEW a \in Actor, OpenExisting(a) PROVE TypeInv'
  BY <1>1, <1>2, <1>4 DEF OpenExisting
<1>5. ASSUME NEW a \in Actor, SeedNext(a) PROVE TypeInv'
  <2>1. todo[a] # <<>> /\ todo[a] \in Seq(Event)
    BY <1>1, <1>2, <1>5 DEF SeedNext
  <2>2. /\ Head(todo[a]) \in Event /\ Tail(todo[a]) \in Seq(Event)
        /\ Len(todo[a]) # 1 => Tail(todo[a]) # <<>>
    BY <2>1, HeadTailProperties, TailLeft
  <2>3. log' \in Seq(Event) /\ log' # <<>> /\ minted' \in Nat
    BY <1>1, <1>5, <2>2, InsertType DEF SeedNext
  <2> QED BY <1>1, <1>2, <1>5, <2>2, <2>3 DEF SeedNext
<1>6. ASSUME NEW a \in Actor, RestoreSnapshot(a) PROVE TypeInv'
  <2>1. cache.id \in Nat /\ cache.state \in State
    BY <1>1, <1>6 DEF RestoreSnapshot, Snapshot
  <2> QED BY <1>1, <1>2, <1>6, <2>1 DEF RestoreSnapshot
<1>7. ASSUME NEW a \in Actor, FetchIncrement(a) PROVE TypeInv'
  <2>1. EventsAfter(log, mark[a]) \in Seq(Event)
    BY <1>1, EventsAfterType
  <2> QED BY <1>1, <1>2, <1>7, <2>1 DEF FetchIncrement
<1>8. ASSUME NEW a \in Actor, FetchAll(a) PROVE TypeInv'
  BY <1>1, <1>2, <1>8 DEF FetchAll
<1>9. ASSUME NEW a \in Actor, ApplyNext(a) PROVE TypeInv'
  <2>1. Head(todo[a]) \in Event /\ Tail(todo[a]) \in Seq(Event)
    BY <1>1, <1>9, HeadTailProperties DEF ApplyNext
  <2>2. Apply(st[a], Head(todo[a])) \in State
    BY <1>1, <2>1, ApplyType
  <2> QED BY <1>1, <1>2, <1>9, <2>1, <2>2 DEF ApplyNext
<1>10. ASSUME NEW a \in Actor, NEW c \in Menu, ProcessCommand(a, c) PROVE TypeInv'
  <2>0. PICK fresh \in FreshFor(c) : \E e \in Outcome(st[a], c, fresh, minted + 1) :
          Insert(e) /\ todo' = [todo EXCEPT ![a] = <<[e EXCEPT !.id = minted + 1]>>]
    BY <1>10 DEF ProcessCommand
  <2>1. PICK e \in Outcome(st[a], c, fresh, minted + 1) :
          Insert(e) /\ todo' = [todo EXCEPT ![a] = <<[e EXCEPT !.id = minted + 1]>>]
    BY <2>0
  <2>2. e \in Event
    <3>1. IsCommand(c) /\ minted + 1 \in Nat /\ st[a] \in State
      BY <1>1, MenuAssumption
    <3>2. c.cap = "core.create" => fresh \in Block
      BY DEF FreshFor, Mentioned
    <3> QED BY <2>1, <3>1, <3>2, OutcomeType
  <2>3. /\ [e EXCEPT !.id = minted + 1] \in Event
        /\ log' \in Seq(Event) /\ log' # <<>> /\ minted' \in Nat
    BY <1>1, <2>1, <2>2, InsertType
  <2>4. <<[e EXCEPT !.id = minted + 1]>> \in Seq(Event)
    BY <2>3
  <2> QED BY <1>1, <1>2, <1>10, <2>1, <2>3, <2>4 DEF ProcessCommand, Serving
<1>11. ASSUME NEW a \in Actor, CloseRead(a) PROVE TypeInv'
  <2>1. log # <<>>
    BY <1>2, <1>11 DEF CloseRead, Serving
  <2>2. log[Len(log)].id \in Nat
    <3>1. Len(log) \in 1..Len(log)
      BY <1>1, <2>1, EmptySeq
    <3> QED BY <1>1, <3>1, ElementOfSeq DEF Event
  <2> QED BY <1>1, <1>2, <1>11, <2>2 DEF CloseRead, Serving
<1>12. ASSUME NEW a \in Actor, CloseSave(a) PROVE TypeInv'
  <2>1. cache' \in Snapshot \cup {None}
    <3>1. mark[a] \in Nat /\ st[a] \in State
      BY <1>1, <1>2, <1>12 DEF CloseSave
    <3> QED BY <1>1, <1>12, <3>1 DEF CloseSave, Snapshot
  <2> QED BY <1>1, <1>2, <1>12, <2>1, EmptyType DEF CloseSave
<1>13. ASSUME NEW a \in Actor, Crash(a) PROVE TypeInv'
  BY <1>1, <1>2, <1>13, EmptyType, EmptySeq DEF Crash
<1>14. ASSUME CacheLost PROVE TypeInv'
  BY <1>1, <1>2, <1>14 DEF CacheLost
<1>15. ASSUME UNCHANGED vars PROVE TypeInv'
  BY <1>1, <1>2, <1>15 DEF vars
<1>16. ASSUME NEW a \in Actor, FetchFallback(a) PROVE TypeInv'
  BY <1>1, <1>2, <1>16, EmptyType DEF FetchFallback
<1> QED
  BY <1>3, <1>4, <1>5, <1>6, <1>7, <1>8, <1>9, <1>10, <1>11, <1>12, <1>13,
     <1>14, <1>15, <1>16 DEF Next, Step, StartStep

(***************************************************************************)
(* Whatever commands clients send to however many actors, nothing but      *)
(* well-formed events reaches the log and nothing but well-formed states   *)
(* the projections and the snapshot; an actor that starts or stops never   *)
(* finds the store empty (process_command, save_cache_snapshot).           *)
(***************************************************************************)
THEOREM TypesKept == Spec => []TypeOK
<1>1. TypeInv => TypeOK
  BY DEF TypeInv
<1> QED BY <1>1, TypeInit, TypeNext, PTL DEF Spec

-----------------------------------------------------------------------------
(***************************************************************************)
(* A project with one actor at a time: the state served is the replay of   *)
(* the log, the snapshot agrees with it, the link graph is sound, and the  *)
(* promise of EventSourcing is kept, for every number of editors, blocks   *)
(* and texts, every registry, every set of commands and every log length.  *)
(***************************************************************************)

OneActor == \E a : Actor = {a}

-----------------------------------------------------------------------------
(***************************************************************************)
(* The invariant.                                                          *)
(***************************************************************************)

\* A log whose events were each made from the state the log led to.
LogSound(l) ==
    /\ \A i \in 1..Len(l) : Fits(History(l)[i - 1], l[i])
    /\ \A i \in 0..Len(l) : /\ ParentsMirrorChildren(History(l)[i])
                            /\ Acyclic(History(l)[i])
    /\ \A i \in 0..Len(l) : \A b \in Block :
          Exists(History(l)[i], b) => \E j \in 1..Len(l) : l[j].entity = b

\* Event ids come from the counter and are never used twice.
IdsSound(l, n) ==
    /\ \A i \in 1..Len(l) : l[i].id \in Nat /\ l[i].id <= n
    /\ \A i, j \in 1..Len(l) : l[i].id = l[j].id => i = j

\* State s and the events in hand, t, make up the log.
Covers(s, t, l) ==
    \E k \in 0..Len(l) : s = History(l)[k] /\ t = SubSeq(l, k + 1, Len(l))

SeedCaps == {"editor.create", "core.grant"}

ActorSound(a) ==
    /\ phase[a] \notin {"seeding", "up"} => todo[a] = <<>>
    /\ phase[a] = "seeding" =>
          \A i \in 1..Len(todo[a]) : todo[a][i].cap \in SeedCaps
    /\ phase[a] \in {"down", "seeding", "spawning"} => st[a] = Empty
    /\ phase[a] = "restored" =>
          \E i \in 1..Len(log) : log[i].id = mark[a] /\ st[a] = History(log)[i]
    /\ phase[a] = "up" => Covers(st[a], todo[a], log)
    /\ phase[a] = "closing" => mark[a] = log[Len(log)].id /\ st[a] = Replay(log)

SoloInv ==
    /\ TypeInv
    /\ LogSound(log)
    /\ IdsSound(log, minted)
    /\ SnapshotCoherent
    /\ \A a \in Actor : ActorSound(a)

-----------------------------------------------------------------------------
(***************************************************************************)
(* Facts about commands and logs.                                          *)
(***************************************************************************)

(***************************************************************************)
(* A sound log stays sound when an event that fits its end is appended.    *)
(***************************************************************************)
LEMMA LogSoundAppend ==
  ASSUME NEW l \in Seq(Event), LogSound(l), NEW e \in Event, Fits(Replay(l), e)
  PROVE  LogSound(Append(l, e))
<1> DEFINE k == Append(l, e)
           n == Len(l)
<1>1. /\ n \in Nat /\ k \in Seq(Event) /\ Len(k) = n + 1
      /\ \A i \in 1..n : k[i] = l[i]
      /\ k[n + 1] = e
  BY AppendProperties, LenProperties
<1>2. /\ \A i \in 0..n : History(k)[i] = History(l)[i]
      /\ History(k)[n + 1] = Apply(History(l)[n], e)
  BY HistoryAppend
<1>3. Replay(l) = History(l)[n] /\ History(l)[n] \in State
  BY <1>1, HistoryType DEF Replay
<1> HIDE DEF k, n
<1>4. ASSUME NEW i \in 1..(n + 1) PROVE Fits(History(k)[i - 1], k[i])
  <2>1. CASE i = n + 1
    BY <1>1, <1>2, <1>3, <2>1
  <2>2. CASE i # n + 1
    <3>1. i \in 1..n /\ i - 1 \in 0..n
      BY <1>1, <2>2
    <3> QED BY <1>1, <1>2, <3>1 DEF LogSound, n
  <2> QED BY <2>1, <2>2
<1>5. ASSUME NEW i \in 0..(n + 1)
      PROVE  ParentsMirrorChildren(History(k)[i]) /\ Acyclic(History(k)[i])
  <2>1. CASE i = n + 1
    <3>1. ParentsMirrorChildren(History(l)[n]) /\ Acyclic(History(l)[n])
      BY <1>1 DEF LogSound, n
    <3> QED BY <1>2, <1>3, <2>1, <3>1, ApplyKeepsGraph
  <2>2. CASE i # n + 1
    <3>1. i \in 0..n
      BY <1>1, <2>2
    <3> QED BY <1>2, <3>1 DEF LogSound, n
  <2> QED BY <2>1, <2>2
<1>6. ASSUME NEW i \in 0..(n + 1), NEW b \in Block, Exists(History(k)[i], b)
      PROVE  \E j \in 1..(n + 1) : k[j].entity = b
  <2>1. CASE i \in 0..n
    <3>1. PICK j \in 1..n : l[j].entity = b
      BY <1>2, <1>6, <2>1 DEF LogSound, n
    <3> QED BY <1>1, <3>1
  <2>2. CASE i = n + 1
    <3>1. Exists(History(l)[n], b) \/ e.entity = b
      BY <1>2, <1>3, <1>6, <2>2, ApplyExists
    <3>2. CASE e.entity = b
      BY <1>1, <3>2
    <3>3. CASE Exists(History(l)[n], b)
      <4>1. PICK j \in 1..n : l[j].entity = b
        BY <1>1, <3>3 DEF LogSound, n
      <4> QED BY <1>1, <4>1
    <3> QED BY <3>1, <3>2, <3>3
  <2> QED BY <1>1, <2>1, <2>2
<1>7. LogSound(k)
  BY <1>1, <1>4, <1>5, <1>6 DEF LogSound
<1> QED BY <1>7 DEF k

(***************************************************************************)
(* The events after one that is in the log are the rest of the log.        *)
(***************************************************************************)
LEMMA EventsAfterFound ==
  ASSUME NEW l \in Seq(Event), NEW n, IdsSound(l, n), NEW i \in 1..Len(l)
  PROVE  EventsAfter(l, l[i].id) = SubSeq(l, i + 1, Len(l))
<1> DEFINE j == CHOOSE j \in 1..Len(l) : l[j].id = l[i].id
<1>1. j \in 1..Len(l) /\ l[j].id = l[i].id
  OBVIOUS
<1> HIDE DEF j
<1>2. j = i
  BY <1>1 DEF IdsSound
<1>3. EventsAfter(l, l[i].id) = SubSeq(l, j + 1, Len(l))
  BY DEF EventsAfter, j
<1> QED BY <1>2, <1>3

-----------------------------------------------------------------------------
(***************************************************************************)
(* The invariant is inductive for one actor.                               *)
(***************************************************************************)

\* The empty log: one state, nothing in it.
LEMMA EmptyLogSound == LogSound(<<>>) /\ \A n : IdsSound(<<>>, n)
<1>1. <<>> \in Seq(Event) /\ Len(<<>>) = 0
  BY EmptySeq
<1>2. History(<<>>)[0] = Empty
  BY <1>1, HistoryEquations
<1>3. \A b \in Block : ~Exists(Empty, b) /\ Kids(Empty, b) = {}
  BY DEF Empty, Exists, Kids
<1>4. ParentsMirrorChildren(Empty) /\ Acyclic(Empty)
  BY <1>3 DEF ParentsMirrorChildren, Acyclic, Empty
<1>5. LogSound(<<>>)
  BY <1>1, <1>2, <1>3, <1>4 DEF LogSound
<1>6. \A n : IdsSound(<<>>, n)
  BY <1>1 DEF IdsSound
<1> QED BY <1>5, <1>6

LEMMA SoloInit == Init => SoloInv
<1> SUFFICES ASSUME Init PROVE SoloInv
  OBVIOUS
<1>1. TypeInv
  BY TypeInit
<1>2. LogSound(log) /\ IdsSound(log, minted)
  BY EmptyLogSound DEF Init
<1>3. SnapshotCoherent
  BY DEF Init, SnapshotCoherent
<1>4. \A a \in Actor : ActorSound(a)
  BY DEF Init, ActorSound
<1> QED BY <1>1, <1>2, <1>3, <1>4 DEF SoloInv

\* A new id keeps the ids apart.
LEMMA IdsAppend ==
  ASSUME NEW l \in Seq(Event), NEW n \in Nat, IdsSound(l, n),
         NEW f \in Event, f.id = n + 1
  PROVE  IdsSound(Append(l, f), n + 1)
<1> DEFINE k == Append(l, f)
<1>1. /\ Len(l) \in Nat /\ Len(k) = Len(l) + 1
      /\ \A i \in 1..Len(l) : k[i] = l[i]
      /\ k[Len(l) + 1] = f
  BY AppendProperties, LenProperties
<1> HIDE DEF k
<1>2. \A i \in 1..(Len(l) + 1) : k[i].id \in Nat /\ k[i].id <= n + 1
  BY <1>1 DEF IdsSound
<1>3. \A i \in 1..Len(l) : k[i].id # k[Len(l) + 1].id
  BY <1>1 DEF IdsSound
<1>4. \A i, j \in 1..Len(l) : k[i].id = k[j].id => i = j
  BY <1>1 DEF IdsSound
<1>5. \A i, j \in 1..(Len(l) + 1) : k[i].id = k[j].id => i = j
  BY <1>1, <1>3, <1>4
<1>6. IdsSound(k, n + 1)
  BY <1>1, <1>2, <1>5 DEF IdsSound
<1> QED BY <1>6 DEF k

(***************************************************************************)
(* Inserting an event that fits the end of the log: the log stays sound    *)
(* and so does a snapshot taken of it before.                              *)
(***************************************************************************)
LEMMA InsertSound ==
  ASSUME TypeInv, LogSound(log), IdsSound(log, minted), SnapshotCoherent,
         NEW e \in Event, Fits(Replay(log), e), Insert(e), UNCHANGED cache
  PROVE  LogSound(log)' /\ IdsSound(log, minted)' /\ SnapshotCoherent'
<1> DEFINE f == [e EXCEPT !.id = minted + 1]
           n == Len(log)
<1>1. log \in Seq(Event) /\ minted \in Nat /\ n \in Nat
  BY LenProperties DEF TypeInv, TypeOK
<1>2. /\ f \in Event /\ f.id = minted + 1 /\ f.cap = e.cap
      /\ f.entity = e.entity /\ f.value = e.value
  BY <1>1 DEF Event
<1> HIDE DEF f
<1>3. log' = Append(log, f) /\ minted' = minted + 1
  BY DEF Insert, f
<1>4. Fits(Replay(log), f)
  BY <1>2 DEF Fits
<1>5. LogSound(log)'
  BY <1>1, <1>2, <1>3, <1>4, LogSoundAppend
<1>6. /\ Len(log') = n + 1
      /\ \A i \in 1..n : log'[i] = log[i]
      /\ log'[n + 1] = f
  BY <1>1, <1>2, <1>3, AppendProperties
<1>7. \A i \in 0..n : History(log')[i] = History(log)[i]
  BY <1>1, <1>2, <1>3, HistoryAppend
<1> HIDE DEF n
<1>8. IdsSound(log, minted)'
  BY <1>1, <1>2, <1>3, IdsAppend
<1>9. SnapshotCoherent'
  <2> SUFFICES ASSUME cache # None
               PROVE  \E i \in 1..(n + 1) :
                         log'[i].id = cache.id /\ cache.state = History(log')[i]
    BY <1>6 DEF SnapshotCoherent
  <2>1. PICK i \in 1..n : log[i].id = cache.id /\ cache.state = History(log)[i]
    BY DEF SnapshotCoherent, n
  <2>2. i \in 1..(n + 1) /\ i \in 0..n
    BY <1>1
  <2> QED BY <1>6, <1>7, <2>1, <2>2
<1> QED BY <1>5, <1>8, <1>9

\* An actor with nothing in hand has applied the whole log.
LEMMA ServedWhole ==
  ASSUME NEW l \in Seq(Event), NEW s, Covers(s, <<>>, l)
  PROVE  s = Replay(l)
<1>1. PICK k \in 0..Len(l) : s = History(l)[k] /\ <<>> = SubSeq(l, k + 1, Len(l))
  BY DEF Covers
<1>2. Len(l) \in Nat
  BY LenProperties
<1>3. CASE k = Len(l)
  BY <1>1, <1>3 DEF Replay
<1>4. CASE k # Len(l)
  <2>1. k + 1 \in 1..Len(l) /\ Len(l) \in (k + 1)..Len(l)
    BY <1>2, <1>4
  <2>2. \A i \in (k + 1)..Len(l) : l[i] \in Event
    BY <1>2, <2>1, ElementOfSeq
  <2>3. Len(SubSeq(l, k + 1, Len(l))) = Len(l) - (k + 1) + 1
    BY <1>2, <2>1, <2>2, SubSeqProperties
  <2>4. Len(l) - (k + 1) + 1 # 0
    BY <1>2, <2>1
  <2>5. Len(<<>>) = 0
    BY EmptySeq
  <2> QED BY <1>1, <2>3, <2>4, <2>5
<1> QED BY <1>3, <1>4

\* Applying the next event in hand.
LEMMA CoversApply ==
  ASSUME NEW l \in Seq(Event), NEW s, NEW t, t # <<>>, Covers(s, t, l)
  PROVE  Covers(Apply(s, Head(t)), Tail(t), l)
<1>1. PICK k \in 0..Len(l) : s = History(l)[k] /\ t = SubSeq(l, k + 1, Len(l))
  BY DEF Covers
<1>2. Len(l) \in Nat
  BY LenProperties
<1>3. k # Len(l)
  BY <1>1, <1>2, SubSeqEmpty
<1>4. k + 1 \in 1..Len(l) /\ Len(l) \in (k + 1)..Len(l)
  BY <1>2, <1>3
<1>5. Head(t) = l[k + 1] /\ Tail(t) = SubSeq(l, k + 2, Len(l))
  <2>1. Head(SubSeq(l, k + 1, Len(l))) = l[k + 1]
    BY <1>4, HeadTailOfSubSeq
  <2>2. Tail(SubSeq(l, k + 1, Len(l))) = SubSeq(l, k + 1 + 1, Len(l))
    BY <1>4, HeadTailOfSubSeq
  <2>3. k + 1 + 1 = k + 2
    BY <1>2
  <2> QED BY <1>1, <2>1, <2>2, <2>3
<1>6. History(l)[k + 1] = Apply(History(l)[k], l[k + 1])
  <2>1. History(l)[k + 1] = Apply(History(l)[k + 1 - 1], l[k + 1])
    BY <1>4, HistoryEquations
  <2>2. k + 1 - 1 = k
    BY <1>2
  <2> QED BY <2>1, <2>2
<1>7. k + 1 \in 0..Len(l) /\ k + 1 + 1 = k + 2
  BY <1>2, <1>4
<1> QED BY <1>1, <1>5, <1>6, <1>7 DEF Covers

LEMMA SoloNext ==
  ASSUME OneActor, SoloInv, [Next]_vars
  PROVE  SoloInv'
<1>1. TypeInv /\ TypeInv'
  BY TypeNext DEF SoloInv
<1>2. /\ LogSound(log) /\ IdsSound(log, minted) /\ SnapshotCoherent
      /\ \A a \in Actor : ActorSound(a)
  BY DEF SoloInv
<1>3. /\ log \in Seq(Event) /\ minted \in Nat /\ Len(log) \in Nat
      /\ phase \in [Actor -> Phase] /\ st \in [Actor -> State]
      /\ todo \in [Actor -> Seq(Event)] /\ mark \in [Actor -> Nat \cup {None}]
  BY <1>1, LenProperties DEF TypeInv, TypeOK
\* A step that leaves the log alone, and the snapshot unless it is removed.
<1>4. ASSUME UNCHANGED <<log, minted>>, UNCHANGED cache \/ cache' = None,
             \A a \in Actor : ActorSound(a)'
      PROVE  SoloInv'
  BY <1>1, <1>2, <1>4 DEF SoloInv, SnapshotCoherent
\* A step that inserts an event.
<1>5. ASSUME NEW e \in Event, Fits(Replay(log), e), Insert(e), UNCHANGED cache,
             \A a \in Actor : ActorSound(a)'
      PROVE  SoloInv'
  BY <1>1, <1>2, <1>5, InsertSound DEF SoloInv
<1>6. ASSUME NEW a \in Actor, OpenNew(a) PROVE SoloInv'
  <2>1. Actor = {a}
    BY DEF OneActor
  <2>2. PICK order \in RegistryOrders : todo' = [todo EXCEPT ![a] = Seeds(order)]
    BY <1>6 DEF OpenNew
  <2>3. ActorSound(a)'
    BY <1>2, <1>3, <1>6, <2>2, SeedsType DEF OpenNew, ActorSound, SeedCaps
  <2> QED BY <1>4, <1>6, <2>1, <2>3 DEF OpenNew
<1>7. ASSUME NEW a \in Actor, OpenExisting(a) PROVE SoloInv'
  <2>1. Actor = {a}
    BY DEF OneActor
  <2>2. ActorSound(a)'
    BY <1>2, <1>3, <1>7 DEF OpenExisting, ActorSound
  <2> QED BY <1>4, <1>7, <2>1, <2>2 DEF OpenExisting
<1>8. ASSUME NEW a \in Actor, SeedNext(a) PROVE SoloInv'
  <2>1. Actor = {a}
    BY DEF OneActor
  <2>2. todo[a] # <<>> /\ todo[a] \in Seq(Event)
    BY <1>1, <1>3, <1>8 DEF SeedNext, TypeInv
  <2>3. /\ Head(todo[a]) \in Event
        /\ Len(Tail(todo[a])) = Len(todo[a]) - 1
        /\ \A i \in 1..Len(Tail(todo[a])) : Tail(todo[a])[i] = todo[a][i + 1]
        /\ Tail(todo[a]) \in Seq(Event)
    BY <2>2, HeadTailProperties
  <2>4. Len(todo[a]) \in Nat \ {0}
    BY <2>2, EmptySeq
  <2>5. \A i \in 1..Len(todo[a]) : todo[a][i].cap \in SeedCaps
    BY <1>2, <1>8 DEF SeedNext, ActorSound
  <2>6. Head(todo[a]).cap \in SeedCaps
    <3>1. 1 \in 1..Len(todo[a])
      BY <2>4
    <3>2. Head(todo[a]) = todo[a][1]
      BY <2>2
    <3> QED BY <2>5, <3>1, <3>2
  <2>7. Fits(Replay(log), Head(todo[a]))
    BY <2>6 DEF Fits, SeedCaps
  <2>8. \A i \in 1..Len(Tail(todo[a])) : Tail(todo[a])[i].cap \in SeedCaps
    <3>1. \A i \in 1..Len(Tail(todo[a])) : i + 1 \in 1..Len(todo[a])
      BY <2>3, <2>4
    <3> QED BY <2>3, <2>5, <3>1
  <2>9. Len(todo[a]) = 1 => Tail(todo[a]) = <<>>
    <3>1. Tail(todo[a]) # <<>> => Len(Tail(todo[a])) \in Nat \ {0}
      BY <2>3, EmptySeq
    <3> QED BY <2>3, <3>1
  <2>10. st'[a] = Empty /\ todo'[a] = Tail(todo[a])
    BY <1>2, <1>3, <1>8 DEF SeedNext, ActorSound
  <2>11. phase'[a] = IF Len(todo[a]) = 1 THEN "spawning" ELSE "seeding"
    BY <1>3, <1>8 DEF SeedNext
  <2>12. ActorSound(a)'
    BY <2>8, <2>9, <2>10, <2>11 DEF ActorSound
  <2> QED BY <1>5, <1>8, <2>1, <2>3, <2>7, <2>12 DEF SeedNext
<1>9. ASSUME NEW a \in Actor, RestoreSnapshot(a) PROVE SoloInv'
  <2>1. Actor = {a}
    BY DEF OneActor
  <2>2. \E i \in 1..Len(log) : log[i].id = cache.id /\ cache.state = History(log)[i]
    BY <1>2, <1>9 DEF RestoreSnapshot, SnapshotCoherent
  <2>3. ActorSound(a)'
    BY <1>2, <1>3, <1>9, <2>2 DEF RestoreSnapshot, ActorSound
  <2> QED BY <1>4, <1>9, <2>1, <2>3 DEF RestoreSnapshot
<1>10. ASSUME NEW a \in Actor, FetchIncrement(a) PROVE SoloInv'
  <2>1. Actor = {a}
    BY DEF OneActor
  <2>2. PICK i \in 1..Len(log) : log[i].id = mark[a] /\ st[a] = History(log)[i]
    BY <1>2, <1>10 DEF FetchIncrement, ActorSound
  <2>3. EventsAfter(log, mark[a]) = SubSeq(log, i + 1, Len(log))
    BY <1>2, <1>3, <2>2, EventsAfterFound
  <2>4. Covers(st[a], EventsAfter(log, mark[a]), log)
    BY <1>3, <2>2, <2>3 DEF Covers
  <2>5. ActorSound(a)'
    BY <1>3, <1>10, <2>4 DEF FetchIncrement, ActorSound, Covers
  <2> QED BY <1>4, <1>10, <2>1, <2>5 DEF FetchIncrement
<1>11. Covers(Empty, log, log)
  <2>1. History(log)[0] = Empty
    BY <1>3, HistoryEquations
  <2>2. SubSeq(log, 0 + 1, Len(log)) = log
    BY <1>3, SubSeqFull
  <2> QED BY <1>3, <2>1, <2>2 DEF Covers
<1>12. ASSUME NEW a \in Actor, FetchAll(a) PROVE SoloInv'
  <2>1. Actor = {a}
    BY DEF OneActor
  <2>2. st[a] = Empty
    BY <1>2, <1>12 DEF FetchAll, ActorSound
  <2>3. ActorSound(a)'
    BY <1>3, <1>12, <1>11, <2>2 DEF FetchAll, ActorSound, Covers
  <2> QED BY <1>4, <1>12, <2>1, <2>3 DEF FetchAll
<1>13. ASSUME NEW a \in Actor, FetchFallback(a) PROVE SoloInv'
  <2>1. Actor = {a}
    BY DEF OneActor
  <2>2. ActorSound(a)'
    BY <1>3, <1>11, <1>13 DEF FetchFallback, ActorSound, Covers
  <2> QED BY <1>4, <1>13, <2>1, <2>2 DEF FetchFallback
<1>14. ASSUME NEW a \in Actor, ApplyNext(a) PROVE SoloInv'
  <2>1. Actor = {a}
    BY DEF OneActor
  <2>2. Covers(st[a], todo[a], log) /\ todo[a] # <<>>
    BY <1>2, <1>14 DEF ApplyNext, ActorSound
  <2>3. Covers(Apply(st[a], Head(todo[a])), Tail(todo[a]), log)
    BY <1>3, <2>2, CoversApply
  <2>4. ActorSound(a)'
    BY <1>3, <1>14, <2>3 DEF ApplyNext, ActorSound, Covers
  <2> QED BY <1>4, <1>14, <2>1, <2>4 DEF ApplyNext
<1>15. ASSUME NEW a \in Actor, NEW c \in Menu, ProcessCommand(a, c) PROVE SoloInv'
  <2>1. Actor = {a}
    BY DEF OneActor
  <2>2. PICK fresh \in FreshFor(c) : \E e \in Outcome(st[a], c, fresh, minted + 1) :
          Insert(e) /\ todo' = [todo EXCEPT ![a] = <<[e EXCEPT !.id = minted + 1]>>]
    BY <1>15 DEF ProcessCommand
  <2>3. PICK e \in Outcome(st[a], c, fresh, minted + 1) :
          Insert(e) /\ todo' = [todo EXCEPT ![a] = <<[e EXCEPT !.id = minted + 1]>>]
    BY <2>2
  <2>4. phase[a] = "up" /\ todo[a] = <<>>
    BY <1>15 DEF ProcessCommand, Serving
  <2>5. st[a] = Replay(log)
    <3>1. Covers(st[a], <<>>, log)
      BY <1>2, <2>4 DEF ActorSound
    <3> QED BY <1>3, <3>1, ServedWhole
  <2>6. IsCommand(c) /\ minted + 1 \in Nat /\ st[a] \in State
    BY <1>3, MenuAssumption
  <2>7. c.cap = "core.create" => fresh \in Block /\ ~Exists(st[a], fresh)
    <3> SUFFICES ASSUME c.cap = "core.create"
                 PROVE  fresh \in Block /\ ~Exists(st[a], fresh)
      OBVIOUS
    <3>1. fresh \in Block \ Mentioned(log)
      BY DEF FreshFor
    <3>2. Len(log) \in 0..Len(log)
      BY <1>3
    <3> QED BY <1>2, <2>5, <3>1, <3>2 DEF LogSound, Replay, Mentioned
  <2>8. e \in Event /\ e.id = minted + 1
    <3>1. c.cap = "core.create" => fresh \in Block
      BY <2>7
    <3>2. e \in Event
      BY <2>6, <3>1, OutcomeType
    <3>3. e.id = minted + 1
      BY DEF Outcome
    <3> QED BY <3>2, <3>3
  <2>9. Fits(Replay(log), e)
    <3>1. c.cap = "core.create" => ~Exists(st[a], fresh)
      BY <2>7
    <3>2. Fits(st[a], e)
      BY <2>3, <2>6, <3>1, OutcomeFits
    <3> QED BY <2>5, <3>2
  <2> DEFINE f == [e EXCEPT !.id = minted + 1]
  <2>10. f \in Event
    BY <1>3, <2>8 DEF Event
  <2>11. log' = Append(log, f) /\ todo'[a] = <<f>>
    BY <1>3, <2>3 DEF Insert
  <2> HIDE DEF f
  <2>12. Covers(st[a], <<f>>, log')
    <3>1. /\ log' \in Seq(Event) /\ Len(log') = Len(log) + 1
          /\ log'[Len(log) + 1] = f
      BY <1>3, <2>10, <2>11, AppendProperties
    <3>2. History(log')[Len(log)] = History(log)[Len(log)]
      BY <1>3, <2>10, <2>11, HistoryAppend
    <3>3. SubSeq(log', Len(log) + 1, Len(log')) = <<f>>
      <4>1. \A i \in (Len(log) + 1)..(Len(log) + 1) : log'[i] \in Event
        BY <1>3, <2>10, <3>1
      <4>2. /\ SubSeq(log', Len(log) + 1, Len(log) + 1) \in Seq(Event)
            /\ Len(SubSeq(log', Len(log) + 1, Len(log) + 1)) = 1
            /\ SubSeq(log', Len(log) + 1, Len(log) + 1)[1] = f
        BY <1>3, <3>1, <4>1, SubSeqProperties
      <4>3. <<f>> \in Seq(Event) /\ Len(<<f>>) = 1 /\ <<f>>[1] = f
        BY <2>10
      <4>4. \A i \in 1..1 :
              SubSeq(log', Len(log) + 1, Len(log) + 1)[i] = <<f>>[i]
        BY <4>2, <4>3
      <4>5. SubSeq(log', Len(log) + 1, Len(log) + 1) = <<f>>
        BY <4>2, <4>3, <4>4, SeqEqual
      <4> QED BY <3>1, <4>5
    <3>4. Len(log) \in 0..Len(log')
      BY <1>3, <3>1
    <3> QED BY <2>5, <3>2, <3>3, <3>4 DEF Covers, Replay
  <2>13. phase'[a] = "up" /\ st'[a] = st[a]
    BY <1>15, <2>4 DEF ProcessCommand
  <2>14. ActorSound(a)'
    BY <2>11, <2>12, <2>13 DEF ActorSound
  <2> QED BY <1>5, <1>15, <2>1, <2>3, <2>8, <2>9, <2>14 DEF ProcessCommand
<1>16. ASSUME NEW a \in Actor, CloseRead(a) PROVE SoloInv'
  <2>1. Actor = {a}
    BY DEF OneActor
  <2>2. st[a] = Replay(log) /\ todo[a] = <<>>
    <3>1. Covers(st[a], <<>>, log) /\ todo[a] = <<>>
      BY <1>2, <1>16 DEF CloseRead, Serving, ActorSound
    <3> QED BY <1>3, <3>1, ServedWhole
  <2>3. ActorSound(a)'
    BY <1>3, <1>16, <2>2 DEF CloseRead, ActorSound
  <2> QED BY <1>4, <1>16, <2>1, <2>3 DEF CloseRead
<1>17. ASSUME NEW a \in Actor, CloseSave(a) PROVE SoloInv'
  <2>1. Actor = {a}
    BY DEF OneActor
  <2>2. mark[a] = log[Len(log)].id /\ st[a] = Replay(log) /\ todo[a] = <<>>
    BY <1>2, <1>17 DEF CloseSave, ActorSound
  <2>3. Len(log) \in 1..Len(log)
    <3>1. log # <<>>
      BY <1>1, <1>17 DEF CloseSave, TypeInv
    <3> QED BY <1>3, <3>1, EmptySeq
  <2>4. SnapshotCoherent'
    <3>1. CASE UNCHANGED cache
      BY <1>2, <1>17, <3>1 DEF CloseSave, SnapshotCoherent
    <3>2. CASE cache' = [id |-> mark[a], state |-> st[a]]
      BY <1>17, <2>2, <2>3, <3>2 DEF CloseSave, SnapshotCoherent, Replay
    <3> QED BY <1>17, <3>1, <3>2 DEF CloseSave
  <2>5. ActorSound(a)'
    BY <1>3, <1>17, <2>2 DEF CloseSave, ActorSound
  <2>6. LogSound(log)' /\ IdsSound(log, minted)'
    BY <1>2, <1>17 DEF CloseSave
  <2> QED BY <1>1, <2>1, <2>4, <2>5, <2>6 DEF SoloInv
<1>18. ASSUME NEW a \in Actor, Crash(a) PROVE SoloInv'
  <2>1. Actor = {a}
    BY DEF OneActor
  <2>2. ActorSound(a)'
    BY <1>3, <1>18 DEF Crash, ActorSound
  <2> QED BY <1>4, <1>18, <2>1, <2>2 DEF Crash
<1>19. ASSUME CacheLost PROVE SoloInv'
  <2>1. \A a \in Actor : ActorSound(a)'
    BY <1>2, <1>19 DEF CacheLost, ActorSound
  <2> QED BY <1>4, <1>19, <2>1 DEF CacheLost
<1>20. ASSUME UNCHANGED vars PROVE SoloInv'
  <2>1. \A a \in Actor : ActorSound(a)'
    BY <1>2, <1>20 DEF vars, ActorSound
  <2> QED BY <1>4, <1>20, <2>1 DEF vars
<1> QED
  BY <1>6, <1>7, <1>8, <1>9, <1>10, <1>12, <1>13, <1>14, <1>15, <1>16, <1>17,
     <1>18, <1>19, <1>20 DEF Next, Step, StartStep

-----------------------------------------------------------------------------
(***************************************************************************)
(* The properties.                                                         *)
(***************************************************************************)

LEMMA ServedState ==
  ASSUME SoloInv, NEW a \in Actor, Serving(a)
  PROVE  st[a] = Replay(log)
<1>1. Covers(st[a], <<>>, log)
  BY DEF SoloInv, ActorSound, Serving
<1>2. log \in Seq(Event)
  BY DEF SoloInv, TypeInv, TypeOK
<1> QED BY <1>1, <1>2, ServedWhole

LEMMA ServedGraph ==
  ASSUME SoloInv, NEW a \in Actor, Serving(a)
  PROVE  ParentsMirrorChildren(st[a]) /\ Acyclic(st[a])
<1>1. st[a] = History(log)[Len(log)]
  BY ServedState DEF Replay
<1>2. Len(log) \in 0..Len(log)
  BY LenProperties DEF SoloInv, TypeInv, TypeOK
<1> QED BY <1>1, <1>2 DEF SoloInv, LogSound

LEMMA SoloLinks == SoloInv => LinksKeepOthers
<1> SUFFICES ASSUME SoloInv, NEW i \in 1..Len(log)
             PROVE  LET before == Kids(History(log)[i - 1], log[i].entity)
                        after  == log[i].value.children
                    IN  /\ log[i].cap = "core.link" =>
                             \E c \in Block \ before : after = before \cup {c}
                        /\ log[i].cap = "core.unlink" =>
                             \E c \in Block : after = before \ {c}
  BY DEF LinksKeepOthers
<1>1. Fits(History(log)[i - 1], log[i])
  BY DEF SoloInv, LogSound
<1> QED BY <1>1 DEF Fits

(***************************************************************************)
(* The invariant holds in every run of a project with one actor.           *)
(***************************************************************************)
THEOREM SoloSafety ==
  ASSUME OneActor
  PROVE  Spec => []SoloInv
<1>1. SoloInv /\ [Next]_vars => SoloInv'
  BY SoloNext
<1> QED BY <1>1, SoloInit, PTL DEF Spec

(***************************************************************************)
(* However the actor came to serve -- from a snapshot and the events after *)
(* it, from the whole log, or command by command -- the state it answers   *)
(* from is the replay of the log (ElfileEngineActor::new,                  *)
(* process_command).                                                       *)
(***************************************************************************)
THEOREM ServesReplay ==
  ASSUME OneActor
  PROVE  Spec => []ViewIsReplay
<1>1. SoloInv => ViewIsReplay
  BY ServedState DEF ViewIsReplay
<1> QED BY <1>1, SoloSafety, PTL

(***************************************************************************)
(* The snapshot on disk is the replay of the log up to the event it is     *)
(* filed under, through every crash and restart (save_cache_snapshot).     *)
(***************************************************************************)
THEOREM SnapshotsAgree ==
  ASSUME OneActor
  PROVE  Spec => []SnapshotCoherent
<1>1. SoloInv => SnapshotCoherent
  BY DEF SoloInv
<1> QED BY <1>1, SoloSafety, PTL

(***************************************************************************)
(* The reverse index of a served state is the mirror of its children       *)
(* lists, after any sequence of creates, links, unlinks and deletes, and   *)
(* whether it comes from replay or from a snapshot (apply_event).          *)
(***************************************************************************)
THEOREM IndexStaysMirrored ==
  ASSUME OneActor
  PROVE  Spec => []IndexAgrees
<1>1. SoloInv => IndexAgrees
  BY ServedGraph DEF IndexAgrees
<1> QED BY <1>1, SoloSafety, PTL

(***************************************************************************)
(* The implement relation of a served state has no cycle, on any number of *)
(* blocks (check_link_cycle).                                              *)
(***************************************************************************)
THEOREM GraphStaysSound ==
  ASSUME OneActor
  PROVE  Spec => []ImplementAcyclic
<1>1. SoloInv => ImplementAcyclic
  BY ServedGraph DEF ImplementAcyclic
<1> QED BY <1>1, SoloSafety, PTL

(***************************************************************************)
(* Link and unlink events, which carry a whole children map, change one    *)
(* child of what the log held before them (handle_link, handle_unlink).    *)
(***************************************************************************)
THEOREM LinksAreSingle ==
  ASSUME OneActor
  PROVE  Spec => []LinksKeepOthers
BY SoloLinks, SoloSafety, PTL

-----------------------------------------------------------------------------
(***************************************************************************)
(* Engine implements EventSourcing.                                        *)
(***************************************************************************)

LEMMA ViewOfOne ==
  ASSUME NEW a, Actor = {a}
  PROVE  View = IF Serving(a) THEN st[a] ELSE None
BY DEF View

LEMMA PromiseInit ==
  ASSUME OneActor, Init
  PROVE  Promise!Init
<1>1. \A a \in Actor : ~Serving(a)
  BY DEF Init, Serving
<1>2. View = None
  BY <1>1 DEF View
<1> QED BY <1>2 DEF Init, Promise!Init

\* A step that changes the log inserts an event, and its actor serves later.
LEMMA LogGrows ==
  ASSUME TypeInv, [Next]_vars, NEW a, Actor = {a}
  PROVE  UNCHANGED log \/ \E e : Insert(e) /\ ~Serving(a)'
<1>1. phase \in [Actor -> Phase] /\ todo \in [Actor -> Seq(Event)] /\ a \in Actor
  BY DEF TypeInv, TypeOK
<1>2. CASE SeedNext(a)
  <2>1. phase'[a] \in {"spawning", "seeding"}
    BY <1>1, <1>2 DEF SeedNext
  <2> QED BY <1>2, <2>1 DEF SeedNext, Serving
<1>3. ASSUME NEW c \in Menu, ProcessCommand(a, c)
      PROVE  UNCHANGED log \/ \E e : Insert(e) /\ ~Serving(a)'
  <2>1. PICK e : /\ Insert(e)
                 /\ todo' = [todo EXCEPT ![a] = <<[e EXCEPT !.id = minted + 1]>>]
    BY <1>3 DEF ProcessCommand
  <2>2. todo'[a] # <<>>
    BY <1>1, <2>1
  <2> QED BY <2>1, <2>2 DEF Serving
<1>4. CASE ~SeedNext(a) /\ ~ \E c \in Menu : ProcessCommand(a, c)
  BY <1>4 DEF Next, Step, StartStep, vars, OpenNew, OpenExisting, RestoreSnapshot,
              FetchIncrement, FetchAll, FetchFallback, ApplyNext, CloseRead,
              CloseSave, Crash, CacheLost
<1> QED BY <1>2, <1>3, <1>4

\* What is there before an append is there after it.
LEMMA AppendKeeps ==
  ASSUME NEW S, NEW l \in Seq(S), NEW e
  PROVE  Len(Append(l, e)) = Len(l) + 1 /\ SubSeq(Append(l, e), 1, Len(l)) = l
<1> DEFINE U == S \cup {e}
           k == Append(l, e)
<1>1. l \in Seq(U) /\ Len(l) \in Nat
  BY SeqMonotonic, LenProperties
<1>2. /\ k \in Seq(U) /\ Len(k) = Len(l) + 1
      /\ \A i \in 1..Len(l) : k[i] = l[i]
  BY <1>1, AppendProperties
<1> HIDE DEF k, U
<1>3. \A i \in 1..Len(l) : k[i] \in U
  BY <1>1, <1>2, ElementOfSeq
<1>4. /\ SubSeq(k, 1, Len(l)) \in Seq(U)
      /\ Len(SubSeq(k, 1, Len(l))) = IF 1 <= Len(l) THEN Len(l) - 1 + 1 ELSE 0
      /\ \A i \in 1..(Len(l) - 1 + 1) : SubSeq(k, 1, Len(l))[i] = k[1 + i - 1]
  BY <1>1, <1>3, SubSeqProperties
<1>5. Len(SubSeq(k, 1, Len(l))) = Len(l)
  BY <1>1, <1>4
<1>6. \A i \in 1..Len(l) : SubSeq(k, 1, Len(l))[i] = l[i]
  <2> SUFFICES ASSUME NEW i \in 1..Len(l) PROVE SubSeq(k, 1, Len(l))[i] = l[i]
    OBVIOUS
  <2>1. i \in 1..(Len(l) - 1 + 1) /\ 1 + i - 1 = i
    BY <1>1
  <2> QED BY <1>2, <1>4, <2>1
<1>7. SubSeq(k, 1, Len(l)) = l
  BY <1>1, <1>4, <1>5, <1>6, SeqEqual
<1> QED BY <1>2, <1>7 DEF k

LEMMA PromiseNext ==
  ASSUME OneActor, SoloInv, [Next]_vars
  PROVE  [Promise!Next]_(Promise!vars)
<1>1. SoloInv'
  BY SoloNext
<1>2. PICK a : Actor = {a}
  BY DEF OneActor
<1>3. /\ View = IF Serving(a) THEN st[a] ELSE None
      /\ (View = IF Serving(a) THEN st[a] ELSE None)'
  BY <1>2 DEF View
<1>4. Serving(a) => View = Replay(log)
  BY <1>2, <1>3, ServedState
<1>5. Serving(a)' => View' = Replay(log')
  <2> SUFFICES ASSUME Serving(a)' PROVE View' = Replay(log')
    OBVIOUS
  <2>1. Covers(st'[a], <<>>, log')
    BY <1>1, <1>2 DEF SoloInv, ActorSound, Serving
  <2>2. log' \in Seq(Event)
    BY <1>1 DEF SoloInv, TypeInv, TypeOK
  <2> QED BY <1>3, <2>1, <2>2, ServedWhole
<1>6. CASE UNCHANGED log
  <2>1. Replay(log') = Replay(log)
    BY <1>6
  <2> QED BY <1>3, <1>4, <1>5, <1>6, <2>1
          DEF Promise!Next, Promise!Reveal, Promise!Withdraw, Promise!vars
<1>7. CASE \E e : Insert(e) /\ ~Serving(a)'
  <2>1. PICK e : Insert(e) /\ ~Serving(a)'
    BY <1>7
  <2>2. View' = None
    BY <1>3, <2>1
  <2>3. Promise!Commit
    <3>1. log' = Append(log, [e EXCEPT !.id = minted + 1])
      BY <2>1 DEF Insert
    <3>2. log \in Seq(Event)
      BY DEF SoloInv, TypeInv, TypeOK
    <3> QED BY <2>2, <3>1, <3>2, AppendKeeps DEF Promise!Commit
  <2> QED BY <2>3 DEF Promise!Next
<1> QED BY <1>2, <1>6, <1>7, LogGrows DEF SoloInv

(***************************************************************************)
(* What a client sees of the engine is one growing log and states that     *)
(* replay all of it: every step of Engine is a step of EventSourcing or    *)
(* changes nothing a client sees.                                          *)
(***************************************************************************)
THEOREM EngineKeepsPromise ==
  ASSUME OneActor
  PROVE  Spec => PromiseKept
<1>1. SoloInv /\ [Next]_vars => [Promise!Next]_(Promise!vars)
  BY PromiseNext
<1>2. Init => Promise!Init
  BY PromiseInit
<1> QED BY <1>1, <1>2, SoloSafety, PTL DEF Spec, PromiseKept, Promise!Spec

-----------------------------------------------------------------------------
(***************************************************************************)
(* What the checks, the handlers and the stamp see to, of an event made    *)
(* from a state.                                                           *)
(***************************************************************************)

\* The certificator's answer, read off the event.
Licensed(s, e) ==
    \/ LikeSeed(e)
    \/ /\ e.cap \in SystemLevel \/ e.entity = Wild
       /\ HasGrant(s, e.by, e.cap, Wild)
    \/ /\ e.cap \notin SystemLevel /\ e.entity \in Block
       /\ Exists(s, e.entity)
       /\ \/ s.blocks[e.entity].owner = e.by
          \/ HasGrant(s, e.by, e.cap, e.entity)

Writes == {"document.write", "task.write"}

About(cap) == IF cap = "document.write" THEN {"content"} ELSE Field \ {"content"}

\* A write changes only the fields it is about, and empties none.
KeepsFields(s, e) ==
    e.cap \in Writes =>
       \A f \in Field :
          /\ f \notin About(e.cap) =>
                e.value.contents[f] = s.blocks[e.entity].contents[f]
          /\ e.value.contents[f] = None =>
                s.blocks[e.entity].contents[f] = None

\* The event's clock is the state's, with the caller's own entry higher.
Stamped(s, e) == /\ \A ed \in Editor : s.counts[ed] <= e.ts[ed]
                 /\ s.counts[e.by] < e.ts[e.by]

Made(s, e) == /\ Licensed(s, e)
              /\ e.cap = "core.create" => e.value.owner = e.by
              /\ KeepsFields(s, e)
              /\ Stamped(s, e)

LogMade(l) == \A i \in 1..Len(l) : Made(History(l)[i - 1], l[i])

\* What is left of the seed is stamped with its positions in the log.
SeedsMade ==
    \A a \in Actor : phase[a] = "seeding" =>
       /\ \A i \in 1..Len(todo[a]) :
             /\ LikeSeed(todo[a][i])
             /\ todo[a][i].ts = [ed \in Editor |->
                                   IF ed = System THEN Len(log) + i ELSE 0]
       /\ \A ed \in Editor :
             Replay(log).counts[ed] <= IF ed = System THEN Len(log) ELSE 0

-----------------------------------------------------------------------------
(***************************************************************************)
(* Commands.                                                               *)
(***************************************************************************)

\* A command on a block makes an event about that block.
LEMMA OutcomeEntity ==
  ASSUME NEW s, NEW c, NEW fresh, c.cap \in Capability \ SystemLevel,
         NEW body \in Handler(s, c, fresh)
  PROVE  body.entity = c.block
BY DEF Capability, SystemLevel, Handler, HandleWrite, HandleLink, HandleUnlink,
       HandleDelete, HandleGrant, HandleRevoke, HandleDocumentWrite,
       HandleTaskWrite, HandleTaskCommit, HandleSessionAppend, Emit, Only

LEMMA OutcomeLicensed ==
  ASSUME NEW s \in State, NEW c, IsCommand(c), NEW fresh, NEW id,
         NEW e \in Outcome(s, c, fresh, id)
  PROVE  Licensed(s, e)
<1>1. Admitted(s, c)
  BY DEF Outcome
<1>2. PICK body \in Handler(s, c, fresh) :
        e = [id |-> id, by |-> c.by, cap |-> c.cap,
             entity |-> body.entity, value |-> body.value, ts |-> Stamp(s, c.by)]
  BY <1>1 DEF Outcome
<1>3. e.cap = c.cap /\ e.by = c.by /\ e.entity = body.entity
  BY <1>2
<1>4. c.cap \in Capability /\ Certified(s, c)
  BY <1>1, RegisteredAssumption DEF Admitted
<1>5. CASE c.cap \in SystemLevel
  <2>1. HasGrant(s, c.by, c.cap, Wild)
    BY <1>4, <1>5 DEF Certified, NoTarget
  <2> QED BY <1>3, <1>5, <2>1 DEF Licensed
<1>6. CASE c.cap \notin SystemLevel
  <2>1. e.entity = c.block
    BY <1>3, <1>4, <1>6, OutcomeEntity
  <2>2. CASE c.cap \in {"core.grant", "core.revoke"} /\ c.block = Wild
    <3>1. HasGrant(s, c.by, c.cap, Wild)
      BY <1>4, <2>2 DEF Certified, NoTarget
    <3> QED BY <1>3, <2>1, <2>2, <3>1 DEF Licensed
  <2>3. CASE ~(c.cap \in {"core.grant", "core.revoke"} /\ c.block = Wild)
    <3>1. c.block \in Block
      BY <1>4, <1>6, <2>3 DEF IsCommand, Capability, SystemLevel
    <3>2. /\ Exists(s, c.block)
          /\ s.blocks[c.block].owner = c.by \/ HasGrant(s, c.by, c.cap, c.block)
      BY <1>4, <1>6, <2>3 DEF Certified, NoTarget
    <3> QED BY <1>3, <1>6, <2>1, <3>1, <3>2 DEF Licensed
  <2> QED BY <2>2, <2>3
<1> QED BY <1>5, <1>6

LEMMA OutcomeKeepsFields ==
  ASSUME NEW s \in State, NEW c, IsCommand(c), NEW fresh, NEW id,
         NEW e \in Outcome(s, c, fresh, id)
  PROVE  KeepsFields(s, e)
<1> SUFFICES ASSUME e.cap \in Writes, NEW f \in Field
             PROVE  /\ f \notin About(e.cap) =>
                         e.value.contents[f] = s.blocks[e.entity].contents[f]
                    /\ e.value.contents[f] = None =>
                         s.blocks[e.entity].contents[f] = None
  BY DEF KeepsFields
<1>1. Admitted(s, c)
  BY DEF Outcome
<1>2. PICK body \in Handler(s, c, fresh) :
        e = [id |-> id, by |-> c.by, cap |-> c.cap,
             entity |-> body.entity, value |-> body.value, ts |-> Stamp(s, c.by)]
  BY <1>1 DEF Outcome
<1>3. e.cap = c.cap /\ e.entity = body.entity /\ e.value = body.value
  BY <1>2
<1>4. body = [entity |-> c.block, value |-> [contents |-> Merged(s, c)]]
  <2>1. CASE c.cap = "document.write"
    BY <2>1 DEF Handler, HandleDocumentWrite, Only, Emit
  <2>2. CASE c.cap = "task.write"
    BY <2>2 DEF Handler, HandleTaskWrite, Only, Emit
  <2> QED BY <1>3, <2>1, <2>2 DEF Writes
<1>5. f \notin About(c.cap) => c.arg.patch[f] = None
  <2>1. CASE c.cap = "document.write"
    BY <2>1 DEF IsCommand, About, Given
  <2>2. CASE c.cap = "task.write"
    BY <2>2 DEF IsCommand, About, Given
  <2> QED BY <1>3, <2>1, <2>2 DEF Writes
<1>6. e.value.contents[f] = IF c.arg.patch[f] = None
                            THEN s.blocks[c.block].contents[f] ELSE c.arg.patch[f]
  BY <1>3, <1>4 DEF Merged, Overlay
<1>7. e.entity = c.block
  BY <1>3, <1>4
<1> QED BY <1>3, <1>5, <1>6, <1>7

(***************************************************************************)
(* What a command commits is made as Made says.                            *)
(***************************************************************************)
LEMMA OutcomeMade ==
  ASSUME NEW s \in State, NEW c, IsCommand(c), NEW fresh, NEW id,
         NEW e \in Outcome(s, c, fresh, id)
  PROVE  Made(s, e)
<1>1. PICK body \in Handler(s, c, fresh) :
        e = [id |-> id, by |-> c.by, cap |-> c.cap,
             entity |-> body.entity, value |-> body.value, ts |-> Stamp(s, c.by)]
  BY DEF Outcome
<1>2. e.cap = "core.create" => e.value.owner = e.by
  <2> SUFFICES ASSUME e.cap = "core.create" PROVE e.value.owner = e.by
    OBVIOUS
  <2>1. body = [entity |-> fresh, value |-> NewBlock(c)]
    BY <1>1 DEF Handler, HandleCreate, Emit
  <2> QED BY <1>1, <2>1 DEF NewBlock
<1>3. Stamped(s, e)
  <2>1. c.by \in Editor /\ s.counts \in [Editor -> Nat]
    BY StateFields DEF IsCommand, Clock
  <2>2. e.by = c.by /\ e.ts = [s.counts EXCEPT ![c.by] = @ + 1]
    BY <1>1 DEF Stamp
  <2> QED BY <2>1, <2>2 DEF Stamped
<1> QED BY <1>2, <1>3, OutcomeLicensed, OutcomeKeepsFields DEF Made

-----------------------------------------------------------------------------
(***************************************************************************)
(* What one event does to the parts of a state that do not depend on each  *)
(* other.                                                                  *)
(***************************************************************************)

\* The events that take a grant away, and the ones that take an editor away.
Removes(e, g) == \/ e.cap = "core.revoke" /\ e.value = g
                 \/ e.cap = "editor.delete" /\ e.entity = g.editor

Expels(e, ed) == e.cap = "editor.delete" /\ e.entity = ed

LEMMA ApplyCounts ==
  ASSUME NEW s \in State, NEW e \in Event
  PROVE  Apply(s, e).counts =
            [ed \in Editor |-> IF e.ts[ed] > s.counts[ed] THEN e.ts[ed]
                               ELSE s.counts[ed]]
<1> DEFINE t == Tick(s, e.ts)
<1>1. t \in State /\ e.ts \in Clock
  <2>1. e.ts \in Clock
    BY DEF Event
  <2> QED BY <2>1, TickType
<1>2. t.counts = [ed \in Editor |-> IF e.ts[ed] > s.counts[ed] THEN e.ts[ed]
                                    ELSE s.counts[ed]]
  BY DEF Tick, State
<1>3. Apply(s, e) \in {PutBlock(t, e.entity, e.value), Rename(t, e.entity, e.value.name),
                       WriteContents(t, e.entity, e.value.contents),
                       Relink(t, e.entity, e.value.children),
                       Unlink(t, e.entity, e.value.children),
                       DeleteBlock(t, e.entity), AddGrant(t, e.value),
                       RemoveGrant(t, e.value), PutEditor(t, e.value.editor),
                       DeleteEditor(t, e.entity), t}
  BY Zenon DEF Apply, t
<1> HIDE DEF t
<1>4. Apply(s, e).counts = t.counts
  BY <1>1, <1>3 DEF PutBlock, Rename, WriteContents, Relink, Unlink, DeleteBlock,
     AddGrant, RemoveGrant, PutEditor, DeleteEditor, State
<1> QED BY <1>2, <1>4

LEMMA ApplyGrants ==
  ASSUME NEW s \in State, NEW e \in Event
  PROVE  Apply(s, e).grants =
            {g \in s.grants : ~Removes(e, g)}
               \cup (IF e.cap = "core.grant" THEN {e.value} ELSE {})
<1> DEFINE t == Tick(s, e.ts)
<1>1. t.grants = s.grants /\ t \in State
  <2>1. e.ts \in Clock
    BY DEF Event
  <2> QED BY <2>1, TickType DEF Tick, State
<1>2. CASE e.cap = "core.grant"
  <2>1. Apply(s, e) = AddGrant(t, e.value)
    BY <1>2 DEF Apply, t
  <2> QED BY <1>1, <1>2, <2>1 DEF AddGrant, State, Removes
<1>3. CASE e.cap = "core.revoke"
  <2>1. Apply(s, e) = RemoveGrant(t, e.value)
    BY <1>3 DEF Apply, t
  <2> QED BY <1>1, <1>3, <2>1 DEF RemoveGrant, State, Removes
<1>4. CASE e.cap = "editor.delete"
  <2>1. Apply(s, e) = DeleteEditor(t, e.entity)
    BY <1>4 DEF Apply, t
  <2> QED BY <1>1, <1>4, <2>1 DEF DeleteEditor, State, Removes
<1>5. CASE e.cap \notin {"core.grant", "core.revoke", "editor.delete"}
  <2>1. Apply(s, e) \in {PutBlock(t, e.entity, e.value), Rename(t, e.entity, e.value.name),
                         WriteContents(t, e.entity, e.value.contents),
                         Relink(t, e.entity, e.value.children),
                         Unlink(t, e.entity, e.value.children),
                         DeleteBlock(t, e.entity), PutEditor(t, e.value.editor), t}
    BY <1>5, Zenon DEF Apply, t
  <2> HIDE DEF t
  <2>2. Apply(s, e).grants = t.grants
    BY <1>1, <2>1 DEF PutBlock, Rename, WriteContents, Relink, Unlink, DeleteBlock,
       PutEditor, State
  <2>3. \A g : ~Removes(e, g)
    BY <1>5 DEF Removes
  <2> QED BY <1>1, <1>5, <2>2, <2>3
<1> QED BY <1>2, <1>3, <1>4, <1>5

LEMMA ApplyEditors ==
  ASSUME NEW s \in State, NEW e \in Event
  PROVE  Apply(s, e).editors =
            {ed \in s.editors : ~Expels(e, ed)}
               \cup (IF e.cap = "editor.create" THEN {e.value.editor} ELSE {})
<1> DEFINE t == Tick(s, e.ts)
<1>1. t.editors = s.editors /\ t \in State
  <2>1. e.ts \in Clock
    BY DEF Event
  <2> QED BY <2>1, TickType DEF Tick, State
<1>2. CASE e.cap = "editor.create"
  <2>1. Apply(s, e) = PutEditor(t, e.value.editor)
    BY <1>2 DEF Apply, t
  <2> QED BY <1>1, <1>2, <2>1 DEF PutEditor, State, Expels
<1>3. CASE e.cap = "editor.delete"
  <2>1. Apply(s, e) = DeleteEditor(t, e.entity)
    BY <1>3 DEF Apply, t
  <2> QED BY <1>1, <1>3, <2>1 DEF DeleteEditor, State, Expels
<1>4. CASE e.cap \notin {"editor.create", "editor.delete"}
  <2>1. Apply(s, e) \in {PutBlock(t, e.entity, e.value), Rename(t, e.entity, e.value.name),
                         WriteContents(t, e.entity, e.value.contents),
                         Relink(t, e.entity, e.value.children),
                         Unlink(t, e.entity, e.value.children),
                         DeleteBlock(t, e.entity), AddGrant(t, e.value),
                         RemoveGrant(t, e.value), t}
    BY <1>4, Zenon DEF Apply, t
  <2> HIDE DEF t
  <2>2. Apply(s, e).editors = t.editors
    BY <1>1, <2>1 DEF PutBlock, Rename, WriteContents, Relink, Unlink, DeleteBlock,
       AddGrant, RemoveGrant, State
  <2> QED BY <1>1, <1>4, <2>2 DEF Expels
<1> QED BY <1>2, <1>3, <1>4

-----------------------------------------------------------------------------
(***************************************************************************)
(* Every event of the log is made from the state the log led to.           *)
(***************************************************************************)

\* The store gives an event its id and leaves the rest alone.
LEMMA InsertMade ==
  ASSUME log \in Seq(Event), minted \in Nat, LogMade(log),
         NEW e \in Event, Made(Replay(log), e), Insert(e)
  PROVE  LogMade(log)'
<1> DEFINE f == [e EXCEPT !.id = minted + 1]
           n == Len(log)
<1>1. f \in Event /\ n \in Nat
  BY LenProperties DEF Event
<1>2. Made(Replay(log), f)
  <2>1. /\ f.by = e.by /\ f.cap = e.cap /\ f.entity = e.entity
        /\ f.value = e.value /\ f.ts = e.ts
    BY DEF Event
  <2> HIDE DEF f
  <2>2. Licensed(Replay(log), f)
    BY <2>1 DEF Made, Licensed, LikeSeed
  <2>3. KeepsFields(Replay(log), f)
    BY <2>1 DEF Made, KeepsFields
  <2>4. Stamped(Replay(log), f)
    BY <2>1 DEF Made, Stamped
  <2> QED BY <2>1, <2>2, <2>3, <2>4 DEF Made
<1> HIDE DEF f
<1>3. log' = Append(log, f)
  BY DEF Insert, f
<1>4. /\ Len(log') = n + 1
      /\ \A i \in 1..n : log'[i] = log[i]
      /\ log'[n + 1] = f
  BY <1>1, <1>3, AppendProperties
<1>5. \A i \in 0..n : History(log')[i] = History(log)[i]
  BY <1>1, <1>3, HistoryAppend
<1>6. ASSUME NEW i \in 1..(n + 1) PROVE Made(History(log')[i - 1], log'[i])
  <2>1. CASE i = n + 1
    <3>1. History(log')[i - 1] = Replay(log)
      BY <1>1, <1>5, <2>1 DEF Replay
    <3> QED BY <1>2, <1>4, <2>1, <3>1
  <2>2. CASE i # n + 1
    <3>1. i \in 1..n /\ i - 1 \in 0..n
      BY <1>1, <2>2
    <3> QED BY <1>4, <1>5, <3>1 DEF LogMade
  <2> QED BY <2>1, <2>2
<1> QED BY <1>4, <1>6 DEF LogMade

\* What a command puts in the log.
LEMMA CommandMade ==
  ASSUME SoloInv, NEW a \in Actor, NEW c \in Menu, ProcessCommand(a, c)
  PROVE  \E e \in Event : Made(Replay(log), e) /\ Insert(e)
<1>1. PICK fresh \in FreshFor(c) : \E e \in Outcome(st[a], c, fresh, minted + 1) :
        Insert(e)
  BY DEF ProcessCommand
<1>2. PICK e \in Outcome(st[a], c, fresh, minted + 1) : Insert(e)
  BY <1>1
<1>3. st[a] = Replay(log)
  BY ServedState DEF ProcessCommand
<1>4. IsCommand(c) /\ minted + 1 \in Nat /\ st[a] \in State
  BY MenuAssumption DEF SoloInv, TypeInv, TypeOK
<1>5. c.cap = "core.create" => fresh \in Block
  BY DEF FreshFor, Mentioned
<1>6. e \in Event
  BY <1>4, <1>5, OutcomeType
<1>7. Made(st[a], e)
  BY <1>2, <1>4, OutcomeMade
<1> QED BY <1>2, <1>3, <1>6, <1>7

\* What the seed holds before the first insert.
LEMMA SeedsLike ==
  ASSUME NEW order \in RegistryOrders, NEW i \in 1..Len(Seeds(order))
  PROVE  /\ LikeSeed(Seeds(order)[i])
         /\ Seeds(order)[i].ts = [ed \in Editor |-> IF ed = System THEN i ELSE 0]
<1>1. order \in Seq(Capability) /\ Len(order) \in Nat
  BY OrdersAssumption, LenProperties
<1>2. i \in 1..(Len(order) + 1)
  BY <1>1 DEF Seeds
<1>3. Seeds(order)[i] = SeedEvent(order, i)
  BY <1>2 DEF Seeds
<1> QED BY <1>3 DEF SeedEvent, LikeSeed

\* An event of the seed passes for one made from the log so far.
LEMMA SeedIsMade ==
  ASSUME SeedsMade, NEW a \in Actor, phase[a] = "seeding",
         NEW i \in 1..Len(todo[a]), log \in Seq(Event), todo[a] \in Seq(Event)
  PROVE  Made(Replay(log), todo[a][i])
<1> DEFINE e == todo[a][i]
<1>1. /\ LikeSeed(e)
      /\ e.ts = [ed \in Editor |-> IF ed = System THEN Len(log) + i ELSE 0]
      /\ \A ed \in Editor :
            Replay(log).counts[ed] <= IF ed = System THEN Len(log) ELSE 0
  BY DEF SeedsMade
<1> HIDE DEF e
<1>2. e.cap \in {"editor.create", "core.grant"} /\ e.by = System
  BY <1>1 DEF LikeSeed
<1>3. Stamped(Replay(log), e)
  <2>1. Len(log) \in Nat /\ Len(todo[a]) \in Nat /\ i \in Nat \ {0}
    BY LenProperties
  <2>2. Replay(log).counts \in Clock
    BY <2>1, HistoryType, StateFields DEF Replay
  <2>3. \A ed \in Editor : Replay(log).counts[ed] \in Nat
    BY <2>2 DEF Clock
  <2> QED BY <1>1, <1>2, <2>1, <2>3, SystemAssumption DEF Stamped
<1>4. KeepsFields(Replay(log), e) /\ Licensed(Replay(log), e)
  BY <1>1, <1>2 DEF KeepsFields, Writes, Licensed
<1> QED BY <1>2, <1>3, <1>4 DEF Made, e

(***************************************************************************)
(* The log stays one of events made from the state before them, and the    *)
(* seed fit to continue it.                                                *)
(***************************************************************************)
LEMMA MadeNext ==
  ASSUME OneActor, SoloInv, LogMade(log), SeedsMade, [Next]_vars
  PROVE  LogMade(log)' /\ SeedsMade'
<1>1. PICK a : Actor = {a}
  BY DEF OneActor
<1>2. /\ TypeInv /\ a \in Actor
      /\ log \in Seq(Event) /\ minted \in Nat /\ Len(log) \in Nat
      /\ phase \in [Actor -> Phase] /\ todo \in [Actor -> Seq(Event)]
  BY <1>1, LenProperties DEF SoloInv, TypeInv, TypeOK
<1>3. CASE OpenNew(a)
  <2>1. PICK order \in RegistryOrders : todo'[a] = Seeds(order)
    BY <1>2, <1>3 DEF OpenNew
  <2>2. log = <<>> /\ UNCHANGED log
    BY <1>3 DEF OpenNew
  <2>3. Len(log) = 0 /\ Replay(log) = Empty
    <3>1. <<>> \in Seq(Event) /\ Len(<<>>) = 0
      BY EmptySeq
    <3> QED BY <2>2, <3>1, HistoryEquations DEF Replay
  <2>4. /\ \A i \in 1..Len(todo'[a]) :
              /\ LikeSeed(todo'[a][i])
              /\ todo'[a][i].ts = [ed \in Editor |-> IF ed = System THEN 0 + i ELSE 0]
        /\ \A ed \in Editor : Empty.counts[ed] <= IF ed = System THEN 0 ELSE 0
    <3>1. \A i \in 1..Len(Seeds(order)) : 0 + i = i
      BY SeedsType, LenProperties
    <3>2. \A ed \in Editor : Empty.counts[ed] = 0
      BY DEF Empty
    <3> QED BY <2>1, <3>1, <3>2, SeedsLike
  <2>5. SeedsMade'
    BY <1>1, <2>2, <2>3, <2>4 DEF SeedsMade
  <2> QED BY <2>2, <2>5
<1>4. CASE SeedNext(a)
  <2>1. todo[a] # <<>> /\ todo[a] \in Seq(Event) /\ phase[a] = "seeding"
    BY <1>2, <1>4 DEF SeedNext, TypeInv
  <2>2. /\ Head(todo[a]) = todo[a][1] /\ Tail(todo[a]) \in Seq(Event)
        /\ Len(Tail(todo[a])) = Len(todo[a]) - 1
        /\ \A i \in 1..Len(Tail(todo[a])) : Tail(todo[a])[i] = todo[a][i + 1]
        /\ Len(todo[a]) \in Nat \ {0}
    BY <2>1, HeadTailProperties, EmptySeq
  <2>0. /\ \A i \in 1..Len(todo[a]) :
              /\ LikeSeed(todo[a][i])
              /\ todo[a][i].ts = [ed \in Editor |->
                                    IF ed = System THEN Len(log) + i ELSE 0]
        /\ \A ed \in Editor :
              Replay(log).counts[ed] <= IF ed = System THEN Len(log) ELSE 0
    BY <1>2, <2>1 DEF SeedsMade
  <2> DEFINE e == todo[a][1]
  <2>3. 1 \in 1..Len(todo[a]) /\ e \in Event /\ Insert(e) /\ UNCHANGED <<cache, st>>
    BY <1>4, <2>1, <2>2, ElementOfSeq DEF SeedNext
  <2>4. LogMade(log)'
    <3>1. Made(Replay(log), e)
      BY <1>2, <2>1, <2>3, SeedIsMade
    <3> QED BY <1>2, <2>3, <3>1, InsertMade
  <2>5. /\ Len(log') = Len(log) + 1
        /\ \A ed \in Editor : Replay(log').counts[ed] <=
                                 IF ed = System THEN Len(log) + 1 ELSE 0
    <3> DEFINE f == [e EXCEPT !.id = minted + 1]
    <3>1. f \in Event /\ f.ts = e.ts
      BY <1>2, <2>3 DEF Event
    <3>2. log' = Append(log, f)
      BY <2>3 DEF Insert
    <3> HIDE DEF f
    <3>3. Len(log') = Len(log) + 1 /\ Replay(log') = Apply(Replay(log), f)
      BY <1>2, <3>1, <3>2, AppendProperties, HistoryAppend DEF Replay
    <3>4. Replay(log) \in State
      BY <1>2, HistoryType DEF Replay
    <3>5. Replay(log').counts =
             [ed \in Editor |-> IF f.ts[ed] > Replay(log).counts[ed] THEN f.ts[ed]
                                ELSE Replay(log).counts[ed]]
      BY <3>1, <3>3, <3>4, ApplyCounts
    <3>6. f.ts = [ed \in Editor |-> IF ed = System THEN Len(log) + 1 ELSE 0]
      BY <2>0, <2>3, <3>1
    <3>7. \A ed \in Editor : /\ Replay(log).counts[ed] \in Nat
                             /\ Replay(log).counts[ed] <=
                                   IF ed = System THEN Len(log) ELSE 0
      <4>1. Replay(log).counts \in Clock
        BY <3>4, StateFields
      <4> QED BY <2>0, <4>1 DEF Clock
    <3> QED BY <1>2, <3>3, <3>5, <3>6, <3>7
  <2>6. todo'[a] = Tail(todo[a])
    BY <1>2, <1>4 DEF SeedNext
  <2>7. \A i \in 1..Len(todo'[a]) :
           /\ LikeSeed(todo'[a][i])
           /\ todo'[a][i].ts = [ed \in Editor |->
                                   IF ed = System THEN Len(log') + i ELSE 0]
    <3> SUFFICES ASSUME NEW i \in 1..Len(todo'[a])
                 PROVE  /\ LikeSeed(todo'[a][i])
                        /\ todo'[a][i].ts = [ed \in Editor |->
                                      IF ed = System THEN Len(log') + i ELSE 0]
      OBVIOUS
    <3>1. i \in 1..Len(Tail(todo[a])) /\ Len(Tail(todo[a])) = Len(todo[a]) - 1
      BY <2>2, <2>6
    <3>2. i + 1 \in 1..Len(todo[a]) /\ Len(log) + (i + 1) = Len(log') + i
      BY <1>2, <2>2, <2>5, <3>1
    <3>3. todo'[a][i] = todo[a][i + 1]
      BY <2>2, <2>6, <3>1
    <3>4. /\ LikeSeed(todo[a][i + 1])
          /\ todo[a][i + 1].ts = [ed \in Editor |->
                                     IF ed = System THEN Len(log) + (i + 1) ELSE 0]
      BY <2>0, <3>2
    <3> QED BY <3>2, <3>3, <3>4
  <2>8. SeedsMade'
    BY <1>1, <2>5, <2>7 DEF SeedsMade
  <2> QED BY <2>4, <2>8
<1>5. ASSUME NEW c \in Menu, ProcessCommand(a, c) PROVE LogMade(log)' /\ SeedsMade'
  <2>1. LogMade(log)'
    BY <1>2, <1>5, CommandMade, InsertMade
  <2>2. phase'[a] = "up"
    BY <1>5 DEF ProcessCommand, Serving
  <2> QED BY <1>1, <2>1, <2>2 DEF SeedsMade
<1>6. CASE UNCHANGED log /\ phase'[a] # "seeding"
  BY <1>1, <1>6 DEF LogMade, SeedsMade
<1>7. CASE UNCHANGED <<log, phase, todo>>
  BY <1>7 DEF LogMade, SeedsMade
<1>8. CASE \/ OpenExisting(a) \/ RestoreSnapshot(a) \/ FetchIncrement(a) \/ FetchAll(a)
           \/ FetchFallback(a) \/ ApplyNext(a) \/ CloseRead(a) \/ CloseSave(a)
           \/ Crash(a)
  <2>1. UNCHANGED log /\ phase'[a] # "seeding"
    BY <1>2, <1>8 DEF OpenExisting, RestoreSnapshot, FetchIncrement, FetchAll,
       FetchFallback, ApplyNext, CloseRead, CloseSave, Crash
  <2> QED BY <1>6, <2>1
<1>9. CASE CacheLost \/ UNCHANGED vars
  BY <1>7, <1>9 DEF CacheLost, vars
<1> QED
  BY <1>1, <1>3, <1>4, <1>5, <1>8, <1>9 DEF Next, Step, StartStep

-----------------------------------------------------------------------------
(***************************************************************************)
(* What the states a log leads to say of the events before them.           *)
(***************************************************************************)

\* The state before event i rests on the log before it: every block on its
\* creation, every grant on an event that made it and none that took it away.
Backed(i) ==
    /\ \A b \in Block :
          Exists(History(log)[i - 1], b) =>
             /\ Live(i, b)
             /\ Owns(i, History(log)[i - 1].blocks[b].owner, b)
    /\ \A g \in History(log)[i - 1].grants :
          \E j \in 1..(i - 1) :
             /\ log[j].cap = "core.grant" /\ log[j].value = g
             /\ \A k \in (j + 1)..(i - 1) : ~Removes(log[k], g)

\* One event on.
LEMMA BackedStep ==
  ASSUME log \in Seq(Event), LogMade(log), NEW i \in 1..Len(log), Backed(i)
  PROVE  Backed(i + 1)
<1> DEFINE s == History(log)[i - 1]
           t == History(log)[i]
           e == log[i]
<1>1. /\ Len(log) \in Nat /\ i \in Nat \ {0} /\ i - 1 \in 0..Len(log)
      /\ i + 1 - 1 = i
      /\ \A j \in 1..i : j \in 1..(i - 1) \/ j = i
      /\ \A j \in 1..(i - 1) : j \in 1..i
      /\ i \in 1..i
  BY LenProperties
<1>2. e \in Event /\ s \in State /\ t = Apply(s, e)
  BY <1>1, ElementOfSeq, HistoryType, HistoryEquations
<1>3. Made(s, e)
  BY DEF LogMade
<1>4. /\ \A b \in Block : Exists(s, b) => Live(i, b) /\ Owns(i, s.blocks[b].owner, b)
      /\ \A g \in s.grants :
            \E j \in 1..(i - 1) :
               /\ log[j].cap = "core.grant" /\ log[j].value = g
               /\ \A k \in (j + 1)..(i - 1) : ~Removes(log[k], g)
  BY DEF Backed
<1> HIDE DEF s, t
<1>5. ASSUME NEW b \in Block, Exists(t, b)
      PROVE  Live(i + 1, b) /\ Owns(i + 1, t.blocks[b].owner, b)
  <2>1. CASE /\ e.cap = "core.create" /\ e.entity = b
             /\ t.blocks[b].owner = e.value.owner
    <3>1. e.by = t.blocks[b].owner
      BY <1>3, <2>1 DEF Made
    <3>2. \A k \in (i + 1)..i : FALSE
      BY <1>1
    <3> QED BY <1>1, <2>1, <3>1, <3>2 DEF Live, Owns
  <2>2. CASE /\ ~(e.cap = "core.delete" /\ e.entity = b)
             /\ Exists(s, b) /\ t.blocks[b].owner = s.blocks[b].owner
    <3>1. Live(i, b) /\ Owns(i, s.blocks[b].owner, b)
      BY <1>4, <2>2
    <3>2. PICK j \in 1..(i - 1) :
            /\ log[j].cap = "core.create" /\ log[j].entity = b
            /\ \A k \in (j + 1)..(i - 1) :
                  ~(log[k].cap = "core.delete" /\ log[k].entity = b)
      BY <3>1 DEF Live
    <3>3. \A k \in (j + 1)..i : ~(log[k].cap = "core.delete" /\ log[k].entity = b)
      BY <1>1, <2>2, <3>2
    <3>4. Live(i + 1, b)
      BY <1>1, <3>2, <3>3 DEF Live
    <3>5. Owns(i + 1, s.blocks[b].owner, b)
      BY <1>1, <3>1 DEF Owns
    <3> QED BY <2>2, <3>4, <3>5
  <2> QED BY <1>2, <1>5, <2>1, <2>2, ApplyOwner
<1>6. ASSUME NEW g \in t.grants
      PROVE  \E j \in 1..i :
                /\ log[j].cap = "core.grant" /\ log[j].value = g
                /\ \A k \in (j + 1)..i : ~Removes(log[k], g)
  <2>1. \/ g \in s.grants /\ ~Removes(e, g)
        \/ e.cap = "core.grant" /\ e.value = g
    <3>1. t.grants = {h \in s.grants : ~Removes(e, h)}
                        \cup (IF e.cap = "core.grant" THEN {e.value} ELSE {})
      BY <1>2, ApplyGrants
    <3> QED BY <1>6, <3>1
  <2>2. CASE e.cap = "core.grant" /\ e.value = g
    <3>1. \A k \in (i + 1)..i : FALSE
      BY <1>1
    <3> QED BY <1>1, <2>2, <3>1
  <2>3. CASE g \in s.grants /\ ~Removes(e, g)
    <3>1. PICK j \in 1..(i - 1) :
            /\ log[j].cap = "core.grant" /\ log[j].value = g
            /\ \A k \in (j + 1)..(i - 1) : ~Removes(log[k], g)
      BY <1>4, <2>3
    <3>2. \A k \in (j + 1)..i : ~Removes(log[k], g)
      BY <1>1, <2>3, <3>1
    <3> QED BY <1>1, <3>1, <3>2
  <2> QED BY <2>1, <2>2, <2>3
<1> QED BY <1>1, <1>5, <1>6 DEF Backed, t

LEMMA AllBacked ==
  ASSUME log \in Seq(Event), LogMade(log)
  PROVE  \A i \in 1..(Len(log) + 1) : Backed(i)
<1> DEFINE T == {i \in 1..(Len(log) + 1) : ~Backed(i)}
<1>1. SUFFICES ASSUME T # {} PROVE FALSE
  OBVIOUS
<1>2. Len(log) \in Nat
  BY LenProperties
<1>3. PICK i \in T : \A j \in T : i <= j
  <2>1. T \in SUBSET Nat
    BY <1>2
  <2> QED BY <1>1, <2>1, LeastNat
<1>4. i # 1
  <2>1. History(log)[1 - 1] = Empty
    BY HistoryEquations
  <2>2. Backed(1)
    BY <2>1 DEF Backed, Empty, Exists
  <2> QED BY <2>2
<1>5. i - 1 \in 1..Len(log) /\ i - 1 \notin T /\ i - 1 + 1 = i
  BY <1>2, <1>3, <1>4
<1>6. Backed(i - 1)
  BY <1>2, <1>5
<1> QED BY <1>5, <1>6, BackedStep

\* A grant the projection holds is in force in the log.
LEMMA HeldInForce ==
  ASSUME NEW i, Backed(i), NEW ed, NEW cap, NEW b,
         HasGrant(History(log)[i - 1], ed, cap, b)
  PROVE  InForce(i, ed, cap, b)
<1>1. PICK g \in History(log)[i - 1].grants :
        g.editor \in {ed, Wild} /\ g.cap = cap /\ g.block \in {b, Wild}
  BY DEF HasGrant
<1>2. PICK j \in 1..(i - 1) :
        /\ log[j].cap = "core.grant" /\ log[j].value = g
        /\ \A k \in (j + 1)..(i - 1) : ~Removes(log[k], g)
  BY DEF Backed
<1> QED BY <1>1, <1>2 DEF InForce, Removes

(***************************************************************************)
(* A log of events made from the states before them justifies itself.      *)
(***************************************************************************)
LEMMA MadeIsAuthorised ==
  ASSUME log \in Seq(Event), LogMade(log)
  PROVE  EventsAreAuthorised
<1> SUFFICES ASSUME NEW i \in 1..Len(log)
             PROVE  LET e == log[i]
                    IN  \/ LikeSeed(e)
                        \/ /\ e.cap \in SystemLevel \/ e.entity = Wild
                           /\ InForce(i, e.by, e.cap, Wild)
                        \/ /\ e.cap \notin SystemLevel /\ e.entity # Wild
                           /\ Live(i, e.entity)
                           /\ \/ Owns(i, e.by, e.entity)
                              \/ InForce(i, e.by, e.cap, e.entity)
  BY DEF EventsAreAuthorised
<1> DEFINE s == History(log)[i - 1]
           e == log[i]
<1>1. Backed(i)
  <2>1. i \in 1..(Len(log) + 1)
    BY LenProperties
  <2> QED BY <2>1, AllBacked
<1>2. Licensed(s, e)
  BY DEF LogMade, Made
<1>3. CASE HasGrant(s, e.by, e.cap, Wild) /\ (e.cap \in SystemLevel \/ e.entity = Wild)
  BY <1>1, <1>3, HeldInForce
<1>4. CASE /\ e.cap \notin SystemLevel /\ e.entity \in Block /\ Exists(s, e.entity)
           /\ \/ s.blocks[e.entity].owner = e.by
              \/ HasGrant(s, e.by, e.cap, e.entity)
  <2>1. Live(i, e.entity) /\ Owns(i, s.blocks[e.entity].owner, e.entity)
    BY <1>1, <1>4 DEF Backed
  <2>2. HasGrant(s, e.by, e.cap, e.entity) => InForce(i, e.by, e.cap, e.entity)
    BY <1>1, HeldInForce
  <2>3. e.entity # Wild
    BY <1>4, WildAssumption
  <2> QED BY <1>4, <2>1, <2>2, <2>3
<1> QED BY <1>2, <1>3, <1>4 DEF Licensed

-----------------------------------------------------------------------------
(***************************************************************************)
(* Counts only rise, and are at least the clock of every event applied.    *)
(***************************************************************************)
LEMMA CountsStep ==
  ASSUME log \in Seq(Event), NEW i \in 1..Len(log), NEW ed \in Editor
  PROVE  /\ History(log)[i - 1].counts[ed] \in Nat
         /\ History(log)[i].counts[ed] \in Nat
         /\ log[i].ts[ed] \in Nat
         /\ History(log)[i - 1].counts[ed] <= History(log)[i].counts[ed]
         /\ log[i].ts[ed] <= History(log)[i].counts[ed]
<1> DEFINE s == History(log)[i - 1]
           t == History(log)[i]
           e == log[i]
<1>1. i - 1 \in 0..Len(log) /\ i \in 0..Len(log)
  BY LenProperties
<1>2. s \in State /\ t \in State /\ e \in Event /\ t = Apply(s, e)
  BY <1>1, HistoryType, ElementOfSeq, HistoryEquations
<1> HIDE DEF s, t, e
<1>3. s.counts[ed] \in Nat /\ t.counts[ed] \in Nat /\ e.ts[ed] \in Nat
  BY <1>2, StateFields DEF Clock, Event
<1>4. t.counts[ed] = IF e.ts[ed] > s.counts[ed] THEN e.ts[ed] ELSE s.counts[ed]
  <2>1. t.counts = [x \in Editor |-> IF e.ts[x] > s.counts[x] THEN e.ts[x]
                                     ELSE s.counts[x]]
    BY <1>2, ApplyCounts
  <2> QED BY <2>1
<1>5. s.counts[ed] <= t.counts[ed] /\ e.ts[ed] <= t.counts[ed]
  BY <1>3, <1>4
<1> QED BY <1>3, <1>5 DEF s, t, e

LEMMA CountsRise ==
  ASSUME log \in Seq(Event), NEW m \in 0..Len(log), NEW n \in 0..Len(log), m <= n,
         NEW ed \in Editor
  PROVE  History(log)[m].counts[ed] <= History(log)[n].counts[ed]
<1> DEFINE c[i \in 0..Len(log)] == History(log)[i].counts[ed]
           T == {i \in m..Len(log) : ~(c[m] <= c[i])}
<1>1. Len(log) \in Nat /\ m \in Nat /\ n \in m..Len(log)
  BY LenProperties
<1>2. \A i \in 0..Len(log) : c[i] \in Nat
  <2> SUFFICES ASSUME NEW i \in 0..Len(log) PROVE c[i] \in Nat
    OBVIOUS
  <2>1. History(log)[i].counts \in Clock
    BY HistoryType, StateFields
  <2> QED BY <2>1 DEF Clock
<1>3. \A i \in 1..Len(log) : c[i - 1] <= c[i]
  <2> SUFFICES ASSUME NEW i \in 1..Len(log) PROVE c[i - 1] <= c[i]
    OBVIOUS
  <2>1. i - 1 \in 0..Len(log) /\ i \in 0..Len(log)
    BY <1>1
  <2> QED BY <2>1, CountsStep
<1>4. c[m] <= c[n] => History(log)[m].counts[ed] <= History(log)[n].counts[ed]
  OBVIOUS
<1> HIDE DEF c
<1>5. SUFFICES ASSUME T # {} PROVE FALSE
  BY <1>1, <1>4
<1>6. PICK i \in T : \A j \in T : i <= j
  <2>1. T \in SUBSET Nat
    BY <1>1
  <2> QED BY <1>5, <2>1, LeastNat
<1>7. i # m
  BY <1>1, <1>2, <1>6
<1>8. i - 1 \in m..Len(log) /\ i - 1 \notin T /\ i \in 1..Len(log)
  BY <1>1, <1>6, <1>7
<1>9. c[m] <= c[i - 1] /\ c[i - 1] <= c[i]
  BY <1>3, <1>8
<1>10. c[m] \in Nat /\ c[i - 1] \in Nat /\ c[i] \in Nat
  BY <1>1, <1>2, <1>8
<1> QED BY <1>6, <1>9, <1>10

(***************************************************************************)
(* In such a log the clocks say the order of the events.                   *)
(***************************************************************************)
LEMMA MadeIsOrdered ==
  ASSUME log \in Seq(Event), LogMade(log)
  PROVE  ClocksFollowLog
<1> SUFFICES ASSUME NEW i \in 1..Len(log), NEW j \in 1..Len(log), i < j
             PROVE  /\ \A ed \in Editor : log[i].ts[ed] <= log[j].ts[ed]
                    /\ log[i].ts[log[j].by] < log[j].ts[log[j].by]
  BY DEF ClocksFollowLog
<1> DEFINE p == log[i].ts
           q == History(log)[i].counts
           r == History(log)[j - 1].counts
           t == log[j].ts
           by == log[j].by
<1>1. i \in 0..Len(log) /\ j - 1 \in 0..Len(log) /\ i <= j - 1
  BY LenProperties
<1>2. \A ed \in Editor : p[ed] \in Nat /\ q[ed] \in Nat /\ p[ed] <= q[ed]
  BY CountsStep
<1>3. \A ed \in Editor : r[ed] \in Nat /\ t[ed] \in Nat
  BY CountsStep
<1>4. \A ed \in Editor : q[ed] <= r[ed]
  BY <1>1, CountsRise
<1>5. (\A ed \in Editor : r[ed] <= t[ed]) /\ r[by] < t[by]
  BY DEF LogMade, Made, Stamped
<1>6. by \in Editor
  <2>1. log[j] \in Event
    BY ElementOfSeq
  <2> QED BY <2>1 DEF Event
<1> HIDE DEF p, q, r, t, by
<1>7. (\A ed \in Editor : p[ed] <= t[ed]) /\ p[by] < t[by]
  BY <1>2, <1>3, <1>4, <1>5, <1>6
<1> QED BY <1>7 DEF p, t, by

\* And its writes keep what they are not about.
LEMMA MadeKeepsOthers == LogMade(log) => WritesKeepOthers
BY DEF LogMade, Made, KeepsFields, WritesKeepOthers, Writes, About

-----------------------------------------------------------------------------
(***************************************************************************)
(* Replay on top of a part of a snapshot.  The state s the actor has after *)
(* k events differs from the replay h of these k events only by what the   *)
(* snapshot, the replay x of m events, put there and the events still to   *)
(* come put there again.                                                   *)
(***************************************************************************)
NeverPut(b, k) ==
    \A i \in 1..k : ~(log[i].cap = "core.create" /\ log[i].entity = b)

Mends(s, k, m) ==
    LET h == History(log)[k]
        x == History(log)[m]
    IN  /\ \A b \in Block :
              \/ s.blocks[b] = h.blocks[b]
              \/ ~Exists(h, b) /\ s.blocks[b] = x.blocks[b] /\ NeverPut(b, k)
        /\ s.parents = h.parents
        /\ h.grants \subseteq s.grants
        /\ \A g \in s.grants \ h.grants :
              g \in x.grants /\ \A i \in 1..k : ~Removes(log[i], g)
        /\ h.editors \subseteq s.editors
        /\ \A ed \in s.editors \ h.editors :
              ed \in x.editors /\ \A i \in 1..k : ~Expels(log[i], ed)
        /\ \A ed \in Editor :
              /\ h.counts[ed] <= s.counts[ed]
              /\ s.counts[ed] = h.counts[ed] \/ s.counts[ed] <= x.counts[ed]

LEMMA StateEqual ==
  ASSUME NEW s \in State, NEW t \in State, s.blocks = t.blocks, s.editors = t.editors,
         s.grants = t.grants, s.counts = t.counts, s.parents = t.parents
  PROVE  s = t
BY DEF State

\* The events that change a block that is there already.
Touches == {"core.write", "document.write", "task.write", "core.link",
            "core.unlink", "core.delete"}

LEMMA TouchedExists ==
  ASSUME NEW s, NEW e \in Event, Licensed(s, e), e.cap \in Touches
  PROVE  e.entity \in Block /\ Exists(s, e.entity)
<1>1. e.entity \in Block
  BY DEF Event, EntitiesOf, Touches
<1>2. ~LikeSeed(e) /\ e.cap \notin SystemLevel /\ e.entity # Wild
  BY <1>1, WildAssumption DEF LikeSeed, SystemLevel, Touches
<1> QED BY <1>1, <1>2 DEF Licensed

(***************************************************************************)
(* An event applied to two states with the same index and the same blocks, *)
(* but for blocks only the first one has: it changes what they share       *)
(* alike, and the other blocks not at all.                                 *)
(***************************************************************************)
LEMMA ApplyBoth ==
  ASSUME NEW s \in State, NEW h \in State, NEW e \in Event,
         \A b \in Block : Exists(h, b) => s.blocks[b] = h.blocks[b],
         s.parents = h.parents, ParentsMirrorChildren(h),
         e.cap \in Touches => e.entity \in Block /\ Exists(h, e.entity)
  PROVE  /\ Apply(s, e).parents = Apply(h, e).parents
         /\ \A b \in Block :
              \/ Apply(s, e).blocks[b] = Apply(h, e).blocks[b]
              \/ /\ ~Exists(h, b) /\ ~Exists(Apply(h, e), b)
                 /\ Apply(s, e).blocks[b] = s.blocks[b]
                 /\ ~(e.cap = "core.create" /\ e.entity = b)
<1> DEFINE s1 == Tick(s, e.ts)
           h1 == Tick(h, e.ts)
           s2 == Apply(s, e)
           h2 == Apply(h, e)
<1>1. /\ s1 \in State /\ s1.blocks = s.blocks /\ s1.parents = s.parents
      /\ h1 \in State /\ h1.blocks = h.blocks /\ h1.parents = h.parents
  <2>1. e.ts \in Clock
    BY DEF Event
  <2>2. s1 \in State /\ h1 \in State
    BY <2>1, TickType
  <2>3. s1.blocks = s.blocks /\ s1.parents = s.parents
    BY DEF Tick, State
  <2>4. h1.blocks = h.blocks /\ h1.parents = h.parents
    BY DEF Tick, State
  <2> QED BY <2>2, <2>3, <2>4
<1>2. /\ \A b \in Block : Exists(h1, b) => s1.blocks[b] = h1.blocks[b] /\ Exists(s1, b)
      /\ s1.parents = h1.parents
      /\ e.cap \in Touches => /\ e.entity \in Block
                              /\ Exists(h1, e.entity) /\ Exists(s1, e.entity)
                              /\ s1.blocks[e.entity] = h1.blocks[e.entity]
  BY <1>1 DEF Exists
<1>3. \A p, c \in Block : p \in h1.parents[c] => Exists(h1, p)
  BY <1>1 DEF ParentsMirrorChildren, Kids, Exists
<1>4. /\ s1.blocks \in [Block -> BlockRec \cup {None}]
      /\ h1.blocks \in [Block -> BlockRec \cup {None}]
      /\ s1.parents \in [Block -> SUBSET Block]
  BY <1>1, StateFields
<1> SUFFICES /\ s2.parents = h2.parents
             /\ \A b \in Block :
                  \/ s2.blocks[b] = h2.blocks[b]
                  \/ /\ ~Exists(h1, b) /\ h2.blocks[b] = None
                     /\ s2.blocks[b] = s1.blocks[b]
                     /\ ~(e.cap = "core.create" /\ e.entity = b)
  BY <1>1 DEF Exists
<1>5. CASE e.cap = "core.create"
  <2>1. s2 = PutBlock(s1, e.entity, e.value) /\ h2 = PutBlock(h1, e.entity, e.value)
    BY <1>5 DEF Apply
  <2> HIDE DEF s1, h1, s2, h2
  <2>2. /\ s2.blocks = [s1.blocks EXCEPT ![e.entity] = e.value]
        /\ h2.blocks = [h1.blocks EXCEPT ![e.entity] = e.value]
        /\ s2.parents = h2.parents
    BY <1>1, <1>2, <2>1 DEF PutBlock, State
  <2> QED BY <1>2, <1>4, <2>2 DEF Exists
<1>6. CASE e.cap = "core.write"
  <2>1. /\ s2 = Rename(s1, e.entity, e.value.name) /\ h2 = Rename(h1, e.entity, e.value.name)
        /\ e.cap \in Touches
    BY <1>6 DEF Apply, Touches
  <2> HIDE DEF s1, h1, s2, h2
  <2>2. /\ s2.blocks = [s1.blocks EXCEPT ![e.entity].name = e.value.name]
        /\ h2.blocks = [h1.blocks EXCEPT ![e.entity].name = e.value.name]
        /\ s2.parents = s1.parents /\ h2.parents = h1.parents
    BY <1>1, <1>2, <2>1 DEF Rename, State
  <2> QED BY <1>2, <1>4, <1>6, <2>1, <2>2 DEF Exists
<1>7. CASE e.cap \in {"document.write", "task.write"}
  <2>1. /\ s2 = WriteContents(s1, e.entity, e.value.contents)
        /\ h2 = WriteContents(h1, e.entity, e.value.contents)
        /\ e.cap \in Touches
    BY <1>7 DEF Apply, Touches
  <2> HIDE DEF s1, h1, s2, h2
  <2>2. /\ s2.blocks = [s1.blocks EXCEPT ![e.entity].contents =
                          Overlay(s1.blocks[e.entity].contents, e.value.contents)]
        /\ h2.blocks = [h1.blocks EXCEPT ![e.entity].contents =
                          Overlay(h1.blocks[e.entity].contents, e.value.contents)]
        /\ s2.parents = s1.parents /\ h2.parents = h1.parents
    BY <1>1, <1>2, <2>1 DEF WriteContents, State
  <2> QED BY <1>2, <1>4, <1>7, <2>1, <2>2 DEF Exists
<1>8. CASE e.cap \in {"core.link", "core.unlink"}
  <2>1. /\ \/ s2 = Relink(s1, e.entity, e.value.children)
              /\ h2 = Relink(h1, e.entity, e.value.children)
           \/ s2 = Unlink(s1, e.entity, e.value.children)
              /\ h2 = Unlink(h1, e.entity, e.value.children)
        /\ e.cap \in Touches
    BY <1>8 DEF Apply, Touches
  <2> HIDE DEF s1, h1, s2, h2
  <2>2. Kids(s1, e.entity) = Kids(h1, e.entity)
    BY <1>2, <2>1 DEF Kids
  <2>3. /\ s2.blocks = [s1.blocks EXCEPT ![e.entity].children = e.value.children]
        /\ h2.blocks = [h1.blocks EXCEPT ![e.entity].children = e.value.children]
        /\ s2.parents = h2.parents
    <3>1. CASE /\ s2 = Relink(s1, e.entity, e.value.children)
               /\ h2 = Relink(h1, e.entity, e.value.children)
      BY <1>1, <1>2, <2>1, <2>2, <3>1 DEF Relink, State
    <3>2. CASE /\ s2 = Unlink(s1, e.entity, e.value.children)
               /\ h2 = Unlink(h1, e.entity, e.value.children)
      BY <1>1, <1>2, <2>1, <2>2, <3>2 DEF Unlink, State
    <3> QED BY <2>1, <3>1, <3>2
  <2> QED BY <1>2, <1>4, <1>8, <2>1, <2>3 DEF Exists
<1>9. CASE e.cap = "core.delete"
  <2>1. /\ s2 = DeleteBlock(s1, e.entity) /\ h2 = DeleteBlock(h1, e.entity)
        /\ e.cap \in Touches
    BY <1>9 DEF Apply, Touches
  <2> HIDE DEF s1, h1, s2, h2
  <2> DEFINE f == DropParent(h1.parents, e.entity, Kids(h1, e.entity))
  <2>2. f = DropParent(s1.parents, e.entity, Kids(s1, e.entity))
    BY <1>2, <2>1 DEF Kids
  <2>3. f[e.entity] \subseteq h1.parents[e.entity]
    BY <1>2, <1>4, <2>1 DEF DropParent
  <2> HIDE DEF f
  <2>4. s2.parents = h2.parents
    BY <1>1, <1>2, <2>1, <2>2 DEF DeleteBlock, State, f
  <2>5. \A b \in Block :
          s2.blocks[b] = IF b = e.entity THEN None
                         ELSE IF b \in f[e.entity] /\ Exists(s1, b)
                         THEN [s1.blocks[b] EXCEPT !.children = @ \ {e.entity}]
                         ELSE s1.blocks[b]
    BY <1>1, <2>1, <2>2 DEF DeleteBlock, State
  <2>6. \A b \in Block :
          h2.blocks[b] = IF b = e.entity THEN None
                         ELSE IF b \in f[e.entity] /\ Exists(h1, b)
                         THEN [h1.blocks[b] EXCEPT !.children = @ \ {e.entity}]
                         ELSE h1.blocks[b]
    BY <1>1, <2>1 DEF DeleteBlock, State, f
  <2>7. \A b \in f[e.entity] : Exists(h1, b)
    BY <1>2, <1>3, <1>4, <2>1, <2>3
  <2>8. ASSUME NEW b \in Block, b # e.entity, Exists(h1, b)
        PROVE  s2.blocks[b] = h2.blocks[b]
    <3>1. s1.blocks[b] = h1.blocks[b] /\ Exists(s1, b)
      BY <1>2, <2>8
    <3>2. b \in f[e.entity] \/ b \notin f[e.entity]
      OBVIOUS
    <3> QED BY <2>5, <2>6, <2>8, <3>1, <3>2
  <2>9. ASSUME NEW b \in Block, b # e.entity, ~Exists(h1, b)
        PROVE  h2.blocks[b] = None /\ s2.blocks[b] = s1.blocks[b]
    <3>1. b \notin f[e.entity]
      BY <2>7, <2>9
    <3> QED BY <2>5, <2>6, <2>9, <3>1 DEF Exists
  <2>10. e.entity \in Block => s2.blocks[e.entity] = h2.blocks[e.entity]
    BY <2>5, <2>6
  <2> QED BY <1>9, <2>4, <2>8, <2>9, <2>10
<1>10. CASE e.cap \notin Touches \cup {"core.create"}
  <2>1. /\ s2 \in {AddGrant(s1, e.value), RemoveGrant(s1, e.value),
                   PutEditor(s1, e.value.editor), DeleteEditor(s1, e.entity), s1}
        /\ h2 \in {AddGrant(h1, e.value), RemoveGrant(h1, e.value),
                   PutEditor(h1, e.value.editor), DeleteEditor(h1, e.entity), h1}
    BY <1>10, Zenon DEF Apply, Touches
  <2> HIDE DEF s1, h1, s2, h2
  <2>2. /\ s2.blocks = s1.blocks /\ s2.parents = s1.parents
        /\ h2.blocks = h1.blocks /\ h2.parents = h1.parents
    BY <1>1, <2>1 DEF AddGrant, RemoveGrant, PutEditor, DeleteEditor, State
  <2> QED BY <1>2, <1>10, <2>2 DEF Exists
<1> QED BY <1>5, <1>6, <1>7, <1>8, <1>9, <1>10 DEF Touches

\* Whatever part of a snapshot could be restored.
LEMMA MendStart ==
  ASSUME log \in Seq(Event), NEW m \in 0..Len(log), NEW c,
         c.state = History(log)[m], NEW n \in 1..Len(FieldOrder)
  PROVE  /\ RestoredUpTo(Empty, c.state, n) \in State
         /\ Mends(RestoredUpTo(Empty, c.state, n), 0, m)
<1> DEFINE x == History(log)[m]
           s == RestoredUpTo(Empty, c.state, n)
<1>1. x \in State /\ Empty \in State
  BY HistoryType, EmptyType
<1>2. c.state = x
  OBVIOUS
<1> HIDE DEF x
<1>3. /\ s \in State
      /\ s.blocks \in {Empty.blocks, x.blocks} /\ s.editors \in {Empty.editors, x.editors}
      /\ s.grants \in {Empty.grants, x.grants} /\ s.counts \in {Empty.counts, x.counts}
      /\ s.parents = Empty.parents
  BY <1>1, <1>2 DEF RestoredUpTo, State
<1>4. History(log)[0] = Empty
  BY HistoryEquations
<1>5. /\ \A b \in Block : ~Exists(Empty, b)
      /\ Empty.grants = {} /\ Empty.editors = {} /\ \A ed \in Editor : Empty.counts[ed] = 0
  BY DEF Empty, Exists
<1>6. \A i \in 1..0 : FALSE
  OBVIOUS
<1>7. \A ed \in Editor : x.counts[ed] \in Nat
  <2>1. x.counts \in Clock
    BY <1>1, StateFields
  <2> QED BY <2>1 DEF Clock
<1> HIDE DEF s
<1>8. \A b \in Block : s.blocks[b] = Empty.blocks[b] \/ s.blocks[b] = x.blocks[b]
  BY <1>3
<1>9. \A ed \in Editor : /\ Empty.counts[ed] <= s.counts[ed]
                         /\ s.counts[ed] = Empty.counts[ed] \/ s.counts[ed] <= x.counts[ed]
  <2> SUFFICES ASSUME NEW ed \in Editor
               PROVE  /\ Empty.counts[ed] <= s.counts[ed]
                      /\ s.counts[ed] = Empty.counts[ed] \/ s.counts[ed] <= x.counts[ed]
    OBVIOUS
  <2>1. s.counts[ed] = Empty.counts[ed] \/ s.counts[ed] = x.counts[ed]
    BY <1>3
  <2> QED BY <1>5, <1>7, <2>1
<1>10. Mends(s, 0, m)
  BY <1>3, <1>4, <1>5, <1>6, <1>8, <1>9 DEF Mends, NeverPut, x
<1> QED BY <1>3, <1>10 DEF s

(***************************************************************************)
(* One more event replayed.                                                *)
(***************************************************************************)
LEMMA MendStep ==
  ASSUME log \in Seq(Event), LogSound(log), LogMade(log),
         NEW m \in 0..Len(log), NEW k \in 0..(Len(log) - 1),
         NEW s \in State, Mends(s, k, m)
  PROVE  Apply(s, log[k + 1]) \in State /\ Mends(Apply(s, log[k + 1]), k + 1, m)
<1> DEFINE h == History(log)[k]
           x == History(log)[m]
           u == History(log)[k + 1]
           e == log[k + 1]
           t == Apply(s, e)
<1>1. /\ Len(log) \in Nat /\ k \in Nat /\ k \in 0..Len(log) /\ k + 1 \in 1..Len(log)
      /\ k + 1 - 1 = k /\ k + 1 \in 0..Len(log)
      /\ \A i \in 1..(k + 1) : i \in 1..k \/ i = k + 1
  BY LenProperties
<1>2. h \in State /\ x \in State /\ e \in Event /\ u = Apply(h, e)
  <2>1. h \in State /\ x \in State /\ e \in Event
    BY <1>1, HistoryType, ElementOfSeq
  <2>2. u = Apply(History(log)[k + 1 - 1], log[k + 1])
    BY <1>1, HistoryEquations
  <2> QED BY <1>1, <2>1, <2>2
<1>3. ParentsMirrorChildren(h) /\ Licensed(h, e)
  <2>1. Made(History(log)[k + 1 - 1], log[k + 1])
    BY <1>1 DEF LogMade
  <2> QED BY <1>1, <2>1 DEF LogSound, Made
<1>4. t \in State /\ u \in State
  BY <1>2, ApplyType
<1>5. /\ \A b \in Block :
            \/ s.blocks[b] = h.blocks[b]
            \/ ~Exists(h, b) /\ s.blocks[b] = x.blocks[b] /\ NeverPut(b, k)
      /\ s.parents = h.parents
      /\ h.grants \subseteq s.grants
      /\ \A g \in s.grants \ h.grants :
            g \in x.grants /\ \A i \in 1..k : ~Removes(log[i], g)
      /\ h.editors \subseteq s.editors
      /\ \A ed \in s.editors \ h.editors :
            ed \in x.editors /\ \A i \in 1..k : ~Expels(log[i], ed)
      /\ \A ed \in Editor :
            /\ h.counts[ed] <= s.counts[ed]
            /\ s.counts[ed] = h.counts[ed] \/ s.counts[ed] <= x.counts[ed]
  BY DEF Mends
<1>6. /\ t.parents = u.parents
      /\ \A b \in Block :
            \/ t.blocks[b] = u.blocks[b]
            \/ /\ ~Exists(h, b) /\ ~Exists(u, b) /\ t.blocks[b] = s.blocks[b]
               /\ ~(e.cap = "core.create" /\ e.entity = b)
  <2>1. \A b \in Block : Exists(h, b) => s.blocks[b] = h.blocks[b]
    BY <1>5
  <2>2. e.cap \in Touches => e.entity \in Block /\ Exists(h, e.entity)
    BY <1>2, <1>3, TouchedExists
  <2> HIDE DEF h, e
  <2>3. /\ Apply(s, e).parents = Apply(h, e).parents
        /\ \A b \in Block :
              \/ Apply(s, e).blocks[b] = Apply(h, e).blocks[b]
              \/ /\ ~Exists(h, b) /\ ~Exists(Apply(h, e), b)
                 /\ Apply(s, e).blocks[b] = s.blocks[b]
                 /\ ~(e.cap = "core.create" /\ e.entity = b)
    BY <1>2, <1>3, <1>5, <2>1, <2>2, ApplyBoth
  <2> QED BY <1>2, <2>3
<1>7. /\ t.grants = {g \in s.grants : ~Removes(e, g)}
                       \cup (IF e.cap = "core.grant" THEN {e.value} ELSE {})
      /\ u.grants = {g \in h.grants : ~Removes(e, g)}
                       \cup (IF e.cap = "core.grant" THEN {e.value} ELSE {})
  BY <1>2, ApplyGrants
<1>8. /\ t.editors = {ed \in s.editors : ~Expels(e, ed)}
                       \cup (IF e.cap = "editor.create" THEN {e.value.editor} ELSE {})
      /\ u.editors = {ed \in h.editors : ~Expels(e, ed)}
                       \cup (IF e.cap = "editor.create" THEN {e.value.editor} ELSE {})
  BY <1>2, ApplyEditors
<1>9. /\ t.counts = [ed \in Editor |-> IF e.ts[ed] > s.counts[ed] THEN e.ts[ed]
                                       ELSE s.counts[ed]]
      /\ u.counts = [ed \in Editor |-> IF e.ts[ed] > h.counts[ed] THEN e.ts[ed]
                                       ELSE h.counts[ed]]
  <2>1. t.counts = [ed \in Editor |-> IF e.ts[ed] > s.counts[ed] THEN e.ts[ed]
                                      ELSE s.counts[ed]]
    BY <1>2, ApplyCounts
  <2> HIDE DEF h, u
  <2>2. u.counts = [ed \in Editor |-> IF e.ts[ed] > h.counts[ed] THEN e.ts[ed]
                                      ELSE h.counts[ed]]
    BY <1>2, ApplyCounts
  <2> QED BY <2>1, <2>2
<1>10. \A ed \in Editor : /\ e.ts[ed] \in Nat /\ s.counts[ed] \in Nat
                          /\ h.counts[ed] \in Nat /\ x.counts[ed] \in Nat
  <2>1. e.ts \in Clock /\ s.counts \in Clock /\ h.counts \in Clock /\ x.counts \in Clock
    BY <1>2, StateFields DEF Event
  <2> QED BY <2>1 DEF Clock
<1> HIDE DEF h, x, u, t
<1>11. ASSUME NEW b \in Block
       PROVE  \/ t.blocks[b] = u.blocks[b]
              \/ ~Exists(u, b) /\ t.blocks[b] = x.blocks[b] /\ NeverPut(b, k + 1)
  <2> SUFFICES ASSUME t.blocks[b] # u.blocks[b]
               PROVE  ~Exists(u, b) /\ t.blocks[b] = x.blocks[b] /\ NeverPut(b, k + 1)
    OBVIOUS
  <2>1. /\ ~Exists(h, b) /\ ~Exists(u, b) /\ t.blocks[b] = s.blocks[b]
        /\ ~(e.cap = "core.create" /\ e.entity = b)
    BY <1>6
  <2>2. s.blocks[b] # h.blocks[b]
    BY <2>1 DEF Exists
  <2>3. s.blocks[b] = x.blocks[b] /\ NeverPut(b, k)
    BY <1>5, <2>2
  <2>4. NeverPut(b, k + 1)
    BY <1>1, <2>1, <2>3 DEF NeverPut
  <2> QED BY <2>1, <2>3, <2>4
<1>12. /\ u.grants \subseteq t.grants
       /\ \A g \in t.grants \ u.grants :
             g \in x.grants /\ \A i \in 1..(k + 1) : ~Removes(log[i], g)
  <2>1. u.grants \subseteq t.grants
    BY <1>5, <1>7
  <2>2. ASSUME NEW g \in t.grants \ u.grants
        PROVE  g \in x.grants /\ \A i \in 1..(k + 1) : ~Removes(log[i], g)
    <3>1. g \in s.grants \ h.grants /\ ~Removes(e, g)
      BY <1>7, <2>2
    <3> QED BY <1>1, <1>5, <3>1
  <2> QED BY <2>1, <2>2
<1>13. /\ u.editors \subseteq t.editors
       /\ \A ed \in t.editors \ u.editors :
             ed \in x.editors /\ \A i \in 1..(k + 1) : ~Expels(log[i], ed)
  <2>1. u.editors \subseteq t.editors
    BY <1>5, <1>8
  <2>2. ASSUME NEW ed \in t.editors \ u.editors
        PROVE  ed \in x.editors /\ \A i \in 1..(k + 1) : ~Expels(log[i], ed)
    <3>1. ed \in s.editors \ h.editors /\ ~Expels(e, ed)
      BY <1>8, <2>2
    <3> QED BY <1>1, <1>5, <3>1
  <2> QED BY <2>1, <2>2
<1>14. ASSUME NEW ed \in Editor
       PROVE  /\ u.counts[ed] <= t.counts[ed]
              /\ t.counts[ed] = u.counts[ed] \/ t.counts[ed] <= x.counts[ed]
  <2>1. /\ t.counts[ed] = IF e.ts[ed] > s.counts[ed] THEN e.ts[ed] ELSE s.counts[ed]
        /\ u.counts[ed] = IF e.ts[ed] > h.counts[ed] THEN e.ts[ed] ELSE h.counts[ed]
    BY <1>9
  <2>2. /\ h.counts[ed] <= s.counts[ed]
        /\ s.counts[ed] = h.counts[ed] \/ s.counts[ed] <= x.counts[ed]
    BY <1>5
  <2> QED BY <1>10, <2>1, <2>2
<1>15. Mends(t, k + 1, m)
  BY <1>6, <1>11, <1>12, <1>13, <1>14 DEF Mends, u, x
<1> QED BY <1>4, <1>15 DEF t

-----------------------------------------------------------------------------
\* What a state of the replay holds is there at the end unless it was removed.
LEMMA KeptToTheEnd ==
  ASSUME log \in Seq(Event), NEW m \in 0..Len(log)
  PROVE  /\ \A g \in History(log)[m].grants :
               (\A i \in 1..Len(log) : ~Removes(log[i], g)) => g \in Replay(log).grants
         /\ \A ed \in History(log)[m].editors :
               (\A i \in 1..Len(log) : ~Expels(log[i], ed)) => ed \in Replay(log).editors
<1>1. Len(log) \in Nat /\ m \in Nat /\ Len(log) \in m..Len(log)
  BY LenProperties
<1>2. ASSUME NEW i \in 1..Len(log)
      PROVE  /\ \A g \in History(log)[i - 1].grants :
                   ~Removes(log[i], g) => g \in History(log)[i].grants
             /\ \A ed \in History(log)[i - 1].editors :
                   ~Expels(log[i], ed) => ed \in History(log)[i].editors
  <2>1. i - 1 \in 0..Len(log)
    BY <1>1
  <2>2. /\ History(log)[i - 1] \in State /\ log[i] \in Event
        /\ History(log)[i] = Apply(History(log)[i - 1], log[i])
    BY <2>1, HistoryType, ElementOfSeq, HistoryEquations
  <2> QED BY <2>2, ApplyGrants, ApplyEditors
<1>3. ASSUME NEW g \in History(log)[m].grants, \A i \in 1..Len(log) : ~Removes(log[i], g)
      PROVE  g \in Replay(log).grants
  <2> DEFINE T == {i \in m..Len(log) : g \notin History(log)[i].grants}
  <2>1. SUFFICES ASSUME T # {} PROVE FALSE
    BY <1>1 DEF Replay
  <2>2. PICK i \in T : \A j \in T : i <= j
    <3>1. T \in SUBSET Nat
      BY <1>1
    <3> QED BY <2>1, <3>1, LeastNat
  <2>3. i # m
    BY <1>3, <2>2
  <2>4. i - 1 \in m..Len(log) /\ i - 1 \notin T /\ i \in 1..Len(log)
    BY <1>1, <2>2, <2>3
  <2> QED BY <1>2, <1>3, <2>2, <2>4
<1>4. ASSUME NEW ed \in History(log)[m].editors, \A i \in 1..Len(log) : ~Expels(log[i], ed)
      PROVE  ed \in Replay(log).editors
  <2> DEFINE T == {i \in m..Len(log) : ed \notin History(log)[i].editors}
  <2>1. SUFFICES ASSUME T # {} PROVE FALSE
    BY <1>1 DEF Replay
  <2>2. PICK i \in T : \A j \in T : i <= j
    <3>1. T \in SUBSET Nat
      BY <1>1
    <3> QED BY <2>1, <3>1, LeastNat
  <2>3. i # m
    BY <1>4, <2>2
  <2>4. i - 1 \in m..Len(log) /\ i - 1 \notin T /\ i \in 1..Len(log)
    BY <1>1, <2>2, <2>3
  <2> QED BY <1>2, <1>4, <2>2, <2>4
<1> QED BY <1>3, <1>4

(***************************************************************************)
(* When the whole log has been replayed nothing of the part that was       *)
(* restored is left over.                                                  *)
(***************************************************************************)
LEMMA MendEnd ==
  ASSUME log \in Seq(Event), LogMade(log), NEW m \in 0..Len(log),
         NEW s \in State, Mends(s, Len(log), m)
  PROVE  s = Replay(log)
<1> DEFINE h == History(log)[Len(log)]
           x == History(log)[m]
<1>1. Len(log) \in Nat /\ Len(log) \in 0..Len(log) /\ m <= Len(log)
      /\ m + 1 \in 1..(Len(log) + 1) /\ m + 1 - 1 = m /\ \A j \in 1..m : j \in 1..Len(log)
  BY LenProperties
<1>2. h \in State /\ x \in State /\ h = Replay(log)
  BY <1>1, HistoryType DEF Replay
<1>3. /\ \A b \in Block :
            \/ s.blocks[b] = h.blocks[b]
            \/ ~Exists(h, b) /\ s.blocks[b] = x.blocks[b] /\ NeverPut(b, Len(log))
      /\ s.parents = h.parents
      /\ h.grants \subseteq s.grants
      /\ \A g \in s.grants \ h.grants :
            g \in x.grants /\ \A i \in 1..Len(log) : ~Removes(log[i], g)
      /\ h.editors \subseteq s.editors
      /\ \A ed \in s.editors \ h.editors :
            ed \in x.editors /\ \A i \in 1..Len(log) : ~Expels(log[i], ed)
      /\ \A ed \in Editor :
            /\ h.counts[ed] <= s.counts[ed]
            /\ s.counts[ed] = h.counts[ed] \/ s.counts[ed] <= x.counts[ed]
  BY DEF Mends
<1>4. ASSUME NEW b \in Block, ~Exists(h, b), s.blocks[b] = x.blocks[b],
             NeverPut(b, Len(log))
      PROVE  s.blocks[b] = h.blocks[b]
  <2>1. Backed(m + 1)
    BY <1>1, AllBacked
  <2>2. Exists(x, b) => Live(m + 1, b)
    BY <1>1, <2>1 DEF Backed
  <2>3. ~Live(m + 1, b)
    BY <1>1, <1>4 DEF Live, NeverPut
  <2> QED BY <1>4, <2>2, <2>3 DEF Exists
<1>5. s.blocks = h.blocks
  <2>1. \A b \in Block : s.blocks[b] = h.blocks[b]
    BY <1>3, <1>4
  <2>2. s.blocks \in [Block -> BlockRec \cup {None}] /\ h.blocks \in [Block -> BlockRec \cup {None}]
    BY <1>2, StateFields
  <2> QED BY <2>1, <2>2
<1>6. s.grants = h.grants /\ s.editors = h.editors
  BY <1>2, <1>3, KeptToTheEnd
<1>7. s.counts = h.counts
  <2>1. s.counts \in Clock /\ h.counts \in Clock /\ x.counts \in Clock
    BY <1>2, StateFields
  <2>2. \A ed \in Editor : x.counts[ed] <= h.counts[ed]
    BY <1>1, CountsRise
  <2> HIDE DEF h, x
  <2>3. \A ed \in Editor : s.counts[ed] = h.counts[ed]
    <3>1. \A ed \in Editor : s.counts[ed] \in Nat /\ h.counts[ed] \in Nat
                             /\ x.counts[ed] \in Nat
      BY <2>1 DEF Clock
    <3>2. \A ed \in Editor :
             /\ h.counts[ed] <= s.counts[ed]
             /\ s.counts[ed] = h.counts[ed] \/ s.counts[ed] <= x.counts[ed]
      BY <1>3
    <3>3. ASSUME NEW ed \in Editor PROVE s.counts[ed] = h.counts[ed]
      <4>1. x.counts[ed] <= h.counts[ed] /\ h.counts[ed] <= s.counts[ed]
        BY <2>2, <3>2
      <4>2. s.counts[ed] = h.counts[ed] \/ s.counts[ed] <= x.counts[ed]
        BY <3>2
      <4> QED BY <3>1, <4>1, <4>2
    <3> QED BY <3>3
  <2> QED BY <2>1, <2>3 DEF Clock
<1> QED BY <1>2, <1>3, <1>5, <1>6, <1>7, StateEqual

-----------------------------------------------------------------------------
(***************************************************************************)
(* The invariant of a project with one actor and snapshots that may not    *)
(* parse: that of Engine, but while a replay on top of a part of a         *)
(* snapshot is under way; and a log of events made from the states before  *)
(* them throughout.                                                        *)
(***************************************************************************)
Mending ==
    /\ TypeInv /\ LogSound(log) /\ IdsSound(log, minted) /\ SnapshotCoherent
    /\ \A a \in Actor :
          /\ phase[a] = "up" /\ todo[a] # <<>>
          /\ \E k \in 0..(Len(log) - 1), m \in 0..Len(log) :
                todo[a] = SubSeq(log, k + 1, Len(log)) /\ Mends(st[a], k, m)

TornInv == /\ SoloInv \/ Mending
           /\ LogMade(log) /\ SeedsMade

LEMMA TornInit == Init => TornInv
<1> SUFFICES ASSUME Init PROVE TornInv
  OBVIOUS
<1>1. log = <<>> /\ Len(log) = 0
  BY EmptySeq DEF Init
<1>2. LogMade(log)
  BY <1>1 DEF LogMade
<1>3. SeedsMade
  BY DEF Init, SeedsMade
<1> QED BY <1>2, <1>3, SoloInit DEF TornInv

\* The restore that stops at a field.
LEMMA TornRestore ==
  ASSUME OneActor, SoloInv, NEW a \in Actor, RestorePart(a)
  PROVE  Mending'
<1>1. Actor = {a}
  BY DEF OneActor
<1>2. /\ TypeInv /\ LogSound(log) /\ IdsSound(log, minted) /\ SnapshotCoherent
      /\ log \in Seq(Event) /\ Len(log) \in Nat /\ st \in [Actor -> State]
      /\ todo \in [Actor -> Seq(Event)] /\ phase \in [Actor -> Phase]
  BY LenProperties DEF SoloInv, TypeInv, TypeOK
<1>3. st[a] = Empty
  BY DEF RestorePart, SoloInv, ActorSound
<1>4. log # <<>> /\ Len(log) # 0
  <2>1. log # <<>>
    BY <1>2 DEF RestorePart, TypeInv
  <2> QED BY <1>2, <2>1, EmptySeq
<1>5. PICK m \in 1..Len(log) : cache.state = History(log)[m]
  BY <1>2 DEF RestorePart, SnapshotCoherent
<1>6. PICK n \in 1..Len(FieldOrder) :
        st' = [st EXCEPT ![a] = RestoredUpTo(st[a], cache.state, n)]
  BY DEF RestorePart
<1>7. m \in 0..Len(log) /\ 0 \in 0..(Len(log) - 1) /\ 0 + 1 = 1
  BY <1>2, <1>4
<1>8. /\ st'[a] = RestoredUpTo(Empty, cache.state, n)
      /\ phase'[a] = "up" /\ todo'[a] = log
      /\ UNCHANGED <<log, minted, cache, mark>>
  BY <1>2, <1>3, <1>6 DEF RestorePart
<1>9. st'[a] \in State /\ Mends(st'[a], 0, m)
  BY <1>2, <1>5, <1>7, <1>8, MendStart
<1>10. TypeInv'
  <2>1. st' \in [Actor -> State]
    BY <1>1, <1>2, <1>6, <1>9
  <2>2. todo' \in [Actor -> Seq(Event)] /\ phase' \in [Actor -> Phase]
    BY <1>2 DEF RestorePart, Phase
  <2> QED BY <1>1, <1>2, <1>4, <1>8, <2>1, <2>2 DEF TypeInv, TypeOK
<1>11. Mends(st[a], 0, m)'
  BY <1>8, <1>9 DEF Mends, NeverPut
<1>12. log = SubSeq(log, 0 + 1, Len(log))
  BY <1>2, <1>7, SubSeqFull
<1>13. LogSound(log)' /\ IdsSound(log, minted)' /\ SnapshotCoherent'
  BY <1>2, <1>8 DEF SnapshotCoherent
<1>14. \E k \in 0..(Len(log') - 1), i \in 0..Len(log') :
          todo'[a] = SubSeq(log', k + 1, Len(log')) /\ Mends(st[a], k, i)'
  BY <1>7, <1>8, <1>11, <1>12
<1> QED BY <1>1, <1>4, <1>8, <1>10, <1>13, <1>14 DEF Mending

(***************************************************************************)
(* The replay after it: the last event makes the state whole.              *)
(***************************************************************************)
LEMMA MendingApplies ==
  ASSUME OneActor, Mending, LogMade(log), NEW a \in Actor, ApplyNext(a)
  PROVE  SoloInv' \/ Mending'
<1>1. Actor = {a}
  BY DEF OneActor
<1>2. /\ TypeInv /\ LogSound(log) /\ IdsSound(log, minted) /\ SnapshotCoherent
      /\ log \in Seq(Event) /\ Len(log) \in Nat /\ st \in [Actor -> State]
      /\ todo \in [Actor -> Seq(Event)]
  BY LenProperties DEF Mending, TypeInv, TypeOK
<1>3. PICK k \in 0..(Len(log) - 1), m \in 0..Len(log) :
        todo[a] = SubSeq(log, k + 1, Len(log)) /\ Mends(st[a], k, m)
  BY DEF Mending
<1>4. /\ k + 1 \in 1..Len(log) /\ Len(log) \in (k + 1)..Len(log)
      /\ k + 1 + 1 = k + 2 /\ k + 1 \in 0..Len(log)
  BY <1>2
<1>5. Head(todo[a]) = log[k + 1] /\ Tail(todo[a]) = SubSeq(log, k + 2, Len(log))
  <2>1. Head(SubSeq(log, k + 1, Len(log))) = log[k + 1]
    BY <1>4, HeadTailOfSubSeq
  <2>2. Tail(SubSeq(log, k + 1, Len(log))) = SubSeq(log, k + 1 + 1, Len(log))
    BY <1>4, HeadTailOfSubSeq
  <2> QED BY <1>3, <1>4, <2>1, <2>2
<1>6. /\ UNCHANGED <<log, minted, cache, phase, mark>>
      /\ st'[a] = Apply(st[a], log[k + 1])
      /\ todo'[a] = SubSeq(log, k + 2, Len(log))
      /\ phase'[a] = "up"
  BY <1>2, <1>5 DEF ApplyNext
<1>7. st'[a] \in State /\ Mends(st'[a], k + 1, m)
  BY <1>2, <1>3, <1>6, MendStep
<1>8. TypeInv'
  <2>1. [Next]_vars
    BY DEF Next, Step, StartStep
  <2> QED BY <1>2, <2>1, TypeNext
<1>9. LogSound(log)' /\ IdsSound(log, minted)' /\ SnapshotCoherent'
  BY <1>2, <1>6 DEF SnapshotCoherent
<1>10. CASE k + 1 = Len(log)
  <2>1. st'[a] = Replay(log)
    BY <1>2, <1>7, <1>10, MendEnd
  <2>2. Covers(st'[a], todo'[a], log')
    BY <1>2, <1>4, <1>6, <1>10, <2>1 DEF Covers, Replay
  <2>3. ActorSound(a)'
    BY <1>6, <2>2 DEF ActorSound
  <2> QED BY <1>1, <1>8, <1>9, <2>3 DEF SoloInv
<1>11. CASE k + 1 # Len(log)
  <2>1. k + 1 \in 0..(Len(log) - 1) /\ k + 2 \in 1..Len(log)
    BY <1>2, <1>4, <1>11
  <2>2. todo'[a] # <<>>
    <3>1. k + 2 \in 1..(Len(log) + 1) /\ Len(log) \in (k + 2 - 1)..Len(log)
      BY <1>2, <2>1
    <3>2. \A i \in (k + 2)..Len(log) : log[i] \in Event
      BY <1>2, <2>1, ElementOfSeq
    <3>3. Len(SubSeq(log, k + 2, Len(log))) = Len(log) - (k + 2) + 1
      BY <1>2, <2>1, <3>1, <3>2, SubSeqProperties
    <3>4. Len(log) - (k + 2) + 1 # 0
      BY <1>2, <2>1
    <3>5. Len(<<>>) = 0
      BY EmptySeq
    <3> QED BY <1>6, <3>3, <3>4, <3>5
  <2>3. Mends(st[a], k + 1, m)'
    BY <1>6, <1>7 DEF Mends, NeverPut
  <2>4. \E i \in 0..(Len(log') - 1), j \in 0..Len(log') :
           todo'[a] = SubSeq(log', i + 1, Len(log')) /\ Mends(st[a], i, j)'
    BY <1>4, <1>6, <2>1, <2>3
  <2> QED BY <1>1, <1>6, <1>8, <1>9, <2>2, <2>4 DEF Mending
<1> QED BY <1>10, <1>11

LEMMA TornStep ==
  ASSUME OneActor, TornInv, [TornNext]_vars
  PROVE  TornInv'
<1>1. PICK a : Actor = {a}
  BY DEF OneActor
<1>2. LogMade(log) /\ SeedsMade /\ a \in Actor /\ (SoloInv \/ Mending)
  BY <1>1 DEF TornInv
<1>3. CASE SoloInv /\ [Next]_vars
  <2>1. LogMade(log)' /\ SeedsMade'
    BY <1>2, <1>3, MadeNext
  <2> QED BY <1>3, <2>1, SoloNext DEF TornInv
<1>4. CASE SoloInv /\ RestorePart(a)
  <2>1. Mending'
    BY <1>2, <1>4, TornRestore
  <2>2. LogMade(log)' /\ SeedsMade'
    BY <1>1, <1>2, <1>4, <2>1 DEF RestorePart, LogMade, SeedsMade, Mending
  <2> QED BY <2>1, <2>2 DEF TornInv
<1>5. CASE Mending
  <2>1. /\ phase[a] = "up" /\ todo[a] # <<>> /\ phase \in [Actor -> Phase]
        /\ TypeInv /\ LogSound(log) /\ IdsSound(log, minted) /\ SnapshotCoherent
    BY <1>2, <1>5 DEF Mending, TypeInv, TypeOK
  <2>2. ApplyNext(a) \/ Crash(a) \/ UNCHANGED vars
    BY <1>1, <2>1 DEF TornNext, Next, Step, StartStep, OpenNew, OpenExisting, SeedNext,
       RestoreSnapshot, FetchIncrement, FetchAll, FetchFallback, ProcessCommand,
       CloseRead, CloseSave, CacheLost, RestorePart, Serving
  <2>3. CASE ApplyNext(a)
    <3>1. SoloInv' \/ Mending'
      BY <1>2, <1>5, <2>3, MendingApplies
    <3>2. UNCHANGED <<log, phase>>
      BY <2>3 DEF ApplyNext
    <3>3. LogMade(log)' /\ SeedsMade'
      BY <1>1, <1>2, <2>1, <3>2 DEF LogMade, SeedsMade
    <3> QED BY <3>1, <3>3 DEF TornInv
  <2>4. CASE Crash(a)
    <3>1. [Next]_vars
      BY <1>2, <2>4 DEF Next, Step
    <3>2. TypeInv'
      BY <2>1, <3>1, TypeNext
    <3>3. /\ UNCHANGED <<log, minted, cache>> /\ phase'[a] = "down"
          /\ st'[a] = Empty /\ todo'[a] = <<>>
      BY <1>2, <2>1, <2>4 DEF Crash, TypeInv, TypeOK
    <3>4. ActorSound(a)'
      BY <3>3 DEF ActorSound
    <3>5. LogSound(log)' /\ IdsSound(log, minted)' /\ SnapshotCoherent'
      BY <2>1, <3>3 DEF SnapshotCoherent
    <3>6. LogMade(log)' /\ SeedsMade'
      BY <1>1, <1>2, <3>3 DEF LogMade, SeedsMade
    <3> QED BY <1>1, <3>2, <3>4, <3>5, <3>6 DEF TornInv, SoloInv
  <2>5. CASE UNCHANGED vars
    <3>1. UNCHANGED <<log, minted, cache, phase, st, todo, mark>>
      BY <2>5 DEF vars
    <3>2. LogMade(log)' /\ SeedsMade'
      BY <1>2, <3>1 DEF LogMade, SeedsMade
    <3>3. TypeInv'
      BY <2>1, <2>5, TypeNext
    <3>4. PICK k \in 0..(Len(log) - 1), m \in 0..Len(log) :
            todo[a] = SubSeq(log, k + 1, Len(log)) /\ Mends(st[a], k, m)
      BY <1>2, <1>5 DEF Mending
    <3>5. Mends(st[a], k, m)'
      BY <3>1, <3>4 DEF Mends, NeverPut
    <3>6. LogSound(log)' /\ IdsSound(log, minted)' /\ SnapshotCoherent'
      BY <2>1, <3>1 DEF SnapshotCoherent
    <3>7. \E i \in 0..(Len(log') - 1), j \in 0..Len(log') :
             todo'[a] = SubSeq(log', i + 1, Len(log')) /\ Mends(st[a], i, j)'
      BY <3>1, <3>4, <3>5
    <3>8. Mending'
      BY <1>1, <2>1, <3>1, <3>3, <3>6, <3>7 DEF Mending
    <3> QED BY <3>2, <3>8 DEF TornInv
  <2> QED BY <2>2, <2>3, <2>4, <2>5
<1> QED BY <1>1, <1>2, <1>3, <1>4, <1>5 DEF TornNext

-----------------------------------------------------------------------------
(***************************************************************************)
(* The theorems.  Spec is a part of TornSpec, so that what holds of        *)
(* TornSpec holds of Engine by itself as well.                             *)
(***************************************************************************)

(***************************************************************************)
(* The invariant holds in every run, whatever part of a snapshot is        *)
(* restored, however often, and whatever crashes in between.               *)
(***************************************************************************)
THEOREM TornSafety ==
  ASSUME OneActor
  PROVE  TornSpec => []TornInv
<1>1. TornInv /\ [TornNext]_vars => TornInv'
  BY TornStep
<1> QED BY <1>1, TornInit, PTL DEF TornSpec

(***************************************************************************)
(* An engine without such snapshots is one with them.                      *)
(***************************************************************************)
THEOREM SpecIsTorn == Spec => TornSpec
<1>1. [Next]_vars => [TornNext]_vars
  BY DEF TornNext
<1> QED BY <1>1, PTL DEF Spec, TornSpec

\* Whoever serves serves the replay of the log, half-restored states or not.
LEMMA TornServes == TornInv => ViewIsReplay
<1>1. SoloInv => ViewIsReplay
  BY ServedState DEF ViewIsReplay
<1>2. Mending => ViewIsReplay
  BY DEF Mending, ViewIsReplay, Serving
<1> QED BY <1>1, <1>2 DEF TornInv

(***************************************************************************)
(* A start from a snapshot of which only some fields could be restored     *)
(* serves the replay of the log all the same: the replay of the whole log  *)
(* on top of them repairs each of them (restore_full_state,                *)
(* ElfileEngineActor::new).                                                *)
(***************************************************************************)
THEOREM ReplayRepairs ==
  ASSUME OneActor
  PROVE  TornSpec => []ViewIsReplay
BY TornServes, TornSafety, PTL

\* The repair is nothing a client sees.
LEMMA TornPromiseNext ==
  ASSUME OneActor, TornInv, [TornNext]_vars
  PROVE  [Promise!Next]_(Promise!vars)
<1>1. PICK a : Actor = {a}
  BY DEF OneActor
<1>2. TornInv' /\ a \in Actor
  BY <1>1, TornStep
<1>3. /\ View = IF Serving(a) THEN st[a] ELSE None
      /\ (View = IF Serving(a) THEN st[a] ELSE None)'
  BY <1>1 DEF View
<1>4. Serving(a)' => View' = Replay(log')
  <2>1. ViewIsReplay'
    BY <1>2, TornServes, PTL
  <2> QED BY <1>2, <1>3, <2>1 DEF ViewIsReplay
<1>5. ASSUME ~Serving(a), UNCHANGED log
      PROVE  [Promise!Next]_(Promise!vars)
  <2>1. View = None /\ Replay(log') = Replay(log)
    BY <1>3, <1>5
  <2>2. View' = None \/ View' = Replay(log)
    BY <1>3, <1>4, <2>1
  <2> QED BY <1>5, <2>1, <2>2 DEF Promise!Next, Promise!Reveal, Promise!vars
<1>6. CASE SoloInv /\ [Next]_vars
  BY <1>6, PromiseNext
<1>7. CASE RestorePart(a)
  BY <1>5, <1>7 DEF RestorePart, Serving
<1>8. CASE Mending
  <2>1. phase[a] = "up" /\ todo[a] # <<>>
    BY <1>2, <1>8 DEF Mending
  <2>2. UNCHANGED log
    BY <1>1, <2>1 DEF TornNext, Next, Step, StartStep, OpenNew, OpenExisting, SeedNext,
       RestoreSnapshot, FetchIncrement, FetchAll, FetchFallback, ApplyNext, Crash,
       ProcessCommand, CloseRead, CloseSave, CacheLost, RestorePart, Serving, vars
  <2> QED BY <1>5, <2>1, <2>2 DEF Serving
<1> QED BY <1>1, <1>6, <1>7, <1>8 DEF TornInv, TornNext

(***************************************************************************)
(* Engine keeps the promise of EventSourcing also where snapshots fail to  *)
(* parse at any field: half-restored states are never shown, and what is   *)
(* shown next is the replay of the whole log (restore_full_state).         *)
(***************************************************************************)
THEOREM TornKeepsPromise ==
  ASSUME OneActor
  PROVE  TornSpec => PromiseKept
<1>1. TornInv /\ [TornNext]_vars => [Promise!Next]_(Promise!vars)
  BY TornPromiseNext
<1>2. Init => Promise!Init
  BY PromiseInit
<1> QED BY <1>1, <1>2, TornSafety, PTL DEF TornSpec, PromiseKept, Promise!Spec

LEMMA TornLog == TornInv => log \in Seq(Event) /\ LogMade(log)
BY DEF TornInv, SoloInv, Mending, TypeInv, TypeOK

(***************************************************************************)
(* Whoever committed an event was entitled to it by the log before it:     *)
(* nothing is ever committed on a block after its deletion, or on the      *)
(* strength of a grant that was revoked or went with its editor, through   *)
(* every restart (process_command, certificator, GrantsTable).             *)
(***************************************************************************)
THEOREM LogJustifiesItself ==
  ASSUME OneActor
  PROVE  TornSpec => []EventsAreAuthorised
<1>1. TornInv => EventsAreAuthorised
  BY TornLog, MadeIsAuthorised
<1> QED BY <1>1, TornSafety, PTL

(***************************************************************************)
(* The vector clocks of the log say its order, across commands, seeds and  *)
(* restarts (process_command, step 5; apply_event's merge).                *)
(***************************************************************************)
THEOREM ClocksSayTheOrder ==
  ASSUME OneActor
  PROVE  TornSpec => []ClocksFollowLog
<1>1. TornInv => ClocksFollowLog
  BY TornLog, MadeIsOrdered
<1> QED BY <1>1, TornSafety, PTL

(***************************************************************************)
(* A write event, which carries the whole contents, leaves the fields it   *)
(* is not about as the log had them, and empties none                      *)
(* (handle_document_write, handle_task_write).                             *)
(***************************************************************************)
THEOREM WritesAreMerged ==
  ASSUME OneActor
  PROVE  TornSpec => []WritesKeepOthers
<1>1. TornInv => WritesKeepOthers
  BY TornLog, MadeKeepsOthers
<1> QED BY <1>1, TornSafety, PTL

-----------------------------------------------------------------------------
(***************************************************************************)
(* Several actors on one store: what can still be said of their states and *)
(* of the log, for any number of actors.  The recursive function inside    *)
(* Readings exists and is the only one, for every log.                     *)
(***************************************************************************)

\* The states of a set, and what one more event makes of them.
Widened(states, e) == states \cup {Apply(s, e) : s \in states}

\* r gives the readings of the first n events of l.
Reads(r, l, n) ==
    r = [i \in 0..n |-> IF i = 0 THEN {Empty} ELSE Widened(r[i - 1], l[i])]

\* Some function reads any number of events.
LEMMA ReadsExist ==
  ASSUME NEW l, NEW n \in Nat
  PROVE  \E r : Reads(r, l, n)
<1> DEFINE T == {m \in Nat : ~ \E r : Reads(r, l, m)}
<1>1. SUFFICES ASSUME T # {} PROVE FALSE
  OBVIOUS
<1>2. PICK m \in T : \A k \in T : m <= k
  <2>1. T \in SUBSET Nat
    OBVIOUS
  <2> QED BY <1>1, <2>1, LeastNat
<1>3. m # 0
  <2>1. Reads([i \in 0..0 |-> {Empty}], l, 0)
    BY DEF Reads
  <2> QED BY <2>1
<1>4. m \in Nat /\ m - 1 \in Nat /\ m - 1 \notin T
  BY <1>2, <1>3
<1>5. PICK r : Reads(r, l, m - 1)
  BY <1>4
<1> DEFINE g == [i \in 0..m |-> IF i = m THEN Widened(r[m - 1], l[m]) ELSE r[i]]
<1>6. \A i \in 0..m : g[i] = IF i = 0 THEN {Empty} ELSE Widened(g[i - 1], l[i])
  <2>1. \A i \in 0..(m - 1) :
          r[i] = IF i = 0 THEN {Empty} ELSE Widened(r[i - 1], l[i])
    BY <1>4, <1>5 DEF Reads
  <2>2. \A i \in 0..(m - 1) : g[i] = r[i]
    BY <1>4
  <2>3. ASSUME NEW i \in 0..m
        PROVE  g[i] = IF i = 0 THEN {Empty} ELSE Widened(g[i - 1], l[i])
    <3>1. CASE i = m
      <4>1. g[i] = Widened(r[m - 1], l[m]) /\ m - 1 \in 0..(m - 1)
        BY <1>4, <3>1
      <4>2. g[m - 1] = r[m - 1]
        BY <2>2, <4>1
      <4> HIDE DEF g
      <4> QED BY <1>3, <3>1, <4>1, <4>2
    <3>2. CASE i # m
      <4>1. i \in 0..(m - 1) /\ (i # 0 => i - 1 \in 0..(m - 1))
        BY <1>4, <3>2
      <4>2. g[i] = r[i] /\ (i # 0 => g[i - 1] = r[i - 1])
        BY <2>2, <4>1
      <4> HIDE DEF g
      <4> QED BY <2>1, <4>1, <4>2
    <3> QED BY <3>1, <3>2
  <2> HIDE DEF g
  <2> QED BY <2>3
<1>7. Reads(g, l, m)
  BY <1>6 DEF Reads
<1> QED BY <1>2, <1>7

\* Two of them agree as far as their logs do.
LEMMA ReadsUnique ==
  ASSUME NEW f, NEW g, NEW l, NEW k, NEW n \in Nat, NEW m \in Nat, n <= m,
         Reads(f, l, n), Reads(g, k, m),
         \A i \in 1..n : l[i] = k[i]
  PROVE  \A i \in 0..n : f[i] = g[i]
<1> DEFINE T == {i \in 0..n : f[i] # g[i]}
<1>1. SUFFICES ASSUME T # {} PROVE FALSE
  OBVIOUS
<1>2. PICK i \in T : \A j \in T : i <= j
  <2>1. T \in SUBSET Nat
    OBVIOUS
  <2> QED BY <1>1, <2>1, LeastNat
<1>3. /\ f[i] = IF i = 0 THEN {Empty} ELSE Widened(f[i - 1], l[i])
      /\ g[i] = IF i = 0 THEN {Empty} ELSE Widened(g[i - 1], k[i])
  <2>1. i \in 0..n /\ i \in 0..m
    OBVIOUS
  <2> QED BY <2>1 DEF Reads
<1>4. i # 0
  BY <1>3
<1>5. i - 1 \in 0..n /\ i \in 1..n
  BY <1>4
<1>6. f[i - 1] = g[i - 1]
  BY <1>2, <1>5
<1> QED BY <1>3, <1>4, <1>5, <1>6

\* Readings is such a function.
LEMMA ReadingsRead ==
  ASSUME NEW S, NEW l \in Seq(S)
  PROVE  Reads(Readings(l), l, Len(l))
<1>1. \E r : Reads(r, l, Len(l))
  BY ReadsExist, LenProperties
<1> QED BY <1>1, Zenon DEF Readings, Reads, Widened

LEMMA ReadingsEquations ==
  ASSUME NEW S, NEW l \in Seq(S)
  PROVE  /\ Readings(l)[0] = {Empty}
         /\ \A i \in 1..Len(l) : Readings(l)[i] = Widened(Readings(l)[i - 1], l[i])
<1>1. Len(l) \in Nat
  BY LenProperties
<1>2. \A i \in 0..Len(l) :
        Readings(l)[i] = IF i = 0 THEN {Empty} ELSE Widened(Readings(l)[i - 1], l[i])
  <2> DEFINE r == Readings(l)
  <2>1. r = [i \in 0..Len(l) |-> IF i = 0 THEN {Empty} ELSE Widened(r[i - 1], l[i])]
    BY ReadingsRead DEF Reads
  <2> HIDE DEF r
  <2>2. \A i \in 0..Len(l) : r[i] = IF i = 0 THEN {Empty} ELSE Widened(r[i - 1], l[i])
    BY <2>1
  <2> QED BY <2>2 DEF r
<1> QED BY <1>1, <1>2

\* An event more leaves the readings of those before it as they were.
LEMMA ReadingsAppend ==
  ASSUME NEW S, NEW l \in Seq(S), NEW e \in S
  PROVE  \A i \in 0..Len(l) : Readings(Append(l, e))[i] = Readings(l)[i]
<1> DEFINE k == Append(l, e)
<1>1. /\ k \in Seq(S) /\ Len(k) = Len(l) + 1 /\ Len(l) \in Nat
      /\ \A i \in 1..Len(l) : k[i] = l[i]
  BY AppendProperties, LenProperties
<1> HIDE DEF k
<1>2. Reads(Readings(l), l, Len(l)) /\ Reads(Readings(k), k, Len(k))
  BY <1>1, ReadingsRead
<1>3. \A i \in 0..Len(l) : Readings(l)[i] = Readings(k)[i]
  BY <1>1, <1>2, ReadsUnique
<1> QED BY <1>3 DEF k

\* Whoever has seen part of the first i events has seen part of the first j.
LEMMA ReadingsGrow ==
  ASSUME NEW S, NEW l \in Seq(S), NEW i \in 0..Len(l), NEW j \in i..Len(l)
  PROVE  Readings(l)[i] \subseteq Readings(l)[j]
<1> DEFINE T == {k \in i..Len(l) : ~(Readings(l)[i] \subseteq Readings(l)[k])}
<1>1. SUFFICES ASSUME T # {} PROVE FALSE
  OBVIOUS
<1>2. Len(l) \in Nat /\ i \in Nat
  BY LenProperties
<1>3. PICK k \in T : \A m \in T : k <= m
  <2>1. T \in SUBSET Nat
    BY <1>2
  <2> QED BY <1>1, <2>1, LeastNat
<1>4. k # i
  BY <1>3
<1>5. k - 1 \in i..Len(l) /\ k \in 1..Len(l)
  BY <1>2, <1>4
<1>6. Readings(l)[i] \subseteq Readings(l)[k - 1]
  BY <1>2, <1>3, <1>5
<1>7. Readings(l)[k] = Widened(Readings(l)[k - 1], l[k])
  BY <1>5, ReadingsEquations
<1> QED BY <1>3, <1>6, <1>7 DEF Widened

\* Readings are states.
LEMMA ReadingsType ==
  ASSUME NEW l \in Seq(Event), NEW i \in 0..Len(l)
  PROVE  Readings(l)[i] \subseteq State
<1> DEFINE T == {k \in 0..Len(l) : ~(Readings(l)[k] \subseteq State)}
<1>1. SUFFICES ASSUME T # {} PROVE FALSE
  OBVIOUS
<1>2. Len(l) \in Nat
  BY LenProperties
<1>3. PICK k \in T : \A m \in T : k <= m
  <2>1. T \in SUBSET Nat
    BY <1>2
  <2> QED BY <1>1, <2>1, LeastNat
<1>4. k # 0
  <2>1. Readings(l)[0] = {Empty}
    BY ReadingsEquations
  <2> QED BY <1>3, <2>1, EmptyType
<1>5. k - 1 \in 0..Len(l) /\ k \in 1..Len(l)
  BY <1>2, <1>4
<1>6. Readings(l)[k - 1] \subseteq State
  BY <1>2, <1>3, <1>5
<1>7. Readings(l)[k] = Widened(Readings(l)[k - 1], l[k]) /\ l[k] \in Event
  BY <1>5, ReadingsEquations, ElementOfSeq
<1>8. \A s \in Readings(l)[k - 1] : Apply(s, l[k]) \in State
  BY <1>6, <1>7, ApplyType
<1> QED BY <1>3, <1>6, <1>7, <1>8 DEF Widened

\* Parts of a log that an append leaves alone.
LEMMA SubSeqOfAppend ==
  ASSUME NEW l \in Seq(Event), NEW f \in Event, NEW i \in 1..(Len(l) + 1),
         NEW m \in 0..Len(l)
  PROVE  SubSeq(Append(l, f), i, m) = SubSeq(l, i, m)
<1>1. Len(l) \in Nat /\ <<f>> \in Seq(Event)
  BY LenProperties
<1>2. CASE m < i
  BY <1>1, <1>2, SubSeqEmpty
<1>3. CASE i <= m
  <2>1. i \in 1..Len(l) /\ m \in 1..Len(l)
    BY <1>1, <1>3
  <2> QED BY <1>1, <2>1, AppendIsConcat, SubSeqOfConcat1
<1> QED BY <1>1, <1>2, <1>3

-----------------------------------------------------------------------------
(***************************************************************************)
(* The invariant of any number of actors.                                  *)
(***************************************************************************)

\* State s is a reading of the log up to the event with this id.
Reached(s, l, id) == \E i \in 1..Len(l) : l[i].id = id /\ s \in Readings(l)[i]

\* State s is a reading of a first part of the log, t are events right after it.
Awaits(s, t, l) ==
    \E n \in 0..Len(l) : \E k \in 0..n :
       s \in Readings(l)[k] /\ t = SubSeq(l, k + 1, n)

ActorReads(a) ==
    /\ phase[a] \notin {"seeding", "up"} => todo[a] = <<>>
    /\ phase[a] = "seeding" => \A i \in 1..Len(todo[a]) : LikeSeed(todo[a][i])
    /\ phase[a] \in {"down", "seeding", "spawning"} => st[a] = Empty
    /\ phase[a] \in {"restored", "closing"} => Reached(st[a], log, mark[a])
    /\ phase[a] = "up" => Awaits(st[a], todo[a], log)

SnapshotReads == cache # None => Reached(cache.state, log, cache.id)

ManyInv ==
    /\ TypeInv
    /\ IdsSound(log, minted)
    /\ EventsAreOutcomes
    /\ SnapshotReads
    /\ \A a \in Actor : ActorReads(a)

LEMMA ManyInit == Init => ManyInv
<1> SUFFICES ASSUME Init PROVE ManyInv
  OBVIOUS
<1>1. log = <<>> /\ Len(log) = 0
  BY EmptySeq DEF Init
<1>2. EventsAreOutcomes
  BY <1>1 DEF EventsAreOutcomes
<1>3. IdsSound(log, minted)
  BY <1>1 DEF IdsSound
<1>4. SnapshotReads /\ \A a \in Actor : ActorReads(a)
  BY DEF Init, SnapshotReads, ActorReads
<1> QED BY <1>2, <1>3, <1>4, TypeInit DEF ManyInv

-----------------------------------------------------------------------------
(***************************************************************************)
(* What others insert takes nothing back.                                  *)
(***************************************************************************)
LEMMA ReachedAppend ==
  ASSUME NEW l \in Seq(Event), NEW f \in Event, NEW s, NEW id, Reached(s, l, id)
  PROVE  Reached(s, Append(l, f), id)
<1> DEFINE k == Append(l, f)
<1>1. PICK i \in 1..Len(l) : l[i].id = id /\ s \in Readings(l)[i]
  BY DEF Reached
<1>2. /\ Len(l) \in Nat /\ Len(k) = Len(l) + 1 /\ k[i] = l[i]
      /\ i \in 0..Len(l) /\ i \in 1..Len(k)
  BY AppendProperties, LenProperties
<1>3. Readings(k)[i] = Readings(l)[i]
  BY <1>2, ReadingsAppend
<1> HIDE DEF k
<1>4. Reached(s, k, id)
  BY <1>1, <1>2, <1>3 DEF Reached
<1> QED BY <1>4 DEF k

LEMMA AwaitsAppend ==
  ASSUME NEW l \in Seq(Event), NEW f \in Event, NEW s, NEW t, Awaits(s, t, l)
  PROVE  Awaits(s, t, Append(l, f))
<1> DEFINE u == Append(l, f)
<1>1. PICK n \in 0..Len(l) : \E k \in 0..n :
        s \in Readings(l)[k] /\ t = SubSeq(l, k + 1, n)
  BY DEF Awaits
<1>2. PICK k \in 0..n : s \in Readings(l)[k] /\ t = SubSeq(l, k + 1, n)
  BY <1>1
<1>3. Len(l) \in Nat /\ Len(u) = Len(l) + 1
  BY AppendProperties, LenProperties
<1>4. k \in 0..Len(l) /\ k + 1 \in 1..(Len(l) + 1) /\ n \in 0..Len(u)
  BY <1>3
<1>5. Readings(u)[k] = Readings(l)[k] /\ SubSeq(u, k + 1, n) = SubSeq(l, k + 1, n)
  BY <1>4, ReadingsAppend, SubSeqOfAppend
<1> HIDE DEF u
<1>6. Awaits(s, t, u)
  BY <1>2, <1>4, <1>5 DEF Awaits
<1> QED BY <1>6 DEF u

LEMMA WarrantAppend ==
  ASSUME NEW l \in Seq(Event), NEW f \in Event,
         NEW i \in 1..Len(l), Warranted(Readings(l), l, i)
  PROVE  Warranted(Readings(Append(l, f)), Append(l, f), i)
<1> DEFINE k == Append(l, f)
<1>1. /\ Len(l) \in Nat /\ i - 1 \in 0..Len(l) /\ 1 \in 1..(Len(l) + 1)
      /\ k[i] = l[i]
  BY AppendProperties, LenProperties
<1>2. Readings(k)[i - 1] = Readings(l)[i - 1]
  BY <1>1, ReadingsAppend
<1>3. SubSeq(k, 1, i - 1) = SubSeq(l, 1, i - 1)
  BY <1>1, SubSeqOfAppend
<1> HIDE DEF k
<1>4. Warranted(Readings(k), k, i)
  BY <1>1, <1>2, <1>3 DEF Warranted
<1> QED BY <1>4 DEF k

\* The event that is appended, if it answers a command on a reading of the log.
LEMMA WarrantLast ==
  ASSUME NEW l \in Seq(Event), NEW f \in Event,
         LikeSeed(f) \/ Answers(f, Readings(l)[Len(l)], l)
  PROVE  Warranted(Readings(Append(l, f)), Append(l, f), Len(l) + 1)
<1> DEFINE k == Append(l, f)
           n == Len(l)
<1>1. /\ n \in Nat /\ n + 1 - 1 = n /\ n \in 0..n
      /\ k[n + 1] = f
  BY AppendProperties, LenProperties
<1>2. Readings(k)[n] = Readings(l)[n]
  BY <1>1, ReadingsAppend
<1>3. SubSeq(k, 1, n) = l
  BY AppendKeeps
<1> HIDE DEF k, n
<1>4. Readings(k)[n + 1 - 1] = Readings(l)[n] /\ SubSeq(k, 1, n + 1 - 1) = l
  BY <1>1, <1>2, <1>3
<1>5. LikeSeed(k[n + 1]) \/ Answers(k[n + 1], Readings(k)[n + 1 - 1],
                                       SubSeq(k, 1, n + 1 - 1))
  BY <1>1, <1>4 DEF n
<1> QED BY <1>5 DEF k, n, Warranted

\* Taking the next event in hand.
LEMMA AwaitsApply ==
  ASSUME NEW l \in Seq(Event), NEW s, NEW t, t # <<>>, Awaits(s, t, l)
  PROVE  Awaits(Apply(s, Head(t)), Tail(t), l)
<1>1. PICK n \in 0..Len(l) : \E k \in 0..n :
        s \in Readings(l)[k] /\ t = SubSeq(l, k + 1, n)
  BY DEF Awaits
<1>2. PICK k \in 0..n : s \in Readings(l)[k] /\ t = SubSeq(l, k + 1, n)
  BY <1>1
<1>3. Len(l) \in Nat
  BY LenProperties
<1>4. k # n
  BY <1>2, <1>3, SubSeqEmpty
<1>5. /\ k + 1 \in 1..Len(l) /\ n \in (k + 1)..Len(l) /\ k + 1 - 1 = k
      /\ k + 1 \in 0..n
  BY <1>3, <1>4
<1>6. Head(t) = l[k + 1] /\ Tail(t) = SubSeq(l, k + 1 + 1, n)
  BY <1>2, <1>5, HeadTailOfSubSeq
<1>7. Readings(l)[k + 1] = Widened(Readings(l)[k], l[k + 1])
  BY <1>5, ReadingsEquations
<1>8. Apply(s, l[k + 1]) \in Readings(l)[k + 1]
  BY <1>2, <1>7 DEF Widened
<1> QED BY <1>5, <1>6, <1>8 DEF Awaits

\* An actor with nothing in hand serves a reading of the log.
LEMMA AwaitsNothing ==
  ASSUME NEW l \in Seq(Event), NEW s, NEW t, Awaits(s, t, l)
  PROVE  s \in Readings(l)[Len(l)]
<1>1. PICK n \in 0..Len(l) : \E k \in 0..n :
        s \in Readings(l)[k] /\ t = SubSeq(l, k + 1, n)
  BY DEF Awaits
<1>2. PICK k \in 0..n : s \in Readings(l)[k]
  BY <1>1
<1>3. k \in 0..Len(l) /\ Len(l) \in k..Len(l)
  BY LenProperties
<1> QED BY <1>2, <1>3, ReadingsGrow

\* A start from nothing has the whole log before it.
LEMMA AwaitsAll ==
  ASSUME NEW l \in Seq(Event)
  PROVE  Awaits(Empty, l, l)
<1>1. Len(l) \in 0..Len(l) /\ 0 \in 0..Len(l) /\ 0 + 1 = 1
  BY LenProperties
<1>2. Empty \in Readings(l)[0]
  BY ReadingsEquations
<1>3. l = SubSeq(l, 1, Len(l))
  BY SubSeqFull
<1> QED BY <1>1, <1>2, <1>3 DEF Awaits

\* The actor that commits an event has it in hand.
LEMMA AwaitsOwn ==
  ASSUME NEW l \in Seq(Event), NEW f \in Event, NEW s \in Readings(l)[Len(l)]
  PROVE  Awaits(s, <<f>>, Append(l, f))
<1> DEFINE k == Append(l, f)
           n == Len(l)
<1>1. /\ n \in Nat /\ k \in Seq(Event) /\ Len(k) = n + 1 /\ k[n + 1] = f
      /\ n \in 0..(n + 1) /\ n + 1 \in 0..(n + 1) /\ n \in 0..n
  BY AppendProperties, LenProperties
<1>2. Readings(k)[n] = Readings(l)[n]
  BY <1>1, ReadingsAppend
<1> HIDE DEF k
<1>3. SubSeq(k, n + 1, n + 1) = <<f>>
  <2> HIDE DEF n
  <2>1. \A i \in (n + 1)..(n + 1) : k[i] \in Event
    BY <1>1
  <2>2. /\ SubSeq(k, n + 1, n + 1) \in Seq(Event)
        /\ Len(SubSeq(k, n + 1, n + 1)) = 1
        /\ SubSeq(k, n + 1, n + 1)[1] = f
    BY <1>1, <2>1, SubSeqProperties
  <2>3. <<f>> \in Seq(Event) /\ Len(<<f>>) = 1 /\ <<f>>[1] = f
    OBVIOUS
  <2> DEFINE q == SubSeq(k, n + 1, n + 1)
  <2>4. Len(q) = Len(<<f>>) /\ \A i \in 1..Len(q) : q[i] = <<f>>[i]
    BY <2>2, <2>3
  <2> HIDE DEF q
  <2>5. q \in Seq(Event)
    BY <2>2 DEF q
  <2>6. q = <<f>>
    BY <2>3, <2>4, <2>5, SeqEqual
  <2> QED BY <2>6 DEF q
<1>4. Awaits(s, <<f>>, k)
  BY <1>1, <1>2, <1>3 DEF Awaits
<1> QED BY <1>4 DEF k

-----------------------------------------------------------------------------
(***************************************************************************)
(* The invariant is inductive.                                             *)
(***************************************************************************)

\* Every actor but a is where it was.
OthersStay(a) ==
    \A b \in Actor \ {a} : /\ phase'[b] = phase[b] /\ st'[b] = st[b]
                           /\ todo'[b] = todo[b] /\ mark'[b] = mark[b]

\* What an actor holds is not affected by what is inserted.
LEMMA ActorStays ==
  ASSUME log \in Seq(Event), NEW f \in Event,
         log' = log \/ log' = Append(log, f),
         NEW b \in Actor, ActorReads(b),
         phase'[b] = phase[b], st'[b] = st[b], todo'[b] = todo[b], mark'[b] = mark[b]
  PROVE  ActorReads(b)'
<1>1. Reached(st[b], log, mark[b]) => Reached(st[b], log', mark[b])
  BY ReachedAppend
<1>2. Awaits(st[b], todo[b], log) => Awaits(st[b], todo[b], log')
  BY AwaitsAppend
<1> QED BY <1>1, <1>2 DEF ActorReads

\* A step of a that leaves the store alone.
LEMMA QuietStep ==
  ASSUME ManyInv, TypeInv', NEW a \in Actor, UNCHANGED <<log, minted>>,
         OthersStay(a), ActorReads(a)', SnapshotReads'
  PROVE  ManyInv'
<1>1. \A b \in Actor : ActorReads(b)'
  <2> SUFFICES ASSUME NEW b \in Actor \ {a} PROVE ActorReads(b)'
    OBVIOUS
  <2> QED BY DEF ManyInv, OthersStay, ActorReads
<1>2. EventsAreOutcomes'
  BY DEF ManyInv, EventsAreOutcomes
<1> QED BY <1>1, <1>2 DEF ManyInv

\* A step of a that inserts an event.
LEMMA InsertStep ==
  ASSUME ManyInv, TypeInv', NEW a \in Actor, NEW e \in Event, Insert(e),
         UNCHANGED cache, OthersStay(a), ActorReads(a)',
         \/ LikeSeed(e)
         \/ Answers([e EXCEPT !.id = minted + 1], Readings(log)[Len(log)], log)
  PROVE  ManyInv'
<1> DEFINE f == [e EXCEPT !.id = minted + 1]
           n == Len(log)
<1>1. log \in Seq(Event) /\ minted \in Nat /\ n \in Nat
  BY LenProperties DEF ManyInv, TypeInv, TypeOK
<1>2. /\ f \in Event /\ f.id = minted + 1
      /\ log' = Append(log, f) /\ minted' = minted + 1
      /\ LikeSeed(e) => LikeSeed(f)
  <2>1. /\ f \in Event /\ f.id = minted + 1 /\ f.by = e.by /\ f.cap = e.cap
        /\ f.entity = e.entity /\ f.value = e.value
    BY <1>1 DEF Event
  <2> HIDE DEF f
  <2>2. LikeSeed(e) => LikeSeed(f)
    BY <2>1 DEF LikeSeed
  <2> QED BY <2>1, <2>2 DEF Insert, f
<1>3. LikeSeed(f) \/ Answers(f, Readings(log)[n], log)
  BY <1>2
<1> HIDE DEF f
<1>4. IdsSound(log, minted)'
  BY <1>1, <1>2, IdsAppend DEF ManyInv
<1>5. EventsAreOutcomes'
  <2>1. Len(log') = n + 1
    BY <1>1, <1>2, AppendProperties
  <2>2. Warranted(Readings(log'), log', n + 1)
    BY <1>1, <1>2, <1>3, WarrantLast
  <2>3. ASSUME NEW i \in 1..n PROVE Warranted(Readings(log'), log', i)
    <3>1. Warranted(Readings(log), log, i)
      BY DEF ManyInv, EventsAreOutcomes
    <3> QED BY <1>1, <1>2, <3>1, WarrantAppend
  <2>4. \A i \in 1..(n + 1) : i = n + 1 \/ i \in 1..n
    BY <1>1
  <2> HIDE DEF n
  <2>5. \A i \in 1..Len(log') : Warranted(Readings(log'), log', i)
    BY <2>1, <2>2, <2>3, <2>4
  <2> QED BY <2>5 DEF EventsAreOutcomes
<1>6. SnapshotReads'
  BY <1>1, <1>2, ReachedAppend DEF ManyInv, SnapshotReads
<1>7. \A b \in Actor : ActorReads(b)'
  <2> SUFFICES ASSUME NEW b \in Actor \ {a} PROVE ActorReads(b)'
    OBVIOUS
  <2> QED BY <1>1, <1>2, ActorStays DEF ManyInv, OthersStay
<1> QED BY <1>4, <1>5, <1>6, <1>7 DEF ManyInv

LEMMA ManyNext ==
  ASSUME ManyInv, [Next]_vars
  PROVE  ManyInv'
<1>1. TypeInv /\ TypeInv'
  BY TypeNext DEF ManyInv
<1>2. /\ IdsSound(log, minted) /\ SnapshotReads
      /\ \A a \in Actor : ActorReads(a)
  BY DEF ManyInv
<1>3. /\ log \in Seq(Event) /\ minted \in Nat /\ Len(log) \in Nat
      /\ phase \in [Actor -> Phase] /\ st \in [Actor -> State]
      /\ todo \in [Actor -> Seq(Event)] /\ mark \in [Actor -> Nat \cup {None}]
  BY <1>1, LenProperties DEF TypeInv, TypeOK
<1>4. ASSUME NEW a \in Actor, UNCHANGED <<log, minted, cache>>,
             OthersStay(a), ActorReads(a)'
      PROVE  ManyInv'
  <2>1. SnapshotReads'
    BY <1>2, <1>4 DEF SnapshotReads
  <2> QED BY <1>1, <1>4, <2>1, QuietStep
<1>5. ASSUME NEW a \in Actor, OpenNew(a) PROVE ManyInv'
  <2>1. PICK order \in RegistryOrders : todo' = [todo EXCEPT ![a] = Seeds(order)]
    BY <1>5 DEF OpenNew
  <2>2. \A i \in 1..Len(todo'[a]) : LikeSeed(todo'[a][i])
    BY <1>3, <2>1, SeedsLike
  <2>3. phase'[a] = "seeding" /\ st'[a] = Empty
    BY <1>2, <1>3, <1>5 DEF OpenNew, ActorReads
  <2>4. ActorReads(a)'
    BY <2>2, <2>3 DEF ActorReads
  <2>5. OthersStay(a)
    BY <1>3, <1>5, <2>1 DEF OpenNew, OthersStay
  <2> QED BY <1>4, <1>5, <2>4, <2>5 DEF OpenNew
<1>6. ASSUME NEW a \in Actor, OpenExisting(a) PROVE ManyInv'
  <2>1. phase'[a] = "spawning" /\ st'[a] = Empty /\ todo'[a] = <<>>
    BY <1>2, <1>3, <1>6 DEF OpenExisting, ActorReads
  <2>2. ActorReads(a)'
    BY <2>1 DEF ActorReads
  <2>3. OthersStay(a)
    BY <1>3, <1>6 DEF OpenExisting, OthersStay
  <2> QED BY <1>4, <1>6, <2>2, <2>3 DEF OpenExisting
<1>7. ASSUME NEW a \in Actor, SeedNext(a) PROVE ManyInv'
  <2>1. todo[a] # <<>> /\ todo[a] \in Seq(Event)
    BY <1>1, <1>3, <1>7 DEF SeedNext, TypeInv
  <2>2. /\ Head(todo[a]) = todo[a][1] /\ Head(todo[a]) \in Event
        /\ Len(Tail(todo[a])) = Len(todo[a]) - 1
        /\ \A i \in 1..Len(Tail(todo[a])) : Tail(todo[a])[i] = todo[a][i + 1]
        /\ Tail(todo[a]) \in Seq(Event)
    BY <2>1, HeadTailProperties
  <2>3. Len(todo[a]) \in Nat \ {0}
    BY <2>1, EmptySeq
  <2>4. \A i \in 1..Len(todo[a]) : LikeSeed(todo[a][i])
    BY <1>2, <1>7 DEF SeedNext, ActorReads
  <2>5. LikeSeed(Head(todo[a]))
    <3>1. 1 \in 1..Len(todo[a])
      BY <2>3
    <3> QED BY <2>2, <2>4, <3>1
  <2>6. \A i \in 1..Len(Tail(todo[a])) : LikeSeed(Tail(todo[a])[i])
    <3>1. \A i \in 1..Len(Tail(todo[a])) : i + 1 \in 1..Len(todo[a])
      BY <2>2, <2>3
    <3> QED BY <2>2, <2>4, <3>1
  <2>7. Len(todo[a]) = 1 => Tail(todo[a]) = <<>>
    <3>1. Tail(todo[a]) # <<>> => Len(Tail(todo[a])) \in Nat \ {0}
      BY <2>2, EmptySeq
    <3> QED BY <2>2, <3>1
  <2>8. /\ st'[a] = Empty /\ todo'[a] = Tail(todo[a])
        /\ phase'[a] = IF Len(todo[a]) = 1 THEN "spawning" ELSE "seeding"
    BY <1>2, <1>3, <1>7 DEF SeedNext, ActorReads
  <2>9. ActorReads(a)'
    BY <2>6, <2>7, <2>8 DEF ActorReads
  <2>10. OthersStay(a)
    BY <1>3, <1>7 DEF SeedNext, OthersStay
  <2> QED BY <1>1, <1>7, <2>2, <2>5, <2>9, <2>10, InsertStep DEF SeedNext
<1>8. ASSUME NEW a \in Actor, RestoreSnapshot(a) PROVE ManyInv'
  <2>1. Reached(cache.state, log, cache.id)
    BY <1>2, <1>8 DEF RestoreSnapshot, SnapshotReads
  <2>2. /\ phase'[a] = "restored" /\ todo'[a] = <<>>
        /\ st'[a] = cache.state /\ mark'[a] = cache.id /\ log' = log
    BY <1>2, <1>3, <1>8 DEF RestoreSnapshot, ActorReads
  <2>3. ActorReads(a)'
    BY <2>1, <2>2 DEF ActorReads
  <2>4. OthersStay(a)
    BY <1>3, <1>8 DEF RestoreSnapshot, OthersStay
  <2> QED BY <1>4, <1>8, <2>3, <2>4 DEF RestoreSnapshot
<1>9. ASSUME NEW a \in Actor, FetchIncrement(a) PROVE ManyInv'
  <2>1. Reached(st[a], log, mark[a])
    BY <1>2, <1>9 DEF FetchIncrement, ActorReads
  <2>2. PICK i \in 1..Len(log) : log[i].id = mark[a] /\ st[a] \in Readings(log)[i]
    BY <2>1 DEF Reached
  <2>3. EventsAfter(log, mark[a]) = SubSeq(log, i + 1, Len(log))
    BY <1>2, <1>3, <2>2, EventsAfterFound
  <2>4. i \in 0..Len(log) /\ Len(log) \in 0..Len(log)
    BY <1>3
  <2>5. Awaits(st[a], EventsAfter(log, mark[a]), log)
    BY <2>2, <2>3, <2>4 DEF Awaits
  <2>6. /\ phase'[a] = "up" /\ st'[a] = st[a] /\ log' = log
        /\ todo'[a] = EventsAfter(log, mark[a])
    BY <1>3, <1>9 DEF FetchIncrement
  <2>7. ActorReads(a)'
    BY <2>5, <2>6 DEF ActorReads
  <2>8. OthersStay(a)
    BY <1>3, <1>9 DEF FetchIncrement, OthersStay
  <2> QED BY <1>4, <1>9, <2>7, <2>8 DEF FetchIncrement
<1>10. ASSUME NEW a \in Actor, FetchAll(a) PROVE ManyInv'
  <2>1. /\ phase'[a] = "up" /\ st'[a] = Empty /\ todo'[a] = log /\ log' = log
    BY <1>2, <1>3, <1>10 DEF FetchAll, ActorReads
  <2>2. ActorReads(a)'
    BY <1>3, <2>1, AwaitsAll DEF ActorReads
  <2>3. OthersStay(a)
    BY <1>3, <1>10 DEF FetchAll, OthersStay
  <2> QED BY <1>4, <1>10, <2>2, <2>3 DEF FetchAll
<1>11. ASSUME NEW a \in Actor, FetchFallback(a) PROVE ManyInv'
  <2>1. /\ phase'[a] = "up" /\ st'[a] = Empty /\ todo'[a] = log /\ log' = log
    BY <1>3, <1>11 DEF FetchFallback
  <2>2. ActorReads(a)'
    BY <1>3, <2>1, AwaitsAll DEF ActorReads
  <2>3. OthersStay(a)
    BY <1>3, <1>11 DEF FetchFallback, OthersStay
  <2> QED BY <1>4, <1>11, <2>2, <2>3 DEF FetchFallback
<1>12. ASSUME NEW a \in Actor, ApplyNext(a) PROVE ManyInv'
  <2>1. Awaits(Apply(st[a], Head(todo[a])), Tail(todo[a]), log)
    BY <1>2, <1>3, <1>12, AwaitsApply DEF ApplyNext, ActorReads
  <2>2. /\ phase'[a] = "up" /\ st'[a] = Apply(st[a], Head(todo[a]))
        /\ todo'[a] = Tail(todo[a]) /\ log' = log
    BY <1>3, <1>12 DEF ApplyNext
  <2>3. ActorReads(a)'
    BY <2>1, <2>2 DEF ActorReads
  <2>4. OthersStay(a)
    BY <1>3, <1>12 DEF ApplyNext, OthersStay
  <2> QED BY <1>4, <1>12, <2>3, <2>4 DEF ApplyNext
<1>13. ASSUME NEW a \in Actor, NEW c \in Menu, ProcessCommand(a, c) PROVE ManyInv'
  <2>1. PICK fresh \in FreshFor(c) : \E e \in Outcome(st[a], c, fresh, minted + 1) :
          Insert(e) /\ todo' = [todo EXCEPT ![a] = <<[e EXCEPT !.id = minted + 1]>>]
    BY <1>13 DEF ProcessCommand
  <2>2. PICK e \in Outcome(st[a], c, fresh, minted + 1) :
          Insert(e) /\ todo' = [todo EXCEPT ![a] = <<[e EXCEPT !.id = minted + 1]>>]
    BY <2>1
  <2>3. st[a] \in Readings(log)[Len(log)]
    BY <1>2, <1>3, <1>13, AwaitsNothing DEF ProcessCommand, Serving, ActorReads
  <2>4. e \in Event /\ e.id = minted + 1
    <3>1. IsCommand(c) /\ minted + 1 \in Nat /\ st[a] \in State
      BY <1>3, MenuAssumption
    <3>2. c.cap = "core.create" => fresh \in Block
      BY DEF FreshFor, Mentioned
    <3>3. e \in Event
      BY <2>2, <3>1, <3>2, OutcomeType
    <3> QED BY <3>3 DEF Outcome
  <2>5. [e EXCEPT !.id = minted + 1] = e
    BY <2>4 DEF Event
  <2>6. Answers(e, Readings(log)[Len(log)], log)
    <3>1. fresh \in Drawn(c, log)
      BY DEF FreshFor, Drawn
    <3>2. e \in Outcome(st[a], c, fresh, e.id)
      BY <2>2, <2>4
    <3> QED BY <2>3, <3>1, <3>2 DEF Answers
  <2>7. /\ log' = Append(log, e) /\ todo'[a] = <<e>>
        /\ phase'[a] = "up" /\ st'[a] = st[a]
    BY <1>3, <1>13, <2>2, <2>5 DEF ProcessCommand, Insert, Serving
  <2>8. ActorReads(a)'
    BY <1>3, <2>3, <2>4, <2>7, AwaitsOwn DEF ActorReads
  <2>9. OthersStay(a)
    BY <1>3, <1>13, <2>2 DEF ProcessCommand, OthersStay
  <2> QED BY <1>1, <1>13, <2>2, <2>4, <2>5, <2>6, <2>8, <2>9, InsertStep
          DEF ProcessCommand
<1>14. ASSUME NEW a \in Actor, CloseRead(a) PROVE ManyInv'
  <2>1. st[a] \in Readings(log)[Len(log)] /\ todo[a] = <<>>
    BY <1>2, <1>3, <1>14, AwaitsNothing DEF CloseRead, Serving, ActorReads
  <2>2. Len(log) \in 1..Len(log)
    <3>1. log # <<>>
      BY <1>1, <1>14 DEF CloseRead, Serving, TypeInv
    <3> QED BY <1>3, <3>1, EmptySeq
  <2>3. Reached(st[a], log, log[Len(log)].id)
    BY <2>1, <2>2 DEF Reached
  <2>4. /\ phase'[a] = "closing" /\ st'[a] = st[a] /\ todo'[a] = <<>>
        /\ mark'[a] = log[Len(log)].id /\ log' = log
    BY <1>3, <1>14, <2>1 DEF CloseRead
  <2>5. ActorReads(a)'
    BY <2>3, <2>4 DEF ActorReads
  <2>6. OthersStay(a)
    BY <1>3, <1>14 DEF CloseRead, OthersStay
  <2> QED BY <1>4, <1>14, <2>5, <2>6 DEF CloseRead
<1>15. ASSUME NEW a \in Actor, CloseSave(a) PROVE ManyInv'
  <2>1. Reached(st[a], log, mark[a]) /\ todo[a] = <<>>
    BY <1>2, <1>15 DEF CloseSave, ActorReads
  <2>2. phase'[a] = "down" /\ st'[a] = Empty /\ todo'[a] = <<>> /\ log' = log
    BY <1>3, <1>15, <2>1 DEF CloseSave
  <2>3. SnapshotReads'
    <3>1. CASE UNCHANGED cache
      BY <1>2, <2>2, <3>1 DEF SnapshotReads
    <3>2. CASE cache' = [id |-> mark[a], state |-> st[a]]
      BY <2>1, <2>2, <3>2 DEF SnapshotReads
    <3> QED BY <1>15, <3>1, <3>2 DEF CloseSave
  <2>4. ActorReads(a)'
    BY <2>2 DEF ActorReads
  <2>5. OthersStay(a)
    BY <1>3, <1>15 DEF CloseSave, OthersStay
  <2> QED BY <1>1, <1>15, <2>3, <2>4, <2>5, QuietStep DEF CloseSave
<1>16. ASSUME NEW a \in Actor, Crash(a) PROVE ManyInv'
  <2>1. phase'[a] = "down" /\ st'[a] = Empty /\ todo'[a] = <<>>
    BY <1>3, <1>16 DEF Crash
  <2>2. ActorReads(a)'
    BY <2>1 DEF ActorReads
  <2>3. OthersStay(a)
    BY <1>3, <1>16 DEF Crash, OthersStay
  <2> QED BY <1>4, <1>16, <2>2, <2>3 DEF Crash
<1>17. ASSUME CacheLost PROVE ManyInv'
  <2>1. \A a \in Actor : ActorReads(a)'
    BY <1>2, <1>17 DEF CacheLost, ActorReads
  <2>2. EventsAreOutcomes' /\ IdsSound(log, minted)' /\ SnapshotReads'
    BY <1>17 DEF CacheLost, ManyInv, EventsAreOutcomes, SnapshotReads
  <2> QED BY <1>1, <2>1, <2>2 DEF ManyInv
<1>18. ASSUME UNCHANGED vars PROVE ManyInv'
  <2>1. \A a \in Actor : ActorReads(a)'
    BY <1>2, <1>18 DEF vars, ActorReads
  <2>2. EventsAreOutcomes' /\ IdsSound(log, minted)' /\ SnapshotReads'
    BY <1>18 DEF vars, ManyInv, EventsAreOutcomes, SnapshotReads
  <2> QED BY <1>1, <2>1, <2>2 DEF ManyInv
<1> QED
  BY <1>5, <1>6, <1>7, <1>8, <1>9, <1>10, <1>11, <1>12, <1>13, <1>14, <1>15,
     <1>16, <1>17, <1>18 DEF Next, Step, StartStep

(***************************************************************************)
(* The invariant holds in every run of any number of actors.               *)
(***************************************************************************)
THEOREM ManySafety == Spec => []ManyInv
BY ManyInit, ManyNext, PTL DEF Spec

(***************************************************************************)
(* However many actors share a store: what one answers from is the replay, *)
(* in order, of part of the log (ElfileEngineActor::new, process_command,  *)
(* save_cache_snapshot).                                                   *)
(***************************************************************************)
THEOREM StatesAreReadings == Spec => []ServesReading
<1>1. ManyInv => ServesReading
  <2> SUFFICES ASSUME ManyInv, NEW a \in Actor, Serving(a)
               PROVE  st[a] \in Readings(log)[Len(log)]
    BY DEF ServesReading
  <2>1. Awaits(st[a], todo[a], log)
    BY DEF ManyInv, ActorReads, Serving
  <2>2. log \in Seq(Event)
    BY DEF ManyInv, TypeInv, TypeOK
  <2> QED BY <2>1, <2>2, AwaitsNothing
<1> QED BY <1>1, ManySafety, PTL

(***************************************************************************)
(* However many actors share a store: every event answers a command, made  *)
(* on a state of events before it, and new blocks have ids of their own    *)
(* (process_command).                                                      *)
(***************************************************************************)
THEOREM EveryEventIsAnOutcome == Spec => []EventsAreOutcomes
<1>1. ManyInv => EventsAreOutcomes
  BY DEF ManyInv
<1> QED BY <1>1, ManySafety, PTL

-----------------------------------------------------------------------------
(***************************************************************************)
(* What the log says of a state that replays part of it: where its blocks  *)
(* and its grants come from.                                               *)
(***************************************************************************)

\* Every block of s was created among the first k events, by its owner, and
\* every grant made.
Rooted(s, l, k) ==
    /\ \A b \in Block : Exists(s, b) =>
          \E j \in 1..k : /\ l[j].cap = "core.create" /\ l[j].entity = b
                          /\ l[j].value.owner = s.blocks[b].owner
    /\ \A g \in s.grants :
          \E j \in 1..k : l[j].cap = "core.grant" /\ l[j].value = g

LEMMA RootedApply ==
  ASSUME NEW l \in Seq(Event), NEW k \in 1..Len(l), NEW s \in State,
         Rooted(s, l, k - 1)
  PROVE  Rooted(Apply(s, l[k]), l, k)
<1> DEFINE t == Apply(s, l[k])
<1>1. k \in Nat \ {0} /\ l[k] \in Event /\ k \in 1..k
  BY ElementOfSeq, LenProperties
<1>2. \A j \in 1..(k - 1) : j \in 1..k
  BY <1>1
<1>3. ASSUME NEW b \in Block, Exists(t, b)
      PROVE  \E j \in 1..k : /\ l[j].cap = "core.create" /\ l[j].entity = b
                             /\ l[j].value.owner = t.blocks[b].owner
  <2>1. CASE /\ l[k].cap = "core.create" /\ l[k].entity = b
             /\ t.blocks[b].owner = l[k].value.owner
    BY <1>1, <2>1
  <2>2. CASE Exists(s, b) /\ t.blocks[b].owner = s.blocks[b].owner
    BY <1>2, <2>2 DEF Rooted
  <2> QED BY <1>1, <1>3, <2>1, <2>2, ApplyOwner
<1>4. ASSUME NEW g \in t.grants
      PROVE  \E j \in 1..k : l[j].cap = "core.grant" /\ l[j].value = g
  <2>1. g \in s.grants \/ (l[k].cap = "core.grant" /\ l[k].value = g)
    BY <1>1, ApplyGrants
  <2> QED BY <1>1, <1>2, <2>1 DEF Rooted
<1> HIDE DEF t
<1>5. Rooted(t, l, k)
  BY <1>3, <1>4 DEF Rooted
<1> QED BY <1>5 DEF t

LEMMA ReadingsRooted ==
  ASSUME NEW l \in Seq(Event), NEW i \in 0..Len(l), NEW s \in Readings(l)[i]
  PROVE  Rooted(s, l, i)
<1> DEFINE T == {k \in 0..Len(l) : ~ \A t \in Readings(l)[k] : Rooted(t, l, k)}
<1>1. SUFFICES ASSUME T # {} PROVE FALSE
  OBVIOUS
<1>2. Len(l) \in Nat
  BY LenProperties
<1>3. PICK k \in T : \A m \in T : k <= m
  <2>1. T \in SUBSET Nat
    BY <1>2
  <2> QED BY <1>1, <2>1, LeastNat
<1>4. k # 0
  <2>1. Readings(l)[0] = {Empty}
    BY ReadingsEquations
  <2>2. Rooted(Empty, l, 0)
    BY DEF Rooted, Empty, Exists
  <2> QED BY <1>3, <2>1, <2>2
<1>5. k - 1 \in 0..Len(l) /\ k \in 1..Len(l) /\ k - 1 \notin T
  BY <1>2, <1>3, <1>4
<1>6. \A t \in Readings(l)[k - 1] : Rooted(t, l, k - 1)
  BY <1>5
<1>7. Readings(l)[k] = Widened(Readings(l)[k - 1], l[k])
  BY <1>5, ReadingsEquations
<1>8. ASSUME NEW t \in Readings(l)[k - 1] PROVE Rooted(t, l, k)
  <2>1. \A j \in 1..(k - 1) : j \in 1..k
    BY <1>5
  <2> QED BY <1>6, <2>1 DEF Rooted
<1>9. \A t \in Readings(l)[k - 1] : Rooted(Apply(t, l[k]), l, k)
  BY <1>5, <1>6, ReadingsType, RootedApply
<1>10. \A t \in Readings(l)[k] : Rooted(t, l, k)
  BY <1>7, <1>8, <1>9 DEF Widened
<1> QED BY <1>3, <1>10

\* What an answer to a command on a reading says.
LEMMA AnswerMade ==
  ASSUME NEW l \in Seq(Event), NEW i \in 1..Len(l),
         Warranted(Readings(l), l, i), ~LikeSeed(l[i])
  PROVE  \E s \in Readings(l)[i - 1] :
            /\ Made(s, l[i])
            /\ l[i].cap = "core.create" =>
                  l[i].entity \in Block \ Mentioned(SubSeq(l, 1, i - 1))
<1> DEFINE k == SubSeq(l, 1, i - 1)
<1>1. PICK s \in Readings(l)[i - 1], c \in Menu : \E fresh \in Drawn(c, k) :
         l[i] \in Outcome(s, c, fresh, l[i].id)
  BY DEF Warranted, Answers
<1>2. PICK fresh \in Drawn(c, k) : l[i] \in Outcome(s, c, fresh, l[i].id)
  BY <1>1
<1>3. s \in State
  <2>1. i - 1 \in 0..Len(l)
    BY LenProperties
  <2> QED BY <2>1, ReadingsType
<1>4. Made(s, l[i])
  BY <1>2, <1>3, MenuAssumption, OutcomeMade
<1>5. l[i].cap = "core.create" => l[i].entity = fresh /\ fresh \in Block \ Mentioned(k)
  <2> SUFFICES ASSUME l[i].cap = "core.create"
               PROVE  l[i].entity = fresh /\ fresh \in Block \ Mentioned(k)
    OBVIOUS
  <2> HIDE DEF k
  <2>1. PICK body \in Handler(s, c, fresh) :
          l[i] = [id |-> l[i].id, by |-> c.by, cap |-> c.cap, entity |-> body.entity,
                  value |-> body.value, ts |-> Stamp(s, c.by)]
    BY <1>2 DEF Outcome
  <2>2. c.cap = "core.create" /\ l[i].entity = body.entity
    BY <2>1
  <2>3. body = [entity |-> fresh, value |-> NewBlock(c)]
    BY <2>2 DEF Handler, HandleCreate, Emit
  <2> QED BY <1>2, <2>2, <2>3 DEF Drawn
<1> QED BY <1>4, <1>5

(***************************************************************************)
(* Nobody acts without a ground.                                           *)
(***************************************************************************)
LEMMA OutcomesHaveGrounds ==
  log \in Seq(Event) /\ EventsAreOutcomes => EventsHaveGrounds
<1> SUFFICES ASSUME log \in Seq(Event), EventsAreOutcomes,
                    NEW i \in 1..Len(log), ~LikeSeed(log[i])
             PROVE  LET e == log[i]
                    IN  \/ /\ e.cap \in SystemLevel \/ e.entity = Wild
                           /\ Granted(i, e.by, e.cap, Wild)
                        \/ /\ e.cap \notin SystemLevel /\ e.entity # Wild
                           /\ Created(i, e.entity)
                           /\ Owns(i, e.by, e.entity) \/ Granted(i, e.by, e.cap, e.entity)
  BY DEF EventsHaveGrounds
<1>1. \A j \in 1..Len(log) : Warranted(Readings(log), log, j)
  BY DEF EventsAreOutcomes
<1>2. PICK s \in Readings(log)[i - 1] : Made(s, log[i])
  BY <1>1, AnswerMade
<1>3. Rooted(s, log, i - 1)
  <2>1. i - 1 \in 0..Len(log)
    BY LenProperties
  <2> QED BY <2>1, ReadingsRooted
<1>4. ASSUME NEW cap, NEW b, HasGrant(s, log[i].by, cap, b)
      PROVE  Granted(i, log[i].by, cap, b)
  <2>1. PICK g \in s.grants : /\ g.editor \in {log[i].by, Wild} /\ g.cap = cap
                              /\ g.block \in {b, Wild}
    BY <1>4 DEF HasGrant
  <2>2. PICK j \in 1..(i - 1) : log[j].cap = "core.grant" /\ log[j].value = g
    BY <1>3, <2>1 DEF Rooted
  <2> QED BY <2>1, <2>2 DEF Granted
<1>5. ASSUME NEW b \in Block, Exists(s, b)
      PROVE  /\ Created(i, b)
             /\ s.blocks[b].owner = log[i].by => Owns(i, log[i].by, b)
  <2>1. PICK j \in 1..(i - 1) : /\ log[j].cap = "core.create" /\ log[j].entity = b
                                /\ log[j].value.owner = s.blocks[b].owner
    BY <1>3, <1>5 DEF Rooted
  <2>2. j \in 1..Len(log) /\ ~LikeSeed(log[j])
    <3>1. j \in 1..Len(log)
      BY LenProperties
    <3> QED BY <2>1, <3>1 DEF LikeSeed
  <2>3. log[j].value.owner = log[j].by
    BY <1>1, <2>1, <2>2, AnswerMade DEF Made
  <2> QED BY <2>1, <2>3 DEF Created, Owns
<1>6. CASE /\ log[i].cap \in SystemLevel \/ log[i].entity = Wild
           /\ HasGrant(s, log[i].by, log[i].cap, Wild)
  BY <1>4, <1>6
<1>7. CASE /\ log[i].cap \notin SystemLevel /\ log[i].entity \in Block
           /\ Exists(s, log[i].entity)
           /\ \/ s.blocks[log[i].entity].owner = log[i].by
              \/ HasGrant(s, log[i].by, log[i].cap, log[i].entity)
  <2>1. log[i].entity # Wild
    BY <1>7, WildAssumption
  <2> QED BY <1>4, <1>5, <1>7, <2>1
<1> QED BY <1>2, <1>6, <1>7 DEF Made, Licensed

(***************************************************************************)
(* However many actors share a store: whoever committed an event on a      *)
(* block had created the block or held a grant made before, and the block  *)
(* had been created (certificator, has_grant).                             *)
(***************************************************************************)
THEOREM NobodyActsWithoutGround == Spec => []EventsHaveGrounds
<1>1. ManyInv => EventsHaveGrounds
  BY OutcomesHaveGrounds DEF ManyInv, TypeInv, TypeOK
<1> QED BY <1>1, ManySafety, PTL

-----------------------------------------------------------------------------
(***************************************************************************)
(* The reverse index of a state that replays part of the log has no false  *)
(* entry, whatever children maps the events carry: no arm of apply_event   *)
(* enters a parent that it does not give the child.                        *)
(***************************************************************************)
LEMMA SameGraphTrue ==
  ASSUME NEW s, NEW t, SameGraph(s, t), NoFalseParents(s)
  PROVE  NoFalseParents(t)
BY DEF SameGraph, NoFalseParents

LEMMA PutBlockTrue ==
  ASSUME NEW s \in State, NEW b \in Block, NEW rec \in BlockRec,
         ~Exists(s, b), NoFalseParents(s)
  PROVE  NoFalseParents(PutBlock(s, b, rec))
<1> DEFINE t == PutBlock(s, b, rec)
<1>1. t.blocks = [s.blocks EXCEPT ![b] = rec]
  BY DEF PutBlock, State
<1>2. \A c \in Block : t.parents[c] = IF c \in rec.children THEN s.parents[c] \cup {b}
                                                            ELSE s.parents[c]
  BY DEF PutBlock, State
<1> HIDE DEF t
<1>3. \A p \in Block \ {b} : Kids(t, p) = Kids(s, p)
  BY <1>1, StateFields DEF Kids, Exists
<1>4. Kids(t, b) = rec.children
  BY <1>1, StateFields, NoBlockAssumption DEF Kids, Exists
<1>5. \A c \in Block : b \notin s.parents[c]
  BY DEF NoFalseParents, Kids
<1>6. NoFalseParents(t)
  BY <1>2, <1>3, <1>4, <1>5 DEF NoFalseParents
<1> QED BY <1>6 DEF t

\* A new children map for one block, and an index that gains no more entries
\* of it than the map has and loses those the map drops.
LEMMA NewKidsTrue ==
  ASSUME NEW s \in State, NEW b \in Block, Exists(s, b), NEW kids \in SUBSET Block,
         NEW t, t.blocks = [s.blocks EXCEPT ![b].children = kids],
         \A c \in Block : t.parents[c] \ {b} = s.parents[c] \ {b},
         \A c \in Block : b \in t.parents[c] => c \in kids,
         NoFalseParents(s)
  PROVE  NoFalseParents(t)
<1>1. s.blocks[b] \in BlockRec
  BY StateFields DEF Exists
<1>2. [s.blocks[b] EXCEPT !.children = kids] \in BlockRec
  BY <1>1 DEF BlockRec
<1>3. Kids(t, b) = kids
  <2>1. t.blocks[b] = [s.blocks[b] EXCEPT !.children = kids]
    BY StateFields
  <2>2. t.blocks[b].children = kids
    BY <1>1, <2>1 DEF BlockRec
  <2> QED BY <1>2, <2>1, <2>2, NoBlockAssumption DEF Kids, Exists
<1>4. \A p \in Block \ {b} : Kids(t, p) = Kids(s, p)
  BY StateFields DEF Kids, Exists
<1> SUFFICES ASSUME NEW p \in Block, NEW c \in Block, p \in t.parents[c]
             PROVE  c \in Kids(t, p)
  BY DEF NoFalseParents
<1>5. CASE p = b
  BY <1>3, <1>5
<1>6. CASE p # b
  <2>1. p \in s.parents[c]
    BY <1>6
  <2> QED BY <1>4, <1>6, <2>1 DEF NoFalseParents
<1> QED BY <1>5, <1>6

LEMMA RelinkTrue ==
  ASSUME NEW s \in State, NEW b \in Block, NEW kids \in SUBSET Block, NoFalseParents(s)
  PROVE  NoFalseParents(Relink(s, b, kids)) /\ NoFalseParents(Unlink(s, b, kids))
<1>1. CASE ~Exists(s, b)
  BY <1>1 DEF Relink, Unlink
<1>2. CASE Exists(s, b)
  <2> DEFINE t == Relink(s, b, kids)
             u == Unlink(s, b, kids)
  <2>1. \A c \in Block : b \in s.parents[c] => c \in Kids(s, b)
    BY DEF NoFalseParents
  <2>2. NoFalseParents(t)
    <3>1. t.blocks = [s.blocks EXCEPT ![b].children = kids]
      BY <1>2 DEF Relink, State
    <3>2. \A c \in Block : t.parents[c] =
             CASE c \in kids \ Kids(s, b) -> s.parents[c] \cup {b}
               [] c \in Kids(s, b) \ kids -> s.parents[c] \ {b}
               [] OTHER                   -> s.parents[c]
      BY <1>2 DEF Relink, State
    <3> HIDE DEF t
    <3>3. ASSUME NEW c \in Block
          PROVE  /\ t.parents[c] \ {b} = s.parents[c] \ {b}
                 /\ b \in t.parents[c] => c \in kids
      <4>1. CASE c \in kids \ Kids(s, b)
        <5>1. t.parents[c] = s.parents[c] \cup {b}
          BY <3>2, <4>1
        <5> QED BY <4>1, <5>1
      <4>2. CASE c \in Kids(s, b) \ kids
        <5>1. t.parents[c] = s.parents[c] \ {b}
          BY <3>2, <4>2
        <5> QED BY <5>1
      <4>3. CASE c \notin kids \ Kids(s, b) /\ c \notin Kids(s, b) \ kids
        <5>1. t.parents[c] = s.parents[c]
          BY <3>2, <4>3
        <5> QED BY <2>1, <4>3, <5>1
      <4> QED BY <4>1, <4>2, <4>3
    <3> QED BY <1>2, <3>1, <3>3, NewKidsTrue
  <2>3. NoFalseParents(u)
    <3>1. u.blocks = [s.blocks EXCEPT ![b].children = kids]
      BY <1>2 DEF Unlink, State
    <3>2. \A c \in Block : u.parents[c] = IF c \in Kids(s, b) \ kids
                                          THEN s.parents[c] \ {b} ELSE s.parents[c]
      BY <1>2 DEF Unlink, DropParent, State
    <3> HIDE DEF u
    <3>3. \A c \in Block : u.parents[c] \ {b} = s.parents[c] \ {b}
      BY <3>2
    <3>4. \A c \in Block : b \in u.parents[c] => c \in kids
      BY <2>1, <3>2
    <3> QED BY <1>2, <3>1, <3>3, <3>4, NewKidsTrue
  <2> QED BY <2>2, <2>3
<1> QED BY <1>1, <1>2

LEMMA DeleteBlockTrue ==
  ASSUME NEW s \in State, NEW b \in Block, NoFalseParents(s)
  PROVE  NoFalseParents(DeleteBlock(s, b))
<1> DEFINE forward == DropParent(s.parents, b, Kids(s, b))
           t       == DeleteBlock(s, b)
<1>1. \A c \in Block : forward[c] = IF c \in Kids(s, b)
                                    THEN s.parents[c] \ {b} ELSE s.parents[c]
  BY DEF DropParent
<1>2. \A c \in Block : t.parents[c] = IF c = b THEN {} ELSE forward[c]
  BY StateFields, DropParentType DEF DeleteBlock, State
<1>3. \A p \in Block :
        t.blocks[p] = CASE p = b -> None
                        [] p # b /\ p \in forward[b] /\ Exists(s, p) ->
                             [s.blocks[p] EXCEPT !.children = @ \ {b}]
                        [] OTHER -> s.blocks[p]
  BY DEF DeleteBlock, State
<1> HIDE DEF t, forward
<1>4. \A p \in Block \ {b} : Kids(s, p) \ {b} \subseteq Kids(t, p)
  <2> SUFFICES ASSUME NEW p \in Block \ {b} PROVE Kids(s, p) \ {b} \subseteq Kids(t, p)
    OBVIOUS
  <2>1. CASE p \in forward[b] /\ Exists(s, p)
    <3>1. s.blocks[p] \in BlockRec
      BY <2>1, StateFields DEF Exists
    <3>2. t.blocks[p] = [s.blocks[p] EXCEPT !.children = @ \ {b}]
      BY <1>3, <2>1
    <3>3. t.blocks[p] \in BlockRec /\ t.blocks[p].children = s.blocks[p].children \ {b}
      BY <3>1, <3>2 DEF BlockRec
    <3> QED BY <2>1, <3>3, NoBlockAssumption DEF Kids, Exists
  <2>2. CASE ~(p \in forward[b] /\ Exists(s, p))
    <3>1. t.blocks[p] = s.blocks[p]
      BY <1>3, <2>2
    <3> QED BY <3>1 DEF Kids, Exists
  <2> QED BY <2>1, <2>2
<1>5. NoFalseParents(t)
  <2> SUFFICES ASSUME NEW p \in Block, NEW c \in Block, p \in t.parents[c]
               PROVE  c \in Kids(t, p)
    BY DEF NoFalseParents
  <2>1. c # b /\ p \in forward[c]
    BY <1>2
  <2>2. p \in s.parents[c] /\ c \in Kids(s, p)
    BY <1>1, <2>1 DEF NoFalseParents
  <2>3. p # b
    BY <1>1, <2>1, <2>2
  <2> QED BY <1>4, <2>1, <2>2, <2>3
<1> QED BY <1>5 DEF t

LEMMA ApplyTrue ==
  ASSUME NEW s \in State, NEW e \in Event,
         e.cap = "core.create" => ~Exists(s, e.entity),
         NoFalseParents(s)
  PROVE  NoFalseParents(Apply(s, e))
<1> DEFINE t == Tick(s, e.ts)
<1>1. /\ e.cap \in Capability /\ e.entity \in EntitiesOf(e.cap)
      /\ e.value \in ValuesOf(e.cap) /\ e.ts \in Clock
  BY DEF Event
<1>2. t \in State
  BY <1>1, TickType
<1>3. NoFalseParents(t) /\ \A b : Exists(t, b) <=> Exists(s, b)
  BY TickGraph, SameGraphTrue
<1> HIDE DEF t
<1>4. CASE e.cap = "core.create"
  <2>1. e.entity \in Block /\ e.value \in BlockRec /\ ~Exists(t, e.entity)
    BY <1>1, <1>3, <1>4 DEF EntitiesOf, ValuesOf
  <2>2. Apply(s, e) = PutBlock(t, e.entity, e.value)
    BY <1>4 DEF Apply, t
  <2> QED BY <1>2, <1>3, <2>1, <2>2, PutBlockTrue
<1>5. CASE e.cap \in {"core.link", "core.unlink"}
  <2>1. e.entity \in Block /\ e.value.children \in SUBSET Block
    BY <1>1, <1>5 DEF EntitiesOf, ValuesOf
  <2>2. \/ Apply(s, e) = Relink(t, e.entity, e.value.children)
        \/ Apply(s, e) = Unlink(t, e.entity, e.value.children)
    BY <1>5 DEF Apply, t
  <2> QED BY <1>2, <1>3, <2>1, <2>2, RelinkTrue
<1>6. CASE e.cap = "core.delete"
  <2>1. e.entity \in Block
    BY <1>1, <1>6 DEF EntitiesOf
  <2>2. Apply(s, e) = DeleteBlock(t, e.entity)
    BY <1>6 DEF Apply, t
  <2> QED BY <1>2, <1>3, <2>1, <2>2, DeleteBlockTrue
<1>7. CASE e.cap \notin {"core.create", "core.link", "core.unlink", "core.delete"}
  <2>1. SameGraph(t, Apply(s, e))
    <3>1. CASE e.cap = "core.write"
      <4>1. e.entity \in Block /\ e.value.name \in Text
        BY <1>1, <3>1 DEF EntitiesOf, ValuesOf
      <4>2. Apply(s, e) = Rename(t, e.entity, e.value.name)
        BY <3>1 DEF Apply, t
      <4> QED BY <1>2, <4>1, <4>2, RenameGraph
    <3>2. CASE e.cap \in {"document.write", "task.write"}
      <4>1. e.entity \in Block /\ e.value.contents \in Contents
        BY <1>1, <3>2 DEF EntitiesOf, ValuesOf
      <4>2. Apply(s, e) = WriteContents(t, e.entity, e.value.contents)
        BY <3>2 DEF Apply, t
      <4> QED BY <1>2, <4>1, <4>2, WriteContentsGraph
    <3>3. CASE e.cap \in {"core.grant", "core.revoke", "editor.create", "editor.delete"}
      <4>1. \/ Apply(s, e) = AddGrant(t, e.value)
            \/ Apply(s, e) = RemoveGrant(t, e.value)
            \/ Apply(s, e) = PutEditor(t, e.value.editor)
            \/ Apply(s, e) = DeleteEditor(t, e.entity)
        BY <3>3 DEF Apply, t
      <4> QED BY <1>2, <4>1, GrantsGraph
    <3>4. CASE e.cap \in {"task.commit", "session.append"} \cup
                         {"document.read", "task.read", "session.read"}
      <4>1. Apply(s, e) = t
        BY <3>4 DEF Apply, t
      <4> QED BY <4>1 DEF SameGraph
    <3> QED BY <1>1, <1>7, <3>1, <3>2, <3>3, <3>4 DEF Capability
  <2> QED BY <1>3, <2>1, SameGraphTrue
<1> QED BY <1>4, <1>5, <1>6, <1>7

LEMMA ReadingsTrue ==
  ASSUME NEW l \in Seq(Event), \A i \in 1..Len(l) : Warranted(Readings(l), l, i)
  PROVE  \A i \in 0..Len(l) : \A s \in Readings(l)[i] : NoFalseParents(s)
<1> DEFINE T == {k \in 0..Len(l) : ~ \A s \in Readings(l)[k] : NoFalseParents(s)}
<1>1. SUFFICES ASSUME T # {} PROVE FALSE
  OBVIOUS
<1>2. Len(l) \in Nat
  BY LenProperties
<1>3. PICK k \in T : \A m \in T : k <= m
  <2>1. T \in SUBSET Nat
    BY <1>2
  <2> QED BY <1>1, <2>1, LeastNat
<1>4. k # 0
  <2>1. Readings(l)[0] = {Empty}
    BY ReadingsEquations
  <2>2. NoFalseParents(Empty)
    BY DEF NoFalseParents, Empty
  <2> QED BY <1>3, <2>1, <2>2
<1>5. k - 1 \in 0..Len(l) /\ k \in 1..Len(l) /\ k - 1 \notin T
  BY <1>2, <1>3, <1>4
<1>6. \A s \in Readings(l)[k - 1] : NoFalseParents(s)
  BY <1>5
<1>7. Readings(l)[k] = Widened(Readings(l)[k - 1], l[k]) /\ l[k] \in Event
  BY <1>5, ReadingsEquations, ElementOfSeq
<1>8. ASSUME NEW s \in Readings(l)[k - 1] PROVE NoFalseParents(Apply(s, l[k]))
  <2>1. s \in State /\ Rooted(s, l, k - 1)
    BY <1>5, ReadingsType, ReadingsRooted
  <2>2. l[k].cap = "core.create" => ~Exists(s, l[k].entity)
    <3> SUFFICES ASSUME l[k].cap = "core.create", Exists(s, l[k].entity) PROVE FALSE
      OBVIOUS
    <3> DEFINE q == SubSeq(l, 1, k - 1)
    <3>1. ~LikeSeed(l[k])
      BY DEF LikeSeed
    <3>2. l[k].entity \in Block \ Mentioned(q)
      BY <1>5, <3>1, AnswerMade
    <3>3. PICK j \in 1..(k - 1) : l[j].entity = l[k].entity
      BY <2>1, <3>2 DEF Rooted
    <3>4. Len(q) = k - 1 /\ q[j] = l[j]
      <4>1. \A i \in 1..(k - 1) : l[i] \in Event
        BY <1>2, <1>5, ElementOfSeq
      <4>2. k - 1 \in Nat /\ 1 \in 1..(k - 1 + 1)
        BY <1>5
      <4> QED BY <4>1, <4>2, SubSeqProperties
    <3> HIDE DEF q
    <3>5. l[k].entity \in Mentioned(q)
      BY <3>2, <3>3, <3>4 DEF Mentioned
    <3> QED BY <3>2, <3>5
  <2> QED BY <1>6, <1>7, <2>1, <2>2, ApplyTrue
<1>9. \A s \in Readings(l)[k] : NoFalseParents(s)
  BY <1>6, <1>7, <1>8 DEF Widened
<1> QED BY <1>3, <1>9

(***************************************************************************)
(* However many actors share a store: the reverse index of a state served  *)
(* names no parent that does not list the child (apply_event).             *)
(***************************************************************************)
THEOREM ParentsStayTrue == Spec => []ParentsAreTrue
<1>1. ManyInv => ParentsAreTrue
  <2> SUFFICES ASSUME ManyInv, NEW a \in Actor, Serving(a)
               PROVE  NoFalseParents(st[a])
    BY DEF ParentsAreTrue
  <2>1. Awaits(st[a], todo[a], log)
    BY DEF ManyInv, ActorReads, Serving
  <2>2. log \in Seq(Event) /\ EventsAreOutcomes
    BY DEF ManyInv, TypeInv, TypeOK
  <2>3. st[a] \in Readings(log)[Len(log)]
    BY <2>1, <2>2, AwaitsNothing
  <2>4. Len(log) \in 0..Len(log)
    BY <2>2, LenProperties
  <2> QED BY <2>2, <2>3, <2>4, ReadingsTrue DEF EventsAreOutcomes
<1> QED BY <1>1, ManySafety, PTL
=============================================================================
