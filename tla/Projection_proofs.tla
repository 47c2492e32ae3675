-------------------------- MODULE Projection_proofs --------------------------
(***************************************************************************)
(* Facts about Projection and Capabilities that hold for every log, state  *)
(* and command: what replay computes, that events keep a state a State,    *)
(* which events keep the link graph sound, and that commands make such     *)
(* events.                                                                 *)
(***************************************************************************)
EXTENDS Capabilities, SequenceTheorems, WellFoundedInduction, TLAPS

(***************************************************************************)
(* Every nonempty set of naturals has a least member: the form in which    *)
(* the proofs below use induction.                                         *)
(***************************************************************************)
LEMMA LeastNat ==
  ASSUME NEW T \in SUBSET Nat, T # {}
  PROVE  \E n \in T : \A m \in T : n <= m
<1>1. IsWellFoundedOn(OpToRel(<, Nat), Nat)
  BY NatLessThanWellFounded, Zenon
<1>2. \E n \in T : \A m \in T : <<m, n>> \notin OpToRel(<, Nat)
  BY <1>1, WFMin, Zenon
<1>3. \E n \in T : \A m \in T : ~(m < n)
  BY <1>2, Zenon DEF OpToRel
<1> QED
  BY <1>3

-----------------------------------------------------------------------------
(***************************************************************************)
(* Replay.  The recursive function inside History exists and is the only   *)
(* one, for every log.                                                     *)
(***************************************************************************)

\* h replays the first n events of l.
Replays(h, l, n) ==
    h = [i \in 0..n |-> IF i = 0 THEN Empty ELSE Apply(h[i - 1], l[i])]

\* Some function replays any number of events.
LEMMA ReplayExists ==
  ASSUME NEW l, NEW n \in Nat
  PROVE  \E h : Replays(h, l, n)
<1> DEFINE T == {m \in Nat : ~ \E h : Replays(h, l, m)}
<1>1. SUFFICES ASSUME T # {} PROVE FALSE
  OBVIOUS
<1>2. PICK m \in T : \A k \in T : m <= k
  <2>1. T \in SUBSET Nat
    OBVIOUS
  <2> QED BY <1>1, <2>1, LeastNat
<1>3. m # 0
  <2>1. Replays([i \in 0..0 |-> Empty], l, 0)
    BY DEF Replays
  <2> QED BY <2>1
<1>4. m \in Nat /\ m - 1 \in Nat /\ m - 1 \notin T
  BY <1>2, <1>3
<1>5. PICK h : Replays(h, l, m - 1)
  BY <1>4
<1> DEFINE g == [i \in 0..m |-> IF i = m THEN Apply(h[m - 1], l[m]) ELSE h[i]]
<1>6. \A i \in 0..m : g[i] = IF i = 0 THEN Empty ELSE Apply(g[i - 1], l[i])
  BY <1>3, <1>4, <1>5 DEF Replays
<1>7. Replays(g, l, m)
  BY <1>6 DEF Replays
<1> QED BY <1>2, <1>7

\* Two of them agree as far as their logs do.
LEMMA ReplayUnique ==
  ASSUME NEW f, NEW g, NEW l, NEW k, NEW n \in Nat, NEW m \in Nat, n <= m,
         Replays(f, l, n), Replays(g, k, m),
         \A i \in 1..n : l[i] = k[i]
  PROVE  \A i \in 0..n : f[i] = g[i]
<1> DEFINE T == {i \in 0..n : f[i] # g[i]}
<1>1. SUFFICES ASSUME T # {} PROVE FALSE
  OBVIOUS
<1>2. PICK i \in T : \A j \in T : i <= j
  <2>1. T \in SUBSET Nat
    OBVIOUS
  <2> QED BY <1>1, <2>1, LeastNat
<1>3. /\ f[i] = IF i = 0 THEN Empty ELSE Apply(f[i - 1], l[i])
      /\ g[i] = IF i = 0 THEN Empty ELSE Apply(g[i - 1], k[i])
  <2>1. i \in 0..n /\ i \in 0..m
    OBVIOUS
  <2> QED BY <2>1 DEF Replays
<1>4. i # 0
  BY <1>3
<1>5. i - 1 \in 0..n /\ i \in 1..n
  BY <1>4
<1>6. f[i - 1] = g[i - 1]
  BY <1>2, <1>5
<1> QED BY <1>3, <1>4, <1>5, <1>6

\* History is such a function.
LEMMA HistoryReplays ==
  ASSUME NEW S, NEW l \in Seq(S)
  PROVE  Replays(History(l), l, Len(l))
<1>1. \E h : Replays(h, l, Len(l))
  BY ReplayExists, LenProperties
<1> QED BY <1>1, Zenon DEF History, Replays

(***************************************************************************)
(* The equations of replay.                                                *)
(***************************************************************************)
LEMMA HistoryEquations ==
  ASSUME NEW S, NEW l \in Seq(S)
  PROVE  /\ History(l)[0] = Empty
         /\ \A i \in 1..Len(l) : History(l)[i] = Apply(History(l)[i - 1], l[i])
<1>1. Len(l) \in Nat
  BY LenProperties
<1>2. \A i \in 0..Len(l) :
        History(l)[i] = IF i = 0 THEN Empty ELSE Apply(History(l)[i - 1], l[i])
  <2> DEFINE h == History(l)
  <2>1. h = [i \in 0..Len(l) |-> IF i = 0 THEN Empty ELSE Apply(h[i - 1], l[i])]
    BY HistoryReplays DEF Replays
  <2> HIDE DEF h
  <2>2. \A i \in 0..Len(l) : h[i] = IF i = 0 THEN Empty ELSE Apply(h[i - 1], l[i])
    BY <2>1
  <2> QED BY <2>2 DEF h
<1> QED BY <1>1, <1>2

(***************************************************************************)
(* Appending an event leaves the states before it as they were and adds    *)
(* one more.                                                               *)
(***************************************************************************)
LEMMA HistoryAppend ==
  ASSUME NEW S, NEW l \in Seq(S), NEW e \in S
  PROVE  LET k == Append(l, e)
         IN  /\ \A i \in 0..Len(l) : History(k)[i] = History(l)[i]
             /\ History(k)[Len(l) + 1] = Apply(History(l)[Len(l)], e)
<1> DEFINE k == Append(l, e)
<1>1. /\ k \in Seq(S) /\ Len(k) = Len(l) + 1 /\ Len(l) \in Nat
      /\ \A i \in 1..Len(l) : k[i] = l[i]
      /\ k[Len(l) + 1] = e
  BY AppendProperties, LenProperties
<1> HIDE DEF k
<1>2. Replays(History(l), l, Len(l)) /\ Replays(History(k), k, Len(k))
  BY <1>1, HistoryReplays
<1>3. \A i \in 0..Len(l) : History(l)[i] = History(k)[i]
  BY <1>1, <1>2, ReplayUnique
<1>4. History(k)[Len(l) + 1] = Apply(History(k)[Len(l)], k[Len(l) + 1])
  BY <1>1, HistoryEquations
<1> QED BY <1>1, <1>3, <1>4 DEF k

-----------------------------------------------------------------------------
(***************************************************************************)
(* Types.                                                                  *)
(***************************************************************************)

LEMMA EmptyType == Empty \in State
BY DEF Empty, State, Clock

LEMMA StateFields ==
  ASSUME NEW s \in State
  PROVE  /\ s.blocks \in [Block -> BlockRec \cup {None}]
         /\ s.editors \in SUBSET Editor
         /\ s.grants \in SUBSET Grant
         /\ s.counts \in Clock
         /\ s.parents \in [Block -> SUBSET Block]
BY DEF State

LEMMA BlockFields ==
  ASSUME NEW r \in BlockRec
  PROVE  /\ r.owner \in Editor /\ r.name \in Text /\ r.type \in BlockType
         /\ r.contents \in Contents /\ r.children \in SUBSET Block
BY DEF BlockRec

LEMMA KidsType ==
  ASSUME NEW s \in State, NEW b \in Block
  PROVE  Kids(s, b) \in SUBSET Block
BY StateFields, BlockFields DEF Kids, Exists

LEMMA TickType ==
  ASSUME NEW s \in State, NEW ts \in Clock
  PROVE  Tick(s, ts) \in State
BY DEF Tick, State, Clock

LEMMA PutBlockType ==
  ASSUME NEW s \in State, NEW b \in Block, NEW rec \in BlockRec
  PROVE  PutBlock(s, b, rec) \in State
BY DEF PutBlock, State

LEMMA RenameType ==
  ASSUME NEW s \in State, NEW b \in Block, NEW name \in Text
  PROVE  Rename(s, b, name) \in State
BY SMTT(30) DEF Rename, Exists, State, BlockRec

LEMMA OverlayType ==
  ASSUME NEW old \in Contents, NEW new \in Contents
  PROVE  Overlay(old, new) \in Contents
BY DEF Overlay, Contents

LEMMA WriteContentsType ==
  ASSUME NEW s \in State, NEW b \in Block, NEW contents \in Contents
  PROVE  WriteContents(s, b, contents) \in State
<1>1. CASE Exists(s, b)
  <2>1. s.blocks[b] \in BlockRec
    BY <1>1, StateFields DEF Exists
  <2>2. Overlay(s.blocks[b].contents, contents) \in Contents
    BY <2>1, OverlayType, BlockFields
  <2> QED BY <1>1, <2>1, <2>2 DEF WriteContents, State, BlockRec
<1>2. CASE ~Exists(s, b)
  BY <1>2 DEF WriteContents
<1> QED BY <1>1, <1>2

LEMMA RelinkType ==
  ASSUME NEW s \in State, NEW b \in Block, NEW kids \in SUBSET Block
  PROVE  Relink(s, b, kids) \in State
<1>1. CASE Exists(s, b)
  <2> DEFINE parents ==
        [c \in Block |->
           CASE c \in kids \ Kids(s, b) -> s.parents[c] \cup {b}
             [] c \in Kids(s, b) \ kids -> s.parents[c] \ {b}
             [] OTHER                   -> s.parents[c]]
  <2>1. parents \in [Block -> SUBSET Block]
    BY StateFields
  <2>2. s.blocks[b] \in BlockRec
    BY <1>1, StateFields DEF Exists
  <2>3. [s.blocks EXCEPT ![b].children = kids] \in [Block -> BlockRec \cup {None}]
    <3>1. [s.blocks[b] EXCEPT !.children = kids] \in BlockRec
      BY <2>2 DEF BlockRec
    <3> QED BY <3>1, StateFields
  <2>4. Relink(s, b, kids) =
          [s EXCEPT !.blocks = [s.blocks EXCEPT ![b].children = kids],
                    !.parents = parents]
    BY <1>1 DEF Relink
  <2> HIDE DEF parents
  <2> QED BY <2>1, <2>3, <2>4 DEF State
<1>2. CASE ~Exists(s, b)
  BY <1>2 DEF Relink
<1> QED BY <1>1, <1>2

LEMMA DropParentType ==
  ASSUME NEW parents \in [Block -> SUBSET Block], NEW b, NEW gone
  PROVE  DropParent(parents, b, gone) \in [Block -> SUBSET Block]
BY DEF DropParent

LEMMA UnlinkType ==
  ASSUME NEW s \in State, NEW b \in Block, NEW kids \in SUBSET Block
  PROVE  Unlink(s, b, kids) \in State
<1>1. CASE Exists(s, b)
  <2> DEFINE parents == DropParent(s.parents, b, Kids(s, b) \ kids)
  <2>1. parents \in [Block -> SUBSET Block]
    BY StateFields, DropParentType
  <2>2. s.blocks[b] \in BlockRec
    BY <1>1, StateFields DEF Exists
  <2>3. [s.blocks EXCEPT ![b].children = kids] \in [Block -> BlockRec \cup {None}]
    <3>1. [s.blocks[b] EXCEPT !.children = kids] \in BlockRec
      BY <2>2 DEF BlockRec
    <3> QED BY <3>1, StateFields
  <2>4. Unlink(s, b, kids) =
          [s EXCEPT !.blocks = [s.blocks EXCEPT ![b].children = kids],
                    !.parents = parents]
    BY <1>1 DEF Unlink
  <2> HIDE DEF parents
  <2> QED BY <2>1, <2>3, <2>4 DEF State
<1>2. CASE ~Exists(s, b)
  BY <1>2 DEF Unlink
<1> QED BY <1>1, <1>2

LEMMA DeleteBlockType ==
  ASSUME NEW s \in State, NEW b \in Block
  PROVE  DeleteBlock(s, b) \in State
<1> DEFINE forward == DropParent(s.parents, b, Kids(s, b))
           blocks  == [p \in Block |->
                         CASE p = b -> None
                           [] p # b /\ p \in forward[b] /\ Exists(s, p) ->
                                [s.blocks[p] EXCEPT !.children = @ \ {b}]
                           [] OTHER -> s.blocks[p]]
<1>1. forward \in [Block -> SUBSET Block]
  BY StateFields, DropParentType
<1>2. blocks \in [Block -> BlockRec \cup {None}]
  <2> SUFFICES ASSUME NEW p \in Block
               PROVE  blocks[p] \in BlockRec \cup {None}
    OBVIOUS
  <2>1. Exists(s, p) => [s.blocks[p] EXCEPT !.children = @ \ {b}] \in BlockRec
    <3>1. Exists(s, p) => s.blocks[p] \in BlockRec
      BY StateFields DEF Exists
    <3> QED BY <3>1 DEF BlockRec
  <2>2. s.blocks[p] \in BlockRec \cup {None}
    BY StateFields
  <2> QED BY <2>1, <2>2
<1>3. DeleteBlock(s, b) =
        [s EXCEPT !.parents = [forward EXCEPT ![b] = {}], !.blocks = blocks]
  BY DEF DeleteBlock
<1> HIDE DEF forward, blocks
<1> QED BY <1>1, <1>2, <1>3 DEF State

LEMMA GrantTypes ==
  ASSUME NEW s \in State, NEW g \in Grant
  PROVE  AddGrant(s, g) \in State /\ RemoveGrant(s, g) \in State
BY DEF AddGrant, RemoveGrant, State

LEMMA EditorTypes ==
  ASSUME NEW s \in State, NEW ed \in Editor
  PROVE  PutEditor(s, ed) \in State /\ DeleteEditor(s, ed) \in State
BY DEF PutEditor, DeleteEditor, State

(***************************************************************************)
(* An event takes a state to a state.                                      *)
(***************************************************************************)
LEMMA ApplyType ==
  ASSUME NEW s \in State, NEW e \in Event
  PROVE  Apply(s, e) \in State
<1> DEFINE t == Tick(s, e.ts)
<1>1. /\ e.cap \in Capability
      /\ e.entity \in EntitiesOf(e.cap)
      /\ e.value \in ValuesOf(e.cap)
      /\ e.ts \in Clock
  BY DEF Event
<1>2. t \in State
  BY <1>1, TickType
<1> HIDE DEF t
<1>3. CASE e.cap = "core.create"
  <2>1. e.entity \in Block /\ e.value \in BlockRec
    BY <1>1, <1>3 DEF EntitiesOf, ValuesOf
  <2>2. Apply(s, e) = PutBlock(t, e.entity, e.value)
    BY <1>3 DEF Apply, t
  <2> QED BY <1>2, <2>1, <2>2, PutBlockType
<1>4. CASE e.cap = "core.write"
  <2>1. e.entity \in Block /\ e.value.name \in Text
    BY <1>1, <1>4 DEF EntitiesOf, ValuesOf
  <2>2. Apply(s, e) = Rename(t, e.entity, e.value.name)
    BY <1>4 DEF Apply, t
  <2> QED BY <1>2, <2>1, <2>2, RenameType
<1>5. CASE e.cap \in {"document.write", "task.write"}
  <2>1. e.entity \in Block /\ e.value.contents \in Contents
    BY <1>1, <1>5 DEF EntitiesOf, ValuesOf
  <2>2. Apply(s, e) = WriteContents(t, e.entity, e.value.contents)
    BY <1>5 DEF Apply, t
  <2> QED BY <1>2, <2>1, <2>2, WriteContentsType
<1>6. CASE e.cap = "core.link"
  <2>1. e.entity \in Block /\ e.value.children \in SUBSET Block
    BY <1>1, <1>6 DEF EntitiesOf, ValuesOf
  <2>2. Apply(s, e) = Relink(t, e.entity, e.value.children)
    BY <1>6 DEF Apply, t
  <2> QED BY <1>2, <2>1, <2>2, RelinkType
<1>7. CASE e.cap = "core.unlink"
  <2>1. e.entity \in Block /\ e.value.children \in SUBSET Block
    BY <1>1, <1>7 DEF EntitiesOf, ValuesOf
  <2>2. Apply(s, e) = Unlink(t, e.entity, e.value.children)
    BY <1>7 DEF Apply, t
  <2> QED BY <1>2, <2>1, <2>2, UnlinkType
<1>8. CASE e.cap = "core.delete"
  <2>1. e.entity \in Block
    BY <1>1, <1>8 DEF EntitiesOf
  <2>2. Apply(s, e) = DeleteBlock(t, e.entity)
    BY <1>8 DEF Apply, t
  <2> QED BY <1>2, <2>1, <2>2, DeleteBlockType
<1>9. CASE e.cap \in {"core.grant", "core.revoke"}
  <2>1. e.value \in Grant
    BY <1>1, <1>9 DEF ValuesOf
  <2>2. Apply(s, e) \in {AddGrant(t, e.value), RemoveGrant(t, e.value)}
    BY <1>9 DEF Apply, t
  <2> QED BY <1>2, <2>1, <2>2, GrantTypes
<1>10. CASE e.cap = "editor.create"
  <2>1. e.value.editor \in Editor
    BY <1>1, <1>10 DEF ValuesOf
  <2>2. Apply(s, e) = PutEditor(t, e.value.editor)
    BY <1>10 DEF Apply, t
  <2> QED BY <1>2, <2>1, <2>2, EditorTypes
<1>11. CASE e.cap = "editor.delete"
  <2>1. e.entity \in Editor
    BY <1>1, <1>11 DEF EntitiesOf
  <2>2. Apply(s, e) = DeleteEditor(t, e.entity)
    BY <1>11 DEF Apply, t
  <2> QED BY <1>2, <2>1, <2>2, EditorTypes
<1>12. CASE e.cap \in {"document.read", "task.read", "task.commit",
                       "session.append", "session.read"}
  BY <1>2, <1>12 DEF Apply, t
<1> QED
  BY <1>1, <1>3, <1>4, <1>5, <1>6, <1>7, <1>8, <1>9, <1>10, <1>11, <1>12
     DEF Capability

(***************************************************************************)
(* Every state a replay goes through is a State.                           *)
(***************************************************************************)
LEMMA HistoryType ==
  ASSUME NEW l \in Seq(Event)
  PROVE  \A i \in 0..Len(l) : History(l)[i] \in State
<1> DEFINE T == {i \in 0..Len(l) : History(l)[i] \notin State}
<1>1. SUFFICES ASSUME T # {} PROVE FALSE
  OBVIOUS
<1>2. Len(l) \in Nat
  BY LenProperties
<1>3. PICK i \in T : \A j \in T : i <= j
  <2>1. T \in SUBSET Nat
    BY <1>2
  <2> QED BY <1>1, <2>1, LeastNat
<1>4. i # 0
  BY HistoryEquations, EmptyType
<1>5. i \in 1..Len(l) /\ i - 1 \in 0..Len(l) /\ i - 1 \notin T
  BY <1>2, <1>3, <1>4
<1>6. History(l)[i - 1] \in State
  BY <1>5
<1>7. l[i] \in Event
  BY <1>5, ElementOfSeq
<1>8. History(l)[i] = Apply(History(l)[i - 1], l[i])
  BY <1>5, HistoryEquations
<1> QED BY <1>6, <1>7, <1>8, ApplyType

-----------------------------------------------------------------------------
(***************************************************************************)
(* The link graph of a state stays sound: an event that Fits the state it  *)
(* is applied to keeps the reverse index the mirror of the children lists  *)
(* and the implement relation acyclic.                                     *)
(***************************************************************************)

\* s and t have the same children lists and the same index.
SameGraph(s, t) ==
    /\ \A b \in Block : Kids(t, b) = Kids(s, b)
    /\ \A b \in Block : t.parents[b] = s.parents[b]

(***************************************************************************)
(* A block is not downstream of c exactly when some closed set has c in it *)
(* and the block outside.                                                  *)
(***************************************************************************)
LEMMA Separated ==
  ASSUME NEW s, NEW b \in Block, NEW c
  PROVE  b \notin Downstream(s, c) <=>
           \E set \in SUBSET Block : c \in set /\ Closed(s, set) /\ b \notin set
BY DEF Downstream

\* With fewer children no cycle can appear.
LEMMA FewerKids ==
  ASSUME NEW s, NEW t, Acyclic(s),
         \A b \in Block : Kids(t, b) \subseteq Kids(s, b)
  PROVE  Acyclic(t)
<1> SUFFICES ASSUME NEW b \in Block, NEW c \in Kids(t, b)
             PROVE  b \notin Downstream(t, c)
  BY DEF Acyclic
<1>1. b \notin Downstream(s, c)
  BY DEF Acyclic
<1>2. PICK set \in SUBSET Block : c \in set /\ Closed(s, set) /\ b \notin set
  BY <1>1, Separated
<1>3. Closed(t, set)
  BY <1>2 DEF Closed
<1> QED BY <1>2, <1>3, Separated

\* Nothing changes with the graph unchanged.
LEMMA SameGraphSound ==
  ASSUME NEW s, NEW t, SameGraph(s, t),
         ParentsMirrorChildren(s), Acyclic(s)
  PROVE  ParentsMirrorChildren(t) /\ Acyclic(t)
<1>1. Acyclic(t)
  BY FewerKids DEF SameGraph
<1>2. ParentsMirrorChildren(t)
  BY DEF SameGraph, ParentsMirrorChildren
<1> QED BY <1>1, <1>2

(***************************************************************************)
(* One more edge, from b to c, keeps the relation acyclic if b was not     *)
(* downstream of c.                                                        *)
(***************************************************************************)
LEMMA OneMoreKid ==
  ASSUME NEW s, NEW t, Acyclic(s), NEW b \in Block, NEW c \in Block,
         b \notin Downstream(s, c),
         Kids(t, b) = Kids(s, b) \cup {c},
         \A p \in Block \ {b} : Kids(t, p) = Kids(s, p)
  PROVE  Acyclic(t)
<1> SUFFICES ASSUME NEW p \in Block, NEW k \in Kids(t, p)
             PROVE  p \notin Downstream(t, k)
  BY DEF Acyclic
<1>1. PICK away \in SUBSET Block :
        c \in away /\ Closed(s, away) /\ b \notin away
  BY Separated
<1>2. \A set \in SUBSET Block : Closed(s, set) /\ b \notin set => Closed(t, set)
  BY DEF Closed
<1>3. CASE p = b /\ k = c
  BY <1>1, <1>2, <1>3, Separated
<1>4. CASE ~(p = b /\ k = c)
  <2>1. k \in Kids(s, p)
    BY <1>4
  <2>2. PICK set \in SUBSET Block : k \in set /\ Closed(s, set) /\ p \notin set
    BY <2>1, Separated DEF Acyclic
  <2>3. CASE b \notin set
    BY <1>2, <2>2, <2>3, Separated
  <2>4. CASE b \in set /\ p \notin away
    <3>1. Closed(t, set \cup away)
      BY <1>1, <2>2 DEF Closed
    <3> QED BY <2>2, <2>4, <3>1, Separated
  <2>5. CASE b \in set /\ p \in away
    <3>1. k \in away
      BY <1>1, <2>1, <2>5 DEF Closed
    <3>2. Closed(s, set \cap away)
      BY <1>1, <2>2 DEF Closed
    <3>3. Closed(t, set \cap away)
      BY <1>1, <1>2, <3>2
    <3> QED BY <2>2, <3>1, <3>3, Separated
  <2> QED BY <2>3, <2>4, <2>5
<1> QED BY <1>3, <1>4

-----------------------------------------------------------------------------
(***************************************************************************)
(* Events that do not touch the graph.                                     *)
(***************************************************************************)
LEMMA TickGraph ==
  ASSUME NEW s \in State, NEW ts
  PROVE  SameGraph(s, Tick(s, ts)) /\ \A b : Exists(Tick(s, ts), b) <=> Exists(s, b)
BY DEF Tick, State, SameGraph, Kids, Exists

\* A change of one record that leaves its children alone.
LEMMA SameKidsGraph ==
  ASSUME NEW s \in State, NEW t \in State, NEW b \in Block,
         Exists(s, b), Exists(t, b),
         t.blocks[b].children = s.blocks[b].children,
         \A p \in Block \ {b} : t.blocks[p] = s.blocks[p],
         t.parents = s.parents
  PROVE  SameGraph(s, t)
BY DEF SameGraph, Kids, Exists

LEMMA RenameGraph ==
  ASSUME NEW s \in State, NEW b \in Block, NEW name \in Text
  PROVE  SameGraph(s, Rename(s, b, name))
<1>1. CASE Exists(s, b)
  <2> DEFINE rec == [s.blocks[b] EXCEPT !.name = name]
             t   == Rename(s, b, name)
  <2>1. rec \in BlockRec /\ rec.children = s.blocks[b].children
    BY <1>1, StateFields DEF Exists, BlockRec
  <2>2. t.blocks = [s.blocks EXCEPT ![b] = rec] /\ t.parents = s.parents
    BY <1>1 DEF Rename, State
  <2>3. t \in State
    BY RenameType
  <2> HIDE DEF rec, t
  <2>4. t.blocks[b] = rec /\ \A p \in Block \ {b} : t.blocks[p] = s.blocks[p]
    BY <2>2, StateFields
  <2>5. Exists(t, b)
    BY <2>1, <2>4, NoBlockAssumption DEF Exists
  <2>6. SameGraph(s, t)
    BY <1>1, <2>1, <2>2, <2>3, <2>4, <2>5, SameKidsGraph
  <2> QED BY <2>6 DEF t
<1>2. CASE ~Exists(s, b)
  BY <1>2 DEF Rename, SameGraph
<1> QED BY <1>1, <1>2

LEMMA WriteContentsGraph ==
  ASSUME NEW s \in State, NEW b \in Block, NEW contents \in Contents
  PROVE  SameGraph(s, WriteContents(s, b, contents))
<1>1. CASE Exists(s, b)
  <2> DEFINE rec == [s.blocks[b] EXCEPT
                       !.contents = Overlay(s.blocks[b].contents, contents)]
             t   == WriteContents(s, b, contents)
  <2>1. rec \in BlockRec /\ rec.children = s.blocks[b].children
    <3>1. s.blocks[b] \in BlockRec
      BY <1>1, StateFields DEF Exists
    <3>2. Overlay(s.blocks[b].contents, contents) \in Contents
      BY <3>1, BlockFields, OverlayType
    <3> QED BY <3>1, <3>2 DEF BlockRec
  <2>2. t.blocks = [s.blocks EXCEPT ![b] = rec] /\ t.parents = s.parents
    BY <1>1 DEF WriteContents, State
  <2>3. t \in State
    BY WriteContentsType
  <2> HIDE DEF rec, t
  <2>4. t.blocks[b] = rec /\ \A p \in Block \ {b} : t.blocks[p] = s.blocks[p]
    BY <2>2, StateFields
  <2>5. Exists(t, b)
    BY <2>1, <2>4, NoBlockAssumption DEF Exists
  <2>6. SameGraph(s, t)
    BY <1>1, <2>1, <2>2, <2>3, <2>4, <2>5, SameKidsGraph
  <2> QED BY <2>6 DEF t
<1>2. CASE ~Exists(s, b)
  BY <1>2 DEF WriteContents, SameGraph
<1> QED BY <1>1, <1>2

LEMMA GrantsGraph ==
  ASSUME NEW s \in State, NEW g, NEW ed
  PROVE  /\ SameGraph(s, AddGrant(s, g)) /\ SameGraph(s, RemoveGrant(s, g))
         /\ SameGraph(s, PutEditor(s, ed)) /\ SameGraph(s, DeleteEditor(s, ed))
BY DEF AddGrant, RemoveGrant, PutEditor, DeleteEditor, State, SameGraph, Kids, Exists

-----------------------------------------------------------------------------
(***************************************************************************)
(* Events that do.                                                         *)
(***************************************************************************)
LEMMA PutBlockGraph ==
  ASSUME NEW s \in State, NEW b \in Block, NEW rec \in BlockRec,
         ~Exists(s, b), rec.children = {},
         ParentsMirrorChildren(s), Acyclic(s)
  PROVE  LET t == PutBlock(s, b, rec)
         IN  ParentsMirrorChildren(t) /\ Acyclic(t)
<1> DEFINE t == PutBlock(s, b, rec)
<1>1. t.blocks = [s.blocks EXCEPT ![b] = rec]
  BY DEF PutBlock, State
<1>2. \A c \in Block : t.parents[c] = s.parents[c]
  BY DEF PutBlock, State
<1> HIDE DEF t
<1>3. \A p \in Block : Kids(t, p) = Kids(s, p)
  BY <1>1, StateFields DEF Kids, Exists
<1>4. SameGraph(s, t)
  BY <1>2, <1>3 DEF SameGraph
<1> QED BY <1>4, SameGraphSound DEF t

\* core.link on an existing block.
LEMMA RelinkGraph ==
  ASSUME NEW s \in State, NEW b \in Block, Exists(s, b), NEW c \in Block,
         c \notin Kids(s, b), b \notin Downstream(s, c),
         ParentsMirrorChildren(s), Acyclic(s)
  PROVE  LET t == Relink(s, b, Kids(s, b) \cup {c})
         IN  ParentsMirrorChildren(t) /\ Acyclic(t)
<1> DEFINE kids == Kids(s, b) \cup {c}
           t    == Relink(s, b, kids)
<1>1. kids \in SUBSET Block
  BY KidsType
<1>2. t.blocks = [s.blocks EXCEPT ![b].children = kids]
  BY DEF Relink, State
<1>3. \A k \in Block : t.parents[k] = IF k = c THEN s.parents[k] \cup {b}
                                              ELSE s.parents[k]
  BY DEF Relink, State
<1> HIDE DEF t
<1>4. s.blocks[b] \in BlockRec
  BY StateFields DEF Exists
<1>5. [s.blocks[b] EXCEPT !.children = kids] \in BlockRec
  BY <1>1, <1>4 DEF BlockRec
<1>6. Kids(t, b) = kids
  <2>1. t.blocks[b] = [s.blocks[b] EXCEPT !.children = kids]
    BY <1>2, StateFields
  <2>2. t.blocks[b].children = kids
    BY <1>4, <2>1 DEF BlockRec
  <2> QED BY <1>5, <2>1, <2>2, NoBlockAssumption DEF Kids, Exists
<1>7. \A p \in Block \ {b} : Kids(t, p) = Kids(s, p)
  BY <1>2, StateFields DEF Kids, Exists
<1>8. Acyclic(t)
  BY <1>6, <1>7, OneMoreKid
<1>9. ASSUME NEW p \in Block, NEW k \in Block
      PROVE  p \in t.parents[k] <=> k \in Kids(t, p)
  <2>1. p \in s.parents[k] <=> k \in Kids(s, p)
    BY DEF ParentsMirrorChildren
  <2>2. CASE p = b
    BY <1>3, <1>6, <2>1, <2>2
  <2>3. CASE p # b
    <3>1. Kids(t, p) = Kids(s, p)
      BY <1>7, <2>3
    <3>2. p \in t.parents[k] <=> p \in s.parents[k]
      BY <1>3, <2>3
    <3> QED BY <2>1, <3>1, <3>2
  <2> QED BY <2>2, <2>3
<1> QED BY <1>8, <1>9 DEF t, ParentsMirrorChildren

\* core.unlink on an existing block.
LEMMA UnlinkGraph ==
  ASSUME NEW s \in State, NEW b \in Block, Exists(s, b), NEW c \in Block,
         ParentsMirrorChildren(s), Acyclic(s)
  PROVE  LET t == Unlink(s, b, Kids(s, b) \ {c})
         IN  ParentsMirrorChildren(t) /\ Acyclic(t)
<1> DEFINE kids == Kids(s, b) \ {c}
           t    == Unlink(s, b, kids)
<1>1. kids \in SUBSET Block
  BY KidsType
<1>2. t.blocks = [s.blocks EXCEPT ![b].children = kids]
  BY DEF Unlink, State
<1>3. \A k \in Block : t.parents[k] = IF k \in Kids(s, b) \ kids
                                      THEN s.parents[k] \ {b} ELSE s.parents[k]
  BY DEF Unlink, DropParent, State
<1> HIDE DEF t
<1>4. s.blocks[b] \in BlockRec
  BY StateFields DEF Exists
<1>5. [s.blocks[b] EXCEPT !.children = kids] \in BlockRec
  BY <1>1, <1>4 DEF BlockRec
<1>6. Kids(t, b) = kids
  <2>1. t.blocks[b] = [s.blocks[b] EXCEPT !.children = kids]
    BY <1>2, StateFields
  <2>2. t.blocks[b].children = kids
    BY <1>4, <2>1 DEF BlockRec
  <2> QED BY <1>5, <2>1, <2>2, NoBlockAssumption DEF Kids, Exists
<1>7. \A p \in Block \ {b} : Kids(t, p) = Kids(s, p)
  BY <1>2, StateFields DEF Kids, Exists
<1>8. Acyclic(t)
  BY <1>6, <1>7, FewerKids
<1>9. ParentsMirrorChildren(t)
  BY <1>3, <1>6, <1>7 DEF ParentsMirrorChildren
<1> QED BY <1>8, <1>9 DEF t

(***************************************************************************)
(* core.delete: the index says which blocks list b as a child, so walking  *)
(* the index is enough to take b out of every list.                        *)
(***************************************************************************)
LEMMA DeleteBlockGraph ==
  ASSUME NEW s \in State, NEW b \in Block,
         ParentsMirrorChildren(s), Acyclic(s)
  PROVE  LET t == DeleteBlock(s, b)
         IN  ParentsMirrorChildren(t) /\ Acyclic(t)
<1> DEFINE forward == DropParent(s.parents, b, Kids(s, b))
           t       == DeleteBlock(s, b)
<1>1. \A c \in Block : forward[c] = IF c \in Kids(s, b)
                                    THEN s.parents[c] \ {b} ELSE s.parents[c]
  BY DEF DropParent
<1>2. \A c \in Block : t.parents[c] = IF c = b THEN {} ELSE forward[c]
  BY StateFields, DropParentType DEF DeleteBlock, State
<1>3. \A p \in Block :
        t.blocks[p] = CASE p = b -> None
                        [] p # b /\ p \in forward[b] /\ Exists(s, p) ->
                             [s.blocks[p] EXCEPT !.children = @ \ {b}]
                        [] OTHER -> s.blocks[p]
  BY DEF DeleteBlock, State
<1> HIDE DEF t, forward
<1>4. Kids(t, b) = {}
  BY <1>3 DEF Kids, Exists
<1>5. \A p \in Block \ {b} : Kids(t, p) = Kids(s, p) \ {b}
  <2> SUFFICES ASSUME NEW p \in Block \ {b} PROVE Kids(t, p) = Kids(s, p) \ {b}
    OBVIOUS
  <2>1. CASE p \in forward[b] /\ Exists(s, p)
    <3>1. s.blocks[p] \in BlockRec
      BY <2>1, StateFields DEF Exists
    <3>2. t.blocks[p] = [s.blocks[p] EXCEPT !.children = @ \ {b}]
      BY <1>3, <2>1
    <3>3. t.blocks[p] \in BlockRec /\ t.blocks[p].children = s.blocks[p].children \ {b}
      BY <3>1, <3>2 DEF BlockRec
    <3> QED BY <2>1, <3>3, NoBlockAssumption DEF Kids, Exists
  <2>2. CASE ~(p \in forward[b] /\ Exists(s, p))
    <3>1. t.blocks[p] = s.blocks[p]
      BY <1>3, <2>2
    <3>2. b \notin Kids(s, p)
      <4>1. CASE ~Exists(s, p)
        BY <4>1 DEF Kids
      <4>2. CASE p \notin forward[b]
        BY <1>1, <4>2 DEF ParentsMirrorChildren
      <4> QED BY <2>2, <4>1, <4>2
    <3> QED BY <3>1, <3>2 DEF Kids, Exists
  <2> QED BY <2>1, <2>2
<1>6. Acyclic(t)
  BY <1>4, <1>5, FewerKids
<1>7. ParentsMirrorChildren(t)
  <2> SUFFICES ASSUME NEW p \in Block, NEW c \in Block
               PROVE  p \in t.parents[c] <=> c \in Kids(t, p)
    BY DEF ParentsMirrorChildren
  <2>1. p \in s.parents[c] <=> c \in Kids(s, p)
    BY DEF ParentsMirrorChildren
  <2> QED BY <1>1, <1>2, <1>4, <1>5, <2>1
<1> QED BY <1>6, <1>7 DEF t

-----------------------------------------------------------------------------
(***************************************************************************)
(* An event that fits the state keeps the graph sound, whatever its        *)
(* capability and its clock.                                               *)
(***************************************************************************)
LEMMA ApplyKeepsGraph ==
  ASSUME NEW s \in State, NEW e \in Event, Fits(s, e),
         ParentsMirrorChildren(s), Acyclic(s)
  PROVE  ParentsMirrorChildren(Apply(s, e)) /\ Acyclic(Apply(s, e))
<1> DEFINE t == Tick(s, e.ts)
<1>1. /\ e.cap \in Capability
      /\ e.entity \in EntitiesOf(e.cap)
      /\ e.value \in ValuesOf(e.cap)
      /\ e.ts \in Clock
  BY DEF Event
<1>2. t \in State
  BY <1>1, TickType
<1>3. /\ SameGraph(s, t)
      /\ \A b : Exists(t, b) <=> Exists(s, b)
  BY TickGraph
<1> HIDE DEF t
<1>4. ParentsMirrorChildren(t) /\ Acyclic(t)
  BY <1>3, SameGraphSound
<1>5. CASE e.cap = "core.create"
  <2>1. e.entity \in Block /\ e.value \in BlockRec
    BY <1>1, <1>5 DEF EntitiesOf, ValuesOf
  <2>2. ~Exists(t, e.entity) /\ e.value.children = {}
    BY <1>3, <1>5 DEF Fits
  <2>3. Apply(s, e) = PutBlock(t, e.entity, e.value)
    BY <1>5 DEF Apply, t
  <2> QED BY <1>2, <1>4, <2>1, <2>2, <2>3, PutBlockGraph
<1>6. CASE e.cap = "core.link"
  <2>1. e.entity \in Block
    BY <1>1, <1>6 DEF EntitiesOf
  <2>2. PICK c \in Block \ Kids(s, e.entity) :
           /\ e.value.children = Kids(s, e.entity) \cup {c}
           /\ e.entity \notin Downstream(s, c)
    BY <1>6 DEF Fits
  <2>3. Kids(t, e.entity) = Kids(s, e.entity)
    BY <1>3, <2>1 DEF SameGraph
  <2>4. e.entity \notin Downstream(t, c)
    BY <1>3, <2>1, <2>2, Separated DEF SameGraph, Closed
  <2>5. Apply(s, e) = Relink(t, e.entity, Kids(t, e.entity) \cup {c})
    BY <1>6, <2>2, <2>3 DEF Apply, t
  <2>6. CASE Exists(t, e.entity)
    BY <1>2, <1>4, <2>1, <2>2, <2>3, <2>4, <2>5, <2>6, RelinkGraph
  <2>7. CASE ~Exists(t, e.entity)
    BY <1>4, <2>5, <2>7 DEF Relink
  <2> QED BY <2>6, <2>7
<1>7. CASE e.cap = "core.unlink"
  <2>1. e.entity \in Block
    BY <1>1, <1>7 DEF EntitiesOf
  <2>2. PICK c \in Block : e.value.children = Kids(s, e.entity) \ {c}
    BY <1>7 DEF Fits
  <2>3. Kids(t, e.entity) = Kids(s, e.entity)
    BY <1>3, <2>1 DEF SameGraph
  <2>4. Apply(s, e) = Unlink(t, e.entity, Kids(t, e.entity) \ {c})
    BY <1>7, <2>2, <2>3 DEF Apply, t
  <2>5. CASE Exists(t, e.entity)
    BY <1>2, <1>4, <2>1, <2>4, <2>5, UnlinkGraph
  <2>6. CASE ~Exists(t, e.entity)
    BY <1>4, <2>4, <2>6 DEF Unlink
  <2> QED BY <2>5, <2>6
<1>8. CASE e.cap = "core.delete"
  <2>1. e.entity \in Block
    BY <1>1, <1>8 DEF EntitiesOf
  <2>2. Apply(s, e) = DeleteBlock(t, e.entity)
    BY <1>8 DEF Apply, t
  <2> QED BY <1>2, <1>4, <2>1, <2>2, DeleteBlockGraph
<1>9. CASE e.cap \notin {"core.create", "core.link", "core.unlink", "core.delete"}
  <2>1. SameGraph(t, Apply(s, e))
    <3>1. CASE e.cap = "core.write"
      <4>1. e.entity \in Block /\ e.value.name \in Text
        BY <1>1, <3>1 DEF EntitiesOf, ValuesOf
      <4>2. Apply(s, e) = Rename(t, e.entity, e.value.name)
        BY <3>1 DEF Apply, t
      <4> QED BY <1>2, <4>1, <4>2, RenameGraph
    <3>2. CASE e.cap \in {"document.write", "task.write"}
      <4>1. e.entity \in Block /\ e.value.contents \in Contents
        BY <1>1, <3>2 DEF EntitiesOf, ValuesOf
      <4>2. Apply(s, e) = WriteContents(t, e.entity, e.value.contents)
        BY <3>2 DEF Apply, t
      <4> QED BY <1>2, <4>1, <4>2, WriteContentsGraph
    <3>3. CASE e.cap \in {"core.grant", "core.revoke"}
      <4>1. Apply(s, e) \in {AddGrant(t, e.value), RemoveGrant(t, e.value)}
        BY <3>3 DEF Apply, t
      <4> QED BY <1>2, <4>1, GrantsGraph
    <3>4. CASE e.cap \in {"editor.create", "editor.delete"}
      <4>1. Apply(s, e) \in {PutEditor(t, e.value.editor), DeleteEditor(t, e.entity)}
        BY <3>4 DEF Apply, t
      <4> QED BY <1>2, <4>1, GrantsGraph
    <3>5. CASE e.cap \in {"document.read", "task.read", "task.commit",
                          "session.append", "session.read"}
      <4>1. Apply(s, e) = t
        BY <3>5 DEF Apply, t
      <4> QED BY <4>1 DEF SameGraph
    <3> QED BY <1>1, <1>9, <3>1, <3>2, <3>3, <3>4, <3>5 DEF Capability
  <2> QED BY <1>4, <2>1, SameGraphSound
<1> QED BY <1>5, <1>6, <1>7, <1>8, <1>9

-----------------------------------------------------------------------------
(***************************************************************************)
(* What the handlers commit has the shape the projection reads.            *)
(***************************************************************************)

LEMMA ContentsType ==
  ASSUME NEW s \in State, NEW b \in Block, Exists(s, b)
  PROVE  s.blocks[b].contents \in Contents /\ s.blocks[b].owner \in Editor
BY StateFields, BlockFields DEF Exists

(***************************************************************************)
(* What a handler returns fits the capability of the command.              *)
(***************************************************************************)
LEMMA HandlerType ==
  ASSUME NEW s \in State, NEW c, IsCommand(c), c.cap \in Capability,
         ~NoTarget(c) => Exists(s, c.block),
         NEW fresh, c.cap = "core.create" => fresh \in Block,
         NEW body \in Handler(s, c, fresh)
  PROVE  body.entity \in EntitiesOf(c.cap) /\ body.value \in ValuesOf(c.cap)
<1>1. CASE c.cap = "core.create"
  <2>1. body = [entity |-> fresh, value |-> NewBlock(c)]
    BY <1>1 DEF Handler, HandleCreate, Emit
  <2>2. NewBlock(c) \in BlockRec
    BY <1>1 DEF IsCommand, NewBlock, BlockRec
  <2> QED BY <1>1, <2>1, <2>2 DEF EntitiesOf, ValuesOf
<1>2. CASE c.cap = "core.write"
  <2>1. body = [entity |-> c.block, value |-> c.arg]
    BY <1>2 DEF Handler, HandleWrite, Emit
  <2> QED BY <1>2, <2>1 DEF EntitiesOf, ValuesOf, IsCommand
<1>3. CASE c.cap = "core.link"
  <2>1. body = [entity |-> c.block, value |-> [children |-> Linked(s, c)]]
    BY <1>3 DEF Handler, HandleLink, Only, Emit
  <2>2. c.block \in Block /\ c.arg.target \in Block
    BY <1>3 DEF IsCommand
  <2>3. Linked(s, c) \in SUBSET Block
    BY <2>2, KidsType DEF Linked
  <2> QED BY <1>3, <2>1, <2>2, <2>3 DEF EntitiesOf, ValuesOf
<1>4. CASE c.cap = "core.unlink"
  <2>1. body = [entity |-> c.block,
                value |-> [children |-> Kids(s, c.block) \ {c.arg.target}]]
    BY <1>4 DEF Handler, HandleUnlink, Emit
  <2>2. c.block \in Block
    BY <1>4 DEF IsCommand
  <2>3. Kids(s, c.block) \ {c.arg.target} \in SUBSET Block
    BY <2>2, KidsType
  <2> QED BY <1>4, <2>1, <2>2, <2>3 DEF EntitiesOf, ValuesOf
<1>5. CASE c.cap = "core.delete"
  <2>1. body = [entity |-> c.block, value |-> None]
    BY <1>5 DEF Handler, HandleDelete, Emit
  <2> QED BY <1>5, <2>1 DEF EntitiesOf, ValuesOf, IsCommand
<1>6. CASE c.cap \in {"core.grant", "core.revoke"}
  <2>1. body = [entity |-> c.block, value |-> GrantOf(c)]
    BY <1>6 DEF Handler, HandleGrant, HandleRevoke, Emit
  <2>2. c.block \in Block \cup {Wild} /\ GrantOf(c) \in Grant
    BY <1>6 DEF IsCommand, GrantOf, Grant
  <2> QED BY <1>6, <2>1, <2>2 DEF EntitiesOf, ValuesOf
<1>7. CASE c.cap = "editor.create"
  <2>1. body = [entity |-> c.arg.editor, value |-> c.arg]
    BY <1>7 DEF Handler, HandleEditorCreate, Emit
  <2> QED BY <1>7, <2>1 DEF EntitiesOf, ValuesOf, IsCommand
<1>8. CASE c.cap = "editor.delete"
  <2>1. body = [entity |-> c.arg.editor, value |-> None]
    BY <1>8 DEF Handler, HandleEditorDelete, Emit
  <2> QED BY <1>8, <2>1 DEF EntitiesOf, ValuesOf, IsCommand
<1>9. CASE c.cap \in {"document.write", "task.write"}
  <2>1. body = [entity |-> c.block, value |-> [contents |-> Merged(s, c)]]
    BY <1>9 DEF Handler, HandleDocumentWrite, HandleTaskWrite, Only, Emit
  <2>2. c.block \in Block /\ c.arg.patch \in Contents
    BY <1>9 DEF IsCommand
  <2>3. Exists(s, c.block)
    BY <1>9 DEF NoTarget, SystemLevel
  <2>4. Merged(s, c) \in Contents
    BY <2>2, <2>3, ContentsType, OverlayType DEF Merged
  <2> QED BY <1>9, <2>1, <2>2, <2>4 DEF EntitiesOf, ValuesOf
<1>10. CASE c.cap = "task.commit"
  <2>1. body = [entity |-> c.block, value |-> [downstream |-> Kids(s, c.block)]]
    BY <1>10 DEF Handler, HandleTaskCommit, Only, Emit
  <2>2. c.block \in Block
    BY <1>10 DEF IsCommand
  <2>3. Kids(s, c.block) \in SUBSET Block
    BY <2>2, KidsType
  <2> QED BY <1>10, <2>1, <2>2, <2>3 DEF EntitiesOf, ValuesOf
<1>11. CASE c.cap = "session.append"
  <2>1. body = [entity |-> c.block, value |-> c.arg]
    BY <1>11 DEF Handler, HandleSessionAppend, Emit
  <2> QED BY <1>11, <2>1 DEF EntitiesOf, ValuesOf, IsCommand
<1>12. CASE c.cap \in {"document.read", "task.read", "session.read"}
  BY <1>12 DEF Handler
<1> QED
  BY <1>1, <1>2, <1>3, <1>4, <1>5, <1>6, <1>7, <1>8, <1>9, <1>10, <1>11, <1>12
     DEF Capability

LEMMA StampType ==
  ASSUME NEW s \in State, NEW ed \in Editor
  PROVE  Stamp(s, ed) \in Clock
BY StateFields DEF Stamp, Clock

LEMMA ValuesAreValues ==
  ASSUME NEW cap \in Capability
  PROVE  ValuesOf(cap) \subseteq Value
BY DEF ValuesOf, Value, Capability

LEMMA EntitiesAreEntities ==
  ASSUME NEW cap \in Capability
  PROVE  EntitiesOf(cap) \subseteq Editor \cup Block \cup {Wild}
BY DEF EntitiesOf, Capability

(***************************************************************************)
(* What a command commits is an event.                                     *)
(***************************************************************************)
LEMMA OutcomeType ==
  ASSUME NEW s \in State, NEW c, IsCommand(c),
         NEW fresh, c.cap = "core.create" => fresh \in Block,
         NEW id \in Nat, NEW e \in Outcome(s, c, fresh, id)
  PROVE  e \in Event /\ e.id = id
<1>1. Admitted(s, c)
  BY DEF Outcome
<1>2. PICK body \in Handler(s, c, fresh) :
        e = [id |-> id, by |-> c.by, cap |-> c.cap,
             entity |-> body.entity, value |-> body.value, ts |-> Stamp(s, c.by)]
  BY <1>1 DEF Outcome
<1>3. c.cap \in Capability /\ c.by \in Editor
  BY <1>1, RegisteredAssumption DEF Admitted, IsCommand
<1>4. ~NoTarget(c) => Exists(s, c.block)
  BY <1>1 DEF Admitted, Certified
<1>5. body.entity \in EntitiesOf(c.cap) /\ body.value \in ValuesOf(c.cap)
  BY <1>3, <1>4, HandlerType
<1>6. Stamp(s, c.by) \in Clock
  BY <1>3, StampType
<1>7. body.entity \in Editor \cup Block \cup {Wild} /\ body.value \in Value
  BY <1>3, <1>5, ValuesAreValues, EntitiesAreEntities
<1> QED BY <1>2, <1>3, <1>5, <1>6, <1>7 DEF Event

(***************************************************************************)
(* A command that is admitted against a state makes an event that fits it. *)
(***************************************************************************)
LEMMA OutcomeFits ==
  ASSUME NEW s \in State, NEW c, IsCommand(c),
         NEW fresh, c.cap = "core.create" => ~Exists(s, fresh),
         NEW id, NEW e \in Outcome(s, c, fresh, id)
  PROVE  Fits(s, e)
<1>1. Admitted(s, c)
  BY DEF Outcome
<1>2. PICK body \in Handler(s, c, fresh) :
        e = [id |-> id, by |-> c.by, cap |-> c.cap,
             entity |-> body.entity, value |-> body.value, ts |-> Stamp(s, c.by)]
  BY <1>1 DEF Outcome
<1>3. e.cap = c.cap /\ e.entity = body.entity /\ e.value = body.value
  BY <1>2
<1>4. CASE c.cap = "core.create"
  <2>1. body = [entity |-> fresh, value |-> NewBlock(c)]
    BY <1>4 DEF Handler, HandleCreate, Emit
  <2>2. NewBlock(c).children = {}
    BY DEF NewBlock
  <2> QED BY <1>3, <1>4, <2>1, <2>2 DEF Fits
<1>5. CASE c.cap = "core.link"
  <2>1. /\ body = [entity |-> c.block, value |-> [children |-> Linked(s, c)]]
        /\ c.arg.target \notin Kids(s, c.block)
    BY <1>5 DEF Handler, HandleLink, Only, Emit
  <2>2. c.arg.target \in Block
    BY <1>5 DEF IsCommand
  <2>3. c.block \notin Downstream(s, c.arg.target)
    BY <1>1, <1>5 DEF Admitted, NoCycle
  <2> QED BY <1>3, <1>5, <2>1, <2>2, <2>3 DEF Fits, Linked
<1>6. CASE c.cap = "core.unlink"
  <2>1. body = [entity |-> c.block,
                value |-> [children |-> Kids(s, c.block) \ {c.arg.target}]]
    BY <1>6 DEF Handler, HandleUnlink, Emit
  <2>2. c.arg.target \in Block
    BY <1>6 DEF IsCommand
  <2> QED BY <1>3, <1>6, <2>1, <2>2 DEF Fits
<1> QED BY <1>3, <1>4, <1>5, <1>6 DEF Fits

(***************************************************************************)
(* An event brings no other block into being than the one it is about.     *)
(***************************************************************************)
LEMMA ApplyExists ==
  ASSUME NEW s \in State, NEW e \in Event, NEW b \in Block,
         Exists(Apply(s, e), b)
  PROVE  Exists(s, b) \/ e.entity = b
<1> SUFFICES ASSUME ~Exists(s, b), e.entity # b PROVE FALSE
  OBVIOUS
<1> DEFINE t == Tick(s, e.ts)
<1>1. t \in State /\ ~Exists(t, b)
  <2>1. e.ts \in Clock
    BY DEF Event
  <2> QED BY <2>1, TickType, TickGraph
<1> HIDE DEF t
<1>2. Apply(s, e).blocks[b] = t.blocks[b]
  <2>1. CASE e.cap = "core.create"
    <3>1. Apply(s, e) = PutBlock(t, e.entity, e.value)
      BY <2>1 DEF Apply, t
    <3> QED BY <1>1, <3>1 DEF PutBlock, State
  <2>2. CASE e.cap = "core.write"
    <3>1. Apply(s, e) = Rename(t, e.entity, e.value.name)
      BY <2>2 DEF Apply, t
    <3> QED BY <1>1, <3>1 DEF Rename, State
  <2>3. CASE e.cap \in {"document.write", "task.write"}
    <3>1. Apply(s, e) = WriteContents(t, e.entity, e.value.contents)
      BY <2>3 DEF Apply, t
    <3> QED BY <1>1, <3>1 DEF WriteContents, State
  <2>4. CASE e.cap = "core.link"
    <3>1. Apply(s, e) = Relink(t, e.entity, e.value.children)
      BY <2>4 DEF Apply, t
    <3> QED BY <1>1, <3>1 DEF Relink, State
  <2>5. CASE e.cap = "core.unlink"
    <3>1. Apply(s, e) = Unlink(t, e.entity, e.value.children)
      BY <2>5 DEF Apply, t
    <3> QED BY <1>1, <3>1 DEF Unlink, State
  <2>6. CASE e.cap = "core.delete"
    <3>1. Apply(s, e) = DeleteBlock(t, e.entity)
      BY <2>6 DEF Apply, t
    <3> QED BY <1>1, <3>1 DEF DeleteBlock, State
  <2>7. CASE e.cap \in {"core.grant", "core.revoke", "editor.create", "editor.delete"}
    <3>1. Apply(s, e) \in {AddGrant(t, e.value), RemoveGrant(t, e.value),
                           PutEditor(t, e.value.editor), DeleteEditor(t, e.entity)}
      BY <2>7 DEF Apply, t
    <3> QED BY <1>1, <3>1 DEF AddGrant, RemoveGrant, PutEditor, DeleteEditor, State
  <2>8. CASE e.cap \in {"document.read", "task.read", "task.commit",
                        "session.append", "session.read"}
    BY <2>8 DEF Apply, t
  <2>9. e.cap \in Capability
    BY DEF Event
  <2> QED BY <2>1, <2>2, <2>3, <2>4, <2>5, <2>6, <2>7, <2>8, <2>9 DEF Capability
<1> QED BY <1>1, <1>2 DEF Exists

(***************************************************************************)
(* A block that is there after an event was created by it, or was there    *)
(* before under the same owner and not deleted by it.                      *)
(***************************************************************************)
LEMMA ApplyOwner ==
  ASSUME NEW s \in State, NEW e \in Event, NEW b \in Block, Exists(Apply(s, e), b)
  PROVE  \/ /\ e.cap = "core.create" /\ e.entity = b
            /\ Apply(s, e).blocks[b].owner = e.value.owner
         \/ /\ ~(e.cap = "core.delete" /\ e.entity = b)
            /\ Exists(s, b) /\ Apply(s, e).blocks[b].owner = s.blocks[b].owner
<1> DEFINE t == Tick(s, e.ts)
<1>1. t \in State /\ t.blocks = s.blocks
  <2>1. e.ts \in Clock
    BY DEF Event
  <2> QED BY <2>1, TickType DEF Tick, State
<1> HIDE DEF t
<1>2. t.blocks \in [Block -> BlockRec \cup {None}]
  BY <1>1, StateFields
<1>3. CASE e.cap = "core.create"
  <2>1. Apply(s, e) = PutBlock(t, e.entity, e.value) /\ e.entity \in Block
    BY <1>3 DEF Apply, t, Event, EntitiesOf
  <2>2. Apply(s, e).blocks = [t.blocks EXCEPT ![e.entity] = e.value]
    BY <2>1 DEF PutBlock
  <2>3. e.cap # "core.delete"
    BY <1>3
  <2> QED BY <1>1, <1>2, <1>3, <2>1, <2>2, <2>3 DEF Exists
<1>4. CASE e.cap = "core.delete"
  <2>1. Apply(s, e) = DeleteBlock(t, e.entity)
    BY <1>4 DEF Apply, t
  <2>2. e.entity # b /\ Exists(t, b)
        /\ Apply(s, e).blocks[b] \in {t.blocks[b],
                                      [t.blocks[b] EXCEPT !.children = @ \ {e.entity}]}
    BY <2>1 DEF DeleteBlock, Exists
  <2>3. t.blocks[b] \in BlockRec
    BY <1>2, <2>2 DEF Exists
  <2>4. Apply(s, e).blocks[b].owner = t.blocks[b].owner
    BY <2>2, <2>3 DEF BlockRec
  <2> QED BY <1>1, <1>4, <2>2, <2>4 DEF Exists
<1>5. CASE e.cap \notin {"core.create", "core.delete"}
  <2>1. Apply(s, e) \in {Rename(t, e.entity, e.value.name),
                         WriteContents(t, e.entity, e.value.contents),
                         Relink(t, e.entity, e.value.children),
                         Unlink(t, e.entity, e.value.children),
                         AddGrant(t, e.value),
                         RemoveGrant(t, e.value), PutEditor(t, e.value.editor),
                         DeleteEditor(t, e.entity), t}
    BY <1>5, Zenon DEF Apply, t
  <2>2. Exists(t, b)
    <3> SUFFICES ASSUME t.blocks[b] = None PROVE FALSE
      BY DEF Exists
    <3>1. CASE Apply(s, e) \in {Rename(t, e.entity, e.value.name),
                               WriteContents(t, e.entity, e.value.contents)}
      BY <1>1, <1>2, <3>1 DEF Rename, WriteContents, State, Exists
    <3>2. CASE Apply(s, e) \in {Relink(t, e.entity, e.value.children),
                               Unlink(t, e.entity, e.value.children)}
      BY <1>1, <1>2, <3>2 DEF Relink, Unlink, State, Exists
    <3>3. CASE Apply(s, e) \in {AddGrant(t, e.value), RemoveGrant(t, e.value),
                               PutEditor(t, e.value.editor),
                               DeleteEditor(t, e.entity), t}
      BY <1>1, <3>3 DEF AddGrant, RemoveGrant, PutEditor, DeleteEditor, State, Exists
    <3> QED BY <2>1, <3>1, <3>2, <3>3
  <2>3. t.blocks[b] \in BlockRec
    BY <1>2, <2>2 DEF Exists
  <2> DEFINE u == Apply(s, e)
  <2>4. u.blocks[b].owner = t.blocks[b].owner
    <3>1. CASE u = Rename(t, e.entity, e.value.name)
      BY <1>1, <1>2, <2>3, <3>1 DEF Rename, State, BlockRec
    <3>2. CASE u = WriteContents(t, e.entity, e.value.contents)
      BY <1>1, <1>2, <2>3, <3>2 DEF WriteContents, State, BlockRec
    <3>3. CASE u = Relink(t, e.entity, e.value.children)
      BY <1>1, <1>2, <2>3, <3>3 DEF Relink, State, BlockRec
    <3>4. CASE u = Unlink(t, e.entity, e.value.children)
      BY <1>1, <1>2, <2>3, <3>4 DEF Unlink, State, BlockRec
    <3>5. CASE u \in {AddGrant(t, e.value), RemoveGrant(t, e.value),
                      PutEditor(t, e.value.editor), DeleteEditor(t, e.entity), t}
      BY <1>1, <3>5 DEF AddGrant, RemoveGrant, PutEditor, DeleteEditor, State
    <3> QED BY <2>1, <3>1, <3>2, <3>3, <3>4, <3>5
  <2> QED BY <1>1, <1>5, <2>2, <2>4 DEF Exists
<1> QED BY <1>3, <1>4, <1>5
=============================================================================
