----------------------------- MODULE Projection -----------------------------
(***************************************************************************)
(* The state an Elfiee engine serves, and how one event of the log changes *)
(* it (src/engine/state.rs, src/capabilities/grants.rs).                   *)
(*                                                                         *)
(* The Rust StateProjector is five hash maps.  Here it is one record of    *)
(* total functions: None is "no such key", the empty set is "no entry".    *)
(* Lists whose order no operation depends on are sets.  An event's JSON    *)
(* value is a record with the keys the capability writes; None is {}.      *)
(* This module has no variables: Engine keeps a State per actor.           *)
(***************************************************************************)
EXTENDS Integers, Sequences

CONSTANTS Editor,   \* editor ids
          Block,    \* block ids
          Text,     \* names, contents, entries: payloads nobody looks into
          Wild,     \* the wildcard "*" of grants
          None      \* an absent key, an absent block, an empty payload

ASSUME WildAssumption == Wild \notin Editor \cup Block
ASSUME NoneAssumption == None \notin Editor \cup Block \cup Text \cup {Wild} \cup Nat
ASSUME IdsAssumption  == Editor \cap Block = {}

(***************************************************************************)
(* Every capability some handler of the registry carries.                  *)
(***************************************************************************)
Capability ==
    {"core.create", "core.write", "core.link", "core.unlink", "core.delete",
     "core.grant", "core.revoke", "editor.create", "editor.delete",
     "document.write", "document.read", "task.write", "task.read",
     "task.commit", "session.append", "session.read"}

BlockType == {"document", "task", "session"}

(***************************************************************************)
(* The keys of a block's contents.  "status" and "assigned_to" stand for   *)
(* the four task fields, "content" for the text of a document.             *)
(***************************************************************************)
Field    == {"content", "status", "assigned_to"}
Contents == [Field -> Text \cup {None}]

BlockRec == [owner: Editor, name: Text, type: BlockType,
             contents: Contents, children: SUBSET Block]

ASSUME NoBlockAssumption == None \notin BlockRec

Grant == [editor: Editor \cup {Wild}, cap: Capability, block: Block \cup {Wild}]

Clock == [Editor -> Nat]

State == [blocks:  [Block -> BlockRec \cup {None}],
          editors: SUBSET Editor,
          grants:  SUBSET Grant,
          counts:  Clock,
          parents: [Block -> SUBSET Block]]

\* The values the handler of a capability may write into its event.
ValuesOf(cap) ==
    CASE cap = "core.create"                        -> BlockRec
      [] cap = "core.write"                         -> [name: Text]
      [] cap \in {"document.write", "task.write"}   -> [contents: Contents]
      [] cap \in {"core.link", "core.unlink"}       -> [children: SUBSET Block]
      [] cap \in {"core.grant", "core.revoke"}      -> Grant
      [] cap = "editor.create"                      -> [editor: Editor]
      [] cap = "task.commit"                        -> [downstream: SUBSET Block]
      [] cap = "session.append"                     -> [entry: Text]
      [] OTHER                                      -> {None}

\* The things an event of a capability is about.
EntitiesOf(cap) ==
    CASE cap \in {"core.grant", "core.revoke"}       -> Block \cup {Wild}
      [] cap \in {"editor.create", "editor.delete"}  -> Editor
      [] OTHER                                       -> Block

Value == BlockRec \cup [name: Text] \cup [contents: Contents]
           \cup [children: SUBSET Block] \cup Grant \cup [editor: Editor]
           \cup [downstream: SUBSET Block] \cup [entry: Text] \cup {None}

\* The id is the event's uuid, ts its vector clock (0: no entry), by and cap
\* the two halves of its attribute.
Event ==
    {e \in [id: Nat, by: Editor, cap: Capability,
            entity: Editor \cup Block \cup {Wild}, value: Value, ts: Clock] :
        e.entity \in EntitiesOf(e.cap) /\ e.value \in ValuesOf(e.cap)}

-----------------------------------------------------------------------------
Empty == [blocks  |-> [b \in Block |-> None],
          editors |-> {},
          grants  |-> {},
          counts  |-> [ed \in Editor |-> 0],
          parents |-> [b \in Block |-> {}]]

Exists(s, b) == s.blocks[b] # None

\* The children a block has in the implement relation.
Kids(s, b) == IF Exists(s, b) THEN s.blocks[b].children ELSE {}

-----------------------------------------------------------------------------
(***************************************************************************)
(* The effect of an event on the state, one operator per arm of            *)
(* StateProjector::apply_event.                                            *)
(***************************************************************************)

\* The editor counts rise to the event's vector clock, key by key.
Tick(s, ts) ==
    [s EXCEPT !.counts =
        [ed \in Editor |-> IF ts[ed] > s.counts[ed] THEN ts[ed] ELSE s.counts[ed]]]

\* core.create: insert the block and enter it as parent of its children.
PutBlock(s, b, rec) ==
    [s EXCEPT !.blocks  = [s.blocks EXCEPT ![b] = rec],
              !.parents = [c \in Block |-> IF c \in rec.children
                                           THEN s.parents[c] \cup {b}
                                           ELSE s.parents[c]]]

\* core.write: the structural fields of an existing block.
Rename(s, b, name) ==
    IF Exists(s, b) THEN [s EXCEPT !.blocks[b].name = name] ELSE s

Overlay(old, new) ==
    [f \in Field |-> IF new[f] = None THEN old[f] ELSE new[f]]

\* document.write and task.write: each key present in the value is inserted.
WriteContents(s, b, contents) ==
    IF Exists(s, b)
    THEN [s EXCEPT !.blocks[b].contents = Overlay(s.blocks[b].contents, contents)]
    ELSE s

\* Removing b from the parents of every block of gone.
DropParent(parents, b, gone) ==
    [c \in Block |-> IF c \in gone THEN parents[c] \ {b} ELSE parents[c]]

\* core.link: the value is the whole children map; the reverse index follows
\* the difference between the old map and the new one, in both directions.
Relink(s, b, kids) ==
    IF Exists(s, b)
    THEN [s EXCEPT !.blocks = [@ EXCEPT ![b].children = kids],
                   !.parents =
                      [c \in Block |->
                         CASE c \in kids \ Kids(s, b) -> s.parents[c] \cup {b}
                           [] c \in Kids(s, b) \ kids -> s.parents[c] \ {b}
                           [] OTHER                   -> s.parents[c]]]
    ELSE s

\* core.unlink: as core.link, but the index only ever loses entries.
Unlink(s, b, kids) ==
    IF Exists(s, b)
    THEN [s EXCEPT !.blocks = [@ EXCEPT ![b].children = kids],
                   !.parents = DropParent(s.parents, b, Kids(s, b) \ kids)]
    ELSE s

\* Mutant of DeleteBlock: the reverse direction is forgotten, the block stays
\* in its parents' children.
DeleteBlock_ForwardOnly(s, b) ==
    LET forward == DropParent(s.parents, b, Kids(s, b))
    IN  [s EXCEPT !.parents = [forward EXCEPT ![b] = {}],
                  !.blocks  = [s.blocks EXCEPT ![b] = None]]

\* core.delete: b leaves its children's parents, then the children of the
\* blocks the index names as its parents, then the map.
DeleteBlock(s, b) ==
    LET forward == DropParent(s.parents, b, Kids(s, b))
    IN  [s EXCEPT
           !.parents = [forward EXCEPT ![b] = {}],
           !.blocks  = [p \in Block |->
                          CASE p = b -> None
                            [] p # b /\ p \in forward[b] /\ Exists(s, p) ->
                                 [s.blocks[p] EXCEPT !.children = @ \ {b}]
                            [] OTHER -> s.blocks[p]]]

\* core.grant and core.revoke: GrantsTable::process_event.
AddGrant(s, g)    == [s EXCEPT !.grants = @ \cup {g}]
RemoveGrant(s, g) == [s EXCEPT !.grants = @ \ {g}]

\* editor.create: create or replace.
PutEditor(s, ed) == [s EXCEPT !.editors = @ \cup {ed}]

\* Mutant of DeleteEditor: the grants outlive the editor.
DeleteEditor_KeepsGrants(s, ed) == [s EXCEPT !.editors = @ \ {ed}]

\* editor.delete takes the editor and every grant made to it.
DeleteEditor(s, ed) ==
    [s EXCEPT !.editors = @ \ {ed},
              !.grants  = {g \in s.grants : g.editor # ed}]

\* Capabilities without an arm (task.commit, and session.append, whose name
\* matches none of the suffixes) only move the clock.
Apply(s, e) ==
    LET t == Tick(s, e.ts)
    IN  CASE e.cap = "core.create"    -> PutBlock(t, e.entity, e.value)
          [] e.cap = "core.write"     -> Rename(t, e.entity, e.value.name)
          [] e.cap \in {"document.write", "task.write"}
                                      -> WriteContents(t, e.entity, e.value.contents)
          [] e.cap = "core.link"      -> Relink(t, e.entity, e.value.children)
          [] e.cap = "core.unlink"    -> Unlink(t, e.entity, e.value.children)
          [] e.cap = "core.delete"    -> DeleteBlock(t, e.entity)
          [] e.cap = "core.grant"     -> AddGrant(t, e.value)
          [] e.cap = "core.revoke"    -> RemoveGrant(t, e.value)
          [] e.cap = "editor.create"  -> PutEditor(t, e.value.editor)
          [] e.cap = "editor.delete"  -> DeleteEditor(t, e.entity)
          [] OTHER                    -> t

(***************************************************************************)
(* Replay of a log from nothing: History(l)[i] is the state after the      *)
(* first i events, Replay(l) the state after all of them.                  *)
(***************************************************************************)
History(l) ==
    LET h[i \in 0..Len(l)] == IF i = 0 THEN Empty ELSE Apply(h[i - 1], l[i])
    IN  h

Replay(l) == History(l)[Len(l)]

-----------------------------------------------------------------------------
(***************************************************************************)
(* The implement relation of a state.                                      *)
(***************************************************************************)

Closed(s, set) == \A b \in set : Kids(s, b) \subseteq set

\* Every block reached from t along children, t included: the least closed
\* set with t in it, written as the intersection of all of them.
Downstream(s, t) ==
    {b \in Block : \A set \in SUBSET Block :
                      t \in set /\ Closed(s, set) => b \in set}

\* The reverse index says who lists a block as a child, no more and no less.
ParentsMirrorChildren(s) ==
    \A p, c \in Block : p \in s.parents[c] <=> c \in Kids(s, p)

\* No block is downstream of one of its own children.
Acyclic(s) == \A b \in Block : \A c \in Kids(s, b) : b \notin Downstream(s, c)

(***************************************************************************)
(* What the checks in front of a commit see to: an event made from s may   *)
(* put a block where there is none, add one link that closes no cycle, or  *)
(* take away at most one.                                                  *)
(***************************************************************************)
Fits(s, e) ==
    /\ e.cap = "core.create" => ~Exists(s, e.entity) /\ e.value.children = {}
    /\ e.cap = "core.link" =>
         \E c \in Block \ Kids(s, e.entity) :
            /\ e.value.children = Kids(s, e.entity) \cup {c}
            /\ e.entity \notin Downstream(s, c)
    /\ e.cap = "core.unlink" =>
         \E c \in Block : e.value.children = Kids(s, e.entity) \ {c}
=============================================================================
