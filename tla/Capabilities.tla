---------------------------- MODULE Capabilities ----------------------------
(***************************************************************************)
(* From a command to the event it commits: registry, certificator, cycle   *)
(* check and handlers (src/capabilities, src/extensions, and the checks    *)
(* process_command makes in src/engine/actor.rs).                          *)
(*                                                                         *)
(* A command is [by, cap, block, arg].  The block is None for the          *)
(* capabilities that take none; arg is the payload with the keys the       *)
(* handler reads, None when it reads none.                                 *)
(***************************************************************************)
EXTENDS Projection

CONSTANT Registered    \* the capabilities the registry holds

ASSUME RegisteredAssumption == Registered \subseteq Capability

\* The fields a payload sets.
Given(patch) == {f \in Field : patch[f] # None}

(***************************************************************************)
(* Commands as the service layer builds them.                              *)
(***************************************************************************)
IsCommand(c) ==
    /\ c.by \in Editor
    /\ CASE c.cap = "core.create" ->
              /\ c.block = None
              /\ c.arg \in [name: Text, type: BlockType, contents: Contents]
         [] c.cap = "core.write" ->
              c.block \in Block /\ c.arg \in [name: Text]
         [] c.cap = "document.write" ->
              /\ c.block \in Block
              /\ c.arg \in [patch: {p \in Contents : Given(p) = {"content"}}]
         [] c.cap = "task.write" ->
              /\ c.block \in Block
              /\ c.arg \in [patch: {p \in Contents : "content" \notin Given(p)}]
         [] c.cap \in {"core.link", "core.unlink"} ->
              c.block \in Block /\ c.arg \in [target: Block]
         [] c.cap \in {"core.grant", "core.revoke"} ->
              /\ c.block \in Block \cup {Wild}
              /\ c.arg \in [editor: Editor \cup {Wild}, cap: Capability]
         [] c.cap \in {"editor.create", "editor.delete"} ->
              c.block = None /\ c.arg \in [editor: Editor]
         [] c.cap = "session.append" ->
              c.block \in Block /\ c.arg \in [entry: Text]
         [] c.cap \in {"core.delete", "task.commit", "document.read", "task.read",
                       "session.read"} ->
              c.block \in Block /\ c.arg = None
         [] OTHER -> c.block = None /\ c.arg = None

-----------------------------------------------------------------------------
\* Capabilities that act on the system: no block is looked up.
SystemLevel == {"core.create", "editor.create", "editor.delete"}

NoTarget(c) ==
    \/ c.cap \in SystemLevel
    \/ c.cap \in {"core.grant", "core.revoke"} /\ c.block = Wild

HasGrant(s, ed, cap, block) ==
    \E g \in s.grants : /\ g.editor \in {ed, Wild}
                        /\ g.cap = cap
                        /\ g.block \in {block, Wild}

\* Owner or grant on the block; a wildcard grant when there is no block.
Certified(s, c) ==
    IF NoTarget(c)
    THEN HasGrant(s, c.by, c.cap, Wild)
    ELSE /\ Exists(s, c.block)
         /\ \/ s.blocks[c.block].owner = c.by
            \/ HasGrant(s, c.by, c.cap, c.block)

\* Mutant of NoCycle: only a link of a block to itself is refused.
NoCycle_SelfOnly(s, c) == c.cap = "core.link" => c.block # c.arg.target

\* check_link_cycle: the search from the target must not meet the source.
NoCycle(s, c) ==
    c.cap = "core.link" => c.block \notin Downstream(s, c.arg.target)

Admitted(s, c) ==
    c.cap \in Registered /\ Certified(s, c) /\ NoCycle(s, c)

-----------------------------------------------------------------------------
(***************************************************************************)
(* The handlers.  A handler returns the entity and the value of its event; *)
(* the empty set is an error or, for the read capabilities, no event.      *)
(***************************************************************************)

Emit(entity, value) == {[entity |-> entity, value |-> value]}

Only(guard, bodies) == IF guard THEN bodies ELSE {}

HasType(s, b, type) == s.blocks[b].type = type

\* Mutant of NewBlock: nobody owns the new block.
NewBlock_NoOwner(c) == [owner    |-> None,
                        name     |-> c.arg.name,
                        type     |-> c.arg.type,
                        contents |-> c.arg.contents,
                        children |-> {}]

\* The block a client asked for, owned by its creator, with no children yet.
NewBlock(c) == [owner    |-> c.by,
                name     |-> c.arg.name,
                type     |-> c.arg.type,
                contents |-> c.arg.contents,
                children |-> {}]

\* fresh is the uuid the handler draws.
HandleCreate(c, fresh) == Emit(fresh, NewBlock(c))

HandleWrite(c) == Emit(c.block, c.arg)

\* Mutant of Linked: the new target takes the place of the others.
Linked_Replaces(s, c) == {c.arg.target}

\* The children map a link event carries: the whole map the handler saw.
Linked(s, c) == Kids(s, c.block) \cup {c.arg.target}

\* A duplicate is refused.
HandleLink(s, c) ==
    Only(c.arg.target \notin Kids(s, c.block),
         Emit(c.block, [children |-> Linked(s, c)]))

\* An event even when there is nothing to unlink.
HandleUnlink(s, c) ==
    Emit(c.block, [children |-> Kids(s, c.block) \ {c.arg.target}])

HandleDelete(c) == Emit(c.block, None)

GrantOf(c) == [editor |-> c.arg.editor, cap |-> c.arg.cap, block |-> c.block]

HandleGrant(c)  == Emit(c.block, GrantOf(c))
HandleRevoke(c) == Emit(c.block, GrantOf(c))

\* The id is the payload's; one drawn by the handler is an unused Editor.
HandleEditorCreate(c) == Emit(c.arg.editor, c.arg)

HandleEditorDelete(c) == Emit(c.arg.editor, None)

\* Mutant of Merged: the event carries the payload only.
Merged_PatchOnly(s, c) == c.arg.patch

\* The contents a write event carries: the whole block as the handler saw it,
\* with the fields of the payload put in.
Merged(s, c) == Overlay(s.blocks[c.block].contents, c.arg.patch)

HandleDocumentWrite(s, c) ==
    Only(HasType(s, c.block, "document"),
         Emit(c.block, [contents |-> Merged(s, c)]))

HandleTaskWrite(s, c) ==
    Only(HasType(s, c.block, "task") /\ Given(c.arg.patch) # {},
         Emit(c.block, [contents |-> Merged(s, c)]))

\* An audit event, for a task that something implements.
HandleTaskCommit(s, c) ==
    Only(HasType(s, c.block, "task") /\ Kids(s, c.block) # {},
         Emit(c.block, [downstream |-> Kids(s, c.block)]))

\* Of all handlers on a typed block the only one that does not look at the type.
HandleSessionAppend(c) == Emit(c.block, c.arg)

\* The dispatch; document.read, task.read and session.read emit nothing.
Handler(s, c, fresh) ==
    CASE c.cap = "core.create"    -> HandleCreate(c, fresh)
      [] c.cap = "core.write"     -> HandleWrite(c)
      [] c.cap = "core.link"      -> HandleLink(s, c)
      [] c.cap = "core.unlink"    -> HandleUnlink(s, c)
      [] c.cap = "core.delete"    -> HandleDelete(c)
      [] c.cap = "core.grant"     -> HandleGrant(c)
      [] c.cap = "core.revoke"    -> HandleRevoke(c)
      [] c.cap = "editor.create"  -> HandleEditorCreate(c)
      [] c.cap = "editor.delete"  -> HandleEditorDelete(c)
      [] c.cap = "document.write" -> HandleDocumentWrite(s, c)
      [] c.cap = "task.write"     -> HandleTaskWrite(s, c)
      [] c.cap = "task.commit"    -> HandleTaskCommit(s, c)
      [] c.cap = "session.append" -> HandleSessionAppend(c)
      [] OTHER                    -> {}

\* Mutant of Stamp: only the caller's entry, as create_event leaves it.
Stamp_OwnEntryOnly(s, ed) ==
    [e \in Editor |-> IF e = ed THEN s.counts[ed] + 1 ELSE 0]

\* The clock of the state with the caller's own entry one higher.
Stamp(s, ed) == [s.counts EXCEPT ![ed] = @ + 1]

\* The events, at most one, that command c commits against state s.
Outcome(s, c, fresh, id) ==
    IF Admitted(s, c)
    THEN {[id |-> id, by |-> c.by, cap |-> c.cap,
           entity |-> body.entity, value |-> body.value, ts |-> Stamp(s, c.by)] :
             body \in Handler(s, c, fresh)}
    ELSE {}
=============================================================================
