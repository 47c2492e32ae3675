---------------------------- MODULE MCServices ----------------------------
(* Small instances of Services for TLC. *)
EXTENDS ServiceProperties, TLC

CONSTANTS sys, ann, bob, b1, b2, x, y

Ev(id, by, cap, entity, value) ==
    [id |-> id, by |-> by, cap |-> cap, entity |-> entity, value |-> value,
     ts |-> [e \in Editor |-> IF e = by THEN id ELSE 0]]

May(e, cap) == [editor |-> e, cap |-> cap, block |-> Wild]

Document == [owner |-> ann, name |-> x, type |-> "document", contents |-> Blank,
             children |-> {}]

\* A project with its system editor and some of its grants, and one who may
\* create and has created.
SeedLog ==
    <<Ev(1, sys, "editor.create", sys, [editor |-> sys]),
      Ev(2, sys, "core.grant", Wild, May(sys, "core.revoke")),
      Ev(3, sys, "core.grant", Wild, May(sys, "editor.delete")),
      Ev(4, sys, "core.grant", Wild, May(ann, "core.create")),
      Ev(5, ann, "core.create", b1, Document)>>

Caps == {"core.create", "core.write", "core.delete", "core.grant", "core.revoke",
         "editor.create", "editor.delete", "document.write", "document.read", "task.read",
         "task.write", "task.commit", "session.append", "session.read"}

\* What other editors commit meanwhile.
Meanwhile ==
    {GrantPermission(ann, e, "document.read", b1) : e \in {bob, Wild}}
    \cup {GrantPermission(ann, bob, "document.write", b1),
          RevokePermission(ann, bob, "document.read", b1),
          RevokePermission(sys, ann, "core.create", Wild),
          WriteDocument(ann, b1, x), CreateEditor(sys, bob), RemoveEditor(sys, bob),
          WriteTask(ann, b2, "status", x), CommitTask(ann, b2),
          AppendSession(ann, b1, x)}
    \cup {Command(ann, "core.delete", b, None) : b \in Block}

Call(op, by, b) == [op |-> op, by |-> by, block |-> b,
                    arg |-> [name |-> x, description |-> y]]

\* Ann owns b1; bob reads what he is granted.
Everything ==
    {Call(op, bob, b1) : op \in BlockReads \cup {"list_blocks", "list_events",
                                               "get_state_at_event"}}
    \cup {Call(op, ann, b1) : op \in {"list_blocks", "list_grants", "create_task",
                                     "list_editors", "get_editor",
                                     "get_editor_grants", "get_block_grants"}}
=============================================================================
