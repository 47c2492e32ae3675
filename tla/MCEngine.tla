------------------------------ MODULE MCEngine ------------------------------
(***************************************************************************)
(* Small instances of Engine for TLC: menus of commands, registries and    *)
(* the symmetry of the block ids.                                          *)
(***************************************************************************)
EXTENDS EngineProperties, TLC

CONSTANTS sys, ann, bob,      \* editors
          b1, b2, b3,         \* blocks
          x, y,               \* texts
          a1, a2              \* actors

Blank == [f \in Field |-> None]

Cmd(by, cap, block, arg) == [by |-> by, cap |-> cap, block |-> block, arg |-> arg]

Create(by, type, contents) ==
    Cmd(by, "core.create", None, [name |-> x, type |-> type, contents |-> contents])

Write(by, b, f) ==
    Cmd(by, "task.write", b, [patch |-> [Blank EXCEPT ![f] = x]])

-----------------------------------------------------------------------------
(* The link graph: one editor, every link and unlink, dangling ones too.   *)

GraphCaps == {"core.create", "core.link", "core.unlink", "core.delete"}

GraphOrders == {<<"core.delete", "core.unlink", "core.link", "core.create">>}

GraphMenu ==
    {Create(sys, "task", Blank)}
    \cup {Cmd(sys, cap, b, [target |-> t]) :
            cap \in {"core.link", "core.unlink"}, b \in Block, t \in Block}
    \cup {Cmd(sys, "core.delete", b, None) : b \in Block}

-----------------------------------------------------------------------------
(* Grants: two editors besides the system, block and wildcard grants,      *)
(* revocation, deletion of the editor and of the block, and the writing    *)
(* granted.                                                                *)

AuthCaps == {"core.create", "core.delete", "core.grant", "core.revoke",
             "task.write", "editor.delete"}

AuthOrders == {<<"core.revoke", "task.write", "editor.delete", "core.create",
                 "core.delete", "core.grant">>}

AuthMenu ==
    {Cmd(sys, "core.grant", Wild, [editor |-> ann, cap |-> "core.create"]),
     Create(ann, "task", [Blank EXCEPT !["content"] = x]),
     Cmd(sys, "editor.delete", None, [editor |-> bob])}
    \cup {Cmd(ann, "core.delete", b, None) : b \in Block}
    \cup {Cmd(ann, cap, b, [editor |-> e, cap |-> "task.write"]) :
            cap \in {"core.grant", "core.revoke"}, b \in Block, e \in {bob, Wild}}
    \cup {Write(bob, b, "status") : b \in Block}

-----------------------------------------------------------------------------
(* Just enough to tell a stale state from a fresh one.                     *)

SmallCaps   == {"core.create", "core.link"}
SmallOrders == {<<"core.create", "core.link">>, <<"core.link", "core.create">>}
SmallMenu   == {Create(sys, "task", Blank)}
               \cup {Cmd(sys, "core.link", b1, [target |-> t]) : t \in {b2, b3}}

-----------------------------------------------------------------------------
(* Two actors on one store: what each misses of the other's events.        *)

SharedCaps   == {"core.create", "task.write"}
SharedOrders == {<<"core.create", "task.write">>}
SharedMenu   ==
    {Create(sys, "task", Blank)}
    \cup {Write(sys, b, "status") : b \in Block}

BlockSymmetry == Permutations(Block)
=============================================================================
