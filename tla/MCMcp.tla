------------------------------- MODULE MCMcp -------------------------------
(* Small instances of McpServer for TLC. *)
EXTENDS McpProperties, TLC

CONSTANTS c1, c2, s1, s2, s3, ann, bob, p, q, b1

Caps == {"core.create", "core.delete", "core.write", "core.link", "core.unlink",
         "core.grant", "core.revoke", "editor.create", "editor.delete",
         "document.write"}

\* s1 and s2 are two requests of one connection, s3 is the other's.
Owner == [s \in Slot |-> IF s = s3 THEN c2 ELSE c1]

\* The path of p begins the text of q's, as /work/a begins /work/a-notes.
Within == {<<p, p>>, <<q, q>>, <<p, q>>}

Ask1(tool, path, block, arg) ==
    [tool |-> tool, project |-> path, block |-> block, arg |-> arg]

Auth(e)     == Ask1("elfiee_auth", None, None, e)
Open(path)  == Ask1("elfiee_open", path, None, None)
Close(path) == Ask1("elfiee_close", path, None, None)
Delete      == Ask1("elfiee_block_delete", p, b1, None)
Write       == Ask1("elfiee_exec", p, b1, "document.write")
ListBlocks  == Ask1("elfiee_block_list", p, None, None)
Get(tool)   == Ask1(tool, p, b1, None)
Uri(path, kind) == Ask1("read_resource", path, b1, kind)

\* One agent makes every kind of request, two at a time; the other works on the
\* same project.
Everything ==
    {Auth(ann), Open(p), Open(q), Close(p), Write, ListBlocks,
     Get("elfiee_block_get"), Get("elfiee_block_history"), Get("elfiee_state_at_event"),
     Ask1("list_resources", None, None, None),
     Uri(q, "blocks"), Uri(q, "events"), Uri(p, "my-tasks"), Uri(p, "block")}

TwoAgents == [n \in Conn |-> IF n = c1 THEN Everything ELSE {Auth(bob), Delete}]

Symmetry == Permutations({s1, s2})
=============================================================================
