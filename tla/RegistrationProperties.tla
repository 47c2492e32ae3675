----------------------- MODULE RegistrationProperties -----------------------
(* What registering and unregistering agents guarantees. *)
EXTENDS AgentRegistration

Complete(e) == Range(role[e].grants) \subseteq granted[e]

\* A configuration never sends an agent to work as an editor that lacks grants
\* of its role: a registration that fails half way leaves an editor, but no
\* file that names it.
NamedIsComplete == \A d \in Dir : LET e == settings[d].ours IN
                      e \in editors => Complete(e)

\* The server of elf run is up only when every role of the template has an
\* editor with all its grants, or had one that was unregistered since.
TeamIsComplete == \A p \in Process : job[p].at = "serving" =>
    /\ job[p].roles = <<>>
    /\ \A e \in job[p].team : e \in editors => Complete(e)

\* Once unregister is done with an editor and a directory, the editor is not
\* there again and the directory does not name it again, whatever commands for
\* other editors were at work on the same files.  It is so if the editor's own
\* registration was over when unregister began: one that is still at work goes on
\* to give its grants and to write its entry.
RemovedStays == \A pair \in removed :
    /\ pair[1] \notin editors /\ granted[pair[1]] = {}
    /\ settings[pair[2]].ours # pair[1]

\* An entry of the user's that was in a file at the start, or was saved while no
\* command had read the file and not yet written it, is there as long as no
\* command dies writing the file, however many commands read and write it and in
\* whatever order.  What the settings hold under mcpServers is left out: register
\* deletes it.
UserEntriesKept == \A d \in Dir :
    /\ safe[d].servers \subseteq mcp[d].user
    /\ safe[d].saved \subseteq settings[d].user
=============================================================================
