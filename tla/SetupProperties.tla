-------------------------- MODULE SetupProperties --------------------------
(* What holds of projects however they were initialised and opened. *)
EXTENDS ProjectSetup

\* A directory that neither init nor open accepts, for want of a store or for a
\* config.toml that does not parse, has somebody at exactly that step, or who
\* failed or was killed there: no order of commands makes one, and nothing that
\* goes wrong at any other step does.
NotStuck == /\ elf /\ ~store => Unfinished("store")
            /\ toml = "torn" => Unfinished("toml")

\* Whoever opens a project and then may not act as its system editor, found the
\* seed cut short or still being written, or found one for another id, which
\* get_system_editor_id had given out: a complete seed of one's own id is always
\* enough, also with commands seeding the same project at a time.
SystemMayAct == \A p \in Process : job[p].result = "not_authorized" =>
    \/ job[p].short
    \/ \E row \in job[p].seen : row.id \in names \ {job[p].id}
=============================================================================
