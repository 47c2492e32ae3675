---------------------------- MODULE ProjectSetup ----------------------------
(***************************************************************************)
(* How a project comes to be, and whose it is: elf init, elf run and every *)
(* command that opens the project, as processes over one project directory *)
(* and one ~/.elf/config.json (src/elf_project, src/config.rs,             *)
(* src/cli/init.rs, src/services/project.rs).                              *)
(*                                                                         *)
(* Existence checks and what follows them are steps of their own, a file   *)
(* is emptied before it is written, and the seed goes in row by row.  Any  *)
(* step may return its error or be the last of a process that is killed.   *)
(***************************************************************************)
EXTENDS Naturals

CONSTANTS None, Torn,
          Process,     \* commands that may run at the same time
          Id,          \* system editor ids; uuids, each generated once
          System,      \* the id used when there is an error with the configuration
          Rows         \* rows of a seed: the editor and its grants

ASSUME IdAssumption  == /\ None \notin Id /\ Torn \notin Id /\ None # Torn
                        /\ System \notin Id \cup {None, Torn}
ASSUME RowAssumption == Rows \in Nat /\ Rows >= 2

VARIABLES
    config,    \* ~/.elf/config.json: absent, torn, or the id in it
    made,      \* ids that were generated
    names,     \* ids get_system_editor_id, or the default for its error, gave out
    elf,       \* the .elf directory is there
    store,     \* eventstore.db is there
    toml,      \* .elf/config.toml: absent, torn or whole
    seeds,     \* rows of the seeds in the event store
    cut,       \* what processes that ended were in the middle of
    job

vars == <<config, made, names, elf, store, toml, seeds, cut, job>>

Idle == [for |-> "none", at |-> "idle", id |-> None, next |-> "idle", row |-> 0,
         seen |-> {}, short |-> FALSE, result |-> "none"]

Goto(p, stage)  == job' = [job EXCEPT ![p].at = stage]
End(p, result)  == job' = [job EXCEPT ![p].at = "idle", ![p].result = result]

\* What the process goes on with when it has the id of the system editor.
NeedId(p, stage) == job' = [job EXCEPT ![p].at = "id", ![p].next = stage]

Answer(p, i) == /\ job' = [job EXCEPT ![p].id = i, ![p].at = job[p].next]
                /\ names' = names \cup {i}

\* What p leaves half done if it ends here, and what is half done now.
Half(p) == CASE job[p].at = "store"                      -> {"store"}
             [] job[p].at = "toml_write"                 -> {"toml"}
             [] job[p].at = "append" /\ job[p].row > 1   -> {"seed"}
             [] OTHER                                    -> {}

Unfinished(what) == what \in cut \/ \E p \in Process : what \in Half(p)

-----------------------------------------------------------------------------
(***************************************************************************)
(* get_system_editor_id.                                                   *)
(***************************************************************************)

\* A file that does not parse is an error, for which callers take "system".
LoadConfig(p) ==
    /\ job[p].at = "id"
    /\ CASE config = Torn  -> Answer(p, System) /\ UNCHANGED made
         [] config \in Id  -> Answer(p, config) /\ UNCHANGED made
         [] config = None  -> \E i \in Id \ made : /\ made' = made \cup {i}
                                                   /\ job' = [job EXCEPT ![p].id = i,
                                                                         ![p].at = "save"]
                                                   /\ UNCHANGED names
    /\ UNCHANGED <<config, elf, store, toml, seeds, cut>>

EmptyConfig(p) ==
    /\ job[p].at = "save"
    /\ config' = Torn
    /\ Goto(p, "save_write")
    /\ UNCHANGED <<made, names, elf, store, toml, seeds, cut>>

SaveConfig(p) ==
    /\ job[p].at = "save_write"
    /\ config' = job[p].id
    /\ Answer(p, job[p].id)
    /\ UNCHANGED <<made, elf, store, toml, seeds, cut>>

\* Any error of reading or saving it: the callers go on as "system".
ConfigFails(p) ==
    /\ job[p].at \in {"id", "save", "save_write"}
    /\ Answer(p, System)
    /\ UNCHANGED <<config, made, elf, store, toml, seeds, cut>>

-----------------------------------------------------------------------------
(***************************************************************************)
(* elf init.                                                               *)
(***************************************************************************)
Start(p) ==
    /\ job[p].at = "idle"
    /\ \/ job' = [job EXCEPT ![p] = [Idle EXCEPT !.for = "init", !.at = "check"]]
       \/ job' = [job EXCEPT ![p] = [Idle EXCEPT !.for = "open", !.at = "find"]]
       \/ ~elf /\ job' = [job EXCEPT ![p] = [Idle EXCEPT !.for = "run", !.at = "check"]]
    /\ UNCHANGED <<config, made, names, elf, store, toml, seeds, cut>>

CheckAbsent(p) ==
    /\ job[p].at = "check"
    /\ IF elf THEN End(p, "already_exists") ELSE Goto(p, "make")
    /\ UNCHANGED <<config, made, names, elf, store, toml, seeds, cut>>

\* create_dir_all does not mind a directory that is there.  The templates come
\* between this and the store.
MakeDirectory(p) ==
    /\ job[p].at = "make"
    /\ elf' = TRUE
    /\ Goto(p, "store")
    /\ UNCHANGED <<config, made, names, store, toml, seeds, cut>>

\* Mutant of MakeStore: the store is left to the first open.
MakeStore_Later(p) ==
    /\ job[p].at = "store"
    /\ Goto(p, "toml")
    /\ UNCHANGED <<config, made, names, elf, store, toml, seeds, cut>>

MakeStore(p) ==
    /\ job[p].at = "store"
    /\ store' = TRUE
    /\ Goto(p, "toml")
    /\ UNCHANGED <<config, made, names, elf, toml, seeds, cut>>

EmptyProjectConfig(p) ==
    /\ job[p].at = "toml"
    /\ toml' = "torn"
    /\ Goto(p, "toml_write")
    /\ UNCHANGED <<config, made, names, elf, store, seeds, cut>>

SaveProjectConfig(p) ==
    /\ job[p].at = "toml_write"
    /\ toml' = "whole"
    /\ Goto(p, "seed")
    /\ UNCHANGED <<config, made, names, elf, store, seeds, cut>>

-----------------------------------------------------------------------------
(***************************************************************************)
(* open_project.                                                           *)
(***************************************************************************)

\* A config.toml that is not there is written as init does.
Find(p) ==
    /\ job[p].at = "find"
    /\ CASE ~elf                              -> End(p, "no_project")
         [] elf /\ ~store                     -> End(p, "no_store")
         [] elf /\ store /\ toml = "torn"     -> End(p, "bad_config")
         [] elf /\ store /\ toml = "absent"   -> Goto(p, "toml")
         [] OTHER                             -> Goto(p, "seed")
    /\ UNCHANGED <<config, made, names, elf, store, toml, seeds, cut>>

-----------------------------------------------------------------------------
(***************************************************************************)
(* seed_bootstrap_events, in init and in open.                             *)
(***************************************************************************)

\* init goes on with the files, for which it asks for the id again.
AfterSeed(p) == IF job[p].for = "open" THEN Goto(p, "load") ELSE NeedId(p, "scan")

CheckSeed(p) ==
    /\ job[p].at = "seed"
    /\ IF seeds = {}
       THEN job' = [job EXCEPT ![p].at = "id", ![p].next = "append", ![p].row = 1]
       ELSE AfterSeed(p)
    /\ UNCHANGED <<config, made, names, elf, store, toml, seeds, cut>>

\* Mutant of AppendSeed: the last grant is left out.
AppendSeed_Short(p) ==
    /\ job[p].at = "append"
    /\ seeds' = seeds \cup {[id |-> job[p].id, row |-> job[p].row]}
    /\ IF job[p].row < Rows - 1 THEN job' = [job EXCEPT ![p].row = @ + 1] ELSE AfterSeed(p)
    /\ UNCHANGED <<config, made, names, elf, store, toml, cut>>

AppendSeed(p) ==
    /\ job[p].at = "append"
    /\ seeds' = seeds \cup {[id |-> job[p].id, row |-> job[p].row]}
    /\ IF job[p].row < Rows THEN job' = [job EXCEPT ![p].row = @ + 1] ELSE AfterSeed(p)
    /\ UNCHANGED <<config, made, names, elf, store, toml, cut>>

\* create_blocks_for_files is in FileScan.  elf run opens what it initialised.
ScanFiles(p) ==
    /\ job[p].at = "scan"
    /\ IF job[p].for = "run"
       THEN job' = [job EXCEPT ![p].at = "find", ![p].for = "open"]
       ELSE End(p, "initialized")
    /\ UNCHANGED <<config, made, names, elf, store, toml, seeds, cut>>

\* The engine replays what is there now, a seed that is not complete too.
SpawnEngine(p) ==
    /\ job[p].at = "load"
    /\ job' = [job EXCEPT ![p].seen = seeds, ![p].short = Unfinished("seed"),
                          ![p].at = "id", ![p].next = "act"]
    /\ UNCHANGED <<config, made, names, elf, store, toml, seeds, cut>>

\* The command acts as the system editor, with one of the capabilities granted.
Act(p) ==
    /\ job[p].at = "act"
    /\ \E r \in 2..Rows :
          End(p, IF [id |-> job[p].id, row |-> r] \in job[p].seen THEN "done"
                 ELSE "not_authorized")
    /\ UNCHANGED <<config, made, names, elf, store, toml, seeds, cut>>

-----------------------------------------------------------------------------
\* A step fails and `?` returns the error, or the process is killed: what was
\* done stays, a file that was emptied too.
GiveUp(p) ==
    /\ job[p].at # "idle"
    /\ cut' = cut \cup Half(p)
    /\ End(p, "failed")
    /\ UNCHANGED <<config, made, names, elf, store, toml, seeds>>

\* The directory is copied to where there is no configuration.
Move ==
    /\ \A p \in Process : job[p].at = "idle"
    /\ config # None /\ config' = None
    /\ UNCHANGED <<made, names, elf, store, toml, seeds, cut, job>>

Init ==
    /\ config = None /\ made = {} /\ names = {}
    /\ elf = FALSE /\ store = FALSE /\ toml = "absent" /\ seeds = {}
    /\ cut = {}
    /\ job = [p \in Process |-> Idle]

Step(p) == \/ Start(p) \/ LoadConfig(p) \/ EmptyConfig(p) \/ SaveConfig(p) \/ ConfigFails(p)
           \/ CheckAbsent(p) \/ MakeDirectory(p) \/ MakeStore(p)
           \/ EmptyProjectConfig(p) \/ SaveProjectConfig(p)
           \/ Find(p) \/ CheckSeed(p) \/ AppendSeed(p) \/ ScanFiles(p)
           \/ SpawnEngine(p) \/ Act(p) \/ GiveUp(p)

Next == (\E p \in Process : Step(p)) \/ Move

Spec == Init /\ [][Next]_vars
=============================================================================
