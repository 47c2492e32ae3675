------------------------- MODULE ProjectFiles_proofs -------------------------
(***************************************************************************)
(* What the commands leave in the files of a project, whatever dies or     *)
(* fails on the way: initialising and opening, for any number of processes *)
(* at a time; the scan of files, one at a time; the extension generator.   *)
(*                                                                         *)
(* The three models are of one project directory and share no step, so     *)
(* that each has its own invariant.                                        *)
(***************************************************************************)
EXTENDS SetupProperties, FileScan, ScaffoldProperties,
        FiniteSetTheorems, SequenceTheorems, TLAPS

-----------------------------------------------------------------------------
(***************************************************************************)
(* Initialising and opening: types.                                        *)
(***************************************************************************)
Stage == {"idle", "id", "save", "save_write", "check", "make", "store", "toml",
          "toml_write", "find", "seed", "append", "scan", "load", "act"}

Name == Id \cup {System}

Job == [for : {"none", "init", "open", "run"}, at : Stage,
        id : Name \cup {None}, next : {"idle", "append", "scan", "act"},
        row : 0..Rows, seen : SUBSET [id : Name, row : 1..Rows], short : BOOLEAN,
        result : {"none", "already_exists", "no_project", "no_store", "bad_config",
                  "initialized", "done", "not_authorized", "failed"}]

AtId == {"id", "save", "save_write"}

\* Who needs an id goes on with something, who appends has a row to append and begins
\* with the first, who acts or appends has an id, and results are of who ended.
Ready(j) == /\ j.at \in AtId => j.next # "idle"
            /\ j.at \in {"save", "save_write"} => j.id \in Id
            /\ j.at \in {"append", "act"} => j.id \in Name
            /\ j.at = "append" => j.row \in 1..Rows
            /\ j.at \in AtId /\ j.next = "append" => j.row = 1
            /\ j.at # "idle" => j.result = "none"

Types == /\ config \in Id \cup {None, Torn}
         /\ names \subseteq Name
         /\ seeds \subseteq [id : Name, row : 1..Rows]
         /\ job \in [Process -> Job]
         /\ \A p \in Process : Ready(job[p])

-----------------------------------------------------------------------------
(***************************************************************************)
(* Seeds.                                                                  *)
(***************************************************************************)
Whole(rows, i) == \A r \in 1..Rows : [id |-> i, row |-> r] \in rows

\* p has put in the rows before the one it is at, for an id it was given.
Appending(p) == job[p].at = "append" =>
                  /\ job[p].id \in names
                  /\ \A r \in 1..Rows : r < job[p].row => [id |-> job[p].id, row |-> r] \in seeds

\* The seed of an id is complete, somebody is at it, or somebody was cut off.
Seeded(i) == \/ Whole(seeds, i) \/ "seed" \in cut
             \/ \E q \in Process : job[q].at = "append" /\ job[q].row > 1 /\ job[q].id = i

\* What an engine has read, if it was not while a seed was incomplete, are complete
\* seeds of ids that were given out; and there is one.
Seen(p) == /\ \A row \in job[p].seen : row.id \in names
           /\ ~job[p].short => \A row \in job[p].seen : Whole(job[p].seen, row.id)
           /\ job[p].at = "load" => seeds # {}
           /\ job[p].at = "act" \/ job[p].next = "act" => job[p].seen # {}

SeedInv == /\ \A row \in seeds : row.id \in names /\ Seeded(row.id)
           /\ \A p \in Process : Appending(p) /\ Seen(p)

SetupInv == Types /\ NotStuck /\ SeedInv /\ SystemMayAct

-----------------------------------------------------------------------------
LEMMA SetupInvInit == Init => SetupInv
<1> SUFFICES ASSUME Init PROVE SetupInv
  OBVIOUS
<1>1. Idle \in Job /\ Ready(Idle)
  BY RowAssumption DEF Idle, Job, Stage, Ready, AtId
<1>2. \A p \in Process : job[p] = Idle
  BY DEF Init
<1>3. Types
  BY <1>1, <1>2 DEF Init, Types
<1>4. NotStuck /\ SystemMayAct
  BY <1>2 DEF Init, NotStuck, SystemMayAct, Idle
<1>5. SeedInv
  BY <1>2 DEF Init, SeedInv, Appending, Seen, Idle
<1> QED BY <1>3, <1>4, <1>5 DEF SetupInv

\* A step of one process leaves the others alone.
LEMMA OthersWait ==
  ASSUME Types, NEW p \in Process, Step(p), NEW q \in Process, q # p
  PROVE  job'[q] = job[q]
BY DEF Types, Step, Start, LoadConfig, EmptyConfig, SaveConfig, ConfigFails, CheckAbsent,
       MakeDirectory, MakeStore, EmptyProjectConfig, SaveProjectConfig, Find, CheckSeed,
       AppendSeed, ScanFiles, SpawnEngine, Act, GiveUp, Goto, End, NeedId, Answer, AfterSeed

\* get_system_editor_id answers, or has made an id to save.
LEMMA LoadsConfig ==
  ASSUME Types, NEW p \in Process, LoadConfig(p)
  PROVE  /\ job[p].at = "id"
         /\ \/ \E i \in Name : Answer(p, i)
            \/ /\ \E i \in Id : job' = [job EXCEPT ![p].id = i, ![p].at = "save"]
               /\ names' = names
<1>1. CASE config = None
  BY <1>1, IdAssumption DEF LoadConfig
<1>2. CASE config \in Id
  BY <1>2, IdAssumption DEF LoadConfig, Name
<1>3. CASE config = Torn
  BY <1>3, IdAssumption DEF LoadConfig, Name
<1> QED BY <1>1, <1>2, <1>3 DEF Types

\* What was given out, put in or cut off stays so.
LEMMA OnlyMore ==
  ASSUME Types, NEW p \in Process, Step(p)
  PROVE  names \subseteq names' /\ seeds \subseteq seeds' /\ cut \subseteq cut'
<1>1. CASE LoadConfig(p)
  <2>1. names' = names \/ \E i : names' = names \cup {i}
    BY <1>1, LoadsConfig DEF Answer
  <2> QED BY <1>1, <2>1 DEF LoadConfig
<1>2. CASE SaveConfig(p) \/ ConfigFails(p)
  BY <1>2 DEF SaveConfig, ConfigFails, Answer
<1>3. CASE AppendSeed(p)
  BY <1>3 DEF AppendSeed
<1>4. CASE GiveUp(p)
  BY <1>4 DEF GiveUp
<1>5. CASE ~(LoadConfig(p) \/ SaveConfig(p) \/ ConfigFails(p) \/ AppendSeed(p) \/ GiveUp(p))
  BY <1>5 DEF Step, Start, EmptyConfig, CheckAbsent, MakeDirectory, MakeStore,
     EmptyProjectConfig, SaveProjectConfig, Find, CheckSeed, ScanFiles, SpawnEngine, Act
<1> QED BY <1>1, <1>2, <1>3, <1>4, <1>5

\* A process is given an id.
LEMMA AnswerTypes ==
  ASSUME Types, NEW p \in Process, job[p].at \in AtId, NEW i \in Name, Answer(p, i)
  PROVE  /\ job' \in [Process -> Job] /\ Ready(job'[p]) /\ names' \subseteq Name
         /\ job'[p] = [job[p] EXCEPT !.id = i, !.at = job[p].next]
<1>1. job[p] \in Job /\ job[p].next \in {"append", "scan", "act"} /\ Ready(job[p])
  BY DEF Types, Ready, Job
<1>2. job'[p] = [job[p] EXCEPT !.id = i, !.at = job[p].next]
  BY DEF Answer, Types
<1>3. job' \in [Process -> Job]
  BY <1>1 DEF Answer, Types, Job, Stage
<1>4. Ready(job'[p])
  BY <1>1, <1>2 DEF Ready, AtId, Job
<1> QED BY <1>2, <1>3, <1>4 DEF Answer, Types

LEMMA TypesStep ==
  ASSUME Types, NEW p \in Process, Step(p)
  PROVE  Types'
<1>0. job[p] \in Job /\ job \in [Process -> Job] /\ Ready(job[p])
  BY DEF Types
<1>1. SUFFICES /\ config' \in Id \cup {None, Torn} /\ names' \subseteq Name
               /\ seeds' \subseteq [id : Name, row : 1..Rows]
               /\ job' \in [Process -> Job] /\ Ready(job'[p])
  BY OthersWait DEF Types
<1>2. CASE Start(p)
  <2>1. PICK j \in {[Idle EXCEPT !.for = "init", !.at = "check"],
                    [Idle EXCEPT !.for = "open", !.at = "find"],
                    [Idle EXCEPT !.for = "run", !.at = "check"]} :
          job' = [job EXCEPT ![p] = j]
    BY <1>2 DEF Start
  <2>2. j \in Job /\ j.at \in {"check", "find"} /\ j.result = "none"
    <3>1. Idle \in Job /\ Idle.result = "none"
      BY RowAssumption DEF Idle, Job, Stage
    <3> HIDE DEF Idle
    <3> QED BY <2>1, <3>1 DEF Job, Stage
  <2>3. job' \in [Process -> Job] /\ job'[p] = j
    BY <1>0, <2>1, <2>2
  <2>4. Ready(job'[p])
    BY <2>2, <2>3 DEF Ready, AtId
  <2> QED BY <1>2, <2>3, <2>4 DEF Start, Types
<1>3. CASE LoadConfig(p)
  <2>1. CASE /\ \E i \in Id : job' = [job EXCEPT ![p].id = i, ![p].at = "save"]
             /\ names' = names
    <3>1. PICK i \in Id : job' = [job EXCEPT ![p].id = i, ![p].at = "save"]
      BY <2>1
    <3>2. job' \in [Process -> Job] /\ job'[p] = [job[p] EXCEPT !.id = i, !.at = "save"]
      BY <1>0, <3>1 DEF Job, Stage, Name
    <3>3. Ready(job'[p])
      BY <1>0, <1>3, <3>1, <3>2 DEF LoadConfig, Ready, AtId, Job
    <3> QED BY <1>3, <2>1, <3>2, <3>3 DEF LoadConfig, Types
  <2>2. CASE \E i \in Name : Answer(p, i)
    <3>1. PICK i \in Name : Answer(p, i)
      BY <2>2
    <3> QED BY <1>3, <3>1, AnswerTypes DEF LoadConfig, Types, AtId
  <2> QED BY <1>3, <2>1, <2>2, LoadsConfig
<1>4. CASE EmptyConfig(p)
  BY <1>0, <1>4 DEF EmptyConfig, Goto, Types, Job, Stage, Ready, AtId
<1>5. CASE SaveConfig(p)
  <2>1. job[p].at \in AtId /\ job[p].id \in Name /\ Answer(p, job[p].id) /\ job[p].id \in Id
    BY <1>0, <1>5 DEF SaveConfig, AtId, Ready, Name
  <2> QED BY <1>5, <2>1, AnswerTypes DEF SaveConfig, Types
<1>6. CASE ConfigFails(p)
  BY <1>6, AnswerTypes DEF ConfigFails, Types, AtId, Name
<1>7. CASE CheckAbsent(p) \/ MakeDirectory(p) \/ MakeStore(p) \/ EmptyProjectConfig(p)
           \/ SaveProjectConfig(p) \/ Find(p)
  <2>1. UNCHANGED <<names, seeds, config>>
    BY <1>7 DEF CheckAbsent, MakeDirectory, MakeStore, EmptyProjectConfig,
                SaveProjectConfig, Find
  <2>2. \/ \E r \in {"already_exists", "no_project", "no_store", "bad_config"} : End(p, r)
        \/ \E s \in {"make", "store", "toml", "toml_write", "seed"} : Goto(p, s)
    BY <1>7 DEF CheckAbsent, MakeDirectory, MakeStore, EmptyProjectConfig,
                SaveProjectConfig, Find
  <2>3. job[p].at # "idle"
    BY <1>7 DEF CheckAbsent, MakeDirectory, MakeStore, EmptyProjectConfig,
                SaveProjectConfig, Find
  <2>4. CASE \E r \in {"already_exists", "no_project", "no_store", "bad_config"} : End(p, r)
    <3>1. PICK r \in {"already_exists", "no_project", "no_store", "bad_config"} : End(p, r)
      BY <2>4
    <3>2. [job[p] EXCEPT !.at = "idle", !.result = r] \in Job
      BY <1>0 DEF Job, Stage
    <3>3. job' = [job EXCEPT ![p] = [job[p] EXCEPT !.at = "idle", !.result = r]]
      BY <1>0, <3>1 DEF End
    <3>4. job' \in [Process -> Job]
      BY <1>0, <3>2, <3>3
    <3>5. job'[p].at = "idle"
      BY <1>0, <3>3 DEF Job
    <3> QED BY <2>1, <3>4, <3>5 DEF Types, Ready, AtId
  <2>5. CASE \E s \in {"make", "store", "toml", "toml_write", "seed"} : Goto(p, s)
    BY <1>0, <2>1, <2>3, <2>5 DEF Goto, Types, Job, Stage, Ready, AtId
  <2> QED BY <2>2, <2>4, <2>5
<1>8. CASE CheckSeed(p)
  BY <1>0, <1>8, RowAssumption
     DEF CheckSeed, AfterSeed, NeedId, Goto, Types, Job, Stage, Ready, AtId
<1>9. CASE AppendSeed(p)
  <2>1. job[p].id \in Name /\ job[p].row \in 1..Rows
    BY <1>0, <1>9 DEF AppendSeed, Ready
  <2>2. job' \in [Process -> Job] /\ Ready(job'[p])
    BY <1>0, <1>9, <2>1, RowAssumption
       DEF AppendSeed, AfterSeed, NeedId, Goto, Job, Stage, Ready, AtId
  <2> QED BY <1>9, <2>1, <2>2 DEF AppendSeed, Types
<1>10. CASE ScanFiles(p)
  BY <1>0, <1>10 DEF ScanFiles, End, Types, Job, Stage, Ready, AtId
<1>11. CASE SpawnEngine(p)
  <2>1. Unfinished("seed") \in BOOLEAN
    BY DEF Unfinished
  <2> QED BY <1>0, <1>11, <2>1 DEF SpawnEngine, Types, Job, Stage, Ready, AtId
<1>12. CASE Act(p)
  BY <1>0, <1>12 DEF Act, End, Types, Job, Stage, Ready, AtId
<1>13. CASE GiveUp(p)
  BY <1>0, <1>13 DEF GiveUp, End, Types, Job, Stage, Ready, AtId
<1> QED BY <1>2, <1>3, <1>4, <1>5, <1>6, <1>7, <1>8, <1>9, <1>10, <1>11, <1>12, <1>13
        DEF Step

-----------------------------------------------------------------------------
(***************************************************************************)
(* A directory nobody accepts.                                             *)
(***************************************************************************)

\* What somebody is in the middle of stays so until that step is done.
LEMMA StaysUnfinished ==
  ASSUME Types, NEW p \in Process, Step(p), NEW what, Unfinished(what),
         what \in Half(p) => \/ what \in cut'
                             \/ what \in Half(p)'
  PROVE  Unfinished(what)'
<1>1. CASE what \in cut
  BY <1>1, OnlyMore DEF Unfinished
<1>2. CASE \E q \in Process : what \in Half(q)
  <2>1. PICK q \in Process : what \in Half(q)
    BY <1>2
  <2>2. CASE q = p
    BY <2>1, <2>2 DEF Unfinished
  <2>3. CASE q # p
    <3>1. job'[q] = job[q]
      BY <2>3, OthersWait
    <3>2. what \in Half(q)'
      BY <2>1, <3>1 DEF Half
    <3> QED BY <2>1, <3>2 DEF Unfinished
  <2> QED BY <2>2, <2>3
<1> QED BY <1>1, <1>2 DEF Unfinished

LEMMA NotStuckStep ==
  ASSUME Types, NotStuck, NEW p \in Process, Step(p)
  PROVE  NotStuck'
<1>0. job \in [Process -> Job]
  BY DEF Types
<1>1. ASSUME elf', ~store' PROVE Unfinished("store")'
  <2>1. CASE MakeDirectory(p)
    <3>1. job'[p].at = "store"
      BY <1>0, <2>1 DEF MakeDirectory, Goto
    <3>2. "store" \in Half(p)'
      BY <3>1 DEF Half
    <3> QED BY <3>2 DEF Unfinished
  <2>2. CASE ~MakeDirectory(p)
    <3>0. ~MakeStore(p) /\ UNCHANGED elf
      BY <1>1, <2>2 DEF Step, Start, LoadConfig, EmptyConfig, SaveConfig, ConfigFails,
         CheckAbsent, MakeStore, EmptyProjectConfig, SaveProjectConfig, Find, CheckSeed,
         AppendSeed, ScanFiles, SpawnEngine, Act, GiveUp
    <3>1. elf /\ ~store /\ ~MakeStore(p)
      <4>1. UNCHANGED store
        BY <2>2, <3>0 DEF Step, Start, LoadConfig, EmptyConfig, SaveConfig, ConfigFails,
           CheckAbsent, EmptyProjectConfig, SaveProjectConfig, Find, CheckSeed,
           AppendSeed, ScanFiles, SpawnEngine, Act, GiveUp
      <4> QED BY <1>1, <3>0, <4>1
    <3>2. "store" \in Half(p) => job[p].at = "store"
      BY DEF Half
    <3>3. job[p].at = "store" => GiveUp(p)
      BY <2>2, <3>1 DEF Step, Start, LoadConfig, EmptyConfig, SaveConfig, ConfigFails,
         CheckAbsent, EmptyProjectConfig, SaveProjectConfig, Find, CheckSeed,
         AppendSeed, ScanFiles, SpawnEngine, Act
    <3>4. "store" \in Half(p) => "store" \in cut'
      BY <3>2, <3>3 DEF GiveUp
    <3> QED BY <3>1, <3>4, StaysUnfinished DEF NotStuck
  <2> QED BY <2>1, <2>2
<1>2. ASSUME toml' = "torn" PROVE Unfinished("toml")'
  <2>1. CASE EmptyProjectConfig(p)
    <3>1. job'[p].at = "toml_write"
      BY <1>0, <2>1 DEF EmptyProjectConfig, Goto
    <3>2. "toml" \in Half(p)'
      BY <3>1 DEF Half
    <3> QED BY <3>2 DEF Unfinished
  <2>2. CASE ~EmptyProjectConfig(p)
    <3>1. toml = "torn" /\ ~SaveProjectConfig(p)
      BY <1>2, <2>2 DEF Step, Start, LoadConfig, EmptyConfig, SaveConfig, ConfigFails,
         CheckAbsent, MakeDirectory, MakeStore, SaveProjectConfig, Find, CheckSeed,
         AppendSeed, ScanFiles, SpawnEngine, Act, GiveUp
    <3>2. "toml" \in Half(p) => job[p].at = "toml_write"
      BY DEF Half
    <3>3. job[p].at = "toml_write" => GiveUp(p)
      BY <2>2, <3>1 DEF Step, Start, LoadConfig, EmptyConfig, SaveConfig, ConfigFails,
         CheckAbsent, MakeDirectory, MakeStore, Find, CheckSeed,
         AppendSeed, ScanFiles, SpawnEngine, Act
    <3>4. "toml" \in Half(p) => "toml" \in cut'
      BY <3>2, <3>3 DEF GiveUp
    <3> QED BY <3>1, <3>4, StaysUnfinished DEF NotStuck
  <2> QED BY <2>1, <2>2
<1> QED BY <1>1, <1>2 DEF NotStuck

-----------------------------------------------------------------------------
(***************************************************************************)
(* Whose project it is.                                                    *)
(***************************************************************************)

\* An id whose seed is complete, at hand or cut off is so after any step.
LEMMA StaysSeeded ==
  ASSUME Types, SeedInv, NEW p \in Process, Step(p), NEW i, Seeded(i)
  PROVE  Seeded(i)'
<1>1. CASE Whole(seeds, i)
  BY <1>1, OnlyMore DEF Seeded, Whole
<1>2. CASE "seed" \in cut
  BY <1>2, OnlyMore DEF Seeded
<1>3. CASE \E q \in Process : job[q].at = "append" /\ job[q].row > 1 /\ job[q].id = i
  <2>1. PICK q \in Process : job[q].at = "append" /\ job[q].row > 1 /\ job[q].id = i
    BY <1>3
  <2>2. CASE q # p
    <3>1. job'[q] = job[q]
      BY <2>2, OthersWait
    <3> QED BY <2>1, <3>1 DEF Seeded
  <2>3. CASE q = p
    <3>1. AppendSeed(p) \/ GiveUp(p)
      BY <2>1, <2>3 DEF Step, Start, LoadConfig, EmptyConfig, SaveConfig, ConfigFails,
         CheckAbsent, MakeDirectory, MakeStore, EmptyProjectConfig, SaveProjectConfig,
         Find, CheckSeed, ScanFiles, SpawnEngine, Act
    <3>2. CASE GiveUp(p)
      <4>1. "seed" \in Half(p)
        BY <2>1, <2>3 DEF Half
      <4> QED BY <3>2, <4>1 DEF GiveUp, Seeded
    <3>3. CASE AppendSeed(p) /\ job[p].row < Rows
      <4>1. job' = [job EXCEPT ![p].row = @ + 1] /\ job[p] \in Job /\ job \in [Process -> Job]
        BY <3>3 DEF AppendSeed, Types
      <4>2. job'[p].at = "append" /\ job'[p].row = job[p].row + 1 /\ job'[p].id = i
        BY <2>1, <2>3, <4>1 DEF Job
      <4>3. job'[p].row > 1
        BY <2>1, <2>3, <4>1, <4>2, RowAssumption DEF Job
      <4> QED BY <4>2, <4>3 DEF Seeded
    <3>4. CASE AppendSeed(p) /\ ~(job[p].row < Rows)
      <4>1. job[p].row = Rows
        BY <2>1, <2>3, <3>4, RowAssumption DEF Types, Ready
      <4>2. \A r \in 1..Rows : r < Rows => [id |-> i, row |-> r] \in seeds
        BY <2>1, <2>3, <4>1 DEF SeedInv, Appending
      <4>3. seeds' = seeds \cup {[id |-> i, row |-> Rows]}
        BY <2>1, <2>3, <3>4, <4>1 DEF AppendSeed
      <4>4. \A r \in 1..Rows : r < Rows \/ r = Rows
        BY RowAssumption
      <4> QED BY <4>2, <4>3, <4>4 DEF Seeded, Whole
    <3> QED BY <3>1, <3>2, <3>3, <3>4
  <2> QED BY <2>2, <2>3
<1> QED BY <1>1, <1>2, <1>3 DEF Seeded

\* The row that is put in is one of a seed at hand, or completes it.
LEMMA AppendsSeeded ==
  ASSUME Types, SeedInv, NEW p \in Process, AppendSeed(p), NEW i, i = job[p].id
  PROVE  Seeded(i)'
<1>0. /\ job[p] \in Job /\ job \in [Process -> Job] /\ job[p].row \in 1..Rows
      /\ Appending(p) /\ job[p].at = "append"
  BY DEF Types, Ready, SeedInv, AppendSeed
<1>1. CASE job[p].row < Rows
  <2>1. job' = [job EXCEPT ![p].row = @ + 1]
    BY <1>1 DEF AppendSeed
  <2>2. job'[p].at = "append" /\ job'[p].row = job[p].row + 1 /\ job'[p].id = i
    BY <1>0, <2>1 DEF Job
  <2>3. job'[p].row > 1
    BY <1>0, <2>2, RowAssumption
  <2> QED BY <2>2, <2>3 DEF Seeded
<1>2. CASE ~(job[p].row < Rows)
  <2>1. job[p].row = Rows
    BY <1>0, <1>2, RowAssumption
  <2>2. \A r \in 1..Rows : r < Rows => [id |-> i, row |-> r] \in seeds
    BY <1>0, <2>1 DEF Appending
  <2>3. seeds' = seeds \cup {[id |-> i, row |-> Rows]}
    BY <2>1 DEF AppendSeed
  <2>4. \A r \in 1..Rows : r < Rows \/ r = Rows
    BY RowAssumption
  <2> QED BY <2>2, <2>3, <2>4 DEF Seeded, Whole
<1> QED BY <1>1, <1>2

LEMMA SeedsStep ==
  ASSUME Types, SeedInv, NEW p \in Process, Step(p)
  PROVE  \A row \in seeds' : row.id \in names' /\ Seeded(row.id)'
<1> SUFFICES ASSUME NEW row \in seeds', NEW i, i = row.id PROVE i \in names' /\ Seeded(i)'
  OBVIOUS
<1>1. CASE row \in seeds
  BY <1>1, OnlyMore, StaysSeeded DEF SeedInv
<1>2. CASE row \notin seeds
  <2>1. AppendSeed(p)
    BY <1>2 DEF Step, Start, LoadConfig, EmptyConfig, SaveConfig, ConfigFails,
       CheckAbsent, MakeDirectory, MakeStore, EmptyProjectConfig, SaveProjectConfig,
       Find, CheckSeed, ScanFiles, SpawnEngine, Act, GiveUp
  <2>2. i = job[p].id /\ job[p].at = "append" /\ names' = names
    BY <1>2, <2>1 DEF AppendSeed
  <2>3. i \in names'
    BY <2>2 DEF SeedInv, Appending
  <2> QED BY <2>1, <2>2, <2>3, AppendsSeeded
<1> QED BY <1>1, <1>2

\* Who gets to append has an id that was given out; it has put in nothing yet, or
\* one row more.
LEMMA AppendingStep ==
  ASSUME Types, SeedInv, NEW p \in Process, Step(p)
  PROVE  Appending(p)'
<1>0. job[p] \in Job /\ job \in [Process -> Job] /\ Ready(job[p]) /\ Appending(p)
  BY DEF Types, SeedInv
<1> SUFFICES ASSUME job'[p].at = "append" PROVE Appending(p)'
  BY DEF Appending
<1>1. CASE AppendSeed(p)
  <2>0. job[p].row < Rows
    <3>1. AfterSeed(p) => job'[p].at \in {"load", "id"}
      BY <1>0 DEF AfterSeed, Goto, NeedId, Job
    <3> QED BY <1>1, <3>1 DEF AppendSeed
  <2>1. job' = [job EXCEPT ![p].row = @ + 1] /\ job[p].at = "append"
    BY <1>1, <2>0 DEF AppendSeed
  <2>2. /\ job'[p].row = job[p].row + 1 /\ job'[p].id = job[p].id
        /\ seeds' = seeds \cup {[id |-> job[p].id, row |-> job[p].row]}
        /\ names' = names /\ job[p].row \in 1..Rows
    BY <1>0, <1>1, <2>1 DEF AppendSeed, Job, Ready
  <2>3. \A r \in 1..Rows : r < job'[p].row => r < job[p].row \/ r = job[p].row
    BY <2>2, RowAssumption
  <2> QED BY <1>0, <2>1, <2>2, <2>3 DEF Appending
<1>2. CASE ~AppendSeed(p)
  <2>1. PICK i : Answer(p, i) /\ job[p].at \in AtId
    <3>1. CASE LoadConfig(p)
      BY <1>0, <3>1, LoadsConfig DEF AtId, Job
    <3>2. CASE SaveConfig(p) \/ ConfigFails(p)
      BY <3>2 DEF SaveConfig, ConfigFails, AtId
    <3>3. CASE Start(p) \/ SpawnEngine(p) \/ ScanFiles(p) \/ Act(p) \/ GiveUp(p)
      <4>0. Start(p) => job'[p].at \in {"check", "find"}
        BY <1>0 DEF Start, Idle
      <4>1. Start(p) \/ SpawnEngine(p) => job'[p].at # "append"
        BY <1>0, <4>0 DEF SpawnEngine, Job
      <4>2. ScanFiles(p) => job'[p].at # "append"
        BY <1>0 DEF ScanFiles, End, Job
      <4>3. ASSUME NEW r, End(p, r) PROVE job'[p].at # "append"
        BY <1>0, <4>3 DEF End, Job
      <4>4. Act(p) \/ GiveUp(p) => \E r : End(p, r)
        BY DEF Act, GiveUp
      <4> QED BY <3>3, <4>1, <4>2, <4>3, <4>4
    <3>4. CASE CheckSeed(p)
      BY <1>0, <3>4 DEF CheckSeed, AfterSeed, Goto, NeedId, Job
    <3>5. CASE EmptyConfig(p) \/ CheckAbsent(p) \/ MakeDirectory(p) \/ MakeStore(p)
               \/ EmptyProjectConfig(p) \/ SaveProjectConfig(p) \/ Find(p)
      <4>1. job'[p].at # "append"
        BY <1>0, <3>5 DEF EmptyConfig, CheckAbsent, MakeDirectory, MakeStore,
           EmptyProjectConfig, SaveProjectConfig, Find, Goto, End, Job
      <4> QED BY <4>1
    <3> QED BY <1>2, <3>1, <3>2, <3>3, <3>4, <3>5 DEF Step
  <2>2. /\ job'[p] = [job[p] EXCEPT !.id = i, !.at = job[p].next]
        /\ names' = names \cup {i}
    BY <1>0, <2>1 DEF Answer
  <2>3. job'[p].id = i /\ job'[p].row = 1
    BY <1>0, <2>1, <2>2 DEF Job, Ready
  <2>4. \A r \in 1..Rows : ~(r < 1)
    BY RowAssumption
  <2> QED BY <2>2, <2>3, <2>4 DEF Appending
<1> QED BY <1>1, <1>2

\* What a process has seen was there when it looked.
LEMMA SeenStep ==
  ASSUME Types, SeedInv, NEW p \in Process, Step(p)
  PROVE  Seen(p)'
<1>0. job[p] \in Job /\ job \in [Process -> Job] /\ Seen(p)
  BY DEF Types, SeedInv
<1>1. CASE Start(p)
  <2>1. job'[p].seen = {} /\ job'[p].at \in {"check", "find"} /\ job'[p].next = "idle"
    BY <1>0, <1>1 DEF Start, Idle
  <2> QED BY <2>1 DEF Seen
<1>2. CASE SpawnEngine(p)
  <2>1. /\ job'[p].seen = seeds /\ job'[p].short = Unfinished("seed")
        /\ job'[p].at = "id" /\ seeds # {} /\ names' = names
    BY <1>0, <1>2 DEF SpawnEngine, Seen, Job
  <2>2. ASSUME ~Unfinished("seed"), NEW row \in seeds PROVE Whole(seeds, row.id)
    <3>1. \A q \in Process : ~(job[q].at = "append" /\ job[q].row > 1)
      BY <2>2 DEF Unfinished, Half
    <3> QED BY <2>2, <3>1 DEF SeedInv, Seeded, Unfinished
  <2>3. \A row \in job'[p].seen : row.id \in names'
    BY <2>1 DEF SeedInv
  <2>4. ~job'[p].short => \A row \in job'[p].seen : Whole(job'[p].seen, row.id)
    BY <2>1, <2>2
  <2> QED BY <2>1, <2>3, <2>4 DEF Seen, Whole
<1>3. CASE ~Start(p) /\ ~SpawnEngine(p)
  <2> DEFINE Held == /\ job'[p].seen = job[p].seen /\ job'[p].short = job[p].short
                     /\ job'[p].next = "act" => job[p].next = "act"
                     /\ job'[p].at = "act" => job[p].next = "act"
                     /\ job'[p].at = "load" => seeds' # {}
  <2>1. Held
    <3>1. CASE LoadConfig(p)
      <4>1. \/ \E i : job' = [job EXCEPT ![p].id = i, ![p].at = job[p].next]
            \/ \E i : job' = [job EXCEPT ![p].id = i, ![p].at = "save"]
        BY <3>1, LoadsConfig DEF Answer
      <4>2. CASE \E i : job' = [job EXCEPT ![p].id = i, ![p].at = job[p].next]
        BY <1>0, <4>2 DEF Job
      <4>3. CASE \E i : job' = [job EXCEPT ![p].id = i, ![p].at = "save"]
        BY <1>0, <4>3 DEF Job
      <4> QED BY <4>1, <4>2, <4>3
    <3>2. CASE SaveConfig(p) \/ ConfigFails(p)
      BY <1>0, <3>2 DEF SaveConfig, ConfigFails, Answer, Job
    <3>3. CASE ScanFiles(p) \/ Act(p) \/ GiveUp(p)
      <4>1. (\E r : End(p, r)) \/ job' = [job EXCEPT ![p].at = "find", ![p].for = "open"]
        BY <3>3 DEF ScanFiles, Act, GiveUp
      <4> QED BY <1>0, <4>1 DEF End, Job
    <3>4. CASE CheckSeed(p)
      BY <1>0, <3>4 DEF CheckSeed, AfterSeed, Goto, NeedId, Job
    <3>5. CASE AppendSeed(p)
      <4>1. seeds' # {}
        BY <3>5 DEF AppendSeed
      <4>2. job[p].at = "append"
        BY <3>5 DEF AppendSeed
      <4>3. CASE job' = [job EXCEPT ![p].row = @ + 1]
        BY <1>0, <4>1, <4>2, <4>3 DEF Job
      <4>4. CASE AfterSeed(p)
        BY <1>0, <4>1, <4>4 DEF AfterSeed, Goto, NeedId, Job
      <4> QED BY <3>5, <4>3, <4>4 DEF AppendSeed
    <3>6. CASE EmptyConfig(p) \/ CheckAbsent(p) \/ MakeDirectory(p) \/ MakeStore(p)
               \/ EmptyProjectConfig(p) \/ SaveProjectConfig(p) \/ Find(p)
      <4>1. (\E r : End(p, r)) \/ \E t \in Stage \ {"act", "load"} : Goto(p, t)
        BY <3>6 DEF EmptyConfig, CheckAbsent, MakeDirectory, MakeStore,
           EmptyProjectConfig, SaveProjectConfig, Find, Stage
      <4> QED BY <1>0, <4>1 DEF Goto, End, Job
    <3> QED BY <1>3, <3>1, <3>2, <3>3, <3>4, <3>5, <3>6 DEF Step
  <2>4. \A row \in job'[p].seen : row.id \in names'
    BY <1>0, <2>1, OnlyMore DEF Seen
  <2>5. ~job'[p].short => \A row \in job'[p].seen : Whole(job'[p].seen, row.id)
    BY <1>0, <2>1 DEF Seen
  <2>6. job'[p].at = "act" \/ job'[p].next = "act" => job'[p].seen # {}
    BY <1>0, <2>1 DEF Seen
  <2> QED BY <2>1, <2>4, <2>5, <2>6 DEF Seen, Whole
<1> QED BY <1>1, <1>2, <1>3

LEMMA SeedInvStep ==
  ASSUME Types, SeedInv, NEW p \in Process, Step(p)
  PROVE  SeedInv'
<1>1. ASSUME NEW q \in Process PROVE Appending(q)' /\ Seen(q)'
  <2>1. CASE q = p
    BY <2>1, AppendingStep, SeenStep
  <2>2. CASE q # p
    <3>1. job'[q] = job[q] /\ Appending(q) /\ Seen(q)
      BY <2>2, OthersWait DEF SeedInv
    <3>2. names \subseteq names' /\ seeds \subseteq seeds'
      BY OnlyMore
    <3>3. Appending(q)'
      BY <3>1, <3>2 DEF Appending
    <3>4. Seen(q)'
      BY <3>1, <3>2 DEF Seen, Whole
    <3> QED BY <3>3, <3>4
  <2> QED BY <2>1, <2>2
<1> QED BY <1>1, SeedsStep DEF SeedInv

\* An engine that has seen a complete seed lets its editor act.
LEMMA ActsStep ==
  ASSUME Types, SeedInv, SystemMayAct, NEW p \in Process, Step(p)
  PROVE  SystemMayAct'
<1>0. job[p] \in Job /\ job \in [Process -> Job] /\ Ready(job[p]) /\ Seen(p)
  BY DEF Types, SeedInv
<1> SUFFICES ASSUME NEW q \in Process, job'[q].result = "not_authorized"
             PROVE  \/ job'[q].short
                    \/ \E row \in job'[q].seen : row.id \in names' \ {job'[q].id}
  BY DEF SystemMayAct
<1>1. CASE q # p
  <2>1. job'[q] = job[q] /\ names \subseteq names'
    BY <1>1, OthersWait, OnlyMore
  <2> QED BY <2>1 DEF SystemMayAct
<1>2. CASE q = p
  <2>1. Act(p)
    <3>1. CASE Start(p) \/ ScanFiles(p) \/ GiveUp(p) \/ SpawnEngine(p)
      <4>1. Start(p) => job'[p].result = "none"
        BY <1>0 DEF Start, Idle
      <4>2. ScanFiles(p) => job'[p].result \in {job[p].result, "initialized"} /\ job[p].at # "idle"
        BY <1>0 DEF ScanFiles, End, Job
      <4>3. GiveUp(p) => job'[p].result = "failed"
        BY <1>0 DEF GiveUp, End, Job
      <4>4. SpawnEngine(p) => job'[p].result = job[p].result /\ job[p].at # "idle"
        BY <1>0 DEF SpawnEngine, Job
      <4> QED BY <1>0, <1>2, <3>1, <4>1, <4>2, <4>3, <4>4 DEF Ready
    <3>2. CASE LoadConfig(p)
      <4>1. \/ \E i : job' = [job EXCEPT ![p].id = i, ![p].at = job[p].next]
            \/ \E i : job' = [job EXCEPT ![p].id = i, ![p].at = "save"]
        BY <3>2, LoadsConfig DEF Answer
      <4>2. job'[p].result = job[p].result
        <5>1. CASE \E i : job' = [job EXCEPT ![p].id = i, ![p].at = job[p].next]
          BY <1>0, <5>1 DEF Job
        <5>2. CASE \E i : job' = [job EXCEPT ![p].id = i, ![p].at = "save"]
          BY <1>0, <5>2 DEF Job
        <5> QED BY <4>1, <5>1, <5>2
      <4> QED BY <1>0, <1>2, <3>2, <4>2, LoadsConfig DEF Ready
    <3>3. CASE SaveConfig(p) \/ ConfigFails(p)
      BY <1>0, <1>2, <3>3 DEF SaveConfig, ConfigFails, Answer, Job, Ready
    <3>4. CASE CheckSeed(p) \/ AppendSeed(p)
      <4>1. job'[p].result = job[p].result
        BY <1>0, <3>4 DEF CheckSeed, AppendSeed, AfterSeed, Goto, NeedId, Job
      <4> QED BY <1>0, <1>2, <3>4, <4>1 DEF CheckSeed, AppendSeed, Ready
    <3>5. CASE EmptyConfig(p) \/ CheckAbsent(p) \/ MakeDirectory(p) \/ MakeStore(p)
               \/ EmptyProjectConfig(p) \/ SaveProjectConfig(p) \/ Find(p)
      <4>1. \/ \E r : End(p, r) /\ r # "not_authorized"
            \/ \E t : Goto(p, t) /\ job[p].at # "idle"
        BY <3>5 DEF EmptyConfig, CheckAbsent, MakeDirectory, MakeStore,
           EmptyProjectConfig, SaveProjectConfig, Find
      <4> QED BY <1>0, <1>2, <4>1 DEF Goto, End, Job, Ready
    <3> QED BY <3>1, <3>2, <3>3, <3>4, <3>5 DEF Step
  <2>2. PICK r \in 2..Rows : End(p, IF [id |-> job[p].id, row |-> r] \in job[p].seen
                                    THEN "done" ELSE "not_authorized")
    BY <2>1 DEF Act
  <2>3. /\ [id |-> job[p].id, row |-> r] \notin job[p].seen
        /\ job'[p].seen = job[p].seen /\ job'[p].short = job[p].short
        /\ job'[p].id = job[p].id /\ job[p].at = "act" /\ names' = names
    BY <1>0, <1>2, <2>1, <2>2 DEF Act, End, Job
  <2>4. SUFFICES ASSUME ~job[p].short
                 PROVE  \E row \in job[p].seen : row.id \in names \ {job[p].id}
    BY <1>2, <2>3
  <2>5. PICK row \in job[p].seen : TRUE
    BY <1>0, <2>3 DEF Seen
  <2>6. row.id \in names /\ Whole(job[p].seen, row.id)
    BY <1>0, <2>4, <2>5 DEF Seen
  <2>7. r \in 1..Rows
    BY <2>2, RowAssumption
  <2>8. row.id # job[p].id
    BY <2>3, <2>6, <2>7 DEF Whole
  <2> QED BY <2>5, <2>6, <2>8
<1> QED BY <1>1, <1>2

-----------------------------------------------------------------------------
LEMMA SetupNext == SetupInv /\ [Next]_vars => SetupInv'
<1> SUFFICES ASSUME SetupInv, [Next]_vars PROVE SetupInv'
  OBVIOUS
<1>0. Types /\ NotStuck /\ SeedInv /\ SystemMayAct
  BY DEF SetupInv
<1>1. ASSUME NEW p \in Process, Step(p) PROVE SetupInv'
  BY <1>0, <1>1, TypesStep, NotStuckStep, SeedInvStep, ActsStep DEF SetupInv
<1>2. CASE Move \/ UNCHANGED vars
  <2>1. /\ UNCHANGED <<names, elf, store, toml, seeds, cut, job>>
        /\ config' \in {config, None}
    BY <1>2 DEF Move, vars
  <2>2. Types'
    BY <1>0, <2>1 DEF Types
  <2>3. NotStuck' /\ SystemMayAct'
    BY <1>0, <2>1 DEF NotStuck, Unfinished, Half, SystemMayAct
  <2>4. SeedInv'
    BY <1>0, <2>1 DEF SeedInv, Seeded, Whole, Appending, Seen
  <2> QED BY <2>2, <2>3, <2>4 DEF SetupInv
<1> QED BY <1>1, <1>2 DEF Next

\* The inductive invariant: types, a directory somebody is at work on or can be
\* opened, and seeds that are complete, at hand or cut off, of ids that were given
\* out (config.rs, init.rs, elf_project, seed_bootstrap_events).
THEOREM SetupSafety == Spec => []SetupInv
BY SetupInvInit, SetupNext, PTL DEF Spec

\* However many processes run init, open and run at a time, and whatever fails or
\* dies, a directory that init and open both refuse was left so in the making of
\* the store or in the writing of config.toml (ElfProject::init, ElfProject::open).
THEOREM NeverStuck == Spec => []NotStuck
<1>1. SetupInv => NotStuck
  BY DEF SetupInv
<1> QED BY <1>1, SetupSafety, PTL

\* Whoever opens the project and may not act as its system editor has seen a seed
\* cut short or one of another id that was given out (get_system_editor_id,
\* seed_bootstrap_events, append_events).
THEOREM SystemIsNoStranger == Spec => []SystemMayAct
<1>1. SetupInv => SystemMayAct
  BY DEF SetupInv
<1> QED BY <1>1, SetupSafety, PTL

-----------------------------------------------------------------------------
(***************************************************************************)
(* The scan of files.                                                      *)
(***************************************************************************)

\* One scan at a time.
OneScan == \A p, q \in Scanner : p = q

Contents == Text \cup {Binary, Absent}
Found    == [file : File, content : Text \cup {Binary}]
Record   == [name : File, type : {"document", "task"}, content : Contents]
Scanning == [at : {"idle", "walk", "append", "next", "write"}, one : File \cup {Absent},
             view : SUBSET Block, files : SUBSET Found, left : SUBSET Found,
             new : Block \cup {Absent}, own : BOOLEAN,
             result : {"none", "scanned", "failed"}]

ScanTypes == /\ disk \in [File -> Contents]
             /\ DOMAIN blocks \subseteq Block /\ blocks \in [DOMAIN blocks -> Record]
             /\ scan \in [Scanner -> Scanning]

\* What a scan has worked through.
Through(p) == scan[p].files \ scan[p].left

\* Files have different names; those a scan is through with are in blocks; and
\* every block it did not find when it opened is one it made for such a file, or
\* for the one at hand.
Tidy(p) ==
    /\ scan[p].left \subseteq scan[p].files
    /\ \A f, g \in scan[p].files : f.file = g.file => f = g
    /\ scan[p].view \subseteq DOMAIN blocks
    /\ scan[p].at = "append" => scan[p].view = {}
    /\ scan[p].at = "walk" => scan[p].files = {}
    /\ scan[p].at = "write" => scan[p].new \in DOMAIN blocks
    /\ \A f \in Through(p) : f.content # Binary => Holds(f)
    /\ scan[p].at # "idle" =>
          \A b \in DOMAIN blocks \ scan[p].view :
             \/ scan[p].at = "write" /\ b = scan[p].new
             \/ \E f \in Through(p) : f.file = blocks[b].name
    /\ scan[p].result = "scanned" => scan[p].at = "idle" /\ scan[p].left = {}

ScanInv == ScanTypes /\ OneBlockPerFile /\ \A p \in Scanner : Tidy(p)

-----------------------------------------------------------------------------
LEMMA ScanInvInit == ScanInit => ScanInv
<1> SUFFICES ASSUME ScanInit PROVE ScanInv
  OBVIOUS
<1>1. NoScan \in Scanning
  BY DEF NoScan, Scanning
<1>2. \A p \in Scanner : scan[p] = NoScan
  BY DEF ScanInit
<1>3. disk \in [File -> Contents] /\ scan \in [Scanner -> Scanning]
  BY <1>1 DEF ScanInit, Contents
<1>4. \A p \in Scanner : Tidy(p)
  BY <1>2 DEF Tidy, Through, NoScan
<1>5. CASE blocks = <<>>
  <2>1. DOMAIN blocks = {} /\ blocks \in [DOMAIN blocks -> Record]
    BY <1>5
  <2> QED BY <1>3, <1>4, <2>1 DEF ScanInv, ScanTypes, OneBlockPerFile
<1>6. CASE \E b \in Block, f \in Foreign :
             blocks = [x \in {b} |-> [Document(f, Absent) EXCEPT !.type = "task"]]
  <2>1. PICK b \in Block, f \in Foreign :
             blocks = [x \in {b} |-> [Document(f, Absent) EXCEPT !.type = "task"]]
    BY <1>6
  <2>2. [Document(f, Absent) EXCEPT !.type = "task"] \in Record
    BY FileAssumption DEF Document, Record, Contents
  <2>3. DOMAIN blocks = {b} /\ blocks \in [DOMAIN blocks -> Record]
    BY <2>1, <2>2
  <2> QED BY <1>3, <1>4, <2>3 DEF ScanInv, ScanTypes, OneBlockPerFile
<1> QED BY <1>5, <1>6 DEF ScanInit

\* A new block beside those there are.
LEMMA WithOne ==
  ASSUME ScanTypes, NEW b \in Fresh, NEW r \in Record, blocks' = With(b, r)
  PROVE  /\ DOMAIN blocks' = DOMAIN blocks \cup {b} /\ b \in Block /\ b \notin DOMAIN blocks
         /\ blocks'[b] = r /\ \A c \in DOMAIN blocks : blocks'[c] = blocks[c]
         /\ blocks' \in [DOMAIN blocks' -> Record]
<1>1. b \in Block /\ b \notin DOMAIN blocks
  BY DEF Fresh
<1> QED BY <1>1 DEF With, ScanTypes

\* The files of a walk have different names.
LEMMA WalkApart ==
  ASSUME ScanTypes
  PROVE  /\ Walk \in SUBSET Found
         /\ \A f, g \in Walk : f.file = g.file => f = g
BY DEF Walk, ScanTypes, Found, Contents

\* Steps that touch no block.
LEMMA ScanLooks ==
  ASSUME OneScan, ScanInv, NEW p \in Scanner, UNCHANGED blocks,
         \/ OpenProject(p) \/ InitProject(p) \/ ScanProject(p)
         \/ ReadFile(p) \/ WriteRefused(p) \/ Finish(p) \/ ScanDies(p)
  PROVE  ScanInv'
<1>0. /\ ScanTypes /\ OneBlockPerFile /\ Tidy(p)
      /\ scan \in [Scanner -> Scanning] /\ scan[p] \in Scanning
      /\ \A q \in Scanner : q = p
  BY DEF ScanInv, ScanTypes, OneScan
<1>1. UNCHANGED disk /\ OneBlockPerFile'
  BY <1>0 DEF OneBlockPerFile, OpenProject, InitProject, ScanProject,
              ReadFile, WriteRefused, Finish, ScanDies
<1>2. SUFFICES scan' \in [Scanner -> Scanning] /\ Tidy(p)'
  BY <1>0, <1>1 DEF ScanInv, ScanTypes
<1>3. CASE OpenProject(p)
  <2>1. PICK one \in File \cup {Absent} :
          scan' = [scan EXCEPT ![p] = [NoScan EXCEPT !.at = "walk", !.one = one,
                                                       !.view = DOMAIN blocks]]
    BY <1>3 DEF OpenProject
  <2> DEFINE r == [NoScan EXCEPT !.at = "walk", !.one = one, !.view = DOMAIN blocks]
  <2>2. /\ r \in Scanning /\ r.at = "walk" /\ r.view = DOMAIN blocks
        /\ r.files = {} /\ r.left = {} /\ r.result = "none"
    BY <1>0 DEF NoScan, Scanning, ScanTypes
  <2>3. scan' \in [Scanner -> Scanning] /\ scan'[p] = r
    BY <1>0, <2>1, <2>2
  <2> QED BY <2>2, <2>3 DEF Tidy, Through
<1>4. CASE InitProject(p)
  <2>0. PICK own \in BOOLEAN :
          scan' = [scan EXCEPT ![p] = [NoScan EXCEPT !.at = "append", !.files = Walk,
                                                     !.left = Walk, !.own = own]]
    BY <1>4 DEF InitProject
  <2> DEFINE r == [NoScan EXCEPT !.at = "append", !.files = Walk,
                                   !.left = Walk, !.own = own]
  <2>1. /\ r \in Scanning /\ r.at = "append" /\ r.view = {}
        /\ r.files = Walk /\ r.left = Walk /\ r.result = "none"
    BY <1>0, WalkApart DEF NoScan, Scanning
  <2>2. scan' = [scan EXCEPT ![p] = r] /\ blocks' = <<>>
    BY <1>4, <2>0 DEF InitProject
  <2>3. scan' \in [Scanner -> Scanning] /\ scan'[p] = r /\ DOMAIN blocks' = {}
    BY <1>0, <2>1, <2>2
  <2> QED BY <1>0, <2>1, <2>3, WalkApart DEF Tidy, Through
<1>5. CASE ScanProject(p)
  <2>0. PICK own \in BOOLEAN :
          scan' = [scan EXCEPT ![p].at = "next", ![p].files = Walk, ![p].left = Walk,
                               ![p].own = own]
    BY <1>5 DEF ScanProject
  <2> DEFINE r == [scan[p] EXCEPT !.at = "next", !.files = Walk, !.left = Walk, !.own = own]
  <2>1. /\ r \in Scanning /\ r.at = "next" /\ r.view = scan[p].view
        /\ r.files = Walk /\ r.left = Walk /\ r.result = scan[p].result
    BY <1>0, WalkApart DEF Scanning
  <2>2. scan' = [scan EXCEPT ![p] = r] /\ scan[p].at = "walk"
    BY <1>0, <1>5, <2>0 DEF ScanProject
  <2>3. scan' \in [Scanner -> Scanning] /\ scan'[p] = r
    BY <1>0, <2>1, <2>2
  <2>4. scan[p].result # "scanned" /\ scan[p].view \subseteq DOMAIN blocks
    BY <1>0, <2>2 DEF Tidy
  <2>5. DOMAIN blocks \subseteq scan[p].view
    BY <1>0, <2>2 DEF Tidy, Through
  <2> QED BY <1>0, <2>1, <2>3, <2>4, <2>5, WalkApart DEF Tidy, Through
<1>6. CASE ReadFile(p)
  BY <1>0, <1>6 DEF ReadFile, EndScan, Scanning, Tidy, Through, ScanTypes, Found
<1>7. CASE Finish(p) \/ WriteRefused(p)
  BY <1>0, <1>7 DEF Finish, WriteRefused, EndScan, Scanning, Tidy, Through, ScanTypes, Holds
<1>8. CASE ScanDies(p)
  BY <1>0, <1>8 DEF ScanDies, NoScan, Scanning, Tidy, Through, ScanTypes
<1> QED BY <1>3, <1>4, <1>5, <1>6, <1>7, <1>8

\* A block is made for a file that has none.
LEMMA MakesFirst ==
  ASSUME OneScan, ScanInv, NEW p \in Scanner, NEW f \in scan[p].left,
         scan[p].at \in {"append", "next"},
         \A b \in scan[p].view : blocks[b].name # f.file
  PROVE  \A b \in DOMAIN blocks : blocks[b].name # f.file
<1>1. Tidy(p) /\ f \in scan[p].files
  BY DEF ScanInv, Tidy
<1>2. ASSUME NEW b \in DOMAIN blocks \ scan[p].view, blocks[b].name = f.file
      PROVE  FALSE
  <2>1. PICK g \in Through(p) : g.file = blocks[b].name
    BY <1>1, <1>2 DEF Tidy
  <2>2. g = f
    BY <1>1, <1>2, <2>1 DEF Tidy, Through
  <2> QED BY <2>1, <2>2 DEF Through
<1> QED BY <1>2

LEMMA ScanAppends ==
  ASSUME OneScan, ScanInv, NEW p \in Scanner, AppendEvent(p)
  PROVE  ScanInv'
<1>0. /\ ScanTypes /\ OneBlockPerFile /\ Tidy(p)
      /\ scan \in [Scanner -> Scanning] /\ scan[p] \in Scanning
      /\ \A q \in Scanner : q = p
  BY DEF ScanInv, ScanTypes, OneScan
<1>1. scan[p].at = "append" /\ scan[p].view = {}
  BY <1>0 DEF AppendEvent, Tidy
<1> DEFINE r(f) == [name |-> f.file, type |-> Inferred(scan[p].own, f.file),
                    content |-> IF f.content = Binary THEN Absent ELSE f.content]
<1>2. PICK f \in scan[p].left, b \in Fresh :
        blocks' = With(b, r(f)) /\ scan' = [scan EXCEPT ![p].left = @ \ {f}]
  BY DEF AppendEvent
<1>3. f \in Found /\ f \in scan[p].files
  BY <1>0 DEF Scanning, Tidy
<1>4. r(f) \in Record
  BY <1>3 DEF Record, Found, Contents, Inferred
<1>5. /\ DOMAIN blocks' = DOMAIN blocks \cup {b} /\ b \in Block /\ b \notin DOMAIN blocks
      /\ blocks'[b] = r(f) /\ \A c \in DOMAIN blocks : blocks'[c] = blocks[c]
      /\ blocks' \in [DOMAIN blocks' -> Record]
  BY <1>0, <1>2, <1>4, WithOne
<1>6. \A c \in DOMAIN blocks : blocks[c].name # f.file
  BY <1>1, MakesFirst
<1>7. OneBlockPerFile'
  BY <1>0, <1>5, <1>6 DEF OneBlockPerFile
<1>8. /\ scan'[p].left = scan[p].left \ {f} /\ scan'[p].files = scan[p].files
      /\ scan'[p].view = {} /\ scan'[p].at = "append" /\ scan'[p].result = scan[p].result
      /\ scan'[p] \in Scanning /\ scan' \in [Scanner -> Scanning]
  BY <1>0, <1>1, <1>2 DEF Scanning
<1>9. Through(p)' = Through(p) \cup {f}
  BY <1>3, <1>8 DEF Through
<1>10. f.content # Binary => blocks'[b].name = f.file /\ blocks'[b].content = f.content
  BY <1>5
<1>11. \A g \in Through(p)' : g.content # Binary => Holds(g)'
  BY <1>0, <1>5, <1>9, <1>10 DEF Tidy, Holds
<1>12. \A c \in DOMAIN blocks' : \E g \in Through(p)' : g.file = blocks'[c].name
  <2>1. \A c \in DOMAIN blocks : \E g \in Through(p) : g.file = blocks[c].name
    BY <1>0, <1>1 DEF Tidy
  <2>2. blocks'[b].name = f.file
    BY <1>5
  <2> QED BY <1>5, <1>9, <2>1, <2>2
<1>13. Tidy(p)'
  BY <1>0, <1>1, <1>8, <1>11, <1>12 DEF Tidy
<1>14. DOMAIN blocks' \subseteq Block /\ disk' = disk
  BY <1>0, <1>5 DEF AppendEvent, ScanTypes
<1> QED BY <1>0, <1>5, <1>7, <1>8, <1>13, <1>14 DEF ScanInv, ScanTypes

\* Writing the contents of a file at hand into its block disturbs no other file.
LEMMA ScanWrites ==
  ASSUME OneScan, ScanInv, NEW p \in Scanner, scan[p].at \in {"next", "write"},
         NEW f \in scan[p].left, NEW b \in DOMAIN blocks,
         blocks[b].name = f.file,
         blocks' = [blocks EXCEPT ![b].content =
                       IF f.content = Binary THEN @ ELSE f.content],
         disk' = disk, NEW n \in Block \cup {Absent},
         scan' = [scan EXCEPT ![p].left = @ \ {f}, ![p].at = "next", ![p].new = n],
         scan[p].at = "write" => b = scan[p].new
  PROVE  ScanInv'
<1>0. /\ ScanTypes /\ OneBlockPerFile /\ Tidy(p)
      /\ scan \in [Scanner -> Scanning] /\ scan[p] \in Scanning
      /\ \A q \in Scanner : q = p
  BY DEF ScanInv, ScanTypes, OneScan
<1>1. f \in Found /\ f \in scan[p].files
  BY <1>0 DEF Scanning, Tidy
<1> DEFINE r == [blocks[b] EXCEPT !.content = IF f.content = Binary THEN @ ELSE f.content]
<1>2. /\ r \in Record /\ r.name = f.file /\ r.type = blocks[b].type
      /\ f.content # Binary => r.content = f.content
  <2>1. blocks[b] \in Record
    BY <1>0 DEF ScanTypes
  <2> QED BY <1>1, <2>1 DEF Record, Found, Contents
<1>3. blocks' = [blocks EXCEPT ![b] = r]
  BY <1>0 DEF ScanTypes
<1> HIDE DEF r
<1>4. /\ DOMAIN blocks' = DOMAIN blocks /\ blocks' \in [DOMAIN blocks' -> Record]
      /\ blocks'[b] = r /\ \A c \in DOMAIN blocks \ {b} : blocks'[c] = blocks[c]
  BY <1>0, <1>2, <1>3 DEF ScanTypes
<1>5. \A c \in DOMAIN blocks : /\ blocks'[c].name = blocks[c].name
                              /\ blocks'[c].type = blocks[c].type
  BY <1>2, <1>4
<1>6. OneBlockPerFile'
  BY <1>0, <1>4, <1>5 DEF OneBlockPerFile
<1>7. /\ scan'[p].left = scan[p].left \ {f} /\ scan'[p].files = scan[p].files
      /\ scan'[p].view = scan[p].view /\ scan'[p].at = "next"
      /\ scan'[p].result = scan[p].result
      /\ scan'[p] \in Scanning /\ scan' \in [Scanner -> Scanning]
  BY <1>0 DEF Scanning
<1>8. Through(p)' = Through(p) \cup {f}
  BY <1>1, <1>7 DEF Through
<1>9. ASSUME NEW g \in Through(p)', g.content # Binary
      PROVE  Holds(g)'
  <2>1. CASE g = f
    BY <1>2, <1>4, <1>9, <2>1 DEF Holds
  <2>2. CASE g # f
    <3>1. PICK c \in DOMAIN blocks : blocks[c].name = g.file /\ blocks[c].content = g.content
      BY <1>0, <1>8, <1>9, <2>2 DEF Tidy, Holds
    <3>2. g.file # f.file
      BY <1>0, <1>1, <1>8, <2>2 DEF Tidy, Through
    <3>3. c # b
      BY <3>1, <3>2
    <3> QED BY <1>4, <3>1, <3>3 DEF Holds
  <2> QED BY <2>1, <2>2
<1>10. ASSUME NEW c \in DOMAIN blocks' \ scan'[p].view
       PROVE  \E g \in Through(p)' : g.file = blocks'[c].name
  <2>1. CASE c = b
    BY <1>2, <1>4, <1>8, <2>1
  <2>2. CASE c # b
    BY <1>0, <1>4, <1>5, <1>7, <1>8, <1>10, <2>2 DEF Tidy
  <2> QED BY <2>1, <2>2
<1>11. Tidy(p)'
  BY <1>0, <1>4, <1>7, <1>9, <1>10 DEF Tidy
<1> QED BY <1>0, <1>4, <1>6, <1>7, <1>11 DEF ScanInv, ScanTypes

LEMMA ScanUpdates ==
  ASSUME OneScan, ScanInv, NEW p \in Scanner, UpdateBlock(p)
  PROVE  ScanInv'
<1>0. /\ ScanTypes /\ OneBlockPerFile /\ Tidy(p)
      /\ scan \in [Scanner -> Scanning] /\ scan[p] \in Scanning
      /\ \A q \in Scanner : q = p
  BY DEF ScanInv, ScanTypes, OneScan
<1>1a. PICK f \in scan[p].left : \E b \in NamedBlocks(p, f.file) :
        IF f.content = Binary
        THEN scan' = [scan EXCEPT ![p].left = @ \ {f}] /\ UNCHANGED blocks
        ELSE IF blocks[b].type # "document"
        THEN EndScan(p, "failed") /\ UNCHANGED blocks
        ELSE /\ blocks' = [blocks EXCEPT ![b].content = f.content]
             /\ scan' = [scan EXCEPT ![p].left = @ \ {f}]
  BY DEF UpdateBlock
<1>1. PICK b \in NamedBlocks(p, f.file) :
        IF f.content = Binary
        THEN scan' = [scan EXCEPT ![p].left = @ \ {f}] /\ UNCHANGED blocks
        ELSE IF blocks[b].type # "document"
        THEN EndScan(p, "failed") /\ UNCHANGED blocks
        ELSE /\ blocks' = [blocks EXCEPT ![b].content = f.content]
             /\ scan' = [scan EXCEPT ![p].left = @ \ {f}]
  BY <1>1a
<1>2. /\ scan[p].at = "next" /\ disk' = disk
      /\ b \in DOMAIN blocks /\ b \in scan[p].view /\ blocks[b].name = f.file
  BY <1>0 DEF UpdateBlock, NamedBlocks, Tidy
<1>3. f \in Found /\ f \in scan[p].files
  BY <1>0 DEF Scanning, Tidy
<1>4. CASE f.content = Binary
  <2>1. /\ scan' \in [Scanner -> Scanning] /\ scan'[p].left = scan[p].left \ {f}
        /\ scan'[p].files = scan[p].files /\ scan'[p].view = scan[p].view
        /\ scan'[p].at = "next" /\ scan'[p].result = scan[p].result
    BY <1>0, <1>1, <1>2, <1>4 DEF Scanning
  <2>2. Through(p)' = Through(p) \cup {f} /\ blocks' = blocks
    BY <1>1, <1>3, <1>4, <2>1 DEF Through
  <2>3. Tidy(p)'
    BY <1>0, <1>2, <1>4, <2>1, <2>2 DEF Tidy, Holds
  <2> QED BY <1>0, <1>2, <2>1, <2>2, <2>3 DEF ScanInv, ScanTypes, OneBlockPerFile
<1>5. CASE f.content # Binary /\ blocks[b].type # "document"
  <2>1. /\ scan' \in [Scanner -> Scanning] /\ scan'[p].left = scan[p].left
        /\ scan'[p].files = scan[p].files /\ scan'[p].view = scan[p].view
        /\ scan'[p].at = "idle" /\ scan'[p].result = "failed"
    BY <1>0, <1>1, <1>5 DEF Scanning, EndScan
  <2>2. Through(p)' = Through(p) /\ blocks' = blocks
    BY <1>1, <1>5, <2>1 DEF Through
  <2>3. Tidy(p)'
    BY <1>0, <2>1, <2>2 DEF Tidy, Holds
  <2> QED BY <1>0, <1>2, <2>1, <2>2, <2>3 DEF ScanInv, ScanTypes, OneBlockPerFile
<1>6. CASE f.content # Binary /\ blocks[b].type = "document"
  <2> DEFINE n == scan[p].new
  <2>1. scan' = [scan EXCEPT ![p].left = @ \ {f}, ![p].at = "next", ![p].new = n]
    <3>1. scan' = [scan EXCEPT ![p].left = @ \ {f}]
      BY <1>1, <1>6
    <3>2. [scan[p] EXCEPT !.left = @ \ {f}] =
             [scan[p] EXCEPT !.left = @ \ {f}, !.at = "next", !.new = n]
      BY <1>0, <1>2 DEF Scanning
    <3> QED BY <1>0, <3>1, <3>2
  <2>2. blocks' = [blocks EXCEPT ![b].content =
                      IF f.content = Binary THEN @ ELSE f.content]
    BY <1>1, <1>6
  <2>3. n \in Block \cup {Absent}
    BY <1>0 DEF Scanning
  <2> HIDE DEF n
  <2> QED BY <1>2, <1>6, <2>1, <2>2, <2>3, ScanWrites
<1> QED BY <1>4, <1>5, <1>6

LEMMA ScanFills ==
  ASSUME OneScan, ScanInv, NEW p \in Scanner, WriteBlock(p)
  PROVE  ScanInv'
<1>0. Tidy(p)
  BY DEF ScanInv
<1>1. scan[p].at = "write" /\ disk' = disk
  BY DEF WriteBlock
<1>2. scan[p].new \in DOMAIN blocks
  BY <1>0, <1>1 DEF Tidy
<1>3. PICK f \in scan[p].left :
        /\ f.file = blocks[scan[p].new].name
        /\ blocks' = [blocks EXCEPT ![scan[p].new].content =
                         IF f.content = Binary THEN @ ELSE f.content]
        /\ scan' = [scan EXCEPT ![p].left = @ \ {f}, ![p].at = "next", ![p].new = Absent]
  BY DEF WriteBlock
<1> QED BY <1>1, <1>2, <1>3, ScanWrites

LEMMA ScanCreates ==
  ASSUME OneScan, ScanInv, NEW p \in Scanner, CreateBlock(p)
  PROVE  ScanInv'
<1>0. /\ ScanTypes /\ OneBlockPerFile /\ Tidy(p)
      /\ scan \in [Scanner -> Scanning] /\ scan[p] \in Scanning
      /\ \A q \in Scanner : q = p
  BY DEF ScanInv, ScanTypes, OneScan
<1> DEFINE r(f, own) == [Document(f.file, Absent) EXCEPT !.type = Inferred(own, f.file)]
<1>1. PICK f \in scan[p].left, b \in Fresh, own \in BOOLEAN :
        /\ NamedBlocks(p, f.file) = {}
        /\ blocks' = With(b, r(f, own))
        /\ scan' = [scan EXCEPT ![p].new = b, ![p].at = "write", ![p].own = own]
  BY DEF CreateBlock
<1>2. scan[p].at = "next" /\ disk' = disk
  BY DEF CreateBlock
<1>3. f \in Found /\ f \in scan[p].files
  BY <1>0 DEF Scanning, Tidy
<1>4. r(f, own) \in Record /\ r(f, own).name = f.file
  BY <1>3 DEF Record, Found, Contents, Inferred, Document
<1> HIDE DEF r
<1>5. /\ DOMAIN blocks' = DOMAIN blocks \cup {b} /\ b \in Block /\ b \notin DOMAIN blocks
      /\ blocks'[b] = r(f, own) /\ \A c \in DOMAIN blocks : blocks'[c] = blocks[c]
      /\ blocks' \in [DOMAIN blocks' -> Record]
  BY <1>0, <1>1, <1>4, WithOne
<1>6. \A c \in DOMAIN blocks : blocks[c].name # f.file
  <2>1. \A c \in scan[p].view : blocks[c].name # f.file
    BY <1>1 DEF NamedBlocks
  <2> QED BY <1>2, <2>1, MakesFirst
<1>7. OneBlockPerFile'
  BY <1>0, <1>4, <1>5, <1>6 DEF OneBlockPerFile
<1>8. /\ scan'[p].left = scan[p].left /\ scan'[p].files = scan[p].files
      /\ scan'[p].view = scan[p].view /\ scan'[p].at = "write"
      /\ scan'[p].new = b /\ scan'[p].result = scan[p].result
      /\ scan' \in [Scanner -> Scanning]
  BY <1>0, <1>1, <1>5 DEF Scanning
<1>9. Through(p)' = Through(p)
  BY <1>8 DEF Through
<1>10. \A g \in Through(p) : g.content # Binary => Holds(g)'
  BY <1>0, <1>5 DEF Tidy, Holds
<1>11. \A c \in DOMAIN blocks \ scan[p].view :
           \E g \in Through(p) : g.file = blocks[c].name
  BY <1>0, <1>2 DEF Tidy
<1>12. Tidy(p)'
  BY <1>0, <1>2, <1>4, <1>5, <1>8, <1>9, <1>10, <1>11 DEF Tidy
<1>13. DOMAIN blocks' \subseteq Block
  BY <1>0, <1>5 DEF ScanTypes
<1> QED BY <1>0, <1>2, <1>5, <1>7, <1>8, <1>12, <1>13 DEF ScanInv, ScanTypes

LEMMA ScanInvStep ==
  ASSUME OneScan, ScanInv, [ScanNext]_(scanVars)
  PROVE  ScanInv'
<1>1. ASSUME NEW p \in Scanner, ScanStep(p) PROVE ScanInv'
  <2>1. OpenProject(p) \/ InitProject(p) \/ ScanProject(p)
           \/ ReadFile(p) \/ WriteRefused(p) \/ Finish(p) \/ ScanDies(p)
             => UNCHANGED blocks
    BY DEF OpenProject, InitProject, ScanProject, ReadFile, WriteRefused,
           Finish, ScanDies
  <2> QED BY <1>1, <2>1, ScanLooks, ScanAppends, ScanUpdates, ScanFills, ScanCreates
          DEF ScanStep
<1>2. CASE EditFile
  <2>1. disk' \in [File -> Contents]
    BY <1>2 DEF EditFile, ScanInv, ScanTypes, Contents
  <2> QED BY <1>2, <2>1 DEF EditFile, ScanInv, ScanTypes, OneBlockPerFile,
                           Tidy, Through, Holds
<1>3. CASE EditTypes
  BY <1>3 DEF EditTypes, ScanInv, ScanTypes, OneBlockPerFile, Tidy, Through, Holds
<1>4. CASE UNCHANGED scanVars
  BY <1>4 DEF scanVars, ScanInv, ScanTypes, OneBlockPerFile, Tidy, Through, Holds
<1> QED BY <1>1, <1>2, <1>3, <1>4 DEF ScanNext

\* The inductive invariant of scans, one at a time: what a scan is through with is
\* in blocks, and there is no block that it neither found nor made (scan.rs).
THEOREM ScanSafety ==
  ASSUME OneScan
  PROVE  ScanSpec => []ScanInv
BY ScanInvInit, ScanInvStep, PTL DEF ScanSpec

\* With one scan at a time, a file has one block, whatever dies and however files
\* come and go (run_batch, run_single_file, create_blocks_for_files).
THEOREM FilesHaveOneBlock ==
  ASSUME OneScan
  PROVE  ScanSpec => []OneBlockPerFile
<1>1. ScanInv => OneBlockPerFile
  BY DEF ScanInv
<1> QED BY <1>1, ScanSafety, PTL

\* With one scan at a time, a scan that reports success has every text file it
\* found in a block, with the contents it found.
THEOREM ScansAreComplete ==
  ASSUME OneScan
  PROVE  ScanSpec => []ScanIsComplete
<1>1. ScanInv => ScanIsComplete
  BY DEF ScanInv, Tidy, Through, ScanIsComplete
<1> QED BY <1>1, ScanSafety, PTL

-----------------------------------------------------------------------------
(***************************************************************************)
(* The extension generator.                                                *)
(***************************************************************************)

Amended  == {"extensions/mod.rs", "registry.rs", "lib.rs"}
Creating == [at : {"write", "modules", "registry", "types"}, ext : Ext,
             caps : SUBSET Cap, left : SUBSET ({"mod.rs", "tests.rs"} \cup Cap)]

FileTypes == /\ declared \in [Ext -> SUBSET Cap]
             /\ dir \in [Ext -> SUBSET ({"mod.rs", "tests.rs"} \cup Cap)]
             /\ broken \subseteq {"extensions/mod.rs", "registry.rs"}
             /\ ~anchored => types = {}

MakeTypes == /\ FileTypes
             /\ last \in [Ext -> {"none", "ok", "failed"}]
             /\ torn \in [Ext -> SUBSET Amended]
             /\ report = NoReport \/ report \in [of : Ext, passed : BOOLEAN, warns : BOOLEAN]
             /\ run = NoRun \/ run \in Creating

\* What the create in progress has done by its step.
AtWork ==
    /\ Valid(run.ext, run.caps)
    /\ run.left \subseteq Generated(run.caps)
    /\ Generated(run.caps) \ run.left \subseteq dir[run.ext]
    /\ "mod.rs" \notin run.left => declared[run.ext] = run.caps /\ run.ext \in tested
    /\ run.at # "write" => run.left = {}
    /\ run.at \in {"registry", "types"} => /\ "extensions/mod.rs" \in present
                                           /\ run.ext \in modules
    /\ run.at = "types" =>
          /\ "registry.rs" \in present /\ run.ext \in uses
          /\ \A c \in run.caps : Struct(run.ext, c) \in registered

\* What the last create of an extension leaves, if it was reported done and no
\* other has begun: its own files, and its lines in those not cut off since.
Entered(e) ==
    /\ "extensions/mod.rs" \notin torn[e] => e \in modules
    /\ "registry.rs" \notin torn[e] =>
          e \in uses /\ \A c \in declared[e] : Struct(e, c) \in registered
    /\ "lib.rs" \notin torn[e] /\ anchored =>
          \A c \in declared[e] : <<e, Struct(e, c)>> \in types
Left(e) == /\ Valid(e, declared[e])
           /\ Generated(declared[e]) \subseteq dir[e] /\ e \in tested
           /\ {"extensions/mod.rs", "registry.rs"} \subseteq present
           /\ Entered(e)

MakeInv == /\ MakeTypes
           /\ run.at # "idle" => AtWork
           /\ \A e \in Ext :
                 last[e] = "ok" /\ (run.at # "idle" => run.ext # e) => Left(e)

\* Lines go only from a file that is cut off.
Keeps(gone) ==
    /\ "extensions/mod.rs" \notin gone => modules \subseteq modules'
    /\ "registry.rs" \notin gone => uses \subseteq uses' /\ registered \subseteq registered'
    /\ "lib.rs" \notin gone => types \subseteq types' /\ anchored' = anchored

\* Only the extension being created is written to.
Spares(x) == \A e \in Ext \ {x} : /\ declared'[e] = declared[e] /\ dir'[e] = dir[e]
                                  /\ e \in tested => e \in tested'

-----------------------------------------------------------------------------
LEMMA MakeInvInit == ScaffoldInit => MakeInv
BY DEF ScaffoldInit, NoRun, MakeInv, MakeTypes, FileTypes

LEMMA OthersStay ==
  ASSUME NEW e \in Ext, NEW x, e # x, Left(e), Spares(x), NEW gone, Keeps(gone),
         torn'[e] = torn[e] \cup gone, present' = present
  PROVE  Left(e)'
<1>1. declared'[e] = declared[e] /\ dir'[e] = dir[e] /\ e \in tested'
  BY DEF Spares, Left
<1>2. /\ Valid(e, declared[e])' /\ Generated(declared[e])' = Generated(declared[e])
      /\ \A c : Struct(e, c)' = Struct(e, c)
  BY <1>1 DEF Left, Valid, Generated, Struct
<1>3. Entered(e)'
  <2>1. "extensions/mod.rs" \notin torn'[e] => e \in modules'
    BY DEF Left, Entered, Keeps
  <2>2. "registry.rs" \notin torn'[e] =>
          e \in uses' /\ \A c \in declared[e] : Struct(e, c) \in registered'
    BY DEF Left, Entered, Keeps
  <2>3. "lib.rs" \notin torn'[e] /\ anchored' =>
          \A c \in declared[e] : <<e, Struct(e, c)>> \in types'
    BY DEF Left, Entered, Keeps
  <2> QED BY <1>1, <1>2, <2>1, <2>2, <2>3 DEF Entered
<1> QED BY <1>1, <1>2, <1>3 DEF Left

\* A create ends, and what it was about is whole if it is reported done.
LEMMA MakeEnds ==
  ASSUME MakeInv, run \in Creating, NEW result \in {"ok", "failed"},
         NEW gone \in SUBSET Amended, EndCreate(result, gone),
         FileTypes', Keeps(gone), Spares(run.ext), present' = present,
         NEW x \in Ext, x = run.ext, result = "ok" => Left(x)'
  PROVE  MakeInv'
<1>1. run' = NoRun /\ run'.at = "idle" /\ run.at # "idle"
  BY DEF EndCreate, NoRun, Creating
<1>2. last' = [last EXCEPT ![x] = result] /\ report' = report
  BY DEF EndCreate
<1>3. last \in [Ext -> {"none", "ok", "failed"}] /\ torn \in [Ext -> SUBSET Amended]
  BY DEF MakeInv, MakeTypes
<1>4. torn' = [e \in Ext |-> IF last'[e] = "ok" /\ e # x THEN torn[e] \cup gone ELSE {}]
  BY DEF EndCreate
<1>5. MakeTypes'
  BY <1>1, <1>2, <1>3, <1>4 DEF MakeInv, MakeTypes
<1>6. ASSUME NEW e \in Ext, last'[e] = "ok" PROVE Left(e)'
  <2>1. CASE e = x
    BY <1>2, <1>3, <1>6, <2>1
  <2>2. CASE e # x
    <3>1. Left(e)
      BY <1>2, <1>3, <1>6, <2>2 DEF MakeInv
    <3>2. torn'[e] = torn[e] \cup gone
      BY <1>4, <1>6, <2>2
    <3> QED BY <2>2, <3>1, <3>2, OthersStay
  <2> QED BY <2>1, <2>2
<1> QED BY <1>1, <1>5, <1>6 DEF MakeInv

\* A create goes on.
LEMMA MakeGoesOn ==
  ASSUME MakeInv, run \in Creating, run' \in Creating, run'.ext = run.ext,
         FileTypes', AtWork', Keeps({}), Spares(run.ext),
         UNCHANGED <<last, torn, report, present>>
  PROVE  MakeInv'
<1>1. run.at # "idle" /\ run'.at # "idle"
  BY DEF Creating
<1>2. MakeTypes'
  BY DEF MakeInv, MakeTypes
<1>3. ASSUME NEW e \in Ext, last'[e] = "ok", e # run.ext PROVE Left(e)'
  <2>1. Left(e)
    BY <1>1, <1>3 DEF MakeInv
  <2>2. torn'[e] = torn[e] \cup {}
    OBVIOUS
  <2> QED BY <1>3, <2>1, <2>2, OthersStay
<1> QED BY <1>1, <1>2, <1>3 DEF MakeInv

\* A create gives up, with some of its writing undone.
LEMMA MakeFails ==
  ASSUME MakeInv, run.at # "idle", NEW gone \in SUBSET Amended,
         EndCreate("failed", gone), FileTypes', Keeps(gone), Spares(run.ext),
         present' = present
  PROVE  MakeInv'
<1>1. run \in Creating
  BY DEF MakeInv, MakeTypes, NoRun
<1>2. PICK x \in Ext : x = run.ext
  BY <1>1 DEF Creating
<1> QED BY <1>1, <1>2, MakeEnds

-----------------------------------------------------------------------------
LEMMA WriteFileStep == MakeInv /\ WriteFile => MakeInv'
<1> SUFFICES ASSUME MakeInv, WriteFile PROVE MakeInv'
  OBVIOUS
<1>1. run \in Creating /\ AtWork /\ run.at = "write" /\ FileTypes
  BY DEF WriteFile, MakeInv, MakeTypes, NoRun
<1>2. PICK f \in run.left :
        /\ dir' = [dir EXCEPT ![run.ext] = @ \cup {f}]
        /\ IF f = "mod.rs" THEN /\ declared' = [declared EXCEPT ![run.ext] = run.caps]
                                /\ tested' = tested \cup {run.ext}
                           ELSE UNCHANGED <<declared, tested>>
        /\ run' = [run EXCEPT !.left = @ \ {f},
                              !.at = IF run.left = {f} THEN "modules" ELSE "write"]
  BY DEF WriteFile
<1>3. UNCHANGED <<present, anchored, broken, modules, uses, registered, types,
                  last, torn, report>>
  BY DEF WriteFile, lines
<1>4. /\ run' \in Creating /\ run'.ext = run.ext /\ run'.caps = run.caps
      /\ run'.left = run.left \ {f} /\ run'.at \in {"write", "modules"}
      /\ run'.at = "modules" => run'.left = {}
  BY <1>1, <1>2 DEF Creating
<1>5. run.ext \in Ext /\ run.caps \in SUBSET Cap /\ f \in {"mod.rs", "tests.rs"} \cup Cap
  BY <1>1 DEF Creating
<1>6. /\ declared' \in [Ext -> SUBSET Cap]
      /\ dir' \in [Ext -> SUBSET ({"mod.rs", "tests.rs"} \cup Cap)]
      /\ dir'[run.ext] = dir[run.ext] \cup {f}
      /\ declared'[run.ext] = IF f = "mod.rs" THEN run.caps ELSE declared[run.ext]
      /\ Spares(run.ext)
  BY <1>1, <1>2, <1>5 DEF FileTypes, Spares
<1>7. FileTypes' /\ Keeps({})
  BY <1>1, <1>3, <1>6 DEF FileTypes, Keeps
<1>8. AtWork'
  <2>1. "mod.rs" \notin run'.left =>
          declared'[run'.ext] = run'.caps /\ run'.ext \in tested'
    BY <1>1, <1>2, <1>4, <1>6 DEF AtWork
  <2> QED BY <1>1, <1>4, <1>6, <2>1 DEF AtWork, Valid, Generated
<1> QED BY <1>1, <1>3, <1>4, <1>6, <1>7, <1>8, MakeGoesOn

LEMMA ModulesStep == MakeInv /\ EnsureExtensionModule => MakeInv'
<1> SUFFICES ASSUME MakeInv, EnsureExtensionModule PROVE MakeInv'
  OBVIOUS
<1>1. run \in Creating /\ AtWork /\ run.at = "modules" /\ FileTypes
  BY DEF EnsureExtensionModule, MakeInv, MakeTypes, NoRun
<1>2. /\ run' = [run EXCEPT !.at = "registry"] /\ modules' = modules \cup {run.ext}
      /\ "extensions/mod.rs" \in present
      /\ UNCHANGED <<files, uses, registered, types, last, torn, report>>
  BY DEF EnsureExtensionModule, Proceed
<1>3. /\ run' \in Creating /\ run'.ext = run.ext /\ run'.caps = run.caps
      /\ run'.left = run.left /\ run'.at = "registry"
  BY <1>1, <1>2 DEF Creating
<1>4. FileTypes' /\ Keeps({}) /\ Spares(run.ext)
  BY <1>1, <1>2 DEF FileTypes, Keeps, Spares, files
<1>5. AtWork'
  BY <1>1, <1>2, <1>3 DEF AtWork, Valid, Generated, files
<1> QED BY <1>1, <1>2, <1>3, <1>4, <1>5, MakeGoesOn DEF files

LEMMA RegistryStep == MakeInv /\ UpdateRegistry => MakeInv'
<1> SUFFICES ASSUME MakeInv, UpdateRegistry PROVE MakeInv'
  OBVIOUS
<1>1. run \in Creating /\ AtWork /\ run.at = "registry" /\ FileTypes
  BY DEF UpdateRegistry, MakeInv, MakeTypes, NoRun
<1>2. /\ run' = [run EXCEPT !.at = "types"] /\ uses' = uses \cup {run.ext}
      /\ registered' = registered \cup {Struct(run.ext, c) : c \in run.caps}
      /\ "registry.rs" \in present
      /\ UNCHANGED <<files, modules, types, last, torn, report>>
  BY DEF UpdateRegistry, Proceed, Structs
<1>3. /\ run' \in Creating /\ run'.ext = run.ext /\ run'.caps = run.caps
      /\ run'.left = run.left /\ run'.at = "types"
  BY <1>1, <1>2 DEF Creating
<1>4. FileTypes' /\ Keeps({}) /\ Spares(run.ext)
  BY <1>1, <1>2 DEF FileTypes, Keeps, Spares, files
<1>5. AtWork'
  <2>1. \A c \in run.caps : Struct(run.ext, c) \in registered'
    BY <1>2
  <2>2. \A c \in run'.caps : Struct(run.ext, c)' \in registered'
    BY <1>3, <2>1 DEF Struct
  <2>3. Valid(run.ext, run.caps)' /\ Generated(run.caps)' = Generated(run.caps)
    BY <1>1, <1>3 DEF AtWork, Valid, Generated
  <2>4. /\ run'.left \subseteq Generated(run.caps)
        /\ Generated(run.caps) \ run'.left \subseteq dir'[run'.ext]
        /\ declared'[run'.ext] = run'.caps /\ run'.ext \in tested'
        /\ run'.left = {} /\ run'.ext \in modules' /\ run'.ext \in uses'
        /\ {"extensions/mod.rs", "registry.rs"} \subseteq present'
    BY <1>1, <1>2, <1>3 DEF AtWork, files
  <2> QED BY <2>2, <2>3, <2>4 DEF AtWork
<1> QED BY <1>1, <1>2, <1>3, <1>4, <1>5, MakeGoesOn DEF files

LEMMA SpectaStep == MakeInv /\ UpdateSpectaTypes => MakeInv'
<1> SUFFICES ASSUME MakeInv, UpdateSpectaTypes PROVE MakeInv'
  OBVIOUS
<1>1. run \in Creating /\ AtWork /\ run.at = "types" /\ FileTypes
  BY DEF UpdateSpectaTypes, MakeInv, MakeTypes, NoRun
<1>2. /\ EndCreate("ok", {})
      /\ types' = IF anchored
                  THEN types \cup {<<run.ext, Struct(run.ext, c)>> : c \in run.caps}
                  ELSE types
      /\ UNCHANGED <<files, modules, uses, registered>>
  BY DEF UpdateSpectaTypes, Payloads
<1>3. FileTypes' /\ Keeps({}) /\ Spares(run.ext) /\ present' = present
  BY <1>1, <1>2 DEF FileTypes, Keeps, Spares, files
<1>4. PICK x \in Ext : x = run.ext
  BY <1>1 DEF Creating
<1>5. declared[x] = run.caps /\ run.left = {}
  BY <1>1, <1>4 DEF AtWork
<1>6. /\ Valid(x, declared'[x]) /\ Generated(declared'[x]) \subseteq dir'[x]
      /\ x \in tested' /\ x \in modules' /\ x \in uses'
      /\ {"extensions/mod.rs", "registry.rs"} \subseteq present'
  BY <1>1, <1>2, <1>4, <1>5 DEF AtWork, files
<1>7. \A c \in declared'[x] : Struct(x, c) \in registered'
  BY <1>1, <1>2, <1>4, <1>5 DEF AtWork, files
<1>8. anchored' => \A c \in declared'[x] : <<x, Struct(x, c)>> \in types'
  <2>1. \A c \in run.caps : anchored => <<run.ext, Struct(run.ext, c)>> \in types'
    BY <1>2
  <2> QED BY <1>2, <1>4, <1>5, <2>1 DEF files
<1>9. Left(x)'
  BY <1>6, <1>7, <1>8 DEF Left, Entered, Valid, Generated, Struct
<1> QED BY <1>1, <1>2, <1>3, <1>4, <1>9, MakeEnds DEF Amended

LEMMA FileCutOffStep == MakeInv /\ FileCutOff => MakeInv'
<1> SUFFICES ASSUME MakeInv, FileCutOff PROVE MakeInv'
  OBVIOUS
<1>1. run \in Creating /\ run.at # "idle" /\ FileTypes
  BY DEF FileCutOff, MakeInv, MakeTypes, NoRun
<1>2. PICK f \in run.left :
        /\ dir' = [dir EXCEPT ![run.ext] = @ \cup {f}]
        /\ IF f = "mod.rs" THEN /\ \E some \in {{}, run.caps} :
                                      declared' = [declared EXCEPT ![run.ext] = some]
                                /\ tested' = tested \ {run.ext}
                           ELSE UNCHANGED <<declared, tested>>
  BY DEF FileCutOff
<1>3. /\ EndCreate("failed", {})
      /\ UNCHANGED <<present, anchored, broken, modules, uses, registered, types>>
  BY DEF FileCutOff, lines
<1>4. run.ext \in Ext /\ run.caps \in SUBSET Cap /\ f \in {"mod.rs", "tests.rs"} \cup Cap
  BY <1>1 DEF Creating
<1>5. dir' \in [Ext -> SUBSET ({"mod.rs", "tests.rs"} \cup Cap)]
  BY <1>1, <1>2, <1>4 DEF FileTypes
<1>6. declared' \in [Ext -> SUBSET Cap]
  BY <1>1, <1>2, <1>4 DEF FileTypes
<1>7. FileTypes' /\ Keeps({})
  BY <1>1, <1>3, <1>5, <1>6 DEF FileTypes, Keeps
<1>8. Spares(run.ext)
  BY <1>1, <1>2 DEF FileTypes, Spares
<1> QED BY <1>1, <1>3, <1>7, <1>8, MakeFails

LEMMA FailStep ==
  MakeInv /\ (\/ Fail \/ NoPlace \/ Missing("extensions/mod.rs", "modules")
              \/ Missing("registry.rs", "registry") \/ Missing("lib.rs", "types"))
    => MakeInv'
<1> SUFFICES ASSUME MakeInv, \/ Fail \/ NoPlace \/ Missing("extensions/mod.rs", "modules")
                             \/ Missing("registry.rs", "registry")
                             \/ Missing("lib.rs", "types")
             PROVE  MakeInv'
  OBVIOUS
<1>1. run.at # "idle" /\ EndCreate("failed", {}) /\ UNCHANGED project
  BY DEF Fail, NoPlace, Missing
<1>2. FileTypes' /\ Keeps({}) /\ Spares(run.ext) /\ present' = present
  BY <1>1 DEF MakeInv, MakeTypes, FileTypes, Keeps, Spares, project, files, lines
<1> QED BY <1>1, <1>2, MakeFails

LEMMA CutOffStep == MakeInv /\ (ModulesCutOff \/ RegistryCutOff \/ TypesCutOff) => MakeInv'
<1> SUFFICES ASSUME MakeInv PROVE ModulesCutOff \/ RegistryCutOff \/ TypesCutOff => MakeInv'
  OBVIOUS
<1>0. FileTypes
  BY DEF MakeInv, MakeTypes
<1>1. CASE ModulesCutOff
  <2>1. run.at # "idle" /\ EndCreate("failed", {"extensions/mod.rs"}) /\ present' = present
    BY <1>1 DEF ModulesCutOff
  <2>2. FileTypes' /\ Keeps({"extensions/mod.rs"}) /\ Spares(run.ext)
    BY <1>0, <1>1 DEF ModulesCutOff, MayBreak, FileTypes, Keeps, Spares
  <2> QED BY <2>1, <2>2, MakeFails DEF Amended
<1>2. CASE RegistryCutOff
  <2>1. run.at # "idle" /\ EndCreate("failed", {"registry.rs"}) /\ present' = present
    BY <1>2 DEF RegistryCutOff
  <2>2. FileTypes' /\ Keeps({"registry.rs"}) /\ Spares(run.ext)
    BY <1>0, <1>2 DEF RegistryCutOff, MayBreak, FileTypes, Keeps, Spares
  <2> QED BY <2>1, <2>2, MakeFails DEF Amended
<1>3. CASE TypesCutOff
  <2>1. run.at # "idle" /\ EndCreate("failed", {"lib.rs"}) /\ present' = present
    BY <1>3 DEF TypesCutOff
  <2>2. FileTypes' /\ Keeps({"lib.rs"}) /\ Spares(run.ext)
    BY <1>0, <1>3 DEF TypesCutOff, FileTypes, Keeps, Spares
  <2> QED BY <2>1, <2>2, MakeFails DEF Amended
<1> QED BY <1>1, <1>2, <1>3

LEMMA MakeInvStep == MakeInv /\ [ScaffoldNext]_(scaffoldVars) => MakeInv'
<1> SUFFICES ASSUME MakeInv, [ScaffoldNext]_(scaffoldVars) PROVE MakeInv'
  OBVIOUS
<1>1. ASSUME NEW e \in Ext, Validate(e) PROVE MakeInv'
  <2>1. /\ UNCHANGED <<project, run, last, torn>>
        /\ report' = [of |-> e, passed |-> Failed(e) = {}, warns |-> Warnings(e) # {}]
    BY <1>1 DEF Validate
  <2>2. report' \in [of : Ext, passed : BOOLEAN, warns : BOOLEAN]
    BY <2>1
  <2> QED BY <2>1, <2>2 DEF project, files, lines, MakeInv, MakeTypes, FileTypes, AtWork,
                            Left, Entered
<1>2. ASSUME NEW e \in Ext, NEW caps \in SUBSET Cap, Create(e, caps) PROVE MakeInv'
  <2>1. /\ run' = [at |-> "write", ext |-> e, caps |-> caps, left |-> Generated(caps)]
        /\ run.at = "idle" /\ Valid(e, caps) /\ report' = NoReport
        /\ UNCHANGED <<project, last, torn>>
    BY <1>2 DEF Create
  <2>2. run' \in Creating
    BY <2>1 DEF Creating, Generated
  <2>3. AtWork'
    BY <2>1 DEF AtWork, Valid, Generated
  <2>4. \A x \in Ext : last'[x] = "ok" => Left(x)'
    BY <2>1 DEF MakeInv, Left, Entered, Valid, Generated, Struct, project, files, lines
  <2>5. MakeTypes'
    BY <2>1, <2>2 DEF MakeInv, MakeTypes, FileTypes, project, files, lines
  <2> QED BY <2>3, <2>4, <2>5 DEF MakeInv
<1>3. CASE UNCHANGED scaffoldVars
  BY <1>3 DEF scaffoldVars, files, lines, MakeInv, MakeTypes, FileTypes, AtWork, Left, Entered
<1> QED BY <1>1, <1>2, <1>3, WriteFileStep, ModulesStep, RegistryStep, SpectaStep, FailStep,
           FileCutOffStep, CutOffStep DEF ScaffoldNext

-----------------------------------------------------------------------------
\* The inductive invariant of the generator: what a create has done by each of
\* its steps, and what one that was reported done has left, whatever the layout
\* of the project and whatever is cut off (commands/create.rs).
THEOREM MakeSafety == ScaffoldSpec => []MakeInv
BY MakeInvInit, MakeInvStep, PTL DEF ScaffoldSpec

\* The files of the capabilities are those of the last create.
LEMMA DoneFiles ==
  ASSUME MakeInv, NEW e \in Ext, Done(e)
  PROVE  Left(e) /\ Handlers(e) = declared[e] /\ declared[e] # {}
<1>1. Left(e) /\ declared[e] \subseteq Cap
  BY DEF MakeInv, MakeTypes, FileTypes, Done
<1>2. declared[e] \subseteq Handlers(e)
  BY <1>1 DEF Left, Generated, Handlers
<1> QED BY <1>1, <1>2 DEF Done, Left, Valid

\* An extension whose last create was reported done is complete, in every project
\* and under any names, but for what a create cut off since has taken.
THEOREM DoneMeansComplete == ScaffoldSpec => []DoneIsComplete
<1>1. MakeInv => DoneIsComplete
  <2> SUFFICES ASSUME MakeInv, NEW e \in Ext, Done(e)
               PROVE  /\ Handlers(e) = declared[e]
                      /\ Entered(e)
                      /\ Raw[e] = Snake[e] =>
                            \A c \in declared[e] : \E d \in Handlers(e) :
                                Module(e, c) = Stem(e, d)
    BY DEF DoneIsComplete, Entered
  <2>1. Handlers(e) = declared[e] /\ Entered(e)
    BY DoneFiles DEF Left
  <2>2. Raw[e] = Snake[e] =>
          \A c \in declared[e] : \E d \in Handlers(e) : Module(e, c) = Stem(e, d)
    BY <2>1 DEF Module, Stem
  <2> QED BY <2>1, <2>2
<1> QED BY <1>1, MakeSafety, PTL

\* Create and validate agree: an extension whose last create was reported done
\* passes, and is warned of exactly where there is a reason (validator.rs).
THEOREM DoneMeansClean == ScaffoldSpec => DoneIsClean
<1>1. ASSUME MakeInv, NEW e \in Ext, Done(e)
      PROVE  Failed(e) = {}
  <2>1. Left(e) /\ Handlers(e) = declared[e] /\ declared[e] # {}
    BY <1>1, DoneFiles
  <2>2. "mod.rs" \in dir[e] /\ dir[e] \cap (Cap \cup {"tests.rs"}) # {}
    BY <2>1 DEF Left, Generated, Handlers
  <2> QED BY <2>1, <2>2 DEF Failed, FilesMissing, PayloadsMissing
<1>2. ASSUME MakeInv, NEW e \in Ext, Done(e), Misplaced
      PROVE  Warnings(e) # {}
  <2>1. Handlers(e) # {}
    BY <1>2, DoneFiles
  <2>2. CASE layout # "within"
    <3>1. "register" \in RegistrationMissing(e)
      BY <2>1, <2>2 DEF RegistrationMissing, Registers
    <3> QED BY <3>1 DEF Warnings
  <2>3. CASE ~anchored
    <3>1. types = {}
      BY <1>2, <2>3 DEF MakeInv, MakeTypes, FileTypes
    <3>2. "Specta" \in RegistrationMissing(e)
      BY <3>1 DEF RegistrationMissing
    <3> QED BY <3>2 DEF Warnings
  <2>4. CASE broken # {}
    <3>1. "extensions/mod.rs" \in broken \/ "registry.rs" \in broken
      BY <1>2, <2>4 DEF MakeInv, MakeTypes, FileTypes
    <3>2. "pub mod" \in RegistrationMissing(e) \/ "use" \in RegistrationMissing(e)
      BY <3>1 DEF RegistrationMissing, Readable
    <3> QED BY <3>2 DEF Warnings
  <2> QED BY <1>2, <2>2, <2>3, <2>4 DEF Misplaced
<1>3. ASSUME MakeInv, NEW e \in Ext, Done(e), ~Misplaced, torn[e] = {},
             \A c \in declared[e] : Expected(e, c) = Struct(e, c)
      PROVE  Warnings(e) = {}
  <2>1. Left(e) /\ Handlers(e) = declared[e] /\ declared[e] # {}
    BY <1>3, DoneFiles
  <2>2. TestsMissing(e) = {}
    BY <2>1 DEF TestsMissing, Left, Generated
  <2>3. /\ e \in modules /\ e \in uses
        /\ Readable("extensions/mod.rs") /\ Readable("registry.rs")
    BY <1>3, <2>1 DEF Left, Entered, Misplaced, Readable
  <2>4. \A c \in Handlers(e) : Registers(Expected(e, c))
    BY <1>3, <2>1 DEF Left, Entered, Misplaced, Registers
  <2>5. e \in {t[1] : t \in types}
    <3>1. PICK c \in declared[e] : <<e, Struct(e, c)>> \in types
      BY <1>3, <2>1 DEF Left, Entered, Misplaced
    <3> QED BY <3>1
  <2>6. RegistrationMissing(e) = {}
    BY <1>3, <2>3, <2>4, <2>5 DEF RegistrationMissing, Misplaced
  <2> QED BY <2>2, <2>6 DEF Warnings
<1>4. ASSUME MakeInv, [ScaffoldNext]_(scaffoldVars), NEW e \in Ext, Reports(e), Done(e)
      PROVE  /\ report'.passed
             /\ Misplaced => report'.warns
             /\ report'.warns => \/ Misplaced \/ torn[e] # {}
                                    \/ \E c \in declared[e] : Expected(e, c) # Struct(e, c)
  <2>1. PICK x \in Ext : Validate(x)
    <3>1. report' # report /\ report' # NoReport
      BY <1>4 DEF Reports
    <3> QED BY <1>4, <3>1 DEF ScaffoldNext, scaffoldVars, Create, WriteFile,
         EnsureExtensionModule, Missing, UpdateRegistry, NoPlace, UpdateSpectaTypes, Fail,
         FileCutOff, ModulesCutOff, RegistryCutOff, TypesCutOff, EndCreate, Proceed
  <2>2. report' = [of |-> x, passed |-> Failed(x) = {}, warns |-> Warnings(x) # {}]
    BY <2>1 DEF Validate
  <2>3. x = e
    BY <1>4, <2>2 DEF Reports
  <2> QED BY <1>1, <1>2, <1>3, <1>4, <2>2, <2>3
<1>5. MakeInv /\ [ScaffoldNext]_(scaffoldVars) =>
        [\A e \in Ext : Reports(e) /\ Done(e) =>
            /\ report'.passed
            /\ Misplaced => report'.warns
            /\ report'.warns => \/ Misplaced \/ torn[e] # {}
                                   \/ \E c \in declared[e] : Expected(e, c) # Struct(e, c)
        ]_(scaffoldVars)
  BY <1>4
<1> QED BY <1>5, MakeSafety, PTL DEF ScaffoldSpec, DoneIsClean
=============================================================================
