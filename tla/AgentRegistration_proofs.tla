----------------------- MODULE AgentRegistration_proofs -----------------------
(***************************************************************************)
(* For any number of commands, agents, directories and roles: a            *)
(* configuration names no agent that lacks grants, a team is whole when it *)
(* is served, what was unregistered stays so, and what the user saved      *)
(* while nobody was about to write the file is not lost to a command.      *)
(***************************************************************************)
EXTENDS RegistrationProperties, SequenceTheorems, TLAPS

USE DEF store, history

AllRoles  == UNION {Range(t.roles) : t \in Templates}
AllGrants == UNION {Range(r.grants) : r \in AllRoles}

Store == {"editor", "grant", "delete"}
Files == {"mcp_read", "mcp_write", "settings_read", "settings_write", "skill"}
Ended == {"end", "serving"}

Stage == {"idle"} \cup Store \cup Files \cup Ended
Kinds == {None, "register", "run", "unregister"}
Name  == Agent \cup {None}
Place == Dir \cup {None}

File == [state : {"absent", "whole", "torn"}, user : SUBSET User, ours : Name]

Job == [at : Stage, for : Kinds,
        roles : Seq(AllRoles), serve : BOOLEAN,
        editor : Name, dir : Place, left : Seq(AllGrants),
        file : File, team : SUBSET Agent, settled : BOOLEAN]

Shapes == /\ DOMAIN role \subseteq Agent /\ editors \subseteq DOMAIN role
          /\ role \in [DOMAIN role -> AllRoles]
          /\ granted \in [Agent -> SUBSET AllGrants]
          /\ mcp \in [Dir -> File] /\ settings \in [Dir -> File]
          /\ job \in [Process -> Job]
          /\ removed \subseteq (DOMAIN role) \X Dir

\* The editor has what its role asks for, or was deleted since.
Done(e) == e \in editors => Complete(e)

Gone(e) == e \notin editors /\ granted[e] = {}

\* Where a command is, and what it has done by then.
Working(p) ==
    /\ job[p].editor \in DOMAIN role \cup {None}
    /\ \A e \in job[p].team : e \in DOMAIN role /\ Done(e)
    /\ job[p].at \in {"editor", "grant"} \cup Ended => Registering(p)
    /\ job[p].at \in Files => Registering(p) \/ Unregistering(p)
    /\ job[p].at = "delete" => Unregistering(p)
    /\ job[p].at \in {"grant", "delete"} \cup Files =>
          job[p].editor \in DOMAIN role /\ job[p].dir \in Dir
    /\ Registering(p) /\ job[p].at \in {"editor", "grant"} \cup Files =>
          job[p].roles # <<>>
    /\ job[p].at = "grant" /\ job[p].editor \in editors =>
          Range(role[job[p].editor].grants)
             \subseteq granted[job[p].editor] \cup Range(job[p].left)
    /\ Registering(p) /\ job[p].at \in Files => Done(job[p].editor)
    /\ Unregistering(p) /\ job[p].settled =>
          job[p].editor \in DOMAIN role /\ Settled(job[p].editor)
    /\ Unregistering(p) /\ job[p].settled /\ job[p].at \in Files => Gone(job[p].editor)
    /\ Unregistering(p) /\ job[p].settled /\ job[p].at = "skill" =>
          settings[job[p].dir].ours # job[p].editor
    /\ job[p].at \in Ended => job[p].roles = <<>>

\* Our entry in a file names an editor that is whole.
Named(d) == /\ settings[d].state = "absent" => settings[d].ours = None
            /\ settings[d].ours \in DOMAIN role \cup {None}
            /\ settings[d].ours # None => Done(settings[d].ours)

\* An editor that was removed has nobody left that could bring it back.
Removed(pair) == /\ Settled(pair[1]) /\ Gone(pair[1])
                 /\ settings[pair[2]].ours # pair[1]

RegistrationInv == /\ Shapes
                   /\ \A p \in Process : Working(p)
                   /\ \A d \in Dir : Named(d)
                   /\ \A pair \in removed : Removed(pair)

-----------------------------------------------------------------------------
(***************************************************************************)
(* Templates are made of roles and roles of grants.                        *)
(***************************************************************************)
LEMMA RolesAreWhole ==
  ASSUME NEW r \in AllRoles
  PROVE  r.dir \in Dir /\ r.grants \in Seq(AllGrants)
<1>1. PICK t \in Templates : r \in Range(t.roles)
  BY DEF AllRoles
<1>2. IsRole(r)
  BY <1>1, TemplatesAssumption DEF Range
<1>3. Range(r.grants) \subseteq AllGrants
  BY DEF AllGrants
<1>4. r.grants \in Seq(AllGrants)
  BY <1>2, <1>3, SeqMonotonic DEF IsRole
<1> QED BY <1>2, <1>4 DEF IsRole

LEMMA TemplatesAreWhole ==
  ASSUME NEW t \in Templates
  PROVE  t.roles \in Seq(AllRoles) /\ t.roles # <<>> /\ t.serve \in BOOLEAN
<1>1. Range(t.roles) \subseteq AllRoles
  BY DEF AllRoles
<1> QED BY <1>1, TemplatesAssumption, SeqMonotonic

LEMMA IdleIsJob == Idle \in Job /\ NoFile \in File /\ TornFile \in File
<1>1. NoFile \in File /\ TornFile \in File
  BY DEF NoFile, TornFile, File, Name
<1>2. <<>> \in Seq(AllRoles) /\ <<>> \in Seq(AllGrants)
  BY EmptySeq
<1> QED BY <1>1, <1>2 DEF Idle, Job, Stage, Kinds, Name, Place

LEMMA HeadAndTail ==
  ASSUME NEW S, NEW q \in Seq(S), q # <<>>
  PROVE  /\ Head(q) \in S /\ Tail(q) \in Seq(S)
         /\ Range(q) \subseteq {Head(q)} \cup Range(Tail(q))
         /\ Len(q) > 1 => Tail(q) # <<>>
         /\ ~(Len(q) > 1) => Tail(q) = <<>>
<1>1. Head(q) \in S /\ Tail(q) \in Seq(S) /\ Len(q) \in Nat /\ Len(q) > 0
      /\ Head(q) = q[1] /\ Len(Tail(q)) = Len(q) - 1
  BY HeadTailProperties, LenProperties, EmptySeq
<1>2. /\ Range(q) = {q[i] : i \in 1 .. Len(q)}
      /\ Range(Tail(q)) = {Tail(q)[i] : i \in 1 .. Len(Tail(q))}
  BY <1>1, RangeEquality
<1>3. ASSUME NEW i \in 1 .. Len(q) PROVE q[i] \in {Head(q)} \cup Range(Tail(q))
  <2>1. CASE i = 1
    BY <1>1, <2>1
  <2>2. CASE i # 1
    <3>1. i - 1 \in 1 .. Len(Tail(q)) /\ Tail(q)[i - 1] = q[i]
      BY <1>1, <2>2
    <3> QED BY <3>1, <1>2
  <2> QED BY <2>1, <2>2
<1>4. Len(Tail(q)) = 0 => Tail(q) = <<>>
  BY <1>1, EmptySeq
<1>5. Tail(q) = <<>> => Len(Tail(q)) = 0
  BY EmptySeq
<1>6. Range(q) \subseteq {Head(q)} \cup Range(Tail(q))
  BY <1>2, <1>3
<1> QED BY <1>1, <1>4, <1>5, <1>6

LEMMA NothingLeft == Range(<<>>) = {}
BY DEF Range

-----------------------------------------------------------------------------
(***************************************************************************)
(* A step of one command, seen from the others: the table of roles grows,  *)
(* editors are deleted but lose no grant while they are there, and one     *)
(* whose registration is over does not come back.                          *)
(***************************************************************************)
Mark(p) == job' = [job EXCEPT ![p] = job'[p]]

Grown == /\ DOMAIN role \subseteq DOMAIN role'
         /\ \A e \in DOMAIN role :
               /\ role'[e] = role[e]
               /\ e \in editors' => e \in editors /\ granted[e] \subseteq granted'[e]
               /\ Settled(e) =>
                     /\ Settled(e)'
                     /\ Gone(e) => Gone(e)'
                     /\ \A d \in Dir : settings[d].ours # e => settings'[d].ours # e

LEMMA GrownIsDone ==
  ASSUME Grown, NEW e \in DOMAIN role, Done(e)
  PROVE  Done(e)'
BY DEF Grown, Done, Complete

\* A command that goes on registering the editor it had, or a new one, unsettles none.
LEMMA StillSettled ==
  ASSUME RegistrationInv, NEW p \in Process, Mark(p),
         Registering(p)' => \/ job'[p].editor \notin DOMAIN role
                            \/ Registering(p) /\ job'[p].editor = job[p].editor,
         NEW e \in DOMAIN role, Settled(e)
  PROVE  Settled(e)'
<1>1. \A q \in Process : q # p => job'[q] = job[q]
  BY DEF Mark, RegistrationInv, Shapes
<1> QED BY <1>1 DEF Settled, Registering

LEMMA OthersWork ==
  ASSUME RegistrationInv, NEW q \in Process, job'[q] = job[q], Grown
  PROVE  Working(q)'
<1> SUFFICES ASSUME NEW e, e = job[q].editor PROVE Working(q)'
  OBVIOUS
<1>1. Working(q)
  BY DEF RegistrationInv
<1>2. e \in DOMAIN role =>
         /\ role'[e] = role[e] /\ e \in DOMAIN role'
         /\ e \in editors' => e \in editors /\ granted[e] \subseteq granted'[e]
         /\ Done(e) => Done(e)'
         /\ Settled(e) => /\ Settled(e)'
                          /\ Gone(e) => Gone(e)'
                          /\ \A d \in Dir : settings[d].ours # e => settings'[d].ours # e
  BY GrownIsDone DEF Grown
<1>3. \A x \in job[q].team : x \in DOMAIN role' /\ Done(x)'
  BY <1>1, GrownIsDone DEF Working, Grown
<1>4. job[q].at = "grant" /\ e \in editors' =>
         Range(role'[e].grants) \subseteq granted'[e] \cup Range(job[q].left)
  BY <1>1, <1>2 DEF Working
<1>5. Registering(q) /\ job[q].at \in Files => Done(e)'
  BY <1>1, <1>2 DEF Working
<1>6. /\ e \in DOMAIN role' \cup {None}
      /\ job[q].at \in {"grant", "delete"} \cup Files => e \in DOMAIN role'
  BY <1>1, <1>2 DEF Working
<1>7. Unregistering(q) /\ job[q].settled => e \in DOMAIN role' /\ Settled(e)'
  BY <1>1, <1>2 DEF Working
<1>8. Unregistering(q) /\ job[q].settled /\ job[q].at \in Files =>
         /\ Gone(e)'
         /\ job[q].at = "skill" => settings'[job[q].dir].ours # e
  BY <1>1, <1>2 DEF Working
<1>9. /\ Registering(q)' <=> Registering(q)
      /\ Unregistering(q)' <=> Unregistering(q)
  BY DEF Registering, Unregistering
<1>10. job[q].at \in {"editor", "grant"} \cup Ended => Registering(q)
  BY <1>1 DEF Working
<1>11. /\ job[q].at \in Files => Registering(q) \/ Unregistering(q)
       /\ job[q].at = "delete" => Unregistering(q)
       /\ job[q].at \in {"grant", "delete"} \cup Files => job[q].dir \in Dir
       /\ Registering(q) /\ job[q].at \in {"editor", "grant"} \cup Files =>
             job[q].roles # <<>>
       /\ job[q].at \in Ended => job[q].roles = <<>>
  BY <1>1 DEF Working
<1> HIDE <1>1
<1>12. (\A x \in job'[q].team : x \in DOMAIN role' /\ Done(x)')
       /\ job'[q].editor = e
  BY <1>3
<1>13. Done(e)' => Done(job[q].editor)'
  BY <1>12 DEF Done, Complete
<1>14. Settled(e)' => Settled(job[q].editor)'
  BY <1>12 DEF Settled
<1>15. Gone(e)' => Gone(job[q].editor)'
  BY <1>12 DEF Gone
<1>16. \A x \in job[q].team : (x \in DOMAIN role /\ Done(x))'
  BY <1>3
<1>17. (/\ job[q].at = "grant" /\ job[q].editor \in editors =>
              Range(role[job[q].editor].grants)
                 \subseteq granted[job[q].editor] \cup Range(job[q].left)
        /\ Registering(q) /\ job[q].at \in Files => Done(job[q].editor))'
  BY <1>4, <1>5, <1>9, <1>12, <1>13
<1>18. (/\ Unregistering(q) /\ job[q].settled =>
              job[q].editor \in DOMAIN role /\ Settled(job[q].editor)
        /\ Unregistering(q) /\ job[q].settled /\ job[q].at \in Files => Gone(job[q].editor)
        /\ Unregistering(q) /\ job[q].settled /\ job[q].at = "skill" =>
              settings[job[q].dir].ours # job[q].editor)'
  BY <1>7, <1>8, <1>9, <1>12, <1>14, <1>15 DEF Files
<1>19. (/\ job[q].editor \in DOMAIN role \cup {None}
        /\ job[q].at \in {"grant", "delete"} \cup Files =>
              job[q].editor \in DOMAIN role /\ job[q].dir \in Dir
        /\ job[q].at \in {"editor", "grant"} \cup Ended => Registering(q)
        /\ job[q].at \in Files => Registering(q) \/ Unregistering(q)
        /\ job[q].at = "delete" => Unregistering(q)
        /\ Registering(q) /\ job[q].at \in {"editor", "grant"} \cup Files =>
              job[q].roles # <<>>
        /\ job[q].at \in Ended => job[q].roles = <<>>)'
  BY <1>6, <1>9, <1>10, <1>11, <1>12
<1> QED
  BY <1>12, <1>16, <1>17, <1>18, <1>19 DEF Working

\* What is left to show of a step of p.
LEMMA OneCommand ==
  ASSUME RegistrationInv, NEW p \in Process, Mark(p), Grown, Shapes', Working(p)',
         \A pair \in removed' : pair \in removed \/ Removed(pair)',
         \A d \in Dir : Named(d)'
  PROVE  RegistrationInv'
<1>1. \A q \in Process : q # p => job'[q] = job[q]
  BY DEF Mark, RegistrationInv, Shapes
<1>2. \A q \in Process : Working(q)'
  BY <1>1, OthersWork
<1>3. ASSUME NEW pair \in removed PROVE Removed(pair)'
  <2>1. pair[1] \in DOMAIN role /\ pair[2] \in Dir /\ Removed(pair)
    BY DEF RegistrationInv, Shapes
  <2> QED BY <2>1 DEF Grown, Removed
<1> QED BY <1>2, <1>3 DEF RegistrationInv

-----------------------------------------------------------------------------
(***************************************************************************)
(* Steps that change no store and no file.                                 *)
(***************************************************************************)
LEMMA JobOnly ==
  ASSUME RegistrationInv, NEW p \in Process, Mark(p), job'[p] \in Job, Working(p)',
         Registering(p)' => \/ job'[p].editor = None
                            \/ Registering(p) /\ job'[p].editor = job[p].editor,
         UNCHANGED <<store, mcp, settings, history>>
  PROVE  RegistrationInv'
<1>1. None \notin DOMAIN role
  BY NoneAssumption DEF RegistrationInv, Shapes
<1>2. \A e \in DOMAIN role : Settled(e) => Settled(e)'
  BY <1>1, StillSettled
<1>3. Grown
  BY <1>2 DEF Grown, Gone
<1>4. Shapes'
  BY DEF Shapes, RegistrationInv, Mark
<1>5. \A d \in Dir : Named(d)'
  BY DEF RegistrationInv, Named, Done, Complete
<1> QED BY <1>3, <1>4, <1>5, OneCommand

LEMMA StoppedWorks ==
  ASSUME RegistrationInv, NEW p \in Process, Stop(p)
  PROVE  Mark(p) /\ job'[p] = Idle /\ job'[p] \in Job /\ Working(p)'
<1>1. job'[p] = Idle /\ Mark(p)
  BY DEF Stop, Mark, RegistrationInv, Shapes
<1>2. Working(p)'
  BY <1>1 DEF Working, Idle, Registering, Unregistering, Files, Ended
<1> QED BY <1>1, <1>2, IdleIsJob

LEMMA InvStop ==
  ASSUME RegistrationInv, NEW p \in Process, Stop(p),
         UNCHANGED <<store, mcp, settings, history>>
  PROVE  RegistrationInv'
<1>1. job'[p].editor = None
  BY StoppedWorks DEF Idle
<1> QED BY <1>1, StoppedWorks, JobOnly

LEMMA InvStartRegister ==
  ASSUME RegistrationInv, NEW p \in Process, StartRegister(p)
  PROVE  RegistrationInv'
<1>1. PICK t \in Templates :
        job' = [job EXCEPT ![p] = [Idle EXCEPT
                  !.for = IF t.serve THEN "run" ELSE "register",
                  !.at = "editor", !.roles = t.roles, !.serve = t.serve]]
  BY DEF StartRegister
<1>2. /\ Mark(p)
      /\ job'[p] = [Idle EXCEPT !.for = IF t.serve THEN "run" ELSE "register",
                                !.at = "editor", !.roles = t.roles, !.serve = t.serve]
  BY <1>1 DEF Mark, RegistrationInv, Shapes
<1>3. /\ job'[p].at = "editor" /\ job'[p].for \in {"register", "run"}
      /\ job'[p].roles = t.roles /\ job'[p].editor = None /\ job'[p].team = {}
  BY <1>2 DEF Idle
<1>4. job'[p] \in Job
  BY <1>2, IdleIsJob, TemplatesAreWhole DEF Job, Store, Stage, Kinds
<1>5. Working(p)'
  BY <1>3, TemplatesAreWhole DEF Working, Registering, Unregistering, Files, Ended
<1> QED BY <1>2, <1>3, <1>4, <1>5, JobOnly DEF StartRegister

LEMMA InvStartUnregister ==
  ASSUME RegistrationInv, NEW p \in Process, StartUnregister(p)
  PROVE  RegistrationInv'
<1>1. PICK e \in DOMAIN role, d \in Dir :
        job' = [job EXCEPT ![p] = [Idle EXCEPT !.for = "unregister", !.at = "delete",
                                              !.editor = e, !.dir = d,
                                              !.settled = Settled(e)]]
  BY DEF StartUnregister
<1>2. /\ Mark(p)
      /\ job'[p] = [Idle EXCEPT !.for = "unregister", !.at = "delete",
                                !.editor = e, !.dir = d, !.settled = Settled(e)]
  BY <1>1 DEF Mark, RegistrationInv, Shapes
<1>3. /\ job'[p].at = "delete" /\ job'[p].for = "unregister" /\ job'[p].dir = d
      /\ job'[p].editor = e /\ job'[p].team = {} /\ job'[p].settled = Settled(e)
  BY <1>2 DEF Idle
<1>4. Settled(e) \in BOOLEAN
  BY DEF Settled
<1>5. job'[p] \in Job
  BY <1>2, <1>4, IdleIsJob
     DEF Job, Store, Stage, Kinds, Name, Place, RegistrationInv, Shapes
<1>6. ~Registering(p)'
  BY <1>3 DEF Registering
<1>7. job'[p].settled => Settled(e)'
  BY <1>2, <1>3, <1>6, StillSettled
<1>8. Working(p)'
  BY <1>3, <1>6, <1>7
     DEF Working, Unregistering, Files, Ended, StartUnregister
<1> QED BY <1>2, <1>5, <1>6, <1>8, JobOnly DEF StartUnregister

\* A command goes on with the same editor and directory.
LEMMA GoneOn ==
  ASSUME RegistrationInv, NEW p \in Process, NEW stage, job[p].at # "idle",
         Goto(p, stage), stage \in Stage
  PROVE  /\ Mark(p) /\ job'[p] \in Job /\ job'[p].at = stage
         /\ job'[p].for = job[p].for /\ job'[p].roles = job[p].roles
         /\ job'[p].editor = job[p].editor /\ job'[p].dir = job[p].dir
         /\ job'[p].left = job[p].left /\ job'[p].team = job[p].team /\ job'[p].settled = job[p].settled
         /\ job'[p].file = job[p].file
<1>1. job[p] \in Job /\ job'[p] = [job[p] EXCEPT !.at = stage] /\ Mark(p)
  BY DEF Goto, Mark, RegistrationInv, Shapes
<1> QED BY <1>1 DEF Job

LEMMA InvAllGranted ==
  ASSUME RegistrationInv, NEW p \in Process, AllGranted(p)
  PROVE  RegistrationInv'
<1>1. Goto(p, "mcp_read") /\ job[p].at = "grant" /\ job[p].left = <<>> /\ Working(p)
  BY DEF AllGranted, RegistrationInv
<1>2. "mcp_read" \in Files
  BY DEF Files
<1>3. Done(job[p].editor)
  BY <1>1, NothingLeft DEF Working, Complete, Done
<1>4. /\ Mark(p) /\ job'[p] \in Job /\ job'[p].at = "mcp_read"
      /\ job'[p].for = job[p].for /\ job'[p].roles = job[p].roles
      /\ job'[p].editor = job[p].editor /\ job'[p].dir = job[p].dir
      /\ job'[p].team = job[p].team /\ job'[p].settled = job[p].settled
  BY <1>1, <1>2, GoneOn DEF Stage
<1>5. Working(p)'
  BY <1>1, <1>3, <1>4
     DEF Working, Registering, Unregistering, AllGranted, Files, Ended, Done, Complete
<1> QED BY <1>4, <1>5, JobOnly DEF AllGranted, Registering

LEMMA InvServe ==
  ASSUME RegistrationInv, NEW p \in Process, Serve(p)
  PROVE  RegistrationInv'
<1>1. CASE Stop(p)
  BY <1>1, InvStop DEF Serve
<1>2. CASE Goto(p, "serving")
  <2>1. job[p].at = "end" /\ Working(p)
    BY DEF Serve, RegistrationInv
  <2>2. /\ Mark(p) /\ job'[p] \in Job /\ job'[p].at = "serving"
        /\ job'[p].for = job[p].for /\ job'[p].roles = job[p].roles
        /\ job'[p].editor = job[p].editor /\ job'[p].team = job[p].team /\ job'[p].settled = job[p].settled
    BY <1>2, <2>1, GoneOn DEF Stage, Ended
  <2>3. Working(p)'
    BY <2>1, <2>2
       DEF Working, Registering, Unregistering, Serve, Files, Ended, Done, Complete
  <2> QED BY <2>2, <2>3, JobOnly DEF Serve, Registering
<1> QED BY <1>1, <1>2 DEF Serve

LEMMA InvFail ==
  ASSUME RegistrationInv, NEW p \in Process, Fail(p)
  PROVE  RegistrationInv'
BY InvStop DEF Fail

-----------------------------------------------------------------------------
(***************************************************************************)
(* Steps that write files: what they leave of ours in the settings is what *)
(* was there, nothing, or an editor that is whole.                         *)
(***************************************************************************)
LeavesOurs(p, d) ==
    /\ settings'[d].state = "absent" => settings'[d].ours = None
    /\ \/ settings'[d].ours \in {settings[d].ours, None}
       \/ /\ settings'[d].ours = job[p].editor /\ Registering(p)
          /\ job[p].editor \in DOMAIN role /\ Done(job[p].editor)

LEMMA FileStep ==
  ASSUME RegistrationInv, NEW p \in Process, Mark(p), job'[p] \in Job, Working(p)',
         Registering(p)' => \/ job'[p].editor = None
                            \/ Registering(p) /\ job'[p].editor = job[p].editor,
         mcp' \in [Dir -> File], settings' \in [Dir -> File],
         \A d \in Dir : LeavesOurs(p, d),
         UNCHANGED <<store, removed>>
  PROVE  RegistrationInv'
<1>1. None \notin DOMAIN role
  BY NoneAssumption DEF RegistrationInv, Shapes
<1>2. \A e \in DOMAIN role : Settled(e) => Settled(e)'
  BY <1>1, StillSettled
<1>3. ASSUME NEW e \in DOMAIN role, Settled(e), NEW d \in Dir, settings[d].ours # e
      PROVE  settings'[d].ours # e
  BY <1>1, <1>3 DEF LeavesOurs, Settled
<1>4. Grown
  BY <1>2, <1>3 DEF Grown, Gone
<1>5. Shapes'
  BY DEF Shapes, RegistrationInv, Mark
<1>6. ASSUME NEW d \in Dir PROVE Named(d)'
  <2>1. Named(d) /\ LeavesOurs(p, d)
    BY DEF RegistrationInv
  <2>2. \A e \in DOMAIN role : (Done(e))' <=> Done(e)
    BY DEF Done, Complete
  <2> QED BY <2>1, <2>2 DEF Named, LeavesOurs
<1> QED BY <1>4, <1>5, <1>6, OneCommand

LEMMA WithFile ==
  ASSUME NEW j \in Job, NEW f \in File, NEW stage \in Stage
  PROVE  [j EXCEPT !.at = stage, !.file = f] \in Job
BY DEF Job

\* A command goes on with a file in memory.
LEMMA GoneOnWith ==
  ASSUME RegistrationInv, NEW p \in Process, NEW f \in File, job[p].at # "idle",
         NEW stage \in Files, job' = [job EXCEPT ![p].at = stage, ![p].file = f]
  PROVE  /\ Mark(p) /\ job'[p] \in Job /\ job'[p].at = stage
         /\ job'[p].for = job[p].for /\ job'[p].roles = job[p].roles
         /\ job'[p].editor = job[p].editor /\ job'[p].dir = job[p].dir
         /\ job'[p].left = job[p].left /\ job'[p].team = job[p].team /\ job'[p].settled = job[p].settled
         /\ job'[p].file = f
<1> DEFINE j == job[p]
           k == job'[p]
<1>1. j \in Job /\ k = [j EXCEPT !.at = stage, !.file = f] /\ Mark(p)
  BY DEF Mark, RegistrationInv, Shapes
<1>2. stage \in Stage
  BY DEF Stage
<1> HIDE DEF j, k
<1>3. [j EXCEPT !.at = stage, !.file = f] \in Job
  BY <1>1, <1>2, WithFile
<1>4. k \in Job
  BY ONLY <1>1, <1>3
<1>5. k.at = stage /\ k.file = f /\ k.for = j.for /\ k.roles = j.roles
      /\ k.editor = j.editor /\ k.dir = j.dir
  BY <1>1 DEF Job
<1>6. k.left = j.left /\ k.team = j.team /\ k.settled = j.settled
  BY <1>1 DEF Job
<1> QED BY <1>1, <1>4, <1>5, <1>6, Zenon DEF j, k

\* From one file to the next, nothing about its editor changes.
LEMMA NextFile ==
  ASSUME RegistrationInv, NEW p \in Process, NEW stage \in Files,
         job[p].at \in Files, job'[p].at = stage,
         job'[p].for = job[p].for, job'[p].roles = job[p].roles,
         job'[p].editor = job[p].editor, job'[p].dir = job[p].dir,
         job'[p].team = job[p].team /\ job'[p].settled = job[p].settled, UNCHANGED store,
         Mark(p),
         Unregistering(p) /\ stage = "skill" =>
            settings'[job[p].dir].ours # job[p].editor
  PROVE  Working(p)'
<1>1. Working(p)
  BY DEF RegistrationInv
<1>2. Unregistering(p) /\ job[p].settled => Settled(job[p].editor)'
  BY <1>1, StillSettled DEF Working, Registering
<1> QED
  BY <1>1, <1>2 DEF Working, Registering, Unregistering, Files, Ended, Done, Complete, Gone

LEMMA InvReadMcp ==
  ASSUME RegistrationInv, NEW p \in Process, ReadMcp(p)
  PROVE  RegistrationInv'
<1> DEFINE f == mcp[job[p].dir]
<1>1. job[p].at = "mcp_read" /\ Working(p) /\ job[p].dir \in Dir /\ f \in File
  BY DEF ReadMcp, RegistrationInv, Working, Files, Shapes
<1>2. CASE Stop(p)
  BY <1>2, InvStop DEF ReadMcp
<1>3. CASE Goto(p, "settings_read")
  <2>1. /\ Mark(p) /\ job'[p] \in Job /\ job'[p].at = "settings_read"
        /\ job'[p].for = job[p].for /\ job'[p].roles = job[p].roles
        /\ job'[p].editor = job[p].editor /\ job'[p].dir = job[p].dir
        /\ job'[p].team = job[p].team /\ job'[p].settled = job[p].settled
    BY <1>1, <1>3, GoneOn DEF Stage, Files
  <2>2. Working(p)'
    BY <1>1, <2>1, NextFile DEF ReadMcp, Files
  <2> QED BY <2>1, <2>2, JobOnly DEF ReadMcp, Registering
<1>4. CASE job' = [job EXCEPT ![p].file = f, ![p].at = "mcp_write"]
  <2>1. job' = [job EXCEPT ![p].at = "mcp_write", ![p].file = f]
    BY <1>4 DEF RegistrationInv, Shapes, Job
  <2>2. /\ Mark(p) /\ job'[p] \in Job /\ job'[p].at = "mcp_write"
        /\ job'[p].for = job[p].for /\ job'[p].roles = job[p].roles
        /\ job'[p].editor = job[p].editor /\ job'[p].dir = job[p].dir
        /\ job'[p].team = job[p].team /\ job'[p].settled = job[p].settled
    BY <1>1, <2>1, GoneOnWith DEF Files
  <2>3. Working(p)'
    BY <1>1, <2>2, NextFile DEF ReadMcp, Files
  <2> QED BY <2>2, <2>3, JobOnly DEF ReadMcp, Registering
<1> QED BY <1>2, <1>3, <1>4 DEF ReadMcp

LEMMA InvReadSettings ==
  ASSUME RegistrationInv, NEW p \in Process, ReadSettings(p)
  PROVE  RegistrationInv'
<1> DEFINE f == settings[job[p].dir]
<1>1. /\ job[p].at = "settings_read" /\ Working(p)
      /\ job[p].dir \in Dir /\ f \in File /\ job[p].editor \in DOMAIN role
  BY DEF ReadSettings, RegistrationInv, Working, Files, Shapes
<1>2. CASE Stop(p)
  BY <1>2, InvStop DEF ReadSettings
<1>3. CASE f.state = "absent" /\ Goto(p, "skill")
  <2>1. /\ Mark(p) /\ job'[p] \in Job /\ job'[p].at = "skill"
        /\ job'[p].for = job[p].for /\ job'[p].roles = job[p].roles
        /\ job'[p].editor = job[p].editor /\ job'[p].dir = job[p].dir
        /\ job'[p].team = job[p].team /\ job'[p].settled = job[p].settled
    BY <1>1, <1>3, GoneOn DEF Stage, Files
  <2>2. settings'[job[p].dir].ours # job[p].editor
    BY <1>1, <1>3, NoneAssumption DEF RegistrationInv, Named, Shapes, ReadSettings
  <2>3. Working(p)'
    BY <1>1, <2>1, <2>2, NextFile DEF ReadSettings, Files
  <2> QED BY <2>1, <2>3, JobOnly DEF ReadSettings, Registering
<1>4. CASE job' = [job EXCEPT ![p].file = f, ![p].at = "settings_write"]
  <2>1. job' = [job EXCEPT ![p].at = "settings_write", ![p].file = f]
    BY <1>4 DEF RegistrationInv, Shapes, Job
  <2>2. /\ Mark(p) /\ job'[p] \in Job /\ job'[p].at = "settings_write"
        /\ job'[p].for = job[p].for /\ job'[p].roles = job[p].roles
        /\ job'[p].editor = job[p].editor /\ job'[p].dir = job[p].dir
        /\ job'[p].team = job[p].team /\ job'[p].settled = job[p].settled
    BY <1>1, <2>1, GoneOnWith DEF Files
  <2>3. Working(p)'
    BY <1>1, <2>2, NextFile DEF ReadSettings, Files
  <2> QED BY <2>2, <2>3, JobOnly DEF ReadSettings, Registering
<1> QED BY <1>2, <1>3, <1>4 DEF ReadSettings

\* What a command writes: its own editor or nothing.
LEMMA WhatIsWritten ==
  ASSUME RegistrationInv, NEW p \in Process, job[p].at \in Files
  PROVE  /\ Injected(job[p].file, job[p].editor) \in File
         /\ InjectedSettings(job[p].file, job[p].editor) \in File
         /\ Cleaned(job[p].file) \in File
         /\ InjectedSettings(job[p].file, job[p].editor).ours = job[p].editor
         /\ InjectedSettings(job[p].file, job[p].editor).state = "whole"
         /\ Cleaned(job[p].file).ours = None
<1>1. job[p].file \in File /\ job[p].editor \in Name
  BY DEF RegistrationInv, Shapes, Job
<1> DEFINE f == job[p].file
           e == job[p].editor
           g == Injected(f, e)
<1>2. /\ g \in File /\ g.state = "whole" /\ g.ours = e
  BY <1>1 DEF Injected, File
<1> HIDE DEF g
<1>3. [g EXCEPT !.user = @ \ Servers] \in File
      /\ [g EXCEPT !.user = @ \ Servers].state = "whole"
      /\ [g EXCEPT !.user = @ \ Servers].ours = e
  BY <1>2 DEF File
<1>4. Cleaned(f) \in File /\ Cleaned(f).ours = None
  BY <1>1 DEF Cleaned, File, Name
<1> QED BY <1>2, <1>3, <1>4 DEF InjectedSettings, g

LEMMA InvWriteMcp ==
  ASSUME RegistrationInv, NEW p \in Process, WriteMcp(p)
  PROVE  RegistrationInv'
<1>1. /\ job[p].at = "mcp_write" /\ Working(p) /\ job[p].dir \in Dir
      /\ job' = [job EXCEPT ![p].at = "settings_read", ![p].file = NoFile]
  BY DEF WriteMcp, Written, RegistrationInv, Working, Files
<1>2. /\ Mark(p) /\ job'[p] \in Job /\ job'[p].at = "settings_read"
      /\ job'[p].for = job[p].for /\ job'[p].roles = job[p].roles
      /\ job'[p].editor = job[p].editor /\ job'[p].dir = job[p].dir
      /\ job'[p].team = job[p].team /\ job'[p].settled = job[p].settled
  BY <1>1, IdleIsJob, GoneOnWith DEF Files
<1>3. Working(p)'
  BY <1>1, <1>2, NextFile DEF WriteMcp, Files
<1>4. mcp' \in [Dir -> File] /\ settings' \in [Dir -> File]
  BY <1>1, WhatIsWritten DEF WriteMcp, Files, RegistrationInv, Shapes
<1>5. \A d \in Dir : LeavesOurs(p, d)
  BY DEF LeavesOurs, WriteMcp, RegistrationInv, Named
<1> QED BY <1>2, <1>3, <1>4, <1>5, FileStep DEF WriteMcp, Registering

LEMMA InvWriteSettings ==
  ASSUME RegistrationInv, NEW p \in Process, WriteSettings(p)
  PROVE  RegistrationInv'
<1> DEFINE f == IF Registering(p) THEN InjectedSettings(job[p].file, job[p].editor)
                ELSE Cleaned(job[p].file)
<1>1. /\ job[p].at = "settings_write" /\ Working(p) /\ job[p].dir \in Dir
      /\ job[p].editor \in DOMAIN role
      /\ job' = [job EXCEPT ![p].at = "skill", ![p].file = NoFile]
      /\ settings' = [settings EXCEPT ![job[p].dir] = f]
  BY DEF WriteSettings, Written, RegistrationInv, Working, Files
<1>2. /\ Mark(p) /\ job'[p] \in Job /\ job'[p].at = "skill"
      /\ job'[p].for = job[p].for /\ job'[p].roles = job[p].roles
      /\ job'[p].editor = job[p].editor /\ job'[p].dir = job[p].dir
      /\ job'[p].team = job[p].team /\ job'[p].settled = job[p].settled
  BY <1>1, IdleIsJob, GoneOnWith DEF Files
<1>3. /\ f \in File
      /\ Registering(p) => f.ours = job[p].editor /\ f.state = "whole"
      /\ ~Registering(p) => f.ours = None
  BY <1>1, WhatIsWritten DEF Files
<1> HIDE DEF f
<1>4. settings'[job[p].dir] = f /\ settings' \in [Dir -> File]
      /\ \A d \in Dir : d # job[p].dir => settings'[d] = settings[d]
  BY <1>1, <1>3 DEF RegistrationInv, Shapes
<1>5. Unregistering(p) => settings'[job[p].dir].ours # job[p].editor
  BY <1>1, <1>3, <1>4, NoneAssumption
     DEF RegistrationInv, Shapes, Registering, Unregistering
<1>6. Working(p)'
  BY <1>1, <1>2, <1>5, NextFile DEF WriteSettings, Files
<1>7. LeavesOurs(p, job[p].dir)
  <2>1. CASE Registering(p)
    <3>1. Done(job[p].editor)
      BY <1>1, <2>1 DEF Working, Files
    <3> QED BY <1>1, <1>3, <1>4, <2>1, <3>1 DEF LeavesOurs
  <2>2. CASE ~Registering(p)
    BY <1>3, <1>4, <2>2 DEF LeavesOurs
  <2> QED BY <2>1, <2>2
<1>8. \A d \in Dir : LeavesOurs(p, d)
  BY <1>4, <1>7 DEF LeavesOurs, RegistrationInv, Named
<1>9. mcp' \in [Dir -> File]
  BY DEF WriteSettings, RegistrationInv, Shapes
<1> QED BY <1>2, <1>4, <1>6, <1>8, <1>9, FileStep DEF WriteSettings, Registering

LEMMA InvDie ==
  ASSUME RegistrationInv, NEW p \in Process, Die(p)
  PROVE  RegistrationInv'
<1>1. /\ Stop(p) /\ Mark(p) /\ job'[p] \in Job /\ Working(p)'
      /\ job'[p].editor = None
  BY StoppedWorks DEF Die, Idle
<1>2. TornFile \in File /\ TornFile.state = "torn" /\ TornFile.ours = None
  BY IdleIsJob DEF TornFile, NoFile
<1>3. mcp' \in [Dir -> File] /\ settings' \in [Dir -> File]
  BY <1>2 DEF Die, RegistrationInv, Shapes
<1>4. ASSUME NEW d \in Dir PROVE LeavesOurs(p, d)
  <2>1. settings'[d] \in {settings[d], TornFile}
    BY DEF Die, RegistrationInv, Shapes
  <2>2. Named(d)
    BY DEF RegistrationInv
  <2> QED BY <1>2, <2>1, <2>2 DEF LeavesOurs, Named
<1> QED BY <1>1, <1>3, <1>4, FileStep DEF Die

LEMMA InvUserSaves ==
  ASSUME RegistrationInv, mcp' \in [Dir -> File], settings' \in [Dir -> File],
         \A d \in Dir : /\ settings'[d].ours = settings[d].ours
                        /\ settings'[d].state = "absent" => settings[d].state = "absent",
         UNCHANGED <<store, job, removed>>
  PROVE  RegistrationInv'
<1>1. Shapes'
  BY DEF RegistrationInv, Shapes
<1>2. \A e : /\ Settled(e)' <=> Settled(e)
             /\ Done(e)' <=> Done(e)
             /\ Gone(e)' <=> Gone(e)
  BY DEF Settled, Registering, Done, Complete, Gone
<1>3. \A d \in Dir : Named(d)'
  BY <1>2 DEF RegistrationInv, Named
<1>4. ASSUME NEW pair \in removed PROVE Removed(pair)'
  <2>1. pair[2] \in Dir /\ Removed(pair)
    BY DEF RegistrationInv, Shapes
  <2> QED BY <1>2, <2>1 DEF Removed
<1>5. ASSUME NEW p \in Process PROVE Working(p)'
  <2>1. Working(p) /\ "skill" \in Files
    BY DEF RegistrationInv, Files
  <2> QED BY <1>2, <2>1 DEF Working, Registering, Unregistering
<1> QED BY <1>1, <1>3, <1>4, <1>5 DEF RegistrationInv

\* The files f once entry u is saved in the one of d, and what this makes of them.
Saved(f, d, u) == [f EXCEPT ![d].user = @ \cup {u}, ![d].state = "whole"]

Kept(f, g, d, u) ==
    /\ g \in [Dir -> File]
    /\ \A x \in Dir : /\ g[x].ours = f[x].ours
                      /\ g[x].state = "absent" => f[x].state = "absent"
                      /\ f[x].user \subseteq g[x].user
    /\ u \in g[d].user

LEMMA SavedEntry ==
  ASSUME NEW f, NEW d \in Dir, NEW u \in User, f \in [Dir -> File]
  PROVE  Kept(f, Saved(f, d, u), d, u)
<1> SUFFICES ASSUME NEW g, g = Saved(f, d, u) PROVE Kept(f, g, d, u)
  OBVIOUS
<1> DEFINE r == [f[d] EXCEPT !.user = @ \cup {u}, !.state = "whole"]
<1>1. f[d] \in File
  OBVIOUS
<1>2. /\ r \in File /\ r.ours = f[d].ours /\ r.state = "whole"
      /\ f[d].user \subseteq r.user /\ u \in r.user
  BY <1>1 DEF File
<1>3. g = [f EXCEPT ![d] = r]
  BY <1>1 DEF File, Saved
<1> HIDE DEF r
<1>4. g \in [Dir -> File] /\ g[d] = r /\ \A x \in Dir : x # d => g[x] = f[x]
  BY <1>2, <1>3
<1>5. \A x \in Dir : /\ g[x].ours = f[x].ours
                     /\ g[x].state = "absent" => f[x].state = "absent"
                     /\ f[x].user \subseteq g[x].user
  BY <1>2, <1>4
<1> QED BY <1>2, <1>4, <1>5 DEF Kept

LEMMA InvUserSavesMcp ==
  ASSUME RegistrationInv, NEW d \in Dir, UserSavesMcp(d)
  PROVE  RegistrationInv'
<1>1. PICK u \in User : mcp' = Saved(mcp, d, u)
  BY ServersAssumption DEF UserSavesMcp, Saved
<1>2. mcp \in [Dir -> File] /\ settings' = settings /\ settings \in [Dir -> File]
  BY DEF RegistrationInv, Shapes, UserSavesMcp
<1>3. Kept(mcp, mcp', d, u)
  BY <1>1, <1>2, SavedEntry
<1> QED BY <1>2, <1>3, InvUserSaves DEF UserSavesMcp, Kept

LEMMA InvUserSavesSettings ==
  ASSUME RegistrationInv, NEW d \in Dir, UserSavesSettings(d)
  PROVE  RegistrationInv'
<1>1. PICK u \in User : settings' = Saved(settings, d, u)
  BY DEF UserSavesSettings, Saved
<1>2. mcp \in [Dir -> File] /\ settings \in [Dir -> File]
  BY DEF RegistrationInv, Shapes
<1>3. Kept(settings, settings', d, u)
  BY <1>1, <1>2, SavedEntry
<1> QED BY <1>2, <1>3, InvUserSaves DEF UserSavesSettings, Kept

-----------------------------------------------------------------------------
(***************************************************************************)
(* A role is done with, or a registration undone.                          *)
(***************************************************************************)
LEMMA WithTeam ==
  ASSUME NEW j \in Job, NEW team \in SUBSET Agent, NEW roles \in Seq(AllRoles),
         NEW stage \in Stage
  PROVE  [j EXCEPT !.team = team, !.roles = roles, !.at = stage] \in Job
BY DEF Job

LEMMA InvInstallSkill ==
  ASSUME RegistrationInv, NEW p \in Process, InstallSkill(p)
  PROVE  RegistrationInv'
<1> DEFINE j == job[p]
           k == job'[p]
           team  == j.team \cup {j.editor}
           roles == Tail(j.roles)
           stage == IF Len(j.roles) > 1 THEN "editor" ELSE "end"
<1>1. /\ j \in Job /\ Working(p) /\ j.at = "skill" /\ Registering(p) /\ Mark(p)
      /\ k = [j EXCEPT !.team = team, !.roles = roles, !.at = stage]
  BY DEF InstallSkill, Mark, RegistrationInv, Shapes
<1>2. /\ j.editor \in DOMAIN role /\ Done(j.editor) /\ j.roles # <<>>
      /\ \A e \in j.team : e \in DOMAIN role /\ Done(e)
  BY <1>1 DEF Working, Files
<1>3. j.roles \in Seq(AllRoles) /\ team \in SUBSET Agent
  BY <1>1, <1>2 DEF Job, RegistrationInv, Shapes
<1>4. /\ roles \in Seq(AllRoles)
      /\ Len(j.roles) > 1 => roles # <<>>
      /\ ~(Len(j.roles) > 1) => roles = <<>>
  BY <1>2, <1>3, HeadAndTail
<1>5. /\ stage \in Stage /\ stage \in {"editor", "end"}
      /\ stage = "editor" => roles # <<>>
      /\ stage = "end" => roles = <<>>
  BY <1>4 DEF Stage, Store, Ended
<1>6. \A e \in team : e \in DOMAIN role /\ Done(e)
  BY <1>2
<1> HIDE DEF j, k, team, roles, stage
<1>7. [j EXCEPT !.team = team, !.roles = roles, !.at = stage] \in Job
  BY <1>1, <1>3, <1>4, <1>5, WithTeam
<1>8. k \in Job
  BY ONLY <1>1, <1>7
<1>9. k.at = stage /\ k.team = team /\ k.roles = roles
      /\ k.for = j.for /\ k.editor = j.editor
  BY <1>1 DEF Job
<1>11. \A e \in k.team : e \in DOMAIN role /\ Done(e)'
  BY <1>6, <1>9 DEF InstallSkill, Done, Complete
<1>12. Working(p)'
  BY <1>1, <1>2, <1>5, <1>9, <1>11
     DEF Working, Registering, Unregistering, Files, Ended, InstallSkill, j, k
<1> QED BY <1>1, <1>8, <1>9, <1>12, JobOnly DEF InstallSkill, Registering, j, k

LEMMA InvRemoveSkill ==
  ASSUME RegistrationInv, NEW p \in Process, RemoveSkill(p)
  PROVE  RegistrationInv'
<1> SUFFICES ASSUME NEW e, NEW d, e = job[p].editor, d = job[p].dir
             PROVE  RegistrationInv'
  OBVIOUS
<1>1. /\ Stop(p) /\ job[p].at = "skill" /\ Unregistering(p) /\ Working(p)
      /\ removed' = IF job[p].settled THEN removed \cup {<<e, d>>} ELSE removed
      /\ UNCHANGED <<store, mcp, settings>>
  BY DEF RemoveSkill, RegistrationInv
<1>2. e \in DOMAIN role /\ d \in Dir /\ (job[p].settled => Removed(<<e, d>>))
  BY <1>1 DEF Working, Files, Removed
<1>3. Mark(p) /\ job'[p] \in Job /\ Working(p)' /\ job'[p].editor \notin DOMAIN role
  BY <1>1, StoppedWorks, NoneAssumption DEF Idle, RegistrationInv, Shapes
<1>4. \A x \in DOMAIN role : Settled(x) => Settled(x)'
  BY <1>3, StillSettled
<1>5. Grown
  BY <1>1, <1>4 DEF Grown, Gone
<1>6. Shapes'
  BY <1>1, <1>2, <1>3 DEF RegistrationInv, Shapes, Mark
<1>7. \A x \in Dir : Named(x)'
  BY <1>1 DEF RegistrationInv, Named, Done, Complete
<1>8. job[p].settled => Removed(<<e, d>>)'
  <2>1. ASSUME NEW x \in DOMAIN role, NEW y \in Dir, Removed(<<x, y>>)
        PROVE  Removed(<<x, y>>)'
    <3>1. Settled(x) /\ Gone(x) /\ settings[y].ours # x
      BY <2>1 DEF Removed
    <3>2. Settled(x)' /\ Gone(x)' /\ settings'[y].ours # x
      BY <1>1, <1>4, <3>1 DEF Gone
    <3> QED BY <3>2 DEF Removed
  <2> QED BY <1>2, <2>1
<1>9. ASSUME NEW pair \in removed', pair \notin removed PROVE Removed(pair)'
  <2>1. job[p].settled /\ pair = <<e, d>>
    BY <1>1, <1>9
  <2> QED BY <1>8, <2>1
<1> QED BY <1>3, <1>5, <1>6, <1>7, <1>9, OneCommand

-----------------------------------------------------------------------------
(***************************************************************************)
(* Steps in the event store.                                               *)
(***************************************************************************)

LEMMA StoreStep ==
  ASSUME RegistrationInv, NEW p \in Process, Mark(p), job'[p] \in Job, Working(p)',
         UNCHANGED <<mcp, settings, history>>, Grown,
         DOMAIN role' \subseteq Agent, editors' \subseteq DOMAIN role',
         role' \in [DOMAIN role' -> AllRoles], granted' \in [Agent -> SUBSET AllGrants]
  PROVE  RegistrationInv'
<1>1. Shapes'
  <2>1. removed' \subseteq (DOMAIN role') \X Dir
    BY DEF RegistrationInv, Shapes, Grown
  <2>2. mcp' \in [Dir -> File] /\ settings' \in [Dir -> File]
        /\ job' \in [Process -> Job]
    BY DEF RegistrationInv, Shapes, Mark
  <2> QED BY <2>1, <2>2 DEF Shapes
<1>2. ASSUME NEW d \in Dir PROVE Named(d)'
  <2>1. Named(d) /\ settings' = settings
    BY DEF RegistrationInv
  <2> QED BY <2>1, GrownIsDone DEF Named, Grown
<1> QED BY <1>1, <1>2, OneCommand

LEMMA WithEditor ==
  ASSUME NEW j \in Job, NEW e \in Agent, NEW d \in Dir, NEW left \in Seq(AllGrants),
         NEW stage \in Stage
  PROVE  [j EXCEPT !.editor = e, !.dir = d, !.left = left, !.at = stage] \in Job
BY DEF Job, Name, Place

LEMMA InvCreateEditor ==
  ASSUME RegistrationInv, NEW p \in Process, CreateEditor(p)
  PROVE  RegistrationInv'
<1> DEFINE j == job[p]
           k == job'[p]
           r == Head(j.roles)
<1>1. j \in Job /\ Working(p) /\ j.at = "editor"
  BY DEF CreateEditor, RegistrationInv, Shapes
<1>2. Registering(p) /\ j.roles # <<>> /\ j.roles \in Seq(AllRoles)
  BY <1>1 DEF Working, Job
<1>3. r \in AllRoles
  BY <1>2, HeadAndTail
<1>4. r.dir \in Dir /\ r.grants \in Seq(AllGrants)
  BY <1>3, RolesAreWhole
<1>5. PICK e \in Agent \ DOMAIN role :
        /\ editors' = editors \cup {e}
        /\ role' = [x \in DOMAIN role \cup {e} |-> IF x = e THEN r ELSE role[x]]
        /\ granted' = [granted EXCEPT ![e] = {}]
        /\ job' = [job EXCEPT ![p].editor = e, ![p].dir = r.dir,
                              ![p].left = r.grants, ![p].at = "grant"]
  BY DEF CreateEditor
<1>6. Mark(p) /\ k = [j EXCEPT !.editor = e, !.dir = r.dir, !.left = r.grants,
                               !.at = "grant"]
  BY <1>5 DEF Mark, RegistrationInv, Shapes
<1>7. "grant" \in Stage
  BY DEF Stage, Store
<1> HIDE DEF j, k, r
<1>8. [j EXCEPT !.editor = e, !.dir = r.dir, !.left = r.grants, !.at = "grant"] \in Job
  BY <1>1, <1>4, <1>7, WithEditor
<1>9. k \in Job
  BY ONLY <1>6, <1>8
<1>10. k.at = "grant" /\ k.editor = e /\ k.dir = r.dir /\ k.left = r.grants
  BY <1>1, <1>6 DEF Job
<1>11. k.for = j.for /\ k.roles = j.roles /\ k.team = j.team
  BY <1>1, <1>6 DEF Job
<1>12. Grown
  <2>1. DOMAIN role' = DOMAIN role \cup {e} /\ e \notin DOMAIN role
        /\ \A x \in DOMAIN role : role'[x] = role[x] /\ x # e
    BY <1>5
  <2>2. \A x \in DOMAIN role : /\ x \in editors' <=> x \in editors
                               /\ granted'[x] = granted[x]
    BY <1>5, <2>1 DEF RegistrationInv, Shapes
  <2>3. \A x \in DOMAIN role : Settled(x) => Settled(x)'
    BY <1>5, <1>6, <1>10, StillSettled DEF k
  <2>4. settings' = settings
    BY DEF CreateEditor
  <2> QED BY <2>1, <2>2, <2>3, <2>4 DEF Grown, Gone
<1>13. role'[e] = r /\ e \in editors' /\ DOMAIN role' = DOMAIN role \cup {e}
  BY <1>5
<1>14. Working(p)'
  <2>1. \A x \in k.team : x \in DOMAIN role' /\ Done(x)'
    BY <1>1, <1>11, <1>12, GrownIsDone DEF Working, Grown, j
  <2>2. Registering(p)'
    BY <1>2, <1>11 DEF Registering, j, k
  <2> QED BY <1>2, <1>4, <1>10, <1>11, <1>13, <2>1, <2>2
      DEF Working, Registering, Unregistering, Files, Ended, k, j
<1>15. /\ DOMAIN role' \subseteq Agent /\ editors' \subseteq DOMAIN role'
       /\ role' \in [DOMAIN role' -> AllRoles]
       /\ granted' \in [Agent -> SUBSET AllGrants]
  BY <1>3, <1>5, <1>13 DEF RegistrationInv, Shapes
<1>16. UNCHANGED <<mcp, settings, history>>
  BY DEF CreateEditor
<1>17. job'[p] \in Job /\ Mark(p)
  BY <1>6, <1>9 DEF k
<1> QED BY <1>12, <1>14, <1>15, <1>16, <1>17, StoreStep

\* The grant given is one less that is left.
LEMMA InvGiveGrant ==
  ASSUME RegistrationInv, NEW p \in Process, GiveGrant(p)
  PROVE  RegistrationInv'
<1> DEFINE j == job[p]
           k == job'[p]
           e == j.editor
           g == Head(j.left)
<1>1. CASE Resolves(g.block)
  <2>1. /\ j \in Job /\ Working(p) /\ j.at = "grant" /\ j.left # <<>>
        /\ granted' = [granted EXCEPT ![e] = @ \cup {g}]
        /\ job' = [job EXCEPT ![p].left = Tail(@)]
        /\ UNCHANGED <<editors, role, mcp, settings, history>>
    BY <1>1 DEF GiveGrant, RegistrationInv, Shapes
  <2>2. e \in DOMAIN role /\ e \in Agent /\ Registering(p) /\ j.left \in Seq(AllGrants)
    BY <2>1 DEF Working, Job, RegistrationInv, Shapes
  <2>3. /\ g \in AllGrants /\ Tail(j.left) \in Seq(AllGrants)
        /\ Range(j.left) \subseteq {g} \cup Range(Tail(j.left))
    BY <2>1, <2>2, HeadAndTail
  <2>4. Mark(p) /\ k = [j EXCEPT !.left = Tail(j.left)]
    BY <2>1 DEF Mark, RegistrationInv, Shapes
  <2>5. /\ granted' \in [Agent -> SUBSET AllGrants]
        /\ granted'[e] = granted[e] \cup {g}
        /\ \A x \in Agent : x # e => granted'[x] = granted[x]
    BY <2>1, <2>2, <2>3 DEF RegistrationInv, Shapes
  <2>6. Mark(p) /\ k.editor = e /\ k.for = j.for
    BY <2>1, <2>4 DEF Job
  <2>7. Grown
    <3>1. \A x \in DOMAIN role : granted[x] \subseteq granted'[x]
      BY <2>1, <2>5 DEF RegistrationInv, Shapes
    <3>2. \A x \in DOMAIN role : Settled(x) => Settled(x)'
      BY <2>6, StillSettled DEF Registering
    <3>3. \A x \in DOMAIN role : Settled(x) => x # e
      BY <2>2 DEF Settled
    <3>4. \A x \in DOMAIN role : Settled(x) /\ Gone(x) => Gone(x)'
      BY <2>1, <2>5, <3>3 DEF Gone, RegistrationInv, Shapes
    <3> QED BY <2>1, <3>1, <3>2, <3>4 DEF Grown
  <2> HIDE DEF j, k, g
  <2>8. [j EXCEPT !.left = Tail(j.left)] \in Job
    BY <2>1, <2>3 DEF Job
  <2>9. k \in Job
    BY ONLY <2>4, <2>8
  <2>10. k.at = "grant" /\ k.left = Tail(j.left) /\ k.for = j.for
         /\ k.editor = e /\ k.dir = j.dir /\ k.roles = j.roles
    BY <2>1, <2>4 DEF Job
  <2>11. k.team = j.team
    BY <2>1, <2>4 DEF Job
  <2>12. e \in editors => Range(role[e].grants) \subseteq granted'[e] \cup Range(k.left)
    BY <2>1, <2>3, <2>5, <2>10 DEF Working, j
  <2>13. \A x \in k.team : x \in DOMAIN role' /\ Done(x)'
    BY <2>1, <2>7, <2>11, GrownIsDone DEF Working, Grown, j
  <2>14. Working(p)'
    BY <2>1, <2>2, <2>10, <2>12, <2>13
       DEF Working, Registering, Unregistering, Files, Ended, k, j
  <2>15. /\ DOMAIN role' \subseteq Agent /\ editors' \subseteq DOMAIN role'
         /\ role' \in [DOMAIN role' -> AllRoles]
    BY <2>1 DEF RegistrationInv, Shapes
  <2>16. job'[p] \in Job
    BY <2>9 DEF k
  <2> QED BY <2>1, <2>5, <2>6, <2>7, <2>14, <2>15, <2>16, StoreStep
<1>2. CASE ~Resolves(g.block)
  BY <1>2, InvStop DEF GiveGrant
<1> QED BY <1>1, <1>2

LEMMA InvDeleteEditor ==
  ASSUME RegistrationInv, NEW p \in Process, DeleteEditor(p)
  PROVE  RegistrationInv'
<1> DEFINE e == job[p].editor
<1>1. /\ job[p].at = "delete" /\ Working(p) /\ Goto(p, "mcp_read")
      /\ editors' = editors \ {e} /\ granted' = [granted EXCEPT ![e] = {}]
      /\ UNCHANGED <<role, mcp, settings, history>>
  BY DEF DeleteEditor, RegistrationInv
<1>2. Unregistering(p) /\ e \in DOMAIN role /\ e \in Agent /\ job[p].dir \in Dir
  BY <1>1 DEF Working, RegistrationInv, Shapes
<1>3. /\ Mark(p) /\ job'[p] \in Job /\ job'[p].at = "mcp_read"
      /\ job'[p].for = job[p].for /\ job'[p].roles = job[p].roles
      /\ job'[p].editor = e /\ job'[p].dir = job[p].dir
      /\ job'[p].team = job[p].team /\ job'[p].settled = job[p].settled
  BY <1>1, GoneOn DEF Stage, Files
<1>4. /\ granted' \in [Agent -> SUBSET AllGrants] /\ granted'[e] = {}
      /\ \A x \in Agent : x # e => granted'[x] = granted[x]
  BY <1>1, <1>2 DEF RegistrationInv, Shapes
<1>5. Grown
  <2>1. \A x \in DOMAIN role : x \in editors' => x \in editors /\ granted'[x] = granted[x]
    BY <1>1, <1>4 DEF RegistrationInv, Shapes
  <2>2. \A x \in DOMAIN role : Gone(x) => Gone(x)'
    BY <1>1, <1>4 DEF Gone, RegistrationInv, Shapes
  <2>3. \A x \in DOMAIN role : Settled(x) => Settled(x)'
    BY <1>2, <1>3, StillSettled DEF Registering, Unregistering
  <2> QED BY <1>1, <2>1, <2>2, <2>3 DEF Grown
<1>6. \A x \in job'[p].team : x \in DOMAIN role' /\ Done(x)'
  BY <1>1, <1>3, <1>5, GrownIsDone DEF Working, Grown
<1>7. Gone(e)' /\ (job[p].settled => Settled(e)')
  BY <1>1, <1>2, <1>3, <1>4, <1>5 DEF Gone, Working, Grown
<1>8. Working(p)'
  BY <1>1, <1>2, <1>3, <1>6, <1>7
     DEF Working, Registering, Unregistering, Files, Ended
<1>9. /\ DOMAIN role' \subseteq Agent /\ editors' \subseteq DOMAIN role'
      /\ role' \in [DOMAIN role' -> AllRoles]
  BY <1>1 DEF RegistrationInv, Shapes
<1> QED BY <1>1, <1>3, <1>4, <1>5, <1>8, <1>9, StoreStep

-----------------------------------------------------------------------------
LEMMA FoundIsFile == ASSUME NEW u \in SUBSET User
                     PROVE  Found(u) \in File /\ Found(u).user = u /\ Found(u).ours = None
BY IdleIsJob DEF Found, File, NoFile, Name

LEMMA InvInit == Init => RegistrationInv
<1> SUFFICES ASSUME Init PROVE RegistrationInv
  OBVIOUS
<1>1. PICK m \in SUBSET Servers, u \in SUBSET User :
         mcp = [d \in Dir |-> Found(m)] /\ settings = [d \in Dir |-> Found(u)]
  BY DEF Init
<1>2. \A p \in Process : /\ job[p] = Idle /\ job[p].at = "idle" /\ job[p].for = None
                         /\ job[p].editor = None /\ job[p].team = {}
  BY DEF Init, Idle
<1>3. mcp \in [Dir -> File] /\ settings \in [Dir -> File]
  BY <1>1, ServersAssumption, FoundIsFile
<1>4. job \in [Process -> Job] /\ granted \in [Agent -> SUBSET AllGrants]
  BY IdleIsJob DEF Init
<1>5. editors = {} /\ removed = {} /\ DOMAIN role = {} /\ role \in [DOMAIN role -> AllRoles]
  BY DEF Init
<1>6. Shapes
  BY <1>3, <1>4, <1>5 DEF Shapes
<1>7. \A p \in Process : Working(p)
  BY <1>2, NoneAssumption DEF Working, Registering, Unregistering, Files, Ended, Idle
<1>8. \A d \in Dir : Named(d)
  BY <1>1, FoundIsFile DEF Named
<1> QED BY <1>5, <1>6, <1>7, <1>8 DEF RegistrationInv

LEMMA InvNext == RegistrationInv /\ [Next]_vars => RegistrationInv'
<1> SUFFICES ASSUME RegistrationInv, [Next]_vars PROVE RegistrationInv'
  OBVIOUS
<1>1. ASSUME NEW p \in Process, Step(p) PROVE RegistrationInv'
  BY <1>1, InvStartRegister, InvStartUnregister, InvFail, InvCreateEditor, InvGiveGrant,
     InvAllGranted, InvDeleteEditor, InvReadMcp, InvWriteMcp, InvReadSettings,
     InvWriteSettings, InvInstallSkill, InvRemoveSkill, InvServe, InvDie DEF Step
<1>2. ASSUME NEW d \in Dir, UserSavesMcp(d) \/ UserSavesSettings(d)
      PROVE  RegistrationInv'
  BY <1>2, InvUserSavesMcp, InvUserSavesSettings
<1>3. ASSUME UNCHANGED vars PROVE RegistrationInv'
  BY <1>3 DEF vars, RegistrationInv, Shapes, Working, Registering, Unregistering,
              Done, Complete, Gone, Settled, Named, Removed
<1> QED BY <1>1, <1>2, <1>3 DEF Next

(* The invariant of everything below: which stage a command is at and what *)
(* it has done by then.  Any id may be given to unregister, that of a      *)
(* registration still at work too; only of an editor whose registration    *)
(* is over does it say that nobody is left to bring it back.               *)
THEOREM RegistrationSafety == Spec => []RegistrationInv
BY InvInit, InvNext, PTL DEF Spec

(* A configuration that names an editor that is there names one with every *)
(* grant of its role, whatever failed or died on the way: the files come   *)
(* after the last grant (register.rs:195).                                 *)
THEOREM NamedAreComplete == Spec => []NamedIsComplete
<1>1. RegistrationInv => NamedIsComplete
  BY NoneAssumption DEF RegistrationInv, Named, Shapes, Done, NamedIsComplete
<1> QED BY <1>1, RegistrationSafety, PTL

(* When elf run serves, no role of its template is left and every editor   *)
(* of the team has its grants or was unregistered since (run.rs:128).      *)
THEOREM TeamsAreComplete == Spec => []TeamIsComplete
<1>1. RegistrationInv => TeamIsComplete
  BY DEF RegistrationInv, Working, Ended, Done, TeamIsComplete
<1> QED BY <1>1, RegistrationSafety, PTL

(* What unregister is done with does not come back by any command, if the  *)
(* editor's own registration was over when it began (unregister.rs:12).    *)
THEOREM RemovedIsGone == Spec => []RemovedStays
<1>1. RegistrationInv => RemovedStays
  BY DEF RegistrationInv, Removed, Gone, RemovedStays
<1> QED BY <1>1, RegistrationSafety, PTL

-----------------------------------------------------------------------------
(***************************************************************************)
(* The user's entries.  Those that were saved while nobody was about to    *)
(* write the file are in the file, and in every copy of it that a command  *)
(* is about to write.                                                      *)
(***************************************************************************)
SafeIn(d) == /\ safe[d].servers \subseteq mcp[d].user
             /\ safe[d].saved \subseteq settings[d].user \ Servers

SafeWith(p) ==
    /\ job[p].at = "mcp_write" => safe[job[p].dir].servers \subseteq job[p].file.user
    /\ job[p].at = "settings_write" =>
          safe[job[p].dir].saved \subseteq job[p].file.user

SafeEntries == [servers : SUBSET User, saved : SUBSET User]

UserInv == /\ safe \in [Dir -> SafeEntries]
           /\ \A d \in Dir : SafeIn(d)
           /\ \A p \in Process : SafeWith(p)

Writing == {"mcp_write", "settings_write"}

LEMMA WritersHavePlaces ==
  ASSUME RegistrationInv, NEW q \in Process, job[q].at \in Writing
  PROVE  job[q].dir \in Dir
BY DEF RegistrationInv, Working, Writing, Files

\* Nothing more is safe after a step of p, and p is not about to write.
LEMMA UserStep ==
  ASSUME RegistrationInv, UserInv, NEW p \in Process, Mark(p),
         job'[p].at \notin Writing, safe' \in [Dir -> SafeEntries],
         \A d \in Dir : /\ safe'[d].servers \subseteq safe[d].servers
                        /\ safe'[d].saved \subseteq safe[d].saved
                        /\ SafeIn(d)'
  PROVE  UserInv'
<1>1. \A q \in Process : q # p => job'[q] = job[q]
  BY DEF Mark, RegistrationInv, Shapes
<1>2. ASSUME NEW q \in Process PROVE SafeWith(q)'
  <2>1. CASE q = p
    BY <2>1 DEF SafeWith, Writing
  <2>2. CASE q # p
    <3>1. job'[q] = job[q] /\ SafeWith(q)
      BY <1>1, <2>2 DEF UserInv
    <3>2. job[q].at \in Writing => job[q].dir \in Dir
      BY WritersHavePlaces
    <3> QED BY <3>1, <3>2 DEF SafeWith, Writing
  <2> QED BY <2>1, <2>2
<1> QED BY <1>2 DEF UserInv

\* A step that leaves the files.
LEMMA UserQuiet ==
  ASSUME RegistrationInv, UserInv, NEW p \in Process, Mark(p),
         job'[p].at \notin Writing, UNCHANGED <<mcp, settings, safe>>
  PROVE  UserInv'
<1>1. \A d \in Dir : SafeIn(d)'
  BY DEF UserInv, SafeIn
<1> QED BY <1>1, UserStep DEF UserInv

\* After a step, p is about to write what it has read.
LEMMA UserRead ==
  ASSUME RegistrationInv, UserInv, NEW p \in Process, Mark(p), SafeWith(p)',
         UNCHANGED <<mcp, settings, safe>>
  PROVE  UserInv'
<1>1. \A q \in Process : q # p => job'[q] = job[q]
  BY DEF Mark, RegistrationInv, Shapes
<1>2. \A q \in Process : SafeWith(q)'
  BY <1>1 DEF SafeWith, UserInv
<1>3. \A d \in Dir : SafeIn(d)'
  BY DEF UserInv, SafeIn
<1> QED BY <1>2, <1>3 DEF UserInv

LEMMA UserReadMcp ==
  ASSUME RegistrationInv, UserInv, NEW p \in Process, ReadMcp(p)
  PROVE  UserInv'
<1> DEFINE f == mcp[job[p].dir]
<1>1. job[p].at = "mcp_read" /\ job[p].dir \in Dir /\ f \in File
      /\ UNCHANGED <<mcp, settings, safe>>
  BY DEF ReadMcp, RegistrationInv, Working, Files, Shapes
<1>2. CASE Stop(p)
  BY <1>1, <1>2, StoppedWorks, UserQuiet DEF Idle, Writing
<1>3. CASE Goto(p, "settings_read")
  <2>1. Mark(p) /\ job'[p].at = "settings_read"
    BY <1>1, <1>3, GoneOn DEF Stage, Files
  <2> QED BY <1>1, <2>1, UserQuiet DEF Writing
<1>4. CASE job' = [job EXCEPT ![p].file = f, ![p].at = "mcp_write"]
  <2>1. job' = [job EXCEPT ![p].at = "mcp_write", ![p].file = f]
    BY <1>4 DEF RegistrationInv, Shapes, Job
  <2>2. /\ Mark(p) /\ job'[p].at = "mcp_write"
        /\ job'[p].dir = job[p].dir /\ job'[p].file = f
    BY <1>1, <2>1, GoneOnWith DEF Files
  <2>3. SafeWith(p)'
    BY <1>1, <2>2 DEF SafeWith, UserInv, SafeIn
  <2> QED BY <1>1, <2>2, <2>3, UserRead
<1> QED BY <1>2, <1>3, <1>4 DEF ReadMcp

LEMMA UserReadSettings ==
  ASSUME RegistrationInv, UserInv, NEW p \in Process, ReadSettings(p)
  PROVE  UserInv'
<1> DEFINE f == settings[job[p].dir]
<1>1. job[p].at = "settings_read" /\ job[p].dir \in Dir /\ f \in File
      /\ UNCHANGED <<mcp, settings, safe>>
  BY DEF ReadSettings, RegistrationInv, Working, Files, Shapes
<1>2. CASE Stop(p)
  BY <1>1, <1>2, StoppedWorks, UserQuiet DEF Idle, Writing
<1>3. CASE Goto(p, "skill")
  <2>1. Mark(p) /\ job'[p].at = "skill"
    BY <1>1, <1>3, GoneOn DEF Stage, Files
  <2> QED BY <1>1, <2>1, UserQuiet DEF Writing
<1>4. CASE job' = [job EXCEPT ![p].file = f, ![p].at = "settings_write"]
  <2>1. job' = [job EXCEPT ![p].at = "settings_write", ![p].file = f]
    BY <1>4 DEF RegistrationInv, Shapes, Job
  <2>2. /\ Mark(p) /\ job'[p].at = "settings_write"
        /\ job'[p].dir = job[p].dir /\ job'[p].file = f
    BY <1>1, <2>1, GoneOnWith DEF Files
  <2>3. SafeWith(p)'
    BY <1>1, <2>2 DEF SafeWith, UserInv, SafeIn
  <2> QED BY <1>1, <2>2, <2>3, UserRead
<1> QED BY <1>2, <1>3, <1>4 DEF ReadSettings

\* What is written is what was read, but for the user's servers in the settings.
LEMMA WrittenEntries ==
  ASSUME RegistrationInv, NEW p \in Process, job[p].at \in Files
  PROVE  /\ Injected(job[p].file, job[p].editor).user = job[p].file.user
         /\ InjectedSettings(job[p].file, job[p].editor).user = job[p].file.user \ Servers
         /\ Cleaned(job[p].file).user = job[p].file.user
<1> DEFINE f == job[p].file
           g == Injected(f, job[p].editor)
<1>1. f \in File /\ job[p].editor \in Name
  BY DEF RegistrationInv, Shapes, Job
<1>2. g \in File /\ g.user = f.user
  BY <1>1 DEF Injected, File
<1> HIDE DEF g
<1>3. [g EXCEPT !.user = @ \ Servers].user = f.user \ Servers
  BY <1>2 DEF File
<1>4. Cleaned(f).user = f.user
  BY <1>1 DEF Cleaned, File
<1> QED BY <1>2, <1>3, <1>4 DEF InjectedSettings, g

LEMMA UserWriteMcp ==
  ASSUME RegistrationInv, UserInv, NEW p \in Process, WriteMcp(p)
  PROVE  UserInv'
<1>1. /\ job[p].at = "mcp_write" /\ job[p].at \in Files /\ job[p].dir \in Dir
      /\ job' = [job EXCEPT ![p].at = "settings_read", ![p].file = NoFile]
      /\ UNCHANGED <<settings, safe>>
  BY DEF WriteMcp, Written, RegistrationInv, Working, Files
<1>2. Mark(p) /\ job'[p].at = "settings_read"
  BY <1>1, IdleIsJob, GoneOnWith DEF Files
<1>3. \A d \in Dir : \/ mcp'[d] = mcp[d]
                     \/ d = job[p].dir /\ mcp'[d].user = job[p].file.user
  BY <1>1, WrittenEntries DEF WriteMcp, RegistrationInv, Shapes
<1>4. \A d \in Dir : SafeIn(d)'
  BY <1>1, <1>3 DEF UserInv, SafeIn, SafeWith
<1> QED BY <1>1, <1>2, <1>4, UserStep DEF UserInv, Writing

LEMMA UserWriteSettings ==
  ASSUME RegistrationInv, UserInv, NEW p \in Process, WriteSettings(p)
  PROVE  UserInv'
<1>1. /\ job[p].at = "settings_write" /\ job[p].at \in Files /\ job[p].dir \in Dir
      /\ job' = [job EXCEPT ![p].at = "skill", ![p].file = NoFile]
      /\ UNCHANGED <<mcp, safe>>
  BY DEF WriteSettings, Written, RegistrationInv, Working, Files
<1>2. Mark(p) /\ job'[p].at = "skill"
  BY <1>1, IdleIsJob, GoneOnWith DEF Files
<1>3. \A d \in Dir : \/ settings'[d] = settings[d]
                     \/ /\ d = job[p].dir
                        /\ job[p].file.user \ Servers \subseteq settings'[d].user
  BY <1>1, WrittenEntries DEF WriteSettings, RegistrationInv, Shapes
<1>4. \A d \in Dir : SafeIn(d)'
  BY <1>1, <1>3 DEF UserInv, SafeIn, SafeWith
<1> QED BY <1>1, <1>2, <1>4, UserStep DEF UserInv, Writing

LEMMA UserDie ==
  ASSUME RegistrationInv, UserInv, NEW p \in Process, Die(p)
  PROVE  UserInv'
<1> DEFINE d == job[p].dir
<1>1. Mark(p) /\ job'[p].at \notin Writing
  BY StoppedWorks DEF Die, Idle, Writing
<1>2. CASE UNCHANGED <<mcp, settings, safe>>
  BY <1>1, <1>2, UserQuiet
<1>3. CASE /\ job[p].at = "mcp_write" /\ mcp' = [mcp EXCEPT ![d] = TornFile]
           /\ safe' = [safe EXCEPT ![d].servers = {}] /\ UNCHANGED settings
  <2>1. d \in Dir
    BY <1>3, WritersHavePlaces DEF Writing
  <2>2. safe' \in [Dir -> SafeEntries]
    BY <1>3, <2>1 DEF UserInv, SafeEntries
  <2>3. ASSUME NEW x \in Dir
        PROVE  /\ safe'[x].servers \subseteq safe[x].servers
               /\ safe'[x].saved \subseteq safe[x].saved
               /\ SafeIn(x)'
    <3>1. SafeIn(x) /\ safe[x] \in SafeEntries
      BY DEF UserInv
    <3>2. CASE x = d
      <4>1. safe'[x].servers = {} /\ safe'[x].saved = safe[x].saved
        BY <1>3, <2>1, <3>1, <3>2 DEF UserInv, SafeEntries
      <4> QED BY <1>3, <3>1, <4>1 DEF SafeIn
    <3>3. CASE x # d
      <4>1. safe'[x] = safe[x] /\ mcp'[x] = mcp[x]
        BY <1>3, <2>1, <3>3 DEF UserInv, RegistrationInv, Shapes
      <4> QED BY <1>3, <3>1, <4>1 DEF SafeIn
    <3> QED BY <3>2, <3>3
  <2> HIDE DEF d
  <2> QED BY <1>1, <2>2, <2>3, UserStep
<1>4. CASE /\ job[p].at = "settings_write" /\ settings' = [settings EXCEPT ![d] = TornFile]
           /\ safe' = [safe EXCEPT ![d].saved = {}] /\ UNCHANGED mcp
  <2>1. d \in Dir
    BY <1>4, WritersHavePlaces DEF Writing
  <2>2. safe' \in [Dir -> SafeEntries]
    BY <1>4, <2>1 DEF UserInv, SafeEntries
  <2>3. ASSUME NEW x \in Dir
        PROVE  /\ safe'[x].saved \subseteq safe[x].saved
               /\ safe'[x].servers \subseteq safe[x].servers
               /\ SafeIn(x)'
    <3>1. SafeIn(x) /\ safe[x] \in SafeEntries
      BY DEF UserInv
    <3>2. CASE x = d
      <4>1. safe'[x].saved = {} /\ safe'[x].servers = safe[x].servers
        BY <1>4, <2>1, <3>1, <3>2 DEF UserInv, SafeEntries
      <4> QED BY <1>4, <3>1, <4>1 DEF SafeIn
    <3>3. CASE x # d
      <4>1. safe'[x] = safe[x] /\ settings'[x] = settings[x]
        BY <1>4, <2>1, <3>3 DEF UserInv, RegistrationInv, Shapes
      <4> QED BY <1>4, <3>1, <4>1 DEF SafeIn
    <3> QED BY <3>2, <3>3
  <2> HIDE DEF d
  <2> QED BY <1>1, <2>2, <2>3, UserStep
<1> QED BY <1>2, <1>3, <1>4 DEF Die

LEMMA QuietStep ==
  ASSUME RegistrationInv, NEW p \in Process,
         \/ StartRegister(p) \/ StartUnregister(p) \/ Fail(p)
         \/ CreateEditor(p) \/ GiveGrant(p) \/ AllGranted(p) \/ DeleteEditor(p)
         \/ InstallSkill(p) \/ RemoveSkill(p) \/ Serve(p)
  PROVE  Mark(p) /\ job'[p].at \notin Writing /\ UNCHANGED <<mcp, settings, safe>>
<1> USE DEF Writing, Mark, RegistrationInv, Shapes
<1>1. ASSUME NEW stage, Goto(p, stage)
      PROVE  Mark(p) /\ job'[p].at = stage
  BY <1>1 DEF Goto, Job
<1>2. ASSUME Stop(p) PROVE Mark(p) /\ job'[p].at \notin Writing
  BY ONLY <1>2, RegistrationInv, StoppedWorks DEF Idle, Writing
<1>3. CASE StartRegister(p)
  BY ZenonT(60), <1>3 DEF StartRegister, Idle
<1>4. CASE StartUnregister(p)
  BY <1>4 DEF StartUnregister, Idle
<1>5. CASE Fail(p)
  BY <1>2, <1>5 DEF Fail
<1>6. CASE CreateEditor(p)
  <2> DEFINE j == job[p]
             k == job'[p]
             r == Head(j.roles)
  <2>1. PICK e : job' = [job EXCEPT ![p].editor = e, ![p].dir = r.dir,
                                    ![p].left = r.grants, ![p].at = "grant"]
    BY <1>6 DEF CreateEditor
  <2>2. /\ j \in Job /\ Mark(p)
        /\ k = [j EXCEPT !.editor = e, !.dir = r.dir, !.left = r.grants, !.at = "grant"]
    BY <2>1
  <2> HIDE DEF j, k, r
  <2>3. k.at = "grant"
    BY SMTT(30), <2>2 DEF Job
  <2> QED BY <1>6, <2>2, <2>3 DEF CreateEditor, k
<1>7. CASE GiveGrant(p)
  BY <1>2, <1>7 DEF GiveGrant, Job
<1>8. CASE AllGranted(p)
  BY <1>1, <1>8 DEF AllGranted
<1>9. CASE DeleteEditor(p)
  BY <1>1, <1>9 DEF DeleteEditor
<1>10. CASE InstallSkill(p)
  <2> DEFINE stage == IF Len(job[p].roles) > 1 THEN "editor" ELSE "end"
             kept  == job[p].team \cup {job[p].editor}
             rest  == Tail(job[p].roles)
  <2>1. /\ job' = [job EXCEPT ![p].team = kept, ![p].roles = rest, ![p].at = stage]
        /\ UNCHANGED <<mcp, settings, safe>>
    BY ONLY <1>10 DEF InstallSkill, history
  <2>2. stage \notin {"mcp_write", "settings_write"}
    OBVIOUS
  <2>3. job \in [Process -> Job]
    BY DEF RegistrationInv
  <2> HIDE DEF stage, kept, rest
  <2>4. job'[p] = [job[p] EXCEPT !.team = kept, !.roles = rest, !.at = stage]
    BY ONLY <2>1, <2>3
  <2>5. job'[p].at = stage
    BY ONLY <2>3, <2>4 DEF Job
  <2>6. Mark(p)
    BY ONLY <2>1, <2>3, <2>4 DEF Mark
  <2> QED BY <2>1, <2>2, <2>5, <2>6
<1>11. CASE RemoveSkill(p)
  BY <1>2, <1>11 DEF RemoveSkill
<1>12. CASE Serve(p)
  BY <1>1, <1>2, <1>12 DEF Serve
<1> QED BY <1>3, <1>4, <1>5, <1>6, <1>7, <1>8, <1>9, <1>10, <1>11, <1>12

LEMMA UserInvStep ==
  ASSUME RegistrationInv, UserInv, NEW p \in Process, Step(p)
  PROVE  UserInv'
<1>1. CASE \/ StartRegister(p) \/ StartUnregister(p) \/ Fail(p)
           \/ CreateEditor(p) \/ GiveGrant(p) \/ AllGranted(p) \/ DeleteEditor(p)
           \/ InstallSkill(p) \/ RemoveSkill(p) \/ Serve(p)
  BY <1>1, QuietStep, UserQuiet
<1> QED BY <1>1, UserReadMcp, UserReadSettings, UserWriteMcp, UserWriteSettings, UserDie
        DEF Step

\* What is saved while somebody is about to write is not counted on.
LEMMA UserSavesMcpStep ==
  ASSUME RegistrationInv, UserInv, NEW d \in Dir, UserSavesMcp(d)
  PROVE  UserInv'
<1>1. PICK u \in User :
        /\ mcp' = Saved(mcp, d, u)
        /\ safe' = [safe EXCEPT ![d].servers =
                      IF Nobody("mcp_write", d) THEN @ \cup {u} ELSE @]
        /\ UNCHANGED <<settings, job>>
  BY ServersAssumption DEF UserSavesMcp, Saved
<1>2. mcp \in [Dir -> File]
  BY DEF RegistrationInv, Shapes
<1>3. u \in mcp'[d].user /\ \A x \in Dir : mcp[x].user \subseteq mcp'[x].user
  <2>1. u \in User /\ mcp' = Saved(mcp, d, u)
    BY <1>1
  <2>2. Kept(mcp, mcp', d, u)
    BY <2>1, <1>2, SavedEntry
  <2> QED BY <2>2 DEF Kept
<1>4. safe' \in [Dir -> SafeEntries]
  BY <1>1 DEF UserInv, SafeEntries
<1>5. ASSUME NEW x \in Dir
      PROVE  /\ SafeIn(x)' /\ safe'[x].saved = safe[x].saved
             /\ safe'[x].servers = safe[x].servers \/ (x = d /\ Nobody("mcp_write", d))
  <2>1. SafeIn(x) /\ safe[x] \in SafeEntries
    BY DEF UserInv
  <2>2. CASE x = d
    <3>1. /\ safe'[d].saved = safe[d].saved
          /\ safe'[d].servers = IF Nobody("mcp_write", d) THEN safe[d].servers \cup {u}
                           ELSE safe[d].servers
      BY <1>1, <2>1, <2>2 DEF UserInv, SafeEntries
    <3>2. u \in mcp'[d].user /\ mcp[d].user \subseteq mcp'[d].user
          /\ settings'[d].user = settings[d].user
      BY <1>1, <1>3
    <3>3. SafeIn(d)'
      BY <2>1, <2>2, <3>1, <3>2 DEF SafeIn
    <3> QED BY <2>2, <3>1, <3>3
  <2>3. CASE x # d
    <3>1. safe'[x] = safe[x]
      BY <1>1, <2>3 DEF UserInv
    <3>2. mcp[x].user \subseteq mcp'[x].user /\ settings'[x].user = settings[x].user
      BY <1>1, <1>3
    <3>3. SafeIn(x)'
      BY <2>1, <3>1, <3>2 DEF SafeIn
    <3> QED BY <3>1, <3>3
  <2> QED BY <2>2, <2>3
<1>6. ASSUME NEW p \in Process PROVE SafeWith(p)'
  <2>1. SafeWith(p) /\ job' = job /\ (job[p].at \in Writing => job[p].dir \in Dir)
    BY <1>1, WritersHavePlaces DEF UserInv
  <2>2. job[p].at = "mcp_write" => safe'[job[p].dir].servers = safe[job[p].dir].servers
    BY <1>5, <2>1 DEF Nobody, Writing
  <2> QED BY <1>5, <2>1, <2>2 DEF SafeWith, Writing
<1> QED BY <1>4, <1>5, <1>6 DEF UserInv

LEMMA UserSavesSettingsStep ==
  ASSUME RegistrationInv, UserInv, NEW d \in Dir, UserSavesSettings(d)
  PROVE  UserInv'
<1>1. PICK u \in User :
        /\ settings' = Saved(settings, d, u)
        /\ safe' = [safe EXCEPT ![d].saved =
                      IF Nobody("settings_write", d) THEN @ \cup ({u} \ Servers) ELSE @]
        /\ UNCHANGED <<mcp, job>>
  BY DEF UserSavesSettings, Saved
<1>2. settings \in [Dir -> File]
  BY DEF RegistrationInv, Shapes
<1>3. u \in settings'[d].user /\ \A x \in Dir : settings[x].user \subseteq settings'[x].user
  <2>1. u \in User /\ settings' = Saved(settings, d, u)
    BY <1>1
  <2>2. Kept(settings, settings', d, u)
    BY <2>1, <1>2, SavedEntry
  <2> QED BY <2>2 DEF Kept
<1>4. safe' \in [Dir -> SafeEntries]
  BY <1>1 DEF UserInv, SafeEntries
<1>5. ASSUME NEW x \in Dir
      PROVE  /\ SafeIn(x)' /\ safe'[x].servers = safe[x].servers
             /\ safe'[x].saved = safe[x].saved \/ (x = d /\ Nobody("settings_write", d))
  <2>1. SafeIn(x) /\ safe[x] \in SafeEntries
    BY DEF UserInv
  <2>2. CASE x = d
    <3>1. /\ safe'[d].servers = safe[d].servers
          /\ safe'[d].saved = IF Nobody("settings_write", d) THEN safe[d].saved \cup ({u} \ Servers)
                           ELSE safe[d].saved
      BY <1>1, <2>1, <2>2 DEF UserInv, SafeEntries
    <3>2. u \in settings'[d].user /\ settings[d].user \subseteq settings'[d].user
          /\ mcp'[d].user = mcp[d].user
      BY <1>1, <1>3
    <3>3. SafeIn(d)'
      BY <2>1, <2>2, <3>1, <3>2 DEF SafeIn
    <3> QED BY <2>2, <3>1, <3>3
  <2>3. CASE x # d
    <3>1. safe'[x] = safe[x]
      BY <1>1, <2>3 DEF UserInv
    <3>2. settings[x].user \subseteq settings'[x].user /\ mcp'[x].user = mcp[x].user
      BY <1>1, <1>3
    <3>3. SafeIn(x)'
      BY <2>1, <3>1, <3>2 DEF SafeIn
    <3> QED BY <3>1, <3>3
  <2> QED BY <2>2, <2>3
<1>6. ASSUME NEW p \in Process PROVE SafeWith(p)'
  <2>1. SafeWith(p) /\ job' = job /\ (job[p].at \in Writing => job[p].dir \in Dir)
    BY <1>1, WritersHavePlaces DEF UserInv
  <2>2. job[p].at = "settings_write" => safe'[job[p].dir].saved = safe[job[p].dir].saved
    BY <1>5, <2>1 DEF Nobody, Writing
  <2> QED BY <1>5, <2>1, <2>2 DEF SafeWith, Writing
<1> QED BY <1>4, <1>5, <1>6 DEF UserInv

LEMMA UserInvInit == Init => UserInv
<1> SUFFICES ASSUME Init PROVE UserInv
  OBVIOUS
<1>1. PICK m \in SUBSET Servers, u \in SUBSET User :
         /\ mcp = [d \in Dir |-> Found(m)] /\ settings = [d \in Dir |-> Found(u)]
         /\ safe = [d \in Dir |-> [servers |-> m, saved |-> u \ Servers]]
  BY DEF Init
<1>2. m \in SUBSET User
  BY ServersAssumption
<1>3. \A d \in Dir : SafeIn(d)
  BY <1>1, <1>2, FoundIsFile DEF SafeIn
<1>4. \A p \in Process : SafeWith(p)
  BY DEF Init, Idle, SafeWith
<1> QED BY <1>1, <1>2, <1>3, <1>4 DEF UserInv, SafeEntries

LEMMA UserInvNext == RegistrationInv /\ UserInv /\ [Next]_vars => UserInv'
<1> SUFFICES ASSUME RegistrationInv, UserInv, [Next]_vars PROVE UserInv'
  OBVIOUS
<1>1. ASSUME UNCHANGED vars PROVE UserInv'
  BY <1>1 DEF vars, UserInv, SafeIn, SafeWith
<1> QED BY <1>1, UserInvStep, UserSavesMcpStep, UserSavesSettingsStep DEF Next

(* An entry of the user's that was there at the start, or was saved while  *)
(* no command was between reading and writing the file, is never lost but  *)
(* to a command that dies writing it, however many commands and saves      *)
(* there are (register.rs:253, unregister.rs:58).                          *)
THEOREM UserIsKept == Spec => []UserEntriesKept
<1>1. UserInv => UserEntriesKept
  BY DEF UserInv, SafeIn, UserEntriesKept
<1>2. Spec => [](RegistrationInv /\ UserInv)
  BY UserInvNext, UserInvInit, RegistrationSafety, PTL DEF Spec
<1> QED BY <1>1, <1>2, PTL
=============================================================================
