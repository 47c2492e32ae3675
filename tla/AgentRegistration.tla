------------------------- MODULE AgentRegistration -------------------------
(***************************************************************************)
(* elf register, elf unregister and elf run: commands in processes of      *)
(* their own that give an agent an editor and its grants in the event      *)
(* store, and write the agent's configuration into files that belong to    *)
(* the user (src/cli/register.rs, unregister.rs, run.rs, resolve.rs).      *)
(*                                                                         *)
(* A file is read, changed in memory and written: between the two another  *)
(* command or the user's own tool may write it.  A process may die between *)
(* any two steps, and in the middle of a write.                            *)
(***************************************************************************)
EXTENDS Naturals, Sequences, SequencesExt, FiniteSets

CONSTANTS None, Wild,
          Process,      \* commands that may run at the same time
          Agent,        \* editor ids, each handed out at most once
          Dir,          \* directories with an agent's configuration
          Known,        \* block names and ids that resolve to one block
          User,         \* entries of the user's own in the files
          Servers,      \* those under mcpServers: all there are in .mcp.json
          Templates     \* what register and run are called with

ASSUME ServersAssumption == Servers \subseteq User

ASSUME NoneAssumption == None \notin Agent

\* A grant of a role: a capability, on a block given by name or id or on all.
\* A role: where its agent's configuration is, and its grants in order.
IsRole(r) == /\ r.dir \in Dir
             /\ r.grants \in Seq(Range(r.grants))
             /\ \A i \in DOMAIN r.grants : r.grants[i].cap \in STRING

ASSUME TemplatesAssumption ==
    \A t \in Templates : /\ t.roles # <<>> /\ t.serve \in BOOLEAN
                         /\ t.roles \in Seq(Range(t.roles))
                         /\ \A i \in DOMAIN t.roles : IsRole(t.roles[i])

VARIABLES
    editors,   \* editors in the event store
    granted,   \* the grants of each
    role,      \* the role each was created for
    mcp,       \* .mcp.json beside each directory
    settings,  \* settings.local.json in it
    skill,     \* directories with the skill installed
    job,       \* the commands
    removed,   \* history: editors and directories unregister is done with, where
               \* the editor's own registration was over when it began
    safe       \* history: of the user's entries in each pair of files, those that
               \* were there at the start or were saved while no command was
               \* between reading and writing the file

store   == <<editors, granted, role>>
history == <<removed, safe>>
vars    == <<store, mcp, settings, skill, job, history>>

\* A file: absent, whole or torn; the user's entries in it; ours.
NoFile   == [state |-> "absent", user |-> {}, ours |-> None]
TornFile == [NoFile EXCEPT !.state = "torn"]

Idle == [at |-> "idle", for |-> None, roles |-> <<>>, serve |-> FALSE,
         editor |-> None, dir |-> None, left |-> <<>>, file |-> NoFile, team |-> {},
         settled |-> FALSE]

Registering(p)   == job[p].for \in {"register", "run"}
Unregistering(p) == job[p].for = "unregister"

Goto(p, stage) == job' = [job EXCEPT ![p].at = stage]
Written(p, stage) == job' = [job EXCEPT ![p].at = stage, ![p].file = NoFile]
Stop(p)        == job' = [job EXCEPT ![p] = Idle]

-----------------------------------------------------------------------------
(***************************************************************************)
(* Starting a command.                                                     *)
(***************************************************************************)
StartRegister(p) ==
    /\ job[p].at = "idle"
    /\ \E t \in Templates :
          job' = [job EXCEPT ![p] = [Idle EXCEPT
                    !.for = IF t.serve THEN "run" ELSE "register",
                    !.at = "editor", !.roles = t.roles, !.serve = t.serve]]
    /\ UNCHANGED <<store, mcp, settings, skill, history>>

\* The registration of an editor is over: it ended, failed or died.
Settled(e) == \A q \in Process : Registering(q) => job[q].editor # e

\* Any id in the store may be given, that of a registration still at work too.
StartUnregister(p) ==
    /\ job[p].at = "idle"
    /\ \E e \in DOMAIN role, d \in Dir :
          job' = [job EXCEPT ![p] = [Idle EXCEPT !.for = "unregister", !.at = "delete",
                                                !.editor = e, !.dir = d,
                                                !.settled = Settled(e)]]
    /\ UNCHANGED <<store, mcp, settings, skill, history>>

-----------------------------------------------------------------------------
(***************************************************************************)
(* Inward: the event store.                                                *)
(***************************************************************************)

\* The engine refuses, a file cannot be read, as while another command writes it,
\* or the skill cannot be written.  A write that fails leaves what Die does.
Fail(p) ==
    /\ job[p].at \in {"editor", "grant", "delete", "mcp_read", "settings_read", "skill"}
    /\ Stop(p)
    /\ UNCHANGED <<store, mcp, settings, skill, history>>

\* Mutant of CreateEditor: the configuration first, the grants after it.
CreateEditor_NoGrants(p) ==
    /\ job[p].at = "editor"
    /\ \E e \in Agent \ DOMAIN role :
          LET r == Head(job[p].roles) IN
          /\ editors' = editors \cup {e}
          /\ role' = [x \in DOMAIN role \cup {e} |-> IF x = e THEN r ELSE role[x]]
          /\ granted' = [granted EXCEPT ![e] = {}]
          /\ job' = [job EXCEPT ![p].editor = e, ![p].dir = r.dir, ![p].left = <<>>,
                                ![p].at = "grant"]
    /\ UNCHANGED <<mcp, settings, skill, history>>

\* The agent's configuration directory is the one given, or .claude.
CreateEditor(p) ==
    /\ job[p].at = "editor"
    /\ \E e \in Agent \ DOMAIN role :
          LET r == Head(job[p].roles) IN
          /\ editors' = editors \cup {e}
          /\ role' = [x \in DOMAIN role \cup {e} |-> IF x = e THEN r ELSE role[x]]
          /\ granted' = [granted EXCEPT ![e] = {}]
          /\ job' = [job EXCEPT ![p].editor = e, ![p].dir = r.dir,
                                ![p].left = r.grants, ![p].at = "grant"]
    /\ UNCHANGED <<mcp, settings, skill, history>>

Resolves(name) == name = Wild \/ name \in Known

\* One grant at a time.  A name that does not resolve ends the command, with
\* the editor and the grants so far in place.
GiveGrant(p) ==
    /\ job[p].at = "grant" /\ job[p].left # <<>>
    /\ LET g == Head(job[p].left) IN
       IF Resolves(g.block)
       THEN /\ granted' = [granted EXCEPT ![job[p].editor] = @ \cup {g}]
            /\ job' = [job EXCEPT ![p].left = Tail(@)]
       ELSE UNCHANGED granted /\ Stop(p)
    /\ UNCHANGED <<editors, role, mcp, settings, skill, history>>

AllGranted(p) ==
    /\ job[p].at = "grant" /\ job[p].left = <<>>
    /\ Goto(p, "mcp_read")
    /\ UNCHANGED <<store, mcp, settings, skill, history>>

\* Mutant of DeleteEditor: the grants of the editor stay, and so does it.
DeleteEditor_Keeps(p) ==
    /\ job[p].at = "delete"
    /\ Goto(p, "mcp_read")
    /\ UNCHANGED <<store, mcp, settings, skill, history>>

DeleteEditor(p) ==
    /\ job[p].at = "delete"
    /\ editors' = editors \ {job[p].editor}
    /\ granted' = [granted EXCEPT ![job[p].editor] = {}]
    /\ Goto(p, "mcp_read")
    /\ UNCHANGED <<role, mcp, settings, skill, history>>

-----------------------------------------------------------------------------
(***************************************************************************)
(* Outward: the files.                                                     *)
(***************************************************************************)

\* inject_mcp_config: our server, or our editor, beside what the user has; but
\* what the settings hold under mcpServers is taken out.
Injected(file, e) == [file EXCEPT !.state = "whole", !.ours = e]
InjectedSettings(file, e) == [Injected(file, e) EXCEPT !.user = @ \ Servers]

\* Mutant of Cleaned: a new file in place of the user's.
Cleaned_Afresh(file) == [NoFile EXCEPT !.state = "whole"]

\* clean_mcp_config: whoever wrote our entries, they are taken out.
Cleaned(file) == [file EXCEPT !.ours = None]

\* A torn file does not parse: the command ends.  unregister passes over a file
\* that is not there.
ReadMcp(p) ==
    /\ job[p].at = "mcp_read"
    /\ LET file == mcp[job[p].dir] IN
       CASE file.state = "torn" -> Stop(p)
         [] file.state = "absent" /\ Unregistering(p) -> Goto(p, "settings_read")
         [] OTHER -> job' = [job EXCEPT ![p].file = file, ![p].at = "mcp_write"]
    /\ UNCHANGED <<store, mcp, settings, skill, history>>

WriteMcp(p) ==
    /\ job[p].at = "mcp_write"
    /\ LET file == job[p].file IN
       mcp' = [mcp EXCEPT ![job[p].dir] =
                 IF Registering(p) THEN Injected(file, job[p].editor) ELSE Cleaned(file)]
    /\ Written(p, "settings_read")
    /\ UNCHANGED <<store, settings, skill, history>>

ReadSettings(p) ==
    /\ job[p].at = "settings_read"
    /\ LET file == settings[job[p].dir] IN
       CASE file.state = "torn" -> Stop(p)
         [] file.state = "absent" /\ Unregistering(p) -> Goto(p, "skill")
         [] OTHER -> job' = [job EXCEPT ![p].file = file, ![p].at = "settings_write"]
    /\ UNCHANGED <<store, mcp, settings, skill, history>>

WriteSettings(p) ==
    /\ job[p].at = "settings_write"
    /\ LET file == job[p].file IN
       settings' = [settings EXCEPT ![job[p].dir] =
                      IF Registering(p) THEN InjectedSettings(file, job[p].editor)
                      ELSE Cleaned(file)]
    /\ Written(p, "skill")
    /\ UNCHANGED <<store, mcp, skill, history>>

InstallSkill(p) ==
    /\ job[p].at = "skill" /\ Registering(p)
    /\ skill' = skill \cup {job[p].dir}
    /\ job' = [job EXCEPT
                 ![p].team = @ \cup {job[p].editor},
                 ![p].roles = Tail(@),
                 ![p].at = IF Len(job[p].roles) > 1 THEN "editor" ELSE "end"]
    /\ UNCHANGED <<store, mcp, settings, history>>

RemoveSkill(p) ==
    /\ job[p].at = "skill" /\ Unregistering(p)
    /\ skill' = skill \ {job[p].dir}
    /\ removed' = IF job[p].settled THEN removed \cup {<<job[p].editor, job[p].dir>>}
                  ELSE removed
    /\ Stop(p)
    /\ UNCHANGED <<store, mcp, settings, safe>>

-----------------------------------------------------------------------------
\* elf run starts the server when the last role is registered.
Serve(p) ==
    /\ job[p].at = "end"
    /\ IF job[p].serve THEN Goto(p, "serving") ELSE Stop(p)
    /\ UNCHANGED <<store, mcp, settings, skill, history>>

\* Ctrl-C, a crash or a kill: whatever was to follow is not done.  fs::write
\* empties the file before it writes.
Die(p) ==
    /\ job[p].at # "idle"
    /\ Stop(p)
    /\ LET d == job[p].dir IN
       \/ UNCHANGED <<mcp, settings, safe>>
       \/ /\ job[p].at = "mcp_write" /\ mcp' = [mcp EXCEPT ![d] = TornFile]
          /\ safe' = [safe EXCEPT ![d].servers = {}] /\ UNCHANGED settings
       \/ /\ job[p].at = "settings_write" /\ settings' = [settings EXCEPT ![d] = TornFile]
          /\ safe' = [safe EXCEPT ![d].saved = {}] /\ UNCHANGED mcp
    /\ UNCHANGED <<store, skill, removed>>

Nobody(at, d) == \A p \in Process : ~(job[p].at = at /\ job[p].dir = d)

\* The user's own tool saves an entry at any time: a server,
UserSavesMcp(d) ==
    /\ mcp[d].state # "torn"
    /\ \E u \in Servers \ mcp[d].user :
          /\ mcp' = [mcp EXCEPT ![d].user = @ \cup {u}, ![d].state = "whole"]
          /\ safe' = [safe EXCEPT ![d].servers =
                        IF Nobody("mcp_write", d) THEN @ \cup {u} ELSE @]
    /\ UNCHANGED <<store, settings, skill, job, removed>>

\* or a setting, such as a permission just given.
UserSavesSettings(d) ==
    /\ settings[d].state # "torn"
    /\ \E u \in User \ settings[d].user :
          /\ settings' = [settings EXCEPT ![d].user = @ \cup {u}, ![d].state = "whole"]
          /\ safe' = [safe EXCEPT ![d].saved =
                        IF Nobody("settings_write", d) THEN @ \cup ({u} \ Servers) ELSE @]
    /\ UNCHANGED <<store, mcp, skill, job, removed>>

-----------------------------------------------------------------------------
\* A file may be absent, or hold entries of the user's.
Found(users) == IF users = {} THEN NoFile
                ELSE [NoFile EXCEPT !.state = "whole", !.user = users]

Init ==
    /\ editors = {} /\ role = [e \in {} |-> None] /\ granted = [e \in Agent |-> {}]
    /\ \E m \in SUBSET Servers, s \in SUBSET User :
          /\ mcp = [d \in Dir |-> Found(m)] /\ settings = [d \in Dir |-> Found(s)]
          /\ safe = [d \in Dir |-> [servers |-> m, saved |-> s \ Servers]]
    /\ skill = {} /\ removed = {}
    /\ job = [p \in Process |-> Idle]

Step(p) == \/ StartRegister(p) \/ StartUnregister(p) \/ Fail(p)
           \/ CreateEditor(p) \/ GiveGrant(p) \/ AllGranted(p) \/ DeleteEditor(p)
           \/ ReadMcp(p) \/ WriteMcp(p) \/ ReadSettings(p) \/ WriteSettings(p)
           \/ InstallSkill(p) \/ RemoveSkill(p) \/ Serve(p) \/ Die(p)

Next == \/ \E p \in Process : Step(p)
        \/ \E d \in Dir : UserSavesMcp(d) \/ UserSavesSettings(d)

Spec == Init /\ [][Next]_vars
=============================================================================
