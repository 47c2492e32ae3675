------------------------- MODULE ExtensionScaffold -------------------------
(***************************************************************************)
(* elfiee-ext-gen: create generates the files of an extension and enters   *)
(* it in three files of the project; validate looks whether that was done  *)
(* (elfiee-ext-gen/src/commands, core/generator.rs, core/validator.rs).    *)
(*                                                                         *)
(* Texts are sets of the lines that matter.  A name is what the conversions*)
(* make of it: its snake_case words and its PascalCase pieces, put side by *)
(* side where the code joins an extension's and a capability's with "_".   *)
(* A write that is cut off leaves some of the lines.                       *)
(***************************************************************************)
EXTENDS Naturals, Sequences, FiniteSets

CONSTANTS Ext,          \* extension names
          Cap,          \* capability names
          Raw,          \* an extension name as it is written, word by word
          Snake,        \* to_snake_case of a name, word by word
          Pascal,       \* to_pascal_case of a name, piece by piece
          Capital,      \* to_pascal_case of a snake_case word
          Allowed,      \* names that pass the checks on names
          MaxCreates    \* bound: creates

ASSUME NameAssumption == /\ DOMAIN Raw = Ext
                         /\ Snake \in [Ext \cup Cap -> Seq(DOMAIN Capital)]
                         /\ DOMAIN Pascal = Ext \cup Cap
                         /\ Allowed \subseteq Ext \cup Cap
ASSUME MaxCreatesAssumption == MaxCreates \in Nat

VARIABLES
    present,     \* files of the project to be amended that exist
    layout,      \* where the last self.register( of registry.rs is: within
                 \*   register_extensions, elsewhere; or there is no such function
    anchored,    \* lib.rs has a line beside which types are entered
    broken,      \* files that do not parse any more
    dir,         \* the files in each extension's directory
    declared,    \* capabilities its mod.rs declares, with a payload each
    tested,      \* extensions whose mod.rs has its tests
    modules,     \* pub mod lines of extensions/mod.rs
    uses,        \* extensions whose names registry.rs imports
    registered,  \* structs registry.rs registers
    types,       \* payload types lib.rs registers: extension and struct
    creates,     \* how many creates there were
    run,         \* the create in progress
    last,        \* how the last create of each extension ended
    torn,        \* files cut off since its last create was done
    report       \* what a validate since then said, and of which extension

files        == <<present, layout, anchored, broken, dir, declared, tested>>
lines        == <<modules, uses, registered, types>>
project      == <<files, lines>>
scaffoldVars == <<files, lines, creates, run, last, torn, report>>

NoRun    == [at |-> "idle"]
NoReport == [of |-> "none"]

-----------------------------------------------------------------------------
\* The struct create registers for a capability, and the one validate expects
\* from the name of the capability's file.
Struct(e, c)   == Pascal[e] \o Pascal[c]
Stem(e, c)     == Snake[e] \o Snake[c]
Expected(e, c) == [i \in DOMAIN Stem(e, c) |-> Capital[Stem(e, c)[i]]]

\* The module that mod.rs declares for it takes the extension's name as it is.
Module(e, c) == Raw[e] \o Snake[c]

Handlers(e) == dir[e] \cap Cap

-----------------------------------------------------------------------------
(***************************************************************************)
(* create                                                                  *)
(***************************************************************************)
Valid(e, caps) == caps # {} /\ caps \cup {e} \subseteq Allowed

\* The guide is written beside them and read by nobody.
Generated(caps) == {"mod.rs", "tests.rs"} \cup caps

\* Everything is rendered before the first file is written.
Create(e, caps) ==
    /\ run.at = "idle"
    /\ Valid(e, caps)
    /\ creates < MaxCreates /\ creates' = creates + 1
    /\ run' = [at |-> "write", ext |-> e, caps |-> caps, left |-> Generated(caps)]
    /\ report' = NoReport
    /\ UNCHANGED <<project, last, torn>>

\* cut: the file that was not written to its end, if there is one.
EndCreate(result, cut) ==
    /\ run' = NoRun
    /\ last' = [last EXCEPT ![run.ext] = result]
    /\ torn' = [e \in Ext |-> IF last'[e] = "ok" /\ e # run.ext THEN torn[e] \cup cut
                             ELSE {}]
    /\ UNCHANGED <<creates, report>>

Proceed(step) == run' = [run EXCEPT !.at = step] /\ UNCHANGED <<creates, last, torn, report>>

\* One of the files, in any order, over whatever it held.
WriteFile ==
    /\ run.at = "write"
    /\ \E f \in run.left :
          /\ dir' = [dir EXCEPT ![run.ext] = @ \cup {f}]
          /\ IF f = "mod.rs"
             THEN /\ declared' = [declared EXCEPT ![run.ext] = run.caps]
                  /\ tested' = tested \cup {run.ext}
             ELSE UNCHANGED <<declared, tested>>
          /\ run' = [run EXCEPT !.left = @ \ {f},
                                !.at = IF run.left = {f} THEN "modules" ELSE "write"]
    /\ UNCHANGED <<present, layout, anchored, broken, lines, creates, last, torn, report>>

\* Reads the file it amends and gives up if it is not there.
Missing(file, step) == /\ run.at = step /\ file \notin present
                       /\ EndCreate("failed", {})
                       /\ UNCHANGED project

\* Mutant of EnsureExtensionModule: the line is added and not written.
EnsureExtensionModule_Lost ==
    /\ run.at = "modules" /\ "extensions/mod.rs" \in present
    /\ Proceed("registry")
    /\ UNCHANGED project

EnsureExtensionModule ==
    /\ run.at = "modules" /\ "extensions/mod.rs" \in present
    /\ modules' = modules \cup {run.ext}
    /\ Proceed("registry")
    /\ UNCHANGED <<files, uses, registered, types>>

Structs == {Struct(run.ext, c) : c \in run.caps}

\* A line that is there already is not added again; the others come after the last
\* of their kind, wherever that is.
UpdateRegistry ==
    /\ run.at = "registry" /\ "registry.rs" \in present /\ layout # "without"
    /\ uses' = uses \cup {run.ext}
    /\ registered' = registered \cup Structs
    /\ Proceed("types")
    /\ UNCHANGED <<files, modules, types>>

\* No register_extensions to import the names in.
NoPlace == /\ run.at = "registry" /\ "registry.rs" \in present /\ layout = "without"
           /\ EndCreate("failed", {})
           /\ UNCHANGED project

Payloads == {<<run.ext, Struct(run.ext, c)>> : c \in run.caps}

\* Without an anchor nothing is entered, and nothing is said.
UpdateSpectaTypes ==
    /\ run.at = "types" /\ "lib.rs" \in present
    /\ types' = IF anchored THEN types \cup Payloads ELSE types
    /\ EndCreate("ok", {})
    /\ UNCHANGED <<files, modules, uses, registered>>

-----------------------------------------------------------------------------
(***************************************************************************)
(* A write fails, or the user interrupts: between two files, or when one   *)
(* has been emptied and not all of it written.                             *)
(***************************************************************************)
Fail == /\ run.at # "idle"
        /\ EndCreate("failed", {})
        /\ UNCHANGED project

MayBreak(file) == broken' \in {broken, broken \cup {file}}

\* mod.rs has its tests last.
FileCutOff ==
    /\ run.at = "write"
    /\ \E f \in run.left :
          /\ dir' = [dir EXCEPT ![run.ext] = @ \cup {f}]
          /\ IF f = "mod.rs"
             THEN /\ \E some \in {{}, run.caps} :
                        declared' = [declared EXCEPT ![run.ext] = some]
                  /\ tested' = tested \ {run.ext}
             ELSE UNCHANGED <<declared, tested>>
    /\ EndCreate("failed", {})
    /\ UNCHANGED <<present, layout, anchored, broken, lines>>

\* extensions/mod.rs is not written if the line is there.
ModulesCutOff ==
    /\ run.at = "modules" /\ "extensions/mod.rs" \in present /\ run.ext \notin modules
    /\ modules' \in {{}, modules}
    /\ MayBreak("extensions/mod.rs")
    /\ EndCreate("failed", {"extensions/mod.rs"})
    /\ UNCHANGED <<present, layout, anchored, dir, declared, tested, uses, registered, types>>

\* The imports are in register_extensions, and go with it.
RegistryCutOff ==
    /\ run.at = "registry" /\ "registry.rs" \in present /\ layout # "without"
    /\ \/ uses' = uses \cup {run.ext} /\ registered' = registered /\ layout' = layout
       \/ uses' = {} /\ registered' = {} /\ layout' = "without"
    /\ MayBreak("registry.rs")
    /\ EndCreate("failed", {"registry.rs"})
    /\ UNCHANGED <<present, anchored, dir, declared, tested, modules, types>>

\* A type that is left is an anchor.
TypesCutOff ==
    /\ run.at = "types" /\ "lib.rs" \in present /\ ~(Payloads \subseteq types)
    /\ \/ UNCHANGED <<anchored, types>>
       \/ anchored' = FALSE /\ types' = {}
    /\ EndCreate("failed", {"lib.rs"})
    /\ UNCHANGED <<present, layout, broken, dir, declared, tested, modules, uses, registered>>

-----------------------------------------------------------------------------
(***************************************************************************)
(* validate                                                                *)
(***************************************************************************)

\* tests.rs counts as a file of a capability here.
FilesMissing(e) ==
    {f \in {"mod.rs"} : f \notin dir[e]} \cup
    {f \in {"capability files"} : dir[e] \cap (Cap \cup {"tests.rs"}) = {}}

PayloadsMissing(e) == {f \in {"payloads"} : "mod.rs" \in dir[e] /\ declared[e] = {}}

TestsMissing(e) == {f \in {"tests"} : "mod.rs" \notin dir[e] \/ e \notin tested}

\* Only what parses is looked into, and of the calls those in register_extensions.
Readable(file) == file \in present \ broken
Registers(s)   == layout = "within" /\ s \in registered

\* Mutant of RegistrationMissing: a call anywhere in the file will do.
RegistrationMissing_Anywhere(e) ==
    {f \in {"pub mod"} : ~(Readable("extensions/mod.rs") /\ e \in modules)} \cup
    {f \in {"use"} : ~(Readable("registry.rs") /\ e \in uses)} \cup
    {f \in {"impl"} : layout = "without"} \cup
    {f \in {"register"} : \E c \in Handlers(e) : Expected(e, c) \notin registered} \cup
    {f \in {"Specta"} : e \notin {t[1] : t \in types}}

RegistrationMissing(e) ==
    {f \in {"pub mod"} : ~(Readable("extensions/mod.rs") /\ e \in modules)} \cup
    {f \in {"use"} : ~(Readable("registry.rs") /\ e \in uses)} \cup
    {f \in {"impl"} : layout = "without"} \cup
    {f \in {"register"} : \E c \in Handlers(e) : ~Registers(Expected(e, c))} \cup
    {f \in {"Specta"} : e \notin {t[1] : t \in types}}

Failed(e)   == FilesMissing(e) \cup PayloadsMissing(e)
Warnings(e) == TestsMissing(e) \cup RegistrationMissing(e)

\* It fails if a file is missing and only warns of what is not registered.
Validate(e) ==
    /\ run.at = "idle" /\ dir[e] # {}
    /\ report' = [of |-> e, passed |-> Failed(e) = {}, warns |-> Warnings(e) # {}]
    /\ UNCHANGED <<project, creates, run, last, torn>>

-----------------------------------------------------------------------------
ScaffoldInit ==
    /\ present \in SUBSET {"extensions/mod.rs", "registry.rs", "lib.rs"}
    /\ layout \in {"within", "elsewhere", "without"} /\ anchored \in BOOLEAN
    /\ broken = {}
    /\ dir = [e \in Ext |-> {}] /\ declared = [e \in Ext |-> {}] /\ tested = {}
    /\ modules = {} /\ uses = {} /\ registered = {} /\ types = {}
    /\ creates = 0 /\ run = NoRun
    /\ last = [e \in Ext |-> "none"] /\ torn = [e \in Ext |-> {}]
    /\ report = NoReport

ScaffoldNext ==
    \/ \E e \in Ext : Validate(e) \/ \E caps \in SUBSET Cap : Create(e, caps)
    \/ WriteFile
    \/ EnsureExtensionModule \/ Missing("extensions/mod.rs", "modules")
    \/ UpdateRegistry \/ Missing("registry.rs", "registry") \/ NoPlace
    \/ UpdateSpectaTypes \/ Missing("lib.rs", "types")
    \/ Fail \/ FileCutOff \/ ModulesCutOff \/ RegistryCutOff \/ TypesCutOff

ScaffoldSpec == ScaffoldInit /\ [][ScaffoldNext]_scaffoldVars
=============================================================================
