------------------------------ MODULE FileScan ------------------------------
(***************************************************************************)
(* elf init and elf scan bring the files of the project directory into     *)
(* blocks (src/cli/scan.rs, src/utils/block_type_inference.rs).            *)
(*                                                                         *)
(* A scan is a process: it opens the project, reads the files, and then    *)
(* works through them one command at a time, by what its own engine knew   *)
(* when it opened.  Meanwhile files change, other scans run, and it may    *)
(* die.                                                                    *)
(***************************************************************************)
EXTENDS Naturals, FiniteSets

CONSTANTS Absent,       \* no file, no content, no block
          Binary,       \* contents that are not text
          Scanner,      \* scans that may run at the same time
          File,         \* relative paths of files, which name their blocks
          Text,         \* contents of text files
          Block,        \* block ids
          Ignored,      \* files the ignore rules exclude
          Foreign,      \* names of blocks of another type there may be
          Mapped,       \* files to which the user's own .elftypes gives that type
          MaxEdits      \* bound: changes to files

ASSUME FileAssumption     == Ignored \cup Foreign \cup Mapped \subseteq File
ASSUME MaxEditsAssumption == MaxEdits \in Nat
ASSUME ContentAssumption  == Absent \notin Text \cup {Binary} /\ Binary \notin Text

VARIABLES
    disk,      \* what is in each file, Absent if it is not there
    edits,     \* how often files were changed
    elftypes,  \* ~/.elf/.elftypes: the default, if it is there, or the user's
    blocks,    \* blocks of the event store: block id -> name, type, content
    scan       \* where each scan is

scanVars == <<disk, edits, elftypes, blocks, scan>>

NoScan == [at |-> "idle", one |-> Absent, view |-> {}, files |-> {}, left |-> {},
           new |-> Absent, own |-> FALSE, result |-> "none"]

EndScan(p, result) == scan' = [scan EXCEPT ![p].at = "idle", ![p].result = result]

Fresh == Block \ DOMAIN blocks

With(b, rec) == [x \in DOMAIN blocks \cup {b} |-> IF x = b THEN rec ELSE blocks[x]]

Document(name, content) == [name |-> name, type |-> "document", content |-> content]

-----------------------------------------------------------------------------
\* infer_block_type: in the default map listed extensions are documents, like the
\* unlisted ones.
Inferred(own, f) == IF own /\ f \in Mapped THEN "task" ELSE "document"

\* The first call of a process writes the default map over the user's.  If it cannot
\* it says nothing, and reads the user's.
LoadTypes(own) == /\ elftypes' \in {elftypes, "default"}
                  /\ own => elftypes' = "own"

\* The files of the directory, with their contents.
Walk == {[file |-> f, content |-> disk[f]] :
            f \in {g \in File : disk[g] # Absent /\ g \notin Ignored}}

-----------------------------------------------------------------------------
\* elf scan, of everything or of one file.
OpenProject(p) ==
    /\ scan[p].at = "idle"
    /\ \E one \in File \cup {Absent} :
          scan' = [scan EXCEPT ![p] = [NoScan EXCEPT !.at = "walk", !.one = one,
                                                     !.view = DOMAIN blocks]]
    /\ UNCHANGED <<disk, edits, elftypes, blocks>>

\* elf init scans before there is any block.
InitProject(p) ==
    /\ scan[p].at = "idle" /\ blocks = <<>>
    /\ \A q \in Scanner : scan[q].at = "idle"
    /\ \E own \in BOOLEAN :
          /\ LoadTypes(own)
          /\ scan' = [scan EXCEPT ![p] = [NoScan EXCEPT !.at = "append", !.files = Walk,
                                                        !.left = Walk, !.own = own]]
    /\ UNCHANGED <<disk, edits, blocks>>

ScanProject(p) ==
    /\ scan[p].at = "walk" /\ scan[p].one = Absent
    /\ \E own \in BOOLEAN :
          /\ LoadTypes(own)
          /\ scan' = [scan EXCEPT ![p].at = "next", ![p].files = Walk, ![p].left = Walk,
                                  ![p].own = own]
    /\ UNCHANGED <<disk, edits, blocks>>

\* One file, by its name: no ignore rules, but it must be there and be text.
ReadFile(p) ==
    /\ scan[p].at = "walk" /\ scan[p].one # Absent
    /\ LET f == scan[p].one
           found == {[file |-> f, content |-> disk[f]]} IN
       IF disk[f] \in Text
       THEN scan' = [scan EXCEPT ![p].at = "next", ![p].files = found, ![p].left = found]
       ELSE EndScan(p, "failed")
    /\ UNCHANGED <<disk, edits, elftypes, blocks>>

\* create_blocks_for_files: create events with the contents, row by row.
AppendEvent(p) ==
    /\ scan[p].at = "append"
    /\ \E f \in scan[p].left, b \in Fresh :
          /\ blocks' = With(b, [name |-> f.file, type |-> Inferred(scan[p].own, f.file),
                                content |-> IF f.content = Binary THEN Absent ELSE f.content])
          /\ scan' = [scan EXCEPT ![p].left = @ \ {f}]
    /\ UNCHANGED <<disk, edits, elftypes>>

-----------------------------------------------------------------------------
(***************************************************************************)
(* run_batch and run_single_file, file by file.                            *)
(***************************************************************************)

\* Blocks of that name the scan knows.  If there are several, the map of names
\* keeps any of them.
NamedBlocks(p, f) == {b \in scan[p].view : blocks[b].name = f}

\* Mutant of UpdateBlock: what is there already is left alone.
UpdateBlock_Skips(p) ==
    /\ scan[p].at = "next"
    /\ \E f \in scan[p].left :
          /\ NamedBlocks(p, f.file) # {}
          /\ scan' = [scan EXCEPT ![p].left = @ \ {f}]
    /\ UNCHANGED <<disk, edits, elftypes, blocks>>

\* document.write on a block of another type fails, and ends the scan.
UpdateBlock(p) ==
    /\ scan[p].at = "next"
    /\ \E f \in scan[p].left : \E b \in NamedBlocks(p, f.file) :
          IF f.content = Binary
          THEN scan' = [scan EXCEPT ![p].left = @ \ {f}] /\ UNCHANGED blocks
          ELSE IF blocks[b].type # "document"
          THEN EndScan(p, "failed") /\ UNCHANGED blocks
          ELSE /\ blocks' = [blocks EXCEPT ![b].content = f.content]
               /\ scan' = [scan EXCEPT ![p].left = @ \ {f}]
    /\ UNCHANGED <<disk, edits, elftypes>>

\* Mutant of CreateBlock: does not look for a block of that name.
CreateBlock_Always(p) ==
    /\ scan[p].at = "next"
    /\ \E f \in scan[p].left, b \in Fresh :
          /\ blocks' = With(b, Document(f.file, Absent))
          /\ scan' = [scan EXCEPT ![p].new = b, ![p].at = "write"]
    /\ UNCHANGED <<disk, edits, elftypes>>

\* A scan of one file has not looked at the types before.
CreateBlock(p) ==
    /\ scan[p].at = "next"
    /\ \E f \in scan[p].left, b \in Fresh, own \in BOOLEAN :
          /\ NamedBlocks(p, f.file) = {}
          /\ IF scan[p].one = Absent THEN own = scan[p].own /\ UNCHANGED elftypes
                                     ELSE LoadTypes(own)
          /\ blocks' = With(b, [Document(f.file, Absent) EXCEPT
                                   !.type = Inferred(own, f.file)])
          /\ scan' = [scan EXCEPT ![p].new = b, ![p].at = "write", ![p].own = own]
    /\ UNCHANGED <<disk, edits>>

\* The second command of a new file; a binary one has none.
WriteBlock(p) ==
    /\ scan[p].at = "write"
    /\ \E f \in scan[p].left :
          /\ f.file = blocks[scan[p].new].name
          /\ blocks[scan[p].new].type = "document" \/ f.content = Binary
          /\ blocks' = [blocks EXCEPT ![scan[p].new].content =
                           IF f.content = Binary THEN @ ELSE f.content]
          /\ scan' = [scan EXCEPT ![p].left = @ \ {f}, ![p].at = "next", ![p].new = Absent]
    /\ UNCHANGED <<disk, edits, elftypes>>

\* The block it has made is not a document, and stays.
WriteRefused(p) ==
    /\ scan[p].at = "write" /\ blocks[scan[p].new].type # "document"
    /\ \E f \in scan[p].left : f.file = blocks[scan[p].new].name /\ f.content # Binary
    /\ EndScan(p, "failed")
    /\ UNCHANGED <<disk, edits, elftypes, blocks>>

Finish(p) ==
    /\ scan[p].at \in {"next", "append"} /\ scan[p].left = {}
    /\ EndScan(p, "scanned")
    /\ UNCHANGED <<disk, edits, elftypes, blocks>>

-----------------------------------------------------------------------------
ScanDies(p) ==
    /\ scan[p].at # "idle"
    /\ scan' = [scan EXCEPT ![p] = NoScan]
    /\ UNCHANGED <<disk, edits, elftypes, blocks>>

\* The user edits, makes or removes a file, or lists extensions of their own.
EditFile ==
    /\ edits < MaxEdits
    /\ edits' = edits + 1
    /\ \E f \in File, c \in Text \cup {Binary, Absent} :
          disk' = [disk EXCEPT ![f] = c]
    /\ UNCHANGED <<elftypes, blocks, scan>>

EditTypes ==
    /\ edits < MaxEdits
    /\ edits' = edits + 1
    /\ elftypes' = "own"
    /\ UNCHANGED <<disk, blocks, scan>>

\* Blocks made by hand may have the name of a file.
ScanInit ==
    /\ \E t \in Text : disk = [f \in File |-> t]
    /\ edits = 0 /\ elftypes = "default"
    /\ \/ blocks = <<>>
       \/ \E b \in Block, f \in Foreign :
             blocks = [x \in {b} |-> [Document(f, Absent) EXCEPT !.type = "task"]]
    /\ scan = [p \in Scanner |-> NoScan]

ScanStep(p) == \/ OpenProject(p) \/ InitProject(p) \/ ScanProject(p) \/ ReadFile(p)
               \/ AppendEvent(p) \/ UpdateBlock(p) \/ CreateBlock(p) \/ WriteBlock(p)
               \/ WriteRefused(p) \/ Finish(p) \/ ScanDies(p)

ScanNext == (\E p \in Scanner : ScanStep(p)) \/ EditFile \/ EditTypes

ScanSpec == ScanInit /\ [][ScanNext]_scanVars

-----------------------------------------------------------------------------
\* With one scan at a time, a file has one document block, however often scans
\* die between creating a block and writing it and files come and go.  (Two at
\* a time make two: neither knows what the other creates.)
OneBlockPerFile == \A b, c \in DOMAIN blocks :
    blocks[b].name = blocks[c].name /\ blocks[b].type = blocks[c].type => b = c

\* A scan that reports success has every text file it found in a block of its
\* name, with the content it found, whatever types were inferred.
Holds(f) == \E b \in DOMAIN blocks :
                blocks[b].name = f.file /\ blocks[b].content = f.content
ScanIsComplete == \A p \in Scanner : scan[p].result = "scanned" =>
    \A f \in scan[p].files : f.content # Binary => Holds(f)
=============================================================================
