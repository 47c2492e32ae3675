------------------------ MODULE ScaffoldProperties ------------------------
(* What a generated extension and a validation of it are worth. *)
EXTENDS ExtensionScaffold

\* A create of e was reported done, no later one has begun, and there are no files
\* of capabilities that an earlier one generated and it did not.
Done(e) == /\ last[e] = "ok" /\ (run.at # "idle" => run.ext # e)
           /\ Handlers(e) \subseteq declared[e]

\* An extension whose last create was reported done is complete, whatever creates
\* of it or of others left undone before, and is so until a create is cut off
\* while it writes the file in question: its capabilities have files and, in a
\* snake_case extension, under the names by which mod.rs declares them; it is
\* among the modules; its structs are registered somewhere in the registry; and
\* its payload types are entered, if lib.rs has a place for them.
DoneIsComplete == \A e \in Ext : Done(e) =>
    /\ Handlers(e) = declared[e]
    /\ Raw[e] = Snake[e] =>
          \A c \in declared[e] : \E d \in Handlers(e) : Module(e, c) = Stem(e, d)
    /\ "extensions/mod.rs" \notin torn[e] => e \in modules
    /\ "registry.rs" \notin torn[e] =>
          e \in uses /\ \A c \in declared[e] : Struct(e, c) \in registered
    /\ "lib.rs" \notin torn[e] /\ anchored =>
          \A c \in declared[e] : <<e, Struct(e, c)>> \in types

\* A validation of e that says something new.
Reports(e) == report' \notin {report, NoReport} /\ report'.of = e

\* Lines were entered where validate does not look for them, or not at all.
Misplaced == layout # "within" \/ ~anchored \/ broken # {}

\* What create did, validate agrees with: it passes an extension whose last create
\* was reported done; it warns where the project has no place for its lines; and
\* otherwise it warns only if a later create was cut off, or if the extension's
\* name comes back from its files as another.
DoneIsClean ==
    [][\A e \in Ext : Reports(e) /\ Done(e) =>
          /\ report'.passed
          /\ Misplaced => report'.warns
          /\ report'.warns => \/ Misplaced \/ torn[e] # {}
                                 \/ \E c \in declared[e] : Expected(e, c) # Struct(e, c)
      ]_scaffoldVars
=============================================================================
