--------------------------- MODULE McpProperties ---------------------------
(* What the MCP server promises the agents connected to it. *)
EXTENDS McpServer

\* Results a request may have; one in progress has none yet.
Result == {"none", "ok", "failed", "data", "nothing", "done", "refused",
           "project_not_open", "not_authenticated", "engine_not_found",
           "unknown_capability", "unknown_resource"}

TypeOK ==
    /\ open \subseteq Path
    /\ told \in [Path -> 0 .. MaxLog]
    /\ \A n \in Conn : lock[n] = None \/ (lock[n] \in Slot /\ Mine(lock[n]) = n)
    /\ \A p \in Path : Len(log[p]) <= MaxLog
    /\ \A s \in Slot : /\ req[s].at \in Stage /\ req[s].result \in Result
                       /\ req[s].own \in 0 .. MaxLog /\ req[s].seen \in 0 .. MaxLog
                       /\ req[s].to \in Path \cup {None}

-----------------------------------------------------------------------------
\* Each connection has its own identity: however the requests of several
\* connections interleave, a command is committed in the name of an editor its
\* own connection has authenticated as.
MayBe(n) == {r.arg : r \in {q \in Requests[n] : q.tool = "elfiee_auth"}}

ActsAsItself == \A p \in Path : \A i \in DOMAIN log[p] :
                   log[p][i].by \in MayBe(log[p][i].conn)

\* Every commit is announced to the frontend exactly once, also when projects
\* are closed and requests overlap: what is committed and not announced is
\* about to be.
Announced == \A p \in Path :
    Len(log[p]) = told[p] + Cardinality({s \in Slot : req[s].at = "announce"
                                                      /\ Home(s) = p})

\* The block in the answer to a command is not older than the command, unless
\* the project was closed under it and there is no block in the answer.
AnswerIsFresh == \A s \in Slot :
    req[s].result = "done" /\ (req[s].live \/ req[s].seen > 0) =>
       req[s].seen >= req[s].own

\* A URI leads to the project it names, whatever other projects are open and
\* however they are opened and closed under the request: what is given as a
\* project's resource is of that project, and a resource is unknown only when
\* its URI was taken for one of another project, whose path begins the text of
\* this one's.
ResourcesResolve == \A s \in Slot :
    req[s].at = "idle" /\ req[s].to # None =>
       /\ req[s].result \in {"data", "nothing"} => req[s].to = Home(s)
       /\ <<req[s].to, Home(s)>> \in Begins
       /\ req[s].result = "unknown_resource" => req[s].to # Home(s)
=============================================================================
