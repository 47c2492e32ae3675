-------------------------- MODULE McpServer_proofs --------------------------
(***************************************************************************)
(* For any number of connections, requests in progress and projects: a     *)
(* command is committed in the name of the connection it came from, every  *)
(* commit is announced once, no answer is older than its command, and a    *)
(* URI leads to the project it names.                                      *)
(***************************************************************************)
EXTENDS McpProperties, FiniteSetTheorems, TLAPS

Identities == UNION {MayBe(n) : n \in Conn}

Committed == [conn : Conn, by : Identities, cap : Registered,
              block : Block \cup {None}]

Ticket == [ask : (UNION {Requests[n] : n \in Conn}) \cup {None},
           at : Stage, by : Identities \cup {None}, live : BOOLEAN,
           own : 0 .. MaxLog, seen : 0 .. MaxLog, to : Path \cup {None},
           result : Result]

Shapes == /\ editor \in [Conn -> Identities \cup {None}]
          /\ lock \in [Conn -> Slot \cup {None}]
          /\ open \subseteq Path
          /\ log \in [Path -> Seq(Committed)]
          /\ told \in [Path -> Nat]
          /\ req \in [Slot -> Ticket]
          /\ \A p \in Path : Len(log[p]) <= MaxLog

\* Where a request can be, and what it carries there.
Underway(s) ==
    /\ req[s].at # "idle" => Ask(s) \in Requests[Mine(s)] /\ req[s].result = "none"
    /\ req[s].at = "auth" => Ask(s).tool = "elfiee_auth"
    /\ req[s].at \in {"file", "who", "engine", "run", "read", "announce", "look"} =>
          Ask(s).tool \in CommandTool \cup ReadTool
    /\ req[s].at \in {"engine", "run", "read"} => req[s].by \in MayBe(Mine(s))
    /\ req[s].at \in {"announce", "look"} => req[s].own <= Len(log[Home(s)])
    /\ req[s].at = "route" => Ask(s).tool = "read_resource"
    /\ req[s].at = "serve" =>
          Ask(s).tool \notin CommandTool \cup ReadTool
    /\ req[s].at = "resolve" => Ask(s).tool = "read_resource" /\ req[s].to \in Path
    /\ req[s].at = "serve" /\ Ask(s).tool = "read_resource" => req[s].to \in Path
    /\ req[s].result = "done" /\ (req[s].live \/ req[s].seen > 0) =>
          req[s].seen >= req[s].own

Identified == \A n \in Conn : editor[n] = None \/ editor[n] \in MayBe(n)

LocksAreOwn == \A n \in Conn : lock[n] = None \/ (lock[n] \in Slot /\ Mine(lock[n]) = n)

McpInv == /\ Shapes
          /\ Identified
          /\ LocksAreOwn
          /\ ActsAsItself
          /\ \A s \in Slot : Underway(s)

-----------------------------------------------------------------------------
(***************************************************************************)
(* Requests name what their tools need.                                    *)
(***************************************************************************)
LEMMA RequestsAreWhole ==
  ASSUME NEW n \in Conn, NEW r \in Requests[n]
  PROVE  /\ r.tool \in Tool /\ r.block \in Block \cup {None}
         /\ r.tool \notin {"elfiee_auth", "elfiee_file_list", "list_resources"}
               => r.project \in Path
         /\ r.tool = "elfiee_auth" => r.arg \in MayBe(n) /\ r.arg \in Identities
BY RequestsAssumption DEF IsRequest, MayBe, Identities

LEMMA ToolsApart ==
  /\ CommandTool \cap ReadTool = {}
  /\ \A t \in CommandTool \cup ReadTool :
        t \notin {"elfiee_auth", "elfiee_open", "elfiee_close", "elfiee_file_list",
                  "list_resources", "read_resource"}
  /\ \A t \in Tool : \/ t \in CommandTool \cup ReadTool
                     \/ t \in {"elfiee_auth", "elfiee_open", "elfiee_close",
                               "elfiee_file_list", "list_resources", "read_resource"}
BY DEF CommandTool, ReadTool, Tool, CapOf

LEMMA FirstStages ==
  ASSUME NEW t \in Tool
  PROVE  /\ FirstStage(t) \in {"auth", "serve", "route", "file"}
         /\ FirstStage(t) = "auth" => t = "elfiee_auth"
         /\ FirstStage(t) = "route" => t = "read_resource"
         /\ FirstStage(t) = "file" => t \in CommandTool \cup ReadTool
         /\ FirstStage(t) = "serve" => t \notin CommandTool \cup ReadTool
                                       /\ t # "read_resource"
BY ToolsApart DEF FirstStage

LEMMA McpInvInit == Init => McpInv
BY MaxLogAssumption, ConnAssumption
   DEF Init, McpInv, Shapes, Identified, LocksAreOwn, ActsAsItself, Underway, NoRequest,
       Ticket, Stage, Result

-----------------------------------------------------------------------------
(***************************************************************************)
(* A step that changes one request and appends to no log: only that request *)
(* has to be looked at.                                                    *)
(***************************************************************************)
Mark(s) == req' = [req EXCEPT ![s] = req'[s]]

Others == /\ editor' \in [Conn -> Identities \cup {None}] /\ Identified'
          /\ lock' \in [Conn -> Slot \cup {None}] /\ LocksAreOwn'
          /\ open' \subseteq Path
          /\ told' \in [Path -> Nat]
          /\ log' = log

LEMMA OneRequestOf ==
  ASSUME McpInv, NEW s \in Slot, Mark(s), req'[s] \in Ticket, Underway(s)', Others
  PROVE  McpInv'
<1>1. req' \in [Slot -> Ticket]
  BY DEF McpInv, Shapes, Mark
<1>2. ASSUME NEW u \in Slot PROVE Underway(u)'
  <2>1. CASE u = s
    BY <2>1
  <2>2. CASE u # s
    <3>1. req'[u] = req[u]
      BY <2>2 DEF Mark, McpInv, Shapes
    <3> QED BY <3>1 DEF McpInv, Underway, Ask, Home, Mine, Others
  <2> QED BY <2>1, <2>2
<1>3. Shapes' /\ ActsAsItself'
  BY <1>1 DEF McpInv, Shapes, ActsAsItself, Others
<1> QED BY <1>2, <1>3 DEF McpInv, Others

LEMMA OneRequest ==
  ASSUME McpInv, NEW s \in Slot, Mark(s), req'[s] \in Ticket, Underway(s)',
         UNCHANGED <<editor, lock, open, log, told>>
  PROVE  McpInv'
<1>1. Others
  BY DEF McpInv, Shapes, Identified, LocksAreOwn, Mine, Others
<1> QED BY <1>1, OneRequestOf

LEMMA McpInvReceive ==
  ASSUME McpInv, NEW s \in Slot, Receive(s) PROVE McpInv'
<1>1. PICK r \in Requests[Mine(s)] :
        req' = [req EXCEPT ![s] = [NoRequest EXCEPT !.ask = r, !.at = FirstStage(r.tool)]]
  BY DEF Receive
<1>2. Mine(s) \in Conn
  BY ConnAssumption DEF Mine
<1>3. r.tool \in Tool
  BY <1>2, RequestsAreWhole
<1>4. /\ req'[s].ask = r /\ req'[s].at = FirstStage(r.tool) /\ req'[s].by = None
      /\ req'[s].live = FALSE /\ req'[s].own = 0 /\ req'[s].seen = 0
      /\ req'[s].to = None /\ req'[s].result = "none" /\ Mark(s)
      /\ req'[s] = [NoRequest EXCEPT !.ask = r, !.at = FirstStage(r.tool)]
  BY <1>1 DEF NoRequest, McpInv, Shapes, Mark
<1>5. req'[s] \in Ticket
  <2>1. r \in UNION {Requests[n] : n \in Conn}
    BY <1>2
  <2>2. FirstStage(r.tool) \in Stage
    BY <1>3, FirstStages DEF Stage
  <2>3. 0 \in 0 .. MaxLog
    BY MaxLogAssumption
  <2> QED BY <1>4, <2>1, <2>2, <2>3 DEF Ticket, NoRequest, Result
<1>6. Underway(s)'
  BY <1>3, <1>4, FirstStages DEF Underway, Ask, Mine, Home
<1> QED BY <1>4, <1>5, <1>6, OneRequest DEF Receive

\* The reads, the refusals and the look-ups that end a request.
LEMMA McpInvReturn ==
  ASSUME McpInv, NEW s \in Slot, NEW r \in Result \ {"done"}, Return(s, r),
         UNCHANGED <<editor, lock, open, log, told>>
  PROVE  McpInv'
<1>1. req[s] \in Ticket /\ req'[s] = [req[s] EXCEPT !.at = "idle", !.result = r] /\ Mark(s)
  BY DEF McpInv, Shapes, Return, Mark
<1>2. req'[s] \in Ticket
  BY <1>1 DEF Ticket, Stage
<1>3. req'[s].at = "idle" /\ req'[s].result # "done"
  BY <1>1 DEF Ticket
<1>4. Underway(s)'
  BY <1>3 DEF Underway
<1> QED BY <1>1, <1>2, <1>4, OneRequest

LEMMA LogLengths ==
  ASSUME McpInv, NEW p \in Path
  PROVE  Len(log[p]) \in 0 .. MaxLog
BY MaxLogAssumption DEF McpInv, Shapes

\* A request that has been received is for an open project or for a path.
LEMMA HomeIsPath ==
  ASSUME McpInv, NEW s \in Slot,
         req[s].at \in {"file", "who", "engine", "run", "read", "announce", "look", "route"}
  PROVE  Home(s) \in Path
<1>1. Ask(s) \in Requests[Mine(s)] /\ Mine(s) \in Conn
  BY ConnAssumption DEF McpInv, Underway, Mine
<1>2. Ask(s).tool \notin {"elfiee_auth", "elfiee_file_list", "list_resources"}
  BY ToolsApart DEF McpInv, Underway
<1> QED BY <1>1, <1>2, RequestsAreWhole DEF Home

\* What a handle shows is part of a log.
LEMMA VisibleIsBounded ==
  ASSUME McpInv, NEW s \in Slot, req[s].at \in {"read", "look", "serve"},
         req[s].at = "serve" => Ask(s).tool = "read_resource"
  PROVE  Visible(s) \in 0 .. MaxLog
<1>1. CASE req[s].at = "serve"
  <2>1. Target(s) \in Path
    BY <1>1 DEF McpInv, Underway, Target
  <2> QED BY <2>1, LogLengths, MaxLogAssumption DEF Visible
<1>2. CASE req[s].at \in {"read", "look"}
  <2>1. Target(s) \in Path
    BY <1>2, HomeIsPath, ToolsApart DEF McpInv, Underway, Target
  <2> QED BY <2>1, LogLengths, MaxLogAssumption DEF Visible
<1> QED BY <1>1, <1>2

LEMMA McpInvData ==
  ASSUME McpInv, NEW s \in Slot, req[s].at = "read", Data(s),
         UNCHANGED <<editor, lock, open, log, told>>
  PROVE  McpInv'
<1>1. /\ req[s] \in Ticket /\ Mark(s)
      /\ req'[s] = [req[s] EXCEPT !.at = "idle", !.result = "data", !.seen = Visible(s)]
  BY DEF McpInv, Shapes, Data, Mark
<1>2. Visible(s) \in 0 .. MaxLog
  BY VisibleIsBounded
<1>3. req'[s] \in Ticket
  BY <1>1, <1>2 DEF Ticket, Stage, Result
<1>4. Underway(s)'
  <2>1. req'[s].at = "idle" /\ req'[s].result = "data"
    BY <1>1 DEF Ticket
  <2> QED BY <2>1 DEF Underway
<1> QED BY <1>1, <1>3, <1>4, OneRequest

LEMMA McpInvResource ==
  ASSUME McpInv, NEW s \in Slot, Serves(s, "read_resource"),
         NEW r \in Result \ {"done"}, Resource(s, r),
         UNCHANGED <<editor, lock, open, log, told>>
  PROVE  McpInv'
<1>1. /\ req[s] \in Ticket /\ Mark(s)
      /\ req'[s] = [req[s] EXCEPT !.at = "idle", !.result = r, !.seen = Visible(s)]
  BY DEF McpInv, Shapes, Resource, Mark
<1>2. Visible(s) \in 0 .. MaxLog
  BY VisibleIsBounded DEF Serves
<1>5. req'[s] \in Ticket
  BY <1>1, <1>2 DEF Ticket, Stage
<1>6. Underway(s)'
  <2>1. req'[s].at = "idle" /\ req'[s].result # "done"
    BY <1>1 DEF Ticket
  <2> QED BY <2>1 DEF Underway
<1> QED BY <1>1, <1>5, <1>6, OneRequest

-----------------------------------------------------------------------------
(***************************************************************************)
(* The steps of a request.                                                 *)
(***************************************************************************)
LEMMA McpInvAuthenticate ==
  ASSUME McpInv, NEW s \in Slot, Authenticate(s) PROVE McpInv'
<1>1. Mine(s) \in Conn /\ Ask(s) \in Requests[Mine(s)] /\ Ask(s).tool = "elfiee_auth"
  BY ConnAssumption DEF Mine, Authenticate, McpInv, Underway
<1>2. Ask(s).arg \in MayBe(Mine(s)) /\ Ask(s).arg \in Identities
  BY <1>1, RequestsAreWhole
<1>3. /\ req[s] \in Ticket /\ Mark(s)
      /\ req'[s] = [req[s] EXCEPT !.at = "serve"]
  BY DEF McpInv, Shapes, Authenticate, Goto, Mark
<1>4. req'[s] \in Ticket /\ req'[s].at = "serve" /\ Ask(s)' = Ask(s)
      /\ req'[s].result = req[s].result
  BY <1>3 DEF Ticket, Stage, Ask
<1>5. Underway(s)'
  <2>1. req[s].result = "none"
    BY DEF McpInv, Underway, Authenticate
  <2> QED BY <1>1, <1>4, <2>1, ToolsApart DEF Underway, Mine
<1>6. Others
  <2>1. /\ editor' = [editor EXCEPT ![Mine(s)] = Ask(s).arg]
        /\ lock' = [lock EXCEPT ![Mine(s)] = s]
        /\ UNCHANGED <<open, log, told>>
    BY DEF Authenticate
  <2> QED BY <1>1, <1>2, <2>1 DEF McpInv, Shapes, Identified, LocksAreOwn, Mine, Others
<1> QED BY <1>3, <1>4, <1>5, <1>6, OneRequestOf

LEMMA McpInvRelease ==
  ASSUME McpInv, NEW s \in Slot, Release(s) PROVE McpInv'
<1>1. /\ req[s] \in Ticket /\ Mark(s)
      /\ req'[s] = [req[s] EXCEPT !.at = "idle", !.result = "ok"]
  BY DEF McpInv, Shapes, Release, Return, Mark
<1>2. req'[s] \in Ticket /\ req'[s].at = "idle" /\ req'[s].result # "done"
  BY <1>1 DEF Ticket, Stage, Result
<1>3. Underway(s)'
  BY <1>2 DEF Underway
<1>4. Others
  BY ConnAssumption DEF McpInv, Shapes, Identified, LocksAreOwn, Mine, Release, Others
<1> QED BY <1>1, <1>2, <1>3, <1>4, OneRequestOf

LEMMA McpInvOpen ==
  ASSUME McpInv, NEW s \in Slot, OpenProject(s) PROVE McpInv'
<1>1. PICK r \in {"ok", "failed"} : Return(s, r)
  BY DEF OpenProject
<1>2. /\ req[s] \in Ticket /\ Mark(s)
      /\ req'[s] = [req[s] EXCEPT !.at = "idle", !.result = r]
  BY <1>1 DEF McpInv, Shapes, Return, Mark
<1>3. req'[s] \in Ticket /\ req'[s].at = "idle" /\ req'[s].result # "done"
  BY <1>2 DEF Ticket, Stage, Result
<1>4. Underway(s)'
  BY <1>3 DEF Underway
<1>5. Home(s) \in Path
  <2>1. Ask(s) \in Requests[Mine(s)] /\ Mine(s) \in Conn /\ Ask(s).tool = "elfiee_open"
    BY ConnAssumption DEF McpInv, Underway, Mine, OpenProject, Serves
  <2> QED BY <2>1, RequestsAreWhole DEF Home
<1>6. Others
  BY <1>5 DEF McpInv, Shapes, Identified, LocksAreOwn, Mine, OpenProject, Others
<1> QED BY <1>2, <1>3, <1>4, <1>6, OneRequestOf

\* The one step that touches the requests of others: their handles die.
LEMMA McpInvClose ==
  ASSUME McpInv, NEW s \in Slot, CloseProject(s) PROVE McpInv'
<1>1. ASSUME NEW u \in Slot
      PROVE  /\ req'[u] \in Ticket
             /\ \/ req'[u].at = "idle" /\ req'[u].result # "done"
                \/ /\ req'[u].ask = req[u].ask /\ req'[u].at = req[u].at
                   /\ req'[u].by = req[u].by /\ req'[u].own = req[u].own
                   /\ req'[u].seen = req[u].seen /\ req'[u].to = req[u].to
                   /\ req'[u].result = req[u].result
                   /\ req'[u].live => req[u].live
  <2>1. req[u] \in Ticket
    BY DEF McpInv, Shapes
  <2>2. \/ req'[u] = [req[u] EXCEPT !.at = "idle", !.result = "ok"]
        \/ req'[u] = [req[u] EXCEPT !.at = "idle", !.result = "failed"]
        \/ req'[u] = [req[u] EXCEPT !.live = FALSE]
        \/ req'[u] = req[u]
    BY DEF CloseProject
  <2> QED BY <2>1, <2>2 DEF Ticket, Stage, Result
<1>2. ASSUME NEW u \in Slot PROVE Underway(u)'
  <2>1. log' = log
    BY DEF CloseProject
  <2>2. CASE req'[u].at = "idle" /\ req'[u].result # "done"
    BY <2>2 DEF Underway
  <2>3. CASE /\ req'[u].ask = req[u].ask /\ req'[u].at = req[u].at
             /\ req'[u].by = req[u].by /\ req'[u].own = req[u].own
             /\ req'[u].seen = req[u].seen /\ req'[u].to = req[u].to
             /\ req'[u].result = req[u].result
             /\ req'[u].live => req[u].live
    <3>1. Underway(u)
      BY DEF McpInv
    <3> QED BY <2>1, <2>3, <3>1 DEF Underway, Ask, Home, Mine
  <2> QED BY <1>1, <2>2, <2>3
<1>3. /\ req' = [u \in Slot |-> req'[u]]
      /\ open' \subseteq Path
      /\ UNCHANGED <<editor, lock, log, told>>
  BY DEF CloseProject, McpInv, Shapes
<1>4. Shapes' /\ Identified' /\ LocksAreOwn' /\ ActsAsItself'
  BY <1>1, <1>3 DEF McpInv, Shapes, Identified, LocksAreOwn, ActsAsItself, Mine
<1> QED BY <1>2, <1>4 DEF McpInv

LEMMA McpInvGetFileId ==
  ASSUME McpInv, NEW s \in Slot, GetFileId(s) PROVE McpInv'
<1>1. CASE Return(s, "project_not_open")
  BY <1>1, McpInvReturn DEF GetFileId, Result
<1>2. CASE Goto(s, "who")
  <2>1. /\ req[s] \in Ticket /\ Mark(s) /\ req'[s] = [req[s] EXCEPT !.at = "who"]
    BY <1>2 DEF McpInv, Shapes, Goto, Mark
  <2>2. req'[s] \in Ticket
    BY <2>1 DEF Ticket, Stage
  <2>3. /\ req'[s].at = "who" /\ Ask(s)' = Ask(s) /\ req'[s].result = req[s].result
        /\ Ask(s) \in Requests[Mine(s)] /\ req[s].result = "none"
        /\ Ask(s).tool \in CommandTool \cup ReadTool
    BY <2>1 DEF Ticket, Ask, McpInv, Underway, GetFileId
  <2>4. Underway(s)'
    BY <2>3 DEF Underway, Mine
  <2> QED BY <2>1, <2>2, <2>4, OneRequest DEF GetFileId
<1> QED BY <1>1, <1>2 DEF GetFileId

LEMMA McpInvGetConnectionEditor ==
  ASSUME McpInv, NEW s \in Slot, GetConnectionEditor(s) PROVE McpInv'
<1>1. CASE Return(s, "not_authenticated")
  BY <1>1, McpInvReturn DEF GetConnectionEditor, Result
<1>2. CASE /\ Identity(Mine(s)) # None
           /\ req' = [req EXCEPT ![s].at = "engine", ![s].by = Identity(Mine(s))]
  <2>1. /\ req[s] \in Ticket /\ Mark(s)
        /\ req'[s] = [req[s] EXCEPT !.at = "engine", !.by = Identity(Mine(s))]
    BY <1>2 DEF McpInv, Shapes, Mark
  <2>2. /\ Identity(Mine(s)) \in MayBe(Mine(s))
        /\ Identity(Mine(s)) \in Identities
    BY <1>2, ConnAssumption DEF Identity, McpInv, Identified, Mine, Identities
  <2>3. req'[s] \in Ticket
    BY <2>1, <2>2 DEF Ticket, Stage
  <2>4. /\ req'[s].at = "engine" /\ Ask(s)' = Ask(s) /\ req'[s].result = req[s].result
        /\ req'[s].by = Identity(Mine(s))
        /\ Ask(s) \in Requests[Mine(s)] /\ req[s].result = "none"
        /\ Ask(s).tool \in CommandTool \cup ReadTool
    BY <2>1 DEF Ticket, Ask, McpInv, Underway, GetConnectionEditor
  <2>5. Underway(s)'
    BY <2>2, <2>4 DEF Underway, Mine, MayBe
  <2> QED BY <2>1, <2>3, <2>5, OneRequest DEF GetConnectionEditor
<1> QED BY <1>1, <1>2 DEF GetConnectionEditor

LEMMA McpInvGetEngine ==
  ASSUME McpInv, NEW s \in Slot, GetEngine(s) PROVE McpInv'
<1>1. CASE Return(s, "engine_not_found")
  BY <1>1, McpInvReturn DEF GetEngine, Result
<1>2. ASSUME NEW stage \in {"run", "read"},
             req' = [req EXCEPT ![s].live = TRUE, ![s].at = stage]
      PROVE  McpInv'
  <2>1. /\ req[s] \in Ticket /\ Mark(s)
        /\ req'[s] = [req[s] EXCEPT !.live = TRUE, !.at = stage]
    BY <1>2 DEF McpInv, Shapes, Mark
  <2>2. req'[s] \in Ticket
    BY <2>1 DEF Ticket, Stage
  <2>3. /\ req'[s].at = stage /\ Ask(s)' = Ask(s) /\ req'[s].result = req[s].result
        /\ req'[s].by = req[s].by /\ req[s].by \in MayBe(Mine(s))
        /\ Ask(s) \in Requests[Mine(s)] /\ req[s].result = "none"
        /\ Ask(s).tool \in CommandTool \cup ReadTool
    BY <2>1 DEF Ticket, Ask, McpInv, Underway, GetEngine
  <2>4. Underway(s)'
    BY <2>3 DEF Underway, Mine, MayBe
  <2> QED BY <2>1, <2>2, <2>4, OneRequest DEF GetEngine
<1> QED BY <1>1, <1>2 DEF GetEngine

\* The command is appended in the name of the identity that was read for it.
LEMMA McpInvAccept ==
  ASSUME McpInv, NEW s \in Slot, Accept(s) PROVE McpInv'
<1>1. Home(s) \in Path
  BY HomeIsPath DEF Accept
<1> DEFINE entry == [conn |-> Mine(s), by |-> req[s].by,
                     cap |-> CapabilityOf(s), block |-> Ask(s).block]
           place == Len(log[Home(s)]) + 1
<1>2. /\ req[s].by \in MayBe(Mine(s)) /\ Mine(s) \in Conn
      /\ Ask(s) \in Requests[Mine(s)] /\ req[s].result = "none"
      /\ Ask(s).tool \in CommandTool \cup ReadTool
  BY ConnAssumption DEF McpInv, Underway, Accept, Mine
<1>3. entry \in Committed
  <2>1. CapabilityOf(s) \in Registered
    BY DEF Accept
  <2>2. Ask(s).block \in Block \cup {None}
    BY <1>2, RequestsAreWhole
  <2>3. req[s].by \in Identities
    BY <1>2 DEF Identities
  <2> QED BY <1>2, <2>1, <2>2, <2>3 DEF Committed
<1>4. /\ log' = [log EXCEPT ![Home(s)] = Append(@, entry)]
      /\ log[Home(s)] \in Seq(Committed) /\ Len(log[Home(s)]) < MaxLog
      /\ log \in [Path -> Seq(Committed)]
  BY <1>1 DEF Accept, McpInv, Shapes
<1>5. /\ req[s] \in Ticket
      /\ req' = [req EXCEPT ![s] = [req[s] EXCEPT !.at = "announce", !.own = place]]
      /\ req'[s] = [req[s] EXCEPT !.at = "announce", !.own = place]
  BY DEF McpInv, Shapes, Accept
<1>6. /\ log' \in [Path -> Seq(Committed)]
      /\ \A p \in Path : Len(log'[p]) <= MaxLog /\ Len(log[p]) <= Len(log'[p])
      /\ Len(log'[Home(s)]) = place /\ place \in 0 .. MaxLog
  <2>1. log' \in [Path -> Seq(Committed)]
    BY <1>1, <1>3, <1>4
  <2>2. Len(log'[Home(s)]) = place /\ place \in 0 .. MaxLog
    BY <1>1, <1>3, <1>4, MaxLogAssumption
  <2>3. \A p \in Path : p # Home(s) => log'[p] = log[p]
    BY <1>4
  <2>4. ASSUME NEW p \in Path
        PROVE  Len(log'[p]) <= MaxLog /\ Len(log[p]) <= Len(log'[p])
    <3>1. CASE p = Home(s)
      BY <1>4, <2>2, <3>1, MaxLogAssumption
    <3>2. CASE p # Home(s)
      BY <2>3, <3>2, LogLengths, MaxLogAssumption
    <3> QED BY <3>1, <3>2
  <2> QED BY <2>1, <2>2, <2>4
<1>7. req'[s] \in Ticket /\ req'[s].at = "announce" /\ req'[s].own = place
      /\ req'[s].result = "none" /\ Ask(s)' = Ask(s)
  <2>1. ASSUME NEW k \in 0 .. MaxLog, NEW t \in Ticket
        PROVE  /\ [t EXCEPT !.at = "announce", !.own = k] \in Ticket
               /\ [t EXCEPT !.at = "announce", !.own = k].at = "announce"
               /\ [t EXCEPT !.at = "announce", !.own = k].own = k
               /\ [t EXCEPT !.at = "announce", !.own = k].result = t.result
               /\ [t EXCEPT !.at = "announce", !.own = k].ask = t.ask
    BY DEF Ticket, Stage
  <2>2. place \in 0 .. MaxLog
    BY <1>6
  <2>3. req[s] \in Ticket
    BY <1>5
  <2> HIDE DEF place
  <2>4. /\ [req[s] EXCEPT !.at = "announce", !.own = place] \in Ticket
        /\ [req[s] EXCEPT !.at = "announce", !.own = place].at = "announce"
        /\ [req[s] EXCEPT !.at = "announce", !.own = place].own = place
        /\ [req[s] EXCEPT !.at = "announce", !.own = place].result = req[s].result
        /\ [req[s] EXCEPT !.at = "announce", !.own = place].ask = req[s].ask
    BY <2>1, <2>2, <2>3, Zenon
  <2> QED BY <1>2, <1>5, <2>4, Zenon DEF Ask
<1>8. ASSUME NEW u \in Slot PROVE Underway(u)'
  <2>1. CASE u = s
    <3>1. req'[s].own <= Len(log'[Home(s)]) /\ Home(s)' = Home(s)
      BY <1>6, <1>7 DEF Home
    <3> QED BY <1>2, <1>7, <2>1, <3>1 DEF Underway, Mine
  <2>2. CASE u # s
    <3>1. req'[u] = req[u] /\ Underway(u)
      BY <1>5, <2>2 DEF McpInv, Shapes
    <3>2. req[u].at \in {"announce", "look"} =>
             req[u].own <= Len(log[Home(u)]) /\ Len(log[Home(u)]) <= Len(log'[Home(u)])
      BY <1>6, HomeIsPath DEF McpInv, Underway
    <3>3. req[u].at \in {"announce", "look"} => req[u].own <= Len(log'[Home(u)])
      <4> SUFFICES ASSUME req[u].at \in {"announce", "look"}
                   PROVE  req[u].own <= Len(log'[Home(u)])
        OBVIOUS
      <4>1. Home(u) \in Path
        BY HomeIsPath
      <4>2. Len(log[Home(u)]) \in Nat /\ Len(log'[Home(u)]) \in Nat
        BY <1>6, <4>1 DEF McpInv, Shapes
      <4>3. req[u].own \in Nat
        BY MaxLogAssumption DEF McpInv, Shapes, Ticket
      <4> QED BY <3>2, <4>2, <4>3
    <3> QED BY <3>1, <3>3 DEF Underway, Ask, Home, Mine
  <2> QED BY <2>1, <2>2
<1>9. req' \in [Slot -> Ticket]
  BY <1>5, <1>7 DEF McpInv, Shapes
<1>10. Shapes' /\ Identified' /\ LocksAreOwn'
  BY <1>6, <1>9 DEF Accept, McpInv, Shapes, Identified, LocksAreOwn, Mine
<1>11. ActsAsItself'
  <2> SUFFICES ASSUME NEW p \in Path, NEW i \in DOMAIN log'[p]
               PROVE  log'[p][i].by \in MayBe(log'[p][i].conn)
    BY DEF ActsAsItself, MayBe
  <2>1. CASE p = Home(s) /\ i = place
    <3>1. log'[p][i] = entry
      BY <1>1, <1>4, <2>1
    <3> QED BY <1>2, <3>1
  <2>2. CASE p = Home(s) /\ i # place
    <3>1. i \in DOMAIN log[p] /\ log'[p][i] = log[p][i]
      BY <1>1, <1>4, <1>6, <2>2
    <3> QED BY <3>1 DEF McpInv, ActsAsItself
  <2>3. CASE p # Home(s)
    <3>1. log'[p] = log[p]
      BY <1>4, <2>3
    <3> QED BY <3>1 DEF McpInv, ActsAsItself
  <2> QED BY <2>1, <2>2, <2>3
<1> QED BY <1>8, <1>10, <1>11 DEF McpInv

LEMMA McpInvAnnounce ==
  ASSUME McpInv, NEW s \in Slot, Announce(s) PROVE McpInv'
<1>1. /\ req[s] \in Ticket /\ Mark(s) /\ req'[s] = [req[s] EXCEPT !.at = "look"]
  BY DEF McpInv, Shapes, Announce, Goto, Mark
<1>2. /\ req'[s] \in Ticket /\ req'[s].at = "look" /\ Ask(s)' = Ask(s)
      /\ req'[s].own = req[s].own /\ req'[s].result = req[s].result
  BY <1>1 DEF Ticket, Stage, Ask
<1>3. /\ Ask(s) \in Requests[Mine(s)] /\ req[s].result = "none"
      /\ Ask(s).tool \in CommandTool \cup ReadTool
      /\ req[s].own <= Len(log[Home(s)]) /\ log' = log
  BY DEF McpInv, Underway, Announce
<1>4. Underway(s)'
  BY <1>2, <1>3 DEF Underway, Mine, Home
<1>5. Others
  BY HomeIsPath DEF McpInv, Shapes, Identified, LocksAreOwn, Mine, Announce, Others
<1> QED BY <1>1, <1>2, <1>4, <1>5, OneRequestOf

\* A handle that lives shows the whole log, the request's own command included;
\* one that does not shows nothing.
LEMMA McpInvLook ==
  ASSUME McpInv, NEW s \in Slot, Look(s) PROVE McpInv'
<1> DEFINE shown == Visible(s)
<1>1. /\ req[s] \in Ticket /\ Mark(s)
      /\ req'[s] = [req[s] EXCEPT !.at = "idle", !.result = "done", !.seen = shown]
  BY DEF McpInv, Shapes, Look, Mark
<1>2. shown \in 0 .. MaxLog /\ (req[s].live \/ shown > 0 => shown >= req[s].own)
  <2>1. Home(s) \in Path /\ req[s].own <= Len(log[Home(s)])
    BY HomeIsPath DEF McpInv, Underway, Look
  <2>2. Len(log[Home(s)]) \in 0 .. MaxLog /\ req[s].own \in 0 .. MaxLog
    BY <1>1, <2>1, LogLengths DEF Ticket
  <2>3. Target(s) = Home(s)
    BY ToolsApart DEF McpInv, Underway, Look, Target
  <2> QED BY <2>1, <2>2, <2>3, MaxLogAssumption DEF Visible
<1> HIDE DEF shown
<1>3. req'[s] \in Ticket
  BY <1>1, <1>2 DEF Ticket, Stage, Result
<1>4. /\ req'[s].at = "idle" /\ req'[s].seen = shown
      /\ req'[s].own = req[s].own /\ req'[s].live = req[s].live
  BY <1>1 DEF Ticket
<1>5. Underway(s)'
  BY <1>2, <1>4 DEF Underway
<1> QED BY <1>1, <1>3, <1>5, OneRequest DEF Look

LEMMA McpInvRoute ==
  ASSUME McpInv, NEW s \in Slot, Route(s) PROVE McpInv'
<1>1. ASSUME NEW r \in {"data", "project_not_open"}, Return(s, r) PROVE McpInv'
  BY <1>1, McpInvReturn DEF Route, Result
<1>2. ASSUME NEW p \in open, req' = [req EXCEPT ![s].at = "resolve", ![s].to = p]
      PROVE  McpInv'
  <2>1. /\ req[s] \in Ticket /\ Mark(s) /\ p \in Path
        /\ req'[s] = [req[s] EXCEPT !.at = "resolve", !.to = p]
    BY <1>2 DEF McpInv, Shapes, Mark
  <2>2. req'[s] \in Ticket
    BY <2>1 DEF Ticket, Stage
  <2>3. /\ req'[s].at = "resolve" /\ Ask(s)' = Ask(s) /\ req'[s].to = p
        /\ req'[s].result = req[s].result
    BY <2>1 DEF Ticket, Ask
  <2>4. /\ Ask(s) \in Requests[Mine(s)] /\ req[s].result = "none"
        /\ Ask(s).tool = "read_resource"
    BY DEF McpInv, Underway, Route
  <2>5. Underway(s)'
    BY <2>1, <2>3, <2>4, ToolsApart DEF Underway, Mine
  <2> QED BY <2>1, <2>2, <2>5, OneRequest DEF Route
<1> QED BY <1>1, <1>2 DEF Route

LEMMA McpInvResolve ==
  ASSUME McpInv, NEW s \in Slot, Resolve(s) PROVE McpInv'
<1>1. CASE Return(s, "engine_not_found")
  BY <1>1, McpInvReturn DEF Resolve, Result
<1>2. CASE req' = [req EXCEPT ![s].at = "serve", ![s].live = TRUE, ![s].by = Identity(Mine(s))]
  <2>1. /\ req[s] \in Ticket /\ Mark(s)
        /\ req'[s] = [req[s] EXCEPT !.at = "serve", !.live = TRUE, !.by = Identity(Mine(s))]
    BY <1>2 DEF McpInv, Shapes, Mark
  <2>2. Identity(Mine(s)) \in Identities \cup {None}
    BY ConnAssumption DEF McpInv, Shapes, Identity, Mine
  <2>3. req'[s] \in Ticket
    BY <2>1, <2>2 DEF Ticket, Stage
  <2>4. /\ req'[s].at = "serve" /\ Ask(s)' = Ask(s) /\ req'[s].to = req[s].to
        /\ req'[s].result = req[s].result
    BY <2>1 DEF Ticket, Ask
  <2>5. /\ Ask(s) \in Requests[Mine(s)] /\ req[s].result = "none"
        /\ Ask(s).tool = "read_resource" /\ req[s].to \in Path
    BY DEF McpInv, Underway, Resolve
  <2>6. Underway(s)'
    BY <2>4, <2>5, ToolsApart DEF Underway, Mine
  <2> QED BY <2>1, <2>3, <2>6, OneRequest DEF Resolve
<1> QED BY <1>1, <1>2 DEF Resolve

LEMMA McpInvRead ==
  ASSUME McpInv, NEW s \in Slot,
         ReadBlocks(s) \/ ReadBlock(s) \/ ReadHistory(s) \/ ReadPast(s)
  PROVE  McpInv'
<1>1. /\ req[s].at = "read" /\ UNCHANGED <<editor, lock, open, log, told>>
      /\ Data(s) \/ Return(s, "refused")
  BY DEF ReadBlocks, ReadBlock, ReadHistory, ReadPast, Reads
<1> QED BY <1>1, McpInvData, McpInvReturn DEF Result

LEMMA McpInvServeResource ==
  ASSUME McpInv, NEW s \in Slot,
         \/ Unresolved(s) \/ ProjectResource(s) \/ EventsFail(s)
         \/ BlockResource(s) \/ OwnResource(s)
  PROVE  McpInv'
<1>1. PICK r \in {"unknown_resource", "nothing", "data", "refused"} :
        /\ Serves(s, "read_resource") /\ Resource(s, r)
        /\ UNCHANGED <<editor, lock, open, log, told>>
  BY DEF Unresolved, ProjectResource, EventsFail, BlockResource, OwnResource, ServesKind
<1> QED BY <1>1, McpInvResource DEF Result

LEMMA McpInvStep ==
  ASSUME McpInv, [Next]_vars PROVE McpInv'
<1>1. ASSUME NEW s \in Slot, List(s) PROVE McpInv'
  BY <1>1, McpInvReturn DEF List, Result
<1>2. ASSUME NEW s \in Slot, Refuse(s) PROVE McpInv'
  BY <1>2, McpInvReturn DEF Refuse, Result
<1>3. CASE UNCHANGED vars
  BY <1>3 DEF vars, McpInv, Shapes, Identified, LocksAreOwn, ActsAsItself, Underway,
              Ask, Home, Mine
<1> QED
  BY <1>1, <1>2, <1>3, McpInvReceive, McpInvAuthenticate, McpInvRelease, McpInvOpen,
     McpInvClose, McpInvGetFileId, McpInvGetConnectionEditor, McpInvGetEngine, McpInvRead,
     McpInvAccept, McpInvAnnounce, McpInvLook, McpInvRoute, McpInvResolve, McpInvServeResource
  DEF Next, Step

THEOREM McpInvariant == Spec => []McpInv
BY McpInvInit, McpInvStep, PTL DEF Spec

-----------------------------------------------------------------------------
\* However the requests of however many connections interleave, a command is
\* committed in the name of an editor its own connection has authenticated as
\* (get_connection_editor_id and execute_capability, src/mcp/server.rs).
THEOREM EachActsAsItself == Spec => []ActsAsItself
BY McpInvariant, PTL DEF McpInv

\* The block in the answer to a command is never older than the command
\* (execute_capability, src/mcp/server.rs).
THEOREM AnswersAreFresh == Spec => []AnswerIsFresh
<1>1. McpInv => AnswerIsFresh
  BY DEF McpInv, Underway, AnswerIsFresh
<1> QED BY <1>1, McpInvariant, PTL

-----------------------------------------------------------------------------
(***************************************************************************)
(* Every commit is announced once.  The commits of a project that are not   *)
(* announced yet are those of the requests about to announce.              *)
(***************************************************************************)
Owing(p) == {s \in Slot : req[s].at = "announce" /\ Home(s) = p}

LEMMA OwingFinite == \A p : IsFiniteSet(Owing(p)) /\ Cardinality(Owing(p)) \in Nat
<1> SUFFICES ASSUME NEW p PROVE IsFiniteSet(Owing(p)) /\ Cardinality(Owing(p)) \in Nat
  OBVIOUS
<1>1. Owing(p) \in SUBSET Slot
  BY DEF Owing
<1>2. IsFiniteSet(Owing(p))
  BY <1>1, SlotAssumption, FS_Subset
<1> QED BY <1>2, FS_CardinalityType

LEMMA AnnouncedAside ==
  ASSUME Announced, UNCHANGED <<log, told>>,
         \A u \in Slot :
            /\ req'[u].at = "announce" <=> req[u].at = "announce"
            /\ req[u].at = "announce" => req'[u].ask = req[u].ask
  PROVE  Announced'
<1>1. ASSUME NEW p, NEW u \in Slot PROVE u \in Owing(p)' <=> u \in Owing(p)
  <2>1. CASE req[u].at = "announce"
    <3>1. req'[u].at = "announce" /\ Home(u)' = Home(u)
      BY <2>1 DEF Home, Ask
    <3> QED BY <2>1, <3>1 DEF Owing
  <2>2. CASE req[u].at # "announce"
    <3>1. req'[u].at # "announce"
      BY <2>2
    <3> QED BY <2>2, <3>1 DEF Owing
  <2> QED BY <2>1, <2>2
<1>2. \A p : Owing(p)' = Owing(p)
  BY <1>1 DEF Owing
<1>3. /\ Announced <=> \A p \in Path : Len(log[p]) = told[p] + Cardinality(Owing(p))
      /\ Announced' <=> \A p \in Path : Len(log'[p]) = told'[p] + Cardinality(Owing(p)')
  BY DEF Announced, Owing
<1> QED BY <1>2, <1>3

Aside(s) == /\ req[s].at # "announce" /\ req'[s].at # "announce" /\ Mark(s)
            /\ UNCHANGED <<log, told>>

LEMMA AnnouncedElsewhere ==
  ASSUME McpInv, Announced, NEW s \in Slot, Aside(s) PROVE Announced'
<1>1. \A u \in Slot : u # s => req'[u] = req[u]
  BY DEF Aside, Mark, McpInv, Shapes
<1> QED BY <1>1, AnnouncedAside DEF Aside

LEMMA StepsAside ==
  ASSUME McpInv, NEW s \in Slot
  PROVE  /\ Receive(s) => Aside(s)
         /\ Authenticate(s) \/ Release(s) \/ OpenProject(s) \/ List(s) => Aside(s)
         /\ GetFileId(s) \/ GetConnectionEditor(s) \/ GetEngine(s) => Aside(s)
         /\ ReadBlocks(s) \/ ReadBlock(s) \/ ReadHistory(s) \/ ReadPast(s) => Aside(s)
         /\ Refuse(s) \/ Look(s) \/ Route(s) \/ Resolve(s) => Aside(s)
         /\ Unresolved(s) \/ ProjectResource(s) \/ EventsFail(s) => Aside(s)
         /\ BlockResource(s) \/ OwnResource(s) => Aside(s)
<1>1. req \in [Slot -> Ticket]
  BY DEF McpInv, Shapes
<1>2. Receive(s) => Aside(s)
  <2> SUFFICES ASSUME Receive(s) PROVE Aside(s)
    OBVIOUS
  <2>1. PICK r \in Requests[Mine(s)] :
          req' = [req EXCEPT ![s] = [NoRequest EXCEPT !.ask = r, !.at = FirstStage(r.tool)]]
    BY DEF Receive
  <2>2. r.tool \in Tool
    BY ConnAssumption, RequestsAreWhole DEF Mine
  <2>3. req'[s].at = FirstStage(r.tool) /\ Mark(s)
    BY <1>1, <2>1 DEF NoRequest, Mark
  <2>4. req'[s].at # "announce"
    BY <2>2, <2>3, FirstStages
  <2> QED BY <2>3, <2>4 DEF Receive, Aside
<1>3. ASSUME NEW r, req[s].at # "announce", Return(s, r), UNCHANGED <<log, told>>
      PROVE  Aside(s)
  BY <1>1, <1>3 DEF Return, Aside, Mark, Ticket
<1>4. ASSUME NEW stage \in {"serve", "who"}, req[s].at # "announce", Goto(s, stage),
             UNCHANGED <<log, told>>
      PROVE  Aside(s)
  BY <1>1, <1>4 DEF Goto, Aside, Mark, Ticket
<1>5. ASSUME NEW r, Serves(s, "read_resource"), Resource(s, r), UNCHANGED <<log, told>>
      PROVE  Aside(s)
  BY <1>1, <1>5 DEF Resource, Serves, Aside, Mark, Ticket
<1>6. Authenticate(s) \/ Release(s) \/ OpenProject(s) \/ List(s) => Aside(s)
  BY <1>3, <1>4 DEF Authenticate, Release, OpenProject, List, Serves
<1>7. GetFileId(s) => Aside(s)
  BY <1>3, <1>4 DEF GetFileId
<1>8. GetConnectionEditor(s) => Aside(s)
  <2> SUFFICES ASSUME GetConnectionEditor(s),
                      req' = [req EXCEPT ![s].at = "engine", ![s].by = Identity(Mine(s))]
               PROVE  Aside(s)
    BY <1>3 DEF GetConnectionEditor
  <2> QED BY <1>1 DEF GetConnectionEditor, Aside, Mark, Ticket
<1>9. GetEngine(s) => Aside(s)
  <2> SUFFICES ASSUME GetEngine(s), NEW stage \in {"run", "read"},
                      req' = [req EXCEPT ![s].live = TRUE, ![s].at = stage]
               PROVE  Aside(s)
    BY <1>3 DEF GetEngine
  <2> QED BY <1>1 DEF GetEngine, Aside, Mark, Ticket
<1>10. ReadBlocks(s) \/ ReadBlock(s) \/ ReadHistory(s) \/ ReadPast(s) => Aside(s)
  <2>1. ASSUME req[s].at = "read", Data(s), UNCHANGED <<log, told>> PROVE Aside(s)
    BY <1>1, <2>1 DEF Data, Aside, Mark, Ticket
  <2> QED BY <1>3, <2>1 DEF ReadBlocks, ReadBlock, ReadHistory, ReadPast, Reads
<1>11. Refuse(s) => Aside(s)
  BY <1>3 DEF Refuse
<1>12. Look(s) => Aside(s)
  BY <1>1 DEF Look, Aside, Mark, Ticket
<1>13. Route(s) => Aside(s)
  <2>1. ASSUME NEW p, req' = [req EXCEPT ![s].at = "resolve", ![s].to = p],
               req[s].at = "route", UNCHANGED <<log, told>>
        PROVE  Aside(s)
    BY <1>1, <2>1 DEF Aside, Mark, Ticket
  <2> QED BY <1>3, <2>1 DEF Route
<1>14. Resolve(s) => Aside(s)
  <2>1. ASSUME req' = [req EXCEPT ![s].at = "serve", ![s].live = TRUE,
                                  ![s].by = Identity(Mine(s))],
               req[s].at = "resolve", UNCHANGED <<log, told>>
        PROVE  Aside(s)
    BY <1>1, <2>1 DEF Aside, Mark, Ticket
  <2> QED BY <1>3, <2>1 DEF Resolve
<1>15. (Unresolved(s) \/ ProjectResource(s) \/ EventsFail(s) => Aside(s))
       /\ (BlockResource(s) \/ OwnResource(s) => Aside(s))
  BY <1>5 DEF Unresolved, ProjectResource, EventsFail, BlockResource, OwnResource, ServesKind
<1> QED
  BY <1>2, <1>6, <1>7, <1>8, <1>9, <1>10, <1>11, <1>12, <1>13, <1>14, <1>15

LEMMA AnnouncedClose ==
  ASSUME McpInv, Announced, NEW s \in Slot, CloseProject(s) PROVE Announced'
<1>1. ASSUME NEW u \in Slot
      PROVE  /\ req'[u].at = "announce" <=> req[u].at = "announce"
             /\ req[u].at = "announce" => req'[u].ask = req[u].ask
  <2>1. req[u] \in Ticket
    BY DEF McpInv, Shapes
  <2>2. CASE u = s
    <3>1. req[s].at = "serve" /\ req'[s].at = "idle"
      BY <2>1, <2>2 DEF CloseProject, Serves, Ticket
    <3> QED BY <2>2, <3>1
  <2>3. CASE u # s
    <3>1. req'[u] = [req[u] EXCEPT !.live = FALSE] \/ req'[u] = req[u]
      BY <2>3 DEF CloseProject
    <3> QED BY <2>1, <3>1 DEF Ticket
  <2> QED BY <2>2, <2>3
<1> QED BY <1>1, AnnouncedAside DEF CloseProject

LEMMA AnnouncedAccept ==
  ASSUME McpInv, Announced, NEW s \in Slot, Accept(s) PROVE Announced'
<1>1. Home(s) \in Path /\ req[s].at = "run" /\ told' = told
  BY HomeIsPath DEF Accept
<1>2. /\ req'[s].at = "announce" /\ req'[s].ask = req[s].ask
      /\ \A u \in Slot : u # s => req'[u] = req[u]
  BY DEF Accept, McpInv, Shapes, Ticket
<1>3. Owing(Home(s))' = Owing(Home(s)) \cup {s} /\ s \notin Owing(Home(s))
  BY <1>1, <1>2 DEF Owing, Home, Ask
<1> SUFFICES ASSUME NEW p \in Path
             PROVE  Len(log'[p]) = told'[p] + Cardinality(Owing(p)')
  BY DEF Announced, Owing
<1>4. Len(log[p]) = told[p] + Cardinality(Owing(p))
  BY DEF Announced, Owing
<1>5. CASE p = Home(s)
  <2>1. Owing(p)' = Owing(p) \cup {s} /\ s \notin Owing(p)
    BY <1>1, <1>2, <1>5 DEF Owing, Home, Ask
  <2>2. Cardinality(Owing(p)') = Cardinality(Owing(p)) + 1
    BY <2>1, OwingFinite, FS_AddElement
  <2>3. Len(log'[p]) = Len(log[p]) + 1
    BY <1>1, <1>5 DEF Accept, McpInv, Shapes
  <2>4. told[p] \in Nat
    BY DEF McpInv, Shapes
  <2> QED BY <1>1, <1>4, <2>2, <2>3, <2>4, OwingFinite
<1>6. CASE p # Home(s)
  <2>1. Owing(p)' = Owing(p)
    BY <1>1, <1>2, <1>6 DEF Owing, Home, Ask
  <2>2. log'[p] = log[p]
    BY <1>1, <1>6 DEF Accept, McpInv, Shapes
  <2> QED BY <1>1, <1>4, <2>1, <2>2
<1> QED BY <1>5, <1>6

LEMMA AnnouncedAnnounce ==
  ASSUME McpInv, Announced, NEW s \in Slot, Announce(s) PROVE Announced'
<1>1. Home(s) \in Path /\ req[s].at = "announce" /\ log' = log
  BY HomeIsPath DEF Announce
<1>2. /\ req'[s].at = "look"
      /\ \A u \in Slot : u # s => req'[u] = req[u]
  BY DEF Announce, Goto, McpInv, Shapes, Ticket
<1> SUFFICES ASSUME NEW p \in Path
             PROVE  Len(log'[p]) = told'[p] + Cardinality(Owing(p)')
  BY DEF Announced, Owing
<1>3. Len(log[p]) = told[p] + Cardinality(Owing(p)) /\ told[p] \in Nat
  BY DEF Announced, Owing, McpInv, Shapes
<1>4. CASE p = Home(s)
  <2>1. Owing(p)' = Owing(p) \ {s} /\ s \in Owing(p)
    BY <1>1, <1>2, <1>4 DEF Owing, Home, Ask
  <2>2. Cardinality(Owing(p)') = Cardinality(Owing(p)) - 1
    BY <2>1, OwingFinite, FS_RemoveElement
  <2>3. told'[p] = told[p] + 1
    BY <1>1, <1>4 DEF Announce, McpInv, Shapes
  <2> QED BY <1>1, <1>3, <2>2, <2>3, OwingFinite
<1>5. CASE p # Home(s)
  <2>1. Owing(p)' = Owing(p)
    BY <1>1, <1>2, <1>5 DEF Owing, Home, Ask
  <2>2. told'[p] = told[p]
    BY <1>1, <1>5 DEF Announce, McpInv, Shapes
  <2> QED BY <1>1, <1>3, <2>1, <2>2
<1> QED BY <1>4, <1>5

LEMMA AnnouncedInit == Init => Announced
<1> SUFFICES ASSUME Init, NEW p \in Path
             PROVE  Len(log[p]) = told[p] + Cardinality(Owing(p))
  BY DEF Announced, Owing
<1>1. Owing(p) = {}
  BY DEF Init, NoRequest, Owing
<1>2. Cardinality(Owing(p)) = 0
  BY <1>1, FS_EmptySet
<1> QED BY <1>2 DEF Init

LEMMA AnnouncedStep ==
  ASSUME McpInv, Announced, [Next]_vars PROVE Announced'
<1>1. CASE UNCHANGED vars
  BY <1>1, AnnouncedAside DEF vars
<1>2. ASSUME NEW s \in Slot, Receive(s) \/ Step(s) PROVE Announced'
  <2>1. CASE Aside(s)
    BY <2>1, AnnouncedElsewhere
  <2>2. CASE CloseProject(s)
    BY <2>2, AnnouncedClose
  <2>3. CASE Accept(s)
    BY <2>3, AnnouncedAccept
  <2>4. CASE Announce(s)
    BY <2>4, AnnouncedAnnounce
  <2> QED BY <1>2, <2>1, <2>2, <2>3, <2>4, StepsAside DEF Step
<1> QED BY <1>1, <1>2 DEF Next

\* Every commit is announced to the frontend exactly once, also when projects
\* are closed and requests overlap (execute_capability, src/mcp/server.rs).
THEOREM EachIsAnnounced == Spec => []Announced
<1>1. McpInv /\ Announced /\ [Next]_vars => Announced'
  BY AnnouncedStep
<1> QED BY <1>1, AnnouncedInit, McpInvariant, PTL DEF Spec

\* Every variable keeps its type; no project is announced as changed more often
\* than it has commits.
THEOREM ServerTyped == Spec => []TypeOK
<1>1. McpInv /\ Announced => TypeOK
  <2> SUFFICES ASSUME McpInv, Announced PROVE TypeOK
    OBVIOUS
  <2>1. told \in [Path -> 0 .. MaxLog]
    <3> SUFFICES ASSUME NEW p \in Path PROVE told[p] \in 0 .. MaxLog
      BY DEF McpInv, Shapes
    <3>1. Len(log[p]) = told[p] + Cardinality(Owing(p)) /\ told[p] \in Nat
      BY DEF Announced, Owing, McpInv, Shapes
    <3> QED BY <3>1, LogLengths, OwingFinite, MaxLogAssumption
  <2>2. \A s \in Slot : req[s] \in Ticket
    BY DEF McpInv, Shapes
  <2> QED BY <2>1, <2>2 DEF TypeOK, McpInv, Shapes, LocksAreOwn, Ticket
<1> QED BY <1>1, McpInvariant, EachIsAnnounced, PTL

-----------------------------------------------------------------------------
(***************************************************************************)
(* Resources: only a URI is routed, and what is given for it is of the     *)
(* project whose path was cut off it.                                      *)
(***************************************************************************)
Routed(s) ==
    /\ req[s].at = "route" => req[s].to = None
    /\ req[s].to # None =>
          /\ Ask(s).tool = "read_resource"
          /\ <<req[s].to, Home(s)>> \in Begins
          /\ req[s].result \in {"data", "nothing"} => req[s].to = Home(s)
          /\ req[s].result = "unknown_resource" => req[s].to # Home(s)

\* The requests of every other tool are routed nowhere.
Elsewhere(s) == req'[s].at # "route" /\ req'[s].to = req[s].to

LEMMA ElsewhereRouted ==
  ASSUME NEW s \in Slot, Routed(s), Ask(s).tool # "read_resource", Elsewhere(s)
  PROVE  Routed(s)'
BY DEF Elsewhere, Routed

LEMMA ToolsElsewhere ==
  ASSUME McpInv, NEW s \in Slot
  PROVE  /\ Authenticate(s) \/ Release(s) \/ OpenProject(s) \/ CloseProject(s) \/ List(s)
               => Elsewhere(s) /\ Ask(s).tool # "read_resource"
         /\ GetFileId(s) \/ GetConnectionEditor(s) \/ GetEngine(s)
               => Elsewhere(s) /\ Ask(s).tool # "read_resource"
         /\ ReadBlocks(s) \/ ReadBlock(s) \/ ReadHistory(s) \/ ReadPast(s)
               => Elsewhere(s) /\ Ask(s).tool # "read_resource"
         /\ Accept(s) \/ Refuse(s) \/ Announce(s) \/ Look(s)
               => Elsewhere(s) /\ Ask(s).tool # "read_resource"
<1>1. req[s] \in Ticket /\ req \in [Slot -> Ticket] /\ Underway(s)
  BY DEF McpInv, Shapes
<1>2. ASSUME NEW r, Return(s, r) PROVE Elsewhere(s)
  BY <1>1, <1>2 DEF Return, Elsewhere, Ticket
<1>3. ASSUME NEW stage \in {"serve", "who", "look"}, Goto(s, stage) PROVE Elsewhere(s)
  BY <1>1, <1>3 DEF Goto, Elsewhere, Ticket
<1>4. ASSUME Data(s) PROVE Elsewhere(s)
  BY <1>1, <1>4 DEF Data, Elsewhere, Ticket
<1>5. req[s].at \in {"auth", "file", "who", "engine", "run", "read", "announce", "look"} =>
         Ask(s).tool # "read_resource"
  BY <1>1, ToolsApart DEF Underway
<1>6. Authenticate(s) \/ Release(s) \/ OpenProject(s) \/ List(s)
         => Elsewhere(s) /\ Ask(s).tool # "read_resource"
  BY <1>2, <1>3, <1>5 DEF Authenticate, Release, OpenProject, List, Serves
<1>7. CloseProject(s) => Elsewhere(s) /\ Ask(s).tool # "read_resource"
  <2> SUFFICES ASSUME CloseProject(s) PROVE Elsewhere(s) /\ Ask(s).tool # "read_resource"
    OBVIOUS
  <2>1. PICK r \in {"ok", "failed"} : req'[s] = [req[s] EXCEPT !.at = "idle", !.result = r]
    BY DEF CloseProject
  <2>2. req'[s].at = "idle" /\ req'[s].to = req[s].to
    BY <1>1, <2>1 DEF Ticket
  <2> QED BY <2>2 DEF CloseProject, Serves, Elsewhere
<1>8. GetFileId(s) \/ GetConnectionEditor(s) \/ GetEngine(s)
         => Elsewhere(s) /\ Ask(s).tool # "read_resource"
  <2>1. GetFileId(s) => Elsewhere(s)
    BY <1>2, <1>3 DEF GetFileId
  <2>2. GetConnectionEditor(s) => Elsewhere(s)
    <3>1. ASSUME req' = [req EXCEPT ![s].at = "engine", ![s].by = Identity(Mine(s))]
          PROVE  Elsewhere(s)
      BY <1>1, <3>1 DEF Elsewhere, Ticket
    <3> QED BY <1>2, <3>1 DEF GetConnectionEditor
  <2>3. GetEngine(s) => Elsewhere(s)
    <3>1. ASSUME NEW stage \in {"run", "read"},
                 req' = [req EXCEPT ![s].live = TRUE, ![s].at = stage]
          PROVE  Elsewhere(s)
      BY <1>1, <3>1 DEF Elsewhere, Ticket
    <3> QED BY <1>2, <3>1 DEF GetEngine
  <2> QED BY <1>5, <2>1, <2>2, <2>3 DEF GetFileId, GetConnectionEditor, GetEngine
<1>9. ReadBlocks(s) \/ ReadBlock(s) \/ ReadHistory(s) \/ ReadPast(s)
         => Elsewhere(s) /\ Ask(s).tool # "read_resource"
  BY <1>2, <1>4, <1>5 DEF ReadBlocks, ReadBlock, ReadHistory, ReadPast, Reads
<1>10. Accept(s) \/ Look(s) => Elsewhere(s) /\ Ask(s).tool # "read_resource"
  BY <1>1, <1>5 DEF Accept, Look, Elsewhere, Ticket
<1>11. Refuse(s) \/ Announce(s) => Elsewhere(s) /\ Ask(s).tool # "read_resource"
  BY <1>2, <1>3, <1>5 DEF Refuse, Announce
<1> QED BY <1>6, <1>7, <1>8, <1>9, <1>10, <1>11

LEMMA RoutedStep ==
  ASSUME McpInv, NEW s \in Slot, Routed(s), Receive(s) \/ Step(s)
  PROVE  Routed(s)'
<1>1. req[s] \in Ticket /\ req \in [Slot -> Ticket] /\ Underway(s)
  BY DEF McpInv, Shapes
<1>2. CASE Receive(s)
  <2>1. PICK r \in Requests[Mine(s)] :
          req' = [req EXCEPT ![s] = [NoRequest EXCEPT !.ask = r, !.at = FirstStage(r.tool)]]
    BY <1>2 DEF Receive
  <2>2. req'[s].to = None
    BY <1>1, <2>1 DEF NoRequest
  <2> QED BY <2>2 DEF Routed
<1>3. CASE Route(s)
  <2>1. req[s].to = None
    BY <1>3 DEF Route, Routed
  <2>2. ASSUME NEW r, Return(s, r) PROVE Routed(s)'
    <3>1. req'[s].to = None
      BY <1>1, <2>1, <2>2 DEF Return, Ticket
    <3> QED BY <3>1 DEF Routed
  <2>3. ASSUME NEW p \in open, <<p, Home(s)>> \in Begins,
               req' = [req EXCEPT ![s].at = "resolve", ![s].to = p]
        PROVE  Routed(s)'
    <3>1. /\ req'[s].to = p /\ req'[s].ask = req[s].ask /\ req'[s].at = "resolve"
          /\ req'[s].result = req[s].result
      BY <1>1, <2>3 DEF Ticket
    <3>2. Ask(s).tool = "read_resource" /\ req[s].result = "none"
      BY <1>1, <1>3 DEF Route, Underway
    <3> QED BY <2>3, <3>1, <3>2 DEF Routed, Home, Ask
  <2> QED BY <1>3, <2>2, <2>3 DEF Route
<1>4. CASE Resolve(s)
  <2>1. /\ req'[s].to = req[s].to /\ req'[s].ask = req[s].ask /\ req'[s].at # "route"
        /\ req'[s].result \notin {"data", "nothing", "unknown_resource"}
    <3>1. req[s].result = "none"
      BY <1>1, <1>4 DEF Resolve, Underway
    <3>2. CASE Return(s, "engine_not_found")
      BY <1>1, <3>2 DEF Return, Ticket
    <3>3. CASE req' = [req EXCEPT ![s].at = "serve", ![s].live = TRUE,
                                  ![s].by = Identity(Mine(s))]
      BY <1>1, <3>1, <3>3 DEF Ticket
    <3> QED BY <1>4, <3>2, <3>3 DEF Resolve
  <2> QED BY <2>1 DEF Routed, Home, Ask
<1>5. ASSUME NEW r, Resource(s, r),
             r \in {"data", "nothing"} => req[s].to = Home(s),
             r = "unknown_resource" => req[s].to # Home(s)
      PROVE  Routed(s)'
  <2>1. /\ req'[s].to = req[s].to /\ req'[s].ask = req[s].ask /\ req'[s].at = "idle"
        /\ req'[s].result = r
    BY <1>1, <1>5 DEF Resource, Ticket
  <2> QED BY <1>5, <2>1 DEF Routed, Home, Ask
<1>6. CASE Unresolved(s) \/ EventsFail(s)
  BY <1>5, <1>6 DEF Unresolved, EventsFail
<1>7. CASE ProjectResource(s) \/ BlockResource(s) \/ OwnResource(s)
  BY <1>5, <1>7 DEF ProjectResource, BlockResource, OwnResource, ServesKind
<1> QED BY <1>2, <1>3, <1>4, <1>6, <1>7, ToolsElsewhere, ElsewhereRouted DEF Step

LEMMA OthersRouted ==
  ASSUME McpInv, NEW s \in Slot, Receive(s) \/ Step(s), NEW u \in Slot, u # s, Routed(u)
  PROVE  Routed(u)'
<1>1. req[u] \in Ticket
  BY DEF McpInv, Shapes
<1>2. \/ req'[u] = req[u]
      \/ req'[u] = [req[u] EXCEPT !.live = FALSE]
  <2>1. CASE Aside(s)
    BY <2>1 DEF Aside, Mark, McpInv, Shapes
  <2>2. CASE CloseProject(s)
    BY <2>2 DEF CloseProject
  <2>3. CASE Accept(s)
    BY <2>3 DEF Accept, McpInv, Shapes
  <2>4. CASE Announce(s)
    BY <2>4 DEF Announce, Goto, McpInv, Shapes
  <2> QED BY <2>1, <2>2, <2>3, <2>4, StepsAside DEF Step
<1>3. /\ req'[u].at = req[u].at /\ req'[u].ask = req[u].ask
      /\ req'[u].to = req[u].to /\ req'[u].result = req[u].result
  BY <1>1, <1>2 DEF Ticket
<1> QED BY <1>3 DEF Routed, Serves, Home, Ask

\* What is given as a project's resource is of that project, and a resource is
\* unknown only because another project's path was cut off its URI, however
\* projects are opened and closed between the lookups (read_resource,
\* src/mcp/server.rs).
THEOREM ResourcesAreKnown == Spec => []ResourcesResolve
<1>1. Init => \A s \in Slot : Routed(s)
  BY DEF Init, Routed, Serves, NoRequest
<1>2. McpInv /\ (\A s \in Slot : Routed(s)) /\ [Next]_vars
         => (\A s \in Slot : Routed(s))'
  <2>1. ASSUME UNCHANGED vars PROVE \A s \in Slot : Routed(s)' <=> Routed(s)
    BY <2>1 DEF vars, Routed, Serves, Home, Ask
  <2> QED BY <2>1, RoutedStep, OthersRouted DEF Next
<1>3. (\A s \in Slot : Routed(s)) => ResourcesResolve
  BY DEF Routed, ResourcesResolve
<1> QED BY <1>1, <1>2, <1>3, McpInvariant, PTL DEF Spec
=============================================================================
