------------------------ MODULE EngineRuntime_proofs ------------------------
(***************************************************************************)
(* For any number of clients, projects and calls: what a client hears of   *)
(* its command is what happened to it, the two tables of open projects     *)
(* agree, an engine that is alone on its store has seen all of it, and     *)
(* whoever waits for an answer will get one.                               *)
(***************************************************************************)
EXTENDS RuntimeProperties, FiniteSetTheorems, SequenceTheorems, TLAPS

Opening == {"seedcheck", "seed", "load", "publish", "register"}
Placed  == Opening \cup {"shutdown", "poison", "drop", "forget",
                         "handle", "deliver", "wait"}
Asks    == {"send", "read", "history"}

Sweeping(c) == call[c].op = "shutdown_all"

\* Where a call can be, and what it carries there.
Calling(c) ==
    /\ call[c].at \in Opening \cup {"open"} => call[c].op = "open"
    /\ call[c].at \in {"close", "shutdown", "forget"} => call[c].op = "close"
    /\ call[c].at \in {"poison", "drop"} => call[c].op \in {"close", "shutdown_all"}
    /\ call[c].at \in {"list", "sweep"} => call[c].op = "shutdown_all"
    /\ call[c].at \in {"lookup", "handle", "deliver", "wait"} => call[c].op \in Asks
    /\ call[c].at # "idle" => call[c].path \in Path
    /\ call[c].at \in Placed => call[c].file \in FileId
    /\ call[c].at = "seed" => call[c].row \in 1..SeedRows

Born(f)      == actor[f].life # "unborn"
Published(f) == actor[f].life \in {"running", "saving", "gone"}

\* An actor has the home it was drawn for; the tables, and the calls past the
\* opening, know only actors that have been published.
HomeOf(f) ==
    /\ Born(f) => actor[f].home \in Path
    /\ ~Born(f) => actor[f].home = None
    /\ ~Alive(f) => actor[f].box = <<>>
    /\ files[f] # None => files[f] = actor[f].home /\ Published(f)
    /\ f \in engines => Published(f)

CallHome(c) ==
    /\ \A f \in call[c].left : Published(f)
    /\ call[c].file # None => Born(call[c].file)
    /\ call[c].at \in Placed /\ ~Sweeping(c) =>
          actor[call[c].file].home = call[c].path
    /\ call[c].at \in (Placed \ Opening) \cup {"register"} =>
          Published(call[c].file)

Homes == (\A f \in FileId : HomeOf(f)) /\ (\A c \in Client : CallHome(c))

\* Who opens has a file id that nobody else knows, but for a shutdown_all that
\* finds it among the engines.
Alone(c) == \A d \in Client \ {c} : call[d].file = call[c].file => Sweeping(d)

OwnsOf(c) ==
    /\ call[c].at \in Opening => files[call[c].file] = None /\ Alone(c)
    /\ call[c].at \in Opening \ {"register"} => actor[call[c].file].life = "drawn"
    /\ call[c].at = "register" =>
          call[c].file \in engines \/ \E d \in Client : Sweeping(d)
    /\ call[c].at = "forget" => call[c].file \notin engines

Owns == \A c \in Client : OwnsOf(c)

\* Messages are of those who wait, one of each.
Mailed(f) ==
    \A c \in Client : \A i \in 1..Len(actor[f].box) :
       actor[f].box[i].from = c =>
          /\ call[c].at = "wait" /\ call[c].file = f
          /\ actor[f].box[i].kind = call[c].op
          /\ \A j \in 1..Len(actor[f].box) : actor[f].box[j].from = c => i = j

Waits(c) ==
    call[c].at = "wait" =>
       /\ Alive(call[c].file)
       /\ \E i \in 1..Len(actor[call[c].file].box) :
             actor[call[c].file].box[i].from = c

Boxes == (\A f \in FileId : Mailed(f)) /\ (\A c \in Client : Waits(c))

\* No entry is of a call to come, and a command in progress has none.
Dated ==
    /\ \A p \in Path : \A i \in 1..Len(store[p]) : \A c \in Client :
          store[p][i].by = c => store[p][i].n <= made[c]
    /\ \A c \in Client : call[c].op = "send" =>
          /\ call[c].path \in Path
          /\ call[c].at # "idle" => Stored(call[c].path, Tag(c)) = {}

\* The engine about to be published has seen what its store holds.
Loaded ==
    \A c \in Client : At(c, "publish") /\ Once(call[c].file) =>
        actor[call[c].file].seen = store[call[c].path]

Callers == \A c \in Client : Calling(c)

-----------------------------------------------------------------------------
(***************************************************************************)
(* What the steps of a call leave alone.                                   *)
(***************************************************************************)
OwnCall(c) == /\ \A d \in Client \ {c} : call'[d] = call[d]
              /\ call'[c].op = call[c].op /\ call'[c].path = call[c].path
              /\ made' = made
              /\ ~At(c, "idle") /\ ~At(c, "wait")

\* A step of a caller's call changes no other call, and neither what it is about.
LEMMA OwnCallOnly ==
  ASSUME call \in [Client -> Calls], NEW c \in Client, Work(c)
  PROVE  OwnCall(c)
<1> USE DEF Calls, At, Goto, Return, OwnCall
<1>1. CASE OpenStep(c)
  <2>1. CASE OpenFound(c)
    BY <2>1 DEF OpenFound
  <2>2. CASE OpenFresh(c)
    BY <2>2 DEF OpenFresh
  <2>3. CASE SeedCheck(c)
    BY <2>3 DEF SeedCheck
  <2>4. CASE Seed(c)
    BY <2>4 DEF Seed
  <2>5. CASE Load(c)
    BY <2>5 DEF Load
  <2>6. CASE Publish(c)
    BY <2>6 DEF Publish
  <2>7. CASE Register(c)
    BY <2>7 DEF Register
  <2>8. CASE OpenFails(c)
    BY <2>8 DEF OpenFails
  <2> QED BY <1>1, <2>1, <2>2, <2>3, <2>4, <2>5, <2>6, <2>7, <2>8 DEF OpenStep
<1>2. CASE CloseStep(c)
  <2>1. CASE CloseFind(c)
    BY <2>1 DEF CloseFind
  <2>2. CASE CloseUnknown(c)
    BY <2>2 DEF CloseUnknown
  <2>3. CASE CloseGet(c)
    BY <2>3 DEF CloseGet
  <2>4. CASE CloseSend(c)
    BY <2>4 DEF CloseSend
  <2>5. CASE CloseDrop(c)
    BY <2>5 DEF CloseDrop
  <2>6. CASE CloseForget(c)
    BY <2>6 DEF CloseForget
  <2>7. CASE SweepList(c)
    BY <2>7 DEF SweepList
  <2>8. CASE SweepNext(c)
    BY <2>8 DEF SweepNext
  <2>9. CASE SweepClear(c)
    BY <2>9 DEF SweepClear
  <2> QED BY <1>2, <2>1, <2>2, <2>3, <2>4, <2>5, <2>6, <2>7, <2>8, <2>9 DEF CloseStep
<1>3. CASE CallStep(c)
  <2>1. CASE Lookup(c)
    BY <2>1 DEF Lookup
  <2>2. CASE GetHandle(c)
    BY <2>2 DEF GetHandle
  <2>3. CASE Deliver(c)
    BY <2>3 DEF Deliver
  <2> QED BY <1>3, <2>1, <2>2, <2>3 DEF CallStep
<1> QED BY <1>1, <1>2, <1>3 DEF Work
-----------------------------------------------------------------------------
(***************************************************************************)
(* Types, and what a call carries at each stage.                           *)
(***************************************************************************)
CallsTyped == call \in [Client -> Calls]

\* The answers and the empty call have their types.
LEMMA AnswersTyped ==
  /\ \A kind \in {"none", "done", "refused", "log", "ok", "failed", "closed"} :
        Said(kind) \in Answer
  /\ NoCall \in Calls
BY DEF Said, Answer, NoCall, Calls, Stage, Entry

\* A call that goes elsewhere with what it may carry stays typed.
LEMMA CallWith ==
  ASSUME NEW k \in Calls, NEW at \in Stage, NEW file \in FileId \cup {None},
         NEW row \in Nat, NEW left \in SUBSET FileId, NEW answer \in Answer
  PROVE  /\ [k EXCEPT !.at = at] \in Calls
         /\ [k EXCEPT !.at = at, !.row = row] \in Calls
         /\ [k EXCEPT !.at = at, !.answer = answer] \in Calls
         /\ [k EXCEPT !.at = at, !.file = file] \in Calls
         /\ [k EXCEPT !.at = at, !.left = left] \in Calls
         /\ [k EXCEPT !.at = at, !.file = file, !.left = left] \in Calls
         /\ [k EXCEPT !.at = at, !.answer = answer, !.file = file] \in Calls
BY DEF Calls

\* A call that becomes k stays typed.
LEMMA Becomes ==
  ASSUME CallsTyped, NEW c \in Client, NEW k \in Calls, call' = [call EXCEPT ![c] = k]
  PROVE  CallsTyped'
BY DEF CallsTyped

\* Goto keeps the types.
LEMMA Going ==
  ASSUME CallsTyped, NEW c \in Client, NEW s \in Stage, Goto(c, s)
  PROVE  CallsTyped'
<1>1. call[c] \in Calls
  BY DEF CallsTyped
<1>2. [call[c] EXCEPT !.at = s] \in Calls
  BY <1>1 DEF Calls
<1>3. call' = [call EXCEPT ![c] = [call[c] EXCEPT !.at = s]]
  BY DEF CallsTyped, Goto, Calls
<1> QED BY <1>2, <1>3, Becomes

\* Return keeps the types.
LEMMA Returning ==
  ASSUME CallsTyped, NEW c \in Client, NEW a \in Answer, Return(c, a)
  PROVE  CallsTyped'
<1>1. call[c] \in Calls /\ "idle" \in Stage
  BY DEF CallsTyped, Stage
<1>2. [call[c] EXCEPT !.at = "idle", !.answer = a] \in Calls
  BY <1>1 DEF Calls
<1>3. call' = [call EXCEPT ![c] = [call[c] EXCEPT !.at = "idle", !.answer = a]]
  BY DEF CallsTyped, Return, Calls
<1> QED BY <1>2, <1>3, Becomes

\* Every step of a call keeps the types of the calls.
LEMMA CallsTypedStep ==
  ASSUME TypeOK, NEW c \in Client, Work(c)
  PROVE  CallsTyped'
<1> USE AnswersTyped
<1>0. CallsTyped /\ call[c] \in Calls
  BY DEF TypeOK, CallsTyped
<1>1. CASE OpenStep(c)
  <2>1. CASE OpenFound(c)
    <3>1. PICK f \in FileId : call' = [call EXCEPT ![c] =
               [call[c] EXCEPT !.at = "idle", !.answer = Said("ok"), !.file = f]]
      BY <2>1 DEF OpenFound, OpenAs, TypeOK, Calls
    <3>2. [call[c] EXCEPT !.at = "idle", !.answer = Said("ok"), !.file = f] \in Calls
      BY <1>0 DEF Calls, Stage
    <3> QED BY <1>0, <3>1, <3>2, Becomes
  <2>2. CASE OpenFresh(c)
    <3>1. PICK f \in FileId : call' = [call EXCEPT ![c] =
               [call[c] EXCEPT !.at = "seedcheck", !.file = f]]
      BY ZenonT(60), <2>2 DEF OpenFresh, TypeOK, Calls
    <3>2. [call[c] EXCEPT !.at = "seedcheck", !.file = f] \in Calls
      BY <1>0 DEF Calls, Stage
    <3> QED BY <1>0, <3>1, <3>2, Becomes
  <2>3. CASE SeedCheck(c)
    <3> DEFINE at == IF store[call[c].path] = <<>> THEN "seed" ELSE "load"
    <3>1. call' = [call EXCEPT ![c] = [call[c] EXCEPT !.at = at, !.row = 1]]
      BY <2>3 DEF SeedCheck, TypeOK, Calls
    <3>2. [call[c] EXCEPT !.at = at, !.row = 1] \in Calls
      BY ZenonT(60), <1>0 DEF Calls, Stage
    <3> QED BY <1>0, <3>1, <3>2, Becomes
  <2>4. CASE Seed(c)
    <3> DEFINE at == IF call[c].row = SeedRows THEN "load" ELSE "seed"
               row == IF call[c].row = SeedRows THEN call[c].row ELSE call[c].row + 1
    <3>1. call' = [call EXCEPT ![c] = [call[c] EXCEPT !.at = at, !.row = row]]
      BY ZenonT(60), <2>4 DEF Seed, TypeOK, Calls
    <3>2. at \in Stage /\ row \in Nat
      BY <1>0 DEF Stage, Calls
    <3>3. [call[c] EXCEPT !.at = at, !.row = row] \in Calls
      BY ZenonT(60), <1>0, <3>2, CallWith
    <3> QED BY <1>0, <3>1, <3>3, Becomes
  <2>5. CASE Load(c)
    BY <1>0, <2>5, Going DEF Load, Stage
  <2>6. CASE Publish(c)
    BY <1>0, <2>6, Going DEF Publish, Stage
  <2>7. CASE Register(c)
    BY <1>0, <2>7, Returning DEF Register
  <2>8. CASE OpenFails(c)
    BY <1>0, <2>8, Returning DEF OpenFails
  <2> QED BY <1>1, <2>1, <2>2, <2>3, <2>4, <2>5, <2>6, <2>7, <2>8 DEF OpenStep
<1>2. CASE CloseStep(c)
  <2>1. CASE CloseFind(c)
    <3>1. PICK f \in FileId : call' = [call EXCEPT ![c] =
               [call[c] EXCEPT !.at = "shutdown", !.file = f]]
      BY <2>1 DEF CloseFind, OpenAs, TypeOK, Calls
    <3>2. [call[c] EXCEPT !.at = "shutdown", !.file = f] \in Calls
      BY <1>0 DEF Calls, Stage
    <3> QED BY <1>0, <3>1, <3>2, Becomes
  <2>2. CASE CloseUnknown(c)
    BY <1>0, <2>2, Returning DEF CloseUnknown
  <2>3. CASE CloseGet(c)
    BY <1>0, <2>3, Going, Returning DEF CloseGet, Stage
  <2>4. CASE CloseSend(c)
    BY <1>0, <2>4, Going DEF CloseSend, Stage
  <2>5. CASE CloseDrop(c)
    BY <1>0, <2>5, Going DEF CloseDrop, Stage
  <2>6. CASE CloseForget(c)
    BY <1>0, <2>6, Returning DEF CloseForget
  <2>7. CASE SweepList(c)
    <3>1. call' = [call EXCEPT ![c] = [call[c] EXCEPT !.at = "sweep", !.left = engines]]
      BY <2>7 DEF SweepList, TypeOK, Calls
    <3>2. [call[c] EXCEPT !.at = "sweep", !.left = engines] \in Calls
      BY <1>0 DEF Calls, Stage, TypeOK
    <3> QED BY <1>0, <3>1, <3>2, Becomes
  <2>8. CASE SweepNext(c)
    <3>1. PICK f \in call[c].left : call' = [call EXCEPT ![c] =
               [call[c] EXCEPT !.at = IF f \in engines THEN "poison" ELSE call[c].at,
                               !.file = f, !.left = call[c].left \ {f}]]
      BY ZenonT(60), <2>8 DEF SweepNext, TypeOK, Calls
    <3> DEFINE at == IF f \in engines THEN "poison" ELSE call[c].at
    <3>2. at \in Stage /\ f \in FileId /\ call[c].left \ {f} \in SUBSET FileId
      BY <1>0 DEF Stage, Calls
    <3>3. [call[c] EXCEPT !.at = at, !.file = f, !.left = call[c].left \ {f}] \in Calls
      BY ZenonT(60), <1>0, <3>2, CallWith
    <3> QED BY <1>0, <3>1, <3>3, Becomes
  <2>9. CASE SweepClear(c)
    BY <1>0, <2>9, Returning DEF SweepClear
  <2> QED BY <1>2, <2>1, <2>2, <2>3, <2>4, <2>5, <2>6, <2>7, <2>8, <2>9 DEF CloseStep
<1>3. CASE CallStep(c)
  <2>1. CASE Lookup(c)
    <3>1. CASE OpenAs(call[c].path) = {}
      BY <1>0, <2>1, <3>1, Returning DEF Lookup
    <3>2. CASE OpenAs(call[c].path) # {}
      <4>1. PICK f \in FileId : call' = [call EXCEPT ![c] =
                 [call[c] EXCEPT !.at = "handle", !.file = f]]
        BY <2>1, <3>2 DEF Lookup, OpenAs, TypeOK, Calls
      <4>2. [call[c] EXCEPT !.at = "handle", !.file = f] \in Calls
        BY <1>0 DEF Calls, Stage
      <4> QED BY <1>0, <4>1, <4>2, Becomes
    <3> QED BY <3>1, <3>2
  <2>2. CASE GetHandle(c)
    BY <1>0, <2>2, Going, Returning DEF GetHandle, Stage
  <2>3. CASE Deliver(c)
    BY <1>0, <2>3, Going, Returning DEF Deliver, Stage
  <2> QED BY <1>3, <2>1, <2>2, <2>3 DEF CallStep
<1> QED BY <1>1, <1>2, <1>3 DEF Work

\* What Goto changes.
LEMMA GotoFlat ==
  ASSUME call \in [Client -> Calls], NEW c \in Client, NEW s, Goto(c, s)
  PROVE  /\ call'[c].at = s /\ call'[c].op = call[c].op
         /\ call'[c].path = call[c].path /\ call'[c].file = call[c].file
         /\ call'[c].row = call[c].row /\ call'[c].left = call[c].left
         /\ call'[c].answer = call[c].answer
         /\ \A d \in Client \ {c} : call'[d] = call[d]
BY DEF Goto, Calls

\* What a call carries is for its next stage.
LEMMA CallingStep ==
  ASSUME TypeOK, Callers, NEW c \in Client, Work(c)
  PROVE  Calling(c)'
<1> USE OpsAssumption, SeedRowsAssumption
    DEF TypeOK, Calls, At, OpenAs, Callers, Calling, Opening, Placed, Asks
<1>1. CASE OpenStep(c)
  <2>1. CASE OpenFound(c)
    BY <2>1 DEF OpenFound, Goto, Return
  <2>2. CASE OpenFresh(c)
    BY <2>2 DEF OpenFresh, Goto, Return
  <2>3. CASE SeedCheck(c)
    BY <2>3 DEF SeedCheck, Goto, Return
  <2>4. CASE Seed(c)
    BY <2>4 DEF Seed, Goto, Return
  <2>5. CASE Load(c)
    BY <2>5 DEF Load, Goto, Return
  <2>6. CASE Publish(c)
    BY <2>6 DEF Publish, Goto, Return
  <2>7. CASE Register(c)
    BY <2>7 DEF Register, Goto, Return
  <2>8. CASE OpenFails(c)
    BY <2>8 DEF OpenFails, Goto, Return
  <2> QED BY <1>1, <2>1, <2>2, <2>3, <2>4, <2>5, <2>6, <2>7, <2>8 DEF OpenStep
<1>2. CASE CloseStep(c)
  <2>1. CASE CloseFind(c)
    BY <2>1 DEF CloseFind, Goto, Return
  <2>2. CASE CloseUnknown(c)
    BY <2>2 DEF CloseUnknown, Goto, Return
  <2>3. CASE CloseGet(c)
    <3>1. CASE call[c].file \in engines
      <4>1. Goto(c, "poison") /\ UNCHANGED files
        BY <2>3, <3>1 DEF CloseGet
      <4> QED BY <4>1, GotoFlat, <2>3 DEF CloseGet
    <3>2. CASE call[c].file \notin engines
      BY <2>3, <3>2 DEF CloseGet, Return
    <3> QED BY <3>1, <3>2
  <2>4. CASE CloseSend(c)
    BY <2>4 DEF CloseSend, Goto, Return
  <2>5. CASE CloseDrop(c)
    BY <2>5 DEF CloseDrop, Goto, Return
  <2>6. CASE CloseForget(c)
    BY <2>6 DEF CloseForget, Goto, Return
  <2>7. CASE SweepList(c)
    BY <2>7 DEF SweepList, Goto, Return
  <2>8. CASE SweepNext(c)
    BY <2>8 DEF SweepNext, Goto, Return
  <2>9. CASE SweepClear(c)
    BY <2>9 DEF SweepClear, Goto, Return
  <2> QED BY <1>2, <2>1, <2>2, <2>3, <2>4, <2>5, <2>6, <2>7, <2>8, <2>9 DEF CloseStep
<1>3. CASE CallStep(c)
  <2>1. CASE Lookup(c)
    <3>1. CASE OpenAs(call[c].path) = {}
      BY <2>1, <3>1 DEF Lookup, Return
    <3>2. CASE OpenAs(call[c].path) # {}
      <4>1. PICK f \in FileId :
               call' = [call EXCEPT ![c].at = "handle", ![c].file = f]
        BY <2>1, <3>2 DEF Lookup, OpenAs
      <4>2. call[c].at = "lookup"
        BY <2>1 DEF Lookup
      <4> QED BY <4>1, <4>2
    <3> QED BY <3>1, <3>2
  <2>2. CASE GetHandle(c)
    <3>1. CASE call[c].file \in engines
      <4>1. Goto(c, "deliver") /\ UNCHANGED files
        BY <2>2, <3>1 DEF GetHandle
      <4> QED BY <4>1, GotoFlat, <2>2 DEF GetHandle
    <3>2. CASE call[c].file \notin engines
      BY <2>2, <3>2 DEF GetHandle, Return
    <3> QED BY <3>1, <3>2
  <2>3. CASE Deliver(c)
    <3>1. CASE Alive(call[c].file)
      <4>1. Goto(c, "wait") /\ UNCHANGED files
        BY <2>3, <3>1 DEF Deliver
      <4> QED BY <4>1, GotoFlat, <2>3 DEF Deliver
    <3>2. CASE ~Alive(call[c].file)
      BY <2>3, <3>2 DEF Deliver, Return
    <3> QED BY <3>1, <3>2
  <2> QED BY <1>3, <2>1, <2>2, <2>3 DEF CallStep
<1> QED BY <1>1, <1>2, <1>3 DEF Work

\* What every call carries is for its next stage.
LEMMA CallersStep ==
  ASSUME TypeOK, Callers, NEW c \in Client, Work(c)
  PROVE  Callers'
<1>1. OwnCall(c)
  BY OwnCallOnly DEF TypeOK
<1>2. Calling(c)'
  BY CallingStep
<1>3. ASSUME NEW d \in Client \ {c} PROVE Calling(d)'
  BY <1>1 DEF OwnCall, Callers, Calling
<1> QED BY <1>2, <1>3 DEF Callers

\* Mail changes one mailbox at most.
LEMMA MailTyped ==
  ASSUME actor \in [FileId -> Actors], NEW f \in FileId,
         NEW msg \in Message \cup {Poison}, Mail(f, msg)
  PROVE  actor' \in [FileId -> Actors]
<1>1. Append(actor[f].box, msg) \in Seq(Message \cup {Poison})
  BY DEF Actors
<1>2. [actor[f] EXCEPT !.box = Append(actor[f].box, msg)] \in Actors
  BY <1>1 DEF Actors
<1>3. [actor EXCEPT ![f].box = Append(@, msg)]
        = [actor EXCEPT ![f] = [actor[f] EXCEPT !.box = Append(actor[f].box, msg)]]
  BY DEF Actors
<1> QED BY <1>2, <1>3 DEF Mail

\* The steps of the callers keep the types.
LEMMA TypedWork ==
  ASSUME TypeOK, Callers, NEW c \in Client, Work(c)
  PROVE  TypeOK'
<1>0. CallsTyped' /\ UNCHANGED made
  BY CallsTypedStep, OwnCallOnly DEF TypeOK, OwnCall
<1>a. SUFFICES /\ store' \in [Path -> Seq(Entry)] /\ files' \in [FileId -> Path \cup {None}]
               /\ engines' \subseteq FileId /\ actor' \in [FileId -> Actors]
  BY <1>0 DEF TypeOK, CallsTyped
<1> USE DEF TypeOK
<1>1. CASE OpenStep(c)
  <2>1. CASE OpenFound(c)
    BY <2>1 DEF OpenFound
  <2>2. CASE OpenFresh(c)
    <3>1. PICK f \in FileId :
             actor' = [actor EXCEPT ![f].life = "drawn", ![f].home = call[c].path]
      BY <2>2 DEF OpenFresh
    <3>2. call[c].path \in Path
      BY <2>2 DEF OpenFresh, Callers, Calling, At
    <3>3. [actor[f] EXCEPT !.life = "drawn", !.home = call[c].path] \in Actors
      BY <3>2 DEF Actors, Life
    <3>4. actor' = [actor EXCEPT ![f] =
                      [actor[f] EXCEPT !.life = "drawn", !.home = call[c].path]]
      BY <3>1 DEF Actors
    <3> QED BY <2>2, <3>3, <3>4 DEF OpenFresh
  <2>3. CASE SeedCheck(c)
    BY <2>3 DEF SeedCheck
  <2>4. CASE Seed(c)
    <3>1. call[c].path \in Path /\ call[c].row \in 1..SeedRows
      BY <2>4 DEF Seed, Callers, Calling, At
    <3>2. SeedRow(call[c].path, call[c].row) \in Entry
      BY <3>1, SeedRowsAssumption, MaxCallsAssumption DEF SeedRow, Entry
    <3> QED BY <2>4, <3>1, <3>2 DEF Seed
  <2>5. CASE Load(c)
    <3>1. call[c].path \in Path /\ call[c].file \in FileId
      BY <2>5 DEF Load, Callers, Calling, At, Placed, Opening
    <3>2. [actor[call[c].file] EXCEPT !.seen = store[call[c].path]] \in Actors
      BY <3>1 DEF Actors
    <3>3. actor' = [actor EXCEPT ![call[c].file] =
                      [actor[call[c].file] EXCEPT !.seen = store[call[c].path]]]
      BY <2>5 DEF Load
    <3> QED BY <2>5, <3>1, <3>2, <3>3 DEF Load
  <2>6. CASE Publish(c)
    <3>1. call[c].file \in FileId
      BY <2>6 DEF Publish, Callers, Calling, At, Placed, Opening
    <3>2. [actor[call[c].file] EXCEPT !.life = "running"] \in Actors
      BY <3>1 DEF Actors, Life
    <3>3. actor' = [actor EXCEPT ![call[c].file] =
                      [actor[call[c].file] EXCEPT !.life = "running"]]
      BY <2>6 DEF Publish
    <3> QED BY <2>6, <3>1, <3>2, <3>3 DEF Publish
  <2>7. CASE Register(c)
    BY <2>7 DEF Register, Callers, Calling, At
  <2>8. CASE OpenFails(c)
    <3>1. \A f \in FileId : [actor[f] EXCEPT !.life = "gone"] \in Actors
      BY DEF Actors, Life
    <3> QED BY <2>8, <3>1 DEF OpenFails
  <2> QED BY <1>1, <2>1, <2>2, <2>3, <2>4, <2>5, <2>6, <2>7, <2>8 DEF OpenStep
<1>2. CASE CloseStep(c)
  <2>1. CASE CloseFind(c)
    BY <2>1 DEF CloseFind
  <2>2. CASE CloseUnknown(c)
    BY <2>2 DEF CloseUnknown
  <2>3. CASE CloseGet(c)
    BY <2>3 DEF CloseGet
  <2>4. CASE CloseSend(c)
    <3>1. call[c].file \in FileId
      BY <2>4 DEF CloseSend, Callers, Calling, At, Placed
    <3> QED BY <2>4, <3>1, MailTyped DEF CloseSend
  <2>5. CASE CloseDrop(c)
    BY <2>5 DEF CloseDrop
  <2>6. CASE CloseForget(c)
    BY <2>6 DEF CloseForget
  <2>7. CASE SweepList(c)
    BY <2>7 DEF SweepList
  <2>8. CASE SweepNext(c)
    BY <2>8 DEF SweepNext
  <2>9. CASE SweepClear(c)
    BY <2>9 DEF SweepClear
  <2> QED BY <1>2, <2>1, <2>2, <2>3, <2>4, <2>5, <2>6, <2>7, <2>8, <2>9 DEF CloseStep
<1>3. CASE CallStep(c)
  <2>1. CASE Lookup(c)
    BY <2>1 DEF Lookup
  <2>2. CASE GetHandle(c)
    BY <2>2 DEF GetHandle
  <2>3. CASE Deliver(c)
    <3>1. call[c].file \in FileId /\ call[c].op \in Asks
      BY <2>3 DEF Deliver, Callers, Calling, At, Placed
    <3>2. [kind |-> call[c].op, from |-> c] \in Message
      BY <3>1 DEF Message, Asks
    <3> QED BY <2>3, <3>1, <3>2, MailTyped DEF Deliver
  <2> QED BY <1>3, <2>1, <2>2, <2>3 DEF CallStep
<1> QED BY <1>1, <1>2, <1>3 DEF Work

-----------------------------------------------------------------------------
(***************************************************************************)
(* Who an actor answers.                                                   *)
(***************************************************************************)
LEMMA Asked ==
  ASSUME TypeOK, Callers, Homes, Boxes, NEW f \in FileId, NEW kind \in Asks,
         Receives(f, kind)
  PROVE  LET c == Sender(f)
         IN  /\ c \in Client /\ At(c, "wait")
             /\ call[c].file = f /\ call[c].op = kind /\ call[c].path \in Path
             /\ actor[f].home = call[c].path
             /\ \A i \in 1..Len(actor[f].box) : actor[f].box[i].from = c => i = 1
<1> DEFINE box == actor[f].box
<1>1. box \in Seq(Message \cup {Poison}) /\ box # <<>> /\ Head(box).kind = kind
  BY DEF TypeOK, Actors, Receives
<1>2. Len(box) \in Nat \ {0} /\ 1 \in 1..Len(box) /\ Head(box) = box[1]
      /\ box[1] \in Message \cup {Poison}
  BY <1>1
<1>3. box[1] \in Message
  BY <1>1, <1>2 DEF Poison, Asks
<1>4. Sender(f) = box[1].from /\ Sender(f) \in Client
  BY <1>2, <1>3 DEF Sender, Message
<1>5. /\ At(Sender(f), "wait") /\ call[Sender(f)].file = f
      /\ box[1].kind = call[Sender(f)].op
      /\ \A j \in 1..Len(box) : box[j].from = Sender(f) => 1 = j
  BY <1>2, <1>4 DEF Boxes, Mailed, At
<1>6. Calling(Sender(f)) /\ call[Sender(f)].path \in Path
  BY <1>4, <1>5 DEF Callers, Calling, At
<1>7. call[Sender(f)].op = kind /\ ~Sweeping(Sender(f))
  BY <1>1, <1>2, <1>5 DEF Asks, Sweeping
<1>8. actor[f].home = call[Sender(f)].path
  BY <1>4, <1>5, <1>7 DEF Homes, CallHome, Placed, At
<1> QED BY <1>4, <1>5, <1>6, <1>7, <1>8

\* The event of a client's call is an entry.
LEMMA Tagged ==
  ASSUME TypeOK, NEW c \in Client, call[c].path \in Path
  PROVE  Tag(c) \in Entry
BY SeedRowsAssumption, MaxCallsAssumption DEF TypeOK, Tag, Entry

\* An answer given: the mailbox loses its first message.
LEMMA ShorterBox ==
  ASSUME TypeOK, NEW f \in FileId, NEW kind, Receives(f, kind)
  PROVE  /\ Tail(actor[f].box) \in Seq(Message \cup {Poison})
         /\ [actor[f] EXCEPT !.box = Tail(actor[f].box)] \in Actors
         /\ [actor[f] EXCEPT !.box = Tail(actor[f].box), !.life = "saving"] \in Actors
         /\ \A e \in Entry : [actor[f] EXCEPT !.box = Tail(actor[f].box),
                                            !.seen = Append(actor[f].seen, e)] \in Actors
<1>1. Tail(actor[f].box) \in Seq(Message \cup {Poison})
  BY DEF TypeOK, Actors, Receives
<1>2. \A e \in Entry : Append(actor[f].seen, e) \in Seq(Entry)
  BY DEF TypeOK, Actors
<1> QED BY <1>1, <1>2 DEF TypeOK, Actors, Life

\* The steps of the actors keep the types.
LEMMA TypedActor ==
  ASSUME TypeOK, Callers, Homes, Boxes, NEW f \in FileId, ActorStep(f)
  PROVE  TypeOK'
<1> USE DEF TypeOK
<1> DEFINE c == Sender(f)
<1>0. CallsTyped
  BY DEF CallsTyped
<1>1. CASE Commit(f)
  <2>1. c \in Client /\ Tag(c) \in Entry
    BY <1>1, Asked, Tagged DEF Commit, Asks
  <2>2. actor' = [actor EXCEPT ![f] =
           [actor[f] EXCEPT !.box = Tail(actor[f].box),
                            !.seen = Append(actor[f].seen, Tag(c))]]
    BY <1>1 DEF Commit, Actors
  <2>3. actor' \in [FileId -> Actors]
    <3>1. [actor[f] EXCEPT !.box = Tail(actor[f].box),
                           !.seen = Append(actor[f].seen, Tag(c))] \in Actors
      BY <1>1, <2>1, ShorterBox DEF Commit
    <3> QED BY <2>2, <3>1
  <2>4. CallsTyped'
    BY <1>0, <1>1, <2>1, AnswersTyped, Returning DEF Commit
  <2>5. store' \in [Path -> Seq(Entry)]
    <3>1. \A log \in Seq(Entry) : Append(log, Tag(c)) \in Seq(Entry)
      BY <2>1
    <3> QED BY <1>1, <3>1 DEF Commit
  <2> QED BY <1>1, <2>3, <2>4, <2>5 DEF Commit, CallsTyped
<1>2. CASE Refuse(f)
  <2>1. c \in Client
    BY <1>2, Asked DEF Refuse, Asks
  <2>2. actor' = [actor EXCEPT ![f] = [actor[f] EXCEPT !.box = Tail(actor[f].box)]]
    BY <1>2 DEF Refuse
  <2>3. actor' \in [FileId -> Actors]
    BY <1>2, <2>2, ShorterBox DEF Refuse
  <2>4. CallsTyped'
    BY <1>0, <1>2, <2>1, AnswersTyped, Returning DEF Refuse
  <2> QED BY <1>2, <2>3, <2>4 DEF Refuse, CallsTyped
<1>3. CASE Read(f)
  <2>1. c \in Client
    BY <1>3, Asked DEF Read, Asks
  <2>2. actor' = [actor EXCEPT ![f] = [actor[f] EXCEPT !.box = Tail(actor[f].box)]]
    BY <1>3 DEF Read
  <2>3. actor' \in [FileId -> Actors]
    BY <1>3, <2>2, ShorterBox DEF Read
  <2>4. [kind |-> "log", log |-> actor[f].seen] \in Answer
    BY DEF Actors, Answer
  <2>5. CallsTyped'
    BY <1>0, <1>3, <2>1, <2>4, Returning DEF Read
  <2> QED BY <1>3, <2>3, <2>5 DEF Read, CallsTyped
<1>4. CASE History(f)
  <2>1. c \in Client /\ actor[f].home \in Path
    BY <1>4, Asked DEF History, Asks
  <2>2. actor' = [actor EXCEPT ![f] = [actor[f] EXCEPT !.box = Tail(actor[f].box)]]
    BY <1>4 DEF History
  <2>3. actor' \in [FileId -> Actors]
    BY <1>4, <2>2, ShorterBox DEF History
  <2>4. [kind |-> "log", log |-> store[actor[f].home]] \in Answer
    BY <2>1 DEF Answer
  <2>5. CallsTyped'
    BY <1>0, <1>4, <2>1, <2>4, Returning DEF History
  <2> QED BY <1>4, <2>3, <2>5 DEF History, CallsTyped
<1>5. CASE TakeShutdown(f)
  <2>1. actor' = [actor EXCEPT ![f] =
           [actor[f] EXCEPT !.box = Tail(actor[f].box), !.life = "saving"]]
    BY <1>5 DEF TakeShutdown, Actors
  <2>2. actor' \in [FileId -> Actors]
    BY <1>5, <2>1, ShorterBox DEF TakeShutdown
  <2> QED BY <1>5, <2>2 DEF TakeShutdown
<1>6. CASE Stop(f) \/ Abandoned(f)
  <2>1. Hangup(f)
    BY <1>6 DEF Stop, Abandoned
  <2>2. [actor[f] EXCEPT !.box = <<>>, !.life = "gone"] \in Actors
    <3>1. actor[f] \in Actors /\ <<>> \in Seq(Message \cup {Poison})
      OBVIOUS
    <3> QED BY <3>1 DEF Actors, Life
  <2>3. actor' = [actor EXCEPT ![f] = [actor[f] EXCEPT !.box = <<>>, !.life = "gone"]]
    BY <2>1 DEF Hangup, Actors
  <2>4. \A k \in Calls : [k EXCEPT !.at = "idle", !.answer = Said("closed")] \in Calls
    <3>1. Said("closed") \in Answer /\ "idle" \in Stage
      BY AnswersTyped DEF Stage
    <3> QED BY <3>1 DEF Calls
  <2>5. call' \in [Client -> Calls]
    BY <2>1, <2>4 DEF Hangup
  <2> QED BY <2>1, <2>2, <2>3, <2>5 DEF Hangup
<1> QED BY <1>1, <1>2, <1>3, <1>4, <1>5, <1>6 DEF ActorStep

\* What the beginning of a call changes.
LEMMA BeginSays ==
  ASSUME TypeOK, NEW c \in Client, Begin(c)
  PROVE  /\ \E op \in Ops, p \in Path :
               call' = [call EXCEPT ![c] = [NoCall EXCEPT !.op = op, !.path = p,
                                                         !.at = FirstStage[op]]]
         /\ call[c].at = "idle" /\ call[c].op # "shutdown_all"
         /\ \A d \in Client \ {c} : call'[d] = call[d] /\ made'[d] = made[d]
         /\ call'[c].op \in Ops /\ call'[c].path \in Path
         /\ call'[c].at = FirstStage[call'[c].op]
         /\ call'[c].file = None /\ call'[c].left = {}
         /\ made' = [made EXCEPT ![c] = made[c] + 1] /\ made[c] < MaxCalls
         /\ UNCHANGED <<store, files, engines, actor>>
<1>1. PICK op \in Ops, p \in Path :
         call' = [call EXCEPT ![c] = [NoCall EXCEPT !.op = op, !.path = p,
                                                   !.at = FirstStage[op]]]
  BY DEF Begin
<1>2. call'[c] = [NoCall EXCEPT !.op = op, !.path = p, !.at = FirstStage[op]]
      /\ \A d \in Client \ {c} : call'[d] = call[d]
  BY <1>1 DEF TypeOK
<1>3. /\ call'[c].op = op /\ call'[c].path = p /\ call'[c].at = FirstStage[op]
      /\ call'[c].file = None /\ call'[c].left = {}
  BY <1>2 DEF NoCall
<1>4. /\ call[c].at = "idle" /\ call[c].op # "shutdown_all" /\ made[c] < MaxCalls
      /\ made' = [made EXCEPT ![c] = made[c] + 1]
      /\ UNCHANGED <<store, files, engines, actor>>
  BY DEF Begin, At
<1>5. \A d \in Client \ {c} : made'[d] = made[d]
  BY <1>4 DEF TypeOK
<1> QED BY <1>1, <1>2, <1>3, <1>4, <1>5

\* The beginning of a call keeps the types, and its stage is a first one.
LEMMA TypedBegin ==
  ASSUME TypeOK, NEW c \in Client, Begin(c)
  PROVE  TypeOK' /\ Calling(c)'
<1>1. PICK op \in Ops, p \in Path :
         call' = [call EXCEPT ![c] = [NoCall EXCEPT !.op = op, !.path = p,
                                                   !.at = FirstStage[op]]]
  BY BeginSays
<1>2. FirstStage[op] \in {"open", "close", "lookup", "list"}
  BY OpsAssumption DEF FirstStage
<1>3. [NoCall EXCEPT !.op = op, !.path = p, !.at = FirstStage[op]] \in Calls
  BY <1>2, AnswersTyped DEF Calls, Stage
<1>4. call' \in [Client -> Calls]
  BY <1>1, <1>3 DEF TypeOK
<1>5. made' \in [Client -> 0..MaxCalls]
  <2>1. made \in [Client -> 0..MaxCalls] /\ made' = [made EXCEPT ![c] = made[c] + 1]
        /\ made[c] < MaxCalls
    BY BeginSays DEF TypeOK
  <2>2. made[c] + 1 \in 0..MaxCalls
    BY <2>1, MaxCallsAssumption
  <2> QED BY <2>1, <2>2
<1>6. TypeOK'
  BY <1>4, <1>5, BeginSays DEF TypeOK
<1>7. Calling(c)'
  <2>1. /\ call'[c].op \in Ops /\ call'[c].path \in Path
        /\ call'[c].at = FirstStage[call'[c].op]
    BY BeginSays
  <2>2. \/ call'[c].at = "open" /\ call'[c].op = "open"
        \/ call'[c].at = "close" /\ call'[c].op = "close"
        \/ call'[c].at = "lookup" /\ call'[c].op \in Asks
        \/ call'[c].at = "list" /\ call'[c].op = "shutdown_all"
    <3>1. /\ FirstStage["open"] = "open" /\ FirstStage["close"] = "close"
          /\ FirstStage["send"] = "lookup" /\ FirstStage["read"] = "lookup"
          /\ FirstStage["history"] = "lookup"
          /\ FirstStage["shutdown_all"] = "list"
      BY DEF FirstStage
    <3> QED BY <2>1, <3>1, OpsAssumption DEF Asks
  <2> QED BY <2>1, <2>2 DEF Calling, Opening, Placed, Asks
<1> QED BY <1>6, <1>7

\* What Return changes.
LEMMA ReturnFlat ==
  ASSUME call \in [Client -> Calls], NEW c \in Client, NEW a, Return(c, a)
  PROVE  /\ call'[c].at = "idle" /\ call'[c].op = call[c].op
         /\ call'[c].path = call[c].path /\ call'[c].file = call[c].file
         /\ call'[c].row = call[c].row /\ call'[c].left = call[c].left
         /\ call'[c].answer = a
         /\ \A d \in Client \ {c} : call'[d] = call[d]
BY DEF Return, Calls

\* Most steps go on with the file they have.
Stays(c, from, to) == /\ call[c].at = from /\ call'[c].at \in to
                      /\ call'[c].file = call[c].file
                      /\ call'[c].left = call[c].left

\* The steps that keep the file id.
LEMMA Moves ==
  ASSUME TypeOK, NEW c \in Client
  PROVE
         /\ SeedCheck(c) => Stays(c, "seedcheck", {"seed", "load"})
         /\ Seed(c) => Stays(c, "seed", {"seed", "load"})
         /\ Load(c) => Stays(c, "load", {"publish"})
         /\ Publish(c) => Stays(c, "publish", {"register"})
         /\ Register(c) => Stays(c, "register", {"idle"})
         /\ CloseUnknown(c) => Stays(c, "close", {"idle"})
         /\ CloseGet(c) => Stays(c, "shutdown", {"poison", "idle"})
         /\ CloseSend(c) => Stays(c, "poison", {"drop"})
         /\ CloseDrop(c) => Stays(c, "drop", {"forget", "sweep"})
         /\ CloseForget(c) => Stays(c, "forget", {"idle"})
         /\ SweepClear(c) => Stays(c, "sweep", {"idle"})
         /\ GetHandle(c) => Stays(c, "handle", {"deliver", "idle"})
         /\ Deliver(c) => Stays(c, "deliver", {"wait", "idle"})
<1>1. ASSUME SeedCheck(c) PROVE Stays(c, "seedcheck", {"seed", "load"})
  BY <1>1 DEF SeedCheck, Stays, TypeOK, Calls, At
<1>2. ASSUME Seed(c) PROVE Stays(c, "seed", {"seed", "load"})
  BY <1>2 DEF Seed, Stays, TypeOK, Calls, At
<1>3. ASSUME Load(c) PROVE Stays(c, "load", {"publish"})
  BY <1>3, GotoFlat, ReturnFlat DEF Load, Stays, TypeOK, At
<1>4. ASSUME Publish(c) PROVE Stays(c, "publish", {"register"})
  BY <1>4, GotoFlat, ReturnFlat DEF Publish, Stays, TypeOK, At
<1>5. ASSUME Register(c) PROVE Stays(c, "register", {"idle"})
  BY <1>5, GotoFlat, ReturnFlat DEF Register, Stays, TypeOK, At
<1>6. ASSUME CloseUnknown(c) PROVE Stays(c, "close", {"idle"})
  BY <1>6, GotoFlat, ReturnFlat DEF CloseUnknown, Stays, TypeOK, At
<1>7. ASSUME CloseGet(c) PROVE Stays(c, "shutdown", {"poison", "idle"})
  BY <1>7, GotoFlat, ReturnFlat DEF CloseGet, Stays, TypeOK, At
<1>8. ASSUME CloseSend(c) PROVE Stays(c, "poison", {"drop"})
  BY <1>8, GotoFlat, ReturnFlat DEF CloseSend, Stays, TypeOK, At
<1>9. ASSUME CloseDrop(c) PROVE Stays(c, "drop", {"forget", "sweep"})
  BY <1>9, GotoFlat, ReturnFlat DEF CloseDrop, Stays, TypeOK, At
<1>10. ASSUME CloseForget(c) PROVE Stays(c, "forget", {"idle"})
  BY <1>10, GotoFlat, ReturnFlat DEF CloseForget, Stays, TypeOK, At
<1>11. ASSUME SweepClear(c) PROVE Stays(c, "sweep", {"idle"})
  BY <1>11, GotoFlat, ReturnFlat DEF SweepClear, Stays, TypeOK, At
<1>12. ASSUME GetHandle(c) PROVE Stays(c, "handle", {"deliver", "idle"})
  BY <1>12, GotoFlat, ReturnFlat DEF GetHandle, Stays, TypeOK, At
<1>13. ASSUME Deliver(c) PROVE Stays(c, "deliver", {"wait", "idle"})
  BY <1>13, GotoFlat, ReturnFlat DEF Deliver, Stays, TypeOK, At
<1> QED BY <1>1, <1>2, <1>3, <1>4, <1>5, <1>6, <1>7, <1>8, <1>9, <1>10, <1>11, <1>12, <1>13

\* What Mail changes.
LEMMA MailFlat ==
  ASSUME TypeOK, NEW f \in FileId, NEW msg, Mail(f, msg)
  PROVE  /\ \A g \in FileId : /\ actor'[g].life = actor[g].life
                              /\ actor'[g].home = actor[g].home
                              /\ actor'[g].seen = actor[g].seen
                              /\ g # f => actor'[g] = actor[g]
         /\ actor'[f].box = IF Alive(f) THEN Append(actor[f].box, msg)
                            ELSE actor[f].box
BY DEF TypeOK, Actors, Mail

-----------------------------------------------------------------------------
(***************************************************************************)
(* Homes: the steps of the callers.                                        *)
(***************************************************************************)
\* A step that moves no file id about.
LEMMA HomesStay ==
  ASSUME TypeOK, Callers, Homes, NEW c \in Client, OwnCall(c),
         call'[c].file = call[c].file, call'[c].left = call[c].left,
         call'[c].at \in Placed => call[c].at \in Placed,
         call'[c].at \in (Placed \ Opening) \cup {"register"} =>
            call[c].at \in (Placed \ Opening) \cup {"register"},
         \A f \in FileId : /\ actor'[f].home = actor[f].home
                           /\ actor'[f].life = actor[f].life
                           /\ ~Alive(f) => actor'[f].box = actor[f].box
                           /\ files'[f] \in {files[f], None},
         engines' \subseteq engines
  PROVE  Homes'
<1>0. ASSUME NEW f \in FileId PROVE /\ Born(f)' <=> Born(f)
                                    /\ Published(f)' <=> Published(f)
                                    /\ Alive(f)' <=> Alive(f)
  BY <1>0 DEF Born, Published, Alive
<1>1. ASSUME NEW f \in FileId PROVE HomeOf(f)'
  <2>1. HomeOf(f)
    BY <1>1 DEF Homes
  <2>2. actor'[f].home = actor[f].home /\ files'[f] \in {files[f], None}
        /\ (f \in engines' => f \in engines)
    BY <1>1
  <2>3. ~Alive(f)' => actor'[f].box = <<>>
    BY <1>0, <1>1, <2>1 DEF HomeOf
  <2> QED BY <1>0, <1>1, <2>1, <2>2, <2>3 DEF HomeOf
<1>2. ASSUME NEW d \in Client PROVE CallHome(d)'
  <2> DEFINE f == call[d].file
  <2>1. CallHome(d) /\ call[d].left \subseteq FileId /\ f \in FileId \cup {None}
    BY <1>2 DEF Homes, TypeOK, Calls
  <2>2. call'[d].file = f /\ call'[d].left = call[d].left
        /\ call'[d].path = call[d].path /\ call'[d].op = call[d].op
        /\ (call'[d].at \in Placed => call[d].at \in Placed)
        /\ (call'[d].at \in (Placed \ Opening) \cup {"register"} =>
               call[d].at \in (Placed \ Opening) \cup {"register"})
    BY <1>2 DEF OwnCall
  <2>3. call[d].at \in Placed => f \in FileId
    BY <1>2 DEF Callers, Calling
  <2>4. \A g \in FileId : actor'[g].life = actor[g].life /\ actor'[g].home = actor[g].home
    OBVIOUS
  <2>5. \A g \in call'[d].left : Published(g)'
    BY <2>1, <2>2, <2>4 DEF CallHome, Published
  <2>6. f # None => actor'[f].life # "unborn"
    BY <2>1, <2>4 DEF CallHome, Born
  <2>7. call'[d].at \in Placed /\ call'[d].op # "shutdown_all" =>
           actor'[f].home = call'[d].path
    BY <2>1, <2>2, <2>3, <2>4 DEF CallHome, Sweeping
  <2>8. call'[d].at \in (Placed \ Opening) \cup {"register"} =>
           f \in FileId /\ actor[f].life \in {"running", "saving", "gone"}
    BY <2>1, <2>2, <2>3 DEF CallHome, Placed, Opening, Published
  <2>9. call'[d].at \in (Placed \ Opening) \cup {"register"} =>
           actor'[f].life \in {"running", "saving", "gone"}
    BY <2>4, <2>8
  <2> QED BY <2>2, <2>5, <2>6, <2>7, <2>9 DEF CallHome, Born, Published, Sweeping
<1> QED BY <1>1, <1>2 DEF Homes

\* A step that gives the call the file id of an actor that may go there.
LEMMA HomesMove ==
  ASSUME TypeOK, Callers, Homes, NEW c \in Client, OwnCall(c),
         call'[c].file \in FileId, Published(call'[c].file),
         call'[c].left \subseteq call[c].left \cup engines,
         call'[c].at \in Placed /\ ~Sweeping(c) =>
            actor[call'[c].file].home = call[c].path,
         UNCHANGED <<files, engines, actor>>
  PROVE  Homes'
<1>1. ASSUME NEW f \in FileId PROVE HomeOf(f)'
  BY <1>1 DEF Homes, HomeOf, Born, Published, Alive
<1>2. ASSUME NEW d \in Client PROVE CallHome(d)'
  <2>1. CASE d = c
    <3>1. \A f \in call'[c].left : Published(f)'
      BY DEF Homes, CallHome, HomeOf, Published, TypeOK, Calls
    <3>2. Born(call'[c].file)
      BY DEF Published, Born
    <3> QED BY <2>1, <3>1, <3>2 DEF OwnCall, CallHome, Sweeping, Born, Published
  <2>2. CASE d # c
    BY <1>2, <2>2 DEF OwnCall, Homes, CallHome, Sweeping, Born, Published
  <2> QED BY <2>1, <2>2
<1> QED BY <1>1, <1>2 DEF Homes

\* Each step of a caller keeps the homes.
LEMMA HomesWork ==
  ASSUME TypeOK, Callers, Homes, Owns, NEW c \in Client, Work(c)
  PROVE  Homes'
<1>0. OwnCall(c)
  BY OwnCallOnly DEF TypeOK
<1>p. ASSUME NEW f \in OpenAs(call[c].path), call[c].path \in Path
      PROVE  f \in FileId /\ Published(f) /\ actor[f].home = call[c].path
  BY <1>p, NoneAssumption DEF OpenAs, Homes, HomeOf
<1>q. ~At(c, "idle") => call[c].path \in Path
  BY DEF Callers, Calling, At
<1>1. CASE OpenStep(c)
  <2>1. CASE OpenFound(c)
    <3>1. PICK f \in OpenAs(call[c].path) :
             /\ call'[c].file = f /\ call'[c].at = "idle" /\ call'[c].left = call[c].left
      BY <2>1 DEF OpenFound, TypeOK, Calls
    <3> QED BY <1>0, <1>p, <1>q, <3>1, <2>1, HomesMove
            DEF OpenFound, Placed, Opening, OwnCall
  <2>2. CASE OpenFresh(c)
    <3>1. PICK f \in FileId :
             /\ actor[f].life = "unborn" /\ actor'[f].life = "drawn"
             /\ actor'[f].home = call[c].path /\ actor'[f].box = actor[f].box
             /\ \A g \in FileId \ {f} : actor'[g] = actor[g]
             /\ call'[c].file = f /\ call'[c].at = "seedcheck"
             /\ call'[c].left = call[c].left
      BY <2>2 DEF OpenFresh, TypeOK, Calls, Actors
    <3>2. ASSUME NEW g \in FileId PROVE HomeOf(g)'
      <4>1. HomeOf(g) /\ HomeOf(f) /\ call[c].path \in Path /\ UNCHANGED <<files, engines>>
        BY <1>q, <3>2, <2>2 DEF OpenFresh, Homes, At
      <4>2. CASE g # f
        BY <3>1, <3>2, <4>1, <4>2 DEF HomeOf, Born, Published, Alive
      <4>3. CASE g = f
        <5>1. files[f] = None /\ f \notin engines /\ actor[f].box = <<>>
          BY <3>1, <4>1 DEF HomeOf, Published, Alive
        <5> QED BY <3>1, <4>1, <4>3, <5>1 DEF HomeOf, Born, Published, Alive
      <4> QED BY <4>2, <4>3
    <3>3. ASSUME NEW g \in FileId, Published(g) PROVE Published(g)' /\ actor'[g] = actor[g]
      BY <3>1, <3>3 DEF Published
    <3>4. ASSUME NEW g \in FileId, Born(g) PROVE Born(g)' /\ actor'[g] = actor[g]
      BY <3>1, <3>4 DEF Born
    <3>5. ASSUME NEW d \in Client \ {c} PROVE CallHome(d)'
      <4>1. call'[d] = call[d] /\ CallHome(d) /\ call[d].left \subseteq FileId
            /\ call[d].file \in FileId \cup {None}
            /\ (call[d].at \in Placed => call[d].file \in FileId)
        BY <1>0, <3>5 DEF OwnCall, Homes, TypeOK, Calls, Callers, Calling
      <4>2. call[d].at \in (Placed \ Opening) \cup {"register"} => call[d].at \in Placed
        BY DEF Placed, Opening
      <4> QED BY <3>3, <3>4, <4>1, <4>2, NoneAssumption
              DEF CallHome, Sweeping, Born, Published
    <3>6. CallHome(c)'
      <4>1. /\ call[c].left \subseteq FileId /\ CallHome(c)
            /\ "seedcheck" \notin (Placed \ Opening) \cup {"register"}
        BY SMTT(40) DEF TypeOK, Calls, Homes, Opening
      <4> QED BY <1>0, <3>1, <3>3, <4>1 DEF CallHome, OwnCall, Born, Published
    <3> QED BY <3>2, <3>5, <3>6 DEF Homes
  <2>3. CASE SeedCheck(c)
    BY ZenonT(60), <1>0, <2>3, Moves, HomesStay DEF SeedCheck, Stays, Placed, Opening, TypeOK
  <2>4. CASE Seed(c)
    BY <1>0, <2>4, Moves, HomesStay DEF Seed, Stays, Placed, Opening, TypeOK
  <2>5. CASE Load(c)
    <3>1. \A f \in FileId : /\ actor'[f].home = actor[f].home
                            /\ actor'[f].life = actor[f].life
                            /\ actor'[f].box = actor[f].box
      BY <2>5 DEF Load, TypeOK, Actors
    <3> QED BY <1>0, <3>1, <2>5, Moves, HomesStay
            DEF Load, Stays, Placed, Opening, TypeOK
  <2>6. CASE Publish(c)
    <3> DEFINE f == call[c].file
    <3>1. /\ f \in FileId /\ actor'[f].life = "running" /\ actor'[f].home = actor[f].home
          /\ \A g \in FileId \ {f} : actor'[g] = actor[g]
      BY <2>6 DEF Publish, TypeOK, Actors, Callers, Calling, Placed, Opening, At
    <3>2. /\ call'[c].at = "register" /\ call'[c].file = f /\ call'[c].left = call[c].left
          /\ call'[c].path = call[c].path /\ call'[c].op = call[c].op
      BY <1>0, <2>6, Moves DEF Stays, OwnCall
    <3>3. actor[f].life = "drawn"
      BY <2>6 DEF Publish, Owns, OwnsOf, Opening, At
    <3>4. ASSUME NEW g \in FileId PROVE HomeOf(g)'
      BY <3>1, <3>3, <3>4, <2>6 DEF Publish, Homes, HomeOf, Born, Published, Alive
    <3>5. \A g \in FileId : /\ Published(g) => Published(g)'
                            /\ Born(g) => Born(g)'
                            /\ actor'[g].home = actor[g].home
      BY <3>1 DEF Published, Born
    <3>6. CallHome(c)'
      <4>1. call[c].at = "publish" /\ call[c].left \subseteq FileId /\ CallHome(c)
        BY <2>6 DEF Publish, TypeOK, Calls, Homes, At
      <4>2. \A g \in call'[c].left : Published(g)'
        BY <3>2, <3>5, <4>1 DEF CallHome
      <4>3. actor[f].home = call[c].path \/ Sweeping(c)
        BY <4>1 DEF CallHome, Placed, Opening
      <4> QED BY <3>1, <3>2, <4>2, <4>3 DEF CallHome, Sweeping, Born, Published
    <3>7. ASSUME NEW d \in Client \ {c} PROVE CallHome(d)'
      <4>1. call'[d] = call[d] /\ CallHome(d) /\ call[d].left \subseteq FileId
            /\ call[d].file \in FileId \cup {None}
            /\ (call[d].at \in Placed => call[d].file \in FileId)
        BY <1>0, <3>7 DEF OwnCall, Homes, TypeOK, Calls, Callers, Calling
      <4>2. call[d].at \in (Placed \ Opening) \cup {"register"} => call[d].at \in Placed
        BY DEF Placed, Opening
      <4>3. \A g \in call'[d].left : Published(g)'
        BY <3>5, <4>1 DEF CallHome
      <4>4. call[d].file # None => actor'[call[d].file].life # "unborn"
        BY <3>1, <4>1 DEF CallHome, Born
      <4>5. call[d].at \in Placed /\ ~Sweeping(d) =>
               actor'[call[d].file].home = call[d].path
        BY <3>5, <4>1 DEF CallHome
      <4>6. call[d].at \in (Placed \ Opening) \cup {"register"} =>
               actor'[call[d].file].life \in {"running", "saving", "gone"}
        BY <3>1, <4>1, <4>2 DEF CallHome, Published
      <4> QED BY <4>1, <4>3, <4>4, <4>5, <4>6 DEF CallHome, Sweeping, Born, Published
    <3> QED BY <3>4, <3>6, <3>7 DEF Homes
  <2>7. CASE Register(c)
    <3> DEFINE f == call[c].file
    <3>1. /\ call'[c].at = "idle" /\ call'[c].file = f /\ call'[c].left = call[c].left
          /\ f \in FileId /\ call[c].path \in Path /\ call[c].at = "register"
      BY <2>7, Moves DEF Register, Stays, Callers, Calling, Placed, Opening, At
    <3>2. actor[f].home = call[c].path /\ Published(f)
      BY <3>1, <1>0, <2>7
      DEF Register, Homes, CallHome, Callers, Calling, Placed, Opening, Sweeping
    <3>3. ASSUME NEW g \in FileId PROVE HomeOf(g)'
      BY <3>1, <3>2, <3>3, <2>7
      DEF Register, Homes, HomeOf, Born, Published, Alive, TypeOK
    <3>4. "idle" \notin Placed
      BY DEF Placed, Opening
    <3>5. CallHome(c)'
      BY <3>1, <3>4, <2>7
      DEF Register, Homes, CallHome, Born, Published, Placed, Opening
    <3>6. ASSUME NEW d \in Client \ {c} PROVE CallHome(d)'
      BY <1>0, <3>6, <2>7
      DEF Register, OwnCall, Homes, CallHome, Sweeping, Born, Published
    <3> QED BY <3>3, <3>5, <3>6 DEF Homes
  <2>8. CASE OpenFails(c)
    <3> DEFINE f == call[c].file
    <3>1. /\ call'[c].at = "idle" /\ call'[c].file = f /\ call'[c].left = call[c].left
      BY <2>8, ReturnFlat DEF OpenFails, TypeOK
    <3>2. ASSUME NEW g \in FileId, actor'[g] # actor[g]
          PROVE  /\ actor'[g] = [actor[g] EXCEPT !.life = "gone"]
                 /\ actor[g].life = "drawn"
      BY <3>2, <2>8 DEF OpenFails, Owns, OwnsOf, Opening, TypeOK
    <3>3. \A g \in FileId : /\ actor'[g].home = actor[g].home
                            /\ actor'[g].box = actor[g].box
                            /\ \/ actor'[g].life = actor[g].life
                               \/ actor'[g].life = "gone" /\ actor[g].life = "drawn"
      <4>1. ASSUME NEW g \in FileId, actor'[g] # actor[g]
            PROVE  /\ actor'[g].home = actor[g].home /\ actor'[g].box = actor[g].box
                   /\ actor'[g].life = "gone" /\ actor[g].life = "drawn"
        BY ZenonT(60), <3>2, <4>1 DEF TypeOK, Actors
      <4> QED BY <4>1
    <3>4. ASSUME NEW g \in FileId PROVE HomeOf(g)'
      BY <3>3, <3>4, <2>8 DEF OpenFails, Homes, HomeOf, Born, Published, Alive
    <3>5. \A g \in FileId : /\ Published(g) => Published(g)'
                            /\ Born(g) => Born(g)'
      BY <3>3 DEF Published, Born
    <3>7. ASSUME NEW d \in Client PROVE CallHome(d)'
      <4>1. /\ call'[d].file = call[d].file /\ call'[d].left = call[d].left
            /\ call'[d].path = call[d].path /\ call'[d].op = call[d].op
            /\ call'[d].at \in {call[d].at, "idle"}
            /\ CallHome(d) /\ call[d].left \subseteq FileId
            /\ call[d].file \in FileId \cup {None}
            /\ (call[d].at \in Placed => call[d].file \in FileId)
        BY <1>0, <3>1, <3>7 DEF OwnCall, Homes, TypeOK, Calls, Callers, Calling
      <4>2. call'[d].at \in (Placed \ Opening) \cup {"register"} => call'[d].at \in Placed
        BY DEF Placed, Opening
      <4>3. "idle" \notin Placed
        BY DEF Placed, Opening
      <4> QED BY <3>3, <3>5, <4>1, <4>2, <4>3, NoneAssumption
              DEF CallHome, Sweeping, Born, Published
    <3> QED BY <3>4, <3>7 DEF Homes
  <2> QED BY <1>1, <2>1, <2>2, <2>3, <2>4, <2>5, <2>6, <2>7, <2>8 DEF OpenStep
<1>2. CASE CloseStep(c)
  <2>1. CASE CloseFind(c)
    <3>1. PICK f \in OpenAs(call[c].path) :
             /\ call'[c].file = f /\ call'[c].left = call[c].left
      BY <2>1 DEF CloseFind, TypeOK, Calls
    <3> QED BY <1>0, <1>p, <1>q, <3>1, <2>1, HomesMove DEF CloseFind, OwnCall
  <2>2. CASE CloseUnknown(c)
    BY <1>0, <2>2, Moves, HomesStay DEF CloseUnknown, Stays, Placed, Opening, TypeOK
  <2>3. CASE CloseGet(c)
    BY <1>0, <2>3, Moves, HomesStay DEF CloseGet, Stays, Placed, Opening, TypeOK
  <2>4. CASE CloseSend(c)
    <3>1. call[c].file \in FileId
      BY <2>4 DEF CloseSend, Callers, Calling, At, Placed
    <3>2. /\ call'[c].file = call[c].file /\ call'[c].left = call[c].left
          /\ call[c].at \in Placed \ Opening /\ UNCHANGED <<files, engines>>
      BY <2>4, Moves DEF CloseSend, Stays, Placed, Opening
    <3>3. \A f \in FileId : /\ actor'[f].home = actor[f].home
                            /\ actor'[f].life = actor[f].life
                            /\ ~Alive(f) => actor'[f].box = actor[f].box
      BY <3>1, <2>4, MailFlat DEF CloseSend
    <3> QED BY <1>0, <3>2, <3>3, HomesStay
  <2>5. CASE CloseDrop(c)
    BY <1>0, <2>5, Moves, HomesStay DEF CloseDrop, Stays, Placed, Opening, TypeOK
  <2>6. CASE CloseForget(c)
    BY <1>0, <2>6, Moves, HomesStay DEF CloseForget, Stays, Placed, Opening, TypeOK
  <2>7. CASE SweepList(c)
    <3>1. /\ call[c].at = "list" /\ call'[c].at = "sweep" /\ call'[c].file = call[c].file
          /\ call'[c].left = engines
      BY <2>7 DEF SweepList, TypeOK, Calls, At
    <3>2. ASSUME NEW f \in FileId PROVE HomeOf(f)'
      BY <3>2, <2>7 DEF SweepList, Homes, HomeOf, Born, Published, Alive
    <3>3. \A f \in engines : Published(f)
      BY DEF Homes, HomeOf, TypeOK
    <3>4. CallHome(c)'
      BY <3>1, <3>3, <2>7
      DEF SweepList, Homes, CallHome, Placed, Opening, Born, Published
    <3>5. ASSUME NEW d \in Client \ {c} PROVE CallHome(d)'
      BY <1>0, <3>5, <2>7
      DEF SweepList, OwnCall, Homes, CallHome, Sweeping, Born, Published
    <3> QED BY <3>2, <3>4, <3>5 DEF Homes
  <2>8. CASE SweepNext(c)
    <3>1. PICK f \in call[c].left :
             /\ call'[c].file = f /\ call'[c].left = call[c].left \ {f}
      BY <2>8 DEF SweepNext, TypeOK, Calls
    <3>2. f \in FileId /\ Published(f) /\ Sweeping(c)
      BY <3>1, <2>8
      DEF SweepNext, Homes, CallHome, TypeOK, Calls, Callers, Calling, At, Sweeping
    <3> QED BY <1>0, <3>1, <3>2, <2>8, HomesMove DEF SweepNext
  <2>9. CASE SweepClear(c)
    BY <1>0, <2>9, Moves, HomesStay DEF SweepClear, Stays, Placed, Opening, TypeOK
  <2> QED BY <1>2, <2>1, <2>2, <2>3, <2>4, <2>5, <2>6, <2>7, <2>8, <2>9 DEF CloseStep
<1>3. CASE CallStep(c)
  <2>1. CASE Lookup(c)
    <3>1. CASE OpenAs(call[c].path) = {}
      BY <1>0, <2>1, <3>1, ReturnFlat, HomesStay DEF Lookup, Placed, Opening, TypeOK
    <3>2. CASE OpenAs(call[c].path) # {}
      <4>1. PICK f \in OpenAs(call[c].path) :
               /\ call'[c].file = f /\ call'[c].left = call[c].left
        BY <2>1, <3>2 DEF Lookup, TypeOK, Calls
      <4> QED BY <1>0, <1>p, <1>q, <4>1, <2>1, HomesMove DEF Lookup, OwnCall
    <3> QED BY <3>1, <3>2
  <2>2. CASE GetHandle(c)
    BY <1>0, <2>2, Moves, HomesStay DEF GetHandle, Stays, Placed, Opening, TypeOK
  <2>3. CASE Deliver(c)
    <3>1. call[c].file \in FileId
      BY <2>3 DEF Deliver, Callers, Calling, At, Placed
    <3>2. /\ call'[c].file = call[c].file /\ call'[c].left = call[c].left
          /\ call[c].at \in Placed \ Opening /\ UNCHANGED <<files, engines>>
      BY <2>3, Moves DEF Deliver, Stays, Placed, Opening
    <3>3. \A f \in FileId : /\ actor'[f].home = actor[f].home
                            /\ actor'[f].life = actor[f].life
                            /\ ~Alive(f) => actor'[f].box = actor[f].box
      BY <3>1, <2>3, MailFlat DEF Deliver
    <3> QED BY <1>0, <3>2, <3>3, HomesStay
  <2> QED BY <1>3, <2>1, <2>2, <2>3 DEF CallStep
<1> QED BY <1>1, <1>2, <1>3 DEF Work

-----------------------------------------------------------------------------
(***************************************************************************)
(* What an actor's step does to the tables, the actors and the calls.      *)
(***************************************************************************)
Answers(f) ==
    /\ UNCHANGED <<files, engines, made>>
    /\ \A g \in FileId \ {f} : actor'[g] = actor[g]
    /\ actor'[f].home = actor[f].home
    /\ actor[f].life \in {"running", "saving"}
    /\ actor'[f].life \in {"running", "saving", "gone"}
    /\ actor'[f].life = "gone" => actor'[f].box = <<>>
    /\ \A c \in Client :
          \/ call'[c] = call[c]
          \/ /\ call[c].at = "wait" /\ call'[c].at = "idle" /\ call[c].file = f
             /\ call'[c].op = call[c].op /\ call'[c].path = call[c].path
             /\ call'[c].file = call[c].file /\ call'[c].left = call[c].left

\* Each step of an actor is of this kind.
LEMMA ActorAnswers ==
  ASSUME TypeOK, Callers, Homes, Boxes, NEW f \in FileId, ActorStep(f)
  PROVE  Answers(f)
<1> DEFINE c == Sender(f)
<1>1. CASE Commit(f) \/ Refuse(f) \/ Read(f) \/ History(f)
  <2>1. /\ \E kind \in Asks : Receives(f, kind)
        /\ \E a : Return(c, a)
    BY <1>1 DEF Commit, Refuse, Read, History, Asks
  <2>2. c \in Client /\ call[c].at = "wait" /\ call[c].file = f
    BY <2>1, Asked DEF At
  <2>3. \A d \in Client :
          \/ call'[d] = call[d]
          \/ /\ call[d].at = "wait" /\ call'[d].at = "idle" /\ call[d].file = f
             /\ call'[d].op = call[d].op /\ call'[d].path = call[d].path
             /\ call'[d].file = call[d].file /\ call'[d].left = call[d].left
    BY <2>1, <2>2, ReturnFlat DEF TypeOK
  <2>4. /\ \A g \in FileId \ {f} : actor'[g] = actor[g]
        /\ actor'[f].home = actor[f].home /\ actor'[f].life = actor[f].life
    BY <1>1 DEF Commit, Refuse, Read, History, TypeOK, Actors
  <2>5. actor[f].life = "running"
    BY <2>1 DEF Receives
  <2> QED BY <1>1, <2>3, <2>4, <2>5 DEF Answers, Commit, Refuse, Read, History
<1>2. CASE TakeShutdown(f)
  BY SMTT(40), <1>2 DEF TakeShutdown, Answers, Receives, TypeOK, Actors
<1>3. CASE Stop(f) \/ Abandoned(f)
  <2>1. Hangup(f) /\ actor[f].life \in {"running", "saving"}
    BY <1>3 DEF Stop, Abandoned
  <2>2. /\ \A g \in FileId \ {f} : actor'[g] = actor[g]
        /\ actor'[f].home = actor[f].home /\ actor'[f].life = "gone"
        /\ actor'[f].box = <<>>
    BY <2>1 DEF Hangup, TypeOK, Actors
  <2>3. ASSUME NEW d \in Client
        PROVE  \/ call'[d] = call[d]
               \/ /\ call[d].at = "wait" /\ call'[d].at = "idle" /\ call[d].file = f
                  /\ call'[d].op = call[d].op /\ call'[d].path = call[d].path
                  /\ call'[d].file = call[d].file /\ call'[d].left = call[d].left
    BY <2>1, <2>3 DEF Hangup, TypeOK, Calls, At
  <2> QED BY <2>1, <2>2, <2>3 DEF Answers, Hangup
<1> QED BY SMTT(40), <1>1, <1>2, <1>3 DEF ActorStep

\* It leaves every call at its stage, or ended.
LEMMA CallersActor ==
  ASSUME TypeOK, Callers, NEW f \in FileId, Answers(f)
  PROVE  Callers'
BY DEF Callers, Calling, Answers, Opening, Placed

\* It keeps the homes.
LEMMA HomesActor ==
  ASSUME TypeOK, Callers, Homes, NEW f \in FileId, Answers(f)
  PROVE  Homes'
<1>1. \A g \in FileId : /\ actor'[g].home = actor[g].home
                        /\ Published(g) => Published(g)'
                        /\ Born(g) <=> Born(g)'
  BY DEF Answers, Published, Born
<1>2. ASSUME NEW g \in FileId PROVE HomeOf(g)'
  <2>1. HomeOf(g) /\ UNCHANGED <<files, engines>>
    BY <1>2 DEF Homes, Answers
  <2>2. ~Alive(g)' => actor'[g].box = <<>>
    BY <1>2, <2>1 DEF HomeOf, Answers, Alive
  <2> QED BY <1>1, <1>2, <2>1, <2>2 DEF HomeOf
<1>3. ASSUME NEW d \in Client PROVE CallHome(d)'
  <2>1. /\ call'[d].file = call[d].file /\ call'[d].left = call[d].left
        /\ call'[d].path = call[d].path /\ call'[d].op = call[d].op
        /\ call'[d].at \in {call[d].at, "idle"}
        /\ CallHome(d) /\ call[d].left \subseteq FileId
        /\ call[d].file \in FileId \cup {None}
        /\ (call[d].at \in Placed => call[d].file \in FileId)
    BY <1>3 DEF Answers, Homes, TypeOK, Calls, Callers, Calling
  <2>2. call'[d].at \in (Placed \ Opening) \cup {"register"} =>
           call'[d].at \in Placed
    BY DEF Placed, Opening
  <2>3. "idle" \notin Placed
    BY DEF Placed, Opening
  <2>4. \A g \in call'[d].left : Published(g)'
    BY <1>1, <2>1 DEF CallHome
  <2>5. call[d].file \in FileId =>
           /\ Born(call[d].file) => actor'[call[d].file].life # "unborn"
           /\ Published(call[d].file) =>
                 actor'[call[d].file].life \in {"running", "saving", "gone"}
    BY <1>1 DEF Born, Published
  <2> QED BY <1>1, <2>1, <2>2, <2>3, <2>4, <2>5
          DEF CallHome, Sweeping, Born, Published
<1> QED BY <1>2, <1>3 DEF Homes

\* A call that begins has no file id yet.
LEMMA HomesBegin ==
  ASSUME TypeOK, Homes, NEW c \in Client, Begin(c)
  PROVE  Homes'
<1>0. /\ \A d \in Client \ {c} : call'[d] = call[d]
      /\ UNCHANGED <<files, engines, actor>>
  BY BeginSays
<1>1. ASSUME NEW f \in FileId PROVE HomeOf(f)'
  BY <1>0, <1>1 DEF Homes, HomeOf, Born, Published, Alive
<1>2. CallHome(c)'
  <2>1. TypeOK' /\ Calling(c)' /\ call'[c].left = {} /\ call'[c].file = None
    BY TypedBegin, BeginSays
  <2>2. call'[c].at \notin Placed
    BY <2>1, NoneAssumption DEF Calling
  <2> QED BY <2>1, <2>2 DEF CallHome, Placed, Opening
<1>3. ASSUME NEW d \in Client \ {c} PROVE CallHome(d)'
  BY <1>0, <1>3 DEF Homes, CallHome, Born, Published, Sweeping
<1> QED BY <1>1, <1>2, <1>3 DEF Homes

-----------------------------------------------------------------------------
(***************************************************************************)
(* Who opens is alone with its file id, and the tables agree.              *)
(***************************************************************************)
LEMMA OwnsKeep ==
  ASSUME TypeOK, Callers, Owns, NEW c \in Client, OwnCall(c), OwnsOf(c)',
         \A d \in Client \ {c} :
            call[d].at \in Opening =>
               /\ call'[c].file = call[d].file => Sweeping(c)
               /\ files'[call[d].file] = None
               /\ actor'[call[d].file].life = actor[call[d].file].life
               /\ call[d].file \in engines =>
                     call[d].file \in engines' \/ Sweeping(c),
         \A d \in Client \ {c} : call[d].at = "forget" => call[d].file \notin engines'
  PROVE  Owns'
<1>1. \A d \in Client : Sweeping(d) <=> Sweeping(d)'
  BY DEF Sweeping, OwnCall
<1>2. ASSUME NEW d \in Client \ {c} PROVE OwnsOf(d)'
  <2>1. call'[d] = call[d] /\ OwnsOf(d)
    BY <1>2 DEF OwnCall, Owns
  <2>2. CASE call[d].at \in Opening
    <3>1. Alone(d)'
      <4>1. ASSUME NEW e \in Client \ {d}, call'[e].file = call'[d].file
            PROVE  call'[e].op = "shutdown_all"
        <5>1. CASE e = c
          BY <1>1, <1>2, <2>1, <2>2, <4>1, <5>1 DEF Sweeping
        <5>2. CASE e # c
          BY <2>1, <2>2, <4>1, <5>2 DEF OwnCall, OwnsOf, Alone, Sweeping
        <5> QED BY <5>1, <5>2
      <4> QED BY <4>1 DEF Alone, Sweeping
    <3>2. call[d].at = "register" =>
             call[d].file \in engines' \/ \E e \in Client : Sweeping(e)'
      BY <1>1, <1>2, <2>1, <2>2 DEF OwnsOf
    <3>3. files'[call[d].file] = None
          /\ actor'[call[d].file].life = actor[call[d].file].life
      BY <1>2, <2>2
    <3>4. call[d].at # "forget"
      BY <2>2 DEF Opening
    <3> QED BY <2>1, <3>1, <3>2, <3>3, <3>4 DEF OwnsOf
  <2>3. CASE call[d].at \notin Opening
    BY <1>2, <2>1, <2>3 DEF OwnsOf, Opening
  <2> QED BY <2>2, <2>3
<1> QED BY <1>2 DEF Owns

\* What an opener's file id is to the others.
LEMMA Opener ==
  ASSUME TypeOK, Callers, Homes, Owns, NEW d \in Client, call[d].at \in Opening
  PROVE  /\ call[d].file \in FileId /\ call[d].file # None
         /\ call[d].op = "open" /\ ~Sweeping(d)
         /\ files[call[d].file] = None /\ Born(call[d].file)
         /\ \A e \in Client \ {d} : call[e].file = call[d].file => Sweeping(e)
BY NoneAssumption DEF Callers, Calling, Owns, OwnsOf, Alone, Homes, CallHome,
                      Placed, Opening, Sweeping

\* Each step of a caller keeps who owns what.
LEMMA OwnsWork ==
  ASSUME TypeOK, Callers, Homes, Owns, NEW c \in Client, Work(c)
  PROVE  Owns'
<1>0. OwnCall(c)
  BY OwnCallOnly DEF TypeOK
<1>c. OwnsOf(c)
  BY DEF Owns
<1>o. \A d \in Client \ {c} : call[d].at \in Opening =>
         /\ call[d].file \in FileId /\ files[call[d].file] = None
         /\ call[c].file = call[d].file => Sweeping(c)
  BY Opener
<1>g. \A d \in Client \ {c} : call[d].at = "forget" => call[d].file \notin engines
  BY DEF Owns, OwnsOf
<1>f. ASSUME NEW f \in OpenAs(call[c].path), ~At(c, "idle")
      PROVE  files[f] # None
  BY <1>f, NoneAssumption DEF OpenAs, Callers, Calling, At
<1>1. CASE OpenStep(c)
  <2>1. CASE OpenFound(c)
    <3>1. PICK f \in OpenAs(call[c].path) : call'[c].file = f /\ call'[c].at = "idle"
      BY <2>1 DEF OpenFound, TypeOK, Calls
    <3> QED BY <1>0, <1>f, <1>g, <1>o, <3>1, <2>1, OwnsKeep
            DEF OpenFound, OwnsOf, Opening, At
  <2>2. CASE OpenFresh(c)
    <3>1. PICK f \in FileId :
             /\ actor[f].life = "unborn" /\ actor'[f].life = "drawn"
             /\ \A g \in FileId \ {f} : actor'[g] = actor[g]
             /\ call'[c].file = f /\ call'[c].at = "seedcheck"
      BY <2>2 DEF OpenFresh, TypeOK, Calls, Actors
    <3>2. files[f] = None
      BY <3>1 DEF Homes, HomeOf, Published
    <3>3. \A d \in Client : call[d].file # f
      BY <3>1, NoneAssumption DEF Homes, CallHome, Born
    <3>4. OwnsOf(c)'
      BY <1>0, <3>1, <3>2, <3>3, <2>2 DEF OpenFresh, OwnsOf, Opening, Alone, OwnCall
    <3> QED BY <1>0, <1>g, <1>o, <3>1, <3>3, <3>4, <2>2, OwnsKeep DEF OpenFresh
  <2>3. CASE SeedCheck(c)
    <3>1. call[c].at \in Opening /\ call'[c].at \in Opening \ {"register"}
          /\ call'[c].file = call[c].file /\ call[c].at # "register"
      BY <2>3, Moves DEF Stays, Opening
    <3>2. \A g \in FileId : actor'[g].life = actor[g].life
      BY <2>3 DEF SeedCheck, TypeOK, Actors
    <3>3. Alone(c)'
      BY <1>0, <1>c, <3>1 DEF OwnsOf, Alone, OwnCall, Sweeping
    <3>4. OwnsOf(c)'
      BY <1>c, <1>o, <3>1, <3>2, <3>3, <2>3, Opener DEF SeedCheck, OwnsOf, Opening
    <3> QED BY <1>0, <1>g, <1>o, <3>1, <3>2, <3>4, <2>3, OwnsKeep DEF SeedCheck
  <2>4. CASE Seed(c)
    <3>1. call[c].at \in Opening /\ call'[c].at \in Opening \ {"register"}
          /\ call'[c].file = call[c].file /\ call[c].at # "register"
      BY <2>4, Moves DEF Stays, Opening
    <3>2. \A g \in FileId : actor'[g].life = actor[g].life
      BY <2>4 DEF Seed, TypeOK, Actors
    <3>3. Alone(c)'
      BY <1>0, <1>c, <3>1 DEF OwnsOf, Alone, OwnCall, Sweeping
    <3>4. OwnsOf(c)'
      BY <1>c, <1>o, <3>1, <3>2, <3>3, <2>4, Opener DEF Seed, OwnsOf, Opening
    <3> QED BY <1>0, <1>g, <1>o, <3>1, <3>2, <3>4, <2>4, OwnsKeep DEF Seed
  <2>5. CASE Load(c)
    <3>1. call[c].at \in Opening /\ call'[c].at \in Opening \ {"register"}
          /\ call'[c].file = call[c].file /\ call[c].at # "register"
      BY <2>5, Moves DEF Stays, Opening
    <3>2. \A g \in FileId : actor'[g].life = actor[g].life
      BY <2>5 DEF Load, TypeOK, Actors
    <3>3. Alone(c)'
      BY <1>0, <1>c, <3>1 DEF OwnsOf, Alone, OwnCall, Sweeping
    <3>4. OwnsOf(c)'
      BY <1>c, <1>o, <3>1, <3>2, <3>3, <2>5, Opener DEF Load, OwnsOf, Opening
    <3> QED BY <1>0, <1>g, <1>o, <3>1, <3>2, <3>4, <2>5, OwnsKeep DEF Load
  <2>6. CASE Publish(c)
    <3>1. /\ call[c].at = "publish" /\ call'[c].at = "register"
          /\ call'[c].file = call[c].file
      BY <2>6, Moves DEF Stays
    <3>2. /\ call[c].file \in FileId /\ ~Sweeping(c) /\ files[call[c].file] = None
      BY <3>1, Opener DEF Opening
    <3>3. \A g \in FileId \ {call[c].file} : actor'[g] = actor[g]
      BY <2>6 DEF Publish, TypeOK
    <3>4. Alone(c)'
      BY <1>0, <1>c, <3>1 DEF OwnsOf, Alone, OwnCall, Sweeping, Opening
    <3>5. OwnsOf(c)'
      BY <3>1, <3>2, <3>4, <2>6 DEF Publish, OwnsOf, Opening
    <3>6. ASSUME NEW d \in Client \ {c}, call[d].at = "forget"
          PROVE  call[d].file # call[c].file /\ call[d].file \notin engines
      <4>1. ~Sweeping(d)
        BY <3>6 DEF Callers, Calling, Sweeping
      <4> QED BY <1>c, <3>1, <3>6, <4>1 DEF Owns, OwnsOf, Alone, Opening
    <3> QED BY <1>0, <1>g, <1>o, <3>1, <3>2, <3>3, <3>5, <3>6, <2>6, OwnsKeep
            DEF Publish
  <2>7. CASE Register(c)
    <3>1. /\ call[c].at = "register" /\ call'[c].at = "idle"
          /\ call'[c].file = call[c].file
      BY <2>7, Moves DEF Stays
    <3>2. ~Sweeping(c)
      BY <3>1, Opener DEF Opening
    <3>3. \A g \in FileId \ {call[c].file} : files'[g] = files[g]
      BY <2>7 DEF Register, TypeOK
    <3>4. OwnsOf(c)'
      BY <3>1 DEF OwnsOf, Opening
    <3> QED BY <1>0, <1>g, <1>o, <3>1, <3>2, <3>3, <3>4, <2>7, OwnsKeep DEF Register
  <2>8. CASE OpenFails(c)
    <3>1. /\ call'[c].at = "idle" /\ call'[c].file = call[c].file
      BY <2>8, ReturnFlat DEF OpenFails, TypeOK
    <3>2. ~Sweeping(c)
      BY <2>8 DEF OpenFails, Callers, Calling, Opening, Sweeping
    <3>3. \A g \in FileId \ {call[c].file} : actor'[g] = actor[g]
      BY <2>8 DEF OpenFails
    <3>4. OwnsOf(c)'
      BY <3>1 DEF OwnsOf, Opening
    <3> QED BY <1>0, <1>g, <1>o, <3>1, <3>2, <3>3, <3>4, <2>8, OwnsKeep DEF OpenFails
  <2> QED BY <1>1, <2>1, <2>2, <2>3, <2>4, <2>5, <2>6, <2>7, <2>8 DEF OpenStep
<1>2. CASE CloseStep(c)
  <2>1. CASE CloseFind(c)
    <3>1. PICK f \in OpenAs(call[c].path) : call'[c].file = f /\ call'[c].at = "shutdown"
      BY <2>1 DEF CloseFind, TypeOK, Calls
    <3> QED BY <1>0, <1>f, <1>g, <1>o, <3>1, <2>1, OwnsKeep
            DEF CloseFind, OwnsOf, Opening, At
  <2>2. CASE CloseUnknown(c)
    <3>1. call'[c].at \notin Opening \cup {"forget"} /\ call'[c].file = call[c].file
      BY <2>2, Moves DEF CloseUnknown, Stays, Opening
    <3>2. OwnsOf(c)'
      BY <3>1 DEF OwnsOf, Opening
    <3> QED BY <1>0, <1>g, <1>o, <3>1, <3>2, <2>2, OwnsKeep DEF CloseUnknown
  <2>3. CASE CloseGet(c)
    <3>1. call'[c].at \notin Opening \cup {"forget"} /\ call'[c].file = call[c].file
      BY <2>3, Moves DEF CloseGet, Stays, Opening
    <3>2. OwnsOf(c)'
      BY <3>1 DEF OwnsOf, Opening
    <3> QED BY <1>0, <1>g, <1>o, <3>1, <3>2, <2>3, OwnsKeep DEF CloseGet
  <2>4. CASE CloseSend(c)
    <3>1. call'[c].at \notin Opening \cup {"forget"} /\ call'[c].file = call[c].file
      BY <2>4, Moves DEF Stays, Opening
    <3>2. OwnsOf(c)'
      BY <3>1 DEF OwnsOf, Opening
    <3>3. call[c].file \in FileId
      BY <2>4 DEF CloseSend, Callers, Calling, At, Placed
    <3>4. \A g \in FileId : actor'[g].life = actor[g].life
      BY <2>4, <3>3, MailFlat DEF CloseSend
    <3> QED BY <1>0, <1>g, <1>o, <3>1, <3>2, <3>4, <2>4, OwnsKeep DEF CloseSend
  <2>5. CASE CloseDrop(c)
    <3>1. call'[c].at \in {"forget", "sweep"} /\ call'[c].file = call[c].file
      BY <2>5, Moves DEF Stays
    <3>2. OwnsOf(c)'
      BY <3>1, <2>5 DEF CloseDrop, OwnsOf, Opening
    <3> QED BY <1>0, <1>g, <1>o, <3>1, <3>2, <2>5, OwnsKeep DEF CloseDrop
  <2>6. CASE CloseForget(c)
    <3>1. call[c].at = "forget" /\ call'[c].at = "idle" /\ call'[c].file = call[c].file
      BY <2>6, Moves DEF Stays
    <3>2. OwnsOf(c)'
      BY <3>1 DEF OwnsOf, Opening
    <3>3. \A g \in FileId : files'[g] \in {files[g], None}
      BY <2>6 DEF CloseForget, TypeOK
    <3> QED BY <1>0, <1>g, <1>o, <3>1, <3>2, <3>3, <2>6, OwnsKeep DEF CloseForget
  <2>7. CASE SweepList(c)
    <3>1. call'[c].at = "sweep" /\ call'[c].file = call[c].file
      BY <2>7 DEF SweepList, TypeOK, Calls
    <3>2. OwnsOf(c)'
      BY <3>1 DEF OwnsOf, Opening
    <3> QED BY <1>0, <1>g, <1>o, <3>1, <3>2, <2>7, OwnsKeep DEF SweepList
  <2>8. CASE SweepNext(c)
    <3>1. call'[c].at \in {"sweep", "poison"} /\ Sweeping(c)
      BY <2>8 DEF SweepNext, TypeOK, Calls, Callers, Calling, At, Sweeping
    <3>2. OwnsOf(c)'
      BY <3>1 DEF OwnsOf, Opening
    <3> QED BY <1>0, <1>g, <1>o, <3>1, <3>2, <2>8, OwnsKeep DEF SweepNext
  <2>9. CASE SweepClear(c)
    <3>1. call[c].at = "sweep" /\ call'[c].at = "idle"
      BY <2>9, Moves DEF Stays
    <3>2. OwnsOf(c)' /\ Sweeping(c)
      BY <3>1 DEF OwnsOf, Opening, Callers, Calling, Sweeping
    <3> QED BY <1>0, <1>g, <1>o, <3>1, <3>2, <2>9, OwnsKeep DEF SweepClear
  <2> QED BY <1>2, <2>1, <2>2, <2>3, <2>4, <2>5, <2>6, <2>7, <2>8, <2>9 DEF CloseStep
<1>3. CASE CallStep(c)
  <2>1. CASE Lookup(c)
    <3>1. CASE OpenAs(call[c].path) = {}
      <4>1. call'[c].at = "idle" /\ call'[c].file = call[c].file
        BY <2>1, <3>1, ReturnFlat DEF Lookup, TypeOK
      <4> QED BY <1>0, <1>g, <1>o, <4>1, <2>1, OwnsKeep DEF Lookup, OwnsOf, Opening
    <3>2. CASE OpenAs(call[c].path) # {}
      <4>1. PICK f \in OpenAs(call[c].path) : call'[c].file = f /\ call'[c].at = "handle"
        BY <2>1, <3>2 DEF Lookup, TypeOK, Calls
      <4> QED BY <1>0, <1>f, <1>g, <1>o, <4>1, <2>1, OwnsKeep
              DEF Lookup, OwnsOf, Opening, At
    <3> QED BY <3>1, <3>2
  <2>2. CASE GetHandle(c)
    <3>1. call'[c].at \notin Opening \cup {"forget"} /\ call'[c].file = call[c].file
      BY <2>2, Moves DEF GetHandle, Stays, Opening
    <3>2. OwnsOf(c)'
      BY <3>1 DEF OwnsOf, Opening
    <3> QED BY <1>0, <1>g, <1>o, <3>1, <3>2, <2>2, OwnsKeep DEF GetHandle
  <2>3. CASE Deliver(c)
    <3>1. call'[c].at \notin Opening \cup {"forget"} /\ call'[c].file = call[c].file
      BY <2>3, Moves DEF Stays, Opening
    <3>2. OwnsOf(c)'
      BY <3>1 DEF OwnsOf, Opening
    <3>3. call[c].file \in FileId
      BY <2>3 DEF Deliver, Callers, Calling, At, Placed
    <3>4. \A g \in FileId : actor'[g].life = actor[g].life
      BY <2>3, <3>3, MailFlat DEF Deliver
    <3> QED BY <1>0, <1>g, <1>o, <3>1, <3>2, <3>4, <2>3, OwnsKeep DEF Deliver
  <2> QED BY <1>3, <2>1, <2>2, <2>3 DEF CallStep
<1> QED BY <1>1, <1>2, <1>3 DEF Work

\* An actor that works is nobody's to open.
LEMMA OwnsActor ==
  ASSUME TypeOK, Callers, Homes, Owns, NEW f \in FileId, Answers(f)
  PROVE  Owns'
<1>1. \A d \in Client : /\ call'[d].file = call[d].file
                        /\ Sweeping(d)' <=> Sweeping(d)
                        /\ call'[d].at \in {call[d].at, "idle"}
  BY DEF Answers, Sweeping
<1>2. ASSUME NEW d \in Client PROVE OwnsOf(d)'
  <2>1. OwnsOf(d) /\ UNCHANGED <<files, engines>>
    BY DEF Owns, Answers
  <2>2. "idle" \notin Opening
    BY DEF Opening
  <2>3. Alone(d) => Alone(d)'
    BY <1>1 DEF Alone
  <2>4. CASE call'[d].at \in Opening
    <3>1. call[d].at = call'[d].at /\ call[d].file \in FileId
      BY <1>1, <2>2, <2>4, Opener
    <3>2. call[d].at # "register" => call[d].file # f
      BY <2>1, <2>4, <3>1 DEF OwnsOf, Answers
    <3>3. call[d].at # "register" => actor'[call[d].file] = actor[call[d].file]
      BY <3>1, <3>2 DEF Answers
    <3>4. call[d].at # "forget"
      BY <2>4, <3>1 DEF Opening
    <3> QED BY <1>1, <2>1, <2>3, <2>4, <3>1, <3>3, <3>4 DEF OwnsOf
  <2>5. CASE call'[d].at \notin Opening
    BY <1>1, <2>1, <2>5 DEF OwnsOf, Opening
  <2> QED BY <2>4, <2>5
<1> QED BY <1>2 DEF Owns

\* A call that begins owns nothing.
LEMMA OwnsBegin ==
  ASSUME TypeOK, Callers, Homes, Owns, NEW c \in Client, Begin(c)
  PROVE  Owns'
<1>1. /\ call[c].at = "idle" /\ ~Sweeping(c)
      /\ \A d \in Client \ {c} : call'[d] = call[d]
      /\ call'[c].file = None
      /\ UNCHANGED <<files, engines, actor>>
  BY BeginSays DEF Sweeping
<1>2. OwnsOf(c)'
  <2>1. call'[c].at \notin Placed
    BY <1>1, TypedBegin, NoneAssumption DEF Calling
  <2> QED BY <2>1 DEF OwnsOf, Placed, Opening
<1>3. ASSUME NEW d \in Client \ {c} PROVE OwnsOf(d)'
  <2>1. call'[d] = call[d] /\ OwnsOf(d)
    BY <1>1, <1>3 DEF Owns
  <2>2. call[d].at \in Opening => call[d].file # None
    BY <1>3, Opener
  <2>3. call[d].at \in Opening /\ Alone(d) => Alone(d)'
    BY <1>1, <1>3, <2>1, <2>2 DEF Alone, Sweeping
  <2>4. (\E e \in Client : Sweeping(e)) => \E e \in Client : Sweeping(e)'
    BY <1>1 DEF Sweeping
  <2> QED BY <1>1, <2>1, <2>3, <2>4 DEF OwnsOf, Opening
<1> QED BY <1>2, <1>3 DEF Owns

\* A step that changes neither table, of a call that excuses nothing.
LEMMA TablesKeep ==
  ASSUME TypeOK, TablesAgree, NEW c \in Client, OwnCall(c),
         call[c].at \notin {"register", "forget"}, UNCHANGED <<files, engines>>
  PROVE  TablesAgree'
BY DEF TablesAgree, OwnCall

\* Each step of a caller keeps the tables in agreement.
LEMMA TablesWork ==
  ASSUME TypeOK, Callers, Owns, TablesAgree, NEW c \in Client, Work(c)
  PROVE  TablesAgree'
<1>0. OwnCall(c)
  BY OwnCallOnly DEF TypeOK
<1>1. CASE OpenStep(c)
  <2>1. CASE OpenFound(c)
    <3>1. call[c].at \notin {"register", "forget"} /\ UNCHANGED <<files, engines>>
      BY <2>1 DEF OpenFound, At
    <3> QED BY <1>0, <3>1, TablesKeep
  <2>2. CASE OpenFresh(c)
    <3>1. call[c].at \notin {"register", "forget"} /\ UNCHANGED <<files, engines>>
      BY <2>2 DEF OpenFresh, At
    <3> QED BY <1>0, <3>1, TablesKeep
  <2>3. CASE SeedCheck(c)
    <3>1. call[c].at \notin {"register", "forget"} /\ UNCHANGED <<files, engines>>
      BY <2>3 DEF SeedCheck, At
    <3> QED BY <1>0, <3>1, TablesKeep
  <2>4. CASE Seed(c)
    <3>1. call[c].at \notin {"register", "forget"} /\ UNCHANGED <<files, engines>>
      BY <2>4 DEF Seed, At
    <3> QED BY <1>0, <3>1, TablesKeep
  <2>5. CASE Load(c)
    <3>1. call[c].at \notin {"register", "forget"} /\ UNCHANGED <<files, engines>>
      BY <2>5 DEF Load, At
    <3> QED BY <1>0, <3>1, TablesKeep
  <2>6. CASE Publish(c)
    <3>1. /\ call[c].at = "publish" /\ call'[c].at = "register"
          /\ call'[c].file = call[c].file
      BY <2>6, Moves DEF Stays
    <3>2. files' = files /\ engines' = engines \cup {call[c].file}
      BY <2>6 DEF Publish
    <3> QED BY <1>0, <3>1, <3>2 DEF TablesAgree, OwnCall
  <2>7. CASE Register(c)
    <3>1. call[c].at = "register"
          /\ call[c].file \in FileId /\ call[c].path # None
      BY <2>7, NoneAssumption DEF Register, At, Callers, Calling, Placed, Opening
    <3>2. files' = [files EXCEPT ![call[c].file] = call[c].path] /\ engines' = engines
      BY <2>7 DEF Register
    <3>3. call[c].file \in engines \/ \E d \in Client : call[d].op = "shutdown_all"
      BY <3>1 DEF Owns, OwnsOf, Sweeping
    <3>4. \A d \in Client : call'[d].op = call[d].op
      BY <1>0 DEF OwnCall
    <3> DEFINE Agrees(g) ==
                 \/ files[g] # None <=> g \in engines
                 \/ \E d \in Client :
                       \/ call[d].op = "shutdown_all"
                       \/ call[d].file = g /\ call[d].at \in {"register", "forget"}
    <3>5. ASSUME NEW g \in FileId PROVE Agrees(g)'
      <4>1. CASE g = call[c].file
        BY <3>1, <3>2, <3>3, <3>4, <4>1 DEF TypeOK
      <4>2. CASE g # call[c].file
        <5>1. Agrees(g) /\ files'[g] = files[g]
          BY <3>2, <3>5, <4>2 DEF TablesAgree, TypeOK
        <5>2. \A d \in Client : call[d].file = g => call'[d] = call[d]
          BY <1>0, <4>2 DEF OwnCall
        <5> QED BY <3>2, <3>4, <5>1, <5>2
      <4> QED BY <4>1, <4>2
    <3> QED BY <3>5 DEF TablesAgree
  <2>8. CASE OpenFails(c)
    <3>1. call[c].at \notin {"register", "forget"} /\ UNCHANGED <<files, engines>>
      BY <2>8 DEF OpenFails, At
    <3> QED BY <1>0, <3>1, TablesKeep
  <2> QED BY <1>1, <2>1, <2>2, <2>3, <2>4, <2>5, <2>6, <2>7, <2>8 DEF OpenStep
<1>2. CASE CloseStep(c)
  <2>1. CASE CloseFind(c)
    <3>1. call[c].at \notin {"register", "forget"} /\ UNCHANGED <<files, engines>>
      BY <2>1 DEF CloseFind, At
    <3> QED BY <1>0, <3>1, TablesKeep
  <2>2. CASE CloseUnknown(c)
    <3>1. call[c].at \notin {"register", "forget"} /\ UNCHANGED <<files, engines>>
      BY <2>2 DEF CloseUnknown, At
    <3> QED BY <1>0, <3>1, TablesKeep
  <2>3. CASE CloseGet(c)
    <3>1. call[c].at \notin {"register", "forget"} /\ UNCHANGED <<files, engines>>
      BY <2>3 DEF CloseGet, At
    <3> QED BY <1>0, <3>1, TablesKeep
  <2>4. CASE CloseSend(c)
    <3>1. call[c].at \notin {"register", "forget"} /\ UNCHANGED <<files, engines>>
      BY <2>4 DEF CloseSend, At
    <3> QED BY <1>0, <3>1, TablesKeep
  <2>5. CASE CloseDrop(c)
    <3>1. /\ call'[c].file = call[c].file /\ call'[c].op = call[c].op
          /\ call'[c].at = "forget" \/ call'[c].op = "shutdown_all"
      <4>1. call[c].op \in {"close", "shutdown_all"}
        BY <2>5 DEF CloseDrop, At, Callers, Calling
      <4> QED BY <1>0, <4>1, <2>5, Moves, GotoFlat DEF CloseDrop, Stays, OwnCall, TypeOK
    <3>2. files' = files /\ engines' = engines \ {call[c].file} /\ call[c].at = "drop"
      BY <2>5 DEF CloseDrop, At
    <3> QED BY <1>0, <3>1, <3>2 DEF TablesAgree, OwnCall
  <2>6. CASE CloseForget(c)
    <3>1. call[c].at = "forget" /\ call[c].file \in FileId
      BY <2>6 DEF CloseForget, At, Callers, Calling, Placed
    <3>2. files' = [files EXCEPT ![call[c].file] = None] /\ engines' = engines
      BY <2>6 DEF CloseForget
    <3>3. call[c].file \notin engines
      BY <3>1 DEF Owns, OwnsOf
    <3>4. \A d \in Client : call'[d].op = call[d].op
      BY <1>0 DEF OwnCall
    <3> DEFINE Agrees(g) ==
                 \/ files[g] # None <=> g \in engines
                 \/ \E d \in Client :
                       \/ call[d].op = "shutdown_all"
                       \/ call[d].file = g /\ call[d].at \in {"register", "forget"}
    <3>5. ASSUME NEW g \in FileId PROVE Agrees(g)'
      <4>1. CASE g = call[c].file
        BY <3>1, <3>2, <3>3, <3>4, <4>1 DEF TypeOK
      <4>2. CASE g # call[c].file
        <5>1. Agrees(g) /\ files'[g] = files[g]
          BY <3>2, <3>5, <4>2 DEF TablesAgree, TypeOK
        <5>2. \A d \in Client : call[d].file = g => call'[d] = call[d]
          BY <1>0, <4>2 DEF OwnCall
        <5> QED BY <3>2, <3>4, <5>1, <5>2
      <4> QED BY <4>1, <4>2
    <3> QED BY <3>5 DEF TablesAgree
  <2>7. CASE SweepList(c)
    <3>1. call[c].at \notin {"register", "forget"} /\ UNCHANGED <<files, engines>>
      BY <2>7 DEF SweepList, At
    <3> QED BY <1>0, <3>1, TablesKeep
  <2>8. CASE SweepNext(c)
    <3>1. call[c].at \notin {"register", "forget"} /\ UNCHANGED <<files, engines>>
      BY <2>8 DEF SweepNext, At
    <3> QED BY <1>0, <3>1, TablesKeep
  <2>9. CASE SweepClear(c)
    <3>1. call'[c].op = "shutdown_all"
      BY <1>0, <2>9 DEF SweepClear, At, Callers, Calling, OwnCall
    <3> QED BY <3>1 DEF TablesAgree
  <2> QED BY <1>2, <2>1, <2>2, <2>3, <2>4, <2>5, <2>6, <2>7, <2>8, <2>9 DEF CloseStep
<1>3. CASE CallStep(c)
  <2>1. CASE Lookup(c)
    <3>1. call[c].at \notin {"register", "forget"} /\ UNCHANGED <<files, engines>>
      BY <2>1 DEF Lookup, At
    <3> QED BY <1>0, <3>1, TablesKeep
  <2>2. CASE GetHandle(c)
    <3>1. call[c].at \notin {"register", "forget"} /\ UNCHANGED <<files, engines>>
      BY <2>2 DEF GetHandle, At
    <3> QED BY <1>0, <3>1, TablesKeep
  <2>3. CASE Deliver(c)
    <3>1. call[c].at \notin {"register", "forget"} /\ UNCHANGED <<files, engines>>
      BY <2>3 DEF Deliver, At
    <3> QED BY <1>0, <3>1, TablesKeep
  <2> QED BY <1>3, <2>1, <2>2, <2>3 DEF CallStep
<1> QED BY <1>1, <1>2, <1>3 DEF Work

\* The actors change neither table.
LEMMA TablesActor ==
  ASSUME TypeOK, TablesAgree, NEW f \in FileId, Answers(f)
  PROVE  TablesAgree'
<1>1. \A d \in Client : /\ call'[d].file = call[d].file /\ call'[d].op = call[d].op
                        /\ call[d].at \in {"register", "forget"} =>
                              call'[d].at = call[d].at
  BY DEF Answers
<1> QED BY <1>1 DEF TablesAgree, Answers

\* A call that begins was no excuse before.
LEMMA TablesBegin ==
  ASSUME TypeOK, TablesAgree, NEW c \in Client, Begin(c)
  PROVE  TablesAgree'
<1>1. /\ call[c].at = "idle" /\ call[c].op # "shutdown_all"
      /\ \A d \in Client \ {c} : call'[d] = call[d]
      /\ UNCHANGED <<files, engines>>
  BY BeginSays
<1> QED BY <1>1 DEF TablesAgree

-----------------------------------------------------------------------------
(***************************************************************************)
(* Who waits has one message, in the mailbox of an engine that is alive.   *)
(***************************************************************************)
LEMMA BoxesKeep ==
  ASSUME TypeOK, Callers, Boxes, NEW c \in Client, OwnCall(c),
         call'[c].at # "wait",
         \A f \in FileId : /\ actor'[f].box = actor[f].box
                           /\ Alive(f) => actor'[f].life \in {"running", "saving"}
  PROVE  Boxes'
<1>1. call[c].at # "wait"
  BY DEF OwnCall, At
<1>2. ASSUME NEW f \in FileId PROVE Mailed(f)'
  BY <1>1, <1>2 DEF Boxes, Mailed, OwnCall
<1>3. ASSUME NEW d \in Client PROVE Waits(d)'
  <2>1. CASE d = c
    BY <2>1 DEF Waits
  <2>2. CASE d # c
    <3>1. call'[d] = call[d] /\ Waits(d)
      BY <1>3, <2>2 DEF OwnCall, Boxes
    <3>2. call[d].at = "wait" => call[d].file \in FileId
      BY <1>3 DEF Callers, Calling, Placed
    <3>3. call[d].at = "wait" => /\ actor'[call[d].file].box = actor[call[d].file].box
                                 /\ actor'[call[d].file].life \in {"running", "saving"}
      BY <3>1, <3>2 DEF Waits, Alive
    <3> QED BY <3>1, <3>3 DEF Waits, Alive
  <2> QED BY <2>1, <2>2
<1> QED BY <1>2, <1>3 DEF Boxes

\* The same, for a step that changes no actor.
LEMMA BoxesSame ==
  ASSUME TypeOK, Callers, Boxes, NEW c \in Client, OwnCall(c),
         call'[c].at # "wait", UNCHANGED actor
  PROVE  Boxes'
<1>1. \A f \in FileId : /\ actor'[f].box = actor[f].box
                        /\ Alive(f) => actor'[f].life \in {"running", "saving"}
  BY DEF Alive
<1> QED BY <1>1, BoxesKeep

\* A message of nobody.
LEMMA MailKeeps ==
  ASSUME TypeOK, Callers, Boxes, NEW c \in Client, OwnCall(c), call'[c].at # "wait",
         NEW f \in FileId, NEW msg \in Message \cup {Poison}, Mail(f, msg),
         msg.from \notin Client
  PROVE  Boxes'
<1>1. call[c].at # "wait"
  BY DEF OwnCall, At
<1>2. \A g \in FileId : Alive(g) <=> Alive(g)'
  BY MailFlat DEF Alive
<1>3. \A g \in FileId \ {f} : actor'[g] = actor[g]
  BY MailFlat
<1>4. actor[f].box \in Seq(Message \cup {Poison})
  BY DEF TypeOK, Actors
<1>5. \/ actor'[f].box = actor[f].box
      \/ /\ Len(actor'[f].box) = Len(actor[f].box) + 1
         /\ \A i \in 1..Len(actor[f].box) : actor'[f].box[i] = actor[f].box[i]
         /\ actor'[f].box[Len(actor[f].box) + 1] = msg
  <2>1. \/ actor'[f].box = actor[f].box
        \/ actor'[f].box = Append(actor[f].box, msg)
    BY MailFlat
  <2> QED BY <1>4, <2>1, AppendProperties
<1>6. \A i \in 1..Len(actor'[f].box) :
         actor'[f].box[i].from \in Client =>
            i \in 1..Len(actor[f].box) /\ actor'[f].box[i] = actor[f].box[i]
  <2> DEFINE old == actor[f].box
             new == actor'[f].box
             n == Len(old)
  <2>1. n \in Nat
    BY <1>4
  <2>2. CASE new = old
    BY <2>2
  <2>3. CASE Len(new) = n + 1 /\ (\A i \in 1..n : new[i] = old[i]) /\ new[n + 1] = msg
    <3>1. ASSUME NEW i \in 1..Len(new), new[i].from \in Client
          PROVE  i \in 1..n /\ new[i] = old[i]
      <4> HIDE DEF new, old, n
      <4>1. i \in 1..n \/ i = n + 1
        BY <2>1, <2>3
      <4>2. i # n + 1
        BY <2>3, <3>1
      <4> QED BY <2>3, <4>1, <4>2
    <3> QED BY <3>1
  <2> QED BY <1>5, <2>2, <2>3
<1>7. \A i \in 1..Len(actor[f].box) :
         i \in 1..Len(actor'[f].box) /\ actor'[f].box[i] = actor[f].box[i]
  BY <1>4, <1>5
<1>8. ASSUME NEW g \in FileId PROVE Mailed(g)'
  <2>1. CASE g = f
    <3>1. Mailed(f) /\ \A d \in Client \ {c} : call'[d] = call[d]
      BY DEF Boxes, OwnCall
    <3>2. ASSUME NEW d \in Client, NEW i \in 1..Len(actor'[f].box),
                 actor'[f].box[i].from = d
          PROVE  /\ call'[d].at = "wait" /\ call'[d].file = f
                 /\ actor'[f].box[i].kind = call'[d].op
                 /\ \A j \in 1..Len(actor'[f].box) :
                       actor'[f].box[j].from = d => i = j
      <4>1. i \in 1..Len(actor[f].box) /\ actor'[f].box[i] = actor[f].box[i]
        BY <1>6, <3>2
      <4>2. d # c /\ call'[d] = call[d]
        BY <1>1, <3>1, <3>2, <4>1 DEF Mailed
      <4> QED BY SMTT(40), <1>6, <3>1, <3>2, <4>1, <4>2 DEF Mailed
    <3>3. Mailed(f)'
      BY <3>2 DEF Mailed
    <3> QED BY <2>1, <3>3
  <2>2. CASE g # f
    BY <1>1, <1>3, <1>8, <2>2 DEF Boxes, Mailed, OwnCall
  <2> QED BY <2>1, <2>2
<1>9. ASSUME NEW d \in Client \ {c} PROVE Waits(d)'
  <2>1. call'[d] = call[d] /\ Waits(d) /\ (call[d].at = "wait" => call[d].file \in FileId)
    BY <1>9 DEF OwnCall, Boxes, Callers, Calling, Placed
  <2>2. CASE call[d].file = f
    BY <1>2, <1>7, <2>1, <2>2 DEF Waits, Alive
  <2>3. CASE call[d].file # f
    BY <1>2, <1>3, <2>1, <2>3 DEF Waits, Alive
  <2> QED BY <2>2, <2>3
<1>10. Waits(c)'
  BY DEF Waits
<1> QED BY <1>8, <1>9, <1>10 DEF Boxes

\* A request: its caller waits from now on.
LEMMA Delivered ==
  ASSUME TypeOK, Callers, Boxes, NEW c \in Client, OwnCall(c), call'[c].at = "wait",
         NEW f \in FileId, Mail(f, [kind |-> call[c].op, from |-> c]), Alive(f),
         call'[c].file = f, call[c].op \in Asks
  PROVE  Boxes'
<1> DEFINE msg == [kind |-> call[c].op, from |-> c]
           n == Len(actor[f].box)
<1>1. call[c].at # "wait" /\ call'[c].op = call[c].op
  BY DEF OwnCall, At
<1>2. \A g \in FileId : Alive(g) <=> Alive(g)'
  BY MailFlat DEF Alive
<1>3. \A g \in FileId \ {f} : actor'[g] = actor[g]
  BY MailFlat
<1>4. actor[f].box \in Seq(Message \cup {Poison}) /\ n \in Nat
  BY DEF TypeOK, Actors
<1>5. /\ Len(actor'[f].box) = n + 1
      /\ \A i \in 1..n : actor'[f].box[i] = actor[f].box[i]
      /\ actor'[f].box[n + 1] = msg
  <2>1. actor'[f].box = Append(actor[f].box, msg)
    BY MailFlat
  <2>2. msg \in Message
    BY DEF Message, Asks
  <2> QED BY <1>4, <2>1, <2>2, AppendProperties
<1>6. \A g \in FileId : \A i \in 1..Len(actor[g].box) : actor[g].box[i].from # c
  BY <1>1 DEF Boxes, Mailed
<1>b. actor'[f].box[n + 1].from = c /\ actor'[f].box[n + 1].kind = call'[c].op
  BY <1>1, <1>5
<1>7. \A i \in 1..(n + 1) : \/ i \in 1..n
                            \/ i = n + 1 /\ actor'[f].box[i].from = c
                               /\ actor'[f].box[i].kind = call'[c].op
  BY <1>4, <1>b
<1>8. ASSUME NEW g \in FileId PROVE Mailed(g)'
  <2>1. CASE g = f
    <3>1. ASSUME NEW d \in Client, NEW i \in 1..(n + 1), actor'[f].box[i].from = d
          PROVE  /\ call'[d].at = "wait" /\ call'[d].file = f
                 /\ actor'[f].box[i].kind = call'[d].op
                 /\ \A j \in 1..(n + 1) : actor'[f].box[j].from = d => i = j
      <4>1. CASE d = c
        <5>1. \A j \in 1..(n + 1) : actor'[f].box[j].from = c => j = n + 1
          <6>1. \A j \in 1..n : actor'[f].box[j].from # c
            BY <1>5, <1>6
          <6> QED BY <1>7, <6>1
        <5> QED BY <1>b, <3>1, <4>1, <5>1
      <4>2. CASE d # c
        <5>1. \A j \in 1..(n + 1) : actor'[f].box[j].from = d =>
                 j \in 1..n /\ actor'[f].box[j] = actor[f].box[j]
          BY <1>5, <1>7, <4>2
        <5>2. call'[d] = call[d] /\ Mailed(f)
          BY <4>2 DEF OwnCall, Boxes
        <5>3. i \in 1..n /\ actor'[f].box[i] = actor[f].box[i] /\ actor[f].box[i].from = d
          BY <3>1, <5>1
        <5>4. /\ call[d].at = "wait" /\ call[d].file = f
              /\ actor[f].box[i].kind = call[d].op
          BY <5>2, <5>3 DEF Mailed
        <5>5. ASSUME NEW j \in 1..(n + 1), actor'[f].box[j].from = d PROVE i = j
          <6>1. j \in 1..n /\ actor[f].box[j].from = d
            BY <5>1, <5>5
          <6> QED BY <5>2, <5>3, <6>1 DEF Mailed
        <5> QED BY <5>2, <5>3, <5>4, <5>5
      <4> QED BY <4>1, <4>2
    <3> QED BY <1>5, <2>1, <3>1 DEF Mailed
  <2>2. CASE g # f
    <3>1. actor'[g] = actor[g] /\ Mailed(g)
      BY <1>3, <1>8, <2>2 DEF Boxes
    <3> QED BY <1>6, <1>8, <3>1 DEF Mailed, OwnCall
  <2> QED BY <2>1, <2>2
<1>9. ASSUME NEW d \in Client \ {c} PROVE Waits(d)'
  <2>1. call'[d] = call[d] /\ Waits(d) /\ (call[d].at = "wait" => call[d].file \in FileId)
    BY <1>9 DEF OwnCall, Boxes, Callers, Calling, Placed
  <2>2. CASE call[d].file = f
    <3>1. \A i \in 1..n : i \in 1..Len(actor'[f].box) /\ actor'[f].box[i] = actor[f].box[i]
      BY SMTT(40), <1>4, <1>5
    <3> QED BY SMTT(40), <1>2, <2>1, <2>2, <3>1 DEF Waits, Alive
  <2>3. CASE call[d].file # f
    BY <1>2, <1>3, <2>1, <2>3 DEF Waits, Alive
  <2> QED BY <2>2, <2>3
<1>10. Waits(c)'
  <2>1. n + 1 \in 1..Len(actor'[f].box) /\ actor'[f].box[n + 1].from = c
    BY <1>4, <1>5
  <2>2. actor'[f].life \in {"running", "saving"}
    BY MailFlat DEF Alive
  <2> QED BY <2>1, <2>2 DEF Waits, Alive
<1> QED BY <1>8, <1>9, <1>10 DEF Boxes

\* Each step of a caller keeps the mailboxes in order.
LEMMA BoxesWork ==
  ASSUME TypeOK, Callers, Homes, Owns, Boxes, NEW c \in Client, Work(c)
  PROVE  Boxes'
<1>0. OwnCall(c)
  BY OwnCallOnly DEF TypeOK
<1>1. CASE OpenStep(c)
  <2>1. CASE OpenFound(c)
    <3>1. call'[c].at # "wait" /\ UNCHANGED actor
      BY <2>1, Moves DEF OpenFound, Stays, TypeOK, Calls, At
    <3> QED BY <1>0, <3>1, BoxesSame
  <2>2. CASE OpenFresh(c)
    <3>1. call'[c].at # "wait"
      BY <2>2 DEF OpenFresh, TypeOK, Calls
    <3>2. \A f \in FileId : /\ actor'[f].box = actor[f].box
                            /\ Alive(f) => actor'[f].life \in {"running", "saving"}
      BY SMTT(40), <2>2 DEF OpenFresh, TypeOK, Actors, Alive
    <3> QED BY <1>0, <3>1, <3>2, BoxesKeep DEF Alive
  <2>3. CASE SeedCheck(c)
    <3>1. call'[c].at # "wait" /\ UNCHANGED actor
      BY ZenonT(60), <2>3, Moves DEF SeedCheck, Stays, TypeOK, Calls, At
    <3> QED BY <1>0, <3>1, BoxesSame
  <2>4. CASE Seed(c)
    <3>1. call'[c].at # "wait" /\ UNCHANGED actor
      BY <2>4, Moves DEF Seed, Stays, TypeOK, Calls, At
    <3> QED BY <1>0, <3>1, BoxesSame
  <2>5. CASE Load(c)
    <3>1. call'[c].at # "wait"
      BY <2>5, Moves DEF Stays
    <3>2. \A f \in FileId : /\ actor'[f].box = actor[f].box
                            /\ Alive(f) => actor'[f].life \in {"running", "saving"}
      BY <2>5 DEF Load, TypeOK, Actors, Alive
    <3> QED BY <1>0, <3>1, <3>2, BoxesKeep DEF Alive
  <2>6. CASE Publish(c)
    <3>1. call'[c].at # "wait"
      BY <2>6, Moves DEF Stays
    <3>2. \A f \in FileId : /\ actor'[f].box = actor[f].box
                            /\ Alive(f) => actor'[f].life \in {"running", "saving"}
      BY <2>6 DEF Publish, TypeOK, Actors, Alive
    <3> QED BY <1>0, <3>1, <3>2, BoxesKeep DEF Alive
  <2>7. CASE Register(c)
    <3>1. call'[c].at # "wait" /\ UNCHANGED actor
      BY <2>7, Moves DEF Register, Stays, TypeOK, Calls, At
    <3> QED BY <1>0, <3>1, BoxesSame
  <2>8. CASE OpenFails(c)
    <3>1. call'[c].at # "wait"
      BY <2>8, ReturnFlat DEF OpenFails, TypeOK
    <3>2. ASSUME NEW f \in FileId
          PROVE  /\ actor'[f].box = actor[f].box
                 /\ Alive(f) => actor'[f].life \in {"running", "saving"}
      <4>1. CASE call[c].at # "open" /\ f = call[c].file
        <5>1. actor[f].life = "drawn"
          BY <4>1, <2>8 DEF OpenFails, Owns, OwnsOf, Opening
        <5> QED BY <4>1, <5>1, <2>8 DEF OpenFails, TypeOK, Actors, Alive
      <4>2. CASE ~(call[c].at # "open" /\ f = call[c].file)
        BY <4>2, <2>8 DEF OpenFails, Alive
      <4> QED BY <4>1, <4>2
    <3> QED BY <1>0, <3>1, <3>2, BoxesKeep DEF Alive
  <2> QED BY <1>1, <2>1, <2>2, <2>3, <2>4, <2>5, <2>6, <2>7, <2>8 DEF OpenStep
<1>2. CASE CloseStep(c)
  <2>1. CASE CloseFind(c)
    <3>1. call'[c].at # "wait" /\ UNCHANGED actor
      BY <2>1, Moves DEF CloseFind, Stays, TypeOK, Calls, At
    <3> QED BY <1>0, <3>1, BoxesSame
  <2>2. CASE CloseUnknown(c)
    <3>1. call'[c].at # "wait" /\ UNCHANGED actor
      BY <2>2, Moves DEF CloseUnknown, Stays, TypeOK, Calls, At
    <3> QED BY <1>0, <3>1, BoxesSame
  <2>3. CASE CloseGet(c)
    <3>1. call'[c].at # "wait" /\ UNCHANGED actor
      BY <2>3, Moves DEF CloseGet, Stays, TypeOK, Calls, At
    <3> QED BY <1>0, <3>1, BoxesSame
  <2>4. CASE CloseSend(c)
    <3>1. call[c].file \in FileId
      BY <2>4 DEF CloseSend, Callers, Calling, At, Placed
    <3>2. Mail(call[c].file, Poison) /\ call'[c].at # "wait" /\ None \notin Client
          /\ Poison.from = None
      BY <2>4, Moves, NoneAssumption DEF CloseSend, Stays, Poison
    <3> QED BY <1>0, <3>1, <3>2, MailKeeps
  <2>5. CASE CloseDrop(c)
    <3>1. call'[c].at # "wait" /\ UNCHANGED actor
      BY <2>5, Moves DEF CloseDrop, Stays, TypeOK, Calls, At
    <3> QED BY <1>0, <3>1, BoxesSame
  <2>6. CASE CloseForget(c)
    <3>1. call'[c].at # "wait" /\ UNCHANGED actor
      BY <2>6, Moves DEF CloseForget, Stays, TypeOK, Calls, At
    <3> QED BY <1>0, <3>1, BoxesSame
  <2>7. CASE SweepList(c)
    <3>1. call'[c].at # "wait" /\ UNCHANGED actor
      BY <2>7, Moves DEF SweepList, Stays, TypeOK, Calls, At
    <3> QED BY <1>0, <3>1, BoxesSame
  <2>8. CASE SweepNext(c)
    <3>1. call'[c].at # "wait" /\ UNCHANGED actor
      BY <2>8, Moves DEF SweepNext, Stays, TypeOK, Calls, At
    <3> QED BY <1>0, <3>1, BoxesSame
  <2>9. CASE SweepClear(c)
    <3>1. call'[c].at # "wait" /\ UNCHANGED actor
      BY <2>9, Moves DEF SweepClear, Stays, TypeOK, Calls, At
    <3> QED BY <1>0, <3>1, BoxesSame
  <2> QED BY <1>2, <2>1, <2>2, <2>3, <2>4, <2>5, <2>6, <2>7, <2>8, <2>9 DEF CloseStep
<1>3. CASE CallStep(c)
  <2>1. CASE Lookup(c)
    <3>1. call'[c].at # "wait" /\ UNCHANGED actor
      <4>1. CASE OpenAs(call[c].path) = {}
        BY <2>1, <4>1, ReturnFlat DEF Lookup, TypeOK
      <4>2. CASE OpenAs(call[c].path) # {}
        BY <2>1, <4>2 DEF Lookup, TypeOK, Calls
      <4> QED BY <4>1, <4>2
    <3> QED BY <1>0, <3>1, BoxesSame
  <2>2. CASE GetHandle(c)
    <3>1. call'[c].at # "wait" /\ UNCHANGED actor
      BY <2>2, Moves DEF GetHandle, Stays, TypeOK, Calls, At
    <3> QED BY <1>0, <3>1, BoxesSame
  <2>3. CASE Deliver(c)
    <3>1. call[c].file \in FileId
      BY <2>3 DEF Deliver, Callers, Calling, At, Placed
    <3> DEFINE msg == [kind |-> call[c].op, from |-> c]
    <3>2. Mail(call[c].file, msg) /\ call[c].op \in Asks
      BY <2>3 DEF Deliver, Callers, Calling, At
    <3>3. CASE Alive(call[c].file)
      <4>1. call'[c].at = "wait" /\ call'[c].file = call[c].file
        BY <2>3, <3>3, GotoFlat DEF Deliver, TypeOK
      <4> QED BY <1>0, <3>1, <3>2, <3>3, <4>1, Delivered
    <3>4. CASE ~Alive(call[c].file)
      <4>1. call'[c].at # "wait" /\ UNCHANGED actor
        BY <2>3, <3>4, ReturnFlat DEF Deliver, Mail, TypeOK
      <4> QED BY <1>0, <4>1, BoxesSame
    <3> QED BY <3>3, <3>4
  <2> QED BY <1>3, <2>1, <2>2, <2>3 DEF CallStep
<1> QED BY <1>1, <1>2, <1>3 DEF Work

\* The first message of a mailbox is taken out: its sender waits no more.
LEMMA BoxesTaken ==
  ASSUME TypeOK, Callers, Boxes, NEW f \in FileId, NEW kind, Receives(f, kind),
         actor'[f].box = Tail(actor[f].box),
         actor'[f].life \in {"running", "saving"},
         \A g \in FileId \ {f} : actor'[g] = actor[g],
         \A d \in Client \ {Sender(f)} : call'[d] = call[d],
         Sender(f) \in Client => call'[Sender(f)].at # "wait"
  PROVE  Boxes'
<1> DEFINE old == actor[f].box
           new == actor'[f].box
<1>1. old \in Seq(Message \cup {Poison}) /\ old # <<>> /\ Len(old) \in Nat
      /\ Sender(f) = old[1].from
  BY DEF TypeOK, Actors, Receives, Sender
<1>2. /\ Len(new) = Len(old) - 1
      /\ \A i \in 1..Len(new) : new[i] = old[i + 1]
  BY <1>1, HeadTailProperties
<1>3. \A i \in 1..Len(new) : i + 1 \in 1..Len(old) /\ new[i] = old[i + 1]
  BY <1>1, <1>2
<1>4. \A i \in 1..Len(old) : \/ i = 1
                             \/ i - 1 \in 1..Len(new) /\ new[i - 1] = old[i]
  BY <1>1, <1>2
<1>5. 1 \in 1..Len(old)
  BY <1>1
<1>6. Mailed(f)
  BY DEF Boxes
<1>7. \A i \in 1..Len(new) : new[i].from # Sender(f) \/ Sender(f) \notin Client
  <2>1. ASSUME NEW i \in 1..Len(new), new[i].from = Sender(f), Sender(f) \in Client
        PROVE  FALSE
    <3>1. i + 1 \in 1..Len(old) /\ old[i + 1].from = Sender(f)
      BY <1>3, <2>1
    <3>2. 1 = i + 1
      BY <1>1, <1>5, <1>6, <2>1, <3>1 DEF Mailed
    <3> QED BY <3>2
  <2> QED BY <2>1
<1>8. ASSUME NEW g \in FileId PROVE Mailed(g)'
  <2>1. CASE g = f
    <3>1. ASSUME NEW d \in Client, NEW i \in 1..Len(new), new[i].from = d
          PROVE  /\ call'[d].at = "wait" /\ call'[d].file = f
                 /\ new[i].kind = call'[d].op
                 /\ \A j \in 1..Len(new) : new[j].from = d => i = j
      <4>1. call'[d] = call[d]
        BY <1>7, <3>1
      <4>2. i + 1 \in 1..Len(old) /\ old[i + 1].from = d /\ old[i + 1].kind = new[i].kind
        BY <1>3, <3>1
      <4>3. /\ call[d].at = "wait" /\ call[d].file = f /\ old[i + 1].kind = call[d].op
            /\ \A j \in 1..Len(old) : old[j].from = d => i + 1 = j
        BY <1>6, <3>1, <4>2 DEF Mailed
      <4>4. ASSUME NEW j \in 1..Len(new), new[j].from = d PROVE i = j
        <5>1. j + 1 \in 1..Len(old) /\ old[j + 1].from = d
          BY <1>3, <4>4
        <5>2. i + 1 = j + 1
          BY <4>3, <5>1
        <5> QED BY <5>2
      <4> QED BY <4>1, <4>2, <4>3, <4>4
    <3>2. Mailed(f)'
      BY <3>1 DEF Mailed
    <3> QED BY <2>1, <3>2
  <2>2. CASE g # f
    <3>1. actor'[g] = actor[g] /\ Mailed(g)
      BY <1>8, <2>2 DEF Boxes
    <3>2. \A i \in 1..Len(actor[g].box) : actor[g].box[i].from = Sender(f) =>
             Sender(f) \notin Client
      <4>1. Sender(f) \in Client => call[Sender(f)].file = f
        BY <1>1, <1>5, <1>6 DEF Mailed
      <4> QED BY <2>2, <3>1, <4>1 DEF Mailed
    <3> QED BY <3>1, <3>2 DEF Mailed
  <2> QED BY <2>1, <2>2
<1>9. ASSUME NEW d \in Client PROVE Waits(d)'
  <2>1. CASE d = Sender(f)
    BY <2>1, <1>9 DEF Waits
  <2>2. CASE d # Sender(f)
    <3>1. call'[d] = call[d] /\ Waits(d) /\ (call[d].at = "wait" => call[d].file \in FileId)
      BY <1>9, <2>2 DEF Boxes, Callers, Calling, Placed
    <3>2. CASE call[d].file = f
      <4>1. SUFFICES ASSUME call[d].at = "wait"
                     PROVE  \E i \in 1..Len(new) : new[i].from = d
        BY <3>1, <3>2 DEF Waits, Alive
      <4>2. PICK i \in 1..Len(old) : old[i].from = d
        BY <3>1, <3>2, <4>1 DEF Waits
      <4>3. i # 1
        BY <1>1, <2>2, <4>2
      <4> QED BY <1>4, <4>2, <4>3
    <3>3. CASE call[d].file # f
      BY <3>1, <3>3 DEF Waits, Alive
    <3> QED BY <3>2, <3>3
  <2> QED BY <2>1, <2>2
<1> QED BY <1>8, <1>9 DEF Boxes

\* An answer to the sender.
LEMMA BoxesAnswered ==
  ASSUME TypeOK, Callers, Homes, Boxes, NEW f \in FileId, NEW kind \in Asks, NEW a,
         Receives(f, kind), Return(Sender(f), a), Answers(f),
         actor'[f].box = Tail(actor[f].box), actor'[f].life = actor[f].life
  PROVE  Boxes'
<1>1. Sender(f) \in Client
  BY Asked
<1>2. /\ call'[Sender(f)].at = "idle"
      /\ \A d \in Client \ {Sender(f)} : call'[d] = call[d]
  BY <1>1, ReturnFlat DEF TypeOK
<1>3. actor'[f].life \in {"running", "saving"}
      /\ \A g \in FileId \ {f} : actor'[g] = actor[g]
  BY DEF Answers
<1> QED BY <1>1, <1>2, <1>3, BoxesTaken

\* Each step of an actor keeps the mailboxes in order.
LEMMA BoxesActor ==
  ASSUME TypeOK, Callers, Homes, Boxes, NEW f \in FileId, ActorStep(f)
  PROVE  Boxes'
<1>0. Answers(f)
  BY ActorAnswers
<1>1. CASE Commit(f)
  <2>1. Receives(f, "send") /\ Return(Sender(f), Said("done"))
        /\ actor'[f].box = Tail(actor[f].box) /\ actor'[f].life = actor[f].life
    BY <1>1 DEF Commit, TypeOK, Actors
  <2> QED BY <1>0, <2>1, BoxesAnswered DEF Asks
<1>2. CASE Refuse(f)
  <2>1. Receives(f, "send") /\ Return(Sender(f), Said("refused"))
        /\ actor'[f].box = Tail(actor[f].box) /\ actor'[f].life = actor[f].life
    BY <1>2 DEF Refuse, TypeOK, Actors
  <2> QED BY <1>0, <2>1, BoxesAnswered DEF Asks
<1>3. CASE Read(f)
  <2>1. Receives(f, "read")
        /\ Return(Sender(f), [kind |-> "log", log |-> actor[f].seen])
        /\ actor'[f].box = Tail(actor[f].box) /\ actor'[f].life = actor[f].life
    BY <1>3 DEF Read, TypeOK, Actors
  <2> QED BY <1>0, <2>1, BoxesAnswered DEF Asks
<1>4. CASE History(f)
  <2>1. Receives(f, "history")
        /\ Return(Sender(f), [kind |-> "log", log |-> store[actor[f].home]])
        /\ actor'[f].box = Tail(actor[f].box) /\ actor'[f].life = actor[f].life
    BY <1>4 DEF History, TypeOK, Actors
  <2> QED BY <1>0, <2>1, BoxesAnswered DEF Asks
<1>5. CASE TakeShutdown(f)
  <2>1. Receives(f, "shutdown") /\ call' = call
        /\ actor'[f].box = Tail(actor[f].box) /\ actor'[f].life = "saving"
    BY <1>5 DEF TakeShutdown, TypeOK, Actors
  <2>2. Sender(f) \notin Client
    <3>1. actor[f].box \in Seq(Message \cup {Poison}) /\ actor[f].box # <<>>
          /\ Head(actor[f].box).kind = "shutdown"
      BY <2>1 DEF TypeOK, Actors, Receives
    <3>2. Head(actor[f].box) \in Message \cup {Poison}
      BY <3>1, HeadTailProperties
    <3>3. Head(actor[f].box) = Poison
      BY <3>1, <3>2 DEF Message
    <3> QED BY <3>3, NoneAssumption DEF Sender, Poison
  <2>3. \A g \in FileId \ {f} : actor'[g] = actor[g]
    BY <1>0 DEF Answers
  <2> QED BY <2>1, <2>2, <2>3, BoxesTaken
<1>6. CASE Stop(f) \/ Abandoned(f)
  <2>1. Hangup(f)
    BY <1>6 DEF Stop, Abandoned
  <2>2. actor'[f].box = <<>> /\ \A g \in FileId \ {f} : actor'[g] = actor[g]
    BY <2>1 DEF Hangup, TypeOK, Actors
  <2>3. \A d \in Client : IF call[d].at = "wait" /\ call[d].file = f
                          THEN call'[d].at = "idle" ELSE call'[d] = call[d]
    BY <2>1 DEF Hangup, TypeOK, Calls, At
  <2>4. ASSUME NEW g \in FileId PROVE Mailed(g)'
    <3>1. CASE g = f
      <4>1. Len(actor'[f].box) = 0
        BY <2>2
      <4> QED BY <3>1, <4>1 DEF Mailed
    <3>2. CASE g # f
      <4>1. actor'[g] = actor[g] /\ Mailed(g)
        BY <2>2, <2>4, <3>2 DEF Boxes
      <4> QED BY <2>3, <3>2, <4>1 DEF Mailed
    <3> QED BY <3>1, <3>2
  <2>5. ASSUME NEW d \in Client PROVE Waits(d)'
    <3>1. Waits(d) /\ (call[d].at = "wait" => call[d].file \in FileId)
      BY <2>5 DEF Boxes, Callers, Calling, Placed
    <3> QED BY <2>2, <2>3, <3>1 DEF Waits, Alive
  <2> QED BY <2>4, <2>5 DEF Boxes
<1> QED BY <1>1, <1>2, <1>3, <1>4, <1>5, <1>6 DEF ActorStep

\* Who begins a call has no message anywhere.
LEMMA BoxesBegin ==
  ASSUME TypeOK, Boxes, NEW c \in Client, Begin(c)
  PROVE  Boxes'
<1>1. /\ call[c].at = "idle" /\ UNCHANGED actor
      /\ \A d \in Client \ {c} : call'[d] = call[d]
  BY BeginSays
<1>2. call'[c].at # "wait"
  <2>1. Calling(c)' /\ call'[c].file = None
    BY TypedBegin, BeginSays
  <2> QED BY <2>1, NoneAssumption DEF Calling, Placed
<1>3. ASSUME NEW f \in FileId PROVE Mailed(f)'
  BY <1>1, <1>3 DEF Boxes, Mailed
<1>4. ASSUME NEW d \in Client PROVE Waits(d)'
  BY <1>1, <1>2, <1>4 DEF Boxes, Waits, Alive
<1> QED BY <1>3, <1>4 DEF Boxes

-----------------------------------------------------------------------------
(***************************************************************************)
(* The invariant.                                                          *)
(***************************************************************************)
IInv == TypeOK /\ Callers /\ Homes /\ Owns /\ Boxes /\ TablesAgree

\* It holds at the start.
LEMMA InitIInv == Init => IInv
<1> SUFFICES ASSUME Init PROVE IInv
  OBVIOUS
<1>1. \A c \in Client : call[c] = NoCall /\ call[c].at = "idle" /\ call[c].file = None
                        /\ call[c].left = {} /\ call[c].op = None
  BY DEF Init, NoCall
<1>2. \A f \in FileId : /\ actor[f].life = "unborn" /\ actor[f].home = None
                        /\ actor[f].box = <<>> /\ actor[f].seen = <<>>
                        /\ files[f] = None /\ f \notin engines
  BY DEF Init
<1>3. TypeOK
  <2>1. call \in [Client -> Calls]
    BY AnswersTyped DEF Init
  <2>2. [life |-> "unborn", home |-> None, seen |-> <<>>, box |-> <<>>] \in Actors
    BY DEF Actors, Life
  <2> QED BY <2>1, <2>2, MaxCallsAssumption DEF Init, TypeOK
<1>4. Callers
  BY <1>1 DEF Callers, Calling, Opening, Placed
<1>5. Homes
  <2>1. \A f \in FileId : HomeOf(f)
    BY <1>2 DEF HomeOf, Born, Alive
  <2>2. \A c \in Client : CallHome(c)
    BY <1>1 DEF CallHome, Placed, Opening
  <2> QED BY <2>1, <2>2 DEF Homes
<1>6. Owns
  BY <1>1 DEF Owns, OwnsOf, Opening
<1>7. Boxes
  <2>1. \A f \in FileId : Len(actor[f].box) = 0
    BY <1>2
  <2> QED BY <1>1, <2>1 DEF Boxes, Mailed, Waits
<1>8. TablesAgree
  BY <1>2 DEF TablesAgree
<1> QED BY <1>3, <1>4, <1>5, <1>6, <1>7, <1>8 DEF IInv

\* Every step keeps it.
LEMMA StepIInv == IInv /\ [Next]_vars => IInv'
<1> SUFFICES ASSUME IInv, [Next]_vars PROVE IInv'
  OBVIOUS
<1> USE DEF IInv
<1>1. ASSUME NEW c \in Client, Begin(c) PROVE IInv'
  <2>1. TypeOK' /\ Calling(c)'
    BY <1>1, TypedBegin
  <2>2. Callers'
    <3>1. \A d \in Client \ {c} : call'[d] = call[d]
      BY <1>1, BeginSays
    <3> QED BY <2>1, <3>1 DEF Callers, Calling
  <2> QED BY <1>1, <2>1, <2>2, HomesBegin, OwnsBegin, BoxesBegin, TablesBegin
<1>2. ASSUME NEW c \in Client, Work(c) PROVE IInv'
  BY <1>2, TypedWork, CallersStep, HomesWork, OwnsWork, BoxesWork, TablesWork
<1>3. ASSUME NEW f \in FileId, ActorStep(f) PROVE IInv'
  <2>1. Answers(f)
    BY <1>3, ActorAnswers
  <2> QED BY <1>3, <2>1, TypedActor, CallersActor, HomesActor, OwnsActor, BoxesActor,
             TablesActor
<1>4. CASE UNCHANGED vars
  BY <1>4 DEF vars, TypeOK, CallsTyped, Callers, Calling, Homes, HomeOf, CallHome, Owns,
              OwnsOf, Alone, Sweeping, Boxes, Mailed, Waits, Alive, Born, Published,
              TablesAgree
<1> QED BY <1>1, <1>2, <1>3, <1>4 DEF Next

(* The types, the stages of the calls, the homes of the actors, who opens  *)
(* what, the mailboxes and the tables: the invariant the rest is from.     *)
THEOREM RuntimeInvariant == Spec => []IInv
<1>1. Init => IInv
  BY InitIInv
<1>2. IInv /\ [Next]_vars => IInv'
  BY StepIInv
<1> QED BY <1>1, <1>2, PTL DEF Spec

(* In every state the engines, the tables and the calls have their types.  *)
THEOREM RuntimeTyped == Spec => []TypeOK
<1>1. IInv => TypeOK
  BY DEF IInv
<1> QED BY <1>1, RuntimeInvariant, PTL

(* The tables of open files and of engines agree but for calls in progress. *)
THEOREM TablesAlwaysAgree == Spec => []TablesAgree
<1>1. IInv => TablesAgree
  BY DEF IInv
<1> QED BY <1>1, RuntimeInvariant, PTL

\* Exactly one message of a client that waits.
LEMMA HeardOnce ==
  ASSUME IInv
  PROVE  WaitersAreHeard
<1>1. ASSUME NEW c \in Client, At(c, "wait")
      PROVE  LET f == call[c].file
             IN  /\ Alive(f)
                 /\ Cardinality({i \in 1..Len(actor[f].box) :
                                   actor[f].box[i].from = c}) = 1
  <2> DEFINE f == call[c].file
             mine == {i \in 1..Len(actor[f].box) : actor[f].box[i].from = c}
  <2>1. f \in FileId /\ Alive(f)
    BY <1>1 DEF IInv, Callers, Calling, Placed, Boxes, Waits, At
  <2>2. PICK i \in mine : TRUE
    BY <1>1 DEF IInv, Boxes, Waits, At
  <2>3. \A j \in mine : i = j
    BY <2>1, <2>2 DEF IInv, Boxes, Mailed
  <2>4. mine = {i}
    BY <2>2, <2>3
  <2> QED BY <2>1, <2>4, FS_Singleton
<1> QED BY <1>1 DEF WaitersAreHeard

(* Whoever waits for an answer has exactly one message in the mailbox of   *)
(* an engine that still works through it.                                  *)
THEOREM WaitersAlwaysHeard == Spec => []WaitersAreHeard
<1>1. IInv => WaitersAreHeard
  BY HeardOnce
<1> QED BY <1>1, RuntimeInvariant, PTL

-----------------------------------------------------------------------------
(***************************************************************************)
(* What a client hears of its command.                                     *)
(***************************************************************************)
\* An entry more in a store.
LEMMA StoredMore ==
  ASSUME NEW s \in Seq(Entry), NEW x \in Entry, NEW e
  PROVE  LET t == Append(s, x)
             before == {i \in 1..Len(s) : s[i] = e}
             after  == {i \in 1..Len(t) : t[i] = e}
         IN  after = IF x = e THEN before \cup {Len(s) + 1} ELSE before
<1> DEFINE t == Append(s, x)
<1>1. /\ Len(s) \in Nat /\ Len(t) = Len(s) + 1
      /\ \A i \in 1..Len(s) : t[i] = s[i]
      /\ t[Len(s) + 1] = x
  BY AppendProperties
<1>2. 1..Len(t) = 1..Len(s) \cup {Len(s) + 1} /\ Len(s) + 1 \notin 1..Len(s)
  BY <1>1
<1> QED BY <1>1, <1>2

\* The calls of the callers add rows of the seed and nothing else.
LEMMA StoreWork ==
  ASSUME TypeOK, Callers, NEW c \in Client, Work(c), NEW p \in Path
  PROVE  \/ store'[p] = store[p]
         \/ /\ call[c].at = "seed" /\ p = call[c].path
            /\ SeedRow(p, call[c].row) \in Entry
            /\ store'[p] = Append(store[p], SeedRow(p, call[c].row))
<1>1. CASE OpenStep(c)
  <2>1. CASE OpenFound(c)
    BY <2>1 DEF OpenFound
  <2>2. CASE OpenFresh(c)
    BY <2>2 DEF OpenFresh
  <2>3. CASE SeedCheck(c)
    BY <2>3 DEF SeedCheck
  <2>4. CASE Seed(c)
    <3>1. call[c].path \in Path /\ call[c].row \in 1..SeedRows /\ call[c].at = "seed"
      BY <2>4 DEF Seed, Callers, Calling, At
    <3>2. SeedRow(call[c].path, call[c].row) \in Entry
      BY <3>1, SeedRowsAssumption, MaxCallsAssumption DEF SeedRow, Entry
    <3> QED BY <2>4, <3>1, <3>2 DEF Seed, TypeOK
  <2>5. CASE Load(c)
    BY <2>5 DEF Load
  <2>6. CASE Publish(c)
    BY <2>6 DEF Publish
  <2>7. CASE Register(c)
    BY <2>7 DEF Register
  <2>8. CASE OpenFails(c)
    BY <2>8 DEF OpenFails
  <2> QED BY <1>1, <2>1, <2>2, <2>3, <2>4, <2>5, <2>6, <2>7, <2>8 DEF OpenStep
<1>2. CASE CloseStep(c)
  <2>1. CASE CloseFind(c)
    BY <2>1 DEF CloseFind
  <2>2. CASE CloseUnknown(c)
    BY <2>2 DEF CloseUnknown
  <2>3. CASE CloseGet(c)
    BY <2>3 DEF CloseGet
  <2>4. CASE CloseSend(c)
    BY <2>4 DEF CloseSend
  <2>5. CASE CloseDrop(c)
    BY <2>5 DEF CloseDrop
  <2>6. CASE CloseForget(c)
    BY <2>6 DEF CloseForget
  <2>7. CASE SweepList(c)
    BY <2>7 DEF SweepList
  <2>8. CASE SweepNext(c)
    BY <2>8 DEF SweepNext
  <2>9. CASE SweepClear(c)
    BY <2>9 DEF SweepClear
  <2> QED BY <1>2, <2>1, <2>2, <2>3, <2>4, <2>5, <2>6, <2>7, <2>8, <2>9 DEF CloseStep
<1>3. CASE CallStep(c)
  <2>1. CASE Lookup(c)
    BY <2>1 DEF Lookup
  <2>2. CASE GetHandle(c)
    BY <2>2 DEF GetHandle
  <2>3. CASE Deliver(c)
    BY SMTT(40), <2>3 DEF Deliver
  <2> QED BY <1>3, <2>1, <2>2, <2>3 DEF CallStep
<1> QED BY <1>1, <1>2, <1>3 DEF Work

\* Only a commit changes a store, the one of its engine.
LEMMA StoreActor ==
  ASSUME NEW f \in FileId, ActorStep(f)
  PROVE  store' = store \/ Commit(f)
BY DEF ActorStep, Refuse, Read, History, TakeShutdown, Stop, Abandoned, Hangup

\* What a commit does.
LEMMA Committed ==
  ASSUME IInv, NEW f \in FileId, Commit(f)
  PROVE  LET c == Sender(f)
             p == actor[f].home
         IN  /\ c \in Client /\ p \in Path /\ p = call[c].path /\ Tag(c) \in Entry
             /\ call[c].op = "send" /\ call[c].at = "wait"
             /\ store'[p] = Append(store[p], Tag(c))
             /\ \A q \in Path \ {p} : store'[q] = store[q]
             /\ actor'[f].seen = Append(actor[f].seen, Tag(c))
             /\ call'[c].at = "idle" /\ call'[c].op = "send" /\ call'[c].path = p
             /\ call'[c].answer = Said("done")
             /\ \A d \in Client \ {c} : call'[d] = call[d]
<1>1. /\ Receives(f, "send") /\ "send" \in Asks
      /\ store' = [store EXCEPT ![actor[f].home] = Append(@, Tag(Sender(f)))]
      /\ actor' = [actor EXCEPT ![f].box = Tail(@),
                                ![f].seen = Append(@, Tag(Sender(f)))]
      /\ Return(Sender(f), Said("done"))
  BY DEF Commit, Asks
<1>2. /\ Sender(f) \in Client /\ call[Sender(f)].at = "wait"
      /\ call[Sender(f)].op = "send" /\ call[Sender(f)].path \in Path
      /\ actor[f].home = call[Sender(f)].path
  BY <1>1, Asked DEF IInv, At
<1>3. Tag(Sender(f)) \in Entry
  BY <1>2, Tagged DEF IInv
<1>4. actor'[f].seen = Append(actor[f].seen, Tag(Sender(f)))
  BY <1>1 DEF IInv, TypeOK, Actors
<1>5. /\ store'[actor[f].home] = Append(store[actor[f].home], Tag(Sender(f)))
      /\ \A q \in Path \ {actor[f].home} : store'[q] = store[q]
  BY <1>1, <1>2 DEF IInv, TypeOK
<1>6. /\ call'[Sender(f)].at = "idle" /\ call'[Sender(f)].op = call[Sender(f)].op
      /\ call'[Sender(f)].path = call[Sender(f)].path
      /\ call'[Sender(f)].answer = Said("done")
      /\ \A d \in Client \ {Sender(f)} : call'[d] = call[d]
  BY <1>1, <1>2, ReturnFlat DEF IInv, TypeOK
<1> QED BY <1>2, <1>3, <1>4, <1>5, <1>6

Heard(c) ==
    call[c].op = "send" /\ call[c].at = "idle" =>
        IF call[c].answer.kind = "done"
        THEN Cardinality(Stored(call[c].path, Tag(c))) = 1
        ELSE Stored(call[c].path, Tag(c)) = {}

\* The steps of the callers: a command that ends here ends badly.
LEMMA EndsBadly ==
  ASSUME TypeOK, Callers, NEW c \in Client, Work(c), call[c].op = "send",
         call'[c].at = "idle"
  PROVE  call'[c].answer.kind \in {"failed", "closed"}
<1>1. call[c].at \in {"lookup", "handle", "deliver"}
  <2>1. OwnCall(c)
    BY OwnCallOnly DEF TypeOK
  <2> QED BY <2>1 DEF Callers, Calling, OwnCall, At, Opening, TypeOK, Calls, Stage
<1>2. CASE OpenStep(c)
  BY <1>1, <1>2 DEF OpenStep, OpenFound, OpenFresh, SeedCheck, Seed, Load, Publish,
                    Register, OpenFails, At
<1>3. CASE CloseStep(c)
  BY <1>1, <1>3 DEF CloseStep, CloseFind, CloseUnknown, CloseGet, CloseSend, CloseDrop,
                    CloseForget, SweepList, SweepNext, SweepClear, At
<1>4. CASE CallStep(c)
  <2>1. CASE Goto(c, "deliver") \/ Goto(c, "wait")
    BY <2>1, GotoFlat DEF TypeOK
  <2>2. CASE Return(c, Said("failed")) \/ Return(c, Said("closed"))
    BY <2>2, ReturnFlat DEF TypeOK, Said
  <2>3. CASE \E f \in FileId : call' = [call EXCEPT ![c].at = "handle", ![c].file = f]
    BY <2>3 DEF TypeOK, Calls
  <2> QED BY <1>4, <2>1, <2>2, <2>3 DEF CallStep, Lookup, GetHandle, Deliver, OpenAs
<1> QED BY <1>2, <1>3, <1>4 DEF Work

\* The steps of the callers keep what is stored and what was heard.
LEMMA HeardWork ==
  ASSUME IInv, Dated, ToldTrue, NEW c \in Client, Work(c)
  PROVE  Dated' /\ ToldTrue'
<1>0. OwnCall(c)
  BY OwnCallOnly DEF IInv, TypeOK
<1>1. \A p \in Path : \/ store'[p] = store[p]
                      \/ /\ SeedRow(p, call[c].row) \in Entry
                         /\ store'[p] = Append(store[p], SeedRow(p, call[c].row))
  BY StoreWork DEF IInv
<1>2. ASSUME NEW p \in Path, NEW i \in 1..Len(store'[p]), NEW d \in Client,
             store'[p][i].by = d
      PROVE  store'[p][i].n <= made'[d]
  <2>1. CASE store'[p] = store[p]
    BY <1>0, <1>2, <2>1 DEF Dated, OwnCall
  <2>2. CASE /\ SeedRow(p, call[c].row) \in Entry
             /\ store'[p] = Append(store[p], SeedRow(p, call[c].row))
    <3>1. store[p] \in Seq(Entry)
      BY DEF IInv, TypeOK
    <3>2. SeedRow(p, call[c].row).by = None
      BY DEF SeedRow
    <3>3. i \in 1..Len(store[p]) /\ store'[p][i] = store[p][i]
      BY <1>2, <2>2, <3>1, <3>2, AppendProperties, NoneAssumption
    <3> QED BY <1>0, <1>2, <3>3 DEF Dated, OwnCall
  <2> QED BY <1>1, <2>1, <2>2
<1>3. \A d \in Client : Tag(d)' = Tag(d) /\ call'[d].op = call[d].op
                        /\ call'[d].path = call[d].path
  BY <1>0 DEF Tag, OwnCall
<1>4. ASSUME NEW d \in Client, NEW p \in Path
      PROVE  Stored(p, Tag(d))' = Stored(p, Tag(d))
  <2>1. CASE store'[p] = store[p]
    BY <1>3, <2>1 DEF Stored
  <2>2. CASE /\ SeedRow(p, call[c].row) \in Entry
             /\ store'[p] = Append(store[p], SeedRow(p, call[c].row))
    <3>1. store[p] \in Seq(Entry)
      BY DEF IInv, TypeOK
    <3>2. SeedRow(p, call[c].row) # Tag(d)
      BY NoneAssumption DEF SeedRow, Tag
    <3>3. {i \in 1..Len(store'[p]) : store'[p][i] = Tag(d)}
             = {i \in 1..Len(store[p]) : store[p][i] = Tag(d)}
      BY <2>2, <3>1, <3>2, StoredMore
    <3> QED BY <1>3, <3>3 DEF Stored
  <2> QED BY <1>1, <2>1, <2>2
<1>5. ASSUME NEW d \in Client, call'[d].op = "send"
      PROVE  /\ call'[d].path \in Path
             /\ call'[d].at # "idle" => Stored(call[d].path, Tag(d))' = {}
             /\ Heard(d)'
  <2>1. /\ call[d].op = "send" /\ call[d].path \in Path
        /\ call'[d].path = call[d].path
        /\ call[d].at # "idle" => Stored(call[d].path, Tag(d)) = {}
        /\ Heard(d)
    BY <1>3, <1>5 DEF Dated, ToldTrue, Heard, At
  <2>2. CASE d # c
    <3>1. call'[d] = call[d]
      BY <1>0, <1>5, <2>2 DEF OwnCall
    <3>2. {i \in 1..Len(store'[call[d].path]) : store'[call[d].path][i] = Tag(d)'}
            = Stored(call[d].path, Tag(d))
      BY <1>4, <2>1, <3>1 DEF Stored
    <3> QED BY <2>1, <3>1, <3>2 DEF Heard, Stored
  <2>3. CASE d = c
    <3>1. call[c].at # "idle"
      BY <1>0 DEF OwnCall, At
    <3>2. {i \in 1..Len(store'[call[d].path]) : store'[call[d].path][i] = Tag(d)'} = {}
      BY <1>4, <2>1, <2>3, <3>1 DEF Stored
    <3>3. call'[c].at = "idle" => call'[c].answer.kind # "done"
      BY <2>1, <2>3, EndsBadly DEF IInv
    <3> QED BY <2>1, <2>3, <3>2, <3>3 DEF Heard, Stored
  <2> QED BY <2>2, <2>3
<1>6. Dated'
  <2>1. ASSUME NEW d \in Client, call'[d].op = "send", call'[d].at # "idle"
        PROVE  {i \in 1..Len(store'[call'[d].path]) :
                  store'[call'[d].path][i] = Tag(d)'} = {}
    BY <1>3, <1>5, <2>1 DEF Stored
  <2> QED BY <1>2, <1>5, <2>1 DEF Dated, Stored
<1>7. ToldTrue'
  BY <1>5 DEF ToldTrue, Heard, At
<1> QED BY <1>6, <1>7

\* A commit stores the one event of the command it answers.
LEMMA HeardCommit ==
  ASSUME IInv, Dated, ToldTrue, NEW f \in FileId, Commit(f)
  PROVE  Dated' /\ ToldTrue'
<1>0. PICK c \in Client, p \in Path :
         /\ p = call[c].path /\ Tag(c) \in Entry
         /\ call[c].op = "send" /\ call[c].at = "wait"
         /\ store'[p] = Append(store[p], Tag(c))
         /\ \A q \in Path \ {p} : store'[q] = store[q]
         /\ call'[c].at = "idle" /\ call'[c].op = "send" /\ call'[c].path = p
         /\ call'[c].answer = Said("done")
         /\ \A d \in Client \ {c} : call'[d] = call[d]
  BY Committed
<1>1. store[p] \in Seq(Entry) /\ made' = made
  BY <1>0 DEF IInv, TypeOK, Commit
<1>2. \A d \in Client : Tag(d)' = Tag(d)
  BY <1>0, <1>1 DEF Tag
<1>3. ASSUME NEW q \in Path, NEW i \in 1..Len(store'[q]), NEW d \in Client,
             store'[q][i].by = d
      PROVE  store'[q][i].n <= made'[d]
  <2>1. CASE q # p
    BY <1>0, <1>1, <1>3, <2>1 DEF Dated
  <2>2. CASE q = p
    <3>1. CASE i \in 1..Len(store[p])
      <4>1. store'[p][i] = store[p][i]
        BY <1>0, <1>1, <3>1, AppendProperties
      <4> QED BY <1>1, <1>3, <2>2, <3>1, <4>1 DEF Dated
    <3>2. CASE i \notin 1..Len(store[p])
      <4>1. store'[p][i] = Tag(c)
        BY SMTT(40), <1>0, <1>1, <1>3, <2>2, <3>2, AppendProperties
      <4>2. d = c /\ store'[p][i].n = made[c] /\ made[c] \in 0..MaxCalls
        <5>1. Tag(c).by = c /\ Tag(c).n = made[c]
          BY DEF Tag
        <5>2. made[c] \in 0..MaxCalls
          BY DEF IInv, TypeOK
        <5> QED BY <1>3, <2>2, <4>1, <5>1, <5>2
      <4> QED BY <1>1, <2>2, <4>2, MaxCallsAssumption
    <3> QED BY <3>1, <3>2
  <2> QED BY <2>1, <2>2
<1>4. ASSUME NEW d \in Client \ {c}, NEW q \in Path
      PROVE  {i \in 1..Len(store'[q]) : store'[q][i] = Tag(d)'} = Stored(q, Tag(d))
  <2>1. CASE q # p
    BY <1>0, <1>2, <2>1 DEF Stored
  <2>2. CASE q = p
    <3>1. Tag(c) # Tag(d)
      BY <1>0, <1>4 DEF Tag
    <3>2. {i \in 1..Len(store'[p]) : store'[p][i] = Tag(d)}
            = {i \in 1..Len(store[p]) : store[p][i] = Tag(d)}
      BY <1>0, <1>1, <3>1, StoredMore
    <3> QED BY <1>2, <2>2, <3>2 DEF Stored
  <2> QED BY <2>1, <2>2
<1>5. {i \in 1..Len(store'[p]) : store'[p][i] = Tag(c)'} = {Len(store[p]) + 1}
  <2>1. Stored(p, Tag(c)) = {}
    BY <1>0 DEF Dated
  <2>2. {i \in 1..Len(store[p]) : store[p][i] = Tag(c)} = {}
    BY <2>1 DEF Stored
  <2>3. {i \in 1..Len(store'[p]) : store'[p][i] = Tag(c)}
          = {i \in 1..Len(store[p]) : store[p][i] = Tag(c)} \cup {Len(store[p]) + 1}
    BY <1>0, <1>1, StoredMore
  <2>4. Tag(c)' = Tag(c)
    BY <1>0, <1>2
  <2> QED BY <2>2, <2>3, <2>4
<1>6. ASSUME NEW d \in Client, call'[d].op = "send"
      PROVE  /\ call'[d].path \in Path
             /\ call'[d].at # "idle" =>
                   {i \in 1..Len(store'[call'[d].path]) :
                      store'[call'[d].path][i] = Tag(d)'} = {}
             /\ Heard(d)'
  <2>1. CASE d = c
    <3>1. Cardinality({i \in 1..Len(store'[p]) : store'[p][i] = Tag(c)'}) = 1
      BY <1>5, FS_Singleton
    <3>2. call'[c].answer.kind = "done"
      BY <1>0 DEF Said
    <3>3. Heard(c)'
      BY <1>0, <3>1, <3>2 DEF Heard, Stored
    <3> QED BY <1>0, <2>1, <3>3
  <2>2. CASE d # c
    <3>1. call'[d] = call[d] /\ call[d].op = "send" /\ call[d].path \in Path
      BY <1>0, <1>6, <2>2 DEF Dated
    <3>2. {i \in 1..Len(store'[call[d].path]) : store'[call[d].path][i] = Tag(d)'}
            = Stored(call[d].path, Tag(d))
      BY <1>4, <2>2, <3>1
    <3>3. Heard(d) /\ (call[d].at # "idle" => Stored(call[d].path, Tag(d)) = {})
      BY <3>1 DEF Dated, ToldTrue, Heard, At
    <3> QED BY <3>1, <3>2, <3>3 DEF Heard, Stored
  <2> QED BY <2>1, <2>2
<1>7. Dated'
  BY <1>3, <1>6 DEF Dated, Stored
<1>8. ToldTrue'
  BY <1>6 DEF ToldTrue, Heard, At
<1> QED BY <1>7, <1>8

\* An actor that commits nothing refuses, reads, or hangs up.
LEMMA HeardActor ==
  ASSUME IInv, Dated, ToldTrue, NEW f \in FileId, ActorStep(f)
  PROVE  Dated' /\ ToldTrue'
<1>1. CASE Commit(f)
  BY <1>1, HeardCommit
<1>2. CASE ~Commit(f)
  <2>1. store' = store /\ Answers(f)
    BY <1>2, StoreActor, ActorAnswers DEF IInv
  <2>2. made' = made
    BY <2>1 DEF Answers
  <2>3. ASSUME NEW d \in Client, call'[d] # call[d], call[d].op = "send"
        PROVE  call'[d].answer.kind # "done"
    <3>1. call[d].at = "wait" /\ call[d].file = f
      BY <2>1, <2>3 DEF Answers
    <3>2. CASE Refuse(f)
      <4>1. Sender(f) \in Client /\ Return(Sender(f), Said("refused"))
        BY <3>2, Asked DEF Refuse, IInv, Asks
      <4> QED BY <2>3, <4>1, ReturnFlat DEF IInv, TypeOK, Said
    <3>3. CASE Read(f)
      <4>1. /\ Sender(f) \in Client /\ call[Sender(f)].op = "read"
            /\ \E a : Return(Sender(f), a)
        BY <3>3, Asked DEF Read, IInv, Asks
      <4> QED BY <2>3, <4>1, ReturnFlat DEF IInv, TypeOK
    <3>4. CASE History(f)
      <4>1. /\ Sender(f) \in Client /\ call[Sender(f)].op = "history"
            /\ \E a : Return(Sender(f), a)
        BY <3>4, Asked DEF History, IInv, Asks
      <4> QED BY <2>3, <4>1, ReturnFlat DEF IInv, TypeOK
    <3>5. CASE TakeShutdown(f)
      BY <2>3, <3>5 DEF TakeShutdown
    <3>6. CASE Hangup(f)
      BY ZenonT(60), <2>3, <3>6 DEF Hangup, IInv, TypeOK, Calls, Said
    <3> QED BY <1>2, <3>2, <3>3, <3>4, <3>5, <3>6 DEF ActorStep, Stop, Abandoned
  <2>4. ASSUME NEW d \in Client
        PROVE  /\ call'[d].op = call[d].op /\ call'[d].path = call[d].path
               /\ Tag(d)' = Tag(d)
               /\ call'[d].at # "idle" => call[d].at # "idle"
               /\ call'[d] # call[d] => call[d].at # "idle"
    BY <2>1, <2>2 DEF Answers, Tag
  <2>5. ASSUME NEW d \in Client, call[d].op = "send" PROVE Heard(d)'
    <3>1. Heard(d) /\ (call[d].at # "idle" => Stored(call[d].path, Tag(d)) = {})
      BY <2>5 DEF Dated, ToldTrue, Heard, At
    <3>2. Stored(call[d].path, Tag(d))
            = {i \in 1..Len(store'[call'[d].path]) :
                 store'[call'[d].path][i] = Tag(d)'}
      BY <2>1, <2>4 DEF Stored
    <3> QED BY <2>3, <2>4, <2>5, <3>1, <3>2 DEF Heard, Stored
  <2>6. Dated'
    BY <2>1, <2>2, <2>4 DEF Dated, Stored
  <2>7. ToldTrue'
    BY <2>4, <2>5 DEF ToldTrue, Heard, At
  <2> QED BY <2>6, <2>7
<1> QED BY <1>1, <1>2

\* A new call has a number that no entry has.
LEMMA HeardBegin ==
  ASSUME IInv, Dated, ToldTrue, NEW c \in Client, Begin(c)
  PROVE  Dated' /\ ToldTrue'
<1>1. /\ \A d \in Client \ {c} : call'[d] = call[d] /\ made'[d] = made[d]
      /\ made'[c] = made[c] + 1 /\ made[c] \in Nat
      /\ store' = store /\ call'[c].path \in Path
  <2>1. TypeOK /\ made \in [Client -> 0..MaxCalls]
    BY DEF IInv, TypeOK
  <2>2. /\ \A d \in Client \ {c} : call'[d] = call[d] /\ made'[d] = made[d]
        /\ made' = [made EXCEPT ![c] = made[c] + 1]
        /\ store' = store /\ call'[c].path \in Path
    BY <2>1, BeginSays
  <2> QED BY <2>1, <2>2, MaxCallsAssumption
<1>2. call'[c].at # "idle"
  <2>1. /\ call'[c].at = FirstStage[call'[c].op] /\ call'[c].op \in Ops
    BY BeginSays DEF IInv
  <2>2. \A op \in Ops : FirstStage[op] # "idle"
    BY OpsAssumption DEF FirstStage
  <2> QED BY <2>1, <2>2
<1>3. ASSUME NEW p \in Path, NEW i \in 1..Len(store[p]), NEW d \in Client,
             store[p][i].by = d
      PROVE  store[p][i].n <= made'[d]
  <2>1. store[p] \in Seq(Entry) /\ store[p][i] \in Entry
    BY DEF IInv, TypeOK
  <2>2. store[p][i].n <= made[d]
    BY <1>3 DEF Dated
  <2>3. store[p][i].n \in 0..(SeedRows + MaxCalls)
    BY <2>1 DEF Entry
  <2>4. made[d] \in 0..MaxCalls
    BY DEF IInv, TypeOK
  <2> QED BY SMTT(40), <1>1, <2>2, <2>3, <2>4, SeedRowsAssumption, MaxCallsAssumption
<1>4. \A p \in Path : {i \in 1..Len(store[p]) : store[p][i] = Tag(c)'} = {}
  <2>1. ASSUME NEW p \in Path, NEW i \in 1..Len(store[p]), store[p][i] = Tag(c)'
        PROVE  FALSE
    <3>1. store[p][i].by = c /\ store[p][i].n = made[c] + 1
      BY <1>1, <2>1 DEF Tag
    <3>2. store[p][i].n <= made[c]
      BY <3>1 DEF Dated
    <3> QED BY <1>1, <3>1, <3>2
  <2> QED BY <2>1
<1>5. \A d \in Client \ {c} : Tag(d)' = Tag(d)
  BY <1>1 DEF Tag
<1>6. ASSUME NEW d \in Client, call'[d].op = "send"
      PROVE  /\ call'[d].path \in Path
             /\ call'[d].at # "idle" =>
                   {i \in 1..Len(store'[call'[d].path]) :
                      store'[call'[d].path][i] = Tag(d)'} = {}
             /\ Heard(d)'
  <2>1. CASE d = c
    BY <1>1, <1>2, <1>4, <2>1 DEF Heard
  <2>2. CASE d # c
    <3>1. call'[d] = call[d] /\ call[d].op = "send" /\ call[d].path \in Path
          /\ Heard(d) /\ (call[d].at # "idle" => Stored(call[d].path, Tag(d)) = {})
      BY <1>1, <1>6, <2>2 DEF Dated, ToldTrue, Heard, At
    <3>2. Tag(d)' = Tag(d) /\ store' = store
      BY <1>1, <1>5, <2>2
    <3>3. {i \in 1..Len(store'[call'[d].path]) : store'[call'[d].path][i] = Tag(d)'}
            = Stored(call[d].path, Tag(d))
      BY <3>1, <3>2 DEF Stored
    <3>4. Heard(d)'
      BY <3>1, <3>3 DEF Heard, Stored
    <3> QED BY <3>1, <3>3, <3>4
  <2> QED BY <2>1, <2>2
<1>7. Dated'
  BY <1>1, <1>3, <1>6 DEF Dated, Stored
<1>8. ToldTrue'
  BY <1>6 DEF ToldTrue, Heard, At
<1> QED BY <1>7, <1>8

-----------------------------------------------------------------------------
(***************************************************************************)
(* What an engine that is alone on its store has seen.                     *)
(***************************************************************************)
\* What the calls of the callers do to the actors.
Works(c) ==
    /\ call'[c].at = "publish" => Load(c)
    /\ \A f \in FileId :
          /\ actor'[f].home = actor[f].home \/ ~Born(f)
          /\ \/ actor'[f].seen = actor[f].seen
             \/ /\ Load(c) /\ f = call[c].file
                /\ actor'[f].seen = store[call[c].path]
          /\ actor'[f].life \in {"running", "saving"} =>
                \/ Alive(f)
                \/ Publish(c) /\ f = call[c].file /\ actor'[f].seen = actor[f].seen

\* Each step of a caller is of this kind.
LEMMA WorkOnActors ==
  ASSUME TypeOK, Callers, NEW c \in Client, Work(c)
  PROVE  Works(c)
<1> USE DEF Alive
<1>1. CASE OpenStep(c)
  <2>1. CASE OpenFound(c)
    <3>1. call'[c].at = "idle" /\ actor' = actor
      BY <2>1 DEF OpenFound, TypeOK, Calls
    <3> QED BY <3>1 DEF Works
  <2>2. CASE OpenFresh(c)
    <3>1. call'[c].at = "seedcheck"
      BY SMTT(40), <2>2 DEF OpenFresh, TypeOK, Calls
    <3> QED BY <3>1, <2>2 DEF OpenFresh, Works, TypeOK, Actors, Born
  <2>3. CASE SeedCheck(c)
    BY <2>3, Moves DEF SeedCheck, Stays, Works
  <2>4. CASE Seed(c)
    BY <2>4, Moves DEF Seed, Stays, Works
  <2>5. CASE Load(c)
    <3>1. call[c].file \in FileId
      BY <2>5 DEF Load, Callers, Calling, At, Placed, Opening
    <3> QED BY <3>1, <2>5 DEF Load, Works, TypeOK, Actors
  <2>6. CASE Publish(c)
    <3>1. call'[c].at = "register"
      BY <2>6, Moves DEF Stays
    <3>2. ASSUME NEW f \in FileId
          PROVE  /\ actor'[f].home = actor[f].home /\ actor'[f].seen = actor[f].seen
                 /\ f # call[c].file => actor'[f] = actor[f]
      BY <3>2, <2>6 DEF Publish, TypeOK, Actors
    <3> QED BY <3>1, <3>2, <2>6 DEF Works
  <2>7. CASE Register(c)
    BY <2>7, Moves DEF Register, Stays, Works
  <2>8. CASE OpenFails(c)
    <3>1. call'[c].at = "idle"
      BY <2>8, ReturnFlat DEF OpenFails, TypeOK
    <3>2. ASSUME NEW f \in FileId
          PROVE  /\ actor'[f].home = actor[f].home /\ actor'[f].seen = actor[f].seen
                 /\ actor'[f].life \in {actor[f].life, "gone"}
      BY <3>2, <2>8 DEF OpenFails, TypeOK, Actors
    <3> QED BY <3>1, <3>2 DEF Works
  <2> QED BY <1>1, <2>1, <2>2, <2>3, <2>4, <2>5, <2>6, <2>7, <2>8 DEF OpenStep
<1>2. CASE CloseStep(c)
  <2>1. CASE CloseFind(c)
    <3>1. call'[c].at = "shutdown" /\ actor' = actor
      BY <2>1 DEF CloseFind, TypeOK, Calls
    <3> QED BY <3>1 DEF Works
  <2>2. CASE CloseUnknown(c)
    BY <2>2, Moves DEF CloseUnknown, Stays, Works
  <2>3. CASE CloseGet(c)
    BY <2>3, Moves DEF CloseGet, Stays, Works
  <2>4. CASE CloseSend(c)
    <3>1. call[c].file \in FileId
      BY <2>4 DEF CloseSend, Callers, Calling, At, Placed
    <3> QED BY <3>1, <2>4, Moves, MailFlat DEF CloseSend, Stays, Works, Alive
  <2>5. CASE CloseDrop(c)
    BY <2>5, Moves DEF CloseDrop, Stays, Works
  <2>6. CASE CloseForget(c)
    BY <2>6, Moves DEF CloseForget, Stays, Works
  <2>7. CASE SweepList(c)
    <3>1. call'[c].at = "sweep" /\ actor' = actor
      BY <2>7 DEF SweepList, TypeOK, Calls
    <3> QED BY <3>1 DEF Works
  <2>8. CASE SweepNext(c)
    <3>1. call'[c].at \in {"sweep", "poison"} /\ actor' = actor
      BY <2>8 DEF SweepNext, TypeOK, Calls, At
    <3> QED BY <3>1 DEF Works
  <2>9. CASE SweepClear(c)
    BY <2>9, Moves DEF SweepClear, Stays, Works
  <2> QED BY <1>2, <2>1, <2>2, <2>3, <2>4, <2>5, <2>6, <2>7, <2>8, <2>9 DEF CloseStep
<1>3. CASE CallStep(c)
  <2>1. CASE Lookup(c)
    <3>1. call'[c].at \in {"idle", "handle"} /\ actor' = actor
      <4>1. CASE OpenAs(call[c].path) = {}
        BY <2>1, <4>1, ReturnFlat DEF Lookup, TypeOK
      <4>2. CASE OpenAs(call[c].path) # {}
        BY <2>1, <4>2 DEF Lookup, TypeOK, Calls
      <4> QED BY <4>1, <4>2
    <3> QED BY <3>1 DEF Works
  <2>2. CASE GetHandle(c)
    BY <2>2, Moves DEF GetHandle, Stays, Works
  <2>3. CASE Deliver(c)
    <3>1. call[c].file \in FileId
      BY <2>3 DEF Deliver, Callers, Calling, At, Placed
    <3> QED BY <3>1, <2>3, Moves, MailFlat DEF Deliver, Stays, Works, Alive
  <2> QED BY <1>3, <2>1, <2>2, <2>3 DEF CallStep
<1> QED BY <1>1, <1>2, <1>3 DEF Work

\* An actor has had its home, and its company, since it was drawn.
LEMMA OnceBefore ==
  ASSUME Homes, NEW f \in FileId, Born(f), Once(f)',
         \A g \in FileId : actor'[g].home = actor[g].home \/ ~Born(g)
  PROVE  Once(f)
BY NoneAssumption DEF Homes, HomeOf, Once

\* Somebody else who seeds the store has an actor at home there.
LEMMA Seeder ==
  ASSUME IInv, NEW c \in Client, call[c].at = "seed"
  PROVE  /\ call[c].file \in FileId /\ actor[call[c].file].life = "drawn"
         /\ actor[call[c].file].home = call[c].path /\ Alone(c)
BY DEF IInv, Callers, Calling, Homes, CallHome, Owns, OwnsOf, Placed, Opening, Sweeping

\* The steps of the callers keep a sole engine up to date.
LEMMA SoleWork ==
  ASSUME IInv, Loaded, SoleEngineSeesAll, NEW c \in Client, Work(c)
  PROVE  Loaded' /\ SoleEngineSeesAll'
<1>0. OwnCall(c) /\ Works(c)
  BY OwnCallOnly, WorkOnActors DEF IInv, TypeOK
<1>1. \A p \in Path : \/ store'[p] = store[p]
                      \/ call[c].at = "seed" /\ p = call[c].path
  <2>1. ASSUME NEW p \in Path
        PROVE  store'[p] = store[p] \/ (call[c].at = "seed" /\ p = call[c].path)
    BY <2>1, StoreWork DEF IInv
  <2> QED BY <2>1
<1>2. \A g \in FileId : actor'[g].home = actor[g].home \/ ~Born(g)
  BY <1>0 DEF Works
<1>3. ASSUME Load(c)
      PROVE  /\ call[c].at = "load" /\ call[c].file \in FileId /\ Alone(c)
             /\ actor[call[c].file].life = "drawn" /\ store' = store
  BY <1>3 DEF Load, At, IInv, Callers, Calling, Owns, OwnsOf, Placed, Opening
<1>4. ASSUME NEW f \in FileId, actor'[f].life \in {"running", "saving"}, Once(f)'
      PROVE  actor'[f].seen = store'[actor'[f].home]
  <2>1. CASE Alive(f)
    <3>1. Born(f) /\ actor[f].home \in Path
      BY <2>1 DEF Alive, Born, IInv, Homes, HomeOf
    <3>2. Once(f) /\ actor'[f].home = actor[f].home
      BY <1>2, <1>4, <3>1, OnceBefore DEF IInv
    <3>3. actor[f].seen = store[actor[f].home]
      BY <2>1, <3>2 DEF SoleEngineSeesAll
    <3>4. actor'[f].seen = actor[f].seen
      BY <1>0, <1>3, <2>1 DEF Works, Alive
    <3>5. store'[actor[f].home] = store[actor[f].home]
      <4>1. ASSUME call[c].at = "seed", actor[f].home = call[c].path PROVE FALSE
        BY <2>1, <3>2, <4>1, Seeder DEF Once, Alive
      <4> QED BY <1>1, <3>1, <4>1
    <3> QED BY <3>2, <3>3, <3>4, <3>5
  <2>2. CASE ~Alive(f)
    <3>1. Publish(c) /\ f = call[c].file /\ actor'[f].seen = actor[f].seen
      BY <1>0, <1>4, <2>2 DEF Works
    <3>2. call[c].at = "publish" /\ store' = store
      BY <3>1 DEF Publish, At
    <3>3. actor[f].home = call[c].path /\ Born(f)
      BY <3>1, <3>2 DEF IInv, Callers, Calling, Homes, CallHome, Placed, Opening,
                        Sweeping, Owns, OwnsOf, Born
    <3>4. Once(f) /\ actor'[f].home = actor[f].home
      BY <1>2, <1>4, <3>3, OnceBefore DEF IInv
    <3> QED BY <3>1, <3>2, <3>3, <3>4 DEF Loaded, At
  <2> QED BY <2>1, <2>2
<1>5. ASSUME NEW d \in Client, call'[d].at = "publish",
             Once(call[d].file)', call'[d].file = call[d].file
      PROVE  actor'[call[d].file].seen = store'[call'[d].path]
  <2>1. CASE d = c
    <3>1. Load(c)
      BY <1>0, <1>5, <2>1 DEF Works
    <3>2. call[c].file \in FileId /\ store' = store /\ call'[c].path = call[c].path
      BY <1>0, <1>3, <3>1 DEF OwnCall
    <3>3. actor'[call[c].file].seen = store[call[c].path]
      BY <3>1, <3>2 DEF Load, IInv, TypeOK, Actors
    <3> QED BY <2>1, <3>2, <3>3
  <2>2. CASE d # c
    <3> DEFINE f == call[d].file
    <3>1. call'[d] = call[d] /\ call[d].at = "publish"
      BY <1>0, <1>5, <2>2 DEF OwnCall
    <3>2. /\ f \in FileId /\ actor[f].home = call[d].path /\ Born(f) /\ Alone(d)
          /\ call[d].path \in Path /\ ~Sweeping(d)
      BY <3>1 DEF IInv, Callers, Calling, Homes, CallHome, Placed, Opening,
                  Sweeping, Owns, OwnsOf, Born
    <3>3. Once(f)
      BY <1>2, <1>5, <3>2, OnceBefore DEF IInv
    <3>4. actor[f].seen = store[call[d].path]
      BY <3>1, <3>3 DEF Loaded, At
    <3>5. actor'[f].seen = actor[f].seen
      BY <1>0, <1>3, <2>2, <3>2 DEF Works, Alone
    <3>6. store'[call[d].path] = store[call[d].path]
      <4>1. ASSUME call[c].at = "seed", call[d].path = call[c].path PROVE FALSE
        BY <2>2, <3>2, <3>3, <4>1, Seeder DEF Once, Alone
      <4> QED BY <1>1, <3>2, <4>1
    <3> QED BY <3>1, <3>4, <3>5, <3>6
  <2> QED BY <2>1, <2>2
<1>6. \A d \in Client : call'[d].at = "publish" => call'[d].file = call[d].file
  <2>1. call'[c].at = "publish" => call'[c].file = call[c].file
    BY <1>0, Moves DEF Works, Stays, IInv
  <2> QED BY <1>0, <2>1 DEF OwnCall
<1>7. Loaded'
  BY <1>5, <1>6 DEF Loaded, At, Once
<1>8. SoleEngineSeesAll'
  BY <1>4 DEF SoleEngineSeesAll, Alive
<1> QED BY <1>7, <1>8

\* What a sole engine commits it has seen; no other commits to its store.
LEMMA SoleActor ==
  ASSUME IInv, Loaded, SoleEngineSeesAll, NEW g \in FileId, ActorStep(g)
  PROVE  Loaded' /\ SoleEngineSeesAll'
<1>0. Answers(g)
  BY ActorAnswers DEF IInv
<1>1. \A f \in FileId : actor'[f].home = actor[f].home
  BY <1>0 DEF Answers
<1>2. ASSUME NEW f \in FileId
      PROVE  \/ /\ f = g /\ Commit(g)
                /\ actor'[f].seen = Append(actor[f].seen, Tag(Sender(g)))
                /\ store'[actor[f].home] = Append(store[actor[f].home], Tag(Sender(g)))
             \/ /\ actor'[f].seen = actor[f].seen
                /\ \/ store' = store
                   \/ /\ f # g
                      /\ \A p \in Path \ {actor[g].home} : store'[p] = store[p]
  <2>1. CASE Commit(g)
    <3>1. CASE f = g
      BY <2>1, <3>1, Committed
    <3>2. CASE f # g
      <4>1. actor'[f] = actor[f]
        BY <1>0, <1>2, <3>2 DEF Answers
      <4>2. \A p \in Path \ {actor[g].home} : store'[p] = store[p]
        BY <2>1, Committed
      <4> QED BY <3>2, <4>1, <4>2
    <3> QED BY <3>1, <3>2
  <2>2. CASE ~Commit(g)
    <3>1. store' = store
      BY <2>2, StoreActor
    <3>2. actor'[f].seen = actor[f].seen
      <4>1. CASE Refuse(g) \/ Read(g) \/ History(g)
        BY ZenonT(60), <1>2, <4>1 DEF Refuse, Read, History, IInv, TypeOK, Actors
      <4>2. CASE TakeShutdown(g)
        BY <1>2, <4>2 DEF TakeShutdown, IInv, TypeOK, Actors
      <4>3. CASE Hangup(g)
        BY <1>2, <4>3 DEF Hangup, IInv, TypeOK, Actors
      <4> QED BY <2>2, <4>1, <4>2, <4>3 DEF ActorStep, Stop, Abandoned
    <3> QED BY <3>1, <3>2
  <2> QED BY <2>1, <2>2
<1>3. ASSUME NEW f \in FileId, Alive(f), Once(f)
      PROVE  actor'[f].seen = store'[actor'[f].home]
  <2>1. actor[f].home \in Path /\ actor[f].seen = store[actor[f].home]
    BY <1>3 DEF Alive, Born, IInv, Homes, HomeOf, SoleEngineSeesAll
  <2>2. f # g => actor[f].home # actor[g].home
    BY <1>3 DEF Once
  <2> QED BY <1>1, <1>2, <2>1, <2>2
<1>4. ASSUME NEW f \in FileId, actor'[f].life \in {"running", "saving"}, Once(f)'
      PROVE  Alive(f) /\ Once(f)
  BY <1>0, <1>1, <1>4 DEF Answers, Alive, Once
<1>5. ASSUME NEW d \in Client, call'[d].at = "publish", Once(call[d].file)',
             call'[d].file = call[d].file
      PROVE  actor'[call[d].file].seen = store'[call'[d].path]
  <2> DEFINE f == call[d].file
  <2>1. call'[d] = call[d] /\ call[d].at = "publish"
    BY <1>0, <1>5 DEF Answers
  <2>2. /\ f \in FileId /\ actor[f].home = call[d].path /\ actor[f].life = "drawn"
        /\ call[d].path \in Path
    BY <2>1 DEF IInv, Callers, Calling, Homes, CallHome, Placed, Opening, Sweeping,
                Owns, OwnsOf
  <2>3. f # g
    BY <1>0, <2>2 DEF Answers
  <2>4. Once(f)
    BY <1>1, <1>5, <2>2 DEF Once
  <2>5. actor[f].seen = store[call[d].path] /\ actor[f].home # actor[g].home
    BY <2>1, <2>2, <2>3, <2>4 DEF Loaded, At, Once
  <2> QED BY <1>2, <2>1, <2>2, <2>3, <2>5
<1>6. \A d \in Client : call'[d].file = call[d].file
  BY <1>0 DEF Answers
<1>7. Loaded'
  BY <1>5, <1>6 DEF Loaded, At, Once
<1>8. SoleEngineSeesAll'
  BY <1>3, <1>4 DEF SoleEngineSeesAll, Alive
<1> QED BY <1>7, <1>8

\* A call that begins is not about to publish.
LEMMA SoleBegin ==
  ASSUME IInv, Loaded, SoleEngineSeesAll, NEW c \in Client, Begin(c)
  PROVE  Loaded' /\ SoleEngineSeesAll'
<1>1. /\ UNCHANGED <<store, actor>>
      /\ \A d \in Client \ {c} : call'[d] = call[d]
  BY BeginSays DEF IInv
<1>2. call'[c].at # "publish"
  <2>1. Calling(c)' /\ call'[c].file = None
    BY TypedBegin, BeginSays DEF IInv
  <2> QED BY <2>1, NoneAssumption DEF Calling, Placed, Opening
<1> QED BY <1>1, <1>2 DEF Loaded, SoleEngineSeesAll, At, Once, Alive

-----------------------------------------------------------------------------
SafeInv == /\ IInv
           /\ Dated /\ ToldTrue
           /\ Loaded /\ SoleEngineSeesAll

\* All of it is an invariant.
LEMMA RuntimeSafe == Spec => []SafeInv
<1>1. Init => SafeInv
  <2> SUFFICES ASSUME Init PROVE SafeInv
    OBVIOUS
  <2>1. \A c \in Client : call[c].op = None /\ call[c].at = "idle"
    BY DEF Init, NoCall
  <2>2. \A p \in Path : Len(store[p]) = 0
    BY DEF Init
  <2>3. Dated /\ ToldTrue
    BY <2>1, <2>2, NoneAssumption DEF Dated, ToldTrue
  <2>4. Loaded /\ SoleEngineSeesAll
    BY <2>1 DEF Init, Loaded, SoleEngineSeesAll, At, Alive
  <2> QED BY <2>3, <2>4, InitIInv DEF SafeInv
<1>2. SafeInv /\ [Next]_vars => SafeInv'
  <2> SUFFICES ASSUME SafeInv, [Next]_vars PROVE SafeInv'
    OBVIOUS
  <2>1. IInv'
    BY StepIInv DEF SafeInv
  <2>2. ASSUME NEW c \in Client, Begin(c) PROVE SafeInv'
    BY <2>1, <2>2, HeardBegin, SoleBegin DEF SafeInv
  <2>3. ASSUME NEW c \in Client, Work(c) PROVE SafeInv'
    BY <2>1, <2>3, HeardWork, SoleWork DEF SafeInv
  <2>4. ASSUME NEW f \in FileId, ActorStep(f) PROVE SafeInv'
    BY <2>1, <2>4, HeardActor, SoleActor DEF SafeInv
  <2>5. CASE UNCHANGED vars
    <3>1. Dated' /\ ToldTrue'
      BY <2>5 DEF SafeInv, vars, Dated, ToldTrue, Stored, Tag, At
    <3>2. Loaded' /\ SoleEngineSeesAll'
      BY <2>5 DEF SafeInv, vars, Loaded, SoleEngineSeesAll, Once, Alive, At
    <3> QED BY <2>1, <3>1, <3>2 DEF SafeInv
  <2> QED BY <2>2, <2>3, <2>4, <2>5 DEF Next
<1> QED BY <1>1, <1>2, PTL DEF Spec

(* What a client hears of its command is what happened to it.              *)
THEOREM AlwaysToldTrue == Spec => []ToldTrue
<1>1. SafeInv => ToldTrue
  BY DEF SafeInv
<1> QED BY <1>1, RuntimeSafe, PTL

(* An engine that no other was ever opened beside has seen its whole store. *)
THEOREM SoleEngineAlwaysSeesAll == Spec => []SoleEngineSeesAll
<1>1. SafeInv => SoleEngineSeesAll
  BY DEF SafeInv
<1> QED BY <1>1, RuntimeSafe, PTL
=============================================================================
