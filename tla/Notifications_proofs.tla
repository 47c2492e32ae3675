------------------------ MODULE Notifications_proofs ------------------------
(***************************************************************************)
(* For any number of clients, any length of the channel and any number of  *)
(* changes, no change is lost between the channel and a subscribed client. *)
(***************************************************************************)
EXTENDS Notifications, TLAPS

LEMMA NaturalBounds == Capacity \in Nat /\ MaxChanges \in Nat /\ Capacity > 0
BY CapacityAssumption, MaxChangesAssumption

\* Every variable keeps its type.
THEOREM NoticesTyped == Spec => []TypeOK
<1>1. Init => TypeOK
  BY NaturalBounds DEF Init, TypeOK, Link
<1>2. TypeOK /\ [Next]_vars => TypeOK'
  <2> SUFFICES ASSUME TypeOK, [Next]_vars PROVE TypeOK'
    OBVIOUS
  <2> USE NaturalBounds
  <2>1. CASE Announce
    BY <2>1 DEF Announce, TypeOK
  <2>2. ASSUME NEW c \in Client, Connect(c) PROVE TypeOK'
    BY <2>2 DEF Connect, TypeOK, Link
  <2>3. ASSUME NEW c \in Client, Subscribe(c) PROVE TypeOK'
    BY <2>3 DEF Subscribe, TypeOK, Link
  <2>4. ASSUME NEW c \in Client, Receive(c) PROVE TypeOK'
    <3>1. next[c] + 1 \in 0 .. MaxChanges
      BY <2>4 DEF Receive, TypeOK
    <3> QED BY <2>4, <3>1 DEF Receive, TypeOK, Link
  <2>5. ASSUME NEW c \in Client, FallBehind(c) PROVE TypeOK'
    BY <2>5 DEF FallBehind, TypeOK, Link
  <2>6. ASSUME NEW c \in Client, Notify(c) PROVE TypeOK'
    BY <2>6 DEF Notify, TypeOK, Link
  <2>7. ASSUME NEW c \in Client, Fetch(c) PROVE TypeOK'
    BY <2>7 DEF Fetch, TypeOK
  <2>8. ASSUME NEW c \in Client, Disconnect(c) PROVE TypeOK'
    BY <2>8 DEF Disconnect, TypeOK, Link
  <2>9. CASE UNCHANGED vars
    BY <2>9 DEF vars, TypeOK
  <2> QED BY <2>1, <2>2, <2>3, <2>4, <2>5, <2>6, <2>7, <2>8, <2>9 DEF Next, Task
<1> QED BY <1>1, <1>2, PTL DEF Spec

-----------------------------------------------------------------------------
(***************************************************************************)
(* What a waiting task took from the channel was either passed on to a     *)
(* client that has not yet fetched, or the client has seen it since.       *)
(***************************************************************************)
Covered == \A c \in Client :
    link[c] = "waiting" /\ ~noticed[c] /\ joined[c] < next[c] => next[c] <= seen[c]

NoticeInv == EndedLate /\ Covered

LEMMA NoticeInvInit == Init => NoticeInv
BY NaturalBounds DEF Init, NoticeInv, EndedLate, Covered

LEMMA NoticeInvStep ==
  ASSUME TypeOK, NoticeInv, [Next]_vars PROVE NoticeInv'
<1> USE NaturalBounds DEF NoticeInv
<1> DEFINE OneEnded(c) == /\ joined[c] <= next[c] /\ next[c] <= changes
                          /\ link[c] = "ended" => changes > next[c] + Capacity
           OneCovered(c) == link[c] = "waiting" /\ ~noticed[c] /\ joined[c] < next[c]
                               => next[c] <= seen[c]
<1> SUFFICES ASSUME NEW c \in Client PROVE OneEnded(c)' /\ OneCovered(c)'
  BY DEF EndedLate, Covered
<1>1. OneEnded(c) /\ OneCovered(c)
  BY DEF EndedLate, Covered
<1>2. /\ changes \in Nat /\ joined[c] \in Nat /\ next[c] \in Nat /\ seen[c] \in Nat
      /\ DOMAIN link = Client /\ DOMAIN joined = Client /\ DOMAIN next = Client
      /\ DOMAIN noticed = Client /\ DOMAIN seen = Client
  BY DEF TypeOK
<1>3. CASE Announce
  BY <1>1, <1>2, <1>3 DEF Announce
<1>4. ASSUME NEW d \in Client, Connect(d) PROVE OneEnded(c)' /\ OneCovered(c)'
  BY <1>1, <1>2, <1>4 DEF Connect, TypeOK
<1>5. ASSUME NEW d \in Client, Subscribe(d) PROVE OneEnded(c)' /\ OneCovered(c)'
  BY <1>1, <1>2, <1>5 DEF Subscribe, TypeOK
<1>6. ASSUME NEW d \in Client, Receive(d) PROVE OneEnded(c)' /\ OneCovered(c)'
  BY <1>1, <1>2, <1>6 DEF Receive, TypeOK
<1>7. ASSUME NEW d \in Client, FallBehind(d) PROVE OneEnded(c)' /\ OneCovered(c)'
  BY <1>1, <1>2, <1>7 DEF FallBehind, Lagging, TypeOK
<1>8. ASSUME NEW d \in Client, Notify(d) PROVE OneEnded(c)' /\ OneCovered(c)'
  BY <1>1, <1>2, <1>8 DEF Notify, TypeOK
<1>9. ASSUME NEW d \in Client, Fetch(d) PROVE OneEnded(c)' /\ OneCovered(c)'
  BY <1>1, <1>2, <1>9 DEF Fetch, TypeOK
<1>10. ASSUME NEW d \in Client, Disconnect(d) PROVE OneEnded(c)' /\ OneCovered(c)'
  BY <1>1, <1>2, <1>10 DEF Disconnect, TypeOK
<1>11. CASE UNCHANGED vars
  BY <1>1, <1>11 DEF vars
<1> QED
  BY <1>3, <1>4, <1>5, <1>6, <1>7, <1>8, <1>9, <1>10, <1>11 DEF Next, Task

THEOREM NoticesCovered == Spec => []NoticeInv
<1>1. TypeOK /\ NoticeInv /\ [Next]_vars => NoticeInv'
  BY NoticeInvStep
<1> QED BY <1>1, NoticeInvInit, NoticesTyped, PTL DEF Spec

-----------------------------------------------------------------------------
\* A client that shows something older than a change made since it subscribed
\* has been told of it, is being told, or has it in its queue
\* (start_mcp_server, transport.rs).
THEOREM StaleClientsAreTold == Spec => []StaleIsTold
<1>1. TypeOK /\ NoticeInv => StaleIsTold
  <2> SUFFICES ASSUME TypeOK, NoticeInv, NEW c \in Client,
                      Subscribed(c), seen[c] < changes, joined[c] < changes,
                      ~noticed[c], link[c] # "notifying"
               PROVE  next[c] < changes
    BY DEF StaleIsTold
  <2>1. link[c] = "waiting" BY DEF Subscribed
  <2>2. joined[c] < next[c] => next[c] <= seen[c]
    BY <2>1 DEF NoticeInv, Covered
  <2>3. /\ changes \in Nat /\ joined[c] \in Nat /\ next[c] \in Nat /\ seen[c] \in Nat
    BY NaturalBounds DEF TypeOK
  <2> QED BY <2>2, <2>3
<1> QED BY <1>1, NoticesTyped, NoticesCovered, PTL

\* The task of a client ends on its own only when the client has fallen behind
\* by more than the channel holds.
THEOREM TasksEndLate == Spec => []EndedLate
BY NoticesCovered, PTL DEF NoticeInv
=============================================================================
