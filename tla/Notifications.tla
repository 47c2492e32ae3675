--------------------------- MODULE Notifications ---------------------------
(***************************************************************************)
(* How connected clients hear that something changed: a broadcast channel  *)
(* of bounded length, one task per connection that receives from it and    *)
(* notifies the client (src/mcp/transport.rs, state.rs).                   *)
(*                                                                         *)
(* The channel keeps the last Capacity messages.  Only their number        *)
(* matters: message k is the k-th change, and a receiver is the number of  *)
(* messages that are behind it.                                            *)
(***************************************************************************)
EXTENDS Naturals

CONSTANTS Client,
          Capacity,     \* messages the channel keeps for its slowest receiver
          MaxChanges    \* bound: changes announced

ASSUME CapacityAssumption   == Capacity \in Nat \ {0}
ASSUME MaxChangesAssumption == MaxChanges \in Nat

\* A client is away, served but not yet subscribed, or gone; the task of a
\* subscribed one waits for a message, delivers a notification, or has ended.
Link == {"away", "served", "waiting", "notifying", "ended", "gone"}

VARIABLES
    changes,   \* how many changes have been announced
    link,      \* what has become of each client's connection
    joined,    \* how many there were when its task subscribed
    next,      \* how many its task has received
    noticed,   \* it has been notified and has not fetched since
    seen       \* how many there were when it last fetched

vars == <<changes, link, joined, next, noticed, seen>>

Connected(c)  == link[c] \in {"served", "waiting", "notifying", "ended"}
Subscribed(c) == link[c] \in {"waiting", "notifying"}

-----------------------------------------------------------------------------
\* state_changed_tx.send in execute_capability.
Announce ==
    /\ changes < MaxChanges
    /\ changes' = changes + 1
    /\ UNCHANGED <<link, joined, next, noticed, seen>>

\* serve_with_ct: from here on the client may call tools and fetch resources.
Connect(c) ==
    /\ link[c] = "away"
    /\ link' = [link EXCEPT ![c] = "served"]
    /\ seen' = [seen EXCEPT ![c] = changes]
    /\ UNCHANGED <<changes, joined, next, noticed>>

\* Mutant of Subscribe: receives from the oldest message on.
Subscribe_FromStart(c) ==
    /\ link[c] = "served"
    /\ link' = [link EXCEPT ![c] = "waiting"]
    /\ joined' = [joined EXCEPT ![c] = changes]
    /\ UNCHANGED <<changes, next, noticed, seen>>

\* A receiver sees what is sent after it subscribed.
Subscribe(c) ==
    /\ link[c] = "served"
    /\ link' = [link EXCEPT ![c] = "waiting"]
    /\ joined' = [joined EXCEPT ![c] = changes]
    /\ next' = [next EXCEPT ![c] = changes]
    /\ UNCHANGED <<changes, noticed, seen>>

Lagging(c) == changes > next[c] + Capacity

\* Mutant of Receive: takes all there is and tells the client only if there
\* was one message.
Receive_Skips(c) ==
    /\ link[c] = "waiting" /\ next[c] < changes /\ ~Lagging(c)
    /\ next' = [next EXCEPT ![c] = changes]
    /\ link' = [link EXCEPT ![c] = IF changes = next[c] + 1 THEN "notifying" ELSE @]
    /\ UNCHANGED <<changes, joined, noticed, seen>>

Receive(c) ==
    /\ link[c] = "waiting" /\ next[c] < changes /\ ~Lagging(c)
    /\ next' = [next EXCEPT ![c] = @ + 1]
    /\ link' = [link EXCEPT ![c] = "notifying"]
    /\ UNCHANGED <<changes, joined, noticed, seen>>

\* recv gives Lagged, which is no Ok: the loop ends.
FallBehind(c) ==
    /\ link[c] = "waiting" /\ Lagging(c)
    /\ link' = [link EXCEPT ![c] = "ended"]
    /\ UNCHANGED <<changes, joined, next, noticed, seen>>

\* notify_resource_list_changed, which may wait for a slow client.
Notify(c) ==
    /\ link[c] = "notifying"
    /\ link' = [link EXCEPT ![c] = "waiting"]
    /\ noticed' = [noticed EXCEPT ![c] = TRUE]
    /\ UNCHANGED <<changes, joined, next, seen>>

\* A client that was notified fetches its resources again.
Fetch(c) ==
    /\ Connected(c) /\ noticed[c]
    /\ noticed' = [noticed EXCEPT ![c] = FALSE]
    /\ seen' = [seen EXCEPT ![c] = changes]
    /\ UNCHANGED <<changes, link, joined, next>>

\* The client leaves; its task ends at the first notification that fails.
Disconnect(c) ==
    /\ Connected(c)
    /\ link' = [link EXCEPT ![c] = "gone"]
    /\ UNCHANGED <<changes, joined, next, noticed, seen>>

-----------------------------------------------------------------------------
Init ==
    /\ changes = 0
    /\ link = [c \in Client |-> "away"]
    /\ joined = [c \in Client |-> 0]
    /\ next = [c \in Client |-> 0]
    /\ noticed = [c \in Client |-> FALSE]
    /\ seen = [c \in Client |-> 0]

Task(c) == Subscribe(c) \/ Receive(c) \/ FallBehind(c) \/ Notify(c)

Next == \/ Announce
        \/ \E c \in Client : Connect(c) \/ Task(c) \/ Fetch(c) \/ Disconnect(c)

Spec == Init /\ [][Next]_vars

\* The tasks run, and clients read what they are sent and act on it.
FairSpec == Spec /\ \A c \in Client : WF_vars(Task(c)) /\ WF_vars(Fetch(c))

-----------------------------------------------------------------------------
TypeOK ==
    /\ changes \in 0 .. MaxChanges
    /\ link \in [Client -> Link]
    /\ joined \in [Client -> 0 .. MaxChanges]
    /\ next \in [Client -> 0 .. MaxChanges]
    /\ noticed \in [Client -> BOOLEAN]
    /\ seen \in [Client -> 0 .. MaxChanges]

\* Nothing is lost between the channel and the client: if a subscribed client
\* shows something older than a change made since it subscribed, then the
\* change is still in its queue, or being delivered, or the client was told.
StaleIsTold == \A c \in Client :
    Subscribed(c) /\ seen[c] < changes /\ joined[c] < changes
       => noticed[c] \/ link[c] = "notifying" \/ next[c] < changes

\* A client is never told of changes from before it subscribed, and a task
\* that ended on its own had fallen behind by more than the channel holds.
EndedLate == \A c \in Client :
    /\ joined[c] <= next[c] /\ next[c] <= changes
    /\ link[c] = "ended" => changes > next[c] + Capacity

\* A subscribed client gets to see what is current, or its connection is gone,
\* or it fell behind a burst and its task ended: nobody starts another, so that
\* it is never told again.
Catches == \A c \in Client :
    Subscribed(c) /\ joined[c] < changes
       ~> seen[c] = changes \/ link[c] \in {"gone", "ended"}
=============================================================================
