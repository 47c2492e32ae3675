------------------------- MODULE ServiceProperties -------------------------
(***************************************************************************)
(* What an answer of the service layer may be relied on for.  A call spans *)
(* several instants; During is the states the engine was in from its       *)
(* beginning to its answer.                                                *)
(***************************************************************************)
EXTENDS Services

\* The states of the engine are the replay of its log: see Engine.
During == call.from..call.till

Answered(op, kind) ==
    call.req # None /\ Req.op \in op /\ call.at = "idle" /\ call.result.kind = kind

MayRead(s, ed, b, type) == Granted(s, ed, ReadCap[type], b)

(* A block that is returned was there, with these contents, during the     *)
(* call, and the editor could read it then or at a later instant of the    *)
(* call: two messages, in this order (block.rs:33, document.rs:7,          *)
(* task.rs:7, session.rs:7).                                               *)
ReadsArePermitted ==
    Answered(BlockReads, "block") =>
        \E i, j \in During :
            /\ i <= j
            /\ states[i].blocks[Req.block] = call.result.value
            /\ MayRead(states[j], Req.by, Req.block, call.result.value.type)

(* A history that is returned holds every event about the block up to some *)
(* instant at which, or before which, the editor could read it, and none   *)
(* of what came after the answer (event.rs:46).                            *)
HistoryIsWhole ==
    Answered({"get_block_history"}, "events") =>
        \E i, j \in During :
            /\ i <= j
            /\ call.result.value = About(SubSeq(log, 1, j - 1), Req.block)
            /\ \E type \in BlockType : MayRead(states[i], Req.by, Req.block, type)

(* list_blocks leaves out no block that the editor owned, or held a grant  *)
(* of its own on, throughout the call, and lists none that was never both  *)
(* there and his (block.rs:8), unless the engine closed.                   *)
His(s, b) == Exists(s, b) /\ (s.blocks[b].owner = Req.by \/ Reaches(s.grants, Req.by, b))

ListIsRight ==
    Answered({"list_blocks"}, "blocks") =>
        \A b \in Block :
            /\ up /\ (\A i \in During : His(states[i], b)) => b \in DOMAIN call.result.value
            /\ b \in DOMAIN call.result.value =>
                 \E i, j \in During :
                    /\ i <= j
                    /\ states[i].blocks[b] = call.result.value[b]
                    /\ \/ states[i].blocks[b].owner = Req.by
                       \/ Reaches(states[j].grants, Req.by, b)

(* A task that is reported as created has its description in the log, or   *)
(* it was deleted, the engine closed, or the store failed before the       *)
(* second command was done.  That command is never refused: the creator    *)
(* owns the block, whatever is revoked meanwhile (task.rs:40).             *)
TasksAreDescribed ==
    Answered({"create_task"}, "task") =>
        \/ ~up \/ call.lost
        \/ \E i \in call.from..Len(log) :
              /\ log[i].entity = call.result.value
              /\ log[i].cap \in {"core.write", "core.delete"}

(* An event list is of the log as it was at one instant of the call.  No   *)
(* event about the whole project, or about an editor whose id begins with  *)
(* "editor-", is left out, all are in the order of the log, and one about  *)
(* a block is shown only to an editor who could read that block at some    *)
(* instant of the call (event.rs:9).                                       *)
Public(e) == e.entity \in Prefixed \cup {Wild}

Sifted(shown, n) ==
    /\ \A i \in 1..n : Public(log[i]) => \E k \in 1..Len(shown) : shown[k] = log[i]
    /\ \A k \in 1..Len(shown) : \E i \in 1..n : shown[k] = log[i]
    /\ \A k, l \in 1..Len(shown) :
          k < l => \E i, j \in 1..n : i < j /\ shown[k] = log[i] /\ shown[l] = log[j]

EventListIsRight ==
    Answered({"list_events"}, "events") =>
        /\ \E n \in During : Sifted(call.result.value, n - 1)
        /\ \A k \in 1..Len(call.result.value) :
              LET e == call.result.value[k] IN
              e.entity \in Block => \E j \in During, type \in BlockType :
                                       MayRead(states[j], Req.by, e.entity, type)

(* The block and the grants of a time-travel answer are of one instant of  *)
(* the log, before the answer, while the permission is of the call         *)
(* (event.rs:75).                                                          *)
PastIsOneInstant ==
    Answered({"get_state_at_event"}, "past") =>
        /\ \E i \in 1..Instant :
              /\ states[i].blocks[Req.block] = call.result.value.block
              /\ states[i].grants = call.result.value.grants
        /\ \E j \in During :
              MayRead(states[j], Req.by, Req.block, call.result.value.block.type)
=============================================================================
