--------------------------- MODULE MCRegistration ---------------------------
(* Small instances of AgentRegistration for TLC. *)
EXTENDS RegistrationProperties, TLC

CONSTANTS p1, p2, a1, a2, a3, d1, u1, u2, b1, nowhere

On(cap, block) == [cap |-> cap, block |-> block]
RoleIn(d, grants) == [dir |-> d, grants |-> grants]

Coder    == <<On("document.write", Wild)>>
Reviewer == <<On("document.read", Wild)>>
Lost     == <<On("document.read", b1), On("task.read", nowhere)>>

\* A team in one directory, and a role on a block that is not there.
Shared == {[roles |-> <<RoleIn(d1, Coder), RoleIn(d1, Reviewer)>>, serve |-> TRUE],
           [roles |-> <<RoleIn(d1, Lost)>>, serve |-> FALSE]}

Symmetry == Permutations(Agent) \cup Permutations(Process)
=============================================================================
