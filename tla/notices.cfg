\* Changes may outrun a client: the channel is shorter than their number.
CONSTANTS
    c1 = c1  c2 = c2
    Client = {c1, c2}
    Capacity = 2
    MaxChanges = 5
SPECIFICATION FairSpec
INVARIANTS
    StaleIsTold
    EndedLate
PROPERTY
    Catches
CHECK_DEADLOCK FALSE
