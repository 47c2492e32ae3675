\* Two commands at a time on one directory, whose files the user has entries in.
CONSTANTS
    p1 = p1  p2 = p2  a1 = a1  a2 = a2  a3 = a3  d1 = d1  u1 = u1  u2 = u2
    b1 = b1  nowhere = nowhere
    None = None
    Wild = Wild
    Process = {p1, p2}
    Agent = {a1, a2}
    Dir = {d1}
    Known = {b1}
    User = {u1, u2}
    Servers = {u2}
    Templates <- Shared
SPECIFICATION Spec
SYMMETRY Symmetry
INVARIANTS
    NamedIsComplete
    TeamIsComplete
    RemovedStays
    UserEntriesKept
CHECK_DEADLOCK FALSE
