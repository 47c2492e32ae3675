\* Two clients and two openings, of one project or of two.
CONSTANTS
    None = None
    Client = {c1, c2}
    FileId = {f1, f2}
    Path = {p1, p2}
    Ops = {"open", "close", "send", "read", "history", "shutdown_all"}
    SeedRows = 1
    MaxCalls = 3
SPECIFICATION Spec
SYMMETRY Symmetry
INVARIANTS
    ToldTrue
    TablesAgree
    SoleEngineSeesAll
    WaitersAreHeard
CHECK_DEADLOCK FALSE
