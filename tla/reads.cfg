\* Every call, while grants, editors and blocks come and go.
CONSTANTS
    sys = sys  ann = ann  bob = bob  b1 = b1  b2 = b2  x = x  y = y
    None = None
    Wild = Wild
    Editor = {sys, ann, bob}
    Block = {b1, b2}
    Text = {x, y}
    Registered <- Caps
    Seed <- SeedLog
    Prefixed = {bob}
    Menu <- Meanwhile
    Calls <- Everything
    MaxLog = 8
SPECIFICATION Spec
INVARIANTS
    ReadsArePermitted
    HistoryIsWhole
    ListIsRight
    EventListIsRight
    PastIsOneInstant
    TasksAreDescribed
CHECK_DEADLOCK FALSE
