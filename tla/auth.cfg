\* One actor, grants and revocations to three editors, restarts of every kind,
\* and snapshots that fail to parse at any field.
CONSTANTS
    sys = sys  ann = ann  bob = bob
    b1 = b1  b2 = b2  b3 = b3
    x = x  y = y
    a1 = a1  a2 = a2
    None = None
    Wild = Wild
    Editor = {sys, ann, bob}
    Block = {b1}
    Text = {x}
    Actor = {a1}
    System = sys
    Registered <- AuthCaps
    RegistryOrders <- AuthOrders
    Menu <- AuthMenu
    MaxLog = 12
SPECIFICATION TornSpec
INVARIANTS
    EventsAreAuthorised
    ClocksFollowLog
    WritesKeepOthers
PROPERTY
    PromiseKept
