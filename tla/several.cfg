\* Two actors on one store, which may seed it both and miss each other's events.
CONSTANTS
    sys = sys  ann = ann  bob = bob
    b1 = b1  b2 = b2  b3 = b3
    x = x  y = y
    a1 = a1  a2 = a2
    None = None
    Wild = Wild
    Editor = {sys}
    Block = {b1, b2}
    Text = {x}
    Actor = {a1, a2}
    System = sys
    Registered <- SharedCaps
    RegistryOrders <- SharedOrders
    Menu <- SharedMenu
    MaxLog = 4
SPECIFICATION FairSpec
INVARIANTS
    ServesReading
    EventsAreOutcomes
PROPERTY
    OpenSettles
