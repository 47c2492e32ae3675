\* Two actors on one store: the snapshot.
CONSTANTS
    sys = sys  ann = ann  bob = bob
    b1 = b1  b2 = b2  b3 = b3
    x = x  y = y
    a1 = a1  a2 = a2
    None = None
    Wild = Wild
    Editor = {sys}
    Block = {b1, b2, b3}
    Text = {x}
    Actor = {a1, a2}
    System = sys
    Registered <- SmallCaps
    RegistryOrders <- SmallOrders
    Menu <- SmallMenu
    MaxLog = 6
SPECIFICATION Spec
INVARIANT SnapshotCoherent
