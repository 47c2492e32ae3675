\* One actor, the link graph on three blocks, restarts of every kind.
CONSTANTS
    sys = sys  ann = ann  bob = bob
    b1 = b1  b2 = b2  b3 = b3
    x = x  y = y
    a1 = a1  a2 = a2
    None = None
    Wild = Wild
    Editor = {sys}
    Block = {b1, b2, b3}
    Text = {x}
    Actor = {a1}
    System = sys
    Registered <- GraphCaps
    RegistryOrders <- GraphOrders
    Menu <- GraphMenu
    MaxLog = 11
SYMMETRY BlockSymmetry
SPECIFICATION Spec
INVARIANTS
    TypeOK
    ViewIsReplay
    SnapshotCoherent
    IndexAgrees
    ImplementAcyclic
    LinksKeepOthers
