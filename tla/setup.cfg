\* Two commands at a time, which may fail or die at any step.
CONSTANTS
    p1 = p1  p2 = p2  i1 = i1  i2 = i2  i3 = i3
    None = None
    Torn = Torn
    System = System
    Process = {p1, p2}
    Id = {i1, i2, i3}
    Rows = 3
SPECIFICATION Spec
SYMMETRY Symmetry
INVARIANTS
    NotStuck
    
