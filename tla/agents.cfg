\* Two connections, one with two requests of any kind in progress.
CONSTANTS
    c1 = c1  c2 = c2  s1 = s1  s2 = s2  s3 = s3
    ann = ann  bob = bob  p = p  q = q  b1 = b1
    None = None
    Conn = {c1, c2}
    Slot = {s1, s2, s3}
    ConnOf <- Owner
    Path = {p, q}
    Begins <- Within
    Block = {b1}
    Registered <- Caps
    Requests <- TwoAgents
    MaxLog = 1
SPECIFICATION Spec
SYMMETRY Symmetry
INVARIANTS
    ActsAsItself
    Announced
    AnswerIsFresh
    
