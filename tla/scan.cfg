\* One scan at a time, which may die; files change meanwhile.
CONSTANTS
    p1 = p1  p2 = p2  f1 = f1  f2 = f2  f3 = f3  t1 = t1  t2 = t2
    b1 = b1  b2 = b2  b3 = b3  b4 = b4
    Absent = Absent
    Binary = Binary
    Scanner = {p1}
    File = {f1, f2, f3}
    Text = {t1, t2}
    Block = {b1, b2, b3, b4}
    Ignored = {f3}
    Foreign = {f2}
    Mapped = {f1}
    MaxEdits = 3
SPECIFICATION ScanSpec
SYMMETRY Symmetry
INVARIANTS
    OneBlockPerFile
    ScanIsComplete
CHECK_DEADLOCK FALSE
