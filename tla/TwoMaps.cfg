SPECIFICATION Spec
CONSTANTS
    c = c
    w = w
    a = a
    b = b
    x = x
    y = y
    NoCap = NoCap
    Caller = c
    Writers = {w}
    Keys = {a, b}
    Values = {x, y}
    Absent = Absent
    None = None
    Lifetimes = {1}
    MaxTime = 1
    MaxWrites = 4
SYMMETRY Symmetric
CONSTRAINT InBounds
 
INVARIANT MergeKeepsOrder
INVARIANT WalkMissesNothing
