SPECIFICATION Spec
CONSTANTS
    t1 = t1
    t2 = t2
    a = a
    x = x
    y = y
    NoCap = NoCap
    Threads = {t1, t2}
    Keys = {a}
    Values = {x, y}
    Cap = 2
    CacheSize = 2
    Absent = Absent
    KeyError = KeyError
    None = None
    Asked = {None, 0}
    Stamps = {None, 0}
    Lifetimes = {1}
    Images <- ClearAndRollback
    MaxTime = 2
SYMMETRY Symmetric
INVARIANT TypeOK
INVARIANT PastAnswersWereTrue
INVARIANT PastIsRemembered
INVARIANT NoGhosts
INVARIANT InOrder
