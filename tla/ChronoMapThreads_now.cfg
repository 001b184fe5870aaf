SPECIFICATION Spec
CONSTANTS
    t1 = t1
    t2 = t2
    a = a
    x = x
    y = y
    NoCap = NoCap
    Threads = {t1, t2}
    Keys = {a}
    Values = {x, y}
    Cap = 2
    CacheSize = 2
    Absent = Absent
    KeyError = KeyError
    None = None
    Asked = {None}
    Stamps = {None}
    Lifetimes = {}
    Images = {}
    MaxTime = 1
SYMMETRY Symmetric
INVARIANT AnswersWereTrue
