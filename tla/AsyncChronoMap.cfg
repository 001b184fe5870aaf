SPECIFICATION Spec
CONSTANTS
    t1 = t1
    t2 = t2
    a = a
    b = b
    x = x
    y = y
    NoCap = NoCap
    Tasks = {t1, t2}
    Keys = {a, b}
    Values = {x}
    Cap = 2
    Absent = Absent
    None = None
    Silent = Silent
    Refused = Refused
    Nobody = Nobody
    Asked = {None}
    Stamps = {None}
    Lifetimes = {0, 1}
    Lead = 0
    Longest = 0
    MaxTime = 1
INVARIANT TypeOK
PROPERTY NowIsNewest
PROPERTY ImplementsTimeMap
PROPERTY EveryCallReturns
