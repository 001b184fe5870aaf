SPECIFICATION Spec
CONSTANTS
    a = a
    b = b
    x = x
    y = y
    NoCap = NoCap
    Keys = {a, b}
    Values = {x}
    Cap = 2
    CacheSize = 1
    MemoryLimit = 1
    Absent = Absent
    Silent = Silent
    None = None
    Unparsable = Unparsable
    Lifetimes = {0, 1}
    KeepArgs = {1}
    Cutoffs = {1, Unparsable}
    OtherMaps <- SmallMaps
    MergeExpired = TRUE
    Lead = 1
    Longest = 2
    MaxTime = 2
SYMMETRY Symmetric
INVARIANT NoGhosts
VIEW MapOnly
