SPECIFICATION Spec
CONSTANTS
    a = a
    b = b
    x = x
    y = y
    NoCap = NoCap
    Keys = {a, b}
    Values = {x, y}
    Cap = 2
    CacheSize = 2
    MemoryLimit = 9
    Absent = Absent
    Silent = Silent
    None = None
    Unparsable = Unparsable
    Lifetimes = {1}
    KeepArgs = {1}
    Cutoffs = {1}
    OtherMaps <- SmallMaps
    MergeExpired = FALSE
    Lead = 0
    Longest = 2
    MaxTime = 2
SYMMETRY Symmetric
INVARIANT WellFormed
INVARIANT CacheTellsTheTruth
PROPERTY ImplementsTimeMap
CONSTRAINT FewVersions
VIEW MapOnly
