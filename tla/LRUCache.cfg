SPECIFICATION CacheSpec
CONSTANTS
    Keys = {k1, k2}
    Moments = {0, 1}
    Values = {1, 2}
    Capacity = 3
    MaxLookups = 2
PROPERTY EvictsLeastRecentlyUsed
PROPERTY ImplementsBoundedCache
