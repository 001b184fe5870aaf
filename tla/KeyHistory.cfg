SPECIFICATION HistorySpec
CONSTANTS
    NoCap = NoCap
    Timestamps = {1, 2, 3}
    Cap = 3
    MergeFrom <- MergedHistories
    OverwriteFrom <- OverwritingHistories
    KeepArgs <- AnyKeep
    MaxArrivals = 7
INVARIANT InOrder
INVARIANT LookupIsInForce
INVARIANT CapOnWhatWasPruned
PROPERTY ImplementsRegister
