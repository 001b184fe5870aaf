SPECIFICATION Spec
CONSTANTS
    Loops = {l1, l2, l3}
INVARIANT TypeOK
INVARIANT HoldsOnlyAfterFailure
INVARIANT StoppedMeansQuiet
PROPERTY DroppedMapIsCollected
PROPERTY SweepsAsAsked
CHECK_DEADLOCK FALSE
