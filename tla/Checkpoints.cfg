SPECIFICATION Spec
CONSTANTS
    t1 = t1
    t2 = t2
    number = number
    text = text
    other = other
    w1 = w1
    w2 = w2
    w3 = w3
    w4 = w4
    Threads = {t1, t2}
    Texts <- TextOf
    Batches <- Three
    Opaque <- Lambdas
    Formats = {"json", "pickle", "zlib", "gzip"}
    MaxSnapshots = 2
    Depth = 2
    None = None
INVARIANT TypeOK
INVARIANT SnapshotsAreFrozen
INVARIANT UndoneStaysUndone
INVARIANT NoHalfBatches
INVARIANT OnlyStreamsFailHalfway
CONSTRAINT CopiesOfOneKind
SYMMETRY Symmetric
