SPECIFICATION FairSpec
CONSTANTS
    Threads = {t1, t2, t3}
    NoThread = NoThread
    Nestings <- WriteInWrite
    GilAtomic = TRUE
    WriterCap = 4
INVARIANT TypeOK
INVARIANT MutualExclusion
INVARIANT NoLostWakeup
INVARIANT NoPhantomWriter
PROPERTY NoReaderOvertakesWriter
PROPERTY ImplementsExclusion
PROPERTY WritersGetIn
PROPERTY ReadersGetIn
