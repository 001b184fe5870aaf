SPECIFICATION FairSpec
CONSTANTS
    Threads = {t1, t2}
    NoThread = NoThread
    Nestings <- ReadInRead
    GilAtomic = TRUE
    WriterCap = 4
PROPERTY WritersGetIn
CHECK_DEADLOCK FALSE
