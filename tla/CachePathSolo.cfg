\* Three threads after a first call made alone; a table of capacity 2 that grows.
SPECIFICATION FairSpec
CONSTANTS
    Thread = {t1, t2, t3}
    Path = {p1, p2, p3}
    CACHE_INIT_SIZE = 2
    MaxCalls = 2
    SoloInit = TRUE
    NoThread = NoThread
    None = None
    Garbage = Garbage
INVARIANTS TypeOK NoWildAccess MutualExclusion Interned
PROPERTIES CallsReturn ImplementsInternTable
CHECK_DEADLOCK FALSE
