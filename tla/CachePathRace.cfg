\* The first calls of two threads race.
SPECIFICATION FairSpec
CONSTANTS
    Thread = {t1, t2}
    Path = {p1, p2}
    CACHE_INIT_SIZE = 2
    MaxCalls = 2
    SoloInit = FALSE
    NoThread = NoThread
    None = None
    Garbage = Garbage
INVARIANT InitialisedOnce
PROPERTY CallsReturn
CHECK_DEADLOCK FALSE
