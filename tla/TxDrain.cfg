SPECIFICATION FairSpec
CONSTANTS
    RingLen = 3
    CacheSize = 4
    Masks = {0, 3}
    Jobs <- ShortJobs
    FifoSize = 3
    NumIds = 2
    Wthresh = 0
    Timers = {}
    TctlWrites = {}
    AtomicMem = FALSE
    MaxDrains = 1
PROPERTY
    DrainEnds
CHECK_DEADLOCK FALSE
