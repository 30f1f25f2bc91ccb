SPECIFICATION FairSpec
CONSTANTS
    RingLen = 8
    CacheSize = 2
    Masks = {0, 3}
    Lens = {2}
    FifoSize = 5
    NumIds = 3
    PostSizes = {1, 3}
    Split = FALSE
    BufLen = 4
    HdrLen = 0
    SplitPoint = 1
    Rdmts = 0
    Wthresh = 4
    Pthresh = 2
    Hthresh = 0
    Timers = {}
    RctlWrites = {TRUE, FALSE}
    BytesInit = {0}
INVARIANTS
    PacketsInOrder
    NoLostWakeup
PROPERTIES
    ImplementsRing
    PacketsKeepArriving
