SPECIFICATION Spec
CONSTANTS
    RingLen = 8
    CacheSize = 2
    Masks = {0, 3}
    Lens = {2, 5}
    FifoSize = 6
    NumIds = 2
    PostSizes = {3}
    Split = TRUE
    BufLen = 2
    HdrLen = 2
    SplitPoint = 1
    Rdmts = 0
    Wthresh = 4
    Pthresh = 2
    Hthresh = 0
    Timers = {"radv"}
    RctlWrites = {}
    BytesInit = {0}
INVARIANTS
    CopyAsserts
    PacketsInOrder
    FifoCountExact
