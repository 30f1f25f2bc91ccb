SPECIFICATION Spec
CONSTANTS
    RingLen = 8
    CacheSize = 2
    Masks = {0, 3}
    Lens = {1}
    FifoSize = 3
    NumIds = 3
    PostSizes = {1, 7}
    Split = FALSE
    BufLen = 4
    HdrLen = 0
    SplitPoint = 1
    Rdmts = 0
    Wthresh = 4
    Pthresh = 2
    Hthresh = 0
    Timers = {}
    RctlWrites = {}
    BytesInit = {0}
INVARIANT
    QuietCardReturnedAll
