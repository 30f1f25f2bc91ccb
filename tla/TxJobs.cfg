SPECIFICATION Spec
CONSTANTS
    RingLen = 4
    CacheSize = 4
    Masks = {0, 3}
    Jobs <- MixedJobs
    FifoSize = 5
    NumIds = 2
    Wthresh = 4
    Timers = {"tidv"}
    TctlWrites = {TRUE, FALSE}
    AtomicMem = FALSE
    MaxDrains = 0
INVARIANTS
    TxAsserts
    ReserveExact
    NoLostWakeup
    WireExact
PROPERTY
    ImplementsRing
CHECK_DEADLOCK FALSE
