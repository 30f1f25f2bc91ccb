SPECIFICATION Spec
CONSTANTS
    Nics = {n1, n2}
    Lens = {2}
    FifoSize = 3
    RxRingLen = 2
    TxRingLen = 2
    TxFullAt = 1
    MaxArrivals = 3
INVARIANT CoreDropsBounded
