SPECIFICATION FairSpec
CONSTANTS
    Causes = {"RXT0", "TXDW", "RXO"}
    RxTimers = {"radv"}
    TxTimers = {"tidv"}
    Iame = TRUE
    Itrs = {0, 1, 2}
    MaxItr = 2
    Writes = {{"RXT0"}, {"RXT0", "TXDW", "RXO"}}
INVARIANTS
    NoLostInterrupt
    LineHasCause
    NoLostCause
    Throttled
PROPERTY
    Delivered
