SPECIFICATION FairSpec
CONSTANTS
    Ports = {n1, n2}
    NoPort = NoPort
    NoLine = NoLine
    LineSize = 2
    Lines = {0, 1}
    NumMshrs = 2
    NumTargets = 2
    NumWrites = 1
    Dmas <- BusDmas
    MaxBytes = 7
CHECK_DEADLOCK FALSE
INVARIANTS
    BusAsserts
    RetryOwed
    BytesExact
    DrainedIsEmpty
    WriteBufferFits
PROPERTY
    EveryDmaCompletes
