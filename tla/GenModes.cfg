SPECIFICATION FairSpec
CONSTANTS
    Modes = {"Static", "Increment", "Burst"}
    BootTicks = {0, 40}
    StartTick = 2
    StopTick = 34
    PacketRate = 5
    IncrementInterval = 2
    CheckLossInterval = 3
    LossLimit = 2
    LossWait = 18
    TicksPerSecond = 24
    BurstWidth = 10
    BurstGap = 7
    RateLimit = 64
    TicksPerByte = 1
    LinkDelay = 5
    DelayVar = 1
    PacketLen = 1
    ServeTimes = {1}
    Drops = TRUE
    MaxRestores = 1
    MaxTick = 110
INVARIANTS
    AtMostOneLateSend
    LinkInStep
    PathInOrder
    CountsExact
PROPERTIES
    
    EventuallySilent
