CONSTANTS
    Capacities = {0, 2}
    MaxCalls = 3
    MaxFlushes = 2
    Ok = Ok
    FlushFailed = FlushFailed
    Unavailable = Unavailable
SPECIFICATION FairSpec
INVARIANTS
    FlushServed
    ChannelOrder
    EveryCallCounted
    FlushContract
    NothingLostSilently
    DropDrains
PROPERTIES
    RefinesContract
    CallsReturn
CHECK_DEADLOCK FALSE
