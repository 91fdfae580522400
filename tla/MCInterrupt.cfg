CONSTANTS
    disk = disk
    net = net
    timer = timer
    Devices = {disk, net}
    Timer = timer
    Delays <- MCDelays
    SystemTick = 3
    UserTick = 1
    MaxTicks = 13
SPECIFICATION FairSpec
CHECK_DEADLOCK FALSE
INVARIANTS TypeOK InterruptsOnTime PendingSorted TimerPending TicksAccounted
PROPERTIES HandlersEnd
