CONSTANTS
    Threads = {t1, t2, t3, t4, t5}
    NoThread = noThread
    Deleted = deleted
SPECIFICATION MonitorFairSpec
CHECK_DEADLOCK FALSE
INVARIANTS MutualExclusion HolderIsInside SignalNotMissed
PROPERTIES BroadcastEnds
