CONSTANTS
    x1 = x1
    o1 = o1
    o2 = o2
    o3 = o3
    o4 = o4
    o5 = o5
    None = None
    MaxScheduler = 2
    External <- OneExternal
    Operation <- FiveOperations
    Agenda <- ForkAgenda
    InitialQueueSize = 2
    MaxQueueSize = 4
SPECIFICATION Spec
INVARIANT NobodySleepsOverWork
CHECK_DEADLOCK FALSE
