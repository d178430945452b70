CONSTANTS
    c1 = c1
    c2 = c2
    Coroutine = {c1, c2}
    TaskOrder <- TwoTasks
    IOThread = {io1, io2}
    Main = main
    NoCoroutine = NoCoroutine
    Workloads <- AllWorkloads
    BufferSize = 3
    MaxFaults = 1
    MaxRefusals = 3
SPECIFICATION FairSpec
CHECK_DEADLOCK FALSE
INVARIANTS
    TypeOK
    OneThreadPerCoroutine
    ResumedAfterTasks
    FramesOutliveUse
    ScheduledKept
PROPERTIES
    SyncWaitReturns
    IsByteStreams
