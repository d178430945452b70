CONSTANTS
    direct = direct
    async = async
    t1 = t1
    t2 = t2
    p1 = p1
    p2 = p2
    p3 = p3
    NoPayload = NoPayload
    Queue <- MCQueue
    QueueOrder <- MCQueueOrder
    GraphicsQueue <- MCGraphicsQueue
    EngineThread <- MCEngineThread
    Payload <- MCPayload
    Workloads <- FlushWorkloads
SPECIFICATION Spec
PROPERTY CompletionFlushBlocks
CHECK_DEADLOCK FALSE
