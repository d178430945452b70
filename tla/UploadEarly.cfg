SPECIFICATION Spec
CONSTANTS
    MinBlockSize = 4
    MaxOrder = 3
    PoolAlignment = 4
    Buffers <- HeapBuffers
    Size <- HeapSize
    Alignment <- HeapAlignment
    Programs <- HeapPrograms
    SmallMax = 6
    DefaultPoolSize = 24
    MaxAllocationSize = 32
    PageUpdates = 2
    FrameLag = 2
    FastPageSize = 8
    MinPagesToRetain = 1
    FastFrameLag = 2
    NoPage = NoPage
    NoPool = NoPool
    NotRetired = NotRetired
INVARIANT HeldUntilExecuted
