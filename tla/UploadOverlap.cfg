SPECIFICATION Spec
CONSTANTS
    MinBlockSize = 4
    MaxOrder = 3
    PoolAlignment = 4
    Buffers <- StrideBuffers
    Size <- StrideSize
    Alignment <- StrideAlignment
    Programs <- StridePrograms
    SmallMax = 6
    DefaultPoolSize = 32
    MaxAllocationSize = 32
    PageUpdates = 2
    FrameLag = 2
    FastPageSize = 8
    MinPagesToRetain = 1
    FastFrameLag = 2
    NoPage = NoPage
    NoPool = NoPool
    NotRetired = NotRetired
INVARIANT NoOverlap
