CONSTANTS
    back = back
    tex = tex
    depth = depth
    buf = buf
    Resource <- AllResources
    Count <- Counts
    DepthStencil <- DepthStencils
    Buffer <- Buffers
    Created <- CreatedIn
    Command <- Commands
    Requests <- RequestsOf
    BackBuffer = back
    MaxCommands = 4
SPECIFICATION Spec
INVARIANTS
    TypeOK
    BarriersMatch
    UsesFindState
    TrackingExact
    BarriersLegal
CHECK_DEADLOCK FALSE
