CONSTANTS
    MaxFrame = 4
    MaxUpload = 2
    TaskSlots = 4
SPECIFICATION FairSpec
INVARIANTS
    TypeOK
    CommandsInOrder
    OneFrameAhead
    SlotsSufficeForFrames
PROPERTY FramesPresented
CHECK_DEADLOCK FALSE
