CONSTANTS
    MaxFrame = 4
    MaxUpload = 1
    TaskSlots = 4
SPECIFICATION Spec
INVARIANT SlotsSuffice
CHECK_DEADLOCK FALSE
