SPECIFICATION FairGattSpec
CONSTANTS
    Priorities = {0, 1}
    Sizes = {1, 2}
    MaxQueued = 4
    NativeSlots = 1
    MaxWrites = 3
    MaxRefusals = 1
    Undrained = Undrained
INVARIANTS
    GattTypeOK
    QueueExact
    OneFrameAtATime
    QueuedSizeExact
    FramesWhole
PROPERTIES
    ImplementsContract
    EveryWriteAnswered
CHECK_DEADLOCK FALSE
