CONSTANTS
    InBufferSize = 80
    TempBufferSize = 5
    ArrivalSizes = {1, 6}
    MaxPending = 7
    MaxFrame = 80
    PassCapacity = 5
    MaxFrames = 2
    FirstSamples = {1, 2, 3}
    Followers <- FollowerSamples
SPECIFICATION StreamSpec
INVARIANTS
    TypeOK
    NoByteMissing
    MemoryBounded
    FramesArriveInOrder
    NothingStuck
    StopsOnlyWhenTold
    OverflowOnlyAfterStop
PROPERTIES
    SizeDeclared
