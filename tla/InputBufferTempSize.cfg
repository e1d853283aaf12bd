\* The sizes of connectionhandler.h: 8 * 1024 * 1024 and 1 * 024 * 1024.
CONSTANTS
    InBufferSize = 8388608
    TempBufferSize = 20480
    ArrivalSizes = {1048576}
    MaxPending = 1048576
SPECIFICATION Spec
PROPERTIES
    ReadsMegabyteChunks
