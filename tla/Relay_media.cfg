SPECIFICATION FairSpec
CONSTANTS
    Calls <- MCCalls
    Sessions <- MCSessions
    Capacity = 1
    FrameSize = 2
    ChunkSizes <- MCChunkSizes
    Loads <- MCLoads
INVARIANTS
    TypeOK
    PeerFramesKept
    QuietAfterStop
    CameraOffIsOff
    MicKept
    FormatsSound
PROPERTIES
    HeardInOrder
    PeerHeard
    
CHECK_DEADLOCK FALSE
