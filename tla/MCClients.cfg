SPECIFICATION Spec
CONSTANTS
    Jobs = {1, 2}
    Transfers = {}
    Interactive = {}
    NoJob = NoJob
    OthersDelete = FALSE
    MaxInFlight = 2
    MaxSessions = 2
    MaxOutputs = 1
    MaxChunks = 2
    Window = 1
    MaxFrames = 2
    MaxLive = 1
    Buffer = 1
INVARIANTS
    SuccessMeansWhole
    DrainedMeansFinished
    WrittenMeansDelivered
PROPERTIES
    DetailCatchesUp
    AttachLearnsExit
    TransfersEnd
    LeavingFreesAttachment
CHECK_DEADLOCK FALSE
