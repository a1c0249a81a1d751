SPECIFICATION Spec
CONSTANTS
    Stdout = Stdout
    Stderr = Stderr
    Sessions = {a1, a2}
    NoSession = NoSession
    Readers = {}
    PtyChoices = {TRUE, FALSE}
    MaxUnits = 2
    PipeCap = 1
    QueueCap = 1
    ChunkSize = 2
    LiveCap = 2
    MaxFaults = 0
SYMMETRY Symmetry
CHECK_DEADLOCK FALSE
INVARIANTS
    TypeOK
    StagesInOrder
    ResumeIsExact
    AttachHasNoGap
    LiveInSourceOrder
    AttachmentIsKept
    EofAfterOutcome
