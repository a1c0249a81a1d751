SPECIFICATION Spec
CONSTANTS
    Stdout = Stdout
    Stderr = Stderr
    Sessions = {a1}
    NoSession = NoSession
    Readers = {r1}
    PtyChoices = {FALSE}
    MaxUnits = 2
    PipeCap = 1
    QueueCap = 1
    ChunkSize = 2
    LiveCap = 1
    MaxFaults = 0
CHECK_DEADLOCK FALSE
INVARIANT NoSendOnClosed
