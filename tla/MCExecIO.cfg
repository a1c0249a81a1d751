\* Two messages of two units, and an EOT with the second, through an input of two
\* units: the first alone just fits. The child need not read.
SPECIFICATION FairSpec
CONSTANTS
    Writers = {w1, w2}
    Closers = {w2}
    Resizers = {z1, z2}
    Free = Free
    MsgLen = 2
    InCap = 2
    OutCap = 1
CHECK_DEADLOCK FALSE
INVARIANTS
    TypeOK
    MessagesStayWhole
    SizesAgree
    NoWriteWaits
PROPERTIES
    InputOnlyWhileOpen
    CancelEndsChild
    CallsReturn
