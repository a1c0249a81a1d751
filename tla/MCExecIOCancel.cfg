\* One message larger than the child's input.
SPECIFICATION FairSpec
CONSTANTS
    Writers = {w1}
    Closers = {}
    Resizers = {}
    Free = Free
    MsgLen = 2
    InCap = 1
    OutCap = 1
CHECK_DEADLOCK FALSE
PROPERTIES
    CancelKills
