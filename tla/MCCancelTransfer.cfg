SPECIFICATION Spec
CONSTANTS
    Ids = {i1}
    Owners = {alice}
    Handlers = {h1, h2}
    NoId = NoId
    Refusing = {}
    Locks = {}
    MaxCrashes = 0
    MaxFaults = 0
PROPERTIES
    CancelReachesTransfers
