SPECIFICATION Spec
CONSTANTS
    Ids = {i1, i2}
    Owners = {alice, bob}
    Handlers = {h1, h2}
    NoId = NoId
    Refusing = {i1, i2}
    Locks = {}
    MaxCrashes = 1
    MaxFaults = 1
SYMMETRY Symmetry
INVARIANTS
    TypeOK
    LiveIsVisible
    RegistryTracksRows
    RunningIsManaged
    OutcomeIsTheWaiters
PROPERTIES
    OnlyOwnerActs
    HistorySpec
