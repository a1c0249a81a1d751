\* One caller, one execution and no crash or fault: what must happen when nothing
\* breaks, while other requests hold and free the locks at any time.
SPECIFICATION FairSpec
CONSTANTS
    Ids = {i1}
    Owners = {alice}
    Handlers = {h1, h2, h3}
    NoId = NoId
    Refusing = {}
    Locks = {i1, "store"}
    MaxCrashes = 0
    MaxFaults = 0
PROPERTIES
    CancelTakesEffect
    RequestsAreAnswered
