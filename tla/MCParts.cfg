SPECIFICATION Spec
CONSTANTS
    Widths = {0, 2}
    Heights = {1, 3}
    Counts = {0, 2, 3}
    Styles = {plain}
    PlainStyle = plain
    MaxPrints = 1
    MaxResizes = 1
    Jobs = {1, 2}
    Transfers = {}
    Interactive = {1, 2}
    NoJob = NoJob
    OthersDelete = TRUE
    MaxInFlight = 2
    MaxFlags = 2
INVARIANTS
    TermTypeOK
    FocusFitsSection
PROPERTIES
    TextStaysInMargins
    PrimarySurvivesAlt
    
    PromptKeepsTarget
    RefreshKeepsSelection
    ServiceRunsAsForeground
CHECK_DEADLOCK FALSE
