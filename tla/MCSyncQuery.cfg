CONSTANTS
    Thread = {t1, t2}
    Pane = {p1, p2}
    NoPane = NoPane
    MayClose = TRUE
    MayBlank = TRUE
    MaxBatches = 3
    MaxQueries = 2
SYMMETRY Symmetry
SPECIFICATION Spec
INVARIANTS
    OneReplyEach
    UnansweredHasSlot
PROPERTIES
    GivesUpWithReason
    
CHECK_DEADLOCK FALSE
