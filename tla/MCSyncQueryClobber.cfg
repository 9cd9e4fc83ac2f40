CONSTANTS
    Thread = {t1}
    Pane = {p1}
    NoPane = NoPane
    MayClose = FALSE
    MayBlank = FALSE
    MaxBatches = 2
    MaxQueries = 2
SPECIFICATION Spec
PROPERTIES
    MeasureKeepsDrawing
CHECK_DEADLOCK FALSE
