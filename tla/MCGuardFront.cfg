CONSTANTS
    Thread = {t1, t2}
    DepthMod = 4
    MaxNest = 2
    MaxCalls = 2
    MaxUnpaired = 1
    MaxOps = 4
    MaxDumps = 1
    MaxBlocks = 2
    MaxWork = 4
SYMMETRY Symmetry
SPECIFICATION Spec
INVARIANTS
    ReportRight
    FreesGoHome
    CountersMatchEntries
    DepthCountsBrackets
    QuietSnapshotConsistent
CHECK_DEADLOCK FALSE
