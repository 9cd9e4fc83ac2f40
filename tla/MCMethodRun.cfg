CONSTANTS
    Outer = p
    Inner = q
    MaxDepth = 5
    MaxTurns = 1
    Dialects <- AllDialects
    Written <- BodiesOf
SPECIFICATION Spec
INVARIANTS
    AlarmsTrue
    LeaksTrue
    NoSilentDoubleFree
    DirectDominates
    FreedOnce
    FreedInTheEnd
    DefersInOrder
CHECK_DEADLOCK FALSE
