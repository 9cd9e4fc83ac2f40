CONSTANTS
    Outer = p
    Inner = q
    MaxDepth = 5
    MaxTurns = 1
    Dialects <- OnlyBranches
    Written <- BodiesOf
SPECIFICATION Spec
INVARIANTS
    FreedOnEveryEdge
CHECK_DEADLOCK FALSE
