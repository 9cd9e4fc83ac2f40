CONSTANTS
    Outer = p
    Inner = q
    MaxDepth = 5
    MaxTurns = 1
    Dialects <- OnlySwitchArms
    Written <- BodiesOf
SPECIFICATION Spec
INVARIANTS
    LeaksOnEveryPath
CHECK_DEADLOCK FALSE
