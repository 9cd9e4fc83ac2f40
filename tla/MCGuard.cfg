CONSTANTS
    NumPages = 5
    PageSize = 4
    HeaderSize = 2
    RangePages = 2
    GenMod = 4
    Phase = {Comptime}
    Comptime = Comptime
    Thread = {t1, t2}
    Size = {0, 2, 3, 4}
    MaxResets = 1
SYMMETRY Symmetry
SPECIFICATION Spec
INVARIANTS
    LiveIsBacked
    FreedFaults
    ExtentsDisjoint
    CountersAgree
    BytesAgree
    BitsAgree
    GenerationsAgree
PROPERTIES
    KeepsPromise
CHECK_DEADLOCK FALSE
