CONSTANTS
    Window = {w1, w2}
    NoWindow = NoWindow
    Capacity = 1
    Patience = {"forever", "timed"}
    MaxEvents = 2
SPECIFICATION LiveSpec
INVARIANTS
    EventsConserved
    OrderKept
    NoMatchParked
PROPERTIES
    ShutdownReaches
