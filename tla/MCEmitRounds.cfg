CONSTANTS
    Type <- MCType
    Simple <- OwnNames
    Texts <- MCTexts
    MaxRounds = 3
    MaxBytes = 9
    MaxEmits = 2
SPECIFICATION Spec
INVARIANTS
    SplicedOnce
    NothingDropped
    CapsHold
CHECK_DEADLOCK FALSE
