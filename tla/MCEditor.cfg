CONSTANTS
    a = a
    Bom = bom
    Char <- MCChar
    Pasted <- MCPasted
    Files <- MCFiles
    UndoCap = 2
    MaxLen = 3
    MaxRedo = 2
    MaxEdits = 3
    MaxAstray = 1
SPECIFICATION Spec
INVARIANTS
    UndoFits
    RedoFits
    CursorInText
    CleanIsSaved
