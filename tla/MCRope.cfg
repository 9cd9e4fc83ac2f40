CONSTANTS
    Char = {x, nl}
    Newline = nl
    LeafMax = 2
    MaxLen = 5
    MaxBlank = 9
    MaxInsert = 3
SPECIFICATION Spec
INVARIANTS
    HoldsText
    LookupsRight
    StaysShallow
