CONSTANTS
    White = White
    MaxBlocks = 4
    MaxChars = 6
    OverlapChars = 1
    MinChars = 3
    Documents <- MCDocuments
SPECIFICATION Spec
INVARIANTS
    TypeOK
    Located
    ReadsBack
    PIIWhole
    SizeBound
    AncestorsOnly
PROPERTIES
    CutsAdvance
