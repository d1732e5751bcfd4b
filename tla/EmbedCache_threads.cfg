CONSTANTS
    Threads = {t1, t2, t3}
    Texts = {x1, x2, x3, x4}
    MaxSize = 1
    NoText = NoText
SYMMETRY Symmetric
SPECIFICATION Spec
INVARIANTS
    TypeOK
    SizeBound
    OnlyCrossedFail
