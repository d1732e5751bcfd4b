CONSTANTS
    NoRound = NoRound
    Docs = {d1, d2}
    MaxScore = 1
    TopK = 1
    MaxFound = 2
    LoopEnabled = FALSE
    MaxIterations = 1
    QualityAt = 2
    UncertainAt = 1
    MinScore = 1
    Purposed = TRUE
    SubQueries = {q1, q2}
SPECIFICATION Spec
INVARIANTS
    PurposeRespected
