CONSTANTS
    NoRound = NoRound
    Docs = {d1, d2, d3}
    MaxScore = 2
    TopK = 2
    MaxFound = 2
    LoopEnabled = TRUE
    MaxIterations = 3
    QualityAt = 2
    UncertainAt = 1
    MinScore = 1
    Purposed = TRUE
    SubQueries = {q1, q2}
SPECIFICATION Spec
INVARIANTS
    TypeOK
    LoopRespectsPurpose
    BestOfMergedRounds
    FailureDegrades
