CONSTANTS
    Updates <- MCUpdates
    Collections = {"hr", "docs"}
    Col <- MCCol
    Vectors = {1, 2, 3, 4}
    Batch <- MCBatch
SPECIFICATION Spec
CHECK_DEADLOCK FALSE
INVARIANTS
    TypeOK
    CountMatches
    OwnVectors
    LossExplained
    GiveUpExplained
