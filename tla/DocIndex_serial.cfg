CONSTANTS
    blank = blank
    short = short
    long = long
    NoChunk = NoChunk
    NoHash = NoHash
    NoJob = NoJob
    Workers = {w1, w2}
    Docs = {d1}
    Contents = {blank, short, long}
    Chunks <- MCChunks
    MaxChunks = 2
    PurposeSets = {support, audit}
    Collections = {default, hr}
    Existing = {default}
    Kinds = {"delta"}
    Serial = TRUE
    MaxFaults = 2
SPECIFICATION FairSpec
INVARIANTS
    TypeOK
    WholeOrAbsent
    DeltaAnswerIsCurrent
PROPERTIES
    ReplacesByRemoval
    ResendRepairs
