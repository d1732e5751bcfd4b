CONSTANTS
    blank = blank
    short = short
    long = long
    NoChunk = NoChunk
    NoHash = NoHash
    NoJob = NoJob
    Workers = {w1, w2}
    Docs = {d1}
    Contents = {blank, short, long}
    Chunks <- MCChunks
    MaxChunks = 2
    PurposeSets = {support}
    Collections = {default}
    Existing = {default}
    Kinds = {"delta"}
    Serial = FALSE
    MaxFaults = 0
SPECIFICATION Spec
INVARIANTS
    NoMixedVersions
