CONSTANTS
    k1 = k1
    k2 = k2
    r1 = r1
    Keys = {k1, k2}
    Roles = {r1}
    NoAcl = NoAcl
    MaxChunks = 2
    Tables = {"claim", "notes"}
    ConfiguredTables = {"claim"}
    DefaultAcl <- MCDefaultAcl
    Scopes <- TwoScopes
    Namespace <- MCNamespace
    Batches <- EventBatches
    Workers = {w1, w2}
    MaxBatches = 2
    MaxAttempts = 2
    MaxStrays = 1
    MaxRedeliveries = 1
    Sequential = FALSE
SPECIFICATION Spec
CHECK_DEADLOCK FALSE
INVARIANTS
    OneChunkPerSlot
    NothingForgotten
    CompletedRecordsPresent
PROPERTIES
    RefinesPromise
    NamespaceIsolation
    EveryEventSettles
