CONSTANTS
    k1 = k1
    k2 = k2
    r1 = r1
    Keys = {k1, k2}
    Roles = {r1}
    NoAcl = NoAcl
    MaxChunks = 2
    Tables = {"claim", "notes"}
    ConfiguredTables = {"claim"}
    DefaultAcl <- MCDefaultAcl
    Scopes <- OneScope
    Namespace <- MCNamespace
    Batches <- K1Changes
    Workers = {w1}
    MaxBatches = 2
    MaxAttempts = 1
    MaxStrays = 0
    MaxRedeliveries = 0
    Sequential = FALSE
SPECIFICATION Spec
CHECK_DEADLOCK FALSE
INVARIANT TombstoneHonoured
