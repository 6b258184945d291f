CONSTANTS
    ChunkIds = {"a#0", "a#1", "b#0"}
    DocOf <- MCDocOf
    Dims = {1, 2}
    Upserts <- MCUpserts
    Clients = 2
    MaxCalls = 3
SPECIFICATION Spec
CHECK_DEADLOCK FALSE
INVARIANTS
    TypeOK
    DeleteIsEffective
    NoCallUndone
    SearchesSeeFinishedCalls
    DocumentsSearchable
    RaceLostOnce
PROPERTY ActsAtOnce
