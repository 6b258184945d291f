CONSTANTS
    Tenants = {"a", "a__b"}
    Envs = {"c", "b__c"}
    Roles = {"adjuster", "underwriter"}
    DocTypes = {"claim", "memo"}
    NoNarrowing = NoNarrowing
    DocIds = {"claim", "memo"}
    ChunkIds = {"claim#0", "claim#1", "memo#0"}
    Namespace <- MCNamespace
    Upserts <- MCUpserts
SPECIFICATION Spec
CHECK_DEADLOCK FALSE
INVARIANTS
    StoresAgree
    RetrievalIsolated
    ReadableIsFound
