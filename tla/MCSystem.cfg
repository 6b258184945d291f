CONSTANTS
    k1 = k1
    k2 = k2
    r1 = r1
    r2 = r2
    Keys = {k1, k2}
    Roles = {r1, r2}
    NoAcl = NoAcl
    MaxChunks = 2
    Tables = {"claim"}
    ConfiguredTables = {"claim"}
    DefaultAcl <- MCDefaultAcl
    Scopes <- MCScopes
    Namespace <- MCNamespace
    Batches <- MCBatches
    Workers = {w1}
    MaxBatches = 2
    MaxAttempts = 2
    MaxStrays = 1
    MaxRedeliveries = 0
    Sequential = TRUE
    Tenants = {"acme"}
    Envs = {"prod"}
    NoNarrowing = NoNarrowing
    Callers <- MCCallers
    Questions = {"only keywords"}
    Similarity <- MCSimilarity
    NullQueries = {}
    Tainted = {}
    Wordless = {}
    Lines <- MCLines
    StrayMarks = {3}
    Replies <- MCReplies
    Llm = "local"
    RetrieveK = 2
    RerankK = 2
    ThresholdNum = 3
    ThresholdDen = 5
    Exact = TRUE
    Reranker = "none"
    OtherRecords = {}
    MaxOthers = 0
    Abstention = Abstention
    NoAnswer = NoAnswer
    NoScore = NoScore
SPECIFICATION SystemSpec
CHECK_DEADLOCK FALSE
INVARIANTS
    ShownAsCommitted
    OnlyLeftoversShown
    TombstoneHonoured
    LatestStateWritten
    EchoesCite
PROPERTY ImplementsQuery
