CONSTANTS
    Tenants = {"acme"}
    Envs = {"prod", "dev"}
    Roles = {"adjuster", "underwriter"}
    DocTypes = {"claim"}
    NoNarrowing = NoNarrowing
    ChunkIds = {"claim#0", "claim#1", "policy#0"}
    Passages = {"denied", "memo", "premium", "ignore"}
    Chunks <- StoreChunks
    Callers <- MCCallers
    Questions = {"blank", "only keywords", "sentence"}
    Similarity <- MCSimilarity
    NullQueries = {"details"}
    Tainted = {"ignore"}
    Wordless = {}
    Lines <- MCLines
    StrayMarks = {}
    Replies <- MainReplies
    Llm = "bedrock"
    RetrieveK = 2
    RerankK = 2
    ThresholdNum = 3
    ThresholdDen = 5
    Exact = TRUE
    Reranker = "bedrock"
    OtherRecords <- MCOtherRecords
    MaxOthers = 1
    Abstention = Abstention
    NoAnswer = NoAnswer
    NoScore = NoScore
SPECIFICATION Spec
CHECK_DEADLOCK FALSE
INVARIANTS
    TypeOK
    OnlyReadableShown
    ContextWellFormed
    AnswersGrounded
    NoRolesNoAnswer
    AnswersAudited
PROPERTIES
    RestrictedHaveNoInfluence
    QueryEnds
