CONSTANTS
    Tenants = {"acme"}
    Envs = {"prod", "dev"}
    Roles = {"adjuster", "underwriter"}
    DocTypes = {"claim"}
    NoNarrowing = NoNarrowing
    ChunkIds = {"claim#0", "claim#1", "policy#0"}
    Passages = {"denied", "memo", "premium", "ignore"}
    Chunks <- GroundingChunks
    Callers <- MCCallers
    Questions = {"sentence"}
    Similarity <- MCSimilarity
    NullQueries = {}
    Tainted = {"ignore"}
    Wordless = {}
    Lines <- MCLines
    StrayMarks = {}
    Replies <- AllReplies
    Llm = "bedrock"
    RetrieveK = 2
    RerankK = 2
    ThresholdNum = 3
    ThresholdDen = 5
    Exact = FALSE
    Reranker = "none"
    OtherRecords = {}
    MaxOthers = 0
    Abstention = Abstention
    NoAnswer = NoAnswer
    NoScore = NoScore
SPECIFICATION Spec
CHECK_DEADLOCK FALSE
INVARIANT TraceableOrNoAnswer
