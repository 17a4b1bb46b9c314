SPECIFICATION Spec
CONSTANTS
    NodeKinds = {"Root"}
    TokenKinds = {"Plus", "Ident"}
    Data = {"+", "id", "if", "bad"}
    ValidData = {"+", "id", "if"}
    NoData = NoData
    StaticData <- MCStaticData
    ByteLen <- MCByteLen
    ChildHash <- MCInjectiveHash
    CacheThreshold = 1
    MaxKeys = 2
    U32 = 4
    DebugAssertions = TRUE
    MaxDepth = 2
    MaxChildren = 2
    MaxHeap = 4
    MaxCheckpoints = 0
INVARIANTS TextEqAnswers
CHECK_DEADLOCK FALSE
