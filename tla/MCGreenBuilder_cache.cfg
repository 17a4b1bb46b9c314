SPECIFICATION Spec
CONSTANTS
    NodeKinds = {"Root"}
    TokenKinds = {"Plus", "Ident"}
    Data = {"+", "id", "if", "bad"}
    ValidData = {"+", "id", "if"}
    NoData = NoData
    StaticData <- MCStaticData
    ByteLen <- MCByteLen
    ChildHash <- MCCollidingHash
    CacheThreshold = 1
    MaxKeys = 2
    U32 = 4
    DebugAssertions = FALSE
    MaxDepth = 2
    MaxChildren = 2
    MaxHeap = 3
    MaxCheckpoints = 1
INVARIANTS TypeOK Deduplicated InternerInjective TextLenFaithful TextEqSound
PROPERTIES KeysStable
CHECK_DEADLOCK FALSE
