SPECIFICATION HSpec
CONSTANTS
    NodeKinds = {"Root"}
    TokenKinds = {Ident, Dot}
    Ident = Ident
    Dot = Dot
    Data = {"id"}
    ValidData = {"id"}
    NoData = NoData
    StaticData <- MCStaticData
    ByteLen <- MCByteLen
    ChildHash <- MCInjectiveHash
    CacheThreshold = 1
    MaxKeys = 1
    U32 = 4
    DebugAssertions = TRUE
    MaxDepth = 2
    MaxChildren = 2
    MaxHeap = 3
    MaxCheckpoints = 2
INVARIANTS ParentsNested ValidCheckpointsRestore BalancedUseNeverPanics
PROPERTIES RevertIsRestore StartNodeAtWraps ImplementsTreeBuilder
SYMMETRY KindsInterchangeable
CHECK_DEADLOCK FALSE
