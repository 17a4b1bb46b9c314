SPECIFICATION Spec
CONSTANTS
    NodeKinds = {"Root"}
    TokenKinds = {"Ident", "Plus"}
    Variants <- MCVariants
    Data = {"+", "id", "raw", "bad"}
    Utf8 = {"+", "id", "bad"}
    ValidData = {"+", "id", "raw"}
    StaticData <- MCStaticData
    NoData = NoData
    Trees <- MCTrees
    Values = {"x", "y"}
    NoValue = NoValue
    DebugAssertions = TRUE
    ForeignEvents <- MCForeignEvents
    MaxEvents = 6
    MaxData = 2
    MaxSteps = 8
    MaxWrites = 3
INVARIANTS TreeRoundTrip DataRoundTrip AcceptedFaithful
CHECK_DEADLOCK FALSE
