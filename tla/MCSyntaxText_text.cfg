SPECIFICATION Spec
CONSTANTS
    Chars = {"a", "e"}
    Encode <- MCEncode
    Continuation = {3}
    NoBound = NoBound
    NodeStart = 1
    U32 = 8
    OverflowChecks = FALSE
    MaxTokens = 3
    MaxChars = 2
INVARIANTS ChunksFaithful SearchFaithful EqFaithful SliceFaithful
CHECK_DEADLOCK FALSE
