SPECIFICATION Spec
CONSTANTS
    MaxSize = 5
    TokenLens <- MCTokenLens
    Kinds <- MCKinds
    Kind <- MCKind
INVARIANTS IterLenExact
