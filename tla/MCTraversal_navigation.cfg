SPECIFICATION Spec
CONSTANTS
    MaxSize = 5
    TokenLens <- MCTokenLens
    Kinds <- MCKinds
    Kind <- MCKind
INVARIANTS SlotsFaithful NeverPanics NeighboursFaithful TokensInOrder TokenAtOffsetFaithful CoveringFaithful WalkInOrder DebugFaithful ReplaceFaithful
