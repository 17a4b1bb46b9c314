SPECIFICATION Spec
CONSTANTS
    MaxVariants = 2
    ReprAttrs <- MCReprAttrs
    SyntaxAttrs <- MCSyntaxAttrs
    StaticAttrs <- MCStaticAttrs
    Discriminants <- MCDiscriminants
INVARIANTS TransmuteSound DefectsReported
CHECK_DEADLOCK FALSE
