SPECIFICATION Spec
CONSTANTS
    Trees = {T1, T2}
    Handles = {h1, h2, h3}
    NoView = NoView
    Size = 4
    Parent <- MCParent
    TokenAt = {2, 4}
INVARIANTS GuaranteedResolver
CHECK_DEADLOCK FALSE
