SPECIFICATION Spec
CONSTANTS
    Threads = {t1, t2, t3}
    Handles = {h1, h2}
    NoOwner = NoOwner
    Creator = t1
    Size = 3
    Parent <- MCParent
    TokenAt = {3}
    U32 = 64
INVARIANTS CountExact NoUseAfterFree TornDownOnce UnwrapSucceeds NoLeak
PROPERTIES ImplementsSharedTree EventuallyFreed OperationsReturn
