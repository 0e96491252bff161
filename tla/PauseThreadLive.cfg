SPECIFICATION FairSpec
CONSTANTS
    t1 = t1
    t2 = t2
    Thread = {t1, t2}
    Mortal = {}
    None = None
    GuardedHeap = TRUE
    NestedCalls = FALSE
INVARIANT
    NoSelfDeadlock
PROPERTIES
    TokenReturns
    ResumeTakesEffect
CHECK_DEADLOCK FALSE
