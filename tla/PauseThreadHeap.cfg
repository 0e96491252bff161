SPECIFICATION Spec
CONSTANTS
    t1 = t1
    t2 = t2
    Thread = {t1, t2}
    Mortal = {}
    None = None
    GuardedHeap = FALSE
    NestedCalls = FALSE
INVARIANT
    NoSelfDeadlock
CHECK_DEADLOCK FALSE
