SPECIFICATION Spec
CONSTANTS
    t1 = t1
    t2 = t2
    t3 = t3
    Thread = {t1, t2, t3}
    Mortal = {t1, t2, t3}
    None = None
    GuardedHeap = FALSE
    NestedCalls = TRUE
SYMMETRY Perms
INVARIANTS
    TypeOK
    OneToken
    TokenLostToExitedOnly
    HolderNotSuspended
    DisabledNotInterrupted
    LastRequestWins
PROPERTIES
    BlockedAfterDispatch
    Pauses
CHECK_DEADLOCK FALSE
