SPECIFICATION Spec
CONSTANTS
    v1 = v1
    v2 = v2
    Vic = {v1, v2}
    Main = Main
    None = None
    EarlyTool = TRUE
    Finish = "ontime"
    StdinReady = TRUE
SYMMETRY Perms
INVARIANTS
    TypeOK
    SocketsOpenInCriticalSection
    NoFlowLeftLocked
    FrozenOutsideCriticalSection
    FlowRunsOnce
    PollsRightHandle
PROPERTY
    Migrates
CHECK_DEADLOCK FALSE
