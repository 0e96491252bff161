SPECIFICATION Spec
CONSTANTS
    v1 = v1
    v2 = v2
    v3 = v3
    Vic = {v1, v2, v3}
    Main = Main
    None = None
    Finish = "any"
    StdinReady = TRUE
SYMMETRY Perms
INVARIANTS
    TypeOK
    SocketsOpenInCriticalSection
    BacktraceBeforeReady
    StackMatchesExport
    NoFlowLeftLocked
PROPERTIES
    NoFlowLost
    Migrates
CHECK_DEADLOCK FALSE
