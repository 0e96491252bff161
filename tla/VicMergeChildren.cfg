SPECIFICATION Spec
CONSTANTS
    v1 = v1
    v2 = v2
    Vic = {v1, v2}
    Main = Main
    None = None
    Finish = "any"
    StdinReady = FALSE
INVARIANT
    ChildrenMatchThreads
CHECK_DEADLOCK FALSE
