SPECIFICATION FairSpec
CONSTANTS
    v1 = v1
    v2 = v2
    Vic = {v1, v2}
    Main = Main
    None = None
    Finish = "after"
    StdinReady = FALSE
PROPERTIES
    MergeCompletes
    WaitReturns
CHECK_DEADLOCK FALSE
