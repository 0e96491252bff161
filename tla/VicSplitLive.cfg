SPECIFICATION FairSpec
CONSTANTS
    v1 = v1
    v2 = v2
    Vic = {v1, v2}
    Main = Main
    None = None
    EarlyTool = FALSE
    Finish = "after"
    StdinReady = FALSE
PROPERTIES
    SplitCompletes
    WaitReturns
CHECK_DEADLOCK FALSE
