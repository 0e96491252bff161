SPECIFICATION FairSpec
CONSTANTS
    v1 = v1
    Vic = {v1}
    Main = Main
    None = None
    EarlyTool = FALSE
    Finish = "before"
    StdinReady = FALSE
PROPERTIES
    WaitReturns
CHECK_DEADLOCK FALSE
