SPECIFICATION Spec
CONSTANTS
    v1 = v1
    v2 = v2
    n1 = n1
    Vic = {v1, v2}
    Name = {n1}
    Main = Main
    None = None
    Mixed = TRUE
INVARIANT
    LinksConnected
CHECK_DEADLOCK FALSE
