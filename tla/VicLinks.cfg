SPECIFICATION Spec
CONSTANTS
    v1 = v1
    v2 = v2
    v3 = v3
    n1 = n1
    n2 = n2
    Vic = {v1, v2, v3}
    Name = {n1, n2}
    Main = Main
    None = None
    Mixed = FALSE
SYMMETRY Perms
INVARIANTS
    TypeOK
    SocketsAtHome
    LinksConnected
    ChildrenFindThemselves
    CopiesAgree
