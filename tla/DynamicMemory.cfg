SPECIFICATION Spec
CONSTANTS
    v1 = v1
    v2 = v2
    Vic = {v1, v2}
    Main = Main
    None = None
    Bare = TRUE
    MaxKey = 1
    MaxHeld = 2
    MaxWrites = 1
    MaxMerges = 1
SYMMETRY Perms
INVARIANTS
    TypeOK
    PointersValid
    NoUpdateLost
    OnlyBareAllocationDisturbed
PROPERTIES
    NoBlockReused
    Migrates
CHECK_DEADLOCK FALSE
