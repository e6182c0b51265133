SPECIFICATION Spec
CONSTANTS
    Nil = Nil
    n1 = n1
    n2 = n2
    Nodes = {n1, n2}
    Seed = Seed
    SeedNode = n1
    SeedListed = FALSE
    Window = 1
    MaxTime = 2
    MaxPings = 1
    MaxFaults = 1
    MaxStray = 1
CHECK_DEADLOCK FALSE
INVARIANTS
    SuspicionHasCause
PROPERTIES
    DeadAfterWindow
