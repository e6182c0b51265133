SPECIFICATION FairSpec
CONSTANTS
    Nil = Nil
    a = a
    n1 = n1
    n2 = n2
    n3 = n3
    c1 = c1
    c2 = c2
    Seed = Seed
    SeedNode = n1
    Nodes = {n1, n2}
    Keys = {1}
    Values = {a}
    Calls = {c1, c2}
    Kinds = {"set", "del"}
    Shared = {1}
    Own1 = {2}
    Own2 = {}
    Readings <- MCReadings
CHECK_DEADLOCK FALSE
INVARIANTS
    TypeOK
    VersionsAgree
    LagBounded
PROPERTIES
    Converges
    ImplementsLWW
