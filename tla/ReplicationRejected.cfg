SPECIFICATION Spec
CONSTANTS
    Nil = Nil
    a = a
    b = b
    n1 = n1
    n2 = n2
    n3 = n3
    c1 = c1
    c2 = c2
    Seed = Seed
    SeedNode = n1
    Nodes = {n1, n2}
    Keys = {1}
    Values = {a, b}
    Calls = {c1, c2}
    Kinds = {"set"}
    Shared = {}
    Own1 = {1}
    Own2 = {2}
    Readings <- MCReadings
CHECK_DEADLOCK FALSE
SYMMETRY Symmetry
INVARIANTS
    ValuesAgree
