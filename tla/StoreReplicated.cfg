SPECIFICATION Spec
CONSTANTS
    Nil = Nil
    a = a
    b = b
    t1 = t1
    t2 = t2
    Keys = {1}
    Values = {a, b}
    Threads = {t1, t2}
    ShardCount = 1
    Calls = {"set"}
    TTLs = {0}
    Versions = {0, 1, 3}
    Compaction = TRUE
    Tails = {"none", "full"}
    ClockSetBack = FALSE
    MaxTime = 2
    MaxCalls = 3
    MaxCrashes = 1
    MaxFaults = 1
    MaxStops = 0
    ShardOf <- MCShardOf
    Budget <- MCBudget
SYMMETRY Symmetry
INVARIANTS
    NewestWins
    Durable
PROPERTIES
    MonotonicVersions
