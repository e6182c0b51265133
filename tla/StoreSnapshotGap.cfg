SPECIFICATION Spec
CONSTANTS
    Nil = Nil
    a = a
    t1 = t1
    Keys = {1}
    Values = {a}
    Threads = {t1}
    ShardCount = 1
    Calls = {"set"}
    TTLs = {0}
    Versions = {0}
    Compaction = TRUE
    Tails = {"none", "full"}
    ClockSetBack = FALSE
    MaxTime = 1
    MaxCalls = 1
    MaxCrashes = 0
    MaxFaults = 0
    MaxStops = 0
    ShardOf <- MCShardOf
    Budget <- MCBudget
INVARIANTS
    AckedDurable
