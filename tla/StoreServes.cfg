SPECIFICATION FairSpec
CONSTANTS
    Nil = Nil
    a = a
    t1 = t1
    Keys = {1}
    Values = {a}
    Threads = {t1}
    ShardCount = 2
    Calls = {"set", "get"}
    TTLs = {1}
    Versions = {0}
    Compaction = TRUE
    Tails = {"none"}
    ClockSetBack = FALSE
    MaxTime = 3
    MaxCalls = 2
    MaxCrashes = 0
    MaxFaults = 1
    MaxStops = 0
    ShardOf <- MCShardOf
    Budget <- MCBudget
PROPERTIES
    CallsReturn
    ExpiredGoes
