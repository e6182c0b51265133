SPECIFICATION Spec
CONSTANTS
    Nil = Nil
    a = a
    t1 = t1
    t2 = t2
    Keys = {1}
    Values = {a}
    Threads = {t1, t2}
    ShardCount = 2
    Calls = {"set", "del", "get"}
    TTLs = {1}
    Versions = {0}
    Compaction = TRUE
    Tails = {"none", "full"}
    ClockSetBack = FALSE
    MaxTime = 3
    MaxCalls = 3
    MaxCrashes = 0
    MaxFaults = 0
    MaxStops = 0
    ShardOf <- MCShardOf
    Budget <- MCBudget
SYMMETRY Symmetry
INVARIANTS
    TypeOK
    SizeExact
    Durable
PROPERTIES
    LiveEntrySuperseded
