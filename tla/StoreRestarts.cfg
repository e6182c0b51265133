SPECIFICATION FairSpec
CONSTANTS
    Nil = Nil
    a = a
    t1 = t1
    Keys = {1}
    Values = {a}
    Threads = {t1}
    ShardCount = 1
    Calls = {"set"}
    TTLs = {1}
    Versions = {0}
    Compaction = TRUE
    Tails = {"none", "hdr", "body", "full"}
    ClockSetBack = FALSE
    MaxTime = 2
    MaxCalls = 1
    MaxCrashes = 1
    MaxFaults = 1
    MaxStops = 1
    ShardOf <- MCShardOf
    Budget <- MCBudget
PROPERTIES
    CleanStopRestores
    
    StopCompletes
