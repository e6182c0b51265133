CONSTANTS
    Keys <- MCKeys
    Matching <- MCMatching
    ShardOf <- MCShardOf
    ShardCount = 2
    TTLs = {1}
    Limits = {0, 1, 5}
    DefaultLimit = 1
    MaxLimit = 2
    MaxTime = 3
SPECIFICATION Spec
INVARIANTS TypeOK Ascending StayedListed
PROPERTIES ListedWasLive CursorAdvances
