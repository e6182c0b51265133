SPECIFICATION FairSpec
CONSTANTS
    Nil = Nil
    r1 = r1
    r2 = r2
    ok = ok
    get = get
    Requests = {r1, r2}
    Kinds = {ok}
    Paths = {get}
    Buckets = 2
    PathOf <- MCPathOf
INVARIANTS
    TypeOK
    NoCountLost
PROPERTIES
    ScrapeBracketed
    Records
    ScrapeReturns
