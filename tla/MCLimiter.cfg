CONSTANTS
    IPs = {ana, bob}
    Handlers = {h1, h2}
    Buckets = {b1, b2, b3, b4, b5}
    None = None
    PerSecond = 1
    MaxAge = 2
SPECIFICATION FairSpec
INVARIANTS
    OneBucketPerClient
    BudgetUnlessStale
    StaleCostsOneBucket
PROPERTIES
    IdleIsEvicted
