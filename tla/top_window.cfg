SPECIFICATION FairSpec
CONSTANTS
    i1 = i1
    Instance = {i1}
    Request = {g1}
    Home <- AllHome
    Query = {q1}
    WindowMinutes = 2
    BucketTTL = 4
    TopTTL = 2
    MaxTopSize = 1
    Early = 1
    Stall = 1
    Horizon = 4
    MaxEvents = 2
    RedisFails = TRUE
INVARIANTS TypeOK WindowIntact ReadsAWindow
PROPERTY CachedCatchesUp
