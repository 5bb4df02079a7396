SPECIFICATION ServingFairSpec
CONSTANTS
    w1 = w1
    q1 = q1
    q2 = q2
    q3 = q3
    i1 = i1
    Instance = {i1, i2}
    Call = {c1, c2}
    Word = {w1}
    Query = {q1, q2, q3}
    Tokens <- MCTokens
    RedisFails = TRUE
    Crashes = TRUE
    Stream = {s1}
    Server <- MCServer
    Requested <- MCRequested
    Capacity = 1
    MaxTopSize = 2
    Ranking <- MCRanking
INVARIANTS ServingTypeOK StaleBounded AdditionsInForce MapAgrees
PROPERTIES ServedIsTrueTop NoLeak
