SPECIFICATION Spec
CONSTANTS
    w1 = w1
    w2 = w2
    q1 = q1
    q2 = q2
    Instance = {i1}
    Call = {c1, c2}
    Word = {w1, w2}
    Query = {q1, q2}
    Tokens <- MCTokens
    RedisFails = FALSE
    Crashes = FALSE
INVARIANT QuietMapIsStored
