SPECIFICATION FairSpec
CONSTANTS
    Worker = {p1, p2}
    Rate = 3
    Batch = 3
    Duration = 6
    Silent = FALSE
    Second = 2
    PublishFails = TRUE
    PublishWaits = TRUE
    Text <- MCText
    StopText <- MCStopText
    Horizon = 16
INVARIANTS TypeOK WithinRate OverrunBounded DisguiseUndone WordsSurviveReload StopWordReach
PROPERTY RunEnds
