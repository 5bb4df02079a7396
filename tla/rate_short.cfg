SPECIFICATION Spec
CONSTANTS
    Worker = {p1, p2}
    Rate = 4
    Batch = 2
    Duration = 0
    Silent = TRUE
    Second = 2
    PublishFails = FALSE
    PublishWaits = FALSE
    Text <- NoText
    StopText <- NoText
    Horizon = 16
INVARIANT RateReached
