SPECIFICATION Spec
CONSTANTS
    Lots = {1, 2}
    Value <- MCValue
    Rate = 100
    CapBps = 3000
    Keys = {1, 2, 3}
    Parts = 2
    MaxNow = 10
INVARIANT ClaimingOftenIsNoLoss
CHECK_DEADLOCK FALSE
