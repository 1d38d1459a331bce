\* The payouts of the scene "sweep"; the other scenes have their own constants.
SPECIFICATION MCSpec
CONSTANTS
    u1 = u1
    u2 = u2
    w1 = w1
    w2 = w2
    t1 = t1
    t2 = t2
    None = None
    Payouts = {"a", "sweep"}
    Kind <- Kinds
    Payee <- Payees
    MaxAttempts = 2
    Tokens = {1, 2}
    MaxTries = 2
    Prompt = FALSE
INVARIANT LeavesOnce
PROPERTIES QuarantineIsForLapse OutcomeStands NothingIsStuck
CHECK_DEADLOCK FALSE
