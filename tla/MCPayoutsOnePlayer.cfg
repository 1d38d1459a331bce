\* One player with two requests, the second asked for when the first is closed; safety.
SPECIFICATION Spec
CONSTANTS
    u1 = u1
    u2 = u2
    w1 = w1
    w2 = w2
    t1 = t1
    t2 = t2
    None = None
    MaxAttempts = 2
    MaxFunds = 1
    Tokens = {t1, t2}
    Withdrawals = {w1, w2}
    Users <- OnePlayer
    Owner <- OwnerOfBoth
    Opening <- OpeningOfBoth
    Amount <- UnitAmounts
SYMMETRY TokenSwaps
INVARIANTS
    PaidMeansReceived
PROPERTIES
    KeepsItsPromise
