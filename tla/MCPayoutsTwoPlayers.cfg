\* Two players with one request each; safety.
SPECIFICATION Spec
CONSTANTS
    u1 = u1
    u2 = u2
    w1 = w1
    w2 = w2
    t1 = t1
    t2 = t2
    None = None
    MaxAttempts = 2
    MaxFunds = 1
    Tokens = {t1, t2}
    Withdrawals = {w1, w2}
    Users <- TwoPlayers
    Owner <- OwnerOfTwo
    Opening <- OpeningOfTwo
    Amount <- UnitAmounts
SYMMETRY Swaps
INVARIANTS
    TypeOK
    NeverPaidTwice
    ReturnedMeansNotPaid
    LedgerMatchesStatus
    BookedOnlyWhatWasPaid
    HeldIsNeverSent
    NeverStranded
