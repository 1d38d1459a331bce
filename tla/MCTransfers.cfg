\* The scenes of module Transfers; the others have constants of their own.
SPECIFICATION MCSpec
CONSTANTS
    t1 = t1
    t2 = t2
    None = None
    Tokens = {t1}
    MaxAttempts = 2
    Withdrawals = {1, 2}
    Display <- TwoDisplays
    Codes = {"PAYOUT_UNCONFIRMED"}
    Retries = 0
    Stops = 0
    MaxReports = 1
    Prompt = FALSE
    Asked = {1, 2}
    Amount <- FirstMore
    Deposits = {2}
    Target = 1
    Threshold = 3
    Opening <- FloatOpening
    MaxTeller = 4
    MaxVault = 6
    VaultHeard = TRUE
    Nodes = {1, 2}
    Openings <- PoolOpenings
    MaxHeld = 2
    SkewBps = 5000
    MinMinor = 1
    Reaches = {"online"}
    MayHold = TRUE
INVARIANTS MoneyIsMovedOnce PayoutsAreProvidedFor BooksFollowTheMoney PaidByItsPayer NoneCountedTwice
PROPERTIES MovesSparePromises
SYMMETRY TokenSwaps
CHECK_DEADLOCK FALSE
