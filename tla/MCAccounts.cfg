\* The sign-ins of the scene "twice" and the requests of the scene "rules".
SPECIFICATION MCSpec
CONSTANTS
    c1 = c1
    c2 = c2
    x1 = x1
    x2 = x2
    Players = {"ann", "ben"}
    Bedrock = {"ben"}
    Bases = {"steve", "alex"}
    Challenges = {c1, c2}
    Payments = {x1, x2}
    Slips = FALSE
    Listed = TRUE
    MaxFaults = 1
    MaxRenames = 0
    Users = {"alice", "bob"}
    Staff = {}
    Withdrawals = {1, 2, 3}
    Owner <- Asked
    Amount <- Twos
    Threshold = 2
    NetCashout = 3
    HouseHourly = 2
    WinLimit = 0
    TwoHop = TRUE
    Deposits = {1}
    Prizes = {}
    MaxDeposited = 1
    MaxWon = 0
    MaxAsking = 2
INVARIANTS CreditedOncePerPayment SignInsAreTheirs RulesHold
SYMMETRY Alike
CHECK_DEADLOCK FALSE
