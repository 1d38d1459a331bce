\* Crash with two players and two rounds, what two players must wager, then each
\* other game and payment in turn.
SPECIFICATION MCSpec
CONSTANTS
    Requests = {1, 2, 3, 4}
    Player <- Bettors
    For <- Rounds
    Target <- Targets
    Points = {1, 2, 3}
    MaxRounds = 2
    Betting = 2
    MaxAborts = 2
    Players = {"alice", "bob"}
    Opening = 1
    DepositMultiplier = 1
    BonusMultiplier = 2
    Amounts = {1, 2}
    MaxMoves = 5
INVARIANTS
    NoBetLeftBehind
    OutcomeIsTheCurves
    PaidAsEarned
    LeavesOnlyWagered
PROPERTY
    NeverBustsEarly
CHECK_DEADLOCK FALSE
