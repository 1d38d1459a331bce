\* Every table in turn.
SPECIFICATION TablesSpec
CONSTANTS
    ann = ann
    bob = bob
    cyd = cyd
    g1 = g1
    g2 = g2
    Players <- Three
    Games = {g1}
    Flips <- Two
    Tiles = {1, 2, 3, 4}
    MineCount = 2
    MaxActive = 1
    Stake = 15
    Stakes = {15, 7}
    Opening = 20
    Rakes = {1000, 500}
    MaxOpen = 1
    MaxFaults = 1
    Host = "host"
    Joiners = {ann, bob}
    RoundsTotal = 2
    Lead = 1
    RoundMs = 2
    InputGrace = 1
    TransportSlack = 0
    StrandedSlack = 0
    MaxNow = 9
    Scores = {0, 1}
    RakeBps = 1000
    Keys = {1, 2}
    Sittings <- OnTwoGames
    MaxSeeds = 3
    MaxAsked = 1
    MaxPressed = 3
    Purse = 4
    Ante = 2
    Caps = {3, 6}
    Battles = {g1}
    Shapes <- Formats
    Drops = {1, 2, 4}
    MaxTaken = 4
INVARIANTS
    SeedsStaySecret PlayedAsPressed
    MoneyIsAllThere PaidByTheRules VolumeIsEarned FieldsStayHidden DuelsArePlayedOut
PROPERTIES ScoresStand
SYMMETRY Alike
CHECK_DEADLOCK FALSE
