\* Two unanswered payouts of the same size; nothing is late.
SPECIFICATION UnansweredSpec
CONSTANTS
    p1 = p1
    p2 = p2
    None = None
    Payouts = {p1, p2}
    Amount <- Alike
    ToleranceCap = 2
    Opening = 8
    MaxHeld = 8
    Deposits = {}
    Gifts = {}
    MaxGifts = 0
    Widths = {1}
    Prompt = TRUE
INVARIANT
    PaidHasLeft
