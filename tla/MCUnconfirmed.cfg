\* Two unanswered payouts of different sizes, with gifts and deposits; under fairness.
SPECIFICATION FairSpec
CONSTANTS
    p1 = p1
    p2 = p2
    None = None
    Payouts = {p1, p2}
    Amount <- FarApart
    ToleranceCap = 2
    Opening = 16
    MaxHeld = 12
    Deposits = {4}
    Gifts = {1}
    MaxGifts = 1
    Widths = {1}
    Prompt = TRUE
INVARIANTS
    PaidHasLeft
    ReturnedHasNotLeft
    RefundedOnce

PROPERTY BooksRecover
