------------------------- MODULE UnconfirmedPayouts -------------------------
(***************************************************************************)
(* Payouts the server never answered, settled from the bot's own balance.  *)
(*                                                                         *)
(* A bot's books (tracked) follow the movements the platform knows of; its *)
(* /bal says what it holds.  Once a minute the sweeper compares the two.   *)
(* With no payout unanswered it corrects the books; with exactly one it    *)
(* reads off the difference whether that one was paid, and settles it in a *)
(* transaction of its own.                                                 *)
(*                                                                         *)
(* One node of the pool: it is read, judged and corrected, never swept.    *)
(* Module Payouts has the job and lease protocol in full; here a payout is *)
(* its status, its command and its report.                                 *)
(***************************************************************************)
EXTENDS Integers, FiniteSets

CONSTANTS
    Payouts, Amount,
    ToleranceCap,   \* TOLERANCE_CAP_MINOR
    Opening,        \* what the bot holds at the start, in the game and in the books
    MaxHeld,        \* bound: the most it ever holds
    Deposits,       \* amounts players pay in, with a receipt
    Gifts,          \* amounts that arrive while nobody listens
    MaxGifts,       \* bound: how many of those
    Widths,         \* how wide a reading is: 1 when it is exact
    Prompt,         \* receipts and reports are never overtaken by a reading
    None

ASSUME PayoutsAssumption == None \notin Payouts /\ Amount \in [Payouts -> Nat \ {0}]
ASSUME MoneyAssumption ==
    /\ ToleranceCap \in Nat /\ Opening \in Nat /\ MaxHeld \in Nat /\ MaxGifts \in Nat
    /\ Deposits \subseteq Nat \ {0} /\ Gifts \subseteq Nat \ {0}
    /\ Widths \subseteq Nat \ {0}
    /\ Prompt \in BOOLEAN

VARIABLES
    status,     \* of each withdrawal; "unconfirmed" and "review" are manual_review
    refunds,    \* how often each withdrawal's money went back to the wallet
    aged,       \* unanswered for longer than the evidence window
    booked,     \* payouts whose leg is in bot_transfers
    tracked,    \* bot_accounts.tracked_balance_minor
    observed,   \* the reading the gateway has
    verdict,    \* what a tick has decided and not yet applied
    bot,        \* the payout in the bot's hands
    said,       \* the bot's own last reading, on every heartbeat
    net,        \* reports under way
    receipt,    \* a deposit the bot has seen and the gateway has not booked
    held,       \* what the bot holds in the game
    left,       \* payouts the game has made
    gifts       \* how many unseen payments have arrived

gatewayVars == <<status, refunds, aged, booked, tracked, observed, verdict>>
botVars     == <<bot, said, net, receipt>>
gameVars    == <<held, left, gifts>>
vars        == <<gatewayVars, botVars, gameVars>>

Statuses == {"queued", "processing", "unconfirmed", "review", "paid", "returned"}
Outcomes == {"completed", "refused", "mismatch", "unconfirmed"}

(* A reading: at least low and less than low + step; whether something was  *)
(* booked after it was taken; and the unanswered payouts it was taken after.*)
Readings == [low : Nat, step : Widths, overtaken : BOOLEAN, after : SUBSET Payouts]
NoReading == None

BotBusy == [phase : {"sent", "settled", "reporting"}, p : Payouts, outcome : Outcomes]
Idle == [phase |-> "idle", p |-> None, outcome |-> "unconfirmed"]

Init ==
    /\ status = [p \in Payouts |-> "queued"]
    /\ refunds = [p \in Payouts |-> 0]
    /\ aged = {} /\ booked = {}
    /\ tracked = Opening /\ held = Opening
    /\ observed = NoReading /\ said = NoReading
    /\ verdict = None
    /\ bot = Idle
    /\ net = {} /\ receipt = 0
    /\ left = {} /\ gifts = 0

-----------------------------------------------------------------------------
(* The judgement                                                            *)

Distance(x) == IF x < 0 THEN -x ELSE x

Tolerance(amount) ==
    IF amount \div 4 < ToleranceCap THEN amount \div 4 ELSE ToleranceCap

(* judgeUnconfirmedPayout                                                   *)
Judge(books, low, step, amount) ==
    LET residual == low - books IN
    IF step # 1 \/ amount <= 0 THEN "unclear"
    ELSE IF Distance(residual) <= Tolerance(amount) THEN "not_paid"
    ELSE IF Distance(residual + amount) <= Tolerance(amount) THEN "paid"
    ELSE "unclear"

-----------------------------------------------------------------------------
(* Booking and reading                                                      *)

(* Every row of bot_transfers is newer than the readings there are.         *)
Overtake(r) == IF r = NoReading THEN r ELSE [r EXCEPT !.overtaken = TRUE]

(* recordBotTransfer                                                        *)
Book(change) ==
    /\ tracked' = tracked + change
    /\ observed' = Overtake(observed)
    /\ said' = Overtake(said)

(* Keyed on the job: the second booking of a leg changes nothing.           *)
BookLeg(p) ==
    IF p \in booked
    THEN UNCHANGED <<tracked, observed, said, booked>>
    ELSE Book(-Amount[p]) /\ booked' = booked \cup {p}

NoBooking == UNCHANGED <<tracked, observed, said, booked>>

Closed == {"paid", "returned"}

(* The new status of one withdrawal, when no money goes back.               *)
Becomes(p, s) == status' = [status EXCEPT ![p] = s] /\ UNCHANGED refunds

(* refundWithdrawal: the status is looked at in the update itself.          *)
GiveBack(p) ==
    IF status[p] \in Closed
    THEN UNCHANGED <<status, refunds>>
    ELSE /\ status' = [status EXCEPT ![p] = "returned"]
         /\ refunds' = [refunds EXCEPT ![p] = @ + 1]

(* The answer to /bal.  Not while a /pay waits for its own answer.          *)
ReadBalance(w) ==
    /\ bot.phase \in {"idle", "reporting"}
    /\ Prompt => net = {} /\ receipt = 0 /\ bot.phase = "idle"
    /\ said' = [low |-> held - (held % w), step |-> w, overtaken |-> FALSE,
                after |-> {p \in Payouts : status[p] = "unconfirmed"}]
    /\ UNCHANGED <<gatewayVars, bot, net, receipt, gameVars>>

(* A heartbeat carries the reading with the time it was taken.              *)
Heartbeat ==
    /\ said # NoReading
    /\ observed' = said
    /\ UNCHANGED <<status, refunds, aged, booked, tracked, verdict, botVars, gameVars>>

-----------------------------------------------------------------------------
(* A payout, from the claim to its report                                   *)

(* No job is claimed until the server has answered a /bal in this session.  *)
Claim(p) ==
    /\ bot.phase = "idle" /\ said # NoReading
    /\ status[p] = "queued"
    /\ Becomes(p, "processing")
    /\ bot' = [Idle EXCEPT !.phase = "sent", !.p = p]
    /\ UNCHANGED <<aged, booked, tracked, observed, verdict, said, net, receipt, gameVars>>

(* The game executes the command or does not, before the bot gives up       *)
(* waiting, and the bot hears so or not.                                    *)
GamePays ==
    /\ bot.phase = "sent" /\ held >= Amount[bot.p]
    /\ held' = held - Amount[bot.p]
    /\ left' = left \cup {bot.p}
    /\ \E o \in {"completed", "mismatch", "unconfirmed"} :
          bot' = [bot EXCEPT !.phase = "settled", !.outcome = o]
    /\ UNCHANGED <<gatewayVars, said, net, receipt, gifts>>

GameRefuses ==
    /\ bot.phase = "sent"
    /\ \E o \in {"refused", "unconfirmed"} :
          bot' = [bot EXCEPT !.phase = "settled", !.outcome = o]
    /\ UNCHANGED <<gatewayVars, said, net, receipt, gameVars>>

Report ==
    /\ bot.phase = "settled"
    /\ bot' = [bot EXCEPT !.phase = "reporting"]
    /\ net' = net \cup {[p |-> bot.p, outcome |-> bot.outcome]}
    /\ UNCHANGED <<gatewayVars, said, receipt, gameVars>>

(* The report has been answered, or the bot has given up on the answer.  An *)
(* unanswered /pay that is reported makes it log in again, which drops its  *)
(* reading.                                                                 *)
ReportEnds ==
    /\ bot.phase = "reporting"
    /\ Prompt => net = {}
    /\ bot' = Idle
    /\ \/ said' = said
       \/ bot.outcome = "unconfirmed" /\ said' = NoReading
    /\ UNCHANGED <<gatewayVars, net, receipt, gameVars>>

(* The process ends or logs in again.                                       *)
BotRestarts ==
    /\ bot.phase # "sent"
    /\ Prompt => receipt = 0
    /\ bot' = Idle /\ said' = NoReading /\ receipt' = 0
    /\ UNCHANGED <<gatewayVars, net, gameVars>>

LoseReport(m) ==
    /\ m \in net /\ net' = net \ {m}
    /\ UNCHANGED <<gatewayVars, bot, said, receipt, gameVars>>

-----------------------------------------------------------------------------
(* The gateway: reports, leases and deposits                                *)

(* processJobResult, before the lease is swept.  A lease that has run out by  *)
(* then still takes a confirmation; any other report only brings a review.  *)
ReportArrives(m) ==
    /\ m \in net /\ net' = net \ {m}
    /\ status[m.p] = "processing"
    /\ \/ m.outcome = "completed" /\ Becomes(m.p, "paid") /\ BookLeg(m.p)
       \/ /\ m.outcome = "refused"    \* for funds, for a cooldown, or for good
          /\ Becomes(m.p, "queued") \/ GiveBack(m.p)
          /\ NoBooking
       \/ m.outcome = "unconfirmed" /\ Becomes(m.p, "unconfirmed") /\ NoBooking
       \/ m.outcome # "completed" /\ Becomes(m.p, "review") /\ NoBooking
    /\ UNCHANGED <<aged, verdict, bot, receipt, gameVars>>

(* A lease that ran out, found when the bot next asks for work.             *)
LeaseExpires(p) ==
    /\ bot.phase = "idle" /\ status[p] = "processing"
    /\ Becomes(p, "review")
    /\ UNCHANGED <<aged, booked, tracked, observed, verdict, botVars, gameVars>>

(* A report that comes after that.  Only a confirmation is accepted, and    *)
(* only while nobody has decided: a decision completes the job.             *)
LateReport(m) ==
    /\ m \in net /\ net' = net \ {m}
    /\ status[m.p] # "processing"
    /\ IF m.outcome = "completed" /\ status[m.p] = "review"
       THEN Becomes(m.p, "paid") /\ BookLeg(m.p)
       ELSE UNCHANGED <<status, refunds>> /\ NoBooking
    /\ UNCHANGED <<aged, verdict, bot, receipt, gameVars>>

DepositLands(n) ==
    /\ receipt = 0 /\ held + n <= MaxHeld
    /\ held' = held + n /\ receipt' = n
    /\ UNCHANGED <<gatewayVars, bot, said, net, left, gifts>>

(* processCashPaymentObserved                                               *)
DepositBooked ==
    /\ receipt > 0
    /\ Book(receipt) /\ receipt' = 0
    /\ UNCHANGED <<status, refunds, aged, booked, verdict, bot, net, gameVars>>

GiftLands(n) ==
    /\ gifts < MaxGifts /\ held + n <= MaxHeld
    /\ held' = held + n /\ gifts' = gifts + 1
    /\ UNCHANGED <<gatewayVars, botVars, left>>

-----------------------------------------------------------------------------
(* The operator.  Assumed: the answer is true.  Marking a payout paid moves *)
(* no books.                                                                *)
Resolve(p) ==
    /\ status[p] \in {"unconfirmed", "review"}
    /\ IF p \in left THEN Becomes(p, "paid") ELSE GiveBack(p)
    /\ UNCHANGED <<aged, booked, tracked, observed, verdict, botVars, gameVars>>

-----------------------------------------------------------------------------
(* The sweeper                                                              *)

(* SLIP: a reading is believed however much was booked since.               *)
AnyReading == observed # NoReading

(* trustedReading                                                           *)
Trusted == observed # NoReading /\ ~observed.overtaken

(* SLIP: the evidence window never closes.                                  *)
UnansweredForEver == {p \in Payouts : status[p] = "unconfirmed"}

(* openUnconfirmedPayouts                                                   *)
OpenPayouts == {p \in Payouts : status[p] = "unconfirmed" /\ p \notin aged}

AgesOut(p) ==
    /\ status[p] = "unconfirmed" /\ p \notin aged
    /\ aged' = aged \cup {p}
    /\ UNCHANGED <<status, refunds, booked, tracked, observed, verdict, botVars, gameVars>>

(* SLIP: a reading taken before the payout went out will do.                *)
DecideFromAnyReading(p) ==
    /\ verdict = None /\ Trusted
    /\ OpenPayouts = {p}
    /\ LET v == Judge(tracked, observed.low, observed.step, Amount[p]) IN
          v # "unclear" /\ verdict' = [p |-> p, says |-> v]
    /\ UNCHANGED <<status, refunds, aged, booked, tracked, observed, botVars, gameVars>>

(* SLIP: an unclear verdict is handed on as well.                           *)
DecideUnclear(p) ==
    /\ verdict = None /\ Trusted
    /\ OpenPayouts = {p} /\ p \in observed.after
    /\ verdict' = [p |-> p, says |-> Judge(tracked, observed.low, observed.step, Amount[p])]
    /\ UNCHANGED <<status, refunds, aged, booked, tracked, observed, botVars, gameVars>>

(* tick, when one payout is unanswered.                                     *)
Decide(p) ==
    /\ verdict = None /\ Trusted
    /\ OpenPayouts = {p} /\ p \in observed.after
    /\ LET v == Judge(tracked, observed.low, observed.step, Amount[p]) IN
          v # "unclear" /\ verdict' = [p |-> p, says |-> v]
    /\ UNCHANGED <<status, refunds, aged, booked, tracked, observed, botVars, gameVars>>

(* tick, when none is: the books are left alone when they fit the reading,  *)
(* else they become what it guarantees.                                     *)
Fits(r) == r.low <= tracked /\ tracked < r.low + r.step

Correct ==
    /\ verdict = None /\ Trusted
    /\ OpenPayouts = {} /\ ~Fits(observed)
    /\ Book(observed.low - tracked)
    /\ UNCHANGED <<status, refunds, aged, booked, verdict, bot, net, receipt, gameVars>>

(* SLIP: the verdict is applied whatever the status is by now.              *)
SettleBlindly ==
    /\ verdict # None
    /\ verdict' = None
    /\ IF verdict.says = "paid"
       THEN Becomes(verdict.p, "paid") /\ BookLeg(verdict.p)
       ELSE /\ status' = [status EXCEPT ![verdict.p] = "returned"]
            /\ refunds' = [refunds EXCEPT ![verdict.p] = @ + 1]
            /\ NoBooking
    /\ UNCHANGED <<aged, bot, net, receipt, gameVars>>

(* settleUnconfirmedPayout: nothing, if an operator got there first.        *)
Settle ==
    /\ verdict # None
    /\ verdict' = None
    /\ IF status[verdict.p] # "unconfirmed"
       THEN UNCHANGED <<status, refunds>> /\ NoBooking
       ELSE IF verdict.says = "paid"
       THEN Becomes(verdict.p, "paid") /\ BookLeg(verdict.p)
       ELSE GiveBack(verdict.p) /\ NoBooking
    /\ UNCHANGED <<aged, bot, net, receipt, gameVars>>

(* The gateway restarts, or the second transaction fails.                   *)
ForgetVerdict ==
    /\ verdict # None
    /\ verdict' = None
    /\ UNCHANGED <<status, refunds, aged, booked, tracked, observed, botVars, gameVars>>

-----------------------------------------------------------------------------
BotNext ==
    \/ \E w \in Widths : ReadBalance(w)
    \/ Heartbeat \/ Report \/ ReportEnds
    \/ \E p \in Payouts : Claim(p)

GameNext ==
    \/ GamePays \/ GameRefuses
    \/ \E n \in Deposits : DepositLands(n)
    \/ \E n \in Gifts : GiftLands(n)

GatewayNext ==
    \/ \E m \in net : ReportArrives(m) \/ LateReport(m)
    \/ \E p \in Payouts : LeaseExpires(p) \/ Resolve(p) \/ AgesOut(p)
    \/ DepositBooked

SweeperNext ==
    \/ \E p \in Payouts : Decide(p)
    \/ Correct \/ Settle

Fault == BotRestarts \/ ForgetVerdict \/ \E m \in net : LoseReport(m)

Next == BotNext \/ GameNext \/ GatewayNext \/ SweeperNext \/ Fault

Spec == Init /\ [][Next]_vars

-----------------------------------------------------------------------------
(* Correctness                                                              *)

TypeOK ==
    /\ status \in [Payouts -> Statuses] /\ refunds \in [Payouts -> Nat]
    /\ aged \subseteq Payouts /\ booked \subseteq Payouts /\ left \subseteq Payouts
    /\ tracked \in Int /\ held \in Nat /\ receipt \in Nat /\ gifts \in 0..MaxGifts
    /\ observed \in Readings \cup {NoReading}
    /\ said \in Readings \cup {NoReading}
    /\ verdict \in [p : Payouts, says : {"paid", "not_paid"}] \cup {None}
    /\ bot \in {Idle} \cup BotBusy
    /\ net \subseteq [p : Payouts, outcome : Outcomes]

(* A withdrawal marked paid was paid: the balance never convinces the       *)
(* sweeper of a payment that was not made, which would cost the player the  *)
(* money.                                                                   *)
PaidHasLeft == \A p \in Payouts : status[p] = "paid" => p \in left

(* A refunded withdrawal was not paid: no correction of the books, earlier  *)
(* reading or restart in between makes a paid payout look unpaid, which     *)
(* would pay the player twice.                                              *)
ReturnedHasNotLeft == \A p \in Payouts : status[p] = "returned" => p \notin left

(* Whoever settles a payout between the two transactions of a tick, the     *)
(* money goes back once, and only to those marked so.                       *)
RefundedOnce == \A p \in Payouts : refunds[p] = IF status[p] = "returned" THEN 1 ELSE 0

Fairness ==
    /\ SF_vars(\E w \in Widths : ReadBalance(w)) /\ SF_vars(Heartbeat)
    /\ WF_vars(Report) /\ WF_vars(ReportEnds)
    /\ WF_vars(GamePays \/ GameRefuses)
    /\ WF_vars(\E m \in net : ReportArrives(m) \/ LateReport(m) \/ LoseReport(m))
    /\ \A p \in Payouts : WF_vars(LeaseExpires(p)) /\ WF_vars(AgesOut(p))
    /\ WF_vars(DepositBooked)
    /\ SF_vars(Correct) /\ WF_vars(Settle \/ ForgetVerdict)

FairSpec == Spec /\ Fairness

(* Whatever was booked twice, late or never, the books come to agree with   *)
(* what the bot holds once money stops moving: no unanswered payout keeps   *)
(* them uncorrected for good.                                               *)
BooksRecover == <>[](tracked = held)

=============================================================================
