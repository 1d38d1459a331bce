----------------------------- MODULE TellerFloat -----------------------------
(***************************************************************************)
(* The teller's float: which pocket pays a withdrawal, and what is swept   *)
(* to the vault.                                                           *)
(*                                                                         *)
(* A withdrawal the teller's books cover is paid by it at once; for any    *)
(* other the vault first sends the teller what is missing and the float.   *)
(* What a deposit leaves above the float is swept to the vault.  The three *)
(* kinds of job are sized at different times against the same balance.     *)
(*                                                                         *)
(* Every /pay is answered here: module VaultRelease has the ones that are  *)
(* not.  A job waiting for funds is tried again whenever it likes.         *)
(***************************************************************************)
EXTENDS Integers, Sequences, SequencesExt

CONSTANTS
    Withdrawals, Amount,
    Target,         \* tellerFloatTargetMinor
    Threshold,      \* tellerSweepThresholdMinor
    Opening,        \* what each bot holds at the start, in the game and the books
    Deposits,       \* amounts players pay the teller
    MaxTeller,      \* bound: deposits stop while the teller holds more
    MaxVault,       \* bound: the same, and the owner takes what the vault holds above this
    VaultHeard      \* FALSE when the vault has been silent for a quarter of an hour

Bots == {"teller", "vault"}

(* What the parameters are.                                                 *)
ConstantsOK ==
    /\ Withdrawals \subseteq Nat /\ Amount \in [Withdrawals -> Nat \ {0}]
    /\ Target \in Nat /\ Threshold \in Nat /\ Opening \in [Bots -> Nat]
    /\ Deposits \subseteq Nat \ {0} /\ MaxTeller \in Nat /\ MaxVault \in Nat
    /\ VaultHeard \in BOOLEAN

VARIABLES
    status,     \* cash_withdrawals.status
    funding,    \* and its funding: the teller's float, or the vault
    jobs,       \* each bot's live money jobs, oldest first
    hand,       \* the job a bot has claimed
    books,      \* tracked_balance_minor
    held,       \* what each bot holds in the game
    receipt     \* a deposit the teller has seen and the gateway has not booked

vars == <<status, funding, jobs, hand, books, held, receipt>>

Statuses == {"none", "awaiting_vault", "queued", "paid"}
Job == [kind : {"cash_payout", "vault_sweep", "vault_release"}, w : Withdrawals \cup {0},
        amount : Nat \ {0}, waits : BOOLEAN]
NoHand == [phase |-> "idle", at |-> 0, paid |-> FALSE]

Init ==
    /\ status = [w \in Withdrawals |-> "none"]
    /\ funding = [w \in Withdrawals |-> "float"]
    /\ jobs = [b \in Bots |-> << >>]
    /\ hand = [b \in Bots |-> NoHand]
    /\ books = Opening /\ held = Opening
    /\ receipt = 0

-----------------------------------------------------------------------------
(* Routing                                                                  *)

Queued(kind, w, amount) == [kind |-> kind, w |-> w, amount |-> amount, waits |-> FALSE]

(* queueWithdrawalJob.  The teller's row is locked, and its balance is what *)
(* it holds, whatever it already owes.                                      *)
Request(w) ==
    /\ status[w] = "none"
    /\ IF ~VaultHeard \/ books["teller"] >= Amount[w]
       THEN /\ status' = [status EXCEPT ![w] = "queued"]
            /\ jobs' = [jobs EXCEPT !["teller"] = Append(@, Queued("cash_payout", w, Amount[w]))]
            /\ UNCHANGED funding
       ELSE LET missing == Amount[w] + Target - books["teller"] IN
            /\ status' = [status EXCEPT ![w] = "awaiting_vault"]
            /\ funding' = [funding EXCEPT ![w] = "vault"]
            /\ jobs' = [jobs EXCEPT !["vault"] = Append(@, Queued("vault_release", w, missing))]
    /\ UNCHANGED <<hand, books, held, receipt>>

(* What the teller is due to pay, queued or in flight.                      *)
Owed ==
    MapThenSumSet(LAMBDA i : IF jobs["teller"][i].kind = "cash_payout"
                             THEN jobs["teller"][i].amount ELSE 0, DOMAIN jobs["teller"])

SweepIsLive == \E i \in DOMAIN jobs["teller"] : jobs["teller"][i].kind = "vault_sweep"

(* SLIP: what is owed counts as excess, as it did on 2026-10-09.            *)
SweepAll(balance) ==
    IF ~VaultHeard \/ SweepIsLive \/ balance < Threshold \/ balance <= Target
    THEN UNCHANGED jobs
    ELSE jobs' = [jobs EXCEPT !["teller"] =
                    Append(@, Queued("vault_sweep", 0, balance - Target))]

(* SLIP: the excess may be less than nothing.                               *)
SweepBelowFloat(balance) ==
    LET free == balance - Owed IN
    IF ~VaultHeard \/ SweepIsLive \/ free < Threshold
    THEN UNCHANGED jobs
    ELSE jobs' = [jobs EXCEPT !["teller"] = Append(@, Queued("vault_sweep", 0, free - Target))]

(* SLIP: nothing is swept while a withdrawal waits for the vault.           *)
SweepUnlessAwaited(balance) ==
    LET free == balance - Owed IN
    IF \/ ~VaultHeard \/ SweepIsLive \/ free < Threshold \/ free <= Target
       \/ \E w \in Withdrawals : status[w] = "awaiting_vault"
    THEN UNCHANGED jobs
    ELSE jobs' = [jobs EXCEPT !["teller"] = Append(@, Queued("vault_sweep", 0, free - Target))]

(* queueVaultSweep                                                          *)
QueueVaultSweep(balance) ==
    LET free == balance - Owed IN
    IF ~VaultHeard \/ SweepIsLive \/ free < Threshold \/ free <= Target
    THEN UNCHANGED jobs
    ELSE jobs' = [jobs EXCEPT !["teller"] = Append(@, Queued("vault_sweep", 0, free - Target))]

DepositLands(n) ==
    /\ receipt = 0 /\ held["teller"] <= MaxTeller /\ held["vault"] <= MaxVault
    /\ held' = [held EXCEPT !["teller"] = @ + n]
    /\ receipt' = n
    /\ UNCHANGED <<status, funding, jobs, hand, books>>

(* processCashPaymentObserved: booked, and the excess swept.                *)
DepositBooked ==
    /\ receipt > 0
    /\ books' = [books EXCEPT !["teller"] = @ + receipt]
    /\ QueueVaultSweep(books["teller"] + receipt)
    /\ receipt' = 0
    /\ UNCHANGED <<status, funding, hand, held>>

(* The sweeper's minute, when /bal says what the books say; module          *)
(* UnconfirmedPayouts has the minutes when it does not.                     *)
Tick ==
    /\ held["teller"] = books["teller"] /\ hand["teller"].phase # "sent"
    /\ QueueVaultSweep(books["teller"])
    /\ jobs' # jobs
    /\ UNCHANGED <<status, funding, hand, books, held, receipt>>

-----------------------------------------------------------------------------
(* The bots                                                                 *)

JobInHand(b) == jobs[b][hand[b].at]

(* While the oldest waits for funds, no newer one is handed out.            *)
MayClaim(b, i) ==
    /\ i \in DOMAIN jobs[b]
    /\ \A j \in 1..(i - 1) : ~jobs[b][j].waits

Claim(b, i) ==
    /\ hand[b].phase = "idle" /\ MayClaim(b, i)
    /\ hand' = [hand EXCEPT ![b] = [phase |-> "sent", at |-> i, paid |-> FALSE]]
    /\ UNCHANGED <<status, funding, jobs, books, held, receipt>>

Payee(b) == IF JobInHand(b).kind = "vault_sweep" THEN {"vault"}
            ELSE IF JobInHand(b).kind = "vault_release" THEN {"teller"} ELSE {}

(* The game pays what is asked for if the bot holds it, and refuses if not. *)
GameAnswers(b) ==
    /\ hand[b].phase = "sent"
    /\ LET a == JobInHand(b).amount
           ok == held[b] >= a
       IN  /\ held' = [x \in Bots |-> IF ~ok THEN held[x] ELSE IF x = b THEN held[x] - a
                                      ELSE IF x \in Payee(b) THEN held[x] + a ELSE held[x]]
           /\ hand' = [hand EXCEPT ![b].phase = "settled", ![b].paid = ok]
    /\ UNCHANGED <<status, funding, jobs, books, receipt>>

(* SLIP: only the sender's leg is booked.                                   *)
BookSender(b) ==
    books' = [books EXCEPT ![b] = @ - JobInHand(b).amount]

(* bookPayoutLeg, bookInternalTransfer                                      *)
BookLegs(b) ==
    books' = [x \in Bots |-> IF x = b THEN books[x] - JobInHand(b).amount
                             ELSE IF x \in Payee(b) THEN books[x] + JobInHand(b).amount
                             ELSE books[x]]

(* processJobResult, completed                                              *)
ReportPaid(b) ==
    /\ hand[b].phase = "settled" /\ hand[b].paid
    /\ BookLegs(b)
    /\ LET j == JobInHand(b)
           rest == [jobs EXCEPT ![b] = RemoveAt(@, hand[b].at)]
       IN  IF j.kind = "vault_release"
           THEN /\ status' = [status EXCEPT ![j.w] = "queued"]
                /\ jobs' = [rest EXCEPT !["teller"] =
                              Append(@, Queued("cash_payout", j.w, Amount[j.w]))]
           ELSE /\ status' = IF j.kind = "cash_payout" THEN [status EXCEPT ![j.w] = "paid"]
                             ELSE status
                /\ jobs' = rest
    /\ hand' = [hand EXCEPT ![b] = NoHand]
    /\ UNCHANGED <<funding, held, receipt>>

(* processJobResult, refused for funds: a payout and a release wait, a      *)
(* sweep dies.                                                              *)
ReportRefused(b) ==
    /\ hand[b].phase = "settled" /\ ~hand[b].paid
    /\ jobs' = IF JobInHand(b).kind = "vault_sweep"
               THEN [jobs EXCEPT ![b] = RemoveAt(@, hand[b].at)]
               ELSE [jobs EXCEPT ![b][hand[b].at].waits = TRUE]
    /\ hand' = [hand EXCEPT ![b] = NoHand]
    /\ UNCHANGED <<status, funding, books, held, receipt>>

(* The owner is paid out of the vault; module AdminPayouts has how.         *)
OwnerTakes ==
    /\ books["vault"] > MaxVault /\ held["vault"] >= books["vault"] - MaxVault
    /\ LET n == books["vault"] - MaxVault IN
       /\ books' = [books EXCEPT !["vault"] = @ - n]
       /\ held' = [held EXCEPT !["vault"] = @ - n]
    /\ UNCHANGED <<status, funding, jobs, hand, receipt>>

-----------------------------------------------------------------------------
GatewayNext == (\E w \in Withdrawals : Request(w)) \/ DepositBooked \/ Tick

BotNext(b) ==
    \/ \E i \in 1..Len(jobs[b]) : Claim(b, i)
    \/ ReportPaid(b) \/ ReportRefused(b)

GameNext ==
    \/ \E n \in Deposits : DepositLands(n)
    \/ \E b \in Bots : GameAnswers(b)

Next == GatewayNext \/ GameNext \/ OwnerTakes \/ \E b \in Bots : BotNext(b)

Spec == Init /\ [][Next]_vars

-----------------------------------------------------------------------------
(* Correctness                                                              *)

TypeOK ==
    /\ status \in [Withdrawals -> Statuses]
    /\ funding \in [Withdrawals -> {"float", "vault"}]
    /\ \A b \in Bots : \A i \in DOMAIN jobs[b] : jobs[b][i] \in Job
    /\ \A b \in Bots : hand[b] = NoHand \/ hand[b].at \in DOMAIN jobs[b]
    /\ held \in [Bots -> Nat] /\ books \in [Bots -> Int] /\ receipt \in Nat

(* What was paid and is not in the books yet.                               *)
Unbooked(b) == IF hand[b].phase = "settled" /\ hand[b].paid /\ Payee(b) = {}
               THEN JobInHand(b).amount ELSE 0

(* Both bots' books add up to what both hold, whatever is on its way        *)
(* between them: no leg is booked on one side only, twice or never.         *)
BooksAddUp ==
    books["teller"] + books["vault"] + receipt - Unbooked("teller")
        = held["teller"] + held["vault"]

(* A sweep never takes what a payout queued before it is due to pay.        *)
SweepSparesPayouts ==
    \A i \in DOMAIN jobs["teller"] :
        LET older == MapThenSumSet(LAMBDA k : jobs["teller"][k].amount, 1..(i - 1)) IN
        (/\ jobs["teller"][i].kind = "vault_sweep" /\ older > 0
         /\ hand["teller"].at = i => ~hand["teller"].paid)
        => jobs["teller"][i].amount + older - Unbooked("teller") <= held["teller"]

=============================================================================
