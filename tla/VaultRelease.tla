---------------------------- MODULE VaultRelease ----------------------------
(***************************************************************************)
(* A withdrawal the teller cannot cover: the vault pays the teller (a      *)
(* release), then the teller pays the player.                              *)
(*                                                                         *)
(* A release whose outcome is unknown is settled from what the teller saw  *)
(* arrive, or sent again, and after the last attempt put before an         *)
(* operator.  What the teller saw is a displayed amount and nothing else:  *)
(* which release it was has to be guessed from that.                       *)
(*                                                                         *)
(* The database is one record, and a transaction a function of it: the     *)
(* gateway's handlers call one another inside one transaction.             *)
(***************************************************************************)
EXTENDS BotJobs, Sequences, FiniteSets, SequencesExt

CONSTANTS
    Withdrawals,    \* numbered in the order their releases were queued
    Display,        \* how the server abbreviates each release's amount
    Codes,          \* errors a vault that was not refused for funds may report
    Retries,        \* bound: how often an operator sends a dead release again
    Stops,          \* bound: how often an operator quarantines the vault
    MaxReports,     \* bound: reports under way at a time
    Prompt          \* the teller always sees, and reports, before the vault does

(* What the parameters are.                                                 *)
ConstantsOK ==
    /\ IsFiniteSet(Withdrawals) /\ Withdrawals = 1..Cardinality(Withdrawals)
    /\ DOMAIN Display = Withdrawals
    /\ Codes \subseteq JobErrors \ {"none", "PAYOUT_INSUFFICIENT_FUNDS", "LEASE_EXPIRED"}
    /\ Retries \in Nat /\ Stops \in Nat /\ MaxReports \in Nat \ {0}
    /\ Prompt \in BOOLEAN

VARIABLES
    db,         \* what the gateway's transactions read and write
    bot,        \* the release in the vault bot's hands
    net,        \* its reports under way
    arriving,   \* payments the teller has seen and not yet reported
    moved,      \* how often each release's money has left the vault
    toPlayer,   \* how often the teller has paid each player
    retries,    \* how often the operator has sent a release again
    stops       \* and quarantined the vault

vars == <<db, bot, net, arriving, moved, toPlayer, retries, stops>>

WithdrawalStatuses == {"none", "awaiting_vault", "queued", "manual_review", "paid", "failed"}
PayoutStatuses == {"none", "queued", "completed", "dead_letter"}
Outcomes == Codes \cup {"completed", "PAYOUT_INSUFFICIENT_FUNDS"}

Idle == [phase |-> "idle", w |-> None, token |-> None, outcome |-> "completed"]

Init ==
    /\ db = [withdrawal  |-> [w \in Withdrawals |-> [status |-> "none", err |-> "none"]],
             job         |-> [w \in Withdrawals |-> NoJob],
             payout      |-> [w \in Withdrawals |-> "none"],
             receipts    |-> << >>,
             booked      |-> {},
             refunds     |-> [w \in Withdrawals |-> 0],
             quarantined |-> FALSE]
    /\ bot = Idle /\ net = {} /\ arriving = << >>
    /\ moved = [w \in Withdrawals |-> 0]
    /\ toPlayer = [w \in Withdrawals |-> 0]
    /\ retries = 0 /\ stops = 0

-----------------------------------------------------------------------------
(* The gateway's transactions                                               *)

(* SLIP: the payout is queued whatever the withdrawal's status is by now.   *)
QueuePayoutAnyway(d, w) ==
    [d EXCEPT !.withdrawal[w] = [status |-> "queued", err |-> "none"],
              !.payout[w] = IF @ = "none" THEN "queued" ELSE @]

(* queueWithdrawalPayoutAfterRelease                                        *)
QueuePayoutAfterRelease(d, w) ==
    IF d.withdrawal[w].status # "awaiting_vault" THEN d
    ELSE [d EXCEPT !.withdrawal[w] = [status |-> "queued", err |-> "none"],
                   !.payout[w] = IF @ = "none" THEN "queued" ELSE @]

(* SLIP: the legs are booked only for a withdrawal that still waits.        *)
BookWhileAwaited(d, w) ==
    IF d.withdrawal[w].status = "awaiting_vault" THEN [d EXCEPT !.booked = @ \cup {w}] ELSE d

(* bookInternalTransfer: both legs, keyed on the withdrawal.                *)
BookInternalTransfer(d, w) == [d EXCEPT !.booked = @ \cup {w}]

(* The codes a withdrawal carries when its release only looked lost.        *)
LooksLost == {"PAYOUT_UNCONFIRMED", "PAYOUT_FAILED", "PAYOUT_NOT_SENT", "LEASE_EXPIRED",
              "PAYOUT_INSUFFICIENT_FUNDS"}

BackFromReview(d, w) ==
    IF d.withdrawal[w].status = "manual_review" /\ d.withdrawal[w].err \in LooksLost
    THEN [d EXCEPT !.withdrawal[w] = [status |-> "awaiting_vault", err |-> "none"]]
    ELSE d

(* completeRelease; i is the receipt that settles it.                       *)
CompleteRelease(d, w, i) ==
    LET done   == [d EXCEPT !.job[w] = CompleteLate(@), !.receipts[i].settles = w]
        booked == BookInternalTransfer(done, w)
    IN  QueuePayoutAfterRelease(BackFromReview(booked, w), w)

(* SLIP: any payment from the vault will do.                                *)
LandedOfAnyAmount(d, w) ==
    {i \in DOMAIN d.receipts : w \in d.receipts[i].after /\ d.receipts[i].settles = None}

(* landedReceiptFor: of this amount, newer than the job, and no release's   *)
(* yet.                                                                     *)
LandedReceipts(d, w) ==
    {i \in DOMAIN d.receipts : /\ d.receipts[i].display = Display[w]
                               /\ w \in d.receipts[i].after
                               /\ d.receipts[i].settles = None}

Least(S) == CHOOSE i \in S : \A j \in S : i <= j

(* SLIP: the release is sent again without looking for a receipt.           *)
SendAgainBlindly(d, w, code) ==
    IF code = "PAYOUT_INSUFFICIENT_FUNDS" THEN [d EXCEPT !.job[w] = RequeueForFunds(@)]
    ELSE IF ~OutOfAttempts(d.job[w]) THEN [d EXCEPT !.job[w] = Requeue(@, code)]
    ELSE [d EXCEPT !.job[w] = DeadLetter(@, code),
                   !.withdrawal[w] = IF @.status = "awaiting_vault"
                                     THEN [status |-> "manual_review", err |-> code] ELSE @]

(* SLIP: after the last attempt the job dies and the withdrawal waits on.   *)
GiveUpUnseen(d, w, code) ==
    IF code = "PAYOUT_INSUFFICIENT_FUNDS" THEN [d EXCEPT !.job[w] = RequeueForFunds(@)]
    ELSE IF LandedReceipts(d, w) # {} THEN CompleteRelease(d, w, Least(LandedReceipts(d, w)))
    ELSE IF ~OutOfAttempts(d.job[w]) THEN [d EXCEPT !.job[w] = Requeue(@, code)]
    ELSE [d EXCEPT !.job[w] = DeadLetter(@, code)]

(* SLIP: there is no last attempt.                                          *)
SendForEver(d, w, code) ==
    IF code = "PAYOUT_INSUFFICIENT_FUNDS" THEN [d EXCEPT !.job[w] = RequeueForFunds(@)]
    ELSE IF LandedReceipts(d, w) # {} THEN CompleteRelease(d, w, Least(LandedReceipts(d, w)))
    ELSE [d EXCEPT !.job[w] = Requeue(@, code)]

(* SLIP: the withdrawal is given its job's status.                          *)
GiveUpAlike(d, w, code) ==
    IF code = "PAYOUT_INSUFFICIENT_FUNDS" THEN [d EXCEPT !.job[w] = RequeueForFunds(@)]
    ELSE IF LandedReceipts(d, w) # {} THEN CompleteRelease(d, w, Least(LandedReceipts(d, w)))
    ELSE IF ~OutOfAttempts(d.job[w]) THEN [d EXCEPT !.job[w] = Requeue(@, code)]
    ELSE [d EXCEPT !.job[w] = DeadLetter(@, code), !.withdrawal[w].status = "dead_letter"]

(* recoverRelease                                                           *)
RecoverRelease(d, w, code) ==
    IF code = "PAYOUT_INSUFFICIENT_FUNDS"
    THEN [d EXCEPT !.job[w] = RequeueForFunds(@),
                   !.withdrawal[w].err = IF d.withdrawal[w].status = "awaiting_vault"
                                         THEN code ELSE @]
    ELSE IF LandedReceipts(d, w) # {} THEN CompleteRelease(d, w, Least(LandedReceipts(d, w)))
    ELSE IF ~OutOfAttempts(d.job[w]) THEN [d EXCEPT !.job[w] = Requeue(@, code)]
    ELSE [d EXCEPT !.job[w] = DeadLetter(@, code),
                   !.withdrawal[w] = IF @.status = "awaiting_vault"
                                     THEN [status |-> "manual_review", err |-> code] ELSE @]

(* settleReleaseFromReceipt: the oldest release of this amount that is      *)
(* waiting to be sent again, or was given up.                               *)
Unsettled(d, i) ==
    {w \in Withdrawals : /\ Display[w] = d.receipts[i].display
                         /\ \/ d.job[w].status = "queued" /\ d.job[w].err # "none"
                            \/ d.job[w].status = "dead_letter"}

SettleFromReceipt(d, i) ==
    IF Unsettled(d, i) = {} THEN d ELSE CompleteRelease(d, Least(Unsettled(d, i)), i)

-----------------------------------------------------------------------------
(* Queueing, and what the teller reports                                    *)

GatewayOnly == UNCHANGED <<bot, net, arriving, moved, toPlayer, retries, stops>>

(* queueWithdrawalJob, for a payout the teller does not cover.              *)
Request(w) ==
    /\ db.withdrawal[w].status = "none"
    /\ \A v \in Withdrawals : v < w => db.withdrawal[v].status # "none"
    /\ db' = [db EXCEPT !.withdrawal[w].status = "awaiting_vault", !.job[w] = NewJob]
    /\ GatewayOnly

(* processCashPaymentObserved, for a payer who is one of our own bots.      *)
ReceiptArrives ==
    /\ arriving # << >>
    /\ LET exist == {w \in Withdrawals : db.job[w].status # "none"}
           stored == [db EXCEPT !.receipts =
                        Append(@, [display |-> Head(arriving), after |-> exist, settles |-> None])]
       IN  db' = SettleFromReceipt(stored, Len(stored.receipts))
    /\ arriving' = Tail(arriving)
    /\ UNCHANGED <<bot, net, moved, toPlayer, retries, stops>>

-----------------------------------------------------------------------------
(* The vault bot                                                            *)

SweepRelease(d, w) ==
    IF LeaseRanOut(d.job[w])
    THEN RecoverRelease([d EXCEPT !.job[w] = ExpireLease(@)], w, "LEASE_EXPIRED")
    ELSE d

(* The sweep at the head of a claim: every lease that has run out.  A vault *)
(* that restarted may have left several behind.                             *)
SweepLeases(d) ==
    LET swept[n \in 0..Cardinality(Withdrawals)] ==
            IF n = 0 THEN d ELSE SweepRelease(swept[n - 1], n)
    IN  swept[Cardinality(Withdrawals)]

(* SLIP: a release waits for every older one, whatever became of it.        *)
ClaimInOrder(d, w) ==
    /\ Claimable(d.job[w])
    /\ \A v \in Withdrawals : v < w => d.job[v].status = "completed"

(* Claimable, and no older release on the vault waits for funds.            *)
MayClaim(d, w) ==
    /\ Claimable(d.job[w])
    /\ \A v \in Withdrawals : v < w => ~WaitsForFunds(d.job[v])

TokensInUse(d) == {m.token : m \in net} \cup {d.job[w].token : w \in Withdrawals}

(* A quarantined vault is handed nothing; its leases are swept all the same.*)
Poll ==
    /\ bot.phase = "idle"
    /\ Prompt => arriving = << >> /\ net = {}
    /\ LET d == SweepLeases(db) IN
       \/ /\ d # db
          /\ d.quarantined \/ ~\E w \in Withdrawals : MayClaim(d, w)
          /\ db' = d /\ UNCHANGED bot
       \/ /\ ~d.quarantined
          /\ \E w \in Withdrawals, t \in Tokens \ TokensInUse(d) :
                /\ MayClaim(d, w)
                /\ db' = [d EXCEPT !.job[w] = Lease(@, t)]
                /\ bot' = [Idle EXCEPT !.phase = "holding", !.w = w, !.token = t]
    /\ UNCHANGED <<net, arriving, moved, toPlayer, retries, stops>>

(* The vault's /pay moves the money.  The vault hears of it or does not,    *)
(* and so does the teller.                                                  *)
GameMoves ==
    /\ bot.phase = "holding"
    /\ moved' = [moved EXCEPT ![bot.w] = @ + 1]
    /\ \/ arriving' = Append(arriving, Display[bot.w])
       \/ ~Prompt /\ UNCHANGED arriving
    /\ \E o \in {"completed"} \cup (Codes \ {"PAYOUT_NOT_SENT"}) :
          bot' = [bot EXCEPT !.phase = "settled", !.outcome = o]
    /\ UNCHANGED <<db, net, toPlayer, retries, stops>>

GameRefuses ==
    /\ bot.phase = "holding"
    /\ \E o \in Codes \cup {"PAYOUT_INSUFFICIENT_FUNDS"} :
          bot' = [bot EXCEPT !.phase = "settled", !.outcome = o]
    /\ UNCHANGED <<db, net, arriving, moved, toPlayer, retries, stops>>

Report ==
    /\ bot.phase = "settled" /\ Cardinality(net) < MaxReports
    /\ net' = net \cup {[w |-> bot.w, token |-> bot.token, outcome |-> bot.outcome]}
    /\ bot' = Idle
    /\ UNCHANGED <<db, arriving, moved, toPlayer, retries, stops>>

BotRestarts ==
    /\ bot # Idle
    /\ bot' = Idle
    /\ UNCHANGED <<db, net, arriving, moved, toPlayer, retries, stops>>

LoseReport(m) ==
    /\ m \in net /\ net' = net \ {m}
    /\ UNCHANGED <<db, bot, arriving, moved, toPlayer, retries, stops>>

(* processJobResult for a release.  Without a valid lease the vault is      *)
(* quarantined, and the job and its withdrawal are left as they are, a      *)
(* confirmation included.                                                   *)
ReportArrives(m) ==
    /\ m \in net /\ net' = net \ {m}
    /\ Prompt => arriving = << >>
    /\ db' = IF ~ValidLease(db.job[m.w], m.token) THEN [db EXCEPT !.quarantined = TRUE]
             ELSE IF m.outcome # "completed" THEN RecoverRelease(db, m.w, m.outcome)
             ELSE QueuePayoutAfterRelease(
                    BookInternalTransfer([db EXCEPT !.job[m.w] = Complete(@)], m.w), m.w)
    /\ UNCHANGED <<bot, arriving, moved, toPlayer, retries, stops>>

LeaseLapses(w) ==
    /\ db.job[w].status = "leased" /\ ~db.job[w].lapsed
    /\ db' = [db EXCEPT !.job[w].lapsed = TRUE]
    /\ GatewayOnly

RetryIsDue(w) ==
    /\ db.job[w].status = "queued" /\ db.job[w].avail = "later"
    /\ db' = [db EXCEPT !.job[w].avail = "due"]
    /\ GatewayOnly

-----------------------------------------------------------------------------
(* The teller's payout to the player (module Payouts has it in full), and   *)
(* the operator                                                             *)

TellerPays(w) ==
    /\ db.payout[w] = "queued" /\ db.withdrawal[w].status = "queued"
    /\ \/ /\ toPlayer' = [toPlayer EXCEPT ![w] = @ + 1]
          /\ db' = [db EXCEPT !.payout[w] = "completed", !.withdrawal[w].status = "paid"]
       \/ /\ \E paid \in 0..1 : toPlayer' = [toPlayer EXCEPT ![w] = @ + paid]
          /\ db' = [db EXCEPT !.payout[w] = "dead_letter",
                              !.withdrawal[w] = [status |-> "manual_review",
                                                 err |-> "PAYOUT_UNCONFIRMED"]]
    /\ UNCHANGED <<bot, net, arriving, moved, retries, stops>>

(* resolve.  Assumed: the operator's answer is true.                        *)
Resolve(w) ==
    /\ db.withdrawal[w].status = "manual_review"
    /\ LET answer == IF toPlayer[w] > 0 THEN "paid" ELSE "failed" IN
       db' = [db EXCEPT !.withdrawal[w] = [status |-> answer, err |-> "none"],
                        !.refunds[w] = IF answer = "failed" THEN @ + 1 ELSE @,
                        !.payout[w] = IF @ = "dead_letter" THEN "completed" ELSE @]
    /\ GatewayOnly

(* SLIP: the job's own status is not looked at.                             *)
RetryAnyRelease(w) ==
    /\ retries < Retries
    /\ \/ db.withdrawal[w].status = "awaiting_vault"
       \/ db.withdrawal[w].status = "manual_review" /\ db.withdrawal[w].err \in LooksLost
    /\ db' = [db EXCEPT !.job[w] = NewJob,
                        !.withdrawal[w] = [status |-> "awaiting_vault", err |-> "none"]]
    /\ retries' = retries + 1
    /\ UNCHANGED <<bot, net, arriving, moved, toPlayer, stops>>

(* jobs/:id/retry, offered while the withdrawal is unpaid.                  *)
RetryRelease(w) ==
    /\ retries < Retries
    /\ db.job[w].status = "dead_letter"
    /\ \/ db.withdrawal[w].status = "awaiting_vault"
       \/ db.withdrawal[w].status = "manual_review" /\ db.withdrawal[w].err \in LooksLost
    /\ db' = [db EXCEPT !.job[w] = NewJob,
                        !.withdrawal[w] = [status |-> "awaiting_vault", err |-> "none"]]
    /\ retries' = retries + 1
    /\ UNCHANGED <<bot, net, arriving, moved, toPlayer, stops>>

(* The operator takes the vault out of service: every job on it dies, and   *)
(* no cash withdrawal is touched.                                           *)
QuarantineVault ==
    /\ stops < Stops /\ stops' = stops + 1
    /\ db' = [db EXCEPT !.quarantined = TRUE,
                        !.job = [w \in Withdrawals |->
                                   IF @[w].status \in {"queued", "leased"}
                                   THEN DeadLetter(@[w], "BOT_QUARANTINED") ELSE @[w]]]
    /\ UNCHANGED <<bot, net, arriving, moved, toPlayer, retries>>

(* The operator clears the vault.                                           *)
EndQuarantine ==
    /\ db.quarantined
    /\ db' = [db EXCEPT !.quarantined = FALSE]
    /\ GatewayOnly

-----------------------------------------------------------------------------
VaultNext ==
    \/ Poll \/ GameMoves \/ GameRefuses \/ Report

GatewayNext ==
    \/ ReceiptArrives
    \/ \E m \in net : ReportArrives(m)
    \/ \E w \in Withdrawals : Request(w) \/ LeaseLapses(w) \/ RetryIsDue(w) \/ TellerPays(w)

OperatorNext ==
    \/ \E w \in Withdrawals : Resolve(w) \/ RetryRelease(w)
    \/ QuarantineVault \/ EndQuarantine

Fault == BotRestarts \/ \E m \in net : LoseReport(m)

Next == VaultNext \/ GatewayNext \/ OperatorNext \/ Fault

Spec == Init /\ [][Next]_vars

-----------------------------------------------------------------------------
(* Correctness                                                              *)

Receipts == [display : {Display[w] : w \in Withdrawals}, after : SUBSET Withdrawals,
             settles : Withdrawals \cup {None}]

TypeOK ==
    /\ db.withdrawal \in [Withdrawals -> [status : WithdrawalStatuses, err : JobErrors]]
    /\ db.job \in [Withdrawals -> JobRows]
    /\ db.payout \in [Withdrawals -> PayoutStatuses]
    /\ \A i \in DOMAIN db.receipts : db.receipts[i] \in Receipts
    /\ db.booked \subseteq Withdrawals
    /\ db.refunds \in [Withdrawals -> Nat]
    /\ db.quarantined \in BOOLEAN
    /\ bot \in {Idle} \cup [phase : {"holding", "settled"}, w : Withdrawals, token : Tokens,
                            outcome : Outcomes]
    /\ net \subseteq [w : Withdrawals, token : Tokens, outcome : Outcomes]
    /\ moved \in [Withdrawals -> Nat] /\ toPlayer \in [Withdrawals -> Nat]
    /\ retries \in 0..Retries /\ stops \in 0..Stops

(* A release that counts as done has landed: no refusal, no expired lease   *)
(* and no receipt of another payment completes one whose money never left   *)
(* the vault, which would send the player's payout to a teller without it.  *)
CompletedHasLanded == \A w \in Withdrawals : db.job[w].status = "completed" => moved[w] > 0

(* A release that landed is not sent again: whichever of the two bots the   *)
(* gateway hears first, its money leaves the vault once.                    *)
MovedOnce == \A w \in Withdrawals : moved[w] <= 1

(* The books of both bots move for a release exactly when it is done,       *)
(* however often it was sent, confirmed or recognised.                      *)
BookedWhenDone ==
    db.booked = {w \in Withdrawals : db.job[w].status = "completed"}

(* The player's own hop never starts before the release is done.            *)
PayoutFollowsRelease ==
    \A w \in Withdrawals : db.payout[w] # "none" => db.job[w].status = "completed"

(* A player has the money once: in the game, or back in the wallet.  A      *)
(* release that is recognised after an operator gave the money back pays    *)
(* nobody.                                                                  *)
PlayerPaidOnce ==
    \A w \in Withdrawals : toPlayer[w] + db.refunds[w] <= 1

(* All three.  A release is recognised in time only if the teller sees it   *)
(* and reports first, and nobody has stopped the vault meanwhile.           *)
MoneyMovesOnce ==
    PayoutFollowsRelease /\ PlayerPaidOnce /\ (Prompt /\ Stops = 0 => MovedOnce)

(* Behind a withdrawal that waits for the vault there is a release that can *)
(* still be made: an operator who sends one again, a review that ends, a    *)
(* receipt that comes late leave no withdrawal waiting for nothing.         *)
WaitsForSomething ==
    \A w \in Withdrawals :
        db.withdrawal[w].status = "awaiting_vault" => db.job[w].status \in {"queued", "leased"}

=============================================================================
