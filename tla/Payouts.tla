------------------------------- MODULE Payouts -------------------------------
(***************************************************************************)
(* Cash withdrawals paid straight from one bot: the life of a withdrawal   *)
(* from the player's request to the money in the game, or back in the      *)
(* wallet.                                                                 *)
(*                                                                         *)
(* Four parties take steps.  The gateway keeps cash_withdrawals, bot_jobs, *)
(* user_wallets and wallet_transactions in PostgreSQL, and every one of    *)
(* its handlers is one serializable transaction, hence one action here.    *)
(* The bot claims a job, sends /pay, listens to the chat and reports.  The *)
(* game server executes the command, refuses it or drops it, when it       *)
(* likes.  An operator approves, rejects, pulls back and resolves.         *)
(*                                                                         *)
(* Messages may be lost or arrive after the lease they answer for has run  *)
(* out; the bot may crash at any point; a command may execute after the    *)
(* bot has stopped waiting for it.                                         *)
(***************************************************************************)
EXTENDS BotJobs, Sequences, FiniteSets

CONSTANTS
    Users,         \* players
    Withdrawals,   \* requests, named by their idempotency key
    Owner,         \* the player of each request
    Amount,        \* what each request asks for
    Opening,       \* each player's wallet at the start
    MaxFunds       \* bound: the most the bot holds in the game

ASSUME NoneIsNoWithdrawal == None \notin Withdrawals
ASSUME OwnerAssumption    == Owner \in [Withdrawals -> Users]
ASSUME AmountAssumption   == Amount \in [Withdrawals -> Nat \ {0}]
ASSUME OpeningAssumption  == Opening \in [Users -> Nat]
ASSUME MaxFundsAssumption == MaxFunds \in Nat

VARIABLES
    wd,        \* cash_withdrawals: status and error_code of each request
    wallet,    \* user_wallets.balance_minor
    ledger,    \* wallet_transactions of this component, as <<kind, request>>
    job,       \* bot_jobs: the cash_payout row of each request
    line,      \* the requests whose job row exists, oldest row first
    botRow,    \* bot_accounts.status with the age of its heartbeat
    bot,       \* the bot process: what it is doing and what it has heard
    net,       \* job results on their way to the gateway
    inGame,    \* /pay commands sent and not yet executed, refused or dropped
    received,  \* how many times the game has paid each request
    funds,     \* what the bot holds in the game
    landed,    \* money has landed on the bot and is not reported yet
    booked     \* requests whose payout leg is booked on the bot's balance

gatewayVars == <<wd, wallet, ledger, job, line, booked>>
gameVars    == <<inGame, received, funds, landed>>
vars        == <<gatewayVars, botRow, bot, net, gameVars>>

-----------------------------------------------------------------------------
(* Types                                                                    *)

WithdrawalStatuses == {"none", "pending_approval", "queued", "processing",
                       "manual_review", "paid", "failed", "rejected"}

WithdrawalErrors == JobErrors \cup {"ADMIN_CONFIRMED_NOT_PAID",
                                    "BALANCE_SHOWS_NOT_PAID"}

WithdrawalRows == [status : WithdrawalStatuses, err : WithdrawalErrors]

Debit(w)  == <<"cash_withdrawal", w>>
Refund(w) == <<"cash_withdrawal_refund", w>>

(* What the chat has said to a bot that waits for its /pay.                 *)
Answers == {"nothing", "receipt", "mismatch", "insufficient_funds",
            "payments_disabled", "cooldown"}

BotStates == [phase : {"idle", "claimed", "sent"},
              w     : Withdrawals \cup {None},
              token : Tokens \cup {None},
              heard : Answers]

Idle == [phase |-> "idle", w |-> None, token |-> None, heard |-> "nothing"]

Results == [w : Withdrawals, token : Tokens, outcome : {"completed", "failed"},
            err : JobErrors, retryable : BOOLEAN]

(* No job row, bot or message on its way refers to the token.               *)
FreshToken(t) ==
    /\ \A w \in Withdrawals : job[w].token # t /\ <<w, t>> \notin inGame
    /\ \A m \in net : m.token # t
    /\ bot.token # t

OpenStatuses == {"pending_approval", "queued", "processing", "manual_review"}
Open(w)      == wd[w].status \in OpenStatuses

Init ==
    /\ wd = [w \in Withdrawals |-> [status |-> "none", err |-> "none"]]
    /\ wallet = Opening
    /\ ledger = {}
    /\ job = [w \in Withdrawals |-> NoJob]
    /\ line = <<>>
    /\ botRow = "online"
    /\ bot = Idle
    /\ net = {}
    /\ inGame = {}
    /\ received = [w \in Withdrawals |-> 0]
    /\ funds \in 0..MaxFunds
    /\ landed = FALSE
    /\ booked = {}

-----------------------------------------------------------------------------
(* Shared steps of the gateway's handlers                                   *)

(* payPlayerDirectly: the insert into bot_jobs, or the release of the row   *)
(* an operator's hold left parked.                                          *)
QueueJob(w) ==
    /\ job' = [job EXCEPT ![w] = InsertOrRelease(@)]
    /\ line' = IF job[w].status = "none" THEN Append(line, w) ELSE line

(* refundWithdrawal, on a request whose status still allows it; the handler *)
(* that calls it names the status and error it leaves.                      *)
RefundTo(w, status, err) ==
    /\ wd' = [wd EXCEPT ![w] = [status |-> status, err |-> err]]
    /\ wallet' = [wallet EXCEPT ![Owner[w]] = @ + Amount[w]]
    /\ ledger' = ledger \cup {Refund(w)}

(* SLIP: the two columns of the update are swapped.                         *)
MovedSwapped(w, status, err) == [wd EXCEPT ![w] = [status |-> err, err |-> status]]

(* UPDATE cash_withdrawals ... WHERE status IN ('queued', 'processing').    *)
Moved(w, status, err) ==
    IF wd[w].status \in {"queued", "processing"}
    THEN [wd EXCEPT ![w] = [status |-> status, err |-> err]]
    ELSE wd

NoMoney == UNCHANGED <<wallet, ledger>>

-----------------------------------------------------------------------------
(* The player and the operator                                              *)

(* SLIP: the one-live index is not there.                                   *)
RequestAnother(w, review) ==
    LET u == Owner[w] IN
    /\ wd[w].status = "none" /\ botRow = "online" /\ wallet[u] >= Amount[w]
    /\ wallet' = [wallet EXCEPT ![u] = @ - Amount[w]]
    /\ ledger' = ledger \cup {Debit(w)}
    /\ wd' = [wd EXCEPT ![w].status = IF review THEN "pending_approval" ELSE "queued"]
    /\ IF review THEN UNCHANGED <<job, line>> ELSE QueueJob(w)
    /\ UNCHANGED <<botRow, bot, net, gameVars, booked>>

(* POST /v1/cash/withdrawals, under the player's row lock.  The anti-drain  *)
(* rules decide whether an operator must approve it first.                  *)
RequestWithdrawal(w, review) ==
    LET u == Owner[w] IN
    /\ wd[w].status = "none"
    /\ botRow = "online"
    /\ wallet[u] >= Amount[w]
    /\ \A v \in Withdrawals : Owner[v] = u => ~Open(v)
    /\ wallet' = [wallet EXCEPT ![u] = @ - Amount[w]]
    /\ ledger' = ledger \cup {Debit(w)}
    /\ wd' = [wd EXCEPT ![w].status = IF review THEN "pending_approval" ELSE "queued"]
    /\ IF review THEN UNCHANGED <<job, line>> ELSE QueueJob(w)
    /\ UNCHANGED <<botRow, bot, net, gameVars, booked>>

(* SLIP: the status guard is not in the UPDATE; a second click approves     *)
(* what another operator has just rejected.                                 *)
ApproveBlindly(w) ==
    /\ wd[w].status \in {"pending_approval", "rejected"}
    /\ wd' = [wd EXCEPT ![w] = [status |-> "queued", err |-> "none"]]
    /\ QueueJob(w)
    /\ NoMoney
    /\ UNCHANGED <<botRow, bot, net, gameVars, booked>>

Approve(w) ==
    /\ wd[w].status = "pending_approval"
    /\ wd' = [wd EXCEPT ![w] = [status |-> "queued", err |-> "none"]]
    /\ QueueJob(w)
    /\ NoMoney
    /\ UNCHANGED <<botRow, bot, net, gameVars, booked>>

Reject(w) ==
    /\ wd[w].status = "pending_approval"
    /\ RefundTo(w, "rejected", "REJECTED_BY_ADMIN")
    /\ job' = [job EXCEPT ![w] = IF @.status = "queued"
                                 THEN [@ EXCEPT !.status = "failed", !.err = "REJECTED_BY_ADMIN"]
                                 ELSE @]
    /\ UNCHANGED <<line, botRow, bot, net, gameVars, booked>>

(* Pulls back what no bot has claimed: one request, everything of one       *)
(* player, or everything.                                                   *)
Holdable(w) == wd[w].status = "queued" /\ job[w].status = "queued"

HoldQueued(S) ==
    LET held == {w \in S : Holdable(w)} IN
    /\ held # {}
    /\ job' = [w \in Withdrawals |-> IF w \in held THEN Park(job[w]) ELSE job[w]]
    /\ wd' = [w \in Withdrawals |->
                IF w \in held THEN [wd[w] EXCEPT !.status = "pending_approval"] ELSE wd[w]]
    /\ NoMoney
    /\ UNCHANGED <<line, botRow, bot, net, gameVars, booked>>

(* A payout under manual review: the operator looks in the game and says    *)
(* what happened.  Assumed of the operator: the answer is true, and is not  *)
(* given while the command can still execute.                               *)
Settled(w) == \A t \in Tokens : <<w, t>> \notin inGame

RetireDead(w) == [job EXCEPT ![w] = IF @.status = "dead_letter" THEN Complete(@) ELSE @]

ResolvePaid(w) ==
    /\ wd[w].status = "manual_review" /\ Settled(w) /\ received[w] > 0
    /\ wd' = [wd EXCEPT ![w] = [status |-> "paid", err |-> "none"]]
    /\ job' = RetireDead(w)
    /\ NoMoney
    /\ UNCHANGED <<line, botRow, bot, net, gameVars, booked>>

(* SLIP: also takes a payout that has failed, as the resolution of an       *)
(* operator's own payouts does.                                             *)
ResolveNotPaidAgain(w) ==
    /\ wd[w].status \in {"manual_review", "failed"} /\ Settled(w) /\ received[w] = 0
    /\ RefundTo(w, "failed", "ADMIN_CONFIRMED_NOT_PAID")
    /\ job' = RetireDead(w)
    /\ UNCHANGED <<line, botRow, bot, net, gameVars, booked>>

(* SLIP: refunds and leaves the payout in the review list.                  *)
ResolveNotPaidOpen(w) ==
    /\ wd[w].status = "manual_review" /\ Settled(w) /\ received[w] = 0
    /\ RefundTo(w, "manual_review", "ADMIN_CONFIRMED_NOT_PAID")
    /\ job' = RetireDead(w)
    /\ UNCHANGED <<line, botRow, bot, net, gameVars, booked>>

ResolveNotPaid(w) ==
    /\ wd[w].status = "manual_review" /\ Settled(w) /\ received[w] = 0
    /\ RefundTo(w, "failed", "ADMIN_CONFIRMED_NOT_PAID")
    /\ job' = RetireDead(w)
    /\ UNCHANGED <<line, botRow, bot, net, gameVars, booked>>

(* settleUnconfirmedPayout: the bot's own balance reading has decided.  The *)
(* verdict is taken to be right here; how it is reached is not modelled in  *)
(* this module.                                                             *)
AutoSettlePaid(w) ==
    /\ wd[w] = [status |-> "manual_review", err |-> "PAYOUT_UNCONFIRMED"]
    /\ Settled(w) /\ received[w] > 0
    /\ wd' = [wd EXCEPT ![w] = [status |-> "paid", err |-> "none"]]
    /\ job' = RetireDead(w)
    /\ booked' = booked \cup {w}
    /\ NoMoney
    /\ UNCHANGED <<line, botRow, bot, net, gameVars>>

AutoSettleNotPaid(w) ==
    /\ wd[w] = [status |-> "manual_review", err |-> "PAYOUT_UNCONFIRMED"]
    /\ Settled(w) /\ received[w] = 0
    /\ RefundTo(w, "failed", "BALANCE_SHOWS_NOT_PAID")
    /\ job' = RetireDead(w)
    /\ UNCHANGED <<line, botRow, bot, net, gameVars, booked>>

(* PATCH /v1/admin/bots/:id/quarantine with quarantined = true.             *)
OperatorQuarantine ==
    /\ botRow' = "quarantined"
    /\ job' = [w \in Withdrawals |-> IF job[w].status \in {"queued", "leased"}
                                     THEN DeadLetter(job[w], "BOT_QUARANTINED")
                                     ELSE job[w]]
    /\ NoMoney
    /\ UNCHANGED <<wd, line, bot, net, gameVars, booked>>

(* The same route with quarantined = false: the bot is degraded until its   *)
(* next healthy heartbeat.                                                  *)
OperatorRelease ==
    /\ botRow = "quarantined"
    /\ botRow' = "offline"
    /\ UNCHANGED <<gatewayVars, bot, net, gameVars>>

(* processHeartbeat, and heartbeats that stop coming.  A quarantine sticks. *)
Heartbeat ==
    /\ botRow # "quarantined"
    /\ botRow' = IF botRow = "online" THEN "offline" ELSE "online"
    /\ UNCHANGED <<gatewayVars, bot, net, gameVars>>

-----------------------------------------------------------------------------
(* Handing out jobs                                                         *)

RanOut == {w \in Withdrawals : LeaseRanOut(job[w])}

JobsSwept == [w \in Withdrawals |-> IF w \in RanOut THEN ExpireLease(job[w]) ELSE job[w]]
(* SLIP: the job is expired and its withdrawal forgotten.                   *)
WdNotSwept == wd
WdSwept   == [w \in Withdrawals |->
                IF w \in RanOut /\ wd[w].status \in {"queued", "processing"}
                THEN [status |-> "manual_review", err |-> "LEASE_EXPIRED"]
                ELSE wd[w]]

(* SLIP: every other job that waits for funds holds this one up, not only   *)
(* the older ones.                                                          *)
OlderOrNewer(v, w) == v # w

Older(v, w) == \E i, k \in 1..Len(line) : i < k /\ line[i] = v /\ line[k] = w

(* Nothing newer is handed out while an older money job waits for funds.    *)
MayHandOut(w) ==
    /\ botRow = "online"
    /\ Claimable(job[w])
    /\ \A v \in Withdrawals : Older(v, w) => ~WaitsForFunds(job[v])

(* POST jobs/claim that finds nothing to hand out: it still expires the     *)
(* bot's own leases that have run out.                                      *)
ClaimNothing ==
    /\ bot.phase = "idle"
    /\ RanOut # {}
    /\ \A w \in Withdrawals : ~MayHandOut(w)
    /\ job' = JobsSwept
    /\ wd' = WdSwept
    /\ NoMoney
    /\ UNCHANGED <<line, botRow, bot, net, gameVars, booked>>

(* POST jobs/claim that leases a job.  The answer reaches the bot, or every *)
(* copy of it is lost and the lease is held by nobody.                      *)
Claim(w, t, delivered) ==
    /\ bot.phase = "idle"
    /\ MayHandOut(w)
    /\ FreshToken(t)
    /\ job' = [JobsSwept EXCEPT ![w] = Lease(@, t)]
    /\ wd' = [WdSwept EXCEPT ![w].status = IF @ = "queued" THEN "processing" ELSE @]
    /\ bot' = IF delivered
              THEN [phase |-> "claimed", w |-> w, token |-> t, heard |-> "nothing"]
              ELSE bot
    /\ NoMoney
    /\ UNCHANGED <<line, botRow, net, gameVars, booked>>

-----------------------------------------------------------------------------
(* The bot                                                                  *)

(* completeJob: the result is on its way, and the bot is free again.        *)
Report(outcome, err, retryable) ==
    /\ net' = net \cup {[w |-> bot.w, token |-> bot.token, outcome |-> outcome,
                         err |-> err, retryable |-> retryable]}
    /\ bot' = Idle
    /\ UNCHANGED <<gatewayVars, botRow>>

(* The connection changed under the claim, or the server left the last /bal *)
(* unanswered: no command was sent.                                         *)
NotSent(retryable) ==
    /\ bot.phase = "claimed"
    /\ Report("failed", "PAYOUT_NOT_SENT", retryable)
    /\ UNCHANGED gameVars

(* The write of the command threw: it may have gone out or not.             *)
SendThrows(out) ==
    /\ bot.phase = "claimed"
    /\ Report("failed", "PAYOUT_FAILED", FALSE)
    /\ inGame' = IF out THEN inGame \cup {<<bot.w, bot.token>>} ELSE inGame
    /\ UNCHANGED <<received, funds, landed>>

SendPay ==
    /\ bot.phase = "claimed"
    /\ bot' = [bot EXCEPT !.phase = "sent"]
    /\ inGame' = inGame \cup {<<bot.w, bot.token>>}
    /\ UNCHANGED <<gatewayVars, botRow, net, received, funds, landed>>

(* SLIP: silence is taken for a command that was never sent.                *)
SilenceMeansNotSent ==
    /\ bot.phase = "sent"
    /\ IF bot.heard = "receipt" THEN Report("completed", "none", FALSE)
                                ELSE Report("failed", "PAYOUT_NOT_SENT", FALSE)
    /\ UNCHANGED gameVars

(* SLIP: a command that was sent is taken for a payment, unless refused.    *)
SilenceMeansPaid ==
    /\ bot.phase = "sent"
    /\ IF bot.heard \in {"nothing", "receipt"} THEN Report("completed", "none", FALSE)
                                               ELSE Report("failed", "PAYOUT_NOT_SENT", FALSE)
    /\ UNCHANGED gameVars

(* What the bot makes of the answer it heard, or of silence.                *)
ReportAnswer ==
    /\ bot.phase = "sent"
    /\ \/ bot.heard = "receipt" /\ Report("completed", "none", FALSE)
       \/ bot.heard = "mismatch" /\ Report("failed", "PAYOUT_AMOUNT_MISMATCH", FALSE)
       \/ bot.heard = "insufficient_funds"
             /\ Report("failed", "PAYOUT_INSUFFICIENT_FUNDS", FALSE)
       \/ bot.heard = "payments_disabled" /\ Report("failed", "PAYOUT_NOT_SENT", FALSE)
       \/ bot.heard = "cooldown" /\ Report("failed", "PAYOUT_NOT_SENT", TRUE)
       \/ bot.heard = "nothing" /\ Report("failed", "PAYOUT_UNCONFIRMED", FALSE)
    /\ UNCHANGED gameVars

(* The process dies and starts again, with no memory of what it was doing.  *)
BotCrash ==
    /\ bot.phase # "idle"
    /\ bot' = Idle
    /\ UNCHANGED <<gatewayVars, botRow, net, gameVars>>

-----------------------------------------------------------------------------
(* The game server                                                          *)

(* A receipt names the payee and not the command, so the bot takes it for   *)
(* whatever payout to that player it is waiting for.                        *)
Hear(answer) == bot' = [bot EXCEPT !.heard = answer]

Listening           == bot.phase = "sent" /\ bot.heard \in {"nothing", "cooldown"}
AwaitsReceiptFor(w) == Listening /\ Owner[bot.w] = Owner[w]

GamePays(w, t) ==
    /\ <<w, t>> \in inGame
    /\ funds >= Amount[w]
    /\ inGame' = inGame \ {<<w, t>>}
    /\ funds' = funds - Amount[w]
    /\ received' = [received EXCEPT ![w] = @ + 1]
    /\ \/ UNCHANGED bot
       \/ AwaitsReceiptFor(w) /\ \E a \in {"receipt", "mismatch"} : Hear(a)
    /\ UNCHANGED <<gatewayVars, botRow, net, landed>>

(* A refusal, heard or not, and a command that is silently dropped.  The    *)
(* bot spaces its commands and changes its connection after silence, so a   *)
(* refusal it hears is the answer to the command it waits for.              *)
GameRefuses(w, t) ==
    /\ <<w, t>> \in inGame
    /\ inGame' = inGame \ {<<w, t>>}
    /\ \/ UNCHANGED bot
       \/ /\ Listening /\ bot.w = w /\ bot.token = t
          /\ \/ funds < Amount[w] /\ Hear("insufficient_funds")
             \/ Hear("payments_disabled")
             \/ Hear("cooldown")
    /\ UNCHANGED <<gatewayVars, botRow, net, received, funds, landed>>

(* A player, a sweep or an operator pays the bot in the game.               *)
MoneyLands(n) ==
    /\ funds + n <= MaxFunds
    /\ funds' = funds + n
    /\ landed' = TRUE
    /\ UNCHANGED <<gatewayVars, botRow, bot, net, inGame, received>>

(* processCashPaymentObserved reaches wakeFundsQueue.                       *)
MoneyReported ==
    /\ landed
    /\ landed' = FALSE
    /\ job' = [w \in Withdrawals |-> Wake(job[w])]
    /\ NoMoney
    /\ UNCHANGED <<wd, line, booked, botRow, bot, net, inGame, received, funds>>

-----------------------------------------------------------------------------
(* processJobResult, one action per way out of the handler.  The journal    *)
(* lets each result be processed at most once.                              *)

Arrives(m) ==
    /\ m \in net
    /\ net' = net \ {m}
    /\ UNCHANGED <<line, bot, gameVars>>

Current(m) == ValidLease(job[m.w], m.token)

(* The confirmation of a lease that has run out, expired or not yet.        *)
ConfirmsLate(m) ==
    LET j == job[m.w] IN
    /\ ~Current(m) /\ TokenMatches(j, m.token) /\ m.outcome = "completed"
    /\ \/ j.status = "leased"
       \/ j.status = "dead_letter" /\ j.err = "LEASE_EXPIRED"

AcceptLate(m) ==
    LET r == wd[m.w]
        stillOwed == \/ r.status \in {"queued", "processing"}
                     \/ /\ r.status = "manual_review"
                        /\ r.err \in {"LEASE_EXPIRED", "INVALID_JOB_LEASE"}
    IN
    /\ Arrives(m) /\ ConfirmsLate(m)
    /\ job' = [job EXCEPT ![m.w] = CompleteLate(@)]
    /\ wd' = [wd EXCEPT ![m.w] = IF stillOwed THEN [status |-> "paid", err |-> "none"] ELSE @]
    /\ booked' = booked \cup {m.w}
    /\ NoMoney
    /\ UNCHANGED botRow

(* Any other result without a lease: the bot is quarantined and a person    *)
(* looks at the payout.                                                     *)
RejectResult(m) ==
    /\ Arrives(m) /\ ~Current(m) /\ ~ConfirmsLate(m)
    /\ botRow' = "quarantined"
    /\ IF job[m.w].status = "completed"
       THEN UNCHANGED <<job, wd>>
       ELSE /\ job' = [job EXCEPT ![m.w] = DeadLetter(@, "INVALID_JOB_LEASE")]
            /\ wd' = Moved(m.w, "manual_review", "INVALID_JOB_LEASE")
    /\ NoMoney
    /\ UNCHANGED booked

Completed(m) ==
    /\ Arrives(m) /\ Current(m) /\ m.outcome = "completed"
    /\ job' = [job EXCEPT ![m.w] = Complete(@)]
    /\ wd' = Moved(m.w, "paid", "none")
    /\ booked' = booked \cup {m.w}
    /\ NoMoney
    /\ UNCHANGED botRow

ShortOfFunds(m) ==
    /\ Arrives(m) /\ Current(m) /\ m.err = "PAYOUT_INSUFFICIENT_FUNDS"
    /\ job' = [job EXCEPT ![m.w] = RequeueForFunds(@)]
    /\ wd' = Moved(m.w, "queued", "PAYOUT_INSUFFICIENT_FUNDS")
    /\ NoMoney
    /\ UNCHANGED <<booked, botRow>>

(* A failure that is neither a completion nor a shortage.                   *)
OtherFailure(m) ==
    Current(m) /\ m.outcome = "failed" /\ m.err # "PAYOUT_INSUFFICIENT_FUNDS"

(* SLIP: every failure is tried again while there are attempts left.        *)
TerminalWhenSpent(m) == OutOfAttempts(job[m.w])

Terminal(m) == ~m.retryable \/ OutOfAttempts(job[m.w])

FailedNotSent(m) ==
    /\ Arrives(m) /\ OtherFailure(m) /\ Terminal(m) /\ m.err = "PAYOUT_NOT_SENT"
    /\ job' = [job EXCEPT ![m.w] = DeadLetter(@, m.err)]
    /\ IF Open(m.w)
       THEN RefundTo(m.w, "failed", "PAYOUT_NOT_SENT")
       ELSE UNCHANGED wd /\ NoMoney
    /\ UNCHANGED <<booked, botRow>>

FailedUnknown(m) ==
    /\ Arrives(m) /\ OtherFailure(m) /\ Terminal(m) /\ m.err # "PAYOUT_NOT_SENT"
    /\ job' = [job EXCEPT ![m.w] = DeadLetter(@, m.err)]
    /\ wd' = Moved(m.w, "manual_review", m.err)
    /\ NoMoney
    /\ UNCHANGED <<booked, botRow>>

FailedRetry(m) ==
    /\ Arrives(m) /\ OtherFailure(m) /\ ~Terminal(m)
    /\ job' = [job EXCEPT ![m.w] = Requeue(@, m.err)]
    /\ wd' = Moved(m.w, "queued", m.err)
    /\ NoMoney
    /\ UNCHANGED <<booked, botRow>>

LoseResult(m) ==
    /\ m \in net
    /\ net' = net \ {m}
    /\ UNCHANGED <<gatewayVars, botRow, bot, gameVars>>

-----------------------------------------------------------------------------
(* Time                                                                     *)

BecomeDue(w) ==
    /\ job[w].status = "queued" /\ job[w].avail = "later"
    /\ job' = [job EXCEPT ![w].avail = "due"]
    /\ UNCHANGED <<wd, wallet, ledger, line, booked, botRow, bot, net, gameVars>>

LeaseLapses(w) ==
    /\ job[w].status = "leased" /\ ~job[w].lapsed
    /\ job' = [job EXCEPT ![w].lapsed = TRUE]
    /\ UNCHANGED <<wd, wallet, ledger, line, booked, botRow, bot, net, gameVars>>

-----------------------------------------------------------------------------
OperatorNext ==
    \/ \E w \in Withdrawals :
          \/ Approve(w) \/ Reject(w)
          \/ ResolvePaid(w) \/ ResolveNotPaid(w)
          \/ HoldQueued({w})
    \/ \E u \in Users : HoldQueued({w \in Withdrawals : Owner[w] = u})
    \/ HoldQueued(Withdrawals)
    \/ OperatorQuarantine \/ OperatorRelease

ClaimNext ==
    \/ ClaimNothing
    \/ \E w \in Withdrawals, t \in Tokens, delivered \in BOOLEAN : Claim(w, t, delivered)

BotStep ==
    \/ \E retryable \in BOOLEAN : NotSent(retryable)
    \/ \E out \in BOOLEAN : SendThrows(out)
    \/ SendPay \/ ReportAnswer

GameNext ==
    \/ \E w \in Withdrawals, t \in Tokens : GamePays(w, t) \/ GameRefuses(w, t)
    \/ \E n \in 1..MaxFunds : MoneyLands(n)

ProcessResult(m) ==
    \/ AcceptLate(m) \/ RejectResult(m) \/ Completed(m) \/ ShortOfFunds(m)
    \/ FailedNotSent(m) \/ FailedUnknown(m) \/ FailedRetry(m)

TimeNext == \E w \in Withdrawals : BecomeDue(w) \/ LeaseLapses(w)

Next ==
    \/ \E w \in Withdrawals, review \in BOOLEAN : RequestWithdrawal(w, review)
    \/ \E w \in Withdrawals : AutoSettlePaid(w) \/ AutoSettleNotPaid(w)
    \/ OperatorNext \/ ClaimNext \/ BotStep \/ BotCrash \/ GameNext
    \/ \E m \in net : ProcessResult(m) \/ LoseResult(m)
    \/ MoneyReported \/ Heartbeat \/ TimeNext

Spec == Init /\ [][Next]_vars

-----------------------------------------------------------------------------
(* Correctness                                                              *)

(* Every variable keeps its type, and what the bot holds in the game stays  *)
(* within the model's bound.                                                *)
TypeOK ==
    /\ wd \in [Withdrawals -> WithdrawalRows]
    /\ wallet \in [Users -> Nat]
    /\ ledger \subseteq {"cash_withdrawal", "cash_withdrawal_refund"} \X Withdrawals
    /\ job \in [Withdrawals -> JobRows]
    /\ line \in Seq(Withdrawals)
    /\ botRow \in {"online", "offline", "quarantined"}
    /\ bot \in BotStates
    /\ net \subseteq Results
    /\ inGame \subseteq Withdrawals \X Tokens
    /\ received \in [Withdrawals -> Nat]
    /\ funds \in 0..MaxFunds
    /\ landed \in BOOLEAN
    /\ booked \subseteq Withdrawals

Closed(w)   == wd[w].status \in {"paid", "failed", "rejected"}
Returned(w) == wd[w].status \in {"failed", "rejected"}
CanBePaid(w) == \/ received[w] > 0
                \/ \E t \in Tokens : <<w, t>> \in inGame
                \/ bot.w = w

(* The game never pays one request twice, whatever was lost, late, crashed  *)
(* or retried on the way: the promise sendCashPayout and processJobResult   *)
(* make by parking every unknown outcome instead of trying it again.        *)
NeverPaidTwice == \A w \in Withdrawals : received[w] <= 1

(* A player holds the money once.  A request whose money is back in the     *)
(* wallet was not paid, cannot be paid by a command still under way, and is *)
(* in no bot's hands: every refund (refundWithdrawal's callers) comes after *)
(* proof that nothing moved.                                                *)
ReturnedMeansNotPaid == \A w \in Withdrawals : Returned(w) => ~CanBePaid(w)

(* "paid" is only written on a payment that happened: a receipt is matched  *)
(* to the payout by its payee alone (awaitPayoutReceipt), which is sound    *)
(* because a player has one open request.                                   *)
PaidMeansReceived == \A w \in Withdrawals : wd[w].status = "paid" => received[w] = 1

(* cash_withdrawals_one_live_idx, kept by every path that reopens or closes *)
(* a request.                                                               *)
OneOpenPerPlayer ==
    \A v, w \in Withdrawals : v # w /\ Owner[v] = Owner[w] => ~(Open(v) /\ Open(w))

(* The wallet's journal agrees with the request: one debit from the moment  *)
(* it exists, one refund exactly when its money went back.                  *)
LedgerMatchesStatus ==
    \A w \in Withdrawals :
        /\ Debit(w) \in ledger <=> wd[w].status # "none"
        /\ Refund(w) \in ledger <=> Returned(w)

(* The bot's tracked balance only moves for a payout that left the bot      *)
(* (bookPayoutLeg, settleUnconfirmedPayout).                                *)
BookedOnlyWhatWasPaid == \A w \in booked : received[w] = 1

(* A payout an operator has yet to approve is in nobody's hands and its job *)
(* cannot be handed out, woken by a deposit or hold up the jobs behind it   *)
(* (holdQueuedWithdrawal against the claim and wakeFundsQueue).             *)
HeldIsNeverSent ==
    \A w \in Withdrawals :
        wd[w].status = "pending_approval" =>
            /\ ~CanBePaid(w)
            /\ ~Claimable(job[w]) /\ ~WaitsForFunds(job[w])

(* A payout in the queue has a job that will be handed out, and one in      *)
(* progress a lease that will run out: no path through the handlers leaves  *)
(* it behind a job nobody will touch, but an operator's quarantine.         *)
KilledByQuarantine(w) ==
    job[w].status = "dead_letter" /\ job[w].err = "BOT_QUARANTINED"

NeverStranded ==
    \A w \in Withdrawals :
        /\ wd[w].status = "queued" /\ ~KilledByQuarantine(w) =>
               job[w].status = "queued" /\ job[w].avail # "parked" /\ ~OutOfAttempts(job[w])
        /\ wd[w].status = "processing" /\ ~KilledByQuarantine(w) =>
               job[w].status = "leased"

(* What quarantineBotAndJobs says of a quarantined bot: its money jobs are  *)
(* not killed, so no withdrawal waits behind a dead job.                    *)
NoPayoutBehindDeadJob ==
    \A w \in Withdrawals :
        wd[w].status \in {"queued", "processing"} => job[w].status # "dead_letter"

(* A request that is paid, failed or rejected keeps that status for good:   *)
(* no late result, second operator or sweep reopens it.                     *)
ClosedStaysClosed ==
    [][\A w \in Withdrawals : Closed(w) => wd'[w].status = wd[w].status]_vars

-----------------------------------------------------------------------------
(* Why it is correct: what every reachable state has in common, part by     *)
(* part.  Together the parts are inductive.                                 *)

(* Nothing was ever sent for the request, and nothing is under way.         *)
Clean(w) == received[w] = 0 /\ Settled(w)

(* The request and its job row, for each status of the job.                 *)
JobAgrees(w) ==
    LET j == job[w]
        s == wd[w].status
    IN
    \/ j.status = "none" /\ s \in {"none", "pending_approval", "rejected"}
    \/ /\ j.status = "queued" /\ j.attempts < MaxAttempts
       /\ \/ s = "queued" /\ j.avail # "parked"
          \/ s = "pending_approval" /\ j.avail = "parked" /\ j.err = "none"
    \/ j.status = "leased" /\ j.token # None /\ s = "processing"
    \/ j.status = "failed" /\ s = "rejected"
    \/ j.status = "completed" /\ s \in {"paid", "failed"}
    \/ /\ j.status = "dead_letter"
       /\ \/ /\ s = "manual_review" /\ j.err # "BOT_QUARANTINED"
             /\ j.err = "LEASE_EXPIRED" => wd[w].err = "LEASE_EXPIRED"
          \/ s = "failed" /\ j.err = "PAYOUT_NOT_SENT"
          \/ /\ s \in {"pending_approval", "queued", "processing", "rejected"}
             /\ j.err = "BOT_QUARANTINED"

JobsAgree == \A w \in Withdrawals : JobAgrees(w)

(* A bot that is busy holds the lease it was given, or had it taken away by *)
(* a quarantine; what it has heard is true of the payout it waits for.      *)
BotAgrees ==
    \/ bot = Idle
    \/ /\ bot.phase # "idle" /\ bot.w # None /\ bot.token # None
       /\ wd[bot.w].status = "processing"
       /\ job[bot.w].status = "leased" => job[bot.w].token = bot.token
       /\ bot.phase = "claimed" => Clean(bot.w) /\ bot.heard = "nothing"
       /\ bot.heard \in {"receipt", "mismatch"} => received[bot.w] = 1
       /\ bot.heard \in {"insufficient_funds", "payments_disabled", "cooldown"} => Clean(bot.w)

(* A command under way is the only one of its request, which is not paid    *)
(* yet and is not settled either.                                           *)
CommandsAgree ==
    \A w \in Withdrawals, t \in Tokens :
        <<w, t>> \in inGame =>
            /\ received[w] = 0
            /\ wd[w].status \in {"processing", "manual_review"}
            /\ \A u \in Tokens : <<w, u>> \in inGame => u = t

(* A result under way is the last word on its request: no second one, no    *)
(* bot at work on it, no row that could be claimed, and what it says holds. *)
ResultsAgree ==
    \A m \in net :
        /\ bot.w # m.w
        /\ \A n \in net : n.w = m.w => n = m
        /\ job[m.w].status \in {"leased", "dead_letter", "completed"}
        /\ job[m.w].status = "leased" => job[m.w].token = m.token
        /\ job[m.w].status = "dead_letter" => wd[m.w].status \in {"processing", "manual_review"}
        /\ m.outcome = "completed" => received[m.w] = 1 /\ m.err = "none"
        /\ m.err \in {"PAYOUT_NOT_SENT", "PAYOUT_INSUFFICIENT_FUNDS"} => Clean(m.w)
        /\ m.retryable => m.err = "PAYOUT_NOT_SENT"
        /\ m.err \notin {"BOT_QUARANTINED", "LEASE_EXPIRED"}

(* What has been paid, and what the books say of it.                        *)
MoneyAgrees ==
    /\ \A w \in Withdrawals :
          /\ received[w] <= 1
          /\ received[w] = 1 => wd[w].status \in {"processing", "manual_review", "paid"}
          /\ wd[w].status = "paid" => received[w] = 1
    /\ BookedOnlyWhatWasPaid
    /\ LedgerMatchesStatus

IInv ==
    /\ TypeOK
    /\ JobsAgree
    /\ BotAgrees
    /\ CommandsAgree
    /\ ResultsAgree
    /\ MoneyAgrees
    /\ OneOpenPerPlayer

-----------------------------------------------------------------------------
(* The promise this component keeps: PayoutPromise, with the eight statuses *)
(* of a request seen as four stages.                                        *)

Stage(w) == CASE wd[w].status = "none" -> "none"
              [] wd[w].status = "paid" -> "paid"
              [] Returned(w)           -> "returned"
              [] OTHER                 -> "open"

Promise == INSTANCE PayoutPromise WITH
    stage     <- [w \in Withdrawals |-> Stage(w)],
    delivered <- {w \in Withdrawals : received[w] > 0}

(* Every step of every party is a step of the promise or invisible to the   *)
(* player: the wallet moves exactly when a request is made or given up, the *)
(* game pays only an open request that it has not paid, and a request is    *)
(* closed by what the game did (refundWithdrawal and processJobResult       *)
(* against the commands still under way).                                   *)
KeepsItsPromise == Promise!Spec

=============================================================================
