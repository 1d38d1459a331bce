# A TLA+ model of DonutDrop's money paths

DonutDrop keeps players' balances in PostgreSQL and moves real money in a
Minecraft server (DonutSMP) with that server's own `/pay` command, typed by a
bot. The database is transactional; the game is not. It executes a command when
it likes, answers with a line of chat or not at all, and cannot be asked
afterwards what happened. The first half of this project is about that seam:
**no player is paid twice, no player's money is lost, and no payout waits for
ever**, whatever is lost, late, repeated, crashed or clicked at the same time.
The second half is about the games and rewards between the two ends: **every
stake is taken once and settled once**, whoever races for the row, and what the
house pays is what was earned.

## The system

| Part | State | Operations | Talks to |
|---|---|---|---|
| Gateway (`services/api-gateway`) | PostgreSQL tables; in memory only the duels' timers | HTTP handlers, each one serializable transaction (`lib/db.ts`) | everything |
| Withdrawals (`routes/cash-withdrawals.ts`) | `cash_withdrawals`, `user_wallets`, `wallet_transactions` | request, queue a job, refund | job queue, vault routing, anti-drain |
| Job queue (`routes/minecraft-in.ts`) | `bot_jobs`, `inbound_bot_events` | claim, expire leases, process results, wake the funds queue, quarantine | bot (polls), withdrawals |
| Payout bot (`services/minecraft-bot/src/worker.ts`) | the job in hand, the pending `/pay`, the connection; all lost in a crash | claim, send, listen, report | gateway (signed HTTP), game (chat) |
| Game server | players' and bots' money | execute, refuse or drop a command; print receipts | bot |
| Anti-drain (`lib/anti-drain.ts`, `routes/admin-payouts.ts`) | hold flags, review reasons, circuit breaker | decide on review, hold queued payouts, hourly monitor | withdrawals, job queue |
| Operators (`routes/admin.ts`, `routes/admin-operations.ts`) | none of their own | approve, reject, resolve, quarantine, release, retry | all of the above |
| Balance evidence (`lib/unconfirmed-payouts.ts`, `lib/teller-sweeper.ts`) | tracked and observed balance of each bot | judge an unanswered payout, correct the books, sweep to the vault | withdrawals, bots |
| Vault and node pool (`lib/bots.ts`, `lib/bot-nodes.ts`) | roles, floats, links between bots | two-hop payout, rebalancing | job queue |
| Operator payouts (`routes/admin.ts`, `routes/minecraft-in.ts`) | `admin_payouts` | create, resolve | job queue |
| Deposits and sign-ins (`routes/minecraft-in.ts`, `routes/auth.ts`) | `cash_payment_receipts`, `auth_link_challenges`, sessions | observe a receipt, attribute, credit; sign in by paying a secret amount | wallets, accounts |
| Games against the house (`routes/crash.ts`, `mines.ts`, `blackjack.ts`, ...) | a table per game, `provably_fair_seeds` | bet, press, cash out, settle | wallets, seeds |
| Two-player games (`routes/coinflip.ts`, `mines-duel.ts`, `duels.ts`, `battles.ts`) | a table per game, timers of duels | create, join, play, settle, expire | wallets |
| Rewards (`lib/staking.ts`, `lib/vault-yield.ts`, `lib/wager-requirements.ts`, rakeback, races, jackpot, rain) | a table per reward | accrue, claim, settle | wallets, wagers |
| Chat, Discord, front end | views | | |

What is hard in it:

* **Unknown outcomes.** A `/pay` may have executed when nothing was heard.
  Trying it again pays twice; refunding it pays twice; doing nothing keeps the
  player's money. The code's answer is to park every unknown outcome with an
  operator, and to refund only on proof.
* **Late results.** A confirmation can arrive after its lease, after the sweep
  that sent the withdrawal to review, and after the operator's decision.
* **Two rows for one fact.** A withdrawal and its job each have a status, as
  have an operator's payout and its job; every handler must move both, or one
  waits behind the other for ever.
* **Guesses.** A release whose report was lost is recognised by the displayed
  amount of a receipt; a sign-in by an amount; an unanswered payout by a balance.
* **Holds, wakes and first come, first served.** An operator parks a job in the
  future; a deposit makes jobs that wait for funds due; a job that waits for
  funds blocks the newer ones.
* **Operators race each other** and race the bot.
* **Secrets with a deadline.** A seed must decide a game before anybody has seen
  it; a curve that depends on the clock is judged by whoever comes, however late.
* **Timers in a process, stakes in a database.** A duel's rounds are closed by
  timers that a restart loses.

`PROJECT.json` lists each of these hazards at its line with the properties that
cover it.

## Modules

| Module | What it models | Code |
|---|---|---|
| `BotJobs` | A row of `bot_jobs` and what each SQL statement does to it. No variables; every kind of job reuses it. | `minecraft-in.ts` |
| `Payouts` | Cash withdrawals paid straight from one bot: player, operator, gateway, bot, game, network, clock. | `cash-withdrawals.ts`, `minecraft-in.ts`, `worker.ts` |
| `PayoutPromise` | What a withdrawal promises, in four actions: asked, delivered, confirmed, returned. | the same, abstractly |
| `UnconfirmedPayouts` | Payouts without an answer, the bot's readings of its balance, its books, and the sweeper that settles the one from the other. | `unconfirmed-payouts.ts`, `teller-sweeper.ts` |
| `VaultRelease` | Payouts over two hops: the vault pays the teller, the teller the player; recovery of a release whose outcome is unknown. | `minecraft-in.ts`, `lib/bots.ts` |
| `TellerFloat` | Which pocket pays, what a release is sized at, what a sweep takes. | `cash-withdrawals.ts`, `lib/bots.ts` |
| `NodePool` | Equal nodes: routing, releases between them, rebalances. | `lib/bot-nodes.ts` |
| `AdminPayouts` | Operators' payouts, and the journal that answers repeated claims and reports. | `admin.ts`, `minecraft-in.ts` |
| `AntiDrain` | The rules on facts read before the transaction, the holds, the monitor's pass, and payouts that come back from the bot or wait for the vault meanwhile. | `anti-drain.ts`, `admin-payouts.ts` |
| `PayLogin` | Deposits, and sign-ins by paying a secret amount. | `auth-pay.ts`, `minecraft-in.ts`, `worker.ts` |
| `Crash` | The shared round with its row and advisory locks. | `crash.ts` |
| `SeededGames` | Nine games on a player's committed seeds. | `mines.ts`, `tower.ts`, `chicken.ts`, `dice.ts`, ... |
| `Fishing`, `Blackjack` | A cast that nothing watches; hands dealt from a fixed sequence. | `fishing.ts`, `blackjack.ts` |
| `Coinflip`, `MinesDuel`, `Duels`, `Battles` | The two-player games with their sweepers, timers and restarts. | `coinflip.ts`, `mines-duel.ts`, `duels.ts`, `battles.ts` |
| `Staking`, `VaultYield`, `WagerLock`, `Promotions` | The house pool, the yield of items, what must be wagered before money leaves, what a wager sets off. | `staking.ts`, `vault-yield.ts`, `wager-requirements.ts`, `rewards.ts`, `social.ts` |
| `Transfers` | Releases, floats and pools, one at a time: what is promised of money that moves between bots. | the three of these |
| `Tables` | Mines duels, coinflips, skill duels, case battles and the games on seeds, one table at a time: what the gateway promises at all of them. | the five of these |
| `MC*` | Small instances for TLC. | |
| `Sums` | Lemmas on sums over finite sets, least and greatest members. | |
| `*Proofs` | The theorems, about fifteen of the modules and the two that put them together. | |

Every module declares its variables with the table or the part of a process that
each one is, and its actions are named for the handlers; `PROJECT.json` has the
lines of each definition. What is common to all:

* **A handler is a step.** Handlers run as serializable transactions with
  retries, so what one does to the database is one action, with every call it
  makes. The exceptions are modelled as what they are: `Crash` pays at READ
  COMMITTED on explicit locks, and its transactions are taken apart at each
  lock and each reading of the clock; `AntiDrain` reads its sums before the
  transaction; `Duels` and every sweeper read outside of it.
* **Clients and bots repeat.** Requests, presses, claims and reports may arrive
  twice, late or out of order, where the transport allows it.
* **Data is abstracted.** A multiplier is a level, a card a rank, a draw whether
  it wins and where; names, hashes and wording are left out, except where a
  property is about them (`PayLogin`'s names with and without Bedrock's dot).

Definitions whose comment starts with SLIP are not part of the system. Each is
a plausible mistake in the definition that follows it, kept so that one can see
that the properties notice it.

### How `Payouts` corresponds to the code

`Payouts` contains an instance of `PayoutPromise` (`Promise`) whose variables are
functions of its own: a request's stage is read off its status, and it is
delivered when the game has paid it. `processJobResult` is one action per way out
of the handler; together the guards partition the cases exactly as its early
returns do.

| Variable | In the system |
|---|---|
| `wd` | `cash_withdrawals.status`, `error_code` |
| `wallet`, `ledger` | `user_wallets.balance_minor`; which `wallet_transactions` exist |
| `job`, `line` | the `cash_payout` row of each request; the order of `created_at` |
| `botRow` | `bot_accounts.status` and the age of its heartbeat, as what `live` means to a claim |
| `bot` | `sendCashPayout`: job claimed, command sent, what the chat said |
| `net` | `job_result` events posted and not yet processed |
| `inGame`, `received`, `funds`, `landed` | the game: commands not executed yet, payments made, the bot's money, money that has arrived and is not reported |
| `booked` | `recordBotTransfer` has moved the bot's tracked balance for the payout |

| Action | Code |
|---|---|
| `RequestWithdrawal` | `POST /v1/cash-withdrawals`; `review` is the anti-drain decision |
| `Approve`, `Reject`, `ResolvePaid`, `ResolveNotPaid` | the operator's routes |
| `HoldQueued` | `holdQueuedWithdrawal` for one request, a player's, or all |
| `OperatorQuarantine`, `OperatorRelease`, `Heartbeat` | `bot_accounts.status` |
| `AutoSettlePaid`, `AutoSettleNotPaid` | `settleUnconfirmedPayout` |
| `Claim`, `ClaimNothing` | `POST jobs/claim`, with the expiry of leases that is part of it |
| `NotSent`, `SendThrows`, `SendPay`, `ReportAnswer`, `BotCrash` | `sendCashPayout`, and the end of the process |
| `GamePays`, `GameRefuses`, `MoneyLands`, `LoseResult` | outside the code |
| `AcceptLate`, `RejectResult`, `Completed`, `ShortOfFunds`, `FailedNotSent`, `FailedUnknown`, `FailedRetry` | `processJobResult` |
| `MoneyReported` | `processCashPaymentObserved`, as far as `wakeFundsQueue` |
| `BecomeDue`, `LeaseLapses` | the clock passes `available_at`, `lease_expires_at` |

What the model assumes, and why:

* *Operators and the balance check tell the truth.* `ResolvePaid`,
  `ResolveNotPaid` and the automatic settlement need the command to be settled
  and the verdict to be right. The code gives an operator no more than the
  question; a wrong answer is a wrong payment by definition. How the automatic
  verdict is reached, and when it is right, is the subject of `UnconfirmedPayouts`.
* *A refusal answers the command the bot waits for.* The bot spaces its
  commands by the server's answer time and changes its connection after
  silence. A *receipt* is not so restricted: it is matched by payee alone, as in
  `awaitPayoutReceipt`, and any command of the same player can be taken for the
  awaited one.
* *A mismatch still means money was received.* The amount shown differs; the
  request is treated as paid by the game and left to an operator by the code.
* *Each result is processed at most once.* The event journal does that; the bot
  may stop waiting for its report before the report arrives.
* *Left out because it only restricts:* the 60-second cooldown, the wager
  requirement, the account checks; `ORDER BY available_at` in the claim (any due
  job that the first-come rule allows may be handed out).
* *The other routes* are in `VaultRelease`, `TellerFloat` and `NodePool`; every
  withdrawal here takes `payPlayerDirectly`.

### How `UnconfirmedPayouts` corresponds to the code

| Variable | In the system |
|---|---|
| `status`, `refunds` | `cash_withdrawals.status`, with the error `PAYOUT_UNCONFIRMED` told apart from other reviews; how many `cash_withdrawal_refund` entries there are |
| `aged` | `updated_at` is older than `UNCONFIRMED_EVIDENCE_WINDOW_MINUTES` |
| `tracked`, `booked` | `bot_accounts.tracked_balance_minor`; payouts with a row in `bot_transfers` |
| `observed`, `said` | `observed_balance_*`; the reading every heartbeat repeats. Times are compared, never added, so a reading carries what the two comparisons tell: `overtaken` (`after_last_movement` is false) and `after` (the payouts with `readingAfter`) |
| `verdict` | what the first transaction of `tick` hands to the second |
| `bot`, `net`, `receipt` | the payout in hand; results posted; a payment seen and not booked |
| `held`, `left`, `gifts` | the game: the bot's money, payouts made, unseen payments so far |

| Action | Code |
|---|---|
| `ReadBalance`, `Heartbeat` | `requestBalance` and its answer; `processHeartbeat` |
| `Claim`, `Report`, `ReportEnds`, `BotRestarts` | `captureJobClaimState`, `sendCashPayout`, the end of a session |
| `ReportArrives`, `LateReport`, `LeaseExpires` | `processJobResult`, the expiry in `POST jobs/claim` |
| `DepositBooked` | `processCashPaymentObserved`, its booking |
| `Resolve` | the operator's resolve route, which books nothing |
| `Decide`, `Correct`, `Settle` | the two outcomes of `tick`'s first transaction; its second |
| `ForgetVerdict` | the gateway restarts or the second transaction fails |

What it assumes, beyond a truthful operator: the game has executed or dropped a
command by the time the bot gives up on it; the clocks of bot and gateway agree;
unseen money between a payout and its verdict stays within the tolerance; and
readings are exact in the passing runs. An abbreviated reading corrects the books
to the floor of its interval, and a later exact one can differ from them by up to
the width. Readings never grow too old; that and the quarantine after a result without
a lease only delay. `Prompt` says that no reading is taken while a report or a
receipt is under way. The code does nothing to ensure it; both runs assume it, and what
happens without it is in the list of disagreements (*Books*).

### What the other modules assume

* `VaultRelease`: the teller sees whatever it is paid and tells it apart by the
  displayed amount alone; players, floats and refusals of the player's own hop
  are left to `Payouts` and `TellerFloat`. Expired leases are swept oldest first
  (the code's `RETURNING` promises no order; each lease is dealt with by itself).
* `TellerFloat`, `NodePool`: every `/pay` is answered. The pool is modelled
  without a vault beside it.
* `AdminPayouts`: one bot; the game pays or refuses when the command is sent.
* `AntiDrain`: everything happens within the hour and the minute that the sums
  are over; nothing drops out of one. Jobs and leases are left to `Payouts` and
  `VaultRelease`: a payout may come back from the bot any number of times, a release may
  be given up and sent again, and `dead` is a row whose job the operator's quarantine has
  stopped. With `TwoHop` any payout may be one that the vault or another node funds
  first. `missed` is a history variable: what was with the bot, or funded by the vault,
  when its player's hold was placed.
* `PayLogin`: two challenges never draw the same amount (a unique index); the
  bonus and the wager requirement of a sign-in are in `WagerLock`.
* `Crash`: stakes are of one unit; a level lasts two ticks.
* `SeededGames`, `Blackjack`: hash and HMAC are values that only the seed gives.
* `Duels`: what a player scores is drawn, whether it is believed is computed. An answer
  may come at any time while the duel runs, and to any round, one that has not begun
  included: the handler asks for no more than that.
* `Battles`: a seat's reels are what they drop together; crates cost the same.
* `WagerLock`: the ceiling of 2^63 - 1 is out of reach.

## What TLC checks

Most runs check several components, one after another: an MC module declares the
variables of all of them and a variable `scene` that no step changes, and each
disjunct of its next-state relation is one component's in its own scene. The module
`EXTENDS` the component that has theorems, so that the run checks the very definition
the theorem states; the others are instances `WITH` the constants of their scene. In
the scenes of the others the extended component's variables stay as before its first
step. `Transfers` (by `scene`) and `Tables` (by `table`) do the same for all values of
the constants, and have theorems; `MCTables` only gives `Tables` its constants, while
`MCTransfers` puts scenes with constants of their own beside those of `Transfers`.

| Run | Scenes | Checks | States |
|---|---|---|---|
| `two_players` | two players, one request each, one bot | type correctness; `NeverPaidTwice`, `ReturnedMeansNotPaid`, `LedgerMatchesStatus`, `BookedOnlyWhatWasPaid`, `HeldIsNeverSent`, `NeverStranded` | 1.5 million |
| `one_player` | one player, two requests in a row | `PaidMeansReceived`; `KeepsItsPromise`, the refinement of `PayoutPromise` | 470 thousand |
| `unanswered` | payouts of 4 and 12, a deposit of 4, unseen money of 1 | `PaidHasLeft`, `ReturnedHasNotLeft`, `RefundedOnce`; `BooksRecover` under fairness | 336 thousand |
| `transfers` | the scenes of `Transfers` (two releases with everything lost, a float with two withdrawals, a pool of two nodes); one release and an operator; two releases whose receipts are in time; a float above the sweep's threshold; a pool whose payouts are held; two operators' payouts to one player | `MoneyIsMovedOnce`, `PayoutsAreProvidedFor`, `BooksFollowTheMoney`, `PaidByItsPayer`, `MovesSparePromises`; `NoneCountedTwice` of the other scenes | 1.5 million |
| `accounts` | two sign-ins; renamed players; the anti-drain rules with two players who ask once each, with one who asks twice, and with three requests that nobody looks at | `CreditedOncePerPayment`, `SignInsAreTheirs`, `RulesHold` | 1.5 million |
| `tables` | the tables of `Tables`: mines duels, coinflips, skill duels, two bets on every kind of seeded game, a case battle of three or four seats | `SeedsStaySecret`, `PlayedAsPressed`, `MoneyIsAllThere`, `PaidByTheRules`, `VolumeIsEarned`, `FieldsStayHidden`, `DuelsArePlayedOut`, `ScoresStand` | 1.6 million |
| `rounds` | crash; fishing; blackjack; staking with two processes and with two players; vault yield; wager requirements; a race; rain and jackpot | `NoBetLeftBehind`, `OutcomeIsTheCurves`, `NeverBustsEarly`, `PaidAsEarned`, `LeavesOnlyWagered` | 1.4 million |
| `payouts_end` | an operator's payout beside a sweep, with every fault; under fairness one payout, two that share a bot's money, an operator's payout, and the monitor | `LeavesOnce`, `QuarantineIsForLapse`, `OutcomeStands`; `NothingIsStuck` | 330 thousand |
| `ends` | releases, floats, pools and every table, under fairness | `NothingStaysPending` | 241 thousand |
| `quarantine` | one request | `NoPayoutBehindDeadJob`, violated | few |
| `unanswered_alike` | two payouts of 4, nothing late or lost | `PaidHasLeft`, violated | few |
| `yield_often` | two lots, claimed daily or left alone | `ClaimingOftenIsNoLoss`, violated | few |

**Bounds, and why they are enough.**

* Jobs have an attempt budget of 2 (5 in the code), leases 1 to 3 tokens: an old
  lease and a new one of the same job; a first, a last and a spent attempt. A bot
  can hold one payout's money, so that it can pay or be short.
* `unanswered`: the tolerances are 1 and 2 (a quarter of 4; the cap, for 12),
  unseen money of 1 is within both, and a deposit equal to a payout is the worst
  case for a reading out of date. 4 and 12 stay apart by more than the tolerances
  even when one payment and the unseen money are combined.
* `transfers`: two releases are needed to take one's receipt for the other's, one
  operator's retry and one stop to meet each status; float and pool amounts are such
  that a payout takes one bot, two, or waits. Nodes drop off in the scene of held
  payouts only: a silent one is where `MovesSparePromises` ends (see below). `accounts`:
  two players, names and amounts to be confused with one another, one fault or two
  renames; for the rules, two requests under way together, of one player or of two, an
  allowance of 3 for payouts of 2 and a limit of 2 for the house, so that one request is
  within each and two together are not, while what two may do at once is less than the
  three of the scene without operators; every payout may come back from the bot, and be
  held, approved and claimed again, without a bound.
* `tables`: two games for a limit of one; stakes of 15 and 7 do not halve evenly at
  fees of 5 and 10 per cent; fields of two to four tiles; duels of two rounds whose
  first can close early; a battle of two teams of two or of three players, in
  which seats are left and bought again, given to bots and lost to the sweep. One row of
  a battle, a mines duel or a coinflip touches no other; that the money of many adds up
  as that of one does is what the theorems say.
* `rounds`: two players and two rounds of crash with two aborted transactions; the
  lots' principals of 1 and 4 make a division that rounds; three days settled by two
  processes; five days of yield, the cap reached on the third; a race of two prizes
  with a tie; five movements for the wager requirement.

Symmetry is used for tokens (`two_players`, `one_player`, `transfers`), players with
their requests (`two_players`), challenges and payments (`accounts`), players and
games (`tables`), where no constant tells them apart. The action properties of
those runs are looked at step by step and are symmetric, too. Runs with liveness use
none. Deadlock is not checked where every request has been made and the clock has
reached its bound.

**Three disagreements.** `quarantineBotAndJobs` (`minecraft-in.ts:1584-1588`) says
that a quarantine must not kill money jobs, since that "used to strand the
player's withdrawal behind a dead job forever". The operator's quarantine route
(`admin.ts:491-506`) still does: it dead-letters all queued and leased jobs and
moves only *item* withdrawals to review. The run `quarantine` shows the
withdrawal left `queued` (or `processing`) behind a `BOT_QUARANTINED` job; no
operator route accepts it there, and the one-live index keeps the player from
making another. `NeverStranded` states that this is the only such path.

`unconfirmed-payouts.ts:23-28` says that an unanswered payout is read off the
balance once everything else is in the books, and that two of them at once are
left for an operator. `openUnconfirmedPayouts` counts what is *open*; a payout
that an operator has just marked paid (`admin-operations.ts:479-490`) is not, but
its leg is still missing from the books. In `unanswered_alike` the first payout
was made and resolved by the operator; the second, of the same size, was not
made, and the sweeper takes the first one's absence for its payment.

`routes/vault.ts:101-104` says that a player who claims every evening earns what
one earns who claims once a month. `computeYield` (`vault-yield.ts:102`) counts
what has accrued since the anchor, which each claim moves, and takes everything
ever paid off it: in `yield_often` a lot that paid 10 on its first day pays
nothing on its second.

**More disagreements**, met while modelling and not kept as runs, each with the
line it is at:

* *Releases.* A receipt is given to the oldest unsettled release of the same
  displayed amount although another is on its way (`minecraft-in.ts:1390`, against
  1378-1379); a release that has landed is sent again when the vault's report comes
  before the teller's receipt (`:1437`, against 1258-1261). `MoneyIsMovedOnce`
  names both as hypotheses.
* *Floats.* Two withdrawals decided on the same teller's balance both take the
  direct path, as what is queued is not subtracted (`cash-withdrawals.ts:220`,
  against 209-211); a sweep takes what a withdrawal that waits for its release
  counts on (`lib/bots.ts:272`, against 265-266); a node's own part of such a
  withdrawal reads as free (`cash-withdrawals.ts:284`, against 282); a second
  rebalance is queued beside one on a silent node (`lib/bot-nodes.ts:317`, against
  307-308).
* *Operators' payouts.* One whose lease lapses stays `processing` behind a dead job
  (`minecraft-in.ts:535`, against `scripts/maintenance.ts:49-51`); a repeated claim
  of a sweep or a release is refused, not replayed (`:176`, against
  `docs/api/backend.md:94-95`).
* *Anti-drain.* Requests under way together are judged by the same sums, so that the
  gauge is late by more than one request (`cash-withdrawals.ts:442`, against
  `lib/anti-drain.ts:154-162`). A hold does not reach everything its player "already has
  waiting for the bot" (`lib/anti-drain.ts:31-32`, `admin-payouts.ts:358-359`): a payout that
  the bot had claimed returns to the queue when the bot is short of money or the failure
  may be tried again (`minecraft-in.ts:1855-1862`, 1864-1886), unapproved, and is handed
  out again, as the monitor passes over players who are on hold already
  (`lib/anti-drain.ts:410`); one that the vault funds is never pulled back, not even when
  it is queued at last (`:251`, 307, 322; 234-235 names this exception for the single hold).
  `HoldHolds` names both (`missed`).
* *Books.* A reading taken after the game has paid and before the report arrives
  is corrected to, and the payout then refunded (`teller-sweeper.ts:90`, against
  `unconfirmed-payouts.ts:37-40`); `Prompt` excludes it in `unanswered`.
* *Sign-ins.* A name typed with the wrong dot credits one payment twice
  (`minecraft-in.ts:1067`, against migration 027:3-4); a notice that is lost neither
  signs in nor credits (`worker.ts:1108`, against `report-retry.ts:4-8`).
  `CreditedOnce` names the first as a hypothesis.
* *Duels.* The start of a round is reconstructed as if earlier rounds had taken their
  full length: honest answers are implausible and late ones count (`duels.ts:588`,
  against 584-586 and 67); answers to rounds that have not begun are stored, and two of them
  close that round (`duels.ts:567-624`); a draw is charged half the rake on each stake
  (`lib/duel-engine.ts:122-148`, against 13-15, "both stakes go back whole"); a
  failed query after the last answer leaves a duel that was played to the end to expire
  (`duels.ts:700`, against 51-52).
* *Mines duels.* A draw is charged and counted (`mines-duel.ts:457`, against 46-48).
* *Settings.* Staking's cool-down may be set below the 24 hours without which a player
  can leave out a day he has watched go badly (against `lib/staking.ts:34-36`);
  `lib/jackpot.ts:14-16` says a share of the margin where the code takes a share of the
  volume.

### Fairness

In `payouts_end` weak fairness is assumed of the bot's steps (its process and its
timeouts run), of the game for each command (it executes, refuses or drops it),
of each message (it arrives or is lost), of the clock, of heartbeats, of money
landing on the bot and being reported, of the monitor, and of an operator
releasing a quarantined bot. Strong fairness is assumed of claiming each job: the
bot polls every two seconds, but a poll may find the bot offline or an older job
waiting for funds, so a claim is possible again and again rather than
continuously. Of an operator's payout each claim may be lost but one. Nothing is
assumed of players or of operators' decisions; a payout that waits for one counts
as having reached an end. Two payouts that share a bot's money are checked with
everything else that could end them taken away (`QueueNext`), so that only money
and turns are left.

`ends` assumes weak fairness of processes, clocks, timers, reports, of the steps of a
sweep that has begun, and of a game being switched on again; strong fairness of polls
and ticks, whose turn may find the action disabled, of a lock that is queued for
(PostgreSQL grants row locks in turn), and of players paying in where payouts wait for
deposits. Nobody has to play, press or decide.

In `unanswered`, `FairSpec` assumes that the bot keeps reading its balance and sending
heartbeats and that the sweeper keeps running. The three are timers whose turn may
find the action disabled (a `/pay` under way, an old reading), hence strong fairness.
Reports, expiries and the closing of the evidence window are weakly fair. Nothing is
assumed of operators: when nobody decides, the window closes and the books are
corrected all the same.

## What is proved

Each component with theorems has an inductive invariant, a conjunction of named parts,
with one lemma per action and under it one step per conjunct that the action can
disturb. All theorems hold for every value of the constants that `ConstantsOK` (or the
named assumptions of `Payouts`, `UnconfirmedPayouts` and `Crash`) allows: any sets of
players, requests, tokens and games, any amounts and budgets. TLC evaluates these
assumptions in the runs. Where a theorem has a further hypothesis, the hypothesis is
named in its ASSUME and TLC shows a counterexample without it.

| Module | Theorem | Says | Hypotheses |
|---|---|---|---|
| `PayoutsProofs` | `TypeCorrect` | `TypeOK` | |
| | `PaidAtMostOnce` | `NeverPaidTwice` | |
| | `RefundIsSafe` | `ReturnedMeansNotPaid` | |
| | `PaidIsReal` | `PaidMeansReceived` | |
| | `JournalAgrees` | `LedgerMatchesStatus` | |
| | `BooksFollowTheGame` | `BookedOnlyWhatWasPaid` | |
| | `HoldIsSafe` | `HeldIsNeverSent` | |
| | `NoneIsStranded` | `NeverStranded` | |
| | `EndIsFinal` | a closed request keeps its status | |
| | `PromiseKept` | `KeepsItsPromise`: `Payouts` implements `PayoutPromise` | |
| `UnconfirmedPayoutsProofs` | `VerdictIsRight` | the windows of the two verdicts never overlap | an exact reading off by no more than the tolerance |
| | `EvidenceTypeCorrect` | type correctness | |
| | `MoneyGoesBackOnce` | `RefundedOnce` | |
| | `PaidIsReal` | `PaidHasLeft` | `Circumstances`: exact and timely readings, finitely many payouts, amounts that tell one another apart |
| | `RefundIsSafe` | `ReturnedHasNotLeft` | the same |
| `TransfersProofs`, all scenes | `TransfersMoveMoneyOnce` | `MoneyIsMovedOnce` | amounts differ (the last part is itself conditional) |
| | `TransfersAreProvidedFor` | `PayoutsAreProvidedFor` | amounts differ; no operator stops the vault |
| | `TransfersKeepBooks` | `BooksFollowTheMoney` | finitely many nodes and withdrawals |
| | `TransfersPayByPayer` | `PaidByItsPayer` | the same |
| | `TransfersSparePromises` | `MovesSparePromises` | the same; no node falls silent |
| releases | `Inductive`, `TypeCorrect` | the inductive invariant; type correctness | |
| | `BooksFollowReleases` | the books move for a release exactly when it is done | |
| | `PlayerWaitsForRelease` | the player's hop waits for the release | |
| | `MoneyReachesPlayerOnce` | the player has the money once, in the game or back | |
| | `DoneMeansLanded` | a release that counts as done has landed | amounts differ as displayed |
| | `NoneWaitsForNothing` | behind a withdrawal that waits there is a release that can still be made | no operator stops the vault |
| | `ReleaseMovesOnce` | the release leaves the vault once | amounts differ; nobody stops the vault; receipts come before reports |
| floats | `FloatTypeCorrect`, `FloatBooksAddUp` | type correctness; the books of both bots | |
| pools | `PoolTypeCorrect`, `PoolBooksAddUp` | type correctness; the books of every node | finitely many nodes and withdrawals |
| | `PoolPaidByItsPayer`, `PoolMovesSparePromises` | the two properties, of the pool's own specification | the same; for the second, no node falls silent |
| `AdminPayoutsProofs` | `TypeCorrect` | type correctness | |
| | `MoneyLeavesOnce`, `OneAtATime`, `EachLeavesOnce` | `LeavesOnce` and its halves: the money leaves once; one payout at a time to a player | |
| | `QuarantineHasCause` | `QuarantineIsForLapse` | |
| | `ShownOutcomeIsFinal` | `OutcomeStands` | |
| `AccountsProofs`, sign-ins | `TypeCorrect` | type correctness | |
| | `SignInIsThePayers` | `SignInsAreTheirs` | |
| | `ConfirmedIsNotLost` | a confirmed sign-in is kept until its session is opened, and then credited | |
| | `CreditedOnce` | `CreditedOncePerPayment` | the player list shows who has paid; no dot is mistyped |
| anti-drain | `RulesTypeCorrect` | type correctness | |
| | `RulesAreKept` | `RulesHold` | finitely many withdrawals |
| `TablesProofs`, all tables | `TablesKeepTheMoney` | `MoneyIsAllThere` | finitely many players, games and battles |
| | `TablesPayByTheRules` | `PaidByTheRules` | finitely many players |
| | `TablesCountWhatIsEarned` | `VolumeIsEarned` | finitely many players and coinflips; `FeesCount`: no fee is rounded away, as `config.ts:1138` sees to |
| | `TablesHideFields` | `FieldsStayHidden` | |
| | `TablesKeepScores` | `ScoresStand` | |
| | `TablesPlayDuelsOut` | `DuelsArePlayedOut` | |
| | `TablesKeepSeeds` | `SeedsStaySecret` | |
| | `TablesFollowPresses` | `PlayedAsPressed` | |
| mines duels | `TypeCorrect` | type correctness, and which columns go with which status | |
| | `FewGamesAtOnce` | nobody has more games running than the limit | finitely many games |
| coinflips | `FlipTypeCorrect` | type correctness, and which columns go with which status | |
| | `FlippedIsWagered` | what a player has wagered is the stakes of the games that were flipped | finitely many players and games |
| skill duels | `DuelTypeCorrect` | type correctness; nobody's money falls below nothing | |
| games on seeds | `SeededTypeCorrect` | type correctness | |
| case battles | `BattleTypeCorrect` | type correctness, and what a rolled battle shows | finitely many players |
| | `BattleMoneyAddsUp` | wallets, stakes held and shares paid | finitely many players and battles |
| | `PotIsShared` | the winning seats share the pot to the unit | finitely many players |
| | `OnlyRolledStakesCount` | a stake counts exactly when its battle was rolled | the same |
| `RoundsProofs`, crash | `CrashTypeOK` | type correctness | |
| | `CrashLeavesNoBet` | `NoBetLeftBehind` | |
| | `CrashOutcome` | `OutcomeIsTheCurves` | |
| | `CrashNeverEarly` | `NeverBustsEarly` | |
| what must be wagered | `LockIsTight` | `LeavesOnlyWagered` | |

### The arguments

**`Payouts`.** The safety properties are not inductive. "Paid at most once" survives a
step only because of what is true of leases, messages and commands at the same time.
`IInv` says that: `JobsAgree` (which statuses of a job and its withdrawal go together);
`BotAgrees` (a busy bot has a request in progress, holds its lease or has had it taken
away, and what it has heard is true); `CommandsAgree` (a command under way is the only
one of its request, which is unpaid and still open); `ResultsAgree` (a result under way
is the last word on its request, and what it claims holds); `MoneyAgrees` (what was
paid, booked and journalled); `OneOpenPerPlayer` (the one-live index, which makes
matching a receipt by payee sound: `GamePaysKeeps` needs it). `PromiseKept` names, one
lemma per action, the step of the promise that each step is, from `IInv`.

**`UnconfirmedPayouts`.** Report, late report, operator and sweeper each refund only
from a status that they leave; `VerdictIsRight` is the arithmetic of one judgement. That
judgements are right in a running system takes an account of every unit. `Balances`: what
the bot holds less what the books track is the receipt under way, the money nobody
announced, less the payouts that left and are neither booked nor already absorbed by a
correction. `ReadingsExplained`: a reading that nothing has overtaken differs from the
books by some set of payouts under way and some unseen money. From these, `Correct`
absorbs exactly the payouts its reading shows, `Decide` finds the one verdict that a set
of payouts can explain (`VerdictIsTrue`), and `Settle` books only what was not absorbed.
The hypothesis `ToldApart(most)` says what the amounts must satisfy: whether a payout has
left cannot be mistaken for any other set of payouts and gifts of at most `most`. The
amounts of `unanswered` meet it; `unanswered_alike` is TLC's counterexample without it.
The sum over a set of payouts is written as the cardinality of a set of coins, which the
library's theorems on finite sets are about.

**`VaultRelease`.** Handlers call one another within one transaction, so the database
is a record and a transaction a function of it. The proof follows: lemmas say what one
transaction (`Completes`, `SentAgain`, `GivenUp`) does to a record, `FairDbs(paid)` is
the set of databases in which withdrawal, job, payout and books of each release agree,
and each handler maps it into itself. The sweep of expired leases is a recursive
function over the set that is left; that it keeps a property of the database follows
by least counterexample on the size of that set. `IInv` is `WorldOK` and
`db \in FairDbs(toPlayer)`. On top of it, and each with its hypothesis: `Landing` (what
was reported, seen or stored of a release is of money that moved), `WaitingDbs` (a
withdrawal awaits the vault only behind a live job), and `Once` (money that has left
behind a release that is not done has its receipt stored or first in line, and its job
leased).

**`TellerFloat`.** `FloatInv`: jobs and hands in order, and the books of the two bots
together are what both hold, but for what the teller has paid a player and not reported,
and for what has landed and is not booked yet (`receipt`). A release and a sweep stay within
the sum, and are booked on both sides in one step.

**`NodePool`.** `PoolInv` says it of each of any number of nodes: a node's books, less
what it has paid unreported, plus what has landed on it and what every other node has
paid to it unreported, are what it holds. The last is a sum over nodes, which each
payment and each report changes at one summand. `PoolRows` is the agreement of rows and
jobs: a withdrawal whose money is under way has exactly one job in all the queues
together, on its payer's queue if it is the payout and addressed to its payer if it is
the release, and one that is closed has none. Claims, holds and approvals renumber
queues and choose payers by what is free at the time, so that each action first has a
lemma saying what it does to the queues (`With` adds a job, `Without` takes one away and
renumbers, `MarkedOf` changes no more than how jobs stand), and
`PoolRows` follows from these. Of the choices only this is needed, that the richest and
the poorest node are nodes, since a finite ordered set has a greatest member
(`GreatestExists`). A rebalance is sized by what its sender has above an even share, so
that the sender keeps at least that; and nothing is promised then, since a withdrawal
that waits has its release in some queue (`PoolRows`) and the gateway queues no
rebalance while one is in any queue it looks at. It does not look at those of nodes that
have fallen silent, hence the hypothesis.

**`Transfers`.** As with `Tables` below, each scene's behaviours are those of its
component (`AtRelease`, `AtFloat`, `AtPool`), and the properties of the run `transfers`
are put together from the components' theorems.

**`AdminPayouts`.** A payout's row, its job, the journal's answers to claims, the bot's
questions and its reports under way: `RowsAgree`, `ClaimsAgree`, `EventsAgree`,
`BotAgrees`, `ReportsAgree`, `TokensAgree`; `OneLiveRow` is the one-live index; and
`MoneyAgrees` ties the money to them: none has left for what is waiting, for what the bot
is asking for or about to pay, or for what a current report says was not sent.

**`PayLogin`.** `NamesAgree`, `ChallengesAgree`, `PaymentsAgree` and `AccountsAgree` say
who may be confirmed by which payment and what each account is called; `NamesAreTheirs`
is half of the result. Counting is a second invariant, `Tallied`: `ReceiptsAgree` (a
payment whose notice may still be matched was not credited as it came in) and
`CreditsAgree` (an account was credited for an amount no oftener than there are receipts
and a completed challenge that say so), with `DotsAgree` under the two hypotheses.

**`MinesDuel`, `Coinflip`.** Every row is in order: which columns a status fills, who
sits where, what was quoted and what is paid. For money, `NextTurns` (and
`FlipNextTurns`) says once what every step does: one game changes, the wallets of its two
players and the house change by what it holds more or less, or no row changes at all. Then
`StakesAddUp` follows from how a sum changes when one summand does. A sum is written as
the cardinality of the set of pairs of a member and a number up to its value, which the
library's theorems are about; that this is what the community modules' `MapThenSumSet`
computes follows since a function that adds one member at a time is unique
(`OnlyOneAddsUp`, by least counterexample on the size of the set). `VolumeCostsFees`
needs that a fee is taken in the step that counts the volume (`Volume`), and
`NothingGivenAway` compares the shown view with the one of the other field, run by run.

**`Battles`.** `BattleInv` says that a row's seats are seats of its format, that bots
stake nothing, and that a settled row shows a roll of every seat, its pot and what the
rule pays. `BattleTurns` is what every step comes to: one battle that is not over changes,
and wallets and stakes together have what it pays more than before. It does not say whose
wallets: closing a lobby refunds many at once, a player several seats (`PursesGrow`: the
sum over players of what each one's seats bring is the sum over the seats). So
`BattleAccounts`, wallets and stakes against what was there and what was won, is kept at
every turn. For the sharing, `WinnersAreBest` gives the seats with the best score, of
which there is one since a finite set of numbers has a least and a greatest member,
`PotIsCut` divides the pot with its remainder, and `PotIsSpent` says that the winners'
shares come to the pot when no bot is among them.

**`Tables`.** The five kinds of table look at no row of each other's, so a behaviour of
`TablesSpec` is from first to last a behaviour of the one table that `table` names
(`AtMines`, `AtCoinflip`, `AtDuel`, `AtSeeded`, `AtBattle`), and what the game's own
theorem says (`MoneyAddsUp`, `FlipMoneyAddsUp`, `DuelIsSettledOnce`,
`SeededGamesSettleOnce`, `BattleMoneyAddsUp`, `PaidAsQuoted` and so on, each stated of
the game's own specification) carries over. The theorems on all tables are the ones
whose statements the run `tables` checks.

**`Duels`.** `DuelPaid` gives wallets and house by the status of the row. That the
sweeper takes no duel that is being played needs its rounds. Early answers can close a
round before it begins, so rounds are not played one after another: `RoundsInTurn` says
only that a round that is done has the next one opened, in time, or the settlement under
way. The least round that is not done is then open, since a set of numbers has a least
member, and `DuelOnTime` says that something, a timer or a closer, will close it before it
is late. The bound on its start adds up to the time after which a row counts as stranded,
for every number of rounds.

**`SeededGames`.** `SeedsAgree` (seeds are used in the order they were made, no two
games share one, a game in play has not shown its own, and every game was asked for with
its seed named), `PressesAgree` (what was pressed, and what the rows hold of it),
`WageredOnce` and `WalletAgrees` (the wallet is what each row says was paid for it and
out of it).

**`AntiDrain`.** A request is judged by sums that were read before it, so that the rules
alone say nothing of two requests judged together. `RulesInv` counts every request that
has read its facts, and would pass by them, as if it had been made. `FactsStand`: what a
request has read of its player's deposits is no more than they are, and what it has read
as withdrawn is no less than what he took out unseen, unless he is cooling down, and
then the request will be refused: that is why the allowance holds exactly, although
nothing locks it. `HouseStands`: all that has gone unseen and all that would pass come
to no more than the hourly limit, what was paid in, and one payout below the approval
threshold for each further request under way, since whoever reads has what is gone
before his eyes and only those under way beside him not. Operators and the monitor only
take away from both sums, which is one lemma (`PullBackKeeps`) for all of their actions;
what payouts do on their way is another (`OneMoves`): one row changes, and counts no more
than before. `HoldStands` is what a hold is worth although payouts come back: whatever of
a held player may yet be handed out with no operator asked (`Bound`: it is queued, with the
bot, or the vault's) was approved or was on its way when the hold was placed. `Funded`, that
the vault's money is behind a withdrawal only while no bot can claim it, is what keeps one
that the vault funds from being taken for one under review.

**`Crash`.** `LocksInv` says what the locks are worth: a bet under way is for the open
round, whoever busts has seen the crash and has no bet under way, whoever pays has read
a level that the curve does reach; `UnplacedInv` that nothing is decided for a bet that
is not placed. `LevelBeforeCrash` is the arithmetic of the curve.

**`WagerLock`.** Each credit is owed its own multiple from its own time. The code keeps
one figure; `Bounded` says that it is never below what any single credit still asks, so
that it is nothing only when each has been wagered for.

### Only model-checked

* Liveness: `BooksRecover`, `NothingIsStuck`, `NothingStaysPending`, out of the prover's
  reach.
* `NoneCountedTwice`: what it adds to the theorems is that a sweep to the vault spares
  queued payouts (`SweepSparesPayouts`), which holds of one withdrawal only (see the
  disagreements about floats), and that a held payout keeps its payer when nodes drop off
  (`PaidByItsPayer` at other constants, which its theorem covers). Its other scenes are
  instances of proved theorems, too: `MoneyMovesOnce`, `BookedWhenDone`, `LeavesOnce`.
* `PaidAsEarned`: `Fishing`, `Blackjack`, `Staking`, `VaultYield` and `Promotions`, whose
  invariants are stated and not yet proved.

## Not modelled, and the plan

What would come next, in this order:

1. `VaultYield` and `Staking`: their parts of `PaidAsEarned`, as theorems. Both divide and
   round, over any number of lots and days.
2. A vault beside the pool, and what a release goes through (`VaultRelease`) under the
   floats' books.
3. Roulette, referrals, weekly quests, daily codes, crowns.

Not modelled: roulette, side bets (no route calls them), referrals, crowns, weekly
quests, daily codes, engagement rewards, the worker's connection, and item deposits and
withdrawals (switched off in every deployment the code speaks of). Not to be modelled:
chat, social pages, statistics, settings, the Discord front ends and the web pages, which
have no protocol; the hash computations of the provably-fair package; the item
catalogue.
