------------------------------ MODULE AntiDrain ------------------------------
(***************************************************************************)
(* Which withdrawals a human has to look at before the bot is told.        *)
(*                                                                         *)
(* A request is judged by rules over sums of the ledger, which are read    *)
(* before the transaction that creates it; every minute a monitor puts a   *)
(* hold on players who have won too much and pulls queued payouts back;    *)
(* operators do both by hand.                                              *)
(*                                                                         *)
(* Everything happens within the hour the house's flow is summed over.     *)
(* Modules Payouts and VaultRelease have the jobs behind a withdrawal;     *)
(* here a payout may come back from the bot any number of times.           *)
(***************************************************************************)
EXTENDS Integers, FiniteSets, FiniteSetsExt

CONSTANTS
    Users, Staff,
    Withdrawals, Owner, Amount,
    Threshold,      \* cashApprovalThresholdMinor
    NetCashout,     \* antiDrainNetCashoutMinor; 0 is off
    HouseHourly,    \* antiDrainHouseHourlyMinor; 0 is off
    WinLimit,       \* antiDrainWin1hMinor
    TwoHop,         \* there is a vault, or a second node, to fund a payout
    Deposits, Prizes, MaxDeposited, MaxWon,  \* bounds of what is paid in and won
    MaxAsking       \* bound: requests under way at once

(* What the parameters are.                                                 *)
RulesOK ==
    /\ Staff \subseteq Users /\ Owner \in [Withdrawals -> Users]
    /\ Amount \in [Withdrawals -> Nat \ {0}]
    /\ Threshold \in Nat /\ NetCashout \in Nat /\ HouseHourly \in Nat /\ WinLimit \in Nat
    /\ Deposits \subseteq Nat \ {0} /\ Prizes \subseteq Int
    /\ MaxDeposited \in Nat /\ MaxWon \in Nat /\ MaxAsking \in Nat \ {0}
    /\ TwoHop \in BOOLEAN

VARIABLES
    status,     \* cash_withdrawals.status
    funding,    \* where its money comes from
    approved,   \* approved_by is set
    facts,      \* what each request under way has read
    cooling,    \* players who made a withdrawal less than a minute ago
    deposited,  \* what each player ever paid in
    won,        \* net result on the games
    hold,       \* players with payout_hold_reason
    holdAll,    \* cashPayoutsHold
    pass,       \* how far the monitor's pass is
    toHold,     \* players the pass has found
    missed      \* history: payouts that the hold on their player came too late for

requestVars == <<status, funding, approved, facts, cooling>>
monitorVars == <<pass, toHold>>
rulesVars == <<requestVars, deposited, won, hold, holdAll, missed, monitorVars>>

(* "dead": the row says queued or processing, and the operator's quarantine *)
(* has stopped the job behind it.                                           *)
Statuses == {"none", "pending_approval", "awaiting_vault", "queued", "processing", "dead",
             "manual_review", "paid", "failed", "rejected"}
Open     == {"pending_approval", "awaiting_vault", "queued", "processing", "dead", "manual_review"}

(* Column funding; "released" is "vault" with vault_released_at set.        *)
Fundings == {"float", "vault", "released"}
FactsRead == [read : BOOLEAN, withdrawn : Nat, deposited : Nat, flow : Int, held : BOOLEAN]
NoFacts  == [read |-> FALSE, withdrawn |-> 0, deposited |-> 0, flow |-> 0, held |-> FALSE]

RulesInit ==
    /\ status = [w \in Withdrawals |-> "none"] /\ approved = {}
    /\ funding = [w \in Withdrawals |-> "float"] /\ missed = {}
    /\ facts = [w \in Withdrawals |-> NoFacts]
    /\ cooling = {} /\ hold = {} /\ holdAll = FALSE /\ toHold = {} /\ pass = "idle"
    /\ deposited = [p \in Users |-> 0] /\ won = [p \in Users |-> 0]

SumOver(S, Value(_)) == MapThenSumSet(Value, S)
Total(S) == SumOver(S, LAMBDA w : Amount[w])
Of(p) == {w \in Withdrawals : Owner[w] = p}

-----------------------------------------------------------------------------
(* The rules                                                                *)

Withdrawn(p) == Total({w \in Of(p) : status[w] \notin {"none", "failed", "rejected"}})

(* Every status but pending_approval, failed and rejected.                  *)
Sent(w) == status[w] \in {"awaiting_vault", "queued", "processing", "dead", "manual_review", "paid"}

(* SLIP: what the bot has taken up is no longer counted.                    *)
QueuedFlow ==
    Total({w \in Withdrawals : Owner[w] \notin Staff /\ status[w] = "queued"})
      - SumOver(Users \ Staff, LAMBDA p : deposited[p])

HouseFlow ==
    Total({w \in Withdrawals : Owner[w] \notin Staff /\ Sent(w)})
      - SumOver(Users \ Staff, LAMBDA p : deposited[p])

(* loadWithdrawalFacts                                                      *)
Facts(w) == [read |-> TRUE, withdrawn |-> Withdrawn(Owner[w]), deposited |-> deposited[Owner[w]],
             flow |-> HouseFlow, held |-> Owner[w] \in hold]

(* evaluateWithdrawal                                                       *)
NeedsReview(w, f, held) ==
    \/ holdAll \/ held \/ Amount[w] > Threshold
    \/ /\ Owner[w] \notin Staff
       /\ \/ NetCashout > 0 /\ f.withdrawn + Amount[w] - f.deposited > NetCashout
          \/ HouseHourly > 0 /\ f.flow + Amount[w] > HouseHourly

-----------------------------------------------------------------------------
(* Requests                                                                 *)

Ask(w) ==
    /\ status[w] = "none" /\ ~facts[w].read
    /\ Cardinality({x \in Withdrawals : facts[x].read}) < MaxAsking
    /\ facts' = [facts EXCEPT ![w] = Facts(w)]
    /\ UNCHANGED <<status, funding, approved, cooling, deposited, won, hold, holdAll, missed,
                   monitorVars>>

(* SLIP: the cooldown is not asked for; one open withdrawal is the only     *)
(* limit.                                                                   *)
MayCreateAtOnce(w) == \A x \in Of(Owner[w]) : status[x] \notin Open

MayCreate(w) ==
    /\ Owner[w] \notin cooling
    /\ \A x \in Of(Owner[w]) : status[x] \notin Open

(* SLIP: the hold is the one that was read with the facts.                  *)
IsHeldAsRead(w) == facts[w].held

IsHeld(w) == Owner[w] \in hold

(* queueWithdrawalJob, of what is not before an operator: the teller or a   *)
(* node pays what it holds, or the vault or another node funds it first.    *)
QueueJob(w) ==
    \/ status' = [status EXCEPT ![w] = "queued"] /\ UNCHANGED funding
    \/ /\ TwoHop
       /\ status' = [status EXCEPT ![w] = "awaiting_vault"]
       /\ funding' = [funding EXCEPT ![w] = "vault"]

(* The transaction of the request: refused, or created and judged by the    *)
(* facts it came with.  The wallet covers it: module Payouts has that.      *)
Create(w) ==
    /\ facts[w].read
    /\ facts' = [facts EXCEPT ![w] = NoFacts]
    /\ IF MayCreate(w)
       THEN /\ IF NeedsReview(w, facts[w], IsHeld(w))
               THEN status' = [status EXCEPT ![w] = "pending_approval"] /\ UNCHANGED funding
               ELSE QueueJob(w)
            /\ cooling' = cooling \cup {Owner[w]}
       ELSE UNCHANGED <<status, funding, cooling>>
    /\ UNCHANGED <<approved, deposited, won, hold, holdAll, missed, monitorVars>>

(* A minute passes.  A request takes less than that.                        *)
CooldownEnds(p) ==
    /\ p \in cooling /\ \A w \in Of(p) : ~facts[w].read
    /\ cooling' = cooling \ {p}
    /\ UNCHANGED <<status, funding, approved, facts, deposited, won, hold, holdAll, missed,
                   monitorVars>>

-----------------------------------------------------------------------------
(* Payouts on their way                                                     *)

Aside == UNCHANGED <<facts, cooling, deposited, won, hold, holdAll, missed, monitorVars>>

Move(w, from, to) ==
    /\ status[w] \in from /\ \E s \in to : status' = [status EXCEPT ![w] = s]
    /\ Aside

Claim(w) == Move(w, {"queued"}, {"processing"}) /\ UNCHANGED <<funding, approved>>

(* The bot's report: paid; provably not paid; the bot is short of money or  *)
(* may try again, so that it is handed out again; or nobody knows, as when  *)
(* the lease runs out.                                                      *)
Settle(w) ==
    /\ Move(w, {"processing"}, {"paid", "failed", "queued", "manual_review"})
    /\ UNCHANGED <<funding, approved>>

(* A report on a lease that is not valid any more.                          *)
ReportAfterLease(w) ==
    /\ Move(w, {"queued", "dead"}, {"manual_review"})
    /\ UNCHANGED <<funding, approved>>

(* The operator quarantines the bot, whose jobs stop for good.              *)
Quarantine(w) ==
    /\ Move(w, {"queued", "processing"}, {"dead"})
    /\ UNCHANGED <<funding, approved>>

(* The release has come, if late: completeRelease.                          *)
Release(w) ==
    /\ funding[w] = "vault" /\ funding' = [funding EXCEPT ![w] = "released"]
    /\ Move(w, {"awaiting_vault", "manual_review"}, {"queued"})
    /\ UNCHANGED approved

(* It is given up, or sent once more by an operator.                        *)
GiveUpRelease(w) ==
    Move(w, {"awaiting_vault"}, {"manual_review"}) /\ UNCHANGED <<funding, approved>>

RetryRelease(w) ==
    /\ funding[w] = "vault"
    /\ Move(w, {"manual_review"}, {"awaiting_vault"}) /\ UNCHANGED <<funding, approved>>

(* What is under review is settled by a receipt that comes late or by the   *)
(* bot's balance, or by an operator, who signs what he calls paid.          *)
SettleLate(w) ==
    /\ funding[w] # "vault"
    /\ Move(w, {"manual_review"}, {"paid", "failed"}) /\ UNCHANGED <<funding, approved>>

Resolve(w) ==
    /\ \/ Move(w, {"manual_review"}, {"paid"}) /\ approved' = approved \cup {w}
       \/ Move(w, {"manual_review"}, {"failed"}) /\ UNCHANGED approved
    /\ UNCHANGED funding

Approve(w) ==
    /\ status[w] = "pending_approval" /\ QueueJob(w)
    /\ approved' = approved \cup {w} /\ Aside

Reject(w) ==
    /\ Move(w, {"pending_approval"}, {"rejected"})
    /\ approved' = approved \cup {w} /\ UNCHANGED funding

-----------------------------------------------------------------------------
(* Holds and the monitor                                                    *)

(* holdQueuedWithdrawal: nobody has claimed it, and no money has moved yet. *)
Holdable(w) == status[w] = "queued" /\ funding[w] = "float"

(* holdMany: it goes back in front of an operator.                          *)
PullBack(S) ==
    LET held == {w \in S : Holdable(w)} IN
    /\ status' = [w \in Withdrawals |-> IF w \in held THEN "pending_approval" ELSE status[w]]
    /\ approved' = approved \ held /\ UNCHANGED funding

HoldOne(w) ==
    /\ Holdable(w) /\ PullBack({w}) /\ Aside

HoldQueued ==
    /\ PullBack(Withdrawals) /\ Aside

(* What is with the bot or with the vault already goes on as it is.         *)
NoteMissed(p) ==
    missed' = (missed \ Of(p))
                \cup {w \in Of(p) : status[w] = "processing" \/ funding[w] # "float"}

(* SLIP: a hold stops what comes next only.                                 *)
HoldNext(p) ==
    /\ hold' = hold \cup {p} /\ NoteMissed(p) /\ UNCHANGED <<status, funding, approved>>

PlaceHold(p) == hold' = hold \cup {p} /\ NoteMissed(p) /\ PullBack(Of(p))

HoldPlayer(p) ==
    /\ PlaceHold(p)
    /\ UNCHANGED <<facts, cooling, deposited, won, holdAll, monitorVars>>

ReleasePlayer(p) ==
    /\ p \in hold /\ hold' = hold \ {p} /\ missed' = missed \ Of(p)
    /\ UNCHANGED <<requestVars, deposited, won, holdAll, monitorVars>>

SwitchHoldAll ==
    /\ holdAll' = ~holdAll
    /\ UNCHANGED <<requestVars, deposited, won, hold, missed, monitorVars>>

(* SLIP: the breaker waits until the limit is passed.                       *)
PastLimit == HouseHourly > 0 /\ HouseFlow > HouseHourly

OverLimit == HouseHourly > 0 /\ HouseFlow >= HouseHourly

Winners == {p \in Users \ (Staff \cup hold) : WinLimit > 0 /\ won[p] >= WinLimit}

(* A pass reads who has won, then holds each in a transaction of its own,    *)
(* then reads the house's flow and, if it must, pulls everything back.      *)
Watch ==
    /\ WinLimit > 0 \/ HouseHourly > 0
    /\ pass = "idle" /\ pass' = "holding" /\ toHold' = Winners
    /\ UNCHANGED <<requestVars, deposited, won, hold, holdAll, missed>>

AutoHold(p) ==
    /\ p \in toHold /\ toHold' = toHold \ {p}
    /\ IF p \in hold THEN UNCHANGED <<status, funding, approved, hold, missed>> ELSE PlaceHold(p)
    /\ UNCHANGED <<facts, cooling, deposited, won, holdAll, pass>>

CheckHouse ==
    /\ pass = "holding" /\ toHold = {}
    /\ pass' = IF OverLimit THEN "tripping" ELSE "idle"
    /\ UNCHANGED <<requestVars, deposited, won, hold, holdAll, missed, toHold>>

TripBreaker ==
    /\ pass = "tripping" /\ pass' = "idle" /\ PullBack(Withdrawals)
    /\ UNCHANGED <<facts, cooling, deposited, won, hold, holdAll, missed, toHold>>

(* Players pay in and play.                                                 *)
PayIn(p, n) ==
    /\ SumOver(Users, LAMBDA q : deposited[q]) + n <= MaxDeposited
    /\ deposited' = [deposited EXCEPT ![p] = @ + n]
    /\ UNCHANGED <<requestVars, won, hold, holdAll, missed, monitorVars>>

Play(p, n) ==
    /\ won[p] + n \in 0..MaxWon
    /\ won' = [won EXCEPT ![p] = @ + n]
    /\ UNCHANGED <<requestVars, deposited, hold, holdAll, missed, monitorVars>>

-----------------------------------------------------------------------------
UserNext ==
    \/ \E w \in Withdrawals : Ask(w) \/ Create(w)
    \/ \E p \in Users : CooldownEnds(p)
    \/ \E p \in Users, n \in Deposits : PayIn(p, n)
    \/ \E p \in Users, n \in Prizes : Play(p, n)

PayoutNext ==
    \E w \in Withdrawals :
        \/ Claim(w) \/ Settle(w) \/ ReportAfterLease(w) \/ SettleLate(w)
        \/ Release(w) \/ GiveUpRelease(w)

OperatorNext ==
    \/ \E w \in Withdrawals : Approve(w) \/ Reject(w) \/ HoldOne(w)
    \/ \E w \in Withdrawals : Quarantine(w) \/ RetryRelease(w) \/ Resolve(w)
    \/ \E p \in Users : HoldPlayer(p) \/ ReleasePlayer(p)
    \/ HoldQueued \/ SwitchHoldAll

MonitorNext == Watch \/ (\E p \in Users : AutoHold(p)) \/ CheckHouse \/ TripBreaker

RulesNext == UserNext \/ PayoutNext \/ OperatorNext \/ MonitorNext

RulesSpec == RulesInit /\ [][RulesNext]_rulesVars

-----------------------------------------------------------------------------
(* Correctness                                                              *)

RulesTypeOK ==
    /\ status \in [Withdrawals -> Statuses] /\ approved \subseteq Withdrawals
    /\ funding \in [Withdrawals -> Fundings] /\ missed \subseteq Withdrawals
    /\ facts \in [Withdrawals -> FactsRead]
    /\ cooling \subseteq Users /\ hold \subseteq Users /\ toHold \subseteq Users \ Staff
    /\ holdAll \in BOOLEAN
    /\ pass \in {"idle", "holding", "tripping"} /\ (toHold # {} => pass = "holding")
    /\ deposited \in [Users -> Nat] /\ won \in [Users -> Nat]

(* Sent without a human: neither waiting for one nor approved by one.       *)
Unseen(S) == {w \in S : Sent(w) /\ w \notin approved}

(* What a player takes out unseen never exceeds the deposits and the        *)
(* allowance, although each request is judged by sums read before it.       *)
AllowanceKept ==
    NetCashout > 0 =>
      \A p \in Users \ Staff : Total(Unseen(Of(p))) <= deposited[p] + NetCashout

(* Nothing of a held player is on its way to the bot unless a human has     *)
(* approved it, not even a request that was under way when the hold came:   *)
(* but for what the bot had claimed or the vault had funded by then, which  *)
(* goes on, and is handed out again when the bot returns it.                *)
HoldHolds ==
    \A w \in Withdrawals :
        Owner[w] \in hold /\ status[w] \in {"awaiting_vault", "queued"} => w \in approved \cup missed

(* What the house lets go unseen stays within what came in and the hourly   *)
(* limit, as long as requests come one at a time; each that may be under    *)
(* way beside another adds no more than one unseen payout.                  *)
HouseLimitKept ==
    HouseHourly > 0 =>
      Total({w \in Unseen(Withdrawals) : Owner[w] \notin Staff})
        <= HouseHourly + (MaxAsking - 1) * Threshold
             + SumOver(Users \ Staff, LAMBDA p : deposited[p])

(* The rules hold although they are judged by facts read before.            *)
RulesHold == AllowanceKept /\ HoldHolds /\ HouseLimitKept

=============================================================================
