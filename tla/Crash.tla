-------------------------------- MODULE Crash --------------------------------
(***************************************************************************)
(* The shared crash round: bets, cash-outs, auto cash-outs and the bust.   *)
(*                                                                         *)
(* Bets are placed at SERIALIZABLE and hold a share lock on the round;     *)
(* everything that pays runs at READ COMMITTED on explicit row locks and   *)
(* on the database's clock.  Between two steps of a transaction the clock  *)
(* and every other transaction may move, and a transaction may be aborted. *)
(*                                                                         *)
(* Multipliers are levels: 1 is 1.00x.  A level lasts two ticks and is     *)
(* reached a tick before its time, as multiplierAt rounds up by a hair.    *)
(* Stakes are one unit: a cash-out at level m pays m.                      *)
(***************************************************************************)
EXTENDS Integers, FiniteSets, FiniteSetsExt

CONSTANTS
    Requests,       \* bets that clients send, each with its idempotency key
    Player,         \* who sends each
    For,            \* the round each names
    Target,         \* effectiveTarget: its auto cash-out, or its limit
    Points,         \* crash points that can be drawn
    MaxRounds,      \* bound
    Betting,        \* crashBettingSeconds, in ticks
    MaxAborts       \* bound: transactions that are aborted

ASSUME RequestsAssumption ==
    /\ IsFiniteSet(Requests) /\ MaxRounds \in Nat /\ Betting \in Nat \ {0} /\ MaxAborts \in Nat
    /\ For \in [Requests -> 1..MaxRounds]
ASSUME LevelsAssumption ==
    /\ Target \in [Requests -> Nat \ {0, 1}]
    /\ Points \subseteq Nat \ {0} /\ Points # {}

VARIABLES
    enabled,    \* crashEnabled
    number,     \* the newest round; 0 before the first
    isOpen,     \* its status is 'open'
    point,      \* crash_point_x100 of each round
    clock,      \* ticks since the newest round was created
    bets,       \* crash_bets
    betting,    \* bets under way, which hold a share lock on the round
    cashing,    \* cash-outs under way, which hold the lock on their bet
    shared,     \* the transaction that holds the advisory lock of the round
    reached,    \* the level payDueTargets has read
    held,       \* bets that transaction has locked
    totals,     \* staked and paid, of the rounds that have been settled
    wallet,     \* what each player has won and lost
    aborts

roundVars == <<number, isOpen, point, totals>>
sharedVars == <<shared, reached, held>>
vars == <<enabled, roundVars, clock, bets, betting, cashing, sharedVars, wallet, aborts>>

NoBet   == [status |-> "none", level |-> 0, by |-> "nobody"]
Active  == [status |-> "active", level |-> 0, by |-> "nobody"]
Lost    == [status |-> "lost", level |-> 0, by |-> "nobody"]
CashedOut(m, by) == [status |-> "cashed_out", level |-> m, by |-> by]

Init ==
    /\ enabled = TRUE /\ number = 0 /\ isOpen = FALSE /\ clock = 0 /\ aborts = 0
    /\ point = [n \in 1..MaxRounds |-> 0]
    /\ bets = [r \in Requests |-> NoBet]
    /\ betting = {} /\ cashing = {} /\ shared = "free" /\ reached = 0 /\ held = {}
    /\ totals = [staked |-> 0, paid |-> 0]
    /\ wallet = [p \in {Player[r] : r \in Requests} |-> 0]

-----------------------------------------------------------------------------
(* The curve and the clock                                                  *)

(* multiplierAt and secondsToReach                                          *)
LevelAt(t)  == IF t <= 0 THEN 1 ELSE 1 + (t + 1) \div 2
TimeOf(m)   == 2 * (m - 1)
Level       == LevelAt(clock - Betting)
Started     == clock >= Betting
CrashesAt   == Betting + TimeOf(point[number])
HasCrashed  == clock >= CrashesAt

Tick ==
    /\ isOpen /\ clock <= CrashesAt
    /\ clock' = clock + 1
    /\ UNCHANGED <<enabled, roundVars, bets, betting, cashing, sharedVars, wallet, aborts>>

Switch ==
    /\ enabled' = ~enabled
    /\ UNCHANGED <<roundVars, clock, bets, betting, cashing, sharedVars, wallet, aborts>>

-----------------------------------------------------------------------------
(* Bets                                                                     *)

IsPlaced(r) == bets[r].status # "none"

(* SLIP: only the idempotency key makes a bet unique.                       *)
HasSentBet(p, n) == FALSE

(* The unique key on round and player.                                      *)
HasBet(p, n) == \E r \in Requests : Player[r] = p /\ For[r] = n /\ IsPlaced(r)

(* A bet that the table has under its key is only shown again.              *)
LockRound(r) ==
    /\ enabled /\ ~IsPlaced(r) /\ r \notin betting
    /\ isOpen /\ number = For[r] /\ shared # "busting" /\ ~Started
    /\ betting' = betting \cup {r}
    /\ UNCHANGED <<enabled, roundVars, clock, bets, cashing, sharedVars, wallet, aborts>>

(* The bet is inserted and its stake debited, or the player has one.        *)
PlaceBet(r) ==
    /\ r \in betting /\ betting' = betting \ {r}
    /\ IF HasBet(Player[r], For[r])
       THEN UNCHANGED <<bets, wallet>>
       ELSE /\ bets' = [bets EXCEPT ![r] = Active]
            /\ wallet' = [wallet EXCEPT ![Player[r]] = @ - 1]
    /\ UNCHANGED <<enabled, roundVars, clock, cashing, sharedVars, aborts>>

-----------------------------------------------------------------------------
(* Cash-outs                                                                *)

IsActive(r) == bets[r].status = "active"

(* The bet is locked and found active.                                      *)
LockBet(r) ==
    /\ IsActive(r) /\ r \notin cashing \cup held
    /\ cashing' = cashing \cup {r}
    /\ UNCHANGED <<enabled, roundVars, clock, bets, betting, sharedVars, wallet, aborts>>

(* SLIP: the curve may be paid at its crash point.                          *)
PlayersLevelUncapped == Level

PlayersLevel == Max({1, Min({Level, point[number] - 1})})

(* SLIP: whoever asks is paid where the curve is.                           *)
CashOutWhereItIs(r) == CashedOut(PlayersLevel, "player")

(* A target that the curve has passed was won at the target.                *)
CashOutFor(r) ==
    IF Target[r] <= Level THEN CashedOut(Target[r], "auto") ELSE CashedOut(PlayersLevel, "player")

(* The clock is read after the lock is held.                                *)
CashOut(r) ==
    /\ r \in cashing /\ cashing' = cashing \ {r}
    /\ IF isOpen /\ number = For[r] /\ Started /\ ~HasCrashed
       THEN /\ bets' = [bets EXCEPT ![r] = CashOutFor(r)]
            /\ wallet' = [wallet EXCEPT ![Player[r]] = @ + CashOutFor(r).level]
       ELSE UNCHANGED <<bets, wallet>>
    /\ UNCHANGED <<enabled, roundVars, clock, betting, sharedVars, aborts>>

-----------------------------------------------------------------------------
(* Auto cash-outs                                                           *)

PayAll(S) ==
    wallet' = [p \in DOMAIN wallet |->
                 wallet[p] + MapThenSumSet(LAMBDA r : Target[r], {r \in S : Player[r] = p})]

(* payDueTargets reads the clock under the advisory lock ...                *)
ReadCurve ==
    /\ shared = "free" /\ isOpen /\ clock > Betting /\ ~HasCrashed
    /\ shared' = "paying" /\ reached' = Min({Level, point[number]})
    /\ UNCHANGED <<enabled, roundVars, clock, bets, betting, cashing, held, wallet, aborts>>

Due == {r \in Requests : For[r] = number /\ IsActive(r) /\ Target[r] <= reached}

(* ... then locks what is due, waiting for each, and pays it.               *)
LockDue(r) ==
    /\ shared = "paying" /\ r \in Due \ (held \cup cashing)
    /\ held' = held \cup {r}
    /\ UNCHANGED <<enabled, roundVars, clock, bets, betting, cashing, shared, reached, wallet, aborts>>

PayDue ==
    /\ shared = "paying" /\ Due \subseteq held
    /\ bets' = [r \in Requests |-> IF r \in Due THEN CashedOut(Target[r], "auto") ELSE bets[r]]
    /\ PayAll(Due)
    /\ shared' = "free" /\ reached' = 0 /\ held' = {}
    /\ UNCHANGED <<enabled, roundVars, clock, betting, cashing, aborts>>

-----------------------------------------------------------------------------
(* The bust                                                                 *)

NeedsAdvance == isOpen => HasCrashed

(* Whoever finds the round over, or found the one before it over.           *)
StartAdvance ==
    /\ shared = "free" /\ (NeedsAdvance \/ number > 1)
    /\ shared' = "advancing"
    /\ UNCHANGED <<enabled, roundVars, clock, bets, betting, cashing, reached, held, wallet, aborts>>

(* SLIP: the round is updated without waiting for the bets under way.       *)
RoundIsFreeAlways == TRUE

RoundIsFree == betting = {}

(* SLIP: the clock is not read again.                                       *)
IsOverAsRead == isOpen

IsOver == isOpen /\ HasCrashed

LockForBust ==
    /\ shared = "advancing" /\ RoundIsFree
    /\ shared' = CASE IsOver -> "busting" [] ~isOpen -> "opening" [] OTHER -> "free"
    /\ UNCHANGED <<enabled, roundVars, clock, bets, betting, cashing, reached, held, wallet, aborts>>

InRound == {r \in Requests : For[r] = number /\ IsPlaced(r)}
Riding  == {r \in InRound : IsActive(r)}

(* SLIP: a target at the crash point is lost.                               *)
BelowPoint == {r \in Riding : Target[r] < point[number]}

Winners == {r \in Riding : Target[r] <= point[number]}

(* SLIP: what players took before the bust is left out of the total.        *)
PaidAtBust == MapThenSumSet(LAMBDA r : Target[r], Winners)

PaidInRound ==
    MapThenSumSet(LAMBDA r : Target[r], Winners)
      + MapThenSumSet(LAMBDA r : bets[r].level, InRound \ Riding)

(* A round with its bets under way to come; its crash point is drawn.       *)
OpenRound(n) ==
    /\ number' = n /\ isOpen' = TRUE /\ clock' = 0
    /\ \E m \in Points : point' = [point EXCEPT ![n] = m]

(* SLIP: a round that runs when crash is closed is left as it is.           *)
MayBustWhileEnabled == enabled

MayBust == TRUE

(* SLIP: the bust does not wait for the lock of a bet.                      *)
LockRidingAtOnce(r) ==
    /\ shared = "busting" /\ r \in Riding \ held
    /\ held' = held \cup {r}
    /\ UNCHANGED <<enabled, roundVars, clock, bets, betting, cashing, shared, reached, wallet, aborts>>

LockRiding(r) ==
    /\ shared = "busting" /\ r \in Riding \ (held \cup cashing)
    /\ held' = held \cup {r}
    /\ UNCHANGED <<enabled, roundVars, clock, bets, betting, cashing, shared, reached, wallet, aborts>>

Bust ==
    /\ shared = "busting" /\ MayBust /\ Riding \subseteq held
    /\ bets' = [r \in Requests |->
         IF r \in Winners THEN CashedOut(Target[r], "auto")
         ELSE IF r \in Riding THEN Lost ELSE bets[r]]
    /\ PayAll(Winners)
    /\ totals' = [staked |-> totals.staked + Cardinality(InRound), paid |-> totals.paid + PaidInRound]
    /\ IF enabled /\ number < MaxRounds
       THEN OpenRound(number + 1)
       ELSE isOpen' = FALSE /\ UNCHANGED <<number, point, clock>>
    /\ shared' = "free" /\ held' = {}
    /\ UNCHANGED <<enabled, betting, cashing, reached, aborts>>

(* There was no open round.                                                 *)
OpenFirst ==
    /\ shared = "opening" /\ shared' = "free"
    /\ IF enabled /\ number < MaxRounds
       THEN OpenRound(number + 1)
       ELSE UNCHANGED <<number, isOpen, point, clock>>
    /\ UNCHANGED <<enabled, totals, bets, betting, cashing, reached, held, wallet, aborts>>

(* A transaction is aborted: a timeout, a lost connection, a deadlock.      *)
Abort ==
    /\ aborts < MaxAborts /\ aborts' = aborts + 1
    /\ \/ \E r \in betting : betting' = betting \ {r} /\ UNCHANGED <<cashing, sharedVars>>
       \/ \E r \in cashing : cashing' = cashing \ {r} /\ UNCHANGED <<betting, sharedVars>>
       \/ shared # "free" /\ shared' = "free" /\ reached' = 0 /\ held' = {} /\ UNCHANGED <<betting, cashing>>
    /\ UNCHANGED <<enabled, roundVars, clock, bets, wallet>>

-----------------------------------------------------------------------------
Advance == StartAdvance \/ LockForBust \/ Bust \/ OpenFirst

Next ==
    \/ \E r \in Requests : LockRound(r) \/ PlaceBet(r) \/ LockBet(r) \/ CashOut(r)
                            \/ LockDue(r) \/ LockRiding(r)
    \/ ReadCurve \/ PayDue \/ Advance
    \/ Tick \/ Switch \/ Abort

Spec == Init /\ [][Next]_vars

-----------------------------------------------------------------------------
(* Correctness                                                              *)

Bets == [status : {"none", "active", "lost", "cashed_out"}, level : Nat,
         by : {"nobody", "player", "auto"}]

TypeOK ==
    /\ enabled \in BOOLEAN /\ number \in 0..MaxRounds /\ isOpen \in BOOLEAN
    /\ clock \in Nat /\ aborts \in 0..MaxAborts
    /\ point \in [1..MaxRounds -> Points \cup {0}]
    /\ bets \in [Requests -> Bets]
    /\ betting \subseteq Requests /\ cashing \subseteq Requests
    /\ shared \in {"free", "paying", "advancing", "busting", "opening"} /\ reached \in Nat
    /\ held \subseteq Requests \ cashing /\ \A r \in cashing : IsActive(r)

(* No bet is left riding in a round that is over: a bet under way when the  *)
(* curve crashes is waited for.                                             *)
NoBetLeftBehind == \A r \in Requests : IsActive(r) => isOpen /\ number = For[r]

(* What a bet gets depends on the curve alone, however late the scheduler   *)
(* is: its target if the curve reaches it, and otherwise what the player    *)
(* took below the target and below the crash point.                         *)
OutcomeIsTheCurves ==
    \A r \in Requests :
        /\ bets[r].status = "lost" => Target[r] > point[For[r]]
        /\ bets[r].by = "auto" => bets[r].level = Target[r] /\ Target[r] <= point[For[r]]
        /\ bets[r].by = "player" =>
             bets[r].level < Target[r] /\ bets[r].level < point[For[r]]

(* The round is not given away before the curve has passed it: only then    *)
(* is a bet lost or the seed shown.                                         *)
NeverBustsEarly ==
    [][isOpen /\ (number' # number \/ ~isOpen') => HasCrashed]_vars

(* What settled rounds say they took in and paid is what moved in the       *)
(* wallets, but for the bets of the open round.                             *)
OpenStakes == {r \in Requests : IsPlaced(r) /\ isOpen /\ For[r] = number}
TotalsAreRight ==
    MapThenSumSet(LAMBDA p : wallet[p], DOMAIN wallet)
      = totals.paid - totals.staked
          + MapThenSumSet(LAMBDA r : bets[r].level, OpenStakes) - Cardinality(OpenStakes)

(* A player has one stake in a round, however often a request is sent.      *)
OneBetEach ==
    \A r, q \in Requests :
        IsPlaced(r) /\ IsPlaced(q) /\ Player[r] = Player[q] /\ For[r] = For[q] => r = q

=============================================================================
