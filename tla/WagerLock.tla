------------------------------ MODULE WagerLock ------------------------------
(***************************************************************************)
(* What a player must wager before money can leave his account: deposits   *)
(* and gifts add to one running figure, every wager counts it down, and    *)
(* withdrawals, stakes in the pool and tips are refused while it is more   *)
(* than nothing.  Each operation is one serializable transaction; the      *)
(* figure's ceiling of 2^63 - 1 is out of reach.                           *)
(***************************************************************************)
EXTENDS Integers, Sequences, FiniteSets, FiniteSetsExt

CONSTANTS
    Players, Opening,
    DepositMultiplier, BonusMultiplier, \* depositWagerMultiplier, signupBonusWagerMultiplier
    Amounts,                            \* bound: what is moved at once
    MaxMoves                            \* bound

ConstantsOK ==
    /\ {Opening, DepositMultiplier, BonusMultiplier, MaxMoves} \subseteq Nat
    /\ Amounts \subseteq Nat \ {0}

VARIABLES
    purse,
    remaining,      \* user_wager_requirements
    since,          \* per credit: what it and later ones ask for, less the wagers since
    left,           \* "since" at each time that money left the account
    moves

lockVars == <<purse, remaining, since, left, moves>>

LockInit ==
    /\ purse = [p \in Players |-> Opening]
    /\ remaining = [p \in Players |-> 0]
    /\ since = [p \in Players |-> <<>>]
    /\ left = [p \in Players |-> {}]
    /\ moves = 0

-----------------------------------------------------------------------------
(* requirementFor                                                           *)
RequirementFor(amount, multiplier) == amount * multiplier

(* SLIP: the larger of what is owed and what is added, and not both.        *)
RaiseRequirement(p, owed) == remaining' = [remaining EXCEPT ![p] = Max({@, owed})]

AddRequirement(p, owed) == remaining' = [remaining EXCEPT ![p] = @ + owed]

Credit(p, amount, multiplier) ==
    /\ purse' = [purse EXCEPT ![p] = @ + amount]
    /\ AddRequirement(p, RequirementFor(amount, multiplier))
    /\ LET n == RequirementFor(amount, multiplier)
       IN  since' = [since EXCEPT ![p] = Append([i \in DOMAIN @ |-> @[i] + n], n)]
    /\ UNCHANGED left

(* A payment to the bot, or one that signed the player in.                  *)
Deposit(p, amount) == Credit(p, amount, DepositMultiplier)

(* A signup bonus, a streak, a daily code, a quest, a bounty, a share of    *)
(* the rain, an operator's gift.                                            *)
Gift(p, amount) == Credit(p, amount, BonusMultiplier)

(* SLIP: a wager is counted for more than what is owed.                     *)
Counted(p, amount) == remaining[p] - amount

Reduced(p, amount) == Max({remaining[p] - amount, 0})

(* recordWager of a game that is played: its prize is won or not.           *)
Wager(p, amount, prize) ==
    /\ purse[p] >= amount
    /\ purse' = [purse EXCEPT ![p] = @ - amount + prize]
    /\ remaining' = [remaining EXCEPT ![p] = Reduced(p, amount)]
    /\ since' = [since EXCEPT ![p] = [i \in DOMAIN @ |-> @[i] - amount]]
    /\ UNCHANGED left

RequirementMet(p) == remaining[p] <= 0

(* A withdrawal of money or items, or a stake in the pool.                  *)
Leave(p, amount) ==
    /\ RequirementMet(p) /\ purse[p] >= amount
    /\ purse' = [purse EXCEPT ![p] = @ - amount]
    /\ left' = [left EXCEPT ![p] = @ \cup {since[p]}]
    /\ UNCHANGED <<remaining, since>>

(* SLIP: a tip is no withdrawal.                                            *)
AnyoneMayTip(p) == TRUE

MayTip(p) == RequirementMet(p)

(* POST /v1/social/tip: no wager of either player, and no gift to the       *)
(* other: it was wagered for.                                               *)
Tip(p, q, amount) ==
    /\ p # q /\ MayTip(p) /\ purse[p] >= amount
    /\ purse' = [purse EXCEPT ![p] = @ - amount, ![q] = @ + amount]
    /\ left' = [left EXCEPT ![p] = @ \cup {since[p]}]
    /\ UNCHANGED <<remaining, since>>

LockNext ==
    /\ moves < MaxMoves /\ moves' = moves + 1
    /\ \E p \in Players, amount \in Amounts :
        \/ Deposit(p, amount) \/ Gift(p, amount) \/ Leave(p, amount)
        \/ \E prize \in {0, 2 * amount} : Wager(p, amount, prize)
        \/ \E q \in Players : Tip(p, q, amount)

LockSpec == LockInit /\ [][LockNext]_lockVars

-----------------------------------------------------------------------------
(* Correctness                                                              *)

(* When money leaves an account, what was wagered since each of its         *)
(* deposits and gifts is what that one and all later ones ask for: neither  *)
(* wagers made before it nor those that another one took up count, whatever *)
(* the order in which they came, and no second account is a way around it.  *)
LeavesOnlyWagered ==
    \A p \in Players : \A asked \in left[p] : \A i \in DOMAIN asked : asked[i] <= 0

=============================================================================
