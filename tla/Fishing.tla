------------------------------ MODULE Fishing ------------------------------
(***************************************************************************)
(* Fishing: a cast climbs with the clock until it is landed, reaches the   *)
(* target set for it, or snaps.  Nothing watches an open cast: it is       *)
(* judged when its page polls it, lands it, or the player casts again,     *)
(* however late that is.  Each handler is one SERIALIZABLE transaction.    *)
(*                                                                         *)
(* Multipliers are levels: 1 is 1.00x, 2 the lowest that can be landed.  A *)
(* stake is one unit, and a landing at level m pays m.                     *)
(***************************************************************************)
EXTENDS Integers, FiniteSets, FiniteSetsExt

CONSTANTS
    Keys,       \* idempotency keys
    Hook,       \* FISHING_HOOK_MS, in ticks
    Top,        \* FISHING_MAX_X100: the line never holds this level
    Opening,    \* the player's balance
    MaxClock    \* bound

ConstantsOK ==
    /\ IsFiniteSet(Keys) /\ {Hook, Opening, MaxClock} \subseteq Nat /\ Top \in Nat \ {0, 1}

VARIABLES
    casts,      \* fishing_casts, by key
    clock,      \* clock_timestamp()
    pressed,    \* the level a player saw on pressing Land; 0 before a press
    balance,    \* user_wallets
    wagers,     \* how often recordWager counted each cast
    enabled     \* fishingEnabled

vars == <<casts, clock, pressed, balance, wagers, enabled>>

NoTarget == 0
NoCast == [status |-> "none", target |-> NoTarget, snap |-> 0, hooked |-> 0, landed |-> 0]
IsOpen(k) == casts[k].status = "open"

Init ==
    /\ casts = [k \in Keys |-> NoCast] /\ clock = 0
    /\ pressed = [k \in Keys |-> 0]
    /\ balance = Opening /\ wagers = [k \in Keys |-> 0] /\ enabled = TRUE

Tick ==
    /\ clock < MaxClock /\ clock' = clock + 1
    /\ UNCHANGED <<casts, pressed, balance, wagers, enabled>>

Switch ==
    /\ enabled' = ~enabled
    /\ UNCHANGED <<casts, clock, pressed, balance, wagers>>

-----------------------------------------------------------------------------
(* Judging                                                                  *)

MinLand == 2

(* multiplierAt                                                             *)
LevelAt(t) == IF t <= 0 THEN 1 ELSE IF t >= Top THEN Top ELSE t + 1

Reached(c) == LevelAt(clock - c.hooked)

Open == [outcome |-> "open", at |-> 0]
Landed(m) == [outcome |-> "landed", at |-> m]
Snapped == [outcome |-> "snapped", at |-> 0]

IsTargetMet(c) == c.target # NoTarget /\ c.target < c.snap /\ Reached(c) >= c.target

(* SLIP: what the line has reached is looked at first.                      *)
JudgeLate(c, landNow) ==
    IF Reached(c) >= c.snap THEN Snapped
    ELSE IF IsTargetMet(c) THEN Landed(c.target)
    ELSE IF landNow /\ Reached(c) >= MinLand THEN Landed(Reached(c)) ELSE Open

(* A target that was passed was landed at, whatever happened after.         *)
Judge(c, landNow) ==
    IF IsTargetMet(c) THEN Landed(c.target)
    ELSE IF Reached(c) >= c.snap THEN Snapped
    ELSE IF landNow /\ Reached(c) >= MinLand THEN Landed(Reached(c)) ELSE Open

(* advance and settle                                                       *)
Settled(c, verdict) == [c EXCEPT !.status = verdict.outcome, !.landed = verdict.at]
Counted(k) == [wagers EXCEPT ![k] = @ + 1]

Advance(k, landNow) ==
    LET verdict == Judge(casts[k], landNow)
    IN  /\ IsOpen(k) /\ verdict # Open
        /\ casts' = [casts EXCEPT ![k] = Settled(@, verdict)]
        /\ balance' = balance + verdict.at
        /\ wagers' = Counted(k)
        /\ UNCHANGED <<clock, pressed, enabled>>

-----------------------------------------------------------------------------
(* Requests                                                                 *)

(* The page polls the cast.                                                 *)
Poll(k) == Advance(k, FALSE)

PressLand(k) ==
    /\ IsOpen(k) /\ pressed[k] = 0
    /\ pressed' = [pressed EXCEPT ![k] = Reached(casts[k])]
    /\ UNCHANGED <<casts, clock, balance, wagers, enabled>>

(* The press arrives: before there is anything to land it is refused,       *)
(* unless the line snapped on the bite.                                     *)
Land(k) == pressed[k] # 0 /\ Advance(k, Reached(casts[k]) >= MinLand)

(* SLIP: the new cast waits for no other.                                   *)
CastBeside(k, target, snap) ==
    /\ casts[k].status = "none" /\ enabled /\ balance >= 1
    /\ balance' = balance - 1
    /\ casts' = [j \in Keys |->
                    IF j = k THEN [status |-> "open", target |-> target, snap |-> snap,
                                   hooked |-> clock + Hook, landed |-> 0]
                    ELSE Settled(casts[j], Judge(casts[j], TRUE))]
    /\ UNCHANGED <<clock, pressed, wagers, enabled>>

(* A cast that was left open is judged first; while it climbs the new one   *)
(* is refused.  The landing may pay for the stake.  Any refusal undoes it.  *)
Cast(k, target, snap) ==
    LET left == {j \in Keys : IsOpen(j)}
        verdict(j) == Judge(casts[j], FALSE)
        won == MapThenSumSet(LAMBDA j : verdict(j).at, left)
    IN  /\ casts[k].status = "none" /\ enabled
        /\ \A j \in left : verdict(j) # Open
        /\ balance + won >= 1
        /\ balance' = balance + won - 1
        /\ casts' = [j \in Keys |->
                        IF j = k THEN [status |-> "open", target |-> target, snap |-> snap,
                                       hooked |-> clock + Hook, landed |-> 0]
                        ELSE IF j \in left THEN Settled(casts[j], verdict(j)) ELSE casts[j]]
        /\ wagers' = [j \in Keys |-> IF j \in left THEN wagers[j] + 1 ELSE wagers[j]]
        /\ UNCHANGED <<clock, pressed, enabled>>

Next ==
    \/ Tick \/ Switch
    \/ \E k \in Keys :
        \/ \E target \in {NoTarget} \cup MinLand..(Top - 1) : \E snap \in 1..Top :
            Cast(k, target, snap)
        \/ Poll(k) \/ PressLand(k) \/ Land(k)

Spec == Init /\ [][Next]_vars

-----------------------------------------------------------------------------
(* Properties                                                               *)

Over == {k \in Keys : casts[k].status \in {"landed", "snapped"}}

(* Being judged late costs a player nothing and brings nothing: a line that *)
(* snapped had no target below its breaking point; one that landed did so   *)
(* below its breaking point and its target, at that target or at a level    *)
(* the player asked for and had reached.                                    *)
JudgedAsOnTime ==
    \A k \in Over :
        LET c == casts[k] IN
        IF c.status = "snapped" THEN ~(c.target # NoTarget /\ c.target < c.snap)
        ELSE /\ MinLand <= c.landed /\ c.landed < c.snap
             /\ c.target # NoTarget /\ c.target < c.snap => c.landed <= c.target
             /\ c.landed # c.target => pressed[k] \in 1..c.landed

(* The wallet has paid each cast's stake once and received what it landed   *)
(* at once; a cast is a wager once, when it is over; one cast at most is in *)
(* the water.                                                               *)
SettledOnce ==
    LET made == {k \in Keys : casts[k].status # "none"}
    IN  /\ balance = Opening + MapThenSumSet(LAMBDA k : casts[k].landed - 1, made)
        /\ \A k \in Keys : wagers[k] = IF k \in Over THEN 1 ELSE 0
        /\ Cardinality({k \in Keys : IsOpen(k)}) <= 1
=============================================================================
