------------------------------- MODULE Staking -------------------------------
(***************************************************************************)
(* The house pool: players' stakes share a part of the house's result of   *)
(* every whole day they were in.  A pass of the jobs settles the days that *)
(* are over and pays back what has unlocked, step by step, and passes of   *)
(* two processes may overlap; each settlement and each release is one      *)
(* transaction under one lock.  Time goes in halves of a UTC day, and a    *)
(* day is settled a half after its end (SETTLE_DELAY_MS).                  *)
(***************************************************************************)
EXTENDS Integers, FiniteSets, FiniteSetsExt

CONSTANTS
    Lots, Owner, Size, Opening,
    Cap, MaxPerPlayer,      \* stakingPoolCapMinor, stakingMaxPerPlayerMinor
    Share,                  \* stakingShareBps
    CoolDown,               \* stakingUnstakeHours, in halves of a day
    MaxDaysPerPass,
    Processes,
    Results,                \* bound: what the house may make or lose on a day
    MaxNow, MaxFaults       \* bounds: the clock, transactions that fail

Owners == {Owner[l] : l \in Lots}
Never == MaxNow + CoolDown + 1

ConstantsOK ==
    /\ Owner \in [Lots -> STRING] /\ Size \in [Lots -> Nat \ {0}] /\ Results \subseteq Int
    /\ {Opening, MaxNow, MaxFaults} \subseteq Nat /\ Share \in 0..10000
    /\ {Cap, MaxPerPlayer, CoolDown, MaxDaysPerPass} \subseteq Nat \ {0}

VARIABLES
    now,            \* the database's clock
    made,           \* the house's result of each day that is over
    lot,            \* staking_lots
    wallet,
    result,         \* staking_days: the results of a settled day's lots
    pass,           \* per process: the pass of its jobs that is under way
    faults

vars == <<now, made, lot, wallet, result, pass, faults>>

Day(t) == t \div 2
EndOf(day) == 2 * (day + 1)
SettleDelay == 1

NoLot == [status |-> "none", principal |-> 0, stakedAt |-> 0, earningFrom |-> 0, unlocksAt |-> Never]
Idle == [phase |-> "idle", at |-> 0, day |-> 0, n |-> 0, due |-> {}]

Init ==
    /\ now = 0 /\ made = <<>> /\ result = <<>> /\ faults = 0
    /\ lot = [l \in Lots |-> NoLot] /\ wallet = [p \in Owners |-> Opening]
    /\ pass = [k \in Processes |-> Idle]

-----------------------------------------------------------------------------
IsOpen(l) == lot[l].status \in {"active", "unstaking"}
Settled == DOMAIN result
Principal(ls) == MapThenSumSet(LAMBDA l : lot[l].principal, {l \in ls : IsOpen(l)})

(* BigInt division rounds toward zero.                                      *)
Quotient(a, b) == IF a >= 0 THEN a \div b ELSE -((-a) \div b)

PoolResult(ggr, eligible) ==
    IF eligible = 0 THEN 0 ELSE Quotient(ggr * Share * Min({eligible, Cap}), Cap * 10000)

LotResult(pool, principal, eligible) == Max({Quotient(pool * principal, eligible), -principal})

(* SLIP: a lot is in while it was in at any time of the day.                *)
EligibleInPart(day) ==
    {l \in Lots : IsOpen(l) /\ lot[l].principal > 0 /\ lot[l].earningFrom <= day
                    /\ lot[l].unlocksAt > EndOf(day) - 2}

Eligible(day) ==
    {l \in Lots : IsOpen(l) /\ lot[l].principal > 0 /\ lot[l].earningFrom <= day
                    /\ lot[l].unlocksAt >= EndOf(day)}

-----------------------------------------------------------------------------
(* SLIP: a stake earns from the day on which it was made.                   *)
FromToday == Day(now)

FirstDay == Day(now) + 1

(* POST /v1/staking/stake                                                   *)
Stake(l) ==
    LET mine == Principal({k \in Lots : Owner[k] = Owner[l]})
    IN  /\ lot[l].status = "none" /\ wallet[Owner[l]] >= Size[l]
        /\ mine + Size[l] <= MaxPerPlayer /\ Principal(Lots) + Size[l] <= Cap
        /\ lot' = [lot EXCEPT ![l] = [status |-> "active", principal |-> Size[l], stakedAt |-> now,
                                        earningFrom |-> FirstDay, unlocksAt |-> Never]]
        /\ wallet' = [wallet EXCEPT ![Owner[l]] = @ - Size[l]]
        /\ UNCHANGED <<now, made, result, pass, faults>>

(* POST /v1/staking/lots/:id/unstake                                        *)
RequestUnstake(l) ==
    /\ lot[l].status = "active"
    /\ lot' = [lot EXCEPT ![l].status = "unstaking", ![l].unlocksAt = now + CoolDown]
    /\ UNCHANGED <<now, made, wallet, result, pass, faults>>

-----------------------------------------------------------------------------
(* runStakingJobs reads the clock and the first day that is owed.           *)
BeginPass(k) ==
    LET open  == {l \in Lots : IsOpen(l)}
        first == Min({lot[l].earningFrom : l \in open})
        next  == IF Settled = {} THEN first ELSE Max({first, Max(Settled) + 1})
    IN  /\ pass[k].phase = "idle"
        /\ pass' = [pass EXCEPT ![k] = [phase |-> "settling", at |-> now, due |-> {},
                        day |-> IF open = {} THEN 0 ELSE next,
                        n   |-> IF open = {} THEN MaxDaysPerPass ELSE 0]]
        /\ UNCHANGED <<now, made, lot, wallet, result, faults>>

(* SLIP: a day is settled without asking whether it has been.               *)
NotAsked(day) == FALSE

IsDone(day) == day \in Settled

(* settleStakingDay: one day, once.  The house's result is read before the  *)
(* transaction; it no longer changes.                                       *)
Settle(day) ==
    IF IsDone(day) THEN UNCHANGED <<lot, wallet, result>>
    ELSE
        LET in       == Eligible(day)
            eligible == Principal(in)
            pool     == PoolResult(made[day], eligible)
            slice    == [l \in in |-> LotResult(pool, lot[l].principal, eligible)]
            paid(p)  == MapThenSumSet(LAMBDA l : Max({slice[l], 0}), {l \in in : Owner[l] = p})
        IN  /\ result' = [d \in Settled \cup {day} |-> IF d = day THEN slice ELSE result[d]]
            /\ wallet' = [p \in Owners |-> wallet[p] + paid(p)]
            /\ lot' = [l \in Lots |-> IF l \notin in THEN lot[l]
                            ELSE [lot[l] EXCEPT !.principal = @ + Min({slice[l], 0})]]

IsOver(k) == pass[k].at >= EndOf(pass[k].day) + SettleDelay
MaySettle(k) == pass[k].phase = "settling" /\ pass[k].n < MaxDaysPerPass /\ IsOver(k)

SettleNext(k) ==
    /\ MaySettle(k) /\ Settle(pass[k].day)
    /\ pass' = [pass EXCEPT ![k].day = @ + 1, ![k].n = @ + 1]
    /\ UNCHANGED <<now, made, faults>>

Releasing(due) == IF due = {} THEN Idle ELSE [Idle EXCEPT !.phase = "releasing", !.due = due]

(* The days are settled: the pass reads what is due.                        *)
ReadDue(k) ==
    /\ pass[k].phase = "settling" /\ ~MaySettle(k)
    /\ pass' = [pass EXCEPT ![k] =
            Releasing({l \in Lots : lot[l].status = "unstaking" /\ lot[l].unlocksAt <= pass[k].at})]
    /\ UNCHANGED <<now, made, lot, wallet, result, faults>>

(* SLIP: what has unlocked is paid back, whatever is still owed to it.      *)
ReadyAtOnce(l) == lot[l].status = "unstaking" /\ lot[l].unlocksAt <= now

(* Every day it shared in has been settled.                                 *)
IsReady(l) ==
    LET last == Day(lot[l].unlocksAt) - 1
    IN  /\ lot[l].status = "unstaking" /\ lot[l].unlocksAt <= now
        /\ lot[l].earningFrom > last \/ \E d \in Settled : d >= last

(* releaseLot                                                               *)
Release(k, l) ==
    /\ l \in pass[k].due
    /\ pass' = [pass EXCEPT ![k] = Releasing(@.due \ {l})]
    /\ \/ /\ IsReady(l)
          /\ lot' = [lot EXCEPT ![l].status = "closed"]
          /\ wallet' = [wallet EXCEPT ![Owner[l]] = @ + lot[l].principal]
       \/ ~IsReady(l) /\ UNCHANGED <<lot, wallet>>
    /\ UNCHANGED <<now, made, result, faults>>

(* A transaction fails or the process restarts: the pass ends.              *)
FailPass(k) ==
    /\ pass[k].phase # "idle" /\ faults < MaxFaults /\ faults' = faults + 1
    /\ pass' = [pass EXCEPT ![k] = Idle]
    /\ UNCHANGED <<now, made, lot, wallet, result>>

(* Half a day passes; when a day is over, the house has made its result.    *)
Tick ==
    /\ now < MaxNow /\ now' = now + 1
    /\ IF now' % 2 = 0
       THEN \E r \in Results : made' = [d \in 0..Day(now) |-> IF d = Day(now) THEN r ELSE made[d]]
       ELSE UNCHANGED made
    /\ UNCHANGED <<lot, wallet, result, pass, faults>>

Next ==
    \/ \E l \in Lots : Stake(l) \/ RequestUnstake(l)
    \/ \E k \in Processes :
        BeginPass(k) \/ SettleNext(k) \/ ReadDue(k) \/ FailPass(k) \/ \E l \in Lots : Release(k, l)
    \/ Tick

Spec == Init /\ [][Next]_vars

-----------------------------------------------------------------------------
(* Correctness                                                              *)

Sums(l, ds) == MapThenSumSet(LAMBDA d : result[d][l], {d \in ds \cap Settled : l \in DOMAIN result[d]})
Losses(l, ds) ==
    MapThenSumSet(LAMBDA d : Min({result[d][l], 0}), {d \in ds \cap Settled : l \in DOMAIN result[d]})

(* The days a stake was in from their beginning to their end.               *)
WholeDays(l) ==
    {d \in 0..Day(MaxNow + CoolDown) : 2 * d > lot[l].stakedAt /\ EndOf(d) <= lot[l].unlocksAt}

(* A stake shares in the whole days it was in, in all of them and in no     *)
(* other, until there is nothing left of it: nobody steps in for a day he   *)
(* has seen, out of one he has seen, or is paid back before every day he    *)
(* owes or is owed is settled, however late the days are settled and        *)
(* whichever process does it.                                               *)
SharesItsWholeDays ==
    \A l \in Lots : lot[l].status # "none" =>
        /\ \A d \in Settled :
            l \in DOMAIN result[d] <=>
                d \in WholeDays(l) /\ Size[l] + Losses(l, 0..(d - 1)) > 0
        /\ lot[l].status = "closed" =>
            \A d \in WholeDays(l) : d \in Settled \/ Size[l] + Losses(l, 0..(d - 1)) = 0

(* Wallets and stakes change by what the settled days made and by nothing   *)
(* else, and a day moves no more than the pool's share of what the house    *)
(* made or lost.                                                            *)
ResultsAddUp ==
    /\ MapThenSumSet(LAMBDA p : wallet[p], Owners) + Principal(Lots)
        = Cardinality(Owners) * Opening + MapThenSumSet(LAMBDA l : Sums(l, Settled), Lots)
    /\ \A d \in Settled :
        LET moved == MapThenSumSet(LAMBDA l : result[d][l], DOMAIN result[d])
        IN  IF made[d] >= 0 THEN moved \in 0..((made[d] * Share) \div 10000)
            ELSE -moved \in 0..((-made[d] * Share) \div 10000)

=============================================================================
