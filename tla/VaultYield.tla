------------------------------ MODULE VaultYield ------------------------------
(***************************************************************************)
(* What the site owes a player for items left in the vault: a lot earns by *)
(* the whole days since its anchor, and a claim pays what has accrued and  *)
(* moves the anchor on by the days it paid for.  The day's hours are       *)
(* counted in Parts.                                                       *)
(***************************************************************************)
EXTENDS Integers, FiniteSets, FiniteSetsExt

CONSTANTS
    Lots, Value,            \* bound: one player's lots, and what each is worth
    Rate, CapBps,           \* vaultYieldBpsPerDay, vaultYieldCapBps
    Keys,                   \* bound: idempotency keys
    Parts,                  \* bound: moments of a day
    MaxNow                  \* bound

ConstantsOK ==
    /\ Value \in [Lots -> Nat] /\ {Rate, CapBps, MaxNow} \subseteq Nat
    /\ Parts \in Nat \ {0}

VARIABLES
    now,
    anchor,         \* inventory_lots.yield_anchor_at
    claimed,        \* inventory_lots.yield_claimed_minor
    receipts,       \* the ledger's vault_yield rows: what each key was paid
    balance

vars == <<now, anchor, claimed, receipts, balance>>

Bps == 10000
Unpaid == -1

Init ==
    /\ now = 0 /\ anchor = [l \in Lots |-> 0] /\ claimed = [l \in Lots |-> 0]
    /\ receipts = [k \in Keys |-> Unpaid] /\ balance = 0

-----------------------------------------------------------------------------
(* elapsedWholeDays                                                         *)
ElapsedDays(l, t) == Max({t - anchor[l], 0}) \div Parts

(* accrualFactorBps: compounding, up to the cap                             *)
FactorBps[days \in Nat] ==
    IF days = 0 THEN 0
    ELSE LET grown == FactorBps[days - 1]
         IN  Min({grown + ((Bps + grown) * Rate) \div Bps, CapBps})

CapOf(l) == (Value[l] * CapBps) \div Bps

Headroom(l) == Max({CapOf(l) - claimed[l], 0})

(* computeYield: what is claimable at t                                     *)
Gross(l, t) == (Value[l] * FactorBps[ElapsedDays(l, t)]) \div Bps

(* SLIP: neither what was paid nor the ceiling is taken into account.       *)
GrossOnly(l, t) == Gross(l, t)

Claimable(l, t) == Min({Max({Gross(l, t) - claimed[l], 0}), Headroom(l)})

(* The anchor moves on by the days that were paid for.                      *)
AnchorAfter(l) == anchor[l] + ElapsedDays(l, now) * Parts

(* SLIP: a claim that is repeated is paid as a new one.                     *)
NotReplayed(key) == FALSE

IsReplay(key) == receipts[key] # Unpaid

(* POST /v1/vault/yield/claim of named lots, which stay in the vault; a     *)
(* claim that is repeated finds its own row.                                *)
Claim(key, which) ==
    LET paying == {l \in which : Claimable(l, now) > 0}
        credit == MapThenSumSet(LAMBDA l : Claimable(l, now), paying)
    IN  \/ IsReplay(key) /\ UNCHANGED vars
        \/ /\ ~IsReplay(key) /\ credit > 0
           /\ balance' = balance + credit
           /\ receipts' = [receipts EXCEPT ![key] = credit]
           /\ claimed' = [l \in Lots |-> claimed[l] + (IF l \in paying THEN Claimable(l, now) ELSE 0)]
           /\ anchor' = [l \in Lots |-> IF l \in paying THEN AnchorAfter(l) ELSE anchor[l]]
           /\ UNCHANGED now

Tick == now < MaxNow /\ now' = now + 1 /\ UNCHANGED <<anchor, claimed, receipts, balance>>

Next == Tick \/ \E key \in Keys, which \in SUBSET Lots : Claim(key, which)

Spec == Init /\ [][Next]_vars

-----------------------------------------------------------------------------
(* Correctness                                                              *)

LeftAlone(l) == (Value[l] * FactorBps[now \div Parts]) \div Bps

(* However often it is claimed and claims are repeated, a lot never earns   *)
(* more than one that is left alone until now, nor than its cap, and what   *)
(* the lots were paid is what the claims paid, each once.                   *)
NeverMoreThanLeftAlone ==
    /\ \A l \in Lots : claimed[l] <= Min({LeftAlone(l), CapOf(l)})
    /\ balance = MapThenSumSet(LAMBDA l : claimed[l], Lots)
    /\ balance = MapThenSumSet(LAMBDA k : Max({receipts[k], 0}), Keys)

(* Nor does it earn less, but for what compounding adds: with what can be   *)
(* claimed now a lot has got the day's rate for every day since it came.    *)
ClaimingOftenIsNoLoss ==
    \A l \in Lots :
        claimed[l] + Claimable(l, now) >=
            Min({(Value[l] * Rate * (now \div Parts)) \div Bps, CapOf(l)})

=============================================================================
