--------------------------- MODULE PayoutPromise ---------------------------
(***************************************************************************)
(* What a withdrawal promises a player, whatever jobs, leases, bots and    *)
(* operators it takes to keep it: the amount leaves the wallet when the    *)
(* request is made; from then on it is either delivered in the game, once, *)
(* or put back, once, and never both.                                      *)
(***************************************************************************)
EXTENDS Naturals

CONSTANTS Users, Withdrawals, Owner, Amount, Opening

VARIABLES
    stage,      \* of each request: none, open, paid or returned
    wallet,     \* the balance of each player
    delivered   \* the requests the game has paid out

vars == <<stage, wallet, delivered>>

Init ==
    /\ stage = [w \in Withdrawals |-> "none"]
    /\ wallet = Opening
    /\ delivered = {}

(* A player asks for one payout at a time, out of money the player has.     *)
Ask(w) ==
    /\ stage[w] = "none"
    /\ wallet[Owner[w]] >= Amount[w]
    /\ \A v \in Withdrawals : Owner[v] = Owner[w] => stage[v] # "open"
    /\ stage' = [stage EXCEPT ![w] = "open"]
    /\ wallet' = [wallet EXCEPT ![Owner[w]] = @ - Amount[w]]
    /\ UNCHANGED delivered

Deliver(w) ==
    /\ stage[w] = "open" /\ w \notin delivered
    /\ delivered' = delivered \cup {w}
    /\ UNCHANGED <<stage, wallet>>

(* The books catch up with what the game has done.                          *)
Confirm(w) ==
    /\ stage[w] = "open" /\ w \in delivered
    /\ stage' = [stage EXCEPT ![w] = "paid"]
    /\ UNCHANGED <<wallet, delivered>>

Return(w) ==
    /\ stage[w] = "open" /\ w \notin delivered
    /\ stage' = [stage EXCEPT ![w] = "returned"]
    /\ wallet' = [wallet EXCEPT ![Owner[w]] = @ + Amount[w]]
    /\ UNCHANGED delivered

Next == \E w \in Withdrawals : Ask(w) \/ Deliver(w) \/ Confirm(w) \/ Return(w)

Spec == Init /\ [][Next]_vars

=============================================================================
