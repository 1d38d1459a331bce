------------------------------ MODULE MCPayouts ------------------------------
(***************************************************************************)
(* Payouts on small instances.                                             *)
(***************************************************************************)
EXTENDS Payouts, TLC

CONSTANTS u1, u2, w1, w2, t1, t2

(* Two players, one request each: payouts that overtake one another.        *)
TwoPlayers      == {u1, u2}
OwnerOfTwo      == w1 :> u1 @@ w2 :> u2
OpeningOfTwo    == u1 :> 1 @@ u2 :> 1

(* One player, two requests one after the other: a late answer to the first *)
(* while the second is under way.                                           *)
OnePlayer       == {u1}
OwnerOfBoth     == w1 :> u1 @@ w2 :> u1
OpeningOfBoth   == u1 :> 2

(* Its first request alone.                                                *)
OwnerOfOne      == w1 :> u1
OpeningOfOne    == u1 :> 1
UnitAmount      == w1 :> 1

UnitAmounts     == w1 :> 1 @@ w2 :> 1

(* Tokens are interchangeable; so are the two players when each is swapped  *)
(* together with the request that is theirs.                                *)
TokenSwaps      == Permutations({t1, t2})
PlayerSwaps     == {u1 :> u1 @@ u2 :> u2 @@ w1 :> w1 @@ w2 :> w2,
                    u1 :> u2 @@ u2 :> u1 @@ w1 :> w2 @@ w2 :> w1}
Swaps           == {p @@ q : p \in PlayerSwaps, q \in TokenSwaps}

=============================================================================
