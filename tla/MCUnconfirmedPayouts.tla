------------------------ MODULE MCUnconfirmedPayouts ------------------------
(***************************************************************************)
(* UnconfirmedPayouts on small instances.                                  *)
(***************************************************************************)
EXTENDS UnconfirmedPayouts, TLC

CONSTANTS p1, p2

(* Amounts far apart: neither is within the other's tolerance.              *)
FarApart == p1 :> 4 @@ p2 :> 12

(* The same amount twice.                                                   *)
Alike == p1 :> 4 @@ p2 :> 4

OneAmount == p1 :> 4

(* No report is lost, nothing restarts and no payout goes to review for     *)
(* another reason: all that is left to go wrong is two payouts without an   *)
(* answer.                                                                  *)
OnlyUnanswered == \A p \in Payouts : status[p] # "review" /\ status'[p] # "review"

UnansweredNext ==
    /\ BotNext \/ GameNext \/ GatewayNext \/ SweeperNext
    /\ OnlyUnanswered

UnansweredSpec == Init /\ [][UnansweredNext]_vars

=============================================================================
