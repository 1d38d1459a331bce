----------------------------- MODULE MCTransfers -----------------------------
(***************************************************************************)
(* Transfers on small instances, and beside its scenes five more: a        *)
(* release and an operator, releases whose receipts are in time, a teller  *)
(* whose float is above the sweep's threshold, a pool whose payouts are    *)
(* held, and two operators' payouts to one player.  In the scenes of this  *)
(* module the variables of Transfers it has no use for are unused, too.    *)
(***************************************************************************)
EXTENDS Transfers, TLC

CONSTANTS t1, t2

VARIABLES
    row, job, journal, refused, heard, botStatus, booked, asks, reports, left, \* AdminPayouts,
    payingBot                                                           \* whose bot it is

TokenSwaps == Permutations({t1, t2})

(* In the scene "release" there are two of different amounts, with receipts *)
(* and reports in any order, or lost.                                       *)
TwoDisplays == 1 :> "86.9M" @@ 2 :> "12M"

(* In the scene "float" there are two withdrawals, deposits and sweeps.     *)
FirstMore == 1 :> 4 @@ 2 :> 3
FloatOpening == "teller" :> 3 @@ "vault" :> 8

(* In the scene "pool" there are two nodes with deposits, withdrawals of    *)
(* both nodes' money and rebalances.                                        *)
PoolOpenings == {1 :> 3 @@ 2 :> 1}

(* One release, and an operator who sends it again and stops the vault.     *)
Operated == INSTANCE VaultRelease
    WITH Tokens <- {t1, t2}, Withdrawals <- {1}, Display <- 1 :> "86.9M",
         Codes <- {"PAYOUT_UNCONFIRMED", "PAYOUT_NOT_SENT", "PAYOUT_AMOUNT_MISMATCH"},
         Retries <- 1, Stops <- 1, MaxReports <- 2

(* Two releases; the teller always sees the payment and reports it first.   *)
Prompted == INSTANCE VaultRelease
    WITH Tokens <- {t1, t2}, Codes <- {"PAYOUT_UNCONFIRMED", "PAYOUT_NOT_SENT"}, Prompt <- TRUE

(* One withdrawal, with the sweep's threshold below the float.              *)
LowFloat == INSTANCE TellerFloat
    WITH Withdrawals <- {1}, Amount <- 1 :> 5, Threshold <- 0, Deposits <- {1, 3}

(* Two nodes that drop off and come back; payouts are held and approved.    *)
HeldPool == INSTANCE NodePool
    WITH Withdrawals <- {1, 2}, Deposits <- {}, MaxHeld <- 0,
         Reaches <- {"online", "away"}, MayHold <- TRUE

(* Two payouts to one player; leases lapse and the bot dies.                *)
SamePayee == INSTANCE AdminPayouts
    WITH Payouts <- {"a", "b"}, Kind <- [k \in {"a", "b"} |-> "admin_payout"],
         Payee <- [k \in {"a", "b"} |-> "player"], MaxAttempts <- 2, Tokens <- 1..3,
         MaxTries <- 2, Prompt <- FALSE, bot <- payingBot

ASSUME /\ TransfersOK /\ Operated!ConstantsOK /\ Prompted!ConstantsOK
       /\ LowFloat!ConstantsOK /\ HeldPool!ConstantsOK /\ SamePayee!ConstantsOK

payeeOnly == <<row, job, journal, refused, heard, botStatus, booked, asks, reports, left,
               payingBot>>
mcVars    == <<transfersVars, payeeOnly>>

NoPayee ==
    /\ row = Unused /\ job = Unused /\ journal = Unused /\ refused = Unused /\ heard = Unused
    /\ botStatus = Unused /\ booked = Unused /\ asks = Unused /\ reports = Unused
    /\ left = Unused /\ payingBot = Unused

MCInit ==
    \/ /\ NoPayee
       /\ \/ TransfersInit
          \/ scene = "operator" /\ Operated!Init /\ NoFloat /\ NoPool
          \/ scene = "prompt" /\ Prompted!Init /\ NoFloat /\ NoPool
          \/ scene = "low float" /\ LowFloat!Init /\ NoRelease /\ NoPool
          \/ scene = "held pool" /\ HeldPool!Init /\ NoRelease
    \/ scene = "same payee" /\ SamePayee!Init /\ NoRelease /\ NoFloat /\ NoPool

MCNext ==
    \/ TransfersNext /\ UNCHANGED payeeOnly
    \/ /\ UNCHANGED <<scene, payeeOnly>>
       /\ \/ scene = "operator" /\ Operated!Next /\ UNCHANGED <<floatVars, poolOnly>>
          \/ scene = "prompt" /\ Prompted!Next /\ UNCHANGED <<floatVars, poolOnly>>
          \/ scene = "low float" /\ LowFloat!Next /\ UNCHANGED <<vars, poolOnly>>
          \/ scene = "held pool" /\ HeldPool!Next /\ UNCHANGED vars
    \/ scene = "same payee" /\ SamePayee!Next /\ UNCHANGED transfersVars

MCSpec == MCInit /\ [][MCNext]_mcVars

-----------------------------------------------------------------------------
(* Correctness: the properties of Transfers, and of the scenes here         *)

(* No money is counted on twice.  A release that an operator sends again,   *)
(* or whose receipt is in time, moves once and is booked when it is done; a *)
(* sweep to the vault never takes what a payout queued before it is due to  *)
(* pay; a held payout that is approved later has one payer; and operators   *)
(* pay a player once, with no two payouts to one player under way.          *)
NoneCountedTwice ==
    /\ scene = "operator" => Operated!MoneyMovesOnce /\ Operated!BookedWhenDone
    /\ scene = "prompt" => Prompted!MoneyMovesOnce
    /\ scene = "low float" => LowFloat!SweepSparesPayouts
    /\ scene = "held pool" => HeldPool!PaidByItsPayer
    /\ scene = "same payee" => SamePayee!LeavesOnce

=============================================================================
