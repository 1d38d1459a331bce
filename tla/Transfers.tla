------------------------------ MODULE Transfers ------------------------------
(***************************************************************************)
(* Payouts that need another bot's money: the release a vault makes to the *)
(* teller, whose module this one extends, the teller's float, and the pool *)
(* of equal nodes.  A deployment has a vault and a teller or a pool, and   *)
(* the float leaves out what a release goes through, so they are looked at *)
(* one at a time: "scene" says which, and no step changes it.  What each   *)
(* promises is put together here; module TransfersProofs proves it.        *)
(***************************************************************************)
EXTENDS VaultRelease

CONSTANTS
    Asked, Amount, Deposits,                                \* both floats
    Target, Threshold, Opening, MaxTeller, MaxVault, VaultHeard, \* TellerFloat
    Nodes, Openings, MaxHeld, SkewBps, MinMinor, Reaches, MayHold \* NodePool

VARIABLES
    scene,
    status, funding, jobs, hand, books, held, receipt,      \* both floats
    payer, reach, told, watch, cooling                      \* NodePool

Float == INSTANCE TellerFloat WITH Withdrawals <- Asked
Pool  == INSTANCE NodePool WITH Withdrawals <- Asked

(* What the parameters are.                                                 *)
TransfersOK == ConstantsOK /\ Float!ConstantsOK /\ Pool!ConstantsOK

floatVars     == <<status, funding, jobs, hand, books, held, receipt>>
poolOnly      == <<payer, reach, told, watch, cooling>>
transfersVars == <<scene, vars, floatVars, poolOnly>>

(* What a variable is in the scenes without it.                             *)
Unused == "unused"
NoRelease ==
    /\ db = Unused /\ bot = Unused /\ net = Unused /\ arriving = Unused
    /\ moved = Unused /\ toPlayer = Unused /\ retries = Unused /\ stops = Unused
NoFloat ==
    /\ status = Unused /\ funding = Unused /\ jobs = Unused /\ hand = Unused
    /\ books = Unused /\ held = Unused /\ receipt = Unused
NoPool ==
    payer = Unused /\ reach = Unused /\ told = Unused /\ watch = Unused /\ cooling = Unused

TransfersInit ==
    \/ scene = "release" /\ Init /\ NoFloat /\ NoPool
    \/ scene = "float" /\ Float!Init /\ NoRelease /\ NoPool
    \/ scene = "pool" /\ Pool!Init /\ NoRelease

TransfersNext ==
    /\ UNCHANGED scene
    /\ \/ scene = "release" /\ Next /\ UNCHANGED <<floatVars, poolOnly>>
       \/ scene = "float" /\ Float!Next /\ UNCHANGED <<vars, poolOnly>>
       \/ scene = "pool" /\ Pool!Next /\ UNCHANGED vars

TransfersSpec == TransfersInit /\ [][TransfersNext]_transfersVars

-----------------------------------------------------------------------------
(* Correctness                                                              *)

(* The player's hop waits for the release and the player has the money      *)
(* once; the release itself is moved once if the teller's receipt is in by  *)
(* the time the vault reports.                                              *)
MoneyIsMovedOnce == scene = "release" => MoneyMovesOnce

(* Behind a withdrawal that waits for the vault there is a release that can *)
(* still be made, and one that counts as done has landed, whatever has      *)
(* lapsed, been lost or come late.                                          *)
PayoutsAreProvidedFor == scene = "release" => WaitsForSomething /\ CompletedHasLanded

(* The books follow the money: those of vault and teller move for a release *)
(* exactly when it is done, however often it was sent, confirmed or         *)
(* recognised, and every bot's books come to what it holds once what is on  *)
(* its way is counted; no leg is booked on one side only, twice or never.   *)
BooksFollowTheMoney ==
    /\ scene = "release" => BookedWhenDone
    /\ scene = "float" => Float!BooksAddUp
    /\ scene = "pool" => Pool!PoolAddsUp

(* A withdrawal has one payout at most, on the node its row names, and the  *)
(* release for it goes to that node: an approval after a hold, with another *)
(* node richer by then, does not part the payer from the books.             *)
PaidByItsPayer == scene = "pool" => Pool!PaidByItsPayer

(* No rebalance is queued while another is on its way.  One takes nothing   *)
(* that a withdrawal waiting for its release counts on, and leaves its      *)
(* sender enough for all it is due to pay.                                  *)
MovesSparePromises == [][scene = "pool" => Pool!MoveSparesPromises]_transfersVars

=============================================================================
