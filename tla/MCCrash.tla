------------------------------- MODULE MCCrash -------------------------------
(***************************************************************************)
(* Games against the house, and what the house asks of those who play and  *)
(* pays them, on small instances: "scene" says which, and no step changes  *)
(* it.  In the other scenes the variables of Crash and WagerLock, which    *)
(* this module extends, are as in a house without a round or a deposit.    *)
(***************************************************************************)
EXTENDS Crash, WagerLock, TLC

VARIABLES
    scene,
    casts,                                                  \* Fishing
    hands,                                                  \* Blackjack
    pressed,                                                \* both
    balance,                                                \* and VaultYield
    wagers,                                                 \* and Promotions
    made, lot, result, pass, faults,                        \* Staking, with purse
    anchor, receipts,                                       \* VaultYield
    accrued, pot, contributed, wins, entries, prizes, settled, rains, credited, \* Promotions
    claimed,                                                \* Promotions, VaultYield
    now                                                     \* Staking, VaultYield, Promotions

(* Alice sends two bets for the first round and one for the second, Bob one *)
(* for the first.                                                           *)
Bettors == [r \in Requests |-> IF r = 3 THEN "bob" ELSE "alice"]
Rounds  == [r \in Requests |-> IF r = 4 THEN 2 ELSE 1]
Targets == [r \in Requests |-> IF r = 2 THEN 2 ELSE 3]

Keys == {1, 2}

(* Two casts; the player has the stake of one.                              *)
Line == INSTANCE Fishing
    WITH Hook <- 1, Top <- 4, Opening <- 1, MaxClock <- 8

(* Two hands of aces, sixes and tens, and of a few dealt naturals.          *)
Ranks == {1, 6, 10}
Dealt == {<<a, b, c, d>> \o rest :
             a \in Ranks, b \in Ranks, c \in Ranks, d \in Ranks,
             rest \in {<<10, 10, 10, 10>>, <<1, 6, 10, 1>>, <<5, 1, 1, 10>>}}
Table == INSTANCE Blackjack
    WITH Shoes <- <<Dealt, {<<10, 10, 10, 7>>, <<1, 10, 10, 1>>}>>,
         Stake <- 10, Opening <- 20, MaxPressed <- 2

(* One stake, and the jobs of two processes.                                *)
Jobs == INSTANCE Staking
    WITH Lots <- {1}, Owner <- <<"alice">>, Size <- <<1>>, Opening <- 5, Cap <- 10,
         MaxPerPlayer <- 5, Share <- 5000, CoolDown <- 2, MaxDaysPerPass <- 2,
         Processes <- {1, 2}, Results <- {-2, 2}, MaxNow <- 7, MaxFaults <- 0, wallet <- purse

(* The stakes of two players; the house may lose more than they are worth.  *)
Pool == INSTANCE Staking
    WITH Lots <- {1, 2}, Owner <- <<"alice", "bob">>, Size <- <<1, 4>>, Opening <- 5, Cap <- 10,
         MaxPerPlayer <- 5, Share <- 5000, CoolDown <- 2, MaxDaysPerPass <- 2,
         Processes <- {1}, Results <- {-20, 9}, MaxNow <- 6, MaxFaults <- 1, wallet <- purse

(* Five days of two lots, whose cap is reached on the third.                *)
Vault == INSTANCE VaultYield
    WITH Lots <- {1, 2}, Value <- <<1000, 1000>>, Rate <- 100, CapBps <- 250, Keys <- Keys,
         Parts <- 2, MaxNow <- 10

(* A race for two prizes; no draw hits.                                     *)
Race == INSTANCE Promotions
    WITH Players <- {"alice", "bob"}, Stake <- 1000, Edge <- 1000, Rake <- 300,
         RakebackBps <- 1000, PotBps <- 10, PotSeed <- 5, RaceStart <- 1, RaceEnd <- 3,
         RacePool <- 100, Curve <- <<6000, 3000>>, RainPool <- 7, RainBar <- 1000,
         RainWindow <- 1, RainTime <- 1, RainEvery <- 2, Games <- {<<FALSE, FALSE>>},
         MaxWagers <- 4, MaxRains <- 0, MaxNow <- 4

(* Two drops and a jackpot; no race is on.                                  *)
Drops == INSTANCE Promotions
    WITH Players <- {"alice", "bob"}, Stake <- 1000, Edge <- 1000, Rake <- 300,
         RakebackBps <- 1000, PotBps <- 10, PotSeed <- 5, RaceStart <- 8, RaceEnd <- 9,
         RacePool <- 100, Curve <- <<6000, 3000>>, RainPool <- 7, RainBar <- 1000,
         RainWindow <- 1, RainTime <- 1, RainEvery <- 2,
         Games <- {<<TRUE, FALSE>>, <<FALSE, FALSE>>, <<FALSE, TRUE>>},
         MaxWagers <- 2, MaxRains <- 2, MaxNow <- 3

ASSUME ConstantsOK /\ Line!ConstantsOK /\ Table!ConstantsOK
ASSUME /\ Jobs!ConstantsOK /\ Pool!ConstantsOK /\ Vault!ConstantsOK
       /\ Race!ConstantsOK /\ Drops!ConstantsOK

playVars   == <<pressed, balance, wagers>>
crashOnly  == <<roundVars, bets, betting, cashing, sharedVars, wallet, aborts>>
gameVars   == <<vars, casts, hands, pressed>>
poolOnly   == <<made, lot, result, pass, faults>>
yieldOnly  == <<anchor, receipts>>
lockOnly   == <<remaining, since, left, moves>>
promoOnly  == <<accrued, pot, contributed, wins, entries, prizes, settled, rains, credited>>
paidVars   == <<poolOnly, yieldOnly, lockVars, promoOnly, claimed, now>>
mcVars     == <<scene, vars, casts, hands, playVars, paidVars>>

(* What a variable is in the scenes without it.                             *)
Unused == "unused"
NoPlay == pressed = Unused /\ balance = Unused /\ wagers = Unused
NoPool ==
    made = Unused /\ lot = Unused /\ result = Unused /\ pass = Unused /\ faults = Unused
NoYield == anchor = Unused /\ receipts = Unused
NoLock  == left = [p \in Players |-> {}] /\ remaining = Unused /\ since = Unused /\ moves = Unused
NoPromo ==
    /\ accrued = Unused /\ pot = Unused /\ contributed = Unused /\ wins = Unused
    /\ entries = Unused /\ prizes = Unused /\ settled = Unused /\ rains = Unused
    /\ credited = Unused

GameInit ==
    /\ NoPool /\ NoYield /\ NoLock /\ NoPromo
    /\ purse = Unused /\ claimed = Unused /\ now = Unused
    /\ \/ scene = "crash" /\ casts = Unused /\ hands = Unused /\ NoPlay
       \/ scene = "fishing" /\ Line!Init /\ hands = Unused
       \/ scene = "blackjack" /\ Table!Init /\ casts = Unused

PaidInit ==
    /\ casts = Unused /\ hands = Unused /\ pressed = Unused
    /\ \/ /\ (scene = "jobs" /\ Jobs!Init) \/ (scene = "pool" /\ Pool!Init)
          /\ NoYield /\ NoLock /\ NoPromo
          /\ balance = Unused /\ wagers = Unused /\ claimed = Unused
       \/ /\ scene = "yield" /\ Vault!Init
          /\ NoPool /\ NoLock /\ NoPromo /\ wagers = Unused /\ purse = Unused
       \/ /\ scene = "lock" /\ LockInit
          /\ NoPool /\ NoYield /\ NoPromo
          /\ balance = Unused /\ wagers = Unused /\ claimed = Unused /\ now = Unused
       \/ /\ (scene = "race" /\ Race!Init) \/ (scene = "drops" /\ Drops!Init)
          /\ NoPool /\ NoYield /\ NoLock /\ balance = Unused /\ purse = Unused

MCInit == Init /\ (GameInit \/ PaidInit)

GameNext ==
    /\ UNCHANGED paidVars
    /\ \/ scene = "crash" /\ Next /\ UNCHANGED <<casts, hands, playVars>>
       \/ scene = "fishing" /\ Line!Next /\ UNCHANGED <<crashOnly, hands>>
       \/ scene = "blackjack" /\ Table!Next /\ UNCHANGED <<crashOnly, clock, casts>>

PaidNext ==
    /\ UNCHANGED gameVars
    /\ \/ /\ (scene = "jobs" /\ Jobs!Next) \/ (scene = "pool" /\ Pool!Next)
          /\ UNCHANGED <<yieldOnly, lockOnly, promoOnly, balance, wagers, claimed>>
       \/ /\ scene = "yield" /\ Vault!Next
          /\ UNCHANGED <<poolOnly, lockOnly, promoOnly, wagers, purse>>
       \/ /\ scene = "lock" /\ LockNext
          /\ UNCHANGED <<poolOnly, yieldOnly, promoOnly, balance, wagers, claimed, now>>
       \/ /\ (scene = "race" /\ Race!Next) \/ (scene = "drops" /\ Drops!Next)
          /\ UNCHANGED <<poolOnly, yieldOnly, lockOnly, balance, purse>>

MCNext == UNCHANGED scene /\ (GameNext \/ PaidNext)

MCSpec == MCInit /\ [][MCNext]_mcVars

-----------------------------------------------------------------------------
(* Correctness: the properties of Crash and WagerLock, and in its scene     *)
(* each game's                                                              *)

(* Every stake is taken once and what the game's outcome is worth is paid   *)
(* once, whatever was sent twice.  The outcome is that of what the player   *)
(* pressed: a press that is late or out of order draws no card of a later   *)
(* stage, and a fishing line that is judged late is judged by what it had   *)
(* reached in time.  Whatever passes overlap, fail or come late, whatever   *)
(* is claimed twice and whoever finds a race or a drop due, a player is     *)
(* paid what his stake, his items, his wagers earned, once, and no more     *)
(* than was set aside.                                                      *)
PaidAsEarned ==
    /\ scene = "fishing" => Line!SettledOnce /\ Line!JudgedAsOnTime
    /\ scene = "blackjack" => Table!SettledOnce /\ Table!PaidByItsCards /\ Table!CardsAsDealt
    /\ scene = "jobs" => Jobs!SharesItsWholeDays /\ Jobs!ResultsAddUp
    /\ scene = "pool" => Pool!SharesItsWholeDays /\ Pool!ResultsAddUp
    /\ scene = "yield" => Vault!NeverMoreThanLeftAlone
    /\ scene = "race" => Race!RacesAreFair /\ Race!PromotionsAddUp
    /\ scene = "drops" => Drops!RainIsShared /\ Drops!PromotionsAddUp
=============================================================================
