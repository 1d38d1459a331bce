-------------------------------- MODULE Tables --------------------------------
(***************************************************************************)
(* What the gateway keeps at its tables: mines duels, whose module this    *)
(* one extends, coinflips, skill duels, the games on a player's seeds and  *)
(* case battles.  No game looks at another's rows, so they are looked at   *)
(* one table at a time: "table" says which, and no step changes it.  What  *)
(* each of them promises is put together here; module TablesProofs proves  *)
(* it.                                                                     *)
(***************************************************************************)
EXTENDS MinesDuel

CONSTANTS
    Flips, Stakes, MaxOpen,                                 \* Coinflip
    Host, Joiners, RoundsTotal, Lead, RoundMs, InputGrace,  \* Duels
    TransportSlack, StrandedSlack, MaxNow, Scores, RakeBps,
    Keys, Sittings, MaxSeeds, MaxAsked, MaxPressed,         \* SeededGames
    Purse, Ante, Caps,
    Battles, Shapes, Drops, MaxTaken                        \* Battles, with Purse and Ante

VARIABLES
    table,
    wagered, lateHere, lateThere,                           \* Coinflip
    status, opponent, outcome, winner, answers, now,        \* Duels
    opensAt, timer, calls, scored, closer, tally,
    kind, current, draws, shown, known, asked, pressed,     \* SeededGames
    games, balance, wagers, cap,
    battle, seats, refunded, taken, opened                  \* Battles

Flip   == INSTANCE Coinflip WITH Games <- Flips
Duel   == INSTANCE Duels
Seeded == INSTANCE SeededGames WITH Opening <- Purse, Stake <- Ante
Battle == INSTANCE Battles WITH Opening <- Purse, Stake <- Ante

(* What the parameters are.                                                 *)
TablesOK ==
    /\ ConstantsOK /\ Flip!ConstantsOK /\ Duel!ConstantsOK /\ Seeded!ConstantsOK
    /\ Battle!ConstantsOK

(* What one table has that another has not.                                 *)
minesOnly  == <<due, counted>>
flipOnly   == <<wagered, lateHere, lateThere>>
rowOnly    == <<game, rakeBps>>                             \* mines duels and coinflips
duelOnly   == <<status, opponent, outcome, winner, answers, now, opensAt, timer, calls, scored,
                closer, tally>>
seededOnly == <<kind, current, draws, shown, known, asked, pressed, games, balance, wagers, cap>>
stakeOnly  == <<wallet, house, lapsed, listed, faults>>     \* all but the games on seeds
seatsOnly  == <<battle, seats, refunded, taken, opened>>
tablesVars == <<table, vars, flipOnly, duelOnly, seededOnly, seatsOnly>>

(* What a variable is at a table that has no use for it.                    *)
Unused == "unused"
NoMines  == due = Unused /\ counted = Unused
NoFlips  == wagered = Unused /\ lateHere = Unused /\ lateThere = Unused
NoRows   == game = Unused /\ rakeBps = Unused
NoDuel   ==
    /\ status = Unused /\ opponent = Unused /\ outcome = Unused /\ winner = Unused
    /\ answers = Unused /\ now = Unused /\ opensAt = Unused /\ timer = Unused
    /\ calls = Unused /\ scored = Unused /\ closer = Unused /\ tally = Unused
NoSeeded ==
    /\ kind = Unused /\ current = Unused /\ draws = Unused /\ shown = Unused
    /\ known = Unused /\ asked = Unused /\ pressed = Unused /\ games = Unused
    /\ balance = Unused /\ wagers = Unused /\ cap = Unused
NoSeats ==
    /\ battle = Unused /\ seats = Unused /\ refunded = Unused /\ taken = Unused
    /\ opened = Unused
NoStakes ==
    /\ wallet = Unused /\ house = Unused /\ lapsed = Unused /\ listed = Unused
    /\ faults = Unused

TablesInit ==
    \/ table = "mines" /\ Init /\ NoFlips /\ NoDuel /\ NoSeeded /\ NoSeats
    \/ /\ table = "coinflip" /\ Flip!Init
       /\ NoMines /\ NoDuel /\ NoSeeded /\ NoSeats /\ lapsed = Unused
    \/ /\ table = "duel" /\ Duel!Init
       /\ NoMines /\ NoFlips /\ NoRows /\ NoSeeded /\ NoSeats
    \/ /\ table = "seeded" /\ Seeded!Init
       /\ NoMines /\ NoFlips /\ NoRows /\ NoDuel /\ NoStakes /\ NoSeats
    \/ /\ table = "battle" /\ Battle!Init
       /\ NoFlips /\ NoRows /\ NoDuel /\ NoSeeded
       /\ due = Unused /\ house = Unused /\ lapsed = Unused

TablesNext ==
    /\ UNCHANGED table
    /\ \/ table = "mines" /\ Next /\ UNCHANGED <<flipOnly, duelOnly, seededOnly, seatsOnly>>
       \/ /\ table = "coinflip" /\ Flip!Next
          /\ UNCHANGED <<minesOnly, duelOnly, seededOnly, seatsOnly, lapsed>>
       \/ /\ table = "duel" /\ Duel!Next
          /\ UNCHANGED <<minesOnly, flipOnly, rowOnly, seededOnly, seatsOnly>>
       \/ /\ table = "seeded" /\ Seeded!Next
          /\ UNCHANGED <<minesOnly, flipOnly, rowOnly, duelOnly, stakeOnly, seatsOnly>>
       \/ /\ table = "battle" /\ Battle!Next
          /\ UNCHANGED <<flipOnly, rowOnly, duelOnly, seededOnly, due, house, lapsed>>

TablesSpec == TablesInit /\ [][TablesNext]_tablesVars

-----------------------------------------------------------------------------
(* Correctness                                                              *)

(* The wallets, the stakes at the tables and the house's fees are all the   *)
(* money there is: players, readers, timers and sweepers that race for one  *)
(* game take, pay and return its stakes once, and odd stakes leave nothing  *)
(* over.  A game on a seed takes its stake, pays and counts as a wager once,*)
(* and a seat's stake is held, returned once or part of the pot.            *)
MoneyIsAllThere ==
    /\ table = "mines" => StakesAddUp
    /\ table = "coinflip" => Flip!StakesAddUp
    /\ table = "duel" => Duel!StakesAreSettledOnce
    /\ table = "seeded" => Seeded!SettledOnce
    /\ table = "battle" => Battle!StakesAddUp

(* A decided game pays by its rules: what was quoted before anybody staked, *)
(* however often the fee is set in between, and the seats that win a battle,*)
(* the bots' among them, share the pot to the unit, whatever the format.    *)
PaidByTheRules ==
    /\ table = "mines" => QuotedIsPaid
    /\ table = "coinflip" => Flip!QuotedIsPaid
    /\ table = "battle" => Battle!PotIsShared

(* Wagered volume is never to be had for nothing: a stake counts only if    *)
(* its coin was flipped or its battle rolled, and while there is a fee the  *)
(* draws of a mines duel count as decided games do, and cost as much.       *)
VolumeIsEarned ==
    /\ table = "mines" => VolumeCostsFees
    /\ table = "coinflip" => Flip!OnlyFlipsCount
    /\ table = "battle" => Battle!OnlyFinalStakesCount

(* While a mines duel is played a player is shown nothing that another      *)
(* field, or another run of the opponent's, would have shown differently.   *)
FieldsStayHidden == table = "mines" => NothingGivenAway

(* A score that stands when a run is over is the one the game is decided    *)
(* by: neither the other's play nor the settlement changes it.              *)
ScoresStand == [][table = "mines" => ScoreStands]_tablesVars

(* A skill duel whose process has not failed is played to its end: the      *)
(* sweeper does not take it for stranded, however long the players take.    *)
DuelsArePlayedOut == table = "duel" => Duel!OnlyStrandedExpire

(* The seed a player is asked to bet against has decided nothing and has    *)
(* not been shown, nor has the seed of a game in play.                      *)
SeedsStaySecret == table = "seeded" => Seeded!SeedsStaySecret

(* Each tile was pressed, in that order and at that stage, and a cash-out   *)
(* was paid what the player had been offered, although presses may be late, *)
(* repeated or overtake one another.                                        *)
PlayedAsPressed == table = "seeded" => Seeded!PlayedAsPressed

=============================================================================
