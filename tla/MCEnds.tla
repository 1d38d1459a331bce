-------------------------------- MODULE MCEnds --------------------------------
(***************************************************************************)
(* Liveness on small instances: payouts that need another bot's money, and *)
(* games.  "scene" says which, and no step changes it.                     *)
(***************************************************************************)
EXTENDS Integers, TLC

CONSTANTS t1, t2, None, ann, bob, g1, g2

VARIABLES
    scene,
    db, bot, net, arriving, moved, toPlayer, retries, stops,            \* VaultRelease
    funding, jobs, hand, books, receipt,                                \* both floats
    payer, reach, told, watch, cooling,                                 \* NodePool
    wallet, house, enabled, listed, faults,                             \* all games
    game, rakeBps,                                      \* coinflip and mines duel
    lateHere, lateThere, wagered,                       \* coinflip
    lapsed, due, counted,                               \* mines duel; duels lapse, too
    opponent, outcome, winner, answers, now,            \* skill duels
    opensAt, timer, calls, scored, closer, tally,
    number, isOpen, point, clock, bets, betting,        \* crash
    cashing, shared, reached, totals, aborts,
    battle, seats, refunded, taken, opened,             \* case battles
    status,                                             \* floats and skill duels
    held                                                \* floats and crash

(* One release whose payments and reports may all be lost.                  *)
Release == INSTANCE VaultRelease
    WITH Tokens <- {t1, t2}, MaxAttempts <- 3, Withdrawals <- {1}, Display <- 1 :> "86.9M",
         Codes <- {"PAYOUT_UNCONFIRMED"}, Retries <- 0, Stops <- 0, MaxReports <- 2,
         Prompt <- FALSE

(* Two releases on one vault, one of them behind the other in the queue.    *)
Behind == INSTANCE VaultRelease
    WITH Tokens <- {t1}, MaxAttempts <- 2, Withdrawals <- {1, 2},
         Display <- 1 :> "86.9M" @@ 2 :> "12M",
         Codes <- {"PAYOUT_UNCONFIRMED"}, Retries <- 0, Stops <- 0, MaxReports <- 1,
         Prompt <- TRUE

(* A poor teller and a poor vault; players pay in for ever.                 *)
Float == INSTANCE TellerFloat
    WITH Withdrawals <- {1, 2}, Amount <- 1 :> 3 @@ 2 :> 2, Target <- 1, Threshold <- 3,
         Opening <- "teller" :> 0 @@ "vault" :> 2, Deposits <- {2},
         MaxTeller <- 3, MaxVault <- 6, VaultHeard <- TRUE

(* Two poor nodes; players pay where the page sends them.                   *)
Pool == INSTANCE NodePool
    WITH Nodes <- {1, 2}, Withdrawals <- {1}, Amount <- 1 :> 2,
         Openings <- {1 :> 1 @@ 2 :> 1}, Deposits <- {2}, MaxHeld <- 1, SkewBps <- 5000,
         MinMinor <- 1, Reaches <- {"online"}, MayHold <- FALSE

(* Two coinflips between two players, with two faults.                      *)
Flip == INSTANCE Coinflip
            WITH Players <- {ann, bob}, Games <- {g1, g2}, Stakes <- {15}, Opening <- 30,
                 Rakes <- {1000}, MaxOpen <- 2, MaxFaults <- 2

(* One mines duel of three tiles.                                           *)
Field == INSTANCE MinesDuel
            WITH Players <- {ann, bob}, Games <- {g1}, Tiles <- {1, 2, 3}, MineCount <- 1,
                 MaxActive <- 1, Stake <- 15, Opening <- 20, Rakes <- {1000}, MaxFaults <- 2

(* One duel of two rounds, whose process may restart.                       *)
Duel == INSTANCE Duels
            WITH Host <- "host", Joiners <- {ann}, RoundsTotal <- 2, Lead <- 1, RoundMs <- 1,
                 InputGrace <- 2, TransportSlack <- 1, StrandedSlack <- 0, MaxNow <- 9,
                 Scores <- {0}, Stake <- 15, RakeBps <- 1000, Opening <- 16, MaxFaults <- 1

(* One round of crash: two players' bets, crash switched off and on, and a  *)
(* transaction aborted.                                                     *)
Round == INSTANCE Crash
            WITH Requests <- {1, 2}, Player <- 1 :> "alice" @@ 2 :> "bob", For <- 1 :> 1 @@ 2 :> 1,
                 Target <- 1 :> 3 @@ 2 :> 3, Points <- {1, 2, 3}, MaxRounds <- 1, Betting <- 1,
                 MaxAborts <- 1

(* One battle of three seats, one of them left and bought again.            *)
Lobby == INSTANCE Battles
            WITH Players <- {ann, bob}, Battles <- {g1}, Shapes <- {[teams |-> 3, size |-> 1]},
                 Drops <- {3}, Stake <- 15, Opening <- 30, MaxOpen <- 1, MaxTaken <- 3,
                 MaxFaults <- 2

ASSUME /\ Release!ConstantsOK /\ Behind!ConstantsOK /\ Float!ConstantsOK /\ Pool!ConstantsOK
       /\ Flip!ConstantsOK /\ Field!ConstantsOK /\ Duel!ConstantsOK
       /\ Lobby!ConstantsOK

releaseVars == <<db, bot, net, arriving, moved, toPlayer, retries, stops>>
floatOnly   == <<funding, jobs, hand, books, receipt>>
poolOnly    == <<payer, reach, told, watch, cooling>>
flipOnly    == <<lateHere, lateThere, wagered>>
fieldOnly   == <<due, counted>>
pairOnly    == <<game, rakeBps>>
duelOnly    == <<opponent, outcome, winner, answers, now, opensAt, timer, calls, scored, closer,
                 tally>>
tableOnly   == <<house, listed, faults>>
crashOnly   == <<number, isOpen, point, clock, bets, betting, cashing, shared, reached, totals,
                 aborts>>
seatsOnly   == <<battle, seats, refunded, taken, opened>>
purse       == <<wallet, enabled>>
moneyVars   == <<releaseVars, floatOnly, poolOnly>>
gameVars    == <<purse, lapsed, tableOnly, flipOnly, fieldOnly, pairOnly, duelOnly, crashOnly,
                 seatsOnly>>
vars        == <<scene, moneyVars, gameVars, status, held>>

(* What a variable is in the scenes without it.                             *)
Unused == "unused"
NoRelease ==
    /\ db = Unused /\ bot = Unused /\ net = Unused /\ arriving = Unused
    /\ moved = Unused /\ toPlayer = Unused /\ retries = Unused /\ stops = Unused
NoFloat ==
    /\ funding = Unused /\ jobs = Unused /\ hand = Unused
    /\ books = Unused /\ receipt = Unused
NoPool ==
    payer = Unused /\ reach = Unused /\ told = Unused /\ watch = Unused /\ cooling = Unused
NoFlip  == lateHere = Unused /\ lateThere = Unused /\ wagered = Unused
NoField == due = Unused /\ counted = Unused
NoPair  == game = Unused /\ rakeBps = Unused
NoDuel  ==
    /\ opponent = Unused /\ outcome = Unused /\ winner = Unused
    /\ answers = Unused /\ now = Unused /\ opensAt = Unused /\ timer = Unused
    /\ calls = Unused /\ scored = Unused /\ closer = Unused /\ tally = Unused
NoTable == house = Unused /\ listed = Unused /\ faults = Unused
NoCrash ==
    /\ number = Unused /\ isOpen = Unused /\ point = Unused /\ clock = Unused
    /\ bets = Unused /\ betting = Unused /\ cashing = Unused /\ shared = Unused
    /\ reached = Unused /\ totals = Unused /\ aborts = Unused
NoSeats ==
    /\ battle = Unused /\ seats = Unused /\ refunded = Unused /\ taken = Unused
    /\ opened = Unused
NoPurse == wallet = Unused /\ enabled = Unused

NoMoney == NoRelease /\ NoFloat /\ NoPool
NoGames ==
    /\ NoPurse /\ lapsed = Unused
    /\ NoTable /\ NoFlip /\ NoField /\ NoPair /\ NoDuel /\ NoCrash /\ NoSeats

Init ==
    \/ /\ NoGames /\ NoFloat /\ NoPool /\ status = Unused /\ held = Unused
       /\ \/ scene = "one" /\ Release!Init
          \/ scene = "behind" /\ Behind!Init
    \/ /\ NoGames /\ NoRelease
       /\ \/ scene = "float" /\ Float!Init /\ NoPool
          \/ scene = "pool" /\ Pool!Init
    \/ /\ NoMoney /\ NoCrash /\ NoSeats /\ held = Unused
       /\ \/ /\ scene = "coinflip" /\ Flip!Init
             /\ NoField /\ NoDuel /\ lapsed = Unused /\ status = Unused
          \/ scene = "mines" /\ Field!Init /\ NoFlip /\ NoDuel /\ status = Unused
          \/ scene = "duel" /\ Duel!Init /\ NoFlip /\ NoField /\ NoPair
    \/ /\ scene = "crash" /\ Round!Init /\ lapsed = Unused /\ status = Unused
       /\ NoMoney /\ NoTable /\ NoFlip /\ NoField /\ NoPair /\ NoDuel /\ NoSeats
    \/ /\ scene = "battle" /\ Lobby!Init /\ house = Unused /\ due = Unused /\ lapsed = Unused
       /\ NoMoney /\ NoFlip /\ NoPair /\ NoDuel /\ NoCrash /\ status = Unused /\ held = Unused

(* A step of one scene.                                                     *)
Released(A) == A /\ UNCHANGED <<scene, floatOnly, poolOnly, gameVars, status, held>>
One(A) == scene = "one" /\ Released(A)
Two(A) == scene = "behind" /\ Released(A)
Flt(A) == scene = "float" /\ A /\ UNCHANGED <<scene, releaseVars, poolOnly, gameVars>>
Pol(A) == scene = "pool" /\ A /\ UNCHANGED <<scene, releaseVars, gameVars>>
Played(A) == A /\ UNCHANGED <<scene, moneyVars>>
Flips(A) ==
    /\ scene = "coinflip" /\ Played(A)
    /\ UNCHANGED <<lapsed, fieldOnly, duelOnly, crashOnly, seatsOnly, status, held>>
Fields(A) ==
    /\ scene = "mines" /\ Played(A)
    /\ UNCHANGED <<flipOnly, duelOnly, crashOnly, seatsOnly, status, held>>
Duels(A) ==
    /\ scene = "duel" /\ Played(A)
    /\ UNCHANGED <<flipOnly, fieldOnly, pairOnly, crashOnly, seatsOnly, held>>
Rounds(A) ==
    /\ scene = "crash" /\ Played(A)
    /\ UNCHANGED <<lapsed, tableOnly, flipOnly, fieldOnly, pairOnly, duelOnly, seatsOnly,
                    status>>
Battled(A) ==
    /\ scene = "battle" /\ Played(A)
    /\ UNCHANGED <<lapsed, house, due, flipOnly, pairOnly, duelOnly, crashOnly, status, held>>

Next ==
    \/ One(Release!Next) \/ Two(Behind!Next) \/ Flt(Float!Next) \/ Pol(Pool!Next)
    \/ Flips(Flip!Next) \/ Fields(Field!Next) \/ Duels(Duel!Next) \/ Rounds(Round!Next)
    \/ Battled(Lobby!Next)

-----------------------------------------------------------------------------
(* Fairness.  No step leaves a scene, so one formula asks it of the actions *)
(* of several scenes.                                                       *)

(* The vault polls and finishes what it starts, the clock moves and a       *)
(* payment that was seen is reported.  Operators decide nothing.  Both      *)
(* bots poll for what pays a float, the sweeper ticks, and players keep     *)
(* paying in.  At the tables nobody has to play: time passes, the duel's    *)
(* process runs its timers, sweepers and the scheduler of crash tick, a     *)
(* sweep that read a game goes on to it, a game that is switched off is     *)
(* switched on again, transactions end and one that waits for a lock gets   *)
(* it: locks are queued for.                                                *)
Fairness ==
    /\ WF_vars(\/ One(Release!Poll) \/ Two(Behind!Poll)
               \/ Flt(Float!GameAnswers("teller")) \/ Pol(Pool!GameAnswers(1))
               \/ Flips(Flip!SweepOne(g1)) \/ Fields(Field!SweepOne(g1))
               \/ Duels(Duel!SweepStranded \/ Duel!SweepLapsed) \/ Rounds(Round!Tick)
               \/ Battled(Lobby!Expire(g1)))
    /\ WF_vars(\/ One(Release!GameMoves \/ Release!GameRefuses)
               \/ Two(Behind!GameMoves \/ Behind!GameRefuses)
               \/ Flt(Float!GameAnswers("vault")) \/ Pol(Pool!GameAnswers(2))
               \/ Flips(Flip!SweepOne(g2)) \/ Duels(Duel!Lapse) \/ Rounds(Round!LockForBust)
               \/ Battled(Lobby!CancelLobby(g1)))
    /\ WF_vars(\/ One(Release!Report) \/ Two(Behind!Report)
               \/ Flt(Float!ReportPaid("teller") \/ Float!ReportRefused("teller"))
               \/ Pol(Pool!ReportPaid(1) \/ Pool!ReportRefused(1))
               \/ Flips(Flip!Switch(TRUE)) \/ Duels(Duel!Switch(TRUE))
               \/ Rounds(Round!OpenFirst))
    /\ WF_vars(\/ One(Release!ReceiptArrives) \/ Two(Behind!ReceiptArrives)
               \/ Flt(Float!ReportPaid("vault") \/ Float!ReportRefused("vault"))
               \/ Pol(Pool!ReportPaid(2) \/ Pool!ReportRefused(2))
               \/ Flips(Flip!LateThere(g1)) \/ Fields(Field!Lapse(g1))
               \/ Duels(Duel!RoundTimer(0)) \/ Rounds(Round!PayDue))
    /\ WF_vars(\/ One(\E m \in net : Release!ReportArrives(m) \/ Release!LoseReport(m))
               \/ Two(\E m \in net : Behind!ReportArrives(m) \/ Behind!LoseReport(m))
               \/ Flt(Float!DepositBooked) \/ Pol(Pool!DepositBooked)
               \/ Flips(Flip!LateThere(g2)) \/ Fields(Field!ClockRunsOut(g1))
               \/ Duels(Duel!BeginClose(0)) \/ Rounds(Round!Bust))
    /\ WF_vars(\/ One(Release!LeaseLapses(1)) \/ Two(Behind!LeaseLapses(1))
               \/ Flt(Float!OwnerTakes) \/ Pol(Pool!CooldownPasses(1))
               \/ Duels(Duel!ReadRound(0) \/ Duel!Settle(0)) \/ Rounds(Round!PlaceBet(1)))
    /\ WF_vars(\/ One(Release!RetryIsDue(1)) \/ Two(Behind!RetryIsDue(1))
               \/ Pol(Pool!CooldownPasses(2))
               \/ Duels(Duel!RoundTimer(1)) \/ Rounds(Round!PlaceBet(2)))
    /\ WF_vars(\/ Two(Behind!LeaseLapses(2)) \/ Pol(Pool!HoldMinutesPass)
               \/ Duels(Duel!BeginClose(1)) \/ Rounds(Round!CashOut(1)))
    /\ WF_vars(\/ Two(Behind!RetryIsDue(2)) \/ Pol(Pool!OpenDepositPage)
               \/ Duels(Duel!ReadRound(1) \/ Duel!Settle(1)) \/ Rounds(Round!CashOut(2)))
    /\ SF_vars(\/ Flt(Float!Claim("teller", 1))
               \/ Pol(\E i \in DOMAIN jobs[1] : Pool!Claim(1, i))
               \/ Flips(Flip!SweepReads) \/ Fields(Field!SweepReads) \/ Duels(Duel!SweepReads)
               \/ Rounds(isOpen /\ Round!NeedsAdvance /\ Round!StartAdvance)
               \/ Battled(Lobby!SweepReads))
    /\ SF_vars(\/ Flt(Float!Claim("vault", 1))
               \/ Pol(\E i \in DOMAIN jobs[2] : Pool!Claim(2, i))
               \/ Duels(Duel!Tick) \/ Rounds(Round!LockDue(1) \/ Round!LockRiding(1)))
    /\ SF_vars(\/ Flt(Float!DepositLands(2)) \/ Pol(Pool!DepositLands(2))
               \/ Rounds(Round!LockDue(2) \/ Round!LockRiding(2)))
    /\ SF_vars(Flt(Float!Tick) \/ Pol(Pool!Tick))

Spec == Init /\ [][Next]_vars /\ Fairness

-----------------------------------------------------------------------------
(* Correctness                                                              *)

(* A withdrawal that waits for the vault although no operator sees it, the  *)
(* vault is in service and no release waits for its funds.                  *)
Awaits(w) == db.withdrawal[w].status = "awaiting_vault"
ReleaseIsStuck ==
    /\ \E w \in DOMAIN db.withdrawal : Awaits(w)
    /\ ~db.quarantined
    /\ \A v \in DOMAIN db.job : ~Release!WaitsForFunds(db.job[v])

Unpaid == \E w \in DOMAIN status : status[w] \notin {"none", "paid"}

(* Money is on its way or on a table: in a release, for a float or a pool;  *)
(* of an open coinflip, of a mines duel open or played, of a duel in its    *)
(* lobby or running, of a bet on a round of crash, of a battle's lobby.    *)
IsPending ==
    CASE scene \in {"one", "behind"} -> ReleaseIsStuck
      [] scene \in {"float", "pool"} -> Unpaid
      [] scene = "coinflip" -> \E g \in {g1, g2} : game[g].status = "open"
      [] scene = "mines" -> game[g1].status \in {"open", "playing"}
      [] scene = "duel" -> status \in {"lobby", "running"}
      [] scene = "battle" -> battle[g1].status = "lobby"
      [] scene = "crash" -> \E r \in {1, 2} : Round!IsActive(r)

(* No money stays on its way for ever.  A withdrawal that waits for the     *)
(* vault is paid on or put before an operator, although payments and        *)
(* reports may be lost and the vault restarts; as long as players pay in,   *)
(* those that wait for a float or a node are paid; and every stake comes    *)
(* off its table, though nobody plays on, clocks differ, sweeps fail, the   *)
(* process restarts and games are switched off.                             *)
NothingStaysPending == []<>~IsPending
=============================================================================
