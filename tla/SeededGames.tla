---------------------------- MODULE SeededGames ----------------------------
(***************************************************************************)
(* One player's games against the house.  Each is decided by a server seed *)
(* whose hash the player had before betting: a bet names the hash, spends  *)
(* the seed and leaves a fresh one.  Dice, slots, plinko, derby and the    *)
(* upgrader are over, and their seed shown, at once; mines, tower, chicken *)
(* and ice fishing are played on, and their seed stays secret until then.  *)
(*                                                                         *)
(* Every handler is one SERIALIZABLE transaction, so a step.  Requests and *)
(* presses stay in "asked" and "pressed": they may arrive twice, late, or  *)
(* in another order.  A request that is refused changes nothing.           *)
(***************************************************************************)
EXTENDS Integers, FiniteSets, FiniteSetsExt, Sequences, SequencesExt

CONSTANTS
    Keys,       \* idempotency keys
    Sittings,   \* what each key's bet may be on
    MaxSeeds,   \* bound: seeds that are generated
    MaxAsked,   \* bound: requests a client sends for the same key
    MaxPressed, \* bound: presses
    Opening,    \* the player's balance
    Stake,      \* what each bet stakes
    Caps        \* values of the largest payout that operators set

ConstantsOK ==
    /\ IsFiniteSet(Keys) /\ MaxSeeds \in Nat \ {0} /\ Caps \subseteq Nat
    /\ {MaxAsked, MaxPressed, Opening, Stake} \subseteq Nat
    /\ Sittings \subseteq [Keys -> {"mines", "ice_fishing", "tower", "chicken",
                                   "dice", "slots", "plinko", "derby", "upgrader"}]

VARIABLES
    kind,       \* the game each key's bet is on
    current,    \* the player's seed with used_at null; 0 before the first
    draws,      \* what each generated seed will decide
    shown,      \* server_seed_reveal: seeds a settled game has shown
    known,      \* the hash the player's page has
    asked,      \* bets sent
    pressed,    \* taps and cash-outs sent
    games,      \* the games' rows, by key
    balance,    \* user_wallets
    wagers,     \* how often recordWager counted each game
    enabled,    \* the games' switch
    cap         \* their MaxPayoutMinor

seedVars == <<current, draws, shown>>
sentVars == <<kind, known, asked, pressed>>
vars == <<seedVars, sentVars, games, balance, wagers, enabled, cap>>

Draws == 0..2
NoDraw == 3

NoGame == [status |-> "none"]
IsPlaced(k) == games[k].status # "none"
IsActive(k) == games[k].status = "active"

(* Tiles, floors or lanes that are safe to turn, and what a tap may name.   *)
Steps == 2
Taps == 0..2

Init ==
    /\ kind \in Sittings
    /\ current = 0 /\ draws = [s \in 1..MaxSeeds |-> NoDraw] /\ shown = {}
    /\ known = 0 /\ asked = {} /\ pressed = {}
    /\ games = [k \in Keys |-> NoGame]
    /\ balance = Opening /\ wagers = [k \in Keys |-> 0]
    /\ enabled = TRUE /\ cap \in Caps

-----------------------------------------------------------------------------
(* The player and the operators                                             *)

(* GET /v1/fairness/current makes the player's first seed.                  *)
FetchCommitment ==
    /\ IF current = 0
       THEN \E d \in Draws : current' = 1 /\ draws' = [draws EXCEPT ![1] = d]
       ELSE UNCHANGED <<current, draws>>
    /\ known' = current'
    /\ UNCHANGED <<kind, shown, asked, pressed, games, balance, wagers, enabled, cap>>

(* A page sends a bet against the hash it has.                              *)
Ask(k) ==
    /\ known > 0 /\ Cardinality({m \in asked : m.key = k}) < MaxAsked
    /\ asked' = asked \cup {[key |-> k, seed |-> known]}
    /\ UNCHANGED <<seedVars, kind, known, pressed, games, balance, wagers, enabled, cap>>

(* SLIP: the largest payout is the one of today.                            *)
OfferToday(g) ==
    LET pay == Stake * (1 + Len(g.turned))
    IN  IF g.turned = <<>> THEN 0 ELSE IF pay > cap THEN cap ELSE pay

(* What gameView offers for a game as it stands.                            *)
Offer(g) == LET pay == Stake * (1 + Len(g.turned))
            IN  IF g.turned = <<>> THEN 0 ELSE IF pay > g.cap THEN g.cap ELSE pay

(* A press is sent with what the player was looking at.                     *)
Press(k, tile) ==
    /\ IsActive(k) /\ Cardinality(pressed) < MaxPressed
    /\ pressed' = pressed \cup {[key |-> k, tile |-> tile, count |-> Len(games[k].turned)]}
    /\ UNCHANGED <<seedVars, kind, known, asked, games, balance, wagers, enabled, cap>>

CashOut == -1

PressCashOut(k) ==
    /\ IsActive(k) /\ games[k].turned # <<>> /\ Cardinality(pressed) < MaxPressed
    /\ pressed' = pressed \cup {[key |-> k, tile |-> CashOut, count |-> Len(games[k].turned),
                                 offer |-> Offer(games[k])]}
    /\ UNCHANGED <<seedVars, kind, known, asked, games, balance, wagers, enabled, cap>>

(* Operators close the games or change the largest payout.                  *)
Configure ==
    /\ \/ enabled' = ~enabled /\ cap' = cap
       \/ enabled' = enabled /\ cap' \in Caps \ {cap}
    /\ UNCHANGED <<seedVars, sentVars, games, balance, wagers>>

-----------------------------------------------------------------------------
(* Bets                                                                     *)

(* A key that has a game answers with it, or refuses another request.       *)
MayBet(m) ==
    /\ ~IsPlaced(m.key) /\ balance >= Stake
    /\ m.seed = current /\ current < MaxSeeds

(* SLIP: the game keeps the seed for the player's next one.                 *)
LendSeed == UNCHANGED <<current, draws>>

(* The seed is used and the player's next one inserted.                     *)
SpendSeed ==
    /\ current' = current + 1
    /\ \E d \in Draws : draws' = [draws EXCEPT ![current + 1] = d]

InPlay(game) == \E k \in Keys : IsActive(k) /\ kind[k] = game

(* The seed has fixed the field, which the row holds from here on, as it    *)
(* holds the largest payout.                                                *)
Deal(m, field) ==
    /\ enabled /\ MayBet(m) /\ ~InPlay(kind[m.key])
    /\ games' = [games EXCEPT ![m.key] =
                    [status |-> "active", seed |-> m.seed, field |-> field, turned |-> <<>>,
                     cap |-> cap, paid |-> 0, by |-> "none"]]
    /\ balance' = balance - Stake
    /\ SpendSeed
    /\ UNCHANGED <<shown, sentVars, wagers, enabled, cap>>

(* minePositions, trapLayout and cartLane, of one mine, trap or cart.       *)
MinePositions(d) == {d}
TrapLayout(d)    == [floor \in 0..1 |-> {(d + floor) % 2}]
CartLane(d)      == d

StartMines(m)   == kind[m.key] = "mines" /\ Deal(m, MinePositions(draws[m.seed]))
StartTower(m)   == kind[m.key] = "tower" /\ Deal(m, TrapLayout(draws[m.seed]))
StartChicken(m) == kind[m.key] = "chicken" /\ Deal(m, CartLane(draws[m.seed]))
StartIce(m)     == kind[m.key] = "ice_fishing" /\ Deal(m, MinePositions(draws[m.seed]))

(* A bet that is over at once.  A win pays double.                          *)
PlayAtOnce(m, wins) ==
    /\ MayBet(m)
    /\ LET pay == IF wins THEN 2 * Stake ELSE 0
       IN  /\ games' = [games EXCEPT ![m.key] =
                           [status |-> "settled", seed |-> m.seed, field |-> {}, turned |-> <<>>,
                            cap |-> cap, paid |-> pay, by |-> "house"]]
           /\ balance' = balance - Stake + pay
    /\ SpendSeed
    /\ shown' = shown \cup {m.seed}
    /\ wagers' = [wagers EXCEPT ![m.key] = @ + 1]
    /\ UNCHANGED <<sentVars, enabled, cap>>

(* A stake that could win more than the largest payout is refused, not      *)
(* capped; the upgrader has neither switch nor largest payout.              *)
Instant(m, wins) == enabled /\ 2 * Stake <= cap /\ PlayAtOnce(m, wins)

RollDice(m)   == kind[m.key] = "dice" /\ Instant(m, draws[m.seed] = 0)
SpinSlots(m)  == kind[m.key] = "slots" /\ Instant(m, draws[m.seed] = 1)
DropPlinko(m) == kind[m.key] = "plinko" /\ Instant(m, draws[m.seed] = 2)
RunDerby(m)   == kind[m.key] = "derby" /\ Instant(m, draws[m.seed] # 0)
Upgrade(m)    == kind[m.key] = "upgrader" /\ PlayAtOnce(m, draws[m.seed] # 1)

Bet(m) ==
    \/ StartMines(m) \/ StartTower(m) \/ StartChicken(m) \/ StartIce(m)
    \/ RollDice(m) \/ SpinSlots(m) \/ DropPlinko(m) \/ RunDerby(m) \/ Upgrade(m)

-----------------------------------------------------------------------------
(* Games in play, whether or not the games are still open                   *)

(* SLIP: a press is taken for the game as it stands.                        *)
NotStale(p) == TRUE

(* STALE_ACTION.                                                            *)
IsTimely(p) == p.count = Len(games[p.key].turned)

(* Pays, shows the seed and counts the wager.                               *)
Settle(k, g, by) ==
    LET pay == IF by = "lost" THEN 0 ELSE Offer(g)
    IN  /\ games' = [games EXCEPT ![k] = [g EXCEPT !.status = "settled", !.paid = pay, !.by = by]]
        /\ balance' = balance + pay
        /\ shown' = shown \cup {g.seed}
        /\ wagers' = [wagers EXCEPT ![k] = @ + 1]
        /\ UNCHANGED <<current, draws>>

(* A tile is turned.  When nothing is left to risk the game cashes out.     *)
Turn(p, isHit) ==
    LET k == p.key
        g == games[k]
        next == [g EXCEPT !.turned = Append(@, p.tile)]
        isOver == Len(next.turned) = Steps \/ Offer(next) >= g.cap
    IN  /\ IF isHit THEN Settle(k, g, "lost")
           ELSE IF isOver THEN Settle(k, next, "house")
           ELSE /\ games' = [games EXCEPT ![k] = next]
                /\ UNCHANGED <<seedVars, balance, wagers>>
        /\ UNCHANGED <<sentVars, enabled, cap>>

MayTurn(p, game) == IsActive(p.key) /\ kind[p.key] = game /\ p.tile # CashOut /\ IsTimely(p)

IsTurned(p) == p.tile \in ToSet(games[p.key].turned)
Field(p)    == games[p.key].field

RevealTile(p) == MayTurn(p, "mines") /\ ~IsTurned(p) /\ Turn(p, p.tile \in Field(p))
DrillHole(p)  == MayTurn(p, "ice_fishing") /\ ~IsTurned(p) /\ Turn(p, p.tile \in Field(p))
PickTile(p)   == MayTurn(p, "tower") /\ p.tile < 2 /\ Turn(p, p.tile \in Field(p)[p.count])
StepOut(p)    == MayTurn(p, "chicken") /\ Turn(p, Field(p) = Len(games[p.key].turned))

Take(p, game) ==
    /\ IsActive(p.key) /\ kind[p.key] = game /\ p.tile = CashOut /\ IsTimely(p)
    /\ Settle(p.key, games[p.key], "player")
    /\ UNCHANGED <<sentVars, enabled, cap>>

CashOutMines(p)   == Take(p, "mines")
CashOutTower(p)   == Take(p, "tower")
CashOutChicken(p) == Take(p, "chicken")
PullOut(p)        == Take(p, "ice_fishing")

Play(p) ==
    \/ RevealTile(p) \/ DrillHole(p) \/ PickTile(p) \/ StepOut(p)
    \/ CashOutMines(p) \/ CashOutTower(p) \/ CashOutChicken(p) \/ PullOut(p)

Next ==
    \/ FetchCommitment
    \/ \E k \in Keys : Ask(k) \/ PressCashOut(k) \/ \E t \in Taps : Press(k, t)
    \/ Configure
    \/ \E m \in asked : Bet(m)
    \/ \E p \in pressed : Play(p)

Spec == Init /\ [][Next]_vars

-----------------------------------------------------------------------------
(* Properties                                                               *)

Placed == {k \in Keys : IsPlaced(k)}

(* Mines and holes, a tower's traps, a lane.                                *)
Fields == (SUBSET Nat) \cup [0..1 -> SUBSET Nat] \cup Nat

Rows == [status : {"active", "settled"}, seed : 1..MaxSeeds, field : Fields,
         turned : Seq(Taps), cap : Nat, paid : Nat, by : {"none", "house", "player", "lost"}]

Presses == [key : Keys, tile : Taps, count : Nat]
           \cup [key : Keys, tile : {CashOut}, count : Nat, offer : Nat]

TypeOK ==
    /\ kind \in Sittings
    /\ current \in 0..MaxSeeds /\ known \in 0..MaxSeeds /\ shown \subseteq 1..MaxSeeds
    /\ draws \in [1..MaxSeeds -> Draws \cup {NoDraw}]
    /\ \A s \in 1..MaxSeeds : s <= current => draws[s] \in Draws
    /\ asked \subseteq [key : Keys, seed : 1..MaxSeeds] /\ pressed \subseteq Presses
    /\ games \in [Keys -> Rows \cup {NoGame}]
    /\ balance \in Nat /\ wagers \in [Keys -> Nat]
    /\ enabled \in BOOLEAN /\ cap \in Caps

(* The seed a player is asked to bet against has decided nothing yet and is *)
(* shown to nobody, nor is the seed of a game in play; every game has the   *)
(* seed its bet named, and no two games share one.                          *)
SeedsStaySecret ==
    /\ current \notin shown
    /\ \A k \in Placed :
        /\ IsActive(k) => games[k].seed \notin shown
        /\ games[k].seed # current
        /\ \E m \in asked : m.key = k /\ m.seed = games[k].seed
        /\ \A j \in Placed : j # k => games[j].seed # games[k].seed

(* A tile is turned only by a press the player made when the ones before it *)
(* had been turned, and a cash-out pays the offer the player pressed on,    *)
(* whatever was delayed or repeated and whatever operators changed.         *)
PlayedAsPressed ==
    \A k \in Placed :
        /\ \A i \in DOMAIN games[k].turned :
            \E p \in pressed : p.key = k /\ p.tile = games[k].turned[i] /\ p.count = i - 1
        /\ games[k].by = "player" =>
            \E p \in pressed : p.key = k /\ p.tile = CashOut /\ p.offer = games[k].paid

(* The wallet has paid each game's stake once and received what the game    *)
(* paid once, and a game is counted as a wager once, when it is over.       *)
SettledOnce ==
    /\ balance = Opening + MapThenSumSet(LAMBDA k : games[k].paid - Stake, Placed)
    /\ \A k \in Keys : wagers[k] = IF IsPlaced(k) /\ ~IsActive(k) THEN 1 ELSE 0
=============================================================================
