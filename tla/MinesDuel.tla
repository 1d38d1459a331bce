------------------------------ MODULE MinesDuel ------------------------------
(***************************************************************************)
(* Mines duels: two players turn the tiles of one hidden field.            *)
(*                                                                         *)
(* Every request is one SERIALIZABLE transaction that holds the game's     *)
(* row, and so one step.  The clock of a game and the time-to-live of an   *)
(* open one run out in steps of their own: whoever touches the row next,   *)
(* a tile, a reader or the sweeper, finds them run out.                    *)
(***************************************************************************)
EXTENDS Integers, FiniteSets, FiniteSetsExt

CONSTANTS
    Players, Games,
    Tiles, MineCount,
    MaxActive,          \* MAX_ACTIVE_GAMES_PER_USER
    Stake, Opening,
    Rakes,              \* bound: the values the fee is set to, in basis points
    MaxFaults           \* bound: sweeps that fail half way

Nobody == "nobody"
Roles == {"host", "opponent"}
Other(r) == IF r = "host" THEN "opponent" ELSE "host"

(* What the parameters are.                                                 *)
ConstantsOK ==
    /\ Nobody \notin Players
    /\ IsFiniteSet(Tiles) /\ MineCount \in 1..(Cardinality(Tiles) - 1)
    /\ Stake \in Nat \ {0} /\ Opening \in Nat /\ Rakes \subseteq 0..1000 /\ Rakes # {}
    /\ MaxActive \in Nat \ {0} /\ MaxFaults \in Nat

VARIABLES
    game,       \* mines_duel_games
    lapsed,     \* games whose expires_at has passed
    due,        \* games whose deadline_at has passed
    wallet, house,
    counted,    \* the wagers recorded for each player
    rakeBps,    \* the fee as it is set now
    enabled,    \* minesDuelEnabled
    listed,     \* what the sweeper has read and not yet come to
    faults

money == <<wallet, house, counted>>
world == <<lapsed, due, rakeBps, enabled, faults>>
vars == <<game, lapsed, due, wallet, house, counted, rakeBps, enabled, listed, faults>>

Both(x) == [r \in Roles |-> x]

NoGame == [status |-> "none", host |-> Nobody, opponent |-> Nobody, rake |-> 0, quoted |-> 0,
           field |-> {}, picks |-> Both({}), state |-> Both("playing"), score |-> Both(-1),
           outcome |-> "none", paid |-> Both(0)]

Init ==
    /\ game = [g \in Games |-> NoGame]
    /\ lapsed = {} /\ due = {}
    /\ wallet = [p \in Players |-> Opening] /\ house = 0
    /\ counted = [p \in Players |-> 0]
    /\ rakeBps \in Rakes /\ enabled = TRUE
    /\ listed = {} /\ faults = 0

-----------------------------------------------------------------------------
(* The lobby                                                                *)

PotRake(bps) == (2 * Stake * bps) \div 10000        \* splitPot
HalfRake(bps) == (Stake * bps) \div 10000           \* splitDraw

(* SLIP: only the games a player has opened are counted.                    *)
ActiveOpened(p) ==
    {g \in Games : game[g].status \in {"open", "playing"} /\ game[g].host = p}

Active(p) ==
    {g \in Games : /\ game[g].status \in {"open", "playing"}
                   /\ p \in {game[g].host, game[g].opponent}}

HasRoom(p) == Cardinality(Active(p)) < MaxActive

Create(g, p) ==
    /\ enabled /\ game[g].status = "none" /\ HasRoom(p) /\ wallet[p] >= Stake
    /\ game' = [game EXCEPT ![g] = [NoGame EXCEPT !.status = "open", !.host = p, !.rake = rakeBps,
                                                  !.quoted = 2 * Stake - PotRake(rakeBps)]]
    /\ wallet' = [wallet EXCEPT ![p] = @ - Stake]
    /\ UNCHANGED <<house, counted, world, listed>>

Join(g, p) ==
    /\ enabled /\ HasRoom(p) /\ game[g].status = "open" /\ g \notin lapsed
    /\ game[g].host # p /\ wallet[p] >= Stake
    /\ \E field \in kSubset(MineCount, Tiles) :
          game' = [game EXCEPT ![g].status = "playing", ![g].opponent = p, ![g].field = field]
    /\ wallet' = [wallet EXCEPT ![p] = @ - Stake]
    /\ UNCHANGED <<house, counted, world, listed>>

(* SLIP: the row is closed whatever it has become.                          *)
RefundableAny(g) == game[g].status \in {"open", "playing"}

(* The guard of the UPDATE that closes an open game.                        *)
Refundable(g) == game[g].status = "open"

(* refundOpenGame                                                           *)
Refund(g) ==
    /\ game' = [game EXCEPT ![g].status = "cancelled"]
    /\ wallet' = [wallet EXCEPT ![game[g].host] = @ + Stake]
    /\ UNCHANGED <<house, counted, world>>

Cancel(g) == Refundable(g) /\ Refund(g) /\ UNCHANGED listed

-----------------------------------------------------------------------------
(* The settlement                                                           *)

(* SLIP: a run that hit a mine keeps what it had.                           *)
ScoreKept(G, r) == Cardinality(G.picks[r] \ G.field)

ScoreOf(G, r) == IF G.state[r] = "busted" THEN 0 ELSE Cardinality(G.picks[r] \ G.field)

Decide(G) ==
    IF ScoreOf(G, "host") > ScoreOf(G, "opponent") THEN "host"
    ELSE IF ScoreOf(G, "opponent") > ScoreOf(G, "host") THEN "opponent" ELSE "draw"

(* SLIP: the fee is the one that is set now.                                *)
FeeNow(G) == rakeBps

FeeOf(G) == G.rake

(* SLIP: a draw hands back both stakes whole.                               *)
DrawShareWhole(G) == Stake

DrawShare(G) == Stake - HalfRake(FeeOf(G))

(* settleLocked: the row as it is closed, with what each side is paid.      *)
Settled(G) ==
    LET outcome == Decide(G)
    IN  [G EXCEPT !.status = "settled", !.outcome = outcome,
                  !.state = [r \in Roles |-> IF G.state[r] = "playing" THEN "locked" ELSE G.state[r]],
                  !.score = [r \in Roles |-> ScoreOf(G, r)],
                  !.paid = [r \in Roles |-> IF outcome = "draw" THEN DrawShare(G)
                                            ELSE IF outcome = r THEN 2 * Stake - PotRake(FeeOf(G))
                                            ELSE 0]]

PlayerOf(G, r) == IF r = "host" THEN G.host ELSE G.opponent

(* The row and the money of a settlement; wagers count where there was a    *)
(* rake, and in decided games.                                              *)
Pay(g, G) ==
    LET S == Settled(G)
        rake == 2 * Stake - S.paid["host"] - S.paid["opponent"]
        Of(p, x, y) == IF p = G.host THEN x ELSE IF p = G.opponent THEN y ELSE 0
    IN  /\ game' = [game EXCEPT ![g] = S]
        /\ wallet' = [p \in Players |-> wallet[p] + Of(p, S.paid["host"], S.paid["opponent"])]
        /\ house' = house + rake
        /\ counted' = IF S.outcome # "draw" \/ HalfRake(FeeOf(G)) > 0
                      THEN [p \in Players |-> counted[p] + Of(p, Stake, Stake)] ELSE counted
        /\ UNCHANGED world

-----------------------------------------------------------------------------
(* Playing                                                                  *)

(* SLIP: a run that is over is told from a row read before.                 *)
MayPlayOn(g, r) == game[g].status = "playing" /\ g \notin due

(* The checks of pick and lock behind the clock's.                          *)
MayPlay(g, r) ==
    game[g].status = "playing" /\ g \notin due /\ game[g].state[r] = "playing"

(* finishRun: the game is settled when this was the last run.               *)
Finish(g, r, G) ==
    IF G.state[Other(r)] # "playing" THEN Pay(g, G)
    ELSE game' = [game EXCEPT ![g] = G] /\ UNCHANGED <<money, world>>

SafeTiles == Cardinality(Tiles) - MineCount

Pick(g, r, tile) ==
    /\ MayPlay(g, r) /\ tile \notin game[g].picks[r]
    /\ LET G == [game[g] EXCEPT !.picks[r] = @ \cup {tile}]
       IN  IF tile \in G.field
           THEN Finish(g, r, [G EXCEPT !.state[r] = "busted", !.score[r] = 0])
           ELSE IF Cardinality(G.picks[r]) >= SafeTiles
           THEN Finish(g, r, [G EXCEPT !.state[r] = "locked", !.score[r] = Cardinality(G.picks[r])])
           ELSE game' = [game EXCEPT ![g] = G] /\ UNCHANGED <<money, world>>
    /\ UNCHANGED listed

Lock(g, r) ==
    /\ MayPlay(g, r)
    /\ LET score == Cardinality(game[g].picks[r] \ game[g].field)
       IN  /\ score >= 1
           /\ Finish(g, r, [game[g] EXCEPT !.state[r] = "locked", !.score[r] = score])
    /\ UNCHANGED listed

(* settleIfDue, for whoever looks; a pick or a lock that comes too late     *)
(* settles the game as well and is not counted.                             *)
SettleIfDue(g) == game[g].status = "playing" /\ g \in due /\ Pay(g, game[g])

Look(g) == SettleIfDue(g) /\ UNCHANGED listed

-----------------------------------------------------------------------------
(* The sweeper                                                              *)

(* SLIP: the sweeper stands still while the game is switched off, and games *)
(* in play are left to their players.                                       *)
LapsedOnly == {g \in Games : game[g].status = "open" /\ g \in lapsed}

Sweepable ==
    {g \in Games : \/ game[g].status = "playing" /\ g \in due
                   \/ game[g].status = "open" /\ g \in lapsed}

SweepReads ==
    /\ listed = {} /\ listed' = Sweepable /\ listed' # {}
    /\ UNCHANGED <<game, money, world>>

SweepOne(g) ==
    /\ g \in listed /\ listed' = listed \ {g}
    /\ \/ SettleIfDue(g)
       \/ Refundable(g) /\ Refund(g)
       \/ game[g].status \in {"settled", "cancelled"} /\ UNCHANGED <<game, money, world>>

(* A transaction fails: the sweep is given up and begun again later.        *)
SweepFails ==
    /\ listed # {} /\ faults < MaxFaults
    /\ listed' = {} /\ faults' = faults + 1
    /\ UNCHANGED <<game, money, lapsed, due, rakeBps, enabled>>

-----------------------------------------------------------------------------
(* Time and the settings                                                    *)

Lapse(g) ==
    /\ game[g].status = "open" /\ g \notin lapsed /\ lapsed' = lapsed \cup {g}
    /\ UNCHANGED <<game, money, due, rakeBps, enabled, listed, faults>>

ClockRunsOut(g) ==
    /\ game[g].status = "playing" /\ g \notin due /\ due' = due \cup {g}
    /\ UNCHANGED <<game, money, lapsed, rakeBps, enabled, listed, faults>>

SetFee(bps) ==
    /\ rakeBps # bps /\ rakeBps' = bps
    /\ UNCHANGED <<game, money, lapsed, due, enabled, listed, faults>>

Switch ==
    /\ enabled' = ~enabled
    /\ UNCHANGED <<game, money, lapsed, due, rakeBps, listed, faults>>

-----------------------------------------------------------------------------
PlayerNext(g) ==
    \/ \E p \in Players : Create(g, p) \/ Join(g, p)
    \/ Cancel(g) \/ Look(g)
    \/ \E r \in Roles : Lock(g, r) \/ \E tile \in Tiles : Pick(g, r, tile)

SweeperNext == SweepReads \/ SweepFails \/ \E g \in Games : SweepOne(g)

Next ==
    \/ \E g \in Games : PlayerNext(g) \/ Lapse(g) \/ ClockRunsOut(g)
    \/ SweeperNext
    \/ \E bps \in Rakes : SetFee(bps)
    \/ Switch

Spec == Init /\ [][Next]_vars

-----------------------------------------------------------------------------
(* What a player is shown                                                   *)

(* SLIP: the other's score is shown as soon as it stands.                   *)
ShownEarly(G, r) ==
    [own |-> [t \in G.picks[r] |-> t \in G.field], state |-> G.state[r],
     otherDone |-> G.state[Other(r)] # "playing", otherScore |-> G.score[Other(r)]]

(* gameView while the game is played: one's own tiles, and whether the      *)
(* other has finished.                                                      *)
Shown(G, r) ==
    [own |-> [t \in G.picks[r] |-> t \in G.field], state |-> G.state[r],
     otherDone |-> G.state[Other(r)] # "playing"]

-----------------------------------------------------------------------------
(* Correctness                                                              *)

(* The types of the columns and the books.                                  *)
TypeOK ==
    /\ \A g \in Games :
          /\ game[g].status \in {"none", "open", "playing", "settled", "cancelled"}
          /\ game[g].host \in Players \cup {Nobody} /\ game[g].opponent \in Players \cup {Nobody}
          /\ game[g].status \in {"playing", "settled"} => game[g].host # game[g].opponent
          /\ game[g].picks \in [Roles -> SUBSET Tiles]
          /\ game[g].state \in [Roles -> {"playing", "locked", "busted"}]
          /\ \A r \in Roles : Cardinality(game[g].picks[r] \cap game[g].field)
                              = (IF game[g].state[r] = "busted" THEN 1 ELSE 0)
    /\ wallet \in [Players -> Nat] /\ house \in Nat /\ counted \in [Players -> Nat]
    /\ listed \subseteq Games

(* The stakes of open and running games, the wallets and the house's fees   *)
(* are all the money there is: nothing is paid or refunded twice, whoever   *)
(* of the players, the readers and the sweeper comes first, and odd stakes  *)
(* leave nothing over.                                                      *)
Held(g) == IF game[g].status = "open" THEN Stake
           ELSE IF game[g].status = "playing" THEN 2 * Stake ELSE 0

StakesAddUp ==
    MapThenSumSet(LAMBDA p : wallet[p], Players)
        + MapThenSumSet(Held, Games) + house = Cardinality(Players) * Opening

(* A decided game pays what was quoted before anybody staked, however often *)
(* the fee is set in between.                                               *)
QuotedIsPaid ==
    \A g \in Games : game[g].outcome \in Roles => game[g].paid[game[g].outcome] = game[g].quoted

(* A score that stands when a run is over is the one the game is decided    *)
(* by: neither the other's play nor the settlement changes it.              *)
ScoreStands ==
    \A g \in Games, r \in Roles :
        game[g].score[r] # -1 => game'[g].score[r] = game[g].score[r]

(* A player who has games running stakes in no more than the limit, as host *)
(* and as opponent together.                                                *)
FewAtOnce == \A p \in Players :
    Cardinality({g \in Games : /\ game[g].status \in {"open", "playing"}
                               /\ p \in {game[g].host, game[g].opponent}}) <= MaxActive

(* While a game is played a player is shown nothing that another field, or  *)
(* another run of the opponent's, would have shown differently: only that   *)
(* the opponent has finished.                                               *)
Runs(field) ==
    {[picks |-> s, state |-> "busted", score |-> 0] :
        s \in {x \in SUBSET Tiles : Cardinality(x \cap field) = 1}}
    \cup {[picks |-> s, state |-> "locked", score |-> Cardinality(s)] :
             s \in (SUBSET (Tiles \ field)) \ {{}}}

NothingGivenAway ==
    \A g \in Games, r \in Roles :
        game[g].status = "playing" /\ game[g].state[Other(r)] # "playing" =>
            \A field \in kSubset(MineCount, Tiles) :
                field \cap game[g].picks[r] = game[g].field \cap game[g].picks[r] =>
                    \A run \in Runs(field) :
                        Shown([game[g] EXCEPT !.field = field, !.picks[Other(r)] = run.picks,
                                              !.state[Other(r)] = run.state,
                                              !.score[Other(r)] = run.score], r)
                        = Shown(game[g], r)

(* While there is a fee, wagered volume is never to be had for nothing:     *)
(* draws count as decided games do, and cost as much.                       *)
VolumeCostsFees == 0 \notin Rakes /\ (\E p \in Players : counted[p] > 0) => house > 0

=============================================================================
