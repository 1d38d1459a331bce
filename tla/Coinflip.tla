------------------------------- MODULE Coinflip -------------------------------
(***************************************************************************)
(* The coinflip board: open games that hold their host's stake, and the    *)
(* one transaction that takes the other stake, flips the coin and pays.    *)
(*                                                                         *)
(* A game expires by two clocks, the process's for a player who takes it   *)
(* and the database's for the sweeper, and they do not agree.              *)
(***************************************************************************)
EXTENDS Integers, FiniteSets, FiniteSetsExt

CONSTANTS
    Players, Games,
    Stakes, Opening,
    Rakes,          \* bound: the values the fee is set to, in basis points
    MaxOpen,        \* MAX_OPEN_GAMES_PER_USER
    MaxFaults       \* bound: sweeps that fail half way

Nobody == "nobody"
Sides == {"heads", "tails"}

(* What the parameters are.                                                 *)
ConstantsOK ==
    /\ Nobody \notin Players
    /\ Stakes \subseteq Nat \ {0} /\ Opening \in Nat /\ Rakes \subseteq 0..1000 /\ Rakes # {}
    /\ MaxOpen \in Nat \ {0} /\ MaxFaults \in Nat

VARIABLES
    game,           \* coinflip_games, with the payout quoted on the board
    wallet, house,
    wagered,        \* what each player's quests, levels and referrals count
    rakeBps, enabled,
    lateHere,       \* games whose expires_at the process's clock has passed
    lateThere,      \* games whose expires_at the database's clock has passed
    listed,         \* the lapsed games the sweeper has read and not come to
    faults

world == <<rakeBps, enabled, lateHere, lateThere, faults>>
vars == <<game, wallet, house, wagered, rakeBps, enabled, lateHere, lateThere, listed, faults>>

NoGame == [status |-> "none", host |-> Nobody, side |-> "heads", stake |-> 0, rake |-> 0,
           quoted |-> 0, opponent |-> Nobody, winner |-> Nobody, payout |-> 0]

Init ==
    /\ game = [g \in Games |-> NoGame]
    /\ wallet = [p \in Players |-> Opening] /\ house = 0
    /\ wagered = [p \in Players |-> 0]
    /\ rakeBps \in Rakes /\ enabled = TRUE
    /\ lateHere = {} /\ lateThere = {} /\ listed = {} /\ faults = 0

-----------------------------------------------------------------------------
PotRake(stake, bps) == (2 * stake * bps) \div 10000     \* splitPot

OpenOf(p) == {g \in Games : game[g].status = "open" /\ game[g].host = p}

(* SLIP: a stake counts as wagered when it is put up.                       *)
WageredWhenOpened(p, stake) == [wagered EXCEPT ![p] = @ + stake]

WageredAtOpening(p, stake) == wagered

Create(g, p, side, stake) ==
    /\ enabled /\ game[g].status = "none"
    /\ Cardinality(OpenOf(p)) < MaxOpen /\ wallet[p] >= stake
    /\ game' = [game EXCEPT ![g] = [NoGame EXCEPT !.status = "open", !.host = p, !.side = side,
                                       !.stake = stake, !.rake = rakeBps,
                                       !.quoted = 2 * stake - PotRake(stake, rakeBps)]]
    /\ wallet' = [wallet EXCEPT ![p] = @ - stake]
    /\ wagered' = WageredAtOpening(p, stake)
    /\ UNCHANGED <<house, world, listed>>

(* SLIP: the fee is looked up when the game is settled.                     *)
FeeNow(G) == rakeBps

FeeOf(G) == G.rake

(* The row of a game p has taken, when the coin has landed on result.       *)
Flipped(G, p, result) ==
    [G EXCEPT !.status = "settled", !.opponent = p,
              !.winner = IF result = G.side THEN G.host ELSE p,
              !.payout = 2 * G.stake - PotRake(G.stake, FeeOf(G))]

Join(g, p) ==
    LET G == game[g]
    IN  /\ enabled /\ G.status = "open" /\ g \notin lateHere
        /\ G.host # p /\ wallet[p] >= G.stake
        /\ \E result \in Sides :
              LET F == Flipped(G, p, result)
              IN  /\ game' = [game EXCEPT ![g] = F]
                  /\ wallet' = [q \in Players |->
                        wallet[q] - (IF q = p THEN G.stake ELSE 0)
                                  + (IF q = F.winner THEN F.payout ELSE 0)]
                  /\ house' = house + 2 * G.stake - F.payout
        /\ wagered' = [q \in Players |-> wagered[q] + (IF q \in {p, G.host} THEN G.stake ELSE 0)]
        /\ UNCHANGED <<world, listed>>

(* SLIP: the host's stake goes back whatever has become of the game.        *)
RefundableAny(g) == game[g].status # "cancelled"

(* The guard of the UPDATE that closes an open game.                        *)
Refundable(g) == game[g].status = "open"

(* refundOpenGame                                                           *)
Refund(g) ==
    /\ Refundable(g)
    /\ game' = [game EXCEPT ![g].status = "cancelled"]
    /\ wallet' = [wallet EXCEPT ![game[g].host] = @ + game[g].stake]
    /\ UNCHANGED <<house, wagered, world>>

Cancel(g) == enabled /\ game[g].status # "none" /\ Refund(g) /\ UNCHANGED listed

-----------------------------------------------------------------------------
(* SLIP: the sweeper looks for what the process's clock calls late, and     *)
(* only while nobody has taken the game off the board.                      *)
LapsedHere == {g \in Games : game[g].status = "open" /\ g \in lateHere /\ g \notin lateThere}

Lapsed == {g \in Games : game[g].status = "open" /\ g \in lateThere}

(* sweepLapsed: the games are read first, then each is taken under its lock.*)
SweepReads ==
    /\ enabled /\ listed = {} /\ listed' = Lapsed /\ listed' # {}
    /\ UNCHANGED <<game, wallet, house, wagered, world>>

SweepOne(g) ==
    /\ g \in listed /\ listed' = listed \ {g}
    /\ \/ Refund(g)
       \/ ~Refundable(g) /\ UNCHANGED <<game, wallet, house, wagered, world>>

(* A transaction fails, and the rest of the sweep is given up.              *)
SweepFails ==
    /\ listed # {} /\ faults < MaxFaults /\ faults' = faults + 1 /\ listed' = {}
    /\ UNCHANGED <<game, wallet, house, wagered, rakeBps, enabled, lateHere, lateThere>>

-----------------------------------------------------------------------------
LateHere(g) ==
    /\ game[g].status = "open" /\ g \notin lateHere /\ lateHere' = lateHere \cup {g}
    /\ UNCHANGED <<game, wallet, house, wagered, rakeBps, enabled, lateThere, listed, faults>>

LateThere(g) ==
    /\ game[g].status = "open" /\ g \notin lateThere /\ lateThere' = lateThere \cup {g}
    /\ UNCHANGED <<game, wallet, house, wagered, rakeBps, enabled, lateHere, listed, faults>>

SetFee(bps) ==
    /\ rakeBps # bps /\ rakeBps' = bps
    /\ UNCHANGED <<game, wallet, house, wagered, enabled, lateHere, lateThere, listed, faults>>

Switch(on) ==
    /\ enabled # on /\ enabled' = on
    /\ UNCHANGED <<game, wallet, house, wagered, rakeBps, lateHere, lateThere, listed, faults>>

-----------------------------------------------------------------------------
PlayerNext(g) ==
    \/ \E p \in Players : Join(g, p)
    \/ \E p \in Players, side \in Sides, stake \in Stakes : Create(g, p, side, stake)
    \/ Cancel(g)

SweeperNext == SweepReads \/ SweepFails \/ \E g \in Games : SweepOne(g)

Next ==
    \/ \E g \in Games : PlayerNext(g) \/ LateHere(g) \/ LateThere(g)
    \/ SweeperNext
    \/ \E bps \in Rakes : SetFee(bps)
    \/ \E on \in BOOLEAN : Switch(on)

Spec == Init /\ [][Next]_vars

-----------------------------------------------------------------------------
(* Correctness                                                              *)

(* The columns of a game agree with its status.                             *)
TypeOK ==
    /\ \A g \in Games :
          LET G == game[g]
          IN  /\ G.status \in {"none", "open", "settled", "cancelled"}
              /\ G.status = "none" <=> G.host = Nobody
              /\ G.status = "settled" <=> G.opponent # Nobody
              /\ G.status = "settled" <=> G.winner \in {G.host, G.opponent} \ {Nobody}
    /\ wallet \in [Players -> Nat] /\ house \in Nat /\ wagered \in [Players -> Nat]
    /\ listed \subseteq Games

Held(g) == IF game[g].status = "open" THEN game[g].stake ELSE 0

(* Wallets, the stakes of open games and the house's fees are all the money *)
(* there is: a taking, a cancel and a sweep that race for one game take and *)
(* return its stakes once.                                                  *)
StakesAddUp ==
    MapThenSumSet(LAMBDA p : wallet[p], Players) + MapThenSumSet(Held, Games) + house
        = Cardinality(Players) * Opening

(* A stake counts as a wager if and only if its coin was flipped: opening   *)
(* and cancelling games farms nothing.                                      *)
OnlyFlipsCount ==
    \A p \in Players :
        wagered[p] = MapThenSumSet(LAMBDA g : game[g].stake,
            {g \in Games : game[g].status = "settled" /\ p \in {game[g].host, game[g].opponent}})

(* A game pays what the board quoted when it was opened, however often the  *)
(* fee is changed before somebody takes it.                                 *)
QuotedIsPaid == \A g \in Games : game[g].status = "settled" => game[g].payout = game[g].quoted

=============================================================================
