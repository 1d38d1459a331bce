------------------------------- MODULE Battles -------------------------------
(***************************************************************************)
(* Case battles: lobbies whose seats are bought, left and bought again,    *)
(* and the one transaction of the last seat that rolls every reel and pays *)
(* the pot.  Every handler is one SERIALIZABLE transaction, so a step; one *)
(* that fails (an emptied crate, a suspended account) changes nothing.     *)
(* Crate prices are alike: a battle costs Stake.                           *)
(***************************************************************************)
EXTENDS Integers, FiniteSets, FiniteSetsExt, Functions

CONSTANTS
    Players, Battles,
    Shapes,         \* bound: the formats played, [teams, size]
    Drops,          \* bound: what all the reels of a seat may drop together
    Stake, Opening,
    MaxOpen,        \* MAX_OPEN_LOBBIES_PER_USER
    MaxTaken,       \* bound: seats that are bought
    MaxFaults       \* bound: sweeps that fail half way

Bot == "bot"

ConstantsOK ==
    /\ Bot \notin Players /\ Shapes \subseteq [teams : Nat \ {0}, size : Nat \ {0}]
    /\ Drops \subseteq Nat /\ {Stake, Opening, MaxOpen, MaxTaken, MaxFaults} \subseteq Nat

VARIABLES
    battle,         \* battles
    seats,          \* battle_players: who sits where, and by which stake
    wallet,
    refunded,       \* references of the ledger's battle_refund rows
    taken,          \* seats bought so far: the last stake_ref
    counted,        \* wager_events: the seats whose stakes were recorded
    opened,         \* opens that a crate's author is paid for
    enabled,        \* battlesEnabled
    listed,         \* lobbies the sweeper has read and not come to
    faults

vars == <<battle, seats, wallet, refunded, taken, counted, opened, enabled, listed, faults>>

NoSeats  == [s \in {} |-> 0]
NoBattle == [status |-> "none", host |-> Bot, shape |-> [teams |-> 1, size |-> 1], mode |-> "standard",
             bots |-> FALSE, expired |-> FALSE, pot |-> 0, total |-> NoSeats, payout |-> NoSeats]

Init ==
    /\ battle = [b \in Battles |-> NoBattle] /\ seats = [b \in Battles |-> NoSeats]
    /\ wallet = [p \in Players |-> Opening] /\ refunded = {} /\ taken = 0
    /\ counted = {} /\ opened = [b \in Battles |-> 0]
    /\ enabled = TRUE /\ listed = {} /\ faults = 0

-----------------------------------------------------------------------------
SeatsOf(shape) == 0..(shape.teams * shape.size - 1)
TeamForSeat(seat, size) == seat \div size

IsBot(S, seat) == S[seat].who = Bot
Humans(S) == {s \in DOMAIN S : ~IsBot(S, s)}

(* resolveBattle: who is paid what of the pot, when the reels of each seat  *)
(* have dropped total.                                                      *)
TeamTotal(total, size, team) ==
    MapThenSumSet(LAMBDA s : total[s], {s \in DOMAIN total : TeamForSeat(s, size) = team})

WinningSeats(total, size, mode) ==
    LET teamOf(s) == TeamTotal(total, size, TeamForSeat(s, size))
    IN  {s \in DOMAIN total : \A t \in DOMAIN total :
            IF mode = "crazy" THEN teamOf(s) <= teamOf(t) ELSE teamOf(s) >= teamOf(t)}

(* SLIP: a winning bot's part goes to the players on its side.              *)
SharersPeople(won, S) == won \cap Humans(S)

Sharers(won, S) == won

Payouts(S, total, size, mode) ==
    LET pot    == MapThenSumSet(LAMBDA s : total[s], DOMAIN total)
        won    == WinningSeats(total, size, mode)
        paid   == won \cap Humans(S)
        share  == pot \div Max({1, Cardinality(Sharers(won, S))})
        over   == pot - share * Cardinality(Sharers(won, S))
    IN  [s \in DOMAIN S |-> IF s \notin paid THEN 0
                            ELSE share + (IF s = Min(paid) THEN over ELSE 0)]

(* SLIP: a stake counts as wagered when the seat is bought.                 *)
CountedAtOnce(b, seat, p) == counted \cup {<<b, seat, p>>}

CountedOnTaking(b, seat, p) == counted

(* takeSeat: what a bought seat holds.                                      *)
Bought(p) == [who |-> p, staked |-> Stake, ref |-> taken + 1]

MayBuy(p) == wallet[p] >= Stake /\ taken < MaxTaken

(* settleBattle, with B's last seat taken: the seats are S.                 *)
Settle(b, B, S, purse) ==
    \E total \in [DOMAIN S -> Drops] :
        LET payout == Payouts(S, total, B.shape.size, B.mode)
        IN  /\ battle' = [battle EXCEPT ![b] =
                    [B EXCEPT !.status = "settled", !.total = total, !.payout = payout,
                              !.pot = MapThenSumSet(LAMBDA s : total[s], DOMAIN total)]]
            /\ wallet' = [q \in Players |->
                    purse[q] + MapThenSumSet(LAMBDA s : payout[s], {s \in DOMAIN S : S[s].who = q})]
            /\ counted' = counted \cup {<<b, s, S[s].who>> : s \in Humans(S)}
            /\ opened' = [opened EXCEPT ![b] = Cardinality(Humans(S))]

OpenOf(p) ==
    {b \in Battles : battle[b].status = "lobby" /\ battle[b].host = p /\ ~battle[b].expired}

(* POST /v1/battles                                                         *)
Create(b, p, shape, mode, bots) ==
    /\ enabled /\ battle[b].status = "none" /\ Cardinality(OpenOf(p)) < MaxOpen /\ MayBuy(p)
    /\ battle' = [battle EXCEPT ![b] = [NoBattle EXCEPT !.status = "lobby", !.host = p,
                                          !.shape = shape, !.mode = mode, !.bots = bots]]
    /\ seats' = [seats EXCEPT ![b] = [s \in {0} |-> Bought(p)]]
    /\ wallet' = [wallet EXCEPT ![p] = @ - Stake] /\ taken' = taken + 1
    /\ counted' = CountedOnTaking(b, 0, p)
    /\ UNCHANGED <<refunded, opened, enabled, listed, faults>>

(* POST /v1/battles/:code/join                                              *)
Join(b, p) ==
    LET B    == battle[b]
        free == SeatsOf(B.shape) \ DOMAIN seats[b]
        seat == Min(free)
        S    == [s \in DOMAIN seats[b] \cup {seat} |-> IF s = seat THEN Bought(p) ELSE seats[b][s]]
        paid == [wallet EXCEPT ![p] = @ - Stake]
    IN  /\ enabled /\ B.status = "lobby" /\ ~B.expired /\ free # {} /\ MayBuy(p)
        /\ \A s \in DOMAIN seats[b] : seats[b][s].who # p
        /\ seats' = [seats EXCEPT ![b] = S] /\ taken' = taken + 1
        /\ \/ free # {seat} /\ wallet' = paid /\ counted' = CountedOnTaking(b, seat, p)
              /\ UNCHANGED <<battle, opened>>
           \/ free = {seat} /\ Settle(b, B, S, paid)
        /\ UNCHANGED <<refunded, enabled, listed, faults>>

(* POST /v1/battles/:code/bots, by the host, who need not sit in it         *)
AddBots(b) ==
    LET B == battle[b]
        S == [s \in SeatsOf(B.shape) |-> IF s \in DOMAIN seats[b] THEN seats[b][s]
                                         ELSE [who |-> Bot, staked |-> 0, ref |-> 0]]
    IN  /\ enabled /\ B.bots /\ B.status = "lobby"
        /\ seats' = [seats EXCEPT ![b] = S] /\ Settle(b, B, S, wallet)
        /\ UNCHANGED <<refunded, taken, enabled, listed, faults>>

-----------------------------------------------------------------------------
(* SLIP: a refund is keyed on the battle and the seat.                      *)
SeatReference(b, seat, ref) == <<b, seat>>

RefundReference(b, seat, ref) == ref

(* Refunds to the given seats: all of them, or the transaction fails on the *)
(* ledger's key.                                                            *)
Refund(b, which) ==
    LET S    == seats[b]
        refs == {RefundReference(b, s, S[s].ref) : s \in which \cap Humans(S)}
    IN  /\ refs \cap refunded = {} /\ refunded' = refunded \cup refs
        /\ wallet' = [q \in Players |-> wallet[q] +
                MapThenSumSet(LAMBDA s : S[s].staked, {s \in which : S[s].who = q})]

(* POST /v1/battles/:code/leave; a host who leaves closes the lobby         *)
Leave(b, p) ==
    LET B    == battle[b]
        mine == {s \in DOMAIN seats[b] : seats[b][s].who = p}
        gone == IF B.host = p THEN DOMAIN seats[b] ELSE mine
    IN  /\ B.status = "lobby" /\ mine # {} /\ Refund(b, gone)
        /\ seats' = [seats EXCEPT ![b] = Restrict(@, DOMAIN @ \ gone)]
        /\ battle' = [battle EXCEPT ![b].status = IF B.host = p THEN "cancelled" ELSE @]
        /\ UNCHANGED <<taken, counted, opened, enabled, listed, faults>>

-----------------------------------------------------------------------------
(* SLIP: only what has expired is swept, and only while battles are on.     *)
DueIfOpen == {b \in Battles : enabled /\ battle[b].status = "lobby" /\ battle[b].expired}

Due == {b \in Battles : battle[b].status = "lobby" /\ (~enabled \/ battle[b].expired)}

(* sweepLobbies: what is due is read, then each lobby cancelled under its   *)
(* lock, whatever has changed meanwhile.                                    *)
SweepReads ==
    /\ listed = {} /\ listed' = Due /\ listed' # {}
    /\ UNCHANGED <<battle, seats, wallet, refunded, taken, counted, opened, enabled, faults>>

(* SLIP: the status is trusted as it was read.                              *)
CancellableAsRead(b) == battle[b].status # "cancelled"

Cancellable(b) == battle[b].status = "lobby"

CancelLobby(b) ==
    /\ b \in listed /\ listed' = listed \ {b}
    /\ \/ /\ Cancellable(b) /\ Refund(b, DOMAIN seats[b])
          /\ battle' = [battle EXCEPT ![b].status = "cancelled"]
       \/ ~Cancellable(b) /\ UNCHANGED <<battle, wallet, refunded>>
    /\ UNCHANGED <<seats, taken, counted, opened, enabled, faults>>

(* A transaction fails, and the rest of the sweep is given up.              *)
SweepFails ==
    /\ listed # {} /\ faults < MaxFaults /\ faults' = faults + 1 /\ listed' = {}
    /\ UNCHANGED <<battle, seats, wallet, refunded, taken, counted, opened, enabled>>

-----------------------------------------------------------------------------
Expire(b) ==
    /\ battle[b].status = "lobby" /\ ~battle[b].expired
    /\ battle' = [battle EXCEPT ![b].expired = TRUE]
    /\ UNCHANGED <<seats, wallet, refunded, taken, counted, opened, enabled, listed, faults>>

Switch(on) ==
    /\ enabled # on /\ enabled' = on
    /\ UNCHANGED <<battle, seats, wallet, refunded, taken, counted, opened, listed, faults>>

PlayerNext(b, p) ==
    \/ \E shape \in Shapes, mode \in {"standard", "crazy"}, bots \in BOOLEAN :
            Create(b, p, shape, mode, bots)
    \/ Join(b, p) \/ Leave(b, p)

Next ==
    \/ \E b \in Battles, p \in Players : PlayerNext(b, p)
    \/ \E b \in Battles : AddBots(b) \/ CancelLobby(b) \/ Expire(b)
    \/ SweepReads \/ SweepFails
    \/ \E on \in BOOLEAN : Switch(on)

Spec == Init /\ [][Next]_vars

-----------------------------------------------------------------------------
(* Correctness                                                              *)

(* What was staked on a battle and is not returned, and what it paid.       *)
Staked(b) ==
    IF battle[b].status \notin {"lobby", "settled"} THEN 0
    ELSE MapThenSumSet(LAMBDA s : seats[b][s].staked, DOMAIN seats[b])
PaidOut(b) ==
    IF battle[b].status # "settled" THEN 0
    ELSE MapThenSumSet(LAMBDA s : battle[b].payout[s], DOMAIN battle[b].payout)

(* What a lobby holds and what a settled battle kept is all that has left   *)
(* the wallets: leaving, the sweep and the last seat return a stake or pay  *)
(* for it, once.                                                            *)
StakesAddUp ==
    MapThenSumSet(LAMBDA p : wallet[p], Players) + MapThenSumSet(Staked, Battles)
        = Cardinality(Players) * Opening + MapThenSumSet(PaidOut, Battles)

(* Every seat has the same chance of the same share: the winning seats, the *)
(* bots' among them, share the pot alike but for less than one unit each,   *)
(* the house keeps the bots' parts, and no player is paid who has not won.  *)
PotIsShared ==
    \A b \in Battles : battle[b].status = "settled" =>
        LET B      == battle[b]
            score  == [s \in DOMAIN B.total |-> TeamTotal(B.total, B.shape.size, s \div B.shape.size)]
            best   == (IF B.mode = "crazy" THEN Min(Range(score)) ELSE Max(Range(score)))
            won    == {s \in DOMAIN score : score[s] = best}
            people == Humans(seats[b])
        IN  /\ \A s \in people \ won : B.payout[s] = 0
            /\ \A s \in people \cap won : B.payout[s] \in
                    (B.pot \div Cardinality(won))..(B.pot \div Cardinality(won) + Cardinality(won) - 1)
            /\ won \subseteq people =>
                    MapThenSumSet(LAMBDA s : B.payout[s], people) = B.pot

(* A stake counts as a wager if and only if it can no longer be returned.   *)
OnlyFinalStakesCount ==
    counted = UNION {{<<b, s, seats[b][s].who>> : s \in Humans(seats[b])} :
                        b \in {x \in Battles : battle[x].status = "settled"}}

=============================================================================
