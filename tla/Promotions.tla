------------------------------ MODULE Promotions ------------------------------
(***************************************************************************)
(* What a wager sets off besides the game: rakeback, the race that is on,  *)
(* a draw for the jackpot, and the right to a share of the rain.  Each     *)
(* operation is one serializable transaction that reads the clock once;    *)
(* races and drops are settled by whoever finds them due, maybe late.      *)
(***************************************************************************)
EXTENDS Integers, Sequences, FiniteSets, FiniteSetsExt, TLC

CONSTANTS
    Players, Stake,
    Edge, Rake, RakebackBps,    \* basis points of a stake, of a stake, of the margin
    PotBps, PotSeed,
    RaceStart, RaceEnd, RacePool, Curve,
    RainPool, RainBar, RainWindow, RainTime, RainEvery,
    Games,                      \* bound: whether it is a duel, and whether its draw hits
    MaxWagers, MaxRains, MaxNow \* bounds

ConstantsOK ==
    /\ {Stake, Edge, Rake, RakebackBps, PotBps, PotSeed, RaceStart, RaceEnd, RacePool,
        RainPool, RainBar, RainWindow, RainTime, RainEvery} \subseteq Nat
    /\ Games \subseteq BOOLEAN \X BOOLEAN
    /\ Curve \in Seq(0..10000) /\ Stake > 0 /\ Edge > 0 /\ RaceStart < RaceEnd

VARIABLES
    now,
    wagers,                 \* wager_events, in order
    accrued, claimed,       \* rakeback_accruals
    pot, contributed,       \* vault_jackpot
    wins,                   \* vault_jackpot_wins
    entries,                \* wager_race_entries
    prizes,                 \* wager_race_payouts, by rank
    settled,                \* wager_races.settled_at
    rains,                  \* lava_rain_events with their claims
    credited                \* what all of it paid to each player

vars == <<now, wagers, accrued, claimed, pot, contributed, wins, entries, prizes, settled,
          rains, credited>>

Bps(amount, n) == (amount * n) \div 10000

Init ==
    /\ now = 0 /\ wagers = <<>> /\ pot = 0 /\ contributed = 0 /\ wins = <<>>
    /\ accrued = [p \in Players |-> 0] /\ claimed = [p \in Players |-> 0]
    /\ entries = [p \in Players |-> [wagered |-> 0, at |-> 0]]
    /\ prizes = <<>> /\ settled = FALSE /\ rains = <<>>
    /\ credited = [p \in Players |-> 0]

-----------------------------------------------------------------------------
Margin(pvp) == Bps(Stake, IF pvp THEN Rake ELSE Edge)

(* SLIP: a duel's stake counts in full.                                     *)
StakeCounts(margin) == Stake

(* countedWagerSql                                                          *)
Counted(margin) ==
    IF margin >= Bps(Stake, Edge) THEN Stake ELSE Min({Stake, (margin * 10000) \div Edge})

(* SLIP: the race takes entries until it is settled.                        *)
UntilSettled == ~settled /\ now >= RaceStart

RaceIsOn == ~settled /\ now >= RaceStart /\ now < RaceEnd

(* SLIP: what this wager adds to the pot is left out of what is won.        *)
PotBefore == pot

PotAfter == pot + Bps(Stake, PotBps)

(* recordWager: "hit" is the draw's outcome.                                *)
Wager(p, pvp, hit) ==
    /\ Len(wagers) < MaxWagers
    /\ wagers' = Append(wagers, [player |-> p, margin |-> Margin(pvp), at |-> now])
    /\ accrued' = [accrued EXCEPT ![p] = @ + Bps(Margin(pvp), RakebackBps)]
    /\ entries' = IF RaceIsOn THEN [entries EXCEPT ![p].wagered = @ + Stake, ![p].at = Len(wagers) + 1]
                  ELSE entries
    /\ contributed' = contributed + Bps(Stake, PotBps)
    /\ IF hit /\ PotAfter > 0
       THEN /\ pot' = PotSeed /\ wins' = Append(wins, [player |-> p, amount |-> PotAfter])
            /\ credited' = [credited EXCEPT ![p] = @ + PotAfter]
       ELSE pot' = PotAfter /\ UNCHANGED <<wins, credited>>
    /\ UNCHANGED <<now, claimed, prizes, settled, rains>>

(* POST /v1/rakeback/claim                                                  *)
ClaimRakeback(p) ==
    /\ accrued[p] > claimed[p]
    /\ credited' = [credited EXCEPT ![p] = @ + accrued[p] - claimed[p]]
    /\ claimed' = [claimed EXCEPT ![p] = accrued[p]]
    /\ UNCHANGED <<now, wagers, accrued, pot, contributed, wins, entries, prizes, settled, rains>>

-----------------------------------------------------------------------------
(* By volume, ties to whoever reached it first.                             *)
Ahead(p, q) ==
    \/ entries[p].wagered > entries[q].wagered
    \/ entries[p].wagered = entries[q].wagered /\ entries[p].at < entries[q].at

RankOf(p) == 1 + Cardinality({q \in Players \ {p} : Ahead(q, p)})

PrizeForRank(rank) == Bps(RacePool, Curve[rank])

(* settleRace                                                               *)
SettleRace ==
    LET in      == {p \in Players : entries[p].wagered > 0 /\ RankOf(p) <= Len(Curve)}
        paid    == {p \in in : PrizeForRank(RankOf(p)) > 0}
        winner(r) == CHOOSE p \in paid : RankOf(p) = r
    IN  /\ ~settled /\ now >= RaceEnd
        /\ settled' = TRUE
        /\ prizes' = [r \in {RankOf(p) : p \in paid} |-> winner(r)]
        /\ credited' = [p \in Players |->
                credited[p] + IF p \in paid THEN PrizeForRank(RankOf(p)) ELSE 0]
        /\ UNCHANGED <<now, wagers, accrued, claimed, pot, contributed, wins, entries, rains>>

-----------------------------------------------------------------------------
Rains == DOMAIN rains
IsFalling(i) == rains[i].status = "open" /\ rains[i].closes > now

(* SLIP: a drop is opened while one is falling.                             *)
AnyTime(byHand) == TRUE

MayOpen(byHand) ==
    /\ \A i \in Rains : ~IsFalling(i)
    /\ byHand \/ \A i \in Rains : rains[i].opened <= now - RainEvery

(* autoDropRain, and an operator's drop                                     *)
OpenRain(byHand) ==
    /\ Len(rains) < MaxRains /\ MayOpen(byHand)
    /\ rains' = Append(rains, [status |-> "open", opened |-> now, closes |-> now + RainTime,
                               claims |-> <<>>, each |-> 0, rest |-> 0])
    /\ UNCHANGED <<now, wagers, accrued, claimed, pot, contributed, wins, entries, prizes,
                   settled, credited>>

(* wageredSince                                                             *)
WageredSince(p, t) ==
    MapThenSumSet(LAMBDA i : IF wagers[i].player = p /\ wagers[i].at >= t
                             THEN Counted(wagers[i].margin) ELSE 0, DOMAIN wagers)

(* POST /v1/social/rain/claim                                               *)
ClaimRain(p) ==
    \E i \in Rains :
        /\ IsFalling(i) /\ p \notin DOMAIN rains[i].claims
        /\ WageredSince(p, now - RainWindow) >= RainBar
        /\ rains' = [rains EXCEPT ![i].claims = @ @@ p :> now]
        /\ UNCHANGED <<now, wagers, accrued, claimed, pot, contributed, wins, entries, prizes,
                       settled, credited>>

(* SLIP: a drop is settled by everyone who has found it due.                *)
IsDueAgain(i) == rains[i].closes <= now

IsDue(i) == rains[i].status = "open" /\ rains[i].closes <= now

(* settleClosedRain                                                         *)
SettleRain(i) ==
    LET n    == Cardinality(DOMAIN rains[i].claims)
        each == RainPool \div n
    IN  /\ IsDue(i)
        /\ IF n = 0
           THEN /\ rains' = [rains EXCEPT ![i].status = "expired", ![i].rest = RainPool]
                /\ UNCHANGED credited
           ELSE /\ rains' = [rains EXCEPT ![i].status = "settled", ![i].each = each,
                                          ![i].rest = RainPool - each * n]
                /\ credited' = [p \in Players |->
                        credited[p] + IF p \in DOMAIN rains[i].claims THEN each ELSE 0]
        /\ UNCHANGED <<now, wagers, accrued, claimed, pot, contributed, wins, entries, prizes, settled>>

Tick ==
    /\ now < MaxNow /\ now' = now + 1
    /\ UNCHANGED <<wagers, accrued, claimed, pot, contributed, wins, entries, prizes, settled,
                   rains, credited>>

Next ==
    \/ \E p \in Players : ClaimRakeback(p) \/ ClaimRain(p)
    \/ \E p \in Players, g \in Games : Wager(p, g[1], g[2])
    \/ SettleRace \/ Tick
    \/ \E byHand \in BOOLEAN : OpenRain(byHand)
    \/ \E i \in Rains : SettleRain(i)

Spec == Init /\ [][Next]_vars

-----------------------------------------------------------------------------
(* Correctness                                                              *)

InTheRace(p) == {i \in DOMAIN wagers : wagers[i].player = p /\ wagers[i].at \in RaceStart..(RaceEnd - 1)}

Beats(p, q) ==
    LET a == InTheRace(p)  b == InTheRace(q)
    IN  Cardinality(a) > Cardinality(b) \/ (Cardinality(a) = Cardinality(b) /\ Max(a) < Max(b))

(* However late a race is settled, its prizes go to those who wagered most  *)
(* while it was on, the first first, and are paid once.                     *)
RacesAreFair ==
    settled =>
        LET raced == {p \in Players : InTheRace(p) # {}}
        IN  /\ Cardinality(DOMAIN prizes) = Min({Cardinality(raced), Len(Curve)})
            /\ \A r \in DOMAIN prizes :
                prizes[r] \in raced /\ Cardinality({q \in raced \ {prizes[r]} : Beats(q, prizes[r])}) = r - 1

(* A drop is shared by those who had wagered its bar at the house's price   *)
(* shortly before they asked, each once, and one drop falls at a time.      *)
RainIsShared ==
    \A i \in Rains :
        /\ \A j \in Rains : j < i => rains[j].closes <= rains[i].opened
        /\ \A p \in DOMAIN rains[i].claims :
            LET at     == rains[i].claims[p]
                earned == MapThenSumSet(LAMBDA k : wagers[k].margin, {k \in DOMAIN wagers :
                                wagers[k].player = p /\ wagers[k].at \in (at - RainWindow)..at})
            IN  at \in rains[i].opened..(rains[i].closes - 1) /\ earned * 10000 >= RainBar * Edge

(* Everything paid is accounted for: the pot with what was added to it, the *)
(* rakeback with the margins, the prizes and the shares with their pools.   *)
PromotionsAddUp ==
    /\ pot + MapThenSumSet(LAMBDA i : wins[i].amount, DOMAIN wins) = contributed + Len(wins) * PotSeed
    /\ contributed = Len(wagers) * Bps(Stake, PotBps)
    /\ MapThenSumSet(LAMBDA p : credited[p], Players) =
        MapThenSumSet(LAMBDA i : wins[i].amount, DOMAIN wins)
        + MapThenSumSet(LAMBDA p : claimed[p], Players)
        + MapThenSumSet(LAMBDA r : PrizeForRank(r), DOMAIN prizes)
        + MapThenSumSet(LAMBDA i : IF rains[i].status = "settled" THEN RainPool - rains[i].rest ELSE 0,
                        Rains)
    /\ \A p \in Players :
        claimed[p] <= MapThenSumSet(LAMBDA i : IF wagers[i].player = p
                                               THEN Bps(wagers[i].margin, RakebackBps) ELSE 0,
                                    DOMAIN wagers)

=============================================================================
