----------------------------- MODULE TablesProofs -----------------------------
(***************************************************************************)
(* Proofs about the tables: mines duels, coinflips (Flip), skill duels     *)
(* (Duel), a player's games on seeds (Seeded) and case battles (Battle);   *)
(* for every set of players, games and keys, every stake, fee, format,     *)
(* number of rounds and length of a round.  The last part puts the         *)
(* theorems on each of them together to what module Tables promises.       *)
(*                                                                         *)
(* Money adds up because one game changes in a step, and what the wallets  *)
(* and the house lose or gain is what that game holds more or less;        *)
(* module Sums does the rest.                                              *)
(*                                                                         *)
(* The theorems on the seeds rest on one fact: a seed is used by the       *)
(* transaction that takes the bet, so the seeds of games are all older     *)
(* than the one on offer; and what a press was made for is in the press,   *)
(* so one that comes late is known by it.                                  *)
(*                                                                         *)
(* A battle's figures are sums over its seats, and a wallet grows by the   *)
(* sum over its owner's; SumOfParts of module Sums ties the two together.  *)
(***************************************************************************)
EXTENDS Tables, Sums, Sequences, SequencesExt, SequenceTheorems

-----------------------------------------------------------------------------
(* The row of a game                                                        *)

Statuses == {"none", "open", "playing", "settled", "cancelled"}

Row == [status : Statuses, host : Players \cup {Nobody}, opponent : Players \cup {Nobody},
        rake : Nat, quoted : Int, field : SUBSET Tiles, picks : [Roles -> SUBSET Tiles],
        state : [Roles -> {"playing", "locked", "busted"}], score : [Roles -> Int],
        outcome : Roles \cup {"draw", "none"}, paid : [Roles -> Int]]

(* Who sits at it.                                                          *)
Seated(G) ==
    /\ G.status = "open" => G.host \in Players
    /\ G.status \in {"playing", "settled"} =>
          G.host \in Players /\ G.opponent \in Players /\ G.host # G.opponent

(* Before the second player comes nothing has been turned.                  *)
Untouched(G) ==
    G.status \in {"none", "open", "cancelled"} =>
        G.picks = Both({}) /\ G.state = Both("playing") /\ G.score = Both(-1)

(* The fee that was quoted is kept until the game is paid.                  *)
FeeIsKept(G) ==
    /\ G.status \in {"open", "playing"} =>
          G.rake \in Rakes /\ G.quoted = 2 * Stake - PotRake(G.rake)
    /\ G.status # "settled" => G.outcome = "none"
    /\ G.outcome \in Roles => G.paid[G.outcome] = G.quoted

(* A run ends at its first mine.                                            *)
EndsAtMine(G) ==
    \A r \in Roles :
        Cardinality(G.picks[r] \cap G.field) = IF G.state[r] = "busted" THEN 1 ELSE 0

(* A run has a score once it is over, and it is the one that decides.       *)
Scored(G) ==
    \A r \in Roles : IF G.state[r] = "playing" THEN G.score[r] = -1
                     ELSE G.score[r] = ScoreOf(G, r)

RowOK(G) == G \in Row /\ Seated(G) /\ Untouched(G) /\ FeeIsKept(G) /\ EndsAtMine(G) /\ Scored(G)

(* From one row to the next: a score that is there stays.                   *)
Follows(G, H) == \A r \in Roles : G.score[r] # -1 => H.score[r] = G.score[r]

-----------------------------------------------------------------------------
(* Rakes                                                                    *)

LEMMA Rakes10 ==
    ASSUME ConstantsOK, NEW bps \in Rakes
    PROVE  /\ PotRake(bps) \in 0..(2 * Stake)
           /\ HalfRake(bps) \in 0..Stake
           /\ bps \in 0..1000
  <1>1. Stake \in Nat /\ bps \in 0..1000
    BY DEF ConstantsOK
  <1>2. ASSUME NEW n \in Nat PROVE (n * bps) \div 10000 \in 0..n
    <2>1. n * bps \in Nat /\ n * bps <= n * 1000
      BY <1>1
    <2>2. ASSUME NEW m \in Nat, m <= n * 1000 PROVE m \div 10000 \in 0..n
      BY <2>2
    <2> QED BY <2>1, <2>2
  <1>3. (2 * Stake * bps) \div 10000 \in 0..(2 * Stake)
    BY <1>1, <1>2
  <1>4. (Stake * bps) \div 10000 \in 0..Stake
    BY <1>1, <1>2
  <1> QED BY <1>1, <1>3, <1>4 DEF PotRake, HalfRake

-----------------------------------------------------------------------------
(* Every new row is in order                                                *)

LEMMA OtherRole ==
    ASSUME NEW r \in Roles
    PROVE  Other(r) \in Roles /\ Other(r) # r /\ Roles = {r, Other(r)}
  BY DEF Roles, Other

LEMMA FreshRow ==
    ASSUME ConstantsOK
    PROVE  RowOK(NoGame)
  <1>1. NoGame \in Row
    BY DEF NoGame, Row, Statuses, Both
  <1>2. \A r \in Roles : NoGame.picks[r] \cap NoGame.field = {}
    BY DEF NoGame, Both
  <1>3. EndsAtMine(NoGame)
    BY <1>2, FS_EmptySet DEF EndsAtMine, NoGame, Both
  <1> QED BY <1>1, <1>3 DEF RowOK, Seated, Untouched, FeeIsKept, Scored, NoGame, Both, Roles

LEMMA OpenedRow ==
    ASSUME ConstantsOK, NEW p \in Players, NEW bps \in Rakes
    PROVE  LET H == [NoGame EXCEPT !.status = "open", !.host = p, !.rake = bps,
                                   !.quoted = 2 * Stake - PotRake(bps)]
           IN  RowOK(H) /\ Follows(NoGame, H)
  <1> DEFINE H == [NoGame EXCEPT !.status = "open", !.host = p, !.rake = bps,
                                 !.quoted = 2 * Stake - PotRake(bps)]
  <1>1. RowOK(NoGame) /\ bps \in Nat /\ 2 * Stake - PotRake(bps) \in Int
    BY FreshRow, Rakes10 DEF ConstantsOK
  <1>2. /\ H.status = "open" /\ H.host = p /\ H.rake = bps
        /\ H.quoted = 2 * Stake - PotRake(bps)
        /\ H.picks = Both({}) /\ H.field = {} /\ H.state = Both("playing")
        /\ H.score = Both(-1) /\ H.outcome = "none"
    BY DEF NoGame
  <1>3. H \in Row
    BY <1>1 DEF RowOK, Row, Statuses
  <1> HIDE DEF H
  <1>4. EndsAtMine(H)
    BY <1>1, <1>2 DEF RowOK, EndsAtMine, NoGame
  <1>5. Seated(H) /\ Untouched(H) /\ FeeIsKept(H) /\ Scored(H)
    BY <1>2 DEF Seated, Untouched, FeeIsKept, Scored, Both, Roles
  <1>6. Follows(NoGame, H)
    BY DEF Follows, NoGame, Both
  <1>7. RowOK(H) /\ Follows(NoGame, H)
    BY <1>3, <1>4, <1>5, <1>6 DEF RowOK
  <1> QED BY <1>7 DEF H

LEMMA JoinedRow ==
    ASSUME ConstantsOK, NEW G, RowOK(G), G.status = "open",
           NEW p \in Players, p # G.host, NEW field \in SUBSET Tiles
    PROVE  LET H == [G EXCEPT !.status = "playing", !.opponent = p, !.field = field]
           IN  RowOK(H) /\ Follows(G, H)
  <1> DEFINE H == [G EXCEPT !.status = "playing", !.opponent = p, !.field = field]
  <1>1. G \in Row
    BY DEF RowOK
  <1>2. /\ H.status = "playing" /\ H.host = G.host /\ H.opponent = p /\ H.rake = G.rake
        /\ H.quoted = G.quoted /\ H.picks = G.picks /\ H.field = field /\ H.state = G.state
        /\ H.score = G.score /\ H.outcome = G.outcome /\ H.paid = G.paid
    BY <1>1 DEF Row
  <1>3. H \in Row
    BY <1>1 DEF Row, Statuses
  <1> HIDE DEF H
  <1>4. G.picks = Both({}) /\ G.state = Both("playing") /\ G.score = Both(-1) /\ G.outcome = "none"
    BY DEF RowOK, Untouched, FeeIsKept
  <1>5. \A r \in Roles : H.picks[r] \cap H.field = {}
    BY <1>2, <1>4 DEF Both
  <1>6. EndsAtMine(H)
    BY <1>2, <1>4, <1>5, FS_EmptySet DEF EndsAtMine, Both
  <1>7. Seated(H) /\ Untouched(H) /\ FeeIsKept(H) /\ Scored(H)
    BY <1>2, <1>4 DEF RowOK, Seated, Untouched, FeeIsKept, Scored, Both, Roles
  <1>8. Follows(G, H)
    BY <1>2 DEF Follows
  <1>9. RowOK(H) /\ Follows(G, H)
    BY <1>3, <1>6, <1>7, <1>8 DEF RowOK
  <1> QED BY <1>9 DEF H

LEMMA CancelledRow ==
    ASSUME NEW G, RowOK(G), G.status = "open"
    PROVE  LET H == [G EXCEPT !.status = "cancelled"] IN RowOK(H) /\ Follows(G, H)
  <1> DEFINE H == [G EXCEPT !.status = "cancelled"]
  <1>1. G \in Row
    BY DEF RowOK
  <1>2. /\ H.status = "cancelled" /\ H.host = G.host /\ H.opponent = G.opponent
        /\ H.quoted = G.quoted /\ H.picks = G.picks /\ H.field = G.field /\ H.state = G.state
        /\ H.score = G.score /\ H.outcome = G.outcome /\ H.paid = G.paid
    BY <1>1 DEF Row
  <1>3. H \in Row
    BY <1>1 DEF Row, Statuses
  <1> HIDE DEF H
  <1>4. EndsAtMine(H) /\ Scored(H)
    BY <1>2 DEF RowOK, EndsAtMine, Scored, ScoreOf
  <1>5. Seated(H) /\ Untouched(H) /\ FeeIsKept(H)
    BY <1>2 DEF RowOK, Seated, Untouched, FeeIsKept, Roles
  <1>6. Follows(G, H)
    BY <1>2 DEF Follows
  <1>7. RowOK(H) /\ Follows(G, H)
    BY <1>3, <1>4, <1>5, <1>6 DEF RowOK
  <1> QED BY <1>7 DEF H

(* A run that is still open gets another tile, or its end.                  *)
Run(G, r, picks, state, score, H) ==
    /\ G.status = "playing" /\ G.state[r] = "playing"
    /\ picks \in SUBSET Tiles
    /\ \/ state = "playing" /\ score = -1 /\ Cardinality(picks \cap G.field) = 0
       \/ state = "busted" /\ score = 0 /\ Cardinality(picks \cap G.field) = 1
       \/ /\ state = "locked" /\ score = Cardinality(picks \ G.field) /\ score \in Int
          /\ Cardinality(picks \cap G.field) = 0
    /\ H = [G EXCEPT !.picks = [@ EXCEPT ![r] = picks],
                     !.state = [@ EXCEPT ![r] = state],
                     !.score = [@ EXCEPT ![r] = score]]

LEMMA TurnedRow ==
    ASSUME NEW G, RowOK(G), NEW r \in Roles,
           NEW picks, NEW state, NEW score, NEW H, Run(G, r, picks, state, score, H)
    PROVE  /\ RowOK(H) /\ Follows(G, H)
           /\ H.status = "playing" /\ H.host = G.host /\ H.opponent = G.opponent
  <1>0. /\ G.status = "playing" /\ G.state[r] = "playing" /\ picks \in SUBSET Tiles
        /\ state \in {"playing", "locked", "busted"} /\ score \in Int
        /\ Cardinality(picks \cap G.field) = IF state = "busted" THEN 1 ELSE 0
        /\ state = "playing" => score = -1
        /\ state = "busted" => score = 0
        /\ state = "locked" => score = Cardinality(picks \ G.field)
        /\ H = [G EXCEPT !.picks = [@ EXCEPT ![r] = picks],
                         !.state = [@ EXCEPT ![r] = state],
                         !.score = [@ EXCEPT ![r] = score]]
    BY DEF Run
  <1>1. G \in Row
    BY DEF RowOK
  <1>2. /\ H.status = "playing" /\ H.host = G.host /\ H.opponent = G.opponent
        /\ H.rake = G.rake /\ H.quoted = G.quoted /\ H.field = G.field
        /\ H.outcome = G.outcome /\ H.paid = G.paid
        /\ H.picks = [G.picks EXCEPT ![r] = picks]
        /\ H.state = [G.state EXCEPT ![r] = state]
        /\ H.score = [G.score EXCEPT ![r] = score]
    BY <1>0, <1>1 DEF Row
  <1>3. /\ H.picks \in [Roles -> SUBSET Tiles]
        /\ H.state \in [Roles -> {"playing", "locked", "busted"}]
        /\ H.score \in [Roles -> Int]
    BY <1>0, <1>1, <1>2 DEF Row
  <1>4. H \in Row
    BY <1>0, <1>1, <1>3 DEF Row
  <1>5. /\ H.picks[r] = picks /\ H.state[r] = state /\ H.score[r] = score
        /\ \A q \in Roles \ {r} : /\ H.picks[q] = G.picks[q] /\ H.state[q] = G.state[q]
                                  /\ H.score[q] = G.score[q]
    BY <1>0, <1>1, <1>2 DEF Row
  <1>6. EndsAtMine(H)
    <2> SUFFICES ASSUME NEW q \in Roles
                 PROVE  Cardinality(H.picks[q] \cap H.field) = IF H.state[q] = "busted" THEN 1 ELSE 0
      BY DEF EndsAtMine
    <2>1. CASE q = r
      BY <2>1, <1>0, <1>2, <1>5
    <2>2. CASE q # r
      BY <2>2, <1>2, <1>5 DEF RowOK, EndsAtMine
    <2> QED BY <2>1, <2>2
  <1>7. Scored(H)
    <2> SUFFICES ASSUME NEW q \in Roles
                 PROVE  IF H.state[q] = "playing" THEN H.score[q] = -1
                        ELSE H.score[q] = ScoreOf(H, q)
      BY DEF Scored
    <2>1. CASE q = r
      BY <1>0, <2>1, <1>2, <1>5 DEF ScoreOf
    <2>2. CASE q # r
      <3>1. ScoreOf(H, q) = ScoreOf(G, q)
        BY <2>2, <1>2, <1>5 DEF ScoreOf
      <3> QED BY <2>2, <3>1, <1>5 DEF RowOK, Scored
    <2> QED BY <2>1, <2>2
  <1>8. Seated(H) /\ Untouched(H) /\ FeeIsKept(H)
    BY <1>0, <1>2 DEF RowOK, Seated, Untouched, FeeIsKept
  <1>9. Follows(G, H)
    BY <1>0, <1>5 DEF RowOK, Scored, Follows
  <1> QED BY <1>0, <1>2, <1>4, <1>5, <1>6, <1>7, <1>8, <1>9 DEF RowOK

LEMMA ScoreType ==
    ASSUME ConstantsOK, NEW G \in Row, NEW r \in Roles
    PROVE  ScoreOf(G, r) \in Nat
  <1>1. IsFiniteSet(G.picks[r] \ G.field)
    BY FS_Subset DEF ConstantsOK, Row
  <1> QED BY <1>1, FS_CardinalityType DEF ScoreOf

LEMMA OutcomeType == ASSUME NEW G PROVE Decide(G) \in Roles \cup {"draw"}
  BY DEF Decide, Roles

(* Settling ends both runs, keeps the scores that stand, and pays what was  *)
(* quoted or splits the pot.                                                *)
LEMMA SettledRow ==
    ASSUME ConstantsOK, NEW G, RowOK(G), G.status = "playing"
    PROVE  /\ RowOK(Settled(G)) /\ Follows(G, Settled(G))
           /\ Settled(G).status = "settled"
           /\ \A r \in Roles :
                 Settled(G).paid[r] = IF Decide(G) = "draw" THEN DrawShare(G)
                                      ELSE IF Decide(G) = r THEN 2 * Stake - PotRake(G.rake)
                                      ELSE 0
           /\ Settled(G).outcome = Decide(G)
  <1> DEFINE S == Settled(G)
             states == [r \in Roles |-> IF G.state[r] = "playing" THEN "locked" ELSE G.state[r]]
             scores == [r \in Roles |-> ScoreOf(G, r)]
             pays == [r \in Roles |-> IF Decide(G) = "draw" THEN DrawShare(G)
                                      ELSE IF Decide(G) = r THEN 2 * Stake - PotRake(G.rake)
                                      ELSE 0]
  <1>1. G \in Row /\ G.rake \in Rakes
    BY DEF RowOK, FeeIsKept
  <1>2. S = [G EXCEPT !.status = "settled", !.outcome = Decide(G), !.state = states,
                      !.score = scores, !.paid = pays]
    BY DEF Settled, FeeOf
  <1>3. /\ S.status = "settled" /\ S.host = G.host /\ S.opponent = G.opponent
        /\ S.quoted = G.quoted /\ S.field = G.field /\ S.picks = G.picks
        /\ S.outcome = Decide(G) /\ S.paid = pays /\ S.state = states /\ S.score = scores
    <2> HIDE DEF states, scores, pays
    <2> QED BY <1>1, <1>2 DEF Row
  <1>4. S \in Row
    <2>1. states \in [Roles -> {"playing", "locked", "busted"}]
      BY <1>1 DEF Row
    <2>2. scores \in [Roles -> Int]
      BY <1>1, ScoreType
    <2>3. pays \in [Roles -> Int]
      <3>1. PotRake(G.rake) \in Int /\ HalfRake(G.rake) \in Int /\ Stake \in Int
        <4>1. PotRake(G.rake) \in 0..(2 * Stake) /\ HalfRake(G.rake) \in 0..Stake
          BY <1>1, Rakes10
        <4>2. Stake \in Nat
          BY DEF ConstantsOK
        <4> QED BY <4>1, <4>2
      <3> QED BY <3>1 DEF DrawShare, FeeOf
    <2>4. Decide(G) \in Roles \cup {"draw", "none"}
      BY OutcomeType
    <2> HIDE DEF S, states, scores, pays
    <2> QED BY <1>1, <1>2, <2>1, <2>2, <2>3, <2>4 DEF Row, Statuses
  <1> HIDE DEF S
  <1>5. EndsAtMine(S)
    BY <1>1, <1>3 DEF RowOK, EndsAtMine, Row
  <1>6. Scored(S)
    <2> SUFFICES ASSUME NEW r \in Roles
                 PROVE  S.state[r] # "playing" /\ S.score[r] = ScoreOf(S, r)
      BY DEF Scored
    <2>1. S.state[r] # "playing" /\ S.score[r] = ScoreOf(G, r)
      BY <1>3
    <2>2. (S.state[r] = "busted") = (G.state[r] = "busted")
      BY <1>3
    <2> QED BY <1>3, <2>1, <2>2 DEF ScoreOf
  <1>7. FeeIsKept(S)
    BY <1>3 DEF RowOK, FeeIsKept, Roles
  <1>8. Seated(S) /\ Untouched(S)
    BY <1>3 DEF RowOK, Seated, Untouched
  <1>9. Follows(G, S)
    BY <1>3 DEF RowOK, Scored, Follows
  <1> QED BY <1>3, <1>4, <1>5, <1>6, <1>7, <1>8, <1>9 DEF RowOK, S

(* What the house keeps.                                                    *)
LEMMA PotIsDivided ==
    ASSUME ConstantsOK, NEW G, RowOK(G), G.status = "playing"
    PROVE  LET S == Settled(G)
               rake == 2 * Stake - S.paid["host"] - S.paid["opponent"]
           IN  /\ S.paid["host"] \in Nat /\ S.paid["opponent"] \in Nat /\ rake \in Nat
               /\ S.outcome # "draw" \/ HalfRake(FeeOf(G)) > 0 =>
                     rake = PotRake(G.rake) \/ rake > 0
  <1>0. G.rake \in Rakes /\ Stake \in Nat
    BY DEF RowOK, FeeIsKept, ConstantsOK
  <1>1. PotRake(G.rake) \in 0..(2 * Stake) /\ HalfRake(G.rake) \in 0..Stake
    BY <1>0, Rakes10
  <1>2. "host" \in Roles /\ "opponent" \in Roles
    BY DEF Roles
  <1>3. CASE Decide(G) = "draw"
    <2>1. Settled(G).paid["host"] = Stake - HalfRake(G.rake) /\ Settled(G).paid["opponent"] = Stake - HalfRake(G.rake)
      BY <1>2, <1>3, SettledRow DEF DrawShare, FeeOf
    <2>2. Settled(G).outcome = "draw"
      BY <1>3, SettledRow
    <2> QED BY <1>0, <1>1, <2>1, <2>2 DEF FeeOf
  <1>4. CASE Decide(G) \in Roles
    <2>1. \/ Settled(G).paid["host"] = 2 * Stake - PotRake(G.rake) /\ Settled(G).paid["opponent"] = 0
          \/ Settled(G).paid["opponent"] = 2 * Stake - PotRake(G.rake) /\ Settled(G).paid["host"] = 0
      BY <1>2, <1>4, SettledRow DEF Roles
    <2> QED BY <1>0, <1>1, <2>1
  <1> QED BY <1>3, <1>4, OutcomeType

-----------------------------------------------------------------------------
(* What a step does to one game and to the money                            *)

(* The stake of an open game and the stakes of one that is played.          *)
Worth(G) == IF G.status = "open" THEN Stake ELSE IF G.status = "playing" THEN 2 * Stake ELSE 0

Seats(G) == IF G.status \in {"open", "playing"} THEN {G.host, G.opponent} ELSE {}

Turned(g, H) == game' = [game EXCEPT ![g] = H] /\ RowOK(H) /\ Follows(game[g], H)

NoNewSeats(g, H) == \A p \in Players : p \in Seats(H) => p \in Seats(game[g])

StakeGoes(g, H) ==
    \E p \in Players :
        /\ wallet[p] >= Stake /\ wallet' = [wallet EXCEPT ![p] = @ - Stake]
        /\ Worth(H) = Worth(game[g]) + Stake
        /\ HasRoom(p) /\ \A q \in Players \ {p} : q \in Seats(H) => q \in Seats(game[g])
        /\ UNCHANGED <<house, counted>>

StakeComesBack(g, H) ==
    /\ \E p \in Players : wallet' = [wallet EXCEPT ![p] = @ + Stake]
    /\ Worth(game[g]) = Worth(H) + Stake
    /\ NoNewSeats(g, H) /\ UNCHANGED <<house, counted>>

PlayGoesOn(g, H) == Worth(H) = Worth(game[g]) /\ NoNewSeats(g, H) /\ UNCHANGED money

Volume == \E p \in Players : counted[p] > 0

Paid(g, H, p, q, a, b, fee) ==
    /\ p # q
    /\ wallet' = [x \in Players |-> wallet[x] + IF x = p THEN a ELSE IF x = q THEN b ELSE 0]
    /\ house' = house + fee
    /\ Worth(game[g]) = a + b + fee /\ Worth(H) = 0
    /\ counted' \in [Players -> Nat]
    /\ counted' # counted => fee > 0 \/ \E bps \in Rakes : fee = PotRake(bps)
    /\ NoNewSeats(g, H)

PotIsPaid(g, H) == \E p, q \in Players : \E a, b, fee \in Nat : Paid(g, H, p, q, a, b, fee)

MoneyFollows(g, H) ==
    StakeGoes(g, H) \/ StakeComesBack(g, H) \/ PlayGoesOn(g, H) \/ PotIsPaid(g, H)

LEMMA PayTurns ==
    ASSUME ConstantsOK, NEW g \in Games, game[g].status = "playing",
           wallet \in [Players -> Nat], counted \in [Players -> Nat], house \in Nat,
           NEW G, RowOK(G), G.status = "playing", Follows(game[g], G), Pay(g, G)
    PROVE  \E H : Turned(g, H) /\ MoneyFollows(g, H)
  <1> DEFINE S == Settled(G)
             a == S.paid["host"]
             b == S.paid["opponent"]
             fee == 2 * Stake - a - b
  <1>1. RowOK(S) /\ Follows(G, S) /\ S.status = "settled"
    BY SettledRow
  <1>2. a \in Nat /\ b \in Nat /\ fee \in Nat
    BY PotIsDivided
  <1>3. S.outcome # "draw" \/ HalfRake(FeeOf(G)) > 0 => fee > 0 \/ fee = PotRake(G.rake)
    BY PotIsDivided
  <1>4. G.host \in Players /\ G.opponent \in Players /\ G.host # G.opponent /\ G.rake \in Rakes
    BY DEF RowOK, Seated, FeeIsKept
  <1>5. /\ game' = [game EXCEPT ![g] = S]
        /\ wallet' = [x \in Players |-> wallet[x] + IF x = G.host THEN a
                                                    ELSE IF x = G.opponent THEN b ELSE 0]
        /\ house' = house + fee
        /\ counted' = IF S.outcome # "draw" \/ HalfRake(FeeOf(G)) > 0
                      THEN [x \in Players |-> counted[x] + IF x = G.host THEN Stake
                                                           ELSE IF x = G.opponent THEN Stake ELSE 0]
                      ELSE counted
    BY DEF Pay
  <1> HIDE DEF S
  <1>6. counted' \in [Players -> Nat]
    BY <1>5 DEF ConstantsOK
  <1>7. counted' # counted => fee > 0 \/ \E bps \in Rakes : fee = PotRake(bps)
    BY <1>3, <1>4, <1>5
  <1>8. Worth(game[g]) = a + b + fee /\ Worth(S) = 0 /\ NoNewSeats(g, S)
    BY <1>1, <1>2 DEF Worth, Seats, NoNewSeats, ConstantsOK
  <1>9. Follows(game[g], S)
    BY <1>1 DEF Follows
  <1>10. PotIsPaid(g, S)
    <2> HIDE DEF a, b, fee
    <2>1. Paid(g, S, G.host, G.opponent, a, b, fee)
      BY <1>4, <1>5, <1>6, <1>7, <1>8 DEF Paid
    <2> QED BY <1>2, <1>4, <2>1 DEF PotIsPaid
  <1> QED BY <1>1, <1>5, <1>9, <1>10 DEF Turned, MoneyFollows

-----------------------------------------------------------------------------
(* The steps                                                                *)

Books ==
    /\ wallet \in [Players -> Nat] /\ counted \in [Players -> Nat] /\ house \in Nat
    /\ rakeBps \in Rakes /\ listed \subseteq Games

Inv == game \in [Games -> Row] /\ (\A g \in Games : RowOK(game[g])) /\ Books

OneGame == \E g \in Games : \E H : Turned(g, H) /\ MoneyFollows(g, H)

LEMMA CreateTurns ==
    ASSUME ConstantsOK, Inv, NEW g \in Games, NEW p \in Players, Create(g, p)
    PROVE  OneGame
  <1> DEFINE H == [NoGame EXCEPT !.status = "open", !.host = p, !.rake = rakeBps,
                                 !.quoted = 2 * Stake - PotRake(rakeBps)]
  <1>1. rakeBps \in Rakes /\ RowOK(game[g]) /\ game[g].status = "none"
    BY DEF Inv, Books, Create
  <1>2. RowOK(H)
    BY <1>1, OpenedRow
  <1>3. game' = [game EXCEPT ![g] = H] /\ H.status = "open" /\ H.host = p /\ H.opponent = Nobody
    BY DEF Create, NoGame
  <1> HIDE DEF H
  <1>4. Follows(game[g], H)
    BY <1>1 DEF RowOK, Untouched, Follows, Both
  <1>5. Worth(H) = Worth(game[g]) + Stake
    BY <1>1, <1>3 DEF Worth, ConstantsOK
  <1>6. \A q \in Players \ {p} : q \notin Seats(H)
    BY <1>3 DEF Seats, ConstantsOK
  <1>7. StakeGoes(g, H)
    BY <1>5, <1>6 DEF Create, StakeGoes
  <1> QED BY <1>2, <1>3, <1>4, <1>7 DEF OneGame, Turned, MoneyFollows

LEMMA JoinTurns ==
    ASSUME ConstantsOK, Inv, NEW g \in Games, NEW p \in Players, Join(g, p)
    PROVE  OneGame
  <1>1. PICK field \in kSubset(MineCount, Tiles) :
            game' = [game EXCEPT ![g].status = "playing", ![g].opponent = p, ![g].field = field]
    BY DEF Join
  <1> DEFINE G == game[g]
             H == [G EXCEPT !.status = "playing", !.opponent = p, !.field = field]
  <1>2. field \in SUBSET Tiles
    BY DEF kSubset
  <1>3. RowOK(G) /\ G.status = "open" /\ p # G.host /\ game \in [Games -> Row] /\ G \in Row
    BY DEF Inv, Join
  <1>4. RowOK(H) /\ Follows(G, H)
    BY <1>2, <1>3, JoinedRow
  <1>5. game' = [game EXCEPT ![g] = H]
    BY <1>1, <1>3
  <1>6. H.status = "playing" /\ H.host = G.host /\ H.opponent = p
    BY <1>3 DEF Row
  <1> HIDE DEF H
  <1>7. Worth(H) = Worth(G) + Stake
    BY <1>3, <1>6 DEF Worth, ConstantsOK
  <1>8. \A q \in Players \ {p} : q \in Seats(H) => q \in Seats(G)
    BY <1>3, <1>6 DEF Seats
  <1>9. StakeGoes(g, H)
    BY <1>7, <1>8 DEF Join, StakeGoes
  <1> QED BY <1>4, <1>5, <1>9 DEF OneGame, Turned, MoneyFollows

LEMMA RefundTurns ==
    ASSUME ConstantsOK, Inv, NEW g \in Games, Refundable(g), Refund(g)
    PROVE  OneGame
  <1> DEFINE G == game[g]
             H == [G EXCEPT !.status = "cancelled"]
  <1>1. RowOK(G) /\ G.status = "open" /\ game \in [Games -> Row] /\ G \in Row /\ G.host \in Players
    BY DEF Inv, Refundable, RowOK, Seated
  <1>2. RowOK(H) /\ Follows(G, H)
    BY <1>1, CancelledRow
  <1>3. game' = [game EXCEPT ![g] = H]
    BY <1>1 DEF Refund
  <1>4. H.status = "cancelled"
    BY <1>1 DEF Row
  <1> HIDE DEF H
  <1>5. Worth(G) = Worth(H) + Stake /\ NoNewSeats(g, H)
    BY <1>1, <1>4 DEF Worth, Seats, NoNewSeats, ConstantsOK
  <1>6. StakeComesBack(g, H)
    BY <1>1, <1>5 DEF Refund, StakeComesBack
  <1> QED BY <1>2, <1>3, <1>6 DEF OneGame, Turned, MoneyFollows

LEMMA SettleTurns ==
    ASSUME ConstantsOK, Inv, NEW g \in Games, SettleIfDue(g)
    PROVE  OneGame
  <1>1. RowOK(game[g]) /\ game[g].status = "playing" /\ Follows(game[g], game[g]) /\ Pay(g, game[g])
    BY DEF Inv, SettleIfDue, Follows
  <1> QED BY <1>1, PayTurns DEF Inv, Books, OneGame

(* A run goes on or ends, and with the second run the game.                 *)
LEMMA RunTurns ==
    ASSUME ConstantsOK, Inv, NEW g \in Games, NEW r \in Roles, NEW H,
           RowOK(H), Follows(game[g], H), game[g].status = "playing",
           H.status = "playing", H.host = game[g].host, H.opponent = game[g].opponent,
           Finish(g, r, H) \/ (game' = [game EXCEPT ![g] = H] /\ UNCHANGED <<money, world>>)
    PROVE  OneGame
  <1>1. CASE Pay(g, H)
    BY <1>1, PayTurns DEF Inv, Books, OneGame
  <1>2. CASE game' = [game EXCEPT ![g] = H] /\ UNCHANGED <<money, world>>
    <2>1. Worth(H) = Worth(game[g]) /\ NoNewSeats(g, H)
      BY DEF Worth, NoNewSeats, Seats
    <2>2. PlayGoesOn(g, H)
      BY <1>2, <2>1 DEF PlayGoesOn
    <2> QED BY <1>2, <2>2 DEF OneGame, Turned, MoneyFollows
  <1> QED BY <1>1, <1>2 DEF Finish

LEMMA LockTurns ==
    ASSUME ConstantsOK, Inv, NEW g \in Games, NEW r \in Roles, Lock(g, r)
    PROVE  OneGame
  <1> DEFINE G == game[g]
             score == Cardinality(G.picks[r] \ G.field)
             H == [G EXCEPT !.state[r] = "locked", !.score[r] = score]
  <1>1. RowOK(G) /\ G \in Row /\ G.status = "playing" /\ G.state[r] = "playing"
    BY DEF Inv, Lock, MayPlay
  <1>2. Finish(g, r, H)
    BY DEF Lock
  <1>3. G.picks[r] \in SUBSET Tiles /\ Cardinality(G.picks[r] \cap G.field) = 0
    BY <1>1 DEF RowOK, Row, EndsAtMine
  <1>4. score \in Int
    BY <1>3, FS_Subset, FS_CardinalityType DEF ConstantsOK
  <1>5. H = [G EXCEPT !.picks = [@ EXCEPT ![r] = G.picks[r]],
                      !.state = [@ EXCEPT ![r] = "locked"],
                      !.score = [@ EXCEPT ![r] = score]]
    <2> HIDE DEF score
    <2> QED BY <1>1 DEF Row
  <1> HIDE DEF H
  <1>6. RowOK(H) /\ Follows(G, H) /\ H.status = "playing" /\ H.host = G.host /\ H.opponent = G.opponent
    <2>1. Run(G, r, G.picks[r], "locked", score, H)
      BY <1>1, <1>3, <1>4, <1>5 DEF Run
    <2> QED BY <1>1, <2>1, TurnedRow
  <1> QED BY <1>1, <1>2, <1>6, RunTurns

LEMMA PickTurns ==
    ASSUME ConstantsOK, Inv, NEW g \in Games, NEW r \in Roles, NEW tile \in Tiles, Pick(g, r, tile)
    PROVE  OneGame
  <1> DEFINE G == game[g]
             picks == G.picks[r] \cup {tile}
             P == [G EXCEPT !.picks[r] = @ \cup {tile}]
             Next3(state, score) == [G EXCEPT !.picks = [@ EXCEPT ![r] = picks],
                                              !.state = [@ EXCEPT ![r] = state],
                                              !.score = [@ EXCEPT ![r] = score]]
  <1>1. RowOK(G) /\ G \in Row /\ G.status = "playing" /\ G.state[r] = "playing" /\ tile \notin G.picks[r]
    BY DEF Inv, Pick, MayPlay
  <1>2. /\ G.picks[r] \in SUBSET Tiles /\ picks \in SUBSET Tiles
        /\ Cardinality(G.picks[r] \cap G.field) = 0 /\ G.score[r] = -1
    BY <1>1 DEF RowOK, Row, EndsAtMine, Scored
  <1>3. G.picks[r] \cap G.field = {}
    BY <1>2, FS_Subset, FS_EmptySet DEF ConstantsOK
  <1>4. Cardinality(picks) \in Int
    BY <1>2, FS_Subset, FS_CardinalityType DEF ConstantsOK
  <1>5. P.field = G.field /\ P.picks[r] = picks
    BY <1>1 DEF Row
  <1>6. CASE tile \in G.field
    <2>1. Finish(g, r, [P EXCEPT !.state[r] = "busted", !.score[r] = 0])
      BY <1>5, <1>6 DEF Pick
    <2>2. [P EXCEPT !.state[r] = "busted", !.score[r] = 0] = Next3("busted", 0)
      <3> HIDE DEF picks
      <3> QED BY <1>1 DEF Row, picks
    <2>3. Cardinality(picks \cap G.field) = 1
      <3>1. picks \cap G.field = {tile}
        BY <1>3, <1>6
      <3> QED BY <3>1, FS_Singleton
    <2> DEFINE H == Next3("busted", 0)
    <2>4. RowOK(H) /\ Follows(G, H) /\ H.status = "playing" /\ H.host = G.host /\ H.opponent = G.opponent
      <3>1. Run(G, r, picks, "busted", 0, H)
        BY <1>1, <1>2, <2>3 DEF Run
      <3> QED BY <1>1, <3>1, TurnedRow
    <2> HIDE DEF Next3
    <2> QED BY <1>1, <2>1, <2>2, <2>4, RunTurns
  <1>7. ASSUME tile \notin G.field PROVE Cardinality(picks \cap G.field) = 0 /\ picks \ G.field = picks
    <2>1. picks \cap G.field = {}
      BY <1>3, <1>7
    <2> QED BY <2>1, FS_EmptySet
  <1>8. CASE tile \notin G.field /\ Cardinality(picks) >= SafeTiles
    <2>1. Finish(g, r, [P EXCEPT !.state[r] = "locked", !.score[r] = Cardinality(picks)])
      BY <1>5, <1>8 DEF Pick
    <2>2. [P EXCEPT !.state[r] = "locked", !.score[r] = Cardinality(picks)] = Next3("locked", Cardinality(picks))
      <3> HIDE DEF picks
      <3> QED BY <1>1 DEF Row, picks
    <2> DEFINE H == Next3("locked", Cardinality(picks))
    <2>4. RowOK(H) /\ Follows(G, H) /\ H.status = "playing" /\ H.host = G.host /\ H.opponent = G.opponent
      <3>1. Run(G, r, picks, "locked", Cardinality(picks), H)
        BY <1>1, <1>2, <1>4, <1>7, <1>8 DEF Run
      <3> QED BY <1>1, <3>1, TurnedRow
    <2> HIDE DEF Next3
    <2> QED BY <1>1, <2>1, <2>2, <2>4, RunTurns
  <1>9. CASE tile \notin G.field /\ ~(Cardinality(picks) >= SafeTiles)
    <2>1. game' = [game EXCEPT ![g] = P] /\ UNCHANGED <<money, world>>
      BY <1>5, <1>9 DEF Pick
    <2>2. P = Next3("playing", -1)
      <3> HIDE DEF picks
      <3> QED BY <1>1, <1>2 DEF Row, picks
    <2> DEFINE H == Next3("playing", -1)
    <2>4. RowOK(H) /\ Follows(G, H) /\ H.status = "playing" /\ H.host = G.host /\ H.opponent = G.opponent
      <3>1. Run(G, r, picks, "playing", -1, H)
        BY <1>1, <1>2, <1>7, <1>9 DEF Run
      <3> QED BY <1>1, <3>1, TurnedRow
    <2> HIDE DEF Next3
    <2> QED BY <1>1, <2>1, <2>2, <2>4, RunTurns
  <1> QED BY <1>6, <1>8, <1>9

SettingsOK == rakeBps' \in Rakes /\ listed' \subseteq Games

LEMMA PaySettings ==
    ASSUME NEW g, NEW G, Pay(g, G)
    PROVE  UNCHANGED world
  BY DEF Pay

LEMMA NextTurns ==
    ASSUME ConstantsOK, Inv, [Next]_vars
    PROVE  /\ OneGame \/ UNCHANGED <<game, money>>
           /\ SettingsOK
  <1>0. rakeBps \in Rakes /\ listed \subseteq Games
    BY DEF Inv, Books
  <1>1. ASSUME NEW g \in Games, NEW p \in Players, Create(g, p) PROVE OneGame /\ SettingsOK
    BY <1>0, <1>1, CreateTurns DEF Create, world, SettingsOK
  <1>2. ASSUME NEW g \in Games, NEW p \in Players, Join(g, p) PROVE OneGame /\ SettingsOK
    BY <1>0, <1>2, JoinTurns DEF Join, world, SettingsOK
  <1>3. ASSUME NEW g \in Games, Cancel(g) PROVE OneGame /\ SettingsOK
    BY <1>0, <1>3, RefundTurns DEF Cancel, Refund, world, SettingsOK
  <1>4. ASSUME NEW g \in Games, Look(g) PROVE OneGame /\ SettingsOK
    BY <1>0, <1>4, SettleTurns, PaySettings DEF Look, SettleIfDue, world, SettingsOK
  <1>5. ASSUME NEW g \in Games, NEW r \in Roles, Lock(g, r) PROVE OneGame /\ SettingsOK
    <2>1. UNCHANGED world /\ UNCHANGED listed
      BY <1>5, PaySettings DEF Lock, Finish
    <2> QED BY <1>0, <1>5, <2>1, LockTurns DEF world, SettingsOK
  <1>6. ASSUME NEW g \in Games, NEW r \in Roles, NEW tile \in Tiles, Pick(g, r, tile)
        PROVE  OneGame /\ SettingsOK
    <2>1. UNCHANGED world /\ UNCHANGED listed
      BY <1>6, PaySettings DEF Pick, Finish
    <2> QED BY <1>0, <1>6, <2>1, PickTurns DEF world, SettingsOK
  <1>7. ASSUME NEW g \in Games, PlayerNext(g) PROVE OneGame /\ SettingsOK
    BY <1>1, <1>2, <1>3, <1>4, <1>5, <1>6, <1>7 DEF PlayerNext
  <1>8. ASSUME NEW g \in Games, SweepOne(g)
        PROVE  (OneGame \/ UNCHANGED <<game, money>>) /\ SettingsOK
    <2>1. UNCHANGED world /\ listed' \subseteq Games
      BY <1>0, <1>8, PaySettings DEF SweepOne, SettleIfDue, Refund
    <2>2. OneGame \/ UNCHANGED <<game, money>>
      BY <1>8, SettleTurns, RefundTurns DEF SweepOne
    <2> QED BY <1>0, <2>1, <2>2 DEF world, SettingsOK
  <1>9. CASE SweeperNext
    <2>1. ASSUME SweepReads \/ SweepFails PROVE UNCHANGED <<game, money>> /\ SettingsOK
      BY <1>0, <2>1 DEF SweepReads, SweepFails, Sweepable, world, SettingsOK
    <2> QED BY <1>8, <1>9, <2>1 DEF SweeperNext
  <1>10. ASSUME NEW g \in Games, Lapse(g) \/ ClockRunsOut(g) PROVE UNCHANGED <<game, money>> /\ SettingsOK
    BY <1>0, <1>10 DEF Lapse, ClockRunsOut, SettingsOK
  <1>11. ASSUME NEW bps \in Rakes, SetFee(bps) PROVE UNCHANGED <<game, money>> /\ SettingsOK
    BY <1>0, <1>11 DEF SetFee, SettingsOK
  <1>12. CASE Switch
    BY <1>0, <1>12 DEF Switch, SettingsOK
  <1>13. CASE UNCHANGED vars
    BY <1>0, <1>13 DEF vars, money, SettingsOK
  <1> QED BY <1>7, <1>9, <1>10, <1>11, <1>12, <1>13 DEF Next

-----------------------------------------------------------------------------
(* Every game is in order                                                   *)

LEMMA InitInv == ASSUME ConstantsOK, Init PROVE Inv
  <1>1. RowOK(NoGame) /\ NoGame \in Row
    BY FreshRow DEF RowOK
  <1>2. game = [g \in Games |-> NoGame]
    BY DEF Init
  <1>3. Books
    BY DEF Init, Books, ConstantsOK
  <1> QED BY <1>1, <1>2, <1>3 DEF Inv

(* What a step does to the books.                                           *)
LEMMA BooksStay ==
    ASSUME ConstantsOK, Inv, SettingsOK, NEW g \in Games, NEW H, MoneyFollows(g, H)
    PROVE  Books' /\ house' >= house
  <1>0. /\ wallet \in [Players -> Nat] /\ counted \in [Players -> Nat] /\ house \in Nat
        /\ Stake \in Nat
    BY DEF Inv, Books, ConstantsOK
  <1>1. CASE StakeGoes(g, H)
    <2>1. PICK p \in Players : /\ wallet[p] >= Stake /\ wallet' = [wallet EXCEPT ![p] = @ - Stake]
                               /\ UNCHANGED <<house, counted>>
      BY <1>1 DEF StakeGoes
    <2>2. wallet[p] - Stake \in Nat
      BY <1>0, <2>1
    <2> QED BY <1>0, <2>1, <2>2 DEF Books, SettingsOK
  <1>2. CASE StakeComesBack(g, H)
    <2>1. PICK p \in Players : wallet' = [wallet EXCEPT ![p] = @ + Stake]
      BY <1>2 DEF StakeComesBack
    <2>2. wallet[p] + Stake \in Nat
      BY <1>0
    <2> QED BY <1>0, <1>2, <2>1, <2>2 DEF Books, SettingsOK, StakeComesBack
  <1>3. CASE PlayGoesOn(g, H)
    BY <1>0, <1>3 DEF PlayGoesOn, money, Books, SettingsOK
  <1>4. CASE PotIsPaid(g, H)
    <2>1. PICK p, q \in Players, a, b, fee \in Nat : Paid(g, H, p, q, a, b, fee)
      BY <1>4 DEF PotIsPaid
    <2>2. wallet' \in [Players -> Nat]
      BY <1>0, <2>1 DEF Paid
    <2>3. house' \in Nat /\ house' >= house /\ counted' \in [Players -> Nat]
      BY <1>0, <2>1 DEF Paid
    <2> QED BY <2>2, <2>3 DEF Books, SettingsOK
  <1> QED BY <1>1, <1>2, <1>3, <1>4 DEF MoneyFollows

LEMMA InvStays == ASSUME ConstantsOK, Inv, [Next]_vars PROVE Inv'
  <1>1. SettingsOK
    BY NextTurns
  <1>2. CASE UNCHANGED <<game, money>>
    BY <1>1, <1>2 DEF Inv, Books, SettingsOK, money
  <1>3. CASE OneGame
    <2>0. PICK g \in Games : \E H : Turned(g, H) /\ MoneyFollows(g, H)
      BY <1>3 DEF OneGame
    <2>1. PICK H : Turned(g, H) /\ MoneyFollows(g, H)
      BY <2>0
    <2>2. Books'
      BY <1>1, <2>1, BooksStay
    <2>3. game' = [game EXCEPT ![g] = H] /\ RowOK(H) /\ H \in Row
      BY <2>1 DEF Turned, RowOK
    <2>4. game' \in [Games -> Row]
      BY <2>3 DEF Inv
    <2>5. \A x \in Games : RowOK(game'[x])
      BY <2>3 DEF Inv
    <2> QED BY <2>2, <2>4, <2>5 DEF Inv
  <1> QED BY <1>2, <1>3, NextTurns

(* The columns of every row and the books have their types, and two         *)
(* different players play.                                                  *)
THEOREM TypeCorrect == ASSUME ConstantsOK PROVE Spec => []TypeOK
  <1>1. Init => Inv
    BY InitInv
  <1>2. Inv /\ [Next]_vars => Inv'
    BY InvStays
  <1>3. Inv => TypeOK
    <2> SUFFICES ASSUME Inv PROVE TypeOK
      OBVIOUS
    <2>1. ASSUME NEW g \in Games
          PROVE  /\ game[g] \in Row /\ Seated(game[g]) /\ EndsAtMine(game[g])
      BY DEF Inv, RowOK
    <2> QED BY <2>1 DEF Inv, Books, TypeOK, Row, Statuses, Seated, EndsAtMine
  <1> QED BY <1>1, <1>2, <1>3, PTL DEF Spec

(* A decided game pays what its players were quoted before they staked.     *)
THEOREM PaidAsQuoted == ASSUME ConstantsOK PROVE Spec => []QuotedIsPaid
  <1>1. Init => Inv
    BY InitInv
  <1>2. Inv /\ [Next]_vars => Inv'
    BY InvStays
  <1>3. Inv => QuotedIsPaid
    BY DEF Inv, RowOK, FeeIsKept, QuotedIsPaid
  <1> QED BY <1>1, <1>2, <1>3, PTL DEF Spec

(* The score of a run that is over is the one the game is decided by.       *)
THEOREM ScoreIsFinal == ASSUME ConstantsOK PROVE Spec => [][ScoreStands]_vars
  <1>1. Init => Inv
    BY InitInv
  <1>2. Inv /\ [Next]_vars => Inv'
    BY InvStays
  <1>3. ASSUME Inv, [Next]_vars PROVE ScoreStands
    <2>1. CASE OneGame
      <3>0. PICK g \in Games : \E H : Turned(g, H)
        BY <2>1 DEF OneGame
      <3>1. PICK H : Turned(g, H)
        BY <3>0
      <3>2. game' = [game EXCEPT ![g] = H] /\ Follows(game[g], H) /\ game \in [Games -> Row]
        BY <1>3, <3>1 DEF Turned, Inv
      <3> QED BY <3>2 DEF Follows, ScoreStands
    <2>2. CASE UNCHANGED game
      BY <2>2 DEF ScoreStands
    <2> QED BY <1>3, <2>1, <2>2, NextTurns
  <1> QED BY <1>1, <1>2, <1>3, PTL DEF Spec

(* What config.ts:1138 sees to before the process starts: the fee on a pot  *)
(* is not rounded away.                                                     *)
FeesCount == \A bps \in Rakes : bps > 0 => PotRake(bps) > 0

(* While there is a fee, volume costs: nobody has wagered until the house   *)
(* has earned.                                                              *)
THEOREM VolumeIsPaidFor ==
    ASSUME ConstantsOK, FeesCount
    PROVE  Spec => []VolumeCostsFees
  <1> DEFINE Counts == 0 \notin Rakes /\ Volume => house > 0
  <1>1. Init => Inv /\ Counts
    BY InitInv DEF Init, Volume
  <1>2. ASSUME Inv, Counts, [Next]_vars PROVE Inv' /\ Counts'
    <2>1. Inv' /\ SettingsOK
      BY <1>2, InvStays, NextTurns
    <2>2. CASE UNCHANGED <<game, money>>
      BY <1>2, <2>1, <2>2 DEF Volume, money
    <2>3. CASE OneGame
      <3>0. PICK g \in Games : \E H : Turned(g, H) /\ MoneyFollows(g, H)
        BY <2>3 DEF OneGame
      <3>1. PICK H : Turned(g, H) /\ MoneyFollows(g, H)
        BY <3>0
      <3>2. house' >= house /\ house \in Nat /\ house' \in Nat
        BY <1>2, <2>1, <3>1, BooksStay DEF Inv, Books
      <3>3. CASE UNCHANGED counted
        BY <1>2, <2>1, <3>2, <3>3 DEF Volume
      <3>4. CASE PotIsPaid(g, H) /\ counted' # counted
        <4>1. PICK p, q \in Players, a, b, fee \in Nat : Paid(g, H, p, q, a, b, fee)
          BY <3>4 DEF PotIsPaid
        <4>2. house' = house + fee /\ (fee > 0 \/ \E bps \in Rakes : fee = PotRake(bps))
          BY <3>4, <4>1 DEF Paid
        <4>3. ASSUME 0 \notin Rakes PROVE fee > 0
          <5>1. \A bps \in Rakes : PotRake(bps) > 0
            BY <4>3 DEF FeesCount, ConstantsOK
          <5> QED BY <4>2, <5>1
        <4> QED BY <2>1, <3>2, <4>2, <4>3
      <3> QED BY <3>1, <3>3, <3>4 DEF MoneyFollows, StakeGoes, StakeComesBack, PlayGoesOn, money
    <2> QED BY <1>2, <2>1, <2>2, <2>3, NextTurns
  <1>3. Counts => VolumeCostsFees
    BY DEF Volume, VolumeCostsFees
  <1> QED BY <1>1, <1>2, <1>3, PTL DEF Spec

(* While a game is played, what a player is shown says of the opponent's    *)
(* run only that it is over.                                                *)
THEOREM NothingIsGivenAway == ASSUME ConstantsOK PROVE Spec => []NothingGivenAway
  <1>1. Init => Inv
    BY InitInv
  <1>2. Inv /\ [Next]_vars => Inv'
    BY InvStays
  <1>3. ASSUME Inv PROVE NothingGivenAway
    <2> SUFFICES ASSUME NEW g \in Games, NEW r \in Roles, NEW field \in kSubset(MineCount, Tiles),
                        game[g].state[Other(r)] # "playing",
                        field \cap game[g].picks[r] = game[g].field \cap game[g].picks[r],
                        NEW run \in Runs(field)
                 PROVE  Shown([game[g] EXCEPT !.field = field, !.picks[Other(r)] = run.picks,
                                              !.state[Other(r)] = run.state,
                                              !.score[Other(r)] = run.score], r)
                        = Shown(game[g], r)
      BY DEF NothingGivenAway
    <2> DEFINE G == game[g]
               H == [G EXCEPT !.field = field, !.picks[Other(r)] = run.picks,
                              !.state[Other(r)] = run.state, !.score[Other(r)] = run.score]
    <2>1. G \in Row /\ Other(r) \in Roles /\ Other(r) # r
      BY <1>3, OtherRole DEF Inv
    <2>2. run.state # "playing"
      <3> DEFINE Busts == {x \in SUBSET Tiles : Cardinality(x \cap field) = 1}
                 Locks == (SUBSET (Tiles \ field)) \ {{}}
      <3>1. \/ \E s \in Busts : run = [picks |-> s, state |-> "busted", score |-> 0]
            \/ \E s \in Locks : run = [picks |-> s, state |-> "locked", score |-> Cardinality(s)]
        BY DEF Runs
      <3> HIDE DEF Busts, Locks
      <3> QED BY <3>1
    <2>3. /\ H.picks[r] = G.picks[r] /\ H.state[r] = G.state[r] /\ H.field = field
          /\ H.state[Other(r)] = run.state
      BY <2>1 DEF Row
    <2> HIDE DEF H
    <2>4. \A t \in G.picks[r] : (t \in field) = (t \in G.field)
      OBVIOUS
    <2>5. [t \in H.picks[r] |-> t \in H.field] = [t \in G.picks[r] |-> t \in G.field]
      BY <2>3, <2>4
    <2>6. Shown(H, r) = Shown(G, r)
      BY <2>2, <2>3, <2>5 DEF Shown
    <2> QED BY <2>6 DEF H
  <1> QED BY <1>1, <1>2, <1>3, PTL DEF Spec

-----------------------------------------------------------------------------
(* How many games a player has                                              *)

LEMMA ActiveAreSeats ==
    ASSUME NEW p \in Players
    PROVE  Active(p) = {g \in Games : p \in Seats(game[g])}
  BY DEF Active, Seats

(* No player has more mines duels running than the limit, as host and as    *)
(* opponent together (mines-duel.ts, assertRoomForAnotherGame).             *)
THEOREM FewGamesAtOnce ==
    ASSUME ConstantsOK, IsFiniteSet(Games)
    PROVE  Spec => []FewAtOnce
  <1> DEFINE Few == \A p \in Players : Cardinality(Active(p)) <= MaxActive
  <1>0. FewAtOnce <=> Few
    BY DEF FewAtOnce, Active
  <1>1. Init => Inv /\ Few
    <2> SUFFICES ASSUME Init, NEW p \in Players PROVE Cardinality(Active(p)) <= MaxActive
      BY InitInv
    <2>1. Active(p) = {}
      BY DEF Init, Active, NoGame
    <2> QED BY <2>1, FS_EmptySet DEF ConstantsOK
  <1>2. ASSUME Inv, Few, [Next]_vars PROVE Inv' /\ Few'
    <2>1. CASE UNCHANGED <<game, money>>
      BY <1>2, <2>1, InvStays DEF Active
    <2>2. CASE OneGame
      <3>0. PICK g \in Games : \E H : Turned(g, H) /\ MoneyFollows(g, H)
        BY <2>2 DEF OneGame
      <3>1. PICK H : Turned(g, H) /\ MoneyFollows(g, H)
        BY <3>0
      <3>2. game' = [game EXCEPT ![g] = H] /\ game \in [Games -> Row]
        BY <1>2, <3>1 DEF Turned, Inv
      <3> SUFFICES ASSUME NEW p \in Players PROVE Cardinality(Active(p)') <= MaxActive
        BY <1>2, InvStays
      <3> DEFINE before == {x \in Games : p \in Seats(game[x])}
                 after == {x \in Games : p \in Seats(game'[x])}
      <3>3. Active(p) = before /\ Active(p)' = after
        BY DEF Active, Seats
      <3>4. IsFiniteSet(before) /\ Cardinality(before) \in Nat /\ MaxActive \in Nat /\ Cardinality(before) <= MaxActive
        BY <1>2, <3>3, FS_Subset, FS_CardinalityType DEF ConstantsOK
      <3>5. after \subseteq before \cup {g}
        BY <3>2
      <3>6. CASE Cardinality(before) < MaxActive
        <4>1. IsFiniteSet(before \cup {g}) /\ Cardinality(before \cup {g}) <= Cardinality(before) + 1
          <5>1. IsFiniteSet(before \cup {g})
            BY <3>4, FS_AddElement
          <5>2. Cardinality(before \cup {g}) = IF g \in before THEN Cardinality(before) ELSE Cardinality(before) + 1
            BY <3>4, FS_AddElement
          <5> HIDE DEF before
          <5> QED BY <3>4, <5>1, <5>2
        <4>2. Cardinality(after) <= Cardinality(before \cup {g})
          BY <3>5, <4>1, FS_Subset
        <4>3. Cardinality(after) \in Nat /\ Cardinality(before \cup {g}) \in Nat
          BY <3>5, <4>1, FS_Subset, FS_CardinalityType
        <4> HIDE DEF before, after
        <4> QED BY <3>3, <3>4, <3>6, <4>1, <4>2, <4>3
      <3>7. CASE p \in Seats(H) => p \in Seats(game[g])
        <4>1. after \subseteq before
          BY <3>2, <3>7
        <4>2. Cardinality(after) <= Cardinality(before) /\ Cardinality(after) \in Nat
          BY <3>4, <4>1, FS_Subset, FS_CardinalityType
        <4> HIDE DEF before, after
        <4> QED BY <3>3, <3>4, <4>2
      <3>8. Cardinality(before) < MaxActive \/ (p \in Seats(H) => p \in Seats(game[g]))
        <4>1. CASE StakeGoes(g, H)
          BY <3>3, <4>1 DEF StakeGoes, HasRoom
        <4>2. CASE NoNewSeats(g, H)
          BY <4>2 DEF NoNewSeats
        <4> QED BY <3>1, <4>1, <4>2 DEF MoneyFollows, StakeComesBack, PlayGoesOn, PotIsPaid, Paid
      <3> QED BY <3>6, <3>7, <3>8
    <2> QED BY <1>2, <2>1, <2>2, NextTurns
  <1> HIDE DEF Few
  <1> QED BY <1>0, <1>1, <1>2, PTL DEF Spec

-----------------------------------------------------------------------------
(* The money                                                                *)

Staked == [g \in Games |-> Worth(game[g])]

Money == SumOf(wallet, Players) + SumOf(Staked, Games) + house

LEMMA WorthType == ASSUME ConstantsOK, NEW G PROVE Worth(G) \in Nat
  BY DEF Worth, ConstantsOK

LEMMA MoneyMoves ==
    ASSUME ConstantsOK, IsFiniteSet(Players), IsFiniteSet(Games), Inv, Inv',
           NEW g \in Games, NEW H, Turned(g, H), MoneyFollows(g, H)
    PROVE  Money' = Money
  <1>0. /\ wallet \in [Players -> Nat] /\ wallet' \in [Players -> Nat]
        /\ house \in Nat /\ Stake \in Nat
    BY DEF Inv, Books, ConstantsOK
  <1>1. Worth(H) \in Nat /\ Worth(game[g]) \in Nat
    BY WorthType
  <1>2. SumOf(Staked', Games) = SumOf(Staked, Games) - Worth(game[g]) + Worth(H)
    <2>1. \A x \in Games : Staked[x] = Worth(game[x]) /\ Staked[x] \in Nat
      BY WorthType DEF Staked
    <2>2. \A x \in Games : Staked'[x] = IF x = g THEN Worth(H) ELSE Worth(game[x])
      BY DEF Staked, Turned, Inv, Worth
    <2>3. \A x \in Games : Staked'[x] \in Nat
      BY <1>1, <2>1, <2>2
    <2> DEFINE after == Staked'
    <2>4. /\ \A x \in Games : after[x] \in Nat
          /\ \A x \in Games \ {g} : after[x] = Staked[x]
          /\ after[g] = Worth(H)
      BY <2>1, <2>2, <2>3
    <2> HIDE DEF after
    <2>5. SumOf(after, Games) = SumOf(Staked, Games) - Staked[g] + after[g]
      BY <2>1, <2>4, SumChanges
    <2> QED BY <2>1, <2>4, <2>5 DEF after
  <1>3. SumOf(Staked, Games) \in Nat /\ SumOf(wallet, Players) \in Nat
    BY <1>0, WorthType, SumType DEF Staked
  <1>4. ASSUME NEW p \in Players, NEW h \in [Players -> Nat], \A x \in Players \ {p} : h[x] = wallet[x]
        PROVE  SumOf(h, Players) = SumOf(wallet, Players) - wallet[p] + h[p]
    BY <1>0, <1>4, SumChanges
  <1>5. CASE StakeGoes(g, H)
    <2>1. PICK p \in Players : /\ wallet[p] >= Stake /\ wallet' = [wallet EXCEPT ![p] = @ - Stake]
                               /\ Worth(H) = Worth(game[g]) + Stake /\ UNCHANGED house
      BY <1>5 DEF StakeGoes
    <2>2. SumOf(wallet', Players) = SumOf(wallet, Players) - Stake
      <3> DEFINE h == wallet'
      <3>1. h \in [Players -> Nat] /\ h[p] = wallet[p] - Stake /\ \A x \in Players \ {p} : h[x] = wallet[x]
        BY <1>0, <2>1
      <3> HIDE DEF h
      <3>2. SumOf(h, Players) = SumOf(wallet, Players) - wallet[p] + h[p]
        BY <1>4, <3>1
      <3>3. SumOf(h, Players) = SumOf(wallet, Players) - Stake
        BY <1>0, <1>3, <3>1, <3>2
      <3> QED BY <3>3 DEF h
    <2>3. Money' = SumOf(wallet', Players) + SumOf(Staked', Games) + house'
      BY DEF Money
    <2> QED BY <1>0, <1>1, <1>2, <1>3, <2>1, <2>2, <2>3 DEF Money
  <1>6. CASE StakeComesBack(g, H)
    <2>1. PICK p \in Players : /\ wallet' = [wallet EXCEPT ![p] = @ + Stake]
                               /\ Worth(game[g]) = Worth(H) + Stake /\ UNCHANGED house
      BY <1>6 DEF StakeComesBack
    <2>2. SumOf(wallet', Players) = SumOf(wallet, Players) + Stake
      <3> DEFINE h == wallet'
      <3>1. h \in [Players -> Nat] /\ h[p] = wallet[p] + Stake /\ \A x \in Players \ {p} : h[x] = wallet[x]
        BY <1>0, <2>1
      <3> HIDE DEF h
      <3>2. SumOf(h, Players) = SumOf(wallet, Players) - wallet[p] + h[p]
        BY <1>4, <3>1
      <3>3. SumOf(h, Players) = SumOf(wallet, Players) + Stake
        BY <1>0, <1>3, <3>1, <3>2
      <3> QED BY <3>3 DEF h
    <2>3. Money' = SumOf(wallet', Players) + SumOf(Staked', Games) + house'
      BY DEF Money
    <2> QED BY <1>0, <1>1, <1>2, <1>3, <2>1, <2>2, <2>3 DEF Money
  <1>7. CASE PlayGoesOn(g, H)
    <2>1. wallet' = wallet /\ house' = house /\ Worth(H) = Worth(game[g])
      BY <1>7 DEF PlayGoesOn, money
    <2>2. Money' = SumOf(wallet, Players) + SumOf(Staked', Games) + house
      BY <2>1 DEF Money
    <2> QED BY <1>0, <1>1, <1>2, <1>3, <2>1, <2>2 DEF Money
  <1>8. CASE PotIsPaid(g, H)
    <2>1. PICK p, q \in Players, a, b, fee \in Nat : Paid(g, H, p, q, a, b, fee)
      BY <1>8 DEF PotIsPaid
    <2>2. /\ p # q /\ house' = house + fee
          /\ wallet' = [x \in Players |-> wallet[x] + IF x = p THEN a ELSE IF x = q THEN b ELSE 0]
          /\ Worth(game[g]) = a + b + fee /\ Worth(H) = 0
      BY <2>1 DEF Paid
    <2>3. SumOf(wallet', Players) = SumOf(wallet, Players) + a + b
      <3> DEFINE h == [wallet EXCEPT ![p] = @ + a]
                 k == wallet'
      <3>1. h \in [Players -> Nat] /\ h[p] = wallet[p] + a /\ \A x \in Players \ {p} : h[x] = wallet[x]
        BY <1>0
      <3>2. k \in [Players -> Nat] /\ k[q] = h[q] + b /\ \A x \in Players \ {q} : k[x] = h[x]
        BY <1>0, <2>2
      <3> HIDE DEF h, k
      <3>3. SumOf(h, Players) = SumOf(wallet, Players) - wallet[p] + h[p]
        BY <1>4, <3>1
      <3>4. SumOf(k, Players) = SumOf(h, Players) - h[q] + k[q]
        BY <3>1, <3>2, SumChanges
      <3>5. SumOf(k, Players) = SumOf(wallet, Players) + a + b
        BY <1>0, <1>3, <3>1, <3>2, <3>3, <3>4
      <3> QED BY <3>5 DEF k
    <2>4. Money' = SumOf(wallet', Players) + SumOf(Staked', Games) + house'
      BY DEF Money
    <2> QED BY <1>0, <1>1, <1>2, <1>3, <2>2, <2>3, <2>4 DEF Money
  <1> QED BY <1>5, <1>6, <1>7, <1>8 DEF MoneyFollows

(* Stakes held, wallets and the house's fees are all the money there is.    *)
THEOREM MoneyAddsUp ==
    ASSUME ConstantsOK, IsFiniteSet(Players), IsFiniteSet(Games)
    PROVE  Spec => []StakesAddUp
  <1> DEFINE All == Money = Cardinality(Players) * Opening
  <1>1. Init => Inv /\ All
    <2> SUFFICES ASSUME Init PROVE All
      BY InitInv
    <2>1. wallet = [p \in Players |-> Opening] /\ house = 0 /\ Opening \in Nat
      BY DEF Init, ConstantsOK
    <2>2. Staked = [g \in Games |-> 0]
      BY DEF Init, Staked, Worth, NoGame
    <2>3. SumOf(wallet, Players) = Cardinality(Players) * Opening
      BY <2>1, SumOfConstant
    <2>4. SumOf(Staked, Games) = Cardinality(Games) * 0
      BY <2>2, SumOfConstant
    <2>5. Cardinality(Players) \in Nat /\ Cardinality(Games) \in Nat
      BY FS_CardinalityType
    <2> QED BY <2>1, <2>3, <2>4, <2>5 DEF Money
  <1>2. ASSUME Inv, All, [Next]_vars PROVE Inv' /\ All'
    <2>1. Inv'
      BY <1>2, InvStays
    <2>2. CASE UNCHANGED <<game, money>>
      BY <1>2, <2>1, <2>2 DEF Money, Staked, Worth, money
    <2>3. CASE OneGame
      BY <1>2, <2>1, <2>3, MoneyMoves DEF OneGame
    <2> QED BY <1>2, <2>1, <2>2, <2>3, NextTurns
  <1>3. ASSUME Inv, All PROVE StakesAddUp
    <2>1. MapThenSumSet(LAMBDA p : wallet[p], Players) = SumOf(wallet, Players)
      BY <1>3, SumIsFold DEF Inv, Books
    <2>2. \A g \in Games : Staked[g] \in Nat
      BY WorthType DEF Staked
    <2>3. MapThenSumSet(LAMBDA g : Staked[g], Games) = SumOf(Staked, Games)
      BY <2>2, SumIsFold
    <2>4. MapThenSumSet(Held, Games) = MapThenSumSet(LAMBDA g : Staked[g], Games)
      BY DEF MapThenSumSet, MapThenFoldSet, Held, Staked, Worth
    <2> QED BY <1>3, <2>1, <2>3, <2>4 DEF StakesAddUp, Money
  <1> QED BY <1>1, <1>2, <1>3, PTL DEF Spec

-----------------------------------------------------------------------------
(* Coinflip                                                                 *)

FlipRow == [status : {"none", "open", "settled", "cancelled"}, host : Players \cup {Nobody},
            side : Flip!Sides, stake : Nat, rake : Nat, quoted : Int,
            opponent : Players \cup {Nobody}, winner : Players \cup {Nobody}, payout : Int]

(* Who is in a game agrees with its status.                                 *)
FlipSeated(G) ==
    /\ G.status = "none" <=> G.host = Nobody
    /\ G.status # "settled" => G.opponent = Nobody /\ G.winner = Nobody
    /\ G.status = "settled" => /\ G.host \in Players /\ G.opponent \in Players
                               /\ G.host # G.opponent /\ G.winner \in {G.host, G.opponent}

(* The quote is the pot less the fee the game keeps, and is what it pays.   *)
QuoteIsKept(G) ==
    /\ G.status = "open" =>
          /\ G.rake \in Rakes /\ G.stake \in Stakes
          /\ G.quoted = 2 * G.stake - Flip!PotRake(G.stake, G.rake)
    /\ G.status = "settled" => G.payout = G.quoted

FlipRowOK(G) == G \in FlipRow /\ FlipSeated(G) /\ QuoteIsKept(G)

FlipInv ==
    /\ game \in [Flips -> FlipRow] /\ \A g \in Flips : FlipRowOK(game[g])
    /\ wallet \in [Players -> Nat] /\ wagered \in [Players -> Nat] /\ house \in Nat
    /\ rakeBps \in Rakes /\ listed \subseteq Flips

(* The host puts up his stake.                                              *)
HostStakes(g, H, p) ==
    /\ game[g].status = "none" /\ H.status = "open"
    /\ wallet[p] >= H.stake /\ wallet' = [wallet EXCEPT ![p] = @ - H.stake]
    /\ house' = house /\ wagered' = wagered

(* The host gets it back.                                                   *)
HostIsRefunded(g, H, p) ==
    /\ game[g].status = "open" /\ H.status = "cancelled"
    /\ wallet' = [wallet EXCEPT ![p] = @ + game[g].stake]
    /\ house' = house /\ wagered' = wagered

(* Another stakes as much, and the coin is flipped.                         *)
CoinIsFlipped(g, H, p) ==
    /\ game[g].status = "open" /\ H.status = "settled" /\ H.stake = game[g].stake
    /\ H.opponent = p /\ H.payout \in 0..(2 * H.stake)
    /\ wallet[p] >= H.stake
    /\ wallet' = [q \in Players |-> wallet[q] - (IF q = p THEN H.stake ELSE 0)
                                              + (IF q = H.winner THEN H.payout ELSE 0)]
    /\ house' = house + 2 * H.stake - H.payout
    /\ wagered' = [q \in Players |-> wagered[q] + (IF q \in {H.host, H.opponent} THEN H.stake ELSE 0)]

FlipTurned(g, H, p) ==
    /\ game' = [game EXCEPT ![g] = H] /\ FlipRowOK(H)
    /\ HostStakes(g, H, p) \/ HostIsRefunded(g, H, p) \/ CoinIsFlipped(g, H, p)

OneFlip == \E g \in Flips, p \in Players : \E H : FlipTurned(g, H, p)

NoFlip == UNCHANGED <<game, wallet, house, wagered>>

LEMMA FlipRakes ==
    ASSUME Flip!ConstantsOK, NEW bps \in Rakes, NEW stake \in Stakes
    PROVE  /\ Flip!PotRake(stake, bps) \in 0..(2 * stake)
           /\ bps \in 0..1000 /\ stake \in Nat /\ stake > 0
  <1>1. stake \in Nat \ {0} /\ bps \in 0..1000
    BY DEF Flip!ConstantsOK
  <1>2. (2 * stake) * bps \in Nat /\ (2 * stake) * bps <= (2 * stake) * 1000
    BY <1>1
  <1>3. ASSUME NEW n \in Nat, NEW m \in Nat, m <= n * 1000 PROVE m \div 10000 \in 0..n
    BY <1>3
  <1>4. (2 * stake * bps) \div 10000 \in 0..(2 * stake)
    BY <1>1, <1>2, <1>3
  <1> QED BY <1>1, <1>4 DEF Flip!PotRake

LEMMA FlipCreates ==
    ASSUME Flip!ConstantsOK, FlipInv, NEW g \in Flips, NEW p \in Players,
           NEW side \in Flip!Sides, NEW stake \in Stakes, Flip!Create(g, p, side, stake)
    PROVE  OneFlip
  <1> DEFINE quote == 2 * stake - Flip!PotRake(stake, rakeBps)
             H == [Flip!NoGame EXCEPT !.status = "open", !.host = p, !.side = side,
                                      !.stake = stake, !.rake = rakeBps, !.quoted = quote]
  <1>1. rakeBps \in Rakes /\ game[g].status = "none" /\ p # Nobody
    BY DEF FlipInv, Flip!Create, Flip!ConstantsOK, Nobody, Flip!Nobody
  <1>2. quote \in Int /\ stake \in Nat /\ rakeBps \in Nat
    BY <1>1, FlipRakes
  <1>3. game' = [game EXCEPT ![g] = H]
    BY DEF Flip!Create
  <1>4. /\ H.status = "open" /\ H.host = p /\ H.stake = stake /\ H.rake = rakeBps /\ H.quoted = quote
        /\ H.opponent = Nobody /\ H.winner = Nobody
    BY DEF Flip!NoGame, Nobody, Flip!Nobody
  <1>5. H \in FlipRow
    <2>1. Flip!NoGame \in FlipRow
      BY DEF Flip!NoGame, FlipRow, Flip!Sides, Nobody, Flip!Nobody
    <2> HIDE DEF quote
    <2> QED BY <1>2, <2>1 DEF FlipRow
  <1> HIDE DEF H
  <1>6. FlipRowOK(H)
    BY <1>1, <1>4, <1>5 DEF FlipRowOK, FlipSeated, QuoteIsKept
  <1>7. HostStakes(g, H, p)
    BY <1>1, <1>4 DEF HostStakes, Flip!Create, Flip!WageredAtOpening
  <1> QED BY <1>3, <1>6, <1>7 DEF OneFlip, FlipTurned

LEMMA FlipRefunds ==
    ASSUME Flip!ConstantsOK, FlipInv, NEW g \in Flips, Flip!Refund(g)
    PROVE  OneFlip
  <1> DEFINE G == game[g]
             H == [G EXCEPT !.status = "cancelled"]
  <1>1. FlipRowOK(G) /\ G \in FlipRow /\ G.status = "open" /\ game \in [Flips -> FlipRow]
    BY DEF FlipInv, Flip!Refund, Flip!Refundable
  <1>2. G.host \in Players
    BY <1>1 DEF FlipRowOK, FlipSeated, FlipRow
  <1>3. game' = [game EXCEPT ![g] = H]
    BY <1>1 DEF Flip!Refund
  <1>4. /\ H.status = "cancelled" /\ H.host = G.host /\ H.opponent = G.opponent /\ H.winner = G.winner
        /\ H \in FlipRow
    BY <1>1 DEF FlipRow
  <1> HIDE DEF H
  <1>5. FlipRowOK(H)
    BY <1>1, <1>4 DEF FlipRowOK, FlipSeated, QuoteIsKept
  <1>6. HostIsRefunded(g, H, G.host)
    BY <1>1, <1>4 DEF HostIsRefunded, Flip!Refund
  <1> QED BY <1>2, <1>3, <1>5, <1>6 DEF OneFlip, FlipTurned

LEMMA FlipJoins ==
    ASSUME Flip!ConstantsOK, FlipInv, NEW g \in Flips, NEW p \in Players, Flip!Join(g, p)
    PROVE  OneFlip
  <1> DEFINE G == game[g]
  <1>1. FlipRowOK(G) /\ G \in FlipRow /\ G.status = "open" /\ G.host # p /\ wallet[p] >= G.stake
    BY DEF FlipInv, Flip!Join
  <1>2. PICK result \in Flip!Sides :
            /\ game' = [game EXCEPT ![g] = Flip!Flipped(G, p, result)]
            /\ wallet' = [q \in Players |->
                  wallet[q] - (IF q = p THEN G.stake ELSE 0)
                            + (IF q = Flip!Flipped(G, p, result).winner
                               THEN Flip!Flipped(G, p, result).payout ELSE 0)]
            /\ house' = house + 2 * G.stake - Flip!Flipped(G, p, result).payout
    BY DEF Flip!Join
  <1> DEFINE H == Flip!Flipped(G, p, result)
             payout == 2 * G.stake - Flip!PotRake(G.stake, G.rake)
             won == IF result = G.side THEN G.host ELSE p
  <1>3. /\ G.rake \in Rakes /\ G.stake \in Stakes /\ G.host \in Players /\ p # Nobody
        /\ G.quoted = payout
    BY <1>1 DEF FlipRowOK, FlipSeated, QuoteIsKept, FlipRow, Flip!ConstantsOK, Nobody, Flip!Nobody
  <1>4. G.stake \in Nat /\ payout \in 0..(2 * G.stake)
    <2>1. Flip!PotRake(G.stake, G.rake) \in 0..(2 * G.stake) /\ G.stake \in Nat
      BY <1>3, FlipRakes
    <2> QED BY <2>1
  <1>5. won \in {G.host, p}
    OBVIOUS
  <1>6. H = [G EXCEPT !.status = "settled", !.opponent = p, !.winner = won, !.payout = payout]
    BY DEF Flip!Flipped, Flip!FeeOf
  <1> HIDE DEF payout, won
  <1>7. /\ H.status = "settled" /\ H.opponent = p /\ H.winner = won /\ H.payout = payout
        /\ H.host = G.host /\ H.stake = G.stake /\ H.quoted = G.quoted
    <2> HIDE DEF H
    <2> QED BY <1>1, <1>6 DEF FlipRow
  <1>8. H \in FlipRow
    <2> HIDE DEF H
    <2> QED BY <1>1, <1>3, <1>4, <1>5, <1>6 DEF FlipRow
  <1>9. wagered' = [q \in Players |-> wagered[q] + (IF q \in {p, G.host} THEN G.stake ELSE 0)]
    BY DEF Flip!Join
  <1>10. {p, G.host} = {G.host, p}
    OBVIOUS
  <1> HIDE DEF H
  <1>11. FlipRowOK(H)
    BY <1>1, <1>3, <1>5, <1>7, <1>8 DEF FlipRowOK, FlipSeated, QuoteIsKept, Nobody
  <1>12. CoinIsFlipped(g, H, p)
    BY <1>1, <1>2, <1>4, <1>7, <1>9, <1>10 DEF CoinIsFlipped, H
  <1>13. game' = [game EXCEPT ![g] = H]
    BY <1>2 DEF H
  <1> QED BY <1>11, <1>12, <1>13 DEF OneFlip, FlipTurned

FlipSettingsOK == rakeBps' \in Rakes /\ listed' \subseteq Flips

LEMMA FlipNextTurns ==
    ASSUME Flip!ConstantsOK, FlipInv, [Flip!Next]_Flip!vars
    PROVE  (OneFlip \/ NoFlip) /\ FlipSettingsOK
  <1>0. rakeBps \in Rakes /\ listed \subseteq Flips
    BY DEF FlipInv
  <1>1. ASSUME NEW g \in Flips, NEW p \in Players, Flip!Join(g, p) PROVE OneFlip /\ FlipSettingsOK
    BY <1>0, <1>1, FlipJoins DEF Flip!Join, Flip!world, FlipSettingsOK
  <1>2. ASSUME NEW g \in Flips, NEW p \in Players, NEW side \in Flip!Sides, NEW stake \in Stakes,
               Flip!Create(g, p, side, stake)
        PROVE  OneFlip /\ FlipSettingsOK
    BY <1>0, <1>2, FlipCreates DEF Flip!Create, Flip!world, FlipSettingsOK
  <1>3. ASSUME NEW g \in Flips, Flip!Cancel(g) PROVE OneFlip /\ FlipSettingsOK
    BY <1>0, <1>3, FlipRefunds DEF Flip!Cancel, Flip!Refund, Flip!world, FlipSettingsOK
  <1>4. ASSUME NEW g \in Flips, Flip!SweepOne(g) PROVE (OneFlip \/ NoFlip) /\ FlipSettingsOK
    <2>1. CASE Flip!Refund(g)
      BY <1>0, <1>4, <2>1, FlipRefunds DEF Flip!SweepOne, Flip!Refund, Flip!world, FlipSettingsOK
    <2>2. CASE UNCHANGED <<game, wallet, house, wagered, Flip!world>>
      BY <1>0, <1>4, <2>2 DEF Flip!SweepOne, Flip!world, FlipSettingsOK, NoFlip
    <2> QED BY <1>4, <2>1, <2>2 DEF Flip!SweepOne
  <1>5. CASE Flip!SweepReads \/ Flip!SweepFails
    BY <1>0, <1>5 DEF Flip!SweepReads, Flip!SweepFails, Flip!Lapsed, Flip!world, FlipSettingsOK, NoFlip
  <1>6. ASSUME NEW g \in Flips, Flip!LateHere(g) \/ Flip!LateThere(g) PROVE NoFlip /\ FlipSettingsOK
    BY <1>0, <1>6 DEF Flip!LateHere, Flip!LateThere, FlipSettingsOK, NoFlip
  <1>7. ASSUME NEW bps \in Rakes, Flip!SetFee(bps) PROVE NoFlip /\ FlipSettingsOK
    BY <1>0, <1>7 DEF Flip!SetFee, FlipSettingsOK, NoFlip
  <1>8. ASSUME NEW on \in BOOLEAN, Flip!Switch(on) PROVE NoFlip /\ FlipSettingsOK
    BY <1>0, <1>8 DEF Flip!Switch, FlipSettingsOK, NoFlip
  <1>9. CASE UNCHANGED Flip!vars
    BY <1>0, <1>9 DEF Flip!vars, FlipSettingsOK, NoFlip
  <1> QED BY <1>1, <1>2, <1>3, <1>4, <1>5, <1>6, <1>7, <1>8, <1>9
          DEF Flip!Next, Flip!PlayerNext, Flip!SweeperNext

LEMMA FlipInitInv == ASSUME Flip!ConstantsOK, Flip!Init PROVE FlipInv
  <1>1. Flip!NoGame \in FlipRow
    BY DEF Flip!NoGame, FlipRow, Flip!Sides, Nobody, Flip!Nobody
  <1>2. FlipRowOK(Flip!NoGame)
    BY <1>1 DEF FlipRowOK, FlipSeated, QuoteIsKept, Flip!NoGame, Nobody, Flip!Nobody
  <1>3. game = [g \in Flips |-> Flip!NoGame]
    BY DEF Flip!Init
  <1> QED BY <1>1, <1>2, <1>3 DEF FlipInv, Flip!Init, Flip!ConstantsOK

LEMMA FlipInvStays ==
    ASSUME Flip!ConstantsOK, FlipInv, [Flip!Next]_Flip!vars
    PROVE  FlipInv'
  <1>1. FlipSettingsOK
    BY FlipNextTurns
  <1>2. CASE NoFlip
    BY <1>1, <1>2 DEF FlipInv, NoFlip, FlipSettingsOK
  <1>3. CASE OneFlip
    <2>0. PICK g \in Flips, p \in Players : \E H : FlipTurned(g, H, p)
      BY <1>3 DEF OneFlip
    <2>1. PICK H : FlipTurned(g, H, p)
      BY <2>0
    <2>2. game' = [game EXCEPT ![g] = H] /\ FlipRowOK(H) /\ H \in FlipRow
      BY <2>1 DEF FlipTurned, FlipRowOK
    <2>3. game' \in [Flips -> FlipRow] /\ \A x \in Flips : FlipRowOK(game'[x])
      BY <2>2 DEF FlipInv
    <2>4. /\ wallet \in [Players -> Nat] /\ wagered \in [Players -> Nat] /\ house \in Nat
          /\ H.stake \in Nat /\ game[g].stake \in Nat
      BY <2>2 DEF FlipInv, FlipRow
    <2>5. wallet' \in [Players -> Nat] /\ wagered' \in [Players -> Nat] /\ house' \in Nat
      <3>1. CASE HostStakes(g, H, p)
        BY <2>4, <3>1 DEF HostStakes
      <3>2. CASE HostIsRefunded(g, H, p)
        BY <2>4, <3>2 DEF HostIsRefunded
      <3>3. CASE CoinIsFlipped(g, H, p)
        BY <2>4, <3>3 DEF CoinIsFlipped
      <3> QED BY <2>1, <3>1, <3>2, <3>3 DEF FlipTurned
    <2> QED BY <1>1, <2>3, <2>5 DEF FlipInv, FlipSettingsOK
  <1> QED BY <1>2, <1>3, FlipNextTurns

(* The columns of a coinflip agree with its status.                         *)
THEOREM FlipTypeCorrect == ASSUME Flip!ConstantsOK PROVE Flip!Spec => []Flip!TypeOK
  <1>1. Flip!Init => FlipInv
    BY FlipInitInv
  <1>2. FlipInv /\ [Flip!Next]_Flip!vars => FlipInv'
    BY FlipInvStays
  <1>3. FlipInv => Flip!TypeOK
    <2> SUFFICES ASSUME FlipInv PROVE Flip!TypeOK
      OBVIOUS
    <2>1. ASSUME NEW g \in Flips
          PROVE  LET G == game[g]
                 IN  /\ G.status \in {"none", "open", "settled", "cancelled"}
                     /\ G.status = "none" <=> G.host = Nobody
                     /\ G.status = "settled" <=> G.opponent # Nobody
                     /\ G.status = "settled" <=> G.winner \in {G.host, G.opponent} \ {Nobody}
      <3>1. FlipRowOK(game[g]) /\ game[g] \in FlipRow /\ Nobody \notin Players
        BY DEF FlipInv, Flip!ConstantsOK, Nobody, Flip!Nobody
      <3> QED BY <3>1 DEF FlipRowOK, FlipSeated, FlipRow
    <2> QED BY <2>1 DEF FlipInv, Flip!TypeOK, Nobody, Flip!Nobody
  <1> QED BY <1>1, <1>2, <1>3, PTL DEF Flip!Spec

(* A coinflip pays what the board quoted when it was opened.                *)
THEOREM FlipPaidAsQuoted == ASSUME Flip!ConstantsOK PROVE Flip!Spec => []Flip!QuotedIsPaid
  <1>1. Flip!Init => FlipInv
    BY FlipInitInv
  <1>2. FlipInv /\ [Flip!Next]_Flip!vars => FlipInv'
    BY FlipInvStays
  <1>3. FlipInv => Flip!QuotedIsPaid
    BY DEF FlipInv, FlipRowOK, QuoteIsKept, Flip!QuotedIsPaid
  <1> QED BY <1>1, <1>2, <1>3, PTL DEF Flip!Spec

(* What the wagers must be: the stakes of the flipped coins q had a side of.*)
Flown(rows, q) ==
    [g \in Flips |-> IF rows[g].status = "settled" /\ q \in {rows[g].host, rows[g].opponent}
                     THEN rows[g].stake ELSE 0]

FlipStaked(rows) == [g \in Flips |-> IF rows[g].status = "open" THEN rows[g].stake ELSE 0]

FlipMoney == SumOf(wallet, Players) + SumOf(FlipStaked(game), Flips) + house

(* A figure per game, after one game has changed.                           *)
LEMMA RowChanges ==
    ASSUME IsFiniteSet(Flips), FlipInv, NEW g \in Flips, NEW H, FlipRowOK(H),
           game' = [game EXCEPT ![g] = H]
    PROVE  /\ \A q \in Players :
                 SumOf(Flown(game', q), Flips)
                     = SumOf(Flown(game, q), Flips) - Flown(game, q)[g] + Flown(game', q)[g]
           /\ SumOf(FlipStaked(game'), Flips)
                  = SumOf(FlipStaked(game), Flips) - FlipStaked(game)[g] + FlipStaked(game')[g]
           /\ SumOf(FlipStaked(game), Flips) \in Nat
           /\ \A q \in Players : SumOf(Flown(game, q), Flips) \in Nat
  <1> DEFINE after == game'
  <1>1. after = [game EXCEPT ![g] = H] /\ game \in [Flips -> FlipRow] /\ H \in FlipRow
    BY DEF FlipInv, FlipRowOK
  <1>2. \A x \in Flips : game[x].stake \in Nat /\ after[x].stake \in Nat
    BY <1>1 DEF FlipRow
  <1>3. \A x \in Flips \ {g} : after[x] = game[x]
    BY <1>1
  <1> HIDE DEF after
  <1>4. ASSUME NEW q \in Players
        PROVE  /\ SumOf(Flown(after, q), Flips)
                      = SumOf(Flown(game, q), Flips) - Flown(game, q)[g] + Flown(after, q)[g]
               /\ SumOf(Flown(game, q), Flips) \in Nat
    <2>1. \A x \in Flips : Flown(game, q)[x] \in Nat /\ Flown(after, q)[x] \in Nat
      BY <1>2 DEF Flown
    <2>2. \A x \in Flips \ {g} : Flown(after, q)[x] = Flown(game, q)[x]
      BY <1>3 DEF Flown
    <2> QED BY <2>1, <2>2, SumChanges, SumType
  <1>5. /\ SumOf(FlipStaked(after), Flips)
               = SumOf(FlipStaked(game), Flips) - FlipStaked(game)[g] + FlipStaked(after)[g]
        /\ SumOf(FlipStaked(game), Flips) \in Nat
    <2>1. \A x \in Flips : FlipStaked(game)[x] \in Nat /\ FlipStaked(after)[x] \in Nat
      BY <1>2 DEF FlipStaked
    <2>2. \A x \in Flips \ {g} : FlipStaked(after)[x] = FlipStaked(game)[x]
      BY <1>3 DEF FlipStaked
    <2> QED BY <2>1, <2>2, SumChanges, SumType
  <1> QED BY <1>4, <1>5 DEF after

LEMMA FlipMoneyMoves ==
    ASSUME IsFiniteSet(Players), IsFiniteSet(Flips), FlipInv, FlipInv',
           NEW g \in Flips, NEW p \in Players, NEW H, FlipTurned(g, H, p)
    PROVE  /\ FlipMoney' = FlipMoney
           /\ \A q \in Players : wagered'[q] - SumOf(Flown(game', q), Flips)
                                     = wagered[q] - SumOf(Flown(game, q), Flips)
  <1>1. game' = [game EXCEPT ![g] = H] /\ FlipRowOK(H) /\ H \in FlipRow
    BY DEF FlipTurned, FlipRowOK
  <1>2. /\ game \in [Flips -> FlipRow] /\ game[g] \in FlipRow /\ game'[g] = H
        /\ wallet \in [Players -> Nat] /\ wallet' \in [Players -> Nat]
        /\ wagered \in [Players -> Nat] /\ house \in Nat
    BY <1>1 DEF FlipInv
  <1>3. H.stake \in Nat /\ game[g].stake \in Nat
    BY <1>1, <1>2 DEF FlipRow
  <1>4. /\ SumOf(wallet, Players) \in Nat
        /\ FlipStaked(game)[g] = IF game[g].status = "open" THEN game[g].stake ELSE 0
        /\ FlipStaked(game')[g] = IF H.status = "open" THEN H.stake ELSE 0
        /\ \A q \in Players :
              /\ Flown(game, q)[g] = IF game[g].status = "settled" /\ q \in {game[g].host, game[g].opponent}
                                     THEN game[g].stake ELSE 0
              /\ Flown(game', q)[g] = IF H.status = "settled" /\ q \in {H.host, H.opponent}
                                      THEN H.stake ELSE 0
    BY <1>2, SumType DEF FlipStaked, Flown
  <1>5. /\ SumOf(FlipStaked(game'), Flips)
               = SumOf(FlipStaked(game), Flips) - FlipStaked(game)[g] + FlipStaked(game')[g]
        /\ SumOf(FlipStaked(game), Flips) \in Nat
        /\ \A q \in Players : /\ SumOf(Flown(game, q), Flips) \in Nat
                              /\ SumOf(Flown(game', q), Flips)
                                     = SumOf(Flown(game, q), Flips) - Flown(game, q)[g] + Flown(game', q)[g]
    BY <1>1, RowChanges
  <1>6. FlipMoney' = SumOf(wallet', Players) + SumOf(FlipStaked(game'), Flips) + house'
    BY DEF FlipMoney, FlipStaked
  <1>7. ASSUME NEW q \in Players, NEW h \in [Players -> Nat], \A x \in Players \ {q} : h[x] = wallet[x]
        PROVE  SumOf(h, Players) = SumOf(wallet, Players) - wallet[q] + h[q]
    BY <1>2, <1>7, SumChanges
  <1>8. CASE HostStakes(g, H, p)
    <2> DEFINE h == wallet'
    <2>1. h \in [Players -> Nat] /\ h[p] = wallet[p] - H.stake /\ \A x \in Players \ {p} : h[x] = wallet[x]
      BY <1>2, <1>8 DEF HostStakes
    <2> HIDE DEF h
    <2>2. SumOf(h, Players) = SumOf(wallet, Players) - H.stake
      BY <1>2, <1>3, <1>4, <1>7, <2>1
    <2>3. /\ game[g].status = "none" /\ H.status = "open" /\ house' = house /\ wagered' = wagered
          /\ SumOf(wallet', Players) = SumOf(wallet, Players) - H.stake
      BY <1>8, <2>2 DEF HostStakes, h
    <2>4. FlipStaked(game)[g] = 0 /\ FlipStaked(game')[g] = H.stake
      BY <1>4, <2>3
    <2>5. FlipMoney' = FlipMoney
      BY <1>2, <1>3, <1>4, <1>5, <1>6, <2>3, <2>4 DEF FlipMoney
    <2>6. \A q \in Players : Flown(game, q)[g] = 0 /\ Flown(game', q)[g] = 0
      BY <1>4, <2>3
    <2> QED BY <1>2, <1>5, <2>3, <2>5, <2>6
  <1>9. CASE HostIsRefunded(g, H, p)
    <2> DEFINE h == wallet'
    <2>1. h \in [Players -> Nat] /\ h[p] = wallet[p] + game[g].stake /\ \A x \in Players \ {p} : h[x] = wallet[x]
      BY <1>2, <1>9 DEF HostIsRefunded
    <2> HIDE DEF h
    <2>2. SumOf(h, Players) = SumOf(wallet, Players) + game[g].stake
      BY <1>2, <1>3, <1>4, <1>7, <2>1
    <2>3. /\ game[g].status = "open" /\ H.status = "cancelled" /\ house' = house /\ wagered' = wagered
          /\ SumOf(wallet', Players) = SumOf(wallet, Players) + game[g].stake
      BY <1>9, <2>2 DEF HostIsRefunded, h
    <2>4. FlipStaked(game)[g] = game[g].stake /\ FlipStaked(game')[g] = 0
      BY <1>4, <2>3
    <2>5. FlipMoney' = FlipMoney
      BY <1>2, <1>3, <1>4, <1>5, <1>6, <2>3, <2>4 DEF FlipMoney
    <2>6. \A q \in Players : Flown(game, q)[g] = 0 /\ Flown(game', q)[g] = 0
      BY <1>4, <2>3
    <2> QED BY <1>2, <1>5, <2>3, <2>5, <2>6
  <1>10. CASE CoinIsFlipped(g, H, p)
    <2>1. /\ game[g].status = "open" /\ H.status = "settled" /\ H.stake = game[g].stake
          /\ H.payout \in 0..(2 * H.stake) /\ wallet[p] >= H.stake
          /\ wallet' = [q \in Players |-> wallet[q] - (IF q = p THEN H.stake ELSE 0)
                                                    + (IF q = H.winner THEN H.payout ELSE 0)]
          /\ house' = house + 2 * H.stake - H.payout
          /\ wagered' = [q \in Players |-> wagered[q] + (IF q \in {H.host, H.opponent} THEN H.stake ELSE 0)]
      BY <1>10 DEF CoinIsFlipped
    <2>2. H.winner \in Players
      BY <1>1, <2>1 DEF FlipRowOK, FlipSeated
    <2> DEFINE h == [wallet EXCEPT ![p] = @ - H.stake]
               k == wallet'
               w == H.winner
    <2>3. h \in [Players -> Nat] /\ h[p] = wallet[p] - H.stake /\ \A x \in Players \ {p} : h[x] = wallet[x]
      BY <1>2, <1>3, <2>1
    <2>4. k \in [Players -> Nat] /\ k[w] = h[w] + H.payout /\ \A x \in Players \ {w} : k[x] = h[x]
      BY <1>2, <1>3, <2>1, <2>2
    <2> HIDE DEF h, k, w
    <2>5. SumOf(h, Players) = SumOf(wallet, Players) - H.stake
      BY <1>2, <1>3, <1>4, <1>7, <2>3
    <2>6. SumOf(k, Players) = SumOf(h, Players) - h[w] + k[w]
      BY <2>2, <2>3, <2>4, SumChanges DEF w
    <2>7. SumOf(k, Players) = SumOf(wallet, Players) - H.stake + H.payout
      BY <1>3, <1>4, <2>1, <2>2, <2>3, <2>4, <2>5, <2>6 DEF w
    <2>8. FlipStaked(game)[g] = H.stake /\ FlipStaked(game')[g] = 0
      BY <1>4, <2>1
    <2>9. SumOf(wallet', Players) = SumOf(wallet, Players) - H.stake + H.payout
      BY <2>7 DEF k
    <2>10. FlipMoney' = FlipMoney
      <3> DEFINE W == SumOf(wallet, Players)
                 T == SumOf(FlipStaked(game), Flips)
      <3>1. H.payout \in Int /\ H.stake \in Int /\ house \in Int /\ W \in Int /\ T \in Int
        BY <1>2, <1>3, <1>4, <1>5, <2>1
      <3>2. FlipMoney' = (W - H.stake + H.payout) + (T - H.stake + 0) + (house + 2 * H.stake - H.payout)
        BY <1>5, <1>6, <2>1, <2>8, <2>9
      <3>3. FlipMoney = W + T + house
        BY DEF FlipMoney
      <3> HIDE DEF W, T
      <3> QED BY <3>1, <3>2, <3>3
    <2>11. \A q \in Players : /\ Flown(game, q)[g] = 0
                              /\ Flown(game', q)[g] = IF q \in {H.host, H.opponent} THEN H.stake ELSE 0
                              /\ wagered'[q] = wagered[q] + (IF q \in {H.host, H.opponent} THEN H.stake ELSE 0)
      BY <1>4, <2>1
    <2> SUFFICES ASSUME NEW q \in Players
                 PROVE  wagered'[q] - SumOf(Flown(game', q), Flips) = wagered[q] - SumOf(Flown(game, q), Flips)
      BY <2>10
    <2> DEFINE F == SumOf(Flown(game, q), Flips)
               n == IF q \in {H.host, H.opponent} THEN H.stake ELSE 0
    <2>12. F \in Int /\ n \in Int /\ wagered[q] \in Int
      BY <1>2, <1>3, <1>5
    <2>13. SumOf(Flown(game', q), Flips) = F - 0 + n /\ wagered'[q] = wagered[q] + n
      BY <1>5, <2>11
    <2> HIDE DEF F, n
    <2>14. wagered'[q] - SumOf(Flown(game', q), Flips) = wagered[q] - F
      BY <2>12, <2>13
    <2> QED BY <2>14 DEF F
  <1> QED BY <1>8, <1>9, <1>10 DEF FlipTurned

(* Nothing is lost or made between the wallets, the board and the house,    *)
(* and a stake is a wager exactly when its coin is flipped.                 *)
FlipAddsUp ==
    /\ FlipMoney = Cardinality(Players) * Opening
    /\ \A q \in Players : wagered[q] = SumOf(Flown(game, q), Flips)

LEMMA FlipAccount ==
    ASSUME Flip!ConstantsOK, IsFiniteSet(Players), IsFiniteSet(Flips)
    PROVE  /\ Flip!Init => FlipInv /\ FlipAddsUp
           /\ FlipInv /\ FlipAddsUp /\ [Flip!Next]_Flip!vars => FlipInv' /\ FlipAddsUp'
  <1>1. ASSUME Flip!Init PROVE FlipAddsUp
    <2>1. /\ wallet = [p \in Players |-> Opening] /\ house = 0 /\ Opening \in Nat
          /\ game = [g \in Flips |-> Flip!NoGame] /\ wagered = [p \in Players |-> 0]
      BY <1>1 DEF Flip!Init, Flip!ConstantsOK
    <2>2. FlipStaked(game) = [g \in Flips |-> 0] /\ \A q \in Players : Flown(game, q) = [g \in Flips |-> 0]
      BY <2>1 DEF FlipStaked, Flown, Flip!NoGame
    <2>3. SumOf(wallet, Players) = Cardinality(Players) * Opening
      BY <2>1, SumOfConstant
    <2>4. SumOf([g \in Flips |-> 0], Flips) = Cardinality(Flips) * 0
      BY SumOfConstant
    <2>5. Cardinality(Players) \in Nat /\ Cardinality(Flips) \in Nat
      BY FS_CardinalityType
    <2>6. SumOf([g \in Flips |-> 0], Flips) = 0
      BY <2>4, <2>5
    <2> QED BY <2>1, <2>2, <2>3, <2>5, <2>6 DEF FlipMoney, FlipAddsUp
  <1>2. ASSUME FlipInv, FlipAddsUp, [Flip!Next]_Flip!vars PROVE FlipInv' /\ FlipAddsUp'
    <2>1. FlipInv'
      BY <1>2, FlipInvStays
    <2>2. CASE NoFlip
      BY <1>2, <2>1, <2>2 DEF NoFlip, FlipAddsUp, FlipMoney, Flown, FlipStaked
    <2>3. CASE OneFlip
      <3>0. PICK g \in Flips, p \in Players : \E H : FlipTurned(g, H, p)
        BY <2>3 DEF OneFlip
      <3>1. PICK H : FlipTurned(g, H, p)
        BY <3>0
      <3>2. /\ FlipMoney' = FlipMoney
            /\ \A q \in Players : wagered'[q] - SumOf(Flown(game', q), Flips)
                                      = wagered[q] - SumOf(Flown(game, q), Flips)
        BY <1>2, <2>1, <3>1, FlipMoneyMoves
      <3>3. ASSUME NEW q \in Players PROVE wagered'[q] = SumOf(Flown(game', q), Flips)
        <4>1. wagered[q] = SumOf(Flown(game, q), Flips) /\ wagered[q] \in Int /\ wagered'[q] \in Int
          BY <1>2, <2>1 DEF FlipInv, FlipAddsUp
        <4>2. \A x \in Flips : Flown(game', q)[x] \in Nat
          BY <2>1 DEF FlipInv, FlipRow, Flown
        <4>3. SumOf(Flown(game', q), Flips) \in Int
          <5> DEFINE f == Flown(game', q)
          <5>1. \A x \in Flips : f[x] \in Nat
            BY <4>2
          <5> HIDE DEF f
          <5>2. SumOf(f, Flips) \in Nat
            BY <5>1, SumType
          <5> QED BY <5>2 DEF f
        <4>4. wagered'[q] - SumOf(Flown(game', q), Flips) = wagered[q] - SumOf(Flown(game, q), Flips)
          BY <3>2
        <4> QED BY <4>1, <4>3, <4>4
      <3>4. FlipAddsUp' = (/\ FlipMoney' = Cardinality(Players) * Opening
                           /\ \A q \in Players : wagered'[q] = SumOf(Flown(game', q), Flips))
        BY DEF FlipAddsUp, Flown
      <3> QED BY <1>2, <2>1, <3>2, <3>3, <3>4 DEF FlipAddsUp
    <2> QED BY <1>2, <2>2, <2>3, FlipNextTurns
  <1> QED BY <1>1, <1>2, FlipInitInv

(* The library's operators, as Coinflip has them.                           *)
LEMMA FlipFolds ==
    ASSUME NEW S, IsFiniteSet(S), NEW f, \A x \in S : f[x] \in Nat
    PROVE  Flip!MapThenSumSet(LAMBDA x : f[x], S) = SumOf(f, S)
  <1>1. Flip!MapThenSumSet(LAMBDA x : f[x], S) = MapThenSumSet(LAMBDA x : f[x], S)
    BY DEF Flip!MapThenSumSet, Flip!MapThenFoldSet, MapThenSumSet, MapThenFoldSet
  <1> QED BY <1>1, SumIsFold

LEMMA FlipCardinality ==
    ASSUME NEW S
    PROVE  Flip!Cardinality(S) = Cardinality(S)
  BY DEF Flip!Cardinality, Cardinality

(* Wallets, the stakes on the board and the fees are all the money there is.*)
THEOREM FlipMoneyAddsUp ==
    ASSUME Flip!ConstantsOK, IsFiniteSet(Players), IsFiniteSet(Flips)
    PROVE  Flip!Spec => []Flip!StakesAddUp
  <1>1. Flip!Init => FlipInv /\ FlipAddsUp
    BY FlipAccount
  <1>2. FlipInv /\ FlipAddsUp /\ [Flip!Next]_Flip!vars => (FlipInv /\ FlipAddsUp)'
    BY FlipAccount
  <1>3. ASSUME FlipInv, FlipAddsUp PROVE Flip!StakesAddUp
    <2>1. Flip!MapThenSumSet(LAMBDA p : wallet[p], Players) = SumOf(wallet, Players)
      BY <1>3, FlipFolds DEF FlipInv
    <2>2. \A g \in Flips : FlipStaked(game)[g] \in Nat
      BY <1>3 DEF FlipInv, FlipRow, FlipStaked
    <2>3. Flip!MapThenSumSet(LAMBDA g : FlipStaked(game)[g], Flips) = SumOf(FlipStaked(game), Flips)
      BY <2>2, FlipFolds
    <2>4. Flip!MapThenSumSet(Flip!Held, Flips) = Flip!MapThenSumSet(LAMBDA g : FlipStaked(game)[g], Flips)
      BY DEF Flip!MapThenSumSet, Flip!MapThenFoldSet, Flip!Held, FlipStaked
    <2> QED BY <1>3, <2>1, <2>3, <2>4, FlipCardinality DEF Flip!StakesAddUp, FlipAddsUp, FlipMoney
  <1> QED BY <1>1, <1>2, <1>3, PTL DEF Flip!Spec

(* A stake counts as a wager if and only if its coin was flipped.           *)
THEOREM FlippedIsWagered ==
    ASSUME Flip!ConstantsOK, IsFiniteSet(Players), IsFiniteSet(Flips)
    PROVE  Flip!Spec => []Flip!OnlyFlipsCount
  <1>1. Flip!Init => FlipInv /\ FlipAddsUp
    BY FlipAccount
  <1>2. FlipInv /\ FlipAddsUp /\ [Flip!Next]_Flip!vars => (FlipInv /\ FlipAddsUp)'
    BY FlipAccount
  <1>3. ASSUME FlipInv, FlipAddsUp PROVE Flip!OnlyFlipsCount
    <2> SUFFICES ASSUME NEW q \in Players
                 PROVE  wagered[q] = Flip!MapThenSumSet(LAMBDA g : game[g].stake,
                            {g \in Flips : game[g].status = "settled" /\ q \in {game[g].host, game[g].opponent}})
      BY DEF Flip!OnlyFlipsCount
    <2> DEFINE T == {g \in Flips : game[g].status = "settled" /\ q \in {game[g].host, game[g].opponent}}
               stake == [g \in Flips |-> game[g].stake]
    <2>1. \A g \in Flips : game[g].stake \in Nat
      BY <1>3 DEF FlipInv, FlipRow
    <2>2. IsFiniteSet(T)
      BY FS_Subset
    <2>3. \A x \in Flips \ T : Flown(game, q)[x] = 0
      BY DEF Flown
    <2>4. \A x \in T : Flown(game, q)[x] = stake[x] /\ stake[x] \in Nat
      BY <2>1 DEF Flown
    <2>5. T \subseteq Flips
      OBVIOUS
    <2> HIDE DEF T, stake
    <2>7. SumOf(Flown(game, q), Flips) = SumOf(Flown(game, q), T)
      BY <2>3, <2>5, SumOfSome
    <2>8. SumOf(Flown(game, q), T) = SumOf(stake, T)
      BY <2>4, SumOfSame
    <2>9. Flip!MapThenSumSet(LAMBDA g : game[g].stake, T) = SumOf(stake, T)
      <3>1. Flip!MapThenSumSet(LAMBDA g : game[g].stake, T) = Flip!MapThenSumSet(LAMBDA x : stake[x], T)
        BY <2>5 DEF Flip!MapThenSumSet, Flip!MapThenFoldSet, stake
      <3> HIDE DEF stake
      <3>2. Flip!MapThenSumSet(LAMBDA x : stake[x], T) = SumOf(stake, T)
        BY <2>2, <2>4, FlipFolds
      <3> QED BY <3>1, <3>2
    <2>10. wagered[q] = SumOf(Flown(game, q), Flips)
      BY <1>3 DEF FlipAddsUp
    <2>11. wagered[q] = Flip!MapThenSumSet(LAMBDA g : game[g].stake, T)
      BY <2>7, <2>8, <2>9, <2>10
    <2> QED BY <2>11 DEF T
  <1> QED BY <1>1, <1>2, <1>3, PTL DEF Flip!Spec

-----------------------------------------------------------------------------
(* Duels                                                                    *)

DuelTypes ==
    /\ status \in {"none", "lobby", "running", "settled", "cancelled"}
    /\ opponent \in Joiners \cup {Duel!Nobody} /\ winner \in Duel!Duelists \cup {Duel!Nobody}
    /\ outcome \in {"none", "decided", "draw", "expired"}
    /\ wallet \in [Duel!Duelists -> Int] /\ house \in Int /\ now \in 0..MaxNow /\ faults \in Nat

ProcessTypes ==
    /\ answers \in [Duel!Rounds -> [{"host", "opponent"} -> Duel!Answer]]
    /\ opensAt \in [Duel!Rounds -> -1..(MaxNow + Lead)]
    /\ timer \cup calls \cup scored \subseteq Duel!Rounds
    /\ closer \in [Duel!Rounds -> {"idle", "reading", "settling"}]

(* Who sits at the duel agrees with its status, as do the wallets and what  *)
(* the house has.                                                           *)
DuelSeated ==
    /\ status \in {"none", "lobby", "cancelled"} => opponent = Duel!Nobody /\ outcome = "none"
    /\ status = "running" => opponent \in Joiners /\ outcome = "none"
    /\ status = "settled" => /\ opponent \in Joiners /\ outcome # "none"
                             /\ outcome = "decided" => winner \in {Host, opponent}

DuelPaid ==
    /\ \A p \in Duel!Duelists : wallet[p] = Duel!InHand(p)
    /\ house = IF outcome = "decided" THEN Duel!PotRake
               ELSE IF outcome = "draw" THEN 2 * Duel!HalfRake ELSE 0

(* Nothing runs before there is a second player.                            *)
NotYetRun ==
    /\ now = 0 /\ timer = {} /\ calls = {} /\ scored = {}
    /\ \A r \in Duel!Rounds : opensAt[r] = -1 /\ closer[r] = "idle"

(* Round r has been closed and has handed on.                               *)
IsDone(r) == r \in scored /\ closer[r] = "idle"

(* One that is done has opened the next, however early its answers came; an *)
(* open one opened in time, and until it is done something will close it.   *)
InTurn(r) ==
    /\ IsDone(r) => r + 1 \in Duel!Rounds /\ opensAt[r + 1] >= 0
    /\ closer[r] # "idle" => r \in scored
    /\ opensAt[r] >= 0 => opensAt[r] <= r * Duel!RoundLength + Lead
    /\ opensAt[r] >= 0 /\ ~IsDone(r) =>
          now <= opensAt[r] + RoundMs + InputGrace /\ r \in scored \cup timer \cup calls

RoundsInTurn == opensAt[0] >= 0 /\ \A r \in Duel!Rounds : InTurn(r)

DuelOnTime ==
    /\ status \in {"none", "lobby"} => NotYetRun
    /\ status = "running" /\ faults = 0 => RoundsInTurn
    /\ "stranded" \in listed => faults > 0
    /\ outcome = "expired" => faults > 0

DuelInv == DuelTypes /\ ProcessTypes /\ DuelSeated /\ DuelPaid /\ DuelOnTime

LEMMA DuelRakes ==
    ASSUME Duel!ConstantsOK
    PROVE  /\ Duel!PotRake \in 0..(2 * Stake) /\ Duel!HalfRake \in 0..Stake
           /\ Stake \in Nat /\ Opening \in Nat /\ Opening >= Stake
  <1>1. /\ Stake \in Nat /\ RakeBps \in 0..1000 /\ Opening \in Nat /\ Opening >= Stake
    BY DEF Duel!ConstantsOK
  <1>2. ASSUME NEW n \in Nat PROVE (n * RakeBps) \div 10000 \in 0..n
    <2>1. n * RakeBps \in Nat /\ n * RakeBps <= n * 1000
      BY <1>1, <1>2
    <2>2. ASSUME NEW m \in Nat, m <= n * 1000 PROVE m \div 10000 \in 0..n
      BY <1>2, <2>2
    <2> QED BY <2>1, <2>2
  <1>3. (2 * Stake * RakeBps) \div 10000 \in 0..(2 * Stake)
    BY <1>1, <1>2
  <1>4. (Stake * RakeBps) \div 10000 \in 0..Stake
    BY <1>1, <1>2
  <1> QED BY <1>1, <1>3, <1>4 DEF Duel!PotRake, Duel!HalfRake

(* A round that opens when its predecessor has closed opens in time, and    *)
(* the last one closes before the duel counts as stranded.                  *)
LEMMA RoundsFollow ==
    ASSUME Duel!ConstantsOK, NEW r \in Duel!Rounds
    PROVE  /\ Duel!RoundLength = Lead + RoundMs + InputGrace /\ Duel!RoundLength \in Nat
           /\ {Lead, RoundMs, InputGrace, MaxNow, StrandedSlack} \subseteq Nat /\ r \in Nat
           /\ r * Duel!RoundLength \in Nat /\ Duel!LongestDuel \in Nat
           /\ (r + 1) * Duel!RoundLength = r * Duel!RoundLength + Duel!RoundLength
           /\ r * Duel!RoundLength + Duel!RoundLength <= Duel!LongestDuel
  <1>1. /\ {Lead, RoundMs, InputGrace, MaxNow, StrandedSlack} \subseteq Nat
        /\ RoundsTotal \in Nat \ {0} /\ r \in 0..(RoundsTotal - 1)
    BY DEF Duel!ConstantsOK, Duel!Rounds
  <1>2. Duel!RoundLength = Lead + RoundMs + InputGrace /\ Duel!RoundLength \in Nat
    BY <1>1 DEF Duel!RoundLength
  <1>3. ASSUME NEW L \in Nat, NEW m \in Nat, NEW n \in Nat, m + 1 <= n
        PROVE  (m + 1) * L = m * L + L /\ m * L + L <= n * L /\ n * L \in Nat /\ m * L \in Nat
    BY <1>3
  <1> QED BY <1>1, <1>2, <1>3 DEF Duel!LongestDuel

-----------------------------------------------------------------------------
(* What a step does to the row and to the money                             *)

RowRests == UNCHANGED <<status, opponent, outcome, winner, wallet, house>>

HostOpens ==
    /\ status = "none" /\ status' = "lobby"
    /\ wallet' = [wallet EXCEPT ![Host] = @ - Stake]
    /\ UNCHANGED <<opponent, outcome, winner, house>>

HostLeaves ==
    /\ status = "lobby" /\ status' = "cancelled"
    /\ wallet' = [wallet EXCEPT ![Host] = @ + Stake]
    /\ UNCHANGED <<opponent, outcome, winner, house>>

RivalJoins(p) ==
    /\ status = "lobby" /\ status' = "running" /\ opponent' = p
    /\ wallet' = [wallet EXCEPT ![p] = @ - Stake]
    /\ UNCHANGED <<outcome, winner, house>>

DuelEnds(result, won) ==
    /\ status = "running" /\ status' = "settled" /\ outcome' = result /\ winner' = won
    /\ result \in {"decided", "draw", "expired"}
    /\ IF result = "decided" THEN won \in {Host, opponent} ELSE won = Duel!Nobody
    /\ wallet' = [p \in Duel!Duelists |->
                    wallet[p] + (IF p \notin {Host, opponent} THEN 0
                                 ELSE IF result = "expired" THEN Stake
                                 ELSE IF result = "draw" THEN Stake - Duel!HalfRake
                                 ELSE IF p = won THEN 2 * Stake - Duel!PotRake ELSE 0)]
    /\ house' = house + (IF result = "decided" THEN Duel!PotRake
                         ELSE IF result = "draw" THEN 2 * Duel!HalfRake ELSE 0)
    /\ UNCHANGED opponent

RowMoves ==
    \/ RowRests \/ HostOpens \/ HostLeaves
    \/ \E p \in Joiners : RivalJoins(p)
    \/ \E result, won : DuelEnds(result, won)

LEMMA RowIsKept ==
    ASSUME Duel!ConstantsOK, DuelTypes, DuelSeated, DuelPaid, RowMoves,
           now' \in 0..MaxNow, faults' \in Nat
    PROVE  DuelTypes' /\ DuelSeated' /\ DuelPaid'
  <1> USE DEF DuelTypes, DuelSeated, DuelPaid
  <1>1. /\ Duel!PotRake \in Int /\ Duel!HalfRake \in Int /\ Stake \in Int /\ Opening \in Int
    BY DuelRakes
  <1>2. /\ Host \notin Joiners /\ Duel!Nobody \notin Duel!Duelists /\ Duel!Duelists = {Host} \cup Joiners
    BY DEF Duel!ConstantsOK, Duel!Duelists
  <1>3. CASE RowRests
    BY <1>3 DEF RowRests, Duel!InHand
  <1>4. CASE HostOpens
    BY <1>1, <1>2, <1>4 DEF HostOpens, Duel!InHand
  <1>5. CASE HostLeaves
    BY <1>1, <1>2, <1>5 DEF HostLeaves, Duel!InHand
  <1>6. ASSUME NEW p \in Joiners, RivalJoins(p) PROVE DuelTypes' /\ DuelSeated' /\ DuelPaid'
    BY <1>1, <1>2, <1>6 DEF RivalJoins, Duel!InHand
  <1>7. ASSUME NEW result, NEW won, DuelEnds(result,
               won) PROVE DuelTypes' /\ DuelSeated' /\ DuelPaid'
    <2>1. /\ wallet' \in [Duel!Duelists -> Int] /\ house' \in Int
      BY <1>1, <1>7 DEF DuelEnds
    <2>2. DuelTypes' /\ DuelSeated'
      BY <1>2, <1>7, <2>1 DEF DuelEnds
    <2>3. ASSUME NEW p \in Duel!Duelists PROVE wallet'[p] = Duel!InHand(p)'
      BY <1>1, <1>2, <1>7 DEF DuelEnds, Duel!InHand
    <2> QED BY <1>1, <1>7, <2>2, <2>3 DEF DuelEnds
  <1> QED BY <1>3, <1>4, <1>5, <1>6, <1>7 DEF RowMoves

-----------------------------------------------------------------------------
(* What a step does to the process                                          *)

DuelGoesOn ==
    RowMoves /\ ProcessTypes' /\ DuelOnTime' /\ now' \in 0..MaxNow /\ faults' \in Nat

ProcessRests == UNCHANGED <<answers, now, opensAt, timer, calls, scored, closer, faults>>

(* Only the row moves.                                                      *)
LEMMA OnlyRowMoves ==
    ASSUME Duel!ConstantsOK, DuelInv, RowMoves, ProcessRests,
           status' \in {"none", "lobby"} => status \in {"none", "lobby"},
           status' = "running" => status = "running",
           "stranded" \in listed' => faults > 0, outcome' = "expired" => faults > 0
    PROVE  DuelGoesOn
  <1> USE DEF DuelInv, DuelTypes, ProcessRests
  <1>1. ProcessTypes' /\ now' \in 0..MaxNow /\ faults' \in Nat
    BY DEF ProcessTypes
  <1>2. status' \in {"none", "lobby"} => NotYetRun'
    BY DEF DuelOnTime, NotYetRun
  <1>3. ASSUME status' = "running", faults' = 0 PROVE RoundsInTurn'
    BY <1>3 DEF DuelOnTime, RoundsInTurn, InTurn, IsDone
  <1> QED BY <1>1, <1>2, <1>3 DEF DuelGoesOn, DuelOnTime

LEMMA DuelOpens ==
    ASSUME Duel!ConstantsOK, DuelInv, Duel!Create
    PROVE  DuelGoesOn
  <1>1. RowMoves /\ status' = "lobby" /\ status = "none" /\ UNCHANGED <<outcome, listed>>
    BY DEF Duel!Create, RowMoves, HostOpens
  <1>2. ProcessRests
    BY DEF Duel!Create, Duel!process, ProcessRests
  <1> QED BY <1>1, <1>2, OnlyRowMoves DEF DuelInv, DuelOnTime

LEMMA LobbyCloses ==
    ASSUME Duel!ConstantsOK, DuelInv, Duel!RefundLobby, "stranded" \in listed' => faults > 0
    PROVE  DuelGoesOn
  <1>1. RowMoves /\ status' = "cancelled" /\ UNCHANGED outcome
    BY DEF Duel!RefundLobby, RowMoves, HostLeaves
  <1>2. ProcessRests
    BY DEF Duel!RefundLobby, Duel!process, ProcessRests
  <1> QED BY <1>1, <1>2, OnlyRowMoves DEF DuelInv, DuelOnTime

LEMMA DuelStarts ==
    ASSUME Duel!ConstantsOK, DuelInv, NEW p \in Joiners, Duel!Join(p)
    PROVE  DuelGoesOn
  <1> USE DEF DuelInv, DuelTypes
  <1>1. RowMoves /\ status = "lobby" /\ status' = "running"
    BY DEF Duel!Join, RowMoves, RivalJoins
  <1>2. /\ opensAt' = [opensAt EXCEPT ![0] = now + Lead] /\ timer' = timer \cup {0}
        /\ UNCHANGED <<answers, now, calls, scored, closer, faults, listed, outcome>>
    BY DEF Duel!Join, Duel!StartRound
  <1>3. NotYetRun
    BY <1>1 DEF DuelOnTime
  <1>4. 0 \in Duel!Rounds /\ \A q \in Duel!Rounds : q \in Nat
    BY DEF Duel!ConstantsOK, Duel!Rounds
  <1>5. Lead \in Nat /\ RoundMs \in Nat /\ InputGrace \in Nat /\ MaxNow \in Nat
    BY <1>4, RoundsFollow
  <1>6. opensAt'[0] = Lead /\ now' = 0 /\ 0 * Duel!RoundLength + Lead = Lead
    <2>1. 0 * Duel!RoundLength = 0
      BY <1>4, RoundsFollow
    <2> QED BY <1>2, <1>3, <1>4, <1>5, <2>1 DEF NotYetRun, ProcessTypes
  <1>7. ProcessTypes'
    BY <1>2, <1>4, <1>5 DEF ProcessTypes
  <1>8. RoundsInTurn'
    <2>1. opensAt'[0] >= 0
      BY <1>5, <1>6
    <2>2. ASSUME NEW r \in Duel!Rounds PROVE InTurn(r)'
      <3>1. ~IsDone(r)' /\ closer'[r] = "idle"
        BY <1>2, <1>3 DEF NotYetRun, IsDone
      <3>2. CASE r = 0
        BY <1>2, <1>5, <1>6, <3>1, <3>2 DEF InTurn
      <3>3. CASE r # 0
        <4>1. opensAt'[r] = -1
          BY <1>2, <1>3, <1>4, <3>3 DEF NotYetRun, ProcessTypes
        <4> QED BY <3>1, <4>1 DEF InTurn
      <3> QED BY <3>2, <3>3
    <2> QED BY <2>1, <2>2 DEF RoundsInTurn
  <1> QED BY <1>1, <1>2, <1>4, <1>7, <1>8 DEF DuelGoesOn, DuelOnTime

LEMMA AnswersComeIn ==
    ASSUME Duel!ConstantsOK, DuelInv, NEW p \in Duel!Duelists, NEW r \in Duel!Rounds,
           NEW reported \in 0..(RoundMs + 1), Duel!InputArrives(p, r, reported)
    PROVE  DuelGoesOn
  <1> USE DEF DuelInv, DuelTypes
  <1>1. RowMoves /\ status = "running"
    BY DEF Duel!InputArrives, Duel!duel, Duel!purse, RowMoves, RowRests
  <1>2. /\ UNCHANGED <<now, opensAt, timer, scored, closer, faults, listed, outcome, status>>
        /\ calls \subseteq calls' /\ calls' \subseteq calls \cup {r}
    BY DEF Duel!InputArrives, Duel!duel
  <1>3. PICK a \in Duel!Judged(r, reported) :
           answers' = answers \/ answers' = [answers EXCEPT ![r][Duel!Side(p)] = a]
    BY DEF Duel!InputArrives
  <1>4. a \in Duel!Answer /\ Duel!Side(p) \in {"host", "opponent"}
    <2>1. Duel!Refused \in Duel!Answer
      BY DEF Duel!Refused, Duel!Answer
    <2>2. \A s \in Scores : Duel!Valid(s) \in Duel!Answer
      BY DEF Duel!Valid, Duel!Answer
    <2>3. a \in {Duel!Refused} \cup {Duel!Valid(s) : s \in Scores}
      BY <1>3 DEF Duel!Judged
    <2> QED BY <2>1, <2>2, <2>3 DEF Duel!Side
  <1>5. ProcessTypes'
    BY <1>2, <1>3, <1>4 DEF ProcessTypes
  <1>6. ASSUME faults' = 0 PROVE RoundsInTurn'
    <2>1. RoundsInTurn
      BY <1>1, <1>2, <1>6 DEF DuelOnTime
    <2> QED BY <1>2, <2>1 DEF RoundsInTurn, InTurn, IsDone
  <1> QED BY <1>1, <1>2, <1>5, <1>6 DEF DuelGoesOn, DuelOnTime

LEMMA TimersFire ==
    ASSUME Duel!ConstantsOK, DuelInv, NEW r \in Duel!Rounds, Duel!RoundTimer(r)
    PROVE  DuelGoesOn
  <1> USE DEF DuelInv, DuelTypes
  <1>1. RowMoves /\ UNCHANGED <<status, outcome>>
    BY DEF Duel!RoundTimer, Duel!duel, Duel!purse, RowMoves, RowRests
  <1>2. /\ r \in timer /\ timer' = timer \ {r} /\ calls' = calls \cup {r}
        /\ UNCHANGED <<answers, now, opensAt, scored, closer, faults, listed>>
    BY DEF Duel!RoundTimer
  <1>3. ProcessTypes'
    BY <1>2 DEF ProcessTypes
  <1>4. status' \in {"none", "lobby"} => NotYetRun'
    BY <1>1, <1>2 DEF DuelOnTime, NotYetRun
  <1>5. ASSUME status' = "running", faults' = 0 PROVE RoundsInTurn'
    <2>1. RoundsInTurn
      BY <1>1, <1>2, <1>5 DEF DuelOnTime
    <2> QED BY <1>2, <2>1 DEF RoundsInTurn, InTurn, IsDone
  <1> QED BY <1>1, <1>2, <1>3, <1>4, <1>5 DEF DuelGoesOn, DuelOnTime

LEMMA ClosersBegin ==
    ASSUME Duel!ConstantsOK, DuelInv, NEW r \in Duel!Rounds, Duel!BeginClose(r)
    PROVE  DuelGoesOn
  <1> USE DEF DuelInv, DuelTypes
  <1>1. RowMoves /\ UNCHANGED <<status, outcome>>
    BY DEF Duel!BeginClose, Duel!duel, Duel!purse, RowMoves, RowRests
  <1>2. /\ r \in calls /\ calls' = calls \ {r} /\ scored' = scored \cup {r}
        /\ closer' = IF r \in scored THEN closer ELSE [closer EXCEPT ![r] = "reading"]
        /\ UNCHANGED <<answers, now, opensAt, timer, faults, listed>>
    BY DEF Duel!BeginClose
  <1>3. ProcessTypes'
    BY <1>2 DEF ProcessTypes
  <1>4. status' \in {"none", "lobby"} => NotYetRun'
    BY <1>1, <1>2 DEF DuelOnTime, NotYetRun
  <1>5. ASSUME status' = "running", faults' = 0 PROVE RoundsInTurn'
    <2>1. RoundsInTurn
      BY <1>1, <1>2, <1>5 DEF DuelOnTime
    <2>2. ASSUME NEW q \in Duel!Rounds PROVE InTurn(q)'
      <3>1. InTurn(q)
        BY <2>1 DEF RoundsInTurn
      <3>2. IsDone(q)' => IsDone(q)
        BY <1>2, <3>1 DEF InTurn, IsDone, ProcessTypes
      <3>3. IsDone(q) => IsDone(q)'
        BY <1>2 DEF IsDone, ProcessTypes
      <3>4. closer'[q] # "idle" => q \in scored'
        BY <1>2, <3>1 DEF InTurn, ProcessTypes
      <3> QED BY <1>2, <3>1, <3>2, <3>3, <3>4 DEF InTurn
    <2> QED BY <1>2, <2>1, <2>2 DEF RoundsInTurn
  <1> QED BY <1>1, <1>2, <1>3, <1>4, <1>5 DEF DuelGoesOn, DuelOnTime

(* The least round that is not done is open: what is played is in time.     *)
LEMMA PlayedInTime ==
    ASSUME Duel!ConstantsOK, DuelInv, RoundsInTurn, NEW r \in Duel!Rounds, ~IsDone(r)
    PROVE  now <= r * Duel!RoundLength + Duel!RoundLength
  <1> DEFINE left == {q \in Duel!Rounds : ~IsDone(q)}
  <1>1. \A q \in Duel!Rounds : q \in Nat /\ (q = 0 \/ q - 1 \in Duel!Rounds)
    BY DEF Duel!Rounds, Duel!ConstantsOK
  <1>2. left \in SUBSET Nat /\ r \in left
    BY <1>1
  <1>3. PICK m \in left : \A q \in left : m <= q
    <2> HIDE DEF left
    <2> QED BY <1>2, LeastExists
  <1>4. m \in Duel!Rounds /\ ~IsDone(m) /\ m \in Nat /\ m <= r
    BY <1>1, <1>2, <1>3
  <1>5. opensAt[m] >= 0
    <2>1. CASE m = 0
      BY <2>1 DEF RoundsInTurn
    <2>2. CASE m # 0
      <3>1. m - 1 \in Duel!Rounds /\ ~(m <= m - 1)
        BY <1>1, <1>4, <2>2
      <3>2. IsDone(m - 1)
        BY <1>3, <3>1
      <3>3. opensAt[(m - 1) + 1] >= 0
        BY <3>1, <3>2 DEF RoundsInTurn, InTurn
      <3>4. (m - 1) + 1 = m
        BY <1>4
      <3> QED BY <3>3, <3>4
    <2> QED BY <2>1, <2>2
  <1>6. /\ opensAt[m] <= m * Duel!RoundLength + Lead
        /\ now <= opensAt[m] + RoundMs + InputGrace
    BY <1>4, <1>5 DEF RoundsInTurn, InTurn
  <1>7. opensAt[m] \in Int /\ now \in Int
    BY <1>4 DEF DuelInv, DuelTypes, ProcessTypes
  <1>8. now <= m * Duel!RoundLength + Duel!RoundLength
    BY <1>4, <1>6, <1>7, RoundsFollow
  <1>9. ASSUME NEW L \in Nat, NEW x \in Nat, NEW y \in Nat, x <= y
        PROVE  x * L <= y * L /\ x * L \in Nat /\ y * L \in Nat
    BY <1>9
  <1>10. m * Duel!RoundLength <= r * Duel!RoundLength
    BY <1>1, <1>4, <1>9, RoundsFollow
  <1> QED BY <1>4, <1>7, <1>8, <1>10, RoundsFollow

LEMMA RoundsAreRead ==
    ASSUME Duel!ConstantsOK, DuelInv, NEW r \in Duel!Rounds, Duel!ReadRound(r)
    PROVE  DuelGoesOn
  <1> USE DEF DuelInv, DuelTypes
  <1>1. RowMoves /\ UNCHANGED <<status, outcome>>
    BY DEF Duel!ReadRound, Duel!duel, Duel!purse, RowMoves, RowRests
  <1>2. closer[r] = "reading" /\ UNCHANGED <<answers, now, calls, scored, faults, listed>>
    BY DEF Duel!ReadRound
  <1>3. status \notin {"none", "lobby"}
    BY <1>2 DEF DuelOnTime, NotYetRun
  <1>4. \A x \in Duel!Rounds : x \in Nat
    BY DEF Duel!Rounds
  <1>5. CASE status # "running"
    <2>1. closer' = [closer EXCEPT ![r] = "idle"] /\ UNCHANGED <<opensAt, timer>>
      BY <1>5 DEF Duel!ReadRound
    <2>2. ProcessTypes'
      BY <1>2, <2>1 DEF ProcessTypes
    <2> QED BY <1>1, <1>2, <1>3, <1>5, <2>2 DEF DuelGoesOn, DuelOnTime
  <1>6. CASE status = "running" /\ Duel!HasNext(r)
    <2>1. /\ closer' = [closer EXCEPT ![r] = "idle"]
          /\ opensAt' = [opensAt EXCEPT ![r + 1] = now + Lead] /\ timer' = timer \cup {r + 1}
      BY <1>6 DEF Duel!ReadRound, Duel!StartRound
    <2>2. /\ r + 1 \in Duel!Rounds
          /\ Lead \in Nat /\ RoundMs \in Nat /\ InputGrace \in Nat /\ MaxNow \in Nat
      BY <1>6, RoundsFollow DEF Duel!HasNext, Duel!Rounds, Duel!ConstantsOK
    <2>3. ProcessTypes'
      BY <1>2, <2>1, <2>2 DEF ProcessTypes
    <2>4. ASSUME faults' = 0 PROVE RoundsInTurn'
      <3>1. RoundsInTurn
        BY <1>2, <1>6, <2>4 DEF DuelOnTime
      <3>2. now <= r * Duel!RoundLength + Duel!RoundLength
        BY <1>2, <3>1, PlayedInTime DEF IsDone
      <3>3. /\ now + Lead \in Nat /\ now + Lead <= (r + 1) * Duel!RoundLength + Lead
            /\ now <= now + Lead + RoundMs + InputGrace
        <4>1. now \in Nat
          BY <2>2
        <4> QED BY <2>2, <3>2, <4>1, RoundsFollow
      <3>4. opensAt'[r + 1] = now + Lead /\ now' = now /\ r + 1 \in timer'
        BY <1>2, <2>1, <2>2 DEF ProcessTypes
      <3>5. \A x \in Duel!Rounds : x # r + 1 => opensAt'[x] = opensAt[x]
        BY <2>1 DEF ProcessTypes
      <3>6. opensAt'[0] >= 0 /\ \A x \in Duel!Rounds : opensAt[x] >= 0 => opensAt'[x] >= 0
        <4>1. 0 \in Duel!Rounds
          BY DEF Duel!Rounds, Duel!ConstantsOK
        <4> QED BY <3>1, <3>3, <3>4, <3>5, <4>1 DEF RoundsInTurn
      <3>7. ASSUME NEW x \in Duel!Rounds PROVE InTurn(x)'
        <4>1. InTurn(x) /\ r \in scored
          BY <1>2, <3>1 DEF RoundsInTurn, InTurn
        <4>2. closer'[x] # "idle" => x \in scored' /\ closer[x] # "idle"
          BY <1>2, <2>1, <4>1 DEF InTurn, ProcessTypes
        <4>3. IsDone(x)' => x = r \/ IsDone(x)
          BY <1>2, <2>1 DEF IsDone, ProcessTypes
        <4>4. IsDone(x) => IsDone(x)'
          BY <1>2, <2>1 DEF IsDone, ProcessTypes
        <4>5. IsDone(x)' => x + 1 \in Duel!Rounds /\ opensAt'[x + 1] >= 0
          BY <2>2, <3>3, <3>4, <3>6, <4>1, <4>3 DEF InTurn
        <4>6. CASE x = r + 1
          BY <3>3, <3>4, <4>2, <4>5, <4>6 DEF InTurn
        <4>7. CASE x # r + 1
          <5>1. opensAt'[x] = opensAt[x] /\ now' = now /\ scored' = scored /\ calls' = calls
                /\ timer \subseteq timer'
            BY <1>2, <2>1, <3>5, <4>7
          <5> QED BY <4>1, <4>2, <4>4, <4>5, <5>1 DEF InTurn
        <4> QED BY <4>6, <4>7
      <3> QED BY <3>6, <3>7 DEF RoundsInTurn
    <2> QED BY <1>1, <1>2, <1>3, <2>2, <2>3, <2>4 DEF DuelGoesOn, DuelOnTime
  <1>7. CASE status = "running" /\ ~Duel!HasNext(r)
    <2>1. closer' = [closer EXCEPT ![r] = "settling"] /\ UNCHANGED <<opensAt, timer>>
      BY <1>7 DEF Duel!ReadRound
    <2>2. ProcessTypes'
      BY <1>2, <2>1 DEF ProcessTypes
    <2>3. ASSUME faults' = 0 PROVE RoundsInTurn'
      <3>1. RoundsInTurn
        BY <1>2, <1>7, <2>3 DEF DuelOnTime
      <3>2. ASSUME NEW x \in Duel!Rounds PROVE InTurn(x)'
        <4>1. InTurn(x) /\ (closer[x] = "idle" <=> closer'[x] = "idle")
          BY <1>2, <2>1, <3>1 DEF RoundsInTurn, ProcessTypes
        <4>2. IsDone(x)' <=> IsDone(x)
          BY <1>2, <4>1 DEF IsDone
        <4> QED BY <1>2, <2>1, <4>1, <4>2 DEF InTurn
      <3> QED BY <2>1, <3>1, <3>2 DEF RoundsInTurn
    <2> QED BY <1>1, <1>2, <1>3, <2>2, <2>3 DEF DuelGoesOn, DuelOnTime
  <1> QED BY <1>5, <1>6, <1>7

(* The row is closed if it is still open, and a duel that is closed by the  *)
(* sweeper is one whose process has failed.                                 *)
LEMMA RowIsClosed ==
    ASSUME Duel!ConstantsOK, DuelInv, status \notin {"none", "lobby"},
           NEW result \in {"decided", "draw", "expired"}, NEW won, Duel!SettleAs(result, won),
           IF result = "decided" THEN won \in {Host, opponent} ELSE won = Duel!Nobody
    PROVE  RowMoves /\ status' \notin {"none", "lobby", "running"} /\ outcome' \in {outcome, result}
  <1>1. CASE ~Duel!Claimable
    BY <1>1 DEF Duel!SettleAs, Duel!Claimable, Duel!duel, Duel!purse, RowMoves, RowRests
  <1>2. CASE Duel!Claimable
    <2>1. status = "running"
      BY <1>2 DEF DuelInv, DuelTypes, Duel!Claimable
    <2>2. DuelEnds(result, won)
      BY <1>2, <2>1 DEF Duel!SettleAs, DuelEnds, Duel!RakeOfDraw
    <2> QED BY <2>1, <2>2 DEF RowMoves, DuelEnds
  <1> QED BY <1>1, <1>2

LEMMA DuelIsSettled ==
    ASSUME Duel!ConstantsOK, DuelInv, NEW r \in Duel!Rounds, Duel!Settle(r)
    PROVE  DuelGoesOn
  <1> USE DEF DuelInv, DuelTypes
  <1>1. /\ closer[r] = "settling" /\ closer' = [closer EXCEPT ![r] = "idle"] /\ scored' = {}
        /\ UNCHANGED <<answers, now, opensAt, timer, calls, faults, listed>>
    BY DEF Duel!Settle
  <1>2. status \notin {"none", "lobby"}
    BY <1>1 DEF DuelOnTime, NotYetRun
  <1>3. \/ Duel!SettleAs("draw", Duel!Nobody)
        \/ \E won \in {Host, opponent} : Duel!SettleAs("decided", won)
    BY DEF Duel!Settle
  <1>4. /\ RowMoves /\ status' \notin {"none", "lobby", "running"}
        /\ outcome' \in {outcome, "draw", "decided"}
    <2>1. CASE Duel!SettleAs("draw", Duel!Nobody)
      BY <1>2, <2>1, RowIsClosed
    <2>2. ASSUME NEW won \in {Host, opponent}, Duel!SettleAs("decided", won)
          PROVE  RowMoves /\ status' \notin {"none", "lobby", "running"} /\ outcome' \in {outcome, "decided"}
      BY <1>2, <2>2, RowIsClosed
    <2> QED BY <1>3, <2>1, <2>2
  <1>5. ProcessTypes'
    BY <1>1 DEF ProcessTypes
  <1> QED BY <1>1, <1>4, <1>5 DEF DuelGoesOn, DuelOnTime

LEMMA StrandedIsSettled ==
    ASSUME Duel!ConstantsOK, DuelInv, Duel!SweepStranded
    PROVE  DuelGoesOn
  <1> USE DEF DuelInv, DuelTypes
  <1>1. faults > 0 /\ listed' = {}
    BY DEF Duel!SweepStranded, DuelOnTime
  <1>2. ProcessRests
    BY DEF Duel!SweepStranded, Duel!process, ProcessRests
  <1>3. CASE status = "running"
    <2>1. Duel!SettleAs("expired", Duel!Nobody)
      BY <1>3 DEF Duel!SweepStranded
    <2>2. RowMoves /\ status' \notin {"none", "lobby", "running"}
      BY <1>3, <2>1, RowIsClosed
    <2> QED BY <1>1, <1>2, <2>2, OnlyRowMoves
  <1>4. CASE status # "running"
    <2>1. UNCHANGED <<status, outcome>> /\ RowMoves
      BY <1>4 DEF Duel!SweepStranded, Duel!duel, Duel!purse, RowMoves, RowRests
    <2> QED BY <1>1, <1>2, <2>1, OnlyRowMoves
  <1> QED BY <1>3, <1>4

(* The sweeper sees a stranded duel only if its process has failed: else a  *)
(* round is being played, and in time.                                      *)
LEMMA StrandedHasFailed ==
    ASSUME Duel!ConstantsOK, DuelInv, Duel!IsStranded
    PROVE  faults > 0
  <1> SUFFICES ASSUME faults = 0 PROVE FALSE
    BY DEF DuelInv, DuelTypes
  <1> DEFINE last == RoundsTotal - 1
  <1>1. RoundsInTurn
    BY DEF DuelInv, DuelOnTime, Duel!IsStranded
  <1>2. last \in Duel!Rounds /\ last + 1 \notin Duel!Rounds
    BY DEF Duel!Rounds, Duel!ConstantsOK
  <1> HIDE DEF last
  <1>3. ~IsDone(last)
    BY <1>1, <1>2 DEF RoundsInTurn, InTurn
  <1>4. now <= last * Duel!RoundLength + Duel!RoundLength
    BY <1>1, <1>2, <1>3, PlayedInTime
  <1>5. now \in Nat /\ now > Duel!LongestDuel + StrandedSlack
    BY <1>2, RoundsFollow DEF DuelInv, DuelTypes, Duel!IsStranded
  <1> QED BY <1>2, <1>4, <1>5, RoundsFollow

LEMMA SweepSees ==
    ASSUME Duel!ConstantsOK, DuelInv, Duel!SweepReads
    PROVE  DuelGoesOn
  <1>1. "stranded" \in listed' => faults > 0
    BY StrandedHasFailed DEF Duel!SweepReads
  <1>2. RowMoves /\ UNCHANGED <<status, outcome>> /\ ProcessRests
    BY DEF Duel!SweepReads, Duel!duel, Duel!purse, Duel!process, RowMoves, RowRests, ProcessRests
  <1> QED BY <1>1, <1>2, OnlyRowMoves DEF DuelInv, DuelOnTime

LEMMA LapsedIsSwept ==
    ASSUME Duel!ConstantsOK, DuelInv, Duel!SweepLapsed
    PROVE  DuelGoesOn
  <1>1. listed' = {}
    BY DEF Duel!SweepLapsed
  <1>2. CASE Duel!RefundLobby
    BY <1>1, <1>2, LobbyCloses
  <1>3. CASE ~Duel!RefundLobby
    <2>1. RowMoves /\ UNCHANGED <<status, outcome>> /\ ProcessRests
      BY <1>3 DEF Duel!SweepLapsed, Duel!duel, Duel!purse, Duel!process, RowMoves, RowRests,
                  ProcessRests
    <2> QED BY <1>1, <2>1, OnlyRowMoves DEF DuelInv, DuelOnTime
  <1> QED BY <1>2, <1>3

LEMMA TimePasses ==
    ASSUME Duel!ConstantsOK, DuelInv, Duel!Tick
    PROVE  DuelGoesOn
  <1> USE DEF DuelInv, DuelTypes
  <1>1. RowMoves /\ status = "running" /\ UNCHANGED <<status, outcome>>
    BY DEF Duel!Tick, Duel!duel, Duel!purse, RowMoves, RowRests
  <1>2. /\ now < MaxNow /\ now' = now + 1 /\ calls = {} /\ \A r \in Duel!Rounds : closer[r] = "idle"
        /\ \A r \in timer : now < opensAt[r] + RoundMs + InputGrace
        /\ UNCHANGED <<answers, opensAt, timer, calls, scored, closer, faults, listed>>
    BY DEF Duel!Tick, Duel!process
  <1>3. ProcessTypes' /\ now' \in 0..MaxNow
    BY <1>2 DEF ProcessTypes, Duel!ConstantsOK
  <1>4. ASSUME faults' = 0 PROVE RoundsInTurn'
    <2>1. RoundsInTurn
      BY <1>1, <1>2, <1>4 DEF DuelOnTime
    <2>2. ASSUME NEW r \in Duel!Rounds PROVE InTurn(r)'
      <3>1. InTurn(r) /\ (IsDone(r)' <=> IsDone(r))
        BY <1>2, <2>1 DEF RoundsInTurn, IsDone
      <3>2. opensAt[r] \in Int /\ RoundMs \in Nat /\ InputGrace \in Nat /\ now \in Nat
        BY RoundsFollow DEF ProcessTypes
      <3>3. opensAt[r] >= 0 /\ ~IsDone(r) => r \in timer
        BY <1>2, <3>1 DEF InTurn, IsDone
      <3>4. opensAt[r] >= 0 /\ ~IsDone(r) => now' <= opensAt[r] + RoundMs + InputGrace
        BY <1>2, <3>2, <3>3
      <3> QED BY <1>2, <3>1, <3>4 DEF InTurn
    <2> QED BY <1>2, <2>1, <2>2 DEF RoundsInTurn
  <1> QED BY <1>1, <1>2, <1>3, <1>4 DEF DuelGoesOn, DuelOnTime

(* After a fault nothing is promised of the process.                        *)
LEMMA ProcessFails ==
    ASSUME Duel!ConstantsOK, DuelInv, Duel!FaultNext
    PROVE  DuelGoesOn
  <1> USE DEF DuelInv, DuelTypes
  <1>1. /\ RowMoves /\ faults' = faults + 1 /\ UNCHANGED <<answers, now, opensAt, status, outcome>>
        /\ status = "running" \/ \E r \in Duel!Rounds : closer[r] # "idle"
    BY DEF Duel!FaultNext, Duel!Restart, Duel!CloseFails, Duel!duel, Duel!purse, RowMoves, RowRests
  <1>2. status \notin {"none", "lobby"}
    BY <1>1 DEF DuelOnTime, NotYetRun
  <1>3. ProcessTypes'
    BY <1>1 DEF ProcessTypes, Duel!FaultNext, Duel!Restart, Duel!CloseFails
  <1> QED BY <1>1, <1>2, <1>3 DEF DuelGoesOn, DuelOnTime

LEMMA DuelNextGoesOn ==
    ASSUME Duel!ConstantsOK, DuelInv, [Duel!Next]_Duel!vars
    PROVE  DuelInv'
  <1>1. SUFFICES DuelGoesOn
    BY <1>1, RowIsKept DEF DuelGoesOn, DuelInv
  <1>2. CASE Duel!PlayerNext
    <2>1. CASE Duel!Create
      BY <2>1, DuelOpens
    <2>2. CASE Duel!Cancel
      BY <2>2, LobbyCloses DEF Duel!Cancel, DuelInv, DuelOnTime
    <2>3. ASSUME NEW p \in Joiners, Duel!Join(p) PROVE DuelGoesOn
      BY <2>3, DuelStarts
    <2>4. ASSUME NEW p \in Duel!Duelists, NEW r \in Duel!Rounds, NEW reported \in 0..(RoundMs + 1),
                 Duel!InputArrives(p, r, reported)
          PROVE  DuelGoesOn
      BY <2>4, AnswersComeIn
    <2> QED BY <1>2, <2>1, <2>2, <2>3, <2>4 DEF Duel!PlayerNext
  <1>3. CASE Duel!SweeperNext
    BY <1>3, SweepSees, StrandedIsSettled, LapsedIsSwept DEF Duel!SweeperNext
  <1>4. CASE Duel!FaultNext
    BY <1>4, ProcessFails
  <1>5. ASSUME NEW r \in Duel!Rounds, Duel!CloserNext(r) PROVE DuelGoesOn
    BY <1>5, TimersFire, ClosersBegin, RoundsAreRead, DuelIsSettled DEF Duel!CloserNext
  <1>6. CASE Duel!Lapse \/ (\E on \in BOOLEAN : Duel!Switch(on)) \/ UNCHANGED Duel!vars
    <2>1. RowMoves /\ UNCHANGED <<status, outcome, listed>> /\ ProcessRests
      BY <1>6 DEF Duel!Lapse, Duel!Switch, Duel!vars, Duel!duel, Duel!purse, Duel!process,
                  RowMoves, RowRests, ProcessRests
    <2> QED BY <2>1, OnlyRowMoves DEF DuelInv, DuelOnTime
  <1>7. CASE Duel!Tick
    BY <1>7, TimePasses
  <1> QED BY <1>2, <1>3, <1>4, <1>5, <1>6, <1>7 DEF Duel!Next

LEMMA DuelStartsWell ==
    ASSUME Duel!ConstantsOK
    PROVE  Duel!Init => DuelInv
  <1> SUFFICES ASSUME Duel!Init PROVE DuelInv
    OBVIOUS
  <1>1. /\ Opening \in Nat /\ MaxNow \in Nat /\ Lead \in Nat
    BY DEF Duel!ConstantsOK
  <1>2. DuelTypes
    BY <1>1 DEF Duel!Init, DuelTypes
  <1>3. ProcessTypes
    <2>1. Duel!NoAnswer \in Duel!Answer
      BY DEF Duel!NoAnswer, Duel!Answer
    <2> QED BY <1>1, <2>1 DEF Duel!Init, ProcessTypes, Duel!NoAnswers
  <1>4. DuelSeated /\ DuelOnTime
    BY DEF Duel!Init, DuelSeated, DuelOnTime, NotYetRun
  <1>5. DuelPaid
    BY <1>1 DEF Duel!Init, DuelPaid, Duel!InHand
  <1> QED BY <1>2, <1>3, <1>4, <1>5 DEF DuelInv

LEMMA DuelInvariant == ASSUME Duel!ConstantsOK PROVE Duel!Spec => []DuelInv
  <1>1. DuelInv /\ [Duel!Next]_Duel!vars => DuelInv'
    BY DuelNextGoesOn
  <1> QED BY <1>1, DuelStartsWell, PTL DEF Duel!Spec

-----------------------------------------------------------------------------
(* What follows                                                             *)

(* Every variable of a duel keeps its type; above all, no wallet and not    *)
(* the house ever falls below nothing (duels.ts, settleDuel).               *)
THEOREM DuelTypeCorrect == ASSUME Duel!ConstantsOK PROVE Duel!Spec => []Duel!TypeOK
  <1>1. ASSUME DuelInv PROVE Duel!TypeOK
    <2>1. \A p \in Duel!Duelists : Duel!InHand(p) \in Nat
      BY DuelRakes DEF Duel!InHand
    <2>2. wallet \in [Duel!Duelists -> Nat]
      BY <1>1, <2>1 DEF DuelInv, DuelTypes, DuelPaid
    <2>3. house \in Nat
      BY <1>1, DuelRakes DEF DuelInv, DuelPaid
    <2> QED BY <1>1, <2>2, <2>3 DEF DuelInv, DuelTypes, ProcessTypes, Duel!TypeOK
  <1> QED BY <1>1, DuelInvariant, PTL

(* Each stake of a duel is taken once and given back once, whichever of the *)
(* last round, the sweeper, the host and a joining player comes first, and  *)
(* what the players do not get the house does, to the unit.                 *)
THEOREM DuelIsSettledOnce == ASSUME Duel!ConstantsOK PROVE Duel!Spec => []Duel!StakesAreSettledOnce
  <1>1. ASSUME DuelInv PROVE Duel!StakesAreSettledOnce
    <2>1. /\ Duel!PotRake \in Int /\ Duel!HalfRake \in Int /\ Stake \in Int /\ Opening \in Int
      BY DuelRakes
    <2>2. /\ Host \notin Joiners /\ Duel!Nobody \notin Duel!Duelists /\ Duel!Duelists = {Host} \cup Joiners
      BY DEF Duel!ConstantsOK, Duel!Duelists
    <2>3. DuelTypes /\ DuelSeated /\ DuelPaid
      BY <1>1 DEF DuelInv
    <2> DEFINE held == Stake * ((IF status \in {"lobby", "running"} THEN 1 ELSE 0)
                                + (IF status = "running" THEN 1 ELSE 0))
    <2>4. held = (IF status = "lobby" THEN Stake ELSE IF status = "running" THEN 2 * Stake ELSE 0)
      BY <2>1
    <2>5. ASSUME NEW p \in Joiners \ {opponent}
          PROVE  wallet[Host] + (IF opponent = Duel!Nobody THEN wallet[p] ELSE wallet[opponent])
                 + house + held = 2 * Opening
      <3> HIDE DEF held
      <3>1. p # Host /\ p \in Duel!Duelists /\ Host \in Duel!Duelists
        BY <2>2
      <3> QED BY <2>1, <2>2, <2>3, <2>4, <3>1 DEF DuelTypes, DuelSeated, DuelPaid, Duel!InHand
    <2> QED BY <2>3, <2>5 DEF DuelPaid, Duel!StakesAreSettledOnce
  <1> QED BY <1>1, DuelInvariant, PTL

(* A duel whose process has not failed is played to its end: the sweeper    *)
(* does not take it for stranded, whatever lead, window, grace and slack    *)
(* are, however many rounds there are and however long the players take.    *)
THEOREM DuelsAreNotCutShort == ASSUME Duel!ConstantsOK PROVE Duel!Spec => []Duel!OnlyStrandedExpire
  <1>1. DuelInv => Duel!OnlyStrandedExpire
    BY DEF DuelInv, DuelOnTime, Duel!OnlyStrandedExpire
  <1> QED BY <1>1, DuelInvariant, PTL

-----------------------------------------------------------------------------
(* Games on a player's seeds: the inductive invariant                       *)

(* Seeds are used in the order they are made in.                            *)
SeedsAgree ==
    /\ \A s \in shown : s < current
    /\ \A k \in Seeded!Placed :
        /\ games[k].seed < current
        /\ Seeded!IsActive(k) => games[k].seed \notin shown
        /\ \E m \in asked : m.key = k /\ m.seed = games[k].seed
        /\ \A j \in Seeded!Placed : j # k => games[j].seed # games[k].seed
    /\ known <= current
    /\ \A m \in asked : m.seed <= current

(* The offer after n turns of a game that pays c at most.                   *)
OfferAt(n, c) == LET pay == Ante * (1 + n)
                 IN  IF n = 0 THEN 0 ELSE IF pay > c THEN c ELSE pay

(* A press is for a game that has started, and names what was on offer.     *)
PressesAgree ==
    \A p \in pressed :
        /\ Seeded!IsPlaced(p.key)
        /\ p.tile = Seeded!CashOut => p.offer = OfferAt(p.count, games[p.key].cap)

WageredOnce == \A k \in Keys : wagers[k] = IF Seeded!IsPlaced(k) /\ ~Seeded!IsActive(k) THEN 1 ELSE 0

(* What each game has paid.  A game in play has paid nothing.               *)
PaidBy(rows) == [k \in Keys |-> IF rows[k].status = "none" THEN 0 ELSE rows[k].paid]

WalletAgrees ==
    /\ \A k \in Keys : Seeded!IsActive(k) => games[k].paid = 0
    /\ balance + Ante * Cardinality(Seeded!Placed) = Purse + SumOf(PaidBy(games), Keys)

SeededInv ==
    /\ Seeded!TypeOK /\ SeedsAgree /\ PressesAgree /\ Seeded!PlayedAsPressed
    /\ WageredOnce /\ WalletAgrees

-----------------------------------------------------------------------------
(* Rows of games                                                            *)

(* A row is there when it has a game in it.                                 *)
LEMMA PlacedRows ==
    ASSUME Seeded!TypeOK, NEW k \in Keys
    PROVE  /\ Seeded!IsPlaced(k) <=> games[k] \in Seeded!Rows
           /\ ~Seeded!IsPlaced(k) <=> games[k] = Seeded!NoGame
           /\ Seeded!IsActive(k) => Seeded!IsPlaced(k)
  BY DEF Seeded!TypeOK, Seeded!IsPlaced, Seeded!IsActive, Seeded!NoGame, Seeded!Rows

(* What the constants are, as the proofs use it.                            *)
LEMMA ConstantTypes ==
    ASSUME Seeded!ConstantsOK
    PROVE  MaxSeeds \in Nat \ {0} /\ Purse \in Nat /\ Ante \in Nat /\ Caps \subseteq Nat
  BY DEF Seeded!ConstantsOK

LEMMA KeysAreFinite ==
    ASSUME Seeded!ConstantsOK
    PROVE  IsFiniteSet(Keys) /\ IsFiniteSet(Seeded!Placed) /\ Cardinality(Seeded!Placed) \in Nat
<1>1. Seeded!IsFiniteSet(Keys)
  BY DEF Seeded!ConstantsOK
<1>2. IsFiniteSet(Keys)
  BY <1>1 DEF Seeded!IsFiniteSet, IsFiniteSet
<1>3. QED
  BY <1>2, FS_Subset, FS_CardinalityType DEF Seeded!Placed

LEMMA PaidIsNatural ==
    ASSUME Seeded!TypeOK
    PROVE  \A k \in Keys : PaidBy(games)[k] \in Nat
  BY PlacedRows DEF PaidBy, Seeded!IsPlaced, Seeded!Rows

(* A bet takes its stake, and a game that goes on pays what it had not.     *)
LEMMA WalletFollowsBet ==
    ASSUME Seeded!ConstantsOK, Seeded!TypeOK, WalletAgrees, NEW k \in Keys, ~Seeded!IsPlaced(k),
           NEW new \in Seeded!Rows, new.status = "active" => new.paid = 0,
           games' = [games EXCEPT ![k] = new], balance' = balance - Ante + new.paid
    PROVE  WalletAgrees'
<1>1. /\ games \in [Keys -> Seeded!Rows \cup {Seeded!NoGame}] /\ balance \in Int
      /\ Ante \in Nat /\ Purse \in Nat /\ new.paid \in Nat
  BY ConstantTypes DEF Seeded!TypeOK, Seeded!Rows
<1>2. IsFiniteSet(Keys) /\ IsFiniteSet(Seeded!Placed) /\ Cardinality(Seeded!Placed) \in Nat
  BY KeysAreFinite
<1>3. /\ Seeded!Placed' = Seeded!Placed \cup {k} /\ k \notin Seeded!Placed
      /\ games'[k] = new /\ \A j \in Keys : j # k => games'[j] = games[j]
  BY <1>1 DEF Seeded!Placed, Seeded!IsPlaced, Seeded!Rows
<1>4. Cardinality(Seeded!Placed') = Cardinality(Seeded!Placed) + 1
  BY <1>2, <1>3, FS_AddElement
<1> DEFINE before == PaidBy(games)
           after == PaidBy(games')
<1>5. /\ before[k] = 0 /\ after[k] = new.paid
      /\ \A j \in Keys : before[j] \in Nat
      /\ \A j \in Keys \ {k} : after[j] = before[j]
  <2>1. \A j \in Keys : before[j] \in Nat
    BY PaidIsNatural
  <2>2. before[k] = 0 /\ after[k] = new.paid
    BY <1>3 DEF PaidBy, Seeded!IsPlaced, Seeded!Rows
  <2>3. QED
    BY <1>3, <2>1, <2>2 DEF PaidBy
<1>6. \A j \in Keys : after[j] \in Nat
  BY <1>1, <1>5
<1> HIDE DEF before, after
<1>7. SumOf(after, Keys) = SumOf(before, Keys) - before[k] + after[k]
  BY <1>2, <1>5, <1>6, SumChanges
<1>8. SumOf(before, Keys) \in Nat
  BY <1>2, <1>5, SumType
<1>9. Ante * (Cardinality(Seeded!Placed) + 1) = Ante * Cardinality(Seeded!Placed) + Ante
  BY <1>1, <1>2
<1>10. Ante * Cardinality(Seeded!Placed) \in Nat
  BY <1>1, <1>2
<1>11. balance + Ante * Cardinality(Seeded!Placed) = Purse + SumOf(before, Keys)
  BY DEF WalletAgrees, before
<1>12. balance' + Ante * Cardinality(Seeded!Placed') = Purse + SumOf(after, Keys)
  BY <1>1, <1>4, <1>5, <1>7, <1>8, <1>9, <1>10, <1>11
<1>13. \A j \in Keys : Seeded!IsActive(j)' => games'[j].paid = 0
  BY <1>3 DEF WalletAgrees, Seeded!IsActive
<1>14. QED
  BY <1>12, <1>13 DEF WalletAgrees, after

LEMMA WalletFollowsPlay ==
    ASSUME Seeded!ConstantsOK, Seeded!TypeOK, WalletAgrees, NEW k \in Keys, Seeded!IsActive(k),
           NEW new \in Seeded!Rows, new.status = "active" => new.paid = 0,
           games' = [games EXCEPT ![k] = new], balance' = balance + new.paid
    PROVE  WalletAgrees'
<1>1. /\ games \in [Keys -> Seeded!Rows \cup {Seeded!NoGame}] /\ balance \in Int
      /\ Ante \in Nat /\ Purse \in Nat /\ new.paid \in Nat
  BY ConstantTypes DEF Seeded!TypeOK, Seeded!Rows
<1>2. IsFiniteSet(Keys) /\ IsFiniteSet(Seeded!Placed) /\ Cardinality(Seeded!Placed) \in Nat
  BY KeysAreFinite
<1>3. /\ Seeded!Placed' = Seeded!Placed
      /\ games'[k] = new /\ \A j \in Keys : j # k => games'[j] = games[j]
  BY <1>1 DEF Seeded!Placed, Seeded!IsPlaced, Seeded!IsActive, Seeded!Rows
<1> DEFINE before == PaidBy(games)
           after == PaidBy(games')
<1>5. /\ before[k] = 0 /\ after[k] = new.paid
      /\ \A j \in Keys : before[j] \in Nat
      /\ \A j \in Keys \ {k} : after[j] = before[j]
  <2>1. \A j \in Keys : before[j] \in Nat
    BY PaidIsNatural
  <2>2. before[k] = 0 /\ after[k] = new.paid
    BY <1>3 DEF WalletAgrees, PaidBy, Seeded!IsActive, Seeded!Rows
  <2>3. QED
    BY <1>3, <2>1, <2>2 DEF PaidBy
<1>6. \A j \in Keys : after[j] \in Nat
  BY <1>1, <1>5
<1> HIDE DEF before, after
<1>7. SumOf(after, Keys) = SumOf(before, Keys) - before[k] + after[k]
  BY <1>2, <1>5, <1>6, SumChanges
<1>8. SumOf(before, Keys) \in Nat
  BY <1>2, <1>5, SumType
<1>10. Ante * Cardinality(Seeded!Placed) \in Nat
  BY <1>1, <1>2
<1>11. balance + Ante * Cardinality(Seeded!Placed) = Purse + SumOf(before, Keys)
  BY DEF WalletAgrees, before
<1>12. balance' + Ante * Cardinality(Seeded!Placed') = Purse + SumOf(after, Keys)
  BY <1>1, <1>3, <1>5, <1>7, <1>8, <1>10, <1>11
<1>13. \A j \in Keys : Seeded!IsActive(j)' => games'[j].paid = 0
  BY <1>3 DEF WalletAgrees, Seeded!IsActive
<1>14. QED
  BY <1>12, <1>13 DEF WalletAgrees, after

(* Before the first game.                                                   *)
LEMMA SeededInitially == ASSUME Seeded!ConstantsOK, Seeded!Init PROVE SeededInv
<1>1. Seeded!TypeOK
  BY ConstantTypes DEF Seeded!Init, Seeded!TypeOK
<1>2. \A k \in Keys : ~Seeded!IsPlaced(k)
  BY DEF Seeded!Init, Seeded!IsPlaced, Seeded!NoGame
<1>3. SeedsAgree
  BY <1>2 DEF Seeded!Init, SeedsAgree, Seeded!Placed
<1>4. PressesAgree /\ Seeded!PlayedAsPressed /\ WageredOnce
  BY <1>2 DEF Seeded!Init, PressesAgree, Seeded!PlayedAsPressed, WageredOnce, Seeded!Placed
<1>5. WalletAgrees
  <2>1. Seeded!Placed = {} /\ balance = Purse /\ \A k \in Keys : PaidBy(games)[k] = 0
    BY <1>2 DEF Seeded!Init, Seeded!Placed, PaidBy, Seeded!NoGame
  <2>2. SumOf(PaidBy(games), Keys) = SumOf(PaidBy(games), {})
    BY <2>1, SumOfSome
  <2>3. SumOf(PaidBy(games), {}) = 0 /\ Cardinality(Seeded!Placed) = 0
    BY <2>1, SumOfNone, FS_EmptySet
  <2>4. QED
    BY <1>2, <2>1, <2>2, <2>3, ConstantTypes DEF WalletAgrees, Seeded!IsActive, Seeded!IsPlaced
<1>6. QED
  BY <1>1, <1>3, <1>4, <1>5 DEF SeededInv

-----------------------------------------------------------------------------
(* Steps that leave the games alone                                         *)

(* The games and the presses say the same of each other as before.          *)
LEMMA GamesStandStill ==
    ASSUME SeededInv, UNCHANGED <<pressed, games, wagers, balance>>
    PROVE  PressesAgree' /\ Seeded!PlayedAsPressed' /\ WageredOnce' /\ WalletAgrees'
<1>1. PressesAgree' /\ Seeded!PlayedAsPressed' /\ WageredOnce'
  BY DEF SeededInv, PressesAgree, Seeded!PlayedAsPressed, WageredOnce, Seeded!Placed,
         Seeded!IsPlaced, Seeded!IsActive
<1>2. WalletAgrees'
  BY DEF SeededInv, WalletAgrees, Seeded!Placed, Seeded!IsPlaced, Seeded!IsActive
<1>3. QED
  BY <1>1, <1>2

(* The page fetches the commitment to the next seed.                        *)
LEMMA FetchKeeps == ASSUME Seeded!ConstantsOK, SeededInv, Seeded!FetchCommitment PROVE SeededInv'
<1>1. UNCHANGED <<kind, shown, asked, pressed, games, balance, wagers, enabled, cap>>
      /\ known' = current'
  BY DEF Seeded!FetchCommitment
<1>2. /\ current' \in 1..MaxSeeds /\ current <= current'
      /\ draws' \in [1..MaxSeeds -> Seeded!Draws \cup {Seeded!NoDraw}]
      /\ \A s \in 1..MaxSeeds : s <= current' => draws'[s] \in Seeded!Draws
  <2>1. CASE current = 0
    <3>1. PICK d \in Seeded!Draws : current' = 1 /\ draws' = [draws EXCEPT ![1] = d]
      BY <2>1 DEF Seeded!FetchCommitment
    <3>2. QED
      BY <2>1, <3>1, ConstantTypes DEF SeededInv, Seeded!TypeOK
  <2>2. CASE current # 0
    BY <2>2, ConstantTypes DEF Seeded!FetchCommitment, SeededInv, Seeded!TypeOK
  <2>3. QED
    BY <2>1, <2>2
<1>3. Seeded!TypeOK'
  BY <1>1, <1>2 DEF SeededInv, Seeded!TypeOK
<1>4. SeedsAgree'
  <2>1. current \in Int /\ current' \in Int /\ shown \subseteq Int
        /\ (\A m \in asked : m.seed \in Int)
        /\ \A k \in Seeded!Placed : k \in Keys /\ games[k].seed \in Int
    <3>1. \A k \in Seeded!Placed : k \in Keys /\ games[k] \in Seeded!Rows
      BY PlacedRows DEF Seeded!Placed, SeededInv
    <3>2. QED
      BY <1>2, <3>1 DEF SeededInv, Seeded!TypeOK, Seeded!Rows
  <2>2. Seeded!Placed' = Seeded!Placed /\ \A k \in Keys : Seeded!IsActive(k)' <=> Seeded!IsActive(k)
    BY <1>1 DEF Seeded!Placed, Seeded!IsPlaced, Seeded!IsActive
  <2>3. (\A s \in shown : s < current') /\ \A m \in asked : m.seed <= current'
    BY <1>2, <2>1 DEF SeededInv, SeedsAgree
  <2>4. \A k \in Seeded!Placed : games[k].seed < current'
    BY <1>2, <2>1 DEF SeededInv, SeedsAgree
  <2>5. QED
    BY <1>1, <2>1, <2>2, <2>3, <2>4 DEF SeededInv, SeedsAgree
<1>5. QED
  BY <1>1, <1>3, <1>4, GamesStandStill DEF SeededInv

(* A bet is sent.                                                           *)
LEMMA AskKeeps == ASSUME Seeded!ConstantsOK, SeededInv, NEW k \in Keys, Seeded!Ask(k) PROVE SeededInv'
<1> DEFINE m == [key |-> k, seed |-> known]
<1>1. /\ known \in 1..MaxSeeds /\ known <= current
      /\ asked' = asked \cup {m}
      /\ UNCHANGED <<current, draws, shown, kind, known, pressed, games, balance, wagers,
                     enabled, cap>>
  BY DEF Seeded!Ask, Seeded!seedVars, SeededInv, Seeded!TypeOK, SeedsAgree
<1>2. Seeded!TypeOK'
  BY <1>1 DEF SeededInv, Seeded!TypeOK
<1>3. SeedsAgree'
  BY <1>1 DEF SeededInv, SeedsAgree, Seeded!Placed, Seeded!IsPlaced, Seeded!IsActive
<1>4. QED
  BY <1>1, <1>2, <1>3, GamesStandStill DEF SeededInv

(* What a game offers depends on how many turns it has had.                 *)
LEMMA OfferIsOfCount ==
    ASSUME Seeded!ConstantsOK, NEW g \in Seeded!Rows
    PROVE  Seeded!Offer(g) = OfferAt(Len(g.turned), g.cap) /\ Seeded!Offer(g) \in Nat
<1>1. Len(g.turned) \in Nat /\ (g.turned = <<>> <=> Len(g.turned) = 0) /\ g.cap \in Nat
  BY DEF Seeded!Rows, Seeded!Taps
<1>2. Ante * (1 + Len(g.turned)) \in Nat
  BY <1>1, ConstantTypes
<1>3. QED
  BY <1>1, <1>2 DEF Seeded!Offer, OfferAt

(* More presses take nothing from what games say of presses.                *)
LEMMA PressedKeeps ==
    ASSUME Seeded!ConstantsOK, SeededInv, NEW p \in Seeded!Presses, Seeded!IsPlaced(p.key),
           p.tile = Seeded!CashOut => p.offer = OfferAt(p.count, games[p.key].cap),
           pressed' = pressed \cup {p},
           UNCHANGED <<Seeded!seedVars, kind, known, asked, games, balance, wagers, enabled, cap>>
    PROVE  SeededInv'
<1>1. Seeded!TypeOK'
  BY DEF SeededInv, Seeded!TypeOK, Seeded!seedVars
<1>2. SeedsAgree' /\ WageredOnce'
  BY DEF SeededInv, SeedsAgree, WageredOnce, Seeded!Placed, Seeded!IsPlaced, Seeded!IsActive,
         Seeded!seedVars
<1>3. PressesAgree'
  <2>1. \A q : Seeded!IsPlaced(q)' <=> Seeded!IsPlaced(q)
    BY DEF Seeded!IsPlaced
  <2>2. QED
    BY <2>1 DEF SeededInv, PressesAgree
<1>4. Seeded!PlayedAsPressed'
  BY DEF SeededInv, Seeded!PlayedAsPressed, Seeded!Placed, Seeded!IsPlaced
<1>5. WalletAgrees'
  BY DEF SeededInv, WalletAgrees, Seeded!Placed, Seeded!IsPlaced, Seeded!IsActive
<1>6. QED
  BY <1>1, <1>2, <1>3, <1>4, <1>5 DEF SeededInv

(* A press is sent in a game that is played on.                             *)
LEMMA PressKeeps ==
    ASSUME Seeded!ConstantsOK, SeededInv, NEW k \in Keys, NEW tile \in Seeded!Taps,
           Seeded!Press(k, tile) PROVE SeededInv'
<1> DEFINE p == [key |-> k, tile |-> tile, count |-> Len(games[k].turned)]
<1>1. games[k] \in Seeded!Rows /\ Seeded!IsPlaced(k)
  BY PlacedRows DEF Seeded!Press, SeededInv
<1>2. p \in Seeded!Presses /\ p.key = k /\ p.tile # Seeded!CashOut
  BY <1>1 DEF Seeded!Presses, Seeded!Rows, Seeded!Taps, Seeded!CashOut
<1>3. QED
  BY <1>1, <1>2, PressedKeeps DEF Seeded!Press

(* A cash-out is sent with the offer the player sees.                       *)
LEMMA PressCashOutKeeps ==
    ASSUME Seeded!ConstantsOK, SeededInv, NEW k \in Keys, Seeded!PressCashOut(k) PROVE SeededInv'
<1> DEFINE p == [key |-> k, tile |-> Seeded!CashOut, count |-> Len(games[k].turned),
                 offer |-> Seeded!Offer(games[k])]
<1>1. games[k] \in Seeded!Rows /\ Seeded!IsPlaced(k)
  BY PlacedRows DEF Seeded!PressCashOut, SeededInv
<1>2. Len(games[k].turned) \in Nat /\ Seeded!Offer(games[k]) \in Nat
  BY <1>1, OfferIsOfCount DEF Seeded!Rows
<1>3. p \in Seeded!Presses /\ p.key = k
  BY <1>2 DEF Seeded!Presses
<1>4. p.offer = OfferAt(p.count, games[p.key].cap)
  BY <1>1, OfferIsOfCount
<1>5. QED
  BY <1>1, <1>3, <1>4, PressedKeeps DEF Seeded!PressCashOut

(* An operator changes the highest payout.                                  *)
LEMMA ConfigureKeeps == ASSUME Seeded!ConstantsOK, SeededInv, Seeded!Configure PROVE SeededInv'
<1>1. Seeded!TypeOK'
  BY DEF Seeded!Configure, SeededInv, Seeded!TypeOK, Seeded!seedVars, Seeded!sentVars
<1>2. SeedsAgree'
  BY DEF Seeded!Configure, SeededInv, SeedsAgree, Seeded!Placed, Seeded!IsPlaced, Seeded!IsActive,
         Seeded!seedVars, Seeded!sentVars
<1>3. QED
  BY <1>1, <1>2, GamesStandStill DEF Seeded!Configure, SeededInv, Seeded!sentVars

-----------------------------------------------------------------------------
(* Bets                                                                     *)

(* The seed after the one that is spent is generated and not used yet.      *)
LEMMA SpendTypes ==
    ASSUME Seeded!ConstantsOK, SeededInv, Seeded!SpendSeed, current < MaxSeeds
    PROVE  /\ current \in Nat /\ current' = current + 1 /\ current' \in 0..MaxSeeds
           /\ draws' \in [1..MaxSeeds -> Seeded!Draws \cup {Seeded!NoDraw}]
           /\ \A s \in 1..MaxSeeds : s <= current' => draws'[s] \in Seeded!Draws
<1>1. current \in Nat /\ current' = current + 1 /\ current' \in 1..MaxSeeds
  BY ConstantTypes DEF Seeded!SpendSeed, SeededInv, Seeded!TypeOK
<1>2. PICK d \in Seeded!Draws : draws' = [draws EXCEPT ![current + 1] = d]
  BY DEF Seeded!SpendSeed
<1>3. draws' \in [1..MaxSeeds -> Seeded!Draws \cup {Seeded!NoDraw}]
  BY <1>1, <1>2 DEF SeededInv, Seeded!TypeOK
<1>4. ASSUME NEW s \in 1..MaxSeeds, s <= current' PROVE draws'[s] \in Seeded!Draws
  BY <1>1, <1>2, <1>4, ConstantTypes DEF SeededInv, Seeded!TypeOK
<1>5. QED
  BY <1>1, <1>3, <1>4, ConstantTypes

(* A bet fills the row of its key with a game of the current seed, which is *)
(* older than the next one and younger than any used before.                *)
LEMMA BetKeeps ==
    ASSUME Seeded!ConstantsOK, SeededInv, NEW m \in asked, Seeded!MayBet(m), Seeded!SpendSeed,
           NEW new \in Seeded!Rows, new.seed = m.seed, new.turned = <<>>, new.by # "player",
           games' = [games EXCEPT ![m.key] = new], balance' = balance - Ante + new.paid,
           new.status = "active" => new.paid = 0,
           \/ new.status = "active" /\ UNCHANGED <<shown, wagers>>
           \/ /\ new.status = "settled" /\ shown' = shown \cup {m.seed}
              /\ wagers' = [wagers EXCEPT ![m.key] = @ + 1],
           UNCHANGED <<Seeded!sentVars, enabled, cap>>
    PROVE  SeededInv'
<1> DEFINE k == m.key
<1>1. /\ k \in Keys /\ m.seed = current /\ ~Seeded!IsPlaced(k) /\ current \in 1..MaxSeeds
      /\ current < MaxSeeds
  BY DEF Seeded!MayBet, SeededInv, Seeded!TypeOK
<1>2. /\ current \in Nat /\ current' = current + 1 /\ current' \in 0..MaxSeeds
      /\ draws' \in [1..MaxSeeds -> Seeded!Draws \cup {Seeded!NoDraw}]
      /\ \A s \in 1..MaxSeeds : s <= current' => draws'[s] \in Seeded!Draws
  BY <1>1, SpendTypes
<1>3. UNCHANGED <<kind, known, asked, pressed>>
  BY DEF Seeded!sentVars
<1>4. /\ games' \in [Keys -> Seeded!Rows \cup {Seeded!NoGame}] /\ games'[k] = new
      /\ \A j \in Keys : j # k => games'[j] = games[j]
  BY <1>1 DEF SeededInv, Seeded!TypeOK
<1>5. shown' \subseteq 1..MaxSeeds /\ wagers' \in [Keys -> Nat]
  <2>1. shown \subseteq 1..MaxSeeds /\ wagers \in [Keys -> Nat] /\ m.seed \in 1..MaxSeeds
    BY <1>1 DEF SeededInv, Seeded!TypeOK
  <2>2. [wagers EXCEPT ![k] = @ + 1] \in [Keys -> Nat]
    BY <1>1, <2>1
  <2>3. QED
    BY <2>1, <2>2
<1>6. Seeded!TypeOK'
  <2>1. balance' \in Nat
    BY ConstantTypes DEF SeededInv, Seeded!TypeOK, Seeded!MayBet, Seeded!Rows
  <2>2. QED
    BY <1>2, <1>3, <1>4, <1>5, <2>1 DEF SeededInv, Seeded!TypeOK
<1>7. /\ Seeded!Placed' = Seeded!Placed \cup {k} /\ k \notin Seeded!Placed
      /\ \A j \in Seeded!Placed : j \in Keys /\ j # k /\ (Seeded!IsActive(j)' <=> Seeded!IsActive(j))
      /\ Seeded!IsActive(k)' <=> new.status = "active"
  BY <1>1, <1>4 DEF Seeded!Placed, Seeded!IsPlaced, Seeded!IsActive, Seeded!Rows
<1>8. /\ \A j \in Seeded!Placed : games[j].seed \in Nat /\ games[j].seed < current
      /\ \A s \in shown : s \in Nat /\ s < current
      /\ \A n \in asked : n.seed \in Nat /\ n.seed <= current
      /\ known \in Nat /\ known <= current
  <2>1. \A j \in Seeded!Placed : games[j] \in Seeded!Rows
    BY PlacedRows DEF Seeded!Placed, SeededInv
  <2>2. QED
    BY <2>1 DEF SeededInv, Seeded!TypeOK, SeedsAgree, Seeded!Rows
<1>9. SeedsAgree'
  <2>1. ASSUME NEW s \in shown' PROVE s < current'
    <3>1. s \in Nat /\ s <= current
      BY <1>1, <1>2, <1>8
    <3>2. QED
      BY <1>2, <3>1
  <2>2. known' <= current' /\ \A n \in asked' : n.seed <= current'
    BY <1>2, <1>3, <1>8
  <2>3. ASSUME NEW j \in Seeded!Placed', NEW i \in Seeded!Placed', i # j
        PROVE  games'[i].seed # games'[j].seed
    <3>1. ASSUME NEW a \in Seeded!Placed PROVE games'[a].seed # games'[k].seed
      <4>1. games'[a] = games[a] /\ games'[k].seed = current
        BY <1>1, <1>4, <1>7
      <4>2. games[a].seed \in Nat /\ games[a].seed < current
        BY <1>8
      <4>3. QED
        BY <1>2, <4>1, <4>2
    <3>2. CASE i # k /\ j # k
      <4>1. i \in Seeded!Placed /\ j \in Seeded!Placed /\ games'[i] = games[i] /\ games'[j] = games[j]
        BY <1>4, <1>7, <3>2
      <4>2. QED
        BY <2>3, <4>1 DEF SeededInv, SeedsAgree
    <3>3. QED
      BY <1>7, <2>3, <3>1, <3>2
  <2>4. ASSUME NEW j \in Seeded!Placed'
        PROVE  /\ games'[j].seed < current'
               /\ \E n \in asked' : n.key = j /\ n.seed = games'[j].seed
    <3>1. CASE j = k
      BY <1>1, <1>2, <1>3, <1>4, <3>1
    <3>2. CASE j # k
      <4>1. j \in Seeded!Placed /\ games'[j] = games[j] /\ games[j].seed \in Nat
        BY <1>4, <1>7, <1>8, <3>2
      <4>2. games[j].seed < current'
        BY <1>2, <1>8, <4>1
      <4>3. QED
        BY <1>3, <4>1, <4>2 DEF SeededInv, SeedsAgree
    <3>3. QED
      BY <3>1, <3>2
  <2>5. ASSUME NEW j \in Seeded!Placed', Seeded!IsActive(j)' PROVE games'[j].seed \notin shown'
    <3>1. CASE j = k
      <4>1. new.status = "active" /\ shown' = shown
        BY <1>7, <2>5, <3>1 DEF Seeded!Rows
      <4>2. current \notin shown
        BY <1>2, <1>8
      <4>3. QED
        BY <1>1, <1>4, <3>1, <4>1, <4>2
    <3>2. CASE j # k
      <4>1. j \in Seeded!Placed /\ Seeded!IsActive(j) /\ games'[j] = games[j] /\ games[j].seed # m.seed
        BY <1>1, <1>2, <1>4, <1>7, <1>8, <2>5, <3>2
      <4>2. games[j].seed \notin shown
        BY <4>1 DEF SeededInv, SeedsAgree
      <4>3. QED
        BY <4>1, <4>2
    <3>3. QED
      BY <3>1, <3>2
  <2>6. QED
    BY <2>1, <2>2, <2>3, <2>4, <2>5 DEF SeedsAgree
<1>10. PressesAgree'
  <2>1. ASSUME NEW p \in pressed
        PROVE  p.key \in Keys /\ p.key # k /\ games'[p.key] = games[p.key]
               /\ Seeded!IsPlaced(p.key)'
    <3>1. p.key \in Keys /\ Seeded!IsPlaced(p.key)
      BY DEF SeededInv, Seeded!TypeOK, Seeded!Presses, PressesAgree
    <3>2. QED
      BY <1>1, <1>4, <3>1 DEF Seeded!IsPlaced
  <2>2. QED
    BY <1>3, <2>1 DEF SeededInv, PressesAgree
<1>11. Seeded!PlayedAsPressed'
  BY <1>3, <1>4, <1>7 DEF SeededInv, Seeded!PlayedAsPressed
<1>12. WageredOnce'
  <2>1. ASSUME NEW j \in Keys PROVE wagers'[j] = IF Seeded!IsPlaced(j)' /\ ~Seeded!IsActive(j)' THEN 1 ELSE 0
    <3>1. CASE j = k
      <4>1. wagers[k] = 0 /\ Seeded!IsPlaced(k)'
        BY <1>1, <1>7 DEF SeededInv, WageredOnce, Seeded!Placed
      <4>2. wagers'[k] = IF new.status = "settled" THEN 1 ELSE 0
        BY <1>1, <4>1 DEF SeededInv, Seeded!TypeOK
      <4>3. QED
        BY <1>7, <3>1, <4>1, <4>2 DEF Seeded!Rows
    <3>2. CASE j # k
      BY <1>4, <3>2 DEF SeededInv, Seeded!TypeOK, WageredOnce, Seeded!IsPlaced, Seeded!IsActive
    <3>3. QED
      BY <3>1, <3>2
  <2>2. QED
    BY <2>1 DEF WageredOnce
<1>13. WalletAgrees'
  BY <1>1, WalletFollowsBet DEF SeededInv
<1>14. QED
  BY <1>6, <1>9, <1>10, <1>11, <1>12, <1>13 DEF SeededInv

(* A bet opens a game that is played on.                                    *)
LEMMA DealKeeps ==
    ASSUME Seeded!ConstantsOK, SeededInv, NEW m \in asked, NEW field \in Seeded!Fields,
           Seeded!Deal(m, field)
    PROVE  SeededInv'
<1> DEFINE new == [status |-> "active", seed |-> m.seed, field |-> field, turned |-> <<>>,
                   cap |-> cap, paid |-> 0, by |-> "none"]
<1>1. m.seed \in 1..MaxSeeds /\ cap \in Nat
  BY ConstantTypes DEF SeededInv, Seeded!TypeOK
<1>2. /\ new \in Seeded!Rows /\ new.status = "active" /\ new.seed = m.seed
      /\ new.turned = <<>> /\ new.by # "player"
  BY <1>1 DEF Seeded!Rows
<1>3. balance' = balance - Ante + new.paid /\ new.paid = 0
  BY ConstantTypes DEF Seeded!Deal, SeededInv, Seeded!TypeOK
<1>4. /\ Seeded!MayBet(m) /\ Seeded!SpendSeed /\ games' = [games EXCEPT ![m.key] = new]
      /\ UNCHANGED <<shown, wagers>> /\ UNCHANGED <<Seeded!sentVars, enabled, cap>>
  BY DEF Seeded!Deal
<1> HIDE DEF new
<1>5. QED
  BY <1>2, <1>3, <1>4, BetKeeps

(* A bet on a game that is over at once.                                    *)
LEMMA PlayAtOnceKeeps ==
    ASSUME Seeded!ConstantsOK, SeededInv, NEW m \in asked, NEW pay \in {0, 2 * Ante},
           Seeded!MayBet(m),
           games' = [games EXCEPT ![m.key] =
                        [status |-> "settled", seed |-> m.seed, field |-> {}, turned |-> <<>>,
                         cap |-> cap, paid |-> pay, by |-> "house"]],
           balance' = balance - Ante + pay, Seeded!SpendSeed, shown' = shown \cup {m.seed},
           wagers' = [wagers EXCEPT ![m.key] = @ + 1],
           UNCHANGED <<Seeded!sentVars, enabled, cap>>
    PROVE  SeededInv'
<1> DEFINE new == [status |-> "settled", seed |-> m.seed, field |-> {}, turned |-> <<>>,
                   cap |-> cap, paid |-> pay, by |-> "house"]
<1>1. m.seed \in 1..MaxSeeds /\ cap \in Nat /\ pay \in Nat
  BY ConstantTypes DEF SeededInv, Seeded!TypeOK
<1>2. /\ new \in Seeded!Rows /\ new.status = "settled" /\ new.seed = m.seed
      /\ new.turned = <<>> /\ new.by # "player"
  BY <1>1 DEF Seeded!Rows, Seeded!Fields
<1>3. balance' = balance - Ante + new.paid
  OBVIOUS
<1>4. games' = [games EXCEPT ![m.key] = new]
  OBVIOUS
<1> HIDE DEF new
<1>5. QED
  BY <1>2, <1>3, <1>4, BetKeeps

(* A bet arrives, whatever comes of it.                                     *)
LEMMA EachBetKeeps == ASSUME Seeded!ConstantsOK, SeededInv, NEW m \in asked, Seeded!Bet(m) PROVE SeededInv'
<1>1. ASSUME Seeded!MayBet(m) PROVE draws[m.seed] \in Seeded!Draws
  BY <1>1 DEF Seeded!MayBet, SeededInv, Seeded!TypeOK
<1>2. ASSUME NEW d \in Seeded!Draws
      PROVE  Seeded!MinePositions(d) \in Seeded!Fields /\ Seeded!TrapLayout(d) \in Seeded!Fields /\ Seeded!CartLane(d) \in Seeded!Fields
  <2>1. d \in Nat
    BY DEF Seeded!Draws
  <2>2. \A floor \in 0..1 : (d + floor) % 2 \in Nat
    BY <2>1
  <2>3. Seeded!TrapLayout(d) \in [0..1 -> SUBSET Nat]
    BY <2>2 DEF Seeded!TrapLayout
  <2>4. Seeded!MinePositions(d) \in SUBSET Nat
    BY <2>1 DEF Seeded!MinePositions
  <2>5. Seeded!CartLane(d) \in Nat
    BY <2>1 DEF Seeded!CartLane
  <2>6. QED
    BY <2>3, <2>4, <2>5 DEF Seeded!Fields
<1>3. CASE Seeded!StartMines(m) \/ Seeded!StartTower(m) \/ Seeded!StartChicken(m) \/ Seeded!StartIce(m)
  <2>1. Seeded!MayBet(m)
    BY <1>3 DEF Seeded!StartMines, Seeded!StartTower, Seeded!StartChicken, Seeded!StartIce,
                Seeded!Deal
  <2>2. QED
    BY <1>1, <1>2, <1>3, <2>1, DealKeeps DEF Seeded!StartMines, Seeded!StartTower,
                                             Seeded!StartChicken, Seeded!StartIce
<1>4. ASSUME NEW wins, Seeded!PlayAtOnce(m, wins) PROVE SeededInv'
  BY <1>4, PlayAtOnceKeeps DEF Seeded!PlayAtOnce
<1>5. CASE Seeded!RollDice(m) \/ Seeded!SpinSlots(m) \/ Seeded!DropPlinko(m) \/ Seeded!RunDerby(m) \/ Seeded!Upgrade(m)
  BY <1>4, <1>5 DEF Seeded!RollDice, Seeded!SpinSlots, Seeded!DropPlinko, Seeded!RunDerby,
                    Seeded!Upgrade, Seeded!Instant
<1>6. QED
  BY <1>3, <1>5 DEF Seeded!Bet

-----------------------------------------------------------------------------
(* Games in play                                                            *)

(* A game goes on, or is over, with tiles and a payment that were pressed   *)
(* for.                                                                     *)
LEMMA GameGoesOn ==
    ASSUME Seeded!ConstantsOK, SeededInv, NEW k \in Keys, Seeded!IsActive(k),
           NEW new \in Seeded!Rows,
           new.seed = games[k].seed, new.cap = games[k].cap,
           \A i \in DOMAIN new.turned :
              \E p \in pressed : p.key = k /\ p.tile = new.turned[i] /\ p.count = i - 1,
           new.by = "player" =>
              \E p \in pressed : p.key = k /\ p.tile = Seeded!CashOut /\ p.offer = new.paid,
           games' = [games EXCEPT ![k] = new], balance' = balance + new.paid,
           new.status = "active" => new.paid = 0,
           \/ new.status = "active" /\ UNCHANGED <<shown, wagers>>
           \/ /\ new.status = "settled" /\ shown' = shown \cup {new.seed}
              /\ wagers' = [wagers EXCEPT ![k] = @ + 1],
           UNCHANGED <<current, draws, Seeded!sentVars, enabled, cap>>
    PROVE  SeededInv'
<1>1. /\ k \in Seeded!Placed /\ games[k] \in Seeded!Rows /\ new.seed \in 1..MaxSeeds
      /\ Seeded!IsPlaced(k)
  BY PlacedRows DEF Seeded!Placed, SeededInv, Seeded!Rows
<1>2. /\ games' \in [Keys -> Seeded!Rows \cup {Seeded!NoGame}] /\ games'[k] = new
      /\ \A j \in Keys : j # k => games'[j] = games[j]
  BY DEF SeededInv, Seeded!TypeOK
<1>3. shown' \subseteq 1..MaxSeeds /\ wagers' \in [Keys -> Nat]
  <2>1. shown \subseteq 1..MaxSeeds /\ wagers \in [Keys -> Nat]
    BY DEF SeededInv, Seeded!TypeOK
  <2>2. [wagers EXCEPT ![k] = @ + 1] \in [Keys -> Nat]
    BY <2>1
  <2>3. QED
    BY <1>1, <2>1, <2>2
<1>4. UNCHANGED <<kind, known, asked, pressed>>
  BY DEF Seeded!sentVars
<1>5. Seeded!TypeOK'
  <2>1. balance' \in Nat
    BY DEF SeededInv, Seeded!TypeOK, Seeded!Rows
  <2>2. QED
    BY <1>2, <1>3, <1>4, <2>1 DEF SeededInv, Seeded!TypeOK
<1>6. /\ Seeded!Placed' = Seeded!Placed
      /\ \A j \in Keys : /\ Seeded!IsPlaced(j)' <=> Seeded!IsPlaced(j)
                         /\ games'[j].seed = games[j].seed
                         /\ j # k => (Seeded!IsActive(j)' <=> Seeded!IsActive(j))
      /\ Seeded!IsActive(k)' <=> new.status = "active"
  <2>1. \A j \in Keys : Seeded!IsPlaced(j)' <=> Seeded!IsPlaced(j)
    BY <1>1, <1>2 DEF Seeded!IsPlaced, Seeded!Rows
  <2>2. \A j \in Keys : games'[j].seed = games[j].seed
    BY <1>2
  <2>3. QED
    BY <1>2, <2>1, <2>2 DEF Seeded!Placed, Seeded!IsActive
<1>7. SeedsAgree'
  <2>1. \A s \in shown' : s < current
    BY <1>1 DEF SeededInv, SeedsAgree
  <2>2. ASSUME NEW j \in Seeded!Placed, Seeded!IsActive(j)' PROVE games[j].seed \notin shown'
    <3>1. CASE j = k
      BY <1>1, <1>6, <2>2, <3>1 DEF SeededInv, SeedsAgree, Seeded!Rows
    <3>2. CASE j # k
      BY <1>1, <1>6, <2>2, <3>2 DEF SeededInv, SeedsAgree, Seeded!Placed
    <3>3. QED
      BY <3>1, <3>2
  <2>3. \A j \in Seeded!Placed : j \in Keys
    BY DEF Seeded!Placed
  <2>4. QED
    BY <1>4, <1>6, <2>1, <2>2, <2>3 DEF SeededInv, SeedsAgree
<1>8. PressesAgree'
  <2>1. \A p \in pressed : p.key \in Keys /\ Seeded!IsPlaced(p.key)
    BY DEF SeededInv, Seeded!TypeOK, Seeded!Presses, PressesAgree
  <2>2. \A p \in pressed : Seeded!IsPlaced(p.key)' /\ games'[p.key].cap = games[p.key].cap
    BY <1>2, <1>6, <2>1
  <2>3. QED
    BY <1>4, <2>2 DEF SeededInv, PressesAgree
<1>9. Seeded!PlayedAsPressed'
  <2>1. ASSUME NEW j \in Seeded!Placed
        PROVE  /\ \A i \in DOMAIN games'[j].turned :
                     \E p \in pressed :
                        p.key = j /\ p.tile = games'[j].turned[i] /\ p.count = i - 1
               /\ games'[j].by = "player" =>
                     \E p \in pressed : p.key = j /\ p.tile = Seeded!CashOut /\ p.offer = games'[j].paid
    <3>1. CASE j = k
      BY <1>2, <3>1
    <3>2. CASE j # k
      BY <1>2, <3>2 DEF SeededInv, Seeded!PlayedAsPressed, Seeded!Placed
    <3>3. QED
      BY <3>1, <3>2
  <2>2. QED
    BY <1>4, <1>6, <2>1 DEF Seeded!PlayedAsPressed
<1>10. WageredOnce'
  <2>1. ASSUME NEW j \in Keys PROVE wagers'[j] = IF Seeded!IsPlaced(j)' /\ ~Seeded!IsActive(j)' THEN 1 ELSE 0
    <3>1. CASE j = k
      <4>1. wagers[k] = 0
        BY DEF SeededInv, WageredOnce
      <4>2. wagers'[k] = IF new.status = "settled" THEN 1 ELSE 0
        BY <4>1 DEF SeededInv, Seeded!TypeOK
      <4>3. QED
        BY <1>1, <1>6, <3>1, <4>2 DEF Seeded!Rows
    <3>2. CASE j # k
      BY <1>6, <3>2 DEF SeededInv, Seeded!TypeOK, WageredOnce
    <3>3. QED
      BY <3>1, <3>2
  <2>2. QED
    BY <2>1 DEF WageredOnce
<1>11. WalletAgrees'
  BY WalletFollowsPlay DEF SeededInv
<1>12. QED
  BY <1>5, <1>7, <1>8, <1>9, <1>10, <1>11 DEF SeededInv

(* A settled game is paid what it offered, or nothing.                      *)
LEMMA SettleKeeps ==
    ASSUME Seeded!ConstantsOK, SeededInv, NEW k \in Keys, Seeded!IsActive(k), NEW g \in Seeded!Rows,
           NEW by \in {"lost", "house", "player"},
           g.seed = games[k].seed, g.cap = games[k].cap,
           \A i \in DOMAIN g.turned :
              \E p \in pressed : p.key = k /\ p.tile = g.turned[i] /\ p.count = i - 1,
           by = "player" =>
              \E p \in pressed : p.key = k /\ p.tile = Seeded!CashOut /\ p.offer = Seeded!Offer(g),
           Seeded!Settle(k, g, by), UNCHANGED <<Seeded!sentVars, enabled, cap>>
    PROVE  SeededInv'
<1> DEFINE pay == IF by = "lost" THEN 0 ELSE Seeded!Offer(g)
           new == [g EXCEPT !.status = "settled", !.paid = pay, !.by = by]
<1>1. pay \in Nat
  BY OfferIsOfCount
<1>2. /\ games' = [games EXCEPT ![k] = new] /\ balance' = balance + pay
      /\ shown' = shown \cup {g.seed} /\ wagers' = [wagers EXCEPT ![k] = @ + 1]
      /\ UNCHANGED <<current, draws>>
  BY DEF Seeded!Settle
<1>4. by = "player" => pay = Seeded!Offer(g)
  OBVIOUS
<1> HIDE DEF pay
<1>5. /\ new \in Seeded!Rows /\ new.status = "settled" /\ new.seed = g.seed /\ new.cap = g.cap
      /\ new.turned = g.turned /\ new.by = by /\ new.paid = pay
  BY <1>1 DEF Seeded!Rows
<1> HIDE DEF new
<1>6. /\ \A i \in DOMAIN new.turned :
            \E p \in pressed : p.key = k /\ p.tile = new.turned[i] /\ p.count = i - 1
      /\ new.by = "player" =>
            \E p \in pressed : p.key = k /\ p.tile = Seeded!CashOut /\ p.offer = new.paid
      /\ new.seed = games[k].seed /\ new.cap = games[k].cap
      /\ shown' = shown \cup {new.seed}
  BY <1>2, <1>4, <1>5
<1>7. balance' = balance + new.paid /\ new.status # "active"
  BY <1>2, <1>5
<1>8. QED
  BY <1>2, <1>5, <1>6, <1>7, GameGoesOn

(* A turn that a press in time asks for.                                    *)
LEMMA TurnKeeps ==
    ASSUME Seeded!ConstantsOK, SeededInv, NEW p \in pressed, NEW isHit, Seeded!IsActive(p.key),
           p.tile # Seeded!CashOut,
           Seeded!IsTimely(p), Seeded!Turn(p, isHit)
    PROVE  SeededInv'
<1> DEFINE k == p.key
           g == games[k]
           next == [g EXCEPT !.turned = Append(@, p.tile)]
<1>1. /\ k \in Keys /\ p.tile \in Seeded!Taps /\ g \in Seeded!Rows /\ k \in Seeded!Placed
      /\ p.count = Len(g.turned)
  BY PlacedRows DEF SeededInv, Seeded!TypeOK, Seeded!Presses, Seeded!IsTimely, Seeded!Placed
<1>2. g.turned \in Seq(Seeded!Taps)
  BY <1>1 DEF Seeded!Rows
<1>3. \A i \in DOMAIN g.turned :
         \E q \in pressed : q.key = k /\ q.tile = g.turned[i] /\ q.count = i - 1
  BY <1>1 DEF SeededInv, Seeded!PlayedAsPressed
<1>4. g.by # "player" \/ \E q \in pressed : q.key = k /\ q.tile = Seeded!CashOut /\ q.offer = g.paid
  BY <1>1 DEF SeededInv, Seeded!PlayedAsPressed
<1>5. Append(g.turned, p.tile) \in Seq(Seeded!Taps)
  BY <1>1, <1>2
<1>6. /\ next \in Seeded!Rows /\ next.turned = Append(g.turned, p.tile)
      /\ next.seed = g.seed /\ next.cap = g.cap /\ next.status = g.status
      /\ next.by = g.by /\ next.paid = g.paid
  BY <1>1, <1>5 DEF Seeded!Rows
<1>7. ASSUME NEW i \in DOMAIN next.turned
      PROVE  \E q \in pressed : q.key = k /\ q.tile = next.turned[i] /\ q.count = i - 1
  <2>1. /\ DOMAIN next.turned = 1..(Len(g.turned) + 1) /\ Len(g.turned) \in Nat
        /\ DOMAIN g.turned = 1..Len(g.turned)
        /\ next.turned[Len(g.turned) + 1] = p.tile
        /\ \A n \in 1..Len(g.turned) : next.turned[n] = g.turned[n]
    BY <1>1, <1>2, <1>6
  <2>2. CASE i = Len(g.turned) + 1
    BY <1>1, <2>1, <2>2
  <2>3. CASE i # Len(g.turned) + 1
    <3>1. i \in 1..Len(g.turned)
      BY <2>1, <2>3
    <3>2. QED
      BY <1>3, <2>1, <3>1
  <2>4. QED
    BY <2>2, <2>3
<1>8. \/ Seeded!Settle(k, g, "lost") \/ Seeded!Settle(k, next, "house")
      \/ games' = [games EXCEPT ![k] = next] /\ UNCHANGED <<Seeded!seedVars, balance, wagers>>
  BY DEF Seeded!Turn
<1>9. UNCHANGED <<Seeded!sentVars, enabled, cap>>
  BY DEF Seeded!Turn
<1> HIDE DEF next
<1>10. CASE Seeded!Settle(k, g, "lost")
  BY <1>1, <1>3, <1>9, <1>10, SettleKeeps
<1>11. CASE Seeded!Settle(k, next, "house")
  BY <1>1, <1>6, <1>7, <1>9, <1>11, SettleKeeps
<1>12. CASE games' = [games EXCEPT ![k] = next] /\ UNCHANGED <<Seeded!seedVars, balance, wagers>>
  <2>1. balance' = balance + next.paid /\ next.paid = 0 /\ UNCHANGED <<current, draws, shown, wagers>>
    BY <1>1, <1>6, <1>12 DEF SeededInv, Seeded!TypeOK, Seeded!seedVars, WalletAgrees
  <2>2. next.status = "active"
    BY <1>6 DEF Seeded!IsActive
  <2>3. next.by = "player" =>
           \E q \in pressed : q.key = k /\ q.tile = Seeded!CashOut /\ q.offer = next.paid
    BY <1>4, <1>6
  <2>4. next.seed = games[k].seed /\ next.cap = games[k].cap
    BY <1>6
  <2>5. k \in Keys /\ Seeded!IsActive(k) /\ next \in Seeded!Rows /\ games' = [games EXCEPT ![k] = next]
    BY <1>1, <1>6, <1>12
  <2> HIDE DEF k, g
  <2>6. QED
    BY <1>7, <1>9, <2>1, <2>2, <2>3, <2>4, <2>5, GameGoesOn
<1>13. QED
  BY <1>8, <1>10, <1>11, <1>12

(* A cash-out pays the offer that was pressed on: it is the game's offer    *)
(* after as many turns as the press counted.                                *)
LEMMA TakeKeeps ==
    ASSUME Seeded!ConstantsOK, SeededInv, NEW p \in pressed, NEW sort, Seeded!Take(p,
           sort) PROVE SeededInv'
<1> DEFINE k == p.key
           g == games[k]
<1>1. /\ k \in Keys /\ g \in Seeded!Rows /\ k \in Seeded!Placed /\ p.count = Len(g.turned)
      /\ p.tile = Seeded!CashOut /\ Seeded!IsActive(k)
  BY PlacedRows DEF Seeded!Take, SeededInv, Seeded!TypeOK, Seeded!Presses, Seeded!IsTimely,
                    Seeded!Placed
<1>2. p.offer = Seeded!Offer(g)
  BY <1>1, OfferIsOfCount DEF SeededInv, PressesAgree
<1>3. \A i \in DOMAIN g.turned :
         \E q \in pressed : q.key = k /\ q.tile = g.turned[i] /\ q.count = i - 1
  BY <1>1 DEF SeededInv, Seeded!PlayedAsPressed
<1>4. QED
  BY <1>1, <1>2, <1>3, SettleKeeps DEF Seeded!Take

(* A press arrives.                                                         *)
LEMMA PlayKeeps == ASSUME Seeded!ConstantsOK, SeededInv, NEW p \in pressed, Seeded!Play(p) PROVE SeededInv'
<1>1. CASE Seeded!RevealTile(p)
  BY <1>1, TurnKeeps DEF Seeded!RevealTile, Seeded!MayTurn
<1>2. CASE Seeded!DrillHole(p)
  BY <1>2, TurnKeeps DEF Seeded!DrillHole, Seeded!MayTurn
<1>3. CASE Seeded!PickTile(p)
  BY <1>3, TurnKeeps DEF Seeded!PickTile, Seeded!MayTurn
<1>4. CASE Seeded!StepOut(p)
  BY <1>4, TurnKeeps DEF Seeded!StepOut, Seeded!MayTurn
<1>5. CASE Seeded!CashOutMines(p) \/ Seeded!CashOutTower(p) \/ Seeded!CashOutChicken(p) \/ Seeded!PullOut(p)
  BY <1>5, TakeKeeps DEF Seeded!CashOutMines, Seeded!CashOutTower, Seeded!CashOutChicken,
                         Seeded!PullOut
<1>6. QED
  BY <1>1, <1>2, <1>3, <1>4, <1>5 DEF Seeded!Play

-----------------------------------------------------------------------------
(* All steps                                                                *)

(* Every step keeps the invariant.                                          *)
LEMMA SeededNextKeeps == ASSUME Seeded!ConstantsOK, SeededInv, [Seeded!Next]_Seeded!vars PROVE SeededInv'
<1>1. CASE UNCHANGED Seeded!vars
  <2>1. UNCHANGED <<current, draws, shown, kind, known, asked, pressed, games, balance, wagers,
                   enabled, cap>>
    BY <1>1 DEF Seeded!vars, Seeded!seedVars, Seeded!sentVars
  <2>2. Seeded!TypeOK' /\ SeedsAgree'
    BY <2>1 DEF SeededInv, Seeded!TypeOK, SeedsAgree, Seeded!Placed, Seeded!IsPlaced,
                Seeded!IsActive
  <2>3. QED
    BY <2>1, <2>2, GamesStandStill DEF SeededInv
<1>2. QED
  BY <1>1, FetchKeeps, AskKeeps, PressKeeps, PressCashOutKeeps, ConfigureKeeps, EachBetKeeps,
     PlayKeeps DEF Seeded!Next

(* The invariant holds in every reachable state.                            *)
LEMMA SeededIsInductive == ASSUME Seeded!ConstantsOK PROVE Seeded!Spec => []SeededInv
<1>1. Seeded!Init => SeededInv
  BY SeededInitially
<1>2. SeededInv /\ [Seeded!Next]_Seeded!vars => SeededInv'
  BY SeededNextKeeps
<1>3. QED
  BY <1>1, <1>2, PTL DEF Seeded!Spec

(* The variables stay in their types; a seed on offer has its draw.         *)
THEOREM SeededTypeCorrect == ASSUME Seeded!ConstantsOK PROVE Seeded!Spec => []Seeded!TypeOK
<1>1. SeededInv => Seeded!TypeOK
  BY DEF SeededInv
<1>2. QED
  BY <1>1, SeededIsInductive, PTL

(* The seed a player is asked to bet against has decided nothing and is     *)
(* shown to nobody, nor is the seed of a game in play.                      *)
THEOREM SeedsAreSecret == ASSUME Seeded!ConstantsOK PROVE Seeded!Spec => []Seeded!SeedsStaySecret
<1>1. ASSUME SeededInv PROVE Seeded!SeedsStaySecret
  <2>1. current \in Nat /\ current \notin shown
    BY <1>1, ConstantTypes DEF SeededInv, Seeded!TypeOK, SeedsAgree
  <2>2. \A k \in Seeded!Placed : games[k].seed # current
    BY <1>1, <2>1 DEF SeededInv, SeedsAgree
  <2>3. QED
    BY <1>1, <2>1, <2>2 DEF SeededInv, SeedsAgree, Seeded!SeedsStaySecret
<1>2. SeededInv => Seeded!SeedsStaySecret
  BY <1>1
<1>3. QED
  BY <1>2, SeededIsInductive, PTL

(* Tiles are turned as they were pressed and a cash-out pays what the       *)
(* player pressed on.                                                       *)
THEOREM GamesFollowPresses == ASSUME Seeded!ConstantsOK PROVE Seeded!Spec => []Seeded!PlayedAsPressed
<1>1. SeededInv => Seeded!PlayedAsPressed
  BY DEF SeededInv
<1>2. QED
  BY <1>1, SeededIsInductive, PTL

LEMMA SeededFolds ==
    ASSUME NEW S, IsFiniteSet(S), NEW f, NEW total, AddsUp(f, S, total)
    PROVE  Seeded!MapThenSumSet(LAMBDA x : f[x], S) = total[S]
<1>1. Seeded!MapThenSumSet(LAMBDA x : f[x], S) = MapThenSumSet(LAMBDA x : f[x], S)
  BY DEF Seeded!MapThenSumSet, Seeded!MapThenFoldSet, MapThenSumSet, MapThenFoldSet
<1>2. QED
  BY <1>1, FoldAddsUp

(* What games pay less what they staked, one game at a time.                *)
LEMMA NetAddsUp ==
    ASSUME NEW S, IsFiniteSet(S), NEW paid, \A x \in S : paid[x] \in Nat, Ante \in Nat,
           NEW net, \A x \in S : net[x] = paid[x] - Ante
    PROVE  AddsUp(net, S, [s \in SUBSET S |-> SumOf(paid, s) - Ante * Cardinality(s)])
<1> DEFINE it == [s \in SUBSET S |-> SumOf(paid, s) - Ante * Cardinality(s)]
<1>1. ASSUME NEW s \in SUBSET S
      PROVE  it[s] = IF s = {} THEN 0 ELSE net[OneOf(s)] + it[s \ {OneOf(s)}]
  <2>1. CASE s = {}
    BY <2>1, SumOfNone, FS_EmptySet
  <2>2. CASE s # {}
    <3> DEFINE x == OneOf(s)
               t == s \ {x}
    <3>1. x \in s
      BY <2>2 DEF OneOf
    <3>2. IsFiniteSet(s)
      BY FS_Subset
    <3> HIDE DEF x
    <3>3. SumOf(paid, s) = paid[x] + SumOf(paid, t)
      BY <3>1, <3>2, SumSplits
    <3>4. IsFiniteSet(t) /\ Cardinality(t) = Cardinality(s) - 1 /\ Cardinality(s) \in Nat
      BY <3>1, <3>2, FS_RemoveElement, FS_CardinalityType
    <3>5. Cardinality(t) \in Nat /\ SumOf(paid, t) \in Nat
      BY <3>4, FS_CardinalityType, SumType
    <3>6. Ante * Cardinality(s) = Ante * Cardinality(t) + Ante
      <4>1. \A n \in Nat : Ante * (n + 1) = Ante * n + Ante
        OBVIOUS
      <4>2. QED
        BY <3>4, <3>5, <4>1
    <3>7. Ante * Cardinality(t) \in Nat
      BY <3>5
    <3>8. it[s] = net[x] + it[t]
      <4>1. it[s] = SumOf(paid, s) - Ante * Cardinality(s) /\ it[t] = SumOf(paid, t) - Ante * Cardinality(t)
        OBVIOUS
      <4>2. net[x] = paid[x] - Ante /\ paid[x] \in Nat
        BY <3>1
      <4> HIDE DEF it, t
      <4>3. QED
        BY <3>3, <3>5, <3>6, <3>7, <4>1, <4>2
    <3>9. QED
      BY <2>2, <3>8 DEF x
  <2>3. QED
    BY <2>1, <2>2
<1>2. QED
  BY <1>1 DEF AddsUp

(* The wallet has paid each game's stake once and received what the game    *)
(* paid once, and a game counts as a wager once, when it is over, whatever  *)
(* bets and presses come late, twice or in another order.                   *)
THEOREM SeededGamesSettleOnce == ASSUME Seeded!ConstantsOK PROVE Seeded!Spec => []Seeded!SettledOnce
<1>1. ASSUME SeededInv PROVE Seeded!SettledOnce
  <2> DEFINE paid == PaidBy(games)
             net == [k \in Seeded!Placed |-> games[k].paid - Ante]
             total == [s \in SUBSET Seeded!Placed |-> SumOf(paid, s) - Ante * Cardinality(s)]
             sum == Seeded!MapThenSumSet(LAMBDA k : games[k].paid - Ante, Seeded!Placed)
  <2>1. IsFiniteSet(Keys) /\ IsFiniteSet(Seeded!Placed) /\ Cardinality(Seeded!Placed) \in Nat
    BY KeysAreFinite
  <2>2. Ante \in Nat /\ Purse \in Nat /\ balance \in Int /\ Seeded!Placed \subseteq Keys
    BY <1>1, ConstantTypes DEF SeededInv, Seeded!TypeOK, Seeded!Placed
  <2>3. \A k \in Keys : paid[k] \in Nat
    BY <1>1, PaidIsNatural DEF SeededInv
  <2>4. \A k \in Seeded!Placed : net[k] = paid[k] - Ante
    BY DEF PaidBy, Seeded!Placed, Seeded!IsPlaced
  <2>5. AddsUp(net, Seeded!Placed, total)
    <3> HIDE DEF paid, net
    <3>1. QED
      BY <2>1, <2>2, <2>3, <2>4, NetAddsUp
  <2>6. Seeded!MapThenSumSet(LAMBDA x : net[x], Seeded!Placed) = total[Seeded!Placed]
    <3> HIDE DEF net, total
    <3>1. QED
      BY <2>1, <2>5, SeededFolds
  <2>7. sum = total[Seeded!Placed]
    <3>1. sum = Seeded!MapThenSumSet(LAMBDA x : net[x], Seeded!Placed)
      BY DEF Seeded!MapThenSumSet, Seeded!MapThenFoldSet
    <3>2. QED
      BY <2>6, <3>1
  <2>8. total[Seeded!Placed] = SumOf(paid, Seeded!Placed) - Ante * Cardinality(Seeded!Placed)
    OBVIOUS
  <2>9. SumOf(paid, Keys) = SumOf(paid, Seeded!Placed) /\ SumOf(paid, Keys) \in Nat
    <3>1. \A k \in Keys \ Seeded!Placed : paid[k] = 0
      BY DEF PaidBy, Seeded!Placed, Seeded!IsPlaced
    <3> HIDE DEF paid
    <3>2. QED
      BY <2>1, <2>2, <2>3, <3>1, SumOfSome, SumType
  <2>10. balance + Ante * Cardinality(Seeded!Placed) = Purse + SumOf(paid, Keys)
    BY <1>1 DEF SeededInv, WalletAgrees
  <2>11. Ante * Cardinality(Seeded!Placed) \in Nat
    BY <2>1, <2>2
  <2>12. balance = Purse + sum
    <3> HIDE DEF paid, net, total, sum
    <3>1. QED
      BY <2>2, <2>7, <2>8, <2>9, <2>10, <2>11
  <2>13. QED
    BY <1>1, <2>12 DEF SeededInv, WageredOnce, Seeded!SettledOnce
<1>2. QED
  BY <1>1, SeededIsInductive, PTL

-----------------------------------------------------------------------------
(* Case battles                                                             *)

(* The library's operators, as Battles has them.                            *)
LEMMA BattleFolds ==
    ASSUME NEW S, IsFiniteSet(S), NEW f, \A x \in S : f[x] \in Nat
    PROVE  Battle!MapThenSumSet(LAMBDA x : f[x], S) = SumOf(f, S)
  <1>1. Battle!MapThenSumSet(LAMBDA x : f[x], S) = MapThenSumSet(LAMBDA x : f[x], S)
    BY DEF Battle!MapThenSumSet, Battle!MapThenFoldSet, MapThenSumSet, MapThenFoldSet
  <1> QED BY <1>1, SumIsFold

(* A size within the module.                                                *)
LEMMA BattleCardinality ==
    ASSUME NEW S
    PROVE  Battle!Cardinality(S) = Cardinality(S)
  BY DEF Battle!Cardinality, Cardinality

(* What the seats of a battle have staked.                                  *)
StakesIn(S) == [s \in DOMAIN S |-> S[s].staked]

(* The stakes of a battle as a sum.                                         *)
LEMMA StakesFold ==
    ASSUME NEW S, NEW D \in SUBSET DOMAIN S, IsFiniteSet(D), \A s \in D : S[s].staked \in Nat
    PROVE  Battle!MapThenSumSet(LAMBDA s : S[s].staked, D) = SumOf(StakesIn(S), D)
  <1> DEFINE f == StakesIn(S)
  <1>1. \A s \in D : f[s] \in Nat
    BY DEF StakesIn
  <1>2. Battle!MapThenSumSet(LAMBDA s : S[s].staked, D) = Battle!MapThenSumSet(LAMBDA x : f[x], D)
    BY DEF Battle!MapThenSumSet, Battle!MapThenFoldSet, StakesIn
  <1> HIDE DEF f
  <1>3. Battle!MapThenSumSet(LAMBDA x : f[x], D) = SumOf(f, D)
    BY <1>1, BattleFolds
  <1> QED BY <1>2, <1>3 DEF f

(* A purse for every player, and what the seats of D bring.                 *)
After(purse, S, gain, D) ==
    [q \in Players |-> purse[q] + SumOf(gain, {s \in D : S[s].who = q})]

OnlyPlayersGain(S, gain, D) ==
    \A s \in D : gain[s] \in Nat /\ (S[s].who \in Players \/ gain[s] = 0)

(* Each player gains what the seats he has bring, however many he has.      *)
LEMMA PursesGrow ==
    ASSUME IsFiniteSet(Players), NEW purse \in [Players -> Nat], NEW S, NEW D, IsFiniteSet(D),
           NEW gain, OnlyPlayersGain(S, gain, D)
    PROVE  /\ After(purse, S, gain, D) \in [Players -> Nat]
           /\ SumOf(After(purse, S, gain, D), Players) = SumOf(purse, Players) + SumOf(gain, D)
  <1> DEFINE who == [s \in D |-> S[s].who]
             part == [q \in Players |-> SumOf(gain, PartOf(D, who, q))]
             after == After(purse, S, gain, D)
             seated == {s \in D : who[s] \in Players}
  <1> USE DEF OnlyPlayersGain
  <1>1. \A q \in Players : PartOf(D, who, q) = {s \in D : S[s].who = q}
    BY DEF PartOf
  <1>2. ASSUME NEW q \in Players PROVE part[q] \in Nat
    <2>1. PartOf(D, who, q) \in SUBSET D
      BY DEF PartOf
    <2>2. IsFiniteSet(PartOf(D, who, q))
      BY <2>1, FS_Subset
    <2>3. SumOf(gain, PartOf(D, who, q)) \in Nat
      BY <2>1, <2>2, SumType
    <2> QED BY <2>3
  <1>3. \A q \in Players : after[q] = purse[q] + part[q]
    BY <1>1 DEF After
  <1>4. after \in [Players -> Nat]
    <2>1. after = [q \in Players |-> after[q]]
      BY DEF After
    <2> HIDE DEF after, part
    <2>2. \A q \in Players : after[q] \in Nat
      BY <1>2, <1>3
    <2> QED BY <2>1, <2>2
  <1>5. SumOf(part, Players) = SumOf(gain, seated)
    <2>1. \A q \in Players : part[q] = SumOf(gain, PartOf(D, who, q))
      OBVIOUS
    <2> HIDE DEF who, part
    <2> QED BY <2>1, SumOfParts
  <1>6. SumOf(gain, D) = SumOf(gain, seated)
    <2>1. \A s \in D \ seated : gain[s] = 0
      OBVIOUS
    <2> QED BY <2>1, SumOfSome
  <1>7. SumOf(after, Players) = SumOf(purse, Players) + SumOf(part, Players)
    <2> HIDE DEF after, part
    <2> QED BY <1>2, <1>3, SumOfBoth
  <1> QED BY <1>4, <1>5, <1>6, <1>7

(* An entry is paid for.                                                    *)
LEMMA PurseShrinks ==
    ASSUME IsFiniteSet(Players), wallet \in [Players -> Nat], Ante \in Nat,
           NEW p \in Players, wallet[p] >= Ante,
           NEW paid, paid = [wallet EXCEPT ![p] = wallet[p] - Ante]
    PROVE  /\ paid \in [Players -> Nat]
           /\ SumOf(paid, Players) + Ante = SumOf(wallet, Players)
           /\ SumOf(paid, Players) \in Nat
  <1>1. paid \in [Players -> Nat] /\ paid[p] = wallet[p] - Ante
    OBVIOUS
  <1>2. \A q \in Players \ {p} : paid[q] = wallet[q]
    OBVIOUS
  <1>3. SumOf(paid, Players) = SumOf(wallet, Players) - wallet[p] + paid[p]
    <2>1. (\A q \in Players : paid[q] \in Nat) /\ (\A q \in Players : wallet[q] \in Nat)
      BY <1>1
    <2>2. SumOf(wallet, Players) = wallet[p] + SumOf(wallet, Players \ {p})
      BY <2>1, SumSplits
    <2>3. SumOf(paid, Players) = paid[p] + SumOf(paid, Players \ {p})
      BY <2>1, SumSplits
    <2>4. SumOf(paid, Players \ {p}) = SumOf(wallet, Players \ {p})
      BY <1>2, SumOfSame
    <2>5. SumOf(wallet, Players \ {p}) \in Nat
      BY <2>1, FS_RemoveElement, SumType
    <2> QED BY <2>1, <2>2, <2>3, <2>4, <2>5
  <1>4. SumOf(wallet, Players) \in Nat /\ SumOf(paid, Players) \in Nat
    BY <1>1, SumType
  <1> QED BY <1>1, <1>3, <1>4

(* What the reels of each seat's side drop.                                 *)
ScoresOf(total, size) == [s \in DOMAIN total |-> Battle!TeamTotal(total, size, s \div size)]
BestOf(total, size, mode) ==
    IF mode = "crazy" THEN Battle!Min(Battle!Range(ScoresOf(total, size)))
    ELSE Battle!Max(Battle!Range(ScoresOf(total, size)))

(* The score of a seat is what its side has dropped.                        *)
LEMMA ScoresAreNumbers ==
    ASSUME NEW D, IsFiniteSet(D), NEW total \in [D -> Nat], NEW size
    PROVE  ScoresOf(total, size) \in [D -> Nat]
  <1> SUFFICES ASSUME NEW t \in D PROVE Battle!TeamTotal(total, size, t \div size) \in Nat
    BY DEF ScoresOf
  <1> DEFINE side == {s \in DOMAIN total : Battle!TeamForSeat(s, size) = t \div size}
  <1>1. side \in SUBSET D /\ IsFiniteSet(side)
    <2>1. side \in SUBSET D
      OBVIOUS
    <2> QED BY <2>1, FS_Subset
  <1>2. Battle!TeamTotal(total, size, t \div size)
            = Battle!MapThenSumSet(LAMBDA x : total[x], side)
    BY DEF Battle!TeamTotal
  <1> HIDE DEF side
  <1>3. \A x \in side : total[x] \in Nat
    BY <1>1
  <1>4. Battle!MapThenSumSet(LAMBDA x : total[x], side) = SumOf(total, side)
    BY <1>1, <1>3, BattleFolds
  <1> QED BY <1>1, <1>2, <1>3, <1>4, SumType

(* Somebody wins, and it is those whose side has dropped the most, or, in a *)
(* crazy battle, the least.                                                 *)
LEMMA WinnersAreBest ==
    ASSUME NEW D, IsFiniteSet(D), D # {}, NEW total \in [D -> Nat], NEW size, NEW mode
    PROVE  /\ Battle!WinningSeats(total, size, mode) # {}
           /\ Battle!WinningSeats(total, size, mode) \in SUBSET D
           /\ Battle!WinningSeats(total, size, mode)
                  = {s \in D : ScoresOf(total, size)[s] = BestOf(total, size, mode)}
  <1> DEFINE score == ScoresOf(total, size)
             marks == Battle!Range(score)
             won == Battle!WinningSeats(total, size, mode)
             best == BestOf(total, size, mode)
  <1>1. score \in [D -> Nat]
    BY ScoresAreNumbers
  <1>2. marks = {score[s] : s \in D}
    BY <1>1 DEF Battle!Range
  <1>3. won = {s \in D : \A t \in D : IF mode = "crazy" THEN score[s] <= score[t]
                                      ELSE score[s] >= score[t]}
    BY DEF Battle!WinningSeats, ScoresOf, Battle!TeamForSeat
  <1>4. best = IF mode = "crazy" THEN Battle!Min(marks) ELSE Battle!Max(marks)
    BY DEF BestOf
  <1> HIDE DEF score, marks, won, best
  <1>5. marks \in SUBSET Nat /\ marks # {} /\ IsFiniteSet(marks)
    <2>1. [s \in D |-> score[s]] \in Surjection(D, marks)
      BY <1>2 DEF Surjection
    <2>2. IsFiniteSet(marks)
      BY <2>1, FS_Surjection
    <2> QED BY <1>1, <1>2, <2>2
  <1>6. /\ \E x \in marks : \A y \in marks : x <= y
        /\ \E x \in marks : \A y \in marks : y <= x
    BY <1>5, LeastExists, GreatestNatural
  <1>7. Battle!Min(marks) \in marks /\ \A y \in marks : Battle!Min(marks) <= y
    BY <1>6 DEF Battle!Min
  <1>8. Battle!Max(marks) \in marks /\ \A y \in marks : Battle!Max(marks) >= y
    <2>1. \E x \in marks : \A y \in marks : x >= y
      BY <1>5, <1>6
    <2> QED BY <2>1 DEF Battle!Max
  <1>9. best \in marks /\ \A y \in marks : IF mode = "crazy" THEN best <= y ELSE best >= y
    BY <1>4, <1>7, <1>8
  <1>10. won = {s \in D : score[s] = best}
    <2>1. ASSUME NEW s \in won PROVE score[s] = best
      <3>1. PICK t \in D : score[t] = best
        BY <1>2, <1>9
      <3>2. score[s] \in marks /\ s \in D
        BY <1>2, <1>3
      <3>3. IF mode = "crazy" THEN score[s] <= best ELSE score[s] >= best
        BY <1>3, <3>1
      <3>4. IF mode = "crazy" THEN best <= score[s] ELSE best >= score[s]
        BY <1>9, <3>2
      <3>5. best \in Nat /\ score[s] \in Nat
        BY <1>5, <1>9, <3>2
      <3> QED BY <3>3, <3>4, <3>5
    <2>2. ASSUME NEW s \in D, score[s] = best PROVE s \in won
      BY <1>2, <1>3, <1>9, <2>2
    <2> QED BY <1>3, <2>1, <2>2
  <1>11. won # {}
    BY <1>2, <1>9, <1>10
  <1> QED BY <1>3, <1>10, <1>11 DEF score, won, best

(* Division leaves a remainder below the divisor.                           *)
LEMMA Division ==
    ASSUME NEW a \in Nat, NEW n \in Nat \ {0}
    PROVE  a \div n \in Nat /\ a - (a \div n) * n \in 0..n - 1
  <1>1. a \div n \in Int /\ a \div n >= 0
    OBVIOUS
  <1>2. n * (a \div n) <= a
    OBVIOUS
  <1>3. a < n * (a \div n) + n
    OBVIOUS
  <1> DEFINE d == a \div n
  <1> HIDE DEF d
  <1>4. d \in Nat /\ n * d <= a /\ a < n * d + n
    BY <1>1, <1>2, <1>3 DEF d
  <1>5. n * d = d * n /\ d * n \in Nat
    BY <1>4
  <1>6. a - d * n \in 0..n - 1
    BY <1>4, <1>5
  <1> QED BY <1>4, <1>6 DEF d

(* Each winning seat's part of the pot, and the unit or units left over.    *)
EachShare(total, size, mode) ==
    SumOf(total, DOMAIN total) \div Cardinality(Battle!WinningSeats(total, size, mode))
LeftOver(total, size, mode) ==
    SumOf(total, DOMAIN total)
        - EachShare(total, size, mode) * Cardinality(Battle!WinningSeats(total, size, mode))

(* The share of each winner, and what is left over.                         *)
LEMMA PotIsCut ==
    ASSUME NEW S, IsFiniteSet(DOMAIN S), DOMAIN S # {}, NEW total \in [DOMAIN S -> Nat],
           NEW size, NEW mode
    PROVE  /\ Cardinality(Battle!WinningSeats(total, size, mode)) \in Nat \ {0}
           /\ SumOf(total, DOMAIN S) \in Nat
           /\ EachShare(total, size, mode) \in Nat
           /\ LeftOver(total, size, mode)
                  \in 0..Cardinality(Battle!WinningSeats(total, size, mode)) - 1
           /\ Battle!Payouts(S, total, size, mode) =
                  [s \in DOMAIN S |->
                      IF s \notin Battle!WinningSeats(total, size, mode) \cap Battle!Humans(S) THEN 0
                      ELSE EachShare(total, size, mode)
                               + (IF s = Battle!Min(Battle!WinningSeats(total, size, mode) \cap Battle!Humans(S))
                                  THEN LeftOver(total, size, mode) ELSE 0)]
  <1> DEFINE D == DOMAIN S
             won == Battle!WinningSeats(total, size, mode)
             n == Cardinality(won)
             pot == SumOf(total, D)
  <1>1. won # {} /\ won \in SUBSET D
    BY WinnersAreBest
  <1>2. n \in Nat \ {0}
    <2>1. IsFiniteSet(won)
      BY <1>1, FS_Subset
    <2> HIDE DEF won
    <2> QED BY <1>1, <2>1, FS_CardinalityType, FS_EmptySet
  <1>3. pot \in Nat
    <2>1. \A x \in D : total[x] \in Nat
      OBVIOUS
    <2> QED BY <2>1, SumType
  <1>4. Battle!MapThenSumSet(LAMBDA s : total[s], D) = pot
    <2>1. \A x \in D : total[x] \in Nat
      OBVIOUS
    <2> QED BY <2>1, BattleFolds
  <1>5. Battle!Max({1, Battle!Cardinality(Battle!Sharers(won, S))}) = n
    <2> HIDE DEF won
    <2>1. Battle!Cardinality(Battle!Sharers(won, S)) = n
      BY BattleCardinality DEF Battle!Sharers
    <2> HIDE DEF n
    <2>2. n >= 1
      BY <1>2
    <2>3. \A x : (x \in {1, n} /\ \A y \in {1, n} : x >= y) => x = n
      BY <1>2
    <2>4. \E x \in {1, n} : \A y \in {1, n} : x >= y
      BY <1>2
    <2>5. Battle!Max({1, n}) = n
      BY <2>3, <2>4 DEF Battle!Max
    <2> QED BY <2>1, <2>5
  <1>6. Battle!Cardinality(Battle!Sharers(won, S)) = n
    BY BattleCardinality DEF Battle!Sharers
  <1>7. EachShare(total, size, mode) = pot \div n /\ LeftOver(total, size, mode) = pot - (pot \div n) * n
    BY DEF EachShare, LeftOver
  <1>8. Battle!Payouts(S, total, size, mode) =
            [s \in D |-> IF s \notin won \cap Battle!Humans(S) THEN 0
                         ELSE pot \div n + (IF s = Battle!Min(won \cap Battle!Humans(S))
                                            THEN pot - (pot \div n) * n ELSE 0)]
    <2>1. Battle!Payouts(S, total, size, mode) =
              LET allOf == Battle!MapThenSumSet(LAMBDA s : total[s], D)
                  share == allOf \div Battle!Max({1, Battle!Cardinality(Battle!Sharers(won, S))})
                  over == allOf - share * Battle!Cardinality(Battle!Sharers(won, S))
              IN  [s \in D |-> IF s \notin won \cap Battle!Humans(S) THEN 0
                               ELSE share + (IF s = Battle!Min(won \cap Battle!Humans(S)) THEN over ELSE 0)]
      BY DEF Battle!Payouts
    <2> HIDE DEF won, n, pot
    <2> QED BY <1>4, <1>5, <1>6, <2>1
  <1> HIDE DEF won, n, pot
  <1>9. pot \div n \in Nat /\ pot - (pot \div n) * n \in 0..n - 1
    BY <1>2, <1>3, Division
  <1> QED BY <1>2, <1>3, <1>7, <1>8, <1>9 DEF won, n, pot

(* Whoever is paid has won and is a player.                                 *)
LEMMA WinnersArePaid ==
    ASSUME NEW S, IsFiniteSet(DOMAIN S), DOMAIN S # {}, NEW total \in [DOMAIN S -> Nat],
           NEW size, NEW mode
    PROVE  /\ Battle!Payouts(S, total, size, mode) \in [DOMAIN S -> Nat]
           /\ \A s \in DOMAIN S :
                 \/ s \in Battle!WinningSeats(total, size, mode) /\ s \in Battle!Humans(S)
                 \/ Battle!Payouts(S, total, size, mode)[s] = 0
           /\ \A s \in Battle!Humans(S) \cap Battle!WinningSeats(total, size, mode) :
                 Battle!Payouts(S, total, size, mode)[s] \in
                     EachShare(total, size, mode)
                         ..(EachShare(total, size, mode)
                                + Cardinality(Battle!WinningSeats(total, size, mode)) - 1)
  <1> DEFINE D == DOMAIN S
             won == Battle!WinningSeats(total, size, mode)
             people == Battle!Humans(S)
             n == Cardinality(won)
             share == EachShare(total, size, mode)
             over == LeftOver(total, size, mode)
             payout == Battle!Payouts(S, total, size, mode)
  <1>1. n \in Nat \ {0} /\ share \in Nat /\ over \in 0..n - 1
    BY PotIsCut
  <1>2. payout = [s \in D |-> IF s \notin won \cap people THEN 0
                              ELSE share + (IF s = Battle!Min(won \cap people) THEN over ELSE 0)]
    BY PotIsCut
  <1>3. people \in SUBSET D
    BY DEF Battle!Humans
  <1> HIDE DEF D, won, people, n, share, over, payout
  <1>4. \A s \in D : payout[s] \in Nat
    BY <1>1, <1>2
  <1>5. payout \in [D -> Nat]
    BY <1>2, <1>4
  <1>6. \A s \in people \cap won : payout[s] \in share..(share + n - 1)
    <2>1. ASSUME NEW s \in people \cap won PROVE payout[s] \in share..(share + n - 1)
      <3>1. payout[s] = share + over \/ payout[s] = share
        BY <1>1, <1>2, <1>3
      <3> QED BY <1>1, <3>1
    <2> QED BY <2>1
  <1>7. \A s \in D : (s \in won /\ s \in people) \/ payout[s] = 0
    BY <1>2
  <1> QED BY <1>5, <1>6, <1>7 DEF D, won, people, n, share, over, payout

(* Where no bot has won, the whole pot goes to players.                     *)
LEMMA PotIsSpent ==
    ASSUME NEW S, IsFiniteSet(DOMAIN S), DOMAIN S # {}, DOMAIN S \subseteq Nat,
           NEW total \in [DOMAIN S -> Nat], NEW size, NEW mode,
           Battle!WinningSeats(total, size, mode) \subseteq Battle!Humans(S)
    PROVE  SumOf(Battle!Payouts(S, total, size, mode), Battle!Humans(S)) = SumOf(total, DOMAIN S)
  <1> DEFINE D == DOMAIN S
             won == Battle!WinningSeats(total, size, mode)
             people == Battle!Humans(S)
             n == Cardinality(won)
             share == EachShare(total, size, mode)
             over == LeftOver(total, size, mode)
             payout == Battle!Payouts(S, total, size, mode)
             even == [s \in won |-> share]
             pot == SumOf(total, D)
             first == Battle!Min(won \cap people)
  <1>1. n \in Nat \ {0} /\ share \in Nat /\ over \in 0..n - 1 /\ pot \in Nat
    BY PotIsCut
  <1>2. payout = [s \in D |-> IF s \notin won \cap people THEN 0
                              ELSE share + (IF s = first THEN over ELSE 0)]
    BY PotIsCut
  <1>3. people \in SUBSET D /\ won \subseteq people /\ won # {} /\ won \in SUBSET Nat
    BY WinnersAreBest DEF Battle!Humans
  <1>4. over = pot - share * n
    BY DEF EachShare, LeftOver
  <1>5. IsFiniteSet(won)
    BY <1>3, FS_Subset
  <1> HIDE DEF D, won, people, n, share, over, payout, pot
  <1>6. won \cap people = won
    BY <1>3
  <1>7. first \in won
    <2>1. \E x \in won : \A y \in won : x <= y
      BY <1>3, LeastExists
    <2>2. Battle!Min(won) \in won
      BY <2>1 DEF Battle!Min
    <2> QED BY <1>6, <2>2
  <1> HIDE DEF first
  <1>8. \A s \in won : payout[s] = share + (IF s = first THEN over ELSE 0)
    BY <1>2, <1>3, <1>6
  <1>9. \A s \in people \ won : payout[s] = 0
    BY <1>2, <1>3
  <1>10. SumOf(payout, people) = SumOf(payout, won)
    BY <1>3, <1>9, SumOfSome
  <1>11. SumOf(even, won) = n * share
    <2>1. SumOf(even, won) = Cardinality(won) * share
      BY <1>1, <1>5, SumOfConstant
    <2> QED BY <2>1 DEF n
  <1>12. SumOf(payout, won) = SumOf(even, won) - even[first] + payout[first]
    <2>1. \A s \in won : even[s] \in Nat /\ payout[s] \in Nat
      BY <1>1, <1>8
    <2>2. \A s \in won \ {first} : payout[s] = even[s]
      BY <1>1, <1>8
    <2> HIDE DEF even
    <2> QED BY <1>5, <1>7, <2>1, <2>2, SumChanges
  <1>13. even[first] = share /\ payout[first] = share + over
    BY <1>7, <1>8
  <1> HIDE DEF even
  <1>14. SumOf(payout, won) = pot
    <2>1. n * share = share * n /\ n * share \in Nat
      BY <1>1
    <2> QED BY <1>1, <1>4, <1>11, <1>12, <1>13, <2>1
  <1> QED BY <1>10, <1>14 DEF D, won, people, n, payout, pot

-----------------------------------------------------------------------------
(* What is true of the rows                                                 *)

BattleShapes == [teams : Nat \ {0}, size : Nat \ {0}]
Reels   == UNION {[D -> Nat] : D \in SUBSET Nat}
SeatRow == [who : Players \cup {Battle!Bot}, staked : Nat, ref : Nat]
Seating == UNION {[D -> SeatRow] : D \in SUBSET Nat}
BattleRow ==
    [status : {"none", "lobby", "settled", "cancelled"}, host : Players \cup {Battle!Bot},
     shape : BattleShapes, mode : {"standard", "crazy"}, bots : BOOLEAN, expired : BOOLEAN,
     pot : Nat, total : Reels, payout : Reels]

(* Seats of the battle's format, of which those of bots are free.           *)
SeatsInOrder(S, shape) ==
    /\ S \in Seating /\ DOMAIN S \subseteq Battle!SeatsOf(shape)
    /\ \A s \in DOMAIN S : S[s].who = Battle!Bot => S[s].staked = 0

(* What a settled battle shows: every seat has rolled, and the pot is paid  *)
(* by the rule.                                                             *)
RolledOut(B, S) ==
    /\ B.total \in [DOMAIN S -> Nat] /\ DOMAIN S # {}
    /\ B.payout = Battle!Payouts(S, B.total, B.shape.size, B.mode)
    /\ B.pot = SumOf(B.total, DOMAIN S)

BattleOK(B, S) ==
    B \in BattleRow /\ SeatsInOrder(S, B.shape) /\ (B.status = "settled" => RolledOut(B, S))

BattleInv ==
    /\ wallet \in [Players -> Nat] /\ taken \in Nat
    /\ battle \in [Battles -> BattleRow] /\ seats \in [Battles -> Seating]
    /\ \A b \in Battles : BattleOK(battle[b], seats[b])

(* What a battle holds of its stakes, and what it has paid.                 *)
HeldIn(B, S) ==
    IF B.status \notin {"lobby", "settled"} THEN 0 ELSE SumOf(StakesIn(S), DOMAIN S)
WonIn(B) == IF B.status # "settled" THEN 0 ELSE SumOf(B.payout, DOMAIN B.payout)

SeatsCounted(b, S) == {<<b, s, S[s].who>> : s \in Battle!Humans(S)}

(* One battle that is not over changes, and what it holds and pays more the *)
(* wallets hold less, and the other way round.                              *)
BattleTurns(b, B, S) ==
    /\ battle[b].status \in {"none", "lobby"} /\ BattleOK(B, S)
    /\ battle' = [battle EXCEPT ![b] = B] /\ seats' = [seats EXCEPT ![b] = S]
    /\ wallet' \in [Players -> Nat] /\ taken' \in Nat
    /\ SumOf(wallet', Players) + HeldIn(B, S)
           = SumOf(wallet, Players) + HeldIn(battle[b], seats[b]) + WonIn(B)
    /\ counted' = counted \cup (IF B.status = "settled" THEN SeatsCounted(b, S) ELSE {})

BattleRests == UNCHANGED <<battle, seats, wallet, counted, taken>>
ABattleTurns == \E b \in Battles, B \in BattleRow, S \in Seating : BattleTurns(b, B, S)

(* What the proofs need of the constants.                                   *)
LEMMA BattleConstants ==
    ASSUME Battle!ConstantsOK
    PROVE  /\ Battle!Bot \notin Players /\ Shapes \subseteq BattleShapes /\ Drops \subseteq Nat
           /\ Ante \in Nat /\ Purse \in Nat
  BY DEF Battle!ConstantsOK, BattleShapes

(* A format has finitely many seats, and a first one.                       *)
LEMMA SeatsAreFinite ==
    ASSUME NEW shape \in BattleShapes
    PROVE  /\ IsFiniteSet(Battle!SeatsOf(shape)) /\ 0 \in Battle!SeatsOf(shape)
           /\ Battle!SeatsOf(shape) \subseteq Nat
  <1>1. shape.teams \in Nat \ {0} /\ shape.size \in Nat \ {0}
    BY DEF BattleShapes
  <1>2. shape.teams * shape.size \in Nat \ {0}
    <2>1. \A x, y \in Nat : x > 0 /\ y > 0 => x * y > 0 /\ x * y \in Nat
      OBVIOUS
    <2> QED BY <1>1, <2>1
  <1>3. IsFiniteSet(0..(shape.teams * shape.size - 1))
    BY <1>2, FS_Interval
  <1> QED BY <1>2, <1>3 DEF Battle!SeatsOf

(* What seats that are in order look like.                                  *)
LEMMA SeatTypes ==
    ASSUME NEW shape \in BattleShapes, NEW S, SeatsInOrder(S, shape)
    PROVE  /\ IsFiniteSet(DOMAIN S) /\ DOMAIN S \subseteq Nat
           /\ \A s \in DOMAIN S : S[s] \in SeatRow /\ S[s].staked \in Nat /\ StakesIn(S)[s] \in Nat
                                  /\ StakesIn(S)[s] = S[s].staked
           /\ SumOf(StakesIn(S), DOMAIN S) \in Nat
  <1>1. IsFiniteSet(DOMAIN S) /\ DOMAIN S \subseteq Nat
    BY SeatsAreFinite, FS_Subset DEF SeatsInOrder
  <1>2. \A s \in DOMAIN S : S[s] \in SeatRow
    <2>1. PICK D \in SUBSET Nat : S \in [D -> SeatRow]
      BY DEF SeatsInOrder, Seating
    <2> QED BY <2>1
  <1>3. \A s \in DOMAIN S : S[s].staked \in Nat
    BY <1>2 DEF SeatRow
  <1>4. \A s \in DOMAIN S : StakesIn(S)[s] \in Nat /\ StakesIn(S)[s] = S[s].staked
    BY <1>3 DEF StakesIn
  <1>5. SumOf(StakesIn(S), DOMAIN S) \in Nat
    BY <1>1, <1>4, SumType
  <1> QED BY <1>1, <1>2, <1>3, <1>4, <1>5

-----------------------------------------------------------------------------
(* What each step does                                                      *)

LEMMA BattleIsSettled ==
    ASSUME Battle!ConstantsOK, IsFiniteSet(Players), BattleInv, NEW b \in Battles,
           battle[b].status = "lobby", NEW S, SeatsInOrder(S, battle[b].shape), DOMAIN S # {},
           NEW purse \in [Players -> Nat], Battle!Settle(b, battle[b], S, purse),
           SumOf(purse, Players) + SumOf(StakesIn(S), DOMAIN S)
               = SumOf(wallet, Players) + HeldIn(battle[b], seats[b]),
           seats' = [seats EXCEPT ![b] = S], taken' \in Nat
    PROVE  ABattleTurns
  <1> DEFINE shape == battle[b].shape
             mode == battle[b].mode
             D == DOMAIN S
  <1>1. battle[b] \in BattleRow /\ shape \in BattleShapes /\ mode \in {"standard", "crazy"}
    BY DEF BattleInv, BattleRow
  <1>2. IsFiniteSet(D) /\ D \subseteq Nat /\ \A s \in D : S[s] \in SeatRow
    BY <1>1, SeatTypes
  <1>3. PICK total \in [D -> Drops] :
            /\ battle' = [battle EXCEPT ![b] =
                   [battle[b] EXCEPT !.status = "settled", !.total = total,
                                     !.payout = Battle!Payouts(S, total, shape.size, mode),
                                     !.pot = Battle!MapThenSumSet(LAMBDA s : total[s], D)]]
            /\ wallet' = [q \in Players |-> purse[q] + Battle!MapThenSumSet(
                   LAMBDA s : Battle!Payouts(S, total, shape.size, mode)[s], {s \in D : S[s].who = q})]
            /\ counted' = counted \cup {<<b, s, S[s].who>> : s \in Battle!Humans(S)}
    BY DEF Battle!Settle
  <1>4. total \in [D -> Nat]
    BY BattleConstants
  <1> DEFINE payout == Battle!Payouts(S, total, shape.size, mode)
             pot == SumOf(total, D)
             B == [battle[b] EXCEPT !.status = "settled", !.total = total, !.payout = payout,
                                    !.pot = pot]
  <1>5. Battle!MapThenSumSet(LAMBDA s : total[s], D) = pot /\ pot \in Nat
    <2>1. \A s \in D : total[s] \in Nat
      BY <1>4
    <2> QED BY <1>2, <2>1, BattleFolds, SumType
  <1>6. /\ payout \in [D -> Nat]
        /\ \A s \in D : s \in Battle!Humans(S) \/ payout[s] = 0
    BY <1>2, <1>4, WinnersArePaid
  <1> HIDE DEF payout, pot
  <1>7. wallet' = After(purse, S, payout, D)
    <2>1. ASSUME NEW q \in Players
          PROVE  Battle!MapThenSumSet(LAMBDA s : payout[s], {s \in D : S[s].who = q})
                     = SumOf(payout, {s \in D : S[s].who = q})
      <3> DEFINE T == {s \in D : S[s].who = q}
      <3>1. T \in SUBSET D
        OBVIOUS
      <3> HIDE DEF T
      <3>2. IsFiniteSet(T) /\ \A s \in T : payout[s] \in Nat
        BY <1>2, <1>6, <3>1, FS_Subset
      <3>3. Battle!MapThenSumSet(LAMBDA s : payout[s], T) = SumOf(payout, T)
        BY <3>2, BattleFolds
      <3> QED BY <3>3 DEF T
    <2>2. wallet' = [q \in Players |-> purse[q]
                        + Battle!MapThenSumSet(LAMBDA s : payout[s], {s \in D : S[s].who = q})]
      BY <1>3 DEF payout
    <2> QED BY <2>1, <2>2 DEF After
  <1>8. /\ wallet' \in [Players -> Nat]
        /\ SumOf(wallet', Players) = SumOf(purse, Players) + SumOf(payout, D)
    <2>1. \A s \in D : payout[s] \in Nat
      BY <1>6
    <2>2. OnlyPlayersGain(S, payout, D)
      BY <1>2, <1>6, <2>1 DEF OnlyPlayersGain, Battle!Humans, Battle!IsBot, SeatRow
    <2>3. /\ After(purse, S, payout, D) \in [Players -> Nat]
          /\ SumOf(After(purse, S, payout, D), Players) = SumOf(purse, Players) + SumOf(payout, D)
      BY <1>2, <2>2, PursesGrow
    <2> QED BY <1>7, <2>3
  <1>9. /\ B \in BattleRow /\ B.status = "settled" /\ B.shape = shape /\ B.mode = mode
        /\ B.total = total /\ B.payout = payout /\ B.pot = pot
    <2>1. total \in Reels /\ payout \in Reels
      BY <1>2, <1>4, <1>6 DEF Reels
    <2> QED BY <1>1, <1>5, <2>1 DEF BattleRow
  <1>10. battle' = [battle EXCEPT ![b] = B]
    BY <1>3, <1>5 DEF payout
  <1> HIDE DEF B
  <1>11. BattleOK(B, S)
    BY <1>4, <1>9 DEF BattleOK, RolledOut, payout, pot
  <1>12. HeldIn(B, S) = SumOf(StakesIn(S), D) /\ WonIn(B) = SumOf(payout, D)
    BY <1>6, <1>9 DEF HeldIn, WonIn
  <1>13. /\ SumOf(wallet', Players) + HeldIn(B, S)
                = SumOf(wallet, Players) + HeldIn(battle[b], seats[b]) + WonIn(B)
    <2>1. /\ SumOf(payout, D) \in Nat /\ SumOf(purse, Players) \in Nat
          /\ SumOf(StakesIn(S), D) \in Nat
      <3>1. (\A s \in D : payout[s] \in Nat) /\ (\A q \in Players : purse[q] \in Nat)
        BY <1>6
      <3> QED BY <1>1, <1>2, <3>1, SumType, SeatTypes
    <2> QED BY <1>8, <1>12, <2>1
  <1>14. counted' = counted \cup (IF B.status = "settled" THEN SeatsCounted(b, S) ELSE {})
    BY <1>3, <1>9 DEF SeatsCounted
  <1>15. BattleTurns(b, B, S)
    BY <1>8, <1>10, <1>11, <1>13, <1>14 DEF BattleTurns
  <1> QED BY <1>9, <1>15 DEF ABattleTurns, SeatsInOrder

(* A seat is bought.                                                        *)
WithSeat(R, seat, p) == [s \in DOMAIN R \cup {seat} |-> IF s = seat THEN Battle!Bought(p) ELSE R[s]]

(* A seat that is bought adds its stake to what the battle holds.           *)
LEMMA SeatIsBought ==
    ASSUME Battle!ConstantsOK, taken \in Nat, NEW shape \in BattleShapes,
           NEW R, SeatsInOrder(R, shape), NEW seat \in Battle!SeatsOf(shape), seat \notin DOMAIN R,
           NEW p \in Players,
           NEW S, S = WithSeat(R, seat, p)
    PROVE  /\ SeatsInOrder(S, shape) /\ DOMAIN S # {}
           /\ SumOf(StakesIn(S), DOMAIN S) = SumOf(StakesIn(R), DOMAIN R) + Ante
  <1> DEFINE D == DOMAIN R \cup {seat}
  <1>1. Battle!Bought(p) \in SeatRow /\ Battle!Bought(p).staked = Ante /\ Battle!Bought(p).who = p
        /\ p # Battle!Bot
    BY BattleConstants DEF Battle!Bought, SeatRow
  <1>2. /\ IsFiniteSet(DOMAIN R) /\ DOMAIN R \subseteq Nat
        /\ \A s \in DOMAIN R : R[s] \in SeatRow /\ StakesIn(R)[s] = R[s].staked /\ R[s].staked \in Nat
        /\ SumOf(StakesIn(R), DOMAIN R) \in Nat
    BY SeatTypes
  <1>3. seat \in Nat
    BY SeatsAreFinite
  <1>4. DOMAIN S = D /\ D \in SUBSET Nat /\ S \in [D -> SeatRow]
    BY <1>1, <1>2, <1>3 DEF WithSeat
  <1>5. \A s \in DOMAIN R : s # seat /\ S[s] = R[s]
    BY DEF WithSeat
  <1>6. S[seat] = Battle!Bought(p)
    BY DEF WithSeat
  <1>7. SeatsInOrder(S, shape)
    <2>1. S \in Seating
      BY <1>4 DEF Seating
    <2>2. D \subseteq Battle!SeatsOf(shape)
      BY DEF SeatsInOrder
    <2>3. \A s \in DOMAIN S : S[s].who = Battle!Bot => S[s].staked = 0
      BY <1>1, <1>4, <1>5, <1>6 DEF SeatsInOrder
    <2> QED BY <1>4, <2>1, <2>2, <2>3 DEF SeatsInOrder
  <1> DEFINE f == StakesIn(S)
  <1>8. /\ \A s \in DOMAIN R : f[s] = StakesIn(R)[s]
        /\ f[seat] = Ante
        /\ \A s \in D : f[s] \in Nat
    BY <1>1, <1>2, <1>4, <1>5, <1>6, BattleConstants DEF StakesIn
  <1> HIDE DEF f, D
  <1>9. IsFiniteSet(D) /\ seat \in D /\ D \ {seat} = DOMAIN R
    BY <1>2, FS_AddElement DEF D
  <1>10. SumOf(f, D) = f[seat] + SumOf(f, D \ {seat})
    BY <1>8, <1>9, SumSplits
  <1>11. SumOf(f, DOMAIN R) = SumOf(StakesIn(R), DOMAIN R)
    BY <1>8, SumOfSame
  <1>12. SumOf(f, D) = SumOf(StakesIn(R), DOMAIN R) + Ante
    BY <1>2, <1>8, <1>9, <1>10, <1>11, BattleConstants
  <1> QED BY <1>4, <1>7, <1>9, <1>12 DEF f

(* POST /v1/battles.                                                        *)
LEMMA LobbyOpens ==
    ASSUME Battle!ConstantsOK, IsFiniteSet(Players), BattleInv, NEW b \in Battles, NEW p \in Players,
           NEW shape \in Shapes, NEW mode \in {"standard", "crazy"}, NEW bots \in BOOLEAN,
           Battle!Create(b, p, shape, mode, bots)
    PROVE  ABattleTurns
  <1> DEFINE S == [s \in {0} |-> Battle!Bought(p)]
             B == [Battle!NoBattle EXCEPT !.status = "lobby", !.host = p, !.shape = shape,
                                          !.mode = mode, !.bots = bots]
  <1>1. shape \in BattleShapes /\ taken \in Nat /\ Ante \in Nat
    BY BattleConstants DEF BattleInv
  <1>2. /\ battle[b].status = "none" /\ wallet[p] >= Ante /\ battle' = [battle EXCEPT ![b] = B]
        /\ seats' = [seats EXCEPT ![b] = S] /\ wallet' = [wallet EXCEPT ![p] = wallet[p] - Ante]
        /\ taken' = taken + 1 /\ counted' = counted
    BY DEF Battle!Create, Battle!MayBuy, Battle!CountedOnTaking
  <1>3. B \in BattleRow /\ B.status = "lobby" /\ B.shape = shape
    <2>1. Battle!NoSeats \in Reels
      <3>1. Battle!NoSeats \in [{} -> Nat]
        BY DEF Battle!NoSeats
      <3> QED BY <3>1 DEF Reels
    <2>2. Battle!NoBattle =
              [status |-> "none", host |-> Battle!Bot, shape |-> [teams |-> 1, size |-> 1],
               mode |-> "standard", bots |-> FALSE, expired |-> FALSE, pot |-> 0,
               total |-> Battle!NoSeats, payout |-> Battle!NoSeats]
      BY DEF Battle!NoBattle
    <2> QED BY <1>1, <2>1, <2>2 DEF BattleRow
  <1>4. SeatsInOrder(S, shape) /\ SumOf(StakesIn(S), DOMAIN S) = Ante
    <2> DEFINE R == Battle!NoSeats
    <2>1. DOMAIN R = {}
      BY DEF Battle!NoSeats
    <2>2. SeatsInOrder(R, shape)
      <3>1. R \in [{} -> SeatRow]
        BY DEF Battle!NoSeats
      <3>2. R \in Seating
        BY <3>1 DEF Seating
      <3> QED BY <2>1, <3>2 DEF SeatsInOrder
    <2>3. 0 \in Battle!SeatsOf(shape) /\ 0 \notin DOMAIN R
      BY <1>1, <2>1, SeatsAreFinite
    <2>4. S = WithSeat(R, 0, p)
      BY <2>1 DEF WithSeat
    <2>5. SumOf(StakesIn(R), DOMAIN R) = 0
      BY <2>1, SumOfNone
    <2> HIDE DEF R, S
    <2>6. /\ SeatsInOrder(S, shape)
          /\ SumOf(StakesIn(S), DOMAIN S) = SumOf(StakesIn(R), DOMAIN R) + Ante
      BY <1>1, <2>2, <2>3, <2>4, SeatIsBought
    <2> QED BY <1>1, <2>5, <2>6
  <1> HIDE DEF S, B
  <1>5. /\ wallet' \in [Players -> Nat] /\ SumOf(wallet', Players) + Ante = SumOf(wallet, Players)
        /\ SumOf(wallet', Players) \in Nat
    <2> DEFINE paid == wallet'
    <2>1. paid = [wallet EXCEPT ![p] = wallet[p] - Ante] /\ wallet \in [Players -> Nat]
      BY <1>2 DEF BattleInv
    <2> HIDE DEF paid
    <2>2. /\ paid \in [Players -> Nat] /\ SumOf(paid, Players) + Ante = SumOf(wallet, Players)
          /\ SumOf(paid, Players) \in Nat
      BY <1>1, <1>2, <2>1, PurseShrinks
    <2> QED BY <2>2 DEF paid
  <1>6. HeldIn(B, S) = Ante /\ WonIn(B) = 0 /\ HeldIn(battle[b], seats[b]) = 0
    BY <1>2, <1>3, <1>4 DEF HeldIn, WonIn
  <1>7. BattleOK(B, S)
    BY <1>3, <1>4 DEF BattleOK
  <1>8. BattleTurns(b, B, S)
    <2>1. SumOf(wallet', Players) + HeldIn(B, S)
              = SumOf(wallet, Players) + HeldIn(battle[b], seats[b]) + WonIn(B)
      BY <1>1, <1>5, <1>6
    <2>2. counted' = counted \cup (IF B.status = "settled" THEN SeatsCounted(b, S) ELSE {})
      BY <1>2, <1>3
    <2>3. taken' \in Nat
      BY <1>1, <1>2
    <2> QED BY <1>2, <1>5, <1>7, <2>1, <2>2, <2>3 DEF BattleTurns
  <1> QED BY <1>3, <1>4, <1>8 DEF ABattleTurns, SeatsInOrder

(* POST /v1/battles/:code/join.                                             *)
LEMMA SeatIsTaken ==
    ASSUME Battle!ConstantsOK, IsFiniteSet(Players), BattleInv, NEW b \in Battles, NEW p \in Players,
           Battle!Join(b, p)
    PROVE  ABattleTurns
  <1> DEFINE R == seats[b]
             shape == battle[b].shape
             free == Battle!SeatsOf(shape) \ DOMAIN R
             seat == Battle!Min(free)
             S == [s \in DOMAIN R \cup {seat} |-> IF s = seat THEN Battle!Bought(p) ELSE R[s]]
             paid == [wallet EXCEPT ![p] = wallet[p] - Ante]
  <1>1. battle[b] \in BattleRow /\ shape \in BattleShapes /\ SeatsInOrder(R, shape)
        /\ taken \in Nat /\ Ante \in Nat /\ wallet \in [Players -> Nat] /\ BattleOK(battle[b], R)
        /\ battle \in [Battles -> BattleRow]
    BY BattleConstants DEF BattleInv, BattleOK, BattleRow
  <1>2. /\ battle[b].status = "lobby" /\ free # {} /\ wallet[p] >= Ante
        /\ seats' = [seats EXCEPT ![b] = S] /\ taken' = taken + 1
        /\ \/ wallet' = paid /\ counted' = counted /\ battle' = battle
           \/ Battle!Settle(b, battle[b], S, paid)
    BY DEF Battle!Join, Battle!MayBuy, Battle!CountedOnTaking
  <1> HIDE DEF S
  <1>3. seat \in Battle!SeatsOf(shape) /\ seat \notin DOMAIN R
    <2>1. free \in SUBSET Nat
      BY <1>1, SeatsAreFinite
    <2> HIDE DEF free
    <2>2. \E x \in free : \A y \in free : x <= y
      BY <1>2, <2>1, LeastExists
    <2>3. seat \in free
      BY <2>2 DEF Battle!Min
    <2> QED BY <2>3 DEF free
  <1> HIDE DEF free, seat
  <1>4. /\ SeatsInOrder(S, shape) /\ DOMAIN S # {}
        /\ SumOf(StakesIn(S), DOMAIN S) = SumOf(StakesIn(R), DOMAIN R) + Ante
    <2>1. S = WithSeat(R, seat, p)
      BY DEF S, WithSeat
    <2> HIDE DEF R, shape
    <2> QED BY <1>1, <1>3, <2>1, SeatIsBought
  <1>5. /\ paid \in [Players -> Nat] /\ SumOf(paid, Players) + Ante = SumOf(wallet, Players)
        /\ SumOf(paid, Players) \in Nat
    <2>1. paid = [wallet EXCEPT ![p] = wallet[p] - Ante]
      OBVIOUS
    <2> HIDE DEF paid
    <2> QED BY <1>1, <1>2, <2>1, PurseShrinks
  <1> HIDE DEF paid
  <1>6. HeldIn(battle[b], R) = SumOf(StakesIn(R), DOMAIN R) /\ SumOf(StakesIn(R), DOMAIN R) \in Nat
    BY <1>1, <1>2, SeatTypes DEF HeldIn
  <1>7. CASE wallet' = paid /\ counted' = counted /\ battle' = battle
    <2>1. HeldIn(battle[b], S) = SumOf(StakesIn(S), DOMAIN S) /\ WonIn(battle[b]) = 0
      BY <1>2 DEF HeldIn, WonIn
    <2>2. BattleOK(battle[b], S)
      BY <1>1, <1>2, <1>4 DEF BattleOK
    <2>3. battle' = [battle EXCEPT ![b] = battle[b]]
      BY <1>1, <1>7
    <2>4. SumOf(wallet', Players) + HeldIn(battle[b], S)
              = SumOf(wallet, Players) + HeldIn(battle[b], seats[b]) + WonIn(battle[b])
      <3>1. SumOf(wallet', Players) = SumOf(paid, Players)
        BY <1>7
      <3> QED BY <1>1, <1>4, <1>5, <1>6, <2>1, <3>1
    <2>5. counted' = counted \cup (IF battle[b].status = "settled" THEN SeatsCounted(b, S) ELSE {})
      BY <1>2, <1>7
    <2>6. taken' \in Nat /\ wallet' \in [Players -> Nat]
      BY <1>1, <1>2, <1>5, <1>7
    <2>7. BattleTurns(b, battle[b], S)
      BY <1>2, <2>2, <2>3, <2>4, <2>5, <2>6 DEF BattleTurns
    <2> QED BY <1>1, <1>4, <2>7 DEF ABattleTurns, SeatsInOrder
  <1>8. CASE Battle!Settle(b, battle[b], S, paid)
    <2>1. SumOf(paid, Players) + SumOf(StakesIn(S), DOMAIN S)
              = SumOf(wallet, Players) + HeldIn(battle[b], seats[b])
      BY <1>1, <1>4, <1>5, <1>6
    <2>2. taken' \in Nat
      BY <1>1, <1>2
    <2> QED BY <1>2, <1>4, <1>5, <1>8, <2>1, <2>2, BattleIsSettled
  <1> QED BY <1>2, <1>7, <1>8

(* POST /v1/battles/:code/bots.                                             *)
LEMMA BotsSitDown ==
    ASSUME Battle!ConstantsOK, IsFiniteSet(Players), BattleInv, NEW b \in Battles, Battle!AddBots(b)
    PROVE  ABattleTurns
  <1> DEFINE R == seats[b]
             shape == battle[b].shape
             D == Battle!SeatsOf(shape)
             S == [s \in D |-> IF s \in DOMAIN R THEN R[s] ELSE [who |-> Battle!Bot, staked |-> 0, ref |-> 0]]
  <1>1. battle[b] \in BattleRow /\ shape \in BattleShapes /\ SeatsInOrder(R, shape)
        /\ taken \in Nat /\ wallet \in [Players -> Nat]
    BY DEF BattleInv, BattleOK, BattleRow
  <1>2. /\ battle[b].status = "lobby" /\ seats' = [seats EXCEPT ![b] = S] /\ taken' = taken
        /\ Battle!Settle(b, battle[b], S, wallet)
    BY DEF Battle!AddBots
  <1>3. D # {} /\ D \in SUBSET Nat /\ IsFiniteSet(D) /\ DOMAIN R \subseteq D
    BY <1>1, SeatsAreFinite DEF SeatsInOrder
  <1>4. \A s \in DOMAIN R : R[s] \in SeatRow /\ StakesIn(R)[s] = R[s].staked
    BY <1>1, SeatTypes
  <1>5. /\ DOMAIN S = D
        /\ \A s \in DOMAIN R : S[s] = R[s]
        /\ \A s \in D \ DOMAIN R : S[s] = [who |-> Battle!Bot, staked |-> 0, ref |-> 0]
        /\ S = [s \in D |-> S[s]]
    BY <1>3
  <1> HIDE DEF S, D
  <1>6. SeatsInOrder(S, shape)
    <2>1. \A s \in D : S[s] \in SeatRow
      BY <1>4, <1>5 DEF SeatRow
    <2>2. S \in [D -> SeatRow]
      BY <1>5, <2>1
    <2>3. S \in Seating
      BY <1>3, <2>2 DEF Seating
    <2>4. \A s \in D : S[s].who = Battle!Bot => S[s].staked = 0
      BY <1>1, <1>5 DEF SeatsInOrder
    <2> QED BY <1>5, <2>3, <2>4 DEF SeatsInOrder, D
  <1>7. SumOf(StakesIn(S), D) = SumOf(StakesIn(R), DOMAIN R)
    <2> DEFINE f == StakesIn(S)
    <2>1. (\A s \in D \ DOMAIN R : f[s] = 0) /\ (\A s \in DOMAIN R : f[s] = StakesIn(R)[s])
      <3>1. \A s \in D : f[s] = S[s].staked
        BY <1>5 DEF StakesIn
      <3> HIDE DEF f
      <3> QED BY <1>3, <1>4, <1>5, <3>1
    <2> HIDE DEF f
    <2>2. SumOf(f, D) = SumOf(f, DOMAIN R)
      BY <1>3, <2>1, SumOfSome
    <2>3. SumOf(f, DOMAIN R) = SumOf(StakesIn(R), DOMAIN R)
      BY <2>1, SumOfSame
    <2> QED BY <2>2, <2>3 DEF f
  <1>8. SumOf(wallet, Players) + SumOf(StakesIn(S), DOMAIN S)
            = SumOf(wallet, Players) + HeldIn(battle[b], seats[b])
    BY <1>2, <1>5, <1>7 DEF HeldIn
  <1> QED BY <1>1, <1>2, <1>3, <1>5, <1>6, <1>8, BattleIsSettled

(* Stakes go back, once each.                                               *)
LEMMA StakesGoBack ==
    ASSUME Battle!ConstantsOK, IsFiniteSet(Players), BattleInv, NEW b \in Battles,
           NEW which \in SUBSET DOMAIN seats[b], Battle!Refund(b, which)
    PROVE  /\ wallet' \in [Players -> Nat]
           /\ SumOf(wallet', Players) = SumOf(wallet, Players) + SumOf(StakesIn(seats[b]), which)
           /\ SumOf(StakesIn(seats[b]), which) \in Nat
  <1> DEFINE S == seats[b]
  <1>1. battle[b].shape \in BattleShapes /\ SeatsInOrder(S, battle[b].shape)
        /\ wallet \in [Players -> Nat]
    BY DEF BattleInv, BattleOK, BattleRow
  <1>2. /\ IsFiniteSet(which)
        /\ \A s \in which : /\ s \in DOMAIN S /\ S[s] \in SeatRow /\ S[s].staked \in Nat
                            /\ StakesIn(S)[s] = S[s].staked /\ StakesIn(S)[s] \in Nat
    BY <1>1, SeatTypes, FS_Subset
  <1>3. wallet' = After(wallet, S, StakesIn(S), which)
    <2>1. ASSUME NEW q \in Players
          PROVE  Battle!MapThenSumSet(LAMBDA s : S[s].staked, {s \in which : S[s].who = q})
                     = SumOf(StakesIn(S), {s \in which : S[s].who = q})
      <3> DEFINE T == {s \in which : S[s].who = q}
      <3>1. T \in SUBSET which
        OBVIOUS
      <3> HIDE DEF T, S
      <3>2. IsFiniteSet(T) /\ T \in SUBSET DOMAIN S /\ \A s \in T : S[s].staked \in Nat
        BY <1>2, <3>1, FS_Subset
      <3>3. Battle!MapThenSumSet(LAMBDA s : S[s].staked, T) = SumOf(StakesIn(S), T)
        BY <3>2, StakesFold
      <3> QED BY <3>3 DEF T
    <2>2. wallet' = [q \in Players |-> wallet[q]
                        + Battle!MapThenSumSet(LAMBDA s : S[s].staked, {s \in which : S[s].who = q})]
      BY DEF Battle!Refund
    <2> QED BY <2>1, <2>2 DEF After
  <1>4. \A s \in which : S[s].who \in Players \/ StakesIn(S)[s] = 0
    BY <1>1, <1>2 DEF SeatsInOrder, SeatRow
  <1>5. (\A s \in which : StakesIn(S)[s] \in Nat)
    BY <1>2
  <1> HIDE DEF S
  <1>6. /\ After(wallet, S, StakesIn(S), which) \in [Players -> Nat]
        /\ SumOf(After(wallet, S, StakesIn(S), which), Players)
               = SumOf(wallet, Players) + SumOf(StakesIn(S), which)
    <2> DEFINE gain == StakesIn(S)
               purse == wallet
    <2>1. OnlyPlayersGain(S, gain, which)
      BY <1>4, <1>5 DEF OnlyPlayersGain
    <2>2. purse \in [Players -> Nat] /\ IsFiniteSet(which)
      BY <1>1, <1>2
    <2> HIDE DEF gain, purse
    <2>3. /\ After(purse, S, gain, which) \in [Players -> Nat]
          /\ SumOf(After(purse, S, gain, which), Players) = SumOf(purse, Players) + SumOf(gain, which)
      BY <2>1, <2>2, PursesGrow
    <2> QED BY <2>3 DEF gain, purse
  <1>7. SumOf(StakesIn(S), which) \in Nat
    BY <1>2, <1>5, SumType
  <1> QED BY <1>3, <1>6, <1>7 DEF S

(* POST /v1/battles/:code/leave.                                            *)
LEMMA SeatIsLeft ==
    ASSUME Battle!ConstantsOK, IsFiniteSet(Players), BattleInv, NEW b \in Battles, NEW p \in Players,
           Battle!Leave(b, p)
    PROVE  ABattleTurns
  <1> DEFINE R == seats[b]
             D == DOMAIN R
             shape == battle[b].shape
             mine == {s \in DOMAIN seats[b] : seats[b][s].who = p}
             gone == IF battle[b].host = p THEN DOMAIN seats[b] ELSE mine
             S == [s \in D \ gone |-> R[s]]
             B == [battle[b] EXCEPT !.status = IF battle[b].host = p THEN "cancelled" ELSE "lobby"]
  <1>1. battle[b] \in BattleRow /\ shape \in BattleShapes /\ SeatsInOrder(R, shape)
        /\ taken \in Nat /\ wallet \in [Players -> Nat]
        /\ battle \in [Battles -> BattleRow]
    BY DEF BattleInv, BattleOK, BattleRow
  <1>2. /\ battle[b].status = "lobby" /\ Battle!Refund(b, gone) /\ taken' = taken /\ counted' = counted
        /\ seats' = [seats EXCEPT ![b] = S]
        /\ battle' = [battle EXCEPT ![b].status = IF battle[b].host = p THEN "cancelled" ELSE battle[b].status]
    BY DEF Battle!Leave, Battle!Restrict
  <1>3. gone \in SUBSET D
    OBVIOUS
  <1>4. /\ IsFiniteSet(D) /\ D \subseteq Nat
        /\ \A s \in D : R[s] \in SeatRow /\ StakesIn(R)[s] = R[s].staked /\ StakesIn(R)[s] \in Nat
    BY <1>1, SeatTypes
  <1>5. battle' = [battle EXCEPT ![b] = B] /\ B \in BattleRow /\ B.shape = shape
        /\ B.status = (IF battle[b].host = p THEN "cancelled" ELSE "lobby")
    BY <1>1, <1>2 DEF BattleRow
  <1>6. battle[b].host = p => gone = D
    OBVIOUS
  <1> HIDE DEF gone, B
  <1>7. /\ wallet' \in [Players -> Nat]
        /\ SumOf(wallet', Players) = SumOf(wallet, Players) + SumOf(StakesIn(R), gone)
        /\ SumOf(StakesIn(R), gone) \in Nat
    BY <1>2, <1>3, StakesGoBack
  <1>8. /\ DOMAIN S = D \ gone /\ D \ gone \in SUBSET D /\ IsFiniteSet(D \ gone)
        /\ \A s \in D \ gone : S[s] = R[s]
    BY <1>4, FS_Subset
  <1>9. SeatsInOrder(S, shape)
    <2>1. S \in [D \ gone -> SeatRow] /\ D \ gone \in SUBSET Nat
      BY <1>4
    <2>2. S \in Seating
      BY <2>1 DEF Seating
    <2>3. \A s \in DOMAIN S : S[s].who = Battle!Bot => S[s].staked = 0
      BY <1>1, <1>8 DEF SeatsInOrder
    <2> QED BY <1>1, <1>8, <2>2, <2>3 DEF SeatsInOrder
  <1>10. SumOf(StakesIn(S), D \ gone) = SumOf(StakesIn(R), D \ gone)
    <2>1. \A s \in D \ gone : StakesIn(S)[s] = StakesIn(R)[s]
      BY <1>4, <1>8 DEF StakesIn
    <2> QED BY <2>1, SumOfSame
  <1> HIDE DEF S
  <1>11. SumOf(StakesIn(R), D) = SumOf(StakesIn(R), D \ gone) + SumOf(StakesIn(R), gone)
    <2> DEFINE f == StakesIn(R)
               stay == D \ gone
    <2>1. D = stay \cup gone /\ stay \cap gone = {} /\ IsFiniteSet(stay) /\ IsFiniteSet(gone)
      BY <1>3, <1>4, <1>8, FS_Subset
    <2>2. \A s \in stay \cup gone : f[s] \in Nat
      BY <1>4, <2>1
    <2> HIDE DEF f, stay, D
    <2>3. SumOf(f, stay \cup gone) = SumOf(f, stay) + SumOf(f, gone)
      BY <2>1, <2>2, SumOfUnion
    <2> QED BY <2>1, <2>3 DEF f, stay
  <1>12. SumOf(StakesIn(R), D \ gone) \in Nat /\ SumOf(wallet, Players) \in Nat
    <2>1. \A s \in D \ gone : StakesIn(R)[s] \in Nat
      BY <1>4
    <2>2. \A q \in Players : wallet[q] \in Nat
      BY <1>1
    <2> QED BY <1>8, <2>1, <2>2, SumType
  <1>13. SumOf(wallet', Players) + HeldIn(B, S)
             = SumOf(wallet, Players) + HeldIn(battle[b], seats[b]) + WonIn(B)
    <2>1. HeldIn(battle[b], R) = SumOf(StakesIn(R), D) /\ WonIn(B) = 0
      BY <1>2, <1>5 DEF HeldIn, WonIn
    <2>2. HeldIn(B, S) = IF battle[b].host = p THEN 0 ELSE SumOf(StakesIn(R), D \ gone)
      BY <1>5, <1>8, <1>10 DEF HeldIn
    <2>3. CASE battle[b].host = p
      <3>1. SumOf(StakesIn(R), D) = SumOf(StakesIn(R), gone)
        BY <1>6, <2>3
      <3> QED BY <1>7, <1>12, <2>1, <2>2, <2>3, <3>1
    <2>4. CASE battle[b].host # p
      BY <1>7, <1>11, <1>12, <2>1, <2>2, <2>4
    <2> QED BY <2>3, <2>4
  <1>14. BattleTurns(b, B, S)
    <2>1. BattleOK(B, S)
      BY <1>5, <1>9 DEF BattleOK
    <2>2. counted' = counted \cup (IF B.status = "settled" THEN SeatsCounted(b, S) ELSE {})
      BY <1>2, <1>5
    <2> QED BY <1>1, <1>2, <1>5, <1>7, <1>13, <2>1, <2>2 DEF BattleTurns
  <1> QED BY <1>5, <1>9, <1>14 DEF ABattleTurns, SeatsInOrder

(* sweepLobbies, once a lobby's turn has come.                              *)
LEMMA LobbyIsCancelled ==
    ASSUME Battle!ConstantsOK, IsFiniteSet(Players), BattleInv, NEW b \in Battles,
           Battle!CancelLobby(b)
    PROVE  ABattleTurns \/ BattleRests
  <1> DEFINE R == seats[b]
             shape == battle[b].shape
             B == [battle[b] EXCEPT !.status = "cancelled"]
  <1>1. battle[b] \in BattleRow /\ shape \in BattleShapes /\ SeatsInOrder(R, shape)
        /\ taken \in Nat /\ wallet \in [Players -> Nat] /\ seats \in [Battles -> Seating]
        /\ battle \in [Battles -> BattleRow]
    BY DEF BattleInv, BattleOK, BattleRow
  <1>2. seats' = seats /\ taken' = taken /\ counted' = counted
    BY DEF Battle!CancelLobby
  <1>3. CASE ~Battle!Cancellable(b)
    BY <1>2, <1>3 DEF Battle!CancelLobby, BattleRests
  <1>4. CASE Battle!Cancellable(b)
    <2>1. /\ battle[b].status = "lobby" /\ Battle!Refund(b, DOMAIN R)
          /\ battle' = [battle EXCEPT ![b].status = "cancelled"]
      BY <1>4 DEF Battle!CancelLobby, Battle!Cancellable
    <2>2. battle' = [battle EXCEPT ![b] = B] /\ B \in BattleRow /\ B.shape = shape
          /\ B.status = "cancelled"
      BY <1>1, <2>1 DEF BattleRow
    <2> HIDE DEF B
    <2>3. /\ wallet' \in [Players -> Nat]
          /\ SumOf(wallet', Players) = SumOf(wallet, Players) + SumOf(StakesIn(R), DOMAIN R)
      BY <2>1, StakesGoBack
    <2>4. HeldIn(battle[b], R) = SumOf(StakesIn(R), DOMAIN R) /\ WonIn(B) = 0 /\ HeldIn(B, R) = 0
      BY <2>1, <2>2 DEF HeldIn, WonIn
    <2>5. SumOf(wallet, Players) \in Nat /\ SumOf(StakesIn(R), DOMAIN R) \in Nat
      <3>1. \A q \in Players : wallet[q] \in Nat
        BY <1>1
      <3> QED BY <1>1, <3>1, SumType, SeatTypes
    <2>6. SumOf(wallet', Players) + HeldIn(B, R)
              = SumOf(wallet, Players) + HeldIn(battle[b], seats[b]) + WonIn(B)
      BY <2>3, <2>4, <2>5
    <2>7. BattleOK(B, R)
      BY <1>1, <2>2 DEF BattleOK
    <2>8. counted' = counted \cup (IF B.status = "settled" THEN SeatsCounted(b, R) ELSE {})
      BY <1>2, <2>2
    <2>9. seats' = [seats EXCEPT ![b] = R]
      BY <1>1, <1>2
    <2>10. BattleTurns(b, B, R)
      BY <1>1, <1>2, <2>1, <2>2, <2>3, <2>6, <2>7, <2>8, <2>9 DEF BattleTurns
    <2> QED BY <1>1, <2>2, <2>10 DEF ABattleTurns
  <1> QED BY <1>3, <1>4

(* A lobby grows old; its stakes stay.                                      *)
LEMMA LobbyExpires ==
    ASSUME Battle!ConstantsOK, IsFiniteSet(Players), BattleInv, NEW b \in Battles, Battle!Expire(b)
    PROVE  ABattleTurns
  <1> DEFINE R == seats[b]
             B == [battle[b] EXCEPT !.expired = TRUE]
  <1>1. battle[b] \in BattleRow /\ BattleOK(battle[b], R)
        /\ taken \in Nat /\ wallet \in [Players -> Nat] /\ seats \in [Battles -> Seating]
        /\ battle \in [Battles -> BattleRow]
    BY DEF BattleInv
  <1>2. /\ seats' = seats /\ taken' = taken /\ counted' = counted /\ wallet' = wallet
        /\ battle[b].status = "lobby" /\ battle' = [battle EXCEPT ![b].expired = TRUE]
    BY DEF Battle!Expire
  <1>3. battle' = [battle EXCEPT ![b] = B] /\ B \in BattleRow /\ B.shape = battle[b].shape
        /\ B.status = "lobby"
    BY <1>1, <1>2 DEF BattleRow
  <1> HIDE DEF B
  <1>4. BattleOK(B, R)
    BY <1>1, <1>3 DEF BattleOK
  <1>5. HeldIn(B, R) = HeldIn(battle[b], R) /\ WonIn(B) = 0
    BY <1>2, <1>3 DEF HeldIn, WonIn
  <1>6. SumOf(wallet', Players) + HeldIn(B, R)
            = SumOf(wallet, Players) + HeldIn(battle[b], seats[b]) + WonIn(B)
    <2>1. HeldIn(battle[b], R) \in Int
      <3>1. battle[b].shape \in BattleShapes /\ SeatsInOrder(R, battle[b].shape)
        BY <1>1 DEF BattleOK, BattleRow
      <3> QED BY <3>1, SeatTypes DEF HeldIn
    <2>2. SumOf(wallet, Players) \in Nat
      <3>1. \A q \in Players : wallet[q] \in Nat
        BY <1>1
      <3> QED BY <3>1, SumType
    <2> QED BY <1>2, <1>5, <2>1, <2>2
  <1>7. seats' = [seats EXCEPT ![b] = R]
    BY <1>1, <1>2
  <1>8. counted' = counted \cup (IF B.status = "settled" THEN SeatsCounted(b, R) ELSE {})
    BY <1>2, <1>3
  <1>9. BattleTurns(b, B, R)
    BY <1>1, <1>2, <1>3, <1>4, <1>6, <1>7, <1>8 DEF BattleTurns
  <1> QED BY <1>1, <1>3, <1>9 DEF ABattleTurns

(* Every step turns one battle or leaves all of them alone.                 *)
LEMMA BattleNextTurns ==
    ASSUME Battle!ConstantsOK, IsFiniteSet(Players), BattleInv, [Battle!Next]_Battle!vars
    PROVE  ABattleTurns \/ BattleRests
  <1>1. CASE UNCHANGED Battle!vars
    BY <1>1 DEF Battle!vars, BattleRests
  <1>2. ASSUME NEW b \in Battles, NEW p \in Players, Battle!PlayerNext(b, p)
        PROVE  ABattleTurns
    BY <1>2, LobbyOpens, SeatIsTaken, SeatIsLeft DEF Battle!PlayerNext
  <1>3. ASSUME NEW b \in Battles, Battle!AddBots(b) \/ Battle!CancelLobby(b) \/ Battle!Expire(b)
        PROVE  ABattleTurns \/ BattleRests
    BY <1>3, BotsSitDown, LobbyIsCancelled, LobbyExpires
  <1>4. CASE Battle!SweepReads \/ Battle!SweepFails \/ \E on \in BOOLEAN : Battle!Switch(on)
    BY <1>4 DEF Battle!SweepReads, Battle!SweepFails, Battle!Switch, BattleRests
  <1> QED BY <1>1, <1>2, <1>3, <1>4 DEF Battle!Next

-----------------------------------------------------------------------------
(* What follows for all battles                                             *)

HeldStakes == [b \in Battles |-> HeldIn(battle[b], seats[b])]
PaidPots   == [b \in Battles |-> WonIn(battle[b])]

(* What a battle holds and has paid are numbers.                            *)
LEMMA BattleFigures ==
    ASSUME NEW B, NEW S, BattleOK(B, S)
    PROVE  HeldIn(B, S) \in Nat /\ WonIn(B) \in Nat
  <1>1. SeatsInOrder(S, B.shape) /\ B.shape \in BattleShapes
    BY DEF BattleOK, BattleRow
  <1>2. HeldIn(B, S) \in Nat
    BY <1>1, SeatTypes DEF HeldIn
  <1>3. CASE B.status # "settled"
    BY <1>2, <1>3 DEF WonIn
  <1>4. CASE B.status = "settled"
    <2>1. /\ B.payout = Battle!Payouts(S, B.total, B.shape.size, B.mode)
          /\ B.total \in [DOMAIN S -> Nat] /\ DOMAIN S # {} /\ IsFiniteSet(DOMAIN S)
      BY <1>1, <1>4, SeatTypes DEF BattleOK, RolledOut
    <2>2. B.payout \in [DOMAIN S -> Nat]
      BY <2>1, WinnersArePaid
    <2> DEFINE gain == B.payout
    <2> HIDE DEF gain
    <2>3. gain \in [DOMAIN S -> Nat]
      BY <2>2 DEF gain
    <2>4. DOMAIN gain = DOMAIN S /\ \A s \in DOMAIN gain : gain[s] \in Nat
      BY <2>3
    <2>5. SumOf(gain, DOMAIN gain) \in Nat
      BY <2>1, <2>4, SumType
    <2> QED BY <1>2, <1>4, <2>5 DEF WonIn, gain
  <1> QED BY <1>3, <1>4

(* The invariant holds at the start.                                        *)
LEMMA BattleStarts ==
    ASSUME Battle!ConstantsOK, Battle!Init
    PROVE  BattleInv
  <1>1. wallet \in [Players -> Nat] /\ taken \in Nat
    BY BattleConstants DEF Battle!Init
  <1>2. Battle!NoSeats \in [{} -> Nat] /\ Battle!NoSeats \in [{} -> SeatRow]
        /\ DOMAIN Battle!NoSeats = {}
    BY DEF Battle!NoSeats
  <1>3. Battle!NoSeats \in Reels /\ Battle!NoSeats \in Seating
    BY <1>2 DEF Reels, Seating
  <1>4. Battle!NoBattle \in BattleRow /\ Battle!NoBattle.status = "none"
    BY <1>3 DEF Battle!NoBattle, BattleRow, BattleShapes
  <1>5. BattleOK(Battle!NoBattle, Battle!NoSeats)
    BY <1>2, <1>3, <1>4 DEF BattleOK, SeatsInOrder
  <1> QED BY <1>1, <1>3, <1>4, <1>5 DEF BattleInv, Battle!Init

(* No battle but the one that changes.                                      *)
LEMMA OthersStay ==
    ASSUME BattleInv, NEW b \in Battles, NEW B \in BattleRow, NEW S \in Seating, BattleTurns(b, B, S)
    PROVE  /\ battle' \in [Battles -> BattleRow] /\ seats' \in [Battles -> Seating]
           /\ battle'[b] = B /\ seats'[b] = S
           /\ \A c \in Battles \ {b} : battle'[c] = battle[c] /\ seats'[c] = seats[c]
  BY DEF BattleInv, BattleTurns

(* Every turn keeps it.                                                     *)
LEMMA BattleInvStays ==
    ASSUME BattleInv, ABattleTurns \/ BattleRests
    PROVE  BattleInv'
  <1>1. CASE BattleRests
    BY <1>1 DEF BattleRests, BattleInv, BattleOK, SeatsInOrder, RolledOut
  <1>2. ASSUME NEW b \in Battles, NEW B \in BattleRow, NEW S \in Seating, BattleTurns(b, B, S)
        PROVE  BattleInv'
    <2>1. \A c \in Battles : BattleOK(battle'[c], seats'[c])
      BY <1>2, OthersStay DEF BattleInv, BattleTurns
    <2>2. battle' \in [Battles -> BattleRow] /\ seats' \in [Battles -> Seating]
      BY <1>2, OthersStay
    <2> QED BY <1>2, <2>1, <2>2 DEF BattleInv, BattleTurns
  <1> QED BY <1>1, <1>2 DEF ABattleTurns

(* All stakes and pots.                                                     *)
BattleAccounts ==
    SumOf(wallet, Players) + SumOf(HeldStakes, Battles)
        = Cardinality(Players) * Purse + SumOf(PaidPots, Battles)

(* The accounts are in order at the start.                                  *)
LEMMA AccountsOpen ==
    ASSUME Battle!ConstantsOK, IsFiniteSet(Players), Battle!Init
    PROVE  BattleAccounts
  <1>1. SumOf(wallet, Players) = Cardinality(Players) * Purse
    <2>1. wallet = [p \in Players |-> Purse] /\ Purse \in Nat
      BY BattleConstants DEF Battle!Init
    <2> QED BY <2>1, SumOfConstant
  <1>2. \A b \in Battles : HeldStakes[b] = 0 /\ PaidPots[b] = 0
    BY DEF HeldStakes, PaidPots, HeldIn, WonIn, Battle!Init, Battle!NoBattle
  <1>3. SumOf(HeldStakes, Battles) = 0 /\ SumOf(PaidPots, Battles) = 0
    <2>1. /\ \A b \in Battles \ {} : HeldStakes[b] = 0
          /\ \A b \in Battles \ {} : PaidPots[b] = 0
      BY <1>2
    <2>2. SumOf(HeldStakes, Battles) = SumOf(HeldStakes, {}) /\ SumOf(PaidPots, Battles) = SumOf(PaidPots, {})
      BY <2>1, SumOfSome
    <2> QED BY <2>2, SumOfNone
  <1>4. Cardinality(Players) * Purse \in Int
    <2>1. Cardinality(Players) \in Nat
      BY FS_CardinalityType
    <2> QED BY <2>1, BattleConstants
  <1> QED BY <1>1, <1>3, <1>4 DEF BattleAccounts

(* Every turn keeps them so.                                                *)
LEMMA AccountsStay ==
    ASSUME Battle!ConstantsOK, IsFiniteSet(Players), IsFiniteSet(Battles), BattleInv, BattleInv',
           BattleAccounts, ABattleTurns \/ BattleRests
    PROVE  BattleAccounts'
  <1>1. CASE BattleRests
    BY <1>1 DEF BattleRests, BattleAccounts, HeldStakes, PaidPots, HeldIn, WonIn
  <1>2. ASSUME NEW b \in Battles, NEW B \in BattleRow, NEW S \in Seating, BattleTurns(b, B, S)
        PROVE  BattleAccounts'
    <2> DEFINE held == HeldStakes
               held2 == HeldStakes'
               paid == PaidPots
               paid2 == PaidPots'
    <2>1. \A c \in Battles : held[c] \in Nat /\ paid[c] \in Nat
      <3>1. \A c \in Battles : HeldIn(battle[c], seats[c]) \in Nat /\ WonIn(battle[c]) \in Nat
        BY BattleFigures DEF BattleInv
      <3> QED BY <3>1 DEF HeldStakes, PaidPots
    <2>2. \A c \in Battles : held2[c] \in Nat /\ paid2[c] \in Nat
      <3>1. \A c \in Battles : HeldIn(battle'[c], seats'[c]) \in Nat /\ WonIn(battle'[c]) \in Nat
        BY BattleFigures DEF BattleInv
      <3> QED BY <3>1 DEF HeldStakes, PaidPots
    <2>3. /\ \A c \in Battles \ {b} : held2[c] = held[c] /\ paid2[c] = paid[c]
          /\ held2[b] = HeldIn(B, S) /\ paid2[b] = WonIn(B)
          /\ held[b] = HeldIn(battle[b], seats[b]) /\ paid[b] = 0
      BY <1>2, OthersStay DEF HeldStakes, PaidPots, BattleTurns, WonIn
    <2> HIDE DEF held, held2, paid, paid2
    <2>4. /\ SumOf(held2, Battles) = SumOf(held, Battles) - held[b] + held2[b]
          /\ SumOf(paid2, Battles) = SumOf(paid, Battles) - paid[b] + paid2[b]
      BY <2>1, <2>2, <2>3, SumChanges
    <2>5. SumOf(held, Battles) \in Nat /\ SumOf(paid, Battles) \in Nat
      BY <2>1, SumType
    <2>6. SumOf(wallet', Players) + held2[b] = SumOf(wallet, Players) + held[b] + paid2[b]
      BY <1>2, <2>3 DEF BattleTurns
    <2>7. SumOf(wallet, Players) \in Nat /\ SumOf(wallet', Players) \in Nat
      <3> DEFINE purse == wallet'
      <3>1. (\A q \in Players : wallet[q] \in Nat) /\ (\A q \in Players : purse[q] \in Nat)
        BY DEF BattleInv
      <3> HIDE DEF purse
      <3>2. SumOf(wallet, Players) \in Nat /\ SumOf(purse, Players) \in Nat
        BY <3>1, SumType
      <3> QED BY <3>2 DEF purse
    <2>8. SumOf(wallet, Players) + SumOf(held, Battles) = Cardinality(Players) * Purse + SumOf(paid, Battles)
      BY DEF BattleAccounts, held, paid
    <2>9. Cardinality(Players) * Purse \in Int
      <3>1. Cardinality(Players) \in Nat
        BY FS_CardinalityType
      <3> QED BY <3>1, BattleConstants
    <2>10. SumOf(wallet', Players) + SumOf(held2, Battles)
               = Cardinality(Players) * Purse + SumOf(paid2, Battles)
      <3> DEFINE start == Cardinality(Players) * Purse
      <3>1. start \in Int /\ SumOf(wallet, Players) + SumOf(held, Battles) = start + SumOf(paid, Battles)
        BY <2>8, <2>9
      <3> HIDE DEF start
      <3>2. held[b] \in Nat /\ held2[b] \in Nat /\ paid2[b] \in Nat /\ paid[b] = 0
        BY <2>1, <2>2, <2>3
      <3>3. SumOf(wallet', Players) + SumOf(held2, Battles) = start + SumOf(paid2, Battles)
        BY <2>4, <2>5, <2>6, <2>7, <3>1, <3>2
      <3> QED BY <3>3 DEF start
    <2> QED BY <2>10 DEF BattleAccounts, held2, paid2
  <1> QED BY <1>1, <1>2 DEF ABattleTurns

(* Type correctness of case battles, and that a rolled one shows what its    *)
(* seats have dropped and has been paid by the rule.                        *)
THEOREM BattleTypeCorrect ==
    ASSUME Battle!ConstantsOK, IsFiniteSet(Players) PROVE Battle!Spec => []BattleInv
  <1>1. Battle!Init => BattleInv
    BY BattleStarts
  <1>2. BattleInv /\ [Battle!Next]_Battle!vars => BattleInv'
    BY BattleNextTurns, BattleInvStays
  <1> QED BY <1>1, <1>2, PTL DEF Battle!Spec

(* The module's sums over battles are these.                                *)
LEMMA FiguresFold ==
    ASSUME BattleInv, IsFiniteSet(Battles)
    PROVE  /\ Battle!MapThenSumSet(Battle!Staked, Battles) = SumOf(HeldStakes, Battles)
           /\ Battle!MapThenSumSet(Battle!PaidOut, Battles) = SumOf(PaidPots, Battles)
  <1>1. ASSUME NEW b \in Battles PROVE Battle!Staked(b) = HeldStakes[b] /\ Battle!PaidOut(b) = PaidPots[b]
    <2> DEFINE B == battle[b]
               S == seats[b]
    <2>1. BattleOK(B, S) /\ SeatsInOrder(S, B.shape) /\ B.shape \in BattleShapes
      BY DEF BattleInv, BattleOK, BattleRow
    <2>2. Battle!MapThenSumSet(LAMBDA s : S[s].staked, DOMAIN S) = SumOf(StakesIn(S), DOMAIN S)
      BY <2>1, SeatTypes, StakesFold
    <2>3. Battle!Staked(b) = HeldStakes[b]
      BY <2>2 DEF Battle!Staked, HeldStakes, HeldIn
    <2>4. CASE B.status # "settled"
      BY <2>3, <2>4 DEF Battle!PaidOut, PaidPots, WonIn
    <2>5. CASE B.status = "settled"
      <3>1. /\ B.payout = Battle!Payouts(S, B.total, B.shape.size, B.mode)
            /\ B.total \in [DOMAIN S -> Nat] /\ DOMAIN S # {} /\ IsFiniteSet(DOMAIN S)
        BY <2>1, <2>5, SeatTypes DEF BattleOK, RolledOut
      <3>2. B.payout \in [DOMAIN S -> Nat]
        BY <3>1, WinnersArePaid
      <3> DEFINE gain == B.payout
      <3>3. gain \in [DOMAIN S -> Nat]
        BY <3>2
      <3>4. Battle!PaidOut(b) = Battle!MapThenSumSet(LAMBDA s : gain[s], DOMAIN gain)
        BY <2>5 DEF Battle!PaidOut
      <3>5. PaidPots[b] = SumOf(gain, DOMAIN gain)
        BY <2>5 DEF PaidPots, WonIn
      <3> HIDE DEF gain
      <3>6. DOMAIN gain = DOMAIN S /\ \A s \in DOMAIN gain : gain[s] \in Nat
        BY <3>3
      <3>7. Battle!MapThenSumSet(LAMBDA s : gain[s], DOMAIN gain) = SumOf(gain, DOMAIN gain)
        BY <3>1, <3>6, BattleFolds
      <3> QED BY <2>3, <3>4, <3>5, <3>7
    <2> QED BY <2>4, <2>5
  <1>2. \A b \in Battles : HeldStakes[b] \in Nat /\ PaidPots[b] \in Nat
    BY BattleFigures DEF BattleInv, HeldStakes, PaidPots
  <1> DEFINE held == HeldStakes
             paid == PaidPots
  <1> HIDE DEF held, paid
  <1>3. Battle!MapThenSumSet(Battle!Staked, Battles) = SumOf(held, Battles)
    <2> DEFINE it == CHOOSE it : it = [s \in SUBSET Battles |-> IF s = {} THEN 0
                                         ELSE Battle!Staked(OneOf(s)) + it[s \ {OneOf(s)}]]
               sum == [s \in SUBSET Battles |-> SumOf(held, s)]
    <2>1. AddsUp(held, Battles, sum)
      BY <1>2, SumAddsUp DEF held
    <2>2. \A s \in SUBSET Battles : s # {} => OneOf(s) \in Battles
      BY DEF OneOf
    <2>3. sum = [s \in SUBSET Battles |-> IF s = {} THEN 0
                                         ELSE Battle!Staked(OneOf(s)) + sum[s \ {OneOf(s)}]]
      <3> HIDE DEF sum
      <3> QED BY <1>1, <2>1, <2>2 DEF AddsUp, held
    <2>4. Battle!MapThenSumSet(Battle!Staked, Battles) = it[Battles]
      BY DEF Battle!MapThenSumSet, Battle!MapThenFoldSet, OneOf
    <2>5. it = [s \in SUBSET Battles |-> IF s = {} THEN 0
                                        ELSE Battle!Staked(OneOf(s)) + it[s \ {OneOf(s)}]]
      <3> HIDE DEF sum
      <3> QED BY <2>3
    <2> HIDE DEF it
    <2>6. AddsUp(held, Battles, it)
      BY <1>1, <2>2, <2>5 DEF AddsUp, held
    <2>7. it[Battles] = sum[Battles]
      <3> HIDE DEF sum
      <3> QED BY <2>1, <2>6, OnlyOneAddsUp
    <2> QED BY <2>4, <2>7
  <1>4. Battle!MapThenSumSet(Battle!PaidOut, Battles) = SumOf(paid, Battles)
    <2> DEFINE it == CHOOSE it : it = [s \in SUBSET Battles |-> IF s = {} THEN 0
                                         ELSE Battle!PaidOut(OneOf(s)) + it[s \ {OneOf(s)}]]
               sum == [s \in SUBSET Battles |-> SumOf(paid, s)]
    <2>1. AddsUp(paid, Battles, sum)
      BY <1>2, SumAddsUp DEF paid
    <2>2. \A s \in SUBSET Battles : s # {} => OneOf(s) \in Battles
      BY DEF OneOf
    <2>3. sum = [s \in SUBSET Battles |-> IF s = {} THEN 0
                                         ELSE Battle!PaidOut(OneOf(s)) + sum[s \ {OneOf(s)}]]
      <3> HIDE DEF sum
      <3> QED BY <1>1, <2>1, <2>2 DEF AddsUp, paid
    <2>4. Battle!MapThenSumSet(Battle!PaidOut, Battles) = it[Battles]
      BY DEF Battle!MapThenSumSet, Battle!MapThenFoldSet, OneOf
    <2>5. it = [s \in SUBSET Battles |-> IF s = {} THEN 0
                                        ELSE Battle!PaidOut(OneOf(s)) + it[s \ {OneOf(s)}]]
      <3> HIDE DEF sum
      <3> QED BY <2>3
    <2> HIDE DEF it
    <2>6. AddsUp(paid, Battles, it)
      BY <1>1, <2>2, <2>5 DEF AddsUp, paid
    <2>7. it[Battles] = sum[Battles]
      <3> HIDE DEF sum
      <3> QED BY <2>1, <2>6, OnlyOneAddsUp
    <2> QED BY <2>4, <2>7
  <1> QED BY <1>3, <1>4 DEF held, paid

(* Wallets and what is staked on lobbies and settled battles are all the    *)
(* money there was and what the settled ones have paid.                     *)
THEOREM BattleMoneyAddsUp ==
    ASSUME Battle!ConstantsOK, IsFiniteSet(Players), IsFiniteSet(Battles)
    PROVE  Battle!Spec => []Battle!StakesAddUp
  <1>1. Battle!Init => BattleInv /\ BattleAccounts
    BY BattleStarts, AccountsOpen
  <1>2. BattleInv /\ BattleAccounts /\ [Battle!Next]_Battle!vars => (BattleInv /\ BattleAccounts)'
    BY BattleNextTurns, BattleInvStays, AccountsStay
  <1>3. ASSUME BattleInv, BattleAccounts PROVE Battle!StakesAddUp
    <2>1. Battle!MapThenSumSet(LAMBDA p : wallet[p], Players) = SumOf(wallet, Players)
      BY <1>3, BattleFolds DEF BattleInv
    <2> QED BY <1>3, <2>1, FiguresFold, BattleCardinality DEF Battle!StakesAddUp, BattleAccounts
  <1> QED BY <1>1, <1>2, <1>3, PTL DEF Battle!Spec

(* The winning seats share the pot, the house keeping the bots' parts.      *)
THEOREM PotIsShared ==
    ASSUME Battle!ConstantsOK, IsFiniteSet(Players) PROVE Battle!Spec => []Battle!PotIsShared
  <1>1. ASSUME BattleInv PROVE Battle!PotIsShared
    <2> SUFFICES ASSUME NEW b \in Battles, battle[b].status = "settled"
                 PROVE  LET B      == battle[b]
                            score  == [s \in DOMAIN B.total |-> Battle!TeamTotal(B.total, B.shape.size, s \div B.shape.size)]
                            best   == (IF B.mode = "crazy" THEN Battle!Min(Battle!Range(score))
                                       ELSE Battle!Max(Battle!Range(score)))
                            won    == {s \in DOMAIN score : score[s] = best}
                            people == Battle!Humans(seats[b])
                        IN  /\ \A s \in people \ won : B.payout[s] = 0
                            /\ \A s \in people \cap won : B.payout[s] \in
                                    (B.pot \div Battle!Cardinality(won))
                                        ..(B.pot \div Battle!Cardinality(won) + Battle!Cardinality(won) - 1)
                            /\ won \subseteq people =>
                                    Battle!MapThenSumSet(LAMBDA s : B.payout[s], people) = B.pot
      BY DEF Battle!PotIsShared
    <2> DEFINE B == battle[b]
               S == seats[b]
               size == B.shape.size
               won == Battle!WinningSeats(B.total, size, B.mode)
               people == Battle!Humans(S)
               gain == B.payout
    <2>1. BattleOK(B, S) /\ SeatsInOrder(S, B.shape) /\ B.shape \in BattleShapes
      BY <1>1 DEF BattleInv, BattleOK, BattleRow
    <2>2. /\ gain = Battle!Payouts(S, B.total, size, B.mode) /\ B.pot = SumOf(B.total, DOMAIN S)
          /\ B.total \in [DOMAIN S -> Nat] /\ DOMAIN S # {} /\ IsFiniteSet(DOMAIN S)
          /\ DOMAIN S \subseteq Nat
      BY <2>1, SeatTypes DEF BattleOK, RolledOut
    <2>3. won = {s \in DOMAIN S : ScoresOf(B.total, size)[s] = BestOf(B.total, size, B.mode)}
      BY <2>2, WinnersAreBest
    <2>4. DOMAIN B.total = DOMAIN S /\ DOMAIN ScoresOf(B.total, size) = DOMAIN S
      BY <2>2 DEF ScoresOf
    <2>5. /\ gain \in [DOMAIN S -> Nat]
          /\ \A s \in DOMAIN S : (s \in won /\ s \in people) \/ gain[s] = 0
          /\ \A s \in people \cap won : gain[s] \in EachShare(B.total, size, B.mode)
                    ..(EachShare(B.total, size, B.mode) + Cardinality(won) - 1)
      BY <2>2, WinnersArePaid
    <2>6. EachShare(B.total, size, B.mode) = B.pot \div Cardinality(won)
      BY <2>2, <2>4 DEF EachShare
    <2>7. people \in SUBSET DOMAIN S
      BY DEF Battle!Humans
    <2>8. won \subseteq people => SumOf(gain, people) = B.pot
      BY <2>2, PotIsSpent
    <2> HIDE DEF gain, won, people
    <2>9. Battle!MapThenSumSet(LAMBDA s : gain[s], people) = SumOf(gain, people)
      <3>1. IsFiniteSet(people) /\ \A s \in people : gain[s] \in Nat
        BY <2>2, <2>5, <2>7, FS_Subset
      <3> QED BY <3>1, BattleFolds
    <2>10. /\ \A s \in people \ won : gain[s] = 0
           /\ \A s \in people \cap won : gain[s] \in (B.pot \div Battle!Cardinality(won))
                     ..(B.pot \div Battle!Cardinality(won) + Battle!Cardinality(won) - 1)
           /\ won \subseteq people => Battle!MapThenSumSet(LAMBDA s : gain[s], people) = B.pot
      <3>1. Battle!Cardinality(won) = Cardinality(won)
        BY BattleCardinality
      <3> QED BY <2>5, <2>6, <2>7, <2>8, <2>9, <3>1
    <2>11. won = {s \in DOMAIN ScoresOf(B.total, size) :
                      ScoresOf(B.total, size)[s] =
                          (IF B.mode = "crazy" THEN Battle!Min(Battle!Range(ScoresOf(B.total, size)))
                           ELSE Battle!Max(Battle!Range(ScoresOf(B.total, size))))}
      BY <2>3, <2>4 DEF BestOf
    <2> QED BY <2>10, <2>11 DEF ScoresOf, gain, people
  <1> QED BY <1>1, BattleTypeCorrect, PTL

(* A stake counts as a wager if and only if its battle was rolled.          *)
THEOREM OnlyRolledStakesCount ==
    ASSUME Battle!ConstantsOK, IsFiniteSet(Players)
    PROVE  Battle!Spec => []Battle!OnlyFinalStakesCount
  <1> DEFINE Rolled == {x \in Battles : battle[x].status = "settled"}
             All == UNION {SeatsCounted(b, seats[b]) : b \in Rolled}
  <1>1. Battle!OnlyFinalStakesCount <=> counted = All
    BY DEF Battle!OnlyFinalStakesCount, SeatsCounted
  <1>2. Battle!Init => counted = All
    <2> SUFFICES ASSUME Battle!Init PROVE counted = All
      OBVIOUS
    <2>1. Rolled = {}
      BY DEF Battle!Init, Battle!NoBattle
    <2> QED BY <2>1 DEF Battle!Init
  <1>3. BattleInv /\ counted = All /\ (ABattleTurns \/ BattleRests) => (counted = All)'
    <2>1. CASE BattleRests
      BY <2>1 DEF BattleRests, SeatsCounted
    <2>2. ASSUME BattleInv, counted = All, NEW b \in Battles, NEW B \in BattleRow, NEW S \in Seating,
                 BattleTurns(b, B, S)
          PROVE  (counted = All)'
      <3>1. /\ battle'[b] = B /\ seats'[b] = S /\ b \notin Rolled
            /\ \A c \in Battles \ {b} : battle'[c] = battle[c] /\ seats'[c] = seats[c]
        BY <2>2, OthersStay DEF BattleTurns
      <3>2. counted' = counted \cup (IF B.status = "settled" THEN SeatsCounted(b, S) ELSE {})
        BY <2>2 DEF BattleTurns
      <3>3. Rolled' = Rolled \cup (IF B.status = "settled" THEN {b} ELSE {})
        BY <3>1
      <3>4. \A c \in Rolled : SeatsCounted(c, seats'[c]) = SeatsCounted(c, seats[c])
        BY <3>1 DEF SeatsCounted
      <3>5. All' = UNION {SeatsCounted(c, seats'[c]) : c \in Rolled'}
        BY DEF SeatsCounted
      <3> HIDE DEF Rolled
      <3>6. UNION {SeatsCounted(c, seats'[c]) : c \in Rolled'}
                = All \cup (IF B.status = "settled" THEN SeatsCounted(b, S) ELSE {})
        BY <3>1, <3>3, <3>4
      <3> QED BY <2>2, <3>2, <3>5, <3>6
    <2> QED BY <2>1, <2>2 DEF ABattleTurns
  <1> HIDE DEF All
  <1>4. BattleInv /\ [Battle!Next]_Battle!vars => ABattleTurns \/ BattleRests
    BY BattleNextTurns
  <1> QED BY <1>1, <1>2, <1>3, <1>4, BattleTypeCorrect, PTL DEF Battle!Spec

-----------------------------------------------------------------------------
(* All tables                                                               *)

LEMMA AtMines ==
    /\ TablesSpec /\ table = "mines" => Spec
    /\ TablesSpec /\ ~(table = "mines") => [](~(table = "mines"))
  <1>1. TablesInit /\ table = "mines" => Init
    BY DEF TablesInit
  <1>2. [TablesNext]_tablesVars => UNCHANGED table
    BY DEF TablesNext, tablesVars
  <1>3. [TablesNext]_tablesVars /\ table = "mines" => [Next]_vars
    BY DEF TablesNext, tablesVars
  <1>4. UNCHANGED table /\ table = "mines" => (table = "mines")'
    OBVIOUS
  <1>5. UNCHANGED table /\ ~(table = "mines") => (~(table = "mines"))'
    OBVIOUS
  <1> QED BY <1>1, <1>2, <1>3, <1>4, <1>5, PTL DEF TablesSpec, Spec

LEMMA AtCoinflip ==
    /\ TablesSpec /\ table = "coinflip" => Flip!Spec
    /\ TablesSpec /\ ~(table = "coinflip") => [](~(table = "coinflip"))
  <1>1. TablesInit /\ table = "coinflip" => Flip!Init
    BY DEF TablesInit
  <1>2. [TablesNext]_tablesVars => UNCHANGED table
    BY DEF TablesNext, tablesVars
  <1>3. [TablesNext]_tablesVars /\ table = "coinflip" => [Flip!Next]_Flip!vars
    BY DEF TablesNext, tablesVars, vars, flipOnly, Flip!vars
  <1>4. UNCHANGED table /\ table = "coinflip" => (table = "coinflip")'
    OBVIOUS
  <1>5. UNCHANGED table /\ ~(table = "coinflip") => (~(table = "coinflip"))'
    OBVIOUS
  <1> QED BY <1>1, <1>2, <1>3, <1>4, <1>5, PTL DEF TablesSpec, Flip!Spec

LEMMA AtDuel ==
    /\ TablesSpec /\ table = "duel" => Duel!Spec
    /\ TablesSpec /\ ~(table = "duel") => [](~(table = "duel"))
  <1>1. TablesInit /\ table = "duel" => Duel!Init
    BY DEF TablesInit
  <1>2. [TablesNext]_tablesVars => UNCHANGED table
    BY DEF TablesNext, tablesVars
  <1>3. [TablesNext]_tablesVars /\ table = "duel" => [Duel!Next]_Duel!vars
    BY DEF TablesNext, tablesVars, vars, duelOnly, Duel!vars
  <1>4. UNCHANGED table /\ table = "duel" => (table = "duel")'
    OBVIOUS
  <1>5. UNCHANGED table /\ ~(table = "duel") => (~(table = "duel"))'
    OBVIOUS
  <1> QED BY <1>1, <1>2, <1>3, <1>4, <1>5, PTL DEF TablesSpec, Duel!Spec

LEMMA AtSeeded ==
    /\ TablesSpec /\ table = "seeded" => Seeded!Spec
    /\ TablesSpec /\ ~(table = "seeded") => [](~(table = "seeded"))
  <1>1. TablesInit /\ table = "seeded" => Seeded!Init
    BY DEF TablesInit
  <1>2. [TablesNext]_tablesVars => UNCHANGED table
    BY DEF TablesNext, tablesVars
  <1>3. [TablesNext]_tablesVars /\ table = "seeded" => [Seeded!Next]_Seeded!vars
    BY DEF TablesNext, tablesVars, vars, seededOnly, Seeded!vars, Seeded!seedVars, Seeded!sentVars
  <1>4. UNCHANGED table /\ table = "seeded" => (table = "seeded")'
    OBVIOUS
  <1>5. UNCHANGED table /\ ~(table = "seeded") => (~(table = "seeded"))'
    OBVIOUS
  <1> QED BY <1>1, <1>2, <1>3, <1>4, <1>5, PTL DEF TablesSpec, Seeded!Spec

LEMMA AtBattle ==
    /\ TablesSpec /\ table = "battle" => Battle!Spec
    /\ TablesSpec /\ ~(table = "battle") => [](~(table = "battle"))
  <1>1. TablesInit /\ table = "battle" => Battle!Init
    BY DEF TablesInit
  <1>2. [TablesNext]_tablesVars => UNCHANGED table
    BY DEF TablesNext, tablesVars
  <1>3. [TablesNext]_tablesVars /\ table = "battle" => [Battle!Next]_Battle!vars
    BY DEF TablesNext, tablesVars, vars, seatsOnly, Battle!vars
  <1>4. UNCHANGED table /\ table = "battle" => (table = "battle")'
    OBVIOUS
  <1>5. UNCHANGED table /\ ~(table = "battle") => (~(table = "battle"))'
    OBVIOUS
  <1> QED BY <1>1, <1>2, <1>3, <1>4, <1>5, PTL DEF TablesSpec, Battle!Spec

(* Wallets, stakes and fees are all the money there is, at every table.     *)
THEOREM TablesKeepTheMoney ==
    ASSUME TablesOK, IsFiniteSet(Players), IsFiniteSet(Games), IsFiniteSet(Flips),
           IsFiniteSet(Battles)
    PROVE  TablesSpec => []MoneyIsAllThere
  <1> USE DEF TablesOK
  <1>1. TablesSpec => [](table = "mines" => StakesAddUp)
    <2>1. Spec => []StakesAddUp
      BY MoneyAddsUp
    <2> QED BY <2>1, AtMines, PTL
  <1>2. TablesSpec => [](table = "coinflip" => Flip!StakesAddUp)
    <2>1. Flip!Spec => []Flip!StakesAddUp
      BY FlipMoneyAddsUp
    <2> QED BY <2>1, AtCoinflip, PTL
  <1>3. TablesSpec => [](table = "duel" => Duel!StakesAreSettledOnce)
    <2>1. Duel!Spec => []Duel!StakesAreSettledOnce
      BY DuelIsSettledOnce
    <2> QED BY <2>1, AtDuel, PTL
  <1>4. TablesSpec => [](table = "seeded" => Seeded!SettledOnce)
    <2>1. Seeded!Spec => []Seeded!SettledOnce
      BY SeededGamesSettleOnce
    <2> QED BY <2>1, AtSeeded, PTL
  <1>5. TablesSpec => [](table = "battle" => Battle!StakesAddUp)
    <2>1. Battle!Spec => []Battle!StakesAddUp
      BY BattleMoneyAddsUp
    <2> QED BY <2>1, AtBattle, PTL
  <1> QED BY <1>1, <1>2, <1>3, <1>4, <1>5, PTL DEF MoneyIsAllThere

(* What was quoted before anybody staked is paid, and pots are shared.      *)
THEOREM TablesPayByTheRules ==
    ASSUME TablesOK, IsFiniteSet(Players) PROVE TablesSpec => []PaidByTheRules
  <1> USE DEF TablesOK
  <1>1. TablesSpec => [](table = "mines" => QuotedIsPaid)
    <2>1. Spec => []QuotedIsPaid
      BY PaidAsQuoted
    <2> QED BY <2>1, AtMines, PTL
  <1>2. TablesSpec => [](table = "coinflip" => Flip!QuotedIsPaid)
    <2>1. Flip!Spec => []Flip!QuotedIsPaid
      BY FlipPaidAsQuoted
    <2> QED BY <2>1, AtCoinflip, PTL
  <1>3. TablesSpec => [](table = "battle" => Battle!PotIsShared)
    <2>1. Battle!Spec => []Battle!PotIsShared
      BY PotIsShared
    <2> QED BY <2>1, AtBattle, PTL
  <1> QED BY <1>1, <1>2, <1>3, PTL DEF PaidByTheRules

(* Volume is not to be had for nothing.                                     *)
THEOREM TablesCountWhatIsEarned ==
    ASSUME TablesOK, FeesCount, IsFiniteSet(Players), IsFiniteSet(Flips)
    PROVE  TablesSpec => []VolumeIsEarned
  <1> USE DEF TablesOK
  <1>1. TablesSpec => [](table = "mines" => VolumeCostsFees)
    <2>1. Spec => []VolumeCostsFees
      BY VolumeIsPaidFor
    <2> QED BY <2>1, AtMines, PTL
  <1>2. TablesSpec => [](table = "coinflip" => Flip!OnlyFlipsCount)
    <2>1. Flip!Spec => []Flip!OnlyFlipsCount
      BY FlippedIsWagered
    <2> QED BY <2>1, AtCoinflip, PTL
  <1>3. TablesSpec => [](table = "battle" => Battle!OnlyFinalStakesCount)
    <2>1. Battle!Spec => []Battle!OnlyFinalStakesCount
      BY OnlyRolledStakesCount
    <2> QED BY <2>1, AtBattle, PTL
  <1> QED BY <1>1, <1>2, <1>3, PTL DEF VolumeIsEarned

(* Nobody is shown the field he plays on, nor how the other has fared.      *)
THEOREM TablesHideFields == ASSUME TablesOK PROVE TablesSpec => []FieldsStayHidden
  <1> USE DEF TablesOK
  <1>1. Spec => []NothingGivenAway
    BY NothingIsGivenAway
  <1> QED BY <1>1, AtMines, PTL DEF FieldsStayHidden

(* A score that is there decides.                                           *)
THEOREM TablesKeepScores == ASSUME TablesOK PROVE TablesSpec => ScoresStand
  <1>1. UNCHANGED vars => ScoreStands
    BY DEF vars, ScoreStands
  <1>2. [ScoreStands]_vars => [table = "mines" => ScoreStands]_tablesVars
    BY <1>1
  <1>3. ~(table = "mines") => [table = "mines" => ScoreStands]_tablesVars
    OBVIOUS
  <1>4. Spec => [][ScoreStands]_vars
    BY ScoreIsFinal DEF TablesOK
  <1> QED BY <1>2, <1>3, <1>4, AtMines, PTL DEF ScoresStand

(* Only a duel whose process has failed is swept while it is played.        *)
THEOREM TablesPlayDuelsOut == ASSUME TablesOK PROVE TablesSpec => []DuelsArePlayedOut
  <1> USE DEF TablesOK
  <1>1. Duel!Spec => []Duel!OnlyStrandedExpire
    BY DuelsAreNotCutShort
  <1> QED BY <1>1, AtDuel, PTL DEF DuelsArePlayedOut

(* A seed on offer is nobody's knowledge.                                   *)
THEOREM TablesKeepSeeds == ASSUME TablesOK PROVE TablesSpec => []SeedsStaySecret
  <1> USE DEF TablesOK
  <1>1. Seeded!Spec => []Seeded!SeedsStaySecret
    BY SeedsAreSecret
  <1> QED BY <1>1, AtSeeded, PTL DEF SeedsStaySecret

(* Games follow the presses they were sent, in the order they were made.    *)
THEOREM TablesFollowPresses == ASSUME TablesOK PROVE TablesSpec => []PlayedAsPressed
  <1> USE DEF TablesOK
  <1>1. Seeded!Spec => []Seeded!PlayedAsPressed
    BY GamesFollowPresses
  <1> QED BY <1>1, AtSeeded, PTL DEF PlayedAsPressed

=============================================================================
