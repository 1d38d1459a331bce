----------------------------- MODULE Blackjack -----------------------------
(***************************************************************************)
(* Blackjack: hands dealt from a sequence of cards that the committed seed *)
(* fixed, played by presses that may arrive twice, late or out of order.   *)
(* Each handler is one SERIALIZABLE transaction.                           *)
(***************************************************************************)
EXTENDS Integers, FiniteSets, FiniteSetsExt, Sequences, SequencesExt

CONSTANTS
    Keys,       \* idempotency keys
    Shoes,      \* per key, the sequences of ranks its seed may have fixed
    Stake,      \* what a hand stakes
    Opening,    \* the player's balance
    MaxPressed  \* bound: presses

ConstantsOK ==
    /\ IsFiniteSet(Keys) /\ {Stake, Opening, MaxPressed} \subseteq Nat
    /\ \A k \in Keys : Shoes[k] \subseteq Seq(1..13)

VARIABLES
    hands,      \* blackjack_hands, by key
    pressed,    \* presses sent
    balance,    \* user_wallets
    wagers,     \* what recordWager counted for each hand
    enabled     \* blackjackEnabled

vars == <<hands, pressed, balance, wagers, enabled>>

NoHand == [status |-> "none"]
IsDealt(k)  == hands[k].status # "none"
IsActive(k) == hands[k].status = "active"

Init ==
    /\ hands = [k \in Keys |-> NoHand] /\ pressed = {}
    /\ balance = Opening /\ wagers = [k \in Keys |-> 0] /\ enabled = TRUE

-----------------------------------------------------------------------------
(* The rules                                                                *)

CardValue(rank) == IF rank = 1 THEN 11 ELSE IF rank >= 10 THEN 10 ELSE rank

Aces(cards) == Cardinality({i \in DOMAIN cards : cards[i] = 1})
HighTotal(cards) == MapThenSumSet(LAMBDA i : CardValue(cards[i]), DOMAIN cards)

(* How many aces count one: no more than keep the hand from going over.     *)
LowAces(cards) == Min({n \in 0..Aces(cards) : HighTotal(cards) - 10 * n <= 21} \cup {Aces(cards)})

HandTotal(cards) == HighTotal(cards) - 10 * LowAces(cards)
IsSoft(cards)    == LowAces(cards) < Aces(cards)

IsBlackjack(cards) == Len(cards) = 2 /\ HandTotal(cards) = 21

(* SLIP: the dealer stands on every seventeen.                              *)
StandsOnSoft(cards) == HandTotal(cards) < 17

DealerShouldHit(cards) == HandTotal(cards) < 17 \/ (HandTotal(cards) = 17 /\ IsSoft(cards))

CompareHands(player, dealer) ==
    IF HandTotal(dealer) > 21 \/ HandTotal(player) > HandTotal(dealer) THEN "win"
    ELSE IF HandTotal(player) = HandTotal(dealer) THEN "push" ELSE "lose"

(* SLIP: a tie returns the stake of an undoubled hand.                      *)
PayoutOfStake(outcome, doubled) ==
    LET onTable == IF doubled THEN 2 * Stake ELSE Stake
    IN  CASE outcome = "blackjack" -> (Stake * 25000) \div 10000
          [] outcome = "win"       -> (onTable * 18000) \div 10000
          [] outcome = "push"      -> Stake
          [] OTHER                 -> 0

PayoutFor(outcome, doubled) ==
    LET onTable == IF doubled THEN 2 * Stake ELSE Stake
    IN  CASE outcome = "blackjack" -> (Stake * 25000) \div 10000
          [] outcome = "win"       -> (onTable * 18000) \div 10000
          [] outcome = "push"      -> onTable
          [] OTHER                 -> 0

-----------------------------------------------------------------------------
(* Requests                                                                 *)

Switch ==
    /\ enabled' = ~enabled
    /\ UNCHANGED <<hands, pressed, balance, wagers>>

(* settle, of a hand whose cards are final, with what else left the wallet. *)
Settle(k, hand, outcome, debited) ==
    LET pay == PayoutFor(outcome, hand.doubled)
    IN  /\ hands' = [hands EXCEPT ![k] =
                        [hand EXCEPT !.status = "settled", !.outcome = outcome, !.paid = pay]]
        /\ balance' = balance - debited + pay
        /\ wagers' = [wagers EXCEPT ![k] = @ + (IF hand.doubled THEN 2 * Stake ELSE Stake)]

(* Two cards each, in turn; a natural ends the hand on the deal.            *)
Deal(k, shoe) ==
    LET hand == [status |-> "active", shoe |-> shoe, player |-> <<shoe[1], shoe[3]>>,
                 dealer |-> <<shoe[2], shoe[4]>>, next |-> 5, doubled |-> FALSE,
                 outcome |-> "none", paid |-> 0]
        outcome == IF IsBlackjack(hand.dealer)
                   THEN IF IsBlackjack(hand.player) THEN "push" ELSE "dealer_blackjack"
                   ELSE "blackjack"
    IN  /\ ~IsDealt(k) /\ enabled /\ balance >= Stake
        /\ \A j \in Keys : ~IsActive(j)
        /\ IF IsBlackjack(hand.dealer) \/ IsBlackjack(hand.player)
           THEN Settle(k, hand, outcome, Stake)
           ELSE /\ hands' = [hands EXCEPT ![k] = hand]
                /\ balance' = balance - Stake
                /\ UNCHANGED wagers
        /\ UNCHANGED <<pressed, enabled>>

(* A press is sent with the number of cards the player was looking at.      *)
Press(k, action) ==
    /\ IsActive(k) /\ Cardinality(pressed) < MaxPressed
    /\ pressed' = pressed \cup {[key |-> k, action |-> action, count |-> Len(hands[k].player)]}
    /\ UNCHANGED <<hands, balance, wagers, enabled>>

(* SLIP: a press is taken for the hand as it is.                            *)
NotStale(p) == TRUE

(* STALE_ACTION                                                             *)
IsTimely(p) == p.count = Len(hands[p.key].player)

(* How many cards the dealer draws from a position on.                      *)
DealerStops(hand, from) ==
    {n \in 0..(Len(hand.shoe) + 1 - from) :
        ~DealerShouldHit(hand.dealer \o SubSeq(hand.shoe, from, from + n - 1))}

(* The player's card, if any, then the dealer's when the player is done.    *)
(* Sequences long enough for the dealer are a bound of the model.           *)
Act(p) ==
    LET k == p.key
        hand == hands[k]
        doubles == p.action = "double"
        draws == p.action \in {"hit", "double"}
        player == IF draws THEN Append(hand.player, hand.shoe[hand.next]) ELSE hand.player
        from == IF draws THEN hand.next + 1 ELSE hand.next
        total == HandTotal(player)
        isDone == p.action # "hit" \/ total = 21
        stops == DealerStops(hand, from)
        drawn == SubSeq(hand.shoe, from, from + Min(stops) - 1)
        played == [hand EXCEPT !.player = player, !.next = from, !.doubled = @ \/ doubles]
        closed == [played EXCEPT !.dealer = @ \o drawn, !.next = @ + Len(drawn)]
        debited == IF doubles THEN Stake ELSE 0
    IN  /\ IsActive(k) /\ IsTimely(p)
        /\ doubles => ~hand.doubled /\ Len(hand.player) = 2 /\ balance >= Stake
        /\ draws => hand.next <= Len(hand.shoe)
        /\ IF total > 21 THEN Settle(k, played, "bust", debited)
           ELSE IF isDone
           THEN /\ stops # {}
                /\ Settle(k, closed, CompareHands(player, closed.dealer), debited)
           ELSE /\ hands' = [hands EXCEPT ![k] = played]
                /\ UNCHANGED <<balance, wagers>>
        /\ UNCHANGED <<pressed, enabled>>

Next ==
    \/ Switch
    \/ \E k \in Keys :
        \/ \E shoe \in Shoes[k] : Deal(k, shoe)
        \/ \E action \in {"hit", "stand", "double"} : Press(k, action)
    \/ \E p \in pressed : Act(p)

Spec == Init /\ [][Next]_vars

-----------------------------------------------------------------------------
(* Properties                                                               *)

Dealt == {k \in Keys : IsDealt(k)}

(* The cards on the table are the committed ones, in order and each once:   *)
(* two each, the player's, then the dealer's; and every card the player     *)
(* drew was asked for by a press made when the ones before it lay there.    *)
CardsAsDealt ==
    \A k \in Dealt :
        LET hand == hands[k]
            extra == Len(hand.player) - 2
        IN  /\ hand.player = <<hand.shoe[1], hand.shoe[3]>> \o SubSeq(hand.shoe, 5, 4 + extra)
            /\ hand.dealer = <<hand.shoe[2], hand.shoe[4]>>
                                \o SubSeq(hand.shoe, 5 + extra, hand.next - 1)
            /\ \A n \in 2..(1 + extra) :
                \E p \in pressed : p.key = k /\ p.action \in {"hit", "double"} /\ p.count = n
            /\ hand.doubled => \E p \in pressed : p.key = k /\ p.action = "double" /\ p.count = 2

(* The count of a hand with every ace at one, and the best count of it.     *)
Low(cards) == MapThenSumSet(LAMBDA i : IF cards[i] >= 10 THEN 10 ELSE cards[i], DOMAIN cards)
Best(cards) ==
    IF Low(cards) <= 11 /\ (\E i \in DOMAIN cards : cards[i] = 1) THEN Low(cards) + 10 ELSE Low(cards)

(* A finished hand pays what its cards say, ties the whole of what was on   *)
(* the table, and the dealer drew neither too few cards nor one too many.   *)
PaidByItsCards ==
    \A k \in Dealt : ~IsActive(k) =>
        LET hand    == hands[k]
            onTable == IF hand.doubled THEN 2 * Stake ELSE Stake
            mine    == Best(hand.player)
            theirs  == Best(hand.dealer)
            natural(cards) == Len(cards) = 2 /\ Best(cards) = 21
        IN  /\ hand.paid =
                   IF mine > 21 THEN 0
                   ELSE IF natural(hand.player) /\ ~natural(hand.dealer) THEN (5 * Stake) \div 2
                   ELSE IF natural(hand.dealer) /\ ~natural(hand.player) THEN 0
                   ELSE IF mine = theirs THEN onTable
                   ELSE IF theirs > 21 \/ mine > theirs THEN (9 * onTable) \div 5 ELSE 0
            /\ Len(hand.dealer) > 2 => Best(Front(hand.dealer)) <= 17
            /\ hand.outcome \in {"win", "push", "lose"} /\ ~natural(hand.dealer)
                   => theirs > 17 \/ Low(hand.dealer) = 17

(* The wallet has paid what lay on the table and received what the hands    *)
(* paid, once; a hand's wager is what lay on the table.                     *)
SettledOnce ==
    LET onTable(k) == IF hands[k].doubled THEN 2 * Stake ELSE Stake
    IN  /\ balance = Opening + MapThenSumSet(LAMBDA k : hands[k].paid - onTable(k), Dealt)
        /\ \A k \in Keys : wagers[k] = IF IsDealt(k) /\ ~IsActive(k) THEN onTable(k) ELSE 0
=============================================================================
