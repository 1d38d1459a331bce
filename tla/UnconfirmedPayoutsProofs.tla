---------------------- MODULE UnconfirmedPayoutsProofs ----------------------
(***************************************************************************)
(* What UnconfirmedPayouts guarantees for all constants: the judgement is  *)
(* right whenever the unseen money is within the tolerance; the money of a *)
(* withdrawal goes back at most once; and, where readings are timely and   *)
(* amounts can be told apart, a payout counts as paid only if its money    *)
(* left the bot and is refunded only if it did not.                        *)
(***************************************************************************)
EXTENDS UnconfirmedPayouts, FiniteSetTheorems, TLAPS

-----------------------------------------------------------------------------
(* The judgement                                                            *)

(* A tolerance is less than half of its payout.                             *)
LEMMA ToleranceIsSmall ==
    ASSUME NEW amount \in Nat \ {0}
    PROVE  /\ Tolerance(amount) \in Nat
           /\ 4 * Tolerance(amount) <= amount
  <1>1. amount \div 4 \in Nat /\ 4 * (amount \div 4) <= amount
    OBVIOUS
  <1>2. ToleranceCap \in Nat
    BY MoneyAssumption
  <1> QED BY <1>1, <1>2 DEF Tolerance

(* The windows never overlap: an exact reading that is off by no more than  *)
(* the tolerance, after everything but this payout was booked, is read as   *)
(* what happened.  For every amount, every balance and every cap.           *)
THEOREM VerdictIsRight ==
    ASSUME NEW amount \in Nat \ {0}, NEW books \in Int, NEW dust \in Int,
           Distance(dust) <= Tolerance(amount)
    PROVE  /\ Judge(books, books + dust, 1, amount) = "not_paid"
           /\ Judge(books, books + dust - amount, 1, amount) = "paid"
  <1> DEFINE t == Tolerance(amount)
  <1>1. t \in Nat /\ 4 * t <= amount
    BY ToleranceIsSmall
  <1>2. -t <= dust /\ dust <= t
    BY <1>1 DEF Distance
  <1>3. /\ (books + dust) - books = dust
        /\ (books + dust - amount) - books = dust - amount
        /\ (books + dust - amount) - books + amount = dust
    OBVIOUS
  <1>4. Distance((books + dust) - books) <= t
    BY <1>3
  <1>5. Distance((books + dust - amount) - books + amount) <= t
    BY <1>3
  <1>6. ~(Distance((books + dust - amount) - books) <= t)
    <2>1. dust - amount < -t
      BY <1>1, <1>2
    <2>2. Distance(dust - amount) > t
      BY <2>1, <1>1 DEF Distance
    <2> QED BY <2>2, <1>1, <1>3 DEF Distance
  <1>7. ~(1 # 1 \/ amount <= 0)
    OBVIOUS
  <1>8. Judge(books, books + dust, 1, amount) = "not_paid"
    BY <1>4, <1>7 DEF Judge
  <1>9. Judge(books, books + dust - amount, 1, amount) = "paid"
    BY <1>5, <1>6, <1>7 DEF Judge
  <1> QED BY <1>8, <1>9

-----------------------------------------------------------------------------
(* The parts of a step                                                      *)

IInv == TypeOK /\ RefundedOnce

(* What a step may do to the withdrawals.                                   *)
StatusKept == UNCHANGED <<status, refunds>>

LEMMA KeptKeeps ==
    ASSUME IInv, StatusKept
    PROVE  /\ status' \in [Payouts -> Statuses] /\ refunds' \in [Payouts -> Nat]
           /\ RefundedOnce'
  BY DEF IInv, TypeOK, RefundedOnce, StatusKept

LEMMA BecomesKeeps ==
    ASSUME IInv, NEW p \in Payouts, NEW s \in Statuses, Becomes(p, s),
           status[p] = "returned" <=> s = "returned"
    PROVE  /\ status' \in [Payouts -> Statuses] /\ refunds' \in [Payouts -> Nat]
           /\ RefundedOnce'
  BY DEF IInv, TypeOK, RefundedOnce, Becomes

LEMMA GiveBackKeeps ==
    ASSUME IInv, NEW p \in Payouts, GiveBack(p)
    PROVE  /\ status' \in [Payouts -> Statuses] /\ refunds' \in [Payouts -> Nat]
           /\ RefundedOnce'
  <1>1. CASE status[p] \in Closed
    BY <1>1, KeptKeeps DEF GiveBack, StatusKept
  <1>2. CASE status[p] \notin Closed
    <2>1. /\ status' = [status EXCEPT ![p] = "returned"]
          /\ refunds' = [refunds EXCEPT ![p] = @ + 1]
      BY <1>2 DEF GiveBack
    <2>2. status[p] # "returned" /\ refunds[p] = 0
      BY <1>2 DEF Closed, IInv, RefundedOnce
    <2>3. refunds' = [refunds EXCEPT ![p] = 1]
      BY <2>1, <2>2
    <2> QED BY <2>1, <2>2, <2>3 DEF IInv, TypeOK, RefundedOnce, Statuses
  <1> QED BY <1>1, <1>2

(* The books and the readings.                                              *)
BooksTyped ==
    /\ tracked \in Int /\ booked \subseteq Payouts
    /\ observed \in Readings \cup {NoReading}
    /\ said \in Readings \cup {NoReading}

LEMMA OvertakeTyped ==
    ASSUME NEW r \in Readings \cup {NoReading}
    PROVE  Overtake(r) \in Readings \cup {NoReading}
  BY DEF Overtake, Readings

LEMMA BookTyped ==
    ASSUME BooksTyped, NEW change \in Int, Book(change)
    PROVE  /\ tracked' \in Int
           /\ observed' \in Readings \cup {NoReading}
           /\ said' \in Readings \cup {NoReading}
  BY OvertakeTyped DEF BooksTyped, Book

LEMMA BookLegTyped ==
    ASSUME BooksTyped, NEW p \in Payouts, BookLeg(p)
    PROVE  BooksTyped'
  <1>1. -Amount[p] \in Int
    BY PayoutsAssumption
  <1>2. CASE p \in booked
    BY <1>2 DEF BookLeg, BooksTyped
  <1>3. CASE p \notin booked
    BY <1>1, <1>3, BookTyped DEF BookLeg, BooksTyped
  <1> QED BY <1>2, <1>3

LEMMA NoBookingTyped ==
    ASSUME BooksTyped, NoBooking
    PROVE  BooksTyped'
  BY DEF NoBooking, BooksTyped

(* A verdict names a payout and says paid or not.                           *)
LEMMA VerdictTyped ==
    ASSUME IInv, verdict # None
    PROVE  verdict \in [p : Payouts, says : {"paid", "not_paid"}]
  BY DEF IInv, TypeOK

-----------------------------------------------------------------------------
(* One lemma per group of actions                                           *)

LEMMA InitIInv == Init => IInv
  <1> SUFFICES ASSUME Init PROVE IInv
    OBVIOUS
  <1>1. RefundedOnce
    BY DEF Init, RefundedOnce
  <1>2. status \in [Payouts -> Statuses] /\ refunds \in [Payouts -> Nat]
    BY DEF Init, Statuses
  <1> QED BY <1>1, <1>2, MoneyAssumption DEF Init, IInv, TypeOK

LEMMA BotKeeps ==
    ASSUME IInv, BotNext
    PROVE  IInv'
  <1> USE DEF gatewayVars, botVars, gameVars
  <1>0. TypeOK /\ RefundedOnce
    BY DEF IInv
  <1>1. ASSUME NEW w \in Widths, ReadBalance(w) PROVE IInv'
    <2>1. w \in Nat \ {0} /\ held \in Nat
      BY <1>0, MoneyAssumption DEF TypeOK
    <2>2. held - (held % w) \in Nat
      BY <2>1
    <2>3. said' \in Readings
      BY <1>1, <2>2 DEF ReadBalance, Readings
    <2> QED BY <1>0, <1>1, <2>3 DEF ReadBalance, IInv, TypeOK, RefundedOnce
  <1>2. CASE Heartbeat
    BY <1>0, <1>2 DEF Heartbeat, IInv, TypeOK, RefundedOnce
  <1>3. CASE Report
    <2>1. bot \in BotBusy /\ bot.p \in Payouts /\ bot.outcome \in Outcomes
      BY <1>0, <1>3 DEF Report, TypeOK, Idle, BotBusy
    <2>2. bot' \in BotBusy
      BY <1>3, <2>1 DEF Report, BotBusy
    <2>3. net' \subseteq [p : Payouts, outcome : Outcomes]
      BY <1>0, <1>3, <2>1 DEF Report, TypeOK
    <2> QED BY <1>0, <1>3, <2>2, <2>3 DEF Report, IInv, TypeOK, RefundedOnce
  <1>4. CASE ReportEnds
    BY <1>0, <1>4 DEF ReportEnds, IInv, TypeOK, RefundedOnce
  <1>5. ASSUME NEW p \in Payouts, Claim(p) PROVE IInv'
    <2>1. /\ status' \in [Payouts -> Statuses] /\ refunds' \in [Payouts -> Nat]
          /\ RefundedOnce'
      BY <1>5, BecomesKeeps DEF Claim, Statuses
    <2>2. bot' \in BotBusy
      BY <1>5 DEF Claim, Idle, BotBusy, Outcomes
    <2> QED BY <1>0, <1>5, <2>1, <2>2 DEF Claim, IInv, TypeOK
  <1> QED BY <1>1, <1>2, <1>3, <1>4, <1>5 DEF BotNext

LEMMA GameKeeps ==
    ASSUME IInv, GameNext
    PROVE  IInv'
  <1> USE DEF gatewayVars, botVars, gameVars
  <1>0. TypeOK /\ RefundedOnce
    BY DEF IInv
  <1>1. CASE GamePays
    <2>1. bot \in BotBusy /\ bot.p \in Payouts
      BY <1>0, <1>1 DEF GamePays, TypeOK, Idle, BotBusy
    <2>2. bot' \in BotBusy
      BY <1>1, <2>1 DEF GamePays, BotBusy, Outcomes
    <2>3. held' \in Nat
      BY <1>0, <1>1, <2>1, PayoutsAssumption DEF GamePays, TypeOK
    <2> QED BY <1>0, <1>1, <2>1, <2>2, <2>3 DEF GamePays, IInv, TypeOK, RefundedOnce
  <1>2. CASE GameRefuses
    <2>1. bot \in BotBusy
      BY <1>0, <1>2 DEF GameRefuses, TypeOK, Idle, BotBusy
    <2>2. bot' \in BotBusy
      BY <1>2, <2>1 DEF GameRefuses, BotBusy, Outcomes
    <2> QED BY <1>0, <1>2, <2>2 DEF GameRefuses, IInv, TypeOK, RefundedOnce
  <1>3. ASSUME NEW n \in Deposits, DepositLands(n) PROVE IInv'
    <2>1. n \in Nat
      BY MoneyAssumption
    <2> QED BY <1>0, <1>3, <2>1 DEF DepositLands, IInv, TypeOK, RefundedOnce
  <1>4. ASSUME NEW n \in Gifts, GiftLands(n) PROVE IInv'
    <2>1. n \in Nat
      BY MoneyAssumption
    <2> QED BY <1>0, <1>4, <2>1, MoneyAssumption DEF GiftLands, IInv, TypeOK, RefundedOnce
  <1> QED BY <1>1, <1>2, <1>3, <1>4 DEF GameNext

(* The withdrawals keep their types and agree on who got the money back.    *)
Settled ==
    /\ status \in [Payouts -> Statuses] /\ refunds \in [Payouts -> Nat]
    /\ RefundedOnce

LEMMA GatewayKeeps ==
    ASSUME IInv, GatewayNext
    PROVE  IInv'
  <1> USE DEF gatewayVars, botVars, gameVars
  <1>0. TypeOK /\ RefundedOnce /\ BooksTyped
    BY DEF IInv, TypeOK, BooksTyped
  <1>1. ASSUME NEW m \in net, ReportArrives(m) PROVE IInv'
    <2>1. m.p \in Payouts /\ status[m.p] = "processing"
      BY <1>0, <1>1 DEF TypeOK, ReportArrives
    <2>2. net' \subseteq [p : Payouts, outcome : Outcomes]
      BY <1>0, <1>1 DEF TypeOK, ReportArrives
    <2>3. Settled' /\ BooksTyped'
      <3>1. CASE Becomes(m.p, "paid") /\ BookLeg(m.p)
        BY <1>0, <2>1, <3>1, BecomesKeeps, BookLegTyped DEF Settled, Statuses
      <3>2. CASE Becomes(m.p, "queued") /\ NoBooking
        BY <1>0, <2>1, <3>2, BecomesKeeps, NoBookingTyped DEF Settled, Statuses
      <3>3. CASE GiveBack(m.p) /\ NoBooking
        BY <1>0, <2>1, <3>3, GiveBackKeeps, NoBookingTyped DEF Settled
      <3>4. CASE Becomes(m.p, "unconfirmed") /\ NoBooking
        BY <1>0, <2>1, <3>4, BecomesKeeps, NoBookingTyped DEF Settled, Statuses
      <3>5. CASE Becomes(m.p, "review") /\ NoBooking
        BY <1>0, <2>1, <3>5, BecomesKeeps, NoBookingTyped DEF Settled, Statuses
      <3> QED BY <1>1, <3>1, <3>2, <3>3, <3>4, <3>5 DEF ReportArrives
    <2> QED BY <1>0, <1>1, <2>2, <2>3 DEF ReportArrives, IInv, TypeOK, Settled, BooksTyped
  <1>2. ASSUME NEW m \in net, LateReport(m) PROVE IInv'
    <2>1. m.p \in Payouts /\ status[m.p] \in Statuses
      BY <1>0 DEF TypeOK
    <2>2. net' \subseteq [p : Payouts, outcome : Outcomes]
      BY <1>0, <1>2 DEF TypeOK, LateReport
    <2>3. CASE m.outcome = "completed" /\ status[m.p] = "review"
      <3>1. Becomes(m.p, "paid") /\ BookLeg(m.p)
        BY <1>2, <2>3 DEF LateReport
      <3>2. Settled' /\ BooksTyped'
        BY <1>0, <2>1, <2>3, <3>1, BecomesKeeps, BookLegTyped DEF Settled, Statuses
      <3> QED BY <1>0, <1>2, <2>2, <3>2 DEF LateReport, IInv, TypeOK, Settled, BooksTyped
    <2>4. CASE ~(m.outcome = "completed" /\ status[m.p] = "review")
      <3>1. UNCHANGED <<status, refunds>> /\ NoBooking
        BY <1>2, <2>4 DEF LateReport
      <3>2. Settled' /\ BooksTyped'
        BY <1>0, <3>1, KeptKeeps, NoBookingTyped DEF Settled, StatusKept
      <3> QED BY <1>0, <1>2, <2>2, <3>2 DEF LateReport, IInv, TypeOK, Settled, BooksTyped
    <2> QED BY <2>3, <2>4
  <1>3. ASSUME NEW p \in Payouts, LeaseExpires(p) PROVE IInv'
    <2>1. Settled'
      BY <1>3, BecomesKeeps DEF LeaseExpires, Settled, Statuses
    <2> QED BY <1>0, <1>3, <2>1 DEF LeaseExpires, IInv, TypeOK, Settled
  <1>4. ASSUME NEW p \in Payouts, Resolve(p) PROVE IInv'
    <2>1. CASE Becomes(p, "paid")
      <3>1. Settled'
        BY <1>4, <2>1, BecomesKeeps DEF Resolve, Settled, Statuses
      <3> QED BY <1>0, <1>4, <3>1 DEF Resolve, IInv, TypeOK, Settled
    <2>2. CASE GiveBack(p)
      <3>1. Settled'
        BY <1>4, <2>2, GiveBackKeeps DEF Settled
      <3> QED BY <1>0, <1>4, <3>1 DEF Resolve, IInv, TypeOK, Settled
    <2> QED BY <1>4, <2>1, <2>2 DEF Resolve
  <1>5. ASSUME NEW p \in Payouts, AgesOut(p) PROVE IInv'
    BY <1>0, <1>5 DEF AgesOut, IInv, TypeOK, RefundedOnce
  <1>6. CASE DepositBooked
    <2>1. receipt \in Int
      BY <1>0 DEF TypeOK
    <2>2. /\ tracked' \in Int
          /\ observed' \in Readings \cup {NoReading}
          /\ said' \in Readings \cup {NoReading}
      BY <1>0, <1>6, <2>1, BookTyped DEF DepositBooked
    <2> QED BY <1>0, <1>6, <2>2 DEF DepositBooked, IInv, TypeOK, RefundedOnce
  <1> QED BY <1>1, <1>2, <1>3, <1>4, <1>5, <1>6 DEF GatewayNext

LEMMA SweeperKeeps ==
    ASSUME IInv, SweeperNext
    PROVE  IInv'
  <1> USE DEF gatewayVars, botVars, gameVars
  <1>0. TypeOK /\ RefundedOnce /\ BooksTyped
    BY DEF IInv, TypeOK, BooksTyped
  <1>1. ASSUME NEW p \in Payouts, Decide(p) PROVE IInv'
    <2>1. PICK v \in {"paid", "not_paid"} : verdict' = [p |-> p, says |-> v]
      BY <1>1 DEF Decide, Judge
    <2>2. verdict' \in [p : Payouts, says : {"paid", "not_paid"}]
      BY <2>1
    <2> QED BY <1>0, <1>1, <2>2 DEF Decide, IInv, TypeOK, RefundedOnce
  <1>2. CASE Correct
    <2>1. observed \in Readings
      BY <1>0, <1>2 DEF Correct, Trusted, TypeOK
    <2>2. observed.low - tracked \in Int
      BY <1>0, <2>1 DEF TypeOK, Readings
    <2>3. /\ tracked' \in Int
          /\ observed' \in Readings \cup {NoReading}
          /\ said' \in Readings \cup {NoReading}
      BY <1>0, <1>2, <2>2, BookTyped DEF Correct
    <2> QED BY <1>0, <1>2, <2>3 DEF Correct, IInv, TypeOK, RefundedOnce
  <1>3. CASE Settle
    <2>1. verdict.p \in Payouts
      BY <1>3, VerdictTyped DEF Settle
    <2>2. Settled' /\ BooksTyped'
      <3>1. CASE status[verdict.p] # "unconfirmed"
        <4>1. UNCHANGED <<status, refunds>> /\ NoBooking
          BY <1>3, <3>1 DEF Settle
        <4> QED BY <1>0, <4>1, KeptKeeps, NoBookingTyped DEF Settled, StatusKept
      <3>2. CASE status[verdict.p] = "unconfirmed" /\ verdict.says = "paid"
        <4>1. Becomes(verdict.p, "paid") /\ BookLeg(verdict.p)
          BY <1>3, <3>2 DEF Settle
        <4> QED BY <1>0, <2>1, <3>2, <4>1, BecomesKeeps, BookLegTyped DEF Settled, Statuses
      <3>3. CASE status[verdict.p] = "unconfirmed" /\ verdict.says # "paid"
        <4>1. GiveBack(verdict.p) /\ NoBooking
          BY <1>3, <3>3 DEF Settle
        <4> QED BY <1>0, <2>1, <4>1, GiveBackKeeps, NoBookingTyped DEF Settled
      <3> QED BY <3>1, <3>2, <3>3
    <2> QED BY <1>0, <1>3, <2>2 DEF Settle, IInv, TypeOK, Settled, BooksTyped
  <1> QED BY <1>1, <1>2, <1>3 DEF SweeperNext

LEMMA FaultKeeps ==
    ASSUME IInv, Fault
    PROVE  IInv'
  <1> USE DEF gatewayVars, botVars, gameVars
  <1>0. TypeOK /\ RefundedOnce
    BY DEF IInv
  <1>1. CASE BotRestarts
    BY <1>0, <1>1 DEF BotRestarts, IInv, TypeOK, RefundedOnce
  <1>2. CASE ForgetVerdict
    BY <1>0, <1>2 DEF ForgetVerdict, IInv, TypeOK, RefundedOnce
  <1>3. ASSUME NEW m \in net, LoseReport(m) PROVE IInv'
    BY <1>0, <1>3 DEF LoseReport, IInv, TypeOK, RefundedOnce
  <1> QED BY <1>1, <1>2, <1>3 DEF Fault

-----------------------------------------------------------------------------
(* The theorems                                                             *)

LEMMA InvariantHolds == Spec => []IInv
  <1>1. Init => IInv
    BY InitIInv
  <1>2. IInv /\ [Next]_vars => IInv'
    <2> SUFFICES ASSUME IInv, [Next]_vars PROVE IInv'
      OBVIOUS
    <2>1. CASE Next
      BY <2>1, BotKeeps, GameKeeps, GatewayKeeps, SweeperKeeps, FaultKeeps DEF Next
    <2>2. CASE UNCHANGED vars
      BY <2>2 DEF vars, gatewayVars, botVars, gameVars, IInv, TypeOK, RefundedOnce
    <2> QED BY <2>1, <2>2
  <1> QED BY <1>1, <1>2, PTL DEF Spec

(* Every variable keeps its type; in particular a verdict that is applied   *)
(* says "paid" or "not_paid", never "unclear".                              *)
THEOREM EvidenceTypeCorrect == Spec => []TypeOK
  BY InvariantHolds, PTL DEF IInv

(* The result, the late result, the operator and the sweeper together give  *)
(* a withdrawal's money back once, however they race.                       *)
THEOREM MoneyGoesBackOnce == Spec => []RefundedOnce
  BY InvariantHolds, PTL DEF IInv

-----------------------------------------------------------------------------
(* Why the balance tells the truth                                          *)

(* What a set of payouts comes to.                                          *)
Stack(p) == {<<p, i>> : i \in 1..Amount[p]}
Coins(S) == UNION {Stack(p) : p \in S}
Total(S) == Cardinality(Coins(S))

(* No payout looks like unseen money together with other payouts whose legs *)
(* are missing from the books: neither made, taken for not made, nor not    *)
(* made, taken for made.                                                    *)
ToldApart(most) ==
    \A p \in Payouts : \A S \in SUBSET (Payouts \ {p}) : \A g \in 0..(MaxGifts * most) :
        /\ Distance(g - Total(S) - Amount[p]) > Tolerance(Amount[p])
        /\ Distance(g - Total(S) + Amount[p]) > Tolerance(Amount[p])

(* Readings are exact and overtake nothing, and amounts can be told apart.  *)
Circumstances(most) ==
    /\ Prompt /\ Widths = {1}
    /\ IsFiniteSet(Payouts)
    /\ most \in Nat /\ \A n \in Gifts : n <= most
    /\ ToldApart(most)

(* Made, and its leg is not in the books.                                   *)
Unbooked == left \ booked

(* Its command has been sent or never will be.                              *)
Out(p) == status[p] \notin {"queued", "processing"}

(* Nothing more is going to be heard of it.                                 *)
Quiet(p) == bot.p # p /\ \A m \in net : m.p # p

BotTells ==
    bot.phase \in {"sent", "settled"} =>
        /\ status[bot.p] = "processing"
        /\ \A m \in net : m.p # bot.p
        /\ bot.phase = "sent" => bot.p \notin left
        /\ bot.phase = "settled" /\ bot.outcome = "completed" => bot.p \in left
        /\ bot.phase = "settled" /\ bot.outcome = "refused" => bot.p \notin left

NetTells ==
    /\ \A m \in net :
          /\ status[m.p] \notin {"queued", "unconfirmed"}
          /\ m.outcome = "completed" => m.p \in left
          /\ m.outcome = "refused" => m.p \notin left
    /\ \A m, n \in net : m.p = n.p => m = n

StatusTells ==
    \A p \in Payouts :
        /\ status[p] = "queued" => p \notin left
        /\ status[p] = "paid" => p \in left
        /\ status[p] = "returned" => p \notin left
        /\ p \in booked => status[p] = "paid"

Tells == BotTells /\ NetTells /\ StatusTells

(* A verdict not yet applied is true, and its payout is still missing.      *)
VerdictTells(absorbed) ==
    verdict # None =>
        /\ Out(verdict.p)
        /\ status[verdict.p] = "unconfirmed" =>
              /\ verdict.p \notin absorbed
              /\ (verdict.says = "paid") <=> (verdict.p \in left)

(* Payouts that a correction has taken into the books without a leg: no leg *)
(* will ever follow.                                                        *)
Absorbed(absorbed) ==
    /\ absorbed \subseteq Unbooked
    /\ \A p \in absorbed : Quiet(p) /\ (status[p] = "unconfirmed" => p \in aged)

(* The books are off by the receipt under way, by the unseen money and by   *)
(* the payouts that are in the books in neither way.                        *)
Balances(absorbed, unseen) ==
    held - tracked = receipt + unseen - Total(Unbooked \ absorbed)

(* What a reading that nothing has overtaken shows: some of the unseen      *)
(* money, and some of those payouts, all those among them that it was taken *)
(* after.                                                                   *)
Explained(r, absorbed, unseen) ==
    \E made \in SUBSET (Unbooked \ absorbed) : \E g \in 0..unseen :
        /\ r.low = tracked + g - Total(made)
        /\ \A p \in made : Quiet(p)
        /\ \A p \in r.after : Out(p) /\ (p \in left => p \in made \cup absorbed)

ReadingsExplained(absorbed, unseen) ==
    \A r \in {said, observed} :
        r = NoReading \/ r.overtaken \/ (r.step = 1 /\ Explained(r, absorbed, unseen))

Account(most, absorbed, unseen) ==
    /\ unseen \in Nat /\ unseen <= gifts * most
    /\ Absorbed(absorbed) /\ Balances(absorbed, unseen)
    /\ ReadingsExplained(absorbed, unseen)
    /\ VerdictTells(absorbed)

-----------------------------------------------------------------------------
(* Sums of amounts                                                          *)

LEMMA StackSize ==
    ASSUME NEW p \in Payouts
    PROVE  IsFiniteSet(Stack(p)) /\ Cardinality(Stack(p)) = Amount[p]
  <1> DEFINE nth == [i \in 1..Amount[p] |-> <<p, i>>]
  <1>1. Amount[p] \in Nat
    BY PayoutsAssumption
  <1>2. nth \in [1..Amount[p] -> Stack(p)]
    BY DEF Stack
  <1>3. \A i, j \in 1..Amount[p] : nth[i] = nth[j] => i = j
    OBVIOUS
  <1>4. \A c \in Stack(p) : \E i \in 1..Amount[p] : nth[i] = c
    BY DEF Stack
  <1> HIDE DEF nth
  <1>5. nth \in Bijection(1..Amount[p], Stack(p))
    BY <1>2, <1>3, <1>4 DEF Bijection, Injection, IsInjective, Surjection
  <1>6. IsFiniteSet(1..Amount[p]) /\ Cardinality(1..Amount[p]) = Amount[p]
    BY <1>1, FS_Interval
  <1> QED BY <1>5, <1>6, FS_Bijection DEF ExistsBijection

LEMMA CoinsAreFinite ==
    ASSUME NEW S \in SUBSET Payouts, IsFiniteSet(Payouts)
    PROVE  IsFiniteSet(Coins(S))
  <1> DEFINE Stacks == {Stack(p) : p \in S}
             stack == [p \in S |-> Stack(p)]
  <1>1. IsFiniteSet(S)
    BY FS_Subset
  <1>2. stack \in Surjection(S, Stacks)
    BY DEF Surjection
  <1>3. IsFiniteSet(Stacks)
    BY <1>1, <1>2, FS_Surjection
  <1>4. \A T \in Stacks : IsFiniteSet(T)
    BY StackSize
  <1> QED BY <1>3, <1>4, FS_UNION DEF Coins

LEMMA TotalType ==
    ASSUME NEW S \in SUBSET Payouts, IsFiniteSet(Payouts)
    PROVE  Total(S) \in Nat
  BY CoinsAreFinite, FS_CardinalityType DEF Total

LEMMA TotalOfNone == Total({}) = 0
  <1>1. Coins({}) = {}
    BY DEF Coins
  <1> QED BY <1>1, FS_EmptySet DEF Total

LEMMA TotalOfOne ==
    ASSUME NEW p \in Payouts
    PROVE  Total({p}) = Amount[p]
  <1>1. Coins({p}) = Stack(p)
    BY DEF Coins
  <1> QED BY <1>1, StackSize DEF Total

(* Sums of sets without a payout in common add up.                          *)
LEMMA TotalSplits ==
    ASSUME NEW S \in SUBSET Payouts, NEW T \in SUBSET Payouts, S \cap T = {},
           IsFiniteSet(Payouts)
    PROVE  Total(S \cup T) = Total(S) + Total(T)
  <1>1. Coins(S \cup T) = Coins(S) \cup Coins(T)
    BY DEF Coins
  <1>2. Coins(S) \cap Coins(T) = {}
    BY DEF Coins, Stack
  <1>3. IsFiniteSet(Coins(S)) /\ IsFiniteSet(Coins(T))
    BY CoinsAreFinite
  <1>4. Cardinality(Coins(S) \cup Coins(T)) =
           Cardinality(Coins(S)) + Cardinality(Coins(T)) - Cardinality({})
    BY <1>2, <1>3, FS_Union
  <1>5. Cardinality(Coins(S)) \in Nat /\ Cardinality(Coins(T)) \in Nat
    BY <1>3, FS_CardinalityType
  <1> QED BY <1>1, <1>4, <1>5, FS_EmptySet DEF Total

LEMMA TotalWith ==
    ASSUME NEW S \in SUBSET Payouts, NEW p \in Payouts, p \notin S, IsFiniteSet(Payouts)
    PROVE  Total(S \cup {p}) = Total(S) + Amount[p]
  BY TotalSplits, TotalOfOne

LEMMA TotalWithout ==
    ASSUME NEW S \in SUBSET Payouts, NEW T \in SUBSET S, IsFiniteSet(Payouts)
    PROVE  Total(S \ T) = Total(S) - Total(T)
  <1>1. (S \ T) \cup T = S /\ (S \ T) \cap T = {}
    OBVIOUS
  <1>2. Total(S) = Total(S \ T) + Total(T)
    BY <1>1, TotalSplits
  <1> QED BY <1>2, TotalType

-----------------------------------------------------------------------------
(* What steps do to the account                                             *)

(* A payout whose command went out stays so and is not made any more, and   *)
(* what is quiet stays quiet.                                               *)
Steady ==
    /\ left \subseteq left' /\ aged \subseteq aged'
    /\ \A p \in Payouts : Out(p) =>
          /\ Out(p)' /\ (p \in left' => p \in left)
          /\ status'[p] = "unconfirmed" => status[p] = "unconfirmed"
    /\ \A p \in left : Quiet(p) =>
          /\ Quiet(p)'
          /\ status'[p] = "unconfirmed" => status[p] = "unconfirmed"

(* Nothing is booked, and the readings are those there were.                *)
NothingBooked ==
    /\ UNCHANGED <<tracked, booked>>
    /\ {said', observed'} \subseteq {said, observed, NoReading}

VerdictStays == verdict' \in {verdict, None}

LEMMA AbsorbedStays ==
    ASSUME IInv, Steady, NEW absorbed, Absorbed(absorbed),
           absorbed \cap booked' = {}
    PROVE  Absorbed(absorbed)'
  BY DEF IInv, TypeOK, Steady, Absorbed, Unbooked

LEMMA VerdictStaysTrue ==
    ASSUME IInv, Steady, VerdictStays, NEW absorbed, VerdictTells(absorbed)
    PROVE  VerdictTells(absorbed)'
  <1>1. CASE verdict' = None
    BY <1>1 DEF VerdictTells
  <1>2. CASE verdict' = verdict /\ verdict # None
    <2>1. verdict.p \in Payouts /\ Out(verdict.p)
      BY <1>2, VerdictTyped DEF VerdictTells
    <2>2. /\ Out(verdict.p)'
          /\ verdict.p \in left' <=> verdict.p \in left
          /\ status'[verdict.p] = "unconfirmed" => status[verdict.p] = "unconfirmed"
      BY <1>2, <2>1 DEF Steady, Out
    <2> QED BY <1>2, <2>2 DEF VerdictTells
  <1> QED BY <1>1, <1>2 DEF VerdictStays

(* A reading that is explained stays so until something is booked.          *)
LEMMA ExplainedStays ==
    ASSUME IInv, Steady, UNCHANGED <<tracked, booked>>,
           NEW absorbed, NEW unseen \in Nat, NEW unseen2 \in Nat, unseen <= unseen2,
           NEW r \in Readings, Explained(r, absorbed, unseen)
    PROVE  Explained(r, absorbed, unseen2)'
  <1>1. PICK made \in SUBSET (Unbooked \ absorbed), g \in 0..unseen :
           /\ r.low = tracked + g - Total(made)
           /\ \A p \in made : Quiet(p)
           /\ \A p \in r.after : Out(p) /\ (p \in left => p \in made \cup absorbed)
    BY DEF Explained
  <1>2. made \in SUBSET (Unbooked' \ absorbed) /\ g \in 0..unseen2
    BY DEF Steady, Unbooked
  <1>3. r.low = tracked' + g - Total(made)
    BY <1>1
  <1>4. \A p \in made : Quiet(p)'
    BY <1>1 DEF Steady, Unbooked
  <1>5. r.after \subseteq Payouts
    BY DEF Readings
  <1>6. \A p \in r.after : Out(p)' /\ (p \in left' => p \in made \cup absorbed)
    BY <1>1, <1>5 DEF Steady
  <1> QED BY <1>2, <1>3, <1>4, <1>6 DEF Explained

LEMMA ReadingsStayExplained ==
    ASSUME IInv, Steady, NothingBooked,
           NEW absorbed, NEW unseen \in Nat, NEW unseen2 \in Nat, unseen <= unseen2,
           ReadingsExplained(absorbed, unseen)
    PROVE  ReadingsExplained(absorbed, unseen2)'
  <1> SUFFICES ASSUME NEW r \in {said', observed'}, r # NoReading, ~r.overtaken
               PROVE  r.step = 1 /\ Explained(r, absorbed, unseen2)'
    BY DEF ReadingsExplained
  <1>1. r \in {said, observed}
    BY DEF NothingBooked
  <1>2. r \in Readings
    BY <1>1 DEF IInv, TypeOK
  <1>3. r.step = 1 /\ Explained(r, absorbed, unseen)
    BY <1>1 DEF ReadingsExplained
  <1> QED BY <1>2, <1>3, ExplainedStays DEF NothingBooked

(* After a booking no reading counts.                                       *)
LEMMA BookingOvertakes ==
    ASSUME IInv, NEW change, Book(change), NEW absorbed, NEW unseen
    PROVE  ReadingsExplained(absorbed, unseen)'
  <1>1. said \in Readings \cup {NoReading} /\ observed \in Readings \cup {NoReading}
    BY DEF IInv, TypeOK
  <1>2. \A r \in Readings \cup {NoReading} : Overtake(r) = NoReading \/ Overtake(r).overtaken
    BY DEF Overtake, Readings
  <1>3. said' = Overtake(said) /\ observed' = Overtake(observed)
    BY DEF Book
  <1> QED BY <1>1, <1>2, <1>3 DEF ReadingsExplained

(* A step that books nothing and moves no money.                            *)
LEMMA CalmKeepsAccount ==
    ASSUME NEW most, IInv, Steady, NothingBooked, VerdictStays,
           UNCHANGED <<held, receipt, gifts, left>>,
           NEW absorbed, NEW unseen, Account(most, absorbed, unseen)
    PROVE  Account(most, absorbed, unseen)'
  <1>1. Absorbed(absorbed)'
    BY AbsorbedStays DEF Account, Absorbed, Unbooked, NothingBooked
  <1>2. Balances(absorbed, unseen)'
    BY DEF Account, Balances, Unbooked, NothingBooked
  <1>3. ReadingsExplained(absorbed, unseen)'
    BY ReadingsStayExplained DEF Account
  <1>4. VerdictTells(absorbed)'
    BY VerdictStaysTrue DEF Account
  <1> QED BY <1>1, <1>2, <1>3, <1>4 DEF Account

(* The leg of a payout that was made, is not in the books and was never     *)
(* absorbed.                                                                *)
LEMMA LegKeepsAccount ==
    ASSUME NEW most, Circumstances(most), IInv, Steady, VerdictStays,
           UNCHANGED <<held, receipt, gifts, left>>,
           NEW absorbed, NEW unseen, Account(most, absorbed, unseen),
           NEW p \in Unbooked, p \notin absorbed, BookLeg(p)
    PROVE  Account(most, absorbed, unseen)'
  <1> DEFINE missing == Unbooked \ absorbed
  <1>0. /\ tracked \in Int /\ held \in Int /\ receipt \in Int /\ unseen \in Int
        /\ p \in Payouts /\ Amount[p] \in Int
        /\ missing \in SUBSET Payouts /\ IsFiniteSet(Payouts)
    BY PayoutsAssumption DEF IInv, TypeOK, Account, Circumstances, Unbooked
  <1>1. Book(-Amount[p]) /\ booked' = booked \cup {p}
    BY DEF BookLeg, Unbooked
  <1>2. Absorbed(absorbed)'
    BY <1>1, AbsorbedStays DEF Account, Absorbed, Unbooked
  <1>3. Balances(absorbed, unseen)'
    <2>1. Unbooked' \ absorbed = missing \ {p}
      BY <1>1 DEF Unbooked
    <2>2. Total(missing \ {p}) = Total(missing) - Amount[p] /\ Total(missing) \in Int
      <3>1. {p} \in SUBSET missing
        OBVIOUS
      <3>2. Total(missing \ {p}) = Total(missing) - Total({p})
        BY <1>0, <3>1, TotalWithout
      <3> QED BY <1>0, <3>2, TotalOfOne, TotalType
    <2>3. tracked' = tracked - Amount[p]
      BY <1>0, <1>1 DEF Book
    <2>4. held - tracked = receipt + unseen - Total(missing)
      BY DEF Account, Balances
    <2>5. held - tracked' = receipt + unseen - Total(missing \ {p})
      BY <1>0, <2>2, <2>3, <2>4
    <2> QED BY <2>1, <2>5 DEF Balances
  <1>4. ReadingsExplained(absorbed, unseen)'
    BY <1>1, BookingOvertakes
  <1>5. VerdictTells(absorbed)'
    BY VerdictStaysTrue DEF Account
  <1> QED BY <1>2, <1>3, <1>4, <1>5 DEF Account

-----------------------------------------------------------------------------
(* One lemma per group of actions: what is told stays true                  *)

LEMMA BotStepsTell ==
    ASSUME IInv, IInv', Tells, BotNext
    PROVE  Tells' /\ Steady
  <1> USE DEF gatewayVars, botVars, gameVars
  <1>0. TypeOK /\ BotTells /\ NetTells /\ StatusTells
    BY DEF IInv, Tells
  <1>1. ASSUME NEW w \in Widths, ReadBalance(w) PROVE Tells' /\ Steady
    BY <1>0, <1>1 DEF ReadBalance, Tells, BotTells, NetTells, StatusTells, Steady, Out, Quiet
  <1>2. CASE Heartbeat
    BY <1>0, <1>2 DEF Heartbeat, Tells, BotTells, NetTells, StatusTells, Steady, Out, Quiet
  <1>3. CASE Report
    <2>1. bot.p \in Payouts /\ bot.phase = "settled" /\ bot'.p = bot.p /\ bot'.phase = "reporting"
      BY <1>0, <1>3 DEF Report, TypeOK, Idle, BotBusy
    <2>2. BotTells'
      BY <1>3, <2>1 DEF Report, BotTells
    <2>3. NetTells'
      BY <1>0, <1>3, <2>1 DEF Report, BotTells, NetTells
    <2>4. StatusTells' /\ Steady
      BY <1>0, <1>3, <2>1 DEF Report, StatusTells, Steady, Out, Quiet
    <2> QED BY <2>2, <2>3, <2>4 DEF Tells
  <1>4. CASE ReportEnds
    BY <1>0, <1>4, PayoutsAssumption
    DEF ReportEnds, TypeOK, Idle, Tells, BotTells, NetTells, StatusTells, Steady, Out, Quiet
  <1>5. ASSUME NEW p \in Payouts, Claim(p) PROVE Tells' /\ Steady
    <2>1. /\ bot'.p = p /\ bot'.phase = "sent"
          /\ status' = [status EXCEPT ![p] = "processing"] /\ status[p] = "queued"
          /\ p \notin left
      BY <1>0, <1>5 DEF Claim, Becomes, Idle, StatusTells
    <2>2. BotTells'
      BY <1>0, <1>5, <2>1 DEF Claim, TypeOK, BotTells, NetTells
    <2>3. NetTells'
      BY <1>0, <1>5, <2>1 DEF Claim, TypeOK, NetTells
    <2>4. StatusTells'
      BY <1>0, <1>5, <2>1 DEF Claim, TypeOK, StatusTells
    <2>5. Steady
      BY <1>0, <1>5, <2>1 DEF Claim, TypeOK, Steady, Out, Quiet
    <2> QED BY <2>2, <2>3, <2>4, <2>5 DEF Tells
  <1> QED BY <1>1, <1>2, <1>3, <1>4, <1>5 DEF BotNext

LEMMA GameStepsTell ==
    ASSUME IInv, IInv', Tells, GameNext
    PROVE  Tells' /\ Steady
  <1> USE DEF gatewayVars, botVars, gameVars
  <1>0. TypeOK /\ BotTells /\ NetTells /\ StatusTells
    BY DEF IInv, Tells
  <1>1. CASE GamePays
    <2>1. /\ bot.p \in Payouts /\ bot.phase = "sent" /\ bot'.p = bot.p /\ bot'.phase = "settled"
          /\ bot'.outcome # "refused" /\ left' = left \cup {bot.p}
      BY <1>0, <1>1 DEF GamePays, TypeOK, Idle, BotBusy
    <2>2. BotTells' /\ NetTells' /\ StatusTells'
      BY <1>0, <1>1, <2>1 DEF GamePays, BotTells, NetTells, StatusTells
    <2>3. Steady
      BY <1>0, <1>1, <2>1 DEF GamePays, BotTells, Steady, Out, Quiet
    <2> QED BY <2>2, <2>3 DEF Tells
  <1>2. CASE GameRefuses
    <2>1. /\ bot.p \in Payouts /\ bot.phase = "sent" /\ bot'.p = bot.p /\ bot'.phase = "settled"
          /\ bot'.outcome # "completed"
      BY <1>0, <1>2 DEF GameRefuses, TypeOK, Idle, BotBusy
    <2>2. BotTells' /\ NetTells' /\ StatusTells'
      BY <1>0, <1>2, <2>1 DEF GameRefuses, BotTells, NetTells, StatusTells
    <2>3. Steady
      BY <1>0, <1>2, <2>1 DEF GameRefuses, Steady, Out, Quiet
    <2> QED BY <2>2, <2>3 DEF Tells
  <1>3. ASSUME NEW n \in Deposits, DepositLands(n) PROVE Tells' /\ Steady
    BY <1>0, <1>3 DEF DepositLands, Tells, BotTells, NetTells, StatusTells, Steady, Out, Quiet
  <1>4. ASSUME NEW n \in Gifts, GiftLands(n) PROVE Tells' /\ Steady
    BY <1>0, <1>4 DEF GiftLands, Tells, BotTells, NetTells, StatusTells, Steady, Out, Quiet
  <1> QED BY <1>1, <1>2, <1>3, <1>4 DEF GameNext

(* A withdrawal that is not in the bot's hands takes a new status.          *)
LEMMA MoveTells ==
    ASSUME IInv, Tells, NEW p \in Payouts, NEW s \in Statuses,
           status' = [status EXCEPT ![p] = s],
           UNCHANGED <<bot, left>>, aged \subseteq aged', net' \subseteq net,
           booked' \subseteq booked \cup {p}, p \in booked' => s = "paid",
           bot.phase \in {"sent", "settled"} => bot.p # p,
           status[p] # "queued", s # "processing",
           s \in {"queued", "unconfirmed"} =>
               status[p] = "processing" /\ ~Quiet(p) /\ \A m \in net' : m.p # p,
           s = "paid" => p \in left,
           s \in {"returned", "queued"} => p \notin left
    PROVE  Tells' /\ Steady
  <1>0. TypeOK /\ BotTells /\ NetTells /\ StatusTells
    BY DEF IInv, Tells
  <1>1. status'[p] = s /\ \A q \in Payouts \ {p} : status'[q] = status[q]
    BY <1>0 DEF TypeOK
  <1>2. BotTells'
    <2>1. bot.phase \in {"sent", "settled"} => bot.p \in Payouts \ {p}
      BY <1>0 DEF TypeOK, Idle, BotBusy
    <2> QED BY <1>0, <1>1, <2>1 DEF BotTells
  <1>3. NetTells'
    <2>1. \A m \in net' : m \in net /\ m.p \in Payouts
      BY <1>0 DEF TypeOK
    <2> QED BY <1>0, <1>1, <2>1 DEF NetTells
  <1>4. StatusTells'
    BY <1>0, <1>1 DEF StatusTells
  <1>5. Steady
    <2>1. \A q \in Payouts : Quiet(q) => Quiet(q)'
      BY DEF Quiet
    <2>2. \A q \in Payouts : Out(q) =>
             Out(q)' /\ (status'[q] = "unconfirmed" => status[q] = "unconfirmed")
      BY <1>1 DEF Out
    <2>3. \A q \in left : Quiet(q) => (status'[q] = "unconfirmed" => status[q] = "unconfirmed")
      BY <1>0, <1>1 DEF TypeOK
    <2> QED BY <1>0, <2>1, <2>2, <2>3 DEF TypeOK, Steady
  <1> QED BY <1>2, <1>3, <1>4, <1>5 DEF Tells

(* No withdrawal changes.                                                   *)
LEMMA NoMoveTells ==
    ASSUME IInv, Tells, UNCHANGED <<status, bot, left, booked>>,
           aged \subseteq aged', net' \subseteq net
    PROVE  Tells' /\ Steady
  BY DEF IInv, TypeOK, Tells, BotTells, NetTells, StatusTells, Steady, Out, Quiet

(* The money goes back, unless it has already.                              *)
LEMMA GiveBackTells ==
    ASSUME IInv, Tells, NEW p \in Payouts, GiveBack(p), p \notin left, status[p] # "queued",
           UNCHANGED <<bot, left, aged, booked>>, net' \subseteq net,
           bot.phase \in {"sent", "settled"} => bot.p # p
    PROVE  Tells' /\ Steady
  <1>1. CASE status[p] \in Closed
    BY <1>1, NoMoveTells DEF GiveBack
  <1>2. CASE status[p] \notin Closed
    <2>1. p \notin booked
      BY <1>2 DEF Tells, StatusTells, Closed
    <2> QED BY <1>2, <2>1, MoveTells DEF GiveBack, Statuses
  <1> QED BY <1>1, <1>2

LEMMA BookedAfterLeg ==
    ASSUME NEW p \in Payouts, BookLeg(p)
    PROVE  booked' \subseteq booked \cup {p}
  BY DEF BookLeg

-----------------------------------------------------------------------------
(* One lemma per group of actions: the account stays                        *)

(* The books and the game are accounted for by these absorbed payouts and   *)
(* this much unseen money.                                                  *)
Stands(most, absorbed, unseen) ==
    /\ IInv /\ Tells
    /\ absorbed \in SUBSET Payouts /\ unseen \in Nat
    /\ Account(most, absorbed, unseen)

LEMMA CalmStands ==
    ASSUME NEW most, NEW absorbed, NEW unseen, Stands(most, absorbed, unseen),
           IInv', Tells', Steady, NothingBooked, VerdictStays,
           UNCHANGED <<held, receipt, gifts, left>>
    PROVE  Stands(most, absorbed, unseen)'
  BY CalmKeepsAccount DEF Stands

LEMMA LegStands ==
    ASSUME NEW most, Circumstances(most),
           NEW absorbed, NEW unseen, Stands(most, absorbed, unseen),
           IInv', Tells', Steady, VerdictStays,
           UNCHANGED <<held, receipt, gifts, left>>,
           NEW p \in Unbooked, p \notin absorbed, BookLeg(p)
    PROVE  Stands(most, absorbed, unseen)'
  BY LegKeepsAccount DEF Stands

LEMMA BotStands ==
    ASSUME NEW most, Circumstances(most),
           NEW absorbed, NEW unseen, Stands(most, absorbed, unseen),
           IInv', BotNext
    PROVE  Stands(most, absorbed, unseen)'
  <1> USE DEF gatewayVars, botVars, gameVars
  <1>0. /\ IInv /\ Tells /\ Account(most, absorbed, unseen) /\ unseen \in Nat
        /\ Tells' /\ Steady
    BY BotStepsTell DEF Stands
  <1>1. ASSUME NEW w \in Widths, ReadBalance(w) PROVE Stands(most, absorbed, unseen)'
    <2> DEFINE missing == Unbooked \ absorbed
    <2>1. w = 1 /\ net = {} /\ receipt = 0 /\ bot.phase = "idle"
      BY <1>1 DEF Circumstances, ReadBalance
    <2>2. bot.p = None
      BY <1>0, <2>1 DEF IInv, TypeOK, Idle, BotBusy
    <2>3. said' \in Readings /\ said'.step = 1 /\ said'.low = held
          /\ said'.after = {p \in Payouts : status[p] = "unconfirmed"}
      <3>1. held \in Nat /\ held - (held % 1) = held
        BY <1>0 DEF IInv, TypeOK
      <3> QED BY <1>1, <2>1, <3>1 DEF ReadBalance, Readings
    <2>4. held = tracked + unseen - Total(missing)
      <3>1. held - tracked = receipt + unseen - Total(missing)
        BY <1>0 DEF Account, Balances
      <3>2. missing \in SUBSET Payouts /\ IsFiniteSet(Payouts)
        BY <1>0 DEF IInv, TypeOK, Unbooked, Circumstances
      <3> QED BY <1>0, <2>1, <3>1, <3>2, TotalType DEF IInv, TypeOK
    <2>5. ReadingsExplained(absorbed, unseen)'
      <3> SUFFICES ASSUME NEW r \in {said', observed'}, r # NoReading, ~r.overtaken
                   PROVE  r.step = 1 /\ Explained(r, absorbed, unseen)'
        BY DEF ReadingsExplained
      <3>1. CASE r = said'
        <4>1. r.low = tracked' + unseen - Total(missing)
          BY <1>1, <2>3, <2>4, <3>1 DEF ReadBalance
        <4>2. \A p \in missing : Quiet(p)'
          BY <1>0, <1>1, <2>1, <2>2, PayoutsAssumption DEF ReadBalance, Quiet, Unbooked, IInv, TypeOK
        <4>3. \A p \in r.after : Out(p)' /\ (p \in left' => p \in missing \cup absorbed)
          BY <1>0, <1>1, <2>3, <3>1 DEF ReadBalance, Out, Unbooked, Tells, StatusTells
        <4>4. missing \in SUBSET (Unbooked' \ absorbed) /\ unseen \in 0..unseen
          BY <1>0, <1>1 DEF ReadBalance, Unbooked
        <4> HIDE DEF missing
        <4>5. Explained(r, absorbed, unseen)'
          BY <4>1, <4>2, <4>3, <4>4 DEF Explained
        <4> QED BY <2>3, <3>1, <4>5
      <3>2. CASE r = observed
        <4>1. r \in Readings /\ r.step = 1 /\ Explained(r, absorbed, unseen)
          BY <1>0, <3>2 DEF IInv, TypeOK, Account, ReadingsExplained
        <4> QED BY <1>0, <1>1, <4>1, ExplainedStays DEF ReadBalance
      <3> QED BY <1>1, <3>1, <3>2 DEF ReadBalance
    <2>6. Absorbed(absorbed)' /\ VerdictTells(absorbed)'
      BY <1>0, <1>1, AbsorbedStays, VerdictStaysTrue
      DEF ReadBalance, VerdictStays, Account, Absorbed, Unbooked
    <2>7. Balances(absorbed, unseen)'
      BY <1>0, <1>1 DEF ReadBalance, Account, Balances, Unbooked
    <2> QED BY <1>0, <1>1, <2>5, <2>6, <2>7 DEF ReadBalance, Stands, Account
  <1>2. CASE Heartbeat
    BY <1>0, <1>2, CalmStands DEF Heartbeat, NothingBooked, VerdictStays
  <1>3. CASE Report
    BY <1>0, <1>3, CalmStands DEF Report, NothingBooked, VerdictStays
  <1>4. CASE ReportEnds
    BY <1>0, <1>4, CalmStands DEF ReportEnds, NothingBooked, VerdictStays
  <1>5. ASSUME NEW p \in Payouts, Claim(p) PROVE Stands(most, absorbed, unseen)'
    BY <1>0, <1>5, CalmStands DEF Claim, NothingBooked, VerdictStays
  <1> QED BY <1>1, <1>2, <1>3, <1>4, <1>5 DEF BotNext

LEMMA GameStands ==
    ASSUME NEW most, Circumstances(most),
           NEW absorbed, NEW unseen, Stands(most, absorbed, unseen),
           IInv', GameNext
    PROVE  \E u \in Nat : Stands(most, absorbed, u)'
  <1> USE DEF gatewayVars, botVars, gameVars
  <1> DEFINE missing == Unbooked \ absorbed
  <1>0. /\ IInv /\ Tells /\ Account(most, absorbed, unseen) /\ unseen \in Nat
        /\ absorbed \in SUBSET Payouts
        /\ Tells' /\ Steady
    BY GameStepsTell DEF Stands
  <1>1. /\ tracked \in Int /\ held \in Int /\ receipt \in Int
        /\ missing \in SUBSET Payouts /\ IsFiniteSet(Payouts)
        /\ Total(missing) \in Int
    BY <1>0, TotalType DEF IInv, TypeOK, Unbooked, Circumstances
  <1>2. held - tracked = receipt + unseen - Total(missing)
    BY <1>0 DEF Account, Balances
  <1>3. CASE GamePays
    <2>1. /\ bot.p \in Payouts /\ status[bot.p] = "processing" /\ bot.p \notin left
          /\ left' = left \cup {bot.p} /\ held' = held - Amount[bot.p]
      BY <1>0, <1>3 DEF GamePays, IInv, TypeOK, Idle, BotBusy, Tells, BotTells
    <2>2. bot.p \notin booked /\ bot.p \notin absorbed /\ bot.p \notin missing
      BY <1>0, <2>1 DEF Tells, StatusTells, Account, Absorbed, Unbooked
    <2>3. Unbooked' \ absorbed = missing \cup {bot.p}
      BY <1>3, <2>1, <2>2 DEF GamePays, Unbooked
    <2>4. Total(missing \cup {bot.p}) = Total(missing) + Amount[bot.p] /\ Amount[bot.p] \in Int
      <3> HIDE DEF missing
      <3>1. Total(missing \cup {bot.p}) = Total(missing) + Amount[bot.p]
        BY <1>1, <2>1, <2>2, TotalWith
      <3> QED BY <2>1, <3>1, PayoutsAssumption
    <2>5. held' - tracked = receipt + unseen - Total(missing \cup {bot.p})
      BY <1>0, <1>1, <1>2, <2>1, <2>4
    <2>6. Balances(absorbed, unseen)'
      BY <1>3, <2>3, <2>5 DEF GamePays, Balances
    <2>7. Absorbed(absorbed)'
      BY <1>0, <1>3, AbsorbedStays DEF GamePays, Account, Absorbed, Unbooked
    <2>8. ReadingsExplained(absorbed, unseen)'
      BY <1>0, <1>3, ReadingsStayExplained DEF GamePays, Account, NothingBooked
    <2>9. VerdictTells(absorbed)'
      BY <1>0, <1>3, VerdictStaysTrue DEF GamePays, Account, VerdictStays
    <2> QED BY <1>0, <1>3, <2>6, <2>7, <2>8, <2>9 DEF GamePays, Stands, Account
  <1>4. CASE GameRefuses
    <2>1. Stands(most, absorbed, unseen)'
      BY <1>0, <1>4, CalmStands DEF GameRefuses, NothingBooked, VerdictStays
    <2> QED BY <1>0, <2>1
  <1>5. ASSUME NEW n \in Deposits, DepositLands(n)
        PROVE  \E u \in Nat : Stands(most, absorbed, u)'
    <2>1. n \in Int
      BY MoneyAssumption
    <2>2. Balances(absorbed, unseen)'
      <3>1. held' - tracked = receipt' + unseen - Total(missing)
        BY <1>0, <1>1, <1>2, <1>5, <2>1 DEF DepositLands
      <3> QED BY <1>5, <3>1 DEF DepositLands, Balances, Unbooked
    <2>3. Absorbed(absorbed)'
      BY <1>0, <1>5, AbsorbedStays DEF DepositLands, Account, Absorbed, Unbooked
    <2>4. ReadingsExplained(absorbed, unseen)'
      BY <1>0, <1>5, ReadingsStayExplained DEF DepositLands, Account, NothingBooked
    <2>5. VerdictTells(absorbed)'
      BY <1>0, <1>5, VerdictStaysTrue DEF DepositLands, Account, VerdictStays
    <2> QED BY <1>0, <1>5, <2>2, <2>3, <2>4, <2>5 DEF DepositLands, Stands, Account
  <1>6. ASSUME NEW n \in Gifts, GiftLands(n)
        PROVE  \E u \in Nat : Stands(most, absorbed, u)'
    <2>1. n \in Nat /\ n <= most /\ most \in Nat /\ gifts \in Nat
      BY <1>0, MoneyAssumption DEF Circumstances, IInv, TypeOK
    <2>2. unseen + n \in Nat /\ unseen <= unseen + n
      BY <1>0, <2>1
    <2>3. unseen + n <= gifts' * most
      <3>1. unseen <= gifts * most /\ gifts * most \in Int
        BY <1>0, <2>1 DEF Account
      <3>2. (gifts + 1) * most = gifts * most + most
        BY <2>1
      <3> QED BY <1>0, <1>6, <2>1, <3>1, <3>2 DEF GiftLands
    <2>4. Balances(absorbed, unseen + n)'
      <3>1. held' - tracked = receipt + (unseen + n) - Total(missing)
        BY <1>0, <1>1, <1>2, <1>6, <2>1 DEF GiftLands
      <3> QED BY <1>6, <3>1 DEF GiftLands, Balances, Unbooked
    <2>5. Absorbed(absorbed)'
      BY <1>0, <1>6, AbsorbedStays DEF GiftLands, Account, Absorbed, Unbooked
    <2>6. ReadingsExplained(absorbed, unseen + n)'
      BY <1>0, <1>6, <2>2, ReadingsStayExplained DEF GiftLands, Account, NothingBooked
    <2>7. VerdictTells(absorbed)'
      BY <1>0, <1>6, VerdictStaysTrue DEF GiftLands, Account, VerdictStays
    <2> QED BY <1>0, <2>2, <2>3, <2>4, <2>5, <2>6, <2>7 DEF Stands, Account
  <1> QED BY <1>3, <1>4, <1>5, <1>6 DEF GameNext

LEMMA GatewayStands ==
    ASSUME NEW most, Circumstances(most),
           NEW absorbed, NEW unseen, Stands(most, absorbed, unseen),
           IInv', GatewayNext
    PROVE  Stands(most, absorbed, unseen)'
  <1> USE DEF gatewayVars, botVars, gameVars, NothingBooked, VerdictStays
  <1>0. /\ IInv /\ Tells /\ Account(most, absorbed, unseen) /\ unseen \in Nat
        /\ TypeOK /\ BotTells /\ NetTells /\ StatusTells
        /\ absorbed \in SUBSET Payouts
    BY DEF Stands, IInv, Tells
  <1>1. ASSUME NEW m \in net PROVE  /\ m.p \in Payouts /\ ~Quiet(m.p) /\ m.p \notin absorbed
                                    /\ bot.phase \in {"sent", "settled"} => bot.p # m.p
                                    /\ \A n \in net \ {m} : n.p # m.p
                                    /\ m.outcome = "completed" => m.p \in left
                                    /\ m.outcome = "refused" => m.p \notin left
    BY <1>0 DEF TypeOK, BotTells, NetTells, Quiet, Account, Absorbed
  <1>2. ASSUME NEW m \in net, ReportArrives(m) PROVE Stands(most, absorbed, unseen)'
    <2>1. /\ net' = net \ {m} /\ status[m.p] = "processing" /\ m.p \notin booked
          /\ UNCHANGED <<aged, verdict, bot, receipt, gameVars>>
      BY <1>0, <1>1, <1>2 DEF ReportArrives, StatusTells
    <2>2. CASE m.outcome = "completed" /\ Becomes(m.p, "paid") /\ BookLeg(m.p)
      <3>1. Tells' /\ Steady
        BY <1>0, <1>1, <2>1, <2>2, MoveTells, BookedAfterLeg DEF Becomes, Statuses
      <3>2. m.p \in Unbooked /\ m.p \notin absorbed
        BY <1>1, <2>1, <2>2 DEF Unbooked
      <3> QED BY <2>1, <2>2, <3>1, <3>2, LegStands
    <2>3. CASE m.outcome = "refused" /\ Becomes(m.p, "queued") /\ NoBooking
      <3>1. Tells' /\ Steady
        BY <1>0, <1>1, <2>1, <2>3, MoveTells DEF Becomes, Statuses, NoBooking
      <3> QED BY <2>1, <2>3, <3>1, CalmStands DEF NoBooking
    <2>4. CASE m.outcome = "refused" /\ GiveBack(m.p) /\ NoBooking
      <3>1. Tells' /\ Steady
        BY <1>0, <1>1, <2>1, <2>4, GiveBackTells DEF NoBooking
      <3> QED BY <2>1, <2>4, <3>1, CalmStands DEF NoBooking
    <2>5. CASE Becomes(m.p, "unconfirmed") /\ NoBooking
      <3>1. Tells' /\ Steady
        BY <1>0, <1>1, <2>1, <2>5, MoveTells DEF Becomes, Statuses, NoBooking
      <3> QED BY <2>1, <2>5, <3>1, CalmStands DEF NoBooking
    <2>6. CASE Becomes(m.p, "review") /\ NoBooking
      <3>1. Tells' /\ Steady
        BY <1>0, <1>1, <2>1, <2>6, MoveTells DEF Becomes, Statuses, NoBooking
      <3> QED BY <2>1, <2>6, <3>1, CalmStands DEF NoBooking
    <2> QED BY <1>2, <2>2, <2>3, <2>4, <2>5, <2>6 DEF ReportArrives
  <1>3. ASSUME NEW m \in net, LateReport(m) PROVE Stands(most, absorbed, unseen)'
    <2>1. net' = net \ {m} /\ UNCHANGED <<aged, verdict, bot, receipt, gameVars>>
      BY <1>3 DEF LateReport
    <2>2. CASE m.outcome = "completed" /\ status[m.p] = "review"
      <3>1. Becomes(m.p, "paid") /\ BookLeg(m.p)
        BY <1>3, <2>2 DEF LateReport
      <3>2. Tells' /\ Steady
        BY <1>0, <1>1, <2>1, <2>2, <3>1, MoveTells, BookedAfterLeg DEF Becomes, Statuses
      <3>3. m.p \in Unbooked /\ m.p \notin absorbed
        BY <1>0, <1>1, <2>2 DEF Unbooked, StatusTells
      <3> QED BY <2>1, <3>1, <3>2, <3>3, LegStands
    <2>3. CASE ~(m.outcome = "completed" /\ status[m.p] = "review")
      <3>1. UNCHANGED <<status, refunds>> /\ NoBooking
        BY <1>3, <2>3 DEF LateReport
      <3>2. Tells' /\ Steady
        BY <1>0, <2>1, <3>1, NoMoveTells DEF NoBooking
      <3> QED BY <2>1, <3>1, <3>2, CalmStands DEF NoBooking
    <2> QED BY <2>2, <2>3
  <1>4. ASSUME NEW p \in Payouts, LeaseExpires(p) PROVE Stands(most, absorbed, unseen)'
    <2>1. p \notin booked
      BY <1>0, <1>4 DEF LeaseExpires, StatusTells
    <2>2. Tells' /\ Steady
      BY <1>0, <1>4, <2>1, MoveTells DEF LeaseExpires, Becomes, Statuses
    <2> QED BY <1>4, <2>2, CalmStands DEF LeaseExpires
  <1>5. ASSUME NEW p \in Payouts, Resolve(p) PROVE Stands(most, absorbed, unseen)'
    <2>1. p \notin booked /\ (bot.phase \in {"sent", "settled"} => bot.p # p)
      BY <1>0, <1>5 DEF Resolve, StatusTells, BotTells
    <2>2. Tells' /\ Steady
      <3>1. CASE p \in left
        BY <1>0, <1>5, <2>1, <3>1, MoveTells DEF Resolve, Becomes, Statuses
      <3>2. CASE p \notin left
        BY <1>0, <1>5, <2>1, <3>2, GiveBackTells DEF Resolve
      <3> QED BY <3>1, <3>2
    <2> QED BY <1>5, <2>2, CalmStands DEF Resolve
  <1>6. ASSUME NEW p \in Payouts, AgesOut(p) PROVE Stands(most, absorbed, unseen)'
    <2>1. Tells' /\ Steady
      BY <1>0, <1>6, NoMoveTells DEF AgesOut
    <2> QED BY <1>6, <2>1, CalmStands DEF AgesOut
  <1>7. CASE DepositBooked
    <2>1. Tells' /\ Steady
      BY <1>0, <1>7, NoMoveTells DEF DepositBooked
    <2>2. Absorbed(absorbed)'
      BY <1>0, <1>7, <2>1, AbsorbedStays DEF DepositBooked, Account, Absorbed, Unbooked
    <2>3. Balances(absorbed, unseen)'
      <3>1. Total(Unbooked \ absorbed) \in Int
        BY <1>0, TotalType DEF TypeOK, Unbooked, Circumstances
      <3>2. held - tracked = receipt + unseen - Total(Unbooked \ absorbed)
        BY <1>0 DEF Account, Balances
      <3>3. tracked' = tracked + receipt /\ receipt' = 0
        BY <1>7 DEF DepositBooked, Book
      <3>4. held - tracked' = receipt' + unseen - Total(Unbooked \ absorbed)
        BY <1>0, <3>1, <3>2, <3>3 DEF TypeOK
      <3> QED BY <1>7, <3>4 DEF DepositBooked, Balances, Unbooked
    <2>4. ReadingsExplained(absorbed, unseen)'
      BY <1>0, <1>7, BookingOvertakes DEF DepositBooked
    <2>5. VerdictTells(absorbed)'
      BY <1>0, <1>7, <2>1, VerdictStaysTrue DEF DepositBooked, Account
    <2> QED BY <1>0, <1>7, <2>1, <2>2, <2>3, <2>4, <2>5 DEF DepositBooked, Stands, Account
  <1> QED BY <1>2, <1>3, <1>4, <1>5, <1>6, <1>7 DEF GatewayNext

(* What each verdict rests on.                                              *)
LEMMA JudgeSays ==
    ASSUME NEW books, NEW low, NEW step, NEW amount
    PROVE  /\ Judge(books, low, step, amount) = "not_paid" =>
                 Distance(low - books) <= Tolerance(amount)
           /\ Judge(books, low, step, amount) = "paid" =>
                 Distance((low - books) + amount) <= Tolerance(amount)
  BY DEF Judge

LEMMA DistanceType ==
    ASSUME NEW x \in Int
    PROVE  Distance(x) \in Int
  BY DEF Distance

(* A reading that is not overtaken tells whether an open payout was made.   *)
LEMMA VerdictIsTrue ==
    ASSUME NEW most, Circumstances(most),
           NEW absorbed, NEW unseen, Stands(most, absorbed, unseen),
           NEW p \in Payouts, Decide(p)
    PROVE  /\ verdict'.p = p /\ p \notin absorbed
           /\ (verdict'.says = "paid") <=> (p \in left)
  <1>0. /\ TypeOK /\ Account(most, absorbed, unseen) /\ unseen \in Nat
        /\ absorbed \in SUBSET Payouts
    BY DEF Stands, IInv
  <1>1. /\ observed \in Readings /\ ~observed.overtaken /\ p \in observed.after
        /\ observed # NoReading /\ status[p] = "unconfirmed" /\ p \notin aged
    BY <1>0 DEF Decide, Trusted, TypeOK, OpenPayouts
  <1>2. observed.step = 1 /\ Explained(observed, absorbed, unseen) /\ p \notin absorbed
    BY <1>0, <1>1 DEF Account, ReadingsExplained, Absorbed, Readings
  <1>3. PICK made \in SUBSET (Unbooked \ absorbed), g \in 0..unseen :
           /\ observed.low = tracked + g - Total(made)
           /\ \A q \in observed.after : q \in left => q \in made \cup absorbed
    BY <1>2 DEF Explained
  <1>4. made \in SUBSET Payouts /\ IsFiniteSet(Payouts)
    BY <1>0 DEF TypeOK, Unbooked, Circumstances
  <1>5. p \in made <=> p \in left
    BY <1>1, <1>2, <1>3 DEF Unbooked
  <1>6. g \in 0..(MaxGifts * most)
    <2>1. gifts * most <= MaxGifts * most /\ gifts * most \in Nat /\ MaxGifts * most \in Nat
      <3>1. gifts \in Nat /\ most \in Nat /\ MaxGifts - gifts \in Nat /\ MaxGifts \in Nat
        BY <1>0, MoneyAssumption DEF TypeOK, Circumstances
      <3>2. MaxGifts * most = gifts * most + (MaxGifts - gifts) * most
        BY <3>1
      <3>3. gifts * most \in Nat /\ (MaxGifts - gifts) * most \in Nat
        BY <3>1
      <3> QED BY <3>2, <3>3
    <2>2. unseen <= gifts * most
      BY <1>0 DEF Account
    <2> QED BY <1>0, <2>1, <2>2
  <1> DEFINE others == made \ {p}
             rest == g - Total(others)
             t == Tolerance(Amount[p])
             v == Judge(tracked, observed.low, observed.step, Amount[p])
  <1>7. /\ Distance(rest - Amount[p]) > t
        /\ Distance(rest + Amount[p]) > t
    BY <1>4, <1>6 DEF Circumstances, ToldApart
  <1>8. Total(others) \in Int /\ Amount[p] \in Nat \ {0} /\ t \in Int /\ rest \in Int
    BY <1>4, TotalType, PayoutsAssumption, ToleranceIsSmall
  <1>9. Total(made) = IF p \in left THEN Total(others) + Amount[p] ELSE Total(others)
    <2>1. CASE p \in left
      <3>1. made = others \cup {p} /\ p \notin others
        BY <1>5, <2>1
      <3> QED BY <1>4, <2>1, <3>1, TotalWith
    <2>2. CASE p \notin left
      BY <1>5, <2>2
    <2> QED BY <2>1, <2>2
  <1>10. verdict' = [p |-> p, says |-> v] /\ v # "unclear"
    BY DEF Decide
  <1>11. CASE p \in left
    <2>1. observed.low - tracked = rest - Amount[p]
      BY <1>0, <1>3, <1>8, <1>9, <1>11 DEF TypeOK
    <2>2. v # "not_paid"
      <3>1. Distance(rest - Amount[p]) \in Int
        BY <1>8, DistanceType
      <3>2. v = "not_paid" => Distance(rest - Amount[p]) <= t
        BY <2>1, JudgeSays
      <3> QED BY <1>7, <1>8, <3>1, <3>2
    <2>3. v = "paid"
      BY <1>10, <2>2 DEF Judge
    <2> QED BY <1>2, <1>10, <1>11, <2>3
  <1>12. CASE p \notin left
    <2>1. observed.low - tracked + Amount[p] = rest + Amount[p]
      BY <1>0, <1>3, <1>8, <1>9, <1>12 DEF TypeOK
    <2>2. v # "paid"
      <3>1. Distance(rest + Amount[p]) \in Int
        BY <1>8, DistanceType
      <3>2. v = "paid" => Distance(rest + Amount[p]) <= t
        BY <2>1, JudgeSays
      <3> QED BY <1>7, <1>8, <3>1, <3>2
    <2> QED BY <1>2, <1>10, <1>12, <2>2
  <1> QED BY <1>11, <1>12

(* Correcting the books absorbs the payouts and the unseen money that the   *)
(* reading shows.                                                           *)
LEMMA CorrectStands ==
    ASSUME NEW most, Circumstances(most),
           NEW absorbed, NEW unseen, Stands(most, absorbed, unseen),
           IInv', Correct
    PROVE  \E a \in SUBSET Payouts : \E u \in Nat : Stands(most, a, u)'
  <1> USE DEF gatewayVars, botVars, gameVars
  <1>0. /\ IInv /\ TypeOK /\ Tells /\ StatusTells
        /\ Account(most, absorbed, unseen) /\ unseen \in Nat
        /\ absorbed \in SUBSET Payouts
    BY DEF Stands, IInv, Tells
  <1>1. /\ observed \in Readings /\ observed # NoReading /\ ~observed.overtaken
        /\ Book(observed.low - tracked)
        /\ UNCHANGED <<status, refunds, aged, booked, verdict, bot, net, receipt, gameVars>>
        /\ verdict = None
    BY <1>0 DEF Correct, Trusted, TypeOK
  <1>2. Explained(observed, absorbed, unseen)
    BY <1>0, <1>1 DEF Account, ReadingsExplained
  <1>3. PICK made \in SUBSET (Unbooked \ absorbed), g \in 0..unseen :
           /\ observed.low = tracked + g - Total(made)
           /\ \A q \in made : Quiet(q)
    BY <1>2 DEF Explained
  <1> DEFINE missing == Unbooked \ absorbed
             a == absorbed \cup made
             u == unseen - g
  <1>4. /\ missing \in SUBSET Payouts /\ made \in SUBSET missing /\ IsFiniteSet(Payouts)
        /\ a \in SUBSET Payouts /\ u \in Nat /\ u <= unseen
    BY <1>0 DEF TypeOK, Unbooked, Circumstances
  <1>5. Tells' /\ Steady
    BY <1>0, <1>1, NoMoveTells
  <1>6. Absorbed(a)'
    <2>1. \A q \in made : status[q] = "unconfirmed" => q \in aged
      BY <1>4 DEF Correct, OpenPayouts
    <2> QED BY <1>0, <1>1, <1>3, <2>1 DEF Account, Absorbed, Unbooked, Quiet
  <1>7. Balances(a, u)'
    <2>1. Total(missing \ made) = Total(missing) - Total(made)
      BY <1>4, TotalWithout
    <2>2. Total(missing) \in Int /\ Total(made) \in Int
      BY <1>4, TotalType
    <2>3. tracked' = tracked + g - Total(made)
      <3>1. tracked' = tracked + (observed.low - tracked) /\ observed.low \in Int
        BY <1>1 DEF Book, Readings
      <3> QED BY <1>0, <1>3, <3>1 DEF TypeOK
    <2>4. held - tracked = receipt + unseen - Total(missing)
      BY <1>0 DEF Account, Balances
    <2>5. held - tracked' = receipt + u - Total(missing \ made)
      BY <1>0, <2>1, <2>2, <2>3, <2>4 DEF TypeOK
    <2>6. Unbooked' \ a = missing \ made
      BY <1>1 DEF Unbooked
    <2> QED BY <1>1, <2>5, <2>6 DEF Balances
  <1>8. ReadingsExplained(a, u)'
    BY <1>0, <1>1, BookingOvertakes
  <1>9. VerdictTells(a)'
    BY <1>1 DEF VerdictTells
  <1>10. u <= gifts' * most
    <2>1. most \in Nat /\ gifts \in Nat /\ unseen <= gifts * most
      BY <1>0 DEF Circumstances, TypeOK, Account
    <2>2. gifts * most \in Int
      BY <2>1
    <2> QED BY <1>0, <1>1, <1>4, <2>1, <2>2
  <1> HIDE DEF a, u
  <1>11. Stands(most, a, u)'
    BY <1>0, <1>4, <1>5, <1>6, <1>7, <1>8, <1>9, <1>10 DEF Stands, Account
  <1> QED BY <1>4, <1>11

LEMMA SweeperStands ==
    ASSUME NEW most, Circumstances(most),
           NEW absorbed, NEW unseen, Stands(most, absorbed, unseen),
           IInv', SweeperNext
    PROVE  \E a \in SUBSET Payouts : \E u \in Nat : Stands(most, a, u)'
  <1> USE DEF gatewayVars, botVars, gameVars, NothingBooked, VerdictStays
  <1>0. /\ IInv /\ Tells /\ Account(most, absorbed, unseen) /\ unseen \in Nat
        /\ TypeOK /\ BotTells /\ NetTells /\ StatusTells
        /\ absorbed \in SUBSET Payouts
    BY DEF Stands, IInv, Tells
  <1>1. ASSUME NEW p \in Payouts, Decide(p) PROVE Stands(most, absorbed, unseen)'
    <2>1. Tells' /\ Steady
      BY <1>0, <1>1, NoMoveTells DEF Decide
    <2>2. VerdictTells(absorbed)'
      <3>1. status[p] = "unconfirmed"
        BY <1>1 DEF Decide, OpenPayouts
      <3>2. /\ verdict'.p = p /\ p \notin absorbed
            /\ (verdict'.says = "paid") <=> (p \in left)
        BY <1>1, VerdictIsTrue
      <3> QED BY <1>1, <3>1, <3>2 DEF Decide, VerdictTells, Out
    <2>3. Absorbed(absorbed)'
      BY <1>0, <1>1, <2>1, AbsorbedStays DEF Decide, Account, Absorbed, Unbooked
    <2>4. Balances(absorbed, unseen)'
      BY <1>0, <1>1 DEF Decide, Account, Balances, Unbooked
    <2>5. ReadingsExplained(absorbed, unseen)'
      BY <1>0, <1>1, <2>1, ReadingsStayExplained DEF Decide, Account
    <2> QED BY <1>0, <1>1, <2>1, <2>2, <2>3, <2>4, <2>5 DEF Decide, Stands, Account
  <1>2. CASE Settle
    <2>1. /\ verdict # None /\ verdict' = None /\ verdict.p \in Payouts
          /\ UNCHANGED <<aged, bot, net, receipt, gameVars>>
      BY <1>2, VerdictTyped, <1>0 DEF Settle
    <2>2. CASE status[verdict.p] # "unconfirmed"
      <3>1. UNCHANGED <<status, refunds>> /\ NoBooking
        BY <1>2, <2>2 DEF Settle
      <3>2. Tells' /\ Steady
        BY <1>0, <2>1, <3>1, NoMoveTells DEF NoBooking
      <3>3. Stands(most, absorbed, unseen)'
        BY <2>1, <3>1, <3>2, CalmStands DEF NoBooking
      <3> QED BY <1>0, <3>3
    <2>3. CASE status[verdict.p] = "unconfirmed"
      <3>1. /\ verdict.p \notin absorbed
            /\ (verdict.says = "paid") <=> (verdict.p \in left)
        BY <1>0, <2>1, <2>3 DEF Account, VerdictTells
      <3>2. verdict.p \notin booked /\ (bot.phase \in {"sent", "settled"} => bot.p # verdict.p)
        BY <1>0, <2>1, <2>3 DEF StatusTells, BotTells
      <3>3. CASE verdict.says = "paid"
        <4>1. Becomes(verdict.p, "paid") /\ BookLeg(verdict.p)
          BY <1>2, <2>3, <3>3 DEF Settle
        <4>2. Tells' /\ Steady
          BY <1>0, <2>1, <2>3, <3>1, <3>2, <3>3, <4>1, MoveTells, BookedAfterLeg DEF Becomes, Statuses
        <4>3. Stands(most, absorbed, unseen)'
          BY <2>1, <3>1, <3>2, <3>3, <4>1, <4>2, LegStands DEF Unbooked
        <4> QED BY <1>0, <4>3
      <3>4. CASE verdict.says # "paid"
        <4>1. GiveBack(verdict.p) /\ NoBooking
          BY <1>2, <2>3, <3>4 DEF Settle
        <4>2. Tells' /\ Steady
          BY <1>0, <2>1, <2>3, <3>1, <3>2, <3>4, <4>1, GiveBackTells DEF NoBooking
        <4>3. Stands(most, absorbed, unseen)'
          BY <2>1, <4>1, <4>2, CalmStands DEF NoBooking
        <4> QED BY <1>0, <4>3
      <3> QED BY <3>3, <3>4
    <2> QED BY <2>2, <2>3
  <1>3. CASE \E p \in Payouts : Decide(p)
    BY <1>0, <1>1, <1>3
  <1> QED BY <1>2, <1>3, CorrectStands DEF SweeperNext

LEMMA FaultStands ==
    ASSUME NEW most, Circumstances(most),
           NEW absorbed, NEW unseen, Stands(most, absorbed, unseen),
           IInv', Fault
    PROVE  Stands(most, absorbed, unseen)'
  <1> USE DEF gatewayVars, botVars, gameVars, NothingBooked, VerdictStays
  <1>0. IInv /\ TypeOK /\ Tells /\ BotTells /\ NetTells /\ StatusTells
    BY DEF Stands, IInv, Tells
  <1>1. CASE BotRestarts
    <2>1. receipt = 0 /\ receipt' = 0 /\ bot' = Idle
      BY <1>1 DEF BotRestarts, Circumstances
    <2>2. Tells' /\ Steady
      BY <1>0, <1>1, PayoutsAssumption
      DEF BotRestarts, TypeOK, Idle, Tells, BotTells, NetTells, StatusTells, Steady, Out, Quiet
    <2> QED BY <1>1, <2>1, <2>2, CalmStands DEF BotRestarts
  <1>2. CASE ForgetVerdict
    <2>1. Tells' /\ Steady
      BY <1>0, <1>2, NoMoveTells DEF ForgetVerdict
    <2> QED BY <1>2, <2>1, CalmStands DEF ForgetVerdict
  <1>3. ASSUME NEW m \in net, LoseReport(m) PROVE Stands(most, absorbed, unseen)'
    <2>1. Tells' /\ Steady
      BY <1>0, <1>3, NoMoveTells DEF LoseReport
    <2> QED BY <1>3, <2>1, CalmStands DEF LoseReport
  <1> QED BY <1>1, <1>2, <1>3 DEF Fault

-----------------------------------------------------------------------------
(* The theorems about the evidence                                          *)

Evidence(most) ==
    \E absorbed \in SUBSET Payouts : \E unseen \in Nat : Stands(most, absorbed, unseen)

LEMMA InitEvidence ==
    ASSUME NEW most, Circumstances(most), Init
    PROVE  Evidence(most)
  <1>1. IInv
    BY InitIInv
  <1>2. Tells
    BY DEF Init, Idle, Tells, BotTells, NetTells, StatusTells
  <1>3. Account(most, {}, 0)
    <2>1. Unbooked \ {} = {} /\ Total({}) = 0
      BY TotalOfNone DEF Init, Unbooked
    <2>2. Balances({}, 0)
      BY <2>1, MoneyAssumption DEF Init, Balances
    <2>3. ReadingsExplained({}, 0) /\ VerdictTells({}) /\ Absorbed({})
      BY DEF Init, ReadingsExplained, VerdictTells, Absorbed
    <2>4. 0 <= gifts * most
      BY DEF Init, Circumstances
    <2> QED BY <2>2, <2>3, <2>4 DEF Account
  <1> QED BY <1>1, <1>2, <1>3 DEF Evidence, Stands

LEMMA EvidenceStays ==
    ASSUME NEW most, Circumstances(most), Evidence(most), [Next]_vars
    PROVE  Evidence(most)'
  <1> USE DEF gatewayVars, botVars, gameVars
  <1>0. PICK absorbed \in SUBSET Payouts, unseen \in Nat : Stands(most, absorbed, unseen)
    BY DEF Evidence
  <1>1. IInv'
    <2>1. IInv
      BY <1>0 DEF Stands
    <2>2. CASE UNCHANGED vars
      BY <2>1, <2>2 DEF vars, IInv, TypeOK, RefundedOnce
    <2> QED BY <2>1, <2>2, BotKeeps, GameKeeps, GatewayKeeps, SweeperKeeps, FaultKeeps DEF Next
  <1>2. CASE BotNext
    BY <1>0, <1>1, <1>2, BotStands DEF Evidence
  <1>3. CASE GameNext
    BY <1>0, <1>1, <1>3, GameStands DEF Evidence
  <1>4. CASE GatewayNext
    BY <1>0, <1>1, <1>4, GatewayStands DEF Evidence
  <1>5. CASE SweeperNext
    BY <1>0, <1>1, <1>5, SweeperStands DEF Evidence
  <1>6. CASE Fault
    BY <1>0, <1>1, <1>6, FaultStands DEF Evidence
  <1>7. CASE UNCHANGED vars
    <2>1. Tells' /\ Steady
      BY <1>0, <1>7, NoMoveTells DEF vars, Stands
    <2>2. Stands(most, absorbed, unseen)'
      BY <1>0, <1>1, <1>7, <2>1, CalmStands DEF vars, NothingBooked, VerdictStays
    <2> QED BY <2>2 DEF Evidence
  <1> QED BY <1>2, <1>3, <1>4, <1>5, <1>6, <1>7 DEF Next

(* Under an exact and timely reading, and with amounts that can be told     *)
(* apart, no withdrawal is marked paid that was not: whatever is booked     *)
(* twice, late or never, and whoever decides in between.                    *)
THEOREM PaidIsReal ==
    ASSUME NEW most, Circumstances(most)
    PROVE  Spec => []PaidHasLeft
  <1>1. Init => Evidence(most)
    BY InitEvidence
  <1>2. Evidence(most) /\ [Next]_vars => Evidence(most)'
    BY EvidenceStays
  <1>3. Evidence(most) => PaidHasLeft
    BY DEF Evidence, Stands, Tells, StatusTells, PaidHasLeft
  <1> QED BY <1>1, <1>2, <1>3, PTL DEF Spec

(* And no withdrawal is refunded that was paid.                             *)
THEOREM RefundIsSafe ==
    ASSUME NEW most, Circumstances(most)
    PROVE  Spec => []ReturnedHasNotLeft
  <1>1. Init => Evidence(most)
    BY InitEvidence
  <1>2. Evidence(most) /\ [Next]_vars => Evidence(most)'
    BY EvidenceStays
  <1>3. Evidence(most) => ReturnedHasNotLeft
    BY DEF Evidence, Stands, Tells, StatusTells, ReturnedHasNotLeft
  <1> QED BY <1>1, <1>2, <1>3, PTL DEF Spec

=============================================================================
