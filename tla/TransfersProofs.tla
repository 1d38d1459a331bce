--------------------------- MODULE TransfersProofs ---------------------------
(***************************************************************************)
(* Proofs about Transfers, for any number of withdrawals, bots and moves.  *)
(*                                                                         *)
(* The release between vault and teller: the gateway's transactions are    *)
(* functions of the database, so the proofs first say what each does to    *)
(* the withdrawal it is for and that it leaves the others alone (Touches,  *)
(* Completes, SentAgain, GivenUp), and then never look into one again.     *)
(* The sweep at a claim takes every lease that has run out, one after      *)
(* another: what one of its steps keeps, the sweep keeps (SweepKeeps, by   *)
(* induction).                                                             *)
(*                                                                         *)
(* The teller's float: what is unbooked on one side is unbooked on the     *)
(* other (FloatInv).  The node pool: the sum of what is on its way to a    *)
(* node is kept account of step by step (PoolInv), and a withdrawal's row  *)
(* agrees with the one job there is for it (PoolRows).                     *)
(*                                                                         *)
(* Last, what a scene of its own keeps is kept among all of them.          *)
(***************************************************************************)
EXTENDS Transfers, Sums, SequenceTheorems, FiniteSetTheorems, WellFoundedInduction, TLAPS

USE MaxAttemptsAssumption, NoneIsNoToken DEF MaxAttemptsAssumption, NoneIsNoToken

-----------------------------------------------------------------------------
(* Induction                                                                *)

(* Induction, on a set instead of a predicate.                              *)
LEMMA UpTo ==
    ASSUME NEW B, NEW n \in Nat, 0 \in B, \A k \in 0..(n - 1) : k \in B => k + 1 \in B
    PROVE  \A k \in 0..n : k \in B
<1> DEFINE Bad == {k \in 0..n : k \notin B}
<1>1. SUFFICES ASSUME Bad # {} PROVE FALSE
  OBVIOUS
<1>2. PICK k \in Bad : \A j \in Bad : k <= j
  <2>1. Bad \in SUBSET Nat
    OBVIOUS
  <2>2. QED
    BY <1>1, <2>1, LeastExists
<1>3. k # 0 /\ k - 1 \in 0..(n - 1)
  OBVIOUS
<1>4. k - 1 \in B
  BY <1>2, <1>3
<1>5. QED
  BY <1>2, <1>3, <1>4

(* A function whose every value is a step from the one before exists.       *)
Steps(n, D) == [(1..n) \X D -> D]
Stepwise(f, d, step, n, D) ==
    /\ f \in [0..n -> D] /\ f[0] = d
    /\ \A k \in 1..n : f[k] = step[<<k, f[k - 1]>>]

(* Such a function exists, by induction on its length.                      *)
LEMMA StepwiseFunction ==
    ASSUME NEW D, NEW d \in D, NEW n \in Nat, NEW step \in Steps(n, D)
    PROVE  \E f : Stepwise(f, d, step, n, D)
<1> DEFINE Upto(m, f) == f[0] = d /\ \A k \in 1..m : f[k] = step[<<k, f[k - 1]>>]
           B == {m \in 0..n : \E f \in [0..m -> D] : Upto(m, f)}
<1>1. 0 \in B
  <2> DEFINE f == [k \in 0..0 |-> d]
  <2>1. f \in [0..0 -> D] /\ Upto(0, f) /\ 0 \in 0..n
    OBVIOUS
  <2> HIDE DEF f, Upto
  <2>2. QED
    BY <2>1
<1>2. ASSUME NEW m \in 0..(n - 1), m \in B
      PROVE  m + 1 \in B
  <2>1. PICK f \in [0..m -> D] : Upto(m, f)
    BY <1>2
  <2> DEFINE g == [k \in 0..(m + 1) |-> IF k = m + 1 THEN step[<<k, f[m]>>] ELSE f[k]]
  <2>2. g \in [0..(m + 1) -> D]
    BY DEF Steps
  <2>3. ASSUME NEW k \in 1..(m + 1)
        PROVE  g[k] = step[<<k, g[k - 1]>>]
    <3>1. CASE k = m + 1
      <4>1. g[k] = step[<<k, f[m]>>] /\ m \in 0..(m + 1) /\ m # m + 1 /\ k - 1 = m
        BY <3>1
      <4>2. g[m] = f[m]
        BY <4>1
      <4>3. QED
        BY <4>1, <4>2
    <3>2. CASE k # m + 1
      <4>1. k \in 1..m /\ g[k] = f[k] /\ g[k - 1] = f[k - 1]
        BY <3>2
      <4>2. QED
        BY <2>1, <4>1
    <3>3. QED
      BY <3>1, <3>2
  <2>4. g[0] = d
    BY <2>1
  <2>5. m + 1 \in 0..n
    OBVIOUS
  <2> HIDE DEF g
  <2>6. QED
    BY <2>2, <2>3, <2>4, <2>5
<1>3. n \in B
  <2>1. n - 1 + 1 = n /\ n \in 0..n
    OBVIOUS
  <2> HIDE DEF B
  <2>2. \A k \in 0..n : k \in B
    BY <1>1, <1>2, UpTo
  <2>3. QED
    BY <2>1, <2>2
<1>4. PICK f \in [0..n -> D] : Upto(n, f)
  BY <1>3
<1>5. QED
  BY <1>4 DEF Stepwise
-----------------------------------------------------------------------------
(* What the transactions do                                                 *)

(* What the database is.                                                    *)
Dbs == [withdrawal  : [Withdrawals -> [status : WithdrawalStatuses, err : JobErrors]],
        job         : [Withdrawals -> JobRows],
        payout      : [Withdrawals -> PayoutStatuses],
        receipts    : Seq(Receipts),
        booked      : SUBSET Withdrawals,
        refunds     : [Withdrawals -> Nat],
        quarantined : BOOLEAN]

(* A transaction for w changes nothing of another withdrawal, ...           *)
OthersStand(d, e, w) ==
    /\ \A v \in Withdrawals : v # w =>
          /\ e.job[v] = d.job[v] /\ e.withdrawal[v] = d.withdrawal[v]
          /\ e.payout[v] = d.payout[v]
    /\ e.refunds = d.refunds

(* ... and no receipt but one of w's amount.                                *)
ReceiptsStand(d, e, w) ==
    /\ DOMAIN e.receipts = DOMAIN d.receipts
    /\ \A j \in DOMAIN d.receipts :
          /\ e.receipts[j].display = d.receipts[j].display
          /\ e.receipts[j].after = d.receipts[j].after
          /\ e.receipts[j].settles = d.receipts[j].settles
             \/ d.receipts[j].display = Display[w]

(* The release is done: it is booked, and the payout queued for a           *)
(* withdrawal that waits, or looked lost.                                   *)
Completes(d, e, w) ==
    /\ e.job[w].status = "completed" /\ e.booked = d.booked \cup {w}
    /\ \/ /\ d.withdrawal[w].status # "awaiting_vault"
          /\ e.withdrawal[w] = d.withdrawal[w] /\ e.payout[w] = d.payout[w]
       \/ /\ d.withdrawal[w].status \in {"awaiting_vault", "manual_review"}
          /\ e.withdrawal[w].status = "queued"
          /\ e.payout[w] = IF d.payout[w] = "none" THEN "queued" ELSE d.payout[w]

(* The release will be sent again.                                          *)
SentAgain(d, e, w) ==
    /\ e.job[w].status = "queued" /\ e.booked = d.booked /\ e.payout = d.payout
    /\ e.withdrawal[w].status = d.withdrawal[w].status

(* The release is given up, and its withdrawal put before an operator.      *)
GivenUp(d, e, w) ==
    /\ e.job[w].status = "dead_letter" /\ e.booked = d.booked /\ e.payout = d.payout
    /\ IF d.withdrawal[w].status = "awaiting_vault"
       THEN e.withdrawal[w].status = "manual_review"
       ELSE e.withdrawal[w] = d.withdrawal[w]

Touches(d, e, w) == e \in Dbs /\ OthersStand(d, e, w) /\ ReceiptsStand(d, e, w)

(* queueWithdrawalPayoutAfterRelease acts on a withdrawal that waits.       *)
LEMMA QueuePayoutDoes ==
    ASSUME NEW d \in Dbs, NEW w \in Withdrawals
    PROVE  LET e == QueuePayoutAfterRelease(d, w) IN
           /\ Touches(d, e, w) /\ e.receipts = d.receipts
           /\ e.job = d.job /\ e.booked = d.booked
           /\ IF d.withdrawal[w].status = "awaiting_vault"
              THEN /\ e.withdrawal[w].status = "queued"
                   /\ e.payout[w] = IF d.payout[w] = "none" THEN "queued" ELSE d.payout[w]
              ELSE e = d
<1> DEFINE e == QueuePayoutAfterRelease(d, w)
           row == [status |-> "queued", err |-> "none"]
           pay == IF d.payout[w] = "none" THEN "queued" ELSE d.payout[w]
<1>1. CASE d.withdrawal[w].status # "awaiting_vault"
  BY <1>1 DEF QueuePayoutAfterRelease, Touches, OthersStand, ReceiptsStand
<1>2. CASE d.withdrawal[w].status = "awaiting_vault"
  <2>1. e = [d EXCEPT !.withdrawal = [d.withdrawal EXCEPT ![w] = row],
                      !.payout = [d.payout EXCEPT ![w] = pay]]
    BY <1>2 DEF QueuePayoutAfterRelease, Dbs
  <2>2. /\ [d.withdrawal EXCEPT ![w] = row]
              \in [Withdrawals -> [status : WithdrawalStatuses, err : JobErrors]]
        /\ [d.payout EXCEPT ![w] = pay] \in [Withdrawals -> PayoutStatuses]
    BY DEF Dbs, WithdrawalStatuses, JobErrors, PayoutStatuses
  <2>3. /\ e.withdrawal = [d.withdrawal EXCEPT ![w] = row]
        /\ e.payout = [d.payout EXCEPT ![w] = pay]
        /\ e.job = d.job /\ e.booked = d.booked /\ e.receipts = d.receipts
        /\ e.refunds = d.refunds /\ e.quarantined = d.quarantined
    BY <2>1 DEF Dbs
  <2>4. e \in Dbs
    BY <2>1, <2>2 DEF Dbs
  <2>5. /\ d.withdrawal \in [Withdrawals -> [status : WithdrawalStatuses, err : JobErrors]]
        /\ d.payout \in [Withdrawals -> PayoutStatuses]
    BY DEF Dbs
  <2>6. /\ e.withdrawal[w].status = "queued" /\ e.payout[w] = pay
        /\ OthersStand(d, e, w) /\ ReceiptsStand(d, e, w)
    BY <2>3, <2>5 DEF OthersStand, ReceiptsStand
  <2>7. QED
    BY <1>2, <2>3, <2>4, <2>6 DEF Touches
<1>3. QED
  BY <1>1, <1>2

(* A release that only looked lost makes its withdrawal wait again.         *)
LEMMA BackFromReviewDoes ==
    ASSUME NEW d \in Dbs, NEW w \in Withdrawals
    PROVE  LET e == BackFromReview(d, w) IN
           /\ Touches(d, e, w) /\ e.receipts = d.receipts
           /\ e.job = d.job /\ e.booked = d.booked /\ e.payout = d.payout
           /\ e.withdrawal[w] = d.withdrawal[w]
              \/ /\ d.withdrawal[w].status = "manual_review"
                 /\ e.withdrawal[w].status = "awaiting_vault"
<1> DEFINE e == BackFromReview(d, w)
           row == [status |-> "awaiting_vault", err |-> "none"]
<1>1. CASE e = d
  BY <1>1 DEF Touches, OthersStand, ReceiptsStand
<1>2. CASE d.withdrawal[w].status = "manual_review" /\ d.withdrawal[w].err \in LooksLost
  <2>1. e = [d EXCEPT !.withdrawal = [d.withdrawal EXCEPT ![w] = row]]
    BY <1>2 DEF BackFromReview, Dbs
  <2>2. [d.withdrawal EXCEPT ![w] = row]
           \in [Withdrawals -> [status : WithdrawalStatuses, err : JobErrors]]
    BY DEF Dbs, WithdrawalStatuses, JobErrors
  <2>3. /\ e.withdrawal = [d.withdrawal EXCEPT ![w] = row]
        /\ e.payout = d.payout
        /\ e.job = d.job /\ e.booked = d.booked /\ e.receipts = d.receipts
        /\ e.refunds = d.refunds /\ e.quarantined = d.quarantined
    BY <2>1 DEF Dbs
  <2>4. e \in Dbs
    BY <2>1, <2>2 DEF Dbs
  <2>5. /\ d.withdrawal \in [Withdrawals -> [status : WithdrawalStatuses, err : JobErrors]]
        /\ e.withdrawal[w] = row
        /\ OthersStand(d, e, w) /\ ReceiptsStand(d, e, w)
    BY <2>3 DEF Dbs, OthersStand, ReceiptsStand
  <2>6. QED
    BY <1>2, <2>3, <2>4, <2>5 DEF Touches
<1>3. QED
  BY <1>1, <1>2 DEF BackFromReview

(* Booking a release changes nothing but the books.                         *)
LEMMA BookDoes ==
    ASSUME NEW d \in Dbs, NEW w \in Withdrawals
    PROVE  LET e == BookInternalTransfer(d, w) IN
           /\ Touches(d, e, w) /\ e.receipts = d.receipts
           /\ e.job = d.job /\ e.booked = d.booked \cup {w}
           /\ e.withdrawal = d.withdrawal /\ e.payout = d.payout
<1> DEFINE e == BookInternalTransfer(d, w)
<1>1. e \in Dbs
  BY DEF BookInternalTransfer, Dbs
<1>2. /\ e.receipts = d.receipts /\ e.job = d.job /\ e.booked = d.booked \cup {w}
      /\ e.withdrawal = d.withdrawal /\ e.payout = d.payout /\ e.refunds = d.refunds
  BY DEF BookInternalTransfer, Dbs
<1>3. QED
  BY <1>1, <1>2 DEF Touches, OthersStand, ReceiptsStand

(* Each statement on a row of bot_jobs leaves a row, with this status.      *)
StatementsLeaveRows(j, code) ==
    /\ Complete(j) \in JobRows /\ Complete(j).status = "completed"
    /\ CompleteLate(j) \in JobRows /\ CompleteLate(j).status = "completed"
    /\ Requeue(j, code) \in JobRows /\ Requeue(j, code).status = "queued"
    /\ RequeueForFunds(j) \in JobRows /\ RequeueForFunds(j).status = "queued"
    /\ DeadLetter(j, code) \in JobRows /\ DeadLetter(j, code).status = "dead_letter"
    /\ ExpireLease(j) \in JobRows /\ ExpireLease(j).status = "dead_letter"
    /\ [j EXCEPT !.lapsed = TRUE] \in JobRows /\ [j EXCEPT !.lapsed = TRUE].status = j.status
    /\ [j EXCEPT !.avail = "due"] \in JobRows /\ [j EXCEPT !.avail = "due"].status = j.status

(* Each of these statements leaves a row of bot_jobs.                       *)
LEMMA JobRowsAfter ==
    ASSUME NEW j \in JobRows, NEW code \in JobErrors
    PROVE  StatementsLeaveRows(j, code)
<1>1. Complete(j) \in JobRows /\ Complete(j).status = "completed"
  BY DEF Complete, JobRows, JobStatuses
<1>2. CompleteLate(j) \in JobRows /\ CompleteLate(j).status = "completed"
  BY DEF CompleteLate, JobRows, JobStatuses, JobErrors
<1>3. Requeue(j, code) \in JobRows /\ Requeue(j, code).status = "queued"
  BY DEF Requeue, JobRows, JobStatuses, Availability
<1>4. RequeueForFunds(j) \in JobRows /\ RequeueForFunds(j).status = "queued"
  <2>1. j.attempts \in 0..MaxAttempts
    BY DEF JobRows
  <2>2. (IF j.attempts > 0 THEN j.attempts - 1 ELSE 0) \in 0..MaxAttempts
    BY <2>1
  <2>3. QED
    BY <2>2 DEF RequeueForFunds, JobRows, JobStatuses, Availability, JobErrors
<1>5. DeadLetter(j, code) \in JobRows /\ DeadLetter(j, code).status = "dead_letter"
  BY DEF DeadLetter, JobRows, JobStatuses
<1>6. ExpireLease(j) \in JobRows /\ ExpireLease(j).status = "dead_letter"
  BY DEF ExpireLease, JobRows, JobStatuses, JobErrors
<1>7. [j EXCEPT !.lapsed = TRUE] \in JobRows /\ [j EXCEPT !.lapsed = TRUE].status = j.status
  BY DEF JobRows
<1>8. [j EXCEPT !.avail = "due"] \in JobRows /\ [j EXCEPT !.avail = "due"].status = j.status
  BY DEF JobRows, Availability
<1>9. QED
  BY <1>1, <1>2, <1>3, <1>4, <1>5, <1>6, <1>7, <1>8 DEF StatementsLeaveRows

(* A row of one job is replaced.                                            *)
LEMMA JobChanges ==
    ASSUME NEW d \in Dbs, NEW w \in Withdrawals, NEW j \in JobRows
    PROVE  LET e == [d EXCEPT !.job[w] = j] IN
           /\ Touches(d, e, w) /\ e.receipts = d.receipts
           /\ e.job = [d.job EXCEPT ![w] = j] /\ e.job[w] = j
           /\ e.booked = d.booked /\ e.withdrawal = d.withdrawal /\ e.payout = d.payout
           /\ e.quarantined = d.quarantined
<1> DEFINE e == [d EXCEPT !.job[w] = j]
<1>1. d.job \in [Withdrawals -> JobRows]
  BY DEF Dbs
<1>2. e = [d EXCEPT !.job = [d.job EXCEPT ![w] = j]]
  BY DEF Dbs
<1>3. /\ e.job = [d.job EXCEPT ![w] = j] /\ e.receipts = d.receipts /\ e.booked = d.booked
      /\ e.withdrawal = d.withdrawal /\ e.payout = d.payout
      /\ e.refunds = d.refunds /\ e.quarantined = d.quarantined
  BY <1>2 DEF Dbs
<1>4. e \in Dbs
  BY <1>1, <1>2 DEF Dbs
<1>5. QED
  BY <1>1, <1>3, <1>4 DEF Touches, OthersStand, ReceiptsStand

(* One transaction after another.                                           *)
LEMMA TouchesTwice ==
    ASSUME NEW d \in Dbs, NEW w \in Withdrawals, NEW e, NEW f,
           Touches(d, e, w), Touches(e, f, w)
    PROVE  Touches(d, f, w)
<1>1. f \in Dbs /\ OthersStand(d, f, w)
  BY DEF Touches, OthersStand
<1>2. ReceiptsStand(d, f, w)
  BY DEF Touches, ReceiptsStand
<1>3. QED
  BY <1>1, <1>2 DEF Touches

(* The oldest of several.                                                   *)
LEMMA LeastIsOne ==
    ASSUME NEW S \in SUBSET Nat, S # {}
    PROVE  Least(S) \in S
BY LeastExists DEF Least

(* completeRelease, of a receipt of the release's amount.                   *)
LEMMA CompleteReleaseDoes ==
    ASSUME NEW d \in Dbs, NEW w \in Withdrawals, NEW i \in DOMAIN d.receipts,
           d.receipts[i].display = Display[w]
    PROVE  LET e == CompleteRelease(d, w, i) IN Touches(d, e, w) /\ Completes(d, e, w)
<1> DEFINE row   == CompleteLate(d.job[w])
           paper == [d.receipts[i] EXCEPT !.settles = w]
           done  == [d EXCEPT !.job[w] = CompleteLate(@), !.receipts[i].settles = w]
           book  == BookInternalTransfer(done, w)
           back  == BackFromReview(book, w)
           e     == QueuePayoutAfterRelease(back, w)
<1>1. /\ d.job \in [Withdrawals -> JobRows] /\ d.receipts \in Seq(Receipts)
      /\ i \in 1..Len(d.receipts)
  BY LenProperties DEF Dbs
<1>2. row \in JobRows /\ row.status = "completed"
  <2>1. d.job[w] \in JobRows /\ "none" \in JobErrors
    BY <1>1 DEF JobErrors
  <2>2. QED
    BY <2>1, JobRowsAfter DEF StatementsLeaveRows
<1>3. paper \in Receipts /\ paper.display = d.receipts[i].display /\ paper.after = d.receipts[i].after
  <2>1. d.receipts[i] \in Receipts
    BY <1>1, ElementOfSeq
  <2>2. QED
    BY <2>1 DEF Receipts
<1>4. done = [d EXCEPT !.job = [d.job EXCEPT ![w] = row],
                       !.receipts = [d.receipts EXCEPT ![i] = paper]]
  BY DEF Dbs
<1>5. /\ [d.receipts EXCEPT ![i] = paper] \in Seq(Receipts)
      /\ DOMAIN [d.receipts EXCEPT ![i] = paper] = DOMAIN d.receipts
      /\ [d.job EXCEPT ![w] = row] \in [Withdrawals -> JobRows]
  BY <1>1, <1>2, <1>3, ExceptSeq
<1>6. /\ done.job = [d.job EXCEPT ![w] = row]
      /\ done.receipts = [d.receipts EXCEPT ![i] = paper]
      /\ done.booked = d.booked /\ done.withdrawal = d.withdrawal
      /\ done.payout = d.payout /\ done.refunds = d.refunds
  BY <1>4 DEF Dbs
<1>7. done \in Dbs
  BY <1>4, <1>5 DEF Dbs
<1>8. Touches(d, done, w)
  <2>1. OthersStand(d, done, w)
    BY <1>1, <1>6 DEF OthersStand
  <2>2. ReceiptsStand(d, done, w)
    BY <1>3, <1>5, <1>6 DEF ReceiptsStand
  <2>3. QED
    BY <1>7, <2>1, <2>2 DEF Touches
<1>9. /\ Touches(done, book, w) /\ book.job = done.job /\ book.booked = d.booked \cup {w}
      /\ book.withdrawal = d.withdrawal /\ book.payout = d.payout
  <2> HIDE DEF done
  <2> QED
    BY <1>6, <1>7, BookDoes
<1>10. /\ Touches(book, back, w) /\ back.job = done.job /\ back.booked = d.booked \cup {w}
       /\ back.payout = d.payout
       /\ back.withdrawal[w] = d.withdrawal[w]
          \/ /\ d.withdrawal[w].status = "manual_review"
             /\ back.withdrawal[w].status = "awaiting_vault"
  <2>1. book \in Dbs
    BY <1>9 DEF Touches
  <2> HIDE DEF book, done
  <2>2. QED
    BY <1>9, <2>1, BackFromReviewDoes
<1>11. /\ Touches(back, e, w) /\ e.job = done.job /\ e.booked = d.booked \cup {w}
       /\ IF back.withdrawal[w].status = "awaiting_vault"
          THEN /\ e.withdrawal[w].status = "queued"
               /\ e.payout[w] = IF d.payout[w] = "none" THEN "queued" ELSE d.payout[w]
          ELSE e = back
  <2>1. back \in Dbs
    BY <1>10 DEF Touches
  <2> HIDE DEF back, done
  <2>2. QED
    BY <1>10, <2>1, QueuePayoutDoes
<1>12. Touches(d, e, w)
  <2> HIDE DEF done, book, back, e
  <2>1. Touches(d, book, w)
    BY <1>8, <1>9, TouchesTwice
  <2>2. Touches(d, back, w)
    BY <2>1, <1>10, TouchesTwice
  <2>3. QED
    BY <2>2, <1>11, TouchesTwice
<1>13. e.job[w].status = "completed"
  BY <1>1, <1>2, <1>6, <1>11
<1>14. Completes(d, e, w)
  <2> HIDE DEF done, book, back, e
  <2> QED
    BY <1>10, <1>11, <1>13 DEF Completes
<1>15. CompleteRelease(d, w, i) = e
  BY DEF CompleteRelease
<1>16. QED
  BY <1>12, <1>14, <1>15

(* recoverRelease: the three things that may come of a release whose        *)
(* outcome is not known.                                                    *)
Recovers(d, e, w, code) ==
    /\ Touches(d, e, w)
    /\ IF code = "PAYOUT_INSUFFICIENT_FUNDS" THEN SentAgain(d, e, w)
       ELSE IF LandedReceipts(d, w) # {} THEN Completes(d, e, w)
       ELSE SentAgain(d, e, w) \/ GivenUp(d, e, w)

(* What is done about a release that failed is one of the outcomes above.   *)
LEMMA RecoverReleaseDoes ==
    ASSUME NEW d \in Dbs, NEW w \in Withdrawals, NEW code \in JobErrors
    PROVE  Recovers(d, RecoverRelease(d, w, code), w, code)
<1> DEFINE e == RecoverRelease(d, w, code)
           j == d.job[w]
<1>1. d.job \in [Withdrawals -> JobRows] /\ j \in JobRows
  BY DEF Dbs
<1>2. /\ Requeue(j, code) \in JobRows /\ Requeue(j, code).status = "queued"
      /\ RequeueForFunds(j) \in JobRows /\ RequeueForFunds(j).status = "queued"
      /\ DeadLetter(j, code) \in JobRows /\ DeadLetter(j, code).status = "dead_letter"
  <2>1. j \in JobRows /\ code \in JobErrors
    BY <1>1
  <2> HIDE DEF j
  <2>2. StatementsLeaveRows(j, code)
    BY <2>1, JobRowsAfter
  <2>3. QED
    BY <2>2 DEF StatementsLeaveRows
<1>3. CASE code = "PAYOUT_INSUFFICIENT_FUNDS"
  <2> DEFINE row   == RequeueForFunds(j)
             f     == [d EXCEPT !.job[w] = row]
             error == IF d.withdrawal[w].status = "awaiting_vault" THEN code
                      ELSE d.withdrawal[w].err
             wrow  == [d.withdrawal[w] EXCEPT !.err = error]
  <2>1. /\ Touches(d, f, w) /\ f.receipts = d.receipts /\ f.job = [d.job EXCEPT ![w] = row]
        /\ f.booked = d.booked /\ f.withdrawal = d.withdrawal /\ f.payout = d.payout
    BY <1>2, JobChanges
  <2>2. e = [d EXCEPT !.job[w] = RequeueForFunds(@),
                      !.withdrawal[w].err = IF d.withdrawal[w].status = "awaiting_vault"
                                            THEN code ELSE @]
    BY <1>3 DEF RecoverRelease
  <2>3. d.withdrawal \in [Withdrawals -> [status : WithdrawalStatuses, err : JobErrors]]
    BY DEF Dbs
  <2>4. e = [d EXCEPT !.job = [d.job EXCEPT ![w] = row],
                      !.withdrawal = [d.withdrawal EXCEPT ![w] = wrow]]
    BY <2>2, <2>3 DEF Dbs
  <2>5. wrow \in [status : WithdrawalStatuses, err : JobErrors] /\ wrow.status = d.withdrawal[w].status
    BY <2>3
  <2>6. /\ e.job = [d.job EXCEPT ![w] = row]
        /\ e.withdrawal = [d.withdrawal EXCEPT ![w] = wrow]
        /\ e.receipts = d.receipts /\ e.booked = d.booked /\ e.payout = d.payout
        /\ e.refunds = d.refunds
    BY <2>4 DEF Dbs
  <2>7. e \in Dbs
    <3>1. /\ [d.job EXCEPT ![w] = row] \in [Withdrawals -> JobRows]
          /\ [d.withdrawal EXCEPT ![w] = wrow]
                \in [Withdrawals -> [status : WithdrawalStatuses, err : JobErrors]]
      BY <1>1, <1>2, <2>3, <2>5
    <3> HIDE DEF row, wrow
    <3>2. QED
      BY <2>4, <3>1 DEF Dbs
  <2>8. OthersStand(d, e, w) /\ ReceiptsStand(d, e, w)
    <3> HIDE DEF e, row, wrow
    <3> QED
      BY <1>1, <2>3, <2>6 DEF OthersStand, ReceiptsStand
  <2>9. SentAgain(d, e, w)
    BY <1>1, <1>2, <2>3, <2>5, <2>6 DEF SentAgain
  <2>10. QED
    BY <1>3, <2>7, <2>8, <2>9 DEF Recovers, Touches
<1>4. CASE code # "PAYOUT_INSUFFICIENT_FUNDS" /\ LandedReceipts(d, w) # {}
  <2> DEFINE S == LandedReceipts(d, w)
  <2>1. S \in SUBSET Nat /\ S # {}
    BY <1>4, LenProperties DEF LandedReceipts, Dbs
  <2>2. Least(S) \in S
    <3> HIDE DEF S
    <3> QED
      BY <2>1, LeastIsOne
  <2>3. Least(S) \in DOMAIN d.receipts /\ d.receipts[Least(S)].display = Display[w]
    BY <2>2 DEF LandedReceipts
  <2>4. e = CompleteRelease(d, w, Least(S))
    BY <1>4 DEF RecoverRelease
  <2> HIDE DEF S
  <2>5. Touches(d, e, w) /\ Completes(d, e, w)
    BY <2>3, <2>4, CompleteReleaseDoes
  <2>6. QED
    BY <1>4, <2>5 DEF Recovers
<1>5. CASE /\ code # "PAYOUT_INSUFFICIENT_FUNDS" /\ LandedReceipts(d, w) = {}
           /\ ~OutOfAttempts(j)
  <2>1. e = [d EXCEPT !.job[w] = Requeue(j, code)]
    BY <1>5 DEF RecoverRelease
  <2>2. /\ Touches(d, e, w) /\ e.job[w] = Requeue(j, code)
        /\ e.booked = d.booked /\ e.withdrawal = d.withdrawal /\ e.payout = d.payout
    BY <1>2, <2>1, JobChanges
  <2>3. SentAgain(d, e, w)
    BY <1>2, <2>2 DEF SentAgain
  <2>4. QED
    BY <1>5, <2>2, <2>3 DEF Recovers
<1>6. CASE /\ code # "PAYOUT_INSUFFICIENT_FUNDS" /\ LandedReceipts(d, w) = {}
           /\ OutOfAttempts(j)
  <2> DEFINE row  == DeadLetter(j, code)
             wrow == IF d.withdrawal[w].status = "awaiting_vault"
                     THEN [status |-> "manual_review", err |-> code] ELSE d.withdrawal[w]
  <2>1. d.withdrawal \in [Withdrawals -> [status : WithdrawalStatuses, err : JobErrors]]
    BY DEF Dbs
  <2>2. e = [d EXCEPT !.job[w] = DeadLetter(@, code),
                      !.withdrawal[w] = IF @.status = "awaiting_vault"
                                        THEN [status |-> "manual_review", err |-> code] ELSE @]
    BY <1>6 DEF RecoverRelease
  <2>3. e = [d EXCEPT !.job = [d.job EXCEPT ![w] = row],
                      !.withdrawal = [d.withdrawal EXCEPT ![w] = wrow]]
    BY <2>2, <2>1 DEF Dbs
  <2>4. wrow \in [status : WithdrawalStatuses, err : JobErrors]
    BY <2>1 DEF WithdrawalStatuses
  <2>5. /\ e.job = [d.job EXCEPT ![w] = row]
        /\ e.withdrawal = [d.withdrawal EXCEPT ![w] = wrow]
        /\ e.receipts = d.receipts /\ e.booked = d.booked /\ e.payout = d.payout
        /\ e.refunds = d.refunds
    BY <2>3 DEF Dbs
  <2>6. e \in Dbs
    <3>1. /\ [d.job EXCEPT ![w] = row] \in [Withdrawals -> JobRows]
          /\ [d.withdrawal EXCEPT ![w] = wrow]
                \in [Withdrawals -> [status : WithdrawalStatuses, err : JobErrors]]
      BY <1>1, <1>2, <2>1, <2>4
    <3> HIDE DEF row, wrow
    <3>2. QED
      BY <2>3, <3>1 DEF Dbs
  <2>7. OthersStand(d, e, w) /\ ReceiptsStand(d, e, w)
    <3> HIDE DEF e, row, wrow
    <3> QED
      BY <1>1, <2>1, <2>5 DEF OthersStand, ReceiptsStand
  <2>8. GivenUp(d, e, w)
    BY <1>1, <1>2, <2>1, <2>5 DEF GivenUp
  <2>9. QED
    BY <1>6, <2>6, <2>7, <2>8 DEF Recovers, Touches
<1>7. QED
  BY <1>3, <1>4, <1>5, <1>6

(* A lease that has run out is swept.                                       *)
LEMMA SweepReleaseDoes ==
    ASSUME NEW d \in Dbs, NEW w \in Withdrawals
    PROVE  IF LeaseRanOut(d.job[w]) THEN Recovers(d, SweepRelease(d, w), w, "LEASE_EXPIRED")
           ELSE SweepRelease(d, w) = d
<1>1. CASE ~LeaseRanOut(d.job[w])
  BY <1>1 DEF SweepRelease
<1>2. CASE LeaseRanOut(d.job[w])
  <2> DEFINE row == ExpireLease(d.job[w])
             f   == [d EXCEPT !.job[w] = row]
             e   == RecoverRelease(f, w, "LEASE_EXPIRED")
  <2>1. d.job[w] \in JobRows /\ "LEASE_EXPIRED" \in JobErrors
    BY DEF Dbs, JobErrors
  <2>2. row \in JobRows
    BY <2>1, JobRowsAfter DEF StatementsLeaveRows
  <2>3. /\ Touches(d, f, w) /\ f.receipts = d.receipts /\ f.booked = d.booked
        /\ f.withdrawal = d.withdrawal /\ f.payout = d.payout
    <3> HIDE DEF row
    <3> QED
      BY <2>2, JobChanges
  <2>4. f \in Dbs
    BY <2>3 DEF Touches
  <2>5. Recovers(f, e, w, "LEASE_EXPIRED")
    <3> HIDE DEF f
    <3> QED
      BY <2>1, <2>4, RecoverReleaseDoes
  <2>6. SweepRelease(d, w) = e
    BY <1>2 DEF SweepRelease
  <2> HIDE DEF f, e
  <2>7. Touches(d, e, w)
    BY <2>3, <2>5, TouchesTwice DEF Recovers
  <2>8. LandedReceipts(f, w) = LandedReceipts(d, w)
    BY <2>3 DEF LandedReceipts
  <2>9. Recovers(d, e, w, "LEASE_EXPIRED")
    BY <2>3, <2>5, <2>7, <2>8 DEF Recovers, Completes, SentAgain, GivenUp
  <2>10. QED
    BY <1>2, <2>6, <2>9
<1>3. QED
  BY <1>1, <1>2

(* settleReleaseFromReceipt: nothing, or a release that was to be sent      *)
(* again, or was given up, is done.                                         *)
LEMMA SettleFromReceiptDoes ==
    ASSUME NEW d \in Dbs, NEW i \in DOMAIN d.receipts, Withdrawals \subseteq Nat
    PROVE  LET e == SettleFromReceipt(d, i) IN
           \/ e = d
           \/ \E w \in Unsettled(d, i) : Touches(d, e, w) /\ Completes(d, e, w)
<1> DEFINE e == SettleFromReceipt(d, i)
           S == Unsettled(d, i)
           w == Least(S)
<1>1. CASE S = {}
  BY <1>1 DEF SettleFromReceipt
<1>2. CASE S # {}
  <2>1. S \in SUBSET Nat
    BY DEF Unsettled
  <2>2. w \in S
    <3> HIDE DEF S
    <3> QED
      BY <1>2, <2>1, LeastIsOne
  <2>3. e = CompleteRelease(d, w, i)
    BY <1>2 DEF SettleFromReceipt
  <2>4. w \in Withdrawals /\ d.receipts[i].display = Display[w]
    <3> HIDE DEF w
    <3> QED
      BY <2>2 DEF Unsettled
  <2> HIDE DEF w, e
  <2>5. Touches(d, e, w) /\ Completes(d, e, w)
    BY <2>3, <2>4, CompleteReleaseDoes
  <2> HIDE DEF S
  <2>6. \E x \in S : Touches(d, e, x) /\ Completes(d, e, x)
    BY <2>2, <2>5
  <2>7. QED
    BY <2>6 DEF S, e
<1>3. QED
  BY <1>1, <1>2

(* What every single step of the sweep keeps, the sweep keeps.              *)
LEMMA SweepKeeps ==
    ASSUME NEW G, NEW d \in G, IsFiniteSet(Withdrawals), Withdrawals = 1..Cardinality(Withdrawals),
           \A e \in G : \A w \in Withdrawals : SweepRelease(e, w) \in G
    PROVE  SweepLeases(d) \in G
<1> DEFINE n == Cardinality(Withdrawals)
           Rule(f) == f = [k \in 0..n |-> IF k = 0 THEN d ELSE SweepRelease(f[k - 1], k)]
           swept == CHOOSE f : Rule(f)
           step == [p \in (1..n) \X G |-> SweepRelease(p[2], p[1])]
<1>1. n \in Nat
  BY FS_CardinalityType
<1>2. \E f : Rule(f)
  <2>1. step \in Steps(n, G)
    BY DEF Steps
  <2>2. PICK f : Stepwise(f, d, step, n, G)
    <3> HIDE DEF n, step
    <3> QED
      BY <1>1, <2>1, StepwiseFunction
  <2>3. /\ f \in [0..n -> G] /\ f[0] = d
        /\ \A k \in 1..n : f[k] = step[<<k, f[k - 1]>>]
    BY <2>2 DEF Stepwise
  <2>4. ASSUME NEW k \in 0..n
        PROVE  f[k] = IF k = 0 THEN d ELSE SweepRelease(f[k - 1], k)
    <3>1. CASE k = 0
      BY <2>3, <3>1
    <3>2. CASE k # 0
      <4>1. k \in 1..n /\ k - 1 \in 0..n
        BY <1>1, <3>2
      <4>2. f[k - 1] \in G
        BY <2>3, <4>1
      <4>3. step[<<k, f[k - 1]>>] = SweepRelease(f[k - 1], k)
        BY <4>1, <4>2
      <4>4. QED
        BY <2>3, <3>2, <4>1, <4>3
    <3>3. QED
      BY <3>1, <3>2
  <2>5. Rule(f)
    <3> HIDE DEF n
    <3> QED
      BY <2>3, <2>4
  <2>6. QED
    BY <2>5
<1>3. Rule(swept)
  <2> HIDE DEF Rule
  <2> QED
    BY <1>2
<1>4. SweepLeases(d) = swept[n]
  BY DEF SweepLeases
<1> DEFINE B == {k \in 0..n : swept[k] \in G}
<1>5. 0 \in B
  <2> HIDE DEF swept
  <2>1. 0 \in 0..n
    BY <1>1
  <2>2. QED
    BY <1>3, <2>1
<1>6. ASSUME NEW k \in 0..(n - 1), k \in B
      PROVE  k + 1 \in B
  <2> HIDE DEF swept
  <2>1. k + 1 \in 0..n /\ k + 1 # 0 /\ k + 1 \in Withdrawals /\ (k + 1) - 1 = k
    BY <1>1
  <2>2. swept[k + 1] = SweepRelease(swept[k], k + 1)
    BY <1>3, <2>1
  <2>3. QED
    BY <1>6, <2>1, <2>2
<1>7. n \in B
  <2> HIDE DEF B, n
  <2>1. \A k \in 0..n : k \in B
    BY <1>1, <1>5, <1>6, UpTo
  <2>2. QED
    BY <1>1, <2>1
<1>8. QED
  BY <1>4, <1>7

-----------------------------------------------------------------------------
(* The invariant: one release at a time                                     *)

(* Everything a player's money depends on, of one withdrawal.  A release    *)
(* that is not done has no payout behind it, so whatever happens to it      *)
(* finds the player unpaid.                                                 *)
Fair(d, paid, w) ==
    /\ w \in d.booked <=> d.job[w].status = "completed"
    /\ d.payout[w] # "none" => d.job[w].status = "completed"
    /\ d.withdrawal[w].status = "none" => d.job[w].status = "none"
    /\ d.payout[w] = "none" => paid[w] = 0
    /\ d.withdrawal[w].status \in {"queued", "failed"} => paid[w] = 0
    /\ d.withdrawal[w].status # "failed" => d.refunds[w] = 0
    /\ paid[w] <= 1 /\ d.refunds[w] <= 1

FairDbs(paid) == {d \in Dbs : \A w \in Withdrawals : Fair(d, paid, w)}

Bots    == {Idle} \cup [phase : {"holding", "settled"}, w : Withdrawals, token : Tokens,
                        outcome : Outcomes]
Reports == [w : Withdrawals, token : Tokens, outcome : Outcomes]
Shown   == {Display[w] : w \in Withdrawals}

(* Everything but the database.                                             *)
WorldOK ==
    /\ bot \in Bots /\ net \subseteq Reports /\ arriving \in Seq(Shown)
    /\ moved \in [Withdrawals -> Nat] /\ toPlayer \in [Withdrawals -> Nat]
    /\ retries \in 0..Retries /\ stops \in 0..Stops

IInv == WorldOK /\ db \in FairDbs(toPlayer)

Unfinished == {"queued", "leased", "dead_letter"}

(* A transaction for a release that is not done keeps all that is fair.     *)
LEMMA TransactionIsFair ==
    ASSUME NEW paid \in [Withdrawals -> Nat], NEW d \in FairDbs(paid), NEW w \in Withdrawals,
           NEW e, Touches(d, e, w), d.job[w].status \in Unfinished,
           Completes(d, e, w) \/ SentAgain(d, e, w) \/ GivenUp(d, e, w)
    PROVE  e \in FairDbs(paid)
<1>1. d \in Dbs /\ e \in Dbs /\ \A v \in Withdrawals : Fair(d, paid, v)
  BY DEF FairDbs, Touches
<1>2. ASSUME NEW v \in Withdrawals, v # w
      PROVE  Fair(e, paid, v)
  <2>1. /\ e.job[v] = d.job[v] /\ e.withdrawal[v] = d.withdrawal[v]
        /\ e.payout[v] = d.payout[v] /\ e.refunds = d.refunds
    BY <1>2 DEF Touches, OthersStand
  <2>2. v \in e.booked <=> v \in d.booked
    BY <1>2 DEF Completes, SentAgain, GivenUp
  <2>3. QED
    BY <1>1, <2>1, <2>2 DEF Fair
<1>3. Fair(e, paid, w)
  <2>1. /\ Fair(d, paid, w) /\ e.refunds = d.refunds
        /\ d.withdrawal[w].status # "none" /\ d.payout[w] = "none" /\ paid[w] = 0
        /\ w \notin d.booked
    BY <1>1 DEF Fair, Touches, OthersStand, Unfinished
  <2>2. CASE Completes(d, e, w)
    BY <2>1, <2>2 DEF Fair, Completes
  <2>3. CASE SentAgain(d, e, w)
    BY <2>1, <2>3 DEF Fair, SentAgain
  <2>4. CASE GivenUp(d, e, w)
    BY <2>1, <2>4 DEF Fair, GivenUp
  <2>5. QED
    BY <2>2, <2>3, <2>4
<1>4. QED
  BY <1>1, <1>2, <1>3 DEF FairDbs

(* So does a lease taken, a lease that runs out, a delay that is over.      *)
LEMMA JobChangeIsFair ==
    ASSUME NEW paid \in [Withdrawals -> Nat], NEW d \in FairDbs(paid), NEW w \in Withdrawals,
           NEW j \in JobRows, d.job[w].status \in Unfinished, j.status \in Unfinished
    PROVE  [d EXCEPT !.job[w] = j] \in FairDbs(paid)
<1> DEFINE e == [d EXCEPT !.job[w] = j]
<1>1. d \in Dbs /\ \A v \in Withdrawals : Fair(d, paid, v)
  BY DEF FairDbs
<1>2. /\ Touches(d, e, w) /\ e.job[w] = j
      /\ e.booked = d.booked /\ e.withdrawal = d.withdrawal /\ e.payout = d.payout
  BY <1>1, JobChanges
<1>3. ASSUME NEW v \in Withdrawals
      PROVE  Fair(e, paid, v)
  <2> HIDE DEF e
  <2>1. CASE v = w
    BY <1>1, <1>2, <2>1 DEF Fair, Touches, OthersStand, Unfinished
  <2>2. CASE v # w
    BY <1>1, <1>2, <2>2 DEF Fair, Touches, OthersStand
  <2>3. QED
    BY <2>1, <2>2
<1>4. QED
  BY <1>2, <1>3 DEF FairDbs, Touches

(* And the sweep.                                                           *)
LEMMA SweepIsFair ==
    ASSUME ConstantsOK, NEW paid \in [Withdrawals -> Nat], NEW d \in FairDbs(paid)
    PROVE  SweepLeases(d) \in FairDbs(paid)
<1>1. ASSUME NEW e \in FairDbs(paid), NEW w \in Withdrawals
      PROVE  SweepRelease(e, w) \in FairDbs(paid)
  <2>1. e \in Dbs
    BY DEF FairDbs
  <2>2. CASE LeaseRanOut(e.job[w])
    <3>1. Recovers(e, SweepRelease(e, w), w, "LEASE_EXPIRED")
      BY <2>1, <2>2, SweepReleaseDoes
    <3>2. e.job[w].status \in Unfinished
      BY <2>2 DEF LeaseRanOut, Unfinished
    <3>3. QED
      BY <3>1, <3>2, TransactionIsFair DEF Recovers
  <2>3. CASE ~LeaseRanOut(e.job[w])
    BY <2>1, <2>3, SweepReleaseDoes
  <2>4. QED
    BY <2>2, <2>3
<1>2. QED
  BY <1>1, SweepKeeps DEF ConstantsOK

(* Before the first withdrawal.                                             *)
LEMMA InitIsFair == ASSUME ConstantsOK PROVE Init => IInv
<1> SUFFICES ASSUME Init PROVE IInv
  OBVIOUS
<1>1. NoJob \in JobRows /\ NoJob.status = "none"
  BY DEF NoJob, Row, JobRows, JobStatuses, Availability, JobErrors
<1>2. db \in Dbs
  <2>1. << >> \in Seq(Receipts)
    BY EmptySeq
  <2>2. QED
    BY <1>1, <2>1 DEF Init, Dbs, WithdrawalStatuses, PayoutStatuses, JobErrors
<1>3. ASSUME NEW w \in Withdrawals
      PROVE  Fair(db, toPlayer, w)
  BY <1>1 DEF Init, Fair
<1>4. WorldOK
  <2>1. << >> \in Seq(Shown)
    BY EmptySeq
  <2>2. 0 \in 0..Retries /\ 0 \in 0..Stops
    BY DEF ConstantsOK
  <2>3. QED
    BY <2>1, <2>2 DEF Init, WorldOK, Bots
<1>5. QED
  BY <1>2, <1>3, <1>4 DEF IInv, FairDbs

(* The vault's own steps, and what becomes of its reports on the way.       *)
LEMMA WorldStaysFair ==
    ASSUME ConstantsOK, IInv,
           GameMoves \/ GameRefuses \/ Report \/ BotRestarts \/ \E m \in net : LoseReport(m)
    PROVE  IInv'
<1>1. db' = db /\ toPlayer' = toPlayer /\ retries' = retries /\ stops' = stops
  BY DEF GameMoves, GameRefuses, Report, BotRestarts, LoseReport
<1>2. IInv' <=> WorldOK' /\ db \in FairDbs(toPlayer)
  BY <1>1 DEF IInv
<1>3. /\ bot \in Bots /\ net \subseteq Reports /\ arriving \in Seq(Shown)
      /\ moved \in [Withdrawals -> Nat] /\ toPlayer \in [Withdrawals -> Nat]
      /\ retries \in 0..Retries /\ stops \in 0..Stops
  BY DEF IInv, WorldOK
<1>4. bot # Idle => /\ bot.w \in Withdrawals /\ bot.token \in Tokens /\ bot.outcome \in Outcomes
                    /\ bot \in [phase : {"holding", "settled"}, w : Withdrawals, token : Tokens,
                                outcome : Outcomes]
  BY <1>3 DEF Bots
<1>5. CASE GameMoves
  <2>0. bot.phase = "holding" /\ moved' = [moved EXCEPT ![bot.w] = @ + 1]
    BY <1>5 DEF GameMoves
  <2>1. bot # Idle
    BY <2>0 DEF Idle
  <2>2. bot' \in Bots
    BY <1>4, <1>5, <2>1 DEF GameMoves, Bots, Outcomes
  <2>3. moved' \in [Withdrawals -> Nat]
    BY <1>3, <1>4, <2>0, <2>1
  <2>4. arriving' \in Seq(Shown)
    <3>1. Display[bot.w] \in Shown
      BY <1>4, <2>1 DEF Shown
    <3>2. Append(arriving, Display[bot.w]) \in Seq(Shown)
      BY <1>3, <3>1, AppendProperties
    <3>3. QED
      BY <1>3, <1>5, <3>2 DEF GameMoves
  <2>5. QED
    BY <1>1, <1>2, <1>3, <1>5, <2>2, <2>3, <2>4 DEF GameMoves, IInv, WorldOK
<1>6. CASE GameRefuses
  <2>0. bot.phase = "holding"
    BY <1>6 DEF GameRefuses
  <2>1. bot # Idle
    BY <2>0 DEF Idle
  <2>2. bot' \in Bots
    BY <1>4, <1>6, <2>1 DEF GameRefuses, Bots, Outcomes
  <2>3. QED
    BY <1>1, <1>2, <1>3, <1>6, <2>2 DEF GameRefuses, IInv, WorldOK
<1>7. CASE Report
  <2>1. bot # Idle
    BY <1>7 DEF Report, Idle
  <2>2. net' \subseteq Reports
    BY <1>3, <1>4, <1>7, <2>1 DEF Report, Reports
  <2>3. bot' \in Bots
    BY <1>7 DEF Report, Bots
  <2>4. QED
    BY <1>1, <1>2, <1>3, <1>7, <2>2, <2>3 DEF Report, IInv, WorldOK
<1>8. CASE BotRestarts
  BY <1>1, <1>2, <1>3, <1>8 DEF BotRestarts, IInv, WorldOK, Bots
<1>9. CASE \E m \in net : LoseReport(m)
  BY <1>1, <1>2, <1>3, <1>9 DEF LoseReport, IInv, WorldOK
<1>10. QED
  BY <1>5, <1>6, <1>7, <1>8, <1>9

(* A claim: the sweep, and perhaps a lease.                                 *)
LEMMA PollIsFair ==
    ASSUME ConstantsOK, IInv, Poll
    PROVE  IInv'
<1> DEFINE d == SweepLeases(db)
<1>1. /\ toPlayer \in [Withdrawals -> Nat] /\ db \in FairDbs(toPlayer)
      /\ UNCHANGED <<net, arriving, moved, toPlayer, retries, stops>>
  BY DEF IInv, WorldOK, Poll
<1>2. d \in FairDbs(toPlayer) /\ d \in Dbs
  BY <1>1, SweepIsFair DEF FairDbs
<1>3. CASE db' = d /\ UNCHANGED bot
  BY <1>1, <1>2, <1>3 DEF IInv, WorldOK
<1>4. CASE \E w \in Withdrawals, t \in Tokens \ TokensInUse(d) :
              /\ MayClaim(d, w)
              /\ db' = [d EXCEPT !.job[w] = Lease(@, t)]
              /\ bot' = [Idle EXCEPT !.phase = "holding", !.w = w, !.token = t]
  <2>1. PICK w \in Withdrawals, t \in Tokens :
              /\ MayClaim(d, w)
              /\ db' = [d EXCEPT !.job[w] = Lease(@, t)]
              /\ bot' = [Idle EXCEPT !.phase = "holding", !.w = w, !.token = t]
    BY <1>4
  <2>2. /\ d.job[w] \in JobRows /\ d.job[w].status = "queued"
        /\ d.job[w].attempts < MaxAttempts
    BY <1>2, <2>1 DEF Dbs, MayClaim, Claimable
  <2>3. Lease(d.job[w], t) \in JobRows /\ Lease(d.job[w], t).status = "leased"
    <3>1. d.job[w].attempts \in 0..MaxAttempts /\ d.job[w].attempts + 1 \in 0..MaxAttempts
      BY <2>2 DEF JobRows
    <3> HIDE DEF d
    <3>2. QED
      BY <2>2, <3>1 DEF Lease, JobRows, JobStatuses
  <2>4. [d EXCEPT !.job[w] = Lease(d.job[w], t)] \in FairDbs(toPlayer)
    <3>1. d.job[w].status \in Unfinished /\ Lease(d.job[w], t).status \in Unfinished
      BY <2>2, <2>3 DEF Unfinished
    <3> HIDE DEF d
    <3>2. QED
      BY <1>1, <1>2, <2>3, <3>1, JobChangeIsFair
  <2>5. db' \in FairDbs(toPlayer)
    BY <2>1, <2>4
  <2>6. bot' \in Bots
    BY <2>1 DEF Bots, Idle, Outcomes
  <2>7. QED
    BY <1>1, <2>5, <2>6 DEF IInv, WorldOK
<1>5. QED
  BY <1>3, <1>4 DEF Poll

(* The teller's receipt is stored; it may settle a release.                 *)
Stored(d, r) == [d EXCEPT !.receipts = Append(@, r)]

(* Storing a receipt leaves every other table alone.                        *)
LEMMA StoredDoes ==
    ASSUME NEW d \in Dbs, NEW r \in Receipts
    PROVE  LET e == Stored(d, r) IN
           /\ e \in Dbs /\ e.job = d.job /\ e.withdrawal = d.withdrawal /\ e.payout = d.payout
           /\ e.booked = d.booked /\ e.refunds = d.refunds
           /\ Len(e.receipts) \in DOMAIN e.receipts /\ e.receipts[Len(e.receipts)] = r
           /\ DOMAIN e.receipts = DOMAIN d.receipts \cup {Len(e.receipts)}
           /\ \A j \in DOMAIN d.receipts : e.receipts[j] = d.receipts[j]
<1> DEFINE e == Stored(d, r)
           more == Append(d.receipts, r)
<1>1. d.receipts \in Seq(Receipts)
  BY DEF Dbs
<1>2. /\ more \in Seq(Receipts) /\ Len(more) = Len(d.receipts) + 1
      /\ \A j \in 1..Len(d.receipts) : more[j] = d.receipts[j]
      /\ more[Len(d.receipts) + 1] = r
  BY <1>1, AppendProperties
<1>3. /\ Len(d.receipts) \in Nat /\ DOMAIN d.receipts = 1..Len(d.receipts)
      /\ DOMAIN more = 1..Len(more)
  BY <1>1, <1>2, LenProperties
<1>4. e = [d EXCEPT !.receipts = more]
  BY DEF Stored
<1> HIDE DEF more
<1>5. e \in Dbs /\ e.receipts = more
  BY <1>2, <1>4 DEF Dbs
<1>6. /\ e.job = d.job /\ e.withdrawal = d.withdrawal /\ e.payout = d.payout
      /\ e.booked = d.booked /\ e.refunds = d.refunds
  BY <1>4 DEF Dbs
<1> HIDE DEF e
<1>7. Len(more) \in DOMAIN more /\ DOMAIN more = DOMAIN d.receipts \cup {Len(more)}
  BY <1>2, <1>3
<1>8. QED
  BY <1>2, <1>3, <1>5, <1>6, <1>7 DEF e

(* What a receipt's arrival does to the database.                           *)
LEMMA ReceiptArrivesDoes ==
    ASSUME ConstantsOK, IInv, ReceiptArrives
    PROVE  /\ arriving # << >> /\ arriving' = Tail(arriving) /\ Head(arriving) \in Shown
           /\ UNCHANGED <<bot, net, moved, toPlayer, retries, stops>>
           /\ LET r == [display |-> Head(arriving),
                        after   |-> {w \in Withdrawals : db.job[w].status # "none"},
                        settles |-> None]
                  d == Stored(db, r)
              IN  /\ r \in Receipts /\ d \in Dbs
                  /\ \/ db' = d
                     \/ \E w \in Withdrawals :
                           /\ Display[w] = Head(arriving)
                           /\ d.job[w].status \in {"queued", "dead_letter"}
                           /\ Touches(d, db', w) /\ Completes(d, db', w)
<1> DEFINE r == [display |-> Head(arriving),
                 after   |-> {w \in Withdrawals : db.job[w].status # "none"},
                 settles |-> None]
           d == Stored(db, r)
           i == Len(d.receipts)
<1>1. /\ arriving # << >> /\ arriving' = Tail(arriving)
      /\ UNCHANGED <<bot, net, moved, toPlayer, retries, stops>>
      /\ db' = SettleFromReceipt(d, i)
  BY DEF ReceiptArrives, Stored
<1>2. arriving \in Seq(Shown) /\ db \in Dbs /\ Withdrawals \subseteq Nat
  <2>1. Withdrawals = 1..Cardinality(Withdrawals) /\ Cardinality(Withdrawals) \in Nat
    BY FS_CardinalityType DEF ConstantsOK
  <2>2. Withdrawals \subseteq Nat
    BY <2>1
  <2>3. QED
    BY <2>2 DEF IInv, WorldOK, FairDbs
<1>3. Head(arriving) \in Shown
  BY <1>1, <1>2, HeadTailProperties
<1>4. r \in Receipts
  BY <1>3 DEF Receipts, Shown
<1>5. d \in Dbs /\ i \in DOMAIN d.receipts /\ d.receipts[i] = r
  <2> HIDE DEF r
  <2> QED
    BY <1>2, <1>4, StoredDoes
<1>6. \/ db' = d
      \/ \E w \in Unsettled(d, i) : Touches(d, db', w) /\ Completes(d, db', w)
  <2> HIDE DEF d, i
  <2> QED
    BY <1>1, <1>2, <1>5, SettleFromReceiptDoes
<1>7. \A w \in Unsettled(d, i) : /\ w \in Withdrawals /\ Display[w] = Head(arriving)
                                 /\ d.job[w].status \in {"queued", "dead_letter"}
  <2> HIDE DEF d, i
  <2> QED
    BY <1>5 DEF Unsettled
<1>8. \/ db' = d
      \/ \E w \in Withdrawals :
            /\ Display[w] = Head(arriving)
            /\ d.job[w].status \in {"queued", "dead_letter"}
            /\ Touches(d, db', w) /\ Completes(d, db', w)
  <2> HIDE DEF d, i
  <2> QED
    BY <1>6, <1>7
<1>9. QED
  BY <1>1, <1>3, <1>4, <1>5, <1>8

(* The teller's receipt arrives.                                            *)
LEMMA ReceiptArrivesIsFair ==
    ASSUME ConstantsOK, IInv, ReceiptArrives
    PROVE  IInv'
<1> DEFINE r == [display |-> Head(arriving),
                 after   |-> {w \in Withdrawals : db.job[w].status # "none"},
                 settles |-> None]
           d == Stored(db, r)
<1>1. /\ arriving # << >> /\ arriving' = Tail(arriving)
      /\ UNCHANGED <<bot, net, moved, toPlayer, retries, stops>>
      /\ r \in Receipts /\ d \in Dbs
      /\ \/ db' = d
         \/ \E w \in Withdrawals :
               /\ d.job[w].status \in {"queued", "dead_letter"}
               /\ Touches(d, db', w) /\ Completes(d, db', w)
  BY ReceiptArrivesDoes
<1>2. /\ db \in Dbs /\ \A w \in Withdrawals : Fair(db, toPlayer, w)
      /\ toPlayer \in [Withdrawals -> Nat] /\ arriving \in Seq(Shown)
  BY DEF IInv, WorldOK, FairDbs
<1>3. /\ d.job = db.job /\ d.withdrawal = db.withdrawal /\ d.payout = db.payout
      /\ d.booked = db.booked /\ d.refunds = db.refunds
  <2> HIDE DEF r
  <2> QED
    BY <1>1, <1>2, StoredDoes
<1>4. d \in FairDbs(toPlayer)
  <2> HIDE DEF d
  <2> QED
    BY <1>1, <1>2, <1>3 DEF FairDbs, Fair
<1>5. db' \in FairDbs(toPlayer)
  <2> HIDE DEF d
  <2>1. CASE db' = d
    BY <1>4, <2>1
  <2>2. ASSUME NEW w \in Withdrawals, d.job[w].status \in {"queued", "dead_letter"},
               Touches(d, db', w), Completes(d, db', w)
        PROVE  db' \in FairDbs(toPlayer)
    <3>1. d.job[w].status \in Unfinished
      BY <2>2 DEF Unfinished
    <3>2. QED
      BY <1>2, <1>4, <2>2, <3>1, TransactionIsFair
  <2>3. QED
    BY <1>1, <2>1, <2>2
<1>6. arriving' \in Seq(Shown)
  BY <1>1, <1>2, HeadTailProperties
<1>7. QED
  BY <1>1, <1>5, <1>6 DEF IInv, WorldOK

(* What a report's arrival does to the database.                            *)
LEMMA ReportArrivesDoes ==
    ASSUME ConstantsOK, IInv, NEW m \in net, ReportArrives(m)
    PROVE  /\ m \in Reports /\ net' = net \ {m} /\ (Prompt => arriving = << >>)
           /\ UNCHANGED <<bot, arriving, moved, toPlayer, retries, stops>>
           /\ IF ~ValidLease(db.job[m.w], m.token) THEN db' = [db EXCEPT !.quarantined = TRUE]
              ELSE IF m.outcome # "completed"
                   THEN m.outcome \in JobErrors /\ Recovers(db, db', m.w, m.outcome)
              ELSE Touches(db, db', m.w) /\ Completes(db, db', m.w)
<1> DEFINE row  == Complete(db.job[m.w])
           done == [db EXCEPT !.job[m.w] = row]
           book == BookInternalTransfer(done, m.w)
           e    == QueuePayoutAfterRelease(book, m.w)
<1>1. /\ net' = net \ {m} /\ (Prompt => arriving = << >>)
      /\ UNCHANGED <<bot, arriving, moved, toPlayer, retries, stops>>
      /\ db' = IF ~ValidLease(db.job[m.w], m.token) THEN [db EXCEPT !.quarantined = TRUE]
               ELSE IF m.outcome # "completed" THEN RecoverRelease(db, m.w, m.outcome)
               ELSE QueuePayoutAfterRelease(
                    BookInternalTransfer([db EXCEPT !.job[m.w] = Complete(@)], m.w), m.w)
  BY DEF ReportArrives
<1>2. m \in Reports /\ db \in Dbs
  BY DEF IInv, WorldOK, FairDbs
<1>3. m.w \in Withdrawals /\ (m.outcome # "completed" => m.outcome \in JobErrors)
  BY <1>2 DEF Reports, Outcomes, ConstantsOK, JobErrors
<1>4. CASE ~ValidLease(db.job[m.w], m.token)
  BY <1>1, <1>2, <1>4
<1>5. CASE ValidLease(db.job[m.w], m.token) /\ m.outcome # "completed"
  <2>1. Recovers(db, db', m.w, m.outcome)
    BY <1>1, <1>2, <1>3, <1>5, RecoverReleaseDoes
  <2>2. QED
    BY <1>1, <1>2, <1>3, <1>5, <2>1
<1>6. CASE ValidLease(db.job[m.w], m.token) /\ m.outcome = "completed"
  <2>1. db' = e
    BY <1>1, <1>6
  <2>2. db.job[m.w] \in JobRows /\ "none" \in JobErrors
    BY <1>2, <1>3 DEF Dbs, JobErrors
  <2>3. row \in JobRows /\ row.status = "completed"
    BY <2>2, JobRowsAfter DEF StatementsLeaveRows
  <2>4. /\ Touches(db, done, m.w) /\ done.job[m.w] = row /\ done.booked = db.booked
        /\ done.withdrawal = db.withdrawal /\ done.payout = db.payout /\ done \in Dbs
    <3> HIDE DEF row
    <3> QED
      BY <1>2, <1>3, <2>3, JobChanges DEF Touches
  <2>5. /\ Touches(done, book, m.w) /\ book.job = done.job /\ book.booked = db.booked \cup {m.w}
        /\ book.withdrawal = db.withdrawal /\ book.payout = db.payout /\ book \in Dbs
    <3> HIDE DEF done
    <3> QED
      BY <1>3, <2>4, BookDoes DEF Touches
  <2>6. /\ Touches(book, e, m.w) /\ e.job = done.job /\ e.booked = db.booked \cup {m.w}
        /\ IF db.withdrawal[m.w].status = "awaiting_vault"
           THEN /\ e.withdrawal[m.w].status = "queued"
                /\ e.payout[m.w] = IF db.payout[m.w] = "none" THEN "queued" ELSE db.payout[m.w]
           ELSE e = book
    <3> HIDE DEF done, book
    <3> QED
      BY <1>3, <2>5, QueuePayoutDoes
  <2> HIDE DEF done, book, e
  <2>7. Touches(db, e, m.w)
    <3>1. Touches(db, book, m.w)
      BY <1>2, <1>3, <2>4, <2>5, TouchesTwice
    <3>2. QED
      BY <1>2, <1>3, <2>6, <3>1, TouchesTwice
  <2>8. Completes(db, e, m.w)
    BY <2>3, <2>4, <2>5, <2>6 DEF Completes
  <2>9. QED
    BY <1>1, <1>2, <1>6, <2>1, <2>7, <2>8
<1>7. QED
  BY <1>4, <1>5, <1>6

(* The vault's result arrives.                                              *)
LEMMA ReportArrivesIsFair ==
    ASSUME ConstantsOK, IInv, NEW m \in net, ReportArrives(m)
    PROVE  IInv'
<1>1. /\ m \in Reports /\ net' = net \ {m}
      /\ UNCHANGED <<bot, arriving, moved, toPlayer, retries, stops>>
      /\ IF ~ValidLease(db.job[m.w], m.token) THEN db' = [db EXCEPT !.quarantined = TRUE]
         ELSE IF m.outcome # "completed" THEN Recovers(db, db', m.w, m.outcome)
         ELSE Touches(db, db', m.w) /\ Completes(db, db', m.w)
  BY ReportArrivesDoes
<1>2. db \in FairDbs(toPlayer) /\ toPlayer \in [Withdrawals -> Nat] /\ m.w \in Withdrawals
  BY <1>1 DEF IInv, WorldOK, Reports
<1>3. db' \in FairDbs(toPlayer)
  <2>1. CASE ~ValidLease(db.job[m.w], m.token)
    <3>1. db' = [db EXCEPT !.quarantined = TRUE]
      BY <1>1, <2>1
    <3>2. db' \in Dbs
      BY <1>2, <3>1 DEF FairDbs, Dbs
    <3>3. /\ db'.job = db.job /\ db'.withdrawal = db.withdrawal /\ db'.payout = db.payout
          /\ db'.booked = db.booked /\ db'.refunds = db.refunds
      BY <1>2, <3>1 DEF FairDbs, Dbs
    <3>4. QED
      BY <1>2, <3>2, <3>3 DEF FairDbs, Fair
  <2>2. CASE ValidLease(db.job[m.w], m.token)
    <3>1. db.job[m.w].status \in Unfinished
      BY <2>2 DEF ValidLease, Unfinished
    <3>2. /\ Touches(db, db', m.w)
          /\ Completes(db, db', m.w) \/ SentAgain(db, db', m.w) \/ GivenUp(db, db', m.w)
      BY <1>1, <2>2 DEF Recovers
    <3>3. QED
      BY <1>2, <3>1, <3>2, TransactionIsFair
  <2>3. QED
    BY <2>1, <2>2
<1>4. QED
  BY <1>1, <1>3 DEF IInv, WorldOK

WithdrawalRows == [status : WithdrawalStatuses, err : JobErrors]

(* The steps that write the database themselves.                            *)
LEMMA RequestIsFair ==
    ASSUME ConstantsOK, IInv, NEW w \in Withdrawals, Request(w)
    PROVE  IInv'
<1> DEFINE wrow == [db.withdrawal[w] EXCEPT !.status = "awaiting_vault"]
<1>1. /\ db \in Dbs /\ \A v \in Withdrawals : Fair(db, toPlayer, v)
      /\ db.job \in [Withdrawals -> JobRows] /\ db.withdrawal \in [Withdrawals -> WithdrawalRows]
  BY DEF IInv, FairDbs, Dbs, WithdrawalRows
<1>2. /\ NewJob \in JobRows /\ NewJob.status = "queued"
      /\ wrow \in WithdrawalRows /\ wrow.status = "awaiting_vault"
  BY <1>1 DEF NewJob, Row, JobRows, JobStatuses, Availability, JobErrors, WithdrawalRows,
              WithdrawalStatuses
<1>3. /\ db.withdrawal[w].status = "none" /\ GatewayOnly
      /\ db' = [db EXCEPT !.withdrawal[w].status = "awaiting_vault", !.job[w] = NewJob]
  BY DEF Request
<1>4. db' = [db EXCEPT !.withdrawal = [db.withdrawal EXCEPT ![w] = wrow],
                       !.job = [db.job EXCEPT ![w] = NewJob]]
  BY <1>1, <1>3 DEF Dbs
<1>5. /\ db'.withdrawal = [db.withdrawal EXCEPT ![w] = wrow]
      /\ db'.job = [db.job EXCEPT ![w] = NewJob]
      /\ db'.payout = db.payout /\ db'.booked = db.booked /\ db'.refunds = db.refunds
  BY <1>1, <1>4 DEF Dbs
<1>6. db' \in Dbs
  <2>1. /\ [db.withdrawal EXCEPT ![w] = wrow] \in [Withdrawals -> WithdrawalRows]
        /\ [db.job EXCEPT ![w] = NewJob] \in [Withdrawals -> JobRows]
    BY <1>1, <1>2
  <2> HIDE DEF wrow
  <2>2. QED
    BY <1>1, <1>4, <2>1 DEF Dbs, WithdrawalRows
<1> HIDE DEF wrow
<1>7. ASSUME NEW v \in Withdrawals
      PROVE  Fair(db', toPlayer, v)
  <2>1. CASE v = w
    BY <1>1, <1>2, <1>3, <1>5, <2>1 DEF Fair
  <2>2. CASE v # w
    BY <1>1, <1>5, <2>2 DEF Fair
  <2>3. QED
    BY <2>1, <2>2
<1>8. QED
  BY <1>3, <1>6, <1>7 DEF IInv, WorldOK, FairDbs, GatewayOnly

(* A lease runs out, a retry falls due.                                     *)
LEMMA ClockIsFair ==
    ASSUME ConstantsOK, IInv, NEW w \in Withdrawals, LeaseLapses(w) \/ RetryIsDue(w)
    PROVE  IInv'
<1> DEFINE j1 == [db.job[w] EXCEPT !.lapsed = TRUE]
           j2 == [db.job[w] EXCEPT !.avail = "due"]
<1>1. /\ db \in Dbs /\ db \in FairDbs(toPlayer) /\ toPlayer \in [Withdrawals -> Nat]
      /\ db.job \in [Withdrawals -> JobRows] /\ db.job[w] \in JobRows
  BY DEF IInv, WorldOK, FairDbs, Dbs
<1>2. /\ j1 \in JobRows /\ j1.status = db.job[w].status
      /\ j2 \in JobRows /\ j2.status = db.job[w].status
  BY <1>1 DEF JobRows, Availability
<1>3. GatewayOnly /\ db.job[w].status \in Unfinished
  BY DEF LeaseLapses, RetryIsDue, Unfinished
<1>4. \E j \in {j1, j2} : db' = [db EXCEPT !.job[w] = j]
  BY <1>1 DEF LeaseLapses, RetryIsDue, Dbs
<1>5. db' \in FairDbs(toPlayer)
  <2> HIDE DEF j1, j2
  <2> QED
    BY <1>1, <1>2, <1>3, <1>4, JobChangeIsFair
<1>6. QED
  BY <1>3, <1>5 DEF IInv, WorldOK, GatewayOnly

(* The teller pays the player.                                              *)
LEMMA TellerPaysIsFair ==
    ASSUME ConstantsOK, IInv, NEW w \in Withdrawals, TellerPays(w)
    PROVE  IInv'
<1>1. /\ db \in Dbs /\ \A v \in Withdrawals : Fair(db, toPlayer, v)
      /\ db.withdrawal \in [Withdrawals -> WithdrawalRows]
      /\ db.payout \in [Withdrawals -> PayoutStatuses]
      /\ toPlayer \in [Withdrawals -> Nat]
  BY DEF IInv, WorldOK, FairDbs, Dbs, WithdrawalRows
<1>2. /\ db.payout[w] = "queued" /\ db.withdrawal[w].status = "queued"
      /\ UNCHANGED <<bot, net, arriving, moved, retries, stops>>
  BY DEF TellerPays
<1>3. PICK paid \in 0..1, pay \in {"completed", "dead_letter"}, wrow \in WithdrawalRows :
         /\ wrow.status \in {"paid", "manual_review"}
         /\ toPlayer' = [toPlayer EXCEPT ![w] = @ + paid]
         /\ db' = [db EXCEPT !.payout = [db.payout EXCEPT ![w] = pay],
                             !.withdrawal = [db.withdrawal EXCEPT ![w] = wrow]]
  <2>1. CASE /\ toPlayer' = [toPlayer EXCEPT ![w] = @ + 1]
             /\ db' = [db EXCEPT !.payout[w] = "completed", !.withdrawal[w].status = "paid"]
    <3> DEFINE wrow == [db.withdrawal[w] EXCEPT !.status = "paid"]
    <3>1. wrow \in WithdrawalRows /\ wrow.status = "paid"
      BY <1>1 DEF WithdrawalRows, WithdrawalStatuses
    <3>2. db' = [db EXCEPT !.payout = [db.payout EXCEPT ![w] = "completed"],
                           !.withdrawal = [db.withdrawal EXCEPT ![w] = wrow]]
      BY <1>1, <2>1 DEF Dbs
    <3> HIDE DEF wrow
    <3>3. 1 \in 0..1 /\ toPlayer' = [toPlayer EXCEPT ![w] = @ + 1]
      BY <2>1
    <3>4. QED
      BY <3>1, <3>2, <3>3
  <2>2. CASE /\ \E paid \in 0..1 : toPlayer' = [toPlayer EXCEPT ![w] = @ + paid]
             /\ db' = [db EXCEPT !.payout[w] = "dead_letter",
                                 !.withdrawal[w] = [status |-> "manual_review",
                                                    err |-> "PAYOUT_UNCONFIRMED"]]
    <3> DEFINE wrow == [status |-> "manual_review", err |-> "PAYOUT_UNCONFIRMED"]
    <3>1. wrow \in WithdrawalRows /\ wrow.status = "manual_review"
      BY DEF WithdrawalRows, WithdrawalStatuses, JobErrors
    <3>2. db' = [db EXCEPT !.payout = [db.payout EXCEPT ![w] = "dead_letter"],
                           !.withdrawal = [db.withdrawal EXCEPT ![w] = wrow]]
      BY <1>1, <2>2 DEF Dbs
    <3> HIDE DEF wrow
    <3>3. QED
      BY <2>2, <3>1, <3>2
  <2>3. QED
    BY <2>1, <2>2 DEF TellerPays
<1>4. /\ db'.withdrawal = [db.withdrawal EXCEPT ![w] = wrow]
      /\ db'.payout = [db.payout EXCEPT ![w] = pay]
      /\ db'.job = db.job /\ db'.booked = db.booked /\ db'.refunds = db.refunds
  BY <1>1, <1>3 DEF Dbs
<1>5. db' \in Dbs
  <2>1. /\ [db.withdrawal EXCEPT ![w] = wrow] \in [Withdrawals -> WithdrawalRows]
        /\ [db.payout EXCEPT ![w] = pay] \in [Withdrawals -> PayoutStatuses]
    BY <1>1, <1>3 DEF PayoutStatuses
  <2>2. QED
    BY <1>1, <1>3, <2>1 DEF Dbs, WithdrawalRows
<1>6. toPlayer' \in [Withdrawals -> Nat] /\ toPlayer'[w] = toPlayer[w] + paid
  BY <1>1, <1>3
<1>7. ASSUME NEW v \in Withdrawals
      PROVE  Fair(db', toPlayer', v)
  <2>1. CASE v = w
    <3>1. toPlayer[w] = 0 /\ db.refunds[w] = 0 /\ db.job[w].status = "completed" /\ w \in db.booked
      BY <1>1, <1>2 DEF Fair
    <3>2. /\ db'.withdrawal[w].status \in {"paid", "manual_review"}
          /\ db'.payout[w] \in {"completed", "dead_letter"}
      BY <1>1, <1>3, <1>4
    <3>3. toPlayer'[w] <= 1 /\ db'.refunds[w] = 0 /\ db'.job[w].status = "completed" /\ w \in db'.booked
      BY <1>4, <1>6, <3>1
    <3>4. QED
      BY <2>1, <3>2, <3>3 DEF Fair
  <2>2. CASE v # w
    <3>1. toPlayer'[v] = toPlayer[v] /\ db'.withdrawal[v] = db.withdrawal[v] /\ db'.payout[v] = db.payout[v]
      BY <1>1, <1>3, <1>4, <2>2
    <3>2. QED
      BY <1>1, <1>4, <3>1 DEF Fair
  <2>3. QED
    BY <2>1, <2>2
<1>8. QED
  BY <1>2, <1>5, <1>6, <1>7 DEF IInv, WorldOK, FairDbs

(* An operator closes a withdrawal by hand.                                 *)
LEMMA ResolveIsFair ==
    ASSUME ConstantsOK, IInv, NEW w \in Withdrawals, Resolve(w)
    PROVE  IInv'
<1> DEFINE answer == IF toPlayer[w] > 0 THEN "paid" ELSE "failed"
           wrow   == [status |-> answer, err |-> "none"]
           back   == IF answer = "failed" THEN db.refunds[w] + 1 ELSE db.refunds[w]
           pay    == IF db.payout[w] = "dead_letter" THEN "completed" ELSE db.payout[w]
<1>1. /\ db \in Dbs /\ \A v \in Withdrawals : Fair(db, toPlayer, v)
      /\ db.withdrawal \in [Withdrawals -> WithdrawalRows]
      /\ db.payout \in [Withdrawals -> PayoutStatuses]
      /\ db.refunds \in [Withdrawals -> Nat] /\ toPlayer \in [Withdrawals -> Nat]
  BY DEF IInv, WorldOK, FairDbs, Dbs, WithdrawalRows
<1>2. /\ db.withdrawal[w].status = "manual_review" /\ GatewayOnly
      /\ db' = [db EXCEPT !.withdrawal[w] = [status |-> answer, err |-> "none"],
                          !.refunds[w] = IF answer = "failed" THEN @ + 1 ELSE @,
                          !.payout[w] = IF @ = "dead_letter" THEN "completed" ELSE @]
  BY DEF Resolve
<1>3. db' = [db EXCEPT !.withdrawal = [db.withdrawal EXCEPT ![w] = wrow],
                       !.refunds = [db.refunds EXCEPT ![w] = back],
                       !.payout = [db.payout EXCEPT ![w] = pay]]
  BY <1>1, <1>2 DEF Dbs
<1>4. /\ wrow \in WithdrawalRows /\ wrow.status = answer
      /\ back \in Nat /\ pay \in PayoutStatuses
      /\ (pay # "none" => db.payout[w] # "none") /\ (pay = "none" => db.payout[w] = "none")
  BY <1>1 DEF WithdrawalRows, WithdrawalStatuses, JobErrors, PayoutStatuses
<1>5. /\ db.refunds[w] = 0 /\ toPlayer[w] \in Nat /\ toPlayer[w] <= 1
  BY <1>1, <1>2 DEF Fair
<1>6. /\ answer \in {"paid", "failed"} /\ back <= 1
      /\ answer = "failed" => toPlayer[w] = 0
      /\ answer # "failed" => back = 0
  BY <1>5
<1> HIDE DEF wrow, back, pay, answer
<1>7. /\ db'.withdrawal = [db.withdrawal EXCEPT ![w] = wrow]
      /\ db'.payout = [db.payout EXCEPT ![w] = pay]
      /\ db'.refunds = [db.refunds EXCEPT ![w] = back]
      /\ db'.job = db.job /\ db'.booked = db.booked
  BY <1>1, <1>3 DEF Dbs
<1>8. db' \in Dbs
  <2>1. /\ [db.withdrawal EXCEPT ![w] = wrow] \in [Withdrawals -> WithdrawalRows]
        /\ [db.payout EXCEPT ![w] = pay] \in [Withdrawals -> PayoutStatuses]
        /\ [db.refunds EXCEPT ![w] = back] \in [Withdrawals -> Nat]
    BY <1>1, <1>4
  <2>2. QED
    BY <1>1, <1>3, <2>1 DEF Dbs, WithdrawalRows
<1>9. ASSUME NEW v \in Withdrawals
      PROVE  Fair(db', toPlayer, v)
  <2>1. CASE v = w
    <3>1. /\ db'.withdrawal[w].status = answer /\ db'.payout[w] = pay /\ db'.refunds[w] = back
      BY <1>1, <1>4, <1>7
    <3>2. QED
      BY <1>1, <1>4, <1>5, <1>6, <1>7, <2>1, <3>1 DEF Fair
  <2>2. CASE v # w
    <3>1. /\ db'.withdrawal[v] = db.withdrawal[v] /\ db'.payout[v] = db.payout[v]
          /\ db'.refunds[v] = db.refunds[v]
      BY <1>1, <1>7, <2>2
    <3>2. QED
      BY <1>1, <1>7, <3>1 DEF Fair
  <2>3. QED
    BY <2>1, <2>2
<1>10. QED
  BY <1>2, <1>8, <1>9 DEF IInv, WorldOK, FairDbs, GatewayOnly

(* An operator sends a release again.                                       *)
LEMMA RetryReleaseIsFair ==
    ASSUME ConstantsOK, IInv, NEW w \in Withdrawals, RetryRelease(w)
    PROVE  IInv'
<1> DEFINE wrow == [status |-> "awaiting_vault", err |-> "none"]
<1>1. /\ db \in Dbs /\ \A v \in Withdrawals : Fair(db, toPlayer, v)
      /\ db.job \in [Withdrawals -> JobRows] /\ db.withdrawal \in [Withdrawals -> WithdrawalRows]
  BY DEF IInv, FairDbs, Dbs, WithdrawalRows
<1>2. /\ NewJob \in JobRows /\ NewJob.status = "queued"
      /\ wrow \in WithdrawalRows /\ wrow.status = "awaiting_vault"
  BY DEF NewJob, Row, JobRows, JobStatuses, Availability, JobErrors, WithdrawalRows,
         WithdrawalStatuses
<1>3. /\ retries < Retries /\ retries' = retries + 1
      /\ db.job[w].status = "dead_letter"
      /\ db.withdrawal[w].status \in {"awaiting_vault", "manual_review"}
      /\ db' = [db EXCEPT !.job[w] = NewJob,
                          !.withdrawal[w] = [status |-> "awaiting_vault", err |-> "none"]]
      /\ UNCHANGED <<bot, net, arriving, moved, toPlayer, stops>>
  BY DEF RetryRelease
<1>4. db' = [db EXCEPT !.withdrawal = [db.withdrawal EXCEPT ![w] = wrow],
                       !.job = [db.job EXCEPT ![w] = NewJob]]
  BY <1>1, <1>3 DEF Dbs
<1>5. /\ db'.withdrawal = [db.withdrawal EXCEPT ![w] = wrow]
      /\ db'.job = [db.job EXCEPT ![w] = NewJob]
      /\ db'.payout = db.payout /\ db'.booked = db.booked /\ db'.refunds = db.refunds
  BY <1>1, <1>4 DEF Dbs
<1> HIDE DEF wrow
<1>6. db' \in Dbs
  <2>1. /\ [db.withdrawal EXCEPT ![w] = wrow] \in [Withdrawals -> WithdrawalRows]
        /\ [db.job EXCEPT ![w] = NewJob] \in [Withdrawals -> JobRows]
    BY <1>1, <1>2
  <2>2. QED
    BY <1>1, <1>4, <2>1 DEF Dbs, WithdrawalRows
<1>7. ASSUME NEW v \in Withdrawals
      PROVE  Fair(db', toPlayer, v)
  <2>1. CASE v = w
    <3>1. db'.job[w].status = "queued" /\ db'.withdrawal[w].status = "awaiting_vault"
      BY <1>1, <1>2, <1>5
    <3>2. QED
      BY <1>1, <1>3, <1>5, <2>1, <3>1 DEF Fair
  <2>2. CASE v # w
    <3>1. db'.job[v] = db.job[v] /\ db'.withdrawal[v] = db.withdrawal[v]
      BY <1>1, <1>5, <2>2
    <3>2. QED
      BY <1>1, <1>5, <3>1 DEF Fair
  <2>3. QED
    BY <2>1, <2>2
<1>8. retries' \in 0..Retries
  BY <1>3 DEF IInv, WorldOK, ConstantsOK
<1>9. QED
  BY <1>3, <1>6, <1>7, <1>8 DEF IInv, WorldOK, FairDbs

(* An operator stops the vault, or lets it go on.                           *)
LEMMA QuarantineIsFair ==
    ASSUME ConstantsOK, IInv, QuarantineVault \/ EndQuarantine
    PROVE  IInv'
<1> DEFINE rows == [w \in Withdrawals |-> IF db.job[w].status \in {"queued", "leased"}
                                         THEN DeadLetter(db.job[w], "BOT_QUARANTINED")
                                         ELSE db.job[w]]
<1>1. /\ db \in Dbs /\ \A v \in Withdrawals : Fair(db, toPlayer, v)
      /\ db.job \in [Withdrawals -> JobRows]
  BY DEF IInv, FairDbs, Dbs
<1>2. CASE EndQuarantine
  <2>1. db' \in Dbs
    BY <1>1, <1>2 DEF EndQuarantine, Dbs
  <2>2. /\ db'.withdrawal = db.withdrawal /\ db'.payout = db.payout /\ db'.booked = db.booked
        /\ db'.refunds = db.refunds /\ db'.job = db.job
    BY <1>1, <1>2 DEF EndQuarantine, Dbs
  <2>3. \A v \in Withdrawals : Fair(db', toPlayer, v)
    BY <1>1, <2>2 DEF Fair
  <2>4. GatewayOnly
    BY <1>2 DEF EndQuarantine
  <2>5. QED
    BY <2>1, <2>3, <2>4 DEF GatewayOnly, IInv, WorldOK, FairDbs
<1>3. CASE QuarantineVault
  <2>1. /\ stops < Stops /\ stops' = stops + 1
        /\ UNCHANGED <<bot, net, arriving, moved, toPlayer, retries>>
        /\ db' = [db EXCEPT !.quarantined = TRUE, !.job = rows]
    BY <1>3 DEF QuarantineVault
  <2>2. /\ rows \in [Withdrawals -> JobRows]
        /\ \A w \in Withdrawals : /\ rows[w].status = "completed" <=> db.job[w].status = "completed"
                                  /\ rows[w].status = "none" <=> db.job[w].status = "none"
    <3>1. "BOT_QUARANTINED" \in JobErrors
      BY DEF JobErrors
    <3>2. \A w \in Withdrawals : /\ DeadLetter(db.job[w], "BOT_QUARANTINED") \in JobRows
                                /\ DeadLetter(db.job[w], "BOT_QUARANTINED").status = "dead_letter"
      <4> SUFFICES ASSUME NEW w \in Withdrawals
                   PROVE  /\ DeadLetter(db.job[w], "BOT_QUARANTINED") \in JobRows
                          /\ DeadLetter(db.job[w], "BOT_QUARANTINED").status = "dead_letter"
        OBVIOUS
      <4>1. db.job[w] \in JobRows
        BY <1>1
      <4>2. QED
        BY <3>1, <4>1, JobRowsAfter DEF StatementsLeaveRows
    <3>3. QED
      BY <1>1, <3>2
  <2> HIDE DEF rows
  <2>3. db' \in Dbs
    BY <1>1, <2>1, <2>2 DEF Dbs
  <2>4. /\ db'.withdrawal = db.withdrawal /\ db'.payout = db.payout /\ db'.booked = db.booked
        /\ db'.refunds = db.refunds /\ db'.job = rows
    BY <1>1, <2>1 DEF Dbs
  <2>5. \A v \in Withdrawals : Fair(db', toPlayer, v)
    BY <1>1, <2>2, <2>4 DEF Fair
  <2>6. stops' \in 0..Stops
    BY <2>1 DEF IInv, WorldOK, ConstantsOK
  <2>7. QED
    BY <2>1, <2>3, <2>5, <2>6 DEF IInv, WorldOK, FairDbs
<1>4. QED
  BY <1>2, <1>3

(* What is fair stays so.                                                   *)
LEMMA StepIsFair == ASSUME ConstantsOK, IInv, [Next]_vars PROVE IInv'
<1>1. CASE UNCHANGED vars
  BY <1>1 DEF vars, IInv, WorldOK
<1>2. CASE VaultNext
  BY <1>2, PollIsFair, WorldStaysFair DEF VaultNext
<1>3. CASE GatewayNext
  BY <1>3, ReceiptArrivesIsFair, ReportArrivesIsFair, RequestIsFair, ClockIsFair, TellerPaysIsFair
     DEF GatewayNext
<1>4. CASE OperatorNext
  BY <1>4, ResolveIsFair, RetryReleaseIsFair, QuarantineIsFair DEF OperatorNext
<1>5. CASE Fault
  BY <1>5, WorldStaysFair DEF Fault
<1>6. QED
  BY <1>1, <1>2, <1>3, <1>4, <1>5 DEF Next

(* Releases, books, payouts and refunds agree in every reachable state.     *)
THEOREM Inductive == ASSUME ConstantsOK PROVE Spec => []IInv
<1>1. Init => IInv
  BY InitIsFair
<1>2. IInv /\ [Next]_vars => IInv'
  BY StepIsFair
<1>3. QED
  BY <1>1, <1>2, PTL DEF Spec

(* Whatever the gateway, the bots and the operator do, every variable keeps *)
(* its type.                                                                *)
THEOREM TypeCorrect == ASSUME ConstantsOK PROVE Spec => []TypeOK
<1>1. IInv => TypeOK
  <2> SUFFICES ASSUME IInv PROVE TypeOK
    OBVIOUS
  <2>1. db \in Dbs /\ db.receipts \in Seq(Receipts)
    BY DEF IInv, FairDbs, Dbs
  <2>2. \A i \in DOMAIN db.receipts : db.receipts[i] \in Receipts
    BY <2>1, LenProperties, ElementOfSeq
  <2>3. QED
    BY <2>1, <2>2 DEF TypeOK, Dbs, IInv, WorldOK, Bots, Reports
<1>2. QED
  BY <1>1, Inductive, PTL

(* The books of vault and teller move for a release exactly when it is      *)
(* done, however often it was sent, confirmed or recognised.                *)
THEOREM BooksFollowReleases == ASSUME ConstantsOK PROVE Spec => []BookedWhenDone
<1>1. IInv => BookedWhenDone
  BY DEF IInv, FairDbs, Fair, Dbs, BookedWhenDone
<1>2. QED
  BY <1>1, Inductive, PTL

(* The player's own hop never starts before the release is done.            *)
THEOREM PlayerWaitsForRelease == ASSUME ConstantsOK PROVE Spec => []PayoutFollowsRelease
<1>1. IInv => PayoutFollowsRelease
  BY DEF IInv, FairDbs, Fair, PayoutFollowsRelease
<1>2. QED
  BY <1>1, Inductive, PTL

(* A player has the money once, in the game or back in the wallet, for any  *)
(* number of releases that are sent again, recognised late or given up.     *)
THEOREM MoneyReachesPlayerOnce == ASSUME ConstantsOK PROVE Spec => []PlayerPaidOnce
<1>1. IInv => PlayerPaidOnce
  <2> SUFFICES ASSUME IInv, NEW w \in Withdrawals PROVE toPlayer[w] + db.refunds[w] <= 1
    BY DEF PlayerPaidOnce
  <2>1. /\ Fair(db, toPlayer, w) /\ toPlayer[w] \in Nat /\ db.refunds[w] \in Nat
    BY DEF IInv, WorldOK, FairDbs, Dbs
  <2>2. QED
    BY <2>1 DEF Fair
<1>2. QED
  BY <1>1, Inductive, PTL

-----------------------------------------------------------------------------
(* What the remaining steps leave alone                                     *)

(* No release is done or undone; a lease that is held stays, and who waits  *)
(* waits as before or for a release that is queued.                         *)
Calm(d, e) ==
    \A v \in Withdrawals :
        /\ d.job[v].status = "leased" => e.job[v].status = "leased"
        /\ e.withdrawal[v].status = "awaiting_vault" =>
              \/ e.job[v].status = "queued"
              \/ /\ d.withdrawal[v].status = "awaiting_vault"
                 /\ e.job[v].status = d.job[v].status

DirectStep ==
    \/ \E w \in Withdrawals : \/ Request(w) \/ LeaseLapses(w) \/ RetryIsDue(w) \/ TellerPays(w)
                              \/ Resolve(w) \/ RetryRelease(w)
    \/ QuarantineVault \/ EndQuarantine

(* The steps that settle no release.                                        *)
LEMMA DirectStepDoes ==
    ASSUME ConstantsOK, IInv, DirectStep
    PROVE  /\ db'.receipts = db.receipts /\ UNCHANGED <<bot, net, arriving, moved>>
           /\ \A v \in Withdrawals : db'.job[v].status = "completed" <=> db.job[v].status = "completed"
           /\ Stops = 0 => Calm(db, db')
<1>1. /\ db \in Dbs /\ db.job \in [Withdrawals -> JobRows]
      /\ db.withdrawal \in [Withdrawals -> WithdrawalRows]
      /\ db.payout \in [Withdrawals -> PayoutStatuses]
      /\ \A v \in Withdrawals : Fair(db, toPlayer, v)
  BY DEF IInv, FairDbs, Dbs, WithdrawalRows
<1>2. NewJob.status = "queued"
  BY DEF NewJob, Row
<1>3. ASSUME NEW w \in Withdrawals, Request(w)
      PROVE  /\ db'.receipts = db.receipts /\ UNCHANGED <<bot, net, arriving, moved>>
             /\ \A v \in Withdrawals : db'.job[v].status = "completed" <=> db.job[v].status = "completed"
             /\ Calm(db, db')
  <2>1. /\ GatewayOnly /\ db.job[w].status = "none"
        /\ db' = [db EXCEPT !.withdrawal[w].status = "awaiting_vault", !.job[w] = NewJob]
    BY <1>1, <1>3 DEF Request, Fair
  <2>2. /\ db'.job = [db.job EXCEPT ![w] = NewJob] /\ db'.receipts = db.receipts
        /\ \A v \in Withdrawals : v # w => db'.withdrawal[v] = db.withdrawal[v]
    BY <1>1, <2>1 DEF Dbs
  <2>3. QED
    BY <1>1, <1>2, <2>1, <2>2 DEF Calm, GatewayOnly
<1>4. ASSUME NEW w \in Withdrawals, LeaseLapses(w) \/ RetryIsDue(w)
      PROVE  /\ db'.receipts = db.receipts /\ UNCHANGED <<bot, net, arriving, moved>>
             /\ \A v \in Withdrawals : db'.job[v].status = "completed" <=> db.job[v].status = "completed"
             /\ Calm(db, db')
  <2>1. /\ GatewayOnly
        /\ \/ db' = [db EXCEPT !.job[w].lapsed = TRUE]
           \/ db' = [db EXCEPT !.job[w].avail = "due"]
    BY <1>4 DEF LeaseLapses, RetryIsDue
  <2>2. /\ db'.receipts = db.receipts /\ db'.withdrawal = db.withdrawal
        /\ \A v \in Withdrawals : db'.job[v].status = db.job[v].status
    <3> DEFINE j1 == [db.job[w] EXCEPT !.lapsed = TRUE]
               j2 == [db.job[w] EXCEPT !.avail = "due"]
    <3>1. j1.status = db.job[w].status /\ j2.status = db.job[w].status
      BY <1>1 DEF JobRows
    <3>2. \E j \in {j1, j2} : db' = [db EXCEPT !.job = [db.job EXCEPT ![w] = j]]
      BY <1>1, <2>1 DEF Dbs
    <3> HIDE DEF j1, j2
    <3>3. PICK j \in {j1, j2} : db' = [db EXCEPT !.job = [db.job EXCEPT ![w] = j]]
      BY <3>2
    <3>4. /\ db'.receipts = db.receipts /\ db'.withdrawal = db.withdrawal
          /\ db'.job = [db.job EXCEPT ![w] = j]
      BY <1>1, <3>3 DEF Dbs
    <3>5. QED
      BY <1>1, <3>1, <3>4
  <2>3. QED
    BY <2>1, <2>2 DEF Calm, GatewayOnly
<1>5. ASSUME NEW w \in Withdrawals, TellerPays(w)
      PROVE  /\ db'.receipts = db.receipts /\ UNCHANGED <<bot, net, arriving, moved>>
             /\ \A v \in Withdrawals : db'.job[v].status = "completed" <=> db.job[v].status = "completed"
             /\ Calm(db, db')
  <2>1. /\ UNCHANGED <<bot, net, arriving, moved, retries, stops>>
        /\ \/ db' = [db EXCEPT !.payout[w] = "completed", !.withdrawal[w].status = "paid"]
           \/ db' = [db EXCEPT !.payout[w] = "dead_letter",
                               !.withdrawal[w] = [status |-> "manual_review",
                                                  err |-> "PAYOUT_UNCONFIRMED"]]
    BY <1>5 DEF TellerPays
  <2>2. /\ db'.receipts = db.receipts /\ db'.job = db.job
        /\ db'.withdrawal[w].status # "awaiting_vault"
        /\ \A v \in Withdrawals : v # w => db'.withdrawal[v] = db.withdrawal[v]
    <3> DEFINE w1 == [db.withdrawal[w] EXCEPT !.status = "paid"]
               w2 == [status |-> "manual_review", err |-> "PAYOUT_UNCONFIRMED"]
    <3>1. w1.status = "paid" /\ w2.status = "manual_review"
      BY <1>1 DEF WithdrawalRows
    <3>2. \E r \in {w1, w2}, p \in {"completed", "dead_letter"} :
             db' = [db EXCEPT !.payout = [db.payout EXCEPT ![w] = p],
                              !.withdrawal = [db.withdrawal EXCEPT ![w] = r]]
      BY <1>1, <2>1 DEF Dbs
    <3> HIDE DEF w1, w2
    <3>3. PICK r \in {w1, w2} : /\ db'.withdrawal = [db.withdrawal EXCEPT ![w] = r]
                                /\ db'.receipts = db.receipts /\ db'.job = db.job
      BY <1>1, <3>2 DEF Dbs
    <3>4. QED
      BY <1>1, <3>1, <3>3
  <2>3. QED
    BY <2>1, <2>2 DEF Calm
<1>6. ASSUME NEW w \in Withdrawals, Resolve(w)
      PROVE  /\ db'.receipts = db.receipts /\ UNCHANGED <<bot, net, arriving, moved>>
             /\ \A v \in Withdrawals : db'.job[v].status = "completed" <=> db.job[v].status = "completed"
             /\ Calm(db, db')
  <2>1. /\ GatewayOnly
        /\ \E a \in {"paid", "failed"} :
              db' = [db EXCEPT !.withdrawal[w] = [status |-> a, err |-> "none"],
                               !.refunds[w] = IF a = "failed" THEN @ + 1 ELSE @,
                               !.payout[w] = IF @ = "dead_letter" THEN "completed" ELSE @]
    BY <1>6 DEF Resolve
  <2>2. /\ db'.receipts = db.receipts /\ db'.job = db.job
        /\ db'.withdrawal[w].status # "awaiting_vault"
        /\ \A v \in Withdrawals : v # w => db'.withdrawal[v] = db.withdrawal[v]
    BY <1>1, <2>1 DEF Dbs
  <2>3. QED
    BY <2>1, <2>2 DEF Calm, GatewayOnly
<1>7. ASSUME NEW w \in Withdrawals, RetryRelease(w)
      PROVE  /\ db'.receipts = db.receipts /\ UNCHANGED <<bot, net, arriving, moved>>
             /\ \A v \in Withdrawals : db'.job[v].status = "completed" <=> db.job[v].status = "completed"
             /\ Calm(db, db')
  <2>1. /\ db.job[w].status = "dead_letter"
        /\ db' = [db EXCEPT !.job[w] = NewJob,
                            !.withdrawal[w] = [status |-> "awaiting_vault", err |-> "none"]]
        /\ UNCHANGED <<bot, net, arriving, moved, toPlayer, stops>>
    BY <1>7 DEF RetryRelease
  <2>2. /\ db'.receipts = db.receipts /\ db'.job = [db.job EXCEPT ![w] = NewJob]
        /\ \A v \in Withdrawals : v # w => db'.withdrawal[v] = db.withdrawal[v]
    BY <1>1, <2>1 DEF Dbs
  <2>3. QED
    BY <1>1, <1>2, <2>1, <2>2 DEF Calm
<1>8. ASSUME QuarantineVault
      PROVE  /\ db'.receipts = db.receipts /\ UNCHANGED <<bot, net, arriving, moved>>
             /\ \A v \in Withdrawals : db'.job[v].status = "completed" <=> db.job[v].status = "completed"
             /\ Stops # 0
  <2>1. /\ stops < Stops /\ UNCHANGED <<bot, net, arriving, moved>>
        /\ db' = [db EXCEPT !.quarantined = TRUE,
                            !.job = [w \in Withdrawals |->
                                       IF @[w].status \in {"queued", "leased"}
                                       THEN DeadLetter(@[w], "BOT_QUARANTINED") ELSE @[w]]]
    BY <1>8 DEF QuarantineVault
  <2>2. /\ db'.receipts = db.receipts
        /\ \A w \in Withdrawals : db'.job[w] = IF db.job[w].status \in {"queued", "leased"}
                                              THEN DeadLetter(db.job[w], "BOT_QUARANTINED")
                                              ELSE db.job[w]
    BY <1>1, <2>1 DEF Dbs
  <2>3. \A w \in Withdrawals : DeadLetter(db.job[w], "BOT_QUARANTINED").status = "dead_letter"
    BY <1>1 DEF DeadLetter, JobRows
  <2>4. Stops # 0
    BY <2>1 DEF IInv, WorldOK, ConstantsOK
  <2>5. QED
    BY <2>1, <2>2, <2>3, <2>4
<1>9. ASSUME EndQuarantine
      PROVE  /\ db'.receipts = db.receipts /\ UNCHANGED <<bot, net, arriving, moved>>
             /\ \A v \in Withdrawals : db'.job[v].status = "completed" <=> db.job[v].status = "completed"
             /\ Calm(db, db')
  <2>1. GatewayOnly /\ db' = [db EXCEPT !.quarantined = FALSE]
    BY <1>9 DEF EndQuarantine
  <2>2. db'.receipts = db.receipts /\ db'.job = db.job /\ db'.withdrawal = db.withdrawal
    BY <1>1, <2>1 DEF Dbs
  <2>3. QED
    BY <2>1, <2>2 DEF Calm, GatewayOnly
<1>10. QED
  BY <1>3, <1>4, <1>5, <1>6, <1>7, <1>8, <1>9 DEF DirectStep

(* Every step, sorted for the proofs below.                                 *)
LEMMA NextIs ==
    ASSUME Next
    PROVE  \/ Poll \/ GameMoves \/ GameRefuses \/ Report \/ BotRestarts \/ ReceiptArrives
           \/ \E m \in net : LoseReport(m) \/ ReportArrives(m)
           \/ DirectStep
BY DEF Next, VaultNext, GatewayNext, OperatorNext, Fault, DirectStep

-----------------------------------------------------------------------------
(* A release that is done has landed                                        *)

(* No two releases are of amounts the server abbreviates alike.             *)
AmountsDiffer == \A v, w \in Withdrawals : Display[v] = Display[w] => v = w

(* Neither a job that is done nor a receipt is of money that never moved.   *)
LandedDbs(gone, paid) ==
    {d \in FairDbs(paid) :
        /\ \A w \in Withdrawals : d.job[w].status = "completed" => gone[w] > 0
        /\ \A w \in Withdrawals, i \in DOMAIN d.receipts :
              d.receipts[i].display = Display[w] => gone[w] > 0}

(* Nor is what the teller has yet to report, nor a confirmation of the      *)
(* vault's on its way.                                                      *)
Landing ==
    /\ db \in LandedDbs(moved, toPlayer)
    /\ \A w \in Withdrawals, i \in DOMAIN arriving : arriving[i] = Display[w] => moved[w] > 0
    /\ bot.phase = "settled" /\ bot.outcome = "completed" => moved[bot.w] > 0
    /\ \A m \in net : m.outcome = "completed" => moved[m.w] > 0

(* A transaction on the strength of money that moved.                       *)
LEMMA TransactionLands ==
    ASSUME NEW gone \in [Withdrawals -> Nat], NEW paid \in [Withdrawals -> Nat],
           NEW d \in LandedDbs(gone, paid), NEW w \in Withdrawals, NEW e, Touches(d, e, w),
           d.job[w].status \in Unfinished,
           \/ Completes(d, e, w) /\ gone[w] > 0
           \/ SentAgain(d, e, w) \/ GivenUp(d, e, w)
    PROVE  e \in LandedDbs(gone, paid)
<1>1. d \in FairDbs(paid)
  BY DEF LandedDbs
<1>2. e \in FairDbs(paid)
  BY <1>1, TransactionIsFair
<1>3. ASSUME NEW v \in Withdrawals, e.job[v].status = "completed"
      PROVE  gone[v] > 0
  <2>1. CASE v = w
    BY <1>3, <2>1 DEF SentAgain, GivenUp
  <2>2. CASE v # w
    BY <1>3, <2>2 DEF Touches, OthersStand, LandedDbs
  <2>3. QED
    BY <2>1, <2>2
<1>4. ASSUME NEW v \in Withdrawals, NEW i \in DOMAIN e.receipts,
             e.receipts[i].display = Display[v]
      PROVE  gone[v] > 0
  BY <1>4 DEF Touches, ReceiptsStand, LandedDbs
<1>5. QED
  BY <1>2, <1>3, <1>4 DEF LandedDbs

(* A receipt found for a release is one of its own amount.                  *)
LEMMA RecoveryLands ==
    ASSUME NEW gone \in [Withdrawals -> Nat], NEW paid \in [Withdrawals -> Nat],
           NEW d \in LandedDbs(gone, paid), NEW w \in Withdrawals, NEW e, NEW code,
           Recovers(d, e, w, code), d.job[w].status = "leased"
    PROVE  e \in LandedDbs(gone, paid)
<1>1. LandedReceipts(d, w) # {} => gone[w] > 0
  BY DEF LandedReceipts, LandedDbs
<1>2. /\ Touches(d, e, w) /\ d.job[w].status \in Unfinished
      /\ \/ Completes(d, e, w) /\ gone[w] > 0
         \/ SentAgain(d, e, w) \/ GivenUp(d, e, w)
  BY <1>1 DEF Recovers, Unfinished
<1>3. QED
  BY <1>2, TransactionLands

(* A sweep of leases completes only what has landed.                        *)
LEMMA SweepLands ==
    ASSUME ConstantsOK, NEW gone \in [Withdrawals -> Nat], NEW paid \in [Withdrawals -> Nat],
           NEW d \in LandedDbs(gone, paid)
    PROVE  SweepLeases(d) \in LandedDbs(gone, paid)
<1>1. ASSUME NEW e \in LandedDbs(gone, paid), NEW w \in Withdrawals
      PROVE  SweepRelease(e, w) \in LandedDbs(gone, paid)
  <2>1. e \in Dbs
    BY DEF LandedDbs, FairDbs
  <2>2. CASE LeaseRanOut(e.job[w])
    <3>1. Recovers(e, SweepRelease(e, w), w, "LEASE_EXPIRED")
      BY <2>1, <2>2, SweepReleaseDoes
    <3>2. e.job[w].status = "leased"
      BY <2>2 DEF LeaseRanOut
    <3>3. QED
      BY <3>1, <3>2, RecoveryLands
  <2>3. CASE ~LeaseRanOut(e.job[w])
    BY <2>1, <2>3, SweepReleaseDoes
  <2>4. QED
    BY <2>2, <2>3
<1>2. QED
  BY <1>1, SweepKeeps DEF ConstantsOK

(* Every step keeps the receipts honest and what is done landed.            *)
LEMMA LandingStep ==
    ASSUME ConstantsOK, AmountsDiffer, IInv, Landing, [Next]_vars
    PROVE  Landing'
<1>1. /\ db \in LandedDbs(moved, toPlayer) /\ db \in FairDbs(toPlayer) /\ db \in Dbs
      /\ moved \in [Withdrawals -> Nat] /\ toPlayer \in [Withdrawals -> Nat]
      /\ bot \in Bots /\ arriving \in Seq(Shown)
      /\ \A w \in Withdrawals, i \in DOMAIN arriving : arriving[i] = Display[w] => moved[w] > 0
      /\ bot.phase = "settled" /\ bot.outcome = "completed" => moved[bot.w] > 0
      /\ \A m \in net : m.outcome = "completed" => moved[m.w] > 0
  BY DEF IInv, WorldOK, Landing, FairDbs
<1>2. db' \in FairDbs(toPlayer') /\ moved' \in [Withdrawals -> Nat]
  BY StepIsFair DEF IInv, WorldOK
<1>3. bot # Idle => bot.w \in Withdrawals
  BY <1>1 DEF Bots
<1>4. CASE UNCHANGED vars
  BY <1>1, <1>4 DEF vars, Landing
<1>5. CASE Poll
  <2> DEFINE d == SweepLeases(db)
  <2>1. d \in LandedDbs(moved, toPlayer)
    BY <1>1, SweepLands
  <2>2. d \in FairDbs(toPlayer) /\ d \in Dbs
    BY <2>1 DEF LandedDbs, FairDbs
  <2>3. UNCHANGED <<net, arriving, moved, toPlayer, retries, stops>>
    BY <1>5 DEF Poll
  <2>4. CASE db' = d /\ UNCHANGED bot
    <3> HIDE DEF d
    <3> QED
      BY <1>1, <2>1, <2>3, <2>4 DEF Landing
  <2>5. CASE \E w \in Withdrawals, t \in Tokens \ TokensInUse(d) :
                /\ MayClaim(d, w)
                /\ db' = [d EXCEPT !.job[w] = Lease(@, t)]
                /\ bot' = [Idle EXCEPT !.phase = "holding", !.w = w, !.token = t]
    <3>1. PICK w \in Withdrawals, t \in Tokens :
                /\ MayClaim(d, w)
                /\ db' = [d EXCEPT !.job[w] = Lease(@, t)]
                /\ bot' = [Idle EXCEPT !.phase = "holding", !.w = w, !.token = t]
      BY <2>5
    <3> HIDE DEF d
    <3>2. bot'.phase = "holding"
      BY <3>1 DEF Idle
    <3>3. d.job \in [Withdrawals -> JobRows]
      BY <2>2 DEF Dbs
    <3>4. Lease(d.job[w], t).status = "leased"
      BY <3>3 DEF Lease, JobRows
    <3>5. db'.job = [d.job EXCEPT ![w] = Lease(d.job[w], t)] /\ db'.receipts = d.receipts
      BY <2>2, <3>1 DEF Dbs
    <3>6. db' \in LandedDbs(moved, toPlayer)
      BY <1>2, <2>1, <2>3, <3>3, <3>4, <3>5 DEF LandedDbs
    <3>7. QED
      BY <1>1, <2>3, <3>2, <3>6 DEF Landing
  <2>6. QED
    BY <1>5, <2>4, <2>5 DEF Poll
<1>6. CASE GameMoves
  <2>1. /\ bot.phase = "holding" /\ moved' = [moved EXCEPT ![bot.w] = @ + 1]
        /\ arriving' = Append(arriving, Display[bot.w]) \/ arriving' = arriving
        /\ UNCHANGED <<db, net, toPlayer>>
        /\ \E o : bot' = [bot EXCEPT !.phase = "settled", !.outcome = o]
    BY <1>6 DEF GameMoves
  <2>2. bot.w \in Withdrawals /\ bot # Idle
    BY <1>3, <2>1 DEF Idle
  <2>3. moved'[bot.w] > 0 /\ \A w \in Withdrawals : moved[w] > 0 => moved'[w] > 0
    BY <1>1, <2>1, <2>2
  <2>4. bot'.w = bot.w
    BY <1>1, <2>1, <2>2 DEF Bots
  <2>5. db' \in LandedDbs(moved', toPlayer')
    BY <1>1, <2>1, <2>3 DEF LandedDbs
  <2>6. \A w \in Withdrawals, i \in DOMAIN arriving' : arriving'[i] = Display[w] => moved'[w] > 0
    <3>1. CASE arriving' = arriving
      BY <1>1, <2>3, <3>1
    <3>2. CASE arriving' = Append(arriving, Display[bot.w])
      <4>1. Display[bot.w] \in Shown
        BY <2>2 DEF Shown
      <4>2. /\ arriving' \in Seq(Shown) /\ Len(arriving') = Len(arriving) + 1
            /\ \A i \in 1..Len(arriving) : arriving'[i] = arriving[i]
            /\ arriving'[Len(arriving) + 1] = Display[bot.w]
        BY <1>1, <3>2, <4>1, AppendProperties
      <4>3. /\ DOMAIN arriving' = 1..Len(arriving') /\ DOMAIN arriving = 1..Len(arriving)
            /\ Len(arriving) \in Nat
        BY <1>1, <4>2, LenProperties
      <4>4. ASSUME NEW w \in Withdrawals, NEW i \in DOMAIN arriving', arriving'[i] = Display[w]
            PROVE  moved'[w] > 0
        <5>1. CASE i \in DOMAIN arriving
          BY <1>1, <2>3, <4>2, <4>3, <4>4, <5>1
        <5>2. CASE i = Len(arriving) + 1
          <6>1. Display[w] = Display[bot.w]
            BY <4>2, <4>4, <5>2
          <6>2. QED
            BY <2>2, <2>3, <6>1 DEF AmountsDiffer
        <5>3. QED
          BY <4>2, <4>3, <5>1, <5>2
      <4>5. QED
        BY <4>4
    <3>3. QED
      BY <2>1, <3>1, <3>2
  <2>7. \A m \in net' : m.outcome = "completed" => moved'[m.w] > 0
    <3>1. \A m \in net : m.w \in Withdrawals
      BY DEF IInv, WorldOK, Reports
    <3>2. QED
      BY <1>1, <2>1, <2>3, <3>1
  <2>8. QED
    BY <2>3, <2>4, <2>5, <2>6, <2>7 DEF Landing
<1>7. CASE GameRefuses
  <2>1. /\ bot.phase = "holding" /\ UNCHANGED <<db, net, arriving, moved, toPlayer>>
        /\ \E o \in Codes \cup {"PAYOUT_INSUFFICIENT_FUNDS"} :
              bot' = [bot EXCEPT !.phase = "settled", !.outcome = o]
    BY <1>7 DEF GameRefuses
  <2>2. bot # Idle
    BY <2>1 DEF Idle
  <2>3. bot'.outcome # "completed"
    <3>1. "completed" \notin Codes
      BY DEF ConstantsOK, JobErrors
    <3>2. QED
      BY <1>1, <2>1, <2>2, <3>1 DEF Bots
  <2>4. QED
    BY <1>1, <2>1, <2>3 DEF Landing
<1>8. CASE Report
  <2>1. /\ bot.phase = "settled" /\ UNCHANGED <<db, arriving, moved, toPlayer>> /\ bot' = Idle
        /\ net' = net \cup {[w |-> bot.w, token |-> bot.token, outcome |-> bot.outcome]}
    BY <1>8 DEF Report
  <2>2. bot'.phase # "settled"
    BY <2>1 DEF Idle
  <2>3. \A m \in net' : m.outcome = "completed" => moved[m.w] > 0
    BY <1>1, <2>1
  <2>4. QED
    BY <1>1, <2>1, <2>2, <2>3 DEF Landing
<1>9. CASE BotRestarts
  <2>1. UNCHANGED <<db, net, arriving, moved, toPlayer>> /\ bot'.phase # "settled"
    BY <1>9 DEF BotRestarts, Idle
  <2>2. QED
    BY <1>1, <2>1 DEF Landing
<1>10. CASE ReceiptArrives
  <2> DEFINE r == [display |-> Head(arriving),
                   after   |-> {w \in Withdrawals : db.job[w].status # "none"},
                   settles |-> None]
             d == Stored(db, r)
  <2>1. /\ arriving # << >> /\ arriving' = Tail(arriving)
        /\ UNCHANGED <<bot, net, moved, toPlayer, retries, stops>>
        /\ r \in Receipts /\ d \in Dbs
        /\ \/ db' = d
           \/ \E w \in Withdrawals :
                 /\ Display[w] = Head(arriving)
                 /\ d.job[w].status \in {"queued", "dead_letter"}
                 /\ Touches(d, db', w) /\ Completes(d, db', w)
    BY <1>10, ReceiptArrivesDoes
  <2>2. /\ d.job = db.job /\ d.withdrawal = db.withdrawal /\ d.payout = db.payout
        /\ d.booked = db.booked /\ d.refunds = db.refunds
        /\ d.receipts[Len(d.receipts)] = r
        /\ DOMAIN d.receipts = DOMAIN db.receipts \cup {Len(d.receipts)}
        /\ \A j \in DOMAIN db.receipts : d.receipts[j] = db.receipts[j]
    <3> HIDE DEF r
    <3> QED
      BY <1>1, <2>1, StoredDoes
  <2>3. /\ Len(arriving) \in Nat /\ DOMAIN arriving = 1..Len(arriving) /\ Len(arriving) # 0
        /\ Head(arriving) = arriving[1] /\ 1 \in DOMAIN arriving
    BY <1>1, <2>1, LenProperties, EmptySeq
  <2>4. \A w \in Withdrawals : Display[w] = Head(arriving) => moved[w] > 0
    BY <1>1, <2>3
  <2>5. d \in LandedDbs(moved, toPlayer)
    <3>1. d \in FairDbs(toPlayer)
      <4> HIDE DEF d
      <4> QED
        BY <1>1, <2>1, <2>2 DEF FairDbs, Fair
    <3>2. r.display = Head(arriving)
      OBVIOUS
    <3> HIDE DEF r, d
    <3>3. QED
      BY <1>1, <2>2, <2>4, <3>1, <3>2 DEF LandedDbs
  <2>6. db' \in LandedDbs(moved, toPlayer)
    <3> HIDE DEF d
    <3>1. CASE db' = d
      BY <2>5, <3>1
    <3>2. ASSUME NEW w \in Withdrawals, Display[w] = Head(arriving),
                 d.job[w].status \in {"queued", "dead_letter"},
                 Touches(d, db', w), Completes(d, db', w)
          PROVE  db' \in LandedDbs(moved, toPlayer)
      <4>1. d.job[w].status \in Unfinished /\ moved[w] > 0
        BY <2>4, <3>2 DEF Unfinished
      <4>2. QED
        BY <1>1, <2>5, <3>2, <4>1, TransactionLands
    <3>3. QED
      BY <2>1, <3>1, <3>2
  <2>7. \A w \in Withdrawals, i \in DOMAIN arriving' : arriving'[i] = Display[w] => moved[w] > 0
    <3>1. /\ arriving' \in Seq(Shown) /\ Len(arriving') = Len(arriving) - 1
          /\ \A i \in 1..Len(arriving') : arriving'[i] = arriving[i + 1]
      BY <1>1, <2>1, HeadTailProperties
    <3>2. DOMAIN arriving' = 1..Len(arriving')
      BY <3>1, LenProperties
    <3>3. \A i \in DOMAIN arriving' : i + 1 \in DOMAIN arriving /\ arriving'[i] = arriving[i + 1]
      BY <2>3, <3>1, <3>2
    <3>4. QED
      BY <1>1, <3>3
  <2> HIDE DEF d, r
  <2>8. QED
    BY <1>1, <2>1, <2>6, <2>7 DEF Landing
<1>11. CASE \E m \in net : LoseReport(m)
  BY <1>1, <1>11 DEF LoseReport, Landing
<1>12. ASSUME NEW m \in net, ReportArrives(m)
       PROVE  Landing'
  <2>1. /\ m \in Reports /\ net' = net \ {m}
        /\ UNCHANGED <<bot, arriving, moved, toPlayer, retries, stops>>
        /\ IF ~ValidLease(db.job[m.w], m.token) THEN db' = [db EXCEPT !.quarantined = TRUE]
           ELSE IF m.outcome # "completed" THEN Recovers(db, db', m.w, m.outcome)
           ELSE Touches(db, db', m.w) /\ Completes(db, db', m.w)
    BY <1>12, ReportArrivesDoes
  <2>2. m.w \in Withdrawals
    BY <2>1 DEF Reports
  <2>3. db' \in LandedDbs(moved, toPlayer)
    <3>1. CASE ~ValidLease(db.job[m.w], m.token)
      <4>1. db'.job = db.job /\ db'.receipts = db.receipts
        BY <1>1, <2>1, <3>1 DEF Dbs
      <4>2. QED
        BY <1>1, <1>2, <2>1, <4>1 DEF LandedDbs
    <3>2. CASE ValidLease(db.job[m.w], m.token) /\ m.outcome # "completed"
      <4>1. Recovers(db, db', m.w, m.outcome) /\ db.job[m.w].status = "leased"
        BY <2>1, <3>2 DEF ValidLease
      <4>2. QED
        BY <1>1, <2>2, <4>1, RecoveryLands
    <3>3. CASE ValidLease(db.job[m.w], m.token) /\ m.outcome = "completed"
      <4>1. /\ db.job[m.w].status \in Unfinished
            /\ Touches(db, db', m.w) /\ Completes(db, db', m.w) /\ moved[m.w] > 0
        BY <1>1, <2>1, <3>3 DEF ValidLease, Unfinished
      <4>2. QED
        BY <1>1, <2>2, <4>1, TransactionLands
    <3>4. QED
      BY <3>1, <3>2, <3>3
  <2>4. QED
    BY <1>1, <2>1, <2>3 DEF Landing
<1>13. CASE DirectStep
  <2>1. /\ db'.receipts = db.receipts /\ UNCHANGED <<bot, net, arriving, moved>>
        /\ \A v \in Withdrawals : db'.job[v].status = "completed" <=> db.job[v].status = "completed"
    BY <1>13, DirectStepDoes
  <2>2. db' \in LandedDbs(moved', toPlayer')
    BY <1>1, <1>2, <2>1 DEF LandedDbs
  <2>3. QED
    BY <1>1, <2>1, <2>2 DEF Landing
<1>14. QED
  BY <1>4, <1>5, <1>6, <1>7, <1>8, <1>9, <1>10, <1>11, <1>12, <1>13, NextIs

(* A release that counts as done has landed, if no two are of amounts the   *)
(* server abbreviates alike: no refusal, no expired lease and no receipt of *)
(* another payment sends the player's payout to a teller without the money. *)
THEOREM DoneMeansLanded ==
    ASSUME ConstantsOK, AmountsDiffer PROVE Spec => []CompletedHasLanded
<1>1. Init => Landing
  <2> SUFFICES ASSUME Init PROVE Landing
    OBVIOUS
  <2>1. db \in FairDbs(toPlayer)
    BY InitIsFair DEF IInv
  <2>2. /\ \A w \in Withdrawals : db.job[w].status = "none"
        /\ db.receipts = << >> /\ arriving = << >> /\ net = {} /\ bot.phase = "idle"
    BY DEF Init, NoJob, Row, Idle
  <2>3. QED
    BY <2>1, <2>2 DEF Landing, LandedDbs
<1>2. IInv /\ Landing /\ [Next]_vars => Landing'
  BY LandingStep
<1>3. Landing => CompletedHasLanded
  BY DEF Landing, LandedDbs, CompletedHasLanded
<1>4. QED
  BY <1>1, <1>2, <1>3, Inductive, PTL DEF Spec

-----------------------------------------------------------------------------
(* A withdrawal that waits, waits for something                             *)

WaitingDbs ==
    {d \in Dbs : \A w \in Withdrawals :
        d.withdrawal[w].status = "awaiting_vault" => d.job[w].status \in {"queued", "leased"}}

(* Dealing with one failed release strands no withdrawal.                   *)
LEMMA RecoveryLeavesHope ==
    ASSUME NEW d \in WaitingDbs, NEW w \in Withdrawals, NEW e, Touches(d, e, w),
           Completes(d, e, w) \/ SentAgain(d, e, w) \/ GivenUp(d, e, w)
    PROVE  e \in WaitingDbs
<1>1. e.withdrawal[w].status = "awaiting_vault" => e.job[w].status \in {"queued", "leased"}
  BY DEF Completes, SentAgain, GivenUp
<1>2. QED
  BY <1>1 DEF WaitingDbs, Touches, OthersStand

(* Nor does a sweep of leases.                                              *)
LEMMA SweepLeavesHope ==
    ASSUME ConstantsOK, NEW d \in WaitingDbs
    PROVE  SweepLeases(d) \in WaitingDbs
<1>1. ASSUME NEW e \in WaitingDbs, NEW w \in Withdrawals
      PROVE  SweepRelease(e, w) \in WaitingDbs
  <2>1. e \in Dbs
    BY DEF WaitingDbs
  <2>2. CASE LeaseRanOut(e.job[w])
    <3>1. Recovers(e, SweepRelease(e, w), w, "LEASE_EXPIRED")
      BY <2>1, <2>2, SweepReleaseDoes
    <3>2. QED
      BY <3>1, RecoveryLeavesHope DEF Recovers
  <2>3. CASE ~LeaseRanOut(e.job[w])
    BY <2>1, <2>3, SweepReleaseDoes
  <2>4. QED
    BY <2>2, <2>3
<1>2. QED
  BY <1>1, SweepKeeps DEF ConstantsOK

(* Nor does any other step while nobody stops the vault.                    *)
LEMMA WaitingStep ==
    ASSUME ConstantsOK, Stops = 0, IInv, db \in WaitingDbs, [Next]_vars
    PROVE  db' \in WaitingDbs
<1>1. db \in Dbs /\ db' \in Dbs
  BY StepIsFair DEF IInv, FairDbs
<1>2. CASE db' = db
  BY <1>2
<1>3. CASE Poll
  <2> DEFINE d == SweepLeases(db)
  <2>1. d \in WaitingDbs
    BY SweepLeavesHope
  <2>2. ASSUME NEW w \in Withdrawals, NEW t \in Tokens, db' = [d EXCEPT !.job[w] = Lease(@, t)]
        PROVE  db' \in WaitingDbs
    <3> HIDE DEF d
    <3>1. d.job \in [Withdrawals -> JobRows] /\ d \in Dbs
      BY <2>1 DEF WaitingDbs, Dbs
    <3>2. Lease(d.job[w], t).status = "leased"
      BY <3>1 DEF Lease, JobRows
    <3>3. /\ db'.job = [d.job EXCEPT ![w] = Lease(d.job[w], t)]
          /\ db'.withdrawal = d.withdrawal
      BY <2>2, <3>1 DEF Dbs
    <3>4. QED
      BY <1>1, <2>1, <3>1, <3>2, <3>3 DEF WaitingDbs
  <2>3. QED
    BY <1>3, <2>1, <2>2 DEF Poll
<1>4. CASE ReceiptArrives
  <2> DEFINE r == [display |-> Head(arriving),
                   after   |-> {w \in Withdrawals : db.job[w].status # "none"},
                   settles |-> None]
             d == Stored(db, r)
  <2>1. /\ r \in Receipts /\ d \in Dbs
        /\ \/ db' = d
           \/ \E w \in Withdrawals : Touches(d, db', w) /\ Completes(d, db', w)
    BY <1>4, ReceiptArrivesDoes
  <2>2. d.job = db.job /\ d.withdrawal = db.withdrawal
    <3> HIDE DEF r
    <3> QED
      BY <1>1, <2>1, StoredDoes
  <2> HIDE DEF d, r
  <2>3. d \in WaitingDbs
    BY <2>1, <2>2 DEF WaitingDbs
  <2>4. QED
    BY <2>1, <2>3, RecoveryLeavesHope
<1>5. ASSUME NEW m \in net, ReportArrives(m)
      PROVE  db' \in WaitingDbs
  <2>1. /\ m \in Reports
        /\ IF ~ValidLease(db.job[m.w], m.token) THEN db' = [db EXCEPT !.quarantined = TRUE]
           ELSE IF m.outcome # "completed" THEN Recovers(db, db', m.w, m.outcome)
           ELSE Touches(db, db', m.w) /\ Completes(db, db', m.w)
    BY <1>5, ReportArrivesDoes
  <2>2. CASE db' = [db EXCEPT !.quarantined = TRUE]
    <3>1. db'.job = db.job /\ db'.withdrawal = db.withdrawal
      BY <1>1, <2>2 DEF Dbs
    <3>2. QED
      BY <1>1, <3>1 DEF WaitingDbs
  <2>3. CASE /\ Touches(db, db', m.w)
             /\ Completes(db, db', m.w) \/ SentAgain(db, db', m.w) \/ GivenUp(db, db', m.w)
    BY <2>1, <2>3, RecoveryLeavesHope DEF Reports
  <2>4. QED
    BY <2>1, <2>2, <2>3 DEF Recovers
<1>6. CASE DirectStep
  <2>1. Calm(db, db')
    BY <1>6, DirectStepDoes
  <2>2. QED
    BY <1>1, <2>1 DEF Calm, WaitingDbs
<1>7. CASE GameMoves \/ GameRefuses \/ Report \/ BotRestarts \/ \E m \in net : LoseReport(m)
  BY <1>7 DEF GameMoves, GameRefuses, Report, BotRestarts, LoseReport
<1>8. QED
  BY <1>2, <1>3, <1>4, <1>5, <1>6, <1>7, NextIs DEF vars

(* Behind a withdrawal that waits for the vault there is a release that can *)
(* still be made, if no operator takes the vault out of service: one sent   *)
(* again, a review that ends, a late receipt leave none waiting for nothing.*)
THEOREM NoneWaitsForNothing ==
    ASSUME ConstantsOK, Stops = 0 PROVE Spec => []WaitsForSomething
<1> DEFINE Hope == db \in WaitingDbs
<1>1. Init => Hope
  <2> SUFFICES ASSUME Init PROVE db \in WaitingDbs
    OBVIOUS
  <2>1. db \in Dbs
    BY InitIsFair DEF IInv, FairDbs
  <2>2. \A w \in Withdrawals : db.withdrawal[w].status = "none"
    BY DEF Init
  <2>3. QED
    BY <2>1, <2>2 DEF WaitingDbs
<1>2. IInv /\ Hope /\ [Next]_vars => Hope'
  BY WaitingStep
<1>3. Hope => WaitsForSomething
  BY DEF WaitingDbs, WaitsForSomething
<1> HIDE DEF Hope
<1>4. QED
  BY <1>1, <1>2, <1>3, Inductive, PTL DEF Spec

-----------------------------------------------------------------------------
(* A release is moved once, if the teller is heard first                    *)

(* Money that moved for a release that is not done: its lease stands and a  *)
(* receipt for it is in.                                                    *)
Receipted(gone, d, w) ==
    gone[w] > 0 /\ d.job[w].status # "completed" =>
        d.job[w].status = "leased" /\ LandedReceipts(d, w) # {}

ReceiptedDbs(gone) == {d \in Dbs : \A w \in Withdrawals : Receipted(gone, d, w)}

(* The same with the receipt possibly on its way; what the vault has in     *)
(* hand has not moved; a refusal for funds is never of money that moved.    *)
Once ==
    /\ \A w \in Withdrawals :
          /\ moved[w] <= 1
          /\ moved[w] > 0 /\ db.job[w].status # "completed" =>
                /\ db.job[w].status = "leased"
                /\ \/ LandedReceipts(db, w) # {}
                   \/ \E i \in DOMAIN arriving : arriving[i] = Display[w]
    /\ bot # Idle => net = {}
    /\ bot.phase = "holding" =>
          arriving = << >> /\ moved[bot.w] = 0 /\ db.job[bot.w].status = "leased"
    /\ bot.phase = "settled" /\ bot.outcome = "PAYOUT_INSUFFICIENT_FUNDS" => moved[bot.w] = 0
    /\ \A m \in net : m.outcome = "PAYOUT_INSUFFICIENT_FUNDS" => moved[m.w] = 0

(* A transaction for one release leaves the receipts of the others free.    *)
LEMMA OthersKeepReceipts ==
    ASSUME AmountsDiffer, NEW d \in Dbs, NEW w \in Withdrawals, NEW v \in Withdrawals, v # w,
           NEW e, Touches(d, e, w)
    PROVE  LandedReceipts(e, v) = LandedReceipts(d, v)
<1>1. /\ DOMAIN e.receipts = DOMAIN d.receipts
      /\ \A j \in DOMAIN d.receipts :
            /\ e.receipts[j].display = d.receipts[j].display
            /\ e.receipts[j].after = d.receipts[j].after
            /\ d.receipts[j].display = Display[v] => e.receipts[j].settles = d.receipts[j].settles
  BY DEF Touches, ReceiptsStand, AmountsDiffer
<1>2. QED
  BY <1>1 DEF LandedReceipts

(* A sweep of leases keeps every landed release either receipted or done.   *)
LEMMA SweepKeepsReceipted ==
    ASSUME ConstantsOK, AmountsDiffer, NEW gone \in [Withdrawals -> Nat],
           NEW d \in ReceiptedDbs(gone)
    PROVE  SweepLeases(d) \in ReceiptedDbs(gone)
<1>1. ASSUME NEW e \in ReceiptedDbs(gone), NEW w \in Withdrawals
      PROVE  SweepRelease(e, w) \in ReceiptedDbs(gone)
  <2>1. e \in Dbs /\ \A v \in Withdrawals : Receipted(gone, e, v)
    BY DEF ReceiptedDbs
  <2>2. CASE LeaseRanOut(e.job[w])
    <3> DEFINE f == SweepRelease(e, w)
    <3>1. Recovers(e, f, w, "LEASE_EXPIRED")
      BY <2>1, <2>2, SweepReleaseDoes
    <3>2. Touches(e, f, w) /\ (LandedReceipts(e, w) # {} => f.job[w].status = "completed")
      BY <3>1 DEF Recovers, Completes
    <3>3. e.job[w].status = "leased"
      BY <2>2 DEF LeaseRanOut
    <3>4. Receipted(gone, f, w)
      BY <2>1, <3>2, <3>3 DEF Receipted
    <3>5. ASSUME NEW v \in Withdrawals, v # w
          PROVE  Receipted(gone, f, v)
      <4>1. f.job[v] = e.job[v]
        BY <3>2, <3>5 DEF Touches, OthersStand
      <4>2. LandedReceipts(f, v) = LandedReceipts(e, v)
        <5> HIDE DEF f
        <5> QED
          BY <2>1, <3>2, <3>5, OthersKeepReceipts
      <4>3. QED
        BY <2>1, <4>1, <4>2 DEF Receipted
    <3>6. f \in Dbs
      BY <3>2 DEF Touches
    <3>7. QED
      BY <3>4, <3>5, <3>6 DEF ReceiptedDbs
  <2>3. CASE ~LeaseRanOut(e.job[w])
    BY <2>1, <2>3, SweepReleaseDoes
  <2>4. QED
    BY <2>2, <2>3
<1>2. QED
  BY <1>1, SweepKeeps DEF ConstantsOK

(* Every step keeps a landed release from being sent again.                 *)
LEMMA OnceStep ==
    ASSUME ConstantsOK, AmountsDiffer, Stops = 0, Prompt, IInv, Landing, Once, [Next]_vars
    PROVE  Once'
<1>1. /\ db \in Dbs /\ db' \in Dbs /\ moved \in [Withdrawals -> Nat] /\ bot \in Bots
      /\ net \subseteq Reports /\ arriving \in Seq(Shown) /\ db.job \in [Withdrawals -> JobRows]
  <2>1. IInv'
    BY StepIsFair
  <2>2. QED
    BY <2>1 DEF IInv, WorldOK, FairDbs, Dbs
<1>2. bot # Idle => bot.w \in Withdrawals
  BY <1>1 DEF Bots
<1>3. /\ Idle.phase = "idle"
      /\ Len(arriving) \in Nat /\ DOMAIN arriving = 1..Len(arriving)
  BY <1>1, LenProperties DEF Idle
<1>4. CASE UNCHANGED vars
  BY <1>4 DEF vars, Once, LandedReceipts
<1>5. CASE Poll
  <2> DEFINE d == SweepLeases(db)
  <2>1. /\ arriving = << >> /\ net = {} /\ bot.phase = "idle"
        /\ UNCHANGED <<net, arriving, moved, toPlayer, retries, stops>>
    BY <1>5 DEF Poll
  <2>2. db \in ReceiptedDbs(moved)
    BY <1>1, <2>1 DEF Once, ReceiptedDbs, Receipted
  <2>3. d \in ReceiptedDbs(moved)
    BY <1>1, <2>2, SweepKeepsReceipted
  <2>4. CASE db' = d /\ UNCHANGED bot
    <3>1. \A w \in Withdrawals : Receipted(moved, db', w)
      BY <2>3, <2>4 DEF ReceiptedDbs
    <3>2. QED
      BY <2>1, <2>4, <3>1 DEF Once, Receipted
  <2>5. CASE \E w \in Withdrawals, t \in Tokens \ TokensInUse(d) :
                /\ MayClaim(d, w)
                /\ db' = [d EXCEPT !.job[w] = Lease(@, t)]
                /\ bot' = [Idle EXCEPT !.phase = "holding", !.w = w, !.token = t]
    <3>1. PICK w \in Withdrawals, t \in Tokens :
                /\ MayClaim(d, w)
                /\ db' = [d EXCEPT !.job[w] = Lease(@, t)]
                /\ bot' = [Idle EXCEPT !.phase = "holding", !.w = w, !.token = t]
      BY <2>5
    <3> HIDE DEF d
    <3>2. bot'.phase = "holding" /\ bot'.w = w
      BY <3>1 DEF Idle
    <3>3. d \in Dbs /\ d.job \in [Withdrawals -> JobRows] /\ \A v \in Withdrawals : Receipted(moved, d, v)
      BY <2>3 DEF Dbs, ReceiptedDbs
    <3>4. Lease(d.job[w], t).status = "leased" /\ d.job[w].status = "queued"
      BY <3>1, <3>3 DEF Lease, JobRows, MayClaim, Claimable
    <3>5. db'.job = [d.job EXCEPT ![w] = Lease(d.job[w], t)] /\ db'.receipts = d.receipts
      BY <3>1, <3>3 DEF Dbs
    <3>6. moved[w] = 0
      BY <1>1, <3>3, <3>4 DEF Receipted
    <3>7. \A v \in Withdrawals : LandedReceipts(db', v) = LandedReceipts(d, v)
      BY <3>5 DEF LandedReceipts
    <3>8. \A v \in Withdrawals : Receipted(moved, db', v)
      BY <3>3, <3>4, <3>5, <3>6, <3>7 DEF Receipted
    <3>9. db'.job[w].status = "leased"
      BY <3>3, <3>4, <3>5
    <3>10. QED
      BY <2>1, <3>2, <3>6, <3>8, <3>9 DEF Once, Receipted
  <2>6. QED
    BY <1>5, <2>4, <2>5 DEF Poll
<1>6. CASE GameMoves
  <2>1. /\ bot.phase = "holding" /\ moved' = [moved EXCEPT ![bot.w] = @ + 1]
        /\ arriving' = Append(arriving, Display[bot.w])
        /\ UNCHANGED <<db, net>>
        /\ \E o \in {"completed"} \cup (Codes \ {"PAYOUT_NOT_SENT"}) :
              bot' = [bot EXCEPT !.phase = "settled", !.outcome = o]
    BY <1>6 DEF GameMoves
  <2>2. /\ bot.w \in Withdrawals /\ bot # Idle /\ net = {} /\ arriving = << >>
        /\ moved[bot.w] = 0 /\ db.job[bot.w].status = "leased"
    BY <1>2, <1>3, <2>1 DEF Once
  <2>3. /\ bot'.phase = "settled" /\ bot'.w = bot.w
        /\ bot'.outcome # "PAYOUT_INSUFFICIENT_FUNDS"
    <3>1. "PAYOUT_INSUFFICIENT_FUNDS" \notin Codes
      BY DEF ConstantsOK
    <3>2. QED
      BY <1>1, <2>1, <2>2, <3>1 DEF Bots
  <2>4. 1 \in DOMAIN arriving' /\ arriving'[1] = Display[bot.w]
    <3>1. Display[bot.w] \in Shown
      BY <2>2 DEF Shown
    <3>2. /\ arriving' \in Seq(Shown) /\ Len(arriving') = Len(arriving) + 1
          /\ arriving'[Len(arriving) + 1] = Display[bot.w]
      BY <1>1, <2>1, <3>1, AppendProperties
    <3>3. Len(arriving) = 0
      BY <2>2, EmptySeq
    <3>4. DOMAIN arriving' = 1..Len(arriving')
      BY <3>2, LenProperties
    <3>5. QED
      BY <3>2, <3>3, <3>4
  <2>5. ASSUME NEW w \in Withdrawals
        PROVE  /\ moved'[w] <= 1
               /\ moved'[w] > 0 /\ db'.job[w].status # "completed" =>
                    /\ db'.job[w].status = "leased"
                    /\ \/ LandedReceipts(db', w) # {}
                       \/ \E i \in DOMAIN arriving' : arriving'[i] = Display[w]
    <3>1. CASE w = bot.w
      BY <1>1, <2>1, <2>2, <2>4, <3>1
    <3>2. CASE w # bot.w
      <4>1. moved'[w] = moved[w]
        BY <1>1, <2>1, <3>2
      <4>2. ~\E i \in DOMAIN arriving : arriving[i] = Display[w]
        BY <1>3, <2>2, EmptySeq
      <4>3. /\ moved[w] <= 1
            /\ moved[w] > 0 /\ db.job[w].status # "completed" =>
                  db.job[w].status = "leased" /\ LandedReceipts(db, w) # {}
        BY <4>2 DEF Once
      <4>4. LandedReceipts(db', w) = LandedReceipts(db, w)
        BY <2>1 DEF LandedReceipts
      <4>5. QED
        BY <2>1, <4>1, <4>3, <4>4
    <3>3. QED
      BY <3>1, <3>2
  <2>6. QED
    BY <2>1, <2>2, <2>3, <2>5 DEF Once
<1>7. CASE GameRefuses
  <2>1. /\ bot.phase = "holding" /\ UNCHANGED <<db, net, arriving, moved>>
        /\ \E o : bot' = [bot EXCEPT !.phase = "settled", !.outcome = o]
    BY <1>7 DEF GameRefuses
  <2>2. bot # Idle /\ net = {} /\ moved[bot.w] = 0
    BY <1>3, <2>1 DEF Once
  <2>3. bot'.phase = "settled" /\ bot'.w = bot.w
    BY <1>1, <2>1, <2>2 DEF Bots
  <2>4. \A w \in Withdrawals : LandedReceipts(db', w) = LandedReceipts(db, w)
    BY <2>1 DEF LandedReceipts
  <2>5. QED
    BY <2>1, <2>2, <2>3, <2>4 DEF Once
<1>8. CASE Report
  <2>1. /\ bot.phase = "settled" /\ UNCHANGED <<db, arriving, moved>> /\ bot' = Idle
        /\ net' = net \cup {[w |-> bot.w, token |-> bot.token, outcome |-> bot.outcome]}
    BY <1>8 DEF Report
  <2>2. \A w \in Withdrawals : LandedReceipts(db', w) = LandedReceipts(db, w)
    BY <2>1 DEF LandedReceipts
  <2>3. \A m \in net' : m.outcome = "PAYOUT_INSUFFICIENT_FUNDS" => moved'[m.w] = 0
    BY <2>1 DEF Once
  <2>4. bot'.phase = "idle"
    BY <1>3, <2>1
  <2>5. QED
    BY <2>1, <2>2, <2>3, <2>4 DEF Once
<1>9. CASE BotRestarts
  <2>1. UNCHANGED <<db, net, arriving, moved>> /\ bot' = Idle /\ bot'.phase = "idle"
    BY <1>3, <1>9 DEF BotRestarts
  <2>2. \A w \in Withdrawals : LandedReceipts(db', w) = LandedReceipts(db, w)
    BY <2>1 DEF LandedReceipts
  <2>3. QED
    BY <2>1, <2>2 DEF Once
<1>10. CASE ReceiptArrives
  <2> DEFINE r == [display |-> Head(arriving),
                   after   |-> {w \in Withdrawals : db.job[w].status # "none"},
                   settles |-> None]
             d == Stored(db, r)
  <2>1. /\ arriving # << >> /\ arriving' = Tail(arriving)
        /\ UNCHANGED <<bot, net, moved, toPlayer, retries, stops>>
        /\ r \in Receipts /\ d \in Dbs
        /\ \/ db' = d
           \/ \E w \in Withdrawals :
                 /\ Display[w] = Head(arriving)
                 /\ d.job[w].status \in {"queued", "dead_letter"}
                 /\ Touches(d, db', w) /\ Completes(d, db', w)
    BY <1>10, ReceiptArrivesDoes
  <2>2. /\ d.job = db.job /\ Len(d.receipts) \in DOMAIN d.receipts
        /\ d.receipts[Len(d.receipts)] = r
        /\ DOMAIN d.receipts = DOMAIN db.receipts \cup {Len(d.receipts)}
        /\ \A j \in DOMAIN db.receipts : d.receipts[j] = db.receipts[j]
    <3> HIDE DEF r
    <3> QED
      BY <1>1, <2>1, StoredDoes
  <2>3. r.display = Head(arriving) /\ r.settles = None
        /\ \A w \in Withdrawals : db.job[w].status # "none" => w \in r.after
    OBVIOUS
  <2>4. /\ arriving' \in Seq(Shown) /\ Len(arriving') = Len(arriving) - 1
        /\ \A i \in 1..Len(arriving') : arriving'[i] = arriving[i + 1]
        /\ DOMAIN arriving' = 1..Len(arriving')
    BY <1>1, <2>1, HeadTailProperties, LenProperties
  <2>5. Head(arriving) = arriving[1]
    BY <1>1, <2>1
  <2> HIDE DEF r, d
  <2>6. ASSUME NEW w \in Withdrawals, moved[w] > 0, db.job[w].status # "completed"
        PROVE  /\ d.job[w].status = "leased"
               /\ \/ LandedReceipts(d, w) # {}
                  \/ \E i \in DOMAIN arriving' : arriving'[i] = Display[w]
    <3>1. /\ db.job[w].status = "leased"
          /\ \/ LandedReceipts(db, w) # {}
             \/ \E i \in DOMAIN arriving : arriving[i] = Display[w]
      BY <2>6 DEF Once
    <3>2. CASE LandedReceipts(db, w) # {}
      <4>1. PICK j \in DOMAIN db.receipts :
                /\ db.receipts[j].display = Display[w] /\ w \in db.receipts[j].after
                /\ db.receipts[j].settles = None
        BY <3>2 DEF LandedReceipts
      <4>2. j \in LandedReceipts(d, w)
        BY <2>2, <4>1 DEF LandedReceipts
      <4>3. QED
        BY <2>2, <3>1, <4>2
    <3>3. ASSUME NEW i \in DOMAIN arriving, arriving[i] = Display[w]
          PROVE  \/ LandedReceipts(d, w) # {}
                 \/ \E k \in DOMAIN arriving' : arriving'[k] = Display[w]
      <4>1. CASE i = 1
        <5>1. Len(d.receipts) \in LandedReceipts(d, w)
          BY <2>2, <2>3, <2>5, <3>1, <3>3, <4>1 DEF LandedReceipts
        <5>2. QED
          BY <5>1
      <4>2. CASE i # 1
        <5>1. i - 1 \in DOMAIN arriving' /\ arriving'[i - 1] = arriving[(i - 1) + 1] /\ (i - 1) + 1 = i
          BY <1>3, <2>4, <4>2
        <5>2. QED
          BY <3>3, <5>1
      <4>3. QED
        BY <4>1, <4>2
    <3>4. QED
      BY <2>2, <3>1, <3>2, <3>3
  <2>7. ASSUME NEW w \in Withdrawals, moved[w] > 0, db'.job[w].status # "completed"
        PROVE  /\ db'.job[w].status = "leased"
               /\ \/ LandedReceipts(db', w) # {}
                  \/ \E i \in DOMAIN arriving' : arriving'[i] = Display[w]
    <3>1. CASE db' = d
      BY <2>2, <2>6, <2>7, <3>1
    <3>2. ASSUME NEW v \in Withdrawals, Touches(d, db', v), Completes(d, db', v)
          PROVE  /\ db'.job[w].status = "leased"
                 /\ \/ LandedReceipts(db', w) # {}
                    \/ \E i \in DOMAIN arriving' : arriving'[i] = Display[w]
      <4>1. v # w
        BY <2>7, <3>2 DEF Completes
      <4>2. db'.job[w] = d.job[w]
        BY <3>2, <4>1 DEF Touches, OthersStand
      <4>3. LandedReceipts(db', w) = LandedReceipts(d, w)
        BY <2>1, <3>2, <4>1, OthersKeepReceipts
      <4>4. QED
        BY <2>2, <2>6, <2>7, <4>2, <4>3
    <3>3. QED
      BY <2>1, <3>1, <3>2
  <2>8. bot.phase # "holding"
    BY <2>1 DEF Once
  <2>9. QED
    BY <2>1, <2>7, <2>8 DEF Once
<1>11. CASE \E m \in net : LoseReport(m)
  <2>1. net' \subseteq net /\ UNCHANGED <<db, bot, arriving, moved>>
    BY <1>11 DEF LoseReport
  <2>2. \A w \in Withdrawals : LandedReceipts(db', w) = LandedReceipts(db, w)
    BY <2>1 DEF LandedReceipts
  <2>3. QED
    BY <2>1, <2>2 DEF Once
<1>12. ASSUME NEW m \in net, ReportArrives(m)
       PROVE  Once'
  <2>1. /\ m \in Reports /\ net' = net \ {m} /\ arriving = << >>
        /\ UNCHANGED <<bot, arriving, moved, toPlayer, retries, stops>>
        /\ IF ~ValidLease(db.job[m.w], m.token) THEN db' = [db EXCEPT !.quarantined = TRUE]
           ELSE IF m.outcome # "completed" THEN Recovers(db, db', m.w, m.outcome)
           ELSE Touches(db, db', m.w) /\ Completes(db, db', m.w)
    BY <1>12, ReportArrivesDoes
  <2>2. bot = Idle /\ bot'.phase = "idle" /\ m.w \in Withdrawals
    BY <1>3, <1>12, <2>1 DEF Once, Reports
  <2>3. \A w \in Withdrawals : Receipted(moved, db, w)
    BY <1>3, <2>1, EmptySeq DEF Once, Receipted
  <2>4. \A w \in Withdrawals : Receipted(moved, db', w)
    <3>1. CASE ~ValidLease(db.job[m.w], m.token)
      <4>1. db'.job = db.job /\ db'.receipts = db.receipts
        BY <1>1, <2>1, <3>1 DEF Dbs
      <4>2. \A w \in Withdrawals : LandedReceipts(db', w) = LandedReceipts(db, w)
        BY <4>1 DEF LandedReceipts
      <4>3. QED
        BY <2>3, <4>1, <4>2 DEF Receipted
    <3>2. CASE ValidLease(db.job[m.w], m.token)
      <4>1. Touches(db, db', m.w)
        BY <2>1, <3>2 DEF Recovers
      <4>2. Receipted(moved, db', m.w)
        <5>1. moved[m.w] > 0 => m.outcome # "PAYOUT_INSUFFICIENT_FUNDS"
          BY <1>12 DEF Once
        <5>2. db.job[m.w].status = "leased"
          BY <3>2 DEF ValidLease
        <5>3. moved[m.w] > 0 => LandedReceipts(db, m.w) # {}
          BY <2>2, <2>3, <5>2 DEF Receipted
        <5>4. moved[m.w] > 0 => db'.job[m.w].status = "completed"
          BY <2>1, <3>2, <5>1, <5>3 DEF Recovers, Completes
        <5>5. QED
          BY <5>4 DEF Receipted
      <4>3. ASSUME NEW v \in Withdrawals, v # m.w
            PROVE  Receipted(moved, db', v)
        <5>1. db'.job[v] = db.job[v]
          BY <4>1, <4>3 DEF Touches, OthersStand
        <5>2. LandedReceipts(db', v) = LandedReceipts(db, v)
          BY <1>1, <2>2, <4>1, <4>3, OthersKeepReceipts
        <5>3. QED
          BY <2>3, <5>1, <5>2 DEF Receipted
      <4>4. QED
        BY <4>2, <4>3
    <3>3. QED
      BY <3>1, <3>2
  <2>5. QED
    BY <2>1, <2>2, <2>4 DEF Once, Receipted
<1>13. CASE DirectStep
  <2>1. /\ db'.receipts = db.receipts /\ UNCHANGED <<bot, net, arriving, moved>>
        /\ \A v \in Withdrawals : db'.job[v].status = "completed" <=> db.job[v].status = "completed"
        /\ Calm(db, db')
    BY <1>13, DirectStepDoes
  <2>2. \A w \in Withdrawals : LandedReceipts(db', w) = LandedReceipts(db, w)
    BY <2>1 DEF LandedReceipts
  <2>3. \A w \in Withdrawals : db.job[w].status = "leased" => db'.job[w].status = "leased"
    BY <2>1 DEF Calm
  <2>4. bot.phase = "holding" => bot.w \in Withdrawals
    BY <1>2, <1>3
  <2>5. QED
    BY <2>1, <2>2, <2>3, <2>4 DEF Once
<1>14. QED
  BY <1>4, <1>5, <1>6, <1>7, <1>8, <1>9, <1>10, <1>11, <1>12, <1>13, NextIs

(* A release that landed is not sent again, if the teller's receipt is in   *)
(* by the time the vault reports, the amounts differ and no operator stops  *)
(* the vault: its money leaves the vault once, however often leases run     *)
(* out, reports are lost and the vault restarts.                            *)
THEOREM ReleaseMovesOnce ==
    ASSUME ConstantsOK, AmountsDiffer, Stops = 0, Prompt PROVE Spec => []MovedOnce
<1>1. Init => Once /\ Landing
  <2> SUFFICES ASSUME Init PROVE Once /\ Landing
    OBVIOUS
  <2>1. db \in FairDbs(toPlayer)
    BY InitIsFair DEF IInv
  <2>2. /\ \A w \in Withdrawals : db.job[w].status = "none"
        /\ db.receipts = << >> /\ arriving = << >> /\ net = {} /\ bot.phase = "idle"
        /\ moved = [w \in Withdrawals |-> 0]
    BY DEF Init, NoJob, Row, Idle
  <2>3. QED
    BY <2>1, <2>2 DEF Landing, LandedDbs, Once
<1>2. IInv /\ Landing /\ [Next]_vars => Landing'
  BY LandingStep
<1>3. IInv /\ Landing /\ Once /\ [Next]_vars => Once'
  BY OnceStep
<1>4. Once => MovedOnce
  BY DEF Once, MovedOnce
<1>5. QED
  BY <1>1, <1>2, <1>3, <1>4, Inductive, PTL DEF Spec

(* A player's hop waits for the release, the player has the money once, and *)
(* a release heard of in time leaves the vault once.                        *)
THEOREM ReleaseMoneyMovesOnce ==
    ASSUME ConstantsOK, AmountsDiffer PROVE Spec => []MoneyMovesOnce
<1>1. CASE Prompt /\ Stops = 0
  <2>1. Spec => []MovedOnce
    BY <1>1, ReleaseMovesOnce
  <2>2. PayoutFollowsRelease /\ PlayerPaidOnce /\ MovedOnce => MoneyMovesOnce
    BY DEF MoneyMovesOnce
  <2>3. QED
    BY <2>1, <2>2, PlayerWaitsForRelease, MoneyReachesPlayerOnce, PTL
<1>2. CASE ~(Prompt /\ Stops = 0)
  <2>1. PayoutFollowsRelease /\ PlayerPaidOnce => MoneyMovesOnce
    BY <1>2 DEF MoneyMovesOnce
  <2>2. QED
    BY <2>1, PlayerWaitsForRelease, MoneyReachesPlayerOnce, PTL
<1>3. QED
  BY <1>1, <1>2

(* A sequence without one of its elements.                                  *)
LEMMA RemoveAtDoes ==
    ASSUME NEW S, NEW s \in Seq(S), NEW i \in 1..Len(s)
    PROVE  /\ RemoveAt(s, i) \in Seq(S) /\ Len(RemoveAt(s, i)) = Len(s) - 1
           /\ \A k \in 1..(Len(s) - 1) :
                 RemoveAt(s, i)[k] = IF k < i THEN s[k] ELSE s[k + 1]
  <1> DEFINE front == SubSeq(s, 1, i - 1)
             back  == SubSeq(s, i + 1, Len(s))
  <1>1. Len(s) \in Nat /\ i \in Nat
    BY LenProperties
  <1>2. /\ front \in Seq(S) /\ Len(front) = i - 1
        /\ \A k \in 1..(i - 1) : front[k] = s[k]
    BY <1>1, SubSeqProperties
  <1>3. /\ back \in Seq(S) /\ Len(back) = Len(s) - i
        /\ \A k \in 1..(Len(s) - i) : back[k] = s[k + i]
    BY <1>1, SubSeqProperties
  <1> HIDE DEF front, back
  <1>4. /\ front \o back \in Seq(S) /\ Len(front \o back) = Len(s) - 1
        /\ \A k \in 1..(Len(s) - 1) :
              (front \o back)[k] = IF k <= i - 1 THEN front[k] ELSE back[k - (i - 1)]
    <2>1. /\ front \o back \in Seq(S) /\ Len(front \o back) = Len(front) + Len(back)
          /\ \A k \in 1..(Len(front) + Len(back)) :
                (front \o back)[k] = IF k <= Len(front) THEN front[k] ELSE back[k - Len(front)]
      BY <1>2, <1>3, ConcatProperties
    <2>2. Len(front) + Len(back) = Len(s) - 1
      BY <1>1, <1>2, <1>3
    <2> QED BY <1>2, <2>1, <2>2
  <1>5. RemoveAt(s, i) = front \o back
    BY DEF RemoveAt, front, back
  <1>6. ASSUME NEW k \in 1..(Len(s) - 1)
        PROVE  (front \o back)[k] = IF k < i THEN s[k] ELSE s[k + 1]
    <2>1. CASE k < i
      BY <1>1, <1>2, <1>4, <2>1
    <2>2. CASE ~(k < i)
      <3>1. k - (i - 1) \in 1..(Len(s) - i) /\ (k - (i - 1)) + i = k + 1
        BY <1>1, <2>2
      <3> QED BY <1>1, <1>3, <1>4, <2>2, <3>1
    <2> QED BY <2>1, <2>2
  <1> QED BY <1>4, <1>5, <1>6

-----------------------------------------------------------------------------
(* The teller's float                                                       *)

HIDE DEF MaxAttemptsAssumption, NoneIsNoToken

TellerJobs == {j \in Float!Job : j.kind # "vault_release" /\ (j.kind = "cash_payout" => j.w \in Asked)}
VaultJobs  == {j \in Float!Job : j.kind = "vault_release" /\ j.w \in Asked}
JobsOf(b)  == IF b = "teller" THEN TellerJobs ELSE VaultJobs
Hands      == [phase : {"idle", "sent", "settled"}, at : Nat, paid : BOOLEAN]

FloatJobsAgree ==
    /\ jobs \in [Float!Bots -> Seq(Float!Job)]
    /\ \A b \in Float!Bots : jobs[b] \in Seq(JobsOf(b))

FloatHandsAgree ==
    /\ hand \in [Float!Bots -> Hands]
    /\ \A b \in Float!Bots :
          IF hand[b].phase = "idle" THEN hand[b] = Float!NoHand
          ELSE hand[b].at \in DOMAIN jobs[b] /\ (hand[b].phase = "sent" => ~hand[b].paid)

FloatInv ==
    /\ status \in [Asked -> Float!Statuses] /\ funding \in [Asked -> {"float", "vault"}]
    /\ FloatJobsAgree /\ FloatHandsAgree
    /\ books \in [Float!Bots -> Int] /\ held \in [Float!Bots -> Nat] /\ receipt \in Nat
    /\ Float!BooksAddUp

(* What the queue of each bot is made of.                                   *)
LEMMA FloatJobTypes ==
    ASSUME FloatJobsAgree, NEW b \in Float!Bots, NEW i \in DOMAIN jobs[b]
    PROVE  /\ jobs[b][i] \in Float!Job /\ jobs[b][i] \in JobsOf(b)
           /\ jobs[b][i].amount \in Nat /\ jobs[b][i].amount > 0
           /\ (b = "vault" <=> jobs[b][i].kind = "vault_release")
           /\ (jobs[b][i].kind # "vault_sweep" => jobs[b][i].w \in Asked)
  <1>1. jobs[b] \in Seq(JobsOf(b)) /\ b \in {"teller", "vault"}
    BY DEF FloatJobsAgree, Float!Bots
  <1>2. DOMAIN jobs[b] = 1..Len(jobs[b])
    BY <1>1, LenProperties
  <1>3. jobs[b][i] \in JobsOf(b)
    BY <1>1, <1>2, ElementOfSeq
  <1> QED BY <1>1, <1>3 DEF JobsOf, TellerJobs, VaultJobs, Float!Job

(* What a busy bot has in hand stays there as jobs are added behind it.     *)
LEMMA FloatJobsGrow ==
    ASSUME FloatInv, UNCHANGED hand, NEW b \in Float!Bots, NEW j \in JobsOf(b),
           jobs' = [jobs EXCEPT ![b] = Append(@, j)]
    PROVE  /\ FloatJobsAgree' /\ FloatHandsAgree'
           /\ \A c \in Float!Bots : Float!Unbooked(c)' = Float!Unbooked(c)
  <1>1. /\ jobs \in [Float!Bots -> Seq(Float!Job)] /\ jobs[b] \in Seq(JobsOf(b))
        /\ j \in Float!Job /\ JobsOf(b) \subseteq Float!Job
    BY DEF FloatInv, FloatJobsAgree, JobsOf, TellerJobs, VaultJobs
  <1>2. /\ Append(jobs[b], j) \in Seq(JobsOf(b)) /\ Append(jobs[b], j) \in Seq(Float!Job)
        /\ Len(Append(jobs[b], j)) = Len(jobs[b]) + 1
        /\ \A i \in 1..Len(jobs[b]) : Append(jobs[b], j)[i] = jobs[b][i]
    BY <1>1, AppendProperties
  <1>3. DOMAIN jobs[b] = 1..Len(jobs[b]) /\ DOMAIN Append(jobs[b], j) = 1..(Len(jobs[b]) + 1)
        /\ Len(jobs[b]) \in Nat
    BY <1>1, <1>2, LenProperties
  <1>4. FloatJobsAgree'
    BY <1>1, <1>2 DEF FloatInv, FloatJobsAgree
  <1>5. ASSUME NEW c \in Float!Bots, NEW i \in DOMAIN jobs[c]
        PROVE  i \in DOMAIN jobs'[c] /\ jobs'[c][i] = jobs[c][i]
    BY <1>1, <1>2, <1>3
  <1>6. FloatHandsAgree'
    BY <1>5 DEF FloatInv, FloatHandsAgree
  <1>7. \A c \in Float!Bots : Float!Unbooked(c)' = Float!Unbooked(c)
    <2> SUFFICES ASSUME NEW c \in Float!Bots PROVE Float!Unbooked(c)' = Float!Unbooked(c)
      OBVIOUS
    <2>1. hand[c].phase = "settled" => Float!JobInHand(c)' = Float!JobInHand(c)
      <3>1. hand[c].phase = "settled" => hand[c].at \in DOMAIN jobs[c]
        BY DEF FloatInv, FloatHandsAgree
      <3>2. hand'[c] = hand[c]
        OBVIOUS
      <3> QED BY <1>5, <3>1, <3>2 DEF Float!JobInHand
    <2> QED BY <2>1 DEF Float!Unbooked, Float!Payee
  <1> QED BY <1>4, <1>6, <1>7

(* A sum within the module.                                                 *)
LEMMA FloatSumIsFold ==
    ASSUME NEW S, IsFiniteSet(S), NEW f, \A x \in S : f[x] \in Nat
    PROVE  Float!MapThenSumSet(LAMBDA x : f[x], S) = SumOf(f, S) /\ SumOf(f, S) \in Nat
  <1>1. Float!MapThenSumSet(LAMBDA x : f[x], S) = MapThenSumSet(LAMBDA x : f[x], S)
    BY DEF Float!MapThenSumSet, Float!MapThenFoldSet, MapThenSumSet, MapThenFoldSet
  <1> QED BY <1>1, SumIsFold, SumType

(* What the teller is due to pay is a number.                               *)
LEMMA OwedType == ASSUME FloatJobsAgree PROVE Float!Owed \in Nat
  <1> DEFINE S == DOMAIN jobs["teller"]
             f == [i \in S |-> IF jobs["teller"][i].kind = "cash_payout"
                               THEN jobs["teller"][i].amount ELSE 0]
  <1>1. "teller" \in Float!Bots
    BY DEF Float!Bots
  <1>2. S = 1..Len(jobs["teller"]) /\ Len(jobs["teller"]) \in Nat
    BY <1>1, LenProperties DEF FloatJobsAgree
  <1>3. IsFiniteSet(S)
    BY <1>2, FS_Interval
  <1>4. \A i \in S : f[i] \in Nat
    BY <1>1, FloatJobTypes
  <1>5. Float!Owed = Float!MapThenSumSet(LAMBDA x : f[x], S)
    BY DEF Float!Owed, Float!MapThenSumSet, Float!MapThenFoldSet
  <1> HIDE DEF f, S
  <1>6. Float!MapThenSumSet(LAMBDA x : f[x], S) = SumOf(f, S)
    BY <1>3, <1>4, FloatSumIsFold
  <1>7. SumOf(f, S) \in Nat
    BY <1>3, <1>4, SumType
  <1> QED BY <1>5, <1>6, <1>7

(* A sweep is of something.                                                 *)
LEMMA SweepIsQueued ==
    ASSUME Float!ConstantsOK, FloatInv, NEW balance \in Int, Float!QueueVaultSweep(balance)
    PROVE  \/ UNCHANGED jobs
           \/ \E j \in JobsOf("teller") : jobs' = [jobs EXCEPT !["teller"] = Append(@, j)]
  <1>1. Float!Owed \in Nat /\ Target \in Nat
    BY OwedType DEF FloatInv, Float!ConstantsOK
  <1>2. ASSUME ~UNCHANGED jobs
        PROVE  \E j \in JobsOf("teller") : jobs' = [jobs EXCEPT !["teller"] = Append(@, j)]
    <2> DEFINE j == Float!Queued("vault_sweep", 0, balance - Float!Owed - Target)
    <2>1. /\ ~(balance - Float!Owed <= Target)
          /\ jobs' = [jobs EXCEPT !["teller"] = Append(@, j)]
      BY <1>2 DEF Float!QueueVaultSweep
    <2>2. balance - Float!Owed - Target \in Nat \ {0}
      BY <1>1, <2>1
    <2>3. j \in JobsOf("teller")
      BY <2>2 DEF JobsOf, TellerJobs, Float!Job, Float!Queued
    <2> QED BY <2>1, <2>3
  <1> QED BY <1>2

(* A busy bot's job, and the two amounts that are in no books.              *)
LEMMA FloatHandTypes ==
    ASSUME FloatInv, NEW b \in Float!Bots, hand[b].phase # "idle"
    PROVE  /\ hand[b].at \in DOMAIN jobs[b] /\ hand[b].at \in 1..Len(jobs[b])
           /\ Float!JobInHand(b) \in JobsOf(b) /\ Float!JobInHand(b) \in Float!Job
           /\ Float!JobInHand(b).amount \in Nat /\ Float!JobInHand(b).amount > 0
           /\ (b = "vault" <=> Float!JobInHand(b).kind = "vault_release")
           /\ (Float!JobInHand(b).kind # "vault_sweep" => Float!JobInHand(b).w \in Asked)
  <1>1. hand[b].at \in DOMAIN jobs[b]
    BY DEF FloatInv, FloatHandsAgree
  <1>2. DOMAIN jobs[b] = 1..Len(jobs[b])
    BY LenProperties DEF FloatInv, FloatJobsAgree
  <1> QED BY <1>1, <1>2, FloatJobTypes DEF FloatInv, Float!JobInHand

(* A job is taken out of a queue and the bot is idle.                       *)
LEMMA FloatJobsShrink ==
    ASSUME FloatInv, NEW b \in Float!Bots, hand[b].phase # "idle",
           hand' = [hand EXCEPT ![b] = Float!NoHand],
           NEW rest, rest = [jobs EXCEPT ![b] = Float!RemoveAt(@, hand[b].at)]
    PROVE  /\ rest \in [Float!Bots -> Seq(Float!Job)]
           /\ \A c \in Float!Bots : rest[c] \in Seq(JobsOf(c))
           /\ \A c \in Float!Bots \ {b} : rest[c] = jobs[c]
  <1>1. jobs[b] \in Seq(JobsOf(b)) /\ JobsOf(b) \subseteq Float!Job
    BY DEF FloatInv, FloatJobsAgree, JobsOf, TellerJobs, VaultJobs
  <1>2. Float!RemoveAt(jobs[b], hand[b].at) = RemoveAt(jobs[b], hand[b].at)
    BY DEF Float!RemoveAt, RemoveAt
  <1>3. RemoveAt(jobs[b], hand[b].at) \in Seq(JobsOf(b))
    BY <1>1, FloatHandTypes, RemoveAtDoes
  <1>4. RemoveAt(jobs[b], hand[b].at) \in Seq(Float!Job)
    BY <1>1, <1>3
  <1> QED BY <1>2, <1>3, <1>4 DEF FloatInv, FloatJobsAgree

(* A request queues a payout, or a release and what waits for it.           *)
LEMMA FloatRequest ==
    ASSUME Float!ConstantsOK, FloatInv, NEW w \in Asked, Float!Request(w)
    PROVE  FloatInv'
  <1> USE DEF FloatInv
  <1>1. Amount[w] \in Nat /\ Amount[w] > 0 /\ Target \in Nat /\ books["teller"] \in Int
    BY DEF Float!ConstantsOK, Float!Bots
  <1>2. "teller" \in Float!Bots /\ "vault" \in Float!Bots
    BY DEF Float!Bots
  <1>3. \E b \in Float!Bots : \E j \in JobsOf(b) : jobs' = [jobs EXCEPT ![b] = Append(@, j)]
    <2>1. CASE ~VaultHeard \/ books["teller"] >= Amount[w]
      <3> DEFINE j == Float!Queued("cash_payout", w, Amount[w])
      <3>1. j \in JobsOf("teller")
        BY <1>1 DEF JobsOf, TellerJobs, Float!Job, Float!Queued
      <3>2. jobs' = [jobs EXCEPT !["teller"] = Append(@, j)]
        BY <2>1 DEF Float!Request
      <3> QED BY <1>2, <3>1, <3>2
    <2>2. CASE ~(~VaultHeard \/ books["teller"] >= Amount[w])
      <3> DEFINE j == Float!Queued("vault_release", w, Amount[w] + Target - books["teller"])
      <3>1. Amount[w] + Target - books["teller"] \in Nat \ {0}
        BY <1>1, <2>2
      <3>2. j \in JobsOf("vault")
        BY <3>1 DEF JobsOf, VaultJobs, Float!Job, Float!Queued
      <3>3. jobs' = [jobs EXCEPT !["vault"] = Append(@, j)]
        BY <2>2 DEF Float!Request
      <3> QED BY <1>2, <3>2, <3>3
    <2> QED BY <2>1, <2>2
  <1>4. UNCHANGED <<hand, books, held, receipt>>
    BY DEF Float!Request
  <1>5. /\ FloatJobsAgree' /\ FloatHandsAgree'
        /\ \A c \in Float!Bots : Float!Unbooked(c)' = Float!Unbooked(c)
    BY <1>3, <1>4, FloatJobsGrow
  <1>6. status' \in [Asked -> Float!Statuses] /\ funding' \in [Asked -> {"float", "vault"}]
    BY DEF Float!Request, Float!Statuses
  <1>7. Float!BooksAddUp'
    BY <1>2, <1>4, <1>5 DEF Float!BooksAddUp
  <1> QED BY <1>4, <1>5, <1>6, <1>7

(* A deposit is seen and booked; what it leaves above the float is swept.   *)
LEMMA FloatDeposit ==
    ASSUME Float!ConstantsOK, FloatInv,
           Float!DepositBooked \/ Float!Tick \/ \E n \in Deposits : Float!DepositLands(n)
    PROVE  FloatInv'
  <1> USE DEF FloatInv
  <1>1. "teller" \in Float!Bots /\ "vault" \in Float!Bots /\ "teller" # "vault"
    BY DEF Float!Bots
  <1>2. /\ books["teller"] \in Int /\ books["vault"] \in Int /\ receipt \in Nat
        /\ held["teller"] \in Nat /\ held["vault"] \in Nat
    BY <1>1
  <1>3. Float!Unbooked("teller") \in Nat
    BY <1>1, FloatHandTypes DEF Float!Unbooked
  <1>4. UNCHANGED <<status, funding, hand>>
    BY DEF Float!DepositBooked, Float!Tick, Float!DepositLands
  <1>5. \/ UNCHANGED jobs
        \/ \E j \in JobsOf("teller") : jobs' = [jobs EXCEPT !["teller"] = Append(@, j)]
    <2>1. CASE Float!DepositBooked
      <3>1. Float!QueueVaultSweep(books["teller"] + receipt) /\ books["teller"] + receipt \in Int
        BY <1>2, <2>1 DEF Float!DepositBooked
      <3> QED BY <3>1, SweepIsQueued
    <2>2. CASE Float!Tick
      BY <1>2, <2>2, SweepIsQueued DEF Float!Tick
    <2>3. CASE \E n \in Deposits : Float!DepositLands(n)
      BY <2>3 DEF Float!DepositLands
    <2> QED BY <2>1, <2>2, <2>3
  <1>6. /\ FloatJobsAgree' /\ FloatHandsAgree'
        /\ \A c \in Float!Bots : Float!Unbooked(c)' = Float!Unbooked(c)
    <2>1. CASE UNCHANGED jobs
      BY <1>4, <2>1 DEF FloatJobsAgree, FloatHandsAgree, Float!Unbooked, Float!Payee, Float!JobInHand
    <2>2. CASE ~UNCHANGED jobs
      BY <1>1, <1>4, <1>5, <2>2, FloatJobsGrow
    <2> QED BY <2>1, <2>2
  <1>7. /\ books' \in [Float!Bots -> Int] /\ held' \in [Float!Bots -> Nat] /\ receipt' \in Nat
        /\ books'["teller"] + books'["vault"] + receipt' - (held'["teller"] + held'["vault"])
             = books["teller"] + books["vault"] + receipt - (held["teller"] + held["vault"])
    <2>1. CASE Float!DepositBooked
      BY <1>1, <1>2, <2>1 DEF Float!DepositBooked
    <2>2. CASE Float!Tick
      BY <1>1, <1>2, <2>2 DEF Float!Tick
    <2>3. CASE \E n \in Deposits : Float!DepositLands(n)
      <3>1. PICK n \in Deposits : Float!DepositLands(n)
        BY <2>3
      <3>2. n \in Nat
        BY DEF Float!ConstantsOK
      <3>3. receipt = 0 /\ receipt' = n /\ held' = [held EXCEPT !["teller"] = @ + n] /\ books' = books
        BY <3>1 DEF Float!DepositLands
      <3> QED BY <1>1, <1>2, <3>2, <3>3
    <2> QED BY <2>1, <2>2, <2>3
  <1>8. Float!BooksAddUp'
    <2>1. /\ books'["teller"] \in Int /\ books'["vault"] \in Int
          /\ held'["teller"] \in Nat /\ held'["vault"] \in Nat
      BY <1>1, <1>7
    <2> QED BY <1>1, <1>2, <1>3, <1>6, <1>7, <2>1 DEF Float!BooksAddUp
  <1> QED BY <1>4, <1>6, <1>7, <1>8

(* A claim puts a job in hand, and no money has moved yet.                  *)
LEMMA FloatClaim ==
    ASSUME FloatInv, NEW b \in Float!Bots, NEW i \in 1..Len(jobs[b]), Float!Claim(b, i)
    PROVE  FloatInv'
  <1> USE DEF FloatInv
  <1>1. /\ hand[b].phase = "idle" /\ hand' = [hand EXCEPT ![b] = [phase |-> "sent", at |-> i, paid |-> FALSE]]
        /\ UNCHANGED <<status, funding, jobs, books, held, receipt>>
    BY DEF Float!Claim
  <1>2. i \in Nat /\ i \in DOMAIN jobs[b]
    BY LenProperties DEF FloatJobsAgree
  <1>3. FloatJobsAgree' /\ FloatHandsAgree'
    BY <1>1, <1>2 DEF FloatJobsAgree, FloatHandsAgree, Hands
  <1>4. Float!Unbooked("teller")' = Float!Unbooked("teller")
    <2>1. CASE b = "teller"
      BY <1>1, <2>1 DEF Float!Unbooked, FloatHandsAgree
    <2>2. CASE b # "teller"
      BY <1>1, <2>2 DEF Float!Unbooked, Float!Payee, Float!JobInHand, FloatHandsAgree, Float!Bots
    <2> QED BY <2>1, <2>2
  <1>5. Float!BooksAddUp'
    BY <1>1, <1>4 DEF Float!BooksAddUp
  <1> QED BY <1>1, <1>3, <1>5

(* What the game pays is in no books until it is reported, unless it went   *)
(* to the other bot.                                                        *)
LEMMA FloatAnswer ==
    ASSUME FloatInv, NEW b \in Float!Bots, Float!GameAnswers(b)
    PROVE  FloatInv'
  <1> USE DEF FloatInv
  <1> DEFINE j == Float!JobInHand(b)
             ok == held[b] >= j.amount
  <1>1. /\ hand[b].phase = "sent" /\ UNCHANGED <<status, funding, jobs, books, receipt>>
        /\ held' = [x \in Float!Bots |-> IF ~ok THEN held[x] ELSE IF x = b THEN held[x] - j.amount
                                         ELSE IF x \in Float!Payee(b) THEN held[x] + j.amount ELSE held[x]]
        /\ hand' = [hand EXCEPT ![b].phase = "settled", ![b].paid = ok]
    BY DEF Float!GameAnswers
  <1>2. /\ hand[b].at \in DOMAIN jobs[b] /\ j \in Float!Job /\ j.amount \in Nat /\ j.amount > 0
        /\ (b = "vault" <=> j.kind = "vault_release") /\ ~hand[b].paid
    BY <1>1, FloatHandTypes DEF FloatHandsAgree
  <1>3. hand'[b] = [phase |-> "settled", at |-> hand[b].at, paid |-> ok]
    BY <1>1 DEF FloatHandsAgree, Hands
  <1>4. FloatJobsAgree' /\ FloatHandsAgree'
    BY <1>1, <1>2, <1>3 DEF FloatJobsAgree, FloatHandsAgree, Hands
  <1>5. Float!JobInHand(b)' = j /\ Float!Payee(b)' = Float!Payee(b)
    BY <1>1, <1>3 DEF Float!JobInHand, Float!Payee
  <1>6. held' \in [Float!Bots -> Nat]
    BY <1>1, <1>2
  <1> DEFINE T == "teller"
             V == "vault"
  <1>7. b \in {T, V} /\ T \in Float!Bots /\ V \in Float!Bots
    BY DEF Float!Bots
  <1>8. /\ b = T => Float!Payee(b) \in {{}, {V}}
        /\ b = V => Float!Payee(b) = {T}
    BY <1>2 DEF Float!Payee
  <1>9. /\ Float!Unbooked(T) \in Nat /\ Float!Unbooked(T)' \in Nat
        /\ Float!Unbooked(T)' - Float!Unbooked(T) = held[T] + held[V] - (held'[T] + held'[V])
    <2>1. CASE b = T
      <3>1. Float!Unbooked(T) = 0
        BY <1>1, <2>1 DEF Float!Unbooked
      <3>2. Float!Unbooked(T)' = IF ok /\ Float!Payee(b) = {} THEN j.amount ELSE 0
        <4>1. Float!JobInHand(T)' = j /\ Float!Payee(T)' = Float!Payee(b)
          BY <1>1, <1>3, <2>1 DEF Float!JobInHand, Float!Payee
        <4>2. hand'[T].phase = "settled" /\ hand'[T].paid = ok /\ ok \in BOOLEAN
          BY <1>3, <2>1
        <4> HIDE DEF j, ok, FloatInv
        <4> QED BY <4>1, <4>2 DEF Float!Unbooked
      <3> HIDE DEF j
      <3> QED BY <1>1, <1>2, <1>7, <1>8, <2>1, <3>1, <3>2
    <2>2. CASE b = V
      <3>1. Float!Unbooked(T)' = Float!Unbooked(T)
        BY <1>1, <1>7, <2>2 DEF Float!Unbooked, Float!Payee, Float!JobInHand, FloatHandsAgree
      <3>2. Float!Unbooked(T) \in Nat
        BY <1>7, FloatHandTypes DEF Float!Unbooked
      <3> HIDE DEF j
      <3> QED BY <1>1, <1>2, <1>7, <1>8, <2>2, <3>1, <3>2
    <2> QED BY <1>7, <2>1, <2>2
  <1>10. Float!BooksAddUp'
    <2>1. books[T] \in Int /\ books[V] \in Int /\ receipt \in Nat /\ books' = books /\ receipt' = receipt
      BY <1>1, <1>7
    <2>2. held[T] \in Nat /\ held[V] \in Nat /\ held'[T] \in Nat /\ held'[V] \in Nat
      BY <1>6, <1>7
    <2>3. books[T] + books[V] + receipt - Float!Unbooked(T) = held[T] + held[V]
      BY DEF Float!BooksAddUp
    <2>4. books'[T] + books'[V] + receipt' - Float!Unbooked(T)' = held'[T] + held'[V]
      BY <1>9, <2>1, <2>2, <2>3
    <2> QED BY <2>4 DEF Float!BooksAddUp
  <1> QED BY <1>1, <1>4, <1>6, <1>10

(* Reported, it is booked: on both bots if it went from one to the other.   *)
LEMMA FloatPaid ==
    ASSUME Float!ConstantsOK, FloatInv, NEW b \in Float!Bots, Float!ReportPaid(b)
    PROVE  FloatInv'
  <1> USE DEF FloatInv
  <1> DEFINE j == Float!JobInHand(b)
             rest == [jobs EXCEPT ![b] = Float!RemoveAt(@, hand[b].at)]
             T == "teller"
             V == "vault"
  <1>1. /\ hand[b].phase = "settled" /\ hand[b].paid /\ hand' = [hand EXCEPT ![b] = Float!NoHand]
        /\ UNCHANGED <<funding, held, receipt>> /\ Float!BookLegs(b)
    BY DEF Float!ReportPaid
  <1>2. /\ j.amount \in Nat /\ j.amount > 0 /\ (b = V <=> j.kind = "vault_release")
        /\ (j.kind # "vault_sweep" => j.w \in Asked) /\ j.kind \in {"cash_payout", "vault_sweep", "vault_release"}
    BY <1>1, FloatHandTypes DEF Float!Job
  <1>3. b \in {T, V} /\ T \in Float!Bots /\ V \in Float!Bots
    BY DEF Float!Bots
  <1>4. /\ rest \in [Float!Bots -> Seq(Float!Job)]
        /\ \A c \in Float!Bots : rest[c] \in Seq(JobsOf(c))
        /\ \A c \in Float!Bots \ {b} : rest[c] = jobs[c]
    BY <1>1, FloatJobsShrink
  <1>5. \/ b = T /\ jobs' = rest /\ status' \in [Asked -> Float!Statuses]
        \/ /\ b = V /\ status' \in [Asked -> Float!Statuses]
           /\ \E k \in JobsOf(T) : jobs' = [rest EXCEPT ![T] = Append(@, k)]
    <2>1. CASE j.kind = "vault_release"
      <3> DEFINE k == Float!Queued("cash_payout", j.w, Amount[j.w])
      <3>1. /\ status' = [status EXCEPT ![j.w] = "queued"]
            /\ jobs' = [rest EXCEPT ![T] = Append(@, k)]
        BY <2>1 DEF Float!ReportPaid
      <3>2. k \in JobsOf(T)
        BY <1>2, <2>1 DEF JobsOf, TellerJobs, Float!Job, Float!Queued, Float!ConstantsOK
      <3>3. status' \in [Asked -> Float!Statuses]
        BY <3>1 DEF Float!Statuses
      <3> HIDE DEF rest, k
      <3> QED BY <1>2, <2>1, <3>1, <3>2, <3>3
    <2>2. CASE j.kind # "vault_release"
      <3>1. /\ status' = IF j.kind = "cash_payout" THEN [status EXCEPT ![j.w] = "paid"] ELSE status
            /\ jobs' = rest
        BY <2>2 DEF Float!ReportPaid
      <3>2. status' \in [Asked -> Float!Statuses]
        BY <3>1 DEF Float!Statuses
      <3> QED BY <1>2, <1>3, <2>2, <3>1, <3>2
    <2> QED BY <2>1, <2>2
  <1>6. /\ jobs' \in [Float!Bots -> Seq(Float!Job)]
        /\ \A c \in Float!Bots : jobs'[c] \in Seq(JobsOf(c))
        /\ b = V => \A i \in DOMAIN jobs[T] : i \in DOMAIN jobs'[T] /\ jobs'[T][i] = jobs[T][i]
        /\ b = T => jobs'[V] = jobs[V]
    <2>1. CASE b = T
      BY <1>3, <1>4, <1>5, <2>1
    <2>2. CASE b = V
      <3>1. PICK k \in JobsOf(T) : jobs' = [rest EXCEPT ![T] = Append(@, k)]
        BY <1>5, <2>2
      <3>2. k \in Float!Job /\ rest[T] \in Seq(Float!Job) /\ rest[T] \in Seq(JobsOf(T)) /\ rest[T] = jobs[T]
        BY <1>3, <1>4, <2>2 DEF JobsOf, TellerJobs
      <3>3. /\ Append(jobs[T], k) \in Seq(JobsOf(T)) /\ Append(jobs[T], k) \in Seq(Float!Job)
            /\ Len(Append(jobs[T], k)) = Len(jobs[T]) + 1
            /\ \A i \in 1..Len(jobs[T]) : Append(jobs[T], k)[i] = jobs[T][i]
        BY <3>2, AppendProperties
      <3>4. DOMAIN jobs[T] = 1..Len(jobs[T]) /\ DOMAIN Append(jobs[T], k) = 1..(Len(jobs[T]) + 1)
            /\ Len(jobs[T]) \in Nat
        BY <3>2, <3>3, LenProperties
      <3> HIDE DEF rest
      <3>5. jobs'[T] = Append(jobs[T], k) /\ \A c \in Float!Bots \ {T} : jobs'[c] = rest[c]
        BY <1>3, <1>4, <3>1, <3>2
      <3>6. jobs' \in [Float!Bots -> Seq(Float!Job)] /\ \A c \in Float!Bots : jobs'[c] \in Seq(JobsOf(c))
        BY <1>4, <3>1, <3>3, <3>5
      <3>7. \A i \in DOMAIN jobs[T] : i \in DOMAIN jobs'[T] /\ jobs'[T][i] = jobs[T][i]
        BY <3>3, <3>4, <3>5
      <3> QED BY <2>2, <3>6, <3>7
    <2> QED BY <1>3, <2>1, <2>2
  <1> HIDE DEF rest
  <1>7. FloatJobsAgree'
    BY <1>6 DEF FloatJobsAgree
  <1>8. FloatHandsAgree'
    <2>1. hand' \in [Float!Bots -> Hands]
      BY <1>1 DEF FloatHandsAgree, Hands, Float!NoHand
    <2>2. ASSUME NEW c \in Float!Bots
          PROVE  IF hand'[c].phase = "idle" THEN hand'[c] = Float!NoHand
                 ELSE hand'[c].at \in DOMAIN jobs'[c] /\ (hand'[c].phase = "sent" => ~hand'[c].paid)
      <3>1. CASE c = b
        BY <1>1, <3>1 DEF FloatHandsAgree, Float!NoHand
      <3>2. CASE c # b
        <4>1. hand'[c] = hand[c]
          BY <1>1, <3>2 DEF FloatHandsAgree
        <4>2. \A i \in DOMAIN jobs[c] : i \in DOMAIN jobs'[c]
          BY <1>3, <1>6, <3>2 DEF Float!Bots
        <4> QED BY <4>1, <4>2 DEF FloatHandsAgree
      <3> QED BY <3>1, <3>2
    <2> QED BY <2>1, <2>2 DEF FloatHandsAgree
  <1>9. Float!Payee(b) = IF j.kind = "vault_sweep" THEN {V} ELSE IF j.kind = "vault_release" THEN {T} ELSE {}
    BY DEF Float!Payee
  <1>10. books' = [x \in Float!Bots |-> IF x = b THEN books[x] - j.amount
                                       ELSE IF x \in Float!Payee(b) THEN books[x] + j.amount ELSE books[x]]
    BY <1>1 DEF Float!BookLegs
  <1>11. Float!Unbooked(T)' = IF b = T THEN 0 ELSE Float!Unbooked(T)
    <2>1. CASE b = T
      BY <1>1, <2>1 DEF Float!Unbooked, Float!NoHand, FloatHandsAgree
    <2>2. CASE b # T
      <3>1. hand'[T] = hand[T]
        BY <1>1, <2>2 DEF FloatHandsAgree
      <3>2. hand[T].phase = "settled" => hand[T].at \in DOMAIN jobs[T]
        BY <1>3 DEF FloatHandsAgree
      <3>3. hand[T].phase = "settled" => Float!JobInHand(T)' = Float!JobInHand(T)
        BY <1>3, <1>6, <2>2, <3>1, <3>2 DEF Float!JobInHand
      <3> QED BY <2>2, <3>1, <3>3 DEF Float!Unbooked, Float!Payee
    <2> QED BY <2>1, <2>2
  <1>12. b = T => Float!Unbooked(T) = IF Float!Payee(b) = {} THEN j.amount ELSE 0
    BY <1>1 DEF Float!Unbooked
  <1>13. Float!Unbooked(T) \in Nat
    BY <1>3, FloatHandTypes DEF Float!Unbooked
  <1> HIDE DEF j
  <1>14. books' \in [Float!Bots -> Int]
    BY <1>2, <1>10
  <1>15. Float!BooksAddUp'
    <2>1. books[T] \in Int /\ books[V] \in Int /\ receipt \in Nat /\ held' = held /\ receipt' = receipt
      BY <1>1, <1>3
    <2>2. books[T] + books[V] + receipt - Float!Unbooked(T) = held[T] + held[V]
      BY DEF Float!BooksAddUp
    <2>3. books'[T] + books'[V] - Float!Unbooked(T)' = books[T] + books[V] - Float!Unbooked(T)
      <3>1. CASE b = T
        <4>1. books'[T] = books[T] - j.amount
          BY <1>3, <1>10, <3>1
        <4>2. books'[V] = IF Float!Payee(b) = {} THEN books[V] ELSE books[V] + j.amount
          BY <1>2, <1>3, <1>9, <1>10, <3>1
        <4> QED BY <1>2, <1>11, <1>12, <2>1, <3>1, <4>1, <4>2
      <3>2. CASE b = V
        BY <1>2, <1>3, <1>9, <1>10, <1>11, <1>13, <2>1, <3>2
      <3> QED BY <1>3, <3>1, <3>2
    <2>4. books'[T] \in Int /\ books'[V] \in Int /\ Float!Unbooked(T)' \in Nat /\ held[T] \in Nat /\ held[V] \in Nat
      BY <1>3, <1>11, <1>13, <1>14
    <2>5. books'[T] + books'[V] + receipt' - Float!Unbooked(T)' = held'[T] + held'[V]
      BY <1>13, <2>1, <2>2, <2>3, <2>4
    <2> QED BY <2>5 DEF Float!BooksAddUp
  <1>16. status' \in [Asked -> Float!Statuses]
    BY <1>5
  <1> QED BY <1>1, <1>7, <1>8, <1>14, <1>15, <1>16

(* A refused sweep leaves its queue, another job waits for funds.           *)
LEMMA FloatRefused ==
    ASSUME FloatInv, NEW b \in Float!Bots, Float!ReportRefused(b)
    PROVE  FloatInv'
  <1> USE DEF FloatInv
  <1>1. /\ hand[b].phase = "settled" /\ ~hand[b].paid /\ hand' = [hand EXCEPT ![b] = Float!NoHand]
        /\ UNCHANGED <<status, funding, books, held, receipt>>
    BY DEF Float!ReportRefused
  <1>2. hand[b].at \in DOMAIN jobs[b]
    BY <1>1, FloatHandTypes
  <1> DEFINE i == hand[b].at
  <1>3. /\ jobs' \in [Float!Bots -> Seq(Float!Job)]
        /\ \A c \in Float!Bots : jobs'[c] \in Seq(JobsOf(c))
        /\ \A c \in Float!Bots \ {b} : jobs'[c] = jobs[c]
    <2>1. CASE Float!JobInHand(b).kind = "vault_sweep"
      <3>1. jobs' = [jobs EXCEPT ![b] = Float!RemoveAt(@, i)]
        BY <2>1 DEF Float!ReportRefused
      <3> QED BY <1>1, <3>1, FloatJobsShrink
    <2>2. CASE Float!JobInHand(b).kind # "vault_sweep"
      <3> DEFINE waiting == [jobs[b][i] EXCEPT !.waits = TRUE]
      <3>1. jobs' = [jobs EXCEPT ![b] = [@ EXCEPT ![i] = waiting]]
        BY <2>2 DEF Float!ReportRefused
      <3>2. jobs[b][i] \in JobsOf(b) /\ jobs[b][i] \in Float!Job
        BY <1>2, FloatJobTypes
      <3>3. waiting \in JobsOf(b) /\ waiting \in Float!Job
        BY <3>2 DEF JobsOf, TellerJobs, VaultJobs, Float!Job
      <3>4. i \in 1..Len(jobs[b]) /\ jobs[b] \in Seq(JobsOf(b)) /\ jobs[b] \in Seq(Float!Job)
        BY <1>1, FloatHandTypes DEF FloatJobsAgree
      <3> HIDE DEF waiting, i
      <3>5. [jobs[b] EXCEPT ![i] = waiting] \in Seq(JobsOf(b)) /\ [jobs[b] EXCEPT ![i] = waiting] \in Seq(Float!Job)
        BY <3>3, <3>4, ExceptSeq
      <3> QED BY <3>1, <3>5 DEF FloatJobsAgree
    <2> QED BY <2>1, <2>2
  <1>4. FloatJobsAgree'
    BY <1>3 DEF FloatJobsAgree
  <1>5. FloatHandsAgree'
    BY <1>1, <1>3 DEF FloatHandsAgree, Hands, Float!NoHand
  <1>6. Float!Unbooked("teller")' = Float!Unbooked("teller")
    <2>1. CASE b = "teller"
      BY <1>1, <2>1 DEF Float!Unbooked, Float!NoHand, FloatHandsAgree
    <2>2. CASE b # "teller"
      <3>1. hand'["teller"] = hand["teller"] /\ jobs'["teller"] = jobs["teller"]
        BY <1>1, <1>3, <2>2 DEF FloatHandsAgree, Float!Bots
      <3>2. Float!JobInHand("teller")' = Float!JobInHand("teller")
        BY <3>1 DEF Float!JobInHand
      <3> QED BY <3>1, <3>2 DEF Float!Unbooked, Float!Payee
    <2> QED BY <2>1, <2>2
  <1>7. Float!BooksAddUp'
    BY <1>1, <1>6 DEF Float!BooksAddUp
  <1> QED BY <1>1, <1>4, <1>5, <1>7

(* What the owner takes out leaves books and bot alike.                     *)
LEMMA OwnerIsPaid ==
    ASSUME Float!ConstantsOK, FloatInv, Float!OwnerTakes
    PROVE  FloatInv'
  <1> USE DEF FloatInv
  <1> DEFINE n == books["vault"] - MaxVault
             T == "teller"
             V == "vault"
  <1>1. /\ books[V] > MaxVault /\ held[V] >= n
        /\ books' = [books EXCEPT ![V] = @ - n] /\ held' = [held EXCEPT ![V] = @ - n]
        /\ UNCHANGED <<status, funding, jobs, hand, receipt>>
    BY DEF Float!OwnerTakes
  <1>2. /\ T \in Float!Bots /\ V \in Float!Bots /\ books[V] \in Int /\ books[T] \in Int
        /\ held[V] \in Nat /\ held[T] \in Nat /\ MaxVault \in Nat
    BY DEF Float!Bots, Float!ConstantsOK
  <1>3. n \in Nat
    BY <1>1, <1>2
  <1>4. FloatJobsAgree' /\ FloatHandsAgree'
    BY <1>1 DEF FloatJobsAgree, FloatHandsAgree
  <1>5. Float!Unbooked(T)' = Float!Unbooked(T) /\ Float!Unbooked(T) \in Nat
    BY <1>1, <1>2, FloatHandTypes DEF Float!Unbooked, Float!Payee, Float!JobInHand
  <1> HIDE DEF n
  <1>6. books' \in [Float!Bots -> Int] /\ held' \in [Float!Bots -> Nat]
    BY <1>1, <1>2, <1>3
  <1>7. books[T] + books[V] + receipt - Float!Unbooked(T) = held[T] + held[V]
    BY DEF Float!BooksAddUp
  <1>8. books'[T] + books'[V] + receipt' - Float!Unbooked(T)' = held'[T] + held'[V]
    BY <1>1, <1>2, <1>3, <1>5, <1>7
  <1>9. Float!BooksAddUp'
    BY <1>8 DEF Float!BooksAddUp
  <1> QED BY <1>1, <1>4, <1>6, <1>9

(* It holds at the start.                                                   *)
LEMMA FloatInitially == ASSUME Float!ConstantsOK, Float!Init PROVE FloatInv
  <1> USE DEF Float!Init
  <1>1. << >> \in Seq(Float!Job) /\ \A b \in Float!Bots : << >> \in Seq(JobsOf(b))
    BY EmptySeq
  <1>2. FloatJobsAgree /\ FloatHandsAgree
    BY <1>1 DEF FloatJobsAgree, FloatHandsAgree, Hands, Float!NoHand
  <1>3. Float!Unbooked("teller") = 0
    BY DEF Float!Unbooked, Float!NoHand, Float!Bots
  <1>4. /\ Opening \in [Float!Bots -> Nat] /\ "teller" \in Float!Bots /\ "vault" \in Float!Bots
    BY DEF Float!ConstantsOK, Float!Bots
  <1>5. Float!BooksAddUp
    BY <1>3, <1>4 DEF Float!BooksAddUp
  <1> QED BY <1>2, <1>4, <1>5 DEF FloatInv, Float!Statuses

(* Every step keeps it.                                                     *)
LEMMA FloatStep ==
    ASSUME Float!ConstantsOK, FloatInv, [Float!Next]_Float!vars
    PROVE  FloatInv'
  <1>1. CASE UNCHANGED Float!vars
    BY <1>1 DEF Float!vars, FloatInv, FloatJobsAgree, FloatHandsAgree, Float!BooksAddUp, Float!Unbooked,
                Float!Payee, Float!JobInHand
  <1>2. CASE Float!GatewayNext
    BY <1>2, FloatRequest, FloatDeposit DEF Float!GatewayNext
  <1>3. CASE Float!GameNext
    BY <1>3, FloatAnswer, FloatDeposit DEF Float!GameNext
  <1>4. CASE Float!OwnerTakes
    BY <1>4, OwnerIsPaid
  <1>5. ASSUME NEW b \in Float!Bots, Float!BotNext(b) PROVE FloatInv'
    BY <1>5, FloatClaim, FloatPaid, FloatRefused DEF Float!BotNext
  <1> QED BY <1>1, <1>2, <1>3, <1>4, <1>5 DEF Float!Next

(* It holds in every state.                                                 *)
LEMMA FloatIsInductive == ASSUME Float!ConstantsOK PROVE Float!Spec => []FloatInv
  <1>1. Float!Init => FloatInv
    BY FloatInitially
  <1>2. FloatInv /\ [Float!Next]_Float!vars => FloatInv'
    BY FloatStep
  <1> QED BY <1>1, <1>2, PTL DEF Float!Spec

(* Type correctness of the float, its jobs and its books.                   *)
THEOREM FloatTypeCorrect == ASSUME Float!ConstantsOK PROVE Float!Spec => []Float!TypeOK
  <1>1. FloatInv => Float!TypeOK
    <2> SUFFICES ASSUME FloatInv PROVE Float!TypeOK
      OBVIOUS
    <2>1. \A b \in Float!Bots : \A i \in DOMAIN jobs[b] : jobs[b][i] \in Float!Job
      BY FloatJobTypes DEF FloatInv
    <2> QED BY <2>1 DEF FloatInv, FloatHandsAgree, Float!TypeOK
  <1> QED BY <1>1, FloatIsInductive, PTL

(* Both bots' books add up to what both hold: whatever is paid, swept,      *)
(* released, refused or taken out, no leg is booked on one side only.       *)
THEOREM FloatBooksAddUp == ASSUME Float!ConstantsOK PROVE Float!Spec => []Float!BooksAddUp
  <1>1. FloatInv => Float!BooksAddUp
    BY DEF FloatInv
  <1> QED BY <1>1, FloatIsInductive, PTL

-----------------------------------------------------------------------------
(* The node pool                                                            *)

Orders(less, S) ==
    /\ \A a, b \in S : a # b => less[a][b] \/ less[b][a]
    /\ \A a, b, c \in S : less[a][b] /\ less[b][c] => less[a][c]
HasGreatest(less, S) == \E m \in S : \A x \in S \ {m} : less[x][m]

(* A finite set that is ordered has a greatest member.                      *)
LEMMA GreatestExists ==
    ASSUME NEW S, IsFiniteSet(S), S # {}, NEW less,
           Orders(less, S)
    PROVE  HasGreatest(less, S)
  <1> USE DEF Orders, HasGreatest
  <1> DEFINE Wrong == {T \in SUBSET S : T # {} /\ ~\E m \in T : \A x \in T \ {m} : less[x][m]}
             R == StrictSubsetOrdering(S)
  <1>1. SUFFICES ASSUME Wrong # {} PROVE FALSE
    OBVIOUS
  <1>2. Wrong \subseteq FiniteSubsetsOf(S)
    BY FS_Subset DEF FiniteSubsetsOf
  <1>3. PICK T \in Wrong : \A U \in Wrong : ~(<<U, T>> \in R)
    <2> HIDE DEF Wrong, R
    <2>1. IsWellFoundedOn(R, FiniteSubsetsOf(S))
      BY FS_StrictSubsetOrderingWellFounded DEF R
    <2> QED BY <1>1, <1>2, <2>1, WFMin
  <1>4. PICK x \in T : TRUE
    OBVIOUS
  <1>5. T \ {x} # {}
    OBVIOUS
  <1>6. T \ {x} \in SUBSET S /\ <<T \ {x}, T>> \in R
    BY DEF StrictSubsetOrdering
  <1>7. PICK y \in T \ {x} : \A z \in (T \ {x}) \ {y} : less[z][y]
    BY <1>3, <1>5, <1>6
  <1>8. CASE less[y][x]
    <2>1. \A z \in T \ {x} : less[z][x]
      BY <1>7, <1>8
    <2> QED BY <2>1
  <1>9. CASE less[x][y]
    <2>1. \A z \in T \ {y} : less[z][y]
      BY <1>7, <1>9
    <2> QED BY <2>1
  <1> QED BY <1>7, <1>8, <1>9

PoolJobs(n) ==
    {j \in Pool!Job : /\ j.to # n
                      /\ j.kind = "vault_sweep" => j.w = 0
                      /\ j.kind = "cash_payout" => j.w \in Asked /\ j.to = 0
                      /\ j.kind = "vault_release" => j.w \in Asked /\ j.to \in Nodes}

PoolTypes ==
    /\ status \in [Asked -> Pool!Statuses] /\ funding \in [Asked -> {"float", "vault"}]
    /\ payer \in [Asked -> Nodes \cup {0}]
    /\ books \in [Nodes -> Int] /\ held \in [Nodes -> Nat]
    /\ reach \in [Nodes -> Pool!Distances] /\ told \in Nodes \cup {0}
    /\ receipt \in [node : Nodes \cup {0}, amount : Nat]
    /\ watch \in {"even", "skewed", "ripe"} /\ cooling \subseteq Nodes

QueuesAgree(q) ==
    q \in [Nodes -> Seq(Pool!Job)] /\ \A n \in Nodes : q[n] \in Seq(PoolJobs(n))
PoolJobsAgree == QueuesAgree(jobs)

PoolHandsAgree ==
    /\ hand \in [Nodes -> Hands]
    /\ \A n \in Nodes :
          IF hand[n].phase = "idle" THEN hand[n] = Pool!NoHand
          ELSE hand[n].at \in DOMAIN jobs[n] /\ (hand[n].phase = "sent" => ~hand[n].paid)

FinitePool == IsFiniteSet(Nodes) /\ IsFiniteSet(Asked)

(* What the proofs need of the constants.                                   *)
LEMMA PoolConstants ==
    ASSUME Pool!ConstantsOK
    PROVE  /\ Nodes \subseteq Nat \ {0} /\ Nodes # {} /\ Asked \subseteq Nat \ {0}
           /\ \A w \in Asked : Amount[w] \in Nat /\ Amount[w] > 0
           /\ Deposits \subseteq Nat \ {0} /\ MinMinor \in Nat /\ SkewBps \in Nat
           /\ 0 \notin Nodes /\ 0 \notin Asked
  BY DEF Pool!ConstantsOK

(* What the queue of each node is made of.                                  *)
LEMMA PoolJobTypes ==
    ASSUME PoolJobsAgree, NEW n \in Nodes, NEW i \in DOMAIN jobs[n]
    PROVE  /\ jobs[n][i] \in Pool!Job /\ jobs[n][i] \in PoolJobs(n)
           /\ jobs[n][i].amount \in Nat /\ jobs[n][i].amount > 0 /\ jobs[n][i].to # n
           /\ jobs[n][i].to \in Nodes \cup {0}
           /\ i \in 1..Len(jobs[n]) /\ i \in Nat
  <1>1. jobs[n] \in Seq(PoolJobs(n)) /\ DOMAIN jobs[n] = 1..Len(jobs[n])
    BY LenProperties DEF PoolJobsAgree, QueuesAgree
  <1>2. jobs[n][i] \in PoolJobs(n)
    BY <1>1, ElementOfSeq
  <1> QED BY <1>1, <1>2 DEF PoolJobs, Pool!Job

(* A size within the module.                                                *)
LEMMA PoolSize == ASSUME NEW S PROVE Pool!Cardinality(S) = Cardinality(S)
  BY DEF Pool!Cardinality, Cardinality

(* A sum within the module.                                                 *)
LEMMA PoolSumIsFold ==
    ASSUME NEW S, IsFiniteSet(S), NEW f, \A x \in S : f[x] \in Nat
    PROVE  Pool!MapThenSumSet(LAMBDA x : f[x], S) = SumOf(f, S)
  <1>1. Pool!MapThenSumSet(LAMBDA x : f[x], S) = MapThenSumSet(LAMBDA x : f[x], S)
    BY DEF Pool!MapThenSumSet, Pool!MapThenFoldSet, MapThenSumSet, MapThenFoldSet
  <1> QED BY <1>1, SumIsFold

(* What a node's queue comes to.                                            *)
Summands(s) == [i \in DOMAIN s |-> s[i].amount]

(* The total of a queue as a sum.                                           *)
LEMMA TotalIsSum ==
    ASSUME NEW s, IsFiniteSet(DOMAIN s), \A i \in DOMAIN s : s[i].amount \in Nat
    PROVE  Pool!Total(s) = SumOf(Summands(s), DOMAIN s) /\ Pool!Total(s) \in Nat
  <1> DEFINE f == Summands(s)
             S == DOMAIN s
  <1>1. \A i \in S : f[i] \in Nat
    BY DEF Summands
  <1>2. Pool!Total(s) = Pool!MapThenSumSet(LAMBDA x : f[x], S)
    BY DEF Pool!Total, Pool!MapThenSumSet, Pool!MapThenFoldSet, Summands
  <1> HIDE DEF f, S
  <1>3. Pool!MapThenSumSet(LAMBDA x : f[x], S) = SumOf(f, S)
    BY <1>1, PoolSumIsFold DEF S
  <1>4. SumOf(f, S) \in Nat
    BY <1>1, SumType DEF S
  <1> QED BY <1>2, <1>3, <1>4 DEF f, S

(* What a node has free is an integer, and its queue is finite.             *)
LEMMA FreeType ==
    ASSUME PoolTypes, PoolJobsAgree, NEW n \in Nodes
    PROVE  Pool!Free(n) \in Int /\ IsFiniteSet(DOMAIN jobs[n])
  <1>1. DOMAIN jobs[n] = 1..Len(jobs[n]) /\ Len(jobs[n]) \in Nat
    BY LenProperties DEF PoolJobsAgree, QueuesAgree
  <1>2. IsFiniteSet(DOMAIN jobs[n])
    BY <1>1, FS_Interval
  <1>3. Pool!Total(jobs[n]) \in Nat
    BY <1>2, PoolJobTypes, TotalIsSum
  <1> QED BY <1>2, <1>3 DEF Pool!Free, PoolTypes

(* The node with the most and the one with the least are nodes.             *)
LEMMA ExtremesAreThere ==
    ASSUME Pool!ConstantsOK, FinitePool, PoolTypes, PoolJobsAgree, NEW S \in SUBSET Nodes, S # {}
    PROVE  Pool!Richest(S) \in S /\ Pool!Poorest(S) \in S
  <1> DEFINE less == [a \in Nodes |-> [b \in Nodes |-> Pool!Before(a, b)]]
             more == [a \in Nodes |-> [b \in Nodes |-> Pool!Before(b, a)]]
  <1>1. IsFiniteSet(S)
    BY FS_Subset DEF FinitePool
  <1>2. \A a \in Nodes : a \in Nat /\ Pool!Free(a) \in Int
    BY PoolConstants, FreeType
  <1>3. \A a, b \in S : a # b => Pool!Before(a, b) \/ Pool!Before(b, a)
    BY <1>2 DEF Pool!Before
  <1>4. \A a, b, c \in S : Pool!Before(a, b) /\ Pool!Before(b, c) => Pool!Before(a, c)
    BY <1>2 DEF Pool!Before
  <1>5. \A a, b \in S : (less[a][b] <=> Pool!Before(a, b)) /\ (more[a][b] <=> Pool!Before(b, a))
    OBVIOUS
  <1> HIDE DEF less, more
  <1>6. HasGreatest(less, S)
    <2>1. Orders(less, S)
      BY <1>3, <1>4, <1>5 DEF Orders
    <2> QED BY <1>1, <2>1, GreatestExists
  <1>7. HasGreatest(more, S)
    <2>1. Orders(more, S)
      BY <1>3, <1>4, <1>5 DEF Orders
    <2> QED BY <1>1, <2>1, GreatestExists
  <1>8. \E m \in S : \A x \in S \ {m} : Pool!Before(x, m)
    BY <1>5, <1>6 DEF HasGreatest
  <1>9. \E m \in S : \A x \in S \ {m} : Pool!Before(m, x)
    BY <1>5, <1>7 DEF HasGreatest
  <1>10. Pool!Richest(S) \in S
    BY <1>8 DEF Pool!Richest
  <1>11. Pool!Poorest(S) \in S
    BY <1>9 DEF Pool!Poorest
  <1> QED BY <1>10, <1>11

-----------------------------------------------------------------------------
(* What is on its way between the nodes                                     *)

Coming(n) == [m \in Nodes |-> IF Pool!Unbooked(m) > 0 /\ Pool!JobInHand(m).to = n
                              THEN Pool!Unbooked(m) ELSE 0]
LandingAt(n) == IF receipt.node = n THEN receipt.amount ELSE 0

PoolInv ==
    /\ PoolTypes /\ PoolJobsAgree /\ PoolHandsAgree
    /\ \A n \in Nodes :
          books[n] - Pool!Unbooked(n) + LandingAt(n) + SumOf(Coming(n), Nodes) = held[n]

(* What a node has in hand, when it has something.                          *)
LEMMA PoolHandTypes ==
    ASSUME PoolJobsAgree, PoolHandsAgree, NEW n \in Nodes, hand[n].phase # "idle"
    PROVE  /\ hand[n].at \in DOMAIN jobs[n] /\ hand[n].at \in 1..Len(jobs[n])
           /\ Pool!JobInHand(n) \in PoolJobs(n) /\ Pool!JobInHand(n) \in Pool!Job
           /\ Pool!JobInHand(n).amount \in Nat /\ Pool!JobInHand(n).amount > 0
           /\ Pool!JobInHand(n).to # n /\ Pool!JobInHand(n).to \in Nodes \cup {0}
  <1>1. hand[n].at \in DOMAIN jobs[n]
    BY DEF PoolHandsAgree
  <1> QED BY <1>1, PoolJobTypes DEF Pool!JobInHand

(* What a node has paid and not reported is a number.                       *)
LEMMA UnbookedType ==
    ASSUME PoolJobsAgree, PoolHandsAgree, NEW n \in Nodes
    PROVE  /\ Pool!Unbooked(n) \in Nat
           /\ Pool!Unbooked(n) = IF hand[n].phase = "settled" /\ hand[n].paid
                                 THEN Pool!JobInHand(n).amount ELSE 0
           /\ hand[n].phase \in {"idle", "sent", "settled"} /\ hand[n].paid \in BOOLEAN
           /\ hand[n].phase # "settled" => Pool!Unbooked(n) = 0
           /\ hand[n].phase = "sent" => ~hand[n].paid
  BY PoolHandTypes DEF Pool!Unbooked, PoolHandsAgree, Hands

(* What is on its way to a node is a number for each sender.                *)
LEMMA ComingType ==
    ASSUME FinitePool, PoolJobsAgree, PoolHandsAgree, NEW n
    PROVE  (\A m \in Nodes : Coming(n)[m] \in Nat) /\ SumOf(Coming(n), Nodes) \in Nat
  <1>1. \A m \in Nodes : Coming(n)[m] \in Nat
    BY UnbookedType DEF Coming
  <1> HIDE DEF Coming
  <1> QED BY <1>1, SumType DEF FinitePool

(* The books of the pool, as the module states it.                          *)
LEMMA PoolAddsUpHolds == ASSUME FinitePool, PoolInv PROVE Pool!PoolAddsUp
  <1> SUFFICES ASSUME NEW n \in Nodes
               PROVE  books[n] - Pool!Unbooked(n) + LandingAt(n)
                      + Pool!MapThenSumSet(LAMBDA m : IF Pool!Unbooked(m) > 0 /\ Pool!JobInHand(m).to = n
                                                      THEN Pool!Unbooked(m) ELSE 0, Nodes) = held[n]
    BY DEF Pool!PoolAddsUp, LandingAt
  <1>1. Pool!MapThenSumSet(LAMBDA m : IF Pool!Unbooked(m) > 0 /\ Pool!JobInHand(m).to = n
                                      THEN Pool!Unbooked(m) ELSE 0, Nodes)
        = Pool!MapThenSumSet(LAMBDA m : Coming(n)[m], Nodes)
    BY DEF Coming, Pool!MapThenSumSet, Pool!MapThenFoldSet
  <1>2. Pool!MapThenSumSet(LAMBDA m : Coming(n)[m], Nodes) = SumOf(Coming(n), Nodes)
    BY ComingType, PoolSumIsFold DEF PoolInv, FinitePool
  <1> QED BY <1>1, <1>2 DEF PoolInv

(* A node whose jobs stay where they are, whatever is marked or added.      *)
Alike(a, b) == a.kind = b.kind /\ a.w = b.w /\ a.amount = b.amount /\ a.to = b.to
Kept(c) ==
    /\ hand'[c] = hand[c]
    /\ \A i \in DOMAIN jobs[c] : i \in DOMAIN jobs'[c] /\ Alike(jobs[c][i], jobs'[c][i])

(* What is unbooked and coming stays the same if what is in hand does.      *)
LEMMA KeptCounts ==
    ASSUME PoolJobsAgree, PoolHandsAgree, NEW c \in Nodes, Kept(c)
    PROVE  /\ Pool!Unbooked(c)' = Pool!Unbooked(c)
           /\ \A n \in Nodes : Coming(n)'[c] = Coming(n)[c]
           /\ hand[c].phase # "idle" => hand'[c].at \in DOMAIN jobs'[c]
  <1>1. hand[c].phase # "idle" => hand[c].at \in DOMAIN jobs[c]
    BY DEF PoolHandsAgree
  <1>2. hand[c].phase # "idle" => /\ Pool!JobInHand(c)'.to = Pool!JobInHand(c).to
                                  /\ Pool!JobInHand(c)'.amount = Pool!JobInHand(c).amount
    BY <1>1 DEF Pool!JobInHand, Kept, Alike
  <1>3. Pool!Unbooked(c)' = Pool!Unbooked(c)
    BY <1>2 DEF Pool!Unbooked, Kept
  <1>4. Pool!Unbooked(c) > 0 => Pool!JobInHand(c)'.to = Pool!JobInHand(c).to
    BY <1>2, UnbookedType
  <1>5. \A n \in Nodes : Coming(n)'[c] = Coming(n)[c]
    BY <1>3, <1>4 DEF Coming
  <1> QED BY <1>1, <1>3, <1>5 DEF Kept

(* A step that leaves every job and the money alone.                        *)
LEMMA AllKept ==
    ASSUME FinitePool, PoolInv, PoolTypes', PoolJobsAgree', hand' = hand, \A c \in Nodes : Kept(c),
           \A n \in Nodes : books'[n] + LandingAt(n)' - held'[n] = books[n] + LandingAt(n) - held[n]
    PROVE  PoolInv'
  <1> USE DEF PoolInv
  <1>1. PoolHandsAgree'
    BY KeptCounts DEF PoolHandsAgree
  <1>2. ASSUME NEW n \in Nodes
        PROVE  (books[n] - Pool!Unbooked(n) + LandingAt(n) + SumOf(Coming(n), Nodes) = held[n])'
    <2>1. SumOf(Coming(n)', Nodes) = SumOf(Coming(n), Nodes)
      <3>1. \A x \in Nodes : Coming(n)'[x] = Coming(n)[x]
        BY KeptCounts
      <3> HIDE DEF Coming
      <3> QED BY <3>1, SumOfSame
    <2>2. SumOf(Coming(n), Nodes) \in Nat /\ Pool!Unbooked(n) \in Nat
      BY ComingType, UnbookedType
    <2>3. Pool!Unbooked(n)' = Pool!Unbooked(n)
      BY KeptCounts
    <2>4. /\ books[n] \in Int /\ held[n] \in Nat /\ LandingAt(n) \in Nat
          /\ books'[n] \in Int /\ held'[n] \in Nat /\ LandingAt(n)' \in Nat
      BY DEF PoolTypes, LandingAt
    <2>5. books[n] - Pool!Unbooked(n) + LandingAt(n) + SumOf(Coming(n), Nodes) = held[n]
      OBVIOUS
    <2>7. books'[n] + LandingAt(n)' - held'[n] = books[n] + LandingAt(n) - held[n]
      OBVIOUS
    <2> HIDE DEF PoolInv
    <2>6. books'[n] - Pool!Unbooked(n)' + LandingAt(n)' + SumOf(Coming(n)', Nodes) = held'[n]
      BY <2>1, <2>2, <2>3, <2>4, <2>5, <2>7
    <2> QED BY <2>6 DEF SumOf, Piles, Pile
  <1> QED BY <1>1, <1>2

-----------------------------------------------------------------------------
(* What becomes of the queues                                               *)

LEMMA Queues ==
    ASSUME NEW q, QueuesAgree(q), NEW n \in Nodes
    PROVE  /\ q[n] \in Seq(PoolJobs(n)) /\ q[n] \in Seq(Pool!Job)
           /\ Len(q[n]) \in Nat /\ DOMAIN q[n] = 1..Len(q[n])
           /\ \A i \in DOMAIN q[n] : q[n][i] \in PoolJobs(n) /\ q[n][i] \in Pool!Job
  <1>1. q[n] \in Seq(PoolJobs(n)) /\ PoolJobs(n) \subseteq Pool!Job /\ q[n] \in Seq(Pool!Job)
    BY DEF QueuesAgree, PoolJobs
  <1>2. Len(q[n]) \in Nat /\ DOMAIN q[n] = 1..Len(q[n])
    BY <1>1, LenProperties
  <1>3. \A i \in DOMAIN q[n] : q[n][i] \in PoolJobs(n)
    BY <1>1, <1>2, ElementOfSeq
  <1> QED BY <1>1, <1>2, <1>3

(* A job is added at the end of one.                                        *)With(q, r, n, j) ==
    /\ QueuesAgree(r)
    /\ \A m \in Nodes : \A i \in DOMAIN q[m] : i \in DOMAIN r[m] /\ r[m][i] = q[m][i]
    /\ Len(q[n]) + 1 \in DOMAIN r[n] /\ Len(q[n]) + 1 \notin DOMAIN q[n]
    /\ r[n][Len(q[n]) + 1] = j
    /\ \A m \in Nodes : \A i \in DOMAIN r[m] :
          i \in DOMAIN q[m] \/ (m = n /\ i = Len(q[n]) + 1)
    /\ \A m \in Nodes \ {n} : r[m] = q[m]

(* A job is added to one queue.                                             *)
LEMMA Appended ==
    ASSUME NEW q, QueuesAgree(q), NEW n \in Nodes, NEW j \in PoolJobs(n),
           NEW r, r = [q EXCEPT ![n] = Append(@, j)]
    PROVE  With(q, r, n, j)
  <1>1. /\ q[n] \in Seq(PoolJobs(n)) /\ Len(q[n]) \in Nat /\ DOMAIN q[n] = 1..Len(q[n])
        /\ PoolJobs(n) \subseteq Pool!Job
    BY Queues DEF PoolJobs
  <1> DEFINE longer == Append(q[n], j)
  <1>2. /\ longer \in Seq(PoolJobs(n)) /\ Len(longer) = Len(q[n]) + 1
        /\ \A i \in 1..Len(q[n]) : longer[i] = q[n][i]
        /\ longer[Len(q[n]) + 1] = j
    BY <1>1, AppendProperties
  <1>3. DOMAIN longer = 1..(Len(q[n]) + 1) /\ longer \in Seq(Pool!Job)
    BY <1>1, <1>2, LenProperties
  <1>4. r = [q EXCEPT ![n] = longer]
    OBVIOUS
  <1> HIDE DEF longer
  <1>5. q \in [Nodes -> Seq(Pool!Job)] /\ \A m \in Nodes : q[m] \in Seq(PoolJobs(m))
    BY DEF QueuesAgree
  <1>6. QueuesAgree(r)
    BY <1>2, <1>3, <1>4, <1>5 DEF QueuesAgree
  <1>7. r[n] = longer /\ \A m \in Nodes \ {n} : r[m] = q[m]
    BY <1>4, <1>5
  <1> QED BY <1>1, <1>2, <1>3, <1>6, <1>7 DEF With

(* One is taken out of one.                                                 *)
Origin(k, a) == IF k < a THEN k ELSE k + 1
Without(q, r, n, a) ==
    /\ QueuesAgree(r)
    /\ \A m \in Nodes \ {n} : r[m] = q[m]
    /\ \A k \in DOMAIN r[n] : /\ Origin(k, a) \in DOMAIN q[n] /\ Origin(k, a) # a
                              /\ r[n][k] = q[n][Origin(k, a)]
    /\ \A i \in DOMAIN q[n] : i # a => \E k \in DOMAIN r[n] : Origin(k, a) = i
    /\ \A k, l \in DOMAIN r[n] : Origin(k, a) = Origin(l, a) => k = l

(* A job leaves one queue, and those behind it move up.                     *)
LEMMA Removed ==
    ASSUME NEW q, QueuesAgree(q), NEW n \in Nodes, NEW a \in DOMAIN q[n],
           NEW s, s = Pool!RemoveAt(q[n], a), NEW r, r = [q EXCEPT ![n] = s]
    PROVE  Without(q, r, n, a)
  <1>1. /\ q[n] \in Seq(PoolJobs(n)) /\ Len(q[n]) \in Nat /\ DOMAIN q[n] = 1..Len(q[n])
        /\ PoolJobs(n) \subseteq Pool!Job
    BY Queues DEF PoolJobs
  <1> DEFINE shorter == RemoveAt(q[n], a)
  <1>2. /\ shorter \in Seq(PoolJobs(n)) /\ Len(shorter) = Len(q[n]) - 1
        /\ \A k \in 1..(Len(q[n]) - 1) : shorter[k] = IF k < a THEN q[n][k] ELSE q[n][k + 1]
    BY <1>1, RemoveAtDoes
  <1>3. DOMAIN shorter = 1..(Len(q[n]) - 1) /\ shorter \in Seq(Pool!Job)
    BY <1>1, <1>2, LenProperties
  <1>4. s = shorter
    BY DEF Pool!RemoveAt, RemoveAt
  <1> HIDE DEF shorter
  <1>5. q \in [Nodes -> Seq(Pool!Job)] /\ \A m \in Nodes : q[m] \in Seq(PoolJobs(m))
    BY DEF QueuesAgree
  <1>6. QueuesAgree(r)
    BY <1>2, <1>3, <1>4, <1>5 DEF QueuesAgree
  <1>7. r[n] = shorter /\ \A m \in Nodes \ {n} : r[m] = q[m]
    BY <1>4, <1>5
  <1>8. a \in 1..Len(q[n])
    BY <1>1
  <1>9. ASSUME NEW k \in DOMAIN r[n]
        PROVE  Origin(k, a) \in DOMAIN q[n] /\ Origin(k, a) # a /\ r[n][k] = q[n][Origin(k, a)]
    <2>1. k \in 1..(Len(q[n]) - 1)
      BY <1>3, <1>7
    <2>2. Origin(k, a) \in DOMAIN q[n] /\ Origin(k, a) # a
      BY <1>1, <1>8, <2>1 DEF Origin
    <2> QED BY <1>2, <1>7, <2>1, <2>2 DEF Origin
  <1>10. ASSUME NEW i \in DOMAIN q[n], i # a
         PROVE  \E k \in DOMAIN r[n] : Origin(k, a) = i
    <2>1. CASE i < a
      <3>1. i \in DOMAIN r[n] /\ Origin(i, a) = i
        BY <1>1, <1>3, <1>7, <1>8, <2>1 DEF Origin
      <3> QED BY <3>1
    <2>2. CASE ~(i < a)
      <3>1. i - 1 \in DOMAIN r[n] /\ Origin(i - 1, a) = i
        BY <1>1, <1>3, <1>7, <1>8, <1>10, <2>2 DEF Origin
      <3> QED BY <3>1
    <2> QED BY <2>1, <2>2
  <1>11. \A k, l \in DOMAIN r[n] : Origin(k, a) = Origin(l, a) => k = l
    BY <1>1, <1>3, <1>7, <1>8 DEF Origin
  <1> QED BY <1>6, <1>7, <1>9, <1>10, <1>11 DEF Without

(* Some are marked.                                                         *)
MarkedOf(q, r) ==
    /\ DOMAIN r = Nodes /\ r = [m \in Nodes |-> r[m]]
    /\ \A m \in Nodes : /\ DOMAIN r[m] = DOMAIN q[m] /\ r[m] = [i \in DOMAIN r[m] |-> r[m][i]]
                         /\ \A i \in DOMAIN q[m] : r[m][i] \in Pool!Job /\ Alike(q[m][i], r[m][i])

(* Some jobs change, but not what they are.                                 *)
LEMMA Marked ==
    ASSUME NEW q, QueuesAgree(q), NEW r, MarkedOf(q, r)
    PROVE  QueuesAgree(r)
  <1> USE DEF MarkedOf
  <1>1. ASSUME NEW m \in Nodes PROVE r[m] \in Seq(PoolJobs(m)) /\ r[m] \in Seq(Pool!Job)
    <2>1. /\ Len(q[m]) \in Nat /\ DOMAIN q[m] = 1..Len(q[m])
          /\ \A i \in DOMAIN q[m] : q[m][i] \in PoolJobs(m)
      BY Queues
    <2>2. \A i \in DOMAIN r[m] : r[m][i] \in PoolJobs(m)
      BY <2>1 DEF Alike, PoolJobs
    <2>3. r[m] \in [1..Len(q[m]) -> PoolJobs(m)]
      BY <2>1, <2>2
    <2>4. PoolJobs(m) \subseteq Pool!Job
      BY DEF PoolJobs
    <2> QED BY <2>1, <2>3, <2>4, SeqDef
  <1> QED BY <1>1 DEF QueuesAgree

(* The rebalances among the jobs: marking and other jobs bring none, and    *)
(* none is made of a job that leaves.                                       *)
Moves(q, n) == {i \in DOMAIN q[n] : q[n][i].kind = "vault_sweep"}
NoMore(q, r) ==
    \A n \in Nodes : /\ IsFiniteSet(Moves(q, n)) /\ IsFiniteSet(Moves(r, n))
                     /\ Cardinality(Moves(r, n)) <= Cardinality(Moves(q, n))

(* Rebalances can be counted.                                               *)
LEMMA MovesFinite ==
    ASSUME NEW q, QueuesAgree(q), NEW n \in Nodes
    PROVE  IsFiniteSet(Moves(q, n)) /\ Cardinality(Moves(q, n)) \in Nat
  <1>1. Len(q[n]) \in Nat /\ DOMAIN q[n] = 1..Len(q[n])
    BY Queues
  <1>2. IsFiniteSet(DOMAIN q[n]) /\ Moves(q, n) \subseteq DOMAIN q[n]
    BY <1>1, FS_Interval DEF Moves
  <1> QED BY <1>2, FS_Subset, FS_CardinalityType

(* None is added where nothing changes,                                     *)
LEMMA NoMoreIfSame ==
    ASSUME NEW q, QueuesAgree(q), NEW r, QueuesAgree(r),
           \A n \in Nodes : Moves(r, n) = Moves(q, n)
    PROVE  NoMore(q, r)
  BY MovesFinite DEF NoMore

(* nor where jobs are marked,                                               *)
LEMMA NoMoreOfMarked ==
    ASSUME NEW q, QueuesAgree(q), NEW r, QueuesAgree(r),
           \A m \in Nodes : /\ DOMAIN r[m] = DOMAIN q[m]
                            /\ \A i \in DOMAIN q[m] : Alike(q[m][i], r[m][i])
    PROVE  NoMore(q, r)
  <1>1. \A n \in Nodes : Moves(r, n) = Moves(q, n)
    BY DEF Moves, Alike
  <1> QED BY <1>1, NoMoreIfSame

(* nor where another kind of job is added,                                  *)
LEMMA NoMoreOfOthers ==
    ASSUME NEW q, QueuesAgree(q), NEW r, NEW n \in Nodes, NEW j, With(q, r, n, j),
           j.kind # "vault_sweep"
    PROVE  NoMore(q, r)
  <1>1. ASSUME NEW m \in Nodes PROVE Moves(r, m) = Moves(q, m)
    BY DEF With, Moves
  <1> QED BY <1>1, NoMoreIfSame DEF With

(* nor where a job leaves,                                                  *)
LEMMA NoMoreOfRemoved ==
    ASSUME NEW q, QueuesAgree(q), NEW r, NEW n \in Nodes, NEW a, Without(q, r, n, a)
    PROVE  NoMore(q, r)
  <1>1. QueuesAgree(r)
    BY DEF Without
  <1>2. ASSUME NEW m \in Nodes PROVE Cardinality(Moves(r, m)) <= Cardinality(Moves(q, m))
    <2>1. CASE m = n
      <3> DEFINE f == [k \in Moves(r, n) |-> Origin(k, a)]
      <3>1. f \in [Moves(r, n) -> Moves(q, n)]
        BY DEF Without, Moves
      <3>2. \A k, l \in Moves(r, n) : f[k] = f[l] => k = l
        BY DEF Without, Moves
      <3> HIDE DEF f
      <3>3. f \in Injection(Moves(r, n), Moves(q, n))
        BY <3>1, <3>2 DEF Injection, IsInjective
      <3> QED BY <2>1, <3>3, MovesFinite, FS_Injection
    <2>2. CASE m # n
      <3>1. Moves(r, m) = Moves(q, m)
        BY <2>2 DEF Without, Moves
      <3> QED BY <3>1, MovesFinite
    <2> QED BY <2>1, <2>2
  <1> QED BY <1>1, <1>2, MovesFinite DEF NoMore

(* nor by one of these after another.                                       *)
LEMMA NoMoreInTheEnd ==
    ASSUME NEW q, QueuesAgree(q), NEW r, QueuesAgree(r), NEW s, QueuesAgree(s), NoMore(q, r), NoMore(r, s)
    PROVE  NoMore(q, s)
  <1>1. \A n \in Nodes : /\ Cardinality(Moves(q, n)) \in Nat /\ Cardinality(Moves(r, n)) \in Nat
                         /\ Cardinality(Moves(s, n)) \in Nat
    BY MovesFinite
  <1> QED BY <1>1 DEF NoMore

-----------------------------------------------------------------------------
(* A withdrawal and its jobs                                                *)

(* The job is on the node the row names, or sends money to it, and the row  *)
(* says which of the two it is.                                             *)
PlaceAgrees(j, n, st, py) ==
    IF j.kind = "cash_payout" THEN py = n /\ st \in {"queued", "pending_approval"}
    ELSE py = j.to /\ st = "awaiting_vault"

RowAgrees(q, st, py, w) ==
    /\ \A m, n \in Nodes : \A i \in DOMAIN q[m] : \A k \in DOMAIN q[n] :
          q[m][i].w = w /\ q[n][k].w = w => m = n /\ i = k
    /\ \A n \in Nodes : \A i \in DOMAIN q[n] : q[n][i].w = w => PlaceAgrees(q[n][i], n, st, py)
    /\ st \in {"queued", "awaiting_vault"} => \E n \in Nodes : \E i \in DOMAIN q[n] : q[n][i].w = w
    /\ st \in {"pending_approval", "queued", "awaiting_vault"} => py \in Nodes

(* A row agrees with its jobs after a job of another row is added,          *)
LEMMA RowOfAppended ==
    ASSUME NEW q, NEW r, NEW n \in Nodes, NEW j, With(q, r, n, j),
           NEW w, NEW st, NEW py, RowAgrees(q, st, py, w), j.w # w
    PROVE  RowAgrees(r, st, py, w)
  <1>1. /\ \A m \in Nodes : \A i \in DOMAIN q[m] : i \in DOMAIN r[m] /\ r[m][i] = q[m][i]
        /\ \A m \in Nodes : \A i \in DOMAIN r[m] :
              i \in DOMAIN q[m] \/ (m = n /\ i = Len(q[n]) + 1)
        /\ r[n][Len(q[n]) + 1] = j
    BY DEF With
  <1>2. ASSUME NEW m \in Nodes, NEW i \in DOMAIN r[m], r[m][i].w = w
        PROVE  i \in DOMAIN q[m] /\ r[m][i] = q[m][i]
    BY <1>1, <1>2
  <1> QED BY <1>1, <1>2 DEF RowAgrees

(* after its own first job is added,                                        *)
LEMMA RowOfItsOwn ==
    ASSUME NEW q, NEW r, NEW n \in Nodes, NEW j, With(q, r, n, j),
           NEW w, NEW st, NEW py \in Nodes, j.w = w, PlaceAgrees(j, n, st, py),
           \A m \in Nodes : \A i \in DOMAIN q[m] : q[m][i].w # w
    PROVE  RowAgrees(r, st, py, w)
  <1>1. /\ \A m \in Nodes : \A i \in DOMAIN q[m] : i \in DOMAIN r[m] /\ r[m][i] = q[m][i]
        /\ \A m \in Nodes : \A i \in DOMAIN r[m] :
              i \in DOMAIN q[m] \/ (m = n /\ i = Len(q[n]) + 1)
        /\ r[n][Len(q[n]) + 1] = j /\ Len(q[n]) + 1 \in DOMAIN r[n]
    BY DEF With
  <1>2. ASSUME NEW m \in Nodes, NEW i \in DOMAIN r[m], r[m][i].w = w
        PROVE  m = n /\ i = Len(q[n]) + 1 /\ r[m][i] = j
    BY <1>1, <1>2
  <1> QED BY <1>1, <1>2 DEF RowAgrees

(* after jobs are marked,                                                   *)
LEMMA RowOfMarked ==
    ASSUME NEW q, NEW r,
           \A m \in Nodes : /\ DOMAIN r[m] = DOMAIN q[m]
                            /\ \A i \in DOMAIN q[m] : Alike(q[m][i], r[m][i]),
           NEW w, NEW st, NEW py, RowAgrees(q, st, py, w)
    PROVE  RowAgrees(r, st, py, w)
  <1>1. ASSUME NEW m \in Nodes, NEW i \in DOMAIN r[m]
        PROVE  /\ i \in DOMAIN q[m] /\ (r[m][i].w = w <=> q[m][i].w = w)
               /\ PlaceAgrees(q[m][i], m, st, py) => PlaceAgrees(r[m][i], m, st, py)
    BY DEF Alike, PlaceAgrees
  <1>2. ASSUME NEW m \in Nodes, NEW i \in DOMAIN q[m]
        PROVE  i \in DOMAIN r[m] /\ (r[m][i].w = w <=> q[m][i].w = w)
    BY <1>1
  <1> QED BY <1>1, <1>2 DEF RowAgrees

(* after a job of another row has left,                                     *)
LEMMA RowOfRemoved ==
    ASSUME NEW q, NEW r, NEW n \in Nodes, NEW a, Without(q, r, n, a),
           NEW w, NEW st, NEW py, RowAgrees(q, st, py, w), q[n][a].w # w
    PROVE  RowAgrees(r, st, py, w)
  <1> DEFINE from(m, k) == IF m = n THEN Origin(k, a) ELSE k
  <1>1. /\ QueuesAgree(r)
        /\ \A m \in Nodes \ {n} : r[m] = q[m]
        /\ \A k \in DOMAIN r[n] : /\ Origin(k, a) \in DOMAIN q[n] /\ Origin(k, a) # a
                                  /\ r[n][k] = q[n][Origin(k, a)]
        /\ \A i \in DOMAIN q[n] : i # a => \E k \in DOMAIN r[n] : Origin(k, a) = i
        /\ \A k, l \in DOMAIN r[n] : Origin(k, a) = Origin(l, a) => k = l
    BY DEF Without
  <1>2. ASSUME NEW m \in Nodes, NEW k \in DOMAIN r[m]
        PROVE  from(m, k) \in DOMAIN q[m] /\ r[m][k] = q[m][from(m, k)]
    BY <1>1
  <1>3. \A m \in Nodes : \A k, l \in DOMAIN r[m] : from(m, k) = from(m, l) => k = l
    BY <1>1
  <1>4. ASSUME NEW m \in Nodes, NEW i \in DOMAIN q[m], q[m][i].w = w
        PROVE  \E k \in DOMAIN r[m] : from(m, k) = i
    BY <1>1, <1>4
  <1> HIDE DEF from
  <1>5. ASSUME NEW m \in Nodes, NEW x \in Nodes, NEW i \in DOMAIN r[m], NEW k \in DOMAIN r[x],
               r[m][i].w = w, r[x][k].w = w
        PROVE  m = x /\ i = k
    <2>1. m = x /\ from(m, i) = from(x, k)
      BY <1>2, <1>5 DEF RowAgrees
    <2> QED BY <1>3, <2>1
  <1>6. ASSUME NEW m \in Nodes, NEW i \in DOMAIN r[m], r[m][i].w = w
        PROVE  PlaceAgrees(r[m][i], m, st, py)
    BY <1>2, <1>6 DEF RowAgrees
  <1>7. st \in {"queued", "awaiting_vault"} => \E m \in Nodes : \E i \in DOMAIN r[m] : r[m][i].w = w
    <2> SUFFICES ASSUME st \in {"queued", "awaiting_vault"}
                 PROVE  \E m \in Nodes : \E i \in DOMAIN r[m] : r[m][i].w = w
      OBVIOUS
    <2>1. PICK m \in Nodes : \E i \in DOMAIN q[m] : q[m][i].w = w
      BY DEF RowAgrees
    <2>2. PICK i \in DOMAIN q[m] : q[m][i].w = w
      BY <2>1
    <2>3. PICK k \in DOMAIN r[m] : from(m, k) = i
      BY <1>4, <2>2
    <2> QED BY <1>2, <2>2, <2>3
  <1> QED BY <1>5, <1>6, <1>7 DEF RowAgrees

(* and a row whose only job has left has none.                              *)
LEMMA NoneOfRemoved ==
    ASSUME NEW q, NEW r, NEW n \in Nodes, NEW a \in DOMAIN q[n], Without(q, r, n, a),
           NEW st, NEW py, RowAgrees(q, st, py, q[n][a].w)
    PROVE  \A m \in Nodes : \A i \in DOMAIN r[m] : r[m][i].w # q[n][a].w
  <1>1. /\ QueuesAgree(r)
        /\ \A m \in Nodes \ {n} : r[m] = q[m]
        /\ \A k \in DOMAIN r[n] : /\ Origin(k, a) \in DOMAIN q[n] /\ Origin(k, a) # a
                                  /\ r[n][k] = q[n][Origin(k, a)]
        /\ \A i \in DOMAIN q[n] : i # a => \E k \in DOMAIN r[n] : Origin(k, a) = i
        /\ \A k, l \in DOMAIN r[n] : Origin(k, a) = Origin(l, a) => k = l
    BY DEF Without
  <1>2. ASSUME NEW m \in Nodes, NEW i \in DOMAIN r[m], r[m][i].w = q[n][a].w PROVE FALSE
    <2>1. CASE m = n
      BY <1>1, <1>2, <2>1 DEF RowAgrees
    <2>2. CASE m # n
      BY <1>1, <1>2, <2>2 DEF RowAgrees
    <2> QED BY <2>1, <2>2
  <1> QED BY <1>2

(* A withdrawal nobody has asked for, or that is done, has no job.          *)
LEMMA NoJobYet ==
    ASSUME NEW q, NEW st, NEW py, NEW w, RowAgrees(q, st, py, w), st \in {"none", "paid"}
    PROVE  \A m \in Nodes : \A i \in DOMAIN q[m] : q[m][i].w # w
  BY DEF RowAgrees, PlaceAgrees

-----------------------------------------------------------------------------
(* Routing                                                                  *)

PoolRows == \A w \in Asked : RowAgrees(jobs, status[w], payer[w], w)
PoolGood == PoolInv /\ PoolRows

(* A withdrawal gets its one job.                                           *)
RoutedAnew(w) ==
    \E b, n \in Nodes, j \in Pool!Job, st \in {"queued", "awaiting_vault"} :
        /\ j \in PoolJobs(b) /\ jobs' = [jobs EXCEPT ![b] = Append(@, j)]
        /\ payer' = [payer EXCEPT ![w] = n] /\ status' = [status EXCEPT ![w] = st]
        /\ j.w = w /\ j.kind # "vault_sweep" /\ PlaceAgrees(j, b, st, n)

(* Jobs are marked, and nothing else about them changes.                    *)
OnlyMarked ==
    /\ QueuesAgree(jobs')
    /\ \A m \in Nodes : /\ DOMAIN jobs'[m] = DOMAIN jobs[m]
                        /\ \A i \in DOMAIN jobs[m] : Alike(jobs[m][i], jobs'[m][i])

(* The payout of a withdrawal is a job for any node.                        *)
LEMMA PayoutIsAJob ==
    ASSUME Pool!ConstantsOK, NEW w \in Asked, NEW n \in Nodes
    PROVE  /\ Pool!NewJob("cash_payout", w, Amount[w], 0) \in PoolJobs(n)
           /\ Pool!NewJob("cash_payout", w, Amount[w], 0).w = w
           /\ Pool!NewJob("cash_payout", w, Amount[w], 0).kind = "cash_payout"
  BY PoolConstants DEF Pool!NewJob, PoolJobs, Pool!Job

(* A withdrawal that one node can pay.                                      *)
LEMMA PaidDirectly ==
    ASSUME Pool!ConstantsOK, PoolJobsAgree, NEW w \in Asked, NEW n \in Nodes,
           Pool!PayDirectly(w, n), ~Pool!HasPayout(w),
           payer' = [payer EXCEPT ![w] = n], status' = [status EXCEPT ![w] = "queued"]
    PROVE  RoutedAnew(w)
  <1> DEFINE j == Pool!NewJob("cash_payout", w, Amount[w], 0)
  <1>1. j \in PoolJobs(n) /\ j.w = w /\ j.kind = "cash_payout"
    BY PayoutIsAJob
  <1>2. jobs' = [jobs EXCEPT ![n] = Append(@, j)]
    BY DEF Pool!PayDirectly
  <1> HIDE DEF j
  <1>3. PlaceAgrees(j, n, "queued", n) /\ j.kind # "vault_sweep"
    BY <1>1 DEF PlaceAgrees
  <1> QED BY <1>1, <1>2, <1>3 DEF RoutedAnew, PoolJobs

(* A payout that was held and is approved is released, not made anew.       *)
LEMMA PaidAgain ==
    ASSUME PoolJobsAgree, NEW w \in Asked, NEW n, Pool!PayDirectly(w, n), Pool!HasPayout(w)
    PROVE  OnlyMarked
  <1>1. jobs' = [m \in Nodes |-> [i \in DOMAIN jobs[m] |->
                    IF jobs[m][i].kind = "cash_payout" /\ jobs[m][i].w = w
                    THEN [jobs[m][i] EXCEPT !.held = FALSE] ELSE jobs[m][i]]]
    BY DEF Pool!PayDirectly
  <1>2. ASSUME NEW m \in Nodes, NEW i \in DOMAIN jobs[m]
        PROVE  jobs'[m][i] \in Pool!Job /\ Alike(jobs[m][i], jobs'[m][i])
    <2>1. jobs[m][i] \in Pool!Job
      BY PoolJobTypes
    <2>2. jobs'[m][i] = IF jobs[m][i].kind = "cash_payout" /\ jobs[m][i].w = w
                        THEN [jobs[m][i] EXCEPT !.held = FALSE] ELSE jobs[m][i]
      BY <1>1
    <2> QED BY <2>1, <2>2 DEF Pool!Job, Alike
  <1>3. \A m \in Nodes : DOMAIN jobs'[m] = DOMAIN jobs[m] /\ jobs'[m] = [i \in DOMAIN jobs'[m] |-> jobs'[m][i]]
    BY <1>1
  <1>4. DOMAIN jobs' = Nodes /\ jobs' = [m \in Nodes |-> jobs'[m]]
    BY <1>1
  <1>5. QueuesAgree(jobs')
    <2> DEFINE r == jobs'
    <2>1. QueuesAgree(jobs)
      BY DEF PoolJobsAgree
    <2>2. MarkedOf(jobs, r)
      BY <1>2, <1>3, <1>4 DEF MarkedOf
    <2> HIDE DEF r
    <2>4. QueuesAgree(r)
      BY <2>1, <2>2, Marked
    <2> QED BY <2>4 DEF r
  <1> QED BY <1>2, <1>3, <1>5 DEF OnlyMarked

(* A withdrawal that needs another node's money.                            *)
LEMMA PaidFromPool ==
    ASSUME Pool!ConstantsOK, FinitePool, PoolTypes, PoolJobsAgree, NEW w \in Asked,
           Pool!PayFromPool(w), ~Pool!HasPayout(w), Pool!Online # {}
    PROVE  RoutedAnew(w) /\ funding' \in [Asked -> {"float", "vault"}]
  <1> DEFINE chosen == Pool!Richest(Pool!Online)
             free == Pool!Free(chosen)
             others == {n \in Pool!Pool \ {chosen} : Pool!Free(n) > 0}
             short == Amount[w] - (IF free > 0 THEN free ELSE 0)
             j == Pool!NewJob("vault_release", w, short, chosen)
  <1>1. Pool!Online \in SUBSET Nodes /\ others \in SUBSET Nodes /\ chosen \notin others
    BY DEF Pool!Online, Pool!Pool
  <1>2. chosen \in Nodes
    BY <1>1, ExtremesAreThere
  <1>3. funding' \in [Asked -> {"float", "vault"}] /\ payer' = [payer EXCEPT ![w] = chosen]
    BY DEF Pool!PayFromPool, PoolTypes
  <1>4. CASE free >= Amount[w] \/ others = {}
    <2>1. status' = [status EXCEPT ![w] = "queued"] /\ Pool!PayDirectly(w, chosen)
      BY <1>4 DEF Pool!PayFromPool
    <2> QED BY <1>2, <1>3, <2>1, PaidDirectly
  <1>5. CASE ~(free >= Amount[w] \/ others = {})
    <2> DEFINE b == Pool!Richest(others)
    <2>1. status' = [status EXCEPT ![w] = "awaiting_vault"] /\ jobs' = [jobs EXCEPT ![b] = Append(@, j)]
      BY <1>5 DEF Pool!PayFromPool
    <2>2. b \in others
      BY <1>1, <1>5, ExtremesAreThere
    <2>3. b \in Nodes /\ b # chosen
      BY <1>1, <2>2
    <2>4. Amount[w] \in Nat /\ Amount[w] > 0 /\ free \in Int /\ ~(free >= Amount[w])
      BY <1>2, <1>5, PoolConstants, FreeType
    <2>5. short \in Nat \ {0}
      BY <2>4
    <2> HIDE DEF short, chosen, b
    <2>6. j \in PoolJobs(b)
      BY <1>2, <2>3, <2>5, PoolConstants DEF PoolJobs, Pool!Job, Pool!NewJob
    <2>7. j.w = w /\ j.kind = "vault_release" /\ j.to = chosen
      BY DEF Pool!NewJob
    <2> HIDE DEF j
    <2>8. PlaceAgrees(j, b, "awaiting_vault", chosen) /\ j.kind # "vault_sweep"
      BY <2>7 DEF PlaceAgrees
    <2> QED BY <1>2, <1>3, <2>1, <2>3, <2>6, <2>7, <2>8 DEF RoutedAnew, PoolJobs
  <1> QED BY <1>4, <1>5

(* The three ways a withdrawal may be routed.                               *)
LEMMA RouteDoes ==
    ASSUME Pool!ConstantsOK, FinitePool, PoolTypes, PoolJobsAgree, NEW w \in Asked, NEW taker \in Nodes,
           Pool!Route(w, taker)
    PROVE  /\ funding' \in [Asked -> {"float", "vault"}]
           /\ \/ RoutedAnew(w) /\ ~Pool!HasPayout(w)
              \/ /\ OnlyMarked /\ Pool!HasPayout(w)
                 /\ payer' = [payer EXCEPT ![w] = taker] /\ status' = [status EXCEPT ![w] = "queued"]
  <1>1. CASE ~Pool!HasPayout(w) /\ Pool!Online # {}
    BY <1>1, PaidFromPool DEF Pool!Route
  <1>2. CASE ~(~Pool!HasPayout(w) /\ Pool!Online # {})
    <2>1. /\ payer' = [payer EXCEPT ![w] = taker] /\ status' = [status EXCEPT ![w] = "queued"]
          /\ Pool!PayDirectly(w, taker) /\ UNCHANGED funding
      BY <1>2 DEF Pool!Route
    <2>2. funding' \in [Asked -> {"float", "vault"}]
      BY <2>1 DEF PoolTypes
    <2>3. CASE Pool!HasPayout(w)
      BY <2>1, <2>2, <2>3, PaidAgain
    <2>4. CASE ~Pool!HasPayout(w)
      BY <2>1, <2>2, <2>4, PaidDirectly
    <2> QED BY <2>3, <2>4
  <1> QED BY <1>1, <1>2

(* Books and hands are kept as a job is added,                              *)
LEMMA KeptAsOneIsAdded ==
    ASSUME PoolJobsAgree, hand' = hand, NEW b \in Nodes, NEW j \in PoolJobs(b),
           jobs' = [jobs EXCEPT ![b] = Append(@, j)]
    PROVE  QueuesAgree(jobs') /\ PoolJobsAgree' /\ \A c \in Nodes : Kept(c)
  <1> DEFINE r == jobs'
  <1>1. QueuesAgree(jobs)
    BY DEF PoolJobsAgree
  <1>2. r = [jobs EXCEPT ![b] = Append(@, j)]
    OBVIOUS
  <1> HIDE DEF r
  <1>3. With(jobs, r, b, j)
    BY <1>1, <1>2, Appended
  <1>5. \A c \in Nodes : Kept(c)
    BY <1>3 DEF Kept, Alike, r, With
  <1> QED BY <1>3, <1>5 DEF r, PoolJobsAgree, QueuesAgree, With

(* and as jobs are marked.                                                  *)
LEMMA KeptAsSomeAreMarked ==
    ASSUME hand' = hand, OnlyMarked
    PROVE  PoolJobsAgree' /\ \A c \in Nodes : Kept(c)
  BY DEF OnlyMarked, Kept, PoolJobsAgree, QueuesAgree

(* Rows and jobs agree after one row is routed,                             *)
LEMMA RowsAsOneIsAdded ==
    ASSUME PoolTypes, PoolJobsAgree, PoolRows, NEW w \in Asked, RoutedAnew(w),
           \A m \in Nodes : \A i \in DOMAIN jobs[m] : jobs[m][i].w # w
    PROVE  PoolRows'
  <1>1. PICK b \in Nodes, n \in Nodes, j \in Pool!Job, st \in {"queued", "awaiting_vault"} :
            /\ j \in PoolJobs(b) /\ jobs' = [jobs EXCEPT ![b] = Append(@, j)]
            /\ payer' = [payer EXCEPT ![w] = n] /\ status' = [status EXCEPT ![w] = st]
            /\ j.w = w /\ j.kind # "vault_sweep" /\ PlaceAgrees(j, b, st, n)
    BY DEF RoutedAnew
  <1>2. QueuesAgree(jobs) /\ DOMAIN status = Asked /\ DOMAIN payer = Asked
    BY DEF PoolJobsAgree, PoolTypes
  <1> DEFINE r == jobs'
  <1>3. With(jobs, r, b, j)
    <2>1. r = [jobs EXCEPT ![b] = Append(@, j)]
      BY <1>1
    <2> HIDE DEF r
    <2> QED BY <1>1, <1>2, <2>1, Appended
  <1> HIDE DEF r
  <1>4. RowAgrees(r, st, n, w)
    BY <1>1, <1>2, <1>3, RowOfItsOwn
  <1>5. status'[w] = st /\ payer'[w] = n
    BY <1>1, <1>2
  <1>6. ASSUME NEW x \in Asked, x # w PROVE RowAgrees(r, status'[x], payer'[x], x)
    <2>1. status'[x] = status[x] /\ payer'[x] = payer[x]
      BY <1>1, <1>2, <1>6
    <2>2. RowAgrees(jobs, status[x], payer[x], x) /\ j.w # x
      BY <1>1, <1>6 DEF PoolRows
    <2>3. RowAgrees(r, status[x], payer[x], x)
      BY <1>1, <1>2, <1>3, <2>2, RowOfAppended
    <2> QED BY <2>1, <2>3
  <1> QED BY <1>4, <1>5, <1>6 DEF PoolRows, r, RowAgrees, PlaceAgrees

(* and after jobs are marked.                                               *)
LEMMA RowsAsSomeAreMarked ==
    ASSUME PoolTypes, PoolRows, OnlyMarked, NEW w \in Asked, NEW st, NEW py,
           status' = [status EXCEPT ![w] = st], payer' = [payer EXCEPT ![w] = py],
           RowAgrees(jobs, st, py, w)
    PROVE  PoolRows'
  <1> DEFINE r == jobs'
  <1>1. \A m \in Nodes : /\ DOMAIN r[m] = DOMAIN jobs[m]
                         /\ \A i \in DOMAIN jobs[m] : Alike(jobs[m][i], r[m][i])
    BY DEF OnlyMarked
  <1> HIDE DEF r
  <1>2. ASSUME NEW x \in Asked PROVE RowAgrees(jobs, status'[x], payer'[x], x)
    BY DEF PoolTypes, PoolRows
  <1>3. ASSUME NEW x \in Asked PROVE RowAgrees(r, status'[x], payer'[x], x)
    BY <1>1, <1>2, RowOfMarked
  <1> QED BY <1>3 DEF PoolRows, r, RowAgrees, PlaceAgrees

(* A withdrawal is asked for or approved.                                   *)
LEMMA PoolRoutes ==
    ASSUME Pool!ConstantsOK, FinitePool, PoolGood, NEW w \in Asked, NEW taker \in Nodes,
           status[w] = "none" \/ (status[w] = "pending_approval" /\ taker = payer[w]),
           Pool!Route(w, taker), UNCHANGED <<hand, books, held, receipt, reach, told, watch, cooling>>
    PROVE  PoolGood'
  <1>1. PoolTypes /\ PoolJobsAgree /\ PoolHandsAgree /\ RowAgrees(jobs, status[w], payer[w], w)
    BY DEF PoolGood, PoolInv, PoolRows
  <1>2. CASE RoutedAnew(w) /\ ~Pool!HasPayout(w)
    <2>1. \A m \in Nodes : \A i \in DOMAIN jobs[m] : jobs[m][i].w # w
      BY <1>1, <1>2 DEF RowAgrees, PlaceAgrees, Pool!HasPayout
    <2>2. PoolRows'
      BY <1>1, <1>2, <2>1, RowsAsOneIsAdded DEF PoolGood
    <2>3. PICK b \in Nodes, n \in Nodes, j \in Pool!Job, st \in {"queued", "awaiting_vault"} :
              /\ j \in PoolJobs(b) /\ jobs' = [jobs EXCEPT ![b] = Append(@, j)]
              /\ payer' = [payer EXCEPT ![w] = n] /\ status' = [status EXCEPT ![w] = st]
      BY <1>2 DEF RoutedAnew
    <2>4. PoolJobsAgree' /\ \A c \in Nodes : Kept(c)
      BY <1>1, <2>3, KeptAsOneIsAdded
    <2>5. funding' \in [Asked -> {"float", "vault"}]
      BY <1>1, RouteDoes
    <2>6. PoolTypes'
      BY <1>1, <2>3, <2>5 DEF PoolTypes, Pool!Statuses
    <2>7. PoolInv'
      BY <2>4, <2>6, AllKept DEF PoolGood, LandingAt
    <2> QED BY <2>2, <2>7 DEF PoolGood
  <1>3. CASE /\ OnlyMarked /\ Pool!HasPayout(w)
             /\ payer' = [payer EXCEPT ![w] = taker] /\ status' = [status EXCEPT ![w] = "queued"]
    <2>0. PICK n \in Nodes : \E i \in DOMAIN jobs[n] :
                  jobs[n][i].kind = "cash_payout" /\ jobs[n][i].w = w
      BY <1>3 DEF Pool!HasPayout
    <2>1. PICK i \in DOMAIN jobs[n] : jobs[n][i].kind = "cash_payout" /\ jobs[n][i].w = w
      BY <2>0
    <2>2. PlaceAgrees(jobs[n][i], n, status[w], payer[w])
      BY <1>1, <2>1 DEF RowAgrees
    <2>3. status[w] = "pending_approval" /\ taker = payer[w]
      BY <2>1, <2>2 DEF PlaceAgrees
    <2>4. RowAgrees(jobs, "queued", taker, w)
      BY <1>1, <2>1, <2>3 DEF RowAgrees, PlaceAgrees
    <2>5. PoolRows'
      BY <1>1, <1>3, <2>4, RowsAsSomeAreMarked DEF PoolGood
    <2>6. PoolJobsAgree' /\ \A c \in Nodes : Kept(c)
      BY <1>3, KeptAsSomeAreMarked
    <2>7. funding' \in [Asked -> {"float", "vault"}]
      BY <1>1, RouteDoes
    <2>8. PoolTypes'
      BY <1>1, <1>3, <2>7 DEF PoolTypes, Pool!Statuses
    <2>9. PoolInv'
      BY <2>6, <2>8, AllKept DEF PoolGood, LandingAt
    <2> QED BY <2>5, <2>9 DEF PoolGood
  <1> QED BY <1>1, <1>2, <1>3, RouteDoes

(* The routing finds a node.                                                *)
LEMMA SomebodyIsOnline ==
    ASSUME Pool!ConstantsOK, FinitePool, PoolTypes, PoolJobsAgree, Pool!Online # {}
    PROVE  Pool!Poorest(Pool!Online) \in Nodes
  <1>1. Pool!Online \in SUBSET Nodes
    BY DEF Pool!Online
  <1> QED BY <1>1, ExtremesAreThere

(* A request or an approval is routed at once.                              *)
LEMMA PoolRequest ==
    ASSUME Pool!ConstantsOK, FinitePool, PoolGood, NEW w \in Asked,
           Pool!Request(w) \/ Pool!Approve(w)
    PROVE  PoolGood'
  <1>1. PoolTypes /\ PoolJobsAgree /\ RowAgrees(jobs, status[w], payer[w], w)
    BY DEF PoolGood, PoolInv, PoolRows
  <1>2. CASE Pool!Request(w)
    <2>1. /\ status[w] = "none" /\ Pool!Online # {} /\ Pool!Route(w, Pool!Poorest(Pool!Online))
          /\ UNCHANGED <<hand, books, held, receipt, reach, told, watch, cooling>>
      BY <1>2 DEF Pool!Request, Pool!money, Pool!sweeper
    <2>2. Pool!Poorest(Pool!Online) \in Nodes
      BY <1>1, <2>1, SomebodyIsOnline
    <2> QED BY <2>1, <2>2, PoolRoutes
  <1>3. CASE Pool!Approve(w)
    <2>1. /\ status[w] = "pending_approval" /\ Pool!Route(w, payer[w])
          /\ UNCHANGED <<hand, books, held, receipt, reach, told, watch, cooling>>
      BY <1>3 DEF Pool!Approve, Pool!money, Pool!sweeper
    <2>2. payer[w] \in Nodes
      BY <1>1, <2>1 DEF RowAgrees
    <2> QED BY <2>1, <2>2, PoolRoutes
  <1> QED BY <1>2, <1>3

(* A step that moves no job leaves the rows to it.                          *)
LEMMA RowsAsNothingMoves ==
    ASSUME PoolRows, UNCHANGED <<jobs, status, payer>> PROVE PoolRows'
  BY DEF PoolRows, RowAgrees, PlaceAgrees

LEMMA KeptAsNothingMoves ==
    ASSUME PoolJobsAgree, UNCHANGED <<jobs, hand>>
    PROVE  PoolJobsAgree' /\ \A c \in Nodes : Kept(c)
  BY DEF Kept, Alike, PoolJobsAgree, QueuesAgree

(* A request that needs an approval has no job yet.                         *)
LEMMA PoolAskApproval ==
    ASSUME Pool!ConstantsOK, FinitePool, PoolGood, NEW w \in Asked, Pool!AskApproval(w)
    PROVE  PoolGood'
  <1>1. /\ PoolInv /\ PoolTypes /\ PoolJobsAgree /\ PoolRows
        /\ RowAgrees(jobs, status[w], payer[w], w)
    BY DEF PoolGood, PoolInv, PoolRows
  <1> DEFINE n == Pool!Poorest(Pool!Online)
  <1>2. /\ status[w] = "none" /\ Pool!Online # {}
        /\ status' = [status EXCEPT ![w] = "pending_approval"] /\ payer' = [payer EXCEPT ![w] = n]
        /\ UNCHANGED <<funding, jobs, hand, books, held, receipt, reach, told, watch, cooling>>
    BY DEF Pool!AskApproval, Pool!money, Pool!sweeper
  <1>3. n \in Nodes
    BY <1>1, <1>2, SomebodyIsOnline
  <1> HIDE DEF n
  <1>4. PoolJobsAgree' /\ \A c \in Nodes : Kept(c)
    BY <1>1, <1>2, KeptAsNothingMoves
  <1>5. PoolTypes'
    BY <1>1, <1>2, <1>3 DEF PoolTypes, Pool!Statuses
  <1>6. PoolInv'
    BY <1>1, <1>2, <1>4, <1>5, AllKept DEF LandingAt
  <1>7. \A m \in Nodes : \A i \in DOMAIN jobs[m] : jobs[m][i].w # w
    BY <1>1, <1>2, NoJobYet
  <1>8. RowAgrees(jobs, "pending_approval", n, w)
    BY <1>3, <1>7 DEF RowAgrees
  <1>9. ASSUME NEW x \in Asked PROVE RowAgrees(jobs, status'[x], payer'[x], x)
    <2>1. CASE x = w
      BY <1>1, <1>2, <1>8, <2>1 DEF PoolTypes
    <2>2. CASE x # w
      BY <1>1, <1>2, <2>2 DEF PoolTypes, PoolRows
    <2> QED BY <2>1, <2>2
  <1>10. PoolRows'
    BY <1>2, <1>9 DEF PoolRows, RowAgrees, PlaceAgrees
  <1> QED BY <1>6, <1>10 DEF PoolGood

(* An operator holds a payout no node has claimed.                          *)
LEMMA HoldMarks ==
    ASSUME Pool!ConstantsOK, FinitePool, PoolGood, NEW w \in Asked, NEW n \in Nodes,
           NEW i \in DOMAIN jobs[n], Pool!Hold(w, n, i)
    PROVE  OnlyMarked
  <1>1. /\ PoolInv /\ PoolTypes /\ PoolJobsAgree /\ PoolRows /\ QueuesAgree(jobs)
        /\ RowAgrees(jobs, status[w], payer[w], w)
    BY DEF PoolGood, PoolInv, PoolRows, PoolJobsAgree
  <1> DEFINE r == [jobs EXCEPT ![n][i].held = TRUE, ![n][i].waits = FALSE]
  <1>2. /\ status[w] = "queued" /\ jobs[n][i].kind = "cash_payout" /\ jobs[n][i].w = w
        /\ jobs' = r /\ status' = [status EXCEPT ![w] = "pending_approval"]
        /\ UNCHANGED <<payer, funding, hand, books, held, receipt, reach, told, watch, cooling>>
    BY DEF Pool!Hold, Pool!money, Pool!sweeper
  <1>3. MarkedOf(jobs, r)
    <2>1. DOMAIN r = Nodes /\ r = [m \in Nodes |-> r[m]]
      BY <1>1 DEF QueuesAgree
    <2>2. ASSUME NEW m \in Nodes PROVE DOMAIN r[m] = DOMAIN jobs[m] /\ r[m] = [k \in DOMAIN r[m] |-> r[m][k]]
      <3>1. jobs[m] \in Seq(Pool!Job) /\ jobs[n] \in Seq(Pool!Job) /\ DOMAIN jobs = Nodes
        BY <1>1 DEF QueuesAgree
      <3>2. jobs[m] = [k \in DOMAIN jobs[m] |-> jobs[m][k]]
        BY <3>1, LenProperties
      <3> QED BY <3>1, <3>2
    <2>3. ASSUME NEW m \in Nodes, NEW k \in DOMAIN jobs[m]
          PROVE  r[m][k] \in Pool!Job /\ Alike(jobs[m][k], r[m][k])
      <3>1. jobs[m][k] \in Pool!Job /\ DOMAIN jobs = Nodes
        BY <1>1, Queues DEF QueuesAgree
      <3>2. r[m][k] = IF m = n /\ k = i THEN [[jobs[n][i] EXCEPT !.held = TRUE] EXCEPT !.waits = FALSE]
                      ELSE jobs[m][k]
        BY <3>1
      <3> QED BY <3>1, <3>2 DEF Pool!Job, Alike
    <2> HIDE DEF r
    <2> QED BY <2>1, <2>2, <2>3 DEF MarkedOf
  <1> HIDE DEF r
  <1> QED BY <1>1, <1>2, <1>3, Marked DEF MarkedOf, OnlyMarked

(* A hold changes how a payout and its row stand, and nothing else.         *)
LEMMA PoolHold ==
    ASSUME Pool!ConstantsOK, FinitePool, PoolGood, NEW w \in Asked, NEW n \in Nodes,
           NEW i \in DOMAIN jobs[n], Pool!Hold(w, n, i)
    PROVE  PoolGood'
  <1>1. /\ PoolInv /\ PoolTypes /\ PoolJobsAgree /\ PoolRows /\ RowAgrees(jobs, status[w], payer[w], w)
    BY DEF PoolGood, PoolInv, PoolRows
  <1>2. /\ status[w] = "queued" /\ jobs[n][i].kind = "cash_payout" /\ jobs[n][i].w = w
        /\ status' = [status EXCEPT ![w] = "pending_approval"]
        /\ UNCHANGED <<payer, funding, hand, books, held, receipt, reach, told, watch, cooling>>
    BY DEF Pool!Hold, Pool!money, Pool!sweeper
  <1>4. OnlyMarked
    BY HoldMarks
  <1>5. PoolJobsAgree' /\ \A c \in Nodes : Kept(c)
    BY <1>2, <1>4, KeptAsSomeAreMarked
  <1>6. PoolTypes'
    BY <1>1, <1>2 DEF PoolTypes, Pool!Statuses
  <1>7. PoolInv'
    BY <1>1, <1>2, <1>5, <1>6, AllKept DEF LandingAt
  <1>8. RowAgrees(jobs, "pending_approval", payer[w], w)
    BY <1>1, <1>2 DEF RowAgrees, PlaceAgrees
  <1>9. PoolRows'
    <2>1. payer' = [payer EXCEPT ![w] = payer[w]]
      BY <1>1, <1>2 DEF PoolTypes
    <2> QED BY <1>1, <1>2, <1>4, <1>8, <2>1, RowsAsSomeAreMarked
  <1> QED BY <1>7, <1>9 DEF PoolGood

(* Deposits, distances and the clock move no job.                           *)
LEMMA PoolDeposit ==
    ASSUME Pool!ConstantsOK, FinitePool, PoolGood,
           Pool!DepositBooked \/ Pool!PlayerNext \/ Pool!TimeNext
    PROVE  PoolGood'
  <1>1. /\ PoolInv /\ PoolTypes /\ PoolJobsAgree /\ PoolRows /\ Deposits \subseteq Nat \ {0}
    BY PoolConstants DEF PoolGood, PoolInv
  <1>2. UNCHANGED <<status, payer, funding, jobs, hand>>
    BY DEF Pool!DepositBooked, Pool!PlayerNext, Pool!TimeNext, Pool!OpenDepositPage, Pool!DepositLands,
           Pool!HoldMinutesPass, Pool!CooldownPasses, Pool!Reach, Pool!queue
  <1>3. PoolRows' /\ PoolJobsAgree' /\ \A c \in Nodes : Kept(c)
    BY <1>1, <1>2, RowsAsNothingMoves, KeptAsNothingMoves
  <1>4. /\ status \in [Asked -> Pool!Statuses] /\ funding \in [Asked -> {"float", "vault"}]
        /\ payer \in [Asked -> Nodes \cup {0}] /\ books \in [Nodes -> Int] /\ held \in [Nodes -> Nat]
        /\ reach \in [Nodes -> Pool!Distances] /\ told \in Nodes \cup {0}
        /\ receipt \in [node : Nodes \cup {0}, amount : Nat]
        /\ watch \in {"even", "skewed", "ripe"} /\ cooling \subseteq Nodes
    BY <1>1 DEF PoolTypes
  <1>5. CASE Pool!DepositBooked
    <2> DEFINE n == receipt.node
    <2>1. /\ receipt # Pool!NoReceipt /\ receipt' = Pool!NoReceipt
          /\ books' = [books EXCEPT ![n] = @ + receipt.amount]
          /\ UNCHANGED <<held, reach, told, watch, cooling>>
      BY <1>5 DEF Pool!DepositBooked, Pool!sweeper
    <2>2. receipt'.node = 0 /\ receipt'.amount = 0
      BY <2>1 DEF Pool!NoReceipt
    <2>3. PoolTypes'
      <3>1. receipt.amount \in Nat
        BY <1>4
      <3>2. books' \in [Nodes -> Int]
        <4>1. books' = [books EXCEPT ![n] = books[n] + receipt.amount]
          BY <2>1
        <4>2. books \in [Nodes -> Int]
          BY <1>4
        <4> HIDE DEF n
        <4>3. CASE n \in Nodes
          <5>1. books[n] + receipt.amount \in Int
            BY <3>1, <4>2, <4>3
          <5> QED BY <4>1, <4>2, <5>1
        <4>4. CASE n \notin Nodes
          BY <4>1, <4>2, <4>4
        <4> QED BY <4>3, <4>4
      <3>3. receipt' \in [node : Nodes \cup {0}, amount : Nat]
        BY <2>1 DEF Pool!NoReceipt
      <3> QED BY <1>2, <1>4, <2>1, <3>2, <3>3 DEF PoolTypes
    <2>4. \A x \in Nodes : books'[x] + LandingAt(x)' - held'[x] = books[x] + LandingAt(x) - held[x]
      BY <1>4, <2>1, <2>2, PoolConstants DEF LandingAt
    <2>5. PoolInv'
      BY <1>1, <1>2, <1>3, <2>3, <2>4, AllKept
    <2> QED BY <1>3, <2>5 DEF PoolGood
  <1>6. CASE \E a \in Deposits : Pool!DepositLands(a)
    <2>1. PICK a \in Deposits : Pool!DepositLands(a)
      BY <1>6
    <2>2. /\ told # 0 /\ receipt = Pool!NoReceipt /\ held' = [held EXCEPT ![told] = @ + a]
          /\ receipt' = [node |-> told, amount |-> a] /\ UNCHANGED <<books, reach, told, watch, cooling>>
      BY <2>1 DEF Pool!DepositLands, Pool!sweeper
    <2>3. a \in Nat /\ told \in Nodes
      BY <1>1, <1>4, <2>2
    <2>4. PoolTypes'
      BY <1>2, <1>4, <2>2, <2>3 DEF PoolTypes
    <2>5. receipt.node = 0 /\ receipt.amount = 0 /\ receipt'.node = told /\ receipt'.amount = a
      BY <2>2 DEF Pool!NoReceipt
    <2>6. \A x \in Nodes : books'[x] + LandingAt(x)' - held'[x] = books[x] + LandingAt(x) - held[x]
      BY <1>4, <2>2, <2>3, <2>5, PoolConstants DEF LandingAt
    <2>7. PoolInv'
      BY <1>1, <1>2, <1>3, <2>4, <2>6, AllKept
    <2> QED BY <1>3, <2>7 DEF PoolGood
  <1>7. CASE Pool!OpenDepositPage \/ Pool!TimeNext
    <2>1. UNCHANGED <<books, held, receipt>>
      BY <1>7 DEF Pool!TimeNext, Pool!OpenDepositPage, Pool!HoldMinutesPass, Pool!CooldownPasses,
                  Pool!Reach, Pool!money
    <2>2. told' \in Nodes \cup {0}
      <3>1. CASE Pool!OpenDepositPage
        BY <1>1, <3>1, SomebodyIsOnline DEF Pool!OpenDepositPage
      <3>2. CASE Pool!TimeNext
        BY <1>4, <3>2 DEF Pool!TimeNext, Pool!HoldMinutesPass, Pool!CooldownPasses, Pool!Reach
      <3> QED BY <1>7, <3>1, <3>2
    <2>3. /\ reach' \in [Nodes -> Pool!Distances] /\ watch' \in {"even", "skewed", "ripe"}
          /\ cooling' \subseteq Nodes
      <3>1. CASE Pool!OpenDepositPage
        BY <1>4, <3>1 DEF Pool!OpenDepositPage, Pool!sweeper
      <3>2. CASE Pool!HoldMinutesPass
        BY <1>4, <3>2 DEF Pool!HoldMinutesPass
      <3>3. CASE \E n \in Nodes : Pool!CooldownPasses(n)
        BY <1>4, <3>3 DEF Pool!CooldownPasses
      <3>4. CASE \E n \in Nodes, r \in Reaches : Pool!Reach(n, r)
        BY <1>4, <3>4 DEF Pool!Reach, Pool!sweeper, Pool!ConstantsOK
      <3> QED BY <1>7, <3>1, <3>2, <3>3, <3>4 DEF Pool!TimeNext
    <2>4. PoolTypes'
      BY <1>2, <1>4, <2>1, <2>2, <2>3 DEF PoolTypes
    <2>5. PoolInv'
      BY <1>1, <1>2, <1>3, <2>1, <2>4, AllKept DEF LandingAt
    <2> QED BY <1>3, <2>5 DEF PoolGood
  <1> QED BY <1>5, <1>6, <1>7 DEF Pool!PlayerNext

(* A plan to move something: between two of the nodes looked at, and not    *)
(* what the sender is short of.                                             *)
LEMMA PlanIsSound ==
    ASSUME Pool!ConstantsOK, FinitePool, PoolTypes, PoolJobsAgree, NEW S \in SUBSET Nodes,
           NEW plan, plan = Pool!PlanRebalance(S), plan # Pool!NoPlan
    PROVE  /\ plan.from \in Nodes /\ plan.to \in Nodes /\ plan.from # plan.to
           /\ plan.amount \in Nat \ {0} /\ plan.amount <= Pool!Free(plan.from)
  <1> DEFINE share == Pool!Share(S)
             band == (share * SkewBps) \div 10000
             over == Pool!Free(Pool!Richest(S)) - share
             under == share - Pool!Free(Pool!Poorest(S))
             amount == IF over < under THEN over ELSE under
  <1>1. /\ ~(Cardinality(S) < 2) /\ ~(share <= 0) /\ ~(amount <= 0)
        /\ plan = [from |-> Pool!Richest(S), to |-> Pool!Poorest(S), amount |-> amount]
    BY PoolSize DEF Pool!PlanRebalance
  <1>2. S # {}
    BY <1>1, FS_EmptySet
  <1>3. Pool!Richest(S) \in Nodes /\ Pool!Poorest(S) \in Nodes
    BY <1>2, ExtremesAreThere
  <1>4. Pool!Free(Pool!Richest(S)) \in Int /\ Pool!Free(Pool!Poorest(S)) \in Int
    BY <1>3, FreeType
  <1>5. share \in Int
    <2> DEFINE f == [n \in Nodes |-> IF Pool!Free(n) > 0 THEN Pool!Free(n) ELSE 0]
    <2>1. \A n \in S : f[n] \in Nat
      BY FreeType
    <2>2. share = Pool!MapThenSumSet(LAMBDA x : f[x], S) \div Cardinality(S)
      <3>1. \A x \in S : x \in Nodes
        OBVIOUS
      <3> QED BY <3>1, PoolSize DEF Pool!Share, Pool!MapThenSumSet, Pool!MapThenFoldSet
    <2>3. IsFiniteSet(S) /\ Cardinality(S) \in Nat
      BY FS_Subset, FS_CardinalityType DEF FinitePool
    <2> HIDE DEF f
    <2>4. Pool!MapThenSumSet(LAMBDA x : f[x], S) = SumOf(f, S)
      BY <2>1, <2>3, PoolSumIsFold
    <2>5. SumOf(f, S) \in Nat
      BY <2>1, <2>3, SumType
    <2> HIDE DEF share
    <2>6. Cardinality(S) > 0
      BY <1>1, <2>3
    <2> QED BY <2>2, <2>3, <2>4, <2>5, <2>6
  <1> HIDE DEF share
  <1>6. /\ amount \in Nat \ {0} /\ amount <= Pool!Free(Pool!Richest(S))
        /\ Pool!Free(Pool!Richest(S)) # Pool!Free(Pool!Poorest(S))
    BY <1>1, <1>4, <1>5
  <1> HIDE DEF amount
  <1> QED BY <1>1, <1>3, <1>6

(* The sweeper's minute.                                                    *)
TickQueues ==
    \E b \in Nodes, j \in Pool!Job :
        /\ j \in PoolJobs(b) /\ j.kind = "vault_sweep" /\ j.w = 0
        /\ j.amount <= Pool!Free(b)
        /\ jobs' = [jobs EXCEPT ![b] = Append(@, j)]
        /\ ~Pool!Busy

(* A pass of the rebalancer adds one job at most.                           *)
LEMMA TickDoes ==
    ASSUME Pool!ConstantsOK, FinitePool, PoolTypes, PoolJobsAgree, Pool!Tick
    PROVE  /\ UNCHANGED jobs \/ TickQueues
           /\ watch' \in {"even", "skewed", "ripe"} /\ cooling' \subseteq Nodes
           /\ UNCHANGED <<status, payer, funding, hand, books, held, receipt, reach, told>>
  <1> DEFINE plan == Pool!PlanRebalance(Pool!Online)
  <1>1. /\ watch \in {"even", "skewed", "ripe"} /\ cooling \subseteq Nodes /\ Pool!Online \subseteq Nodes
    BY DEF PoolTypes, Pool!Online
  <1>2. /\ UNCHANGED <<status, payer, funding, hand, books, held, receipt, reach, told>>
        /\ IF plan = Pool!NoPlan
           THEN watch' = "even" /\ UNCHANGED <<jobs, cooling>>
           ELSE IF watch # "ripe" \/ Pool!Busy
           THEN watch' = (IF watch = "even" THEN "skewed" ELSE watch) /\ UNCHANGED <<jobs, cooling>>
           ELSE /\ jobs' = [jobs EXCEPT ![plan.from] =
                              Append(@, Pool!NewJob("vault_sweep", 0, plan.amount, plan.to))]
                /\ cooling' = cooling \cup {plan.from}
                /\ watch' = "even"
    BY DEF Pool!Tick, Pool!money
  <1>3. plan # Pool!NoPlan => /\ plan.from \in Nodes /\ plan.to \in Nodes /\ plan.from # plan.to
                              /\ plan.amount \in Nat \ {0} /\ plan.amount <= Pool!Free(plan.from)
    BY <1>1, PlanIsSound
  <1> HIDE DEF plan
  <1>4. CASE plan = Pool!NoPlan \/ watch # "ripe" \/ Pool!Busy
    BY <1>1, <1>2, <1>4
  <1>5. CASE ~(plan = Pool!NoPlan \/ watch # "ripe" \/ Pool!Busy)
    <2> DEFINE b == plan.from
               j == Pool!NewJob("vault_sweep", 0, plan.amount, plan.to)
    <2>1. /\ jobs' = [jobs EXCEPT ![b] = Append(@, j)]
          /\ cooling' = cooling \cup {b} /\ watch' = "even"
      BY <1>2, <1>5
    <2>2. j \in PoolJobs(b) /\ j \in Pool!Job /\ j.kind = "vault_sweep" /\ j.w = 0 /\ j.amount = plan.amount
      BY <1>3, <1>5 DEF Pool!NewJob, PoolJobs, Pool!Job
    <2> HIDE DEF j
    <2>3. b \in Nodes /\ j.amount <= Pool!Free(b)
      BY <1>3, <1>5, <2>2
    <2> HIDE DEF b
    <2>4. TickQueues
      BY <1>5, <2>1, <2>2, <2>3 DEF TickQueues
    <2> QED BY <1>1, <1>2, <2>1, <2>3, <2>4
  <1> QED BY <1>4, <1>5

(* A pass of the rebalancer leaves rows and books alone.                    *)
LEMMA PoolTick ==
    ASSUME Pool!ConstantsOK, FinitePool, PoolGood, Pool!Tick
    PROVE  PoolGood'
  <1>1. PoolInv /\ PoolTypes /\ PoolJobsAgree /\ PoolRows
    BY DEF PoolGood, PoolInv
  <1>2. /\ watch' \in {"even", "skewed", "ripe"} /\ cooling' \subseteq Nodes
        /\ UNCHANGED <<status, payer, funding, hand, books, held, receipt, reach, told>>
        /\ UNCHANGED jobs \/ TickQueues
    BY <1>1, TickDoes
  <1>3. PoolTypes'
    BY <1>1, <1>2 DEF PoolTypes
  <1>4. CASE UNCHANGED jobs
    <2>1. PoolRows' /\ PoolJobsAgree' /\ \A c \in Nodes : Kept(c)
      BY <1>1, <1>2, <1>4, RowsAsNothingMoves, KeptAsNothingMoves
    <2>2. PoolInv'
      BY <1>1, <1>2, <1>3, <2>1, AllKept DEF LandingAt
    <2> QED BY <2>1, <2>2 DEF PoolGood
  <1>5. CASE TickQueues
    <2>1. PICK b \in Nodes, j \in Pool!Job :
              j \in PoolJobs(b) /\ j.w = 0 /\ jobs' = [jobs EXCEPT ![b] = Append(@, j)]
      BY <1>5 DEF TickQueues
    <2>2. PoolJobsAgree' /\ \A c \in Nodes : Kept(c)
      BY <1>1, <1>2, <2>1, KeptAsOneIsAdded
    <2>3. PoolInv'
      BY <1>1, <1>2, <1>3, <2>2, AllKept DEF LandingAt
    <2> DEFINE r == jobs'
    <2>4. With(jobs, r, b, j)
      <3>1. QueuesAgree(jobs) /\ r = [jobs EXCEPT ![b] = Append(@, j)]
        BY <1>1, <2>1 DEF PoolJobsAgree
      <3> HIDE DEF r
      <3> QED BY <2>1, <3>1, Appended
    <2> HIDE DEF r
    <2>5. ASSUME NEW w \in Asked PROVE RowAgrees(r, status[w], payer[w], w)
      <3>1. RowAgrees(jobs, status[w], payer[w], w) /\ j.w # w
        BY <1>1, <2>1, PoolConstants DEF PoolRows
      <3> QED BY <2>1, <2>4, <3>1, RowOfAppended
    <2>6. PoolRows'
      BY <1>2, <2>5 DEF PoolRows, RowAgrees, PlaceAgrees, r
    <2> QED BY <2>3, <2>6 DEF PoolGood
  <1> QED BY <1>2, <1>4, <1>5

(* What changes at one node, and its own payees, with the rest kept.        *)
LEMMA ComingChanges ==
    ASSUME FinitePool, PoolJobsAgree, PoolHandsAgree, PoolJobsAgree', PoolHandsAgree',
           NEW n \in Nodes, \A c \in Nodes \ {n} : Kept(c), NEW x \in Nodes
    PROVE  /\ SumOf(Coming(x), Nodes)' = SumOf(Coming(x), Nodes) - Coming(x)[n] + Coming(x)'[n]
           /\ SumOf(Coming(x), Nodes)' \in Nat /\ SumOf(Coming(x), Nodes) \in Nat
           /\ Coming(x)[n] \in Nat /\ Coming(x)'[n] \in Nat
           /\ x # n => Pool!Unbooked(x)' = Pool!Unbooked(x)
  <1> DEFINE f == Coming(x)
             h == Coming(x)'
  <1>1. \A y \in Nodes : f[y] \in Nat
    BY ComingType
  <1>2. \A y \in Nodes : h[y] \in Nat
    <2>1. ASSUME NEW y \in Nodes PROVE Pool!Unbooked(y)' \in Nat
      <3>1. hand'[y].phase = "settled" => hand'[y].at \in DOMAIN jobs'[y]
        BY DEF PoolHandsAgree
      <3>2. \A i \in DOMAIN jobs'[y] : jobs'[y][i] \in Pool!Job
        <4> DEFINE r == jobs'
        <4>1. QueuesAgree(r)
          BY DEF PoolJobsAgree, QueuesAgree
        <4> HIDE DEF r
        <4>2. \A i \in DOMAIN r[y] : r[y][i] \in Pool!Job
          BY <4>1, Queues
        <4> QED BY <4>2 DEF r
      <3> QED BY <3>1, <3>2 DEF Pool!Unbooked, Pool!JobInHand, Pool!Job
    <2> QED BY <2>1 DEF Coming
  <1>3. \A y \in Nodes \ {n} : h[y] = f[y]
    BY KeptCounts
  <1>4. SumOf(Coming(x), Nodes)' = SumOf(h, Nodes)
    BY DEF SumOf, Piles, Pile
  <1>5. x # n => Pool!Unbooked(x)' = Pool!Unbooked(x)
    BY KeptCounts
  <1> HIDE DEF f, h
  <1>6. SumOf(h, Nodes) = SumOf(f, Nodes) - f[n] + h[n]
    BY <1>1, <1>2, <1>3, SumChanges DEF FinitePool
  <1>7. SumOf(h, Nodes) \in Nat /\ SumOf(f, Nodes) \in Nat
    BY <1>1, <1>2, SumType DEF FinitePool
  <1> QED BY <1>1, <1>2, <1>4, <1>5, <1>6, <1>7 DEF f, h

(* A claim puts a job in hand, and no money has moved yet.                  *)
LEMMA PoolClaim ==
    ASSUME Pool!ConstantsOK, FinitePool, PoolGood, NEW n \in Nodes, NEW i \in DOMAIN jobs[n],
           Pool!Claim(n, i)
    PROVE  PoolGood'
  <1>1. PoolInv /\ PoolTypes /\ PoolJobsAgree /\ PoolRows /\ PoolHandsAgree
    BY DEF PoolGood, PoolInv
  <1>2. /\ hand[n].phase = "idle" /\ hand' = [hand EXCEPT ![n] = [phase |-> "sent", at |-> i, paid |-> FALSE]]
        /\ UNCHANGED <<status, payer, funding, jobs, books, held, receipt, reach, told, watch, cooling>>
    BY DEF Pool!Claim, Pool!money, Pool!sweeper
  <1>3. i \in Nat
    BY <1>1, PoolJobTypes
  <1>4. PoolTypes' /\ PoolRows' /\ PoolJobsAgree'
    BY <1>1, <1>2, RowsAsNothingMoves DEF PoolTypes, PoolJobsAgree, QueuesAgree
  <1>5. PoolHandsAgree'
    BY <1>1, <1>2, <1>3 DEF PoolHandsAgree, Hands
  <1>6. \A c \in Nodes \ {n} : Kept(c)
    BY <1>1, <1>2 DEF Kept, Alike, PoolHandsAgree
  <1>7. Pool!Unbooked(n) = 0 /\ Pool!Unbooked(n)' = 0
    BY <1>1, <1>2 DEF Pool!Unbooked, PoolHandsAgree
  <1>8. ASSUME NEW x \in Nodes
        PROVE  (books[x] - Pool!Unbooked(x) + LandingAt(x) + SumOf(Coming(x), Nodes) = held[x])'
    <2>1. Coming(x)[n] = 0 /\ Coming(x)'[n] = 0
      BY <1>7 DEF Coming
    <2>2. /\ SumOf(Coming(x), Nodes)' = SumOf(Coming(x), Nodes)
          /\ Pool!Unbooked(x)' = Pool!Unbooked(x)
      BY <1>1, <1>4, <1>5, <1>6, <1>7, <2>1, ComingChanges
    <2>3. LandingAt(x)' = LandingAt(x) /\ books' = books /\ held' = held
      BY <1>2 DEF LandingAt
    <2>4. books[x] - Pool!Unbooked(x) + LandingAt(x) + SumOf(Coming(x), Nodes) = held[x]
      BY <1>1 DEF PoolInv
    <2> QED BY <2>2, <2>3, <2>4
  <1>9. PoolInv'
    BY <1>4, <1>5, <1>8 DEF PoolInv
  <1> QED BY <1>4, <1>9 DEF PoolGood

(* The game's answer moves what is held, and the books lag by as much.      *)
LEMMA PoolAnswer ==
    ASSUME Pool!ConstantsOK, FinitePool, PoolGood, NEW n \in Nodes, Pool!GameAnswers(n)
    PROVE  PoolGood'
  <1>1. PoolInv /\ PoolTypes /\ PoolJobsAgree /\ PoolRows /\ PoolHandsAgree
    BY DEF PoolGood, PoolInv
  <1> DEFINE j == Pool!JobInHand(n)
             ok == held[n] >= j.amount
  <1>2. /\ hand[n].phase = "sent"
        /\ held' = IF ok THEN [x \in Nodes |-> IF x = n THEN held[x] - j.amount
                                               ELSE IF x = j.to THEN held[x] + j.amount ELSE held[x]]
                   ELSE held
        /\ hand' = [hand EXCEPT ![n].phase = "settled", ![n].paid = ok]
        /\ UNCHANGED <<status, payer, funding, jobs, books, receipt, reach, told, watch, cooling>>
    BY DEF Pool!GameAnswers, Pool!sweeper
  <1>3. /\ hand[n].at \in DOMAIN jobs[n] /\ j.amount \in Nat /\ j.amount > 0 /\ j.to # n
        /\ j.to \in Nodes \cup {0}
    BY <1>1, <1>2, PoolHandTypes
  <1>4. j' = j
    <2>1. hand'[n].at = hand[n].at
      BY <1>1, <1>2 DEF PoolHandsAgree, Hands
    <2> QED BY <1>2, <2>1 DEF Pool!JobInHand
  <1>5. ok \in BOOLEAN /\ held \in [Nodes -> Nat] /\ books \in [Nodes -> Int]
    BY <1>1 DEF PoolTypes
  <1>6. held' \in [Nodes -> Nat]
    BY <1>2, <1>3, <1>5
  <1>7. ok => \A x \in Nodes : held'[x] = held[x] - (IF x = n THEN j.amount ELSE 0)
                                                  + (IF x = j.to THEN j.amount ELSE 0)
    BY <1>2, <1>3, <1>5
  <1>8. ~ok => held' = held
    BY <1>2
  <1> HIDE DEF j, ok
  <1>9. hand'[n].phase = "settled" /\ hand'[n].paid = ok /\ hand'[n].at = hand[n].at /\ hand'[n] \in Hands
    <2>1. hand \in [Nodes -> Hands] /\ hand[n] \in Hands
      BY <1>1 DEF PoolHandsAgree
    <2>2. hand'[n] = [[hand[n] EXCEPT !.phase = "settled"] EXCEPT !.paid = ok]
      BY <1>2, <2>1
    <2> QED BY <1>5, <2>1, <2>2 DEF Hands
  <1>10. PoolTypes' /\ PoolRows' /\ PoolJobsAgree'
    BY <1>1, <1>2, <1>6, RowsAsNothingMoves DEF PoolTypes, PoolJobsAgree, QueuesAgree
  <1>11. \A c \in Nodes \ {n} : hand'[c] = hand[c]
    BY <1>1, <1>2 DEF PoolHandsAgree
  <1>12. PoolHandsAgree'
    <2>1. hand' \in [Nodes -> Hands]
      BY <1>1, <1>2, <1>9, <1>11 DEF PoolHandsAgree
    <2> QED BY <1>1, <1>2, <1>3, <1>9, <1>11, <2>1 DEF PoolHandsAgree
  <1>13. \A c \in Nodes \ {n} : Kept(c)
    BY <1>2, <1>11 DEF Kept, Alike
  <1>14. Pool!Unbooked(n) = 0 /\ Pool!Unbooked(n)' = IF ok THEN j.amount ELSE 0
    <2>1. Pool!JobInHand(n)' = j
      BY <1>4 DEF j
    <2> QED BY <1>2, <1>9, <2>1 DEF Pool!Unbooked
  <1>15. ASSUME NEW x \in Nodes
         PROVE  (books[x] - Pool!Unbooked(x) + LandingAt(x) + SumOf(Coming(x), Nodes) = held[x])'
    <2>1. Coming(x)[n] = 0
      BY <1>14 DEF Coming
    <2>2. Coming(x)'[n] = IF ok /\ j.to = x THEN j.amount ELSE 0
      <3>1. Pool!JobInHand(n)' = j
        BY <1>4 DEF j
      <3>2. Coming(x)'[n] = IF Pool!Unbooked(n)' > 0 /\ Pool!JobInHand(n)'.to = x
                            THEN Pool!Unbooked(n)' ELSE 0
        BY DEF Coming
      <3> QED BY <1>3, <1>14, <3>1, <3>2
    <2>3. /\ SumOf(Coming(x), Nodes)' = SumOf(Coming(x), Nodes) - Coming(x)[n] + Coming(x)'[n]
          /\ SumOf(Coming(x), Nodes) \in Nat
          /\ x # n => Pool!Unbooked(x)' = Pool!Unbooked(x)
      BY <1>1, <1>10, <1>12, <1>13, ComingChanges
    <2>4. LandingAt(x)' = LandingAt(x) /\ books' = books
      BY <1>2 DEF LandingAt
    <2>5. books[x] - Pool!Unbooked(x) + LandingAt(x) + SumOf(Coming(x), Nodes) = held[x]
      BY <1>1 DEF PoolInv
    <2>6. LandingAt(x) \in Nat /\ Pool!Unbooked(x) \in Nat /\ books[x] \in Int /\ held[x] \in Nat
      BY <1>1, <1>5, UnbookedType DEF LandingAt, PoolTypes
    <2>7. CASE ok
      <3>1. held'[x] = held[x] - (IF x = n THEN j.amount ELSE 0) + (IF x = j.to THEN j.amount ELSE 0)
        BY <1>7, <2>7
      <3>2. SumOf(Coming(x), Nodes)' = SumOf(Coming(x), Nodes) + (IF x = j.to THEN j.amount ELSE 0)
        BY <1>3, <2>1, <2>2, <2>3, <2>7
      <3>3. Pool!Unbooked(x)' = Pool!Unbooked(x) + (IF x = n THEN j.amount ELSE 0)
        BY <1>3, <1>14, <2>3, <2>6, <2>7
      <3> QED BY <1>3, <2>3, <2>4, <2>5, <2>6, <3>1, <3>2, <3>3
    <2>8. CASE ~ok
      <3>1. SumOf(Coming(x), Nodes)' = SumOf(Coming(x), Nodes) /\ Pool!Unbooked(x)' = Pool!Unbooked(x)
        BY <1>14, <2>1, <2>2, <2>3, <2>8
      <3> QED BY <1>8, <2>4, <2>5, <2>8, <3>1
    <2> QED BY <2>7, <2>8
  <1>16. PoolInv'
    BY <1>10, <1>12, <1>15 DEF PoolInv
  <1> QED BY <1>10, <1>16 DEF PoolGood

(* A node reports: its job leaves its queue, its hand is free, and every    *)
(* other node's jobs stay.                                                  *)
LEMMA HandIsFree ==
    ASSUME PoolHandsAgree, NEW n \in Nodes, hand' = [hand EXCEPT ![n] = Pool!NoHand],
           \A c \in Nodes \ {n} : \A i \in DOMAIN jobs[c] : i \in DOMAIN jobs'[c] /\ Alike(jobs[c][i], jobs'[c][i])
    PROVE  PoolHandsAgree' /\ Pool!Unbooked(n)' = 0 /\ \A c \in Nodes \ {n} : Kept(c)
  <1>1. hand \in [Nodes -> Hands] /\ Pool!NoHand \in Hands /\ Pool!NoHand.phase = "idle"
    BY DEF PoolHandsAgree, Hands, Pool!NoHand
  <1>2. hand'[n] = Pool!NoHand /\ hand' \in [Nodes -> Hands] /\ \A c \in Nodes \ {n} : hand'[c] = hand[c]
    BY <1>1
  <1>3. PoolHandsAgree'
    BY <1>1, <1>2 DEF PoolHandsAgree
  <1>4. Pool!Unbooked(n)' = 0
    BY <1>1, <1>2 DEF Pool!Unbooked
  <1> QED BY <1>2, <1>3, <1>4 DEF Kept

(* What a report of a payment does to queues, rows and books.               *)
LEMMA PaidDoes ==
    ASSUME Pool!ConstantsOK, FinitePool, PoolGood, NEW n \in Nodes, Pool!ReportPaid(n)
    PROVE  PoolRows' /\ PoolJobsAgree' /\ status' \in [Asked -> Pool!Statuses] /\ NoMore(jobs, jobs')
           /\ \A c \in Nodes \ {n} : \A i \in DOMAIN jobs[c] :
                 i \in DOMAIN jobs'[c] /\ Alike(jobs[c][i], jobs'[c][i])
  <1>1. PoolInv /\ PoolTypes /\ PoolJobsAgree /\ PoolRows /\ PoolHandsAgree /\ QueuesAgree(jobs)
    BY DEF PoolGood, PoolInv, PoolJobsAgree
  <1> DEFINE a == hand[n].at
             j == Pool!JobInHand(n)
             w == j.w
             shorter == Pool!RemoveAt(jobs[n], a)
             rest == [jobs EXCEPT ![n] = shorter]
             q == jobs'
  <1>2. /\ hand[n].phase = "settled" /\ UNCHANGED payer
        /\ IF j.kind = "vault_release"
           THEN /\ status' = [status EXCEPT ![w] = "queued"]
                /\ q = [rest EXCEPT ![payer[w]] = Append(@, Pool!NewJob("cash_payout", w, Amount[w], 0))]
           ELSE /\ status' = IF j.kind = "cash_payout" THEN [status EXCEPT ![w] = "paid"] ELSE status
                /\ q = rest
    BY DEF Pool!ReportPaid
  <1>3. a \in DOMAIN jobs[n] /\ j \in PoolJobs(n) /\ j = jobs[n][a] /\ w = jobs[n][a].w
    BY <1>1, <1>2, PoolHandTypes DEF Pool!JobInHand
  <1>4. Without(jobs, rest, n, a)
    <2> DEFINE s == shorter
               r == rest
    <2>1. s = Pool!RemoveAt(jobs[n], a) /\ r = [jobs EXCEPT ![n] = s]
      OBVIOUS
    <2> HIDE DEF s, r, a
    <2>2. Without(jobs, r, n, a)
      BY <1>1, <1>3, <2>1, Removed
    <2> QED BY <2>2 DEF r
  <1> HIDE DEF rest, a, j, q, w
  <1>5. \A x \in Asked : RowAgrees(jobs, status[x], payer[x], x)
    BY <1>1 DEF PoolRows
  <1>6. ASSUME NEW x \in Asked, x # w PROVE RowAgrees(rest, status[x], payer[x], x)
    <2>1. jobs[n][a].w # x
      BY <1>3, <1>6
    <2> QED BY <1>4, <1>5, <2>1, RowOfRemoved
  <1>7. w \in Asked => \A m \in Nodes : \A i \in DOMAIN rest[m] : rest[m][i].w # w
    BY <1>3, <1>4, <1>5, NoneOfRemoved
  <1>8. /\ QueuesAgree(rest) /\ \A c \in Nodes \ {n} : rest[c] = jobs[c]
    BY <1>4 DEF Without
  <1>9. status \in [Asked -> Pool!Statuses] /\ NoMore(jobs, rest)
    BY <1>1, <1>4, NoMoreOfRemoved DEF PoolTypes
  <1>10. CASE j.kind = "vault_release"
    <2> DEFINE p == payer[w]
               new == Pool!NewJob("cash_payout", w, Amount[w], 0)
    <2>1. w \in Asked /\ j.to \in Nodes
      BY <1>3, <1>10 DEF PoolJobs, w
    <2>2. PlaceAgrees(jobs[n][a], n, status[w], payer[w])
      BY <1>3, <1>5, <2>1 DEF RowAgrees
    <2>3. p \in Nodes
      BY <1>3, <1>10, <2>1, <2>2 DEF PlaceAgrees
    <2>4. new \in PoolJobs(p) /\ new.w = w /\ new.kind = "cash_payout"
      BY <2>1, <2>3, PayoutIsAJob
    <2>5. status' = [status EXCEPT ![w] = "queued"] /\ q = [rest EXCEPT ![p] = Append(@, new)]
      BY <1>2, <1>10
    <2> HIDE DEF p, new
    <2>6. With(rest, q, p, new)
      BY <1>8, <2>3, <2>4, <2>5, Appended
    <2>7. RowAgrees(q, "queued", p, w)
      <3>1. PlaceAgrees(new, p, "queued", p)
        BY <2>4 DEF PlaceAgrees
      <3> QED BY <1>7, <1>8, <2>1, <2>3, <2>4, <2>6, <3>1, RowOfItsOwn
    <2>8. ASSUME NEW x \in Asked PROVE RowAgrees(q, status'[x], payer'[x], x)
      <3>1. CASE x = w
        <4>1. status'[x] = "queued" /\ payer'[x] = p
          BY <1>2, <1>9, <2>5, <3>1 DEF p
        <4> QED BY <2>7, <3>1, <4>1
      <3>2. CASE x # w
        <4>1. status'[x] = status[x] /\ payer'[x] = payer[x] /\ new.w # x
          BY <1>2, <1>9, <2>4, <2>5, <3>2
        <4>2. RowAgrees(rest, status[x], payer[x], x)
          BY <1>6, <3>2
        <4>3. RowAgrees(q, status[x], payer[x], x)
          BY <2>3, <2>6, <4>1, <4>2, RowOfAppended
        <4> QED BY <4>1, <4>3
      <3> QED BY <3>1, <3>2
    <2>9. QueuesAgree(q) /\ \A c \in Nodes \ {n} : \A i \in DOMAIN jobs[c] :
                                i \in DOMAIN q[c] /\ q[c][i] = jobs[c][i]
      BY <1>8, <2>6 DEF With
    <2>10. status' \in [Asked -> Pool!Statuses]
      BY <1>9, <2>5 DEF Pool!Statuses
    <2>11. NoMore(jobs, q)
      <3>1. NoMore(rest, q)
        BY <1>8, <2>3, <2>4, <2>6, NoMoreOfOthers
      <3> QED BY <1>1, <1>8, <1>9, <2>9, <3>1, NoMoreInTheEnd
    <2> QED BY <2>8, <2>9, <2>10, <2>11 DEF q, PoolRows, RowAgrees, PlaceAgrees, PoolJobsAgree, QueuesAgree, Alike
  <1>11. CASE j.kind # "vault_release"
    <2>1. q = rest /\ status' = IF j.kind = "cash_payout" THEN [status EXCEPT ![w] = "paid"] ELSE status
      BY <1>2, <1>11
    <2>2. ASSUME NEW x \in Asked PROVE RowAgrees(rest, status'[x], payer'[x], x)
      <3>1. CASE x = w
        <4>1. j.kind = "cash_payout"
          BY <1>3, <1>11, <3>1, PoolConstants DEF PoolJobs, Pool!Job, w
        <4>2. status'[x] = "paid"
          BY <1>9, <2>1, <3>1, <4>1
        <4> QED BY <1>7, <3>1, <4>2 DEF RowAgrees
      <3>2. CASE x # w
        <4>1. status'[x] = status[x] /\ payer'[x] = payer[x]
          BY <1>2, <1>9, <2>1, <3>2
        <4> QED BY <1>6, <3>2, <4>1
      <3> QED BY <3>1, <3>2
    <2>3. status' \in [Asked -> Pool!Statuses]
      BY <1>9, <2>1 DEF Pool!Statuses
    <2>4. jobs' = rest
      BY <2>1 DEF q
    <2> QED BY <1>8, <1>9, <2>2, <2>3, <2>4 DEF PoolRows, RowAgrees, PlaceAgrees, PoolJobsAgree, QueuesAgree, Alike
  <1> QED BY <1>10, <1>11

(* The report books what was paid, and queues the payout behind a release.  *)
LEMMA PoolPaid ==
    ASSUME Pool!ConstantsOK, FinitePool, PoolGood, NEW n \in Nodes, Pool!ReportPaid(n)
    PROVE  PoolGood'
  <1>1. PoolInv /\ PoolTypes /\ PoolJobsAgree /\ PoolRows /\ PoolHandsAgree
    BY DEF PoolGood, PoolInv
  <1> DEFINE j == Pool!JobInHand(n)
  <1>2. /\ hand[n].phase = "settled" /\ hand[n].paid
        /\ books' = [x \in Nodes |-> IF x = n THEN books[x] - j.amount
                                     ELSE IF x = j.to THEN books[x] + j.amount ELSE books[x]]
        /\ hand' = [hand EXCEPT ![n] = Pool!NoHand]
        /\ UNCHANGED <<payer, funding, held, receipt, reach, told, watch, cooling>>
    BY DEF Pool!ReportPaid, Pool!BookLegs, Pool!sweeper
  <1>3. /\ PoolRows' /\ PoolJobsAgree' /\ status' \in [Asked -> Pool!Statuses]
        /\ \A c \in Nodes \ {n} : \A i \in DOMAIN jobs[c] :
              i \in DOMAIN jobs'[c] /\ Alike(jobs[c][i], jobs'[c][i])
    BY PaidDoes
  <1>4. PoolHandsAgree' /\ Pool!Unbooked(n)' = 0 /\ \A c \in Nodes \ {n} : Kept(c)
    BY <1>1, <1>2, <1>3, HandIsFree
  <1>5. /\ j.amount \in Nat /\ j.amount > 0 /\ j.to # n /\ Pool!Unbooked(n) = j.amount
        /\ j.to \in Nodes \cup {0}
    BY <1>1, <1>2, PoolHandTypes DEF Pool!Unbooked
  <1>6. books \in [Nodes -> Int] /\ held \in [Nodes -> Nat]
    BY <1>1 DEF PoolTypes
  <1>7. \A x \in Nodes : Coming(x)[n] = IF x = j.to THEN j.amount ELSE 0
    BY <1>5 DEF Coming
  <1> HIDE DEF j
  <1>8. books' \in [Nodes -> Int]
    BY <1>2, <1>5, <1>6
  <1>9. \A x \in Nodes : books'[x] = books[x] - (IF x = n THEN j.amount ELSE 0)
                                              + (IF x = j.to THEN j.amount ELSE 0)
    BY <1>2, <1>5, <1>6
  <1>10. PoolTypes'
    BY <1>1, <1>2, <1>3, <1>8 DEF PoolTypes
  <1>11. ASSUME NEW x \in Nodes
         PROVE  (books[x] - Pool!Unbooked(x) + LandingAt(x) + SumOf(Coming(x), Nodes) = held[x])'
    <2>1. Coming(x)'[n] = 0
      BY <1>4 DEF Coming
    <2>2. /\ SumOf(Coming(x), Nodes)' = SumOf(Coming(x), Nodes) - Coming(x)[n] + Coming(x)'[n]
          /\ SumOf(Coming(x), Nodes) \in Nat
          /\ x # n => Pool!Unbooked(x)' = Pool!Unbooked(x)
      BY <1>1, <1>3, <1>4, ComingChanges
    <2>3. LandingAt(x)' = LandingAt(x) /\ held' = held
      BY <1>2 DEF LandingAt
    <2>4. books[x] - Pool!Unbooked(x) + LandingAt(x) + SumOf(Coming(x), Nodes) = held[x]
      BY <1>1 DEF PoolInv
    <2>5. LandingAt(x) \in Nat /\ Pool!Unbooked(x) \in Nat /\ books[x] \in Int /\ held[x] \in Nat
      BY <1>1, <1>6, UnbookedType DEF LandingAt, PoolTypes
    <2>6. books'[x] = books[x] - (IF x = n THEN j.amount ELSE 0) + (IF x = j.to THEN j.amount ELSE 0)
      BY <1>9
    <2>7. SumOf(Coming(x), Nodes)' = SumOf(Coming(x), Nodes) - (IF x = j.to THEN j.amount ELSE 0)
      BY <1>5, <1>7, <2>1, <2>2
    <2>8. Pool!Unbooked(x)' = Pool!Unbooked(x) - (IF x = n THEN j.amount ELSE 0)
      BY <1>4, <1>5, <2>2, <2>5
    <2> QED BY <1>5, <2>2, <2>3, <2>4, <2>5, <2>6, <2>7, <2>8
  <1>12. PoolInv'
    BY <1>3, <1>4, <1>10, <1>11 DEF PoolInv
  <1> QED BY <1>3, <1>12 DEF PoolGood

(* What a report of a refusal does to the queues and rows.                  *)
LEMMA RefusedDoes ==
    ASSUME Pool!ConstantsOK, FinitePool, PoolGood, NEW n \in Nodes, Pool!ReportRefused(n)
    PROVE  PoolRows' /\ PoolJobsAgree' /\ NoMore(jobs, jobs')
           /\ \A c \in Nodes \ {n} : \A i \in DOMAIN jobs[c] :
                 i \in DOMAIN jobs'[c] /\ Alike(jobs[c][i], jobs'[c][i])
  <1>1. PoolInv /\ PoolTypes /\ PoolJobsAgree /\ PoolRows /\ PoolHandsAgree /\ QueuesAgree(jobs)
    BY DEF PoolGood, PoolInv, PoolJobsAgree
  <1> DEFINE a == hand[n].at
             j == Pool!JobInHand(n)
  <1>2. /\ hand[n].phase = "settled" /\ UNCHANGED <<status, payer>>
        /\ jobs' = IF j.kind = "vault_sweep" THEN [jobs EXCEPT ![n] = Pool!RemoveAt(@, a)]
                   ELSE [jobs EXCEPT ![n][a].waits = TRUE]
    BY DEF Pool!ReportRefused, Pool!DiesOfRefusal
  <1>3. a \in DOMAIN jobs[n] /\ j \in PoolJobs(n) /\ j = jobs[n][a]
    BY <1>1, <1>2, PoolHandTypes DEF Pool!JobInHand
  <1>4. \A x \in Asked : RowAgrees(jobs, status[x], payer[x], x)
    BY <1>1 DEF PoolRows
  <1>5. CASE j.kind = "vault_sweep"
    <2> DEFINE s == Pool!RemoveAt(jobs[n], a)
               r == [jobs EXCEPT ![n] = s]
    <2>1. jobs' = r
      BY <1>2, <1>5
    <2>2. s = Pool!RemoveAt(jobs[n], a) /\ r = [jobs EXCEPT ![n] = s]
      OBVIOUS
    <2> HIDE DEF s, r, a, j
    <2>3. Without(jobs, r, n, a)
      BY <1>1, <1>3, <2>2, Removed
    <2>4. ASSUME NEW x \in Asked PROVE RowAgrees(r, status[x], payer[x], x)
      <3>1. jobs[n][a].w # x
        BY <1>3, <1>5, PoolConstants DEF PoolJobs
      <3> QED BY <1>4, <2>3, <3>1, RowOfRemoved
    <2>5. QueuesAgree(r) /\ \A c \in Nodes \ {n} : r[c] = jobs[c]
      BY <2>3 DEF Without
    <2>6. PoolRows' /\ PoolJobsAgree'
      <3>1. UNCHANGED <<status, payer>>
        BY <1>2
      <3> QED BY <2>1, <2>4, <2>5, <3>1 DEF PoolRows, RowAgrees, PlaceAgrees, PoolJobsAgree, QueuesAgree
    <2>7. NoMore(jobs, r)
      BY <1>1, <2>3, NoMoreOfRemoved
    <2> QED BY <2>1, <2>5, <2>6, <2>7 DEF Alike
  <1>6. CASE j.kind # "vault_sweep"
    <2> DEFINE r == [jobs EXCEPT ![n][a].waits = TRUE]
    <2>1. jobs' = r
      BY <1>2, <1>6
    <2>2. MarkedOf(jobs, r)
      <3> HIDE DEF a, j
      <3>1. DOMAIN r = Nodes /\ r = [m \in Nodes |-> r[m]]
        BY <1>1 DEF QueuesAgree
      <3>2. ASSUME NEW m \in Nodes
            PROVE  DOMAIN r[m] = DOMAIN jobs[m] /\ r[m] = [k \in DOMAIN r[m] |-> r[m][k]]
        <4>1. jobs[m] \in Seq(Pool!Job) /\ jobs[n] \in Seq(Pool!Job) /\ DOMAIN jobs = Nodes
          BY <1>1 DEF QueuesAgree
        <4>2. jobs[m] = [k \in DOMAIN jobs[m] |-> jobs[m][k]]
          BY <4>1, LenProperties
        <4> QED BY <4>1, <4>2
      <3>3. ASSUME NEW m \in Nodes, NEW k \in DOMAIN jobs[m]
            PROVE  r[m][k] \in Pool!Job /\ Alike(jobs[m][k], r[m][k])
        <4>1. jobs[m][k] \in Pool!Job /\ DOMAIN jobs = Nodes
          BY <1>1, Queues DEF QueuesAgree
        <4>2. r[m][k] = IF m = n /\ k = a THEN [jobs[n][a] EXCEPT !.waits = TRUE] ELSE jobs[m][k]
          BY <4>1
        <4> QED BY <4>1, <4>2 DEF Pool!Job, Alike
      <3> HIDE DEF r
      <3> QED BY <3>1, <3>2, <3>3 DEF MarkedOf
    <2> HIDE DEF r, a, j
    <2>3. QueuesAgree(r)
      BY <1>1, <2>2, Marked
    <2>4. \A m \in Nodes : /\ DOMAIN r[m] = DOMAIN jobs[m]
                           /\ \A i \in DOMAIN jobs[m] : Alike(jobs[m][i], r[m][i])
      BY <2>2 DEF MarkedOf
    <2>5. ASSUME NEW x \in Asked PROVE RowAgrees(r, status[x], payer[x], x)
      BY <1>4, <2>4, RowOfMarked
    <2>6. PoolRows' /\ PoolJobsAgree'
      <3>1. UNCHANGED <<status, payer>>
        BY <1>2
      <3> QED BY <2>1, <2>3, <2>5, <3>1 DEF PoolRows, RowAgrees, PlaceAgrees, PoolJobsAgree, QueuesAgree
    <2>7. NoMore(jobs, r)
      BY <1>1, <2>3, <2>4, NoMoreOfMarked
    <2> QED BY <2>1, <2>4, <2>6, <2>7
  <1> QED BY <1>5, <1>6

(* A refusal moves no money: a sweep ends, another job waits for funds.     *)
LEMMA PoolRefused ==
    ASSUME Pool!ConstantsOK, FinitePool, PoolGood, NEW n \in Nodes, Pool!ReportRefused(n)
    PROVE  PoolGood'
  <1>1. PoolInv /\ PoolTypes /\ PoolJobsAgree /\ PoolRows /\ PoolHandsAgree
    BY DEF PoolGood, PoolInv
  <1>2. /\ hand[n].phase = "settled" /\ ~hand[n].paid /\ hand' = [hand EXCEPT ![n] = Pool!NoHand]
        /\ UNCHANGED <<status, payer, funding, books, held, receipt, reach, told, watch, cooling>>
    BY DEF Pool!ReportRefused, Pool!money, Pool!sweeper
  <1>3. /\ PoolRows' /\ PoolJobsAgree'
        /\ \A c \in Nodes \ {n} : \A i \in DOMAIN jobs[c] :
              i \in DOMAIN jobs'[c] /\ Alike(jobs[c][i], jobs'[c][i])
    BY RefusedDoes
  <1>4. PoolHandsAgree' /\ Pool!Unbooked(n)' = 0 /\ \A c \in Nodes \ {n} : Kept(c)
    BY <1>1, <1>2, <1>3, HandIsFree
  <1>5. Pool!Unbooked(n) = 0
    BY <1>2 DEF Pool!Unbooked
  <1>6. PoolTypes'
    BY <1>1, <1>2 DEF PoolTypes
  <1>7. ASSUME NEW x \in Nodes
        PROVE  (books[x] - Pool!Unbooked(x) + LandingAt(x) + SumOf(Coming(x), Nodes) = held[x])'
    <2>1. Coming(x)[n] = 0 /\ Coming(x)'[n] = 0
      BY <1>4, <1>5 DEF Coming
    <2>2. /\ SumOf(Coming(x), Nodes)' = SumOf(Coming(x), Nodes)
          /\ Pool!Unbooked(x)' = Pool!Unbooked(x)
      BY <1>1, <1>3, <1>4, <1>5, <2>1, ComingChanges
    <2>3. LandingAt(x)' = LandingAt(x) /\ books' = books /\ held' = held
      BY <1>2 DEF LandingAt
    <2>4. books[x] - Pool!Unbooked(x) + LandingAt(x) + SumOf(Coming(x), Nodes) = held[x]
      BY <1>1 DEF PoolInv
    <2> QED BY <2>2, <2>3, <2>4
  <1>8. PoolInv'
    BY <1>3, <1>4, <1>6, <1>7 DEF PoolInv
  <1> QED BY <1>3, <1>8 DEF PoolGood

(* Both hold at the start.                                                  *)
LEMMA PoolInitially == ASSUME Pool!ConstantsOK, FinitePool, Pool!Init PROVE PoolGood
  <1> USE DEF Pool!Init
  <1>1. << >> \in Seq(Pool!Job) /\ \A n \in Nodes : << >> \in Seq(PoolJobs(n))
    BY EmptySeq
  <1>2. PoolJobsAgree /\ PoolHandsAgree
    BY <1>1 DEF PoolJobsAgree, QueuesAgree, PoolHandsAgree, Hands, Pool!NoHand
  <1>3. PoolTypes
    BY DEF PoolTypes, Pool!Statuses, Pool!Distances, Pool!NoReceipt, Pool!ConstantsOK
  <1>4. \A n \in Nodes : Pool!Unbooked(n) = 0
    BY DEF Pool!Unbooked, Pool!NoHand
  <1>5. ASSUME NEW n \in Nodes
        PROVE  books[n] - Pool!Unbooked(n) + LandingAt(n) + SumOf(Coming(n), Nodes) = held[n]
    <2>1. \A x \in Nodes \ {} : Coming(n)[x] = 0
      BY <1>4 DEF Coming
    <2>2. SumOf(Coming(n), Nodes) = SumOf(Coming(n), {})
      BY <2>1, SumOfSome
    <2>3. LandingAt(n) = 0
      BY PoolConstants DEF LandingAt, Pool!NoReceipt
    <2>4. held[n] \in Nat
      BY <1>3 DEF PoolTypes
    <2> QED BY <1>4, <2>2, <2>3, <2>4, SumOfNone
  <1>6. PoolRows
    <2>1. \A m \in Nodes : DOMAIN jobs[m] = {}
      OBVIOUS
    <2> QED BY <2>1 DEF PoolRows, RowAgrees
  <1> QED BY <1>2, <1>3, <1>5, <1>6 DEF PoolGood, PoolInv

(* Every step keeps both.                                                   *)
LEMMA PoolStep ==
    ASSUME Pool!ConstantsOK, FinitePool, PoolGood, [Pool!Next]_Pool!vars
    PROVE  PoolGood'
  <1>1. CASE UNCHANGED Pool!vars
    <2>1. UNCHANGED <<status, payer, funding, jobs, hand, books, held, reach, told, receipt, watch, cooling>>
      BY <1>1 DEF Pool!vars
    <2>2. PoolTypes' /\ PoolJobsAgree /\ PoolInv /\ PoolRows
      BY <2>1 DEF PoolGood, PoolInv, PoolTypes
    <2>3. PoolRows' /\ PoolJobsAgree' /\ \A c \in Nodes : Kept(c)
      BY <2>1, <2>2, RowsAsNothingMoves, KeptAsNothingMoves
    <2>4. PoolInv'
      BY <2>1, <2>2, <2>3, AllKept DEF LandingAt
    <2> QED BY <2>3, <2>4 DEF PoolGood
  <1>2. CASE Pool!GatewayNext
    BY <1>2, PoolRequest, PoolAskApproval, PoolHold, PoolDeposit, PoolTick DEF Pool!GatewayNext
  <1>3. CASE Pool!PlayerNext \/ Pool!TimeNext
    BY <1>3, PoolDeposit
  <1>4. ASSUME NEW n \in Nodes, Pool!NodeNext(n) PROVE PoolGood'
    BY <1>4, PoolClaim, PoolAnswer, PoolPaid, PoolRefused DEF Pool!NodeNext
  <1> QED BY <1>1, <1>2, <1>3, <1>4 DEF Pool!Next

(* Both hold in every state.                                                *)
LEMMA PoolIsInductive == ASSUME Pool!ConstantsOK, FinitePool PROVE Pool!Spec => []PoolGood
  <1>1. Pool!Init => PoolGood
    BY PoolInitially
  <1>2. PoolGood /\ [Pool!Next]_Pool!vars => PoolGood'
    BY PoolStep
  <1> QED BY <1>1, <1>2, PTL DEF Pool!Spec

-----------------------------------------------------------------------------
(* What the pool promises                                                   *)

(* Type correctness of the pool, its jobs and its books.                    *)
THEOREM PoolTypeCorrect == ASSUME Pool!ConstantsOK, FinitePool PROVE Pool!Spec => []Pool!TypeOK
  <1>1. PoolGood => Pool!TypeOK
    <2> SUFFICES ASSUME PoolGood PROVE Pool!TypeOK
      OBVIOUS
    <2>1. PoolTypes /\ PoolJobsAgree /\ PoolHandsAgree
      BY DEF PoolGood, PoolInv
    <2>2. \A n \in Nodes : \A i \in DOMAIN jobs[n] : jobs[n][i] \in Pool!Job
      BY <2>1, PoolJobTypes
    <2> QED BY <2>1, <2>2 DEF PoolTypes, PoolHandsAgree, Pool!TypeOK
  <1> QED BY <1>1, PoolIsInductive, PTL

(* Every node's books come to what it holds once what is on its way is      *)
(* counted: no transfer is booked on one side only, twice or never.         *)
THEOREM PoolBooksAddUp == ASSUME Pool!ConstantsOK, FinitePool PROVE Pool!Spec => []Pool!PoolAddsUp
  <1>1. PoolGood => Pool!PoolAddsUp
    BY PoolAddsUpHolds DEF PoolGood
  <1> QED BY <1>1, PoolIsInductive, PTL

(* A withdrawal has one payout at most, on the node its row names, and the  *)
(* release for it goes to that node.                                        *)
LEMMA RowsArePaidByTheirPayers == ASSUME PoolRows PROVE Pool!PaidByItsPayer
  <1> SUFFICES ASSUME NEW w \in Asked
               PROVE  LET mine == UNION {{<<n, i>> : i \in {k \in DOMAIN jobs[n] : jobs[n][k].w = w}} :
                                         n \in Nodes}
                      IN  /\ Pool!Cardinality(mine) <= 1
                          /\ status[w] \in {"queued", "awaiting_vault"} => mine # {}
                          /\ status[w] \in {"none", "paid"} => mine = {}
                          /\ \A p \in mine : payer[w] = IF jobs[p[1]][p[2]].kind = "cash_payout"
                                                        THEN p[1] ELSE jobs[p[1]][p[2]].to
    BY DEF Pool!PaidByItsPayer
  <1> DEFINE mine == UNION {{<<n, i>> : i \in {k \in DOMAIN jobs[n] : jobs[n][k].w = w}} : n \in Nodes}
  <1>1. RowAgrees(jobs, status[w], payer[w], w)
    BY DEF PoolRows
  <1>2. \A p \in mine : /\ p = <<p[1], p[2]>> /\ p[1] \in Nodes /\ p[2] \in DOMAIN jobs[p[1]]
                        /\ jobs[p[1]][p[2]].w = w
    OBVIOUS
  <1>3. \A n \in Nodes : \A i \in DOMAIN jobs[n] : jobs[n][i].w = w => <<n, i>> \in mine
    OBVIOUS
  <1> HIDE DEF mine
  <1>4. ASSUME NEW p \in mine, NEW q \in mine PROVE p = q
    <2>1. p[1] = q[1] /\ p[2] = q[2]
      BY <1>1, <1>2 DEF RowAgrees
    <2> QED BY <1>2, <2>1
  <1>5. Cardinality(mine) <= 1
    <2>1. CASE mine = {}
      BY <2>1, FS_EmptySet
    <2>2. CASE mine # {}
      <3>1. PICK p \in mine : TRUE
        BY <2>2
      <3>2. mine = {p}
        BY <1>4, <3>1
      <3> QED BY <3>2, FS_Singleton
    <2> QED BY <2>1, <2>2
  <1>6. \A p \in mine : PlaceAgrees(jobs[p[1]][p[2]], p[1], status[w], payer[w])
    BY <1>1, <1>2 DEF RowAgrees
  <1>7. status[w] \in {"queued", "awaiting_vault"} => mine # {}
    BY <1>1, <1>3 DEF RowAgrees
  <1>8. status[w] \in {"none", "paid"} => mine = {}
    BY <1>6 DEF PlaceAgrees
  <1>9. \A p \in mine : payer[w] = IF jobs[p[1]][p[2]].kind = "cash_payout"
                                   THEN p[1] ELSE jobs[p[1]][p[2]].to
    BY <1>6 DEF PlaceAgrees
  <1> QED BY <1>5, <1>7, <1>8, <1>9, PoolSize DEF mine

(* Every withdrawal is paid once at most, by the node its row names,        *)
(* however                                                                  *)
(* it was held, approved, routed and refused.                               *)
THEOREM PoolPaidByItsPayer ==
    ASSUME Pool!ConstantsOK, FinitePool PROVE Pool!Spec => []Pool!PaidByItsPayer
  <1>1. PoolGood => Pool!PaidByItsPayer
    BY RowsArePaidByTheirPayers DEF PoolGood
  <1> QED BY <1>1, PoolIsInductive, PTL

-----------------------------------------------------------------------------
(* Rebalances                                                               *)

(* What is on its way to a node comes to a number.                          *)
LEMMA SentIsANumber ==
    ASSUME PoolJobsAgree, NEW m \in Nodes, NEW n
    PROVE  Pool!SentBy(m, n) \in Nat
  <1> DEFINE f == [i \in DOMAIN jobs[m] |-> IF jobs[m][i].kind = "vault_release" /\ jobs[m][i].to = n
                                            THEN jobs[m][i].amount ELSE 0]
             S == DOMAIN jobs[m]
  <1>1. \A i \in S : f[i] \in Nat
    BY PoolJobTypes
  <1>2. IsFiniteSet(S)
    <2>1. Len(jobs[m]) \in Nat /\ S = 1..Len(jobs[m])
      BY Queues DEF PoolJobsAgree
    <2> QED BY <2>1, FS_Interval
  <1>3. Pool!SentBy(m, n) = Pool!MapThenSumSet(LAMBDA x : f[x], S)
    BY DEF Pool!SentBy, Pool!MapThenSumSet, Pool!MapThenFoldSet
  <1> HIDE DEF f, S
  <1>4. Pool!MapThenSumSet(LAMBDA x : f[x], S) = SumOf(f, S)
    BY <1>1, <1>2, PoolSumIsFold
  <1>5. SumOf(f, S) \in Nat
    BY <1>1, <1>2, SumType
  <1> QED BY <1>3, <1>4, <1>5

OnItsWayCounts == \A n \in Nodes : Pool!OnItsWay(n) \in Nat

(* What is on its way to a node comes to a number.                          *)
LEMMA OnItsWayType == ASSUME FinitePool, PoolJobsAgree PROVE OnItsWayCounts
  <1> SUFFICES ASSUME NEW n \in Nodes PROVE Pool!OnItsWay(n) \in Nat
    BY DEF OnItsWayCounts
  <1> DEFINE f == [m \in Nodes |-> Pool!SentBy(m, n)]
  <1>1. \A m \in Nodes : f[m] \in Nat
    BY SentIsANumber
  <1>2. Pool!OnItsWay(n) = Pool!MapThenSumSet(LAMBDA x : f[x], Nodes)
    BY DEF Pool!OnItsWay, Pool!MapThenSumSet, Pool!MapThenFoldSet
  <1> HIDE DEF f
  <1>3. Pool!MapThenSumSet(LAMBDA x : f[x], Nodes) = SumOf(f, Nodes)
    BY <1>1, PoolSumIsFold DEF FinitePool
  <1>4. SumOf(f, Nodes) \in Nat
    BY <1>1, SumType DEF FinitePool
  <1> QED BY <1>2, <1>3, <1>4

(* Nothing is promised while no withdrawal waits for its release.           *)
LEMMA NothingIsPromised ==
    ASSUME FinitePool, NEW n \in Nodes, \A w \in Asked : status'[w] # "awaiting_vault"
    PROVE  Pool!Promised(n)' = 0
  <1> DEFINE f == [w \in Asked |-> IF payer'[w] = n /\ status'[w] = "awaiting_vault" THEN Amount[w] ELSE 0]
  <1>1. Pool!Promised(n)' = Pool!MapThenSumSet(LAMBDA x : f[x], Asked)
    BY DEF Pool!Promised, Pool!MapThenSumSet, Pool!MapThenFoldSet
  <1>2. \A w \in Asked \ {} : f[w] = 0 /\ f[w] \in Nat
    OBVIOUS
  <1> HIDE DEF f
  <1>3. Pool!MapThenSumSet(LAMBDA x : f[x], Asked) = SumOf(f, Asked)
    BY <1>2, PoolSumIsFold DEF FinitePool
  <1>4. SumOf(f, Asked) = SumOf(f, {})
    BY <1>2, SumOfSome
  <1> QED BY <1>1, <1>3, <1>4, SumOfNone

(* What a longer queue comes to.                                            *)
LEMMA TotalOfAppended ==
    ASSUME NEW q, QueuesAgree(q), NEW n \in Nodes, NEW j \in PoolJobs(n), NEW r, With(q, r, n, j)
    PROVE  /\ Pool!Total(r[n]) = Pool!Total(q[n]) + j.amount
           /\ Pool!Total(q[n]) \in Nat /\ j.amount \in Nat
  <1> DEFINE s == q[n]
             t == r[n]
             k == Len(q[n]) + 1
             f == Summands(t)
             g == Summands(s)
             S == DOMAIN s
             T == DOMAIN t
  <1>1. QueuesAgree(r)
    BY DEF With
  <1>2. Len(s) \in Nat /\ S = 1..Len(s) /\ \A i \in S : s[i] \in Pool!Job
    BY Queues
  <1>3. Len(t) \in Nat /\ T = 1..Len(t) /\ \A i \in T : t[i] \in Pool!Job
    BY <1>1, Queues
  <1>4. T = S \cup {k} /\ k \notin S /\ t[k] = j /\ \A i \in S : t[i] = s[i]
    BY DEF With
  <1>5. j.amount \in Nat
    BY DEF PoolJobs, Pool!Job
  <1> HIDE DEF s, t, k, S, T
  <1>6. IsFiniteSet(S) /\ IsFiniteSet(T)
    BY <1>2, <1>3, FS_Interval
  <1>7. (\A i \in S : s[i].amount \in Nat) /\ (\A i \in T : t[i].amount \in Nat)
    BY <1>2, <1>3 DEF Pool!Job
  <1>8. /\ \A i \in S : f[i] = g[i]
        /\ f[k] = j.amount /\ \A i \in T : f[i] \in Nat
    BY <1>4, <1>7 DEF Summands, S, T
  <1>9. Pool!Total(s) = SumOf(g, S) /\ Pool!Total(s) \in Nat
    BY <1>6, <1>7, TotalIsSum DEF S
  <1>10. Pool!Total(t) = SumOf(f, T)
    BY <1>6, <1>7, TotalIsSum DEF T
  <1> HIDE DEF f, g
  <1>11. SumOf(f, T) = f[k] + SumOf(f, T \ {k})
    BY <1>4, <1>6, <1>8, SumSplits
  <1>12. T \ {k} = S
    BY <1>4
  <1>13. SumOf(f, S) = SumOf(g, S)
    BY <1>8, SumOfSame
  <1> QED BY <1>5, <1>8, <1>9, <1>10, <1>11, <1>12, <1>13 DEF s, t

(* A rebalance takes what its sender has to spare.                          *)
LEMMA RebalanceSpares ==
    ASSUME Pool!ConstantsOK, FinitePool, PoolGood, \A n \in Nodes : reach[n] # "silent", Pool!Tick,
           TickQueues, OnItsWayCounts'
    PROVE  Pool!MoveSparesPromises
  <1>1. /\ PoolTypes /\ PoolJobsAgree /\ PoolRows /\ QueuesAgree(jobs)
        /\ UNCHANGED <<status, payer, books>>
    BY TickDoes DEF PoolGood, PoolInv, PoolJobsAgree
  <1>2. PICK b \in Nodes, j \in Pool!Job :
            /\ j \in PoolJobs(b) /\ j.kind = "vault_sweep" /\ j.amount <= Pool!Free(b)
            /\ jobs' = [jobs EXCEPT ![b] = Append(@, j)] /\ ~Pool!Busy
    BY DEF TickQueues
  <1>3. \A n \in Nodes : \A i \in DOMAIN jobs[n] : jobs[n][i].kind \notin {"vault_sweep", "vault_release"}
    BY <1>2 DEF Pool!Busy, Pool!Pool
  <1>4. \A m \in Nodes : Pool!Sweeps(m) = {}
    BY <1>3 DEF Pool!Sweeps
  <1>5. \A w \in Asked : status'[w] # "awaiting_vault"
    <2>1. \A n \in Nodes : \A i \in DOMAIN jobs[n] : jobs[n][i].kind = "cash_payout"
      BY <1>1, <1>3, PoolJobTypes DEF Pool!Job
    <2> QED BY <1>1, <2>1 DEF PoolRows, RowAgrees, PlaceAgrees
  <1> DEFINE r == jobs'
  <1>6. With(jobs, r, b, j)
    <2>1. r = [jobs EXCEPT ![b] = Append(@, j)]
      BY <1>2
    <2> HIDE DEF r
    <2> QED BY <1>1, <1>2, <2>1, Appended
  <1> HIDE DEF r
  <1>8. \A n \in Nodes \ {b} : jobs'[n] = jobs[n]
    BY <1>6 DEF With, r
  <1>9. ASSUME NEW n \in Nodes, Pool!Cardinality(Pool!Sweeps(n)') > Pool!Cardinality(Pool!Sweeps(n))
        PROVE  Pool!Free(n)' >= Pool!Promised(n)' - Pool!OnItsWay(n)'
    <2>1. n = b
      <3>1. CASE n # b
        <4>1. Pool!Sweeps(n)' = Pool!Sweeps(n)
          BY <1>8, <3>1 DEF Pool!Sweeps
        <4>2. Pool!Cardinality(Pool!Sweeps(n)) = 0
          BY <1>4, PoolSize, FS_EmptySet
        <4> QED BY <1>9, <4>1, <4>2
      <3> QED BY <3>1
    <2>2. Pool!Total(jobs'[b]) = Pool!Total(jobs[b]) + j.amount /\ Pool!Total(jobs[b]) \in Nat /\ j.amount \in Nat
      BY <1>1, <1>2, <1>6, TotalOfAppended DEF r
    <2>3. books[b] \in Int /\ books' = books
      BY <1>1 DEF PoolTypes
    <2>4. Pool!Free(b)' = books'[b] - Pool!Total(jobs'[b]) /\ Pool!Free(b) = books[b] - Pool!Total(jobs[b])
      BY DEF Pool!Free
    <2>5. Pool!Free(b)' >= 0 /\ Pool!Free(b)' \in Int
      BY <1>2, <2>2, <2>3, <2>4
    <2>6. Pool!Promised(n)' = 0 /\ Pool!OnItsWay(n)' \in Nat
      BY <1>5, NothingIsPromised DEF OnItsWayCounts
    <2> QED BY <2>1, <2>5, <2>6
  <1> QED BY <1>4, <1>9 DEF Pool!MoveSparesPromises

(* No other step brings a rebalance.                                        *)
LEMMA NoRebalance ==
    ASSUME PoolJobsAgree, PoolJobsAgree', NoMore(jobs, jobs')
    PROVE  Pool!MoveSparesPromises
  <1>1. ASSUME NEW n \in Nodes
        PROVE  ~(Pool!Cardinality(Pool!Sweeps(n)') > Pool!Cardinality(Pool!Sweeps(n)))
    <2>1. Pool!Sweeps(n) = Moves(jobs, n) /\ Pool!Sweeps(n)' = Moves(jobs', n)
      BY DEF Pool!Sweeps, Moves
    <2>2. /\ Cardinality(Moves(jobs, n)) \in Nat /\ Cardinality(Moves(jobs', n)) \in Nat
          /\ Cardinality(Moves(jobs', n)) <= Cardinality(Moves(jobs, n))
      BY FS_CardinalityType DEF NoMore
    <2> QED BY <2>1, <2>2, PoolSize
  <1> QED BY <1>1 DEF Pool!MoveSparesPromises

(* Routing a withdrawal adds no rebalance.                                  *)
LEMMA RouteBringsNoMove ==
    ASSUME Pool!ConstantsOK, FinitePool, PoolTypes, PoolJobsAgree, NEW w \in Asked, NEW taker \in Nodes,
           Pool!Route(w, taker)
    PROVE  NoMore(jobs, jobs')
  <1> DEFINE r == jobs'
  <1>1. QueuesAgree(jobs)
    BY DEF PoolJobsAgree
  <1>2. CASE RoutedAnew(w)
    <2>1. PICK b \in Nodes, n \in Nodes, j \in Pool!Job, st \in {"queued", "awaiting_vault"} :
              j \in PoolJobs(b) /\ r = [jobs EXCEPT ![b] = Append(@, j)] /\ j.kind # "vault_sweep"
      BY <1>2 DEF RoutedAnew
    <2> HIDE DEF r
    <2>2. With(jobs, r, b, j)
      BY <1>1, <2>1, Appended
    <2>3. NoMore(jobs, r)
      BY <1>1, <2>1, <2>2, NoMoreOfOthers
    <2> QED BY <2>3 DEF r
  <1>3. CASE OnlyMarked
    <2>1. /\ QueuesAgree(r)
          /\ \A m \in Nodes : /\ DOMAIN r[m] = DOMAIN jobs[m]
                              /\ \A i \in DOMAIN jobs[m] : Alike(jobs[m][i], r[m][i])
      BY <1>3 DEF OnlyMarked
    <2> HIDE DEF r
    <2>2. NoMore(jobs, r)
      BY <1>1, <2>1, NoMoreOfMarked
    <2> QED BY <2>2 DEF r
  <1> QED BY <1>2, <1>3, RouteDoes

(* Holding payouts adds none.                                               *)
LEMMA HoldBringsNoMove ==
    ASSUME PoolJobsAgree, OnlyMarked
    PROVE  NoMore(jobs, jobs')
  <1> DEFINE r == jobs'
  <1>1. QueuesAgree(jobs)
    BY DEF PoolJobsAgree
  <1>2. /\ QueuesAgree(r)
        /\ \A m \in Nodes : /\ DOMAIN r[m] = DOMAIN jobs[m]
                            /\ \A i \in DOMAIN jobs[m] : Alike(jobs[m][i], r[m][i])
    BY DEF OnlyMarked
  <1> HIDE DEF r
  <1>3. NoMore(jobs, r)
    BY <1>1, <1>2, NoMoreOfMarked
  <1> QED BY <1>3 DEF r

NoneSilent == \A n \in Nodes : reach[n] # "silent"

(* Only a pass of the rebalancer adds one, and then as promised.            *)
LEMMA MovesSpare ==
    ASSUME Pool!ConstantsOK, FinitePool, PoolGood, PoolGood', NoneSilent, OnItsWayCounts',
           [Pool!Next]_Pool!vars
    PROVE  Pool!MoveSparesPromises
  <1>1. PoolTypes /\ PoolJobsAgree /\ PoolRows /\ PoolJobsAgree' /\ QueuesAgree(jobs)
    BY DEF PoolGood, PoolInv, PoolJobsAgree
  <1>2. ASSUME NoMore(jobs, jobs') PROVE Pool!MoveSparesPromises
    BY <1>1, <1>2, NoRebalance
  <1>3. ASSUME UNCHANGED jobs PROVE Pool!MoveSparesPromises
    <2>1. NoMore(jobs, jobs)
      BY <1>1, NoMoreIfSame
    <2> QED BY <1>2, <1>3, <2>1
  <1>4. ASSUME NEW w \in Asked, Pool!Request(w) \/ Pool!Approve(w) PROVE Pool!MoveSparesPromises
    <2>1. CASE Pool!Request(w)
      <3>1. Pool!Poorest(Pool!Online) \in Nodes /\ Pool!Route(w, Pool!Poorest(Pool!Online))
        BY <1>1, <2>1, SomebodyIsOnline DEF Pool!Request
      <3> QED BY <1>1, <1>2, <3>1, RouteBringsNoMove
    <2>2. CASE Pool!Approve(w)
      <3>1. payer[w] \in Nodes /\ Pool!Route(w, payer[w])
        BY <1>1, <2>2 DEF Pool!Approve, PoolRows, RowAgrees
      <3> QED BY <1>1, <1>2, <3>1, RouteBringsNoMove
    <2> QED BY <1>4, <2>1, <2>2
  <1>5. ASSUME NEW w \in Asked, NEW n \in Nodes, NEW i \in DOMAIN jobs[n], Pool!Hold(w, n, i)
        PROVE  Pool!MoveSparesPromises
    <2>1. OnlyMarked
      BY <1>5, HoldMarks
    <2> QED BY <1>1, <1>2, <2>1, HoldBringsNoMove
  <1>6. CASE Pool!Tick
    <2>1. CASE UNCHANGED jobs
      BY <1>3, <2>1
    <2>2. CASE TickQueues
      BY <1>6, <2>2, RebalanceSpares DEF NoneSilent
    <2> QED BY <1>1, <1>6, <2>1, <2>2, TickDoes
  <1>7. CASE Pool!DepositBooked \/ Pool!PlayerNext \/ Pool!TimeNext
    <2>1. UNCHANGED jobs
      BY <1>7 DEF Pool!DepositBooked, Pool!PlayerNext, Pool!TimeNext, Pool!OpenDepositPage,
                  Pool!DepositLands, Pool!HoldMinutesPass, Pool!CooldownPasses, Pool!Reach, Pool!queue
    <2> QED BY <1>3, <2>1
  <1>8. ASSUME NEW w \in Asked, Pool!AskApproval(w) PROVE Pool!MoveSparesPromises
    BY <1>3, <1>8 DEF Pool!AskApproval
  <1>9. ASSUME NEW n \in Nodes, Pool!NodeNext(n) PROVE Pool!MoveSparesPromises
    <2>1. CASE (\E i \in DOMAIN jobs[n] : Pool!Claim(n, i)) \/ Pool!GameAnswers(n)
      <3>1. UNCHANGED jobs
        BY <2>1 DEF Pool!Claim, Pool!GameAnswers
      <3> QED BY <1>3, <3>1
    <2>2. CASE Pool!ReportPaid(n)
      BY <1>2, <2>2, PaidDoes
    <2>3. CASE Pool!ReportRefused(n)
      BY <1>2, <2>3, RefusedDoes
    <2> QED BY <1>9, <2>1, <2>2, <2>3 DEF Pool!NodeNext
  <1>10. CASE UNCHANGED Pool!vars
    <2>1. UNCHANGED jobs
      BY <1>10 DEF Pool!vars
    <2> QED BY <1>3, <2>1
  <1>11. CASE Pool!GatewayNext
    BY <1>4, <1>5, <1>6, <1>7, <1>8, <1>11 DEF Pool!GatewayNext
  <1> QED BY <1>7, <1>9, <1>10, <1>11 DEF Pool!Next

(* A node falls silent only where it may.                                   *)
LEMMA NoneFallsSilent ==
    ASSUME Pool!ConstantsOK, FinitePool, "silent" \notin Reaches
    PROVE  Pool!Spec => []NoneSilent
  <1>1. Pool!Init => NoneSilent
    BY DEF Pool!Init, NoneSilent
  <1>2. PoolGood /\ NoneSilent /\ [Pool!Next]_Pool!vars => NoneSilent'
    <2> SUFFICES ASSUME PoolGood, NoneSilent, [Pool!Next]_Pool!vars PROVE NoneSilent'
      OBVIOUS
    <2>1. PoolTypes
      BY DEF PoolGood, PoolInv
    <2>2. ASSUME NEW n \in Nodes, NEW x \in Reaches, Pool!Reach(n, x) PROVE NoneSilent'
      BY <2>1, <2>2 DEF Pool!Reach, NoneSilent, PoolTypes
    <2>3. (\A n \in Nodes, x \in Reaches : ~Pool!Reach(n, x)) => UNCHANGED reach
      BY TickDoes, <2>1 DEF PoolGood, PoolInv, Pool!Next, Pool!GatewayNext, Pool!PlayerNext, Pool!TimeNext, Pool!NodeNext,
         Pool!Request, Pool!AskApproval, Pool!Approve, Pool!Hold, Pool!DepositBooked, Pool!OpenDepositPage,
         Pool!DepositLands, Pool!HoldMinutesPass, Pool!CooldownPasses, Pool!Claim, Pool!GameAnswers,
         Pool!ReportPaid, Pool!ReportRefused, Pool!vars
    <2> QED BY <2>2, <2>3 DEF NoneSilent
  <1> QED BY <1>1, <1>2, PoolIsInductive, PTL DEF Pool!Spec

(* No rebalance is queued while another is on its way, and one leaves its   *)
(* sender what it is due to pay, as long as no node is silent for so long   *)
(* that it drops out of the pool.                                           *)
THEOREM PoolMovesSparePromises ==
    ASSUME Pool!ConstantsOK, FinitePool, "silent" \notin Reaches
    PROVE  Pool!Spec => [][Pool!MoveSparesPromises]_Pool!vars
  <1>1. PoolGood /\ PoolGood' /\ NoneSilent /\ OnItsWayCounts' /\ [Pool!Next]_Pool!vars
        => [Pool!MoveSparesPromises]_Pool!vars
    BY MovesSpare
  <1>2. PoolGood => OnItsWayCounts
    BY OnItsWayType DEF PoolGood, PoolInv
  <1> QED BY <1>1, <1>2, PoolIsInductive, NoneFallsSilent, PTL DEF Pool!Spec

-----------------------------------------------------------------------------
(* All of them: what holds in one scene holds whenever that scene is on     *)

LEMMA AtRelease ==
    /\ TransfersSpec /\ scene = "release" => Spec
    /\ TransfersSpec /\ ~(scene = "release") => [](~(scene = "release"))
  <1>1. TransfersInit /\ scene = "release" => Init
    BY DEF TransfersInit
  <1>2. [TransfersNext]_transfersVars => UNCHANGED scene
    BY DEF TransfersNext, transfersVars
  <1>3. [TransfersNext]_transfersVars /\ scene = "release" => [Next]_vars
    BY DEF TransfersNext, transfersVars
  <1>4. UNCHANGED scene /\ scene = "release" => (scene = "release")'
    OBVIOUS
  <1>5. UNCHANGED scene /\ ~(scene = "release") => (~(scene = "release"))'
    OBVIOUS
  <1> QED BY <1>1, <1>2, <1>3, <1>4, <1>5, PTL DEF TransfersSpec, Spec

(* The float's behaviours.                                                  *)
LEMMA AtFloat ==
    /\ TransfersSpec /\ scene = "float" => Float!Spec
    /\ TransfersSpec /\ ~(scene = "float") => [](~(scene = "float"))
  <1>1. TransfersInit /\ scene = "float" => Float!Init
    BY DEF TransfersInit
  <1>2. [TransfersNext]_transfersVars => UNCHANGED scene
    BY DEF TransfersNext, transfersVars
  <1>3. [TransfersNext]_transfersVars /\ scene = "float" => [Float!Next]_Float!vars
    BY DEF TransfersNext, transfersVars, floatVars, Float!vars
  <1>4. UNCHANGED scene /\ scene = "float" => (scene = "float")'
    OBVIOUS
  <1>5. UNCHANGED scene /\ ~(scene = "float") => (~(scene = "float"))'
    OBVIOUS
  <1> QED BY <1>1, <1>2, <1>3, <1>4, <1>5, PTL DEF TransfersSpec, Float!Spec

(* The pool's behaviours.                                                   *)
LEMMA AtPool ==
    /\ TransfersSpec /\ scene = "pool" => Pool!Spec
    /\ TransfersSpec /\ ~(scene = "pool") => [](~(scene = "pool"))
  <1>1. TransfersInit /\ scene = "pool" => Pool!Init
    BY DEF TransfersInit
  <1>2. [TransfersNext]_transfersVars => UNCHANGED scene
    BY DEF TransfersNext, transfersVars
  <1>3. [TransfersNext]_transfersVars /\ scene = "pool" => [Pool!Next]_Pool!vars
    BY DEF TransfersNext, transfersVars, floatVars, poolOnly, Pool!vars
  <1>4. UNCHANGED scene /\ scene = "pool" => (scene = "pool")'
    OBVIOUS
  <1>5. UNCHANGED scene /\ ~(scene = "pool") => (~(scene = "pool"))'
    OBVIOUS
  <1> QED BY <1>1, <1>2, <1>3, <1>4, <1>5, PTL DEF TransfersSpec, Pool!Spec

(* A player's hop waits for the release, the player has the money once, and *)
(* a release heard of in time leaves the vault once.                        *)
THEOREM TransfersMoveMoneyOnce ==
    ASSUME ConstantsOK, AmountsDiffer PROVE TransfersSpec => []MoneyIsMovedOnce
  <1>1. Spec => []MoneyMovesOnce
    BY ReleaseMoneyMovesOnce
  <1> QED BY <1>1, AtRelease, PTL DEF MoneyIsMovedOnce

(* Nothing waits for a release that cannot be made, and none that counts as *)
(* done is still to land.                                                   *)
THEOREM TransfersAreProvidedFor ==
    ASSUME ConstantsOK, AmountsDiffer, Stops = 0
    PROVE  TransfersSpec => []PayoutsAreProvidedFor
  <1>1. Spec => []WaitsForSomething
    BY NoneWaitsForNothing
  <1>2. Spec => []CompletedHasLanded
    BY DoneMeansLanded
  <1> QED BY <1>1, <1>2, AtRelease, PTL DEF PayoutsAreProvidedFor

(* The books of vault, teller and nodes follow the money.                   *)
THEOREM TransfersKeepBooks ==
    ASSUME TransfersOK, FinitePool PROVE TransfersSpec => []BooksFollowTheMoney
  <1> USE DEF TransfersOK
  <1>1. TransfersSpec => [](scene = "release" => BookedWhenDone)
    <2>1. Spec => []BookedWhenDone
      BY BooksFollowReleases
    <2> QED BY <2>1, AtRelease, PTL
  <1>2. TransfersSpec => [](scene = "float" => Float!BooksAddUp)
    <2>1. Float!Spec => []Float!BooksAddUp
      BY FloatBooksAddUp
    <2> QED BY <2>1, AtFloat, PTL
  <1>3. TransfersSpec => [](scene = "pool" => Pool!PoolAddsUp)
    <2>1. Pool!Spec => []Pool!PoolAddsUp
      BY PoolBooksAddUp
    <2> QED BY <2>1, AtPool, PTL
  <1> QED BY <1>1, <1>2, <1>3, PTL DEF BooksFollowTheMoney

(* A withdrawal is paid once at most, by the node its row names.            *)
THEOREM TransfersPayByPayer ==
    ASSUME TransfersOK, FinitePool PROVE TransfersSpec => []PaidByItsPayer
  <1>1. Pool!Spec => []Pool!PaidByItsPayer
    BY PoolPaidByItsPayer DEF TransfersOK
  <1> QED BY <1>1, AtPool, PTL DEF PaidByItsPayer

(* A rebalance is alone, and takes nothing a withdrawal counts on.          *)
THEOREM TransfersSparePromises ==
    ASSUME TransfersOK, FinitePool, "silent" \notin Reaches
    PROVE  TransfersSpec => MovesSparePromises
  <1>1. scene = "pool" /\ [TransfersNext]_transfersVars /\ [Pool!MoveSparesPromises]_Pool!vars
        => [scene = "pool" => Pool!MoveSparesPromises]_transfersVars
    BY DEF TransfersNext, transfersVars, floatVars, poolOnly, Pool!vars
  <1>2. scene = "pool" /\ [TransfersNext]_transfersVars => (scene = "pool")'
    BY DEF TransfersNext, transfersVars
  <1>3. ~(scene = "pool") => [scene = "pool" => Pool!MoveSparesPromises]_transfersVars
    OBVIOUS
  <1>4. Pool!Spec => [][Pool!MoveSparesPromises]_Pool!vars
    BY PoolMovesSparePromises DEF TransfersOK
  <1> QED BY <1>1, <1>2, <1>3, <1>4, AtPool, PTL DEF TransfersSpec, MovesSparePromises

=============================================================================
