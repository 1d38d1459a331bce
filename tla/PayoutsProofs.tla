---------------------------- MODULE PayoutsProofs ----------------------------
(***************************************************************************)
(* The safety of Payouts for every set of players, requests and tokens,    *)
(* every amount and every attempt budget.                                  *)
(*                                                                         *)
(* IInv of module Payouts is inductive: InitIInv, then one lemma per       *)
(* action, collected in NextKeepsIInv.  The theorems read the safety       *)
(* properties off it, and the last one the promise it implements.          *)
(***************************************************************************)
EXTENDS Payouts, TLAPS

USE MaxAttemptsAssumption, NoneIsNoToken, NoneIsNoWithdrawal, OwnerAssumption,
    AmountAssumption, OpeningAssumption, MaxFundsAssumption
    DEF MaxAttemptsAssumption, NoneIsNoToken, NoneIsNoWithdrawal, OwnerAssumption,
        AmountAssumption, OpeningAssumption, MaxFundsAssumption

-----------------------------------------------------------------------------
(* Rows                                                                     *)

(* Every statement on a row of bot_jobs leaves a row of bot_jobs; a claim   *)
(* stays within the attempt budget because only a row with attempts left is *)
(* handed out.                                                              *)
LEMMA RowTypes ==
    ASSUME NEW j \in JobRows
    PROVE  /\ InsertOrRelease(j) \in JobRows
           /\ Park(j) \in JobRows
           /\ ExpireLease(j) \in JobRows
           /\ Complete(j) \in JobRows
           /\ CompleteLate(j) \in JobRows
           /\ Wake(j) \in JobRows
           /\ RequeueForFunds(j) \in JobRows
           /\ \A code \in JobErrors : DeadLetter(j, code) \in JobRows /\ Requeue(j, code) \in JobRows
           /\ \A t \in Tokens : Claimable(j) => Lease(j, t) \in JobRows
<1>1. InsertOrRelease(j) \in JobRows
  <2>1. NewJob \in JobRows
    BY DEF NewJob, Row, JobRows, JobStatuses, Availability, JobErrors
  <2>2. [j EXCEPT !.avail = "due"] \in JobRows
    BY DEF JobRows, Availability
  <2>3. QED
    BY <2>1, <2>2 DEF InsertOrRelease
<1>2. Park(j) \in JobRows
  BY DEF Park, JobRows, Availability, JobErrors
<1>3. ExpireLease(j) \in JobRows /\ Complete(j) \in JobRows /\ CompleteLate(j) \in JobRows
  BY DEF ExpireLease, Complete, CompleteLate, JobRows, JobStatuses, JobErrors
<1>4. Wake(j) \in JobRows
  BY DEF Wake, JobRows, Availability
<1>5. RequeueForFunds(j) \in JobRows
  <2>1. (IF j.attempts > 0 THEN j.attempts - 1 ELSE 0) \in 0..MaxAttempts
    BY DEF JobRows
  <2>2. QED
    BY <2>1 DEF RequeueForFunds, JobRows, JobStatuses, Availability, JobErrors
<1>6. ASSUME NEW code \in JobErrors
      PROVE  DeadLetter(j, code) \in JobRows /\ Requeue(j, code) \in JobRows
  BY DEF DeadLetter, Requeue, JobRows, JobStatuses, Availability
<1>7. ASSUME NEW t \in Tokens, Claimable(j)
      PROVE  Lease(j, t) \in JobRows
  <2>1. j.attempts + 1 \in 0..MaxAttempts
    BY <1>7 DEF Claimable, JobRows
  <2>2. QED
    BY <2>1 DEF Lease, JobRows, JobStatuses
<1>8. QED
  BY <1>1, <1>2, <1>3, <1>4, <1>5, <1>6, <1>7

-----------------------------------------------------------------------------
(* The initial states                                                       *)

LEMMA InitIInv == Init => IInv
<1> SUFFICES ASSUME Init PROVE IInv
  OBVIOUS
<1>1. TypeOK
  <2>1. wd \in [Withdrawals -> WithdrawalRows]
    BY DEF Init, WithdrawalRows, WithdrawalStatuses, WithdrawalErrors, JobErrors
  <2>2. job \in [Withdrawals -> JobRows]
    BY DEF Init, NoJob, Row, JobRows, JobStatuses, Availability, JobErrors
  <2>3. bot \in BotStates
    BY DEF Init, Idle, BotStates, Answers
  <2>4. line \in Seq(Withdrawals) /\ wallet \in [Users -> Nat] /\ received \in [Withdrawals -> Nat]
    BY DEF Init
  <2>5. QED
    BY <2>1, <2>2, <2>3, <2>4 DEF Init, TypeOK
<1>2. JobsAgree /\ BotAgrees /\ CommandsAgree /\ ResultsAgree
  BY DEF Init, JobsAgree, JobAgrees, NoJob, Row, BotAgrees, CommandsAgree, ResultsAgree
<1>3. MoneyAgrees /\ OneOpenPerPlayer
  BY DEF Init, MoneyAgrees, BookedOnlyWhatWasPaid, LedgerMatchesStatus, Returned,
         OneOpenPerPlayer, Open, OpenStatuses
<1>4. QED
  BY <1>1, <1>2, <1>3 DEF IInv

-----------------------------------------------------------------------------
(* A bot at work has a request and a lease token in hand.                   *)
LEMMA BusyBot ==
    ASSUME IInv, bot.phase # "idle"
    PROVE  bot.w \in Withdrawals /\ bot.token \in Tokens
  BY DEF IInv, TypeOK, BotStates, BotAgrees, Idle

-----------------------------------------------------------------------------
(* One lemma per action                                                     *)

LEMMA RequestKeeps ==
    ASSUME IInv, NEW w \in Withdrawals, NEW review \in BOOLEAN, RequestWithdrawal(w, review)
    PROVE  IInv'
<1>1. TypeOK'
  <2>1. wd' \in [Withdrawals -> WithdrawalRows]
    <3>1. wd[w] \in WithdrawalRows
      BY DEF IInv, TypeOK
    <3>2. [wd[w] EXCEPT !.status = IF review THEN "pending_approval" ELSE "queued"]
             \in WithdrawalRows
      BY <3>1 DEF WithdrawalRows, WithdrawalStatuses
    <3>3. QED
      BY <3>2 DEF IInv, TypeOK, RequestWithdrawal
  <2>2. job' \in [Withdrawals -> JobRows]
    <3>1. CASE review
      BY <3>1 DEF IInv, TypeOK, RequestWithdrawal
    <3>2. CASE ~review
      <4>1. job' = [job EXCEPT ![w] = InsertOrRelease(job[w])]
        BY <3>2 DEF RequestWithdrawal, QueueJob
      <4>2. job \in [Withdrawals -> JobRows]
        BY DEF IInv, TypeOK
      <4>3. InsertOrRelease(job[w]) \in JobRows
        BY <4>2, RowTypes
      <4>4. QED
        BY <4>1, <4>2, <4>3
    <3>3. QED
      BY <3>1, <3>2
  <2>3. bot' \in BotStates
    BY DEF IInv, TypeOK, RequestWithdrawal, gameVars, gatewayVars, BotStates, Idle,
           Answers
  <2>4. net' \subseteq Results
    BY DEF IInv, TypeOK, RequestWithdrawal, gameVars, gatewayVars, BotAgrees, BotStates,
           Results, JobErrors, Idle
  <2>5. wallet' \in [Users -> Nat] /\ line' \in Seq(Withdrawals) /\ funds' \in 0..MaxFunds
    <3>1. wallet[Owner[w]] - Amount[w] \in Nat
      BY DEF IInv, TypeOK, RequestWithdrawal
    <3>2. wallet' \in [Users -> Nat] /\ funds' \in 0..MaxFunds
      BY <3>1 DEF IInv, TypeOK, RequestWithdrawal, gameVars
    <3>3. CASE review
      BY <3>2, <3>3 DEF IInv, TypeOK, RequestWithdrawal
    <3>4. CASE ~review
      <4>1. line' = line \/ line' = Append(line, w)
        BY <3>4 DEF RequestWithdrawal, QueueJob
      <4>2. line \in Seq(Withdrawals)
        BY DEF IInv, TypeOK
      <4>3. Append(line, w) \in Seq(Withdrawals)
        BY <4>2
      <4>4. line' \in Seq(Withdrawals)
        BY <4>1, <4>2, <4>3
      <4>5. QED
        BY <3>2, <4>4
    <3>5. QED
      BY <3>3, <3>4
  <2>6. /\ inGame' \subseteq Withdrawals \X Tokens
        /\ ledger' \subseteq {"cash_withdrawal", "cash_withdrawal_refund"} \X Withdrawals
        /\ received' \in [Withdrawals -> Nat]
    BY DEF IInv, TypeOK, RequestWithdrawal, gameVars, gatewayVars, Debit, Refund,
           BotAgrees, BotStates, Results, Idle
  <2>7. /\ botRow' \in {"online", "offline", "quarantined"}
        /\ landed' \in BOOLEAN /\ booked' \subseteq Withdrawals
    BY DEF IInv, TypeOK, RequestWithdrawal, gameVars, gatewayVars, Results
  <2>8. QED
    BY <2>1, <2>2, <2>3, <2>4, <2>5, <2>6, <2>7 DEF TypeOK
<1>2. JobsAgree'
  <2>1. wd[w].status = "none" /\ JobAgrees(w)
    BY DEF IInv, JobsAgree, RequestWithdrawal
  <2>2. job[w].status = "none"
    BY <2>1 DEF JobAgrees
  <2>3. \A x \in Withdrawals \ {w} : job'[x] = job[x] /\ wd'[x] = wd[x]
    BY DEF IInv, TypeOK, RequestWithdrawal, QueueJob
  <2>4. \A x \in Withdrawals \ {w} : JobAgrees(x)'
    BY <2>3 DEF IInv, JobsAgree, JobAgrees
  <2>5. wd'[w].status = IF review THEN "pending_approval" ELSE "queued"
    BY DEF IInv, TypeOK, RequestWithdrawal, WithdrawalRows
  <2>6. job'[w] = IF review THEN job[w] ELSE NewJob
    BY <2>2 DEF IInv, TypeOK, RequestWithdrawal, QueueJob, InsertOrRelease
  <2>7. JobAgrees(w)'
    BY <2>2, <2>5, <2>6, MaxAttemptsAssumption DEF JobAgrees, NewJob, Row
  <2>8. QED
    BY <2>4, <2>7 DEF JobsAgree
<1>3. BotAgrees'
  BY DEF IInv, TypeOK, RequestWithdrawal, QueueJob, InsertOrRelease, NewJob, Row, Held,
         gameVars, gatewayVars, JobsAgree, JobAgrees, BotAgrees, CommandsAgree,
         ResultsAgree, OneOpenPerPlayer, Open, OpenStatuses, Clean, Settled, BotStates,
         Idle, WithdrawalRows, JobRows
<1>4. CommandsAgree'
  BY DEF IInv, TypeOK, RequestWithdrawal, QueueJob, InsertOrRelease, NewJob, Row, Held,
         gameVars, gatewayVars, JobsAgree, JobAgrees, BotAgrees, CommandsAgree,
         ResultsAgree, MoneyAgrees, Clean, Settled, BotStates, Idle, Results,
         WithdrawalRows, JobRows
<1>5. ResultsAgree'
  <2>1. \A m \in net : m.w # w
    BY DEF IInv, JobsAgree, JobAgrees, ResultsAgree, RequestWithdrawal
  <2>2. \A m \in net : m.w \in Withdrawals
    BY DEF IInv, TypeOK, Results
  <2>3. \A x \in Withdrawals \ {w} : job'[x] = job[x] /\ wd'[x] = wd[x]
    BY DEF IInv, TypeOK, RequestWithdrawal, QueueJob
  <2>4. \A m \in net : job'[m.w] = job[m.w] /\ wd'[m.w] = wd[m.w]
    BY <2>1, <2>2, <2>3
  <2>5. UNCHANGED <<bot, net, received, inGame>>
    BY DEF RequestWithdrawal, gameVars
  <2>6. QED
    BY <2>4, <2>5 DEF IInv, ResultsAgree, Clean, Settled
<1>6. MoneyAgrees'
  BY DEF IInv, TypeOK, RequestWithdrawal, gameVars, gatewayVars, JobsAgree, JobAgrees,
         BotAgrees, CommandsAgree, ResultsAgree, MoneyAgrees, BookedOnlyWhatWasPaid,
         LedgerMatchesStatus, Returned, Debit, Refund, Clean, Settled, Open,
         OpenStatuses, Results, WithdrawalRows
<1>7. OneOpenPerPlayer'
  BY DEF IInv, TypeOK, RequestWithdrawal, QueueJob, InsertOrRelease, NewJob, Row, Held,
         gameVars, gatewayVars, JobsAgree, JobAgrees, OneOpenPerPlayer, Open,
         OpenStatuses, Results, WithdrawalRows
<1>8. QED
  BY <1>1, <1>2, <1>3, <1>4, <1>5, <1>6, <1>7 DEF IInv

LEMMA ApproveKeeps ==
    ASSUME IInv, NEW w \in Withdrawals, Approve(w)
    PROVE  IInv'
<1>1. TypeOK'
  BY RowTypes DEF IInv, TypeOK, Approve, NoMoney, QueueJob, gameVars, gatewayVars,
         WithdrawalRows, WithdrawalStatuses, WithdrawalErrors, JobErrors
<1>2. JobsAgree'
  BY DEF IInv, TypeOK, Approve, NoMoney, QueueJob, InsertOrRelease, NewJob, Row, Held,
         gameVars, gatewayVars, JobsAgree, JobAgrees, BotAgrees, CommandsAgree,
         ResultsAgree, MoneyAgrees, WithdrawalRows, JobRows
<1>3. BotAgrees'
  BY DEF IInv, TypeOK, Approve, NoMoney, QueueJob, InsertOrRelease, NewJob, Row, Held,
         gameVars, gatewayVars, JobsAgree, JobAgrees, BotAgrees, CommandsAgree,
         ResultsAgree, OneOpenPerPlayer, Open, OpenStatuses, Clean, Settled, BotStates,
         Idle, WithdrawalRows, JobRows
<1>4. CommandsAgree'
  BY DEF IInv, TypeOK, Approve, NoMoney, QueueJob, InsertOrRelease, NewJob, Row, Held,
         gameVars, gatewayVars, JobsAgree, JobAgrees, BotAgrees, CommandsAgree,
         ResultsAgree, MoneyAgrees, Clean, Settled, BotStates, Idle, Results,
         WithdrawalRows, JobRows
<1>5. ResultsAgree'
  BY DEF IInv, TypeOK, Approve, NoMoney, QueueJob, InsertOrRelease, NewJob, Row, Held,
         gameVars, gatewayVars, JobsAgree, JobAgrees, BotAgrees, CommandsAgree,
         ResultsAgree, Clean, Settled, Results, BotStates, Idle, WithdrawalRows, JobRows
<1>6. MoneyAgrees'
  BY DEF IInv, TypeOK, Approve, NoMoney, gameVars, gatewayVars, JobsAgree, JobAgrees,
         BotAgrees, CommandsAgree, ResultsAgree, MoneyAgrees, BookedOnlyWhatWasPaid,
         LedgerMatchesStatus, Returned, Debit, Refund, Clean, Settled, Open,
         OpenStatuses, Results, WithdrawalRows
<1>7. OneOpenPerPlayer'
  BY DEF IInv, TypeOK, Approve, NoMoney, QueueJob, InsertOrRelease, NewJob, Row, Held,
         gameVars, gatewayVars, JobsAgree, JobAgrees, OneOpenPerPlayer, Open,
         OpenStatuses, Results, WithdrawalRows
<1>8. QED
  BY <1>1, <1>2, <1>3, <1>4, <1>5, <1>6, <1>7 DEF IInv

LEMMA RejectKeeps ==
    ASSUME IInv, NEW w \in Withdrawals, Reject(w)
    PROVE  IInv'
<1>1. TypeOK'
  <2>1. wd' \in [Withdrawals -> WithdrawalRows]
    BY DEF IInv, TypeOK, Reject, RefundTo, gameVars, gatewayVars, WithdrawalRows,
           WithdrawalStatuses, WithdrawalErrors, JobErrors, Results
  <2>2. job' \in [Withdrawals -> JobRows]
    <3>1. job[w] \in JobRows
      BY DEF IInv, TypeOK
    <3>2. [job[w] EXCEPT !.status = "failed", !.err = "REJECTED_BY_ADMIN"] \in JobRows
      BY <3>1 DEF JobRows, JobStatuses, JobErrors
    <3>3. QED
      BY <3>1, <3>2 DEF IInv, TypeOK, Reject
  <2>3. bot' \in BotStates
    BY DEF IInv, TypeOK, Reject, RefundTo, gameVars, gatewayVars, BotStates, Idle,
           Answers
  <2>4. net' \subseteq Results
    BY DEF IInv, TypeOK, Reject, RefundTo, gameVars, gatewayVars, BotAgrees, BotStates,
           Results, JobErrors, Idle
  <2>5. wallet' \in [Users -> Nat] /\ line' \in Seq(Withdrawals) /\ funds' \in 0..MaxFunds
    BY DEF IInv, TypeOK, Reject, RefundTo, gameVars, gatewayVars, QueueJob
  <2>6. /\ inGame' \subseteq Withdrawals \X Tokens
        /\ ledger' \subseteq {"cash_withdrawal", "cash_withdrawal_refund"} \X Withdrawals
        /\ received' \in [Withdrawals -> Nat]
    BY DEF IInv, TypeOK, Reject, RefundTo, gameVars, gatewayVars, Debit, Refund,
           BotAgrees, BotStates, Results, Idle
  <2>7. /\ botRow' \in {"online", "offline", "quarantined"}
        /\ landed' \in BOOLEAN /\ booked' \subseteq Withdrawals
    BY DEF IInv, TypeOK, Reject, RefundTo, gameVars, gatewayVars, Results
  <2>8. QED
    BY <2>1, <2>2, <2>3, <2>4, <2>5, <2>6, <2>7 DEF TypeOK
<1>2. JobsAgree'
  BY DEF IInv, TypeOK, Reject, RefundTo, gameVars, gatewayVars, JobsAgree, JobAgrees,
         BotAgrees, CommandsAgree, ResultsAgree, MoneyAgrees, WithdrawalRows, JobRows
<1>3. BotAgrees'
  BY DEF IInv, TypeOK, Reject, RefundTo, gameVars, gatewayVars, JobsAgree, JobAgrees,
         BotAgrees, CommandsAgree, ResultsAgree, OneOpenPerPlayer, Open, OpenStatuses,
         Clean, Settled, BotStates, Idle, WithdrawalRows, JobRows
<1>4. CommandsAgree'
  BY DEF IInv, TypeOK, Reject, RefundTo, gameVars, gatewayVars, JobsAgree, JobAgrees,
         BotAgrees, CommandsAgree, ResultsAgree, MoneyAgrees, Clean, Settled, BotStates,
         Idle, Results, WithdrawalRows, JobRows
<1>5. ResultsAgree'
  BY DEF IInv, TypeOK, Reject, RefundTo, gameVars, gatewayVars, JobsAgree, JobAgrees,
         BotAgrees, CommandsAgree, ResultsAgree, Clean, Settled, Results, BotStates,
         Idle, WithdrawalRows, JobRows
<1>6. MoneyAgrees'
  BY DEF IInv, TypeOK, Reject, RefundTo, gameVars, gatewayVars, JobsAgree, JobAgrees,
         BotAgrees, CommandsAgree, ResultsAgree, MoneyAgrees, BookedOnlyWhatWasPaid,
         LedgerMatchesStatus, Returned, Debit, Refund, Clean, Settled, Open,
         OpenStatuses, Results, WithdrawalRows
<1>7. OneOpenPerPlayer'
  BY DEF IInv, TypeOK, Reject, RefundTo, gameVars, gatewayVars, JobsAgree, JobAgrees,
         OneOpenPerPlayer, Open, OpenStatuses, Results, WithdrawalRows
<1>8. QED
  BY <1>1, <1>2, <1>3, <1>4, <1>5, <1>6, <1>7 DEF IInv

LEMMA HoldKeeps ==
    ASSUME IInv, NEW S \in SUBSET Withdrawals, HoldQueued(S)
    PROVE  IInv'
<1>1. TypeOK'
  BY RowTypes DEF IInv, TypeOK, HoldQueued, Holdable, NoMoney, gameVars, gatewayVars,
         WithdrawalRows, WithdrawalStatuses, WithdrawalErrors, JobErrors
<1>2. JobsAgree'
  <2> SUFFICES ASSUME NEW x \in Withdrawals PROVE JobAgrees(x)'
    BY DEF JobsAgree
  <2>1. JobAgrees(x) /\ job[x] \in JobRows /\ wd[x] \in WithdrawalRows
    BY DEF IInv, JobsAgree, TypeOK
  <2>2. CASE x \in S /\ Holdable(x)
    <3>1. job'[x] = Park(job[x]) /\ wd'[x] = [wd[x] EXCEPT !.status = "pending_approval"]
      BY <2>2 DEF HoldQueued
    <3>2. QED
      BY <2>1, <2>2, <3>1 DEF JobAgrees, Holdable, Park, JobRows, WithdrawalRows
  <2>3. CASE ~(x \in S /\ Holdable(x))
    <3>1. job'[x] = job[x] /\ wd'[x] = wd[x]
      BY <2>3 DEF HoldQueued
    <3>2. QED
      BY <2>1, <3>1 DEF JobAgrees
  <2>4. QED
    BY <2>2, <2>3
<1>3. BotAgrees'
  BY DEF IInv, TypeOK, HoldQueued, Holdable, NoMoney, Park, gameVars, gatewayVars,
         JobsAgree, JobAgrees, BotAgrees, CommandsAgree, ResultsAgree, OneOpenPerPlayer,
         Open, OpenStatuses, Clean, Settled, BotStates, Idle, WithdrawalRows, JobRows
<1>4. CommandsAgree'
  <2>1. \A x \in Withdrawals : wd[x].status # "queued" => wd'[x] = wd[x]
    BY DEF HoldQueued, Holdable
  <2>2. UNCHANGED <<received, inGame>>
    BY DEF HoldQueued, gameVars
  <2>3. QED
    BY <2>1, <2>2 DEF IInv, CommandsAgree
<1>5. ResultsAgree'
  BY DEF IInv, TypeOK, HoldQueued, Holdable, NoMoney, Park, gameVars, gatewayVars,
         JobsAgree, JobAgrees, BotAgrees, CommandsAgree, ResultsAgree, Clean, Settled,
         Results, BotStates, Idle, WithdrawalRows, JobRows
<1>6. MoneyAgrees'
  BY DEF IInv, TypeOK, HoldQueued, Holdable, NoMoney, gameVars, gatewayVars, JobsAgree,
         JobAgrees, BotAgrees, CommandsAgree, ResultsAgree, MoneyAgrees,
         BookedOnlyWhatWasPaid, LedgerMatchesStatus, Returned, Debit, Refund, Clean,
         Settled, Open, OpenStatuses, Results, WithdrawalRows
<1>7. OneOpenPerPlayer'
  BY DEF IInv, TypeOK, HoldQueued, Holdable, NoMoney, Park, gameVars, gatewayVars,
         JobsAgree, JobAgrees, OneOpenPerPlayer, Open, OpenStatuses, Results,
         WithdrawalRows
<1>8. QED
  BY <1>1, <1>2, <1>3, <1>4, <1>5, <1>6, <1>7 DEF IInv

LEMMA ResolvePaidKeeps ==
    ASSUME IInv, NEW w \in Withdrawals, ResolvePaid(w)
    PROVE  IInv'
<1>1. TypeOK'
  BY RowTypes DEF IInv, TypeOK, ResolvePaid, Settled, RetireDead, NoMoney, gameVars,
         gatewayVars, WithdrawalRows, WithdrawalStatuses, WithdrawalErrors, JobErrors
<1>2. JobsAgree'
  BY DEF IInv, TypeOK, ResolvePaid, Settled, RetireDead, NoMoney, Complete, gameVars,
         gatewayVars, JobsAgree, JobAgrees, BotAgrees, CommandsAgree, ResultsAgree,
         MoneyAgrees, WithdrawalRows, JobRows
<1>3. BotAgrees'
  BY DEF IInv, TypeOK, ResolvePaid, Settled, RetireDead, NoMoney, Complete, gameVars,
         gatewayVars, JobsAgree, JobAgrees, BotAgrees, CommandsAgree, ResultsAgree,
         OneOpenPerPlayer, Open, OpenStatuses, Clean, BotStates, Idle, WithdrawalRows,
         JobRows
<1>4. CommandsAgree'
  BY DEF IInv, TypeOK, ResolvePaid, Settled, RetireDead, NoMoney, Complete, gameVars,
         gatewayVars, JobsAgree, JobAgrees, BotAgrees, CommandsAgree, ResultsAgree,
         MoneyAgrees, Clean, BotStates, Idle, Results, WithdrawalRows, JobRows
<1>5. ResultsAgree'
  BY DEF IInv, TypeOK, ResolvePaid, Settled, RetireDead, NoMoney, Complete, gameVars,
         gatewayVars, JobsAgree, JobAgrees, BotAgrees, CommandsAgree, ResultsAgree,
         Clean, Results, BotStates, Idle, WithdrawalRows, JobRows
<1>6. MoneyAgrees'
  BY DEF IInv, TypeOK, ResolvePaid, Settled, RetireDead, NoMoney, gameVars, gatewayVars,
         JobsAgree, JobAgrees, BotAgrees, CommandsAgree, ResultsAgree, MoneyAgrees,
         BookedOnlyWhatWasPaid, LedgerMatchesStatus, Returned, Debit, Refund, Clean,
         Open, OpenStatuses, Results, WithdrawalRows
<1>7. OneOpenPerPlayer'
  BY DEF IInv, TypeOK, ResolvePaid, Settled, RetireDead, NoMoney, Complete, gameVars,
         gatewayVars, JobsAgree, JobAgrees, OneOpenPerPlayer, Open, OpenStatuses,
         Results, WithdrawalRows
<1>8. QED
  BY <1>1, <1>2, <1>3, <1>4, <1>5, <1>6, <1>7 DEF IInv

LEMMA ResolveNotPaidKeeps ==
    ASSUME IInv, NEW w \in Withdrawals, ResolveNotPaid(w)
    PROVE  IInv'
<1>1. TypeOK'
  BY RowTypes DEF IInv, TypeOK, ResolveNotPaid, Settled, RetireDead, RefundTo, Refund,
         gameVars, gatewayVars, WithdrawalRows, WithdrawalStatuses, WithdrawalErrors,
         JobErrors
<1>2. JobsAgree'
  BY DEF IInv, TypeOK, ResolveNotPaid, Settled, RetireDead, RefundTo, Complete,
         gameVars, gatewayVars, JobsAgree, JobAgrees, BotAgrees, CommandsAgree,
         ResultsAgree, MoneyAgrees, WithdrawalRows, JobRows
<1>3. BotAgrees'
  BY DEF IInv, TypeOK, ResolveNotPaid, Settled, RetireDead, RefundTo, Complete,
         gameVars, gatewayVars, JobsAgree, JobAgrees, BotAgrees, CommandsAgree,
         ResultsAgree, OneOpenPerPlayer, Open, OpenStatuses, Clean, BotStates, Idle,
         WithdrawalRows, JobRows
<1>4. CommandsAgree'
  BY DEF IInv, TypeOK, ResolveNotPaid, Settled, RetireDead, RefundTo, Complete,
         gameVars, gatewayVars, JobsAgree, JobAgrees, BotAgrees, CommandsAgree,
         ResultsAgree, MoneyAgrees, Clean, BotStates, Idle, Results, WithdrawalRows,
         JobRows
<1>5. ResultsAgree'
  BY DEF IInv, TypeOK, ResolveNotPaid, Settled, RetireDead, RefundTo, Complete,
         gameVars, gatewayVars, JobsAgree, JobAgrees, BotAgrees, CommandsAgree,
         ResultsAgree, Clean, Results, BotStates, Idle, WithdrawalRows, JobRows
<1>6. MoneyAgrees'
  BY DEF IInv, TypeOK, ResolveNotPaid, Settled, RetireDead, RefundTo, gameVars,
         gatewayVars, JobsAgree, JobAgrees, BotAgrees, CommandsAgree, ResultsAgree,
         MoneyAgrees, BookedOnlyWhatWasPaid, LedgerMatchesStatus, Returned, Debit,
         Refund, Clean, Open, OpenStatuses, Results, WithdrawalRows
<1>7. OneOpenPerPlayer'
  BY DEF IInv, TypeOK, ResolveNotPaid, Settled, RetireDead, RefundTo, Complete,
         gameVars, gatewayVars, JobsAgree, JobAgrees, OneOpenPerPlayer, Open,
         OpenStatuses, Results, WithdrawalRows
<1>8. QED
  BY <1>1, <1>2, <1>3, <1>4, <1>5, <1>6, <1>7 DEF IInv

LEMMA AutoSettlePaidKeeps ==
    ASSUME IInv, NEW w \in Withdrawals, AutoSettlePaid(w)
    PROVE  IInv'
<1>1. TypeOK'
  BY RowTypes DEF IInv, TypeOK, AutoSettlePaid, Settled, RetireDead, NoMoney, gameVars,
         gatewayVars, WithdrawalRows, WithdrawalStatuses, WithdrawalErrors, JobErrors
<1>2. JobsAgree'
  BY DEF IInv, TypeOK, AutoSettlePaid, Settled, RetireDead, NoMoney, Complete, gameVars,
         gatewayVars, JobsAgree, JobAgrees, BotAgrees, CommandsAgree, ResultsAgree,
         MoneyAgrees, WithdrawalRows, JobRows
<1>3. BotAgrees'
  BY DEF IInv, TypeOK, AutoSettlePaid, Settled, RetireDead, NoMoney, Complete, gameVars,
         gatewayVars, JobsAgree, JobAgrees, BotAgrees, CommandsAgree, ResultsAgree,
         OneOpenPerPlayer, Open, OpenStatuses, Clean, BotStates, Idle, WithdrawalRows,
         JobRows
<1>4. CommandsAgree'
  BY DEF IInv, TypeOK, AutoSettlePaid, Settled, RetireDead, NoMoney, Complete, gameVars,
         gatewayVars, JobsAgree, JobAgrees, BotAgrees, CommandsAgree, ResultsAgree,
         MoneyAgrees, Clean, BotStates, Idle, Results, WithdrawalRows, JobRows
<1>5. ResultsAgree'
  BY DEF IInv, TypeOK, AutoSettlePaid, Settled, RetireDead, NoMoney, Complete, gameVars,
         gatewayVars, JobsAgree, JobAgrees, BotAgrees, CommandsAgree, ResultsAgree,
         Clean, Results, BotStates, Idle, WithdrawalRows, JobRows
<1>6. MoneyAgrees'
  BY DEF IInv, TypeOK, AutoSettlePaid, Settled, RetireDead, NoMoney, gameVars,
         gatewayVars, JobsAgree, JobAgrees, BotAgrees, CommandsAgree, ResultsAgree,
         MoneyAgrees, BookedOnlyWhatWasPaid, LedgerMatchesStatus, Returned, Debit,
         Refund, Clean, Open, OpenStatuses, Results, WithdrawalRows
<1>7. OneOpenPerPlayer'
  BY DEF IInv, TypeOK, AutoSettlePaid, Settled, RetireDead, NoMoney, Complete, gameVars,
         gatewayVars, JobsAgree, JobAgrees, OneOpenPerPlayer, Open, OpenStatuses,
         Results, WithdrawalRows
<1>8. QED
  BY <1>1, <1>2, <1>3, <1>4, <1>5, <1>6, <1>7 DEF IInv

LEMMA AutoSettleNotPaidKeeps ==
    ASSUME IInv, NEW w \in Withdrawals, AutoSettleNotPaid(w)
    PROVE  IInv'
<1>1. TypeOK'
  BY RowTypes DEF IInv, TypeOK, AutoSettleNotPaid, Settled, RetireDead, RefundTo,
         Refund, gameVars, gatewayVars, WithdrawalRows, WithdrawalStatuses,
         WithdrawalErrors, JobErrors
<1>2. JobsAgree'
  BY DEF IInv, TypeOK, AutoSettleNotPaid, Settled, RetireDead, RefundTo, Complete,
         gameVars, gatewayVars, JobsAgree, JobAgrees, BotAgrees, CommandsAgree,
         ResultsAgree, MoneyAgrees, WithdrawalRows, JobRows
<1>3. BotAgrees'
  BY DEF IInv, TypeOK, AutoSettleNotPaid, Settled, RetireDead, RefundTo, Complete,
         gameVars, gatewayVars, JobsAgree, JobAgrees, BotAgrees, CommandsAgree,
         ResultsAgree, OneOpenPerPlayer, Open, OpenStatuses, Clean, BotStates, Idle,
         WithdrawalRows, JobRows
<1>4. CommandsAgree'
  BY DEF IInv, TypeOK, AutoSettleNotPaid, Settled, RetireDead, RefundTo, Complete,
         gameVars, gatewayVars, JobsAgree, JobAgrees, BotAgrees, CommandsAgree,
         ResultsAgree, MoneyAgrees, Clean, BotStates, Idle, Results, WithdrawalRows,
         JobRows
<1>5. ResultsAgree'
  BY DEF IInv, TypeOK, AutoSettleNotPaid, Settled, RetireDead, RefundTo, Complete,
         gameVars, gatewayVars, JobsAgree, JobAgrees, BotAgrees, CommandsAgree,
         ResultsAgree, Clean, Results, BotStates, Idle, WithdrawalRows, JobRows
<1>6. MoneyAgrees'
  BY DEF IInv, TypeOK, AutoSettleNotPaid, Settled, RetireDead, RefundTo, gameVars,
         gatewayVars, JobsAgree, JobAgrees, BotAgrees, CommandsAgree, ResultsAgree,
         MoneyAgrees, BookedOnlyWhatWasPaid, LedgerMatchesStatus, Returned, Debit,
         Refund, Clean, Open, OpenStatuses, Results, WithdrawalRows
<1>7. OneOpenPerPlayer'
  BY DEF IInv, TypeOK, AutoSettleNotPaid, Settled, RetireDead, RefundTo, Complete,
         gameVars, gatewayVars, JobsAgree, JobAgrees, OneOpenPerPlayer, Open,
         OpenStatuses, Results, WithdrawalRows
<1>8. QED
  BY <1>1, <1>2, <1>3, <1>4, <1>5, <1>6, <1>7 DEF IInv

LEMMA QuarantineKeeps ==
    ASSUME IInv, OperatorQuarantine
    PROVE  IInv'
<1>a. UNCHANGED <<wd, bot, net, received, inGame>>
  BY DEF OperatorQuarantine, gameVars
<1>b. \A x \in Withdrawals :
         job'[x] = IF job[x].status \in {"queued", "leased"}
                   THEN DeadLetter(job[x], "BOT_QUARANTINED") ELSE job[x]
  BY DEF OperatorQuarantine
<1>1. TypeOK'
  BY RowTypes DEF IInv, TypeOK, OperatorQuarantine, NoMoney, gameVars, gatewayVars,
         WithdrawalRows, WithdrawalStatuses, WithdrawalErrors, JobErrors
<1>2. JobsAgree'
  <2> SUFFICES ASSUME NEW x \in Withdrawals PROVE JobAgrees(x)'
    BY DEF JobsAgree
  <2>1. JobAgrees(x) /\ job[x] \in JobRows
    BY DEF IInv, JobsAgree, TypeOK
  <2>2. CASE job[x].status \in {"queued", "leased"}
    <3>1. job'[x] = DeadLetter(job[x], "BOT_QUARANTINED")
      BY <1>b, <2>2
    <3>2. QED
      BY <1>a, <2>1, <2>2, <3>1 DEF JobAgrees, DeadLetter, JobRows
  <2>3. CASE job[x].status \notin {"queued", "leased"}
    <3>1. job'[x] = job[x]
      BY <1>b, <2>3
    <3>2. QED
      BY <1>a, <2>1, <3>1 DEF JobAgrees
  <2>4. QED
    BY <2>2, <2>3
<1>3. BotAgrees'
  <2>1. ASSUME NEW x \in Withdrawals
        PROVE  \/ job'[x] = job[x]
               \/ job[x].status \in {"queued", "leased"} /\ job'[x].status = "dead_letter"
    <3>1. job[x] \in JobRows
      BY DEF IInv, TypeOK
    <3>2. DeadLetter(job[x], "BOT_QUARANTINED").status = "dead_letter"
      BY <3>1 DEF DeadLetter, JobRows
    <3>3. QED
      BY <1>b, <3>2
  <2>2. bot.phase # "idle" => bot.w \in Withdrawals
    BY BusyBot
  <2>3. QED
    BY <1>a, <2>1, <2>2 DEF IInv, BotAgrees, Clean, Settled, Idle
<1>4. CommandsAgree'
  BY <1>a DEF IInv, CommandsAgree
<1>5. ResultsAgree'
  <2>1. ASSUME NEW x \in Withdrawals
        PROVE  \/ job'[x] = job[x]
               \/ job[x].status \in {"queued", "leased"} /\ job'[x].status = "dead_letter"
    <3>1. job[x] \in JobRows
      BY DEF IInv, TypeOK
    <3>2. DeadLetter(job[x], "BOT_QUARANTINED").status = "dead_letter"
      BY <3>1 DEF DeadLetter, JobRows
    <3>3. QED
      BY <1>b, <3>2
  <2>2. \A m \in net : m.w \in Withdrawals
    BY DEF IInv, TypeOK, Results
  <2>3. \A x \in Withdrawals : job[x].status = "leased" => wd[x].status = "processing"
    BY DEF IInv, JobsAgree, JobAgrees
  <2>4. QED
    BY <1>a, <2>1, <2>2, <2>3 DEF IInv, ResultsAgree, Clean, Settled
<1>6. MoneyAgrees'
  BY DEF IInv, TypeOK, OperatorQuarantine, NoMoney, gameVars, gatewayVars, JobsAgree,
         JobAgrees, BotAgrees, CommandsAgree, ResultsAgree, MoneyAgrees,
         BookedOnlyWhatWasPaid, LedgerMatchesStatus, Returned, Debit, Refund, Clean,
         Settled, Open, OpenStatuses, Results, WithdrawalRows
<1>7. OneOpenPerPlayer'
  BY DEF IInv, TypeOK, OperatorQuarantine, NoMoney, DeadLetter, gameVars, gatewayVars,
         JobsAgree, JobAgrees, OneOpenPerPlayer, Open, OpenStatuses, Results,
         WithdrawalRows
<1>8. QED
  BY <1>1, <1>2, <1>3, <1>4, <1>5, <1>6, <1>7 DEF IInv

(* Expiring the leases that have run out sends each request that was in     *)
(* progress behind one to review, and touches nothing else.                 *)
LEMMA Sweep ==
    ASSUME IInv
    PROVE  /\ JobsSwept \in [Withdrawals -> JobRows]
           /\ WdSwept \in [Withdrawals -> WithdrawalRows]
           /\ \A x \in Withdrawals :
                 \/ JobsSwept[x] = job[x] /\ WdSwept[x] = wd[x]
                 \/ /\ job[x].status = "leased" /\ wd[x].status = "processing"
                    /\ JobsSwept[x] = ExpireLease(job[x])
                    /\ WdSwept[x] = [status |-> "manual_review", err |-> "LEASE_EXPIRED"]
<1>1. \A x \in Withdrawals : job[x] \in JobRows /\ wd[x] \in WithdrawalRows
  BY DEF IInv, TypeOK
<1>2. JobsSwept \in [Withdrawals -> JobRows]
  BY <1>1, RowTypes DEF JobsSwept
<1>3. WdSwept \in [Withdrawals -> WithdrawalRows]
  BY <1>1 DEF WdSwept, WithdrawalRows, WithdrawalStatuses, WithdrawalErrors, JobErrors
<1>4. ASSUME NEW x \in Withdrawals
      PROVE  \/ JobsSwept[x] = job[x] /\ WdSwept[x] = wd[x]
             \/ /\ job[x].status = "leased" /\ wd[x].status = "processing"
                /\ JobsSwept[x] = ExpireLease(job[x])
                /\ WdSwept[x] = [status |-> "manual_review", err |-> "LEASE_EXPIRED"]
  <2>1. CASE x \notin RanOut
    BY <2>1 DEF JobsSwept, WdSwept
  <2>2. CASE x \in RanOut
    <3>1. job[x].status = "leased" /\ wd[x].status = "processing"
      BY <2>2 DEF RanOut, LeaseRanOut, IInv, JobsAgree, JobAgrees
    <3>2. QED
      BY <2>2, <3>1 DEF JobsSwept, WdSwept
  <2>3. QED
    BY <2>1, <2>2
<1>5. QED
  BY <1>2, <1>3, <1>4

LEMMA ClaimNothingKeeps ==
    ASSUME IInv, ClaimNothing
    PROVE  IInv'
<1>a. job' = JobsSwept /\ wd' = WdSwept /\ UNCHANGED <<bot, net, received, inGame>>
  BY DEF ClaimNothing, gameVars
<1>b. bot.w = None
  BY DEF IInv, BotAgrees, Idle, ClaimNothing
<1>1. TypeOK'
  BY RowTypes DEF IInv, TypeOK, ClaimNothing, JobsSwept, WdSwept, RanOut, LeaseRanOut,
         NoMoney, gameVars, gatewayVars, WithdrawalRows, WithdrawalStatuses,
         WithdrawalErrors, JobErrors
<1>2. JobsAgree'
  <2> SUFFICES ASSUME NEW x \in Withdrawals PROVE JobAgrees(x)'
    BY DEF JobsAgree
  <2>1. JobAgrees(x) /\ job[x] \in JobRows
    BY DEF IInv, JobsAgree, TypeOK
  <2>2. CASE job'[x] = job[x] /\ wd'[x] = wd[x]
    BY <2>1, <2>2 DEF JobAgrees
  <2>3. CASE /\ job'[x] = ExpireLease(job[x])
             /\ wd'[x] = [status |-> "manual_review", err |-> "LEASE_EXPIRED"]
    BY <2>1, <2>3 DEF JobAgrees, ExpireLease, JobRows
  <2>4. QED
    BY <1>a, <2>2, <2>3, Sweep
<1>3. BotAgrees'
  BY DEF IInv, TypeOK, ClaimNothing, JobsSwept, WdSwept, RanOut, LeaseRanOut, NoMoney,
         ExpireLease, gameVars, gatewayVars, JobsAgree, JobAgrees, BotAgrees,
         CommandsAgree, ResultsAgree, OneOpenPerPlayer, Open, OpenStatuses, Clean,
         Settled, BotStates, Idle, WithdrawalRows, JobRows
<1>4. CommandsAgree'
  <2>1. ASSUME NEW x \in Withdrawals
        PROVE  wd'[x] = wd[x] \/ (wd[x].status = "processing" /\ wd'[x].status = "manual_review")
    <3>1. CASE wd'[x] = [status |-> "manual_review", err |-> "LEASE_EXPIRED"]
               /\ wd[x].status = "processing"
      BY <3>1
    <3>2. CASE wd'[x] = wd[x]
      BY <3>2
    <3>3. QED
      BY <1>a, <3>1, <3>2, Sweep
  <2>2. QED
    BY <1>a, <2>1 DEF IInv, CommandsAgree
<1>5. ResultsAgree'
  <2>1. \A x \in Withdrawals :
           \/ job'[x] = job[x] /\ wd'[x] = wd[x]
           \/ job'[x].status = "dead_letter" /\ wd'[x].status = "manual_review"
    <3> SUFFICES ASSUME NEW x \in Withdrawals
                 PROVE  \/ job'[x] = job[x] /\ wd'[x] = wd[x]
                        \/ job'[x].status = "dead_letter" /\ wd'[x].status = "manual_review"
      OBVIOUS
    <3>1. CASE /\ JobsSwept[x] = ExpireLease(job[x])
               /\ WdSwept[x] = [status |-> "manual_review", err |-> "LEASE_EXPIRED"]
      BY <1>a, <3>1 DEF IInv, TypeOK, ExpireLease, JobRows
    <3>2. QED
      BY <1>a, <3>1, Sweep
  <2>2. \A m \in net : m.w \in Withdrawals
    BY DEF IInv, TypeOK, Results
  <2>3. QED
    BY <1>a, <2>1, <2>2 DEF IInv, ResultsAgree, Clean, Settled
<1>6. MoneyAgrees'
  BY DEF IInv, TypeOK, ClaimNothing, JobsSwept, WdSwept, RanOut, LeaseRanOut, NoMoney,
         gameVars, gatewayVars, JobsAgree, JobAgrees, BotAgrees, CommandsAgree,
         ResultsAgree, MoneyAgrees, BookedOnlyWhatWasPaid, LedgerMatchesStatus,
         Returned, Debit, Refund, Clean, Settled, Open, OpenStatuses, Results,
         WithdrawalRows
<1>7. OneOpenPerPlayer'
  BY DEF IInv, TypeOK, ClaimNothing, JobsSwept, WdSwept, RanOut, LeaseRanOut, NoMoney,
         ExpireLease, gameVars, gatewayVars, JobsAgree, JobAgrees, OneOpenPerPlayer,
         Open, OpenStatuses, Results, WithdrawalRows
<1>8. QED
  BY <1>1, <1>2, <1>3, <1>4, <1>5, <1>6, <1>7 DEF IInv

LEMMA ClaimKeeps ==
    ASSUME IInv, NEW w \in Withdrawals, NEW t \in Tokens, NEW delivered \in BOOLEAN, Claim(w, t, delivered)
    PROVE  IInv'
<1>a. UNCHANGED <<net, received, inGame, booked, wallet, ledger>>
  BY DEF Claim, NoMoney, gameVars
<1>b. /\ job[w].status = "queued" /\ wd[w].status = "queued" /\ Claimable(job[w])
      /\ job[w] \in JobRows /\ wd[w] \in WithdrawalRows
  BY DEF IInv, TypeOK, JobsAgree, JobAgrees, Claim, MayHandOut, Claimable
<1>c. w \notin RanOut
  BY <1>b DEF RanOut, LeaseRanOut
<1>d. job' = [JobsSwept EXCEPT ![w] = Lease(job[w], t)]
  BY <1>c DEF Claim, JobsSwept
<1>e. wd' = [WdSwept EXCEPT ![w] = [wd[w] EXCEPT !.status = "processing"]]
  BY <1>b, <1>c DEF Claim, WdSwept
<1>f. job'[w] = Lease(job[w], t) /\ wd'[w] = [wd[w] EXCEPT !.status = "processing"]
  BY <1>d, <1>e, Sweep
<1>g. \A x \in Withdrawals \ {w} :
         \/ job'[x] = job[x] /\ wd'[x] = wd[x]
         \/ /\ job[x].status = "leased" /\ wd[x].status = "processing"
            /\ job'[x] = ExpireLease(job[x])
            /\ wd'[x] = [status |-> "manual_review", err |-> "LEASE_EXPIRED"]
  BY <1>d, <1>e, Sweep
<1>h. Clean(w) /\ \A m \in net : m.w # w
  <2>1. \A m \in net : m.w # w
    BY <1>b DEF IInv, ResultsAgree
  <2>2. Settled(w)
    BY <1>b DEF IInv, CommandsAgree, Settled
  <2>3. received[w] \in Nat /\ received[w] <= 1 /\ received[w] # 1
    BY <1>b DEF IInv, TypeOK, MoneyAgrees
  <2>4. QED
    BY <2>1, <2>2, <2>3 DEF Clean
<1>i. bot = Idle
  BY DEF IInv, BotAgrees, Claim
<1>j. job'[w].status = "leased" /\ job'[w].token = t /\ wd'[w].status = "processing"
  BY <1>b, <1>f DEF Lease, JobRows, WithdrawalRows
<1>1. TypeOK'
  <2>1. wd' \in [Withdrawals -> WithdrawalRows]
    <3>1. [wd[w] EXCEPT !.status = "processing"] \in WithdrawalRows
      BY <1>b DEF WithdrawalRows, WithdrawalStatuses
    <3>2. QED
      BY <1>e, <3>1, Sweep
  <2>2. job' \in [Withdrawals -> JobRows]
    <3>1. Lease(job[w], t) \in JobRows
      BY <1>b, RowTypes
    <3>2. QED
      BY <1>d, <3>1, Sweep
  <2>3. bot' \in BotStates
    BY DEF IInv, TypeOK, Claim, MayHandOut, JobsSwept, WdSwept, RanOut, LeaseRanOut,
           NoMoney, gameVars, gatewayVars, BotStates, Idle, Answers
  <2>4. net' \subseteq Results
    BY DEF IInv, TypeOK, Claim, MayHandOut, JobsSwept, WdSwept, RanOut, LeaseRanOut,
           NoMoney, gameVars, gatewayVars, BotAgrees, BotStates, Results, JobErrors,
           Idle
  <2>5. wallet' \in [Users -> Nat] /\ line' \in Seq(Withdrawals) /\ funds' \in 0..MaxFunds
    BY DEF IInv, TypeOK, Claim, MayHandOut, JobsSwept, WdSwept, RanOut, LeaseRanOut,
           NoMoney, gameVars, gatewayVars, QueueJob
  <2>6. /\ inGame' \subseteq Withdrawals \X Tokens
        /\ ledger' \subseteq {"cash_withdrawal", "cash_withdrawal_refund"} \X Withdrawals
        /\ received' \in [Withdrawals -> Nat]
    BY DEF IInv, TypeOK, Claim, MayHandOut, JobsSwept, WdSwept, RanOut, LeaseRanOut,
           NoMoney, gameVars, gatewayVars, Debit, Refund, BotAgrees, BotStates, Results,
           Idle
  <2>7. /\ botRow' \in {"online", "offline", "quarantined"}
        /\ landed' \in BOOLEAN /\ booked' \subseteq Withdrawals
    BY DEF IInv, TypeOK, Claim, MayHandOut, JobsSwept, WdSwept, RanOut, LeaseRanOut,
           NoMoney, gameVars, gatewayVars, Results
  <2>8. QED
    BY <2>1, <2>2, <2>3, <2>4, <2>5, <2>6, <2>7 DEF TypeOK
<1>2. JobsAgree'
  <2>1. JobAgrees(w)'
    BY <1>j DEF JobAgrees
  <2>2. ASSUME NEW x \in Withdrawals \ {w} PROVE JobAgrees(x)'
    <3>1. JobAgrees(x) /\ job[x] \in JobRows
      BY DEF IInv, JobsAgree, TypeOK
    <3>2. CASE job'[x] = job[x] /\ wd'[x] = wd[x]
      BY <3>1, <3>2 DEF JobAgrees
    <3>3. CASE /\ job'[x] = ExpireLease(job[x])
               /\ wd'[x] = [status |-> "manual_review", err |-> "LEASE_EXPIRED"]
      BY <3>1, <3>3 DEF JobAgrees, ExpireLease, JobRows
    <3>4. QED
      BY <1>g, <3>2, <3>3
  <2>3. QED
    BY <2>1, <2>2 DEF JobsAgree
<1>3. BotAgrees'
  <2>1. CASE delivered
    <3>1. bot' = [phase |-> "claimed", w |-> w, token |-> t, heard |-> "nothing"]
      BY <2>1 DEF Claim
    <3>2. w # None /\ t # None
      OBVIOUS
    <3>3. Clean(w)'
      BY <1>a, <1>h DEF Clean, Settled
    <3>4. QED
      BY <1>j, <3>1, <3>2, <3>3 DEF BotAgrees, Clean, Settled
  <2>2. CASE ~delivered
    BY <1>i, <2>2 DEF Claim, BotAgrees, Idle
  <2>3. QED
    BY <2>1, <2>2
<1>4. CommandsAgree'
  <2>1. ASSUME NEW x \in Withdrawals \ {w}
        PROVE  wd'[x] = wd[x] \/ (wd[x].status = "processing" /\ wd'[x].status = "manual_review")
    <3>1. CASE wd'[x] = [status |-> "manual_review", err |-> "LEASE_EXPIRED"]
               /\ wd[x].status = "processing"
      BY <3>1
    <3>2. CASE wd'[x] = wd[x]
      BY <3>2
    <3>3. QED
      BY <1>g, <3>1, <3>2
  <2>2. QED
    BY <1>a, <1>h, <2>1 DEF IInv, CommandsAgree, Clean, Settled
<1>5. ResultsAgree'
  <2>1. \A x \in Withdrawals \ {w} :
           \/ job'[x] = job[x] /\ wd'[x] = wd[x]
           \/ job'[x].status = "dead_letter" /\ wd'[x].status = "manual_review"
    <3> SUFFICES ASSUME NEW x \in Withdrawals \ {w}
                 PROVE  \/ job'[x] = job[x] /\ wd'[x] = wd[x]
                        \/ job'[x].status = "dead_letter" /\ wd'[x].status = "manual_review"
      OBVIOUS
    <3>1. CASE /\ job'[x] = ExpireLease(job[x])
               /\ wd'[x] = [status |-> "manual_review", err |-> "LEASE_EXPIRED"]
      BY <3>1 DEF IInv, TypeOK, ExpireLease, JobRows
    <3>2. QED
      BY <1>g, <3>1
  <2>2. \A m \in net : m.w \in Withdrawals \ {w}
    BY <1>h DEF IInv, TypeOK, Results
  <2>3. bot'.w \in {w, None}
    BY <1>i DEF Claim, Idle
  <2>4. QED
    BY <1>a, <2>1, <2>2, <2>3 DEF IInv, ResultsAgree, Clean, Settled
<1>6. MoneyAgrees'
  <2>1. \A x \in Withdrawals :
           \/ wd'[x] = wd[x]
           \/ wd[x].status = "processing" /\ wd'[x].status = "manual_review"
           \/ wd[x].status = "queued" /\ wd'[x].status = "processing"
    BY <1>b, <1>g, <1>j
  <2>2. QED
    BY <1>a, <2>1 DEF IInv, MoneyAgrees, BookedOnlyWhatWasPaid, LedgerMatchesStatus, Returned,
                      Debit, Refund, TypeOK
<1>7. OneOpenPerPlayer'
  <2>1. \A x \in Withdrawals : Open(x)' => Open(x)
    BY <1>b, <1>g, <1>j DEF Open, OpenStatuses
  <2>2. QED
    BY <2>1 DEF IInv, OneOpenPerPlayer
<1>8. QED
  BY <1>1, <1>2, <1>3, <1>4, <1>5, <1>6, <1>7 DEF IInv

(* A report is the last word on its request: the bot was the only one at    *)
(* work on it, and lets go of it as it reports.                             *)
LEMMA ReportKeepsResults ==
    ASSUME IInv, NEW w \in Withdrawals, bot.phase # "idle", bot.w = w,
           NEW outcome \in {"completed", "failed"}, NEW err \in JobErrors, NEW retryable \in BOOLEAN,
           Report(outcome, err, retryable),
           received' = received,
           \A x \in Withdrawals, u \in Tokens : x # w /\ <<x, u>> \in inGame' => <<x, u>> \in inGame,
           outcome = "completed" => received[w] = 1 /\ err = "none",
           err \in {"PAYOUT_NOT_SENT", "PAYOUT_INSUFFICIENT_FUNDS"} => Clean(w)',
           retryable => err = "PAYOUT_NOT_SENT",
           err \notin {"BOT_QUARANTINED", "LEASE_EXPIRED"}
    PROVE  net' \subseteq Results /\ ResultsAgree'
<1> DEFINE r == [w |-> bot.w, token |-> bot.token, outcome |-> outcome, err |-> err,
                 retryable |-> retryable]
<1>1. bot.token \in Tokens
  BY BusyBot
<1>2. net' = net \cup {r} /\ bot' = Idle /\ UNCHANGED <<wd, job>>
  BY DEF Report, gatewayVars
<1>3. r \in Results
  BY <1>1 DEF Results
<1>4. \A m \in net : m \in Results /\ m.w # w
  BY DEF IInv, TypeOK, ResultsAgree
<1>5. /\ job[w].status \in {"leased", "dead_letter"} /\ wd[w].status = "processing"
      /\ job[w].status = "leased" => job[w].token = bot.token
  BY <1>1 DEF IInv, JobsAgree, JobAgrees, BotAgrees, Idle
<1>6. ASSUME NEW m \in net'
      PROVE  /\ bot'.w # m.w
             /\ \A n \in net' : n.w = m.w => n = m
             /\ job'[m.w].status \in {"leased", "dead_letter", "completed"}
             /\ job'[m.w].status = "leased" => job'[m.w].token = m.token
             /\ job'[m.w].status = "dead_letter" => wd'[m.w].status \in {"processing", "manual_review"}
             /\ m.outcome = "completed" => received'[m.w] = 1 /\ m.err = "none"
             /\ m.err \in {"PAYOUT_NOT_SENT", "PAYOUT_INSUFFICIENT_FUNDS"} => Clean(m.w)'
             /\ m.retryable => m.err = "PAYOUT_NOT_SENT"
             /\ m.err \notin {"BOT_QUARANTINED", "LEASE_EXPIRED"}
  <2>1. CASE m = r
    <3>1. \A n \in net' : n.w = m.w => n = m
      BY <1>2, <1>4, <2>1
    <3>2. QED
      BY <1>1, <1>2, <1>5, <2>1, <3>1 DEF Idle
  <2>2. CASE m # r
    <3>1. m \in net /\ m.w \in Withdrawals /\ m.w # w
      BY <1>2, <1>4, <2>2 DEF Results
    <3>2. \A n \in net' : n.w = m.w => n = m
      BY <1>2, <1>4, <3>1 DEF IInv, ResultsAgree
    <3>3. Clean(m.w) => Clean(m.w)'
      BY <3>1 DEF Clean, Settled
    <3>4. QED
      BY <1>2, <3>1, <3>2, <3>3 DEF IInv, ResultsAgree, Idle
  <2>3. QED
    BY <2>1, <2>2
<1>7. QED
  BY <1>2, <1>3, <1>4, <1>6 DEF ResultsAgree

LEMMA NotSentKeeps ==
    ASSUME IInv, NEW retryable \in BOOLEAN, NotSent(retryable)
    PROVE  IInv'
<1>1. TypeOK'
  <2>1. wd' \in [Withdrawals -> WithdrawalRows]
    BY DEF IInv, TypeOK, NotSent, Report, gameVars, gatewayVars, WithdrawalRows,
           WithdrawalStatuses, WithdrawalErrors, JobErrors, Results
  <2>2. job' \in [Withdrawals -> JobRows]
    BY RowTypes DEF IInv, TypeOK, NotSent, Report, gameVars, gatewayVars, JobErrors,
           Results
  <2>3. bot' \in BotStates
    BY DEF IInv, TypeOK, NotSent, Report, gameVars, gatewayVars, BotStates, Idle,
           Answers
  <2>4. net' \subseteq Results
    BY DEF IInv, TypeOK, NotSent, Report, gameVars, gatewayVars, BotAgrees, BotStates,
           Results, JobErrors, Idle
  <2>5. wallet' \in [Users -> Nat] /\ line' \in Seq(Withdrawals) /\ funds' \in 0..MaxFunds
    BY DEF IInv, TypeOK, NotSent, Report, gameVars, gatewayVars, QueueJob
  <2>6. /\ inGame' \subseteq Withdrawals \X Tokens
        /\ ledger' \subseteq {"cash_withdrawal", "cash_withdrawal_refund"} \X Withdrawals
        /\ received' \in [Withdrawals -> Nat]
    BY DEF IInv, TypeOK, NotSent, Report, gameVars, gatewayVars, Debit, Refund,
           BotAgrees, BotStates, Results, Idle
  <2>7. /\ botRow' \in {"online", "offline", "quarantined"}
        /\ landed' \in BOOLEAN /\ booked' \subseteq Withdrawals
    BY DEF IInv, TypeOK, NotSent, Report, gameVars, gatewayVars, Results
  <2>8. QED
    BY <2>1, <2>2, <2>3, <2>4, <2>5, <2>6, <2>7 DEF TypeOK
<1>2. JobsAgree'
  BY DEF IInv, TypeOK, NotSent, Report, gameVars, gatewayVars, JobsAgree, JobAgrees,
         BotAgrees, CommandsAgree, ResultsAgree, MoneyAgrees, WithdrawalRows, JobRows
<1>3. BotAgrees'
  BY DEF IInv, TypeOK, NotSent, Report, gameVars, gatewayVars, JobsAgree, JobAgrees,
         BotAgrees, CommandsAgree, ResultsAgree, OneOpenPerPlayer, Open, OpenStatuses,
         Clean, Settled, BotStates, Idle, WithdrawalRows, JobRows
<1>4. CommandsAgree'
  BY DEF IInv, TypeOK, NotSent, Report, gameVars, gatewayVars, JobsAgree, JobAgrees,
         BotAgrees, CommandsAgree, ResultsAgree, MoneyAgrees, Clean, Settled, BotStates,
         Idle, Results, WithdrawalRows, JobRows
<1>5. ResultsAgree'
  <2>1. PICK w \in Withdrawals : bot.w = w
    BY BusyBot DEF NotSent
  <2>2. Clean(w)'
    BY <2>1 DEF IInv, BotAgrees, Idle, NotSent, gameVars, Clean, Settled
  <2>3. QED
    BY <2>1, <2>2, ReportKeepsResults DEF NotSent, gameVars, JobErrors
<1>6. MoneyAgrees'
  BY DEF IInv, TypeOK, NotSent, Report, gameVars, gatewayVars, JobsAgree, JobAgrees,
         BotAgrees, CommandsAgree, ResultsAgree, MoneyAgrees, BookedOnlyWhatWasPaid,
         LedgerMatchesStatus, Returned, Debit, Refund, Clean, Settled, Open,
         OpenStatuses, Results, WithdrawalRows
<1>7. OneOpenPerPlayer'
  BY DEF IInv, TypeOK, NotSent, Report, gameVars, gatewayVars, JobsAgree, JobAgrees,
         OneOpenPerPlayer, Open, OpenStatuses, Results, WithdrawalRows
<1>8. QED
  BY <1>1, <1>2, <1>3, <1>4, <1>5, <1>6, <1>7 DEF IInv

LEMMA SendThrowsKeeps ==
    ASSUME IInv, NEW out \in BOOLEAN, SendThrows(out)
    PROVE  IInv'
<1>a. net' \subseteq Results /\ ResultsAgree'
  <2>1. PICK w \in Withdrawals : bot.w = w
    BY BusyBot DEF SendThrows
  <2>2. \A x \in Withdrawals, u \in Tokens : x # w /\ <<x, u>> \in inGame' => <<x, u>> \in inGame
    BY <2>1 DEF SendThrows
  <2>3. QED
    BY <2>1, <2>2, ReportKeepsResults DEF SendThrows, JobErrors
<1>1. TypeOK'
  <2>1. wd' \in [Withdrawals -> WithdrawalRows]
    BY DEF IInv, TypeOK, SendThrows, Report, gameVars, gatewayVars, WithdrawalRows,
           WithdrawalStatuses, WithdrawalErrors, JobErrors, Results
  <2>2. job' \in [Withdrawals -> JobRows]
    BY RowTypes DEF IInv, TypeOK, SendThrows, Report, gameVars, gatewayVars, JobErrors,
           Results
  <2>3. bot' \in BotStates
    BY DEF IInv, TypeOK, SendThrows, Report, gameVars, gatewayVars, BotStates, Idle,
           Answers
  <2>4. net' \subseteq Results
    BY <1>a
  <2>5. wallet' \in [Users -> Nat] /\ line' \in Seq(Withdrawals) /\ funds' \in 0..MaxFunds
    BY DEF IInv, TypeOK, SendThrows, Report, gameVars, gatewayVars, QueueJob
  <2>6. /\ inGame' \subseteq Withdrawals \X Tokens
        /\ ledger' \subseteq {"cash_withdrawal", "cash_withdrawal_refund"} \X Withdrawals
        /\ received' \in [Withdrawals -> Nat]
    BY DEF IInv, TypeOK, SendThrows, Report, gameVars, gatewayVars, Debit, Refund,
           BotAgrees, BotStates, Results, Idle
  <2>7. /\ botRow' \in {"online", "offline", "quarantined"}
        /\ landed' \in BOOLEAN /\ booked' \subseteq Withdrawals
    BY DEF IInv, TypeOK, SendThrows, Report, gameVars, gatewayVars, Results
  <2>8. QED
    BY <2>1, <2>2, <2>3, <2>4, <2>5, <2>6, <2>7 DEF TypeOK
<1>2. JobsAgree'
  BY DEF IInv, TypeOK, SendThrows, Report, gameVars, gatewayVars, JobsAgree, JobAgrees,
         BotAgrees, CommandsAgree, ResultsAgree, MoneyAgrees, WithdrawalRows, JobRows
<1>3. BotAgrees'
  BY DEF IInv, TypeOK, SendThrows, Report, gameVars, gatewayVars, JobsAgree, JobAgrees,
         BotAgrees, CommandsAgree, ResultsAgree, OneOpenPerPlayer, Open, OpenStatuses,
         Clean, Settled, BotStates, Idle, WithdrawalRows, JobRows
<1>4. CommandsAgree'
  BY DEF IInv, TypeOK, SendThrows, Report, gameVars, gatewayVars, JobsAgree, JobAgrees,
         BotAgrees, CommandsAgree, ResultsAgree, MoneyAgrees, Clean, Settled, BotStates,
         Idle, Results, WithdrawalRows, JobRows
<1>5. ResultsAgree'
  BY <1>a
<1>6. MoneyAgrees'
  BY DEF IInv, TypeOK, SendThrows, Report, gameVars, gatewayVars, JobsAgree, JobAgrees,
         BotAgrees, CommandsAgree, ResultsAgree, MoneyAgrees, BookedOnlyWhatWasPaid,
         LedgerMatchesStatus, Returned, Debit, Refund, Clean, Settled, Open,
         OpenStatuses, Results, WithdrawalRows
<1>7. OneOpenPerPlayer'
  BY DEF IInv, TypeOK, SendThrows, Report, gameVars, gatewayVars, JobsAgree, JobAgrees,
         OneOpenPerPlayer, Open, OpenStatuses, Results, WithdrawalRows
<1>8. QED
  BY <1>1, <1>2, <1>3, <1>4, <1>5, <1>6, <1>7 DEF IInv

LEMMA SendPayKeeps ==
    ASSUME IInv, SendPay
    PROVE  IInv'
<1>1. TypeOK'
  <2>1. wd' \in [Withdrawals -> WithdrawalRows]
    BY DEF IInv, TypeOK, SendPay, gameVars, gatewayVars, WithdrawalRows,
           WithdrawalStatuses, WithdrawalErrors, JobErrors, Results
  <2>2. job' \in [Withdrawals -> JobRows]
    BY RowTypes DEF IInv, TypeOK, SendPay, gameVars, gatewayVars, JobErrors, Results
  <2>3. bot' \in BotStates
    BY DEF IInv, TypeOK, SendPay, gameVars, gatewayVars, BotStates, Idle, Answers
  <2>4. net' \subseteq Results
    BY DEF IInv, TypeOK, SendPay, gameVars, gatewayVars, BotAgrees, BotStates, Results,
           JobErrors, Idle
  <2>5. wallet' \in [Users -> Nat] /\ line' \in Seq(Withdrawals) /\ funds' \in 0..MaxFunds
    BY DEF IInv, TypeOK, SendPay, gameVars, gatewayVars, QueueJob
  <2>6. /\ inGame' \subseteq Withdrawals \X Tokens
        /\ ledger' \subseteq {"cash_withdrawal", "cash_withdrawal_refund"} \X Withdrawals
        /\ received' \in [Withdrawals -> Nat]
    BY DEF IInv, TypeOK, SendPay, gameVars, gatewayVars, Debit, Refund, BotAgrees,
           BotStates, Results, Idle
  <2>7. /\ botRow' \in {"online", "offline", "quarantined"}
        /\ landed' \in BOOLEAN /\ booked' \subseteq Withdrawals
    BY DEF IInv, TypeOK, SendPay, gameVars, gatewayVars, Results
  <2>8. QED
    BY <2>1, <2>2, <2>3, <2>4, <2>5, <2>6, <2>7 DEF TypeOK
<1>2. JobsAgree'
  BY DEF IInv, TypeOK, SendPay, gameVars, gatewayVars, JobsAgree, JobAgrees, BotAgrees,
         CommandsAgree, ResultsAgree, MoneyAgrees, WithdrawalRows, JobRows
<1>3. BotAgrees'
  BY DEF IInv, TypeOK, SendPay, gameVars, gatewayVars, JobsAgree, JobAgrees, BotAgrees,
         CommandsAgree, ResultsAgree, OneOpenPerPlayer, Open, OpenStatuses, Clean,
         Settled, BotStates, Idle, WithdrawalRows, JobRows
<1>4. CommandsAgree'
  BY DEF IInv, TypeOK, SendPay, gameVars, gatewayVars, JobsAgree, JobAgrees, BotAgrees,
         CommandsAgree, ResultsAgree, MoneyAgrees, Clean, Settled, BotStates, Idle,
         Results, WithdrawalRows, JobRows
<1>5. ResultsAgree'
  BY DEF IInv, TypeOK, SendPay, gameVars, gatewayVars, JobsAgree, JobAgrees, BotAgrees,
         CommandsAgree, ResultsAgree, Clean, Settled, Results, BotStates, Idle,
         WithdrawalRows, JobRows
<1>6. MoneyAgrees'
  BY DEF IInv, TypeOK, SendPay, gameVars, gatewayVars, JobsAgree, JobAgrees, BotAgrees,
         CommandsAgree, ResultsAgree, MoneyAgrees, BookedOnlyWhatWasPaid,
         LedgerMatchesStatus, Returned, Debit, Refund, Clean, Settled, Open,
         OpenStatuses, Results, WithdrawalRows
<1>7. OneOpenPerPlayer'
  BY DEF IInv, TypeOK, SendPay, gameVars, gatewayVars, JobsAgree, JobAgrees,
         OneOpenPerPlayer, Open, OpenStatuses, Results, WithdrawalRows
<1>8. QED
  BY <1>1, <1>2, <1>3, <1>4, <1>5, <1>6, <1>7 DEF IInv

LEMMA ReportAnswerKeepsResults ==
    ASSUME IInv, ReportAnswer
    PROVE  net' \subseteq Results /\ ResultsAgree'
<1> PICK w \in Withdrawals : bot.w = w
  BY BusyBot DEF ReportAnswer
<1>1. UNCHANGED <<received, inGame>> /\ bot.phase = "sent"
  BY DEF ReportAnswer, gameVars
<1>2. bot.heard \in {"receipt", "mismatch"} => received[w] = 1
  BY <1>1 DEF IInv, BotAgrees, Idle
<1>3. bot.heard \in {"insufficient_funds", "payments_disabled", "cooldown"} => Clean(w)'
  BY <1>1 DEF IInv, BotAgrees, Idle, Clean, Settled
<1>4. CASE bot.heard = "receipt" /\ Report("completed", "none", FALSE)
  BY <1>1, <1>2, <1>4, ReportKeepsResults DEF JobErrors
<1>5. CASE bot.heard = "mismatch" /\ Report("failed", "PAYOUT_AMOUNT_MISMATCH", FALSE)
  BY <1>1, <1>5, ReportKeepsResults DEF JobErrors
<1>6. CASE bot.heard = "insufficient_funds" /\ Report("failed", "PAYOUT_INSUFFICIENT_FUNDS", FALSE)
  BY <1>1, <1>3, <1>6, ReportKeepsResults DEF JobErrors
<1>7. CASE bot.heard = "payments_disabled" /\ Report("failed", "PAYOUT_NOT_SENT", FALSE)
  BY <1>1, <1>3, <1>7, ReportKeepsResults DEF JobErrors
<1>8. CASE bot.heard = "cooldown" /\ Report("failed", "PAYOUT_NOT_SENT", TRUE)
  BY <1>1, <1>3, <1>8, ReportKeepsResults DEF JobErrors
<1>9. CASE bot.heard = "nothing" /\ Report("failed", "PAYOUT_UNCONFIRMED", FALSE)
  BY <1>1, <1>9, ReportKeepsResults DEF JobErrors
<1>10. QED
  BY <1>4, <1>5, <1>6, <1>7, <1>8, <1>9 DEF ReportAnswer

LEMMA ReportAnswerKeeps ==
    ASSUME IInv, ReportAnswer
    PROVE  IInv'
<1>1. TypeOK'
  <2>1. wd' \in [Withdrawals -> WithdrawalRows]
    BY DEF IInv, TypeOK, ReportAnswer, Report, gameVars, gatewayVars, WithdrawalRows,
           WithdrawalStatuses, WithdrawalErrors, JobErrors, Results
  <2>2. job' \in [Withdrawals -> JobRows]
    BY RowTypes DEF IInv, TypeOK, ReportAnswer, Report, gameVars, gatewayVars,
           JobErrors, Results
  <2>3. bot' \in BotStates
    BY DEF IInv, TypeOK, ReportAnswer, Report, gameVars, gatewayVars, BotStates, Idle,
           Answers
  <2>4. net' \subseteq Results
    BY ReportAnswerKeepsResults
  <2>5. wallet' \in [Users -> Nat] /\ line' \in Seq(Withdrawals) /\ funds' \in 0..MaxFunds
    BY DEF IInv, TypeOK, ReportAnswer, Report, gameVars, gatewayVars, QueueJob
  <2>6. /\ inGame' \subseteq Withdrawals \X Tokens
        /\ ledger' \subseteq {"cash_withdrawal", "cash_withdrawal_refund"} \X Withdrawals
        /\ received' \in [Withdrawals -> Nat]
    BY DEF IInv, TypeOK, ReportAnswer, Report, gameVars, gatewayVars, Debit, Refund,
           BotAgrees, BotStates, Results, Idle
  <2>7. /\ botRow' \in {"online", "offline", "quarantined"}
        /\ landed' \in BOOLEAN /\ booked' \subseteq Withdrawals
    BY DEF IInv, TypeOK, ReportAnswer, Report, gameVars, gatewayVars, Results
  <2>8. QED
    BY <2>1, <2>2, <2>3, <2>4, <2>5, <2>6, <2>7 DEF TypeOK
<1>2. JobsAgree'
  BY DEF IInv, TypeOK, ReportAnswer, Report, gameVars, gatewayVars, JobsAgree,
         JobAgrees, BotAgrees, CommandsAgree, ResultsAgree, MoneyAgrees, WithdrawalRows,
         JobRows
<1>3. BotAgrees'
  BY DEF IInv, TypeOK, ReportAnswer, Report, gameVars, gatewayVars, JobsAgree,
         JobAgrees, BotAgrees, CommandsAgree, ResultsAgree, OneOpenPerPlayer, Open,
         OpenStatuses, Clean, Settled, BotStates, Idle, WithdrawalRows, JobRows
<1>4. CommandsAgree'
  BY DEF IInv, TypeOK, ReportAnswer, Report, gameVars, gatewayVars, JobsAgree,
         JobAgrees, BotAgrees, CommandsAgree, ResultsAgree, MoneyAgrees, Clean, Settled,
         BotStates, Idle, Results, WithdrawalRows, JobRows
<1>5. ResultsAgree'
  BY ReportAnswerKeepsResults
<1>6. MoneyAgrees'
  BY DEF IInv, TypeOK, ReportAnswer, Report, gameVars, gatewayVars, JobsAgree,
         JobAgrees, BotAgrees, CommandsAgree, ResultsAgree, MoneyAgrees,
         BookedOnlyWhatWasPaid, LedgerMatchesStatus, Returned, Debit, Refund, Clean,
         Settled, Open, OpenStatuses, Results, WithdrawalRows
<1>7. OneOpenPerPlayer'
  BY DEF IInv, TypeOK, ReportAnswer, Report, gameVars, gatewayVars, JobsAgree,
         JobAgrees, OneOpenPerPlayer, Open, OpenStatuses, Results, WithdrawalRows
<1>8. QED
  BY <1>1, <1>2, <1>3, <1>4, <1>5, <1>6, <1>7 DEF IInv

LEMMA CrashKeeps ==
    ASSUME IInv, BotCrash
    PROVE  IInv'
<1>1. TypeOK'
  BY RowTypes DEF IInv, TypeOK, BotCrash, BotStates, Idle, Answers, gameVars,
         gatewayVars, WithdrawalRows, WithdrawalStatuses, WithdrawalErrors, JobErrors
<1>2. JobsAgree'
  BY DEF IInv, TypeOK, BotCrash, gameVars, gatewayVars, JobsAgree, JobAgrees, BotAgrees,
         CommandsAgree, ResultsAgree, MoneyAgrees, WithdrawalRows, JobRows
<1>3. BotAgrees'
  BY DEF IInv, TypeOK, BotCrash, gameVars, gatewayVars, JobsAgree, JobAgrees, BotAgrees,
         CommandsAgree, ResultsAgree, OneOpenPerPlayer, Open, OpenStatuses, Clean,
         Settled, BotStates, Idle, WithdrawalRows, JobRows
<1>4. CommandsAgree'
  BY DEF IInv, TypeOK, BotCrash, gameVars, gatewayVars, JobsAgree, JobAgrees, BotAgrees,
         CommandsAgree, ResultsAgree, MoneyAgrees, Clean, Settled, BotStates, Idle,
         Results, WithdrawalRows, JobRows
<1>5. ResultsAgree'
  BY DEF IInv, TypeOK, BotCrash, gameVars, gatewayVars, JobsAgree, JobAgrees, BotAgrees,
         CommandsAgree, ResultsAgree, Clean, Settled, Results, BotStates, Idle,
         WithdrawalRows, JobRows
<1>6. MoneyAgrees'
  BY DEF IInv, TypeOK, BotCrash, gameVars, gatewayVars, JobsAgree, JobAgrees, BotAgrees,
         CommandsAgree, ResultsAgree, MoneyAgrees, BookedOnlyWhatWasPaid,
         LedgerMatchesStatus, Returned, Debit, Refund, Clean, Settled, Open,
         OpenStatuses, Results, WithdrawalRows
<1>7. OneOpenPerPlayer'
  BY DEF IInv, TypeOK, BotCrash, gameVars, gatewayVars, JobsAgree, JobAgrees,
         OneOpenPerPlayer, Open, OpenStatuses, Results, WithdrawalRows
<1>8. QED
  BY <1>1, <1>2, <1>3, <1>4, <1>5, <1>6, <1>7 DEF IInv

LEMMA GamePaysKeeps ==
    ASSUME IInv, NEW w \in Withdrawals, NEW t \in Tokens, GamePays(w, t)
    PROVE  IInv'
<1>a. UNCHANGED <<wd, job, net>>
  BY DEF GamePays, gatewayVars
<1>b. /\ received[w] = 0 /\ wd[w].status \in {"processing", "manual_review"}
      /\ \A u \in Tokens : <<w, u>> \in inGame => u = t
  BY DEF IInv, CommandsAgree, GamePays
<1>c. /\ inGame' = inGame \ {<<w, t>>} /\ received' = [received EXCEPT ![w] = @ + 1]
      /\ received \in [Withdrawals -> Nat]
  BY DEF GamePays, IInv, TypeOK
<1>d. received'[w] = 1 /\ \A x \in Withdrawals \ {w} : received'[x] = received[x]
  BY <1>b, <1>c
<1>e. \A x \in Withdrawals : Clean(x) => x # w /\ Clean(x)'
  BY <1>c, <1>d DEF Clean, Settled, GamePays
<1>1. TypeOK'
  <2>1. wd' \in [Withdrawals -> WithdrawalRows]
    BY DEF IInv, TypeOK, GamePays, Hear, AwaitsReceiptFor, Listening, gameVars,
           gatewayVars, WithdrawalRows, WithdrawalStatuses, WithdrawalErrors, JobErrors,
           Results
  <2>2. job' \in [Withdrawals -> JobRows]
    BY RowTypes DEF IInv, TypeOK, GamePays, Hear, AwaitsReceiptFor, Listening, gameVars,
           gatewayVars, JobErrors, Results
  <2>3. bot' \in BotStates
    BY DEF IInv, TypeOK, GamePays, Hear, AwaitsReceiptFor, Listening, gameVars,
           gatewayVars, BotStates, Idle, Answers
  <2>4. net' \subseteq Results
    BY DEF IInv, TypeOK, GamePays, Hear, AwaitsReceiptFor, Listening, gameVars,
           gatewayVars, BotAgrees, BotStates, Results, JobErrors, Idle
  <2>5. wallet' \in [Users -> Nat] /\ line' \in Seq(Withdrawals) /\ funds' \in 0..MaxFunds
    BY DEF IInv, TypeOK, GamePays, Hear, AwaitsReceiptFor, Listening, gameVars,
           gatewayVars, QueueJob
  <2>6. /\ inGame' \subseteq Withdrawals \X Tokens
        /\ ledger' \subseteq {"cash_withdrawal", "cash_withdrawal_refund"} \X Withdrawals
        /\ received' \in [Withdrawals -> Nat]
    BY <1>c DEF IInv, TypeOK, GamePays, gatewayVars
  <2>7. /\ botRow' \in {"online", "offline", "quarantined"}
        /\ landed' \in BOOLEAN /\ booked' \subseteq Withdrawals
    BY DEF IInv, TypeOK, GamePays, Hear, AwaitsReceiptFor, Listening, gameVars,
           gatewayVars, Results
  <2>8. QED
    BY <2>1, <2>2, <2>3, <2>4, <2>5, <2>6, <2>7 DEF TypeOK
<1>2. JobsAgree'
  BY DEF IInv, TypeOK, GamePays, Hear, AwaitsReceiptFor, Listening, gameVars,
         gatewayVars, JobsAgree, JobAgrees, BotAgrees, CommandsAgree, ResultsAgree,
         MoneyAgrees, WithdrawalRows, JobRows
<1>3. BotAgrees'
  <2>1. bot.phase # "idle" => bot.w \in Withdrawals
    BY BusyBot
  <2>2. CASE UNCHANGED bot
    BY <1>a, <1>b, <1>d, <1>e, <2>1, <2>2 DEF IInv, BotAgrees, Idle
  <2>3. ASSUME AwaitsReceiptFor(w), NEW a \in {"receipt", "mismatch"}, Hear(a)
        PROVE  BotAgrees'
    (* The player has one open request, so the receipt is for this one.     *)
    <3>1. bot.phase = "sent" /\ bot.w \in Withdrawals /\ Owner[bot.w] = Owner[w]
      BY <2>1, <2>3 DEF AwaitsReceiptFor, Listening
    <3>2. wd[bot.w].status = "processing"
      BY <3>1 DEF IInv, BotAgrees, Idle
    <3>3. bot.w = w
      BY <1>b, <3>1, <3>2 DEF IInv, OneOpenPerPlayer, Open, OpenStatuses
    <3>4. bot' = [bot EXCEPT !.heard = a] /\ bot \in BotStates
      BY <2>3 DEF Hear, IInv, TypeOK
    <3>5. bot'.phase = "sent" /\ bot'.w = w /\ bot'.token = bot.token /\ bot'.heard = a
      BY <3>1, <3>3, <3>4 DEF BotStates
    <3>6. QED
      BY <1>a, <1>d, <2>3, <3>1, <3>3, <3>5 DEF IInv, BotAgrees, Idle
  <2>4. QED
    BY <2>2, <2>3 DEF GamePays
<1>4. CommandsAgree'
  BY DEF IInv, TypeOK, GamePays, Hear, AwaitsReceiptFor, Listening, gameVars,
         gatewayVars, JobsAgree, JobAgrees, BotAgrees, CommandsAgree, ResultsAgree,
         MoneyAgrees, Clean, Settled, BotStates, Idle, Results, WithdrawalRows, JobRows
<1>5. ResultsAgree'
  <2>1. \A m \in net : m.w \in Withdrawals /\ (received[m.w] = 1 => received'[m.w] = 1)
    BY <1>b, <1>d DEF IInv, TypeOK, Results
  <2>2. bot'.w = bot.w
    BY DEF GamePays, Hear, IInv, TypeOK, BotStates
  <2>3. QED
    BY <1>a, <1>e, <2>1, <2>2 DEF IInv, ResultsAgree
<1>6. MoneyAgrees'
  BY DEF IInv, TypeOK, GamePays, Hear, AwaitsReceiptFor, Listening, gameVars,
         gatewayVars, JobsAgree, JobAgrees, BotAgrees, CommandsAgree, ResultsAgree,
         MoneyAgrees, BookedOnlyWhatWasPaid, LedgerMatchesStatus, Returned, Debit,
         Refund, Clean, Settled, Open, OpenStatuses, Results, WithdrawalRows
<1>7. OneOpenPerPlayer'
  BY DEF IInv, TypeOK, GamePays, Hear, AwaitsReceiptFor, Listening, gameVars,
         gatewayVars, JobsAgree, JobAgrees, OneOpenPerPlayer, Open, OpenStatuses,
         Results, WithdrawalRows
<1>8. QED
  BY <1>1, <1>2, <1>3, <1>4, <1>5, <1>6, <1>7 DEF IInv

LEMMA GameRefusesKeeps ==
    ASSUME IInv, NEW w \in Withdrawals, NEW t \in Tokens, GameRefuses(w, t)
    PROVE  IInv'
<1>a. UNCHANGED <<wd, job, net, received>> /\ inGame' = inGame \ {<<w, t>>}
  BY DEF GameRefuses, gatewayVars
<1>b. received[w] = 0 /\ \A u \in Tokens : <<w, u>> \in inGame => u = t
  BY DEF IInv, CommandsAgree, GameRefuses
<1>c. Clean(w)' /\ \A x \in Withdrawals : Clean(x) => Clean(x)'
  BY <1>a, <1>b DEF Clean, Settled
<1>1. TypeOK'
  BY RowTypes DEF IInv, TypeOK, GameRefuses, Hear, Listening, BotStates, Answers,
         gameVars, gatewayVars, WithdrawalRows, WithdrawalStatuses, WithdrawalErrors,
         JobErrors
<1>2. JobsAgree'
  BY DEF IInv, TypeOK, GameRefuses, Hear, Listening, gameVars, gatewayVars, JobsAgree,
         JobAgrees, BotAgrees, CommandsAgree, ResultsAgree, MoneyAgrees, WithdrawalRows,
         JobRows
<1>3. BotAgrees'
  <2>1. bot.phase # "idle" => bot.w \in Withdrawals
    BY BusyBot
  <2>2. CASE UNCHANGED bot
    BY <1>a, <1>c, <2>1, <2>2 DEF IInv, BotAgrees, Idle
  <2>3. ASSUME Listening, bot.w = w,
               NEW a \in {"insufficient_funds", "payments_disabled", "cooldown"}, Hear(a)
        PROVE  BotAgrees'
    <3>1. bot' = [bot EXCEPT !.heard = a] /\ bot \in BotStates /\ bot.phase = "sent"
      BY <2>3 DEF Hear, Listening, IInv, TypeOK
    <3>2. bot'.phase = "sent" /\ bot'.w = w /\ bot'.token = bot.token /\ bot'.heard = a
      BY <2>3, <3>1 DEF BotStates
    <3>3. QED
      BY <1>a, <1>c, <2>3, <3>1, <3>2 DEF IInv, BotAgrees, Idle
  <2>4. QED
    BY <2>2, <2>3 DEF GameRefuses
<1>4. CommandsAgree'
  BY DEF IInv, TypeOK, GameRefuses, Hear, Listening, gameVars, gatewayVars, JobsAgree,
         JobAgrees, BotAgrees, CommandsAgree, ResultsAgree, MoneyAgrees, Clean, Settled,
         BotStates, Idle, Results, WithdrawalRows, JobRows
<1>5. ResultsAgree'
  <2>1. \A m \in net : m.w \in Withdrawals
    BY DEF IInv, TypeOK, Results
  <2>2. bot'.w = bot.w
    BY DEF GameRefuses, Hear, IInv, TypeOK, BotStates
  <2>3. QED
    BY <1>a, <1>c, <2>1, <2>2 DEF IInv, ResultsAgree
<1>6. MoneyAgrees'
  BY DEF IInv, TypeOK, GameRefuses, Hear, Listening, gameVars, gatewayVars, JobsAgree,
         JobAgrees, BotAgrees, CommandsAgree, ResultsAgree, MoneyAgrees,
         BookedOnlyWhatWasPaid, LedgerMatchesStatus, Returned, Debit, Refund, Clean,
         Settled, Open, OpenStatuses, Results, WithdrawalRows
<1>7. OneOpenPerPlayer'
  BY DEF IInv, TypeOK, GameRefuses, Hear, Listening, gameVars, gatewayVars, JobsAgree,
         JobAgrees, OneOpenPerPlayer, Open, OpenStatuses, Results, WithdrawalRows
<1>8. QED
  BY <1>1, <1>2, <1>3, <1>4, <1>5, <1>6, <1>7 DEF IInv

LEMMA MoneyReportedKeeps ==
    ASSUME IInv, MoneyReported
    PROVE  IInv'
<1>1. TypeOK'
  BY RowTypes DEF IInv, TypeOK, MoneyReported, NoMoney, gameVars, gatewayVars,
         WithdrawalRows, WithdrawalStatuses, WithdrawalErrors, JobErrors
<1>2. JobsAgree'
  BY DEF IInv, TypeOK, MoneyReported, NoMoney, Wake, WaitsForFunds, gameVars,
         gatewayVars, JobsAgree, JobAgrees, BotAgrees, CommandsAgree, ResultsAgree,
         MoneyAgrees, WithdrawalRows, JobRows
<1>3. BotAgrees'
  BY DEF IInv, TypeOK, MoneyReported, NoMoney, Wake, WaitsForFunds, gameVars,
         gatewayVars, JobsAgree, JobAgrees, BotAgrees, CommandsAgree, ResultsAgree,
         OneOpenPerPlayer, Open, OpenStatuses, Clean, Settled, BotStates, Idle,
         WithdrawalRows, JobRows
<1>4. CommandsAgree'
  BY DEF IInv, TypeOK, MoneyReported, NoMoney, Wake, WaitsForFunds, gameVars,
         gatewayVars, JobsAgree, JobAgrees, BotAgrees, CommandsAgree, ResultsAgree,
         MoneyAgrees, Clean, Settled, BotStates, Idle, Results, WithdrawalRows, JobRows
<1>5. ResultsAgree'
  BY DEF IInv, TypeOK, MoneyReported, NoMoney, Wake, WaitsForFunds, gameVars,
         gatewayVars, JobsAgree, JobAgrees, BotAgrees, CommandsAgree, ResultsAgree,
         Clean, Settled, Results, BotStates, Idle, WithdrawalRows, JobRows
<1>6. MoneyAgrees'
  BY DEF IInv, TypeOK, MoneyReported, NoMoney, gameVars, gatewayVars, JobsAgree,
         JobAgrees, BotAgrees, CommandsAgree, ResultsAgree, MoneyAgrees,
         BookedOnlyWhatWasPaid, LedgerMatchesStatus, Returned, Debit, Refund, Clean,
         Settled, Open, OpenStatuses, Results, WithdrawalRows
<1>7. OneOpenPerPlayer'
  BY DEF IInv, TypeOK, MoneyReported, NoMoney, Wake, WaitsForFunds, gameVars,
         gatewayVars, JobsAgree, JobAgrees, OneOpenPerPlayer, Open, OpenStatuses,
         Results, WithdrawalRows
<1>8. QED
  BY <1>1, <1>2, <1>3, <1>4, <1>5, <1>6, <1>7 DEF IInv

LEMMA AcceptLateKeeps ==
    ASSUME IInv, NEW m \in net, AcceptLate(m)
    PROVE  IInv'
<1>1. TypeOK'
  BY RowTypes DEF IInv, TypeOK, AcceptLate, Arrives, ConfirmsLate, Current, ValidLease,
         TokenMatches, NoMoney, Results, gameVars, gatewayVars, WithdrawalRows,
         WithdrawalStatuses, WithdrawalErrors, JobErrors
<1>2. JobsAgree'
  BY DEF IInv, TypeOK, AcceptLate, Arrives, ConfirmsLate, Current, ValidLease,
         TokenMatches, NoMoney, CompleteLate, gameVars, gatewayVars, JobsAgree,
         JobAgrees, BotAgrees, CommandsAgree, ResultsAgree, MoneyAgrees, WithdrawalRows,
         JobRows
<1>3. BotAgrees'
  BY DEF IInv, TypeOK, AcceptLate, Arrives, ConfirmsLate, Current, ValidLease,
         TokenMatches, NoMoney, CompleteLate, gameVars, gatewayVars, JobsAgree,
         JobAgrees, BotAgrees, CommandsAgree, ResultsAgree, OneOpenPerPlayer, Open,
         OpenStatuses, Clean, Settled, BotStates, Idle, WithdrawalRows, JobRows
<1>4. CommandsAgree'
  BY DEF IInv, TypeOK, AcceptLate, Arrives, ConfirmsLate, Current, ValidLease,
         TokenMatches, NoMoney, CompleteLate, gameVars, gatewayVars, JobsAgree,
         JobAgrees, BotAgrees, CommandsAgree, ResultsAgree, MoneyAgrees, Clean, Settled,
         BotStates, Idle, Results, WithdrawalRows, JobRows
<1>5. ResultsAgree'
  BY DEF IInv, TypeOK, AcceptLate, Arrives, ConfirmsLate, Current, ValidLease,
         TokenMatches, NoMoney, CompleteLate, gameVars, gatewayVars, JobsAgree,
         JobAgrees, BotAgrees, CommandsAgree, ResultsAgree, Clean, Settled, Results,
         BotStates, Idle, WithdrawalRows, JobRows
<1>6. MoneyAgrees'
  BY DEF IInv, TypeOK, AcceptLate, Arrives, ConfirmsLate, Current, ValidLease,
         TokenMatches, NoMoney, gameVars, gatewayVars, JobsAgree, JobAgrees, BotAgrees,
         CommandsAgree, ResultsAgree, MoneyAgrees, BookedOnlyWhatWasPaid,
         LedgerMatchesStatus, Returned, Debit, Refund, Clean, Settled, Open,
         OpenStatuses, Results, WithdrawalRows
<1>7. OneOpenPerPlayer'
  BY DEF IInv, TypeOK, AcceptLate, Arrives, ConfirmsLate, Current, ValidLease,
         TokenMatches, NoMoney, CompleteLate, gameVars, gatewayVars, JobsAgree,
         JobAgrees, OneOpenPerPlayer, Open, OpenStatuses, Results, WithdrawalRows
<1>8. QED
  BY <1>1, <1>2, <1>3, <1>4, <1>5, <1>6, <1>7 DEF IInv

LEMMA RejectResultKeeps ==
    ASSUME IInv, NEW m \in net, RejectResult(m)
    PROVE  IInv'
<1>a. /\ m.w \in Withdrawals /\ net' = net \ {m} /\ net' \subseteq net
      /\ UNCHANGED <<bot, received, inGame, booked, wallet, ledger>>
  BY DEF RejectResult, Arrives, NoMoney, gameVars, IInv, TypeOK, Results
<1>b. job[m.w] \in JobRows /\ wd[m.w] \in WithdrawalRows
  BY <1>a DEF IInv, TypeOK
<1>c. ASSUME job[m.w].status # "completed"
      PROVE  job[m.w].status \in {"leased", "dead_letter"}
             /\ wd[m.w].status \in {"processing", "manual_review"}
  BY <1>a, <1>c DEF IInv, ResultsAgree, JobsAgree, JobAgrees
<1>d. \/ UNCHANGED <<job, wd>>
      \/ /\ job[m.w].status # "completed"
         /\ job' = [job EXCEPT ![m.w] = DeadLetter(job[m.w], "INVALID_JOB_LEASE")]
         /\ \/ wd[m.w].status = "manual_review" /\ wd' = wd
            \/ /\ wd[m.w].status = "processing"
               /\ wd' = [wd EXCEPT ![m.w] = [status |-> "manual_review",
                                             err |-> "INVALID_JOB_LEASE"]]
  BY <1>c DEF RejectResult, Moved
<1>e. \A x \in Withdrawals \ {m.w} : job'[x] = job[x] /\ wd'[x] = wd[x]
  BY <1>d DEF IInv, TypeOK
<1>f. ASSUME NEW x \in Withdrawals
      PROVE  wd'[x] = wd[x] \/ (wd[x].status = "processing" /\ wd'[x].status = "manual_review")
  <2>1. CASE x = m.w
    <3>1. CASE wd' = wd
      BY <3>1
    <3>2. CASE /\ wd[m.w].status = "processing"
               /\ wd' = [wd EXCEPT ![m.w] = [status |-> "manual_review",
                                             err |-> "INVALID_JOB_LEASE"]]
      <4>1. wd'[m.w] = [status |-> "manual_review", err |-> "INVALID_JOB_LEASE"]
        BY <1>a, <3>2 DEF IInv, TypeOK
      <4>2. QED
        BY <2>1, <3>2, <4>1
    <3>3. QED
      BY <1>d, <3>1, <3>2
  <2>2. CASE x # m.w
    BY <1>e, <2>2
  <2>3. QED
    BY <2>1, <2>2
<1>1. TypeOK'
  <2>1. wd' \in [Withdrawals -> WithdrawalRows]
    <3>1. [status |-> "manual_review", err |-> "INVALID_JOB_LEASE"] \in WithdrawalRows
      BY DEF WithdrawalRows, WithdrawalStatuses, WithdrawalErrors, JobErrors
    <3>2. QED
      BY <1>d, <3>1 DEF IInv, TypeOK
  <2>2. job' \in [Withdrawals -> JobRows]
    <3>1. DeadLetter(job[m.w], "INVALID_JOB_LEASE") \in JobRows
      BY <1>b, RowTypes DEF JobErrors
    <3>2. QED
      BY <1>d, <3>1 DEF IInv, TypeOK
  <2>3. bot' \in BotStates
    BY DEF IInv, TypeOK, RejectResult, Arrives, ConfirmsLate, Current, ValidLease,
           TokenMatches, Moved, NoMoney, gameVars, gatewayVars, BotStates, Idle, Answers
  <2>4. net' \subseteq Results
    BY DEF IInv, TypeOK, RejectResult, Arrives, ConfirmsLate, Current, ValidLease,
           TokenMatches, Moved, NoMoney, gameVars, gatewayVars, BotAgrees, BotStates,
           Results, JobErrors, Idle
  <2>5. wallet' \in [Users -> Nat] /\ line' \in Seq(Withdrawals) /\ funds' \in 0..MaxFunds
    BY DEF IInv, TypeOK, RejectResult, Arrives, ConfirmsLate, Current, ValidLease,
           TokenMatches, Moved, NoMoney, gameVars, gatewayVars, QueueJob
  <2>6. /\ inGame' \subseteq Withdrawals \X Tokens
        /\ ledger' \subseteq {"cash_withdrawal", "cash_withdrawal_refund"} \X Withdrawals
        /\ received' \in [Withdrawals -> Nat]
    BY DEF IInv, TypeOK, RejectResult, Arrives, ConfirmsLate, Current, ValidLease,
           TokenMatches, Moved, NoMoney, gameVars, gatewayVars, Debit, Refund,
           BotAgrees, BotStates, Results, Idle
  <2>7. /\ botRow' \in {"online", "offline", "quarantined"}
        /\ landed' \in BOOLEAN /\ booked' \subseteq Withdrawals
    BY DEF IInv, TypeOK, RejectResult, Arrives, ConfirmsLate, Current, ValidLease,
           TokenMatches, Moved, NoMoney, gameVars, gatewayVars, Results
  <2>8. QED
    BY <2>1, <2>2, <2>3, <2>4, <2>5, <2>6, <2>7 DEF TypeOK
<1>2. JobsAgree'
  <2>1. JobAgrees(m.w)'
    <3>1. CASE UNCHANGED <<job, wd>>
      BY <1>a, <3>1 DEF IInv, JobsAgree, JobAgrees
    <3>2. CASE job' = [job EXCEPT ![m.w] = DeadLetter(job[m.w], "INVALID_JOB_LEASE")]
               /\ wd'[m.w].status = "manual_review"
      <4>1. job'[m.w].status = "dead_letter" /\ job'[m.w].err = "INVALID_JOB_LEASE"
        BY <1>a, <1>b, <3>2 DEF IInv, TypeOK, DeadLetter, JobRows
      <4>2. QED
        BY <3>2, <4>1 DEF JobAgrees
    <3>3. ASSUME wd' = [wd EXCEPT ![m.w] = [status |-> "manual_review",
                                            err |-> "INVALID_JOB_LEASE"]]
          PROVE  wd'[m.w].status = "manual_review"
      <4>1. wd'[m.w] = [status |-> "manual_review", err |-> "INVALID_JOB_LEASE"]
        BY <1>a, <3>3 DEF IInv, TypeOK
      <4>2. QED
        BY <4>1
    <3>4. QED
      BY <1>d, <3>1, <3>2, <3>3
  <2>2. ASSUME NEW x \in Withdrawals \ {m.w} PROVE JobAgrees(x)'
    BY <1>e DEF IInv, JobsAgree, JobAgrees
  <2>3. QED
    BY <2>1, <2>2 DEF JobsAgree
<1>3. BotAgrees'
  <2>1. bot.w # m.w
    BY DEF IInv, ResultsAgree
  <2>2. bot.phase # "idle" => bot.w \in Withdrawals \ {m.w}
    BY <2>1, BusyBot
  <2>3. QED
    BY <1>a, <1>e, <2>2 DEF IInv, BotAgrees, Idle, Clean, Settled
<1>4. CommandsAgree'
  BY <1>a, <1>f DEF IInv, CommandsAgree
<1>5. ResultsAgree'
  BY DEF IInv, TypeOK, RejectResult, Arrives, ConfirmsLate, Current, ValidLease,
         TokenMatches, Moved, NoMoney, DeadLetter, gameVars, gatewayVars, JobsAgree,
         JobAgrees, BotAgrees, CommandsAgree, ResultsAgree, Clean, Settled, Results,
         BotStates, Idle, WithdrawalRows, JobRows
<1>6. MoneyAgrees'
  BY <1>a, <1>f DEF IInv, TypeOK, MoneyAgrees, BookedOnlyWhatWasPaid, LedgerMatchesStatus,
                    Returned, Debit, Refund
<1>7. OneOpenPerPlayer'
  <2>1. \A x \in Withdrawals : Open(x)' => Open(x)
    BY <1>f DEF Open, OpenStatuses
  <2>2. QED
    BY <2>1 DEF IInv, OneOpenPerPlayer
<1>8. QED
  BY <1>1, <1>2, <1>3, <1>4, <1>5, <1>6, <1>7 DEF IInv

LEMMA CompletedKeeps ==
    ASSUME IInv, NEW m \in net, Completed(m)
    PROVE  IInv'
<1>a. m.w \in Withdrawals /\ job[m.w] \in JobRows /\ wd[m.w] \in WithdrawalRows
  BY DEF IInv, TypeOK, Results
<1>b. job[m.w].status = "leased" /\ wd[m.w].status = "processing"
  BY <1>a DEF Completed, Current, ValidLease, IInv, JobsAgree, JobAgrees
<1>1. TypeOK'
  BY RowTypes DEF IInv, TypeOK, Completed, Arrives, Current, ValidLease, TokenMatches,
         Moved, NoMoney, Results, gameVars, gatewayVars, WithdrawalRows,
         WithdrawalStatuses, WithdrawalErrors, JobErrors
<1>2. JobsAgree'
  <2>1. JobAgrees(m.w)'
    <3>1. job'[m.w] = Complete(job[m.w]) /\ wd'[m.w] = [status |-> "paid", err |-> "none"]
      BY <1>a, <1>b DEF Completed, Moved, IInv, TypeOK
    <3>2. job'[m.w].status = "completed"
      BY <1>a, <3>1 DEF Complete, JobRows
    <3>3. QED
      BY <3>1, <3>2 DEF JobAgrees
  <2>2. \A x \in Withdrawals \ {m.w} : job'[x] = job[x] /\ wd'[x] = wd[x]
    BY DEF Completed, Moved, IInv, TypeOK
  <2>3. ASSUME NEW x \in Withdrawals \ {m.w} PROVE JobAgrees(x)'
    BY <2>2 DEF IInv, JobsAgree, JobAgrees
  <2>4. QED
    BY <2>1, <2>3 DEF JobsAgree
<1>3. BotAgrees'
  BY DEF IInv, TypeOK, Completed, Arrives, Current, ValidLease, TokenMatches, Moved,
         NoMoney, Complete, gameVars, gatewayVars, JobsAgree, JobAgrees, BotAgrees,
         CommandsAgree, ResultsAgree, OneOpenPerPlayer, Open, OpenStatuses, Clean,
         Settled, BotStates, Idle, WithdrawalRows, JobRows
<1>4. CommandsAgree'
  BY DEF IInv, TypeOK, Completed, Arrives, Current, ValidLease, TokenMatches, Moved,
         NoMoney, Complete, gameVars, gatewayVars, JobsAgree, JobAgrees, BotAgrees,
         CommandsAgree, ResultsAgree, MoneyAgrees, Clean, Settled, BotStates, Idle,
         Results, WithdrawalRows, JobRows
<1>5. ResultsAgree'
  BY DEF IInv, TypeOK, Completed, Arrives, Current, ValidLease, TokenMatches, Moved,
         NoMoney, Complete, gameVars, gatewayVars, JobsAgree, JobAgrees, BotAgrees,
         CommandsAgree, ResultsAgree, Clean, Settled, Results, BotStates, Idle,
         WithdrawalRows, JobRows
<1>6. MoneyAgrees'
  BY DEF IInv, TypeOK, Completed, Arrives, Current, ValidLease, TokenMatches, Moved,
         NoMoney, gameVars, gatewayVars, JobsAgree, JobAgrees, BotAgrees, CommandsAgree,
         ResultsAgree, MoneyAgrees, BookedOnlyWhatWasPaid, LedgerMatchesStatus,
         Returned, Debit, Refund, Clean, Settled, Open, OpenStatuses, Results,
         WithdrawalRows
<1>7. OneOpenPerPlayer'
  BY DEF IInv, TypeOK, Completed, Arrives, Current, ValidLease, TokenMatches, Moved,
         NoMoney, Complete, gameVars, gatewayVars, JobsAgree, JobAgrees,
         OneOpenPerPlayer, Open, OpenStatuses, Results, WithdrawalRows
<1>8. QED
  BY <1>1, <1>2, <1>3, <1>4, <1>5, <1>6, <1>7 DEF IInv

LEMMA ShortOfFundsKeeps ==
    ASSUME IInv, NEW m \in net, ShortOfFunds(m)
    PROVE  IInv'
<1>a. m.w \in Withdrawals /\ job[m.w] \in JobRows /\ wd[m.w] \in WithdrawalRows
  BY DEF IInv, TypeOK, Results
<1>b. job[m.w].status = "leased" /\ wd[m.w].status = "processing"
  BY <1>a DEF ShortOfFunds, Current, ValidLease, IInv, JobsAgree, JobAgrees
<1>1. TypeOK'
  BY RowTypes DEF IInv, TypeOK, ShortOfFunds, Arrives, Current, ValidLease,
         TokenMatches, Moved, NoMoney, Results, gameVars, gatewayVars, WithdrawalRows,
         WithdrawalStatuses, WithdrawalErrors, JobErrors
<1>2. JobsAgree'
  <2>1. JobAgrees(m.w)'
    <3>1. job'[m.w] = RequeueForFunds(job[m.w]) /\ wd'[m.w] = [status |-> "queued", err |-> "PAYOUT_INSUFFICIENT_FUNDS"]
      BY <1>a, <1>b DEF ShortOfFunds, Moved, IInv, TypeOK
    <3>2. job'[m.w].status = "queued" /\ job'[m.w].attempts < MaxAttempts /\ job'[m.w].avail = "later"
      BY <1>a, <3>1 DEF RequeueForFunds, JobRows
    <3>3. QED
      BY <3>1, <3>2 DEF JobAgrees
  <2>2. \A x \in Withdrawals \ {m.w} : job'[x] = job[x] /\ wd'[x] = wd[x]
    BY DEF ShortOfFunds, Moved, IInv, TypeOK
  <2>3. ASSUME NEW x \in Withdrawals \ {m.w} PROVE JobAgrees(x)'
    BY <2>2 DEF IInv, JobsAgree, JobAgrees
  <2>4. QED
    BY <2>1, <2>3 DEF JobsAgree
<1>3. BotAgrees'
  BY DEF IInv, TypeOK, ShortOfFunds, Arrives, Current, ValidLease, TokenMatches, Moved,
         NoMoney, RequeueForFunds, gameVars, gatewayVars, JobsAgree, JobAgrees,
         BotAgrees, CommandsAgree, ResultsAgree, OneOpenPerPlayer, Open, OpenStatuses,
         Clean, Settled, BotStates, Idle, WithdrawalRows, JobRows
<1>4. CommandsAgree'
  BY DEF IInv, TypeOK, ShortOfFunds, Arrives, Current, ValidLease, TokenMatches, Moved,
         NoMoney, RequeueForFunds, gameVars, gatewayVars, JobsAgree, JobAgrees,
         BotAgrees, CommandsAgree, ResultsAgree, MoneyAgrees, Clean, Settled, BotStates,
         Idle, Results, WithdrawalRows, JobRows
<1>5. ResultsAgree'
  BY DEF IInv, TypeOK, ShortOfFunds, Arrives, Current, ValidLease, TokenMatches, Moved,
         NoMoney, RequeueForFunds, gameVars, gatewayVars, JobsAgree, JobAgrees,
         BotAgrees, CommandsAgree, ResultsAgree, Clean, Settled, Results, BotStates,
         Idle, WithdrawalRows, JobRows
<1>6. MoneyAgrees'
  BY DEF IInv, TypeOK, ShortOfFunds, Arrives, Current, ValidLease, TokenMatches, Moved,
         NoMoney, gameVars, gatewayVars, JobsAgree, JobAgrees, BotAgrees, CommandsAgree,
         ResultsAgree, MoneyAgrees, BookedOnlyWhatWasPaid, LedgerMatchesStatus,
         Returned, Debit, Refund, Clean, Settled, Open, OpenStatuses, Results,
         WithdrawalRows
<1>7. OneOpenPerPlayer'
  BY DEF IInv, TypeOK, ShortOfFunds, Arrives, Current, ValidLease, TokenMatches, Moved,
         NoMoney, RequeueForFunds, gameVars, gatewayVars, JobsAgree, JobAgrees,
         OneOpenPerPlayer, Open, OpenStatuses, Results, WithdrawalRows
<1>8. QED
  BY <1>1, <1>2, <1>3, <1>4, <1>5, <1>6, <1>7 DEF IInv

LEMMA FailedNotSentKeeps ==
    ASSUME IInv, NEW m \in net, FailedNotSent(m)
    PROVE  IInv'
<1>a. m.w \in Withdrawals /\ job[m.w] \in JobRows /\ wd[m.w] \in WithdrawalRows
  BY DEF IInv, TypeOK, Results
<1>b. job[m.w].status = "leased" /\ wd[m.w].status = "processing"
  BY <1>a DEF FailedNotSent, OtherFailure, Current, ValidLease, IInv, JobsAgree, JobAgrees
<1>c. Clean(m.w) /\ m.err = "PAYOUT_NOT_SENT"
  BY DEF FailedNotSent, IInv, ResultsAgree
<1>d. /\ wd' = [wd EXCEPT ![m.w] = [status |-> "failed", err |-> "PAYOUT_NOT_SENT"]]
      /\ wallet' = [wallet EXCEPT ![Owner[m.w]] = @ + Amount[m.w]]
      /\ ledger' = ledger \cup {Refund(m.w)}
      /\ job' = [job EXCEPT ![m.w] = DeadLetter(job[m.w], "PAYOUT_NOT_SENT")]
  BY <1>b, <1>c DEF FailedNotSent, RefundTo, Open, OpenStatuses
<1>e. /\ net' = net \ {m} /\ net' \subseteq net
      /\ UNCHANGED <<bot, received, inGame, booked, line, funds, landed>>
  BY DEF FailedNotSent, Arrives, gameVars
<1>f. \A x \in Withdrawals \ {m.w} : job'[x] = job[x] /\ wd'[x] = wd[x]
  BY <1>d DEF IInv, TypeOK
<1>g. wd'[m.w].status = "failed"
  BY <1>a, <1>d DEF IInv, TypeOK
<1>1. TypeOK'
  <2>1. wd' \in [Withdrawals -> WithdrawalRows]
    <3>1. [status |-> "failed", err |-> "PAYOUT_NOT_SENT"] \in WithdrawalRows
      BY DEF WithdrawalRows, WithdrawalStatuses, WithdrawalErrors, JobErrors
    <3>2. QED
      BY <1>d, <3>1 DEF IInv, TypeOK
  <2>2. job' \in [Withdrawals -> JobRows]
    BY RowTypes DEF IInv, TypeOK, FailedNotSent, Arrives, OtherFailure, Terminal,
           OutOfAttempts, Current, ValidLease, TokenMatches, RefundTo, NoMoney,
           gameVars, gatewayVars, JobErrors, Results
  <2>3. bot' \in BotStates
    BY DEF IInv, TypeOK, FailedNotSent, Arrives, OtherFailure, Terminal, OutOfAttempts,
           Current, ValidLease, TokenMatches, RefundTo, NoMoney, gameVars, gatewayVars,
           BotStates, Idle, Answers
  <2>4. net' \subseteq Results
    BY DEF IInv, TypeOK, FailedNotSent, Arrives, OtherFailure, Terminal, OutOfAttempts,
           Current, ValidLease, TokenMatches, RefundTo, NoMoney, gameVars, gatewayVars,
           BotAgrees, BotStates, Results, JobErrors, Idle
  <2>5. wallet' \in [Users -> Nat] /\ line' \in Seq(Withdrawals) /\ funds' \in 0..MaxFunds
    BY <1>a, <1>d, <1>e DEF IInv, TypeOK
  <2>6. /\ inGame' \subseteq Withdrawals \X Tokens
        /\ ledger' \subseteq {"cash_withdrawal", "cash_withdrawal_refund"} \X Withdrawals
        /\ received' \in [Withdrawals -> Nat]
    BY DEF IInv, TypeOK, FailedNotSent, Arrives, OtherFailure, Terminal, OutOfAttempts,
           Current, ValidLease, TokenMatches, RefundTo, NoMoney, gameVars, gatewayVars,
           Debit, Refund, BotAgrees, BotStates, Results, Idle
  <2>7. /\ botRow' \in {"online", "offline", "quarantined"}
        /\ landed' \in BOOLEAN /\ booked' \subseteq Withdrawals
    BY DEF IInv, TypeOK, FailedNotSent, Arrives, OtherFailure, Terminal, OutOfAttempts,
           Current, ValidLease, TokenMatches, RefundTo, NoMoney, gameVars, gatewayVars,
           Results
  <2>8. QED
    BY <2>1, <2>2, <2>3, <2>4, <2>5, <2>6, <2>7 DEF TypeOK
<1>2. JobsAgree'
  <2>1. job'[m.w].status = "dead_letter" /\ job'[m.w].err = "PAYOUT_NOT_SENT"
    BY <1>a, <1>d DEF IInv, TypeOK, DeadLetter, JobRows
  <2>2. JobAgrees(m.w)'
    BY <1>g, <2>1 DEF JobAgrees
  <2>3. ASSUME NEW x \in Withdrawals \ {m.w} PROVE JobAgrees(x)'
    BY <1>f DEF IInv, JobsAgree, JobAgrees
  <2>4. QED
    BY <2>2, <2>3 DEF JobsAgree
<1>3. BotAgrees'
  BY DEF IInv, TypeOK, FailedNotSent, Arrives, OtherFailure, Terminal, OutOfAttempts,
         Current, ValidLease, TokenMatches, RefundTo, NoMoney, DeadLetter, gameVars,
         gatewayVars, JobsAgree, JobAgrees, BotAgrees, CommandsAgree, ResultsAgree,
         OneOpenPerPlayer, Open, OpenStatuses, Clean, Settled, BotStates, Idle,
         WithdrawalRows, JobRows
<1>4. CommandsAgree'
  BY DEF IInv, TypeOK, FailedNotSent, Arrives, OtherFailure, Terminal, OutOfAttempts,
         Current, ValidLease, TokenMatches, RefundTo, NoMoney, DeadLetter, gameVars,
         gatewayVars, JobsAgree, JobAgrees, BotAgrees, CommandsAgree, ResultsAgree,
         MoneyAgrees, Clean, Settled, BotStates, Idle, Results, WithdrawalRows, JobRows
<1>5. ResultsAgree'
  <2>1. \A n \in net' : n.w \in Withdrawals \ {m.w}
    BY <1>e DEF IInv, TypeOK, Results, ResultsAgree
  <2>2. QED
    BY <1>e, <1>f, <2>1 DEF IInv, ResultsAgree, Clean, Settled
<1>6. MoneyAgrees'
  <2>1. received[m.w] = 0
    BY <1>c DEF Clean
  <2>2. LedgerMatchesStatus'
    BY <1>a, <1>b, <1>d, <1>f, <1>g DEF IInv, TypeOK, MoneyAgrees, LedgerMatchesStatus, Returned,
                                        Debit, Refund
  <2>3. QED
    BY <1>a, <1>e, <1>f, <1>g, <2>1, <2>2 DEF IInv, MoneyAgrees, BookedOnlyWhatWasPaid
<1>7. OneOpenPerPlayer'
  <2>1. \A x \in Withdrawals : Open(x)' => Open(x)
    BY <1>f, <1>g DEF Open, OpenStatuses
  <2>2. QED
    BY <2>1 DEF IInv, OneOpenPerPlayer
<1>8. QED
  BY <1>1, <1>2, <1>3, <1>4, <1>5, <1>6, <1>7 DEF IInv

LEMMA FailedUnknownKeeps ==
    ASSUME IInv, NEW m \in net, FailedUnknown(m)
    PROVE  IInv'
<1>a. m.w \in Withdrawals /\ job[m.w] \in JobRows /\ wd[m.w] \in WithdrawalRows
  BY DEF IInv, TypeOK, Results
<1>b. job[m.w].status = "leased" /\ wd[m.w].status = "processing"
  BY <1>a DEF FailedUnknown, OtherFailure, Current, ValidLease, IInv, JobsAgree, JobAgrees
<1>1. TypeOK'
  BY RowTypes DEF IInv, TypeOK, FailedUnknown, Arrives, OtherFailure, Terminal,
         OutOfAttempts, Current, ValidLease, TokenMatches, Moved, NoMoney, Results,
         gameVars, gatewayVars, WithdrawalRows, WithdrawalStatuses, WithdrawalErrors,
         JobErrors
<1>2. JobsAgree'
  <2>1. JobAgrees(m.w)'
    <3>1. job'[m.w] = DeadLetter(job[m.w], m.err) /\ wd'[m.w] = [status |-> "manual_review", err |-> m.err]
      BY <1>a, <1>b DEF FailedUnknown, Moved, IInv, TypeOK
    <3>2. job'[m.w].status = "dead_letter" /\ job'[m.w].err \notin {"BOT_QUARANTINED", "LEASE_EXPIRED"}
      BY <1>a, <3>1 DEF DeadLetter, JobRows, IInv, ResultsAgree
    <3>3. QED
      BY <3>1, <3>2 DEF JobAgrees
  <2>2. \A x \in Withdrawals \ {m.w} : job'[x] = job[x] /\ wd'[x] = wd[x]
    BY DEF FailedUnknown, Moved, IInv, TypeOK
  <2>3. ASSUME NEW x \in Withdrawals \ {m.w} PROVE JobAgrees(x)'
    BY <2>2 DEF IInv, JobsAgree, JobAgrees
  <2>4. QED
    BY <2>1, <2>3 DEF JobsAgree
<1>3. BotAgrees'
  BY DEF IInv, TypeOK, FailedUnknown, Arrives, OtherFailure, Terminal, OutOfAttempts,
         Current, ValidLease, TokenMatches, Moved, NoMoney, DeadLetter, gameVars,
         gatewayVars, JobsAgree, JobAgrees, BotAgrees, CommandsAgree, ResultsAgree,
         OneOpenPerPlayer, Open, OpenStatuses, Clean, Settled, BotStates, Idle,
         WithdrawalRows, JobRows
<1>4. CommandsAgree'
  BY DEF IInv, TypeOK, FailedUnknown, Arrives, OtherFailure, Terminal, OutOfAttempts,
         Current, ValidLease, TokenMatches, Moved, NoMoney, DeadLetter, gameVars,
         gatewayVars, JobsAgree, JobAgrees, BotAgrees, CommandsAgree, ResultsAgree,
         MoneyAgrees, Clean, Settled, BotStates, Idle, Results, WithdrawalRows, JobRows
<1>5. ResultsAgree'
  BY DEF IInv, TypeOK, FailedUnknown, Arrives, OtherFailure, Terminal, OutOfAttempts,
         Current, ValidLease, TokenMatches, Moved, NoMoney, DeadLetter, gameVars,
         gatewayVars, JobsAgree, JobAgrees, BotAgrees, CommandsAgree, ResultsAgree,
         Clean, Settled, Results, BotStates, Idle, WithdrawalRows, JobRows
<1>6. MoneyAgrees'
  BY DEF IInv, TypeOK, FailedUnknown, Arrives, OtherFailure, Terminal, OutOfAttempts,
         Current, ValidLease, TokenMatches, Moved, NoMoney, gameVars, gatewayVars,
         JobsAgree, JobAgrees, BotAgrees, CommandsAgree, ResultsAgree, MoneyAgrees,
         BookedOnlyWhatWasPaid, LedgerMatchesStatus, Returned, Debit, Refund, Clean,
         Settled, Open, OpenStatuses, Results, WithdrawalRows
<1>7. OneOpenPerPlayer'
  BY DEF IInv, TypeOK, FailedUnknown, Arrives, OtherFailure, Terminal, OutOfAttempts,
         Current, ValidLease, TokenMatches, Moved, NoMoney, DeadLetter, gameVars,
         gatewayVars, JobsAgree, JobAgrees, OneOpenPerPlayer, Open, OpenStatuses,
         Results, WithdrawalRows
<1>8. QED
  BY <1>1, <1>2, <1>3, <1>4, <1>5, <1>6, <1>7 DEF IInv

LEMMA FailedRetryKeeps ==
    ASSUME IInv, NEW m \in net, FailedRetry(m)
    PROVE  IInv'
<1>a. m.w \in Withdrawals /\ job[m.w] \in JobRows /\ wd[m.w] \in WithdrawalRows
  BY DEF IInv, TypeOK, Results
<1>b. job[m.w].status = "leased" /\ wd[m.w].status = "processing"
  BY <1>a DEF FailedRetry, OtherFailure, Current, ValidLease, IInv, JobsAgree, JobAgrees
<1>1. TypeOK'
  BY RowTypes DEF IInv, TypeOK, FailedRetry, Arrives, OtherFailure, Terminal,
         OutOfAttempts, Current, ValidLease, TokenMatches, Moved, NoMoney, Results,
         gameVars, gatewayVars, WithdrawalRows, WithdrawalStatuses, WithdrawalErrors,
         JobErrors
<1>2. JobsAgree'
  <2>1. JobAgrees(m.w)'
    <3>1. job'[m.w] = Requeue(job[m.w], m.err) /\ wd'[m.w] = [status |-> "queued", err |-> m.err]
      BY <1>a, <1>b DEF FailedRetry, Moved, IInv, TypeOK
    <3>2. job'[m.w].status = "queued" /\ job'[m.w].attempts < MaxAttempts /\ job'[m.w].avail = "later"
      <4>1. ~OutOfAttempts(job[m.w])
        BY DEF FailedRetry, Terminal
      <4>2. job[m.w].attempts < MaxAttempts
        BY <1>a, <4>1 DEF OutOfAttempts, JobRows
      <4>3. QED
        BY <1>a, <3>1, <4>2 DEF Requeue, JobRows
    <3>3. QED
      BY <3>1, <3>2 DEF JobAgrees
  <2>2. \A x \in Withdrawals \ {m.w} : job'[x] = job[x] /\ wd'[x] = wd[x]
    BY DEF FailedRetry, Moved, IInv, TypeOK
  <2>3. ASSUME NEW x \in Withdrawals \ {m.w} PROVE JobAgrees(x)'
    BY <2>2 DEF IInv, JobsAgree, JobAgrees
  <2>4. QED
    BY <2>1, <2>3 DEF JobsAgree
<1>3. BotAgrees'
  BY DEF IInv, TypeOK, FailedRetry, Arrives, OtherFailure, Terminal, OutOfAttempts,
         Current, ValidLease, TokenMatches, Moved, NoMoney, Requeue, gameVars,
         gatewayVars, JobsAgree, JobAgrees, BotAgrees, CommandsAgree, ResultsAgree,
         OneOpenPerPlayer, Open, OpenStatuses, Clean, Settled, BotStates, Idle,
         WithdrawalRows, JobRows
<1>4. CommandsAgree'
  BY DEF IInv, TypeOK, FailedRetry, Arrives, OtherFailure, Terminal, OutOfAttempts,
         Current, ValidLease, TokenMatches, Moved, NoMoney, Requeue, gameVars,
         gatewayVars, JobsAgree, JobAgrees, BotAgrees, CommandsAgree, ResultsAgree,
         MoneyAgrees, Clean, Settled, BotStates, Idle, Results, WithdrawalRows, JobRows
<1>5. ResultsAgree'
  BY DEF IInv, TypeOK, FailedRetry, Arrives, OtherFailure, Terminal, OutOfAttempts,
         Current, ValidLease, TokenMatches, Moved, NoMoney, Requeue, gameVars,
         gatewayVars, JobsAgree, JobAgrees, BotAgrees, CommandsAgree, ResultsAgree,
         Clean, Settled, Results, BotStates, Idle, WithdrawalRows, JobRows
<1>6. MoneyAgrees'
  BY DEF IInv, TypeOK, FailedRetry, Arrives, OtherFailure, Terminal, OutOfAttempts,
         Current, ValidLease, TokenMatches, Moved, NoMoney, gameVars, gatewayVars,
         JobsAgree, JobAgrees, BotAgrees, CommandsAgree, ResultsAgree, MoneyAgrees,
         BookedOnlyWhatWasPaid, LedgerMatchesStatus, Returned, Debit, Refund, Clean,
         Settled, Open, OpenStatuses, Results, WithdrawalRows
<1>7. OneOpenPerPlayer'
  BY DEF IInv, TypeOK, FailedRetry, Arrives, OtherFailure, Terminal, OutOfAttempts,
         Current, ValidLease, TokenMatches, Moved, NoMoney, Requeue, gameVars,
         gatewayVars, JobsAgree, JobAgrees, OneOpenPerPlayer, Open, OpenStatuses,
         Results, WithdrawalRows
<1>8. QED
  BY <1>1, <1>2, <1>3, <1>4, <1>5, <1>6, <1>7 DEF IInv

LEMMA LoseResultKeeps ==
    ASSUME IInv, NEW m \in net, LoseResult(m)
    PROVE  IInv'
<1>1. TypeOK'
  BY RowTypes DEF IInv, TypeOK, LoseResult, gameVars, gatewayVars, WithdrawalRows,
         WithdrawalStatuses, WithdrawalErrors, JobErrors
<1>2. JobsAgree'
  BY DEF IInv, TypeOK, LoseResult, gameVars, gatewayVars, JobsAgree, JobAgrees,
         BotAgrees, CommandsAgree, ResultsAgree, MoneyAgrees, WithdrawalRows, JobRows
<1>3. BotAgrees'
  BY DEF IInv, TypeOK, LoseResult, gameVars, gatewayVars, JobsAgree, JobAgrees,
         BotAgrees, CommandsAgree, ResultsAgree, OneOpenPerPlayer, Open, OpenStatuses,
         Clean, Settled, BotStates, Idle, WithdrawalRows, JobRows
<1>4. CommandsAgree'
  BY DEF IInv, TypeOK, LoseResult, gameVars, gatewayVars, JobsAgree, JobAgrees,
         BotAgrees, CommandsAgree, ResultsAgree, MoneyAgrees, Clean, Settled, BotStates,
         Idle, Results, WithdrawalRows, JobRows
<1>5. ResultsAgree'
  BY DEF IInv, TypeOK, LoseResult, gameVars, gatewayVars, JobsAgree, JobAgrees,
         BotAgrees, CommandsAgree, ResultsAgree, Clean, Settled, Results, BotStates,
         Idle, WithdrawalRows, JobRows
<1>6. MoneyAgrees'
  BY DEF IInv, TypeOK, LoseResult, gameVars, gatewayVars, JobsAgree, JobAgrees,
         BotAgrees, CommandsAgree, ResultsAgree, MoneyAgrees, BookedOnlyWhatWasPaid,
         LedgerMatchesStatus, Returned, Debit, Refund, Clean, Settled, Open,
         OpenStatuses, Results, WithdrawalRows
<1>7. OneOpenPerPlayer'
  BY DEF IInv, TypeOK, LoseResult, gameVars, gatewayVars, JobsAgree, JobAgrees,
         OneOpenPerPlayer, Open, OpenStatuses, Results, WithdrawalRows
<1>8. QED
  BY <1>1, <1>2, <1>3, <1>4, <1>5, <1>6, <1>7 DEF IInv

LEMMA BecomeDueKeeps ==
    ASSUME IInv, NEW w \in Withdrawals, BecomeDue(w)
    PROVE  IInv'
<1>1. TypeOK'
  <2>1. wd' \in [Withdrawals -> WithdrawalRows]
    BY DEF IInv, TypeOK, BecomeDue, gameVars, gatewayVars, WithdrawalRows,
           WithdrawalStatuses, WithdrawalErrors, JobErrors, Results
  <2>2. job' \in [Withdrawals -> JobRows]
    <3>1. job[w] \in JobRows
      BY DEF IInv, TypeOK
    <3>2. [job[w] EXCEPT !.avail = "due"] \in JobRows
      BY <3>1 DEF JobRows, Availability
    <3>3. QED
      BY <3>2 DEF IInv, TypeOK, BecomeDue
  <2>3. bot' \in BotStates
    BY DEF IInv, TypeOK, BecomeDue, gameVars, gatewayVars, BotStates, Idle, Answers
  <2>4. net' \subseteq Results
    BY DEF IInv, TypeOK, BecomeDue, gameVars, gatewayVars, BotAgrees, BotStates,
           Results, JobErrors, Idle
  <2>5. wallet' \in [Users -> Nat] /\ line' \in Seq(Withdrawals) /\ funds' \in 0..MaxFunds
    BY DEF IInv, TypeOK, BecomeDue, gameVars, gatewayVars, QueueJob
  <2>6. /\ inGame' \subseteq Withdrawals \X Tokens
        /\ ledger' \subseteq {"cash_withdrawal", "cash_withdrawal_refund"} \X Withdrawals
        /\ received' \in [Withdrawals -> Nat]
    BY DEF IInv, TypeOK, BecomeDue, gameVars, gatewayVars, Debit, Refund, BotAgrees,
           BotStates, Results, Idle
  <2>7. /\ botRow' \in {"online", "offline", "quarantined"}
        /\ landed' \in BOOLEAN /\ booked' \subseteq Withdrawals
    BY DEF IInv, TypeOK, BecomeDue, gameVars, gatewayVars, Results
  <2>8. QED
    BY <2>1, <2>2, <2>3, <2>4, <2>5, <2>6, <2>7 DEF TypeOK
<1>2. JobsAgree'
  BY DEF IInv, TypeOK, BecomeDue, gameVars, gatewayVars, JobsAgree, JobAgrees,
         BotAgrees, CommandsAgree, ResultsAgree, MoneyAgrees, WithdrawalRows, JobRows
<1>3. BotAgrees'
  BY DEF IInv, TypeOK, BecomeDue, gameVars, gatewayVars, JobsAgree, JobAgrees,
         BotAgrees, CommandsAgree, ResultsAgree, OneOpenPerPlayer, Open, OpenStatuses,
         Clean, Settled, BotStates, Idle, WithdrawalRows, JobRows
<1>4. CommandsAgree'
  BY DEF IInv, TypeOK, BecomeDue, gameVars, gatewayVars, JobsAgree, JobAgrees,
         BotAgrees, CommandsAgree, ResultsAgree, MoneyAgrees, Clean, Settled, BotStates,
         Idle, Results, WithdrawalRows, JobRows
<1>5. ResultsAgree'
  BY DEF IInv, TypeOK, BecomeDue, gameVars, gatewayVars, JobsAgree, JobAgrees,
         BotAgrees, CommandsAgree, ResultsAgree, Clean, Settled, Results, BotStates,
         Idle, WithdrawalRows, JobRows
<1>6. MoneyAgrees'
  BY DEF IInv, TypeOK, BecomeDue, gameVars, gatewayVars, JobsAgree, JobAgrees,
         BotAgrees, CommandsAgree, ResultsAgree, MoneyAgrees, BookedOnlyWhatWasPaid,
         LedgerMatchesStatus, Returned, Debit, Refund, Clean, Settled, Open,
         OpenStatuses, Results, WithdrawalRows
<1>7. OneOpenPerPlayer'
  BY DEF IInv, TypeOK, BecomeDue, gameVars, gatewayVars, JobsAgree, JobAgrees,
         OneOpenPerPlayer, Open, OpenStatuses, Results, WithdrawalRows
<1>8. QED
  BY <1>1, <1>2, <1>3, <1>4, <1>5, <1>6, <1>7 DEF IInv

LEMMA LeaseLapsesKeeps ==
    ASSUME IInv, NEW w \in Withdrawals, LeaseLapses(w)
    PROVE  IInv'
<1>1. TypeOK'
  <2>1. wd' \in [Withdrawals -> WithdrawalRows]
    BY DEF IInv, TypeOK, LeaseLapses, gameVars, gatewayVars, WithdrawalRows,
           WithdrawalStatuses, WithdrawalErrors, JobErrors, Results
  <2>2. job' \in [Withdrawals -> JobRows]
    <3>1. job[w] \in JobRows
      BY DEF IInv, TypeOK
    <3>2. [job[w] EXCEPT !.lapsed = TRUE] \in JobRows
      BY <3>1 DEF JobRows
    <3>3. QED
      BY <3>2 DEF IInv, TypeOK, LeaseLapses
  <2>3. bot' \in BotStates
    BY DEF IInv, TypeOK, LeaseLapses, gameVars, gatewayVars, BotStates, Idle, Answers
  <2>4. net' \subseteq Results
    BY DEF IInv, TypeOK, LeaseLapses, gameVars, gatewayVars, BotAgrees, BotStates,
           Results, JobErrors, Idle
  <2>5. wallet' \in [Users -> Nat] /\ line' \in Seq(Withdrawals) /\ funds' \in 0..MaxFunds
    BY DEF IInv, TypeOK, LeaseLapses, gameVars, gatewayVars, QueueJob
  <2>6. /\ inGame' \subseteq Withdrawals \X Tokens
        /\ ledger' \subseteq {"cash_withdrawal", "cash_withdrawal_refund"} \X Withdrawals
        /\ received' \in [Withdrawals -> Nat]
    BY DEF IInv, TypeOK, LeaseLapses, gameVars, gatewayVars, Debit, Refund, BotAgrees,
           BotStates, Results, Idle
  <2>7. /\ botRow' \in {"online", "offline", "quarantined"}
        /\ landed' \in BOOLEAN /\ booked' \subseteq Withdrawals
    BY DEF IInv, TypeOK, LeaseLapses, gameVars, gatewayVars, Results
  <2>8. QED
    BY <2>1, <2>2, <2>3, <2>4, <2>5, <2>6, <2>7 DEF TypeOK
<1>2. JobsAgree'
  BY DEF IInv, TypeOK, LeaseLapses, gameVars, gatewayVars, JobsAgree, JobAgrees,
         BotAgrees, CommandsAgree, ResultsAgree, MoneyAgrees, WithdrawalRows, JobRows
<1>3. BotAgrees'
  BY DEF IInv, TypeOK, LeaseLapses, gameVars, gatewayVars, JobsAgree, JobAgrees,
         BotAgrees, CommandsAgree, ResultsAgree, OneOpenPerPlayer, Open, OpenStatuses,
         Clean, Settled, BotStates, Idle, WithdrawalRows, JobRows
<1>4. CommandsAgree'
  BY DEF IInv, TypeOK, LeaseLapses, gameVars, gatewayVars, JobsAgree, JobAgrees,
         BotAgrees, CommandsAgree, ResultsAgree, MoneyAgrees, Clean, Settled, BotStates,
         Idle, Results, WithdrawalRows, JobRows
<1>5. ResultsAgree'
  BY DEF IInv, TypeOK, LeaseLapses, gameVars, gatewayVars, JobsAgree, JobAgrees,
         BotAgrees, CommandsAgree, ResultsAgree, Clean, Settled, Results, BotStates,
         Idle, WithdrawalRows, JobRows
<1>6. MoneyAgrees'
  BY DEF IInv, TypeOK, LeaseLapses, gameVars, gatewayVars, JobsAgree, JobAgrees,
         BotAgrees, CommandsAgree, ResultsAgree, MoneyAgrees, BookedOnlyWhatWasPaid,
         LedgerMatchesStatus, Returned, Debit, Refund, Clean, Settled, Open,
         OpenStatuses, Results, WithdrawalRows
<1>7. OneOpenPerPlayer'
  BY DEF IInv, TypeOK, LeaseLapses, gameVars, gatewayVars, JobsAgree, JobAgrees,
         OneOpenPerPlayer, Open, OpenStatuses, Results, WithdrawalRows
<1>8. QED
  BY <1>1, <1>2, <1>3, <1>4, <1>5, <1>6, <1>7 DEF IInv

LEMMA ReleaseKeeps ==
    ASSUME IInv, OperatorRelease
    PROVE  IInv'
<1>1. TypeOK'
  <2>1. wd' \in [Withdrawals -> WithdrawalRows]
    BY DEF IInv, TypeOK, OperatorRelease, gameVars, gatewayVars,
           WithdrawalRows, WithdrawalStatuses, WithdrawalErrors, JobErrors, Results
  <2>2. job' \in [Withdrawals -> JobRows]
    BY RowTypes DEF IInv, TypeOK, OperatorRelease, gameVars,
           gatewayVars, JobErrors, Results
  <2>3. bot' \in BotStates
    BY DEF IInv, TypeOK, OperatorRelease, gameVars, gatewayVars,
           BotStates, Idle, Answers
  <2>4. net' \subseteq Results
    BY DEF IInv, TypeOK, OperatorRelease, gameVars, gatewayVars,
           BotAgrees, BotStates, Results, JobErrors, Idle
  <2>5. wallet' \in [Users -> Nat] /\ line' \in Seq(Withdrawals) /\ funds' \in 0..MaxFunds
    BY DEF IInv, TypeOK, OperatorRelease, gameVars, gatewayVars,
           QueueJob
  <2>6. /\ inGame' \subseteq Withdrawals \X Tokens
        /\ ledger' \subseteq {"cash_withdrawal", "cash_withdrawal_refund"} \X Withdrawals
        /\ received' \in [Withdrawals -> Nat]
    BY DEF IInv, TypeOK, OperatorRelease, gameVars, gatewayVars,
           Debit, Refund, BotAgrees, BotStates, Results, Idle
  <2>7. /\ botRow' \in {"online", "offline", "quarantined"}
        /\ landed' \in BOOLEAN /\ booked' \subseteq Withdrawals
    BY DEF IInv, TypeOK, OperatorRelease, gameVars, gatewayVars,
           Results
  <2>8. QED
    BY <2>1, <2>2, <2>3, <2>4, <2>5, <2>6, <2>7 DEF TypeOK
<1>2. JobsAgree'
  BY DEF IInv, TypeOK, OperatorRelease, gameVars, gatewayVars,
         JobsAgree, JobAgrees, BotAgrees, CommandsAgree, ResultsAgree, MoneyAgrees,
         WithdrawalRows, JobRows
<1>3. BotAgrees'
  BY DEF IInv, TypeOK, OperatorRelease, gameVars, gatewayVars,
         JobsAgree, JobAgrees, BotAgrees, CommandsAgree, ResultsAgree, OneOpenPerPlayer,
         Open, OpenStatuses, Clean, Settled, BotStates, Idle, WithdrawalRows, JobRows
<1>4. CommandsAgree'
  BY DEF IInv, TypeOK, OperatorRelease, gameVars, gatewayVars,
         JobsAgree, JobAgrees, BotAgrees, CommandsAgree, ResultsAgree, MoneyAgrees,
         Clean, Settled, BotStates, Idle, Results, WithdrawalRows, JobRows
<1>5. ResultsAgree'
  BY DEF IInv, TypeOK, OperatorRelease, gameVars, gatewayVars,
         JobsAgree, JobAgrees, BotAgrees, CommandsAgree, ResultsAgree, Clean, Settled,
         Results, BotStates, Idle, WithdrawalRows, JobRows
<1>6. MoneyAgrees'
  BY DEF IInv, TypeOK, OperatorRelease, gameVars, gatewayVars,
         JobsAgree, JobAgrees, BotAgrees, CommandsAgree, ResultsAgree, MoneyAgrees,
         BookedOnlyWhatWasPaid, LedgerMatchesStatus, Returned, Debit, Refund, Clean,
         Settled, Open, OpenStatuses, Results, WithdrawalRows
<1>7. OneOpenPerPlayer'
  BY DEF IInv, TypeOK, OperatorRelease, gameVars, gatewayVars,
         JobsAgree, JobAgrees, OneOpenPerPlayer, Open, OpenStatuses, Results,
         WithdrawalRows
<1>8. QED
  BY <1>1, <1>2, <1>3, <1>4, <1>5, <1>6, <1>7 DEF IInv

LEMMA HeartbeatKeeps ==
    ASSUME IInv, Heartbeat
    PROVE  IInv'
<1>1. TypeOK'
  <2>1. wd' \in [Withdrawals -> WithdrawalRows]
    BY DEF IInv, TypeOK, Heartbeat, gameVars, gatewayVars,
           WithdrawalRows, WithdrawalStatuses, WithdrawalErrors, JobErrors, Results
  <2>2. job' \in [Withdrawals -> JobRows]
    BY RowTypes DEF IInv, TypeOK, Heartbeat, gameVars,
           gatewayVars, JobErrors, Results
  <2>3. bot' \in BotStates
    BY DEF IInv, TypeOK, Heartbeat, gameVars, gatewayVars,
           BotStates, Idle, Answers
  <2>4. net' \subseteq Results
    BY DEF IInv, TypeOK, Heartbeat, gameVars, gatewayVars,
           BotAgrees, BotStates, Results, JobErrors, Idle
  <2>5. wallet' \in [Users -> Nat] /\ line' \in Seq(Withdrawals) /\ funds' \in 0..MaxFunds
    BY DEF IInv, TypeOK, Heartbeat, gameVars, gatewayVars,
           QueueJob
  <2>6. /\ inGame' \subseteq Withdrawals \X Tokens
        /\ ledger' \subseteq {"cash_withdrawal", "cash_withdrawal_refund"} \X Withdrawals
        /\ received' \in [Withdrawals -> Nat]
    BY DEF IInv, TypeOK, Heartbeat, gameVars, gatewayVars,
           Debit, Refund, BotAgrees, BotStates, Results, Idle
  <2>7. /\ botRow' \in {"online", "offline", "quarantined"}
        /\ landed' \in BOOLEAN /\ booked' \subseteq Withdrawals
    BY DEF IInv, TypeOK, Heartbeat, gameVars, gatewayVars,
           Results
  <2>8. QED
    BY <2>1, <2>2, <2>3, <2>4, <2>5, <2>6, <2>7 DEF TypeOK
<1>2. JobsAgree'
  BY DEF IInv, TypeOK, Heartbeat, gameVars, gatewayVars,
         JobsAgree, JobAgrees, BotAgrees, CommandsAgree, ResultsAgree, MoneyAgrees,
         WithdrawalRows, JobRows
<1>3. BotAgrees'
  BY DEF IInv, TypeOK, Heartbeat, gameVars, gatewayVars,
         JobsAgree, JobAgrees, BotAgrees, CommandsAgree, ResultsAgree, OneOpenPerPlayer,
         Open, OpenStatuses, Clean, Settled, BotStates, Idle, WithdrawalRows, JobRows
<1>4. CommandsAgree'
  BY DEF IInv, TypeOK, Heartbeat, gameVars, gatewayVars,
         JobsAgree, JobAgrees, BotAgrees, CommandsAgree, ResultsAgree, MoneyAgrees,
         Clean, Settled, BotStates, Idle, Results, WithdrawalRows, JobRows
<1>5. ResultsAgree'
  BY DEF IInv, TypeOK, Heartbeat, gameVars, gatewayVars,
         JobsAgree, JobAgrees, BotAgrees, CommandsAgree, ResultsAgree, Clean, Settled,
         Results, BotStates, Idle, WithdrawalRows, JobRows
<1>6. MoneyAgrees'
  BY DEF IInv, TypeOK, Heartbeat, gameVars, gatewayVars,
         JobsAgree, JobAgrees, BotAgrees, CommandsAgree, ResultsAgree, MoneyAgrees,
         BookedOnlyWhatWasPaid, LedgerMatchesStatus, Returned, Debit, Refund, Clean,
         Settled, Open, OpenStatuses, Results, WithdrawalRows
<1>7. OneOpenPerPlayer'
  BY DEF IInv, TypeOK, Heartbeat, gameVars, gatewayVars,
         JobsAgree, JobAgrees, OneOpenPerPlayer, Open, OpenStatuses, Results,
         WithdrawalRows
<1>8. QED
  BY <1>1, <1>2, <1>3, <1>4, <1>5, <1>6, <1>7 DEF IInv

LEMMA MoneyLandsKeeps ==
    ASSUME IInv, NEW n \in 1..MaxFunds, MoneyLands(n)
    PROVE  IInv'
<1>1. TypeOK'
  <2>1. wd' \in [Withdrawals -> WithdrawalRows]
    BY DEF IInv, TypeOK, MoneyLands, gameVars, gatewayVars,
           WithdrawalRows, WithdrawalStatuses, WithdrawalErrors, JobErrors, Results
  <2>2. job' \in [Withdrawals -> JobRows]
    BY RowTypes DEF IInv, TypeOK, MoneyLands, gameVars,
           gatewayVars, JobErrors, Results
  <2>3. bot' \in BotStates
    BY DEF IInv, TypeOK, MoneyLands, gameVars, gatewayVars,
           BotStates, Idle, Answers
  <2>4. net' \subseteq Results
    BY DEF IInv, TypeOK, MoneyLands, gameVars, gatewayVars,
           BotAgrees, BotStates, Results, JobErrors, Idle
  <2>5. wallet' \in [Users -> Nat] /\ line' \in Seq(Withdrawals) /\ funds' \in 0..MaxFunds
    BY DEF IInv, TypeOK, MoneyLands, gameVars, gatewayVars,
           QueueJob
  <2>6. /\ inGame' \subseteq Withdrawals \X Tokens
        /\ ledger' \subseteq {"cash_withdrawal", "cash_withdrawal_refund"} \X Withdrawals
        /\ received' \in [Withdrawals -> Nat]
    BY DEF IInv, TypeOK, MoneyLands, gameVars, gatewayVars,
           Debit, Refund, BotAgrees, BotStates, Results, Idle
  <2>7. /\ botRow' \in {"online", "offline", "quarantined"}
        /\ landed' \in BOOLEAN /\ booked' \subseteq Withdrawals
    BY DEF IInv, TypeOK, MoneyLands, gameVars, gatewayVars,
           Results
  <2>8. QED
    BY <2>1, <2>2, <2>3, <2>4, <2>5, <2>6, <2>7 DEF TypeOK
<1>2. JobsAgree'
  BY DEF IInv, TypeOK, MoneyLands, gameVars, gatewayVars,
         JobsAgree, JobAgrees, BotAgrees, CommandsAgree, ResultsAgree, MoneyAgrees,
         WithdrawalRows, JobRows
<1>3. BotAgrees'
  BY DEF IInv, TypeOK, MoneyLands, gameVars, gatewayVars,
         JobsAgree, JobAgrees, BotAgrees, CommandsAgree, ResultsAgree, OneOpenPerPlayer,
         Open, OpenStatuses, Clean, Settled, BotStates, Idle, WithdrawalRows, JobRows
<1>4. CommandsAgree'
  BY DEF IInv, TypeOK, MoneyLands, gameVars, gatewayVars,
         JobsAgree, JobAgrees, BotAgrees, CommandsAgree, ResultsAgree, MoneyAgrees,
         Clean, Settled, BotStates, Idle, Results, WithdrawalRows, JobRows
<1>5. ResultsAgree'
  BY DEF IInv, TypeOK, MoneyLands, gameVars, gatewayVars,
         JobsAgree, JobAgrees, BotAgrees, CommandsAgree, ResultsAgree, Clean, Settled,
         Results, BotStates, Idle, WithdrawalRows, JobRows
<1>6. MoneyAgrees'
  BY DEF IInv, TypeOK, MoneyLands, gameVars, gatewayVars,
         JobsAgree, JobAgrees, BotAgrees, CommandsAgree, ResultsAgree, MoneyAgrees,
         BookedOnlyWhatWasPaid, LedgerMatchesStatus, Returned, Debit, Refund, Clean,
         Settled, Open, OpenStatuses, Results, WithdrawalRows
<1>7. OneOpenPerPlayer'
  BY DEF IInv, TypeOK, MoneyLands, gameVars, gatewayVars,
         JobsAgree, JobAgrees, OneOpenPerPlayer, Open, OpenStatuses, Results,
         WithdrawalRows
<1>8. QED
  BY <1>1, <1>2, <1>3, <1>4, <1>5, <1>6, <1>7 DEF IInv

-----------------------------------------------------------------------------
(* Every step                                                               *)

LEMMA OperatorKeeps ==
    ASSUME IInv, OperatorNext
    PROVE  IInv'
<1>1. ASSUME NEW w \in Withdrawals, HoldQueued({w})
      PROVE  IInv'
  BY <1>1, HoldKeeps, {w} \in SUBSET Withdrawals
<1>2. ASSUME NEW u \in Users, HoldQueued({w \in Withdrawals : Owner[w] = u})
      PROVE  IInv'
  BY <1>2, HoldKeeps, {w \in Withdrawals : Owner[w] = u} \in SUBSET Withdrawals
<1>3. CASE HoldQueued(Withdrawals)
  BY <1>3, HoldKeeps, Withdrawals \in SUBSET Withdrawals
<1>4. CASE OperatorRelease
  BY <1>4, ReleaseKeeps
<1>5. QED
  BY <1>1, <1>2, <1>3, <1>4, ApproveKeeps, RejectKeeps, ResolvePaidKeeps,
     ResolveNotPaidKeeps, QuarantineKeeps
     DEF OperatorNext

LEMMA ProcessResultKeeps ==
    ASSUME IInv, NEW m \in net, ProcessResult(m)
    PROVE  IInv'
  BY AcceptLateKeeps, RejectResultKeeps, CompletedKeeps, ShortOfFundsKeeps,
     FailedNotSentKeeps, FailedUnknownKeeps, FailedRetryKeeps
     DEF ProcessResult

LEMMA StutterKeeps ==
    ASSUME IInv, UNCHANGED vars
    PROVE  IInv'
<1>1. UNCHANGED <<wd, wallet, ledger, job, line, botRow, bot, net, inGame, received,
                  funds, landed, booked>>
  BY DEF vars, gatewayVars, gameVars
<1>2. TypeOK' /\ OneOpenPerPlayer'
  BY <1>1 DEF IInv, TypeOK, OneOpenPerPlayer, Open
<1>3. JobsAgree' /\ BotAgrees' /\ CommandsAgree' /\ ResultsAgree'
  BY <1>1 DEF IInv, JobsAgree, JobAgrees, BotAgrees, CommandsAgree, ResultsAgree, Clean, Settled
<1>4. MoneyAgrees'
  BY <1>1 DEF IInv, MoneyAgrees, BookedOnlyWhatWasPaid, LedgerMatchesStatus, Returned
<1>5. QED
  BY <1>2, <1>3, <1>4 DEF IInv

(* The invariant is inductive.                                              *)
LEMMA NextKeepsIInv == IInv /\ [Next]_vars => IInv'
<1> SUFFICES ASSUME IInv, [Next]_vars PROVE IInv'
  OBVIOUS
<1>1. ASSUME NEW w \in Withdrawals, NEW review \in BOOLEAN, RequestWithdrawal(w, review)
      PROVE  IInv'
  BY <1>1, RequestKeeps
<1>2. ASSUME NEW w \in Withdrawals, AutoSettlePaid(w) \/ AutoSettleNotPaid(w)
      PROVE  IInv'
  BY <1>2, AutoSettlePaidKeeps, AutoSettleNotPaidKeeps
<1>3. CASE OperatorNext
  BY <1>3, OperatorKeeps
<1>4. CASE ClaimNext
  BY <1>4, ClaimNothingKeeps, ClaimKeeps DEF ClaimNext
<1>5. CASE BotStep
  BY <1>5, NotSentKeeps, SendThrowsKeeps, SendPayKeeps, ReportAnswerKeeps DEF BotStep
<1>6. CASE BotCrash
  BY <1>6, CrashKeeps
<1>7. CASE GameNext
  BY <1>7, GamePaysKeeps, GameRefusesKeeps, MoneyLandsKeeps DEF GameNext
<1>8. ASSUME NEW m \in net, ProcessResult(m) \/ LoseResult(m)
      PROVE  IInv'
  BY <1>8, ProcessResultKeeps, LoseResultKeeps
<1>9. CASE MoneyReported \/ Heartbeat
  BY <1>9, MoneyReportedKeeps, HeartbeatKeeps
<1>10. CASE TimeNext
  BY <1>10, BecomeDueKeeps, LeaseLapsesKeeps DEF TimeNext
<1>11. CASE UNCHANGED vars
  BY <1>11, StutterKeeps
<1>12. QED
  BY <1>1, <1>2, <1>3, <1>4, <1>5, <1>6, <1>7, <1>8, <1>9, <1>10, <1>11 DEF Next

(* The inductive invariant holds in every reachable state.                  *)
THEOREM Inductive == Spec => []IInv
  BY InitIInv, NextKeepsIInv, PTL DEF Spec

-----------------------------------------------------------------------------
(* What follows                                                             *)

(* Every variable of the gateway, the bot and the game keeps its type.      *)
THEOREM TypeCorrect == Spec => []TypeOK
<1>1. IInv => TypeOK
  BY DEF IInv
<1>2. QED
  BY Inductive, <1>1, PTL

(* The game never pays a withdrawal twice, whatever was lost, late, crashed *)
(* or tried again between the gateway and the bot.                          *)
THEOREM PaidAtMostOnce == Spec => []NeverPaidTwice
<1>1. IInv => NeverPaidTwice
  BY DEF IInv, MoneyAgrees, NeverPaidTwice
<1>2. QED
  BY Inductive, <1>1, PTL

LEMMA ReceivedOnceOrNever ==
    ASSUME IInv, NEW w \in Withdrawals
    PROVE  received[w] = 0 \/ received[w] = 1
<1>1. received[w] \in Nat
  BY DEF IInv, TypeOK
<1>2. received[w] <= 1
  BY DEF IInv, MoneyAgrees
<1>3. QED
  BY <1>1, <1>2

(* A withdrawal whose money is back in the wallet was not paid and can no   *)
(* longer be: no command of it is under way and no bot has it in hand.      *)
THEOREM RefundIsSafe == Spec => []ReturnedMeansNotPaid
<1>1. IInv => ReturnedMeansNotPaid
  <2> SUFFICES ASSUME IInv, NEW w \in Withdrawals, Returned(w) PROVE ~CanBePaid(w)
    BY DEF ReturnedMeansNotPaid
  <2>1. ~(received[w] > 0)
    <3>1. received[w] = 0
      BY ReceivedOnceOrNever DEF IInv, MoneyAgrees, Returned
    <3>2. QED
      BY <3>1
  <2>2. \A t \in Tokens : <<w, t>> \notin inGame
    BY DEF IInv, CommandsAgree, Returned
  <2>3. bot.w # w
    BY DEF IInv, BotAgrees, Idle, Returned
  <2>4. QED
    BY <2>1, <2>2, <2>3 DEF CanBePaid
<1>2. QED
  BY Inductive, <1>1, PTL

(* The status "paid" is only ever written on a payment that happened, and   *)
(* happened once.                                                           *)
THEOREM PaidIsReal == Spec => []PaidMeansReceived
<1>1. IInv => PaidMeansReceived
  BY DEF IInv, MoneyAgrees, PaidMeansReceived
<1>2. QED
  BY Inductive, <1>1, PTL

(* One debit for each request that exists, one refund exactly for those     *)
(* whose money went back: the wallet's journal and the request agree.       *)
THEOREM JournalAgrees == Spec => []LedgerMatchesStatus
<1>1. IInv => LedgerMatchesStatus
  BY DEF IInv, MoneyAgrees
<1>2. QED
  BY Inductive, <1>1, PTL

(* The bot's tracked balance is only moved for a payout that left it.       *)
THEOREM BooksFollowTheGame == Spec => []BookedOnlyWhatWasPaid
<1>1. IInv => BookedOnlyWhatWasPaid
  BY DEF IInv, MoneyAgrees
<1>2. QED
  BY Inductive, <1>1, PTL

(* A payout that waits for an operator's approval is in nobody's hands and  *)
(* its job can be neither claimed nor woken.                                *)
THEOREM HoldIsSafe == Spec => []HeldIsNeverSent
<1>1. IInv => HeldIsNeverSent
  <2> SUFFICES ASSUME IInv, NEW w \in Withdrawals, wd[w].status = "pending_approval"
               PROVE  ~CanBePaid(w) /\ ~Claimable(job[w]) /\ ~WaitsForFunds(job[w])
    BY DEF HeldIsNeverSent
  <2>1. ~(received[w] > 0)
    <3>1. received[w] = 0
      BY ReceivedOnceOrNever DEF IInv, MoneyAgrees
    <3>2. QED
      BY <3>1
  <2>2. \A t \in Tokens : <<w, t>> \notin inGame
    BY DEF IInv, CommandsAgree
  <2>3. bot.w # w
    BY DEF IInv, BotAgrees, Idle
  <2>4. ~Claimable(job[w]) /\ ~WaitsForFunds(job[w])
    BY DEF IInv, JobsAgree, JobAgrees, Claimable, WaitsForFunds
  <2>5. ~CanBePaid(w)
    BY <2>1, <2>2, <2>3 DEF CanBePaid
  <2>6. QED
    BY <2>4, <2>5
<1>2. QED
  BY Inductive, <1>1, PTL

(* A payout in the queue has a job that will be handed out, one in progress *)
(* a lease that will run out, unless a quarantine killed the job.           *)
THEOREM NoneIsStranded == Spec => []NeverStranded
<1>1. IInv => NeverStranded
  <2> SUFFICES ASSUME IInv, NEW w \in Withdrawals
               PROVE  /\ wd[w].status = "queued" /\ ~KilledByQuarantine(w) =>
                            job[w].status = "queued" /\ job[w].avail # "parked" /\ ~OutOfAttempts(job[w])
                      /\ wd[w].status = "processing" /\ ~KilledByQuarantine(w) =>
                            job[w].status = "leased"
    BY DEF NeverStranded
  <2>1. JobAgrees(w) /\ job[w] \in JobRows
    BY DEF IInv, JobsAgree, TypeOK
  <2>2. job[w].attempts < MaxAttempts => ~OutOfAttempts(job[w])
    BY <2>1 DEF JobRows, OutOfAttempts
  <2>3. QED
    BY <2>1, <2>2 DEF JobAgrees, KilledByQuarantine
<1>2. QED
  BY Inductive, <1>1, PTL

(* What a step may do to the status of a request that is at its end:        *)
(* nothing.                                                                 *)
LEMMA ClosedKeptByOperator ==
    ASSUME TypeOK, OperatorNext, NEW x \in Withdrawals, Closed(x)
    PROVE  wd'[x].status = wd[x].status
<1>1. ASSUME NEW S \in SUBSET Withdrawals, HoldQueued(S)
      PROVE  wd'[x].status = wd[x].status
  BY <1>1 DEF HoldQueued, Holdable, Closed
<1>2. ASSUME NEW w \in Withdrawals, Approve(w) \/ Reject(w) \/ ResolvePaid(w) \/ ResolveNotPaid(w)
      PROVE  wd'[x].status = wd[x].status
  BY <1>2 DEF Approve, Reject, ResolvePaid, ResolveNotPaid, RefundTo, Closed, TypeOK
<1>3. CASE OperatorQuarantine \/ OperatorRelease
  BY <1>3 DEF OperatorQuarantine, OperatorRelease, gatewayVars
<1>4. ASSUME NEW w \in Withdrawals, HoldQueued({w})
      PROVE  wd'[x].status = wd[x].status
  BY <1>1, <1>4, {w} \in SUBSET Withdrawals
<1>5. ASSUME NEW u \in Users, HoldQueued({w \in Withdrawals : Owner[w] = u})
      PROVE  wd'[x].status = wd[x].status
  BY <1>1, <1>5, {w \in Withdrawals : Owner[w] = u} \in SUBSET Withdrawals
<1>6. CASE HoldQueued(Withdrawals)
  BY <1>1, <1>6, Withdrawals \in SUBSET Withdrawals
<1>7. QED
  BY <1>2, <1>3, <1>4, <1>5, <1>6 DEF OperatorNext

LEMMA ClosedKeptByClaim ==
    ASSUME IInv, ClaimNext, NEW x \in Withdrawals, Closed(x)
    PROVE  wd'[x].status = wd[x].status
<1>1. WdSwept[x] = wd[x]
  BY Sweep DEF Closed
<1>2. CASE ClaimNothing
  BY <1>1, <1>2 DEF ClaimNothing
<1>3. ASSUME NEW w \in Withdrawals, NEW t \in Tokens, NEW delivered \in BOOLEAN,
             Claim(w, t, delivered)
      PROVE  wd'[x].status = wd[x].status
  <2>1. wd' = [WdSwept EXCEPT ![w].status = IF @ = "queued" THEN "processing" ELSE @]
    BY <1>3 DEF Claim
  <2>2. CASE x = w
    <3>1. wd'[x].status = IF wd[x].status = "queued" THEN "processing" ELSE wd[x].status
      BY <1>1, <2>1, <2>2, Sweep DEF WithdrawalRows
    <3>2. QED
      BY <3>1 DEF Closed
  <2>3. CASE x # w
    BY <1>1, <2>1, <2>3, Sweep
  <2>4. QED
    BY <2>2, <2>3
<1>4. QED
  BY <1>2, <1>3 DEF ClaimNext

LEMMA ClosedKeptByResults ==
    ASSUME TypeOK, NEW m \in net, ProcessResult(m) \/ LoseResult(m),
           NEW x \in Withdrawals, Closed(x)
    PROVE  wd'[x].status = wd[x].status
<1>1. m.w \in Withdrawals
  BY DEF TypeOK, Results
<1>2. CASE LoseResult(m)
  BY <1>2 DEF LoseResult, gatewayVars
<1>3. CASE AcceptLate(m)
  BY <1>1, <1>3 DEF AcceptLate, Closed, TypeOK
<1>4. CASE RejectResult(m) \/ Completed(m) \/ ShortOfFunds(m) \/ FailedUnknown(m) \/ FailedRetry(m)
  BY <1>1, <1>4 DEF RejectResult, Completed, ShortOfFunds, FailedUnknown, FailedRetry, Moved, Closed, TypeOK
<1>5. CASE FailedNotSent(m)
  BY <1>1, <1>5 DEF FailedNotSent, RefundTo, Open, OpenStatuses, Closed, TypeOK
<1>6. QED
  BY <1>2, <1>3, <1>4, <1>5 DEF ProcessResult

(* A request that is paid, failed or rejected keeps that status: no late    *)
(* result, second operator, sweep or replay reopens it.                     *)
THEOREM EndIsFinal == Spec => ClosedStaysClosed
<1>1. IInv /\ [Next]_vars => [\A w \in Withdrawals : Closed(w) => wd'[w].status = wd[w].status]_vars
  <2> SUFFICES ASSUME IInv, Next, NEW x \in Withdrawals, Closed(x)
               PROVE  wd'[x].status = wd[x].status
    OBVIOUS
  <2>1. ASSUME NEW w \in Withdrawals, NEW review \in BOOLEAN, RequestWithdrawal(w, review)
        PROVE  wd'[x].status = wd[x].status
    BY <2>1 DEF RequestWithdrawal, Closed, IInv, TypeOK
  <2>2. ASSUME NEW w \in Withdrawals, AutoSettlePaid(w) \/ AutoSettleNotPaid(w)
        PROVE  wd'[x].status = wd[x].status
    <3>1. x # w
      BY <2>2 DEF AutoSettlePaid, AutoSettleNotPaid, Closed
    <3>2. QED
      BY <2>2, <3>1 DEF AutoSettlePaid, AutoSettleNotPaid, RefundTo, IInv, TypeOK
  <2>3. CASE OperatorNext
    BY <2>3, ClosedKeptByOperator DEF IInv
  <2>4. CASE ClaimNext
    BY <2>4, ClosedKeptByClaim
  <2>5. CASE BotStep \/ BotCrash
    BY <2>5 DEF BotStep, NotSent, SendThrows, SendPay, ReportAnswer, Report, BotCrash, gatewayVars
  <2>6. CASE GameNext \/ MoneyReported \/ Heartbeat
    BY <2>6 DEF GameNext, GamePays, GameRefuses, MoneyLands, MoneyReported, Heartbeat, gatewayVars
  <2>7. ASSUME NEW m \in net, ProcessResult(m) \/ LoseResult(m)
        PROVE  wd'[x].status = wd[x].status
    BY <2>7, ClosedKeptByResults DEF IInv
  <2>8. CASE TimeNext
    BY <2>8 DEF TimeNext, BecomeDue, LeaseLapses
  <2>9. QED
    BY <2>1, <2>2, <2>3, <2>4, <2>5, <2>6, <2>7, <2>8 DEF Next
<1>2. QED
  BY Inductive, <1>1, PTL DEF Spec, ClosedStaysClosed

-----------------------------------------------------------------------------
(* Payouts implements PayoutPromise: the initial states map to the initial  *)
(* state of the promise, and from a state of IInv every step maps to one of *)
(* its four steps or to none.                                               *)

Silent == UNCHANGED Promise!vars

-----------------------------------------------------------------------------
(* The steps of the promise, in the terms of Payouts                        *)

LEMMA StageCases ==
    ASSUME NEW w \in Withdrawals, TypeOK
    PROVE  /\ Stage(w) = "open" <=> Open(w)
           /\ Stage(w) = "returned" <=> Returned(w)
           /\ Stage(w) = "paid" <=> wd[w].status = "paid"
           /\ Stage(w) = "none" <=> wd[w].status = "none"
  BY DEF Stage, Open, OpenStatuses, Returned, TypeOK, WithdrawalRows, WithdrawalStatuses

(* A step that moves no request to another stage, no wallet and no payment  *)
(* is invisible to the player.                                              *)
LEMMA SilentStep ==
    ASSUME \A w \in Withdrawals : Stage(w)' = Stage(w), wallet' = wallet, received' = received
    PROVE  Silent
  BY DEF Silent, Promise!vars

LEMMA SameStatusIsSilent ==
    ASSUME \A w \in Withdrawals : wd'[w].status = wd[w].status,
           wallet' = wallet, received' = received
    PROVE  Silent
<1>1. \A w \in Withdrawals : Stage(w)' = Stage(w)
  BY DEF Stage, Returned
<1>2. QED
  BY <1>1, SilentStep

(* Open requests may be moved about as long as they stay open.              *)
LEMMA StillOpenIsSilent ==
    ASSUME TypeOK, TypeOK',
           \A w \in Withdrawals : wd'[w].status = wd[w].status \/ (Open(w) /\ Open(w)'),
           wallet' = wallet, received' = received
    PROVE  Silent
<1>1. ASSUME NEW w \in Withdrawals PROVE Stage(w)' = Stage(w)
  <2>1. CASE wd'[w].status = wd[w].status
    BY <2>1 DEF Stage, Returned
  <2>2. CASE Open(w) /\ Open(w)'
    BY <2>2 DEF Stage, Returned, Open, OpenStatuses
  <2>3. QED
    BY <2>1, <2>2
<1>2. QED
  BY <1>1, SilentStep

LEMMA ConfirmStep ==
    ASSUME TypeOK, NEW w \in Withdrawals, Open(w), received[w] > 0,
           wd' = [wd EXCEPT ![w] = [status |-> "paid", err |-> "none"]],
           wallet' = wallet, received' = received
    PROVE  Promise!Confirm(w)
<1>1. Stage(w) = "open" /\ w \in {v \in Withdrawals : received[v] > 0}
  BY StageCases
<1>2. Stage(w)' = "paid"
  BY DEF Stage, Returned, TypeOK
<1>3. \A v \in Withdrawals \ {w} : Stage(v)' = Stage(v)
  BY DEF Stage, Returned, TypeOK
<1>4. [v \in Withdrawals |-> Stage(v)]' = [[v \in Withdrawals |-> Stage(v)] EXCEPT ![w] = "paid"]
  BY <1>2, <1>3
<1>5. QED
  BY <1>1, <1>4 DEF Promise!Confirm

LEMMA ReturnStep ==
    ASSUME TypeOK, NEW w \in Withdrawals, Open(w), received[w] = 0,
           NEW status \in {"failed", "rejected"}, NEW err, RefundTo(w, status, err),
           received' = received
    PROVE  Promise!Return(w)
<1>1. Stage(w) = "open" /\ w \notin {v \in Withdrawals : received[v] > 0}
  BY StageCases
<1>2. Stage(w)' = "returned"
  BY DEF Stage, Returned, TypeOK, RefundTo
<1>3. \A v \in Withdrawals \ {w} : Stage(v)' = Stage(v)
  BY DEF Stage, Returned, TypeOK, RefundTo
<1>4. [v \in Withdrawals |-> Stage(v)]'
        = [[v \in Withdrawals |-> Stage(v)] EXCEPT ![w] = "returned"]
  BY <1>2, <1>3
<1>5. QED
  BY <1>1, <1>4 DEF Promise!Return, RefundTo

-----------------------------------------------------------------------------
(* Action by action                                                         *)

LEMMA InitMaps == Init => Promise!Init
<1> SUFFICES ASSUME Init PROVE Promise!Init
  OBVIOUS
<1>1. \A w \in Withdrawals : Stage(w) = "none" /\ ~(received[w] > 0)
  BY DEF Init, Stage, Returned
<1>2. QED
  BY <1>1 DEF Init, Promise!Init

LEMMA RequestMaps ==
    ASSUME TypeOK, NEW w \in Withdrawals, NEW review \in BOOLEAN, RequestWithdrawal(w, review)
    PROVE  Promise!Ask(w)
<1>1. Stage(w) = "none"
  BY StageCases DEF RequestWithdrawal
<1>2. \A v \in Withdrawals : Owner[v] = Owner[w] => Stage(v) # "open"
  BY StageCases DEF RequestWithdrawal
<1>3. Stage(w)' = "open"
  BY DEF RequestWithdrawal, Stage, Returned, TypeOK, WithdrawalRows
<1>4. \A v \in Withdrawals \ {w} : Stage(v)' = Stage(v)
  BY DEF RequestWithdrawal, Stage, Returned, TypeOK
<1>5. [v \in Withdrawals |-> Stage(v)]' = [[v \in Withdrawals |-> Stage(v)] EXCEPT ![w] = "open"]
  BY <1>3, <1>4
<1>6. wallet[Owner[w]] >= Amount[w] /\ received' = received
      /\ wallet' = [wallet EXCEPT ![Owner[w]] = @ - Amount[w]]
  BY DEF RequestWithdrawal, gameVars
<1>7. QED
  BY <1>1, <1>2, <1>5, <1>6 DEF Promise!Ask

LEMMA OperatorMaps ==
    ASSUME IInv, OperatorNext, TypeOK'
    PROVE  Promise!Next \/ Silent
<1>1. ASSUME NEW w \in Withdrawals, Approve(w)
      PROVE  Silent
  <2>1. \A x \in Withdrawals : wd'[x].status = wd[x].status \/ (Open(x) /\ Open(x)')
    BY <1>1 DEF Approve, Open, OpenStatuses, IInv, TypeOK
  <2>2. wallet' = wallet /\ received' = received
    BY <1>1 DEF Approve, NoMoney, gameVars
  <2>3. QED
    BY <2>1, <2>2, StillOpenIsSilent DEF IInv
<1>2. ASSUME NEW w \in Withdrawals, Reject(w)
      PROVE  Promise!Return(w)
  <2>1. Open(w) /\ RefundTo(w, "rejected", "REJECTED_BY_ADMIN") /\ received' = received
    BY <1>2 DEF Reject, Open, OpenStatuses, gameVars
  <2>2. received[w] = 0
    BY <1>2, ReceivedOnceOrNever DEF Reject, IInv, MoneyAgrees
  <2>3. QED
    BY <2>1, <2>2, ReturnStep DEF IInv
<1>3. ASSUME NEW w \in Withdrawals, ResolvePaid(w)
      PROVE  Promise!Confirm(w)
  BY <1>3, ConfirmStep DEF ResolvePaid, NoMoney, gameVars, Open, OpenStatuses, IInv
<1>4. ASSUME NEW w \in Withdrawals, ResolveNotPaid(w)
      PROVE  Promise!Return(w)
  <2>1. /\ Open(w) /\ received[w] = 0
        /\ RefundTo(w, "failed", "ADMIN_CONFIRMED_NOT_PAID") /\ received' = received
    BY <1>4 DEF ResolveNotPaid, Open, OpenStatuses, gameVars
  <2>2. QED
    BY <2>1, ReturnStep DEF IInv
<1>5. ASSUME NEW S \in SUBSET Withdrawals, HoldQueued(S)
      PROVE  Silent
  <2>1. ASSUME NEW x \in Withdrawals
        PROVE  wd'[x].status = wd[x].status \/ (Open(x) /\ Open(x)')
    <3>1. CASE x \in S /\ Holdable(x)
      <4>1. wd[x] \in WithdrawalRows
        BY DEF IInv, TypeOK
      <4>2. wd'[x] = [wd[x] EXCEPT !.status = "pending_approval"]
        BY <1>5, <3>1 DEF HoldQueued
      <4>3. QED
        BY <3>1, <4>1, <4>2 DEF Holdable, Open, OpenStatuses, WithdrawalRows
    <3>2. CASE ~(x \in S /\ Holdable(x))
      BY <1>5, <3>2 DEF HoldQueued
    <3>3. QED
      BY <3>1, <3>2
  <2>2. wallet' = wallet /\ received' = received
    BY <1>5 DEF HoldQueued, NoMoney, gameVars
  <2>3. QED
    BY <2>1, <2>2, StillOpenIsSilent DEF IInv
<1>6. CASE OperatorQuarantine \/ OperatorRelease
  BY <1>6, SameStatusIsSilent
     DEF OperatorQuarantine, OperatorRelease, NoMoney, gatewayVars, gameVars
<1>7. QED
  <2>1. ASSUME NEW w \in Withdrawals, HoldQueued({w}) PROVE Silent
    BY <2>1, <1>5
  <2>2. ASSUME NEW u \in Users, HoldQueued({w \in Withdrawals : Owner[w] = u}) PROVE Silent
    BY <2>2, <1>5
  <2>3. CASE HoldQueued(Withdrawals)
    BY <2>3, <1>5
  <2>4. QED
    BY <1>1, <1>2, <1>3, <1>4, <1>6, <2>1, <2>2, <2>3 DEF OperatorNext, Promise!Next

(* Expired leases go to review, which is still open.                        *)
LEMMA ClaimMaps ==
    ASSUME IInv, ClaimNext, TypeOK'
    PROVE  Silent
<1>1. ASSUME NEW x \in Withdrawals
      PROVE  WdSwept[x].status = wd[x].status
             \/ (wd[x].status = "processing" /\ WdSwept[x].status = "manual_review")
  BY Sweep
<1>2. ASSUME NEW x \in Withdrawals
      PROVE  wd'[x].status = wd[x].status \/ (Open(x) /\ Open(x)')
  <2>1. CASE ClaimNothing
    BY <1>1, <2>1 DEF ClaimNothing, Open, OpenStatuses
  <2>2. ASSUME NEW w \in Withdrawals, NEW t \in Tokens, NEW delivered \in BOOLEAN,
               Claim(w, t, delivered)
        PROVE  wd'[x].status = wd[x].status \/ (Open(x) /\ Open(x)')
    <3>1. wd' = [WdSwept EXCEPT ![w].status = IF @ = "queued" THEN "processing" ELSE @]
      BY <2>2 DEF Claim
    <3>2. \/ wd'[x].status = WdSwept[x].status
          \/ WdSwept[x].status = "queued" /\ wd'[x].status = "processing"
      BY <3>1, Sweep DEF WithdrawalRows
    <3>3. QED
      BY <1>1, <3>2 DEF Open, OpenStatuses
  <2>3. QED
    BY <2>1, <2>2 DEF ClaimNext
<1>3. wallet' = wallet /\ received' = received
  BY DEF ClaimNext, ClaimNothing, Claim, NoMoney, gameVars
<1>4. QED
  BY <1>2, <1>3, StillOpenIsSilent DEF IInv

LEMMA BotMaps ==
    ASSUME BotStep \/ BotCrash
    PROVE  Silent
<1>1. UNCHANGED <<wd, wallet, received>>
  BY DEF BotStep, BotCrash, NotSent, SendThrows, SendPay, ReportAnswer, Report, gatewayVars, gameVars
<1>2. QED
  BY <1>1, SameStatusIsSilent

(* The game pays only what is open and not paid: CommandsAgree.             *)
LEMMA GameMaps ==
    ASSUME IInv, GameNext
    PROVE  Promise!Next \/ Silent
<1>1. ASSUME NEW w \in Withdrawals, NEW t \in Tokens, GamePays(w, t)
      PROVE  Promise!Deliver(w)
  <2>1. received[w] = 0 /\ Stage(w) = "open"
    BY <1>1, StageCases DEF GamePays, IInv, CommandsAgree, Open, OpenStatuses
  <2>2. received' = [received EXCEPT ![w] = 1] /\ wd' = wd /\ wallet' = wallet
    <3>1. received[w] + 1 = 1
      BY <2>1
    <3>2. QED
      BY <1>1, <3>1 DEF GamePays, gatewayVars
  <2>3. {v \in Withdrawals : received'[v] > 0} = {v \in Withdrawals : received[v] > 0} \cup {w}
    BY <2>2 DEF IInv, TypeOK
  <2>4. w \notin {v \in Withdrawals : received[v] > 0}
    BY <2>1
  <2>5. [v \in Withdrawals |-> Stage(v)]' = [v \in Withdrawals |-> Stage(v)]
    BY <2>2 DEF Stage, Returned
  <2>6. QED
    BY <2>1, <2>2, <2>3, <2>4, <2>5 DEF Promise!Deliver
<1>2. ASSUME NEW w \in Withdrawals, NEW t \in Tokens, GameRefuses(w, t)
      PROVE  Silent
  BY <1>2, SameStatusIsSilent DEF GameRefuses, gatewayVars
<1>3. ASSUME NEW n \in 1..MaxFunds, MoneyLands(n)
      PROVE  Silent
  BY <1>3, SameStatusIsSilent DEF MoneyLands, gatewayVars
<1>4. QED
  BY <1>1, <1>2, <1>3 DEF GameNext, Promise!Next

(* UPDATE ... WHERE status IN ('queued', 'processing') to a status that is  *)
(* open as well.                                                            *)
LEMMA MovedStaysOpen ==
    ASSUME IInv, TypeOK', NEW w \in Withdrawals, NEW status \in {"queued", "manual_review"},
           NEW err, wd' = Moved(w, status, err), UNCHANGED <<wallet, received>>
    PROVE  Silent
<1>1. \A x \in Withdrawals : wd'[x].status = wd[x].status \/ (Open(x) /\ Open(x)')
  BY DEF Moved, Open, OpenStatuses, IInv, TypeOK
<1>2. QED
  BY <1>1, StillOpenIsSilent DEF IInv

(* A confirmation confirms what the game has paid; a refund is of what it   *)
(* has not: ResultsAgree.                                                   *)
LEMMA ResultMaps ==
    ASSUME IInv, TypeOK', NEW m \in net, ProcessResult(m) \/ LoseResult(m)
    PROVE  Promise!Next \/ Silent
<1>a. m.w \in Withdrawals /\ received' = received
  BY DEF IInv, TypeOK, Results, ProcessResult, LoseResult, AcceptLate, RejectResult, Completed,
         ShortOfFunds, FailedNotSent, FailedUnknown, FailedRetry, Arrives, gameVars
<1>1. CASE AcceptLate(m)
  <2>1. received[m.w] = 1
    BY <1>1 DEF AcceptLate, ConfirmsLate, IInv, ResultsAgree
  <2>2. CASE \/ wd[m.w].status \in {"queued", "processing"}
             \/ (wd[m.w].status = "manual_review"
                  /\ wd[m.w].err \in {"LEASE_EXPIRED", "INVALID_JOB_LEASE"})
    <3>1. wd' = [wd EXCEPT ![m.w] = [status |-> "paid", err |-> "none"]] /\ wallet' = wallet
      BY <1>1, <2>2 DEF AcceptLate, NoMoney
    <3>2. Open(m.w) /\ received[m.w] > 0
      BY <2>1, <2>2 DEF Open, OpenStatuses
    <3>3. Promise!Confirm(m.w)
      BY <1>a, <3>1, <3>2, ConfirmStep DEF IInv
    <3>4. QED
      BY <1>a, <3>3 DEF Promise!Next
  <2>3. CASE ~(\/ wd[m.w].status \in {"queued", "processing"}
               \/ (wd[m.w].status = "manual_review"
                    /\ wd[m.w].err \in {"LEASE_EXPIRED", "INVALID_JOB_LEASE"}))
    <3>1. wd' = wd /\ wallet' = wallet
      BY <1>1, <2>3 DEF AcceptLate, NoMoney, IInv, TypeOK
    <3>2. QED
      BY <1>a, <3>1, SameStatusIsSilent
  <2>4. QED
    BY <2>2, <2>3
<1>2. CASE Completed(m)
  <2>1. received[m.w] = 1 /\ wd[m.w].status = "processing"
    BY <1>a, <1>2 DEF Completed, Current, ValidLease, IInv, ResultsAgree, JobsAgree, JobAgrees
  <2>2. wd' = [wd EXCEPT ![m.w] = [status |-> "paid", err |-> "none"]] /\ wallet' = wallet
    BY <1>2, <2>1 DEF Completed, Moved, NoMoney
  <2>3. Open(m.w) /\ received[m.w] > 0
    BY <2>1 DEF Open, OpenStatuses
  <2>4. Promise!Confirm(m.w)
    BY <1>a, <2>2, <2>3, ConfirmStep DEF IInv
  <2>5. QED
    BY <1>a, <2>4 DEF Promise!Next
<1>3. CASE RejectResult(m)
  <2>1. wd' = wd \/ wd' = Moved(m.w, "manual_review", "INVALID_JOB_LEASE")
    BY <1>3 DEF RejectResult
  <2>2. wallet' = wallet
    BY <1>3 DEF RejectResult, NoMoney
  <2>3. QED
    BY <1>a, <2>1, <2>2, SameStatusIsSilent, MovedStaysOpen
<1>4. CASE ShortOfFunds(m) \/ FailedRetry(m) \/ FailedUnknown(m)
  <2>1. /\ wallet' = wallet
        /\ \E status \in {"queued", "manual_review"}, err \in {m.err, "PAYOUT_INSUFFICIENT_FUNDS"} :
              wd' = Moved(m.w, status, err)
    BY <1>4 DEF ShortOfFunds, FailedRetry, FailedUnknown, NoMoney
  <2>2. QED
    BY <1>a, <2>1, MovedStaysOpen
<1>5. CASE FailedNotSent(m)
  <2>1. received[m.w] = 0
    BY <1>5 DEF FailedNotSent, IInv, ResultsAgree, Clean
  <2>2. CASE Open(m.w)
    <3>1. Promise!Return(m.w)
      BY <1>a, <1>5, <2>1, <2>2, ReturnStep DEF FailedNotSent, IInv
    <3>2. QED
      BY <1>a, <3>1 DEF Promise!Next
  <2>3. CASE ~Open(m.w)
    BY <1>a, <1>5, <2>3, SameStatusIsSilent DEF FailedNotSent, NoMoney
  <2>4. QED
    BY <2>2, <2>3
<1>6. CASE LoseResult(m)
  BY <1>a, <1>6, SameStatusIsSilent DEF LoseResult, gatewayVars
<1>7. QED
  BY <1>1, <1>2, <1>3, <1>4, <1>5, <1>6 DEF ProcessResult

-----------------------------------------------------------------------------
(* Every step of a withdrawal that a player can see is a step of the        *)
(* promise: asked, delivered, confirmed or returned, each at most once and  *)
(* in that order.  Everything jobs, leases, holds, retries and quarantines  *)
(* do behind that is invisible.                                             *)
THEOREM PromiseKept == Spec => KeepsItsPromise
<1>1. IInv /\ IInv' /\ [Next]_vars => [Promise!Next]_(Promise!vars)
  <2> SUFFICES ASSUME IInv, IInv', [Next]_vars PROVE Promise!Next \/ Silent
    BY DEF Silent
  <2>a. TypeOK /\ TypeOK'
    BY DEF IInv
  <2>1. ASSUME NEW w \in Withdrawals, NEW review \in BOOLEAN, RequestWithdrawal(w, review)
        PROVE  Promise!Next
    BY <2>a, <2>1, RequestMaps DEF Promise!Next
  <2>2. ASSUME NEW w \in Withdrawals, AutoSettlePaid(w)
        PROVE  Promise!Confirm(w)
    <3>1. Open(w) /\ received[w] > 0
      BY <2>2 DEF AutoSettlePaid, Open, OpenStatuses
    <3>2. /\ wd' = [wd EXCEPT ![w] = [status |-> "paid", err |-> "none"]]
          /\ wallet' = wallet /\ received' = received
      BY <2>2 DEF AutoSettlePaid, NoMoney, gameVars
    <3>3. QED
      BY <2>a, <3>1, <3>2, ConfirmStep
  <2>3. ASSUME NEW w \in Withdrawals, AutoSettleNotPaid(w)
        PROVE  Promise!Return(w)
    <3>1. /\ Open(w) /\ received[w] = 0
          /\ RefundTo(w, "failed", "BALANCE_SHOWS_NOT_PAID") /\ received' = received
      BY <2>3 DEF AutoSettleNotPaid, Open, OpenStatuses, gameVars
    <3>2. QED
      BY <2>a, <3>1, ReturnStep
  <2>4. CASE OperatorNext
    BY <2>a, <2>4, OperatorMaps
  <2>5. CASE ClaimNext
    BY <2>a, <2>5, ClaimMaps
  <2>6. CASE BotStep \/ BotCrash
    BY <2>6, BotMaps
  <2>7. CASE GameNext
    BY <2>7, GameMaps
  <2>8. ASSUME NEW m \in net, ProcessResult(m) \/ LoseResult(m)
        PROVE  Promise!Next \/ Silent
    BY <2>a, <2>8, ResultMaps
  <2>9. CASE MoneyReported \/ Heartbeat \/ TimeNext \/ UNCHANGED vars
    <3>1. UNCHANGED <<wd, wallet, received>>
      BY <2>9 DEF MoneyReported, Heartbeat, TimeNext, BecomeDue, LeaseLapses, NoMoney,
                  gameVars, gatewayVars, vars
    <3>2. QED
      BY <3>1, SameStatusIsSilent
  <2>10. QED
    BY <2>1, <2>2, <2>3, <2>4, <2>5, <2>6, <2>7, <2>8, <2>9 DEF Next, Promise!Next
<1>2. QED
  BY Inductive, InitMaps, <1>1, PTL DEF Spec, Promise!Spec, KeepsItsPromise

=============================================================================
