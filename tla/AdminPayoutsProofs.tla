-------------------------- MODULE AdminPayoutsProofs --------------------------
(***************************************************************************)
(* Operator payouts, for every set of payouts and sweeps, every number of  *)
(* claims, attempts and tries, and bots that may die at any moment.        *)
(*                                                                         *)
(* What makes the money leave once is spread over four places: the job's   *)
(* row, the journal of claims, the bot and the reports on their way.  IInv *)
(* says how they fit together: a job is given out under one event at a     *)
(* time, an earlier event has had its report processed, and the bot acts   *)
(* on the last event only.                                                 *)
(***************************************************************************)
EXTENDS AdminPayouts, TLAPS

USE MaxAttemptsAssumption, NoneIsNoToken DEF MaxAttemptsAssumption, NoneIsNoToken

-----------------------------------------------------------------------------
(* The inductive invariant                                                  *)

(* What the bot holds it has from the journal; it asks so often at most.    *)
BotAgrees ==
    /\ bot.phase = "asking" => asks[bot.event] <= bot.tries
    /\ bot.phase # "idle" => bot.event \in Events
    /\ bot.phase \in {"holding", "settled"} => bot.job \in Payouts /\ journal[bot.event] = bot.job
    /\ bot.phase = "settled" => bot.outcome \in Outcomes

(* Events the bot has not come to are in nobody's books.                    *)
EventsAgree == \A e \in Events : e > bot.event => journal[e] = "unheard" /\ asks[e] = 0

(* A report is of what was given out under its event, when the bot is done  *)
(* with it, and there is one for each event.                                *)
ReportsAgree ==
    /\ \A m \in reports :
        /\ journal[m.token] = m.job
        /\ m.token <= bot.event
        /\ m.token = bot.event => bot.phase = "idle"
    /\ \A m, n \in reports : m.token = n.token => m = n

Reported(e) == \E m \in heard : m.token = e

(* What was given out is still out under that event, or was reported on.    *)
ClaimsAgree ==
    \A e \in Events : journal[e] \in Payouts => job[journal[e]].token = e \/ Reported(e)

(* A job that is out is leased, or its lease has run out.                   *)
TokensAgree ==
    \A k \in Payouts :
        /\ job[k].status = "leased" => job[k].token # None
        /\ job[k].token # None =>
            /\ journal[job[k].token] = k
            /\ \/ job[k].status = "leased"
               \/ job[k].status = "dead_letter" /\ job[k].err = "LEASE_EXPIRED"

(* What the console shows of a job.                                         *)
RowsAgree ==
    \A k \in Admin :
        /\ row[k] = "none" => job[k].status = "none"
        /\ row[k] = "queued" => job[k].status = "queued"
        /\ row[k] = "processing" => job[k].token # None
        /\ row[k] \in {"paid", "failed", "manual_review"} =>
            job[k].status \in {"completed", "dead_letter"} /\ job[k].token = None

OneLiveRow ==
    \A k, l \in Admin : k # l /\ Payee[k] = Payee[l] => ~(Live(k) /\ Live(l))

(* Outcomes behind which there may be a payment.                            *)
MayHavePaid(o) == o \in {"completed", "PAYOUT_UNCONFIRMED"}

(* No money has left for what is waiting, for what the bot is asking for or *)
(* about to pay, nor where the report of the job that is out says so.       *)
MoneyAgrees ==
    /\ \A k \in Payouts : job[k].status \in {"none", "queued"} => left[k] = 0
    /\ bot.phase \in {"asking", "holding"} /\ journal[bot.event] \in Payouts
        => left[journal[bot.event]] = 0
    /\ bot.phase = "settled" /\ ~MayHavePaid(bot.outcome) => left[bot.job] = 0
    /\ \A m \in reports : job[m.job].token = m.token /\ ~MayHavePaid(m.outcome) => left[m.job] = 0

IInv ==
    /\ TypeOK /\ BotAgrees /\ EventsAgree /\ ReportsAgree /\ ClaimsAgree /\ TokensAgree
    /\ RowsAgree /\ OneLiveRow /\ MoneyAgrees /\ LeftOnce

-----------------------------------------------------------------------------
(* Rows                                                                     *)

(* Every statement on a row of bot_jobs leaves a row of bot_jobs.           *)
LEMMA RowTypes ==
    /\ NoJob \in JobRows /\ NewJob \in JobRows
    /\ \A j \in JobRows :
        /\ SweepExpired(j) \in JobRows /\ Complete(j) \in JobRows
        /\ [j EXCEPT !.lapsed = TRUE] \in JobRows /\ [j EXCEPT !.avail = "due"] \in JobRows
        /\ \A code \in JobErrors : DeadLetter(j, code) \in JobRows /\ Requeue(j, code) \in JobRows
        /\ \A t \in Tokens : Claimable(j) => Lease(j, t) \in JobRows
<1>1. NoJob \in JobRows /\ NewJob \in JobRows
  BY DEF NoJob, NewJob, Row, JobRows, JobStatuses, Availability, JobErrors
<1>2. ASSUME NEW j \in JobRows
      PROVE  /\ SweepExpired(j) \in JobRows /\ Complete(j) \in JobRows
             /\ [j EXCEPT !.lapsed = TRUE] \in JobRows /\ [j EXCEPT !.avail = "due"] \in JobRows
  <2>1. SweepExpired(j) \in JobRows
    BY DEF SweepExpired, ExpireLease, JobRows, JobStatuses, JobErrors
  <2>2. Complete(j) \in JobRows
    BY DEF Complete, JobRows, JobStatuses
  <2>3. [j EXCEPT !.lapsed = TRUE] \in JobRows
    BY DEF JobRows
  <2>4. [j EXCEPT !.avail = "due"] \in JobRows
    BY DEF JobRows, Availability
  <2>5. QED
    BY <2>1, <2>2, <2>3, <2>4
<1>3. ASSUME NEW j \in JobRows, NEW code \in JobErrors
      PROVE  DeadLetter(j, code) \in JobRows /\ Requeue(j, code) \in JobRows
  BY DEF DeadLetter, Requeue, JobRows, JobStatuses, Availability
<1>4. ASSUME NEW j \in JobRows, NEW t \in Tokens, Claimable(j)
      PROVE  Lease(j, t) \in JobRows
  <2>1. j.attempts + 1 \in 0..MaxAttempts
    BY <1>4 DEF Claimable, JobRows
  <2>2. QED
    BY <2>1 DEF Lease, JobRows, JobStatuses
<1>5. QED
  BY <1>1, <1>2, <1>3, <1>4

(* What the constants are, as the proofs use it.                            *)
LEMMA ConstantTypes ==
    ASSUME ConstantsOK
    PROVE  /\ Events \subseteq Nat /\ MaxTries \in Nat \ {0} /\ Admin \subseteq Payouts
           /\ None \notin Payouts /\ "unheard" \notin Payouts /\ None # "unheard"
  BY DEF ConstantsOK, Events, Admin

(* Before the first payout.                                                 *)
LEMMA InitIInv == ASSUME ConstantsOK, Init PROVE IInv
<1>1. TypeOK
  BY RowTypes, ConstantTypes
     DEF Init, TypeOK, RowStatuses, Idle
<1>2. BotAgrees /\ EventsAgree /\ ReportsAgree /\ ClaimsAgree
  BY ConstantTypes DEF Init, BotAgrees, EventsAgree, ReportsAgree, ClaimsAgree, Idle
<1>3. TokensAgree /\ RowsAgree /\ OneLiveRow /\ MoneyAgrees /\ LeftOnce
  BY ConstantTypes
     DEF Init, TokensAgree, RowsAgree, OneLiveRow, Live, MoneyAgrees, LeftOnce, NoJob, Row, Idle
<1>4. QED
  BY <1>1, <1>2, <1>3 DEF IInv

-----------------------------------------------------------------------------
(* Steps of the bot and its messages                                        *)

(* What a step that changes neither rows, jobs, journal nor money keeps.    *)
LEMMA BooksStandStill ==
    ASSUME IInv, UNCHANGED <<row, job, journal, heard, left>>
    PROVE  ClaimsAgree' /\ TokensAgree' /\ RowsAgree' /\ OneLiveRow' /\ LeftOnce'
  BY DEF IInv, ClaimsAgree, Reported, TokensAgree, RowsAgree, OneLiveRow, Live, LeftOnce

(* The bot asks for a job: poll of the worker.                              *)
LEMMA AskKeeps == ASSUME ConstantsOK, IInv, Ask PROVE IInv'
<1> DEFINE e == bot.event + 1
<1>1. /\ e \in Events /\ bot.event \in Nat /\ e > bot.event
  BY ConstantTypes DEF Ask, IInv, TypeOK
<1>2. /\ bot' = [phase |-> "asking", event |-> e, tries |-> 1, job |-> None, outcome |-> None]
      /\ asks' = [asks EXCEPT ![e] = 1]
      /\ UNCHANGED <<gatewayVars, reports, left>>
  BY DEF Ask, Idle
<1>3. journal[e] = "unheard" /\ asks \in [Events -> 0..MaxTries]
  BY <1>1 DEF IInv, TypeOK, EventsAgree
<1> HIDE DEF e
<1>4. bot'.phase = "asking" /\ bot'.event = e /\ bot'.tries = 1 /\ asks'[e] = 1
  BY <1>1, <1>2, <1>3
<1>5. TypeOK'
  <2>1. 1 \in 0..MaxTries
    BY ConstantTypes
  <2>2. bot' \in [phase : {"idle", "asking", "holding", "settled"}, event : Events \cup {0},
                  tries : 0..MaxTries, job : Payouts \cup {None}, outcome : Outcomes \cup {None}]
    BY <1>1, <1>2, <2>1
  <2>3. asks' \in [Events -> 0..MaxTries]
    BY <1>2, <1>3, <2>1
  <2>4. QED
    BY <1>2, <2>2, <2>3 DEF gatewayVars, IInv, TypeOK
<1>6. BotAgrees'
  BY <1>1, <1>4 DEF BotAgrees
<1>7. EventsAgree'
  <2>1. ASSUME NEW n \in Events, n > e PROVE journal'[n] = "unheard" /\ asks'[n] = 0
    <3>1. n > bot.event /\ n # e
      BY <1>1, <2>1, ConstantTypes
    <3>2. QED
      BY <1>2, <1>3, <3>1 DEF gatewayVars, IInv, EventsAgree
  <2>2. QED
    BY <1>4, <2>1 DEF EventsAgree
<1>8. ReportsAgree'
  <2>1. \A m \in reports : m.token \in Nat /\ m.token <= e /\ m.token # e
    BY <1>1, ConstantTypes DEF IInv, TypeOK, ReportsAgree, Reports
  <2>2. QED
    BY <1>2, <1>4, <2>1 DEF gatewayVars, IInv, ReportsAgree
<1>9. MoneyAgrees'
  BY <1>2, <1>3, <1>4, ConstantTypes DEF gatewayVars, IInv, MoneyAgrees
<1>10. QED
  BY <1>2, <1>5, <1>6, <1>7, <1>8, <1>9, BooksStandStill DEF gatewayVars, IInv

(* The bot repeats a claim whose answer it has not heard.                   *)
LEMMA AskAgainKeeps == ASSUME ConstantsOK, IInv, AskAgain PROVE IInv'
<1>1. /\ bot.event \in Events /\ bot.tries \in Nat /\ bot.tries + 1 \in 0..MaxTries
      /\ asks[bot.event] \in Nat /\ asks[bot.event] <= bot.tries
  BY ConstantTypes DEF AskAgain, IInv, TypeOK, BotAgrees
<1>2. /\ bot' = [bot EXCEPT !.tries = @ + 1]
      /\ asks' = [asks EXCEPT ![bot.event] = @ + 1]
  BY DEF AskAgain
<1>3. TypeOK'
  BY <1>1, <1>2, ConstantTypes DEF AskAgain, gatewayVars, IInv, TypeOK
<1>4. BotAgrees' /\ EventsAgree' /\ ReportsAgree'
  BY <1>1, <1>2, ConstantTypes
     DEF AskAgain, gatewayVars, IInv, TypeOK, BotAgrees, EventsAgree, ReportsAgree
<1>5. MoneyAgrees'
  BY <1>2 DEF AskAgain, gatewayVars, IInv, TypeOK, MoneyAgrees
<1>6. QED
  BY <1>3, <1>4, <1>5, BooksStandStill DEF AskAgain, gatewayVars, IInv

(* The bot gives up a claim, or dies: it goes on with the next event.       *)
LEMMA IdlingKeeps ==
    ASSUME ConstantsOK, IInv, bot' = Idle(bot.event),
           UNCHANGED <<gatewayVars, asks, reports, left>>
    PROVE  IInv'
<1>1. TypeOK'
  BY ConstantTypes DEF Idle, gatewayVars, IInv, TypeOK
<1>2. BotAgrees' /\ EventsAgree' /\ ReportsAgree' /\ MoneyAgrees'
  BY DEF Idle, gatewayVars, IInv, BotAgrees, EventsAgree, ReportsAgree, MoneyAgrees
<1>3. QED
  BY <1>1, <1>2, BooksStandStill DEF gatewayVars, IInv

(* The bot posts its result, or posts it again.                             *)
LEMMA ReportKeeps == ASSUME ConstantsOK, IInv, Report PROVE IInv'
<1> DEFINE new == [job |-> bot.job, token |-> bot.event, outcome |-> bot.outcome]
<1>1. /\ new \in Reports /\ journal[bot.event] = bot.job
      /\ bot' = [phase |-> "idle", event |-> bot.event, tries |-> 0, job |-> None, outcome |-> None]
      /\ reports' = reports \cup {new}
  BY DEF Report, Idle, IInv, BotAgrees, Reports
<1>2. \A m \in reports : m.token # bot.event
  BY DEF Report, IInv, ReportsAgree
<1>3. TypeOK'
  BY <1>1, ConstantTypes DEF Report, gatewayVars, IInv, TypeOK
<1>4. BotAgrees' /\ EventsAgree'
  BY <1>1 DEF Report, gatewayVars, IInv, BotAgrees, EventsAgree
<1>5. ReportsAgree'
  <2>1. journal' = journal /\ bot.event \in Nat
    BY ConstantTypes DEF Report, gatewayVars, IInv, TypeOK
  <2>2. QED
    BY <1>1, <1>2, <2>1 DEF IInv, ReportsAgree
<1>6. MoneyAgrees'
  BY <1>1 DEF Report, gatewayVars, IInv, MoneyAgrees
<1>7. QED
  BY <1>3, <1>4, <1>5, <1>6, BooksStandStill DEF Report, gatewayVars, IInv

(* A claim is lost on its way.                                              *)
LEMMA LoseAskKeeps == ASSUME ConstantsOK, IInv, NEW e \in Events, LoseAsk(e) PROVE IInv'
<1>1. asks[e] \in Nat /\ asks[e] > 0 /\ asks' = [asks EXCEPT ![e] = @ - 1]
  BY ConstantTypes DEF LoseAsk, IInv, TypeOK
<1>2. TypeOK'
  BY <1>1, ConstantTypes DEF LoseAsk, gatewayVars, IInv, TypeOK
<1>3. BotAgrees' /\ EventsAgree'
  BY <1>1, ConstantTypes DEF LoseAsk, gatewayVars, IInv, TypeOK, BotAgrees, EventsAgree
<1>4. ReportsAgree' /\ MoneyAgrees'
  BY DEF LoseAsk, gatewayVars, IInv, ReportsAgree, MoneyAgrees
<1>5. QED
  BY <1>2, <1>3, <1>4, BooksStandStill DEF LoseAsk, gatewayVars, IInv

(* The bot's own status is nobody's else.                                   *)
LEMMA StatusKeeps == ASSUME IInv, EndQuarantine \/ Heartbeat PROVE IInv'
<1>1. /\ UNCHANGED <<row, job, journal, refused, heard, booked, botVars, left>>
      /\ botStatus' \in {"online", "degraded", "quarantined"}
  BY DEF EndQuarantine, Heartbeat
<1>2. TypeOK'
  BY <1>1 DEF IInv, TypeOK, botVars
<1>3. BotAgrees' /\ EventsAgree' /\ ReportsAgree' /\ MoneyAgrees'
  BY <1>1 DEF IInv, BotAgrees, EventsAgree, ReportsAgree, MoneyAgrees, botVars
<1>4. QED
  BY <1>1, <1>2, <1>3, BooksStandStill DEF IInv

(* While the bot has a job under an event, the job is out under that event  *)
(* and no report says otherwise.                                            *)
LEMMA HeldIsOut ==
    ASSUME ConstantsOK, IInv, bot.phase # "idle", journal[bot.event] \in Payouts
    PROVE  /\ bot.event \in Events /\ bot.event # None
           /\ job[journal[bot.event]].token = bot.event
           /\ job[journal[bot.event]].status \in {"leased", "dead_letter"}
           /\ \A m \in reports : m.token # bot.event
<1>1. bot.event \in Events /\ bot.event # None
  BY DEF IInv, BotAgrees, Events
<1>2. \A m \in reports : m.token # bot.event
  BY DEF IInv, ReportsAgree
<1>3. job[journal[bot.event]].token = bot.event
  BY <1>1, <1>2 DEF IInv, TypeOK, ClaimsAgree, Reported
<1>4. QED
  BY <1>1, <1>2, <1>3 DEF IInv, TokensAgree

(* The bot types the command and the game answers.                          *)
LEMMA SendKeeps ==
    ASSUME ConstantsOK, IInv, NEW o \in Outcomes, NEW paid \in BOOLEAN, Send(o, paid)
    PROVE  IInv'
<1> DEFINE k == bot.job
<1>1. k \in Payouts /\ journal[bot.event] = k /\ left[k] = 0
  BY DEF Send, IInv, BotAgrees, MoneyAgrees
<1>2. /\ job[k].token = bot.event /\ bot.event # None
      /\ job[k].status \in {"leased", "dead_letter"}
      /\ \A m \in reports : m.token # bot.event
  BY <1>1, HeldIsOut DEF Send
<1>3. /\ bot.phase = "holding" /\ (paid => MayHavePaid(o))
      /\ bot' = [bot EXCEPT !.phase = "settled", !.outcome = o]
      /\ left' = IF paid THEN [left EXCEPT ![k] = @ + 1] ELSE left
      /\ UNCHANGED <<gatewayVars, asks, reports>>
  BY DEF Send, MayHavePaid
<1> HIDE DEF k
<1>4. bot \in [phase : {"idle", "asking", "holding", "settled"}, event : Events \cup {0},
               tries : 0..MaxTries, job : Payouts \cup {None}, outcome : Outcomes \cup {None}]
  BY DEF IInv, TypeOK
<1>5. /\ bot'.phase = "settled" /\ bot'.outcome = o
      /\ bot'.event = bot.event /\ bot'.job = k
      /\ left \in [Payouts -> Nat] /\ left' \in [Payouts -> Nat]
      /\ \A l \in Payouts : l # k => left'[l] = left[l]
      /\ left'[k] = IF paid THEN 1 ELSE 0
  BY <1>1, <1>3, <1>4 DEF IInv, TypeOK, k
<1>6. TypeOK'
  BY <1>3, <1>4, <1>5 DEF gatewayVars, IInv, TypeOK
<1>7. BotAgrees' /\ EventsAgree' /\ ReportsAgree'
  BY <1>1, <1>2, <1>3, <1>5 DEF gatewayVars, IInv, BotAgrees, EventsAgree, ReportsAgree
<1>8. ClaimsAgree' /\ TokensAgree' /\ RowsAgree' /\ OneLiveRow'
  BY <1>3 DEF gatewayVars, IInv, ClaimsAgree, Reported, TokensAgree, RowsAgree, OneLiveRow, Live
<1>9. MoneyAgrees'
  <2>1. \A l \in Payouts : job[l].status \in {"none", "queued"} => left'[l] = 0
    BY <1>2, <1>5 DEF IInv, MoneyAgrees
  <2>2. ~MayHavePaid(o) => left'[k] = 0
    BY <1>3, <1>5
  <2>3. ASSUME NEW m \in reports, job[m.job].token = m.token, ~MayHavePaid(m.outcome)
        PROVE  left'[m.job] = 0
    <3>1. m.job \in Payouts /\ m.job # k /\ left[m.job] = 0
      BY <1>2, <2>3 DEF IInv, TypeOK, Reports, MoneyAgrees
    <3>2. QED
      BY <1>5, <3>1
  <2>4. QED
    BY <1>3, <1>5, <2>1, <2>2, <2>3 DEF gatewayVars, MoneyAgrees
<1>10. LeftOnce'
  <2>1. \A l \in Payouts : left'[l] <= 1
    BY <1>5 DEF IInv, LeftOnce
  <2>2. QED
    BY <2>1 DEF LeftOnce
<1>11. QED
  BY <1>6, <1>7, <1>8, <1>9, <1>10 DEF IInv

-----------------------------------------------------------------------------
(* Claims that arrive                                                       *)

(* The sweep moves leased jobs whose lease ran out, and their token stays.  *)
LEMMA SweepLeaves ==
    ASSUME NEW j \in JobRows
    PROVE  /\ SweepExpired(j).token = j.token
           /\ j.status # "leased" => SweepExpired(j) = j
           /\ SweepExpired(j).status = "leased" => SweepExpired(j) = j
           /\ j.status = "leased" /\ SweepExpired(j) # j =>
                SweepExpired(j).status = "dead_letter" /\ SweepExpired(j).err = "LEASE_EXPIRED"
  BY DEF SweepExpired, ExpireLease, LeaseRanOut, JobRows

(* An attempt is asked for an event that the bot has come to.               *)
LEMMA AskedIsPast ==
    ASSUME ConstantsOK, IInv, NEW e \in Events, asks[e] > 0
    PROVE  e \in Nat /\ bot.event \in Nat /\ ~(e > bot.event) /\ asks[e] \in Nat
  BY ConstantTypes DEF IInv, TypeOK, EventsAgree

(* The answer to a claim as the bot takes it.                               *)
LEMMA HearsTypes ==
    ASSUME ConstantsOK, NEW e \in Events, NEW k \in Payouts \cup {None}, BotHears(e, k)
    PROVE  /\ bot' \in [phase : {"idle", "asking", "holding", "settled"}, event : Events \cup {0},
                        tries : 0..MaxTries, job : Payouts \cup {None},
                        outcome : Outcomes \cup {None}]
           /\ bot'.event = e /\ bot'.phase \in {"idle", "holding"}
           /\ bot'.phase = "holding" => k \in Payouts /\ bot'.job = k
<1>1. 0 \in 0..MaxTries
  BY ConstantTypes
<1>2. CASE k = None
  BY <1>1, <1>2 DEF BotHears, Idle
<1>3. CASE k # None
  BY <1>1, <1>3 DEF BotHears, Idle
<1>4. QED
  BY <1>2, <1>3

(* A claim the gateway has answered before gets the stored answer.          *)
LEMMA RepeatedClaimKeeps ==
    ASSUME ConstantsOK, IInv, NEW e \in Events, NEW told \in BOOLEAN,
           ClaimArrives(e, told), RepeatedClaim(e, told)
    PROVE  IInv'
<1>1. /\ asks' = [asks EXCEPT ![e] = @ - 1] /\ asks[e] > 0
      /\ UNCHANGED <<row, job, journal, heard, botStatus, booked, reports, left>>
  BY DEF ClaimArrives, RepeatedClaim
<1>2. /\ asks' \in [Events -> 0..MaxTries]
      /\ \A n \in Events : asks'[n] <= asks[n] /\ (asks[n] = 0 => asks'[n] = 0)
  BY <1>1, ConstantTypes DEF IInv, TypeOK
<1>3. refused' \subseteq Events
  BY DEF RepeatedClaim, IInv, TypeOK
<1>4. CASE UNCHANGED bot
  <2>1. TypeOK'
    BY <1>1, <1>2, <1>3, <1>4 DEF IInv, TypeOK
  <2>2. BotAgrees'
    <3>1. bot.phase = "asking" => asks'[bot.event] <= bot.tries
      <4>1. ASSUME bot.phase = "asking" PROVE asks'[bot.event] <= bot.tries
        <5>1. /\ bot.event \in Events /\ asks[bot.event] <= bot.tries
              /\ bot.tries \in Nat /\ asks[bot.event] \in Nat
          BY <4>1 DEF IInv, TypeOK, BotAgrees
        <5>2. asks'[bot.event] \in Nat /\ asks'[bot.event] <= asks[bot.event]
          BY <1>2, <5>1
        <5>3. QED
          BY <5>1, <5>2
      <4>2. QED
        BY <4>1
    <3>2. QED
      BY <1>1, <1>4, <3>1 DEF IInv, BotAgrees
  <2>3. EventsAgree' /\ ReportsAgree'
    BY <1>1, <1>2, <1>4 DEF IInv, EventsAgree, ReportsAgree
  <2>4. MoneyAgrees'
    BY <1>1, <1>4 DEF IInv, MoneyAgrees
  <2>5. QED
    BY <1>1, <2>1, <2>2, <2>3, <2>4, BooksStandStill DEF IInv
<1>5. CASE told /\ BotHears(e, journal[e]) /\ ReadsBack(e)
  <2>1. bot.phase = "asking" /\ bot.event = e /\ journal[e] \in Payouts \cup {None}
    BY <1>5 DEF ClaimArrives, RepeatedClaim, IInv, TypeOK
  <2>2. /\ bot' \in [phase : {"idle", "asking", "holding", "settled"}, event : Events \cup {0},
                     tries : 0..MaxTries, job : Payouts \cup {None},
                     outcome : Outcomes \cup {None}]
        /\ bot'.event = e /\ bot'.phase \in {"idle", "holding"}
        /\ bot'.phase = "holding" => journal[e] \in Payouts /\ bot'.job = journal[e]
    BY <1>5, <2>1, HearsTypes
  <2>3. TypeOK'
    BY <1>1, <1>2, <1>3, <2>2 DEF IInv, TypeOK
  <2>4. BotAgrees' /\ EventsAgree' /\ ReportsAgree'
    BY <1>1, <1>2, <2>1, <2>2 DEF IInv, BotAgrees, EventsAgree, ReportsAgree
  <2>5. MoneyAgrees'
    BY <1>1, <2>1, <2>2 DEF IInv, MoneyAgrees
  <2>6. QED
    BY <1>1, <2>3, <2>4, <2>5, BooksStandStill DEF IInv
<1>6. QED
  BY <1>4, <1>5 DEF RepeatedClaim, NotTold

(* What a first claim under e does to the books when it hands out k: every  *)
(* other job keeps its token and moves at most by the sweep.                *)
Handed(e, k) ==
    /\ journal[e] = "unheard" /\ journal' = [journal EXCEPT ![e] = k]
    /\ job' \in [Payouts -> JobRows]
    /\ k \in Payouts => /\ job[k].status = "queued"
                        /\ job'[k].status = "leased" /\ job'[k].token = e
    /\ \A l \in Payouts : l # k => job'[l] = SweepExpired(job[l])
    /\ row' = [l \in Admin |-> IF l = k /\ row[l] = "queued" THEN "processing" ELSE row[l]]

(* A new claim that finds a job makes its holder the only one.              *)
LEMMA FirstClaimHands ==
    ASSUME ConstantsOK, IInv, NEW e \in Events, NEW told \in BOOLEAN, FirstClaim(e, told)
    PROVE  \E k \in Payouts \cup {None} :
              Handed(e, k) /\ (UNCHANGED bot \/ (told /\ BotHears(e, k)))
<1> DEFINE due == {k \in Payouts : Claimable(SweptJobs[k]) /\ botStatus = "online"}
<1>1. PICK k \in IF due = {} THEN {None} ELSE due :
         /\ journal' = [journal EXCEPT ![e] = k]
         /\ job' = IF k = None THEN SweptJobs ELSE [SweptJobs EXCEPT ![k] = Lease(@, e)]
         /\ row' = [l \in Admin |-> IF l = k /\ row[l] = "queued" THEN "processing"
                                    ELSE SweptRow(l)]
         /\ NotTold(told) \/ (told /\ BotHears(e, k))
  BY DEF FirstClaim
<1>2. job \in [Payouts -> JobRows] /\ \A l \in Payouts : SweptJobs[l] \in JobRows
  BY RowTypes DEF IInv, TypeOK, SweptJobs
<1>3. SweptJobs \in [Payouts -> JobRows]
  BY <1>2 DEF SweptJobs
<1>4. k \in Payouts \cup {None}
      /\ (k \in Payouts => Claimable(SweptJobs[k]) /\ k # None)
  BY ConstantTypes
<1>5. k \in Payouts => /\ job[k].status = "queued" /\ Lease(SweptJobs[k], e) \in JobRows
                       /\ Lease(SweptJobs[k], e).status = "leased"
                       /\ Lease(SweptJobs[k], e).token = e
  <2> SUFFICES ASSUME k \in Payouts
               PROVE  /\ job[k].status = "queued" /\ Lease(SweptJobs[k], e) \in JobRows
                      /\ Lease(SweptJobs[k], e).status = "leased"
                      /\ Lease(SweptJobs[k], e).token = e
    OBVIOUS
  <2>1. SweptJobs[k] = SweepExpired(job[k]) /\ job[k] \in JobRows
    BY <1>2 DEF SweptJobs
  <2>2. job[k].status = "queued"
    BY <1>4, <2>1 DEF SweepExpired, ExpireLease, Claimable, LeaseRanOut, JobRows
  <2>3. Lease(SweptJobs[k], e) \in JobRows
    BY <1>2, <1>4, RowTypes DEF Events
  <2>4. Lease(SweptJobs[k], e).status = "leased" /\ Lease(SweptJobs[k], e).token = e
    BY <1>2 DEF Lease, JobRows
  <2>5. QED
    BY <2>2, <2>3, <2>4
<1> HIDE DEF due
<1>6. CASE k = None
  BY <1>1, <1>3, <1>4, <1>6, ConstantTypes
     DEF Handed, FirstClaim, SweptRow, SweptJobs, NotTold
<1>7. CASE k \in Payouts
  <2>1. job' = [SweptJobs EXCEPT ![k] = Lease(SweptJobs[k], e)]
    BY <1>1, <1>4, <1>7
  <2>2. job' \in [Payouts -> JobRows] /\ job'[k] = Lease(SweptJobs[k], e)
        /\ \A l \in Payouts : l # k => job'[l] = SweepExpired(job[l])
    BY <1>3, <1>5, <1>7, <2>1 DEF SweptJobs
  <2>3. Handed(e, k)
    BY <1>1, <1>5, <1>7, <2>2 DEF Handed, FirstClaim, SweptRow
  <2>4. QED
    BY <1>1, <1>7, <2>3 DEF NotTold
<1>8. QED
  BY <1>4, <1>6, <1>7

(* The jobs after a claim.                                                  *)
LEMMA HandedJobs ==
    ASSUME ConstantsOK, IInv, NEW e \in Events, NEW k \in Payouts \cup {None}, Handed(e, k)
    PROVE  \A l \in Payouts :
              /\ l # k => /\ job'[l].token = job[l].token
                          /\ job[l].status # "leased" => job'[l] = job[l]
                          /\ job'[l].status = "leased" => job[l].status = "leased"
                          /\ job[l].status = "leased" =>
                                job'[l].status = "leased"
                                \/ (job'[l].status = "dead_letter" /\ job'[l].err = "LEASE_EXPIRED")
              /\ l = k => /\ job[l].status = "queued" /\ job[l].token = None
                          /\ job'[l].status = "leased" /\ job'[l].token = e
<1> TAKE l \in Payouts
<1>1. job[l] \in JobRows
  BY DEF IInv, TypeOK
<1>2. ASSUME l # k
      PROVE  /\ job'[l].token = job[l].token
             /\ job[l].status # "leased" => job'[l] = job[l]
             /\ job'[l].status = "leased" => job[l].status = "leased"
             /\ job[l].status = "leased" =>
                    job'[l].status = "leased"
                    \/ (job'[l].status = "dead_letter" /\ job'[l].err = "LEASE_EXPIRED")
  <2>1. job'[l] = SweepExpired(job[l])
    BY <1>2 DEF Handed
  <2>2. QED
    BY <1>1, <2>1, SweepLeaves
<1>3. ASSUME l = k
      PROVE  /\ job[l].status = "queued" /\ job[l].token = None
             /\ job'[l].status = "leased" /\ job'[l].token = e
  BY <1>3 DEF Handed, IInv, TokensAgree
<1>4. QED
  BY <1>2, <1>3

(* The jobs, the journal and the money fit together after a claim.          *)
LEMMA HandedKeeps ==
    ASSUME ConstantsOK, IInv, NEW e \in Events, NEW k \in Payouts \cup {None}, Handed(e, k),
           UNCHANGED <<heard, reports, left>>
    PROVE  /\ ClaimsAgree' /\ TokensAgree' /\ RowsAgree' /\ OneLiveRow' /\ LeftOnce'
           /\ \A m \in reports : m.token # e
           /\ \A l \in Payouts : job'[l].status \in {"none", "queued"} => left'[l] = 0
           /\ \A m \in reports :
                 job'[m.job].token = m.token /\ ~MayHavePaid(m.outcome) => left'[m.job] = 0
<1> USE HandedJobs
<1>1. /\ journal[e] = "unheard" /\ "unheard" \notin Payouts /\ journal'[e] = k
      /\ \A n \in Events : n # e => journal'[n] = journal[n]
  BY ConstantTypes DEF Handed, IInv, TypeOK
<1>2. \A m \in reports : m.job \in Payouts /\ m.token \in Events /\ m.token # e
  BY <1>1 DEF IInv, TypeOK, ReportsAgree, Reports
<1>3. ClaimsAgree'
  <2>1. ASSUME NEW n \in Events, journal'[n] \in Payouts
        PROVE  job'[journal'[n]].token = n \/ Reported(n)
    <3>1. CASE n = e
      BY <1>1, <2>1, <3>1
    <3>2. CASE n # e
      <4>1. journal[n] \in Payouts /\ journal'[n] = journal[n]
            /\ (job[journal[n]].token = n \/ Reported(n))
        BY <1>1, <2>1, <3>2 DEF IInv, ClaimsAgree
      <4>2. CASE journal[n] = k
        BY <4>1, <4>2 DEF Events
      <4>3. CASE journal[n] # k
        BY <4>1, <4>3
      <4>4. QED
        BY <4>2, <4>3
    <3>3. QED
      BY <3>1, <3>2
  <2>2. QED
    BY <2>1 DEF ClaimsAgree, Reported
<1>4. TokensAgree'
  <2>1. ASSUME NEW l \in Payouts
        PROVE  /\ job'[l].status = "leased" => job'[l].token # None
               /\ job'[l].token # None =>
                     /\ journal'[job'[l].token] = l
                     /\ \/ job'[l].status = "leased"
                        \/ job'[l].status = "dead_letter" /\ job'[l].err = "LEASE_EXPIRED"
    <3>1. CASE l = k
      BY <1>1, <3>1 DEF Events
    <3>2. CASE l # k
      <4>1. job[l].token \in Events \cup {None}
        BY DEF IInv, TypeOK, JobRows, Events
      <4>2. job[l].token # None => job[l].token # e /\ journal'[job[l].token] = l
        BY <1>1, <4>1 DEF IInv, TokensAgree
      <4>3. QED
        BY <3>2, <4>2 DEF IInv, TokensAgree
    <3>3. QED
      BY <3>1, <3>2
  <2>2. QED
    BY <2>1 DEF TokensAgree
<1>5. \A l \in Admin : row'[l] = IF l = k /\ row[l] = "queued" THEN "processing" ELSE row[l]
  BY DEF Handed
<1>6. RowsAgree'
  <2>1. ASSUME NEW l \in Admin
        PROVE  /\ row'[l] = "none" => job'[l].status = "none"
               /\ row'[l] = "queued" => job'[l].status = "queued"
               /\ row'[l] = "processing" => job'[l].token # None
               /\ row'[l] \in {"paid", "failed", "manual_review"} =>
                     job'[l].status \in {"completed", "dead_letter"} /\ job'[l].token = None
    <3>0. l \in Payouts
      BY DEF Admin
    <3>1. CASE l = k
      <4>1. row[l] = "queued" \/ row[l] \notin RowStatuses
        BY <3>0, <3>1 DEF IInv, RowsAgree, RowStatuses
      <4>2. row[l] = "queued"
        BY <4>1 DEF IInv, TypeOK
      <4>3. row'[l] = "processing" /\ job'[l].token # None
        BY <1>5, <3>0, <3>1, <4>2 DEF Events
      <4>4. QED
        BY <4>3
    <3>2. CASE l # k
      BY <1>5, <3>0, <3>2 DEF IInv, RowsAgree
    <3>3. QED
      BY <3>1, <3>2
  <2>2. QED
    BY <2>1 DEF RowsAgree
<1>7. OneLiveRow'
  BY <1>5 DEF IInv, OneLiveRow, Live
<1>8. \A l \in Payouts : job'[l].status \in {"none", "queued"} => left'[l] = 0
  BY DEF IInv, MoneyAgrees
<1>9. ASSUME NEW m \in reports, job'[m.job].token = m.token, ~MayHavePaid(m.outcome)
      PROVE  left'[m.job] = 0
  BY <1>2, <1>9 DEF IInv, MoneyAgrees
<1>10. QED
  BY <1>2, <1>3, <1>4, <1>6, <1>7, <1>8, <1>9 DEF IInv, LeftOnce

(* A new claim keeps the invariant.                                         *)
LEMMA FirstClaimKeeps ==
    ASSUME ConstantsOK, IInv, NEW e \in Events, NEW told \in BOOLEAN,
           ClaimArrives(e, told), FirstClaim(e, told)
    PROVE  IInv'
<1>1. PICK k \in Payouts \cup {None} :
         Handed(e, k) /\ (UNCHANGED bot \/ (told /\ BotHears(e, k)))
  BY FirstClaimHands
<1>2. /\ asks' = [asks EXCEPT ![e] = @ - 1] /\ asks[e] > 0
      /\ (told => bot.phase = "asking" /\ bot.event = e)
      /\ UNCHANGED <<refused, heard, botStatus, booked, reports, left>>
  BY DEF ClaimArrives, FirstClaim
<1>3. /\ ClaimsAgree' /\ TokensAgree' /\ RowsAgree' /\ OneLiveRow' /\ LeftOnce'
      /\ \A m \in reports : m.token # e
      /\ \A l \in Payouts : job'[l].status \in {"none", "queued"} => left'[l] = 0
      /\ \A m \in reports :
            job'[m.job].token = m.token /\ ~MayHavePaid(m.outcome) => left'[m.job] = 0
  BY <1>1, <1>2, HandedKeeps
<1>4. /\ asks' \in [Events -> 0..MaxTries]
      /\ \A n \in Events : asks'[n] <= asks[n] /\ (asks[n] = 0 => asks'[n] = 0)
  BY <1>2, ConstantTypes DEF IInv, TypeOK
<1>5. /\ journal[e] = "unheard" /\ "unheard" \notin Payouts /\ None # "unheard"
      /\ journal'[e] = k /\ \A n \in Events : n # e => journal'[n] = journal[n]
      /\ journal' \in [Events -> Payouts \cup {None, "unheard"}]
  BY <1>1, ConstantTypes DEF Handed, IInv, TypeOK
<1>6. e \in Nat /\ bot.event \in Nat /\ ~(e > bot.event)
  BY <1>2, AskedIsPast
<1>7. /\ row' \in [Admin -> RowStatuses] /\ job' \in [Payouts -> JobRows]
      /\ (k \in Payouts => left[k] = 0)
  BY <1>1 DEF Handed, IInv, TypeOK, RowStatuses, MoneyAgrees
<1>8. CASE UNCHANGED bot
  <2>1. TypeOK'
    BY <1>2, <1>4, <1>5, <1>7, <1>8 DEF IInv, TypeOK
  <2>2. BotAgrees'
    <3>1. bot.phase = "asking" => asks'[bot.event] <= bot.tries
      <4>1. ASSUME bot.phase = "asking" PROVE asks'[bot.event] <= bot.tries
        <5>1. /\ bot.event \in Events /\ asks[bot.event] <= bot.tries
              /\ bot.tries \in Nat /\ asks[bot.event] \in Nat
          BY <4>1 DEF IInv, TypeOK, BotAgrees
        <5>2. asks'[bot.event] \in Nat /\ asks'[bot.event] <= asks[bot.event]
          BY <1>4, <5>1
        <5>3. QED
          BY <5>1, <5>2
      <4>2. QED
        BY <4>1
    <3>2. bot.phase \in {"holding", "settled"} => journal'[bot.event] = bot.job
      BY <1>5 DEF IInv, BotAgrees
    <3>3. QED
      BY <1>8, <3>1, <3>2 DEF IInv, BotAgrees
  <2>3. EventsAgree'
    BY <1>4, <1>5, <1>6, <1>8 DEF IInv, EventsAgree
  <2>4. ReportsAgree'
    BY <1>2, <1>3, <1>5, <1>8 DEF IInv, TypeOK, ReportsAgree, Reports
  <2>5. MoneyAgrees'
    <3>1. bot.phase \in {"asking", "holding"} /\ journal'[bot.event] \in Payouts
             => left[journal'[bot.event]] = 0
      BY <1>5, <1>7 DEF IInv, BotAgrees, MoneyAgrees
    <3>2. QED
      BY <1>2, <1>3, <1>8, <3>1 DEF IInv, MoneyAgrees
  <2>6. QED
    BY <1>3, <2>1, <2>2, <2>3, <2>4, <2>5 DEF IInv
<1>9. CASE told /\ BotHears(e, k)
  <2>1. bot.phase = "asking" /\ bot.event = e
    BY <1>2, <1>9
  <2>2. /\ bot' \in [phase : {"idle", "asking", "holding", "settled"}, event : Events \cup {0},
                     tries : 0..MaxTries, job : Payouts \cup {None},
                     outcome : Outcomes \cup {None}]
        /\ bot'.event = e /\ bot'.phase \in {"idle", "holding"}
        /\ bot'.phase = "holding" => k \in Payouts /\ bot'.job = k
    BY <1>9, HearsTypes
  <2>3. TypeOK'
    BY <1>2, <1>4, <1>5, <1>7, <2>2 DEF IInv, TypeOK
  <2>4. BotAgrees'
    BY <1>5, <2>2 DEF BotAgrees
  <2>5. EventsAgree'
    BY <1>4, <1>5, <1>6, <2>1, <2>2 DEF IInv, EventsAgree
  <2>6. ReportsAgree'
    BY <1>2, <1>3, <1>5, <2>1, <2>2 DEF IInv, TypeOK, ReportsAgree, Reports
  <2>7. MoneyAgrees'
    BY <1>2, <1>3, <1>5, <1>7, <2>2 DEF MoneyAgrees
  <2>8. QED
    BY <1>3, <2>3, <2>4, <2>5, <2>6, <2>7 DEF IInv
<1>10. QED
  BY <1>1, <1>8, <1>9

(* A claim arrives, new or repeated.                                        *)
LEMMA ClaimKeeps ==
    ASSUME ConstantsOK, IInv, NEW e \in Events, NEW told \in BOOLEAN, ClaimArrives(e, told)
    PROVE  IInv'
  BY FirstClaimKeeps, RepeatedClaimKeeps DEF ClaimArrives

-----------------------------------------------------------------------------
(* Steps on one job                                                         *)

(* Nothing the bot knows changes while the bot and the journal stand still. *)
LEMMA BotStandsStill ==
    ASSUME IInv, UNCHANGED <<journal, botVars>>
    PROVE  BotAgrees' /\ EventsAgree' /\ ReportsAgree'
  BY DEF IInv, BotAgrees, EventsAgree, ReportsAgree, botVars

(* A job is made, or given back, or is over: it is out under no event, and  *)
(* if it was, the report is processed.                                      *)
LEMMA JobIsIn ==
    ASSUME ConstantsOK, IInv, NEW k \in Payouts, NEW new \in JobRows,
           job' = [job EXCEPT ![k] = new], UNCHANGED <<journal, botVars, left>>,
           new.token = None, new.status # "leased",
           new.status \in {"none", "queued"} => left[k] = 0,
           heard \subseteq heard',
           job[k].token # None => \E m \in heard' : m.token = job[k].token
    PROVE  /\ job' \in [Payouts -> JobRows]
           /\ ClaimsAgree' /\ TokensAgree' /\ MoneyAgrees' /\ LeftOnce'
<1>1. job' \in [Payouts -> JobRows] /\ job'[k] = new
      /\ \A l \in Payouts : l # k => job'[l] = job[l]
  BY DEF IInv, TypeOK
<1>2. ClaimsAgree'
  <2>1. ASSUME NEW n \in Events, journal[n] \in Payouts
        PROVE  job'[journal[n]].token = n \/ \E m \in heard' : m.token = n
    <3>1. job[journal[n]].token = n \/ \E m \in heard : m.token = n
      BY <2>1 DEF IInv, ClaimsAgree, Reported
    <3>2. n # None
      BY DEF Events
    <3>3. QED
      BY <1>1, <2>1, <3>1, <3>2
  <2>2. QED
    BY <2>1 DEF ClaimsAgree, Reported
<1>3. TokensAgree'
  BY <1>1 DEF IInv, TokensAgree
<1>4. MoneyAgrees'
  <2>1. \A l \in Payouts : job'[l].status \in {"none", "queued"} => left[l] = 0
    BY <1>1 DEF IInv, MoneyAgrees
  <2>2. ASSUME NEW m \in reports, job'[m.job].token = m.token, ~MayHavePaid(m.outcome)
        PROVE  left[m.job] = 0
    <3>1. m.job \in Payouts /\ m.token # None
      BY DEF IInv, TypeOK, Reports, Events
    <3>2. QED
      BY <1>1, <2>2, <3>1 DEF IInv, MoneyAgrees
  <2>3. QED
    BY <2>1, <2>2 DEF IInv, MoneyAgrees, botVars
<1>5. QED
  BY <1>1, <1>2, <1>3, <1>4 DEF IInv, LeftOnce

(* Time passes for a job: its status, token and error stay.                 *)
LEMMA JobAges ==
    ASSUME ConstantsOK, IInv, NEW k \in Payouts, NEW new \in JobRows,
           job' = [job EXCEPT ![k] = new],
           UNCHANGED <<row, journal, refused, heard, botStatus, booked, botVars, left>>,
           new.status = job[k].status, new.token = job[k].token, new.err = job[k].err
    PROVE  IInv'
<1>1. job' \in [Payouts -> JobRows]
      /\ \A l \in Payouts : /\ job'[l].status = job[l].status /\ job'[l].err = job[l].err
                            /\ job'[l].token = job[l].token
  BY DEF IInv, TypeOK
<1>2. TypeOK'
  BY <1>1 DEF IInv, TypeOK, botVars
<1>3. ClaimsAgree'
  BY <1>1 DEF IInv, ClaimsAgree, Reported
<1>4. TokensAgree'
  BY <1>1 DEF IInv, TokensAgree
<1>5. RowsAgree' /\ OneLiveRow'
  BY <1>1 DEF IInv, RowsAgree, OneLiveRow, Live, Admin
<1>6. MoneyAgrees'
  <2>1. \A m \in reports : m.job \in Payouts
    BY DEF IInv, TypeOK, Reports
  <2>2. QED
    BY <1>1, <2>1 DEF IInv, MoneyAgrees, botVars
<1>7. QED
  BY <1>2, <1>3, <1>4, <1>5, <1>6, BotStandsStill DEF IInv, LeftOnce

(* Time passes: a lease lapses, a retry falls due.                          *)
LEMMA AgeingKeeps ==
    ASSUME ConstantsOK, IInv, NEW k \in Payouts, LeaseLapses(k) \/ RetryIsDue(k)
    PROVE  IInv'
<1>1. job[k] \in JobRows
  BY DEF IInv, TypeOK
<1>2. CASE LeaseLapses(k)
  <2> DEFINE new == [job[k] EXCEPT !.lapsed = TRUE]
  <2>1. new \in JobRows /\ job' = [job EXCEPT ![k] = new]
    BY <1>1, <1>2, RowTypes DEF LeaseLapses
  <2>2. new.status = job[k].status /\ new.token = job[k].token /\ new.err = job[k].err
    BY <1>1 DEF JobRows
  <2>3. QED
    BY <1>2, <2>1, <2>2, JobAges DEF LeaseLapses
<1>3. CASE RetryIsDue(k)
  <2> DEFINE new == [job[k] EXCEPT !.avail = "due"]
  <2>1. new \in JobRows /\ job' = [job EXCEPT ![k] = new]
    BY <1>1, <1>3, RowTypes DEF RetryIsDue
  <2>2. new.status = job[k].status /\ new.token = job[k].token /\ new.err = job[k].err
    BY <1>1 DEF JobRows
  <2>3. QED
    BY <1>3, <2>1, <2>2, JobAges DEF RetryIsDue
<1>4. QED
  BY <1>2, <1>3

(* An operator orders a payout.                                             *)
LEMMA PayKeeps == ASSUME ConstantsOK, IInv, NEW k \in Admin, Pay(k) PROVE IInv'
<1>1. /\ k \in Payouts /\ row[k] = "none" /\ PayeeIsFree(k)
      /\ row' = [row EXCEPT ![k] = "queued"] /\ job' = [job EXCEPT ![k] = NewJob]
      /\ UNCHANGED <<journal, refused, heard, botStatus, booked, botVars, left>>
  BY DEF Pay, Admin
<1>2. job[k].status = "none" /\ job[k].token = None /\ left[k] = 0
  BY <1>1 DEF IInv, RowsAgree, TokensAgree, MoneyAgrees
<1>3. NewJob \in JobRows /\ NewJob.token = None /\ NewJob.status = "queued"
  BY RowTypes DEF NewJob, Row
<1>4. /\ job' \in [Payouts -> JobRows]
      /\ ClaimsAgree' /\ TokensAgree' /\ MoneyAgrees' /\ LeftOnce'
  BY <1>1, <1>2, <1>3, JobIsIn
<1>5. TypeOK'
  BY <1>1, <1>4 DEF IInv, TypeOK, botVars, RowStatuses
<1>6. RowsAgree'
  <2>1. row \in [Admin -> RowStatuses] /\ job \in [Payouts -> JobRows]
    BY DEF IInv, TypeOK
  <2>2. QED
    BY <1>1, <1>3, <2>1 DEF IInv, RowsAgree, Admin
<1>7. OneLiveRow'
  <2>1. row'[k] = "queued" /\ \A l \in Admin : l # k => row'[l] = row[l]
    BY <1>1 DEF IInv, TypeOK
  <2>2. QED
    BY <1>1, <2>1 DEF IInv, OneLiveRow, Live, PayeeIsFree
<1>8. QED
  BY <1>1, <1>4, <1>5, <1>6, <1>7, BotStandsStill DEF IInv

(* An operator orders a sweep to the vault.                                 *)
LEMMA QueueSweepKeeps ==
    ASSUME ConstantsOK, IInv, NEW k \in Payouts \ Admin, QueueSweep(k) PROVE IInv'
<1>1. /\ job[k].status = "none" /\ job' = [job EXCEPT ![k] = NewJob]
      /\ UNCHANGED <<row, journal, refused, heard, botStatus, booked, botVars, left>>
  BY DEF QueueSweep
<1>2. job[k].token = None /\ left[k] = 0
  BY <1>1 DEF IInv, TokensAgree, MoneyAgrees
<1>3. NewJob \in JobRows /\ NewJob.token = None /\ NewJob.status = "queued"
  BY RowTypes DEF NewJob, Row
<1>4. /\ job' \in [Payouts -> JobRows]
      /\ ClaimsAgree' /\ TokensAgree' /\ MoneyAgrees' /\ LeftOnce'
  BY <1>1, <1>2, <1>3, JobIsIn
<1>5. TypeOK'
  BY <1>1, <1>4 DEF IInv, TypeOK, botVars
<1>6. RowsAgree' /\ OneLiveRow'
  <2>1. \A l \in Admin : job'[l] = job[l]
    BY <1>1 DEF IInv, TypeOK, Admin
  <2>2. QED
    BY <1>1, <2>1 DEF IInv, RowsAgree, OneLiveRow, Live
<1>7. QED
  BY <1>1, <1>4, <1>5, <1>6, BotStandsStill DEF IInv

(* An operator closes a payout by hand.                                     *)
LEMMA ResolveKeeps == ASSUME ConstantsOK, IInv, NEW k \in Admin, Resolve(k) PROVE IInv'
<1>1. /\ k \in Payouts /\ row[k] \in {"manual_review", "failed"}
      /\ row' = [row EXCEPT ![k] = IF left[k] > 0 THEN "paid" ELSE "failed"]
      /\ job' = IF job[k].status = "dead_letter" THEN [job EXCEPT ![k] = Complete(@)] ELSE job
      /\ UNCHANGED <<journal, refused, heard, botStatus, booked, botVars, left>>
  BY DEF Resolve, Admin
<1>2. job[k] \in JobRows /\ job[k].status \in {"completed", "dead_letter"}
      /\ job[k].token = None
  BY <1>1 DEF IInv, TypeOK, RowsAgree
<1> DEFINE new == IF job[k].status = "dead_letter" THEN Complete(job[k]) ELSE job[k]
<1>3. new \in JobRows /\ new.token = None /\ new.status = "completed"
  <2>1. Complete(job[k]) \in JobRows
    BY <1>2, RowTypes
  <2>2. Complete(job[k]).token = None /\ Complete(job[k]).status = "completed"
    BY <1>2 DEF Complete, JobRows
  <2>3. QED
    BY <1>2, <2>1, <2>2
<1>4. job' = [job EXCEPT ![k] = new]
  BY <1>1, <1>2 DEF IInv, TypeOK
<1> HIDE DEF new
<1>5. /\ job' \in [Payouts -> JobRows]
      /\ ClaimsAgree' /\ TokensAgree' /\ MoneyAgrees' /\ LeftOnce'
  BY <1>1, <1>2, <1>3, <1>4, JobIsIn
<1>6. /\ row' \in [Admin -> RowStatuses] /\ row'[k] \in {"paid", "failed"}
      /\ \A l \in Admin : l # k => row'[l] = row[l]
  BY <1>1 DEF IInv, TypeOK, RowStatuses
<1>7. TypeOK'
  BY <1>1, <1>5, <1>6 DEF IInv, TypeOK, botVars
<1>8. RowsAgree'
  <2>1. job'[k] = new /\ \A l \in Admin : l # k => job'[l] = job[l]
    BY <1>1, <1>4 DEF IInv, TypeOK, Admin
  <2>2. QED
    BY <1>3, <1>6, <2>1 DEF IInv, RowsAgree
<1>9. OneLiveRow'
  BY <1>6 DEF IInv, OneLiveRow, Live
<1>10. QED
  BY <1>1, <1>5, <1>7, <1>8, <1>9, BotStandsStill DEF IInv

-----------------------------------------------------------------------------
(* Reports that arrive                                                      *)

(* A report with a valid lease settles the job that is out under its event. *)
LEMMA ReportSettles ==
    ASSUME ConstantsOK, IInv, NEW m \in reports, ValidLease(job[m.job], m.token),
           heard' = heard \cup {m},
           UNCHANGED <<journal, refused, botStatus, botVars, left>>,
           IF m.outcome = "completed" THEN Completed(m.job) ELSE Failed(m.job, m.outcome)
    PROVE  IInv'
<1> DEFINE k == m.job
           terminal == ~Retryable(m.outcome) \/ OutOfAttempts(job[k])
           code == ErrorCode(m.outcome)
           new == IF m.outcome = "completed" THEN Complete(job[k])
                  ELSE IF terminal THEN DeadLetter(job[k], code) ELSE Requeue(job[k], code)
<1>1. /\ k \in Payouts /\ m.token \in Events /\ m.outcome \in Outcomes
      /\ job[k] \in JobRows /\ job \in [Payouts -> JobRows]
      /\ job[k].status = "leased" /\ job[k].token = m.token
  BY DEF IInv, TypeOK, Reports, ValidLease, TokenMatches
<1>2. m.outcome # "completed" => code \in JobErrors
  BY <1>1 DEF Outcomes, ErrorCode, JobErrors
<1>3. new \in JobRows
  BY <1>1, <1>2, RowTypes
<1>4. /\ new.token = None /\ new.status \in {"completed", "dead_letter", "queued"}
      /\ new.status = "queued" => ~MayHavePaid(m.outcome)
      /\ new.status = "queued" <=> (m.outcome # "completed" /\ ~terminal)
  BY <1>1 DEF Complete, DeadLetter, Requeue, Retryable, MayHavePaid, JobRows
<1>5. new.status = "queued" => left[k] = 0
  BY <1>1, <1>4 DEF IInv, MoneyAgrees
<1>6. job' = [job EXCEPT ![k] = new]
  BY DEF Completed, Failed
<1>7. \E n \in heard' : n.token = job[k].token
  BY <1>1
<1>8. k \in Admin => row[k] = "processing"
  <2>1. row \in [Admin -> RowStatuses]
    BY DEF IInv, TypeOK
  <2>2. QED
    BY <1>1, <2>1 DEF IInv, RowsAgree, RowStatuses
<1>9. row' = IF k \in Admin
             THEN [row EXCEPT ![k] = IF m.outcome = "completed" THEN "paid"
                                     ELSE IF terminal THEN "failed" ELSE "queued"]
             ELSE row
  BY <1>8 DEF Completed, Failed, RowAfterFailure, Live
<1>10. booked' \subseteq Payouts
  BY <1>1 DEF Completed, Failed, IInv, TypeOK
<1> HIDE DEF new, terminal, code
<1>11. /\ job' \in [Payouts -> JobRows]
       /\ ClaimsAgree' /\ TokensAgree' /\ MoneyAgrees' /\ LeftOnce'
  <2>1. /\ new.status # "leased" /\ (new.status \in {"none", "queued"} => left[k] = 0)
        /\ heard \subseteq heard'
    BY <1>4, <1>5
  <2>2. QED
    BY <1>1, <1>3, <1>4, <1>6, <1>7, <2>1, JobIsIn
<1>12. /\ row' \in [Admin -> RowStatuses]
       /\ \A l \in Admin : l # k => row'[l] = row[l]
       /\ k \in Admin => row'[k] = IF m.outcome = "completed" THEN "paid"
                                   ELSE IF terminal THEN "failed" ELSE "queued"
  BY <1>9 DEF IInv, TypeOK, RowStatuses
<1>13. TypeOK'
  BY <1>10, <1>11, <1>12 DEF IInv, TypeOK, botVars
<1>14. RowsAgree'
  <2>1. job'[k] = new /\ \A l \in Admin : l # k => job'[l] = job[l]
    BY <1>1, <1>6 DEF Admin
  <2>2. QED
    BY <1>4, <1>12, <2>1 DEF IInv, RowsAgree
<1>15. OneLiveRow'
  <2>1. \A l \in Admin : Live(l)' => Live(l)
    BY <1>8, <1>12 DEF Live
  <2>2. QED
    BY <2>1 DEF IInv, OneLiveRow
<1>16. QED
  BY <1>11, <1>13, <1>14, <1>15, BotStandsStill DEF IInv

(* A result arrives at the gateway.                                         *)
LEMMA ReportArrivesKeeps ==
    ASSUME ConstantsOK, IInv, NEW m \in reports, ReportArrives(m) PROVE IInv'
<1>1. UNCHANGED <<journal, refused, botVars, left>>
  BY DEF ReportArrives
<1>2. CASE Seen(m)
  <2>1. UNCHANGED vars
    BY <1>1, <1>2 DEF ReportArrives, vars, gatewayVars
  <2>2. QED
    BY <2>1, BooksStandStill, BotStandsStill
       DEF vars, gatewayVars, botVars, IInv, TypeOK, MoneyAgrees
<1>3. CASE ~Seen(m) /\ ~ValidLease(job[m.job], m.token)
  <2>1. heard' = heard \cup {m} /\ botStatus' = "quarantined" /\ UNCHANGED <<row, job, booked>>
    BY <1>3 DEF ReportArrives, InvalidLease
  <2>2. TypeOK'
    BY <1>1, <2>1 DEF IInv, TypeOK, botVars
  <2>3. ClaimsAgree'
    BY <1>1, <2>1 DEF IInv, ClaimsAgree, Reported
  <2>4. TokensAgree' /\ RowsAgree' /\ OneLiveRow' /\ MoneyAgrees' /\ LeftOnce'
    BY <1>1, <2>1
       DEF IInv, TokensAgree, RowsAgree, OneLiveRow, Live, MoneyAgrees, LeftOnce, botVars
  <2>5. QED
    BY <1>1, <2>2, <2>3, <2>4, BotStandsStill DEF IInv
<1>4. CASE ~Seen(m) /\ ValidLease(job[m.job], m.token)
  BY <1>1, <1>4, ReportSettles DEF ReportArrives
<1>5. QED
  BY <1>2, <1>3, <1>4

-----------------------------------------------------------------------------
(* All steps                                                                *)

(* Nothing happens.                                                         *)
LEMMA StutterKeeps == ASSUME IInv, UNCHANGED vars PROVE IInv'
<1>1. UNCHANGED <<row, job, journal, refused, heard, botStatus, booked, botVars, left>>
  BY DEF vars, gatewayVars
<1>2. QED
  BY <1>1, BooksStandStill, BotStandsStill DEF botVars, IInv, TypeOK, MoneyAgrees

(* Every step keeps the invariant.                                          *)
LEMMA NextKeepsIInv == ASSUME ConstantsOK, IInv, [Next]_vars PROVE IInv'
<1>1. CASE OperatorNext
  BY <1>1, PayKeeps, ResolveKeeps, QueueSweepKeeps, StatusKeeps DEF OperatorNext
<1>2. CASE BotNext
  BY <1>2, AskKeeps, AskAgainKeeps, IdlingKeeps, ReportKeeps, SendKeeps, StatusKeeps
     DEF BotNext, GiveUp
<1>3. CASE ClaimNext
  BY <1>3, ClaimKeeps DEF ClaimNext
<1>4. CASE Fault
  BY <1>4, LoseAskKeeps, IdlingKeeps, AgeingKeeps DEF Fault, BotDies
<1>5. CASE \E m \in reports : ReportArrives(m)
  BY <1>5, ReportArrivesKeeps
<1>6. CASE \E k \in Payouts : RetryIsDue(k)
  BY <1>6, AgeingKeeps
<1>7. CASE UNCHANGED vars
  BY <1>7, StutterKeeps
<1>8. QED
  BY <1>1, <1>2, <1>3, <1>4, <1>5, <1>6, <1>7 DEF Next

(* The invariant holds in every reachable state.                            *)
LEMMA Inductive == ASSUME ConstantsOK PROVE Spec => []IInv
<1>1. Init => IInv
  BY InitIInv
<1>2. IInv /\ [Next]_vars => IInv'
  BY NextKeepsIInv
<1>3. QED
  BY <1>1, <1>2, PTL DEF Spec

(* The variables stay in their types.                                       *)
THEOREM TypeCorrect == ASSUME ConstantsOK PROVE Spec => []TypeOK
<1>1. IInv => TypeOK
  BY DEF IInv
<1>2. QED
  BY <1>1, Inductive, PTL

(* The money of an operator's payout or of a sweep leaves the bot at most   *)
(* once, whatever is asked again, posted again or lost.                     *)
THEOREM MoneyLeavesOnce == ASSUME ConstantsOK PROVE Spec => []LeftOnce
<1>1. IInv => LeftOnce
  BY DEF IInv
<1>2. QED
  BY <1>1, Inductive, PTL

(* Two payouts to one player are never both on their way, in the console or *)
(* in the queue.                                                            *)
THEOREM OneAtATime == ASSUME ConstantsOK PROVE Spec => []OnePerPayee
<1>1. ASSUME IInv PROVE OnePerPayee
  <2>1. ASSUME NEW k \in Admin, JobLive(k) PROVE Live(k)
    <3>1. row[k] \in RowStatuses
      BY <1>1 DEF IInv, TypeOK
    <3>2. QED
      BY <1>1, <2>1, <3>1 DEF IInv, RowsAgree, JobLive, Live, RowStatuses
  <2>2. QED
    BY <1>1, <2>1 DEF IInv, OneLiveRow, OnePerPayee
<1>2. IInv => OnePerPayee
  BY <1>1
<1>3. QED
  BY <1>2, Inductive, PTL

-----------------------------------------------------------------------------
(* What a step may never do                                                 *)

(* A result that is not heard yet answers for the token its job still has.  *)
LEMMA FreshTokenMatches ==
    ASSUME ConstantsOK, IInv, NEW m \in reports, m \notin heard
    PROVE  m.job \in Payouts /\ TokenMatches(job[m.job], m.token)
<1>1. m.job \in Payouts /\ m.token \in Events /\ m.token # None /\ journal[m.token] = m.job
  BY DEF IInv, TypeOK, Reports, ReportsAgree, Events
<1>2. ~Reported(m.token)
  BY DEF Reported, IInv, TypeOK, ReportsAgree
<1>3. job[m.job].token = m.token
  BY <1>1, <1>2 DEF IInv, ClaimsAgree
<1>4. QED
  BY <1>1, <1>3 DEF TokenMatches

(* However claims, results and refusals repeat, the money of a payout       *)
(* leaves once and no player has two payouts on their way.                  *)
THEOREM EachLeavesOnce == ASSUME ConstantsOK PROVE Spec => []LeavesOnce
<1>1. LeftOnce /\ OnePerPayee => LeavesOnce
  BY DEF LeavesOnce
<1>2. QED
  BY <1>1, MoneyLeavesOnce, OneAtATime, PTL

(* Only a result that came after its lease had run out puts the bot in      *)
(* quarantine, however often results are posted.                            *)
THEOREM QuarantineHasCause == ASSUME ConstantsOK PROVE Spec => QuarantineIsForLapse
<1>1. ASSUME ConstantsOK, IInv, [Next]_vars
      PROVE  [botStatus = "online" /\ botStatus' = "quarantined"
               => \E m \in heard' \ heard :
                     job[m.job].lapsed \/ job[m.job].err = "LEASE_EXPIRED"]_vars
  <2> SUFFICES ASSUME Next, botStatus = "online", botStatus' = "quarantined"
               PROVE  \E m \in heard' \ heard :
                         job[m.job].lapsed \/ job[m.job].err = "LEASE_EXPIRED"
    BY <1>1 DEF vars, gatewayVars
  <2>1. \E m \in reports : ReportArrives(m)
    <3>1. ~OperatorNext
      BY DEF OperatorNext, Pay, Resolve, QueueSweep, EndQuarantine
    <3>2. ~BotNext
      BY DEF BotNext, Ask, AskAgain, GiveUp, Report, Heartbeat, Send, gatewayVars
    <3>3. ~ClaimNext
      BY DEF ClaimNext, ClaimArrives
    <3>4. ~Fault
      BY DEF Fault, LoseAsk, BotDies, LeaseLapses, gatewayVars
    <3>5. ~\E k \in Payouts : RetryIsDue(k)
      BY DEF RetryIsDue
    <3>6. QED
      BY <3>1, <3>2, <3>3, <3>4, <3>5 DEF Next
  <2>2. PICK m \in reports : ReportArrives(m)
    BY <2>1
  <2>3. m \notin heard /\ heard' = heard \cup {m} /\ ~ValidLease(job[m.job], m.token)
    BY <2>2 DEF ReportArrives, Seen
  <2>4. m.job \in Payouts /\ TokenMatches(job[m.job], m.token)
    BY <1>1, <2>3, FreshTokenMatches
  <2>5. job[m.job].lapsed \/ job[m.job].err = "LEASE_EXPIRED"
    BY <1>1, <2>3, <2>4 DEF ValidLease, TokenMatches, IInv, TokensAgree
  <2>6. QED
    BY <2>3, <2>5
<1>2. QED
  BY <1>1, Inductive, PTL DEF Spec, QuarantineIsForLapse

(* No money leaves for a payout that the console shows as paid or failed.   *)
THEOREM ShownOutcomeIsFinal == ASSUME ConstantsOK PROVE Spec => OutcomeStands
<1>1. ASSUME ConstantsOK, IInv, [Next]_vars
      PROVE  [\A k \in Admin : row[k] \in {"paid", "failed"} => left'[k] = left[k]]_vars
  <2>1. UNCHANGED left \/ \E o \in Outcomes, paid \in BOOLEAN : Send(o, paid)
    <3>1. OperatorNext => UNCHANGED left
      BY DEF OperatorNext, Pay, Resolve, QueueSweep, EndQuarantine
    <3>2. BotNext => UNCHANGED left \/ \E o \in Outcomes, paid \in BOOLEAN : Send(o, paid)
      BY DEF BotNext, Ask, AskAgain, GiveUp, Report, Heartbeat
    <3>3. ClaimNext => UNCHANGED left
      BY DEF ClaimNext, ClaimArrives
    <3>4. Fault => UNCHANGED left
      BY DEF Fault, LoseAsk, BotDies, LeaseLapses
    <3>5. (\E m \in reports : ReportArrives(m)) \/ (\E k \in Payouts : RetryIsDue(k))
             => UNCHANGED left
      BY DEF ReportArrives, RetryIsDue
    <3>6. QED
      BY <1>1, <3>1, <3>2, <3>3, <3>4, <3>5 DEF Next, vars
  <2>2. CASE UNCHANGED left
    BY <2>2
  <2>3. CASE \E o \in Outcomes, paid \in BOOLEAN : Send(o, paid)
    <3>1. PICK o \in Outcomes, paid \in BOOLEAN : Send(o, paid)
      BY <2>3
    <3>2. bot.phase = "holding" /\ bot.job \in Payouts /\ journal[bot.event] = bot.job
      BY <1>1, <3>1 DEF Send, IInv, BotAgrees
    <3>3. job[bot.job].token # None
      BY <1>1, <3>2, HeldIsOut
    <3>4. ASSUME NEW k \in Admin, row[k] \in {"paid", "failed"} PROVE left'[k] = left[k]
      <4>1. k # bot.job /\ k \in Payouts
        BY <1>1, <3>3, <3>4 DEF IInv, RowsAgree, Admin
      <4>2. QED
        BY <1>1, <3>1, <4>1 DEF Send, IInv, TypeOK
    <3>5. QED
      BY <3>4
  <2>4. QED
    BY <2>1, <2>2, <2>3
<1>2. QED
  BY <1>1, Inductive, PTL DEF Spec, OutcomeStands

=============================================================================
