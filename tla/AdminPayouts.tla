----------------------------- MODULE AdminPayouts -----------------------------
(***************************************************************************)
(* Operator payouts, and the journal that answers a bot's claims.          *)
(*                                                                         *)
(* An operator pays a player out of a bot's own balance.  The payout has a *)
(* row, which the console shows, and a job, which the bot claims; a claim  *)
(* whose answer is lost is asked again under the same event and answered   *)
(* from the journal, and so is a report.  Sweeps to the vault share the    *)
(* queue and the journal and have no row.                                  *)
(*                                                                         *)
(* One bot.  Module Payouts has player payouts, and the funds queue that   *)
(* neither kind of job takes part in.                                      *)
(***************************************************************************)
EXTENDS BotJobs, FiniteSets

CONSTANTS
    Payouts, Kind, Payee,
    MaxTries,     \* attempts of one signed POST; 3 in the code
    Prompt        \* bots answer in time: none dies, and no lease is lost

(* What the parameters are.                                                 *)
ConstantsOK ==
    /\ Kind \in [Payouts -> {"admin_payout", "vault_sweep"}]
    /\ Tokens \subseteq Nat /\ None \notin Payouts
    /\ "unheard" \notin Payouts \cup {None}      \* no row of the journal
    /\ MaxTries \in Nat \ {0} /\ Prompt \in BOOLEAN

VARIABLES
    row,        \* admin_payouts.status
    job,        \* the bot_jobs row of each
    journal,    \* each event's stored answer to a claim
    refused,    \* events that were answered with an error
    heard,      \* job results in the journal
    botStatus,  \* bot_accounts.status
    booked,     \* legs in bot_transfers
    bot,        \* what the bot is doing
    asks,       \* attempts of each claim under way
    reports,    \* results the bot has posted
    left        \* how often the game paid each

gatewayVars == <<row, job, journal, refused, heard, botStatus, booked>>
botVars     == <<bot, asks, reports>>
vars        == <<gatewayVars, botVars, left>>

(* An event's lease token is derived from it, so the event stands for it.   *)
Events == Tokens
Admin  == {k \in Payouts : Kind[k] = "admin_payout"}

RowStatuses == {"none", "queued", "processing", "paid", "failed", "manual_review"}
Outcomes == {"completed", "PAYOUT_UNCONFIRMED", "PAYOUT_INSUFFICIENT_FUNDS",
             "PAYOUT_NOT_SENT", "cooldown"}

Idle(e) == [phase |-> "idle", event |-> e, tries |-> 0, job |-> None, outcome |-> None]

Init ==
    /\ row = [k \in Admin |-> "none"]
    /\ job = [k \in Payouts |-> NoJob]
    /\ journal = [e \in Events |-> "unheard"]
    /\ refused = {} /\ heard = {} /\ booked = {}
    /\ botStatus = "online"
    /\ bot = Idle(0) /\ asks = [e \in Events |-> 0] /\ reports = {}
    /\ left = [k \in Payouts |-> 0]

Live(k)    == row[k] \in {"queued", "processing"}
JobLive(k) == job[k].status \in {"queued", "leased"}

-----------------------------------------------------------------------------
(* Operators and the sweeper                                                *)

(* SLIP: no index on live payouts.                                          *)
PayeeIsFreeAlways(k) == TRUE

(* admin_payouts_one_live_idx                                               *)
PayeeIsFree(k) == \A l \in Admin : Payee[l] = Payee[k] => ~Live(l)

(* A payout is its idempotency key: a repeated request is answered with the *)
(* row the first one made.                                                  *)
Pay(k) ==
    /\ botStatus = "online" /\ row[k] = "none" /\ PayeeIsFree(k)
    /\ row' = [row EXCEPT ![k] = "queued"]
    /\ job' = [job EXCEPT ![k] = NewJob]
    /\ UNCHANGED <<journal, refused, heard, botStatus, booked, botVars, left>>

(* queueVaultSweep; module TellerFloat has when and how much.               *)
QueueSweep(k) ==
    /\ job[k].status = "none" /\ \A l \in Payouts \ Admin : ~JobLive(l)
    /\ job' = [job EXCEPT ![k] = NewJob]
    /\ UNCHANGED <<row, journal, refused, heard, botStatus, booked, botVars, left>>

(* The operator looks in the game before deciding.                          *)
Resolve(k) ==
    /\ row[k] \in {"manual_review", "failed"}
    /\ row' = [row EXCEPT ![k] = IF left[k] > 0 THEN "paid" ELSE "failed"]
    /\ job' = IF job[k].status = "dead_letter"
              THEN [job EXCEPT ![k] = Complete(@)] ELSE job
    /\ UNCHANGED <<journal, refused, heard, botStatus, booked, botVars, left>>

(* Released with a fresh matching snapshot, which is taken as given.        *)
EndQuarantine ==
    /\ botStatus = "quarantined" /\ botStatus' = "degraded"
    /\ UNCHANGED <<row, job, journal, refused, heard, booked, botVars, left>>

Heartbeat ==
    /\ botStatus = "degraded" /\ botStatus' = "online"
    /\ UNCHANGED <<row, job, journal, refused, heard, booked, botVars, left>>

-----------------------------------------------------------------------------
(* Claims                                                                   *)

(* post: the next claim is a new event, a repeated attempt the same one.    *)
(* Claims that would find nothing are left out, as a bound.                 *)
Ask ==
    /\ bot.phase = "idle" /\ bot.event + 1 \in Events
    /\ \E k \in Payouts : Claimable(job[k]) \/ LeaseRanOut(job[k])
    /\ bot' = [Idle(bot.event + 1) EXCEPT !.phase = "asking", !.tries = 1]
    /\ asks' = [asks EXCEPT ![bot.event + 1] = 1]
    /\ UNCHANGED <<gatewayVars, reports, left>>

(* SLIP: the attempts are not counted.                                      *)
AskForEver ==
    /\ bot.phase = "asking" /\ asks[bot.event] = 0
    /\ bot' = [bot EXCEPT !.tries = @ + 1]
    /\ asks' = [asks EXCEPT ![bot.event] = @ + 1]
    /\ UNCHANGED <<gatewayVars, reports, left>>

AskAgain ==
    /\ bot.phase = "asking" /\ bot.tries < MaxTries
    /\ bot' = [bot EXCEPT !.tries = @ + 1]
    /\ asks' = [asks EXCEPT ![bot.event] = @ + 1]
    /\ UNCHANGED <<gatewayVars, reports, left>>

GiveUp ==
    /\ bot.phase = "asking" /\ bot.tries = MaxTries
    /\ Prompt => asks[bot.event] = 0
    /\ bot' = Idle(bot.event)
    /\ UNCHANGED <<gatewayVars, asks, reports, left>>

(* SLIP: a job whose lease ran out is queued again.                         *)
RequeueExpired(j) == IF LeaseRanOut(j) /\ ~OutOfAttempts(j)
                     THEN Requeue(j, "LEASE_EXPIRED") ELSE j

(* The sweep of expired leases.  It settles the rows of item withdrawals,   *)
(* player payouts and releases; here the jobs are of other kinds.           *)
SweepExpired(j) == IF LeaseRanOut(j) THEN ExpireLease(j) ELSE j

(* SLIP: the payout of a job whose lease ran out fails.                     *)
SweptRowFails(k) == IF LeaseRanOut(job[k]) THEN "failed" ELSE row[k]

SweptRow(k) == row[k]

SweptJobs == [k \in Payouts |-> SweepExpired(job[k])]

(* SLIP: the answer to a claim is not stored.                               *)
NoneReadsBack(e) == journal[e] = None

(* storedClaimResponseSchema reads back the kinds it knows.                 *)
ReadsBack(e) == journal[e] = None \/ Kind[journal[e]] = "admin_payout"

BotHears(e, k) ==
    bot' = IF k = None THEN Idle(e) ELSE [Idle(e) EXCEPT !.phase = "holding", !.job = k]

NotTold(told) == ~told /\ UNCHANGED bot

(* The first attempt of a claim to arrive: the sweep, then the oldest job   *)
(* that is due; which of the due ones is left open.                         *)
FirstClaim(e, told) ==
    /\ journal[e] = "unheard"
    /\ LET due == {k \in Payouts : Claimable(SweptJobs[k]) /\ botStatus = "online"} IN
       \E k \in IF due = {} THEN {None} ELSE due :
         /\ journal' = [journal EXCEPT ![e] = k]
         /\ job' = IF k = None THEN SweptJobs ELSE [SweptJobs EXCEPT ![k] = Lease(@, e)]
         /\ row' = [l \in Admin |-> IF l = k /\ row[l] = "queued" THEN "processing" ELSE SweptRow(l)]
         /\ NotTold(told) \/ (told /\ BotHears(e, k))
    /\ UNCHANGED refused

RepeatedClaim(e, told) ==
    /\ journal[e] # "unheard"
    /\ IF ReadsBack(e)
       THEN /\ NotTold(told) \/ (told /\ BotHears(e, journal[e]))
            /\ UNCHANGED refused
       ELSE UNCHANGED bot /\ refused' = refused \cup {e}
    /\ UNCHANGED <<row, job, journal>>

MayBeLost(e) == Prompt => (bot.event = e /\ bot.phase = "asking"
                              => bot.tries < MaxTries \/ asks[e] > 1)

(* told: the answer reaches the bot while it still waits for it.            *)
ClaimArrives(e, told) ==
    /\ asks[e] > 0 /\ asks' = [asks EXCEPT ![e] = @ - 1]
    /\ told \/ MayBeLost(e)
    /\ told => bot.phase = "asking" /\ bot.event = e
    /\ FirstClaim(e, told) \/ RepeatedClaim(e, told)
    /\ UNCHANGED <<heard, botStatus, booked, reports, left>>

LoseAsk(e) ==
    /\ asks[e] > 0 /\ asks' = [asks EXCEPT ![e] = @ - 1]
    /\ MayBeLost(e)
    /\ UNCHANGED <<gatewayVars, bot, reports, left>>

-----------------------------------------------------------------------------
(* Paying and reporting                                                     *)

(* sendCashPayout, up to the answer: silence may hide a payment.            *)
Send(o, paid) ==
    /\ bot.phase = "holding"
    /\ o = "completed" => paid
    /\ paid => o \in {"completed", "PAYOUT_UNCONFIRMED"}
    /\ bot' = [bot EXCEPT !.phase = "settled", !.outcome = o]
    /\ left' = IF paid THEN [left EXCEPT ![bot.job] = @ + 1] ELSE left
    /\ UNCHANGED <<gatewayVars, asks, reports>>

Report ==
    /\ bot.phase = "settled"
    /\ reports' = reports \cup {[job |-> bot.job, token |-> bot.event, outcome |-> bot.outcome]}
    /\ bot' = Idle(bot.event)
    /\ UNCHANGED <<gatewayVars, asks, left>>

BotDies ==
    /\ ~Prompt /\ bot.phase # "idle" /\ bot' = Idle(bot.event)
    /\ UNCHANGED <<gatewayVars, asks, reports, left>>

LeaseLapses(k) ==
    /\ job[k].status = "leased" /\ ~job[k].lapsed /\ ~Prompt
    /\ job' = [job EXCEPT ![k].lapsed = TRUE]
    /\ UNCHANGED <<row, journal, refused, heard, botStatus, booked, botVars, left>>

(* available_at comes                                                       *)
RetryIsDue(k) ==
    /\ job[k].status = "queued" /\ job[k].avail = "later"
    /\ job' = [job EXCEPT ![k].avail = "due"]
    /\ UNCHANGED <<row, journal, refused, heard, botStatus, booked, botVars, left>>

(* SLIP: silence is tried again.                                            *)
RetryableOrSilent(o) == o \in {"cooldown", "PAYOUT_UNCONFIRMED"}

Retryable(o) == o = "cooldown"
ErrorCode(o) == IF o = "cooldown" THEN "PAYOUT_NOT_SENT" ELSE o

(* processJobResult on a job of this bot with a valid lease.                *)
Completed(k) ==
    /\ job' = [job EXCEPT ![k] = Complete(@)]
    /\ row' = IF k \in Admin /\ Live(k) THEN [row EXCEPT ![k] = "paid"] ELSE row
    /\ booked' = booked \cup {k}

(* SLIP: the row fails on the first refusal, the job is tried again.        *)
RowFails(k, terminal) == [row EXCEPT ![k] = "failed"]

RowAfterFailure(k, terminal) ==
    IF k \in Admin /\ Live(k)
    THEN [row EXCEPT ![k] = IF terminal THEN "failed" ELSE "queued"] ELSE row

Failed(k, o) ==
    LET terminal == ~Retryable(o) \/ OutOfAttempts(job[k]) IN
    /\ job' = [job EXCEPT ![k] = IF terminal THEN DeadLetter(@, ErrorCode(o))
                                 ELSE Requeue(@, ErrorCode(o))]
    /\ row' = RowAfterFailure(k, terminal)
    /\ UNCHANGED booked

(* SLIP: a repeated result is processed again.                              *)
NeverSeen(m) == FALSE

Seen(m) == m \in heard

(* quarantineBotAndJobs spares money jobs, and there are no others here.    *)
InvalidLease == botStatus' = "quarantined" /\ UNCHANGED <<row, job, booked>>

(* A result is posted several times; the journal lets one through.          *)
ReportArrives(m) ==
    /\ m \in reports
    /\ IF Seen(m) THEN UNCHANGED <<row, job, booked, heard, botStatus>>
       ELSE /\ heard' = heard \cup {m}
            /\ IF ~ValidLease(job[m.job], m.token) THEN InvalidLease
               ELSE /\ IF m.outcome = "completed" THEN Completed(m.job)
                       ELSE Failed(m.job, m.outcome)
                    /\ UNCHANGED botStatus
    /\ UNCHANGED <<journal, refused, botVars, left>>

-----------------------------------------------------------------------------
OperatorNext ==
    \/ \E k \in Admin : Pay(k) \/ Resolve(k)
    \/ \E k \in Payouts \ Admin : QueueSweep(k)
    \/ EndQuarantine

BotNext ==
    \/ Ask \/ AskAgain \/ GiveUp \/ Report \/ Heartbeat
    \/ \E o \in Outcomes, paid \in BOOLEAN : Send(o, paid)

ClaimNext == \E e \in Events, told \in BOOLEAN : ClaimArrives(e, told)

Fault ==
    \/ \E e \in Events : LoseAsk(e)
    \/ BotDies
    \/ \E k \in Payouts : LeaseLapses(k)

Next ==
    \/ OperatorNext \/ BotNext \/ ClaimNext \/ Fault
    \/ \E m \in reports : ReportArrives(m)
    \/ \E k \in Payouts : RetryIsDue(k)

Spec == Init /\ [][Next]_vars

-----------------------------------------------------------------------------
(* Correctness                                                              *)

Reports == [job : Payouts, token : Events, outcome : Outcomes]

TypeOK ==
    /\ row \in [Admin -> RowStatuses]
    /\ job \in [Payouts -> JobRows]
    /\ journal \in [Events -> Payouts \cup {None, "unheard"}]
    /\ refused \subseteq Events /\ heard \subseteq reports /\ booked \subseteq Payouts
    /\ botStatus \in {"online", "degraded", "quarantined"}
    /\ bot \in [phase : {"idle", "asking", "holding", "settled"}, event : Events \cup {0},
                tries : 0..MaxTries, job : Payouts \cup {None}, outcome : Outcomes \cup {None}]
    /\ asks \in [Events -> 0..MaxTries] /\ reports \subseteq Reports
    /\ left \in [Payouts -> Nat]

(* The money of a payout or a sweep leaves the bot at most once, however    *)
(* often its claim is asked, its report repeated or its command refused.    *)
LeftOnce == \A k \in Payouts : left[k] <= 1

(* Two payouts to one player are never both on their way: neither their     *)
(* rows nor the jobs a bot could still claim.                               *)
OnePerPayee ==
    \A k, l \in Admin :
        k # l /\ Payee[k] = Payee[l] => ~(JobLive(k) /\ JobLive(l)) /\ ~(Live(k) /\ Live(l))

(* Both: the money an operator sends leaves once, to one payout at a time.  *)
LeavesOnce == LeftOnce /\ OnePerPayee

(* A bot is put in quarantine only by a result whose lease had run out: a   *)
(* result posted twice, or one that follows a repeated claim, never does.   *)
QuarantineIsForLapse ==
    [][botStatus = "online" /\ botStatus' = "quarantined"
        => \E m \in heard' \ heard :
              job[m.job].lapsed \/ job[m.job].err = "LEASE_EXPIRED"]_vars

(* Once the console shows a payout's outcome no money leaves for it.        *)
OutcomeStands ==
    [][\A k \in Admin : row[k] \in {"paid", "failed"} => left'[k] = left[k]]_vars

=============================================================================
