------------------------------- MODULE BotJobs -------------------------------
(***************************************************************************)
(* A row of the bot_jobs table: one piece of work queued for a Minecraft   *)
(* bot, handed out under a two-minute lease that a token proves.           *)
(*                                                                         *)
(* This module holds the row's type and what each statement of the gateway *)
(* does to it.  It has no variables: the modules that model a kind of job  *)
(* keep their rows in a variable of their own and update them with these   *)
(* operators.                                                              *)
(***************************************************************************)
EXTENDS Integers

CONSTANTS
    MaxAttempts,   \* claims a job may spend; 5 in the code
    Tokens,        \* lease tokens
    None           \* the NULL of lease_token_hash, and of "no job in hand"

ASSUME MaxAttemptsAssumption == MaxAttempts \in Nat \ {0}
ASSUME NoneIsNoToken == None \notin Tokens

(* "none" is a reference_id that has no row.                                *)
JobStatuses == {"none", "queued", "leased", "completed", "failed", "dead_letter"}

(* available_at against the clock: due, a delay ahead, or parked a century  *)
(* ahead by an operator's hold.                                             *)
Availability == {"due", "later", "parked"}

JobErrors == {"none", "PAYOUT_NOT_SENT", "PAYOUT_FAILED", "PAYOUT_UNCONFIRMED",
              "PAYOUT_AMOUNT_MISMATCH", "PAYOUT_INSUFFICIENT_FUNDS",
              "LEASE_EXPIRED", "INVALID_JOB_LEASE", "BOT_QUARANTINED",
              "REJECTED_BY_ADMIN"}

JobRows == [status   : JobStatuses,
            attempts : 0..MaxAttempts,
            avail    : Availability,
            token    : Tokens \cup {None},
            lapsed   : BOOLEAN,           \* lease_expires_at has passed
            err      : JobErrors]

Row(status) == [status |-> status, attempts |-> 0, avail |-> "due", token |-> None,
                lapsed |-> FALSE, err |-> "none"]

NoJob  == Row("none")
NewJob == Row("queued")

Held(j) == j.status = "queued" /\ j.avail = "parked"

(* SLIP: the error is left on a parked row.                                 *)
ParkKeepingError(j) == [j EXCEPT !.avail = "parked"]

(* An operator's hold parks the row; its error is cleared, or the claim     *)
(* would let it block every newer money job and a deposit would wake it.    *)
Park(j) == [j EXCEPT !.avail = "parked", !.err = "none"]

(* SLIP: ON CONFLICT DO NOTHING.                                            *)
InsertOnly(j) == IF j.status = "none" THEN NewJob ELSE j

(* The insert of a payout job: a held row is brought back, a live or dead   *)
(* one is left exactly as it is.                                            *)
InsertOrRelease(j) ==
    IF j.status = "none" THEN NewJob
    ELSE IF Held(j) THEN [j EXCEPT !.avail = "due"]
    ELSE j

Claimable(j) == j.status = "queued" /\ j.avail = "due" /\ j.attempts < MaxAttempts

Lease(j, t) == [j EXCEPT !.status = "leased", !.attempts = @ + 1,
                         !.token = t, !.lapsed = FALSE]

LeaseRanOut(j) == j.status = "leased" /\ j.lapsed

(* The row keeps its token: a confirmation that arrives late is recognised  *)
(* by it.                                                                   *)
ExpireLease(j) == [j EXCEPT !.status = "dead_letter", !.err = "LEASE_EXPIRED",
                            !.lapsed = FALSE]

TokenMatches(j, t) == j.token # None /\ j.token = t

ValidLease(j, t) == j.status = "leased" /\ TokenMatches(j, t) /\ ~j.lapsed

DeadLetter(j, code) == [j EXCEPT !.status = "dead_letter", !.err = code,
                                 !.token = None, !.lapsed = FALSE]

Complete(j) == [j EXCEPT !.status = "completed", !.token = None, !.lapsed = FALSE]

(* The same for a confirmation that came after the lease: the error that    *)
(* the expired lease left is cleared.                                       *)
CompleteLate(j) == [j EXCEPT !.status = "completed", !.token = None,
                             !.lapsed = FALSE, !.err = "none"]

(* A retry: the attempt stays spent and the next one is some seconds off.   *)
Requeue(j, code) == [j EXCEPT !.status = "queued", !.avail = "later",
                              !.token = None, !.lapsed = FALSE, !.err = code]

(* A refusal for funds is a known answer, so its attempt is given back.     *)
RequeueForFunds(j) ==
    [j EXCEPT !.status = "queued", !.avail = "later", !.token = None, !.lapsed = FALSE,
              !.err = "PAYOUT_INSUFFICIENT_FUNDS",
              !.attempts = IF @ > 0 THEN @ - 1 ELSE 0]

WaitsForFunds(j) == j.status = "queued" /\ j.err = "PAYOUT_INSUFFICIENT_FUNDS"

(* Money landed on the bot: what waits for funds is due now.  A row that is *)
(* parked carries no error, so a hold is never undone here.                 *)
Wake(j) == IF WaitsForFunds(j) THEN [j EXCEPT !.avail = "due"] ELSE j

(* attempts are spent once the job has been claimed this often.             *)
OutOfAttempts(j) == j.attempts >= MaxAttempts

=============================================================================
