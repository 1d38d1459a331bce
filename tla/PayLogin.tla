------------------------------ MODULE PayLogin ------------------------------
(***************************************************************************)
(* Money that comes in: deposits, and sign-ins by paying a secret amount.  *)
(*                                                                         *)
(* The bot reports every payment it reads in chat as a cash receipt, and   *)
(* one whose amount is shown exactly a second time, as a payment that may  *)
(* answer a sign-in.  Its queue keeps the order, is in memory, and retries *)
(* the first report for minutes and the second for a second.  An event the *)
(* gateway has journalled is answered without being processed again.       *)
(* Transactions are SERIALIZABLE and single steps.                         *)
(*                                                                         *)
(* The amount of a sign-in is drawn at random: here every challenge has    *)
(* one of its own, and it stands for the amount.  Deposits are of another. *)
(* The bonus, invite and wager requirement that come with a sign-in, and   *)
(* the bot's own balance, are not part of this module.                     *)
(***************************************************************************)
EXTENDS Naturals, Sequences, FiniteSets

CONSTANTS
    Players,        \* identities: Java accounts, and
    Bedrock,        \* the players whose name is all there is
    Bases,          \* names, apart from Bedrock's dot
    Challenges, Payments,
    Slips,          \* players may mistake the dot when they type their name
    Listed,         \* the player list has whoever has just paid
    MaxFaults,      \* bound: lost replies, outages and restarts of the bot
    MaxRenames      \* bound: players who take another name

Nobody == "nobody"
Deposit == "deposit"
Aims == Challenges \cup {Deposit}
NoName == [base |-> "", dot |-> FALSE]
Names == [base : Bases, dot : BOOLEAN]

(* What the parameters are.                                                 *)
ConstantsOK ==
    /\ Bedrock \subseteq Players /\ Nobody \notin Players /\ IsFiniteSet(Payments)
    /\ Deposit \notin Challenges
    /\ "" \notin Bases /\ Bases \cap Players = {}
    /\ Slips \in BOOLEAN /\ Listed \in BOOLEAN /\ MaxFaults \in Nat /\ MaxRenames \in Nat

VARIABLES
    nameOf,     \* who is called what in the game
    challenge,  \* auth_link_challenges
    payment,    \* what was paid in the game
    queue,      \* paymentReports: what the bot still has to report
    journal,    \* inbound_bot_events: the reports that have been processed
    receipt,    \* cash_payment_receipts.status
    account,    \* users and sessions, by identity
    credits,    \* how often each account was credited for each amount
    poll,       \* the name a status request is asking Mojang about
    faults, renames

vars == <<nameOf, challenge, payment, queue, journal, receipt, account, credits, poll,
          faults, renames>>

NoChallenge == [state |-> "none", owner |-> Nobody, name |-> NoName, seen |-> FALSE,
                expired |-> FALSE, as |-> Nobody]
NoPayment == [by |-> Nobody, name |-> NoName, aim |-> Deposit, uuid |-> FALSE]
Made == {x \in Payments : payment[x].by # Nobody}

(* The name of an account whose old one somebody else has signed in with.   *)
Placeholder(p) == [base |-> p, dot |-> FALSE]

Init ==
    /\ nameOf \in [Players -> Names]
    /\ \A p, q \in Players : nameOf[p] = nameOf[q] => p = q
    /\ \A p \in Players : nameOf[p].dot <=> p \in Bedrock
    /\ challenge = [c \in Challenges |-> NoChallenge]
    /\ payment = [x \in Payments |-> NoPayment]
    /\ queue = <<>> /\ journal = {} /\ receipt = [x \in Payments |-> "none"]
    /\ \E known \in SUBSET Players :
          account = [p \in Players |-> [exists |-> p \in known, session |-> p \in known,
                                        name |-> IF p \in known THEN nameOf[p] ELSE NoName]]
    /\ credits = [p \in Players |-> [a \in Aims |-> 0]]
    /\ poll = [c \in Challenges |-> NoName]
    /\ faults = 0 /\ renames = 0

-----------------------------------------------------------------------------
(* Starting a sign-in, and paying                                           *)

(* SLIP: everything that has expired is cleared away.                       *)
ClearedWhole(c) == challenge[c].state \in {"open", "confirmed"} /\ challenge[c].expired

(* The expired challenges that the next start deletes.                      *)
Cleared(c) == challenge[c].state = "open" /\ challenge[c].expired

TypedBy(p) == {nameOf[p]} \cup (IF Slips THEN {[nameOf[p] EXCEPT !.dot = ~@]} ELSE {})

Start(p, c, typed) ==
    /\ challenge[c].state = "none" /\ typed \in TypedBy(p)
    /\ challenge' = [d \in Challenges |->
                       IF d = c THEN [NoChallenge EXCEPT !.state = "open", !.owner = p, !.name = typed]
                       ELSE IF Cleared(d) THEN [challenge[d] EXCEPT !.state = "deleted"]
                       ELSE challenge[d]]
    /\ UNCHANGED <<nameOf, payment, queue, journal, receipt, account, credits, poll, faults, renames>>

(* A player pays a deposit, or the amount of a challenge of his: perhaps    *)
(* late, perhaps twice.  The bot reads the payer's UUID off the player      *)
(* list as the receipt appears.                                             *)
Pay(p, x, aim) ==
    /\ payment[x].by = Nobody
    /\ aim \in Challenges => challenge[aim].owner = p
    /\ \E uuid \in (IF p \in Bedrock THEN {FALSE} ELSE IF Listed THEN {TRUE} ELSE BOOLEAN) :
          payment' = [payment EXCEPT ![x] = [by |-> p, name |-> nameOf[p], aim |-> aim, uuid |-> uuid]]
    /\ queue' = Append(queue, [of |-> x, as |-> "receipt"])
    /\ UNCHANGED <<nameOf, challenge, journal, receipt, account, credits, poll, faults, renames>>

-----------------------------------------------------------------------------
(* The bot's reports                                                        *)

IsOpen(c) == challenge[c].state = "open" /\ ~challenge[c].expired

(* Whether a receipt is the payment of a sign-in: the name must be the same *)
(* to the letter.                                                           *)
IsLogin(x) ==
    /\ payment[x].aim \in Challenges
    /\ IsOpen(payment[x].aim) /\ challenge[payment[x].aim].name = payment[x].name

(* SLIP: the account is looked up by name even when the UUID is known.      *)
HolderByName(x) == {p \in Players : account[p].exists /\ account[p].name = payment[x].name}

(* The account a deposit belongs to: by UUID if there is one, or by name.   *)
Holder(x) ==
    IF payment[x].uuid THEN {p \in {payment[x].by} : account[p].exists} ELSE HolderByName(x)

(* processCashPaymentObserved                                               *)
ProcessReceipt(x) ==
    /\ receipt' = [receipt EXCEPT ![x] = IF IsLogin(x) THEN "login_payment"
                                         ELSE IF Holder(x) # {} THEN "credited" ELSE "unlinked"]
    /\ credits' = [p \in Players |->
                     IF ~IsLogin(x) /\ p \in Holder(x)
                     THEN [credits[p] EXCEPT ![payment[x].aim] = @ + 1] ELSE credits[p]]
    /\ UNCHANGED challenge

(* processPaymentObserved: the dot is not compared, and the challenge takes *)
(* the payer's name.                                                        *)
ProcessNotice(x) ==
    LET c == payment[x].aim
        matches == c \in Challenges /\ IsOpen(c) /\ challenge[c].name.base = payment[x].name.base
    IN  /\ challenge' = IF matches
                        THEN [challenge EXCEPT ![c].seen = TRUE, ![c].name = payment[x].name]
                        ELSE challenge
        /\ UNCHANGED <<receipt, credits>>

(* SLIP: the notice is queued behind, and the receipt left where it is.     *)
NoticeQueuedBehind ==
    IF Head(queue).as = "receipt" /\ payment[Head(queue).of].aim # Deposit
    THEN Append(queue, [Head(queue) EXCEPT !.as = "notice"])
    ELSE Tail(queue)

(* After the receipt an exact amount is reported again, as a notice.        *)
NextReport ==
    IF Head(queue).as = "receipt" /\ payment[Head(queue).of].aim # Deposit
    THEN <<[Head(queue) EXCEPT !.as = "notice"]>> \o Tail(queue)
    ELSE Tail(queue)

(* A report is processed unless it was before.  If the answer is lost the   *)
(* bot sends it again.                                                      *)
ReportArrives(answered) ==
    /\ queue # <<>>
    /\ LET report == Head(queue)
       IN  /\ IF report \in journal THEN UNCHANGED <<challenge, receipt, credits>>
              ELSE IF report.as = "receipt" THEN ProcessReceipt(report.of)
              ELSE ProcessNotice(report.of)
           /\ journal' = journal \cup {report}
    /\ queue' = IF answered THEN NextReport ELSE queue
    /\ faults' = IF answered THEN faults ELSE faults + 1
    /\ faults' <= MaxFaults
    /\ UNCHANGED <<nameOf, payment, account, poll, renames>>

(* The gateway was unreachable for longer than the report is retried.  What *)
(* was not reported as a receipt is not reported as a notice either.        *)
GiveUp ==
    /\ queue # <<>> /\ faults < MaxFaults /\ faults' = faults + 1
    /\ queue' = Tail(queue)
    /\ UNCHANGED <<nameOf, challenge, payment, journal, receipt, account, credits, poll, renames>>

BotRestarts ==
    /\ queue # <<>> /\ faults < MaxFaults /\ faults' = faults + 1
    /\ queue' = <<>>
    /\ UNCHANGED <<nameOf, challenge, payment, journal, receipt, account, credits, poll, renames>>

-----------------------------------------------------------------------------
(* The browser                                                              *)

(* SLIP: whether the payment was seen is not looked at.                     *)
StatusAsksEarly(c) ==
    /\ IsOpen(c) /\ poll[c] = NoName
    /\ poll' = [poll EXCEPT ![c] = challenge[c].name]
    /\ UNCHANGED <<nameOf, challenge, payment, queue, journal, receipt, account, credits, faults, renames>>

(* GET status, up to the question to Mojang.                                *)
StatusAsks(c) ==
    /\ IsOpen(c) /\ challenge[c].seen /\ poll[c] = NoName
    /\ poll' = [poll EXCEPT ![c] = challenge[c].name]
    /\ UNCHANGED <<nameOf, challenge, payment, queue, journal, receipt, account, credits, faults, renames>>

Resolved(name) == {p \in Players : nameOf[p] = name}

(* The guard of the UPDATE that confirms.                                   *)
MayConfirm(c) == challenge[c].state = "open"

(* Mojang answers, or does not; the challenge may have expired meanwhile.   *)
StatusConfirms(c) ==
    /\ poll[c] # NoName /\ poll' = [poll EXCEPT ![c] = NoName]
    /\ \/ \E p \in Resolved(poll[c]) :
             /\ MayConfirm(c)
             /\ challenge' = [challenge EXCEPT ![c].state = "confirmed", ![c].as = p,
                                               ![c].name = poll[c]]
       \/ UNCHANGED challenge
    /\ UNCHANGED <<nameOf, payment, queue, journal, receipt, account, credits, faults, renames>>

(* SLIP: challenges that were completed before are credited again.          *)
RedeemableAgain(p) == {d \in Challenges : challenge[d].state \in {"confirmed", "completed"} /\ challenge[d].as = p}

(* The confirmed payments of an identity that are still to be credited.     *)
Redeemable(p) == {d \in Challenges : challenge[d].state = "confirmed" /\ challenge[d].as = p}

(* SLIP: an account that is signed in keeps its name.                       *)
DisplacedIfAway(p, name) ==
    {q \in Players \ {p} : account[q].exists /\ account[q].name = name /\ ~account[q].session}

(* The account that had the name before.                                    *)
Displaced(p, name) == {q \in Players \ {p} : account[q].exists /\ account[q].name = name}

(* POST complete: whoever had the name loses it and is signed out, and all  *)
(* the confirmed payments of this identity are credited.                    *)
Complete(c) ==
    /\ challenge[c].state = "confirmed"
    /\ LET p == challenge[c].as  name == challenge[c].name
       IN  /\ account' = [q \in Players |->
                            IF q = p THEN [exists |-> TRUE, session |-> TRUE, name |-> name]
                            ELSE IF q \in Displaced(p, name)
                            THEN [account[q] EXCEPT !.name = Placeholder(q), !.session = FALSE]
                            ELSE account[q]]
           /\ credits' = [credits EXCEPT ![p] = [a \in Aims |->
                            IF a \in Redeemable(p) THEN @[a] + 1 ELSE @[a]]]
           /\ challenge' = [d \in Challenges |->
                              IF d \in Redeemable(p) THEN [challenge[d] EXCEPT !.state = "completed"]
                              ELSE challenge[d]]
    /\ UNCHANGED <<nameOf, payment, queue, journal, receipt, poll, faults, renames>>

-----------------------------------------------------------------------------
(* Time and the game                                                        *)

Expire(c) ==
    /\ challenge[c].state \in {"open", "confirmed"} /\ ~challenge[c].expired
    /\ challenge' = [challenge EXCEPT ![c].expired = TRUE]
    /\ UNCHANGED <<nameOf, payment, queue, journal, receipt, account, credits, poll, faults, renames>>

(* A Java player takes a name nobody has.  A name that was given up is free *)
(* only weeks later: nothing of its old owner is under way any more.        *)
Rename(p, name) ==
    /\ p \notin Bedrock /\ ~name.dot /\ renames < MaxRenames /\ renames' = renames + 1
    /\ name \in Names /\ \A q \in Players : nameOf[q] # name
    /\ queue = <<>> /\ \A c \in Challenges : poll[c] = NoName /\ ~IsOpen(c) /\ challenge[c].state # "confirmed"
    /\ nameOf' = [nameOf EXCEPT ![p] = name]
    /\ UNCHANGED <<challenge, payment, queue, journal, receipt, account, credits, poll, faults>>

-----------------------------------------------------------------------------
PlayerNext ==
    \/ \E p \in Players, c \in Challenges : \E typed \in TypedBy(p) : Start(p, c, typed)
    \/ \E p \in Players, x \in Payments, aim \in Aims : Pay(p, x, aim)
    \/ \E p \in Players, name \in Names : Rename(p, name)

BotNext == GiveUp \/ BotRestarts \/ \E answered \in BOOLEAN : ReportArrives(answered)

BrowserNext(c) == StatusAsks(c) \/ StatusConfirms(c) \/ Complete(c)

Next == PlayerNext \/ BotNext \/ \E c \in Challenges : BrowserNext(c) \/ Expire(c)

Spec == Init /\ [][Next]_vars

-----------------------------------------------------------------------------
(* Correctness                                                              *)

TypeOK ==
    /\ nameOf \in [Players -> Names]
    /\ challenge \in [Challenges -> [state : {"none", "open", "deleted", "confirmed", "completed"},
                                     owner : Players \cup {Nobody}, name : Names \cup {NoName},
                                     seen : BOOLEAN, expired : BOOLEAN,
                                     as : Players \cup {Nobody}]]
    /\ payment \in [Payments -> [by : Players \cup {Nobody}, name : Names \cup {NoName},
                                 aim : Aims, uuid : BOOLEAN]]
    /\ \A i \in 1..Len(queue) :
          /\ queue[i].of \in Made /\ queue[i].as \in {"receipt", "notice"}
          /\ \A j \in 1..Len(queue) : queue[i].of = queue[j].of => i = j
    /\ receipt \in [Payments -> {"none", "login_payment", "credited", "unlinked"}]
    /\ account \in [Players -> [exists : BOOLEAN, session : BOOLEAN,
                                name : Names \cup {NoName} \cup {Placeholder(p) : p \in Players}]]
    /\ credits \in [Players -> [Aims -> Nat]]
    /\ poll \in [Challenges -> Names \cup {NoName}]

(* An account is credited for an amount no oftener than its player paid it, *)
(* however the two reports of a payment, the browser's requests and the end *)
(* of the challenge fall together, and whoever had the player's name before.*)
CreditedOncePerPayment ==
    \A p \in Players, a \in Aims :
        credits[p][a] <= Cardinality({x \in Made : payment[x].by = p /\ payment[x].aim = a})

(* A sign-in is confirmed only for a player who has paid its amount.        *)
ConfirmedHasPaid ==
    \A c \in Challenges :
        challenge[c].state \in {"confirmed", "completed"} =>
            \E x \in Made : payment[x].aim = c /\ payment[x].by = challenge[c].as

(* What has been confirmed can be redeemed, however late the browser is: it *)
(* is not cleared away with the challenges that expired, and leaves that    *)
(* state only to be credited.                                               *)
ConfirmedIsKept ==
    \A c \in Challenges :
        challenge[c].state = "confirmed" /\ challenge[c]' # challenge[c] =>
            \/ challenge[c]'.state = "confirmed"
            \/ /\ challenge[c]'.state = "completed"
               /\ credits'[challenge[c].as][c] = credits[challenge[c].as][c] + 1

(* Nobody is signed in under a name that another account has signed in with *)
(* since.                                                                   *)
NamesAreTheirs ==
    \A p, q \in Players :
        /\ account[p].exists /\ account[q].exists /\ p # q => account[p].name # account[q].name
        /\ account[p].session => account[p].name # Placeholder(p)

(* Both: a sign-in is its payer's, and so is the name that comes with it.   *)
SignInsAreTheirs == ConfirmedHasPaid /\ NamesAreTheirs

=============================================================================
