------------------------------- MODULE NodePool -------------------------------
(***************************************************************************)
(* The node pool: equal accounts in place of a teller and a vault.         *)
(*                                                                         *)
(* A deposit is sent to the online node with the least free, a withdrawal  *)
(* is paid by the one with the most, and the next richest sends it what it *)
(* is short of.  A pool that stays skewed moves one amount from its        *)
(* richest node to its poorest.  There is no vault beside the pool.        *)
(*                                                                         *)
(* Routing and rebalancing run SERIALIZABLE: each is one step.  Every /pay *)
(* is answered here; module VaultRelease has the ones that are not.        *)
(***************************************************************************)
EXTENDS Integers, Sequences, SequencesExt, FiniteSetsExt

CONSTANTS
    Nodes,          \* their ids, in order
    Withdrawals, Amount,
    Openings,       \* what the nodes may hold at the start, in the game and the books
    Deposits,       \* amounts players pay
    MaxHeld,        \* bound: nobody pays a node that holds more
    SkewBps, MinMinor,  \* nodeRebalanceSkewBps, nodeRebalanceMinMinor
    Reaches,        \* how far from the gateway a node may be
    MayHold         \* whether operators hold payouts

Distances == {"online", "away", "silent"}   \* 45 s and 15 minutes without a heartbeat

(* What the parameters are.                                                 *)
ConstantsOK ==
    /\ Nodes \subseteq Nat \ {0} /\ Nodes # {} /\ Withdrawals \subseteq Nat \ {0}
    /\ Amount \in [Withdrawals -> Nat \ {0}] /\ Openings \subseteq [Nodes -> Nat]
    /\ Deposits \subseteq Nat \ {0} /\ MaxHeld \in Nat
    /\ SkewBps \in Nat /\ MinMinor \in Nat
    /\ Reaches \subseteq Distances /\ "online" \in Reaches /\ MayHold \in BOOLEAN

VARIABLES
    status,     \* cash_withdrawals.status
    payer,      \* its bot_id; 0 before it is asked for
    funding,    \* its funding: one node alone, or two
    jobs,       \* each node's live money jobs, oldest first
    hand,       \* the job a node has claimed
    books,      \* tracked_balance_minor
    held,       \* what each node holds in the game
    reach,      \* how long ago each node was heard
    told,       \* the node on the deposit page; 0 for none
    receipt,    \* a deposit a node has seen and the gateway has not booked
    watch,      \* SkewWatch: since when the pool has been skewed
    cooling     \* the nodes with a vault_sweep inside the cooldown

money == <<books, held, receipt>>
queue == <<status, payer, funding, jobs, hand>>
sweeper == <<watch, cooling>>
vars == <<status, payer, funding, jobs, hand, books, held, reach, told, receipt, watch, cooling>>

Statuses == {"none", "pending_approval", "awaiting_vault", "queued", "paid"}
Job == [kind : {"cash_payout", "vault_sweep", "vault_release"}, w : Withdrawals \cup {0},
        amount : Nat \ {0}, to : Nodes \cup {0}, waits : BOOLEAN, held : BOOLEAN]
NoHand == [phase |-> "idle", at |-> 0, paid |-> FALSE]
NoReceipt == [node |-> 0, amount |-> 0]

Init ==
    /\ status = [w \in Withdrawals |-> "none"]
    /\ payer = [w \in Withdrawals |-> 0]
    /\ funding = [w \in Withdrawals |-> "float"]
    /\ jobs = [n \in Nodes |-> << >>]
    /\ hand = [n \in Nodes |-> NoHand]
    /\ held \in Openings /\ books = held
    /\ reach = [n \in Nodes |-> "online"]
    /\ told = 0 /\ receipt = NoReceipt
    /\ watch = "even" /\ cooling = {}

-----------------------------------------------------------------------------
(* What the pool looks like                                                 *)

Total(s) == MapThenSumSet(LAMBDA i : s[i].amount, DOMAIN s)

(* freeMinor: what is tracked less what is queued or in flight.             *)
Free(n) == books[n] - Total(jobs[n])

Pool == {n \in Nodes : reach[n] # "silent"}
Online == {n \in Nodes : reach[n] = "online"}

(* byFree: least free first, ties by id.                                    *)
Before(a, b) == Free(a) < Free(b) \/ (Free(a) = Free(b) /\ a < b)
Poorest(S) == CHOOSE n \in S : \A m \in S \ {n} : Before(n, m)
Richest(S) == CHOOSE n \in S : \A m \in S \ {n} : Before(m, n)

Share(S) == MapThenSumSet(LAMBDA n : IF Free(n) > 0 THEN Free(n) ELSE 0, S) \div Cardinality(S)

NoPlan == [from |-> 0, to |-> 0, amount |-> 0]

(* SLIP: the larger of the two differences is moved.                        *)
PlanLarger(S) ==
    LET share == Share(S)
        band == (share * SkewBps) \div 10000
        over == Free(Richest(S)) - share
        under == share - Free(Poorest(S))
        amount == IF over < under THEN under ELSE over
    IN  IF \/ Cardinality(S) < 2 \/ share <= 0 \/ (over <= band /\ under <= band)
           \/ amount <= 0 \/ amount < MinMinor
        THEN NoPlan
        ELSE [from |-> Richest(S), to |-> Poorest(S), amount |-> amount]

(* planRebalance, of the online nodes.                                      *)
PlanRebalance(S) ==
    LET share == Share(S)
        band == (share * SkewBps) \div 10000
        over == Free(Richest(S)) - share
        under == share - Free(Poorest(S))
        amount == IF over < under THEN over ELSE under
    IN  IF \/ Cardinality(S) < 2 \/ share <= 0 \/ (over <= band /\ under <= band)
           \/ amount <= 0 \/ amount < MinMinor
        THEN NoPlan
        ELSE [from |-> Richest(S), to |-> Poorest(S), amount |-> amount]

-----------------------------------------------------------------------------
(* Routing                                                                  *)

NewJob(kind, w, amount, to) ==
    [kind |-> kind, w |-> w, amount |-> amount, to |-> to, waits |-> FALSE, held |-> FALSE]

HasPayout(w) == \E n \in Nodes : \E i \in DOMAIN jobs[n] :
                    jobs[n][i].kind = "cash_payout" /\ jobs[n][i].w = w

(* payPlayerDirectly: a new job, or the held one revived where it stands.   *)
PayDirectly(w, n) ==
    jobs' = IF HasPayout(w)
            THEN [m \in Nodes |-> [i \in DOMAIN jobs[m] |->
                    IF jobs[m][i].kind = "cash_payout" /\ jobs[m][i].w = w
                    THEN [jobs[m][i] EXCEPT !.held = FALSE] ELSE jobs[m][i]]]
            ELSE [jobs EXCEPT ![n] = Append(@, NewJob("cash_payout", w, Amount[w], 0))]

(* choosePayingNode, and the transfer that tops the payer up.               *)
PayFromPool(w) ==
    LET chosen == Richest(Online)
        free == Free(chosen)
        others == {n \in Pool \ {chosen} : Free(n) > 0}
        short == Amount[w] - (IF free > 0 THEN free ELSE 0)
    IN  /\ payer' = [payer EXCEPT ![w] = chosen]
        /\ IF free >= Amount[w] \/ others = {}
           THEN /\ funding' = [funding EXCEPT ![w] = "float"]
                /\ status' = [status EXCEPT ![w] = "queued"]
                /\ PayDirectly(w, chosen)
           ELSE /\ funding' = [funding EXCEPT ![w] = "vault"]
                /\ status' = [status EXCEPT ![w] = "awaiting_vault"]
                /\ jobs' = [jobs EXCEPT ![Richest(others)] =
                              Append(@, NewJob("vault_release", w, short, chosen))]

(* SLIP: a payout that has its job is routed again.                         *)
RouteAnew(w, bot) ==
    IF Online # {} THEN PayFromPool(w)
    ELSE /\ status' = [status EXCEPT ![w] = "queued"]
         /\ payer' = [payer EXCEPT ![w] = bot]
         /\ PayDirectly(w, bot)
         /\ UNCHANGED funding

(* queueWithdrawalJob, routeThroughNodePool                                 *)
Route(w, bot) ==
    IF ~HasPayout(w) /\ Online # {} THEN PayFromPool(w)
    ELSE /\ status' = [status EXCEPT ![w] = "queued"]
         /\ payer' = [payer EXCEPT ![w] = bot]
         /\ PayDirectly(w, bot)
         /\ UNCHANGED funding

(* The request: somebody must be online to pay.  Which node pays is decided *)
(* when the payout is queued, at once or by an operator.                    *)
Request(w) ==
    /\ status[w] = "none" /\ Online # {}
    /\ Route(w, Poorest(Online))
    /\ UNCHANGED <<hand, money, reach, told, sweeper>>

AskApproval(w) ==
    /\ MayHold
    /\ status[w] = "none" /\ Online # {}
    /\ status' = [status EXCEPT ![w] = "pending_approval"]
    /\ payer' = [payer EXCEPT ![w] = Poorest(Online)]
    /\ UNCHANGED <<funding, jobs, hand, money, reach, told, sweeper>>

Approve(w) ==
    /\ status[w] = "pending_approval"
    /\ Route(w, payer[w])
    /\ UNCHANGED <<hand, money, reach, told, sweeper>>

(* holdQueuedWithdrawal: not once a node has claimed the job, and not one   *)
(* that another node has sent money for.                                    *)
Hold(w, n, i) ==
    /\ MayHold
    /\ status[w] = "queued" /\ funding[w] = "float" /\ jobs[n][i].kind = "cash_payout" /\ jobs[n][i].w = w
    /\ hand[n].at # i
    /\ jobs' = [jobs EXCEPT ![n][i].held = TRUE, ![n][i].waits = FALSE]
    /\ status' = [status EXCEPT ![w] = "pending_approval"]
    /\ UNCHANGED <<payer, funding, hand, money, reach, told, sweeper>>

-----------------------------------------------------------------------------
(* Deposits                                                                 *)

(* pickReceivingBot: a page opened now names the emptiest online node.      *)
OpenDepositPage ==
    /\ Online # {}
    /\ told' = Poorest(Online)
    /\ told' # told
    /\ UNCHANGED <<queue, money, reach, sweeper>>

DepositLands(a) ==
    /\ told # 0 /\ receipt = NoReceipt /\ held[told] <= MaxHeld
    /\ held' = [held EXCEPT ![told] = @ + a]
    /\ receipt' = [node |-> told, amount |-> a]
    /\ UNCHANGED <<queue, books, reach, told, sweeper>>

DepositBooked ==
    /\ receipt # NoReceipt
    /\ books' = [books EXCEPT ![receipt.node] = @ + receipt.amount]
    /\ receipt' = NoReceipt
    /\ UNCHANGED <<queue, held, reach, told, sweeper>>

-----------------------------------------------------------------------------
(* Rebalancing                                                              *)

(* SLIP: a rebalance that outlasts the cooldown does not count.             *)
BusyReleasing ==
    \E n \in Pool : \/ n \in cooling
                    \/ \E i \in DOMAIN jobs[n] : jobs[n][i].kind = "vault_release"

(* SLIP: a release on its way does not count.                               *)
BusySweeping ==
    \E n \in Pool : \/ n \in cooling
                    \/ \E i \in DOMAIN jobs[n] : jobs[n][i].kind = "vault_sweep"

Busy ==
    \E n \in Pool : \/ n \in cooling
                    \/ \E i \in DOMAIN jobs[n] : jobs[n][i].kind \in {"vault_sweep", "vault_release"}

(* The sweeper's minute, rebalanceNodes.                                    *)
Tick ==
    LET plan == PlanRebalance(Online) IN
    /\ Cardinality(Pool) > 1
    /\ IF plan = NoPlan
       THEN watch' = "even" /\ UNCHANGED <<jobs, cooling>>
       ELSE IF watch # "ripe" \/ Busy
       THEN watch' = (IF watch = "even" THEN "skewed" ELSE watch) /\ UNCHANGED <<jobs, cooling>>
       ELSE /\ jobs' = [jobs EXCEPT ![plan.from] =
                          Append(@, NewJob("vault_sweep", 0, plan.amount, plan.to))]
            /\ cooling' = cooling \cup {plan.from}
            /\ watch' = "even"
    /\ UNCHANGED <<status, payer, funding, hand, money, reach, told>>

HoldMinutesPass ==
    /\ watch = "skewed" /\ watch' = "ripe"
    /\ UNCHANGED <<queue, money, reach, told, cooling>>

CooldownPasses(n) ==
    /\ n \in cooling /\ cooling' = cooling \ {n}
    /\ UNCHANGED <<queue, money, reach, told, watch>>

Reach(n, r) ==
    /\ reach[n] # r /\ reach' = [reach EXCEPT ![n] = r]
    /\ UNCHANGED <<queue, money, told, sweeper>>

-----------------------------------------------------------------------------
(* The nodes                                                                *)

JobInHand(n) == jobs[n][hand[n].at]

(* While the oldest waits for funds, no newer one is handed out.            *)
Claim(n, i) ==
    /\ reach[n] = "online" /\ hand[n].phase = "idle"
    /\ ~jobs[n][i].held /\ \A j \in 1..(i - 1) : ~jobs[n][j].waits
    /\ hand' = [hand EXCEPT ![n] = [phase |-> "sent", at |-> i, paid |-> FALSE]]
    /\ UNCHANGED <<status, payer, funding, jobs, money, reach, told, sweeper>>

(* The game pays what is asked for if the node holds it.                    *)
GameAnswers(n) ==
    /\ hand[n].phase = "sent"
    /\ LET j == JobInHand(n)
           ok == held[n] >= j.amount
       IN  /\ held' = IF ok THEN [x \in Nodes |-> IF x = n THEN held[x] - j.amount
                                                  ELSE IF x = j.to THEN held[x] + j.amount
                                                  ELSE held[x]]
                      ELSE held
           /\ hand' = [hand EXCEPT ![n].phase = "settled", ![n].paid = ok]
    /\ UNCHANGED <<status, payer, funding, jobs, books, receipt, reach, told, sweeper>>

(* SLIP: a transfer between nodes is booked on the sender alone.            *)
BookSender(n) == books' = [books EXCEPT ![n] = @ - JobInHand(n).amount]

(* bookPayoutLeg, bookInternalTransfer                                      *)
BookLegs(n) ==
    LET j == JobInHand(n) IN
    books' = [x \in Nodes |-> IF x = n THEN books[x] - j.amount
                              ELSE IF x = j.to THEN books[x] + j.amount ELSE books[x]]

(* processJobResult: completed, the payout queued behind its release.       *)
ReportPaid(n) ==
    /\ reach[n] = "online" /\ hand[n].phase = "settled" /\ hand[n].paid
    /\ BookLegs(n)
    /\ LET j == JobInHand(n)
           rest == [jobs EXCEPT ![n] = RemoveAt(@, hand[n].at)]
       IN  IF j.kind = "vault_release"
           THEN /\ status' = [status EXCEPT ![j.w] = "queued"]
                /\ jobs' = [rest EXCEPT ![payer[j.w]] =
                              Append(@, NewJob("cash_payout", j.w, Amount[j.w], 0))]
           ELSE /\ status' = IF j.kind = "cash_payout" THEN [status EXCEPT ![j.w] = "paid"]
                             ELSE status
                /\ jobs' = rest
    /\ hand' = [hand EXCEPT ![n] = NoHand]
    /\ UNCHANGED <<payer, funding, held, receipt, reach, told, sweeper>>

(* SLIP: a refused payout dies like a refused rebalance.                    *)
DiesIfPayout(kind) == kind # "vault_release"

DiesOfRefusal(kind) == kind = "vault_sweep"

(* Refused for funds: a payout and a release wait, a rebalance dies.        *)
ReportRefused(n) ==
    /\ reach[n] = "online" /\ hand[n].phase = "settled" /\ ~hand[n].paid
    /\ jobs' = IF DiesOfRefusal(JobInHand(n).kind)
               THEN [jobs EXCEPT ![n] = RemoveAt(@, hand[n].at)]
               ELSE [jobs EXCEPT ![n][hand[n].at].waits = TRUE]
    /\ hand' = [hand EXCEPT ![n] = NoHand]
    /\ UNCHANGED <<status, payer, funding, money, reach, told, sweeper>>

-----------------------------------------------------------------------------
GatewayNext ==
    \/ \E w \in Withdrawals : Request(w) \/ AskApproval(w) \/ Approve(w)
    \/ \E w \in Withdrawals, n \in Nodes : \E i \in DOMAIN jobs[n] : Hold(w, n, i)
    \/ DepositBooked \/ Tick

PlayerNext == OpenDepositPage \/ \E a \in Deposits : DepositLands(a)

TimeNext ==
    \/ HoldMinutesPass
    \/ \E n \in Nodes : CooldownPasses(n)
    \/ \E n \in Nodes, r \in Reaches : Reach(n, r)

NodeNext(n) ==
    \/ \E i \in DOMAIN jobs[n] : Claim(n, i)
    \/ GameAnswers(n) \/ ReportPaid(n) \/ ReportRefused(n)

Next == GatewayNext \/ PlayerNext \/ TimeNext \/ \E n \in Nodes : NodeNext(n)

Spec == Init /\ [][Next]_vars

-----------------------------------------------------------------------------
(* Correctness                                                              *)

TypeOK ==
    /\ status \in [Withdrawals -> Statuses] /\ payer \in [Withdrawals -> Nodes \cup {0}]
    /\ funding \in [Withdrawals -> {"float", "vault"}]
    /\ \A n \in Nodes : \A i \in DOMAIN jobs[n] : jobs[n][i] \in Job
    /\ \A n \in Nodes : hand[n] = NoHand \/ hand[n].at \in DOMAIN jobs[n]
    /\ books \in [Nodes -> Int] /\ held \in [Nodes -> Nat]
    /\ reach \in [Nodes -> Distances] /\ told \in Nodes \cup {0}
    /\ watch \in {"even", "skewed", "ripe"} /\ cooling \subseteq Nodes

Unbooked(n) == IF hand[n].phase = "settled" /\ hand[n].paid THEN JobInHand(n).amount ELSE 0

(* Whatever moves between the nodes, the books of the pool come to what the *)
(* nodes hold once what is on its way is counted: no transfer is booked on  *)
(* one side only, twice or never.                                           *)
PoolAddsUp ==
    \A n \in Nodes :
        books[n] - Unbooked(n) + (IF receipt.node = n THEN receipt.amount ELSE 0)
        + MapThenSumSet(LAMBDA m : IF Unbooked(m) > 0 /\ JobInHand(m).to = n
                                   THEN Unbooked(m) ELSE 0, Nodes)
        = held[n]

(* A withdrawal has one payout at most, on the node its row names, and the  *)
(* release for it goes to that node: an approval after a hold, with another *)
(* node richer by then, does not part the payer from the books.             *)
PaidByItsPayer ==
    \A w \in Withdrawals :
        LET mine == UNION {{<<n, i>> : i \in {k \in DOMAIN jobs[n] : jobs[n][k].w = w}} :
                           n \in Nodes}
        IN  /\ Cardinality(mine) <= 1
            /\ status[w] \in {"queued", "awaiting_vault"} => mine # {}
            /\ status[w] \in {"none", "paid"} => mine = {}
            /\ \A p \in mine : payer[w] = IF jobs[p[1]][p[2]].kind = "cash_payout"
                                          THEN p[1] ELSE jobs[p[1]][p[2]].to

(* What node n is to be sent for withdrawals it will pay.                   *)
SentBy(m, n) ==
    MapThenSumSet(LAMBDA i : IF jobs[m][i].kind = "vault_release" /\ jobs[m][i].to = n
                             THEN jobs[m][i].amount ELSE 0, DOMAIN jobs[m])
OnItsWay(n) == MapThenSumSet(LAMBDA m : SentBy(m, n), Nodes)

Promised(n) ==
    MapThenSumSet(LAMBDA w : IF payer[w] = n /\ status[w] = "awaiting_vault"
                             THEN Amount[w] ELSE 0, Withdrawals)

Sweeps(n) == {i \in DOMAIN jobs[n] : jobs[n][i].kind = "vault_sweep"}

(* One rebalance at a time: none is queued while another is on its way,     *)
(* however long that takes.  It takes nothing that a withdrawal waiting for *)
(* its release counts on, and leaves its sender enough for all it is due to *)
(* pay (rebalanceNodes).                                                    *)
MoveSparesPromises ==
    \A n \in Nodes :
        Cardinality(Sweeps(n)') > Cardinality(Sweeps(n))
        => /\ \A m \in Nodes : Sweeps(m) = {}
           /\ Free(n)' >= Promised(n)' - OnItsWay(n)'

=============================================================================
