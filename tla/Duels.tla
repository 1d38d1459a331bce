-------------------------------- MODULE Duels --------------------------------
(***************************************************************************)
(* One skill duel: the stakes, the rounds on their timers, the settlement. *)
(*                                                                         *)
(* Rounds are opened and closed by timers and calls inside the gateway's   *)
(* process, which a restart loses; answers, status and money are in the    *)
(* database.  Transactions run SERIALIZABLE and are single steps; what the *)
(* process reads outside of them is a step of its own.                     *)
(*                                                                         *)
(* now counts from the moment the duel started.  An answer arrives when it *)
(* will, be the round open or not, and carries the time its sender claims; *)
(* what it scored is drawn, and whether the server believes it is computed.*)
(***************************************************************************)
EXTENDS Integers, FiniteSets

CONSTANTS
    Host, Joiners,
    RoundsTotal,        \* rounds of the variant
    Lead, RoundMs, InputGrace, TransportSlack, StrandedSlack,
    MaxNow,             \* bound: the clock stops here
    Scores,             \* what an answer may score
    Stake, RakeBps, Opening,
    MaxFaults           \* bound: restarts and failed queries

Nobody == "nobody"
Duelists == {Host} \cup Joiners
Rounds == 0..(RoundsTotal - 1)

(* What the parameters are.                                                 *)
ConstantsOK ==
    /\ Host \notin Joiners /\ Nobody \notin Duelists
    /\ RoundsTotal \in Nat \ {0} /\ MaxFaults \in Nat
    /\ {Lead, RoundMs, InputGrace, TransportSlack, StrandedSlack, MaxNow} \subseteq Nat
    /\ TransportSlack < InputGrace /\ Scores \subseteq Nat
    /\ Stake \in Nat \ {0} /\ RakeBps \in 0..1000 /\ Opening \in Nat /\ Opening >= Stake

VARIABLES
    status,     \* duel_lobbies.status; "none" before it is created
    opponent,
    outcome, winner,
    answers,    \* duel_rounds: the answer of each player to each round
    wallet, house,
    enabled,    \* skillDuelEnabled
    lapsed,     \* expires_at has passed
    now,
    opensAt,    \* the shared start that was broadcast for each round; -1 for none
    timer,      \* rounds whose timer has not fired
    calls,      \* calls of closeRound that have not begun
    scored,     \* the process's set of rounds already closed
    closer,     \* what closeRound of each round is doing
    tally,      \* the answers the last closeRound has read, until it is over
    listed,     \* what the sweeper has read: a stranded duel, a lapsed lobby
    faults

duel == <<status, opponent, outcome, winner>>
purse == <<wallet, house>>
process == <<opensAt, timer, calls, scored, closer, tally>>
vars == <<status, opponent, outcome, winner, answers, wallet, house, enabled, lapsed, now,
          opensAt, timer, calls, scored, closer, tally, listed, faults>>

NoAnswer == [given |-> FALSE, valid |-> FALSE, score |-> -1]
Refused == [given |-> TRUE, valid |-> FALSE, score |-> -1]
Valid(score) == [given |-> TRUE, valid |-> TRUE, score |-> score]
NoAnswers == [r \in Rounds |-> [p \in {"host", "opponent"} |-> NoAnswer]]

Init ==
    /\ status = "none" /\ opponent = Nobody /\ outcome = "none" /\ winner = Nobody
    /\ answers = NoAnswers
    /\ wallet = [p \in Duelists |-> Opening] /\ house = 0
    /\ enabled = TRUE /\ lapsed = FALSE /\ now = 0
    /\ opensAt = [r \in Rounds |-> -1] /\ timer = {} /\ calls = {} /\ scored = {}
    /\ closer = [r \in Rounds |-> "idle"] /\ tally = NoAnswers
    /\ listed = {} /\ faults = 0

-----------------------------------------------------------------------------
(* The lobby                                                                *)

Create ==
    /\ enabled /\ status = "none" /\ wallet[Host] >= Stake
    /\ status' = "lobby"
    /\ wallet' = [wallet EXCEPT ![Host] = @ - Stake]
    /\ UNCHANGED <<opponent, outcome, winner, answers, house, enabled, lapsed, now, process,
                   listed, faults>>

(* startRound: the start is broadcast a beat ahead, and the closer is set.  *)
StartRound(r) ==
    /\ opensAt' = [opensAt EXCEPT ![r] = now + Lead]
    /\ timer' = timer \cup {r}

Join(p) ==
    /\ enabled /\ status = "lobby" /\ ~lapsed /\ wallet[p] >= Stake
    /\ status' = "running" /\ opponent' = p
    /\ wallet' = [wallet EXCEPT ![p] = @ - Stake]
    /\ StartRound(0)
    /\ UNCHANGED <<outcome, winner, answers, house, enabled, lapsed, now, calls, scored, closer,
                   tally, listed, faults>>

(* SLIP: what the caller read before the lock is not read again.            *)
RefundUnread ==
    /\ status' = "cancelled"
    /\ wallet' = [wallet EXCEPT ![Host] = @ + Stake]
    /\ UNCHANGED <<opponent, outcome, winner, answers, house, enabled, lapsed, now, process, faults>>

(* An unjoined lobby is cancelled and its host's stake returned.            *)
RefundLobby ==
    /\ status = "lobby"
    /\ status' = "cancelled"
    /\ wallet' = [wallet EXCEPT ![Host] = @ + Stake]
    /\ UNCHANGED <<opponent, outcome, winner, answers, house, enabled, lapsed, now, process, faults>>

Cancel == enabled /\ status # "none" /\ RefundLobby /\ UNCHANGED listed

-----------------------------------------------------------------------------
(* Answers                                                                  *)

RoundLength == Lead + RoundMs + InputGrace

(* SLIP: the lead before the round is left out.                             *)
EarlyStart(r) == r * (RoundMs + InputGrace)

(* The shared start of a round, as the input handler reconstructs it.       *)
SharedStart(r) == r * RoundLength + Lead

Side(p) == IF p = Host THEN "host" ELSE "opponent"

(* judge: the checks every variant makes of a claim, which may also score   *)
(* nothing because it came before its cue.                                  *)
Judged(r, reported) ==
    LET arrived == IF now > SharedStart(r) THEN now - SharedStart(r) ELSE 0
        isTooLate == reported > RoundMs \/ arrived > RoundMs + TransportSlack
        isImplausible == arrived + TransportSlack < reported
    IN  {Refused} \cup (IF isTooLate \/ isImplausible THEN {} ELSE {Valid(s) : s \in Scores})

(* The input handler asks for no more than a round of the duel: the first   *)
(* answer counts, and when both are in the round is closed at once, even    *)
(* one that has not been opened.  An answer may be sent again; a call of    *)
(* closeRound for a round in scored does nothing, and is left out.          *)
InputArrives(p, r, reported) ==
    /\ enabled /\ status = "running" /\ p \in {Host, opponent}
    /\ \E a \in Judged(r, reported) :
          answers' = IF answers[r][Side(p)].given THEN answers
                     ELSE [answers EXCEPT ![r][Side(p)] = a]
    /\ calls' = IF r \notin scored /\ \A s \in {"host", "opponent"} :
                                         answers[r][s].given \/ s = Side(p)
                THEN calls \cup {r} ELSE calls
    /\ <<answers, calls>>' # <<answers, calls>>
    /\ UNCHANGED <<duel, purse, enabled, lapsed, now, opensAt, timer, scored, closer, tally,
                   listed, faults>>

-----------------------------------------------------------------------------
(* Closing a round                                                          *)

RoundTimer(r) ==
    /\ r \in timer /\ now >= opensAt[r] + RoundMs + InputGrace
    /\ timer' = timer \ {r}
    /\ calls' = calls \cup {r}
    /\ UNCHANGED <<duel, answers, purse, enabled, lapsed, now, opensAt, scored, closer, tally,
                   listed, faults>>

(* closeRound, up to its first await: only one call of a round goes on.     *)
BeginClose(r) ==
    /\ r \in calls /\ calls' = calls \ {r}
    /\ scored' = scored \cup {r}
    /\ closer' = IF r \in scored THEN closer ELSE [closer EXCEPT ![r] = "reading"]
    /\ UNCHANGED <<duel, answers, purse, enabled, lapsed, now, opensAt, timer, tally, listed, faults>>

(* SLIP: one round too many.                                                *)
HasNextUpTo(r) == r < RoundsTotal

HasNext(r) == r + 1 < RoundsTotal

(* The row and the answers are read outside a transaction.  The next round  *)
(* is opened, or after the last the duel is settled.                        *)
ReadRound(r) ==
    /\ closer[r] = "reading"
    /\ IF status # "running"
       THEN closer' = [closer EXCEPT ![r] = "idle"] /\ UNCHANGED <<opensAt, timer, tally>>
       ELSE IF HasNext(r)
       THEN closer' = [closer EXCEPT ![r] = "idle"] /\ StartRound(r + 1) /\ UNCHANGED tally
       ELSE /\ closer' = [closer EXCEPT ![r] = "settling"]
            /\ tally' = answers
            /\ UNCHANGED <<opensAt, timer>>
    /\ UNCHANGED <<duel, answers, purse, enabled, lapsed, now, calls, scored, listed, faults>>

(* resolveDuel: a valid answer beats none, and the lower score wins.        *)
WonBy(s, other) ==
    {r \in Rounds :
        /\ tally[r][s].valid
        /\ \/ ~tally[r][other].valid
           \/ tally[r][s].score < tally[r][other].score}

HostRounds == Cardinality(WonBy("host", "opponent"))
OpponentRounds == Cardinality(WonBy("opponent", "host"))

PotRake == (2 * Stake * RakeBps) \div 10000     \* splitPot
HalfRake == (Stake * RakeBps) \div 10000        \* splitDraw

(* SLIP: a draw splits the rake of the pot between the two refunds.         *)
DrawRake == PotRake

RakeOfDraw == 2 * HalfRake

(* SLIP: the row is closed whatever it says.                                *)
ClaimableAny == TRUE

(* The guard of the UPDATE that closes the row.                             *)
Claimable == status \notin {"settled", "cancelled"}

(* settleDuel: nothing when somebody else was first.                        *)
SettleAs(result, won) ==
    IF ~Claimable THEN UNCHANGED <<duel, purse>>
    ELSE /\ status' = "settled" /\ outcome' = result /\ winner' = won
         /\ wallet' = [p \in Duelists |->
                         wallet[p] + (IF p \notin {Host, opponent} THEN 0
                                      ELSE IF result = "expired" THEN Stake
                                      ELSE IF result = "draw" THEN Stake - HalfRake
                                      ELSE IF p = won THEN 2 * Stake - PotRake ELSE 0)]
         /\ house' = house + (IF result = "decided" THEN PotRake
                              ELSE IF result = "draw" THEN RakeOfDraw ELSE 0)
         /\ UNCHANGED opponent

(* The transaction at the end of closeRound, and the keys it forgets.       *)
Settle(r) ==
    /\ closer[r] = "settling"
    /\ IF HostRounds = OpponentRounds THEN SettleAs("draw", Nobody)
       ELSE SettleAs("decided", IF HostRounds > OpponentRounds THEN Host ELSE opponent)
    /\ closer' = [closer EXCEPT ![r] = "idle"]
    /\ scored' = {} /\ tally' = NoAnswers
    /\ UNCHANGED <<answers, enabled, lapsed, now, opensAt, timer, calls, listed, faults>>

-----------------------------------------------------------------------------
(* The sweeper                                                              *)

LongestDuel == RoundsTotal * RoundLength

(* SLIP: a duel is stranded after its windows alone.                        *)
StrandedTooSoon == status = "running" /\ now > RoundsTotal * (RoundMs + InputGrace)

IsStranded == status = "running" /\ now > LongestDuel + StrandedSlack

(* SLIP: only lobbies are looked for.                                       *)
SweepReadsLobbies ==
    /\ enabled /\ listed = {}
    /\ listed' = IF status = "lobby" /\ lapsed THEN {"lapsed"} ELSE {}
    /\ listed' # {}
    /\ UNCHANGED <<duel, answers, purse, enabled, lapsed, now, process, faults>>

SweepReads ==
    /\ enabled /\ listed = {}
    /\ listed' = IF IsStranded THEN {"stranded"}
                 ELSE IF status = "lobby" /\ lapsed THEN {"lapsed"} ELSE {}
    /\ listed' # {}
    /\ UNCHANGED <<duel, answers, purse, enabled, lapsed, now, process, faults>>

(* sweepStranded: the row is read again under its lock.                     *)
SweepStranded ==
    /\ "stranded" \in listed /\ listed' = {}
    /\ IF status = "running" THEN SettleAs("expired", Nobody) ELSE UNCHANGED <<duel, purse>>
    /\ UNCHANGED <<answers, enabled, lapsed, now, process, faults>>

SweepLapsed ==
    /\ "lapsed" \in listed /\ listed' = {}
    /\ \/ RefundLobby
       \/ /\ status # "lobby"
          /\ UNCHANGED <<duel, answers, purse, enabled, lapsed, now, process, faults>>

-----------------------------------------------------------------------------
(* Time, faults, the operator                                               *)

Lapse ==
    /\ status = "lobby" /\ ~lapsed /\ lapsed' = TRUE
    /\ UNCHANGED <<duel, answers, purse, enabled, now, process, listed, faults>>

(* Timers fire and the process acts well within a unit.                     *)
Tick ==
    /\ status = "running" /\ now < MaxNow
    /\ calls = {} /\ \A r \in Rounds : closer[r] = "idle"
    /\ \A r \in timer : now < opensAt[r] + RoundMs + InputGrace
    /\ now' = now + 1
    /\ UNCHANGED <<duel, answers, purse, enabled, lapsed, process, listed, faults>>

Restart ==
    /\ status = "running" /\ faults < MaxFaults /\ faults' = faults + 1
    /\ timer' = {} /\ calls' = {} /\ scored' = {} /\ listed' = {}
    /\ closer' = [r \in Rounds |-> "idle"] /\ tally' = NoAnswers
    /\ UNCHANGED <<duel, answers, purse, enabled, lapsed, now, opensAt>>

(* A query of closeRound throws: it is logged, and the key stays.           *)
CloseFails(r) ==
    /\ closer[r] # "idle" /\ faults < MaxFaults /\ faults' = faults + 1
    /\ closer' = [closer EXCEPT ![r] = "idle"]
    /\ tally' = IF closer[r] = "settling" THEN NoAnswers ELSE tally
    /\ UNCHANGED <<duel, answers, purse, enabled, lapsed, now, opensAt, timer, calls, scored,
                   listed>>

Switch(on) ==
    /\ enabled # on /\ enabled' = on
    /\ UNCHANGED <<duel, answers, purse, lapsed, now, process, listed, faults>>

-----------------------------------------------------------------------------
PlayerNext ==
    \/ Create \/ Cancel
    \/ \E p \in Joiners : Join(p)
    \/ \E p \in Duelists, r \in Rounds, reported \in 0..(RoundMs + 1) : InputArrives(p, r, reported)

CloserNext(r) == RoundTimer(r) \/ BeginClose(r) \/ ReadRound(r) \/ Settle(r)

SweeperNext == SweepReads \/ SweepStranded \/ SweepLapsed

FaultNext == Restart \/ \E r \in Rounds : CloseFails(r)

Next ==
    \/ PlayerNext \/ SweeperNext \/ FaultNext
    \/ \E r \in Rounds : CloserNext(r)
    \/ Lapse \/ Tick \/ \E on \in BOOLEAN : Switch(on)

Spec == Init /\ [][Next]_vars

-----------------------------------------------------------------------------
(* Correctness                                                              *)

Answer == [given : BOOLEAN, valid : BOOLEAN, score : Scores \cup {-1}]

TypeOK ==
    /\ status \in {"none", "lobby", "running", "settled", "cancelled"}
    /\ opponent \in Joiners \cup {Nobody} /\ winner \in Duelists \cup {Nobody}
    /\ outcome \in {"none", "decided", "draw", "expired"}
    /\ answers \in [Rounds -> [{"host", "opponent"} -> Answer]]
    /\ wallet \in [Duelists -> Nat] /\ house \in Nat /\ now \in 0..MaxNow
    /\ opensAt \in [Rounds -> -1..(MaxNow + Lead)]
    /\ timer \cup calls \cup scored \subseteq Rounds
    /\ closer \in [Rounds -> {"idle", "reading", "settling"}]

(* What a player's wallet should hold, and the house, given how the duel    *)
(* stands.                                                                  *)
InHand(p) ==
    Opening - (IF status \in {"none", "cancelled"} \/ p \notin {Host, opponent} THEN 0
               ELSE IF status # "settled" THEN Stake
               ELSE IF outcome = "expired" THEN 0
               ELSE IF outcome = "draw" THEN HalfRake
               ELSE IF p = winner THEN PotRake - Stake ELSE Stake)

(* Each stake is taken once and given back once, whichever of the last      *)
(* round, the sweeper, the host and a joining player comes first, and what  *)
(* the players do not get the house does, to the unit.                      *)
StakesAreSettledOnce ==
    /\ \A p \in Duelists : wallet[p] = InHand(p)
    /\ LET held == Stake * ((IF status \in {"lobby", "running"} THEN 1 ELSE 0)
                            + (IF status = "running" THEN 1 ELSE 0))
       IN  \A p \in Joiners \ {opponent} :
              wallet[Host] + (IF opponent = Nobody THEN wallet[p] ELSE wallet[opponent])
              + house + held = 2 * Opening

(* A duel whose process has not failed is played to its end: the sweeper    *)
(* does not take it for stranded, however long the players take.            *)
OnlyStrandedExpire == outcome = "expired" => faults > 0

=============================================================================
