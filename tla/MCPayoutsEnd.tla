----------------------------- MODULE MCPayoutsEnd -----------------------------
(***************************************************************************)
(* The liveness of payouts and of the anti-drain monitor, and the safety   *)
(* of an operator's payout beside a sweep, on small instances: "scene"     *)
(* says which, and no step changes it.  In the other scenes the variables  *)
(* of AdminPayouts, which this module extends, are as before a payout.     *)
(***************************************************************************)
EXTENDS AdminPayouts, TLC

CONSTANTS u1, u2, w1, w2, t1, t2

VARIABLES
    scene,
    wd, wallet, ledger, line, botRow, net, inGame, received, funds, landed,    \* Payouts
    status, funding, approved, facts, cooling, deposited, won,    \* AntiDrain
    hold, holdAll, missed, pass, toHold

(* One payout, with everything that may go wrong on the way.                *)
Single == INSTANCE Payouts
    WITH MaxAttempts <- 2, MaxFunds <- 1, Tokens <- {t1, t2}, Withdrawals <- {w1},
         Users <- {u1}, Owner <- w1 :> u1, Opening <- u1 :> 1, Amount <- w1 :> 1

(* Two players' payouts contend for the money of one bot.                   *)
Two == INSTANCE Payouts
    WITH MaxAttempts <- 2, MaxFunds <- 1, Tokens <- {t1, t2}, Withdrawals <- {w1, w2},
         Users <- {u1, u2}, Owner <- w1 :> u1 @@ w2 :> u2, Opening <- u1 :> 1 @@ u2 :> 1,
         Amount <- w1 :> 1 @@ w2 :> 1

(* In the scene "sweep" there are an operator's payout and a sweep; in      *)
(* this one they end, as the bot answers in time.                           *)
Kinds  == "a" :> "admin_payout" @@ "sweep" :> "vault_sweep"
Payees == [k \in Payouts |-> "player"]
Ending == INSTANCE AdminPayouts WITH Tokens <- 1..4, Prompt <- TRUE

(* The monitor watches two players win and pay out.  What it owes a winner  *)
(* and what it owes the house are asked of in two scenes, each by itself:   *)
(* with one payout beside the winners, and with two while nobody wins.      *)
(* Each player asks once, so that the cooldown need not end.                *)
Watch == INSTANCE AntiDrain
    WITH Users <- {"alice", "bob"}, Staff <- {}, Withdrawals <- {1, 2},
         Owner <- 1 :> "alice" @@ 2 :> "bob", Amount <- 1 :> 2 @@ 2 :> 2,
         Threshold <- 4, NetCashout <- 0, HouseHourly <- 2, WinLimit <- 1, TwoHop <- TRUE,
         Deposits <- {}, Prizes <- {1, -1}, MaxDeposited <- 0, MaxWon <- 1, MaxAsking <- 1

ASSUME ConstantsOK /\ Ending!ConstantsOK /\ Watch!RulesOK

payOnly   == <<wd, wallet, ledger, line, botRow, net, inGame, received, funds, landed>>
adminOnly == <<row, journal, refused, heard, botStatus, asks, reports, left>>
watchOnly == <<status, funding, approved, facts, cooling, deposited, won, hold, holdAll, missed,
               pass, toHold>>
moneyVars == <<job, booked, bot>>
mcVars    == <<scene, vars, payOnly, watchOnly>>

(* What a variable is in the scenes without it.                             *)
Unused == "unused"
NoPay ==
    /\ wd = Unused /\ wallet = Unused /\ ledger = Unused /\ line = Unused /\ botRow = Unused
    /\ net = Unused /\ inGame = Unused /\ received = Unused /\ funds = Unused /\ landed = Unused
NoAdmin ==
    /\ row = [k \in Admin |-> "none"] /\ left = [k \in Payouts |-> 0]
    /\ journal = Unused /\ refused = Unused /\ heard = Unused
    /\ botStatus = Unused /\ asks = Unused /\ reports = Unused
NoWatch ==
    /\ status = Unused /\ funding = Unused /\ approved = Unused /\ facts = Unused
    /\ cooling = Unused /\ missed = Unused
    /\ deposited = Unused /\ won = Unused /\ hold = Unused /\ holdAll = Unused
    /\ pass = Unused /\ toHold = Unused
NoPayouts == job = Unused /\ booked = Unused /\ bot = Unused

MCInit ==
    \/ /\ NoAdmin /\ NoWatch
       /\ \/ scene = "one" /\ Single!Init
          \/ scene = "two" /\ Two!Init
    \/ /\ NoPay /\ NoWatch
       /\ \/ scene = "sweep" /\ Init
          \/ scene = "admin" /\ Ending!Init
    \/ scene \in {"winner", "house"} /\ Watch!RulesInit /\ NoPayouts /\ NoPay /\ NoAdmin

(* The funds queue by itself: nobody intervenes, nothing crashes, is lost   *)
(* or comes after its lease, so that two players' payouts contend for the   *)
(* bot's money alone.                                                       *)
HandOut(w) == \E t \in {t1, t2} : Two!Claim(w, t, TRUE)

QueueNext ==
    \/ \E w \in {w1, w2} : Two!RequestWithdrawal(w, FALSE) \/ HandOut(w) \/ Two!BecomeDue(w)
    \/ Two!SendPay \/ Two!ReportAnswer
    \/ Two!GameNext
    \/ \E m \in net : Two!ProcessResult(m)
    \/ Two!MoneyReported

(* A step of one scene.                                                     *)
One(A) == scene = "one" /\ A /\ UNCHANGED <<scene, adminOnly, watchOnly>>
Que(A) == scene = "two" /\ A /\ UNCHANGED <<scene, adminOnly, watchOnly>>
Adm(A) == scene = "admin" /\ A /\ UNCHANGED <<scene, payOnly, watchOnly>>
Mon(A) ==
    /\ \/ scene = "winner" /\ A /\ ~facts'[2].read
       \/ scene = "house" /\ A /\ won' = won
    /\ cooling \subseteq cooling'
    /\ UNCHANGED <<scene, moneyVars, payOnly, adminOnly>>
Swp(A) == scene = "sweep" /\ A /\ UNCHANGED <<scene, payOnly, watchOnly>>

MCNext ==
    \/ One(Single!Next) \/ Que(QueueNext) \/ Adm(Ending!Next) \/ Mon(Watch!RulesNext)
    \/ Swp(Next)

-----------------------------------------------------------------------------
(* Fairness.  No step leaves a scene, so one formula asks it of the actions *)
(* of several scenes.                                                       *)

(* The bots' processes and the game keep running and bots poll, the clock   *)
(* advances, money keeps landing and is reported, a bot comes back online,  *)
(* an operator releases a quarantined one, every claim is answered before   *)
(* its attempts are used up, and the monitor runs every minute.             *)
Fairness ==
    /\ WF_mcVars(One(Single!BotStep) \/ Que(Two!BotStep) \/ Adm(Ending!Ask) \/ Mon(Watch!MonitorNext))
    /\ WF_mcVars(\/ One(Single!GamePays(w1, t1) \/ Single!GameRefuses(w1, t1))
               \/ Que(Two!GamePays(w1, t1) \/ Two!GameRefuses(w1, t1))
               \/ Adm(\E o \in Ending!Outcomes, paid \in BOOLEAN : Ending!Send(o, paid)))
    /\ WF_mcVars(\/ One(Single!GamePays(w1, t2) \/ Single!GameRefuses(w1, t2))
               \/ Que(Two!GamePays(w1, t2) \/ Two!GameRefuses(w1, t2))
               \/ Adm(Ending!AskAgain))
    /\ WF_mcVars(Que(Two!GamePays(w2, t1) \/ Two!GameRefuses(w2, t1)) \/ Adm(Ending!GiveUp))
    /\ WF_mcVars(Que(Two!GamePays(w2, t2) \/ Two!GameRefuses(w2, t2)) \/ Adm(Ending!Report))
    /\ WF_mcVars(\/ One(\E m \in net : Single!ProcessResult(m) \/ Single!LoseResult(m))
               \/ Que(\E m \in net : Two!ProcessResult(m))
               \/ Adm(\E m \in reports : Ending!ReportArrives(m) /\ heard' # heard))
    /\ WF_mcVars(One(Single!BecomeDue(w1)) \/ Que(Two!BecomeDue(w1)) \/ Adm(Ending!RetryIsDue("a")))
    /\ WF_mcVars(Que(Two!BecomeDue(w2)) \/ Adm(Ending!RetryIsDue("sweep")))
    /\ WF_mcVars(One(Single!LeaseLapses(w1)) \/ Adm(Ending!Heartbeat))
    /\ WF_mcVars(One(Single!ClaimNothing))
    /\ WF_mcVars(One(Single!MoneyLands(1)) \/ Que(Two!MoneyLands(1)))
    /\ WF_mcVars(One(Single!MoneyReported) \/ Que(Two!MoneyReported))
    /\ WF_mcVars(One(Single!Heartbeat)) /\ WF_mcVars(One(Single!OperatorRelease))
    /\ SF_mcVars(\/ One(\E t \in {t1, t2}, told \in BOOLEAN : Single!Claim(w1, t, told))
               \/ Que(HandOut(w1))
               \/ Adm(\E e \in 1..4 : bot.phase = "asking" /\ Ending!ClaimArrives(e, TRUE)))
    /\ SF_mcVars(Que(HandOut(w2)))

MCSpec == MCInit /\ [][MCNext]_mcVars /\ Fairness

-----------------------------------------------------------------------------
(* Correctness: AdminPayouts's LeavesOnce, QuarantineIsForLapse and         *)
(* OutcomeStands, and the liveness of its kin                               *)

(* A withdrawal is on its way and no operator can see it.                   *)
OnItsWay == \E w \in DOMAIN wd : /\ wd[w].status \in {"queued", "processing"}
                                 /\ ~Two!KilledByQuarantine(w)

(* Nothing stays on its way for good.  A payout is paid, returned or put    *)
(* before an operator, whatever is lost and whoever crashes; so are two     *)
(* that wait for the same bot's money, and neither blocks the other; an     *)
(* operator's payout comes to an outcome the console shows, although its    *)
(* claims may each be lost but one; and the monitor holds a winner over the *)
(* limit and pulls queued payouts back when the house is at its limit.      *)
Stuck ==
    CASE scene \in {"one", "two"} -> OnItsWay
      [] scene = "admin" -> row["a"] \in {"queued", "processing"}
      [] scene = "winner" -> won["alice"] >= 1 /\ "alice" \notin hold
      [] scene = "sweep" -> FALSE
      [] scene = "house" -> Watch!HouseFlow >= 2 /\ Watch!Holdable(1)

NothingIsStuck == []<>~Stuck
=============================================================================
