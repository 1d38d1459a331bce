---------------------------- MODULE RoundsProofs ----------------------------
(***************************************************************************)
(* Proofs about two of the components that run `rounds' checks together.   *)
(*                                                                         *)
(* Crash: for any number of players, rounds and aborts.                    *)
(*                                                                         *)
(* The wager requirement: for every set of players, every multiplier and   *)
(* every amount.  LeavesOnlyWagered speaks of what each credit was owed    *)
(* when money left.  It is not inductive: the row has one figure for all   *)
(* credits.  Bounded makes it so: that figure is never below what any      *)
(* single credit, and those after it, still ask, since a wager is          *)
(* subtracted from both and the figure is only ever raised to nothing.     *)
(***************************************************************************)
EXTENDS Crash, WagerLock, SequenceTheorems, TLAPS

-----------------------------------------------------------------------------
(* Crash                                                                    *)

(* What the locks are worth.  Whoever busts has waited for the bets under   *)
(* way; whoever pays has read a level that the curve does reach; and only   *)
(* the holder of the advisory lock opens and closes rounds.                 *)
LocksInv ==
    /\ isOpen => number \in 1..MaxRounds /\ point[number] \in Points
    /\ \A r \in betting : isOpen /\ number = For[r]
    /\ \A r \in Requests : IsPlaced(r) => For[r] <= number
    /\ shared = "busting" => isOpen /\ HasCrashed /\ betting = {}
    /\ shared = "paying"  => isOpen /\ reached <= point[number]
    /\ shared = "opening" => ~isOpen

(* Nothing has been decided for a bet that is not placed.                   *)
UnplacedInv == \A r \in Requests : ~IsPlaced(r) => bets[r].by = "nobody"

(* The conjunct of OutcomeIsTheCurves that is about one bet.                *)
OutcomeOf(r) ==
    /\ bets[r].status = "lost" => Target[r] > point[For[r]]
    /\ bets[r].by = "auto" => bets[r].level = Target[r] /\ Target[r] <= point[For[r]]
    /\ bets[r].by = "player" => bets[r].level < Target[r] /\ bets[r].level < point[For[r]]

Inv == TypeOK /\ LocksInv /\ UnplacedInv /\ NoBetLeftBehind /\ OutcomeIsTheCurves

USE DEF roundVars, sharedVars

(* multiplierAt never passes the crash point before its time.               *)
LEMMA LevelBeforeCrash ==
    ASSUME NEW t \in Int, NEW m \in Nat \ {0}, t < TimeOf(m)
    PROVE  LevelAt(t) \in Nat \ {0} /\ LevelAt(t) <= m
BY DEF LevelAt, TimeOf

(* The level a player is paid at is one of the levels it is cut to.         *)
LEMMA MaxOfTwo ==
    ASSUME NEW a \in Int, NEW b \in Int
    PROVE  Max({a, b}) = IF a >= b THEN a ELSE b
<1>1. \E x \in {a, b} : \A y \in {a, b} : x >= y
  OBVIOUS
<1>2. Max({a, b}) \in {a, b} /\ \A y \in {a, b} : Max({a, b}) >= y
  BY <1>1 DEF Max
<1> QED
  BY <1>2

LEMMA MinOfTwo ==
    ASSUME NEW a \in Int, NEW b \in Int
    PROVE  Min({a, b}) = IF a <= b THEN a ELSE b
<1>1. \E x \in {a, b} : \A y \in {a, b} : x <= y
  OBVIOUS
<1>2. Min({a, b}) \in {a, b} /\ \A y \in {a, b} : Min({a, b}) <= y
  BY <1>1 DEF Min
<1> QED
  BY <1>2

LEMMA InitInv == Init => Inv
<1> SUFFICES ASSUME Init PROVE Inv
  OBVIOUS
<1> USE RequestsAssumption, LevelsAssumption DEF Init, IsActive, IsPlaced, NoBet
<1>1. TypeOK
  <2>1. NoBet \in Bets
    BY DEF Bets
  <2>2. bets \in [Requests -> Bets]
    BY <2>1
  <2>3. point \in [1..MaxRounds -> Points \cup {0}]
    OBVIOUS
  <2>4. number \in 0..MaxRounds /\ aborts \in 0..MaxAborts
    OBVIOUS
  <2> QED
    BY <2>2, <2>3, <2>4 DEF TypeOK
<1>2. LocksInv
  <2>1. ~isOpen /\ betting = {} /\ shared = "free"
    OBVIOUS
  <2>2. \A r \in Requests : ~IsPlaced(r)
    OBVIOUS
  <2> QED
    BY ONLY <2>1, <2>2 DEF LocksInv
<1>3. NoBetLeftBehind
  BY DEF NoBetLeftBehind
<1>4. OutcomeIsTheCurves
  BY DEF OutcomeIsTheCurves
<1>5. UnplacedInv
  BY DEF UnplacedInv
<1> QED
  BY <1>1, <1>2, <1>3, <1>4, <1>5 DEF Inv

(* Nothing that the outcomes are judged by has moved.                       *)
LEMMA UnchangedBets ==
    ASSUME NoBetLeftBehind, OutcomeIsTheCurves, UNCHANGED <<bets, isOpen, number, point>>
    PROVE  NoBetLeftBehind' /\ OutcomeIsTheCurves'
BY DEF NoBetLeftBehind, OutcomeIsTheCurves, IsActive

(* What the player is paid is below the target and below the crash point.   *)
LEMMA PlayersLevelBelow ==
    ASSUME Inv, isOpen, Started, ~HasCrashed, NEW r \in Requests, number = For[r]
    PROVE  /\ CashOutFor(r) \in Bets /\ CashOutFor(r).status = "cashed_out"
           /\ CashOutFor(r).by = "auto" =>
                CashOutFor(r).level = Target[r] /\ Target[r] <= point[For[r]]
           /\ CashOutFor(r).by = "player" =>
                CashOutFor(r).level < Target[r] /\ CashOutFor(r).level < point[For[r]]
<1> USE RequestsAssumption, LevelsAssumption
<1>1. clock \in Nat /\ number \in 1..MaxRounds /\ point[number] \in Nat \ {0}
  BY DEF Inv, TypeOK, LocksInv
<1>2. clock - Betting \in Int /\ clock - Betting >= 0 /\ clock - Betting < TimeOf(point[number])
  BY <1>1 DEF Started, HasCrashed, CrashesAt, TimeOf
<1>3. point[number] >= 2
  BY <1>1, <1>2 DEF TimeOf
<1>4. Level \in Nat \ {0} /\ Level <= point[number]
  BY <1>1, <1>2, LevelBeforeCrash DEF Level
<1>5. Min({Level, point[number] - 1}) = IF Level <= point[number] - 1 THEN Level ELSE point[number] - 1
  BY <1>1, <1>4, MinOfTwo
<1>6. Min({Level, point[number] - 1}) \in Int
  BY <1>1, <1>4, <1>5
<1>7. PlayersLevel = IF 1 >= Min({Level, point[number] - 1}) THEN 1 ELSE Min({Level, point[number] - 1})
  <2> DEFINE m == Min({Level, point[number] - 1})
  <2>1. m \in Int
    BY <1>6
  <2> HIDE DEF m
  <2>2. Max({1, m}) = IF 1 >= m THEN 1 ELSE m
    BY <2>1, MaxOfTwo
  <2> QED
    BY <2>2 DEF PlayersLevel, m
<1>8. PlayersLevel \in Nat \ {0} /\ PlayersLevel <= Level /\ PlayersLevel < point[number]
  BY <1>1, <1>3, <1>4, <1>5, <1>7
<1>9. Target[r] \in Nat \ {0, 1}
  OBVIOUS
<1> QED
  BY <1>1, <1>4, <1>8, <1>9 DEF CashOutFor, CashedOut, Bets

LEMMA StepTypeOK == Inv /\ [Next]_vars => TypeOK'
<1> SUFFICES ASSUME Inv, [Next]_vars PROVE TypeOK'
  OBVIOUS
<1> USE RequestsAssumption, LevelsAssumption DEF Inv, TypeOK
<1>1. CASE UNCHANGED vars
  BY <1>1 DEF vars, IsActive
<1>2. ASSUME NEW r \in Requests, LockRound(r) PROVE TypeOK'
  BY <1>2 DEF LockRound, IsActive
<1>3. ASSUME NEW r \in Requests, PlaceBet(r) PROVE TypeOK'
  <2>1. Active \in Bets /\ Active.status = "active"
    BY DEF Active, Bets
  <2>2. bets' \in [Requests -> Bets] /\ \A q \in Requests : IsActive(q) => IsActive(q)'
    BY <1>3, <2>1 DEF PlaceBet, IsActive
  <2>3. UNCHANGED <<enabled, roundVars, clock, cashing, sharedVars, aborts>> /\ betting' \subseteq Requests
    BY <1>3 DEF PlaceBet
  <2> QED
    BY <2>2, <2>3
<1>4. ASSUME NEW r \in Requests, LockBet(r) PROVE TypeOK'
  BY <1>4 DEF LockBet, IsActive
<1>5. ASSUME NEW r \in Requests, CashOut(r) PROVE TypeOK'
  <2>1. CASE isOpen /\ number = For[r] /\ Started /\ ~HasCrashed
    <3>1. CashOutFor(r) \in Bets
      BY <2>1, PlayersLevelBelow
    <3> QED
      BY <1>5, <2>1, <3>1 DEF CashOut, IsActive
  <2>2. CASE ~(isOpen /\ number = For[r] /\ Started /\ ~HasCrashed)
    BY <1>5, <2>2 DEF CashOut, IsActive
  <2> QED
    BY <2>1, <2>2
<1>6. ASSUME NEW r \in Requests, LockDue(r) \/ LockRiding(r) PROVE TypeOK'
  BY <1>6 DEF LockDue, LockRiding, IsActive
<1>7. CASE ReadCurve
  <2>1. Min({Level, point[number]}) \in Nat
    <3>1. clock - Betting \in Int /\ clock - Betting < TimeOf(point[number]) /\ point[number] \in Nat \ {0}
      <4>1. isOpen /\ ~HasCrashed
        BY <1>7 DEF ReadCurve
      <4>2. number \in 1..MaxRounds /\ point[number] \in Nat \ {0} /\ clock \in Nat
        BY <4>1 DEF LocksInv
      <4> QED
        BY <4>1, <4>2 DEF HasCrashed, CrashesAt, TimeOf
    <3>2. Level \in Nat
      BY <3>1, LevelBeforeCrash DEF Level
    <3>3. Level \in Int /\ point[number] \in Int
      BY <3>1, <3>2
    <3>4. Min({Level, point[number]}) = IF Level <= point[number] THEN Level ELSE point[number]
      BY <3>3, MinOfTwo
    <3> QED
      BY <3>1, <3>2, <3>4
  <2> QED
    BY <1>7, <2>1 DEF ReadCurve, IsActive
<1>8. CASE PayDue
  <2>1. \A r \in Requests : CashedOut(Target[r], "auto") \in Bets
    BY DEF CashedOut, Bets
  <2>2. bets' \in [Requests -> Bets]
    BY <1>8, <2>1 DEF PayDue
  <2>3. \A r \in cashing : bets'[r] = bets[r]
    BY <1>8 DEF PayDue
  <2> QED
    BY <1>8, <2>2, <2>3 DEF PayDue, IsActive
<1>9. CASE StartAdvance \/ LockForBust
  BY <1>9 DEF StartAdvance, LockForBust, IsActive
<1>10. CASE Bust
  <2>1. \A r \in Requests : CashedOut(Target[r], "auto") \in Bets /\ Lost \in Bets
    BY DEF CashedOut, Lost, Bets
  <2>2. bets' \in [Requests -> Bets]
    BY <1>10, <2>1 DEF Bust
  <2>3. \A r \in cashing : bets'[r] = bets[r]
    BY <1>10 DEF Bust, Winners
  <2>4. number' \in 0..MaxRounds /\ isOpen' \in BOOLEAN /\ clock' \in Nat
        /\ point' \in [1..MaxRounds -> Points \cup {0}]
    <3>1. CASE enabled /\ number < MaxRounds
      BY <1>10, <3>1 DEF Bust, OpenRound
    <3>2. CASE ~(enabled /\ number < MaxRounds)
      BY <1>10, <3>2 DEF Bust
    <3> QED
      BY <3>1, <3>2
  <2> QED
    BY <1>10, <2>2, <2>3, <2>4 DEF Bust, IsActive
<1>11. CASE OpenFirst
  <2>1. CASE enabled /\ number < MaxRounds
    <3>1. number' \in 0..MaxRounds /\ isOpen' \in BOOLEAN /\ clock' \in Nat
          /\ point' \in [1..MaxRounds -> Points \cup {0}]
      BY <1>11, <2>1 DEF OpenFirst, OpenRound
    <3> QED
      BY <1>11, <3>1 DEF OpenFirst, IsActive
  <2>2. CASE ~(enabled /\ number < MaxRounds)
    BY <1>11, <2>2 DEF OpenFirst, IsActive
  <2> QED
    BY <2>1, <2>2
<1>12. CASE Tick \/ Switch
  <2>1. clock' = clock + 1 \/ clock' = clock
    BY <1>12 DEF Tick, Switch
  <2>3. enabled' = enabled \/ enabled' = ~enabled
    BY <1>12 DEF Tick, Switch
  <2>4. clock' \in Nat
    BY <2>1
  <2>5. enabled' \in BOOLEAN
    BY <2>3
  <2>2. UNCHANGED <<roundVars, bets, betting, cashing, sharedVars, wallet, aborts>>
    BY <1>12 DEF Tick, Switch
  <2> QED
    BY <2>2, <2>4, <2>5 DEF IsActive
<1>13. CASE Abort
  BY <1>13 DEF Abort, IsActive
<1> QED
  BY <1>1, <1>2, <1>3, <1>4, <1>5, <1>6, <1>7, <1>8, <1>9, <1>10, <1>11, <1>12, <1>13
     DEF Next, Advance

LEMMA StepLocksInv == Inv /\ [Next]_vars => LocksInv'
<1> SUFFICES ASSUME Inv, [Next]_vars PROVE LocksInv'
  OBVIOUS
<1> USE RequestsAssumption, LevelsAssumption DEF Inv, TypeOK, LocksInv
<1>1. CASE UNCHANGED vars
  BY <1>1 DEF vars, IsPlaced, HasCrashed, CrashesAt
<1>2. ASSUME NEW r \in Requests, LockRound(r) PROVE LocksInv'
  BY <1>2 DEF LockRound, IsPlaced, HasCrashed, CrashesAt
<1>3. ASSUME NEW r \in Requests, PlaceBet(r) PROVE LocksInv'
  <2>1. UNCHANGED <<isOpen, number, point, clock, shared, reached>> /\ betting' = betting \ {r}
    BY <1>3 DEF PlaceBet
  <2>2. \A q \in Requests \ {r} : bets'[q] = bets[q]
    BY <1>3 DEF PlaceBet
  <2>3. r \in betting /\ For[r] <= number
    BY <1>3 DEF PlaceBet
  <2> QED
    BY <2>1, <2>2, <2>3 DEF IsPlaced, HasCrashed, CrashesAt
<1>4. ASSUME NEW r \in Requests, LockBet(r) PROVE LocksInv'
  BY <1>4 DEF LockBet, IsPlaced, HasCrashed, CrashesAt
<1>5. ASSUME NEW r \in Requests, CashOut(r) PROVE LocksInv'
  <2>1. UNCHANGED <<isOpen, number, point, clock, shared, reached, betting>>
    BY <1>5 DEF CashOut
  <2>2. \A q \in Requests \ {r} : bets'[q] = bets[q]
    BY <1>5 DEF CashOut
  <2>3. IsPlaced(r)
    BY <1>5 DEF CashOut, IsActive, IsPlaced
  <2> QED
    BY <2>1, <2>2, <2>3 DEF IsPlaced, HasCrashed, CrashesAt
<1>6. ASSUME NEW r \in Requests, LockDue(r) \/ LockRiding(r) PROVE LocksInv'
  BY <1>6 DEF LockDue, LockRiding, IsPlaced, HasCrashed, CrashesAt
<1>7. CASE ReadCurve
  <2>1. Level \in Int
    <3>1. clock - Betting \in Int
      OBVIOUS
    <3> QED
      BY <3>1 DEF Level, LevelAt
  <2>4. isOpen
    BY <1>7 DEF ReadCurve
  <2>5. number \in 1..MaxRounds /\ point[number] \in Points
    BY <2>4
  <2>7. Points \subseteq Int
    OBVIOUS
  <2>2. isOpen /\ number \in 1..MaxRounds /\ point[number] \in Int
    BY ONLY <2>4, <2>5, <2>7
  <2>6. Min({Level, point[number]}) = IF Level <= point[number] THEN Level ELSE point[number]
    BY <2>1, <2>2, MinOfTwo
  <2>3. Min({Level, point[number]}) <= point[number]
    BY <2>1, <2>2, <2>6
  <2> QED
    BY <1>7, <2>2, <2>3 DEF ReadCurve, IsPlaced
<1>8. CASE PayDue
  <2>1. UNCHANGED <<isOpen, number, point, clock, betting>> /\ shared' = "free"
    BY <1>8 DEF PayDue
  <2>2. \A r \in Requests : IsPlaced(r)' => IsPlaced(r)
    BY <1>8 DEF PayDue, Due, IsActive, IsPlaced
  <2> QED
    BY <2>1, <2>2
<1>9. CASE StartAdvance
  BY <1>9 DEF StartAdvance, IsPlaced
<1>10. CASE LockForBust
  BY <1>10 DEF LockForBust, RoundIsFree, IsOver, IsPlaced, HasCrashed, CrashesAt
<1>11. CASE Bust
  <2>1. shared' = "free" /\ betting' = betting /\ betting = {}
    BY <1>11 DEF Bust
  <2>2. \A r \in Requests : IsPlaced(r)' => IsPlaced(r)
    BY <1>11 DEF Bust, Winners, Riding, InRound, IsPlaced
  <2>3. number' >= number /\ (isOpen' => number' \in 1..MaxRounds /\ point'[number'] \in Points)
    <3>1. CASE enabled /\ number < MaxRounds
      BY <1>11, <3>1 DEF Bust, OpenRound
    <3>2. CASE ~(enabled /\ number < MaxRounds)
      BY <1>11, <3>2 DEF Bust
    <3> QED
      BY <3>1, <3>2
  <2>4. number' \in Int
    BY StepTypeOK
  <2> QED
    BY <2>1, <2>2, <2>3, <2>4
<1>12. CASE OpenFirst
  <2>1. shared' = "free" /\ betting' = betting /\ betting = {} /\ bets' = bets /\ ~isOpen
    BY <1>12 DEF OpenFirst
  <2>2. number' >= number /\ (isOpen' => number' \in 1..MaxRounds /\ point'[number'] \in Points)
    <3>1. CASE enabled /\ number < MaxRounds
      BY <1>12, <3>1 DEF OpenFirst, OpenRound
    <3>2. CASE ~(enabled /\ number < MaxRounds)
      BY <1>12, <3>2, <2>1 DEF OpenFirst
    <3> QED
      BY <3>1, <3>2
  <2>3. number' \in Int
    BY StepTypeOK
  <2> QED
    BY <2>1, <2>2, <2>3 DEF IsPlaced
<1>13. CASE Tick
  <2>1. HasCrashed => HasCrashed'
    <3>1. isOpen /\ clock' = clock + 1 /\ UNCHANGED <<point, number>> /\ point[number] \in Nat
      BY <1>13 DEF Tick
    <3> QED
      BY <3>1 DEF HasCrashed, CrashesAt, TimeOf
  <2> QED
    BY <1>13, <2>1 DEF Tick, IsPlaced
<1>14. CASE Switch
  BY <1>14 DEF Switch, IsPlaced, HasCrashed, CrashesAt
<1>15. CASE Abort
  BY <1>15 DEF Abort, IsPlaced, HasCrashed, CrashesAt
<1> QED
  BY <1>1, <1>2, <1>3, <1>4, <1>5, <1>6, <1>7, <1>8, <1>9, <1>10, <1>11, <1>12, <1>13, <1>14, <1>15
     DEF Next, Advance

LEMMA StepUnplaced == Inv /\ [Next]_vars => UnplacedInv'
<1> SUFFICES ASSUME Inv, [Next]_vars PROVE UnplacedInv'
  OBVIOUS
<1> SUFFICES ASSUME NEW r \in Requests PROVE ~IsPlaced(r)' => bets'[r] = bets[r]
  BY DEF Inv, UnplacedInv, IsPlaced
<1> USE DEF Inv, TypeOK, IsPlaced
<1>1. CASE UNCHANGED vars
  BY <1>1 DEF vars
<1>2. ASSUME NEW q \in Requests, LockRound(q) \/ LockBet(q) \/ LockDue(q) \/ LockRiding(q)
      PROVE  bets' = bets
  BY <1>2 DEF LockRound, LockBet, LockDue, LockRiding
<1>3. CASE ReadCurve \/ StartAdvance \/ LockForBust \/ Tick \/ Switch \/ Abort \/ OpenFirst
  BY <1>3 DEF ReadCurve, StartAdvance, LockForBust, Tick, Switch, Abort, OpenFirst
<1>4. ASSUME NEW q \in Requests, PlaceBet(q) PROVE ~IsPlaced(r)' => bets'[r] = bets[r]
  BY <1>4 DEF PlaceBet, Active
<1>5. ASSUME NEW q \in Requests, CashOut(q) PROVE ~IsPlaced(r)' => bets'[r] = bets[r]
  BY <1>5 DEF CashOut, CashOutFor, CashedOut
<1>6. CASE PayDue
  BY <1>6 DEF PayDue, CashedOut
<1>7. CASE Bust
  BY <1>7 DEF Bust, CashedOut, Lost
<1> QED
  BY <1>1, <1>2, <1>3, <1>4, <1>5, <1>6, <1>7 DEF Next, Advance

LEMMA StepOutcome == Inv /\ [Next]_vars => NoBetLeftBehind' /\ OutcomeIsTheCurves'
<1> SUFFICES ASSUME Inv, [Next]_vars PROVE NoBetLeftBehind' /\ OutcomeIsTheCurves'
  OBVIOUS
<1> USE RequestsAssumption, LevelsAssumption DEF Inv
<1>1. CASE UNCHANGED vars
  BY <1>1, UnchangedBets DEF vars
<1>2. ASSUME NEW r \in Requests, LockRound(r) \/ LockBet(r) \/ LockDue(r) \/ LockRiding(r)
      PROVE  NoBetLeftBehind' /\ OutcomeIsTheCurves'
  BY <1>2, UnchangedBets DEF LockRound, LockBet, LockDue, LockRiding
<1>3. CASE ReadCurve \/ StartAdvance \/ LockForBust \/ Tick \/ Switch \/ Abort
  BY <1>3, UnchangedBets DEF ReadCurve, StartAdvance, LockForBust, Tick, Switch, Abort
<1>4. ASSUME NEW r \in Requests, PlaceBet(r) PROVE NoBetLeftBehind' /\ OutcomeIsTheCurves'
  <2>1. UNCHANGED <<isOpen, number, point>> /\ isOpen /\ number = For[r]
    BY <1>4 DEF PlaceBet, LocksInv
  <2>2. \A q \in Requests \ {r} : bets'[q] = bets[q]
    BY <1>4 DEF PlaceBet, TypeOK
  <2>3. bets'[r] = bets[r] \/ bets'[r] = Active
    BY <1>4 DEF PlaceBet, TypeOK
  <2> QED
    BY <2>1, <2>2, <2>3 DEF NoBetLeftBehind, OutcomeIsTheCurves, IsActive, Active
<1>5. ASSUME NEW r \in Requests, CashOut(r) PROVE NoBetLeftBehind' /\ OutcomeIsTheCurves'
  <2>1. UNCHANGED <<isOpen, number, point>>
    BY <1>5 DEF CashOut
  <2>2. CASE isOpen /\ number = For[r] /\ Started /\ ~HasCrashed
    <3>1. \A q \in Requests \ {r} : bets'[q] = bets[q]
      BY <1>5, <2>2 DEF CashOut, TypeOK
    <3>2. bets'[r] = CashOutFor(r)
      BY <1>5, <2>2 DEF CashOut, TypeOK
    <3>3. /\ CashOutFor(r).status = "cashed_out"
          /\ CashOutFor(r).by = "auto" =>
               CashOutFor(r).level = Target[r] /\ Target[r] <= point[For[r]]
          /\ CashOutFor(r).by = "player" =>
               CashOutFor(r).level < Target[r] /\ CashOutFor(r).level < point[For[r]]
      BY <2>2, PlayersLevelBelow
    <3> QED
      BY <2>1, <3>1, <3>2, <3>3 DEF NoBetLeftBehind, OutcomeIsTheCurves, IsActive
  <2>3. CASE ~(isOpen /\ number = For[r] /\ Started /\ ~HasCrashed)
    BY <1>5, <2>1, <2>3, UnchangedBets DEF CashOut
  <2> QED
    BY <2>2, <2>3
<1>6. CASE PayDue
  <2>1. UNCHANGED <<isOpen, number, point>>
    BY <1>6 DEF PayDue
  <2>2. \A r \in Requests : bets'[r] = bets[r] \/ (r \in Due /\ bets'[r] = CashedOut(Target[r], "auto"))
    BY <1>6 DEF PayDue
  <2>3. reached <= point[number] /\ reached \in Nat /\ point[number] \in Nat
    <3>1. isOpen /\ reached <= point[number]
      BY <1>6 DEF PayDue, LocksInv
    <3> QED
      BY <3>1 DEF LocksInv, TypeOK
  <2>4. \A r \in Due : Target[r] <= point[For[r]]
    <3> SUFFICES ASSUME NEW r \in Due PROVE Target[r] <= point[For[r]]
      OBVIOUS
    <3>1. r \in Requests /\ For[r] = number /\ Target[r] <= reached
      BY DEF Due
    <3> QED
      BY <2>3, <3>1
  <2>5. NoBetLeftBehind'
    <3> SUFFICES ASSUME NEW r \in Requests, bets'[r].status = "active" PROVE isOpen /\ number = For[r]
      BY <2>1 DEF NoBetLeftBehind, IsActive
    <3>1. CashedOut(Target[r], "auto").status = "cashed_out"
      BY DEF CashedOut
    <3>2. bets[r].status = "active"
      BY <2>2, <3>1
    <3> QED
      BY <3>2 DEF NoBetLeftBehind, IsActive
  <2>6. ASSUME NEW r \in Requests, bets'[r] = bets[r] PROVE OutcomeOf(r)'
    BY <2>1, <2>6 DEF OutcomeIsTheCurves, OutcomeOf
  <2>7. ASSUME NEW r \in Due, bets'[r] = CashedOut(Target[r], "auto") PROVE OutcomeOf(r)'
    BY <2>1, <2>4, <2>7 DEF OutcomeOf, CashedOut
  <2>8. \A r \in Requests : OutcomeOf(r)'
    BY <2>2, <2>6, <2>7
  <2> QED
    BY <2>5, <2>8 DEF OutcomeIsTheCurves, OutcomeOf
<1>7. CASE Bust
  <2>1. isOpen
    BY <1>7 DEF Bust, LocksInv
  <2>2. \A r \in Requests :
          \/ ~IsActive(r) /\ bets'[r] = bets[r]
          \/ Target[r] <= point[For[r]] /\ bets'[r] = CashedOut(Target[r], "auto")
          \/ Target[r] > point[For[r]] /\ bets'[r] = Lost
    <3> SUFFICES ASSUME NEW r \in Requests
                 PROVE  \/ ~IsActive(r) /\ bets'[r] = bets[r]
                        \/ Target[r] <= point[For[r]] /\ bets'[r] = CashedOut(Target[r], "auto")
                        \/ Target[r] > point[For[r]] /\ bets'[r] = Lost
      OBVIOUS
    <3>1. bets'[r] = IF r \in Winners THEN CashedOut(Target[r], "auto")
                     ELSE IF r \in Riding THEN Lost ELSE bets[r]
      BY <1>7 DEF Bust
    <3>2. CASE IsActive(r)
      <4>1. For[r] = number /\ r \in Riding
        BY <3>2 DEF Riding, InRound, NoBetLeftBehind, IsActive, IsPlaced
      <4>2. r \in Winners <=> Target[r] <= point[For[r]]
        BY <4>1 DEF Winners
      <4>4. point[For[r]] \in Points /\ Points \subseteq Int
        BY <2>1, <4>1 DEF LocksInv
      <4>3. Target[r] \in Nat /\ point[For[r]] \in Int
        BY <4>4
      <4> QED
        BY <3>1, <4>1, <4>2, <4>3
    <3>3. CASE ~IsActive(r)
      BY <3>1, <3>3 DEF Winners, Riding
    <3> QED
      BY <3>2, <3>3
  <2>3. \A r \in Requests : ~IsActive(r)'
    <3> SUFFICES ASSUME NEW r \in Requests PROVE bets'[r].status # "active"
      BY DEF IsActive
    <3>1. CashedOut(Target[r], "auto").status = "cashed_out" /\ Lost.status = "lost"
      BY DEF CashedOut, Lost
    <3> QED
      BY <2>2, <3>1 DEF IsActive
  <2>4. \A r \in Requests : IsPlaced(r) => point'[For[r]] = point[For[r]]
    <3>1. CASE enabled /\ number < MaxRounds
      BY <1>7, <3>1 DEF Bust, OpenRound, LocksInv, TypeOK
    <3>2. CASE ~(enabled /\ number < MaxRounds)
      BY <1>7, <3>2 DEF Bust
    <3> QED
      BY <3>1, <3>2
  <2>5. \A r \in Requests : ~IsPlaced(r) => bets'[r] = bets[r]
    BY <1>7 DEF Bust, Winners, Riding, InRound
  <2>6. \A r \in Requests : ~IsPlaced(r) => bets[r].by = "nobody"
    BY DEF UnplacedInv
  <2> QED
    <3>1. ASSUME NEW r \in Requests PROVE OutcomeOf(r)'
      <4>1. CASE ~IsPlaced(r)
        BY <2>5, <2>6, <4>1 DEF OutcomeOf, IsPlaced
      <4>2. CASE IsPlaced(r) /\ bets'[r] = bets[r]
        BY <2>4, <4>2 DEF OutcomeOf, OutcomeIsTheCurves
      <4>3. CASE IsPlaced(r) /\ Target[r] <= point[For[r]] /\ bets'[r] = CashedOut(Target[r], "auto")
        BY <2>4, <4>3 DEF OutcomeOf, CashedOut
      <4>4. CASE IsPlaced(r) /\ Target[r] > point[For[r]] /\ bets'[r] = Lost
        BY <2>4, <4>4 DEF OutcomeOf, Lost
      <4> QED
        BY <2>2, <4>1, <4>2, <4>3, <4>4
    <3>2. NoBetLeftBehind'
      BY <2>3 DEF NoBetLeftBehind
    <3> QED
      BY <3>1, <3>2 DEF OutcomeIsTheCurves, OutcomeOf
<1>8. CASE OpenFirst
  <2>1. bets' = bets /\ \A r \in Requests : ~IsActive(r)
    BY <1>8 DEF OpenFirst, LocksInv, NoBetLeftBehind
  <2>2. \A r \in Requests : IsPlaced(r) => point'[For[r]] = point[For[r]]
    <3>1. CASE enabled /\ number < MaxRounds
      BY <1>8, <3>1 DEF OpenFirst, OpenRound, LocksInv, TypeOK
    <3>2. CASE ~(enabled /\ number < MaxRounds)
      BY <1>8, <3>2 DEF OpenFirst
    <3> QED
      BY <3>1, <3>2
  <2>3. \A r \in Requests : ~IsPlaced(r) => bets[r].by = "nobody"
    BY DEF UnplacedInv
  <2> QED
    BY <2>1, <2>2, <2>3 DEF NoBetLeftBehind, OutcomeIsTheCurves, IsActive, IsPlaced
<1> QED
  BY <1>1, <1>2, <1>3, <1>4, <1>5, <1>6, <1>7, <1>8 DEF Next, Advance

LEMMA InvIsInductive == Inv /\ [Next]_vars => Inv'
BY StepTypeOK, StepLocksInv, StepOutcome, StepUnplaced DEF Inv

(* Every variable keeps its type in every run.                              *)
THEOREM CrashTypeOK == Spec => []TypeOK
<1>1. Inv => TypeOK
  BY DEF Inv
<1> QED
  BY <1>1, InitInv, InvIsInductive, PTL DEF Spec

(* A bet under way when the curve crashes is waited for: none is left       *)
(* riding in a round that is over.                                          *)
THEOREM CrashLeavesNoBet == Spec => []NoBetLeftBehind
<1>1. Inv => NoBetLeftBehind
  BY DEF Inv
<1> QED
  BY <1>1, InitInv, InvIsInductive, PTL DEF Spec

(* However late the scheduler is, a bet gets what the curve gave it.        *)
THEOREM CrashOutcome == Spec => []OutcomeIsTheCurves
<1>1. Inv => OutcomeIsTheCurves
  BY DEF Inv
<1> QED
  BY <1>1, InitInv, InvIsInductive, PTL DEF Spec

(* A round is busted only by whoever has seen, under the lock, that the     *)
(* curve has reached its crash point.                                       *)
THEOREM CrashNeverEarly == Spec => NeverBustsEarly
<1>1. Inv /\ [Next]_vars => [isOpen /\ (number' # number \/ ~isOpen') => HasCrashed]_vars
  <2> SUFFICES ASSUME Inv, Next, isOpen, number' # number \/ ~isOpen' PROVE HasCrashed
    BY DEF vars
  <2>1. CASE Bust
    BY <2>1 DEF Bust, Inv, LocksInv
  <2>2. CASE OpenFirst
    BY <2>2 DEF OpenFirst, Inv, LocksInv
  <2>3. ASSUME NEW r \in Requests, LockRound(r) \/ PlaceBet(r) \/ LockBet(r) \/ CashOut(r)
                                      \/ LockDue(r) \/ LockRiding(r)
        PROVE  HasCrashed
    BY <2>3 DEF LockRound, PlaceBet, LockBet, CashOut, LockDue, LockRiding
  <2>4. CASE ReadCurve \/ PayDue \/ StartAdvance \/ LockForBust \/ Tick \/ Switch \/ Abort
    BY <2>4 DEF ReadCurve, PayDue, StartAdvance, LockForBust, Tick, Switch, Abort
  <2> QED
    BY <2>1, <2>2, <2>3, <2>4 DEF Next, Advance
<1> QED
  BY <1>1, InitInv, InvIsInductive, PTL DEF Spec, NeverBustsEarly

-----------------------------------------------------------------------------
(* The wager requirement                                                    *)

LockTypeOK ==
    /\ purse \in [Players -> Nat]
    /\ remaining \in [Players -> Nat]
    /\ since \in [Players -> Seq(Int)]
    /\ left \in [Players -> SUBSET Seq(Int)]
    /\ moves \in Nat

Bounded == \A p \in Players : \A i \in DOMAIN since[p] : since[p][i] <= remaining[p]

LockInv == LockTypeOK /\ Bounded /\ LeavesOnlyWagered

(* A requirement is a natural number.                                       *)
LEMMA RequirementType ==
    ASSUME NEW a \in Nat, NEW n \in Nat
    PROVE  RequirementFor(a, n) \in Nat
  BY DEF RequirementFor

(* Adding the same to every figure of an account leaves it an account's     *)
(* figures.                                                                 *)
LEMMA ShiftType ==
    ASSUME NEW s \in Seq(Int), NEW n \in Int
    PROVE  [i \in DOMAIN s |-> s[i] + n] \in Seq(Int)
<1>1. Len(s) \in Nat /\ DOMAIN s = 1..Len(s) /\ \A i \in DOMAIN s : s[i] \in Int
  OBVIOUS
<1>2. [i \in DOMAIN s |-> s[i] + n] \in [1..Len(s) -> Int]
  BY <1>1
<1>3. QED
  BY <1>1, <1>2, SeqDef

(* A deposit or a gift raises the figure by as much as it asks for, so the  *)
(* new credit and all before it stay below it.                              *)
LEMMA CreditKeeps ==
    ASSUME LockInv, NEW p \in Players, NEW amount \in Nat, NEW n \in Nat,
           Credit(p, amount, n), moves' \in Nat
    PROVE  LockInv'
<1> DEFINE owed == RequirementFor(amount, n)
           now  == Append([i \in DOMAIN since[p] |-> since[p][i] + owed], owed)
<1>1. owed \in Nat
  BY RequirementType
<1> HIDE DEF owed
<1>2. since[p] \in Seq(Int) /\ remaining[p] \in Nat /\ purse[p] \in Nat
  BY DEF LockInv, LockTypeOK
<1>3. [i \in DOMAIN since[p] |-> since[p][i] + owed] \in Seq(Int)
  BY <1>1, <1>2, ShiftType
<1>4. now \in Seq(Int)
  BY <1>1, <1>3
<1>5. /\ purse' = [purse EXCEPT ![p] = @ + amount]
      /\ remaining' = [remaining EXCEPT ![p] = @ + owed]
      /\ since' = [since EXCEPT ![p] = now]
      /\ left' = left
  BY DEF Credit, AddRequirement, owed
<1>6. LockTypeOK'
  BY <1>1, <1>2, <1>4, <1>5 DEF LockInv, LockTypeOK
<1>7. Bounded'
  <2> SUFFICES ASSUME NEW q \in Players, NEW i \in DOMAIN since'[q]
               PROVE  since'[q][i] <= remaining'[q]
    BY DEF Bounded
  <2>1. CASE q # p
    BY <2>1, <1>5 DEF LockInv, LockTypeOK, Bounded
  <2>2. CASE q = p
    <3>1. since'[q] = now /\ remaining'[q] = remaining[p] + owed
      BY <2>2, <1>5 DEF LockInv, LockTypeOK
    <3>2. CASE i \in DOMAIN since[p]
      <4>1. now[i] = since[p][i] + owed
        BY <3>2, <1>1, <1>2, <1>3
      <4>2. since[p][i] <= remaining[p] /\ since[p][i] \in Int
        BY <3>2, <1>2 DEF LockInv, Bounded
      <4>3. QED
        BY <3>1, <4>1, <4>2, <1>1, <1>2
    <3>3. CASE i \notin DOMAIN since[p]
      <4>1. now[i] = owed
        BY <3>1, <3>3, <1>1, <1>2, <1>3
      <4>2. QED
        BY <3>1, <4>1, <1>1, <1>2
    <3>4. QED
      BY <3>2, <3>3
  <2>3. QED
    BY <2>1, <2>2
<1>8. LeavesOnlyWagered'
  BY <1>5 DEF LockInv, LeavesOnlyWagered
<1>9. QED
  BY <1>6, <1>7, <1>8 DEF LockInv

(* A wager is taken off the figure and off what every credit still asks     *)
(* for; the figure stops at nothing, which is above what any of them asks.  *)
LEMMA WagerKeeps ==
    ASSUME LockInv, NEW p \in Players, NEW amount \in Nat, NEW prize \in Nat,
           Wager(p, amount, prize), moves' \in Nat
    PROVE  LockInv'
<1> DEFINE now == [i \in DOMAIN since[p] |-> since[p][i] - amount]
<1>1. since[p] \in Seq(Int) /\ remaining[p] \in Nat /\ purse[p] \in Nat
  BY DEF LockInv, LockTypeOK
<1>2. Reduced(p, amount) \in Nat /\ Reduced(p, amount) >= remaining[p] - amount
  <2> DEFINE rest == remaining[p] - amount
  <2>1. rest \in Int /\ Reduced(p, amount) = Max({rest, 0})
    BY <1>1 DEF Reduced
  <2> HIDE DEF rest
  <2>2. Max({rest, 0}) \in {rest, 0} /\ Max({rest, 0}) >= rest /\ Max({rest, 0}) >= 0
    BY <2>1, MaxOfTwo
  <2>3. QED
    BY <2>1, <2>2 DEF rest
<1>3. now \in Seq(Int)
  <2>1. now = [i \in DOMAIN since[p] |-> since[p][i] + (-amount)] /\ -amount \in Int
    BY <1>1
  <2>2. QED
    BY <1>1, <2>1, ShiftType
<1>4. /\ purse[p] >= amount
      /\ purse' = [purse EXCEPT ![p] = @ - amount + prize]
      /\ remaining' = [remaining EXCEPT ![p] = Reduced(p, amount)]
      /\ since' = [since EXCEPT ![p] = now]
      /\ left' = left
  BY DEF Wager
<1>5. purse[p] - amount + prize \in Nat
  BY <1>1, <1>4
<1>6. LockTypeOK'
  BY <1>2, <1>3, <1>4, <1>5 DEF LockInv, LockTypeOK
<1>7. Bounded'
  <2> SUFFICES ASSUME NEW q \in Players, NEW i \in DOMAIN since'[q]
               PROVE  since'[q][i] <= remaining'[q]
    BY DEF Bounded
  <2>1. CASE q # p
    BY <2>1, <1>4 DEF LockInv, LockTypeOK, Bounded
  <2>2. CASE q = p
    <3>1. since'[q] = now /\ remaining'[q] = Reduced(p, amount)
      BY <2>2, <1>4 DEF LockInv, LockTypeOK
    <3>2. i \in DOMAIN since[p] /\ now[i] = since[p][i] - amount
      BY <3>1
    <3>3. since[p][i] <= remaining[p] /\ since[p][i] \in Int
      BY <3>2, <1>1 DEF LockInv, Bounded
    <3>4. QED
      BY <3>1, <3>2, <3>3, <1>1, <1>2
  <2>3. QED
    BY <2>1, <2>2
<1>8. LeavesOnlyWagered'
  BY <1>4 DEF LockInv, LeavesOnlyWagered
<1>9. QED
  BY <1>6, <1>7, <1>8 DEF LockInv

(* Money leaves only while the figure is nothing, so nothing is asked for   *)
(* by any credit.                                                           *)
LEMMA NothingIsAsked ==
    ASSUME LockInv, NEW p \in Players, RequirementMet(p)
    PROVE  \A i \in DOMAIN since[p] : since[p][i] <= 0
  BY DEF LockInv, LockTypeOK, Bounded, RequirementMet

(* A withdrawal, a stake in the pool or a tip adds an account's figures to  *)
(* those that are looked at, and moves money between wallets.               *)
LEMMA LeavingKeeps ==
    ASSUME LockInv, NEW p \in Players, RequirementMet(p),
           purse' \in [Players -> Nat], moves' \in Nat,
           left' = [left EXCEPT ![p] = @ \cup {since[p]}],
           UNCHANGED <<remaining, since>>
    PROVE  LockInv'
<1>1. LockTypeOK'
  BY DEF LockInv, LockTypeOK
<1>2. Bounded'
  BY DEF LockInv, Bounded
<1>3. LeavesOnlyWagered'
  <2> SUFFICES ASSUME NEW q \in Players, NEW asked \in left'[q], NEW i \in DOMAIN asked
               PROVE  asked[i] <= 0
    BY DEF LeavesOnlyWagered
  <2>1. CASE asked \in left[q]
    BY <2>1 DEF LockInv, LeavesOnlyWagered
  <2>2. CASE asked \notin left[q]
    <3>1. asked = since[p]
      BY <2>2 DEF LockInv, LockTypeOK
    <3>2. QED
      BY <3>1, NothingIsAsked
  <2>3. QED
    BY <2>1, <2>2
<1>4. QED
  BY <1>1, <1>2, <1>3 DEF LockInv

-----------------------------------------------------------------------------
(* Before the first movement nothing has to be wagered.                     *)
LEMMA LockInvInitially == ASSUME ConstantsOK, LockInit PROVE LockInv
  BY DEF ConstantsOK, LockInit, LockInv, LockTypeOK, Bounded, LeavesOnlyWagered

(* Every movement keeps the lock tight.                                     *)
LEMMA LockInvStays ==
    ASSUME ConstantsOK, LockInv, [LockNext]_lockVars
    PROVE  LockInv'
<1>1. CASE UNCHANGED lockVars
  BY <1>1 DEF lockVars, LockInv, LockTypeOK, Bounded, LeavesOnlyWagered
<1>2. ASSUME NEW p \in Players, NEW amount \in Amounts, moves' = moves + 1,
             \/ Deposit(p, amount) \/ Gift(p, amount) \/ Leave(p, amount)
             \/ \E prize \in {0, 2 * amount} : Wager(p, amount, prize)
             \/ \E q \in Players : Tip(p, q, amount)
      PROVE  LockInv'
  <2>1. amount \in Nat /\ DepositMultiplier \in Nat /\ BonusMultiplier \in Nat
    BY DEF ConstantsOK
  <2>2. moves' \in Nat /\ purse \in [Players -> Nat]
    BY <1>2 DEF LockInv, LockTypeOK
  <2>3. CASE Deposit(p, amount)
    BY <2>1, <2>2, <2>3, CreditKeeps DEF Deposit
  <2>4. CASE Gift(p, amount)
    BY <2>1, <2>2, <2>4, CreditKeeps DEF Gift
  <2>5. CASE Leave(p, amount)
    <3>1. purse' \in [Players -> Nat]
      <4>1. purse[p] - amount \in Nat
        BY <2>1, <2>2, <2>5 DEF Leave
      <4>2. QED
        BY <4>1, <2>2, <2>5 DEF Leave
    <3>2. QED
      BY <3>1, <2>2, <2>5, LeavingKeeps DEF Leave
  <2>6. ASSUME NEW prize \in {0, 2 * amount}, Wager(p, amount, prize) PROVE LockInv'
    BY <2>1, <2>2, <2>6, WagerKeeps
  <2>7. ASSUME NEW q \in Players, Tip(p, q, amount) PROVE LockInv'
    <3>1. purse' \in [Players -> Nat]
      <4>1. purse[p] - amount \in Nat /\ purse[q] + amount \in Nat
        BY <2>1, <2>2, <2>7 DEF Tip
      <4>2. QED
        BY <4>1, <2>2, <2>7 DEF Tip
    <3>2. QED
      BY <3>1, <2>2, <2>7, LeavingKeeps DEF Tip, MayTip
  <2>8. QED
    BY <1>2, <2>3, <2>4, <2>5, <2>6, <2>7
<1>3. QED
  BY <1>1, <1>2 DEF LockNext

(* When money leaves an account, nothing that came into it is still to be   *)
(* wagered for: whatever the multipliers, the amounts and the order of      *)
(* deposits, gifts, wagers and tips (wager-requirements.ts).                *)
THEOREM LockIsTight == ASSUME ConstantsOK PROVE LockSpec => []LeavesOnlyWagered
<1>1. LockInit => LockInv
  BY LockInvInitially
<1>2. LockInv /\ [LockNext]_lockVars => LockInv'
  BY LockInvStays
<1>3. LockInv => LeavesOnlyWagered
  BY DEF LockInv
<1>4. QED
  BY <1>1, <1>2, <1>3, PTL DEF LockSpec

=============================================================================
