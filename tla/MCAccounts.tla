----------------------------- MODULE MCAccounts ------------------------------
(***************************************************************************)
(* Signing in by payment, and the rules that hold players' payouts back,   *)
(* on small instances: "scene" says which, and no step changes it.  In the *)
(* other scenes the variables of PayLogin and of AntiDrain, which this     *)
(* module extends, are as if nobody had signed in and nobody had asked.    *)
(***************************************************************************)
EXTENDS PayLogin, AntiDrain, TLC

CONSTANTS c1, c2, x1, x2

VARIABLES scene

Numbers == 1..3
Alike == Permutations(Challenges) \cup Permutations(Payments)

(* In the scene "twice" a Java and a Bedrock player sign in, twice; in      *)
(* this one two players take each other's names.                            *)
Renamed == INSTANCE PayLogin
    WITH Bedrock <- {}, Bases <- {"steve", "alex", "max"}, MaxFaults <- 0, MaxRenames <- 2

(* In the scene "rules" Alice and Bob ask once each, so that nobody is kept *)
(* waiting by the cooldown, which does not end; in "again" Alice asks twice *)
(* and Bob does not.  In "flow" they make all three requests, and neither   *)
(* operators nor the monitor do anything.                                   *)
Asked == [w \in Numbers |-> IF w = 3 THEN "bob" ELSE "alice"]
Twos  == [w \in Numbers |-> 2]
NeverAsked == IF scene = "rules" THEN 2 ELSE 3
RulesScenes == {"rules", "again", "flow"}

ASSUME ConstantsOK /\ Renamed!ConstantsOK /\ RulesOK

mcVars == <<scene, vars, rulesVars>>

Unused == "unused"
NoLogin ==
    /\ challenge = [c \in Challenges |-> NoChallenge]
    /\ payment = [x \in Payments |-> NoPayment]
    /\ account = [p \in Players |-> [exists |-> FALSE, session |-> FALSE, name |-> NoName]]
    /\ credits = [p \in Players |-> [a \in Aims |-> 0]]
    /\ nameOf = Unused /\ queue = Unused /\ receipt = Unused /\ poll = Unused
    /\ faults = Unused /\ renames = Unused /\ journal = Unused

MCInit ==
    /\ RulesInit
    /\ \/ scene = "twice" /\ Init
       \/ scene = "renamed" /\ Renamed!Init
       \/ scene \in RulesScenes /\ NoLogin

MCNext ==
    /\ UNCHANGED scene
    /\ \/ /\ \/ scene = "twice" /\ Next
             \/ scene = "renamed" /\ Renamed!Next
          /\ UNCHANGED rulesVars
       \/ /\ \/ /\ scene \in {"rules", "again"} /\ RulesNext /\ ~facts'[NeverAsked].read
                /\ scene = "rules" => cooling \subseteq cooling'
             \/ scene = "flow" /\ (UserNext \/ PayoutNext)
          /\ UNCHANGED vars

MCSpec == MCInit /\ [][MCNext]_mcVars
=============================================================================
