------------------------------- MODULE MCTables -------------------------------
(***************************************************************************)
(* The tables of module Tables on small instances.  Stakes of 15 do not    *)
(* halve evenly at a fee of ten per cent.                                  *)
(***************************************************************************)
EXTENDS Tables, TLC

CONSTANTS ann, bob, cyd, g1, g2

(* At the table "seeded" a player makes two bets, on games of every kind.   *)
OnTwoGames == {<<"mines", "mines">>, <<"tower", "dice">>, <<"chicken", "slots">>,
               <<"ice_fishing", "upgrader">>, <<"plinko", "derby">>}

Three == {ann, bob, cyd}
Two   == {g1, g2}
Alike == Permutations({ann, bob}) \cup Permutations(Two)

(* At the table "battle" there is a lobby of three or four seats, in which  *)
(* seats are left and bought again, and bots.                               *)
Shape(teams, size) == [teams |-> teams, size |-> size]
Formats == {Shape(2, 2), Shape(3, 1)}

ASSUME TablesOK

=============================================================================
