----------------------------- MODULE MCDungeons -----------------------------
(* Two players; a gate with two links, a normal and a hard mode, one with one link and *)
(* one mode, one with a single link.  Two characters and two parties whose numbers     *)
(* meet in the low half of the solo keys.                                              *)
EXTENDS Dungeons, TLC

CONSTANTS p1, p2   \* the players, interchangeable

MCPlayers == Permutations(Players)

MCLinks == "helga" :> <<"tomb", "deep">> @@ "psiken" :> <<"mansion">> @@ "lone" :> <<"deep">>
MCRows == {<<"helga", 1, 1>>, <<"helga", 2, 2>>, <<"psiken", 1, 1>>}
=============================================================================
