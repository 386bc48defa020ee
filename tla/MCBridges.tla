----------------------------- MODULE MCBridges -----------------------------
(* Login and world: one session address with its successive clients - 2016, German     *)
(* 2026 and a 2026 build with a shift - and accounts of three slots.  Zone: two player *)
(* objects, three quests of which two are shown, a zone slot with an item of its own   *)
(* and two that the 2026 client draws elsewhere.  Data: an item of every kind of       *)
(* class, five counters against six to seven rows of the client.  Tables: one in       *)
(* lockstep with a server's file, UpgradeInfo, one behind the two unchecked ones, and  *)
(* one of those.                                                                       *)
EXTENDS Bridges, Naturals, Sequences

\* what comes after a 0x200B has met a page or an answer on its way is not followed: nothing is claimed of it
Uncrossed == \A p \in Players : ~crossed[p]

MCItems == [i \in {"cape", "wings", "tail", "hat"} |->
              CASE i = "cape" -> [s16 |-> 1, s26 |-> 1] [] i = "wings" -> [s16 |-> 1, s26 |-> 31]
                [] i = "tail" -> [s16 |-> 1, s26 |-> 32] [] i = "hat" -> [s16 |-> 2, s26 |-> 33]]

MCClasses == [id \in 1 .. 7 |-> <<0, 4, 5, 6, 13, 15, 39>>[id]]
Kill(m) == [mob |-> m, kill |-> TRUE]
Talk(m) == [mob |-> m, kill |-> FALSE]
\* Talk(0) is the data's NoMob
MCSlots16 == [1 .. 5 -> {Kill(1), Kill(2), Talk(3), Talk(0)}]
MCRows == {<<Kill(1), Kill(1), Kill(2), Kill(2), Kill(1), Kill(2), Talk(3)>>, <<Talk(3), Kill(2), Kill(1), Kill(1), Talk(3), Kill(2)>>,
           <<Kill(1), Kill(2)>>}
MCRewards == UNION {[1 .. n -> {"exp", "gold", "sword"}] : n \in 0 .. 4}

MCTable(n, k, s) == [slot |-> n, kind |-> k, signed |-> s]
MCTables == [t \in {"iteminfo", "upgradeinfo", "mappoint", "plain"} |->
               CASE t = "iteminfo" -> MCTable(10, "layout", TRUE) [] t = "upgradeinfo" -> MCTable(48, "layout", FALSE)
                 [] t = "mappoint" -> MCTable(24, "unchecked", FALSE) [] t = "plain" -> MCTable(26, "plain", FALSE)]
MCCompanion == [t \in {"iteminfo"} |-> <<2, 9, 1>>]
\* two rows of every table, in either order, or three of which the server's file lacks one
MCClientRows ==
    {<<[key |-> k, value |-> v, equip |-> e], [key |-> 3 - k, value |-> 1, equip |-> 3]>> : k \in 1 .. 2, v \in {-2, 70000}, e \in {29, 31, 44}}
    \cup {<<[key |-> 7, value |-> 65535, equip |-> 44], [key |-> 1, value |-> 5, equip |-> 29], [key |-> 2, value |-> 1, equip |-> 3]>>}
MCFolds == [e \in {31} |-> 7]
=============================================================================
