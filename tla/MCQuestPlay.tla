---------------------------- MODULE MCQuestPlay ----------------------------
(* Three quests: A drops from two mobs, one of them known to the 2026 table only, and  *)
(* repeats; B drops from any mob and ends by time; C asks for two kills, the second in *)
(* a row past the counters.  Rewards below and above 2^31 of a scaled-down dword, two  *)
(* of which agree in it, and a list of two.                                            *)
EXTENDS QuestPlay, TLC

Asked(n, o) == [i \in Items |-> IF i = "quest" THEN n ELSE o]
MCQuestData == [q \in Quests |->
    CASE q = "A" -> [repeat |-> TRUE, timed |-> FALSE, party |-> FALSE, acts |-> {<<"m", "quest", 1, 2>>},
                     rows |-> {<<"m", "quest", 1, 2>>, <<"n", "quest", 1, 2>>}, asks |-> Asked(2, 0), kills |-> <<>>, ends |-> <<>>]
      [] q = "B" -> [repeat |-> FALSE, timed |-> TRUE, party |-> FALSE, acts |-> {<<"any", "quest", 1, 1>>},
                     rows |-> {}, asks |-> Asked(1, 1), kills |-> <<>>, ends |-> <<>>]
      [] q = "C" -> [repeat |-> FALSE, timed |-> FALSE, party |-> FALSE, acts |-> {}, rows |-> {}, asks |-> Asked(0, 0),
                     kills |-> <<<<"n", 1>>>>, ends |-> <<<<"n", 1>>, <<"m", 1>>>>]]
\* the first and the third agree in the low dword; the fourth has the number of the second in its low word
MCFull == <<3, 10, 19, 2>>
\* the pooled player objects are interchangeable
Symmetry == Permutations(Objs)
=============================================================================
