----------------------------- MODULE QuestPlay -----------------------------
(***************************************************************************)
(* The quests of the zone: the quest book with its kills, drops and        *)
(* tracker (QuestBook), and the reward of a hand-in on its way through     *)
(* Character (QuestReward).                                                *)
(*                                                                         *)
(* A hand-in ends a record in the one and begins a reward in the other;    *)
(* the plugins of the two share no variable, so each is followed by        *)
(* itself.                                                                 *)
(***************************************************************************)
EXTENDS QuestBook

CONSTANTS Objs, RewardQuests, FullReward, DW, FP, kMaxPending, Boosts, HasSlot, MaxRewards     \* QuestReward

VARIABLES
    part,    \* "book" or "reward"
    pending, asked, active, gained, timer
rewardVars == <<pending, asked, active, gained, timer>>

Reward == INSTANCE QuestReward WITH Quests <- RewardQuests, FullExp <- FullReward, MaxAsks <- MaxRewards

ASSUME QuestPlayOK == Reward!RewardsOK

PlayInit == Init /\ Reward!Init /\ part \in {"book", "reward"}
PlayNext ==
    \/ part = "book" /\ Next /\ UNCHANGED <<part, rewardVars>>
    \/ part = "reward" /\ Reward!Next /\ UNCHANGED <<part, vars>>
PlaySpec == PlayInit /\ [][PlayNext]_<<part, vars, rewardVars>>
-----------------------------------------------------------------------------
\* The client's tracker shows no quest whose record has lost the bit, whatever was given up, dropped or handed in; and a
\* quest is ready only when the rows past the five counters are counted too, and one that asks for kills alone is ready as
\* soon as they all are (QuestBook).
BookIsRight == part = "book" => TrackerAgrees /\ ReadyIsComplete

\* An answer of Character grants once and in full, with the strongest booster active then, the reward of a quest that has its
\* low dword: one remembered for the player object, else its own or the one the amount names; with a low dword that no other
\* quest shares that is its own, also after a restart.  And an AbState runs 2^31-1 ms exactly when it is set for a permanent
\* item (QuestReward).
RewardsHold == Reward!GrantIsTheReward /\ Reward!OnlyPermanentForced
=============================================================================
