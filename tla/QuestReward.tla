----------------------------- MODULE QuestReward -----------------------------
(***************************************************************************)
(* zone/plugins/quest_exp: quest EXP past 2^31, the Quest EXP Booster, and *)
(* charged AbStates that never run out.                                    *)
(*                                                                         *)
(* A reward leaves the zone with its low dword only and comes back when    *)
(* Character answers.  The plugin remembers the full amount in a list of   *)
(* {player object, low dword} and finds it there again, or else by the     *)
(* quest number that the tables write into the low word of a large reward. *)
(***************************************************************************)
EXTENDS Integers, Sequences

CONSTANTS
    Objs, Quests,
    FullExp,      \* quest -> the 8-byte EXP of its reward
    DW,           \* 2^32 in the code
    FP,           \* 2^16 in the code
    kMaxPending,  \* 4096 in the code
    Boosts,       \* EffectValues of Quest EXP Boosters, per mille
    HasSlot,      \* the recipe exp-gain-u64 is in this Zone.exe
    MaxAsks       \* bound: rewards under way

kIntMax == DW \div 2 - 1
Low(q) == FullExp[q] % DW
\* the int the stock zone makes of a dword
Signed(d) == IF d > kIntMax THEN d - DW ELSE d

\* what the tables keep to (Fiesta2026on2016): a reward of 2^31 or more carries its quest's number.  A smaller one may well
\* agree with it in the low dword.
RewardsOK ==
    /\ DW \in Nat \ {0} /\ FP \in Nat \ {0} /\ kMaxPending \in Nat \ {0} /\ MaxAsks \in Nat
    /\ Quests \subseteq Nat \ {0} /\ FullExp \in [Quests -> Nat] /\ HasSlot \in BOOLEAN
    /\ \A q \in Quests : FullExp[q] > kIntMax => Low(q) % FP = q

VARIABLES
    pending,  \* g_pending: <<player, low, quest>>
    asked,    \* rewards Character has yet to answer: <<player, quest>>
    active,   \* player -> EffectValues of its active boosters (type 40)
    gained,   \* if the last step was an answer: the quest, the boost and the remembered quests of the player with
            \* this low dword it met, and every amount sp_GainExp was given
    timer     \* if it set charged AbStates: whether their item is permanent, and whether they got 2^31-1 ms
NoGain == [quest |-> 0, boost |-> 0, met |-> {}, amounts |-> <<>>]
Quiet == gained' = NoGain /\ timer' = <<>>
vars == <<pending, asked, active, gained, timer>>

Without(s, k) == SubSeq(s, 1, k - 1) \o SubSeq(s, k + 1, Len(s))
Found(p, low) == {k \in DOMAIN pending : pending[k][1] = p /\ pending[k][2] = low}
FirstOf(S) == CHOOSE k \in S : \A j \in S : k =< j

\* mutated: the list is not looked at
FingerprintOnly(p, low) == IF low % FP \in Quests THEN FullExp[low % FP] ELSE low

\* mutated: the quest the amount names is taken without comparing its low dword
FullUnchecked(p, low) ==
    IF Found(p, low) # {} THEN FullExp[pending[FirstOf(Found(p, low))][3]]
    ELSE IF low % FP \in Quests THEN FullExp[low % FP] ELSE low

\* take_pending, else fingerprinted, else the dword as it is
Base(p, low) ==
    IF Found(p, low) # {} THEN FullExp[pending[FirstOf(Found(p, low))][3]]
    ELSE IF low % FP \in Quests /\ Low(low % FP) = low THEN FullExp[low % FP] ELSE low

\* booster_permille: the strongest of them
Permille(p) == CHOOSE b \in active[p] \cup {0} : \A x \in active[p] : x =< b

Boosted(base, permille) == base + (base * permille) \div 1000

\* mutated: the plugin grants the sum and the stock releaser the dword again
GrantsBoth(total, low) == IF total = low /\ low =< kIntMax THEN <<Signed(low)>> ELSE <<total, Signed(low)>>

\* every amount the player is given: one 64-bit gain with the cell's EXP put to 0, or the stock releaser's 32-bit one
Grants(total, low) ==
    IF (total = low /\ low =< kIntMax) \/ ~HasSlot THEN <<Signed(low)>> ELSE <<total>>

\* done_impl: remembered, the oldest dropped when the list is full, before the request goes out
HandIn(p, q) ==
    /\ Len(asked) < MaxAsks
    /\ pending' = Append(IF Len(pending) >= kMaxPending THEN Tail(pending) ELSE pending, <<p, Low(q), q>>)
    /\ asked' = Append(asked, <<p, q>>)
    /\ UNCHANGED active /\ Quiet

\* release_impl, for any of the rewards under way
Release(k) ==
    LET p == asked[k][1]
        q == asked[k][2]
        base == Base(p, Low(q))
    IN
    /\ gained' = [quest |-> q, boost |-> Permille(p), met |-> {pending[j][3] : j \in Found(p, Low(q))},
                  amounts |-> Grants(Boosted(base, Permille(p)), Low(q))]
    /\ pending' = IF Found(p, Low(q)) = {} THEN pending ELSE Without(pending, FirstOf(Found(p, Low(q))))
    /\ asked' = Without(asked, k)
    /\ timer' = <<>> /\ UNCHANGED active

\* Character never answers, or answers for a player who has left; the object may be another player's by then
AnswerLost(k) == asked' = Without(asked, k) /\ UNCHANGED <<pending, active>> /\ Quiet
\* the zone is started again between a request and its answer
Restart == pending' = <<>> /\ UNCHANGED <<asked, active>> /\ Quiet

\* uib_CanUseItem lets effect 40 through; the zone activates it and lets it run out
Boost(p) == \E s \in SUBSET Boosts : active' = [active EXCEPT ![p] = s] /\ UNCHANGED <<pending, asked>> /\ Quiet

\* mutated: the flag is left as the last permanent item set it
KeptFlag(was, inner) == inner
\* t_permanent after a charged item was applied, with `inner` while it ran
FlagAfter(was, inner) == was

\* ciee_AfterLoginComplete for each effect of a player in turn: abstate_impl forces the time while the flag is up
Apply(items) ==
    LET flag[k \in 0 .. Len(items)] == IF k = 0 THEN FALSE ELSE FlagAfter(flag[k - 1], items[k].permanent)
        forced(k) == items[k].permanent \/ (flag[k - 1] /\ ~items[k].own)
    IN
    /\ timer' = [k \in DOMAIN items |-> [permanent |-> items[k].permanent, forced |-> forced(k)]]
    /\ gained' = NoGain /\ UNCHANGED <<pending, asked, active>>

\* a charged AbState item, or a state set from elsewhere with no item's handler around it
States == [permanent : BOOLEAN, own : {TRUE}] \cup [permanent : {FALSE}, own : {FALSE}]

Init ==
    /\ pending = <<>> /\ asked = <<>> /\ active = [p \in Objs |-> {}]
    /\ gained = NoGain /\ timer = <<>>

Next ==
    \/ \E p \in Objs, q \in Quests : HandIn(p, q)
    \/ \E k \in DOMAIN asked : Release(k) \/ AnswerLost(k)
    \/ \E p \in Objs : Boost(p)
    \/ Restart
    \/ \E a, b \in States : Apply(<<a, b>>)

Spec == Init /\ [][Next]_vars
-----------------------------------------------------------------------------
\* Whatever was left over in the list, and after a restart that lost it: an answer grants once and in full, with the strongest
\* booster active then, what a quest promises that has the low dword of the answer.  It is one remembered for this player object,
\* or, if none is, its own or the one its amount names.  So it is its own quest's reward unless another's agrees with it there.
GrantIsTheReward ==
    HasSlot /\ gained.quest \in Quests =>
        \E q \in Quests :
            /\ Low(q) = Low(gained.quest)
            /\ q \in IF gained.met # {} THEN gained.met ELSE {gained.quest, Low(gained.quest) % FP}
            /\ gained.amounts = <<Boosted(FullExp[q], gained.boost)>>

\* An AbState runs 2^31-1 ms exactly when it is set for a permanent item, also right behind one (t_permanent is put back).
OnlyPermanentForced == \A k \in DOMAIN timer : timer[k].forced = timer[k].permanent
=============================================================================
