---------------------------- MODULE QuestProofs ----------------------------
(***************************************************************************)
(* The rewards of hand-ins, for any amounts that keep to what the tables   *)
(* promise, and the quest book, for any quests, items and bag: its tracker *)
(* and give-ups first, then how an item's count follows from the cells,    *)
(* and from that what a pick-up takes and when a record is ready.          *)
(***************************************************************************)
EXTENDS QuestPlay, FiniteSetTheorems, SequenceTheorems, Induction, TLAPS

(* The reward. *)

\* what is remembered, or under way, is a quest's own reward
Remembered ==
    /\ pending \in Seq(Objs \X Int \X RewardQuests)
    /\ \A k \in DOMAIN pending : pending[k][2] = Reward!Low(pending[k][3])
    /\ asked \in Seq(Objs \X RewardQuests)

\* of 2^31 or more, an amount names its quest; below, it is its own low dword
LEMMA LowNamesQuest ==
    ASSUME NEW q \in RewardQuests
    PROVE  /\ FullReward[q] \in Nat /\ Reward!Low(q) \in Nat
           /\ FullReward[q] =< Reward!kIntMax => Reward!Low(q) = FullReward[q]
           /\ FullReward[q] > Reward!kIntMax => Reward!Low(q) % FP = q
<1>1. DW \in Nat \ {0} /\ FP \in Nat \ {0} /\ FullReward[q] \in Nat
  BY QuestPlayOK DEF Reward!RewardsOK
<1>2. Reward!Low(q) \in Nat
  BY <1>1 DEF Reward!Low
<1>3. ASSUME FullReward[q] =< Reward!kIntMax PROVE Reward!Low(q) = FullReward[q]
  <2>1. FullReward[q] < DW
    BY <1>1, <1>3 DEF Reward!kIntMax
  <2> QED BY <1>1, <2>1 DEF Reward!Low
<1> QED
  BY <1>1, <1>2, <1>3, QuestPlayOK DEF Reward!RewardsOK

\* whichever entry of the list the low dword finds, the base is the reward of a quest with that low dword; when it finds none,
\* of the answer's own quest or of the one its amount names
Candidates(p, q) ==
    LET met == {pending[j][3] : j \in Reward!Found(p, Reward!Low(q))}
    IN  {c \in IF met # {} THEN met ELSE {q, Reward!Low(q) % FP} : c \in RewardQuests /\ Reward!Low(c) = Reward!Low(q)}

LEMMA BaseIsAReward ==
    ASSUME Remembered, NEW p \in Objs, NEW q \in RewardQuests
    PROVE  \E c \in Candidates(p, q) : Reward!Base(p, Reward!Low(q)) = FullReward[c]
<1> DEFINE low == Reward!Low(q)
           found == Reward!Found(p, low)
           met == {pending[j][3] : j \in found}
<1>1. CASE found # {}
  <2> DEFINE k == Reward!FirstOf(found)
  <2> HIDE DEF k
  <2>1. found \subseteq DOMAIN pending /\ DOMAIN pending \subseteq Nat
    BY DEF Reward!Found, Remembered
  <2>2. k \in found
    <3>1. found \subseteq Nat /\ found # {}
      BY <1>1, <2>1
    <3> HIDE DEF found
    <3>2. \E m \in found : \A j \in found : m =< j
      BY <3>1, FirstNumber, Zenon
    <3> QED BY <3>2 DEF k, Reward!FirstOf
  <2>3. pending[k][2] = low /\ pending[k][2] = Reward!Low(pending[k][3]) /\ pending[k][3] \in RewardQuests
    BY <2>1, <2>2 DEF Reward!Found, Remembered
  <2>4. pending[k][3] \in met
    BY <2>2
  <2>5. pending[k][3] \in Candidates(p, q)
    BY <2>3, <2>4 DEF Candidates
  <2>6. Reward!Base(p, low) = FullReward[pending[k][3]]
    BY <1>1 DEF Reward!Base, k
  <2> QED BY <2>5, <2>6
<1>2. CASE found = {}
  <2>1. met = {}
    BY <1>2
  <2>2. \A c \in {q, low % FP} : c \in RewardQuests /\ Reward!Low(c) = low => c \in Candidates(p, q)
    BY <2>1 DEF Candidates
  <2>3. CASE low % FP \in RewardQuests /\ Reward!Low(low % FP) = low
    BY <1>2, <2>2, <2>3, QuestPlayOK DEF Reward!Base, Reward!RewardsOK
  <2>4. CASE ~(low % FP \in RewardQuests /\ Reward!Low(low % FP) = low)
    <3>1. Reward!Base(p, low) = low
      BY <1>2, <2>4 DEF Reward!Base
    <3>2. FullReward[q] =< Reward!kIntMax
      BY <2>4, LowNamesQuest, QuestPlayOK DEF Reward!RewardsOK, Reward!kIntMax
    <3>3. FullReward[q] = low
      BY <3>2, LowNamesQuest
    <3> QED BY <2>2, <3>1, <3>3
  <2> QED BY <2>3, <2>4
<1> QED BY <1>1, <1>2

\* an answer grants, in whichever of the two ways, such a reward with the booster's share
LEMMA ReleaseGrants ==
    ASSUME Remembered, NEW k \in DOMAIN asked, Reward!Release(k)
    PROVE  Reward!GrantIsTheReward'
<1> DEFINE p == asked[k][1]
           q == asked[k][2]
           met == {pending[j][3] : j \in Reward!Found(p, Reward!Low(q))}
<1>1. p \in Objs /\ q \in RewardQuests
  BY DEF Remembered
<1>2. PICK c \in Candidates(p, q) : Reward!Base(p, Reward!Low(q)) = FullReward[c]
  BY <1>1, BaseIsAReward
<1> DEFINE total == Reward!Boosted(FullReward[c], Reward!Permille(p))
<1>3. gained' = [quest |-> q, boost |-> Reward!Permille(p), met |-> met, amounts |-> Reward!Grants(total, Reward!Low(q))]
  BY <1>2 DEF Reward!Release
<1>4. HasSlot => Reward!Grants(total, Reward!Low(q)) = <<total>>
  <2>1. Reward!Low(q) \in Nat /\ Reward!kIntMax \in Int
    <3>1. Reward!Low(q) \in Nat
      BY <1>1, LowNamesQuest
    <3>2. Reward!kIntMax \in Int
      BY QuestPlayOK DEF Reward!RewardsOK, Reward!kIntMax
    <3> QED BY <3>1, <3>2
  <2>2. Reward!Low(q) =< Reward!kIntMax => Reward!Signed(Reward!Low(q)) = Reward!Low(q)
    BY <2>1 DEF Reward!Signed
  <2> HIDE DEF total
  <2> QED BY <2>2 DEF Reward!Grants
<1>5. c \in RewardQuests /\ Reward!Low(c) = Reward!Low(q) /\ c \in IF met # {} THEN met ELSE {q, Reward!Low(q) % FP}
  BY <1>2, Zenon DEF Candidates
<1>6. gained'.quest = q /\ gained'.boost = Reward!Permille(p) /\ gained'.met = met
      /\ (HasSlot => gained'.amounts = <<total>>)
  <2> HIDE DEF met, total
  <2> QED BY <1>3, <1>4
<1> QED
  <2> HIDE DEF met
  <2> QED BY <1>5, <1>6, Zenon DEF Reward!GrantIsTheReward

\* an AbState gets the flag of its own item: the flag is down whenever no charged item is being applied
LEMMA ApplyForces ==
    ASSUME NEW a \in Reward!States, NEW b \in Reward!States, Reward!Apply(<<a, b>>)
    PROVE  Reward!OnlyPermanentForced'
<1> DEFINE items == <<a, b>>
           rule(f) == f = [k \in 0 .. Len(items) |-> IF k = 0 THEN FALSE ELSE Reward!FlagAfter(f[k - 1], items[k].permanent)]
           flag == CHOOSE f : rule(f)
<1>1. Len(items) = 2 /\ DOMAIN items = 1 .. 2
  OBVIOUS
<1>2. rule([k \in 0 .. Len(items) |-> FALSE])
  BY <1>1 DEF Reward!FlagAfter
<1>3. rule(flag)
  BY <1>2
<1>4. flag[0] = FALSE /\ flag[1] = FALSE
  <2> HIDE DEF flag
  <2>1. flag[0] = FALSE
    BY <1>1, <1>3
  <2>2. flag[1] = Reward!FlagAfter(flag[0], items[1].permanent)
    <3> HIDE DEF items
    <3>1. 1 \in 0 .. Len(items) /\ 1 # 0 /\ 1 - 1 = 0
      BY <1>1
    <3> QED BY <1>3, <3>1
  <2> QED BY <2>1, <2>2 DEF Reward!FlagAfter
<1>5. timer' = [k \in DOMAIN items |-> [permanent |-> items[k].permanent,
                                        forced |-> items[k].permanent \/ (flag[k - 1] /\ ~items[k].own)]]
  BY DEF Reward!Apply
<1> QED
  <2> HIDE DEF flag
  <2> SUFFICES ASSUME NEW k \in DOMAIN items
               PROVE  (items[k].permanent \/ (flag[k - 1] /\ ~items[k].own)) = items[k].permanent
    BY <1>5 DEF Reward!OnlyPermanentForced
  <2>1. items[k].permanent \in BOOLEAN
    <3>1. items[k] = a \/ items[k] = b
      BY <1>1
    <3>2. a.permanent \in BOOLEAN /\ b.permanent \in BOOLEAN
      BY Zenon DEF Reward!States
    <3> QED BY <3>1, <3>2, Zenon
  <2>2. flag[k - 1] = FALSE
    BY <1>1, <1>4
  <2> QED BY <2>1, <2>2

\* the list and the requests under way, and what the last step granted or set
RewardInv == Remembered /\ RewardsHold

LEMMA RewardInit == PlayInit => RewardInv
<1> SUFFICES ASSUME Reward!Init PROVE RewardInv
  BY DEF PlayInit
<1>1. Remembered
  BY DEF Reward!Init, Remembered
<1>2. RewardsHold
  BY QuestPlayOK DEF Reward!Init, Reward!NoGain, RewardsHold, Reward!GrantIsTheReward, Reward!OnlyPermanentForced, Reward!RewardsOK
<1> QED BY <1>1, <1>2 DEF RewardInv

\* a step that grants and sets nothing
LEMMA QuietHolds == Reward!Quiet => RewardsHold'
  BY QuestPlayOK DEF Reward!Quiet, Reward!NoGain, RewardsHold, Reward!GrantIsTheReward, Reward!OnlyPermanentForced, Reward!RewardsOK

LEMMA WithoutOne ==
    ASSUME NEW T, NEW s \in Seq(T), NEW k \in DOMAIN s
    PROVE  /\ Reward!Without(s, k) \in Seq(T)
           /\ \A j \in DOMAIN Reward!Without(s, k) : \E i \in DOMAIN s : Reward!Without(s, k)[j] = s[i]
<1>1. k \in 1 .. Len(s) /\ Len(s) \in Nat
  OBVIOUS
<1>2. SubSeq(s, 1, k - 1) \in Seq(T) /\ Len(SubSeq(s, 1, k - 1)) = k - 1
  BY <1>1
<1>3. SubSeq(s, k + 1, Len(s)) \in Seq(T) /\ Len(SubSeq(s, k + 1, Len(s))) = Len(s) - k
  BY <1>1
<1> DEFINE a == SubSeq(s, 1, k - 1)
           b == SubSeq(s, k + 1, Len(s))
<1>4. \A j \in 1 .. k - 1 : a[j] = s[j] /\ j \in DOMAIN s
  BY <1>1
<1>5. \A j \in 1 .. Len(s) - k : b[j] = s[k + j] /\ k + j \in DOMAIN s
  BY <1>1
<1>6. /\ a \in Seq(T) /\ Len(a) = k - 1 /\ b \in Seq(T) /\ Len(b) = Len(s) - k
      /\ Reward!Without(s, k) = a \o b
  BY <1>2, <1>3 DEF Reward!Without
<1> HIDE DEF a, b
<1> DEFINE c == a \o b
<1>7. /\ c \in Seq(T) /\ Len(c) = Len(a) + Len(b)
      /\ \A j \in 1 .. Len(a) + Len(b) : c[j] = IF j =< Len(a) THEN a[j] ELSE b[j - Len(a)]
  BY <1>6, ConcatProperties
<1> HIDE DEF c
<1>8. ASSUME NEW j \in DOMAIN c PROVE \E i \in DOMAIN s : c[j] = s[i]
  <2>1. j \in 1 .. Len(s) - 1
    BY <1>1, <1>6, <1>7
  <2>2. CASE j =< k - 1
    BY <2>1, <2>2, <1>1, <1>4, <1>6, <1>7
  <2>3. CASE ~(j =< k - 1)
    <3>1. j - (k - 1) \in 1 .. Len(s) - k
      BY <2>1, <2>3, <1>1
    <3>2. c[j] = b[j - (k - 1)]
      BY <2>1, <2>3, <1>1, <1>6, <1>7
    <3> QED BY <3>1, <3>2, <1>5
  <2> QED BY <2>2, <2>3
<1> QED BY <1>6, <1>7, <1>8 DEF c

LEMMA RewardNext == RewardInv /\ [PlayNext]_<<part, vars, rewardVars>> => RewardInv'
<1> SUFFICES ASSUME RewardInv, [PlayNext]_<<part, vars, rewardVars>> PROVE RewardInv'
  OBVIOUS
<1> USE DEF RewardInv
<1>1. CASE UNCHANGED rewardVars
  BY <1>1 DEF rewardVars, Remembered, RewardsHold, Reward!GrantIsTheReward, Reward!OnlyPermanentForced
<1>2. CASE Reward!Next
  <2>1. ASSUME NEW p \in Objs, NEW q \in RewardQuests, Reward!HandIn(p, q) PROVE RewardInv'
    <3> DEFINE entry == <<p, Reward!Low(q), q>>
               kept == IF Len(pending) >= kMaxPending THEN Tail(pending) ELSE pending
    <3>1. entry \in Objs \X Int \X RewardQuests /\ entry[2] = Reward!Low(entry[3])
      BY LowNamesQuest
    <3>2. kept \in Seq(Objs \X Int \X RewardQuests) /\ \A k \in DOMAIN kept : kept[k][2] = Reward!Low(kept[k][3])
      <4>1. CASE Len(pending) >= kMaxPending
        <5>1. Len(pending) \in Nat \ {0} /\ pending # <<>>
          BY <4>1, QuestPlayOK DEF Reward!RewardsOK, Remembered
        <5>2. kept = Tail(pending) /\ Len(kept) = Len(pending) - 1 /\ kept \in Seq(Objs \X Int \X RewardQuests)
          BY <4>1, <5>1 DEF Remembered
        <5>3. \A k \in DOMAIN kept : kept[k] = pending[k + 1] /\ k + 1 \in DOMAIN pending
          BY <5>1, <5>2 DEF Remembered
        <5> HIDE DEF kept
        <5> QED BY <5>2, <5>3 DEF Remembered
      <4>2. CASE ~(Len(pending) >= kMaxPending)
        BY <4>2 DEF Remembered
      <4> QED BY <4>1, <4>2
    <3> HIDE DEF entry, kept
    <3>3. pending' = Append(kept, entry) /\ asked' = Append(asked, <<p, q>>)
      BY <2>1 DEF Reward!HandIn, kept, entry
    <3>4. \A k \in DOMAIN pending' : pending'[k] = entry \/ (k \in DOMAIN kept /\ pending'[k] = kept[k])
      BY <3>1, <3>2, <3>3
    <3>5. Remembered'
      BY <3>1, <3>2, <3>3, <3>4 DEF Remembered
    <3> QED BY <2>1, <3>5, QuietHolds DEF Reward!HandIn
  <2>2. ASSUME NEW k \in DOMAIN asked, Reward!Release(k) PROVE RewardInv'
    <3> DEFINE p == asked[k][1]
               q == asked[k][2]
               found == Reward!Found(p, Reward!Low(q))
               f == Reward!FirstOf(found)
    <3>1. Reward!GrantIsTheReward'
      BY <2>2, ReleaseGrants
    <3>2. Reward!OnlyPermanentForced'
      BY <2>2 DEF Reward!Release, Reward!OnlyPermanentForced
    <3>3. Reward!Without(asked, k) \in Seq(Objs \X RewardQuests)
      BY WithoutOne DEF Remembered
    <3>4. ASSUME found # {} PROVE f \in DOMAIN pending
      <4>1. found \subseteq DOMAIN pending /\ DOMAIN pending \subseteq Nat
        BY DEF Reward!Found, Remembered
      <4> HIDE DEF found
      <4>2. \E m \in found : \A j \in found : m =< j
        BY <3>4, <4>1, FirstNumber, Zenon
      <4> QED BY <4>1, <4>2 DEF Reward!FirstOf
    <3>5. asked' = Reward!Without(asked, k) /\ pending' = IF found = {} THEN pending ELSE Reward!Without(pending, f)
      BY <2>2 DEF Reward!Release
    <3> HIDE DEF found, f
    <3>6. Remembered'
      <4>1. CASE found = {}
        BY <4>1, <3>3, <3>5 DEF Remembered
      <4>2. CASE found # {}
        <5>1. pending' \in Seq(Objs \X Int \X RewardQuests) /\ \A j \in DOMAIN pending' : \E i \in DOMAIN pending : pending'[j] = pending[i]
          BY <4>2, <3>4, <3>5, WithoutOne DEF Remembered
        <5> QED BY <5>1, <3>3, <3>5 DEF Remembered
      <4> QED BY <4>1, <4>2
    <3> QED BY <3>1, <3>2, <3>6 DEF RewardsHold
  <2>3. ASSUME NEW k \in DOMAIN asked, Reward!AnswerLost(k) PROVE RewardInv'
    <3>1. Reward!Without(asked, k) \in Seq(Objs \X RewardQuests)
      BY WithoutOne DEF Remembered
    <3> QED BY <2>3, <3>1, QuietHolds DEF Reward!AnswerLost, Remembered
  <2>4. ASSUME NEW p \in Objs, Reward!Boost(p) PROVE RewardInv'
    BY <2>4, QuietHolds DEF Reward!Boost, Remembered
  <2>5. CASE Reward!Restart
    BY <2>5, QuietHolds DEF Reward!Restart, Remembered
  <2>6. ASSUME NEW a \in Reward!States, NEW b \in Reward!States, Reward!Apply(<<a, b>>) PROVE RewardInv'
    <3>1. Reward!OnlyPermanentForced'
      BY <2>6, ApplyForces
    <3>2. Reward!GrantIsTheReward' /\ Remembered'
      BY <2>6, QuestPlayOK DEF Reward!Apply, Reward!NoGain, Reward!GrantIsTheReward, Reward!RewardsOK, Remembered
    <3> QED BY <3>1, <3>2 DEF RewardsHold
  <2> QED BY <1>2, <2>1, <2>2, <2>3, <2>4, <2>5, <2>6 DEF Reward!Next
<1> QED BY <1>1, <1>2 DEF PlayNext

\* An answer of Character grants once and in full the reward of a quest that has its low dword: one remembered for that player
\* object if there is one, else its own or the one its amount names.  For any quests whose large amounts carry their number,
\* any player objects, and a list of any length; and an AbState is forced to 2^31-1 ms exactly for a permanent item
\* (take_pending, fingerprinted, release_impl, abstate_impl).
THEOREM EveryRewardItsOwn == PlaySpec => []RewardsHold
<1>1. RewardInv => RewardsHold
  BY DEF RewardInv
<1> QED BY <1>1, RewardInit, RewardNext, PTL DEF PlaySpec
-----------------------------------------------------------------------------
(* The book.  Every action is met once: what it does to the statuses, the  *)
(* tracked bits and the client's tracker.                                  *)

\* the statuses of a record; the tracker shows nothing while the player is away
Statuses == {"none", "doing", "failed", "ready", "done", "again", "gone", "cleared"}

BookInv ==
    /\ st \in [Quests -> Statuses] /\ bit \in [Quests -> BOOLEAN]
    /\ TrackerAgrees
    /\ ~online => shown = {}

\* the bits a step sets are the one of a Track with a slot free
SetsBits == \A q \in Quests : bit'[q] => bit[q]

LEMMA BookInit == PlayInit => BookInv
  BY DEF PlayInit, Init, BookInv, TrackerAgrees, Statuses

\* a Track sets one bit and changes nothing else the invariant speaks of
LEMMA TrackStep ==
    ASSUME BookInv, NEW q \in Quests, Track(q)
    PROVE  BookInv' /\ Pinned(st', bit') = Pinned(st, bit) \cup {q} /\ st' = st
  BY DEF Track, BookInv, TrackerAgrees, Pinned, Active

\* any other step keeps the invariant and sets no bit
LEMMA OtherSteps ==
    ASSUME BookInv, [Next]_vars, \A q \in Quests : ~Track(q)
    PROVE  BookInv' /\ SetsBits
<1> USE DEF BookInv, TrackerAgrees, SetsBits, recordVars, groundVars
<1>1. CASE UNCHANGED vars
  BY <1>1 DEF vars
<1>2. ASSUME NEW q \in Quests, Untrack(q) PROVE BookInv' /\ SetsBits
  BY <1>2 DEF Untrack
<1>3. ASSUME NEW q \in Quests, Accept(q) PROVE BookInv' /\ SetsBits
  BY <1>3 DEF Accept, Statuses
<1>4. ASSUME NEW q \in Quests, HandIn(q) PROVE BookInv' /\ SetsBits
  <2>1. st' \in [Quests -> Statuses] /\ (\A p \in Quests \ {q} : st'[p] = st[p]) /\ online /\ online'
    BY <1>4 DEF HandIn, Statuses
  <2>2. bit' = [bit EXCEPT ![q] = FALSE] /\ shown' = IF bit[q] THEN shown \ {q} ELSE shown
    BY <1>4 DEF HandIn, Unpinned
  <2> QED BY <2>1, <2>2
<1>5. ASSUME NEW q \in Quests, TimeOut(q) \/ StockUpdate(q) \/ AckMissed(q) PROVE BookInv' /\ SetsBits
  BY <1>5 DEF TimeOut, StockUpdate, AckMissed, Statuses
<1>6. ASSUME NEW m \in Mobs, NEW party \in BOOLEAN, Kill(m, party) PROVE BookInv' /\ SetsBits
  <2>1. st' \in [Quests -> Statuses] /\ \A q \in Quests : st'[q] \in {st[q], "ready"}
    BY <1>6 DEF Kill, Statuses
  <2> QED BY <1>6, <2>1 DEF Kill
<1>7. ASSUME NEW m \in Mobs, NEW q \in Quests, KillExact(m, q) PROVE BookInv' /\ SetsBits
  BY <1>7 DEF KillExact, Statuses
<1>8. ASSUME NEW q \in Quests, GiveUp(q) PROVE BookInv' /\ SetsBits
  BY <1>8 DEF GiveUp, Statuses
<1>9. ASSUME NEW q \in Quests, NEW ok \in BOOLEAN, DbAck(q, ok) PROVE BookInv' /\ SetsBits
  BY <1>9 DEF DbAck, Statuses
<1>10. ASSUME NEW i \in Items, PickSingle(i) PROVE BookInv' /\ SetsBits
  BY <1>10 DEF PickSingle
<1>11. ASSUME NEW fails \in SUBSET CellNos, PickStack(fails) PROVE BookInv' /\ SetsBits
  BY <1>11 DEF PickStack
<1>12. ASSUME NEW i \in Items, NEW lot \in 1 .. MaxStack, DropStack(i, lot) PROVE BookInv' /\ SetsBits
  BY <1>12 DEF DropStack
<1>13. CASE LogOut
  BY <1>13 DEF LogOut, Active
<1>14. CASE LogIn
  BY <1>14 DEF LogIn, Pinned
<1> QED
  BY <1>1, <1>2, <1>3, <1>4, <1>5, <1>6, <1>7, <1>8, <1>9, <1>10, <1>11, <1>12, <1>13, <1>14 DEF Next

\* a step of the reward leaves the book as it is
LEMMA PlayIsBook == [PlayNext]_<<part, vars, rewardVars>> => [Next]_vars
  BY DEF PlayNext

LEMMA BookNext == BookInv /\ [PlayNext]_<<part, vars, rewardVars>> => BookInv'
  BY PlayIsBook, TrackStep, OtherSteps

\* The client's tracker shows no quest whose record has lost the bit, and a quest that was handed in is unpinned, for any
\* number of quests and of slots (on_track, on_untrack, set_done, the list of a login).
THEOREM TrackerFollowsRecords == PlaySpec => []TrackerAgrees
<1>1. BookInv => TrackerAgrees
  BY DEF BookInv
<1> QED BY <1>1, BookInit, BookNext, PTL DEF PlaySpec

PinsMore == Cardinality(Pinned(st', bit')) > Cardinality(Pinned(st, bit)) /\ Cardinality(Pinned(st', bit')) > kSlots
ComesBack == \E q \in Quests : ~Active(st[q]) /\ bit[q] /\ Active(st'[q])

\* More quests than there are slots are pinned only by accepting one that was given up while pinned, for any number of slots
\* (on_track's count of the active records with the bit).
THEOREM TrackNeverOverfills == PlaySpec => OnlyReturnsOverfill
<1>1. ASSUME BookInv, [Next]_vars PROVE PinsMore => ComesBack
  <2> SUFFICES ASSUME ~ComesBack PROVE ~PinsMore
    OBVIOUS
  <2>1. /\ Pinned(st, bit) \subseteq Quests /\ IsFiniteSet(Pinned(st, bit))
        /\ Cardinality(Pinned(st, bit)) \in Nat /\ kSlots \in Nat
    <3>1. Pinned(st, bit) \subseteq Quests
      BY DEF Pinned
    <3> QED BY <3>1, DataOK, FS_Subset, FS_CardinalityType
  <2>2. ASSUME NEW q \in Quests, Track(q) PROVE ~PinsMore
    <3>1. Cardinality(Pinned(st, bit)) < kSlots /\ Pinned(st', bit') = Pinned(st, bit) \cup {q}
      BY <1>1, <2>2, TrackStep DEF Track
    <3>2. Cardinality(Pinned(st, bit) \cup {q}) =< Cardinality(Pinned(st, bit)) + 1
      <4>1. Cardinality(Pinned(st, bit) \cup {q}) =
              IF q \in Pinned(st, bit) THEN Cardinality(Pinned(st, bit)) ELSE Cardinality(Pinned(st, bit)) + 1
        BY <2>1, FS_AddElement
      <4> QED BY <4>1, <2>1
    <3>3. Cardinality(Pinned(st, bit) \cup {q}) \in Nat
      BY <2>1, FS_AddElement, FS_CardinalityType
    <3> QED BY <2>1, <3>1, <3>2, <3>3 DEF PinsMore
  <2>3. CASE \A q \in Quests : ~Track(q)
    <3>1. SetsBits
      BY <1>1, <2>3, OtherSteps
    <3>2. Pinned(st', bit') \subseteq Pinned(st, bit)
      BY <3>1 DEF SetsBits, ComesBack, Pinned
    <3>3. Cardinality(Pinned(st', bit')) =< Cardinality(Pinned(st, bit)) /\ Cardinality(Pinned(st', bit')) \in Nat
      BY <2>1, <3>2, FS_Subset, FS_CardinalityType
    <3> QED BY <2>1, <3>3 DEF PinsMore
  <2> QED BY <2>2, <2>3
<1>2. BookInv /\ [PlayNext]_<<part, vars, rewardVars>> => [PinsMore => ComesBack]_vars
  BY <1>1, PlayIsBook
<1> QED BY <1>2, BookInit, BookNext, PTL DEF PlaySpec, OnlyReturnsOverfill, PinsMore, ComesBack

Rid(q, i) == \/ \A k \in CellNos : cells'[k][1] # i
             \/ \E p \in Quests \ {q} : Active(st'[p]) /\ Uses(p, i)

\* what take_items leaves of a quest's own quest items
LEMMA TakenItems ==
    ASSUME NEW q \in Quests, TakeItems(q, st'), NEW i \in Drops(q) \cap QuestItems
    PROVE  Rid(q, i)
<1> SUFFICES ASSUME ~(\E p \in Quests \ {q} : Active(st'[p]) /\ Uses(p, i)), NEW k \in CellNos
             PROVE  cells'[k][1] # i
  BY DEF Rid
<1>1. NoItem # i
  BY DataOK
<1>2. CASE cells[k][1] = i
  BY <1>1, <1>2 DEF TakeItems
<1>3. CASE cells[k][1] # i
  <2>1. cells'[k] = cells[k] \/ cells'[k] = <<NoItem, 0>>
    BY DEF TakeItems
  <2> QED BY <1>1, <1>3, <2>1
<1> QED BY <1>2, <1>3

\* When a give-up ends a quest, at once or on Character's answer, the player holds none of the quest items it dropped unless
\* another quest in progress uses them, for any quests, items and bag (quest_abandon's take_items on both paths).
THEOREM GiveUpTakesItems == PlaySpec => GivenUpItemsGo
<1> DEFINE Ends(q) == online /\ Active(st[q]) /\ st'[q] \in {"gone", "cleared"}
<1>1. ASSUME BookInv, [Next]_vars
      PROVE  \A q \in Quests : Ends(q) => \A i \in Drops(q) \cap QuestItems : Rid(q, i)
  <2> SUFFICES ASSUME NEW q \in Quests, Ends(q) PROVE TakeItems(q, st')
    BY TakenItems
  <2> USE <1>1 DEF BookInv, Active, recordVars
  <2>1. ASSUME NEW p \in Quests, GiveUp(p) PROVE TakeItems(q, st')
    BY <2>1 DEF GiveUp
  <2>2. ASSUME NEW p \in Quests, NEW ok \in BOOLEAN, DbAck(p, ok) PROVE TakeItems(q, st')
    BY <2>2 DEF DbAck, TakeOnAck
  <2>3. CASE UNCHANGED vars
    BY <2>3 DEF vars
  <2>4. ASSUME NEW p \in Quests,
               Track(p) \/ Untrack(p) \/ Accept(p) \/ HandIn(p) \/ TimeOut(p) \/ StockUpdate(p) \/ AckMissed(p)
        PROVE  FALSE
    <3>1. CASE Track(p) \/ Untrack(p)
      BY <3>1 DEF Track, Untrack
    <3>2. CASE Accept(p) \/ HandIn(p)
      BY <3>2 DEF Accept, HandIn
    <3>3. CASE TimeOut(p) \/ StockUpdate(p) \/ AckMissed(p)
      BY <3>3 DEF TimeOut, StockUpdate, AckMissed
    <3> QED BY <2>4, <3>1, <3>2, <3>3
  <2>5. ASSUME NEW m \in Mobs, NEW party \in BOOLEAN, Kill(m, party) PROVE FALSE
    <3>1. st'[q] \in {st[q], "ready"}
      BY <2>5 DEF Kill
    <3> QED BY <3>1
  <2>6. ASSUME NEW m \in Mobs, NEW p \in Quests, KillExact(m, p) PROVE FALSE
    BY <2>6 DEF KillExact
  <2>7. ASSUME NEW i \in Items, PickSingle(i) PROVE FALSE
    BY <2>7 DEF PickSingle
  <2>8. ASSUME NEW fails \in SUBSET CellNos, PickStack(fails) PROVE FALSE
    BY <2>8 DEF PickStack
  <2>9. ASSUME NEW i \in Items, NEW lot \in 1 .. MaxStack, DropStack(i, lot) PROVE FALSE
    BY <2>9 DEF DropStack
  <2>10. CASE LogOut \/ LogIn
    BY <2>10 DEF LogOut, LogIn
  <2> QED
    BY <2>1, <2>2, <2>3, <2>4, <2>5, <2>6, <2>7, <2>8, <2>9, <2>10 DEF Next
<1> DEFINE Step == \A q \in Quests : Ends(q) => \A i \in Drops(q) \cap QuestItems : Rid(q, i)
<1>2. BookInv /\ [PlayNext]_<<part, vars, rewardVars>> => [Step]_vars
  BY <1>1, PlayIsBook
<1> QED BY <1>2, BookInit, BookNext, PTL DEF PlaySpec, GivenUpItemsGo, Rid
-----------------------------------------------------------------------------
(* How much of an item a bag holds: CountIn adds up the cells one by one. *)

AnyOf(s) == CHOOSE x \in s : TRUE
InCell(cs, i, k) == IF cs[k][1] = i THEN cs[k][2] ELSE 0
\* F adds up, set by set, how much of an item the cells of D hold
Adds(F, D, cs, i) ==
    F = [s \in D |-> IF s = {} THEN 0 ELSE InCell(cs, i, AnyOf(s)) + F[s \ {AnyOf(s)}]]

UpToSize(n) == {s \in SUBSET CellNos : Cardinality(s) =< n}

\* a set of cells and one of them: the rest is smaller by one
LEMMA Smaller ==
    ASSUME NEW s \in SUBSET CellNos, s # {}
    PROVE  /\ AnyOf(s) \in s /\ IsFiniteSet(s) /\ s \ {AnyOf(s)} \in SUBSET CellNos
           /\ Cardinality(s) \in Nat \ {0} /\ Cardinality(s \ {AnyOf(s)}) = Cardinality(s) - 1
<1>1. IsFiniteSet(s) /\ AnyOf(s) \in s
  BY FS_Subset, DataOK DEF AnyOf
<1>2. Cardinality(s) \in Nat /\ Cardinality(s) # 0
  BY <1>1, FS_CardinalityType, FS_EmptySet
<1>3. Cardinality(s \ {AnyOf(s)}) = Cardinality(s) - 1
  BY <1>1, FS_RemoveElement
<1> QED BY <1>1, <1>2, <1>3

\* the one set of no cells
LEMMA OnlyTheEmpty ==
    ASSUME NEW s \in UpToSize(0)
    PROVE  s = {}
<1>1. s \in SUBSET CellNos /\ Cardinality(s) =< 0
  BY DEF UpToSize
<1>2. s # {} => Cardinality(s) \in Nat \ {0}
  BY <1>1, Smaller
<1> QED BY <1>1, <1>2

\* the sum exists, for sets of one size after those of another
LEMMA AddsFor ==
    ASSUME NEW cs, NEW i
    PROVE  \A n \in 0 .. Cardinality(CellNos) : \E F : Adds(F, UpToSize(n), cs, i)
<1> DEFINE S == {n \in Nat : \E F : Adds(F, UpToSize(n), cs, i)}
<1>1. Cardinality(CellNos) \in Nat
  BY DataOK, FS_CardinalityType
<1>2. 0 \in S
  <2> DEFINE F == [s \in UpToSize(0) |-> 0]
  <2>1. \A s \in UpToSize(0) : s = {}
    BY OnlyTheEmpty
  <2>2. Adds(F, UpToSize(0), cs, i)
    BY <2>1, Zenon DEF Adds
  <2> QED BY <2>2
<1>3. ASSUME NEW n \in 0 .. Cardinality(CellNos), n < Cardinality(CellNos), n \in S PROVE n + 1 \in S
  <2>1. PICK F : Adds(F, UpToSize(n), cs, i)
    BY <1>3
  <2> DEFINE G == [s \in UpToSize(n + 1) |-> IF s = {} THEN 0 ELSE InCell(cs, i, AnyOf(s)) + F[s \ {AnyOf(s)}]]
  <2>2. ASSUME NEW s \in UpToSize(n + 1), s # {} PROVE s \ {AnyOf(s)} \in UpToSize(n) /\ s \ {AnyOf(s)} \in UpToSize(n + 1)
    <3>1. s \in SUBSET CellNos /\ Cardinality(s) =< n + 1
      BY DEF UpToSize
    <3>2. s \ {AnyOf(s)} \in SUBSET CellNos /\ Cardinality(s) \in Nat /\ Cardinality(s \ {AnyOf(s)}) = Cardinality(s) - 1
      BY <2>2, <3>1, Smaller
    <3>3. Cardinality(s) - 1 =< n /\ Cardinality(s) - 1 =< n + 1
      BY <3>1, <3>2
    <3> QED BY <3>2, <3>3 DEF UpToSize
  <2>3. ASSUME NEW s \in UpToSize(n), s \in UpToSize(n + 1) PROVE G[s] = F[s]
    BY <2>1, <2>3 DEF Adds
  <2>4. ASSUME NEW s \in UpToSize(n + 1), s # {} PROVE G[s] = InCell(cs, i, AnyOf(s)) + G[s \ {AnyOf(s)}]
    <3>1. G[s \ {AnyOf(s)}] = F[s \ {AnyOf(s)}]
      BY <2>2, <2>3, <2>4
    <3> QED BY <2>4, <3>1
  <2>5. Adds(G, UpToSize(n + 1), cs, i)
    BY <2>4 DEF Adds
  <2> HIDE DEF G
  <2> QED BY <2>5, <1>1
<1> HIDE DEF S
<1>4. \A n \in 0 .. Cardinality(CellNos) : n \in S
  BY <1>1, <1>2, <1>3, UpTo
<1> QED BY <1>4 DEF S

\* CountIn is that sum over all the cells
LEMMA CountIsSum ==
    ASSUME NEW cs, NEW i
    PROVE  \E F : Adds(F, SUBSET CellNos, cs, i) /\ CountIn(cs, i) = F[CellNos]
<1> DEFINE F == CHOOSE F : Adds(F, SUBSET CellNos, cs, i)
<1>1. UpToSize(Cardinality(CellNos)) = SUBSET CellNos
  <2>1. ASSUME NEW s \in SUBSET CellNos PROVE Cardinality(s) =< Cardinality(CellNos)
    BY DataOK, FS_Subset
  <2> QED BY <2>1 DEF UpToSize
<1>2. Cardinality(CellNos) \in 0 .. Cardinality(CellNos)
  BY DataOK, FS_CardinalityType
<1>3. Adds(F, SUBSET CellNos, cs, i)
  <2>1. \E G : Adds(G, UpToSize(Cardinality(CellNos)), cs, i)
    BY <1>2, AddsFor
  <2> QED BY <1>1, <2>1
<1>4. CountIn(cs, i) = F[CellNos]
  BY DEF CountIn, MapThenSumSet, MapThenFoldSet, Adds, InCell, AnyOf
<1> QED BY <1>3, <1>4

\* a statement about sets of cells that holds of the empty one, and of a set if of the rest of it
LEMMA SetBySet ==
    ASSUME NEW P, {} \in P, \A s \in SUBSET CellNos : s # {} /\ s \ {AnyOf(s)} \in P => s \in P
    PROVE  CellNos \in P
<1> DEFINE S == {n \in Nat : UpToSize(n) \subseteq P}
           N == Cardinality(CellNos)
<1>1. N \in Nat
  BY DataOK, FS_CardinalityType
<1>2. ASSUME NEW n \in Nat, NEW s \in UpToSize(n), s # {} PROVE s \ {AnyOf(s)} \in SUBSET CellNos /\ Cardinality(s \ {AnyOf(s)}) =< n - 1 /\ n > 0
  <2>1. s \in SUBSET CellNos /\ Cardinality(s) =< n
    BY DEF UpToSize
  <2>2. s \ {AnyOf(s)} \in SUBSET CellNos /\ Cardinality(s) \in Nat \ {0} /\ Cardinality(s \ {AnyOf(s)}) = Cardinality(s) - 1
    BY <1>2, <2>1, Smaller
  <2> QED BY <2>1, <2>2
<1>3. 0 \in S
  <2>1. \A s \in UpToSize(0) : s = {}
    BY OnlyTheEmpty
  <2> QED BY <2>1
<1>4. ASSUME NEW n \in 0 .. N, n < N, n \in S PROVE n + 1 \in S
  <2>1. n \in Nat /\ n + 1 \in Nat /\ n + 1 - 1 = n
    BY <1>1
  <2>2. ASSUME NEW s \in UpToSize(n + 1) PROVE s \in P
    <3>1. CASE s = {}
      BY <3>1
    <3>2. CASE s # {}
      <4>1. s \ {AnyOf(s)} \in SUBSET CellNos /\ Cardinality(s \ {AnyOf(s)}) =< n + 1 - 1
        BY <1>2, <2>1, <3>2
      <4>2. s \ {AnyOf(s)} \in UpToSize(n)
        BY <2>1, <4>1 DEF UpToSize
      <4>3. s \in SUBSET CellNos
        BY DEF UpToSize
      <4> QED BY <1>4, <3>2, <4>2, <4>3
    <3> QED BY <3>1, <3>2
  <2> QED BY <2>1, <2>2
<1> HIDE DEF S
<1>5. N \in 0 .. N
  BY <1>1
<1>6. N \in S
  <2> HIDE DEF N
  <2>1. \A n \in 0 .. N : n \in S
    BY <1>1, <1>3, <1>4, UpTo
  <2> QED BY <2>1, <1>5
<1>7. CellNos \in UpToSize(N)
  BY <1>1 DEF UpToSize
<1> QED BY <1>6, <1>7 DEF S

\* the bags: an empty cell holds a lot of 0
Bags == {cs \in [CellNos -> (Items \cup {NoItem}) \X (0 .. MaxLot)] : \A k \in CellNos : cs[k][1] = NoItem => cs[k][2] = 0}

\* what one cell holds of an item
LEMMA InCellNat ==
    ASSUME NEW cs \in Bags, NEW i, NEW k \in CellNos
    PROVE  InCell(cs, i, k) \in Nat
<1>1. cs[k] \in (Items \cup {NoItem}) \X (0 .. MaxLot)
  BY DEF Bags
<1>2. cs[k][2] \in 0 .. MaxLot
  BY <1>1
<1> QED BY <1>2 DEF InCell

\* the lot of an item in a bag
LEMMA CountNat ==
    ASSUME NEW cs \in Bags, NEW i
    PROVE  CountIn(cs, i) \in Nat
<1>1. PICK F : Adds(F, SUBSET CellNos, cs, i) /\ CountIn(cs, i) = F[CellNos]
  BY CountIsSum
<1> DEFINE P == {s \in SUBSET CellNos : F[s] \in Nat}
<1>2. {} \in P
  BY <1>1 DEF Adds
<1>3. ASSUME NEW s \in SUBSET CellNos, s # {}, s \ {AnyOf(s)} \in P PROVE s \in P
  <2>1. F[s] = InCell(cs, i, AnyOf(s)) + F[s \ {AnyOf(s)}]
    BY <1>1, <1>3 DEF Adds
  <2>2. InCell(cs, i, AnyOf(s)) \in Nat
    BY <1>3, Smaller, InCellNat
  <2> QED BY <1>3, <2>1, <2>2
<1> HIDE DEF P
<1>4. CellNos \in P
  BY <1>2, <1>3, SetBySet
<1> QED BY <1>1, <1>4 DEF P

\* a bag of which no cell holds more has no more in all
LEMMA CountLess ==
    ASSUME NEW cs \in Bags, NEW ds \in Bags, NEW i, \A k \in CellNos : InCell(ds, i, k) =< InCell(cs, i, k)
    PROVE  CountIn(ds, i) =< CountIn(cs, i)
<1>1. PICK F : Adds(F, SUBSET CellNos, cs, i) /\ CountIn(cs, i) = F[CellNos]
  BY CountIsSum
<1>2. PICK G : Adds(G, SUBSET CellNos, ds, i) /\ CountIn(ds, i) = G[CellNos]
  BY CountIsSum
<1> DEFINE P == {s \in SUBSET CellNos : F[s] \in Nat /\ G[s] \in Nat /\ G[s] =< F[s]}
<1>3. {} \in P
  BY <1>1, <1>2 DEF Adds
<1>4. ASSUME NEW s \in SUBSET CellNos, s # {}, s \ {AnyOf(s)} \in P PROVE s \in P
  <2>1. F[s] = InCell(cs, i, AnyOf(s)) + F[s \ {AnyOf(s)}]
    BY <1>1, <1>4 DEF Adds
  <2>2. G[s] = InCell(ds, i, AnyOf(s)) + G[s \ {AnyOf(s)}]
    BY <1>2, <1>4 DEF Adds
  <2>3. AnyOf(s) \in CellNos
    BY <1>4, Smaller
  <2>4. InCell(cs, i, AnyOf(s)) \in Nat /\ InCell(ds, i, AnyOf(s)) \in Nat /\ InCell(ds, i, AnyOf(s)) =< InCell(cs, i, AnyOf(s))
    BY <2>3, InCellNat
  <2> QED BY <1>4, <2>1, <2>2, <2>4
<1> HIDE DEF P
<1>5. CellNos \in P
  BY <1>3, <1>4, SetBySet
<1> QED BY <1>1, <1>2, <1>5 DEF P

\* a bag of which one cell holds n more has n more
LEMMA CountMore ==
    ASSUME NEW cs \in Bags, NEW ds \in Bags, NEW i, NEW c \in CellNos, NEW n \in Nat,
           InCell(ds, i, c) = InCell(cs, i, c) + n, \A k \in CellNos \ {c} : InCell(ds, i, k) = InCell(cs, i, k)
    PROVE  CountIn(ds, i) = CountIn(cs, i) + n
<1>1. PICK F : Adds(F, SUBSET CellNos, cs, i) /\ CountIn(cs, i) = F[CellNos]
  BY CountIsSum
<1>2. PICK G : Adds(G, SUBSET CellNos, ds, i) /\ CountIn(ds, i) = G[CellNos]
  BY CountIsSum
<1> DEFINE P == {s \in SUBSET CellNos : F[s] \in Nat /\ G[s] = F[s] + IF c \in s THEN n ELSE 0}
<1>3. {} \in P
  BY <1>1, <1>2 DEF Adds
<1>4. ASSUME NEW s \in SUBSET CellNos, s # {}, s \ {AnyOf(s)} \in P PROVE s \in P
  <2>1. F[s] = InCell(cs, i, AnyOf(s)) + F[s \ {AnyOf(s)}]
    BY <1>1, <1>4 DEF Adds
  <2>2. G[s] = InCell(ds, i, AnyOf(s)) + G[s \ {AnyOf(s)}]
    BY <1>2, <1>4 DEF Adds
  <2>3. AnyOf(s) \in CellNos /\ AnyOf(s) \in s
    BY <1>4, Smaller
  <2>4. InCell(cs, i, AnyOf(s)) \in Nat
    BY <2>3, InCellNat
  <2>5. CASE AnyOf(s) = c
    BY <1>4, <2>1, <2>2, <2>3, <2>4, <2>5
  <2>6. CASE AnyOf(s) # c
    BY <1>4, <2>1, <2>2, <2>3, <2>4, <2>6
  <2> QED BY <2>5, <2>6
<1> HIDE DEF P
<1>5. CellNos \in P
  BY <1>3, <1>4, SetBySet
<1> QED BY <1>1, <1>2, <1>5 DEF P

\* what a pick into one cell does to the bag
AddsTo(ds, cs, i, n) == ds \in Bags /\ \A j \in Items : CountIn(ds, j) = CountIn(cs, j) + IF j = i THEN n ELSE 0

\* a stock pick that fits adds what it picks
LEMMA PutAdds ==
    ASSUME NEW cs \in Bags, NEW i \in Items, NEW n \in Nat, Fitting(cs, i, n) # {}
    PROVE  AddsTo(Put(cs, i, n), cs, i, n)
<1> DEFINE merge == {k \in CellNos : cs[k][1] = i /\ cs[k][2] + n =< MaxLot}
           empty == {k \in CellNos : cs[k][1] = NoItem}
           ds == Put(cs, i, n)
<1>1. \A S \in SUBSET CellNos : S # {} => Min(S) \in S
  <2> SUFFICES ASSUME NEW S \in SUBSET CellNos, S # {} PROVE Min(S) \in S
    OBVIOUS
  <2>1. S \subseteq Nat
    <3>1. CellNos = 1 .. Cardinality(CellNos)
      BY DataOK
    <3>2. \A k \in 1 .. Cardinality(CellNos) : k \in Nat
      OBVIOUS
    <3> QED BY <3>1, <3>2
  <2>2. \E m \in S : \A j \in S : m =< j
    BY <2>1, FirstNumber, Zenon
  <2> QED BY <2>2 DEF Min
<1>2. Fitting(cs, i, n) = IF merge # {} THEN {Min(merge)} ELSE IF empty # {} /\ n =< MaxLot THEN {Min(empty)} ELSE {}
  BY DEF Fitting
<1>3. merge \in SUBSET CellNos /\ empty \in SUBSET CellNos
  OBVIOUS
<1>0. \A k \in CellNos : cs[k][2] \in Nat /\ cs[k][2] =< MaxLot /\ (cs[k][1] = NoItem => cs[k][2] = 0) /\ MaxLot \in Nat
  BY DataOK DEF Bags
<1>4. PICK c \in CellNos : Fitting(cs, i, n) = {c} /\ cs[c][1] \in {i, NoItem} /\ cs[c][2] + n =< MaxLot
  <2>1. CASE merge # {}
    <3>1. Min(merge) \in merge
      BY <1>1, <1>3, <2>1, Zenon
    <3> QED BY <1>2, <2>1, <3>1
  <2>2. CASE merge = {}
    <3>1. empty # {} /\ n =< MaxLot /\ Fitting(cs, i, n) = {Min(empty)}
      BY <1>2, <2>2
    <3>2. Min(empty) \in empty
      BY <1>1, <1>3, <3>1, Zenon
    <3>3. cs[Min(empty)][2] = 0
      BY <1>0, <3>2
    <3> QED BY <3>1, <3>2, <3>3
  <2> QED BY <2>1, <2>2
<1>5. ds = [k \in CellNos |-> IF k = c THEN <<i, cs[c][2] + n>> ELSE cs[k]]
  BY <1>4 DEF Put
<1> HIDE DEF ds
<1>6. i # NoItem /\ cs[c][2] \in Nat /\ (cs[c][1] = NoItem => cs[c][2] = 0) /\ cs[c][2] + n \in 0 .. MaxLot
  BY DataOK, <1>0, <1>4
<1>7. ds \in Bags
  BY <1>5, <1>6 DEF Bags
<1>8. ASSUME NEW j \in Items PROVE CountIn(ds, j) = CountIn(cs, j) + IF j = i THEN n ELSE 0
  <2> DEFINE d == IF j = i THEN n ELSE 0
  <2>1. d \in Nat /\ j # NoItem
    BY DataOK
  <2>2. InCell(ds, j, c) = InCell(cs, j, c) + d
    BY <1>4, <1>5, <1>6, <2>1 DEF InCell
  <2>3. \A k \in CellNos \ {c} : InCell(ds, j, k) = InCell(cs, j, k)
    BY <1>5 DEF InCell
  <2> HIDE DEF d
  <2>4. CountIn(ds, j) = CountIn(cs, j) + d
    BY <1>7, <2>1, <2>2, <2>3, CountMore
  <2> QED BY <2>4 DEF d
<1> QED BY <1>7, <1>8 DEF AddsTo, ds
\* one round of Split's loop
RoomIn(k, i) == IF cells[k][1] = i THEN MaxLot - cells[k][2] ELSE 0
Round(b, k, i, fails) ==
    LET n == IF RoomIn(k, i) < b.rest THEN RoomIn(k, i) ELSE b.rest
    IN IF n = 0 \/ k \in fails \/ Fitting(b.cs, i, n) = {} THEN b ELSE [cs |-> Put(b.cs, i, n), rest |-> b.rest - n]
Rounds(f, n, i, want, fails) ==
    f = [k \in 0 .. n |-> IF k = 0 THEN [cs |-> cells, rest |-> want] ELSE Round(f[k - 1], k, i, fails)]

\* Split is its rounds, one after the other
LEMMA SplitIs ==
    ASSUME NEW i, NEW want, NEW fails
    PROVE  \E f : Rounds(f, Cardinality(CellNos), i, want, fails) /\ Split(i, want, fails) = f[Cardinality(CellNos)]
<1> DEFINE S == {n \in Nat : \E f : Rounds(f, n, i, want, fails)}
           N == Cardinality(CellNos)
           F == CHOOSE f : Rounds(f, N, i, want, fails)
<1>1. N \in Nat /\ N \in 0 .. N
  BY DataOK, FS_CardinalityType
<1>2. 0 \in S
  <2> DEFINE f == [k \in 0 .. 0 |-> [cs |-> cells, rest |-> want]]
  <2>1. \A k \in 0 .. 0 : k = 0
    OBVIOUS
  <2>2. Rounds(f, 0, i, want, fails)
    BY <2>1, Zenon DEF Rounds
  <2> QED BY <2>2
<1>3. ASSUME NEW n \in 0 .. N, n < N, n \in S PROVE n + 1 \in S
  <2>1. PICK f : Rounds(f, n, i, want, fails)
    BY <1>3
  <2>2. n \in Nat /\ n + 1 \in Nat
    BY <1>1
  <2> DEFINE g == [k \in 0 .. n + 1 |-> IF k = 0 THEN [cs |-> cells, rest |-> want] ELSE Round(f[k - 1], k, i, fails)]
  <2>3. ASSUME NEW k \in 0 .. n + 1, k # 0 PROVE g[k] = Round(g[k - 1], k, i, fails)
    <3>1. k - 1 \in 0 .. n /\ k - 1 \in 0 .. n + 1
      BY <2>2, <2>3
    <3>2. g[k - 1] = f[k - 1]
      BY <2>1, <3>1 DEF Rounds
    <3> QED BY <2>3, <3>2
  <2>4. g[0] = [cs |-> cells, rest |-> want]
    BY <2>2
  <2>5. g = [k \in 0 .. n + 1 |-> g[k]]
    OBVIOUS
  <2> HIDE DEF g
  <2>6. Rounds(g, n + 1, i, want, fails)
    BY <2>3, <2>4, <2>5 DEF Rounds
  <2> QED BY <2>2, <2>6
<1>4. N \in S
  <2> HIDE DEF S, N
  <2>1. \A n \in 0 .. N : n \in S
    BY <1>1, <1>2, <1>3, UpTo
  <2> QED BY <2>1, <1>1
<1>5. Rounds(F, N, i, want, fails)
  BY <1>4
<1>6. Split(i, want, fails) = F[N]
  BY DEF Split, Rounds, Round, RoomIn
<1> QED BY <1>5, <1>6

\* one pick after another
LEMMA AddsTwice ==
    ASSUME NEW a, NEW b, NEW c, NEW i, NEW n \in Nat, NEW m \in Nat, a \in Bags, AddsTo(b, a, i, n), AddsTo(c, b, i, m)
    PROVE  AddsTo(c, a, i, n + m)
<1>1. c \in Bags
  BY DEF AddsTo
<1>2. ASSUME NEW j \in Items PROVE CountIn(c, j) = CountIn(a, j) + IF j = i THEN n + m ELSE 0
  <2>1. CountIn(a, j) \in Nat
    BY CountNat
  <2>2. CountIn(b, j) = CountIn(a, j) + IF j = i THEN n ELSE 0
    BY DEF AddsTo
  <2>3. CountIn(c, j) = CountIn(b, j) + IF j = i THEN m ELSE 0
    BY DEF AddsTo
  <2> QED BY <2>1, <2>2, <2>3
<1> QED BY <1>1, <1>2 DEF AddsTo

\* so much of want is in the bag, the rest is not
Shared(b, i, want) == \E n \in Nat : \E m \in Nat : b.rest = m /\ n + m = want /\ AddsTo(b.cs, cells, i, n)

\* a round moves some of the rest into the bag, or none
LEMMA RoundShares ==
    ASSUME cells \in Bags, NEW b, NEW k \in CellNos, NEW i \in Items, NEW want \in Nat, NEW fails, Shared(b, i, want)
    PROVE  Shared(Round(b, k, i, fails), i, want)
<1> DEFINE n == IF RoomIn(k, i) < b.rest THEN RoomIn(k, i) ELSE b.rest
<1>1. PICK had \in Nat, left \in Nat : b.rest = left /\ had + left = want /\ AddsTo(b.cs, cells, i, had)
  BY DEF Shared
<1>2. n \in Nat /\ n =< left
  <2>1. RoomIn(k, i) \in Nat
    <3>1. cells[k] \in (Items \cup {NoItem}) \X (0 .. MaxLot)
      BY DEF Bags
    <3>2. cells[k][2] \in 0 .. MaxLot /\ MaxLot \in Nat
      BY <3>1, DataOK
    <3> QED BY <3>2 DEF RoomIn
  <2> QED BY <1>1, <2>1
<1> HIDE DEF n
<1>3. CASE n = 0 \/ k \in fails \/ Fitting(b.cs, i, n) = {}
  BY <1>3 DEF Round, n
<1>4. CASE ~(n = 0 \/ k \in fails \/ Fitting(b.cs, i, n) = {})
  <2>1. Round(b, k, i, fails) = [cs |-> Put(b.cs, i, n), rest |-> b.rest - n]
    BY <1>4 DEF Round, n
  <2>2. AddsTo(Put(b.cs, i, n), b.cs, i, n)
    BY <1>1, <1>2, <1>4, PutAdds DEF AddsTo
  <2>3. AddsTo(Put(b.cs, i, n), cells, i, had + n)
    BY <1>1, <1>2, <2>2, AddsTwice
  <2>4. left - n \in Nat /\ had + n \in Nat /\ (had + n) + (left - n) = want /\ b.rest - n = left - n
    BY <1>1, <1>2
  <2> DEFINE c == Put(b.cs, i, n)
             x == had + n
             y == left - n
  <2> HIDE DEF c, x, y
  <2>5. Round(b, k, i, fails) = [cs |-> c, rest |-> y] /\ AddsTo(c, cells, i, x) /\ x \in Nat /\ y \in Nat /\ x + y = want
    BY <2>1, <2>3, <2>4 DEF c, x, y
  <2> QED BY <2>5 DEF Shared
<1> QED BY <1>3, <1>4

\* so do all of them
LEMMA SplitShares ==
    ASSUME cells \in Bags, NEW i \in Items, NEW want \in Nat, NEW fails
    PROVE  Shared(Split(i, want, fails), i, want)
<1> DEFINE N == Cardinality(CellNos)
<1>1. N \in Nat /\ N \in 0 .. N /\ CellNos = 1 .. N
  BY DataOK, FS_CardinalityType
<1>2. PICK f : Rounds(f, N, i, want, fails) /\ Split(i, want, fails) = f[N]
  BY SplitIs
<1> DEFINE S == {k \in Nat : Shared(f[k], i, want)}
<1>3. 0 \in S
  <2>1. f[0] = [cs |-> cells, rest |-> want]
    BY <1>1, <1>2 DEF Rounds
  <2>2. AddsTo(cells, cells, i, 0)
    BY CountNat DEF AddsTo
  <2>3. f[0].rest = want /\ AddsTo(f[0].cs, cells, i, 0) /\ 0 + want = want
    BY <2>1, <2>2
  <2>4. Shared(f[0], i, want)
    BY <2>3 DEF Shared
  <2> QED BY <2>4
<1>4. ASSUME NEW k \in 0 .. N, k < N, k \in S PROVE k + 1 \in S
  <2>1. k + 1 \in 0 .. N /\ k + 1 # 0 /\ k + 1 - 1 = k /\ k + 1 \in CellNos /\ k + 1 \in Nat
    BY <1>1, <1>4
  <2>2. f[k + 1] = Round(f[k], k + 1, i, fails)
    BY <1>2, <2>1 DEF Rounds
  <2>3. Shared(f[k], i, want)
    BY <1>4
  <2>4. Shared(f[k + 1], i, want)
    BY <2>1, <2>2, <2>3, RoundShares
  <2> QED BY <2>1, <2>4
<1> HIDE DEF S, N
<1>5. \A k \in 0 .. N : k \in S
  BY <1>1, <1>3, <1>4, UpTo
<1> QED BY <1>1, <1>2, <1>5 DEF S

\* a finite set of integers has a largest one
LEMMA LargestOfAll ==
    ASSUME NEW T \in SUBSET Int, IsFiniteSet(T), T # {}
    PROVE  Max(T) \in T /\ \A y \in T : Max(T) >= y
<1> DEFINE HasMax(U) == \E m \in U : \A y \in U : m >= y
           S == {n \in Nat : \A U \in SUBSET Int : IsFiniteSet(U) /\ U # {} /\ Cardinality(U) =< n => HasMax(U)}
           N == Cardinality(T)
<1>1. N \in Nat /\ N \in 0 .. N
  BY FS_CardinalityType
<1>2. 0 \in S
  <2> SUFFICES ASSUME NEW U \in SUBSET Int, IsFiniteSet(U), U # {}, Cardinality(U) =< 0 PROVE FALSE
    OBVIOUS
  <2> QED BY FS_CardinalityType, FS_EmptySet
<1>3. ASSUME NEW n \in 0 .. N, n < N, n \in S PROVE n + 1 \in S
  <2>0. n \in Nat /\ n + 1 \in Nat
    BY <1>1
  <2>1. ASSUME NEW U \in SUBSET Int, IsFiniteSet(U), U # {}, Cardinality(U) =< n + 1 PROVE HasMax(U)
    <3>1. PICK x \in U : TRUE
      BY <2>1
    <3> DEFINE R == U \ {x}
    <3>2. IsFiniteSet(R) /\ Cardinality(R) = Cardinality(U) - 1 /\ Cardinality(U) \in Nat /\ R \in SUBSET Int /\ x \in Int
      BY <2>1, FS_RemoveElement, FS_CardinalityType
    <3>3. Cardinality(R) =< n
      BY <2>0, <2>1, <3>2
    <3>4. R # {} => HasMax(R)
      BY <1>3, <3>2, <3>3
    <3>5. CASE R = {}
      <4>1. \A y \in U : y = x
        BY <3>5
      <4> QED BY <3>2, <4>1
    <3>6. CASE R # {}
      <4>1. PICK m \in R : \A y \in R : m >= y
        BY <3>4, <3>6
      <4>2. \A y \in U : y = x \/ y \in R
        OBVIOUS
      <4>3. m \in Int /\ m \in U /\ \A y \in R : y \in Int
        BY <3>2
      <4> HIDE DEF R
      <4>4. CASE m >= x
        BY <4>1, <4>2, <4>3, <4>4
      <4>5. CASE ~(m >= x)
        <5>1. \A y \in U : x >= y
          BY <3>2, <4>1, <4>2, <4>3, <4>5
        <5> QED BY <5>1
      <4> QED BY <4>4, <4>5
    <3> QED BY <3>5, <3>6
  <2> HIDE DEF HasMax
  <2> QED BY <2>0, <2>1
<1>4. N \in S
  <2> HIDE DEF S, N
  <2>1. \A n \in 0 .. N : n \in S
    BY <1>1, <1>2, <1>3, UpTo
  <2> QED BY <2>1, <1>1
<1>5. HasMax(T)
  <2> HIDE DEF HasMax
  <2>1. N =< N
    BY <1>1
  <2> QED BY <1>4, <2>1
<1> QED BY <1>5 DEF Max

\* how many are still needed is a number, or -1 where nobody asks
LEMMA NeededNat ==
    ASSUME cells \in Bags, NEW i \in Items
    PROVE  IF Askers(i) = {} THEN StillNeeded(i) = -1 ELSE StillNeeded(i) \in Nat
<1> SUFFICES ASSUME Askers(i) # {} PROVE StillNeeded(i) \in Nat
  BY DEF StillNeeded
<1> DEFINE D == {Asks(q, i) - Have(i) : q \in Askers(i)}
           f == [q \in Askers(i) |-> Asks(q, i) - Have(i)]
<1>1. Askers(i) \in SUBSET Quests /\ IsFiniteSet(Askers(i))
  <2>1. Askers(i) \in SUBSET Quests
    BY DEF Askers, Doing
  <2> QED BY <2>1, DataOK, FS_Subset
<1>2. Have(i) \in Nat
  BY CountNat DEF Have
<1>3. \A q \in Quests : Asks(q, i) \in Nat
  BY DataOK DEF Asks
<1>4. D \in SUBSET Int
  BY <1>1, <1>2, <1>3
<1>5. f \in Surjection(Askers(i), D)
  BY DEF Surjection
<1>6. IsFiniteSet(D)
  <2> HIDE DEF f, D
  <2> QED BY <1>1, <1>5, FS_Surjection
<1> HIDE DEF D
<1>7. IsFiniteSet({0} \cup D)
  <2>1. IsFiniteSet(D \cup {0})
    BY <1>6, FS_AddElement
  <2>2. D \cup {0} = {0} \cup D
    OBVIOUS
  <2> QED BY <2>1, <2>2
<1>8. StillNeeded(i) = Max({0} \cup D)
  BY DEF StillNeeded, D
<1> DEFINE T == {0} \cup D
<1>9. T \in SUBSET Int /\ 0 \in T
  BY <1>4
<1>10. Max(T) \in T /\ \A y \in T : Max(T) >= y
  BY <1>7, <1>9, LargestOfAll
<1>11. Max(T) \in Int /\ Max(T) >= 0
  BY <1>9, <1>10
<1> QED BY <1>8, <1>11

\* what of an item a pick puts in the bag is what it takes off the ground
Picked(i, n, lot, left) ==
    /\ n \in Nat /\ AddsTo(cells', cells, i, n) /\ left = lot - n
    /\ i \in QuestItems /\ Askers(i) # {} => n =< StillNeeded(i)

\* either way of picking up
LEMMA PickUpAdds ==
    ASSUME cells \in Bags, NEW i \in Items, NEW lot \in Nat, NEW fails, NEW left, PickUp(i, lot, fails, left)
    PROVE  \E n : Picked(i, n, lot, left)
<1> DEFINE want == Wanted(i, lot)
<1>1. want \in Nat /\ want > 0 /\ (i \in QuestItems /\ Askers(i) # {} => want =< StillNeeded(i))
  <2>1. want > 0
    BY DEF PickUp
  <2>2. want = IF i \in QuestItems /\ StillNeeded(i) >= 0 /\ StillNeeded(i) < lot THEN StillNeeded(i) ELSE lot
    BY DEF Wanted
  <2>3. CASE Askers(i) = {}
    BY <2>1, <2>2, <2>3, NeededNat
  <2>4. CASE Askers(i) # {}
    <3>1. StillNeeded(i) \in Nat
      BY <2>4, NeededNat
    <3> QED BY <2>1, <2>2, <3>1
  <2> QED BY <2>3, <2>4
<1> HIDE DEF want
<1>2. CASE Fitting(cells, i, want) # {}
  <2>1. cells' = Put(cells, i, want) /\ left = lot - want
    <3>1. cells' = Put(cells, i, want) /\ left = lot - (want - 0)
      BY <1>2 DEF PickUp, LeftBehind, want
    <3> QED BY <1>1, <3>1
  <2>2. AddsTo(cells', cells, i, want)
    BY <1>1, <1>2, <2>1, PutAdds
  <2> QED BY <1>1, <2>1, <2>2 DEF Picked
<1>3. CASE Fitting(cells, i, want) = {}
  <2> DEFINE b == Split(i, want, fails)
  <2>1. cells' = b.cs /\ left = lot - (want - b.rest)
    BY <1>3 DEF PickUp, LeftBehind, want
  <2>2. Shared(b, i, want)
    BY <1>1, SplitShares
  <2> HIDE DEF b
  <2>3. PICK n \in Nat, m \in Nat : b.rest = m /\ n + m = want /\ AddsTo(b.cs, cells, i, n)
    BY <2>2 DEF Shared
  <2>4. left = lot - n /\ n =< want
    BY <1>1, <2>1, <2>3
  <2>5. i \in QuestItems /\ Askers(i) # {} => n =< StillNeeded(i)
    <3>1. Askers(i) # {} => StillNeeded(i) \in Nat
      BY NeededNat
    <3> QED BY <1>1, <2>4, <3>1
  <2> QED BY <2>1, <2>3, <2>4, <2>5 DEF Picked
<1> QED BY <1>2, <1>3
-----------------------------------------------------------------------------
(* The bag, the ground and the counters of the book. *)

BagTyped ==
    /\ cells \in Bags /\ single \in [Items -> Nat] /\ stack \in (Items \X Nat) \cup {<<NoItem, 0>>}
    /\ cnt = [q \in Quests |-> cnt[q]] /\ ext = [q \in Quests |-> ext[q]]

\* what PicksAreExact asks of a step, for one item
ExactFor(i) ==
    CountIn(cells', i) > Have(i) =>
        /\ CountIn(cells', i) + OnGroundNow(i) = Have(i) + OnGround(i)
        /\ i \in QuestItems /\ Askers(i) # {} => CountIn(cells', i) =< Have(i) + StillNeeded(i)
BagStep == BagTyped' /\ \A i \in Items : ExactFor(i)

\* no item is added where cells are emptied or left alone
LEMMA NothingAdded ==
    ASSUME cells \in Bags, NEW ds, ds = [k \in CellNos |-> ds[k]], \A k \in CellNos : ds[k] = cells[k] \/ ds[k] = <<NoItem, 0>>
    PROVE  ds \in Bags /\ \A i \in Items : ~(CountIn(ds, i) > Have(i))
<1>1. <<NoItem, 0>> \in (Items \cup {NoItem}) \X (0 .. MaxLot) /\ NoItem \notin Items
  BY DataOK
<1>2. ds \in Bags
  <2>1. \A k \in CellNos : ds[k] \in (Items \cup {NoItem}) \X (0 .. MaxLot) /\ (ds[k][1] = NoItem => ds[k][2] = 0)
    BY <1>1 DEF Bags
  <2> QED BY <2>1 DEF Bags
<1>3. ASSUME NEW i \in Items PROVE ~(CountIn(ds, i) > Have(i))
  <2>1. ASSUME NEW k \in CellNos PROVE InCell(ds, i, k) =< InCell(cells, i, k)
    <3>1. InCell(cells, i, k) \in Nat
      BY InCellNat
    <3>2. ds[k] = <<NoItem, 0>> => InCell(ds, i, k) = 0
      BY <1>1 DEF InCell
    <3> QED BY <3>1, <3>2 DEF InCell
  <2>2. CountIn(ds, i) =< CountIn(cells, i)
    BY <1>2, <2>1, CountLess
  <2> QED BY <1>2, <2>2, CountNat DEF Have
<1> QED BY <1>2, <1>3

\* a pick of i whose rest is where the rest belongs
LEMMA PickedExact ==
    ASSUME BagTyped, NEW i \in Items, NEW n, NEW lot \in Nat, NEW left \in Nat, Picked(i, n, lot, left),
           OnGround(i) = OnGroundNow(i) + lot - left, OnGround(i) \in Nat, OnGroundNow(i) \in Nat
    PROVE  cells' \in Bags /\ \A j \in Items : ExactFor(j)
<1>1. cells' \in Bags /\ n \in Nat /\ left = lot - n
  BY DEF Picked, AddsTo
<1>2. ASSUME NEW j \in Items PROVE CountIn(cells', j) = Have(j) + IF j = i THEN n ELSE 0
  BY DEF Picked, AddsTo, Have
<1>3. ASSUME NEW j \in Items PROVE ExactFor(j)
  <2>1. Have(j) \in Nat
    BY CountNat DEF Have, BagTyped
  <2>2. CASE j # i
    <3>1. CountIn(cells', j) = Have(j)
      BY <1>2, <2>1, <2>2
    <3> QED BY <2>1, <3>1 DEF ExactFor
  <2>3. CASE j = i
    <3>1. CountIn(cells', i) = Have(i) + n
      BY <1>2
    <3>2. CountIn(cells', i) + OnGroundNow(i) = Have(i) + OnGround(i)
      BY <1>1, <2>1, <2>3, <3>1
    <3>3. i \in QuestItems /\ Askers(i) # {} => CountIn(cells', i) =< Have(i) + StillNeeded(i)
      <4>1. Askers(i) # {} => StillNeeded(i) \in Nat
        BY NeededNat DEF BagTyped
      <4>2. i \in QuestItems /\ Askers(i) # {} => n =< StillNeeded(i)
        BY DEF Picked
      <4> QED BY <1>1, <2>1, <2>3, <3>1, <4>1, <4>2
    <3> QED BY <2>3, <3>2, <3>3 DEF ExactFor
  <2> QED BY <2>2, <2>3
<1> QED BY <1>1, <1>3

LEMMA PickSingleSteps ==
    ASSUME BagTyped, NEW i \in Items, PickSingle(i)
    PROVE  BagStep
<1>1. PICK left \in 0 .. 1 : PickUp(i, 1, {}, left) /\ single' = [single EXCEPT ![i] = @ - 1 + left]
  BY DEF PickSingle
<1>2. PICK n : Picked(i, n, 1, left)
  BY <1>1, PickUpAdds DEF BagTyped
<1>3. single[i] \in Nat /\ single[i] > 0 /\ stack' = stack /\ left \in Nat
  BY DEF PickSingle, BagTyped
<1>4. single'[i] = single[i] - 1 + left /\ single' \in [Items -> Nat]
  BY <1>1, <1>3 DEF BagTyped
<1>5. (IF stack[1] = i THEN stack[2] ELSE 0) \in Nat
  BY DEF BagTyped
<1>6. OnGround(i) = OnGroundNow(i) + 1 - left /\ OnGround(i) \in Nat /\ OnGroundNow(i) \in Nat
  BY <1>3, <1>4, <1>5 DEF OnGround, OnGroundNow
<1>7. cells' \in Bags /\ \A j \in Items : ExactFor(j)
  BY <1>2, <1>3, <1>6, PickedExact
<1>8. UNCHANGED <<cnt, ext, stack>>
  BY DEF PickSingle, recordVars
<1> QED BY <1>4, <1>7, <1>8 DEF BagStep, BagTyped

LEMMA PickStackSteps ==
    ASSUME BagTyped, NEW fails, PickStack(fails)
    PROVE  BagStep
<1>1. PICK left \in 0 .. stack[2] : PickUp(stack[1], stack[2], fails, left) /\ stack' = IF left = 0 THEN <<NoItem, 0>> ELSE <<stack[1], left>>
  BY DEF PickStack
<1>2. PICK i \in Items, lot \in Nat : stack = <<i, lot>> /\ stack[1] = i /\ stack[2] = lot
  <2>1. stack # <<NoItem, 0>>
    BY DEF PickStack
  <2> QED BY <2>1 DEF BagTyped
<1>3. left \in Nat /\ NoItem # i
  BY <1>1, <1>2, DataOK
<1>4. PICK n : Picked(i, n, lot, left)
  BY <1>1, <1>2, PickUpAdds DEF BagTyped
<1>5. UNCHANGED <<cnt, ext, single>> /\ single[i] \in Nat
  BY DEF PickStack, recordVars, BagTyped
<1>6. stack' \in (Items \X Nat) \cup {<<NoItem, 0>>}
  BY <1>1, <1>2, <1>3
<1>7. OnGround(i) = single[i] + lot /\ OnGroundNow(i) = single[i] + left
  BY <1>1, <1>2, <1>3, <1>5 DEF OnGround, OnGroundNow
<1>8. cells' \in Bags /\ \A j \in Items : ExactFor(j)
  BY <1>3, <1>4, <1>5, <1>7, PickedExact
<1> QED BY <1>5, <1>6, <1>8 DEF BagStep, BagTyped

\* every other step empties cells or leaves them alone, and keeps the counters of every record
LEMMA BagSteps ==
    ASSUME BagTyped, [Next]_vars
    PROVE  BagStep
<1> USE DEF recordVars, groundVars
<1> DEFINE Cells == cells' = [k \in CellNos |-> cells'[k]] /\ \A k \in CellNos : cells'[k] = cells[k] \/ cells'[k] = <<NoItem, 0>>
           Rest == /\ single' \in [Items -> Nat] /\ stack' \in (Items \X Nat) \cup {<<NoItem, 0>>}
                   /\ cnt' = [q \in Quests |-> cnt'[q]] /\ ext' = [q \in Quests |-> ext'[q]]
<1>1. ASSUME Cells, Rest PROVE BagStep
  <2> DEFINE ds == cells'
  <2>1. cells \in Bags /\ ds = [k \in CellNos |-> ds[k]] /\ \A k \in CellNos : ds[k] = cells[k] \/ ds[k] = <<NoItem, 0>>
    BY <1>1 DEF BagTyped
  <2>2. ds \in Bags /\ \A i \in Items : ~(CountIn(ds, i) > Have(i))
    <3> HIDE DEF ds
    <3> QED BY <2>1, NothingAdded
  <2> QED BY <1>1, <2>2 DEF BagStep, BagTyped, ExactFor
<1>2. cells' = cells => Cells
  BY DEF BagTyped, Bags
<1>3. UNCHANGED <<single, stack, cnt, ext>> => Rest
  BY DEF BagTyped
<1> HIDE DEF Cells
<1>4. CASE UNCHANGED vars
  BY <1>1, <1>2, <1>3, <1>4 DEF vars
<1>5. ASSUME NEW q \in Quests, Track(q) \/ Untrack(q) PROVE BagStep
  BY <1>1, <1>2, <1>3, <1>5 DEF Track, Untrack
<1>6. ASSUME NEW q \in Quests, Accept(q) PROVE BagStep
  <2>1. Rest
    BY <1>6 DEF Accept, BagTyped
  <2> QED BY <1>1, <1>2, <1>6, <2>1 DEF Accept
<1>7. ASSUME NEW q \in Quests, HandIn(q) PROVE BagStep
  <2>1. Cells
    <3>1. cells' = [k \in CellNos |-> IF cells[k][1] # NoItem /\ Asks(q, cells[k][1]) > 0 THEN <<NoItem, 0>> ELSE cells[k]]
      BY <1>7 DEF HandIn
    <3> QED BY <3>1 DEF Cells
  <2> QED BY <1>1, <1>3, <1>7, <2>1 DEF HandIn
<1>8. ASSUME NEW q \in Quests, TimeOut(q) \/ StockUpdate(q) \/ AckMissed(q) PROVE BagStep
  BY <1>1, <1>2, <1>3, <1>8 DEF TimeOut, StockUpdate, AckMissed
<1>9. ASSUME NEW m \in Mobs, NEW party \in BOOLEAN, Kill(m, party) PROVE BagStep
  <2>1. single' \in [Items -> 0 .. MaxGround] /\ UNCHANGED <<cells, stack>>
    BY <1>9 DEF Kill
  <2>2. single' \in [Items -> Nat]
    BY <2>1
  <2>3. cnt' = [q \in Quests |-> cnt'[q]] /\ ext' = [q \in Quests |-> ext'[q]]
    BY <1>9 DEF Kill
  <2>4. Rest
    BY <2>1, <2>2, <2>3 DEF BagTyped
  <2> QED BY <1>1, <1>2, <2>1, <2>4
<1>10. ASSUME NEW m \in Mobs, NEW q \in Quests, KillExact(m, q) PROVE BagStep
  <2>1. Rest
    BY <1>10 DEF KillExact, BagTyped
  <2> QED BY <1>1, <1>2, <1>10, <2>1 DEF KillExact
<1>11. ASSUME NEW q \in Quests, TakeItems(q, st') PROVE Cells
  BY <1>11 DEF TakeItems, Cells
<1>12. ASSUME NEW q \in Quests, GiveUp(q) PROVE BagStep
  <2>1. Rest
    BY <1>12 DEF GiveUp, BagTyped
  <2> QED BY <1>1, <1>2, <1>11, <1>12, <2>1 DEF GiveUp
<1>13. ASSUME NEW q \in Quests, NEW ok \in BOOLEAN, DbAck(q, ok) PROVE BagStep
  BY <1>1, <1>2, <1>3, <1>11, <1>13 DEF DbAck, TakeOnAck
<1>14. ASSUME NEW i \in Items, NEW lot \in 1 .. MaxStack, DropStack(i, lot) PROVE BagStep
  <2>1. lot \in Nat
    OBVIOUS
  <2>2. Rest
    BY <1>14, <2>1 DEF DropStack, BagTyped
  <2> QED BY <1>1, <1>2, <1>14, <2>2 DEF DropStack
<1>15. CASE LogOut
  <2>1. Rest
    BY <1>15 DEF LogOut, BagTyped
  <2> QED BY <1>1, <1>2, <1>15, <2>1 DEF LogOut
<1>16. CASE LogIn
  BY <1>1, <1>2, <1>3, <1>16 DEF LogIn
<1> QED
  BY <1>4, <1>5, <1>6, <1>7, <1>8, <1>9, <1>10, <1>12, <1>13, <1>14, <1>15, <1>16, PickSingleSteps, PickStackSteps DEF Next

\* a quest is ready only with every row counted, one that only asks for kills as soon as they are
Complete(q, s, c, x) ==
    LET done == Full(Kills(q), c) /\ Full(ExtrasOf(q), x) IN
    /\ s = "ready" => done
    /\ s = "doing" /\ done => Kills(q) = <<>> \/ \E i \in Items : Asks(q, i) > 0

\* a new record has kills to count
LEMMA ZerosComplete ==
    ASSUME NEW q \in Quests, NEW x
    PROVE  Complete(q, "doing", Zeros(Kills(q)), x)
<1> SUFFICES ASSUME Kills(q) # <<>>, Full(Kills(q), Zeros(Kills(q))) PROVE FALSE
  BY DEF Complete
<1>1. Kills(q) \in Seq((Mobs \cup {AnyMob}) \X (Nat \ {0}))
  BY DataOK DEF Kills
<1>2. 1 \in DOMAIN Kills(q) /\ Kills(q)[1] \in (Mobs \cup {AnyMob}) \X (Nat \ {0})
  BY <1>1
<1>3. Zeros(Kills(q))[1] = 0 /\ Kills(q)[1][2] \in Nat \ {0}
  BY <1>2 DEF Zeros
<1>4. 0 >= Kills(q)[1][2]
  BY <1>2, <1>3 DEF Full
<1> QED BY <1>3, <1>4

\* the status is stepped with the counters
LEMMA KilledComplete ==
    ASSUME cells \in Bags, NEW q \in Quests, NEW m, NEW c, NEW x, NEW s,
           Killed(q, m, c, x) => s = "ready", s = "ready" => Killed(q, m, c, x)
    PROVE  Complete(q, s, c, x)
<1>1. Killed(q, m, c, x) <=> Full(Kills(q), c) /\ Full(ExtrasOf(q), x) /\ \A i \in Items : CountIn(cells, i) >= Asks(q, i)
  BY DEF Killed, Rewardable, StockRewardable
<1>2. CASE s = "ready"
  BY <1>1, <1>2 DEF Complete
<1>3. CASE s # "ready"
  <2> SUFFICES ASSUME Full(Kills(q), c), Full(ExtrasOf(q), x) PROVE \E i \in Items : Asks(q, i) > 0
    BY <1>3 DEF Complete
  <2>1. PICK i \in Items : ~(CountIn(cells, i) >= Asks(q, i))
    BY <1>1, <1>3
  <2>2. CountIn(cells, i) \in Nat /\ Asks(q, i) \in Nat
    BY CountNat, DataOK DEF Asks
  <2> QED BY <2>1, <2>2
<1> QED BY <1>2, <1>3

Completed == \A q \in Quests : Complete(q, st[q], cnt[q], ext[q])

LEMMA CompleteSteps ==
    ASSUME BookInv, BagTyped, Completed, [Next]_vars
    PROVE  Completed'
<1> SUFFICES ASSUME NEW q \in Quests PROVE Complete(q, st'[q], cnt'[q], ext'[q])
  BY DEF Completed
<1> USE DEF recordVars, groundVars
<1>1. Complete(q, st[q], cnt[q], ext[q]) /\ cells \in Bags
  BY DEF Completed, BagTyped
<1>2. st = [p \in Quests |-> st[p]] /\ cnt = [p \in Quests |-> cnt[p]] /\ ext = [p \in Quests |-> ext[p]]
  BY DEF BookInv, BagTyped
<1> DEFINE Same == st'[q] = st[q] /\ cnt'[q] = cnt[q] /\ ext'[q] = ext[q]
           Past == st'[q] \notin {"ready", "doing"}
<1>3. Same => Complete(q, st'[q], cnt'[q], ext'[q])
  BY <1>1
<1>4. Past => Complete(q, st'[q], cnt'[q], ext'[q])
  BY DEF Complete
<1> HIDE DEF Past
<1>5. CASE UNCHANGED vars
  BY <1>3, <1>5 DEF vars
<1>6. ASSUME NEW p \in Quests, Track(p) \/ Untrack(p) PROVE Same
  BY <1>6 DEF Track, Untrack
<1>7. ASSUME NEW p \in Quests, Accept(p) PROVE Complete(q, st'[q], cnt'[q], ext'[q])
  <2>1. CASE p = q
    <3>1. st'[q] = "doing" /\ cnt'[q] = Zeros(Kills(q))
      BY <1>2, <1>7, <2>1, Zenon DEF Accept
    <3> QED BY <3>1, ZerosComplete
  <2>2. CASE p # q
    <3>1. Same
      BY <1>2, <1>7, <2>2, Zenon DEF Accept
    <3> QED BY <1>3, <3>1
  <2> QED BY <2>1, <2>2
<1>8. ASSUME NEW p \in Quests, HandIn(p) \/ TimeOut(p) \/ AckMissed(p) PROVE Same \/ Past
  <2>1. UNCHANGED <<cnt, ext>>
    BY <1>8 DEF HandIn, TimeOut, AckMissed
  <2>2. st'[q] = st[q] \/ st'[q] \in {"again", "done", "failed", "gone"}
    BY <1>2, <1>8 DEF HandIn, TimeOut, AckMissed
  <2> QED BY <2>1, <2>2 DEF Past
<1>9. ASSUME NEW p \in Quests, StockUpdate(p) PROVE Complete(q, st'[q], cnt'[q], ext'[q])
  <2>1. UNCHANGED <<cnt, ext>> /\ st' = [st EXCEPT ![p] = "ready"] /\ Rewardable(p, cnt[p], ext[p], cells)
    BY <1>9 DEF StockUpdate
  <2>2. CASE p = q
    <3>1. st'[q] = "ready" /\ cnt'[q] = cnt[q] /\ ext'[q] = ext[q]
      BY <1>2, <2>1, <2>2
    <3> QED BY <2>1, <2>2, <3>1 DEF Complete, Rewardable, StockRewardable
  <2>3. CASE p # q
    BY <1>2, <1>3, <2>1, <2>3
  <2> QED BY <2>2, <2>3
<1>10. ASSUME NEW m \in Mobs, NEW party \in BOOLEAN, Kill(m, party) PROVE Complete(q, st'[q], cnt'[q], ext'[q])
  <2> DEFINE hit == {p \in Quests : Counts(p, party)}
             moved == cnt'[q] # cnt[q] \/ ext'[q] # ext[q]
  <2>1. /\ q \notin hit => cnt'[q] = cnt[q] /\ ext'[q] = ext[q]
        /\ st'[q] = IF q \in hit /\ moved /\ Killed(q, m, cnt'[q], ext'[q]) THEN "ready" ELSE st[q]
    BY <1>10 DEF Kill
  <2>2. q \in hit => st[q] = "doing"
    BY DEF Counts
  <2>3. CASE q \in hit /\ moved
    <3>1. (st'[q] = "ready") <=> Killed(q, m, cnt'[q], ext'[q])
      BY <2>1, <2>2, <2>3
    <3> QED BY <1>1, <3>1, KilledComplete
  <2>4. CASE ~(q \in hit /\ moved)
    BY <1>3, <2>1, <2>4
  <2> QED BY <2>3, <2>4
<1>11. ASSUME NEW m \in Mobs, NEW p \in Quests, KillExact(m, p) PROVE Complete(q, st'[q], cnt'[q], ext'[q])
  <2> DEFINE c == Counted(Kills(p), cnt[p], {m})
             x == Counted(ExtrasOf(p), ext[p], {m})
  <2>1. /\ st[p] = "doing" /\ cnt' = [cnt EXCEPT ![p] = c] /\ ext' = [ext EXCEPT ![p] = x]
        /\ st' = [st EXCEPT ![p] = IF (c # cnt[p] \/ x # ext[p]) /\ Killed(p, m, c, x) THEN "ready" ELSE @]
    BY <1>11 DEF KillExact
  <2> HIDE DEF c, x
  <2>2. CASE p # q
    BY <1>2, <1>3, <2>1, <2>2
  <2>3. CASE p = q
    <3>1. cnt'[q] = c /\ ext'[q] = x
      BY <1>2, <2>1, <2>3
    <3>2. st'[q] = IF (c # cnt[q] \/ x # ext[q]) /\ Killed(q, m, c, x) THEN "ready" ELSE "doing"
      BY <1>2, <2>1, <2>3
    <3>3. CASE c # cnt[q] \/ x # ext[q]
      <4>1. (st'[q] = "ready") <=> Killed(q, m, c, x)
        BY <3>2, <3>3
      <4> QED BY <1>1, <3>1, <4>1, KilledComplete
    <3>4. CASE ~(c # cnt[q] \/ x # ext[q])
      BY <1>3, <2>1, <2>3, <3>1, <3>2, <3>4
    <3> QED BY <3>3, <3>4
  <2> QED BY <2>2, <2>3
<1>12. ASSUME NEW p \in Quests, GiveUp(p) PROVE Same \/ Past
  <2>1. CASE p = q
    BY <1>2, <1>12, <2>1 DEF GiveUp, Past
  <2>2. CASE p # q
    BY <1>2, <1>12, <2>2 DEF GiveUp
  <2> QED BY <2>1, <2>2
<1>13. ASSUME NEW p \in Quests, NEW ok \in BOOLEAN, DbAck(p, ok) PROVE Same \/ Past
  <2>1. UNCHANGED <<cnt, ext>> /\ (st'[q] = st[q] \/ st'[q] = "gone")
    BY <1>2, <1>13 DEF DbAck
  <2> QED BY <2>1 DEF Past
<1>14. ASSUME \/ \E i \in Items : PickSingle(i)
              \/ \E fails \in SUBSET CellNos : PickStack(fails)
              \/ \E i \in Items, lot \in 1 .. MaxStack : DropStack(i, lot)
              \/ LogOut \/ LogIn
       PROVE  Same
  BY <1>14 DEF PickSingle, PickStack, DropStack, LogOut, LogIn
<1> HIDE DEF Same
<1> QED
  BY <1>3, <1>4, <1>5, <1>6, <1>7, <1>8, <1>9, <1>10, <1>11, <1>12, <1>13, <1>14 DEF Next

\* the book whole: its tracker, its bag and its records
PlayInv == BookInv /\ BagTyped /\ Completed

LEMMA PlayInvInit == PlayInit => PlayInv
<1> SUFFICES ASSUME Init PROVE BagTyped /\ Completed
  BY BookInit DEF PlayInit, PlayInv
<1>1. cells \in Bags
  <2>1. <<NoItem, 0>> \in (Items \cup {NoItem}) \X (0 .. MaxLot)
    BY DataOK
  <2> QED BY <2>1 DEF Init, Bags
<1>2. BagTyped
  BY <1>1 DEF Init, BagTyped
<1>3. Completed
  BY DEF Init, Completed, Complete
<1> QED BY <1>2, <1>3

LEMMA PlayInvNext == PlayInv /\ [PlayNext]_<<part, vars, rewardVars>> => PlayInv' /\ \A i \in Items : ExactFor(i)
  BY PlayIsBook, BookNext, BagSteps, CompleteSteps DEF PlayInv, BagStep

\* The tracker agrees with the records, and a quest is ready only when the rows past the five counters are counted too and
\* one that asks for kills alone is ready as soon as they all are, for any quests, rows, items and bag (quest_ext's
\* npc_mob_kill, kill_exact and rewardable).
THEOREM TheBookIsRight == PlaySpec => []BookIsRight
<1>1. PlayInv => BookIsRight
  BY DEF PlayInv, BookInv, Completed, Complete, BookIsRight, ReadyIsComplete
<1>2. PlayInv /\ [PlayNext]_<<part, vars, rewardVars>> => PlayInv'
  BY PlayInvNext
<1> QED BY <1>1, <1>2, PlayInvInit, PTL DEF PlaySpec

\* Picking up neither makes nor loses an item, in one part or several of which some fail, and takes of a quest item no more
\* than the quests in progress still ask for, for any bag, stacks and quests (quest_item_enough's pickup, cell_rooms and
\* pick_part).
THEOREM PicksLoseNothing == PlaySpec => PicksAreExact
<1> DEFINE Step == cells' # cells => \A i \in Items : ExactFor(i)
<1>1. PlayInv /\ [PlayNext]_<<part, vars, rewardVars>> => [Step]_vars
  BY PlayInvNext
<1>2. PlayInv /\ [PlayNext]_<<part, vars, rewardVars>> => PlayInv'
  BY PlayInvNext
<1> QED BY <1>1, <1>2, PlayInvInit, PTL DEF PlaySpec, PicksAreExact, ExactFor
=============================================================================
