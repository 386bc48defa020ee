------------------------------ MODULE QuestBook ------------------------------
(***************************************************************************)
(* One player's quests on the zone with the plugins that work on them:     *)
(* quest_track (the pinned quests), quest_abandon (giving up takes the     *)
(* items), quest_ext (rows past QUEST_DATA's fixed arrays),                *)
(* quest_item_enough (partial pick-up), quest_limit and quest_any_mob.     *)
(* What Zone.exe does around them is marked stock.                         *)
(*                                                                         *)
(* The zone runs a handler to its end before the next one, so a handler is *)
(* one step; what lies between two steps is the wait for Character's       *)
(* answer, the items on the ground, and the player logging out.            *)
(***************************************************************************)
EXTENDS Integers, FiniteSets, Sequences, FiniteSetsExt

CONSTANTS
    Quests, Mobs, Items,
    AnyMob,         \* a target that matches every mob: 0xFFFE
    QuestData,      \* quest -> what the tables say of it
    QuestItems,     \* items of sort IS_QUEST
    kSlots,         \* 5 in the code: how many quests can be pinned
    EndSlots,       \* 5 in the code: rows of End.NPCMobList
    Limit,          \* quests in progress at once
    MaxLot, CellNos, \* the bag: its cells and what one holds of an item
    MaxGround,      \* bound: dropped single items of a kind
    MaxStack,       \* bound: the lot of a stack
    MaxAsks         \* bound: give-up requests under way for a quest

\* QuestData[q] has the fields
\*   repeat, timed, party : BOOLEAN
\*   acts  : the kill -> drop rows in QUEST_DATA, as <<mob, item, min, max>>
\*   rows  : the same of the 2026 table, those in acts included
\*   asks  : item -> how many the hand-in takes
\*   kills : the kill rows in the End list, as <<mob, count>>; load_end_npcs keeps the rows with a count only
\*   ends  : the 2026 kill rows, those in kills included, in file order
kExtraSlots == 2
NoItem == "nothing"

ASSUME DataOK ==
    /\ kSlots \in Nat /\ EndSlots \in Nat /\ MaxLot \in Nat \ {0}
    /\ IsFiniteSet(CellNos) /\ CellNos = 1 .. Cardinality(CellNos)
    /\ IsFiniteSet(Quests) /\ NoItem \notin QuestItems \cup Items
    /\ \A q \in Quests : /\ QuestData[q].asks \in [Items -> Nat]
                          /\ QuestData[q].kills \in Seq((Mobs \cup {AnyMob}) \X (Nat \ {0}))
                          /\ Len(QuestData[q].kills) =< EndSlots

VARIABLES
    st,       \* quest -> Status of its record
    bit,      \* quest -> bit 7 of record + 0x1D: TRACKED
    cnt,      \* quest -> End_NPCMobCount, one counter per End row
    ext,      \* quest -> the two bytes of End_RunningTimeSec
    cells,    \* bag cell -> <<item, lot>>
    single,   \* item -> quest-flagged drops of one on the ground
    stack,    \* <<item, lot>>: a stack of a normal drop group on the ground
    giveups,  \* quest -> give-up requests Character has not answered
    online,   \* the player is on this zone
    shown     \* the quests the client's tracker shows
vars == <<st, bit, cnt, ext, cells, single, stack, giveups, online, shown>>

groundVars == <<single, stack>>
recordVars == <<st, bit, cnt, ext>>
-----------------------------------------------------------------------------
(* The tables and the records. *)

Active(s) == s \in {"doing", "failed", "ready"}
Kills(q) == QuestData[q].kills
Asks(q, i) == QuestData[q].asks[i]
Drops(q) == {r[2] : r \in QuestData[q].acts \cup QuestData[q].rows}
Uses(q, i) == Asks(q, i) > 0 \/ i \in Drops(q)

\* mdb_IsSpeciesDistanceByQuest with quest_any_mob in front; a species is one mob here
Species(target, m) == target = AnyMob \/ target = m

NotHeld(q) == SelectSeq(QuestData[q].ends, LAMBDA r : \A k \in DOMAIN Kills(q) : Kills(q)[k] # r)
ExtrasOf(q) == IF QuestData[q].timed \/ Len(QuestData[q].ends) =< EndSlots THEN <<>>
               ELSE SubSeq(NotHeld(q), 1, IF Len(NotHeld(q)) < kExtraSlots THEN Len(NotHeld(q)) ELSE kExtraSlots)

Full(rows, counters) == \A k \in DOMAIN rows : counters[k] >= rows[k][2]
Zeros(rows) == [k \in DOMAIN rows |-> 0]
\* one more where a row's mob is a target the kill matches, never past the row's count
Counted(rows, counters, targets) ==
    [k \in DOMAIN rows |-> IF rows[k][1] \in targets /\ counters[k] < rows[k][2] THEN counters[k] + 1 ELSE counters[k]]

CountIn(cs, i) == MapThenSumSet(LAMBDA k : IF cs[k][1] = i THEN cs[k][2] ELSE 0, CellNos)
Have(i) == CountIn(cells, i)
StockRewardable(q, c, cs) == Full(Kills(q), c) /\ \A i \in Items : CountIn(cs, i) >= Asks(q, i)

\* mutated: the extra rows are not asked for
RewardableByRecord(q, c, x, cs) == StockRewardable(q, c, cs)
Rewardable(q, c, x, cs) == StockRewardable(q, c, cs) /\ Full(ExtrasOf(q), x)

Pinned(s, b) == {q \in Quests : Active(s[q]) /\ b[q]}
-----------------------------------------------------------------------------
(* quest_track *)

\* mutated: the slots are counted one too far
TrackOneMore(q) ==
    /\ online /\ Active(st[q]) /\ ~bit[q] /\ Cardinality(Pinned(st, bit)) =< kSlots
    /\ bit' = [bit EXCEPT ![q] = TRUE] /\ shown' = shown \cup {q}
    /\ UNCHANGED <<st, cnt, ext, cells, groundVars, giveups, online>>

Track(q) ==   \* a request with a free slot; the other answers change no record
    /\ online /\ Active(st[q]) /\ ~bit[q] /\ Cardinality(Pinned(st, bit)) < kSlots
    /\ bit' = [bit EXCEPT ![q] = TRUE] /\ shown' = shown \cup {q}
    /\ UNCHANGED <<st, cnt, ext, cells, groundVars, giveups, online>>

Untrack(q) ==
    /\ online /\ st[q] # "none"
    /\ bit' = [bit EXCEPT ![q] = FALSE] /\ shown' = shown \ {q}
    /\ UNCHANGED <<st, cnt, ext, cells, groundVars, giveups, online>>

\* mutated: a quest that is handed in keeps its bit
UnpinnedNot(q) == UNCHANGED <<bit, shown>>
\* set_done: the bit goes before the stock call, the client is told after it
Unpinned(q) == bit' = [bit EXCEPT ![q] = FALSE] /\ shown' = IF bit[q] THEN shown \ {q} ELSE shown
-----------------------------------------------------------------------------
(* stock: accepting, handing in, failing; with quest_limit's compare *)

Accept(q) ==
    /\ online /\ st[q] \in {"none", "gone", "cleared", "again"}
    /\ Cardinality({p \in Quests : Active(st[p])}) < Limit
    /\ st' = [st EXCEPT ![q] = "doing"]
    /\ cnt' = [cnt EXCEPT ![q] = Zeros(Kills(q))] /\ ext' = [ext EXCEPT ![q] = Zeros(ExtrasOf(q))]
    /\ UNCHANGED <<bit, cells, groundVars, giveups, online, shown>>

\* the END script takes every copy of what the quest asked for
HandIn(q) ==
    /\ online /\ st[q] = "ready" /\ Rewardable(q, cnt[q], ext[q], cells)
    /\ st' = [st EXCEPT ![q] = IF QuestData[q].repeat THEN "again" ELSE "done"]
    /\ Unpinned(q)
    /\ cells' = [k \in CellNos |-> IF cells[k][1] # NoItem /\ Asks(q, cells[k][1]) > 0 THEN <<NoItem, 0>> ELSE cells[k]]
    /\ UNCHANGED <<cnt, ext, groundVars, giveups, online>>

TimeOut(q) ==
    /\ online /\ st[q] = "doing" /\ QuestData[q].timed
    /\ st' = [st EXCEPT ![q] = "failed"]
    /\ UNCHANGED <<bit, cnt, ext, cells, groundVars, giveups, online, shown>>

\* DoingQuestUpdateStatus on the zone's own occasions
StockUpdate(q) ==
    /\ online /\ st[q] = "doing" /\ Rewardable(q, cnt[q], ext[q], cells)
    /\ st' = [st EXCEPT ![q] = "ready"]
    /\ UNCHANGED <<bit, cnt, ext, cells, groundVars, giveups, online, shown>>
-----------------------------------------------------------------------------
(* a kill: the stock loop over the records, then quest_ext's rows *)

Counts(q, party) == st[q] = "doing" /\ party = QuestData[q].party

\* how many one row may put on the ground: stock rolls min..max (quest_drop_max), quest_ext never reaches max
Rolled(q, r, m, top) ==
    IF ~Species(r[1], m) \/ Have(r[2]) >= Asks(q, r[2]) THEN {0}
    ELSE {0} \cup {IF n > Asks(q, r[2]) - Have(r[2]) THEN Asks(q, r[2]) - Have(r[2]) ELSE n : n \in r[3] .. top}
StockRoll(q, r, m) == Rolled(q, r, m, r[4])
ExtRoll(q, r, m) == Rolled(q, r, m, IF r[4] > r[3] THEN r[4] - 1 ELSE r[4])
\* in_quest_data: a row the record holds is rolled by the stock loop
OwnRows(q) == QuestData[q].rows \ QuestData[q].acts

\* mutated: quest_ext counts its rows and leaves the status as the stock loop left it
KilledNoUpdate(q, m, c, x) == StockRewardable(q, c, cells) /\ Full(ExtrasOf(q), ext[q])
\* the status after both: quest_ext steps it again when one of its counters moved
Killed(q, m, c, x) == Rewardable(q, c, x, cells)

Kill(m, party) ==
    LET hit == {q \in Quests : Counts(q, party)}
        targets == {t \in Mobs \cup {AnyMob} : Species(t, m)}
        c == [q \in Quests |-> IF q \in hit THEN Counted(Kills(q), cnt[q], targets) ELSE cnt[q]]
        x == [q \in Quests |-> IF q \in hit THEN Counted(ExtrasOf(q), ext[q], targets) ELSE ext[q]]
    IN
    /\ online
    /\ cnt' = c /\ ext' = x
    /\ st' = [q \in Quests |-> IF q \in hit /\ (c[q] # cnt[q] \/ x[q] # ext[q]) /\ Killed(q, m, c[q], x[q])
                               THEN "ready" ELSE st[q]]
    /\ single' \in [Items -> 0 .. MaxGround]
    /\ \A i \in Items : \/ single'[i] = single[i]
                        \/ \E q \in hit :
                             \/ \E r \in QuestData[q].acts : r[2] = i /\ single'[i] - single[i] \in StockRoll(q, r, m)
                             \/ \E r \in OwnRows(q) : r[2] = i /\ single'[i] - single[i] \in ExtRoll(q, r, m)
    /\ UNCHANGED <<bit, cells, stack, giveups, online, shown>>

\* CQuest::QuestPlayer_NPCMobKill(mob, quest): one quest, the exact mob
KillExact(m, q) ==
    LET c == Counted(Kills(q), cnt[q], {m})
        x == Counted(ExtrasOf(q), ext[q], {m})
    IN
    /\ online /\ st[q] = "doing"
    /\ cnt' = [cnt EXCEPT ![q] = c] /\ ext' = [ext EXCEPT ![q] = x]
    /\ st' = [st EXCEPT ![q] = IF (c # cnt[q] \/ x # ext[q]) /\ Killed(q, m, c, x) THEN "ready" ELSE @]
    /\ UNCHANGED <<bit, cells, groundVars, giveups, online, shown>>
-----------------------------------------------------------------------------
(* quest_abandon *)

\* an item goes if it is a quest item no other quest in progress uses; none is locked in a trade, so the destroy succeeds
TakeItems(q, s) ==
    LET kept(i) == \/ i \notin Drops(q) \cap QuestItems
                   \/ \E p \in Quests \ {q} : Active(s[p]) /\ Uses(p, i)
    IN cells' = [k \in CellNos |-> IF cells[k][1] = NoItem \/ kept(cells[k][1]) THEN cells[k] ELSE <<NoItem, 0>>]

\* mutated: the first version, which took items only where the request ended the quest
TakeLater(q, s) == UNCHANGED cells
TakeOnAck(q, s) == TakeItems(q, s)

GiveUp(q) ==
    /\ online /\ Active(st[q])
    /\ IF QuestData[q].repeat
       THEN /\ st' = [st EXCEPT ![q] = "cleared"]
            /\ cnt' = [cnt EXCEPT ![q] = Zeros(Kills(q))] /\ ext' = [ext EXCEPT ![q] = Zeros(ExtrasOf(q))]
            /\ TakeItems(q, st')
            /\ UNCHANGED giveups
       ELSE /\ giveups[q] < MaxAsks /\ giveups' = [giveups EXCEPT ![q] = @ + 1]
            /\ UNCHANGED <<st, cnt, ext, cells>>
    /\ UNCHANGED <<bit, groundVars, online, shown>>

DbAck(q, ok) ==
    /\ online /\ giveups[q] > 0
    /\ giveups' = [giveups EXCEPT ![q] = @ - 1]
    /\ IF ok THEN st' = [st EXCEPT ![q] = "gone"] /\ TakeOnAck(q, st') ELSE UNCHANGED <<st, cells>>
    /\ UNCHANGED <<bit, cnt, ext, groundVars, online, shown>>
-----------------------------------------------------------------------------
(* quest_item_enough *)

Doing == {q \in Quests : st[q] = "doing"}

\* is_quest_drop_item, asked for quest-flagged drops only
IsQuestDropItem(i) ==
    \E q \in Doing : /\ \E r \in QuestData[q].acts : r[2] = i
                     /\ Asks(q, i) = 0 \/ Have(i) < Asks(q, i)

Askers(i) == {q \in Doing : Asks(q, i) > 0}
StillNeeded(i) == IF Askers(i) = {} THEN -1 ELSE Max({0} \cup {Asks(q, i) - Have(i) : q \in Askers(i)})

\* stock, so_ply_PickupItem: the first cell of the item that takes all n, else the first empty one
Fitting(cs, i, n) ==
    LET merge == {k \in CellNos : cs[k][1] = i /\ cs[k][2] + n =< MaxLot}
        empty == {k \in CellNos : cs[k][1] = NoItem}
    IN IF merge # {} THEN {Min(merge)} ELSE IF empty # {} /\ n =< MaxLot THEN {Min(empty)} ELSE {}
Put(cs, i, n) == [k \in CellNos |-> IF k \in Fitting(cs, i, n) THEN <<i, cs[k][2] + n>> ELSE cs[k]]

\* cell_rooms and the loop over it: one stock pick per cell with room, those in fails refused
Split(i, want, fails) ==
    LET room(k) == IF cells[k][1] = i THEN MaxLot - cells[k][2] ELSE 0
        f[k \in 0 .. Cardinality(CellNos)] ==
            IF k = 0 THEN [cs |-> cells, rest |-> want]
            ELSE LET b == f[k - 1]
                     n == IF room(k) < b.rest THEN room(k) ELSE b.rest
                 IN IF n = 0 \/ k \in fails \/ Fitting(b.cs, i, n) = {} THEN b
                    ELSE [cs |-> Put(b.cs, i, n), rest |-> b.rest - n]
    IN f[Cardinality(CellNos)]

\* mutated: what was picked up in parts is not taken off the ground
LeftBehindWhole(lot, want, rest) == IF rest = 0 THEN lot - want ELSE lot
\* what stays on the ground when rest of the wanted could not be taken
LeftBehind(lot, want, rest) == lot - (want - rest)

\* mutated: the whole stack is wanted, however few the quests ask for
WantedWhole(i, lot) == lot
Wanted(i, lot) == LET k == StillNeeded(i) IN IF i \in QuestItems /\ k >= 0 /\ k < lot THEN k ELSE lot

\* pickup of a lot: the new cells and what is left on the ground
PickUp(i, lot, fails, left) ==
    LET want == Wanted(i, lot) IN
    /\ want > 0
    /\ IF Fitting(cells, i, want) # {}
       THEN cells' = Put(cells, i, want) /\ left = LeftBehind(lot, want, 0)
       ELSE LET b == Split(i, want, fails) IN cells' = b.cs /\ left = LeftBehind(lot, want, b.rest)

PickSingle(i) ==
    /\ online /\ single[i] > 0 /\ IsQuestDropItem(i)
    /\ \E left \in 0 .. 1 : PickUp(i, 1, {}, left) /\ single' = [single EXCEPT ![i] = @ - 1 + left]
    /\ UNCHANGED <<recordVars, stack, giveups, online, shown>>

PickStack(fails) ==
    /\ online /\ stack[2] > 0
    /\ \E left \in 0 .. stack[2] : PickUp(stack[1], stack[2], fails, left) /\ stack' = IF left = 0 THEN <<NoItem, 0>> ELSE <<stack[1], left>>
    /\ UNCHANGED <<recordVars, single, giveups, online, shown>>

\* stock: a normal drop group leaves a stack
DropStack(i, lot) ==
    /\ online /\ stack = <<NoItem, 0>>
    /\ stack' = <<i, lot>>
    /\ UNCHANGED <<recordVars, cells, single, giveups, online, shown>>
-----------------------------------------------------------------------------
(* stock: the player leaves and comes back; the records in progress are saved whole *)

LogOut ==
    /\ online /\ online' = FALSE /\ shown' = {}
    /\ bit' = [q \in Quests |-> bit[q] /\ Active(st[q])]
    /\ single' = [i \in Items |-> 0] /\ stack' = <<NoItem, 0>>
    /\ UNCHANGED <<st, cnt, ext, cells, giveups>>

\* an answer for a player who is not there: the quest is gone in the database and nobody takes the items
AckMissed(q) ==
    /\ ~online /\ giveups[q] > 0
    /\ giveups' = [giveups EXCEPT ![q] = 0]
    /\ st' = [st EXCEPT ![q] = "gone"] /\ bit' = [bit EXCEPT ![q] = FALSE]
    /\ UNCHANGED <<cnt, ext, cells, groundVars, online, shown>>

\* 0x110F lists at most kSlots of the records with the bit
LogIn ==
    /\ ~online /\ \A q \in Quests : giveups[q] = 0
    /\ online' = TRUE
    /\ shown' \in {s \in SUBSET Pinned(st, bit) : Cardinality(s) = Min({kSlots, Cardinality(Pinned(st, bit))})}
    /\ UNCHANGED <<recordVars, cells, groundVars, giveups>>
-----------------------------------------------------------------------------
Init ==
    /\ st = [q \in Quests |-> "none"] /\ bit = [q \in Quests |-> FALSE]
    /\ cnt = [q \in Quests |-> Zeros(Kills(q))] /\ ext = [q \in Quests |-> Zeros(ExtrasOf(q))]
    /\ cells = [k \in CellNos |-> <<NoItem, 0>>] /\ single = [i \in Items |-> 0] /\ stack = <<NoItem, 0>>
    /\ giveups = [q \in Quests |-> 0] /\ online = TRUE /\ shown = {}

Next ==
    \/ \E q \in Quests : Track(q) \/ Untrack(q) \/ Accept(q) \/ HandIn(q) \/ TimeOut(q) \/ StockUpdate(q) \/ AckMissed(q)
    \/ \E m \in Mobs, party \in BOOLEAN : Kill(m, party)
    \/ \E m \in Mobs, q \in Quests : KillExact(m, q)
    \/ \E q \in Quests : GiveUp(q)
    \/ \E q \in Quests, ok \in BOOLEAN : DbAck(q, ok)
    \/ \E i \in Items : PickSingle(i)
    \/ \E fails \in SUBSET CellNos : PickStack(fails)
    \/ \E i \in Items, lot \in 1 .. MaxStack : DropStack(i, lot)
    \/ LogOut \/ LogIn

Spec == Init /\ [][Next]_vars
-----------------------------------------------------------------------------
(* What must hold. *)

\* The client's tracker shows no quest whose record has lost the bit (0x4420, the unasked 0x4422 of set_done, 0x110F), and a
\* quest that was handed in comes back unpinned.
TrackerAgrees ==
    /\ \A q \in Quests : st[q] \in {"done", "again"} => ~bit[q]
    /\ \A q \in shown : bit[q]

\* More quests than there are slots are pinned only by accepting one that was given up while pinned: on_track never overfills.
OnlyReturnsOverfill ==
    [][Cardinality(Pinned(st', bit')) > Cardinality(Pinned(st, bit)) /\ Cardinality(Pinned(st', bit')) > kSlots
       => \E q \in Quests : ~Active(st[q]) /\ bit[q] /\ Active(st'[q])]_vars

\* A quest is ready only when the rows past the five counters are counted too, and one that asks for kills alone is ready as
\* soon as they all are: neither the stock loop nor quest_ext has the last word too early.
ReadyIsComplete ==
    \A q \in Quests :
        LET done == Full(Kills(q), cnt[q]) /\ Full(ExtrasOf(q), ext[q]) IN
        /\ st[q] = "ready" => done
        /\ st[q] = "doing" /\ done => Kills(q) = <<>> \/ \E i \in Items : Asks(q, i) > 0

\* When a give-up ends a quest, at once or on Character's answer, the player holds none of the quest items it dropped unless
\* another quest in progress uses them: the take_items of both paths.
GivenUpItemsGo ==
    [][\A q \in Quests : online /\ Active(st[q]) /\ st'[q] \in {"gone", "cleared"} =>
         \A i \in Drops(q) \cap QuestItems :
             \/ \A k \in CellNos : cells'[k][1] # i
             \/ \E p \in Quests \ {q} : Active(st'[p]) /\ Uses(p, i)]_vars

OnGround(i) == single[i] + IF stack[1] = i THEN stack[2] ELSE 0
OnGroundNow(i) == single'[i] + IF stack'[1] = i THEN stack'[2] ELSE 0

\* Picking up neither makes nor loses an item, in one part or several of which some fail, and takes of a quest item no more
\* than the quests in progress still ask for.
PicksAreExact ==
    [][cells' # cells => \A i \in Items : CountIn(cells', i) > Have(i) =>
         /\ CountIn(cells', i) + OnGroundNow(i) = Have(i) + OnGround(i)
         /\ i \in QuestItems /\ Askers(i) # {} => CountIn(cells', i) =< Have(i) + StillNeeded(i)]_vars
=============================================================================
