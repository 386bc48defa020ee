----------------------------- MODULE BridgeData -----------------------------
(***************************************************************************)
(* What the zone's bridge does to the bytes of a packet                    *)
(* (bridge26_translate.h, bridge26_items.h) and to a quest's numbers       *)
(* (counter_rows, reward_slot): pure functions, each applied to one        *)
(* bounded input and compared with how the 2026 client reads the result.   *)
(***************************************************************************)
EXTENDS Integers, FiniteSets, Sequences, SequencesExt

CONSTANTS
    Classes,   \* item id -> its 2026 class; an item the tables lack is not in the domain
    Counts,    \* values of the byte that counts an item's enchantments or lots
    MaxItems,  \* bound: records of a box
    Rows, Slots16, Rewards  \* sample quests: the 2026 client's end rows, the zone's counters, and rewards of either

\* an end row or a counter: a mob, to be killed or talked to
Mobs == [mob : Nat, kill : BOOLEAN]
None == 65535
BridgeDataOK ==
    /\ DOMAIN Classes \subseteq 0 .. None - 1 /\ Counts \subseteq 0 .. 15 /\ MaxItems \in Nat
    /\ Slots16 \subseteq [1 .. 5 -> Mobs]
    /\ \A r \in Rows : r \in Seq(Mobs) /\ Len(r) =< 10
    /\ \A r \in Rewards : r \in Seq({r[k] : k \in DOMAIN r})

VARIABLES what, given, made
vars == <<what, given, made>>
-----------------------------------------------------------------------------
(* Fixed layouts. A segment <<from, n>> copies n bytes, <<Zero, n>> makes n of the bridge's own. *)

Zero == -1
Fixed(n16, head) == [n |-> n16, row |-> 0, Head |-> head, Row |-> <<>>]
List(n16, head, row16, row) == [n |-> n16, row |-> row16, Head |-> head, Row |-> row]
Extended(n, more) == Fixed(n, << <<0, n>>, <<Zero, more>> >>)

\* mutated: the bits after the old ones are put a byte late
RegenMobRowLate(e) == << <<0, 115>>, <<Zero, 36 + e>>, <<114, 35>>, <<Zero, 1>> >>
RegenMobRow(e) == << <<0, 114>>, <<Zero, 37 + e>>, <<114, 35>>, <<Zero, 1>> >>
LoginCharacterRow(e) == << <<0, 82>>, <<Zero, 31>>, <<82, 9>>, <<Zero, 1>>, <<91, 99>>, <<Zero, 36 + e>>, <<190, 44>>, <<Zero, 2>> >>

\* kOwned; e is 1 for the US build
Owned(e) ==
    [swing |-> Fixed(16, << <<0, 8>>, <<Zero, 2>>, <<8, 8>>, <<Zero, 7>> >>),
     tail7 |-> Extended(13, 7),
     skillhit |-> List(5, << <<0, 5>>, <<Zero, 4>> >>, 14, << <<0, 14>>, <<Zero, 7>> >>),
     targetinfo |-> Fixed(30, << <<0, 30>>, <<Zero, 2>>, <<Zero, 9>> >>),
     hitstart6 |-> Extended(6, 4), hitstart8 |-> Extended(8, 4), hitstart12 |-> Extended(12, 4), hitstart14 |-> Extended(14, 4),
     chargedbuff |-> List(2, << <<Zero, 4>>, <<0, 2>> >>, 14, << <<0, 14>>, <<Zero, 8>> >>),
     chargedbuff_start |-> Extended(14, 8),
     chargedbuff_terminate |-> Extended(4, 1),
     shoptable |-> List(4, << <<0, 4>> >>, 3, << <<0, 1>>, <<Zero, 3>>, <<1, 2>> >>),
     clientbase |-> Fixed(105, << <<0, 54>>, <<Zero, 1>>, <<54, 51>>, <<Zero, 256>> >>),
     regenmob |-> Fixed(149, RegenMobRow(e)),
     mobcmd |-> List(1, << <<0, 1>> >>, 149, RegenMobRow(e)),
     regenmover |-> Fixed(139, << <<0, 118>>, <<Zero, 37 + e>>, <<118, 21>> >>),
     logincharacter |-> Fixed(235, LoginCharacterRow(e)),
     characterlist |-> List(1, << <<0, 1>> >>, 235, LoginCharacterRow(e))]

\* the packet made: for each byte its place in the 2016 packet, 0 for one of the bridge's own
Copied(segs) == FlattenSeq([k \in DOMAIN segs |-> [i \in 1 .. segs[k][2] |-> IF segs[k][1] = Zero THEN 0 ELSE segs[k][1] + i]])

\* what the 2026 client reads: head and row
Reads(name, e) ==
    CASE name = "swing" -> <<25, 0>> [] name = "tail7" -> <<20, 0>> [] name = "skillhit" -> <<9, 21>> [] name = "targetinfo" -> <<41, 0>>
      [] name = "hitstart6" -> <<10, 0>> [] name = "hitstart8" -> <<12, 0>> [] name = "hitstart12" -> <<16, 0>>
      [] name = "hitstart14" -> <<18, 0>> [] name = "chargedbuff" -> <<6, 22>> [] name = "chargedbuff_start" -> <<22, 0>>
      [] name = "chargedbuff_terminate" -> <<5, 0>> [] name = "shoptable" -> <<4, 6>> [] name = "clientbase" -> <<362, 0>>
      [] name = "regenmob" -> <<187 + e, 0>> [] name = "mobcmd" -> <<1, 187 + e>> [] name = "regenmover" -> <<176 + e, 0>>
      [] name = "logincharacter" -> <<304 + e, 0>> [] name = "characterlist" -> <<1, 304 + e>>
-----------------------------------------------------------------------------
(* Item records: datasize, location, item, attributes; attributes are numbered, but for the byte that counts what follows. *)

kRecordHead == 5
\* classes with an enchant block: the 2026 fixed part, its last byte the count
EnchantFixed(cls) == CASE cls = 4 -> 39 [] cls = 5 -> 66 [] cls \in {6, 7, 8, 38} -> 14 [] OTHER -> -1
insert_at_2016(cls) == IF cls = 4 THEN 8 ELSE EnchantFixed(cls) - 2
\* of the others, here: 13 and 15 count their lots in the first byte, 39 is 16 wide and 1 in the zone
Constant(cls) == CASE cls = 0 -> 1 [] cls = 1 -> 2 [] cls = 9 -> 36 [] cls = 39 -> 16 [] OTHER -> 4

Width26(cls, a) ==
    IF EnchantFixed(cls) > 0 THEN EnchantFixed(cls) + (a[EnchantFixed(cls)] \div 2) * 3
    ELSE IF cls = 13 THEN 1 + a[1] * 10 ELSE IF cls = 15 THEN 1 + (a[1] % 16) * 8 ELSE Constant(cls)

\* what the zone has for an item of the class with count c
Attributes16(cls, c) ==
    IF EnchantFixed(cls) > 0
    THEN LET f == EnchantFixed(cls) - 1 IN [i \in 1 .. f + (c \div 2) * 3 |-> IF i = f THEN c ELSE 100 + i]
    ELSE IF cls \in {13, 15} THEN [i \in 1 .. 1 + c * (IF cls = 13 THEN 10 ELSE 8) |-> IF i = 1 THEN c ELSE 100 + i]
    ELSE [i \in 1 .. (IF cls = 39 THEN 1 ELSE Constant(cls)) |-> 100 + i]

\* mutated: the byte goes in front of the count for every class
InsertLast(cls, a) == SubSeq(a, 1, EnchantFixed(cls) - 2) \o <<0>> \o SubSeq(a, EnchantFixed(cls) - 1, Len(a))
\* one byte more: inside the first nine for an amulet, before the count elsewhere
Insert(cls, a) == SubSeq(a, 1, insert_at_2016(cls)) \o <<0>> \o SubSeq(a, insert_at_2016(cls) + 1, Len(a))

\* record: the attributes at the 2026 width; Refused when they do not fit the class
Refused == <<-1>>
Record(id, a) ==
    IF id = None THEN IF a = <<>> THEN a ELSE Refused
    ELSE IF id \notin DOMAIN Classes THEN Refused
    ELSE LET cls == Classes[id] f16 == EnchantFixed(cls) - 1 IN
         IF f16 > 0 THEN IF Len(a) < f16 THEN Refused ELSE IF Len(a) # f16 + (a[f16] \div 2) * 3 THEN Refused ELSE Insert(cls, a)
         ELSE IF cls = 39 /\ Len(a) = 1 THEN a \o [i \in 1 .. 15 |-> 0]
         ELSE IF Width26(cls, a) # Len(a) THEN Refused ELSE a

\* client_item, record_list, long_record: extra bytes of a record's head ride along; a box with a record that is refused goes
\* out with its head widened only, a list as it is
Widened(recs) == [k \in DOMAIN recs |-> [recs[k] EXCEPT !.a = Record(recs[k].id, recs[k].a),
                                                        !.size = kRecordHead + recs[k].extra + Len(Record(recs[k].id, recs[k].a)) - 1]]
Box(recs) == IF \E k \in DOMAIN recs : Record(recs[k].id, recs[k].a) = Refused THEN recs ELSE Widened(recs)

\* the bytes of a box after its head, and where the client finds each record's end: it knows an item's width by its
\* class only
Bytes(recs) == FlattenSeq([k \in DOMAIN recs |-> <<recs[k].size, 0, 0, recs[k].id>> \o recs[k].a])
WidthOf(id, rest) == IF id \in DOMAIN Classes THEN Width26(Classes[id], rest) ELSE 0
Walk(b) ==
    LET at[k \in 0 .. Len(b)] ==
            IF k = 0 THEN 1 ELSE IF at[k - 1] + 3 > Len(b) THEN at[k - 1]
            ELSE at[k - 1] + 4 + WidthOf(b[at[k - 1] + 3], SubSeq(b, at[k - 1] + 4, Len(b)))
    IN at

RecordsOf(id) == {[id |-> id, a |-> a, extra |-> x, size |-> kRecordHead + x + Len(a) - 1] :
                     a \in IF id = None THEN {<<>>} ELSE {Attributes16(Classes[id], c) : c \in Counts}, x \in {0, 12}}
Boxes == UNION {[1 .. n -> UNION {RecordsOf(id) : id \in DOMAIN Classes \cup {None}}] : n \in 0 .. MaxItems}

\* what the zone had of an attribute block, from what the client reads
Back(id, a) ==
    IF id = None \/ EnchantFixed(Classes[id]) < 0 THEN IF id # None /\ Classes[id] = 39 THEN SubSeq(a, 1, 1) ELSE a
    ELSE LET at == insert_at_2016(Classes[id]) IN SubSeq(a, 1, at) \o SubSeq(a, at + 2, Len(a))
-----------------------------------------------------------------------------
(* A quest's counters and rewards. A client's end row is [mob, kill], a counter of the zone the same or NoMob. *)

NoMob == [mob |-> 0, kill |-> FALSE]

\* mutated: a row serves every counter that matches it
FirstMatchAgain(c, rows, used) == {i \in DOMAIN rows : rows[i] = c}
FirstMatch(c, rows, used) == {i \in DOMAIN rows : rows[i] = c /\ i \notin used}

\* counter_rows: the client's row of each counter, in order; its own number where there is none. An untimed quest's kills
\* past the five follow, two of them at most
Matched(counters, rows) ==
    LET want[n \in 0 .. Len(counters)] ==
            IF n = 0 THEN <<>>
            ELSE LET hits == FirstMatch(counters[n], rows, {want[n - 1][j] : j \in {i \in 1 .. n - 1 : counters[i] # NoMob}})
                 IN Append(want[n - 1], IF counters[n] = NoMob \/ hits = {} THEN n ELSE Min(hits))
    IN want[Len(counters)]
More(counters, rows, timed) ==
    LET used == {Matched(counters, rows)[k] : k \in {j \in DOMAIN counters : counters[j] # NoMob}}
        kills == {i \in DOMAIN rows : rows[i].kill}
        free == kills \ used
        later == free \ {Min(free)}
    IN IF timed \/ Cardinality(kills) =< 5 \/ free = {} THEN <<>>
       ELSE IF later = {} THEN <<Min(free)>> ELSE <<Min(free), Min(later)>>
CounterRows(counters, rows, timed) == Matched(counters, rows) \o More(counters, rows, timed)

\* quest_entry: later counters overwrite earlier ones
Shown(want, values) == [row \in 1 .. 10 |-> LET at == {k \in DOMAIN want : want[k] = row}
                                            IN IF at = {} THEN 0 ELSE values[CHOOSE k \in at : \A j \in at : j =< k]]

\* mutated: a slot given to one row is offered to the next, too
FreeSlotsAny(slots, r, taken) == {k \in DOMAIN slots : slots[k] = r}
FreeSlots(slots, r, taken) == {k \in DOMAIN slots : slots[k] = r /\ k \notin taken}
\* reward_slot: in order, each of the client's rows to the first free slot of its type and value; 0 when the zone has none
RewardSlots(rows, slots) ==
    LET got[n \in 0 .. Len(rows)] ==
            IF n = 0 THEN <<>>
            ELSE LET hits == FreeSlots(slots, rows[n], ToSet(got[n - 1]))
                 IN Append(got[n - 1], IF hits = {} THEN 0 ELSE Min(hits))
    IN got[Len(rows)]
\* QUEST_REWARD_SELECT: the number the zone gets for each of the client's; one that has no slot is left as it was sent
Forwarded(rows, slots) == [n \in DOMAIN rows |-> IF RewardSlots(rows, slots)[n] = 0 THEN n ELSE RewardSlots(rows, slots)[n]]
-----------------------------------------------------------------------------
Init ==
    /\ made = <<>>
    /\ \/ what = "layout" /\ \E name \in DOMAIN Owned(0), e \in 0 .. 1 : given = <<name, e>>
       \/ what = "box" /\ given \in Boxes
       \/ what = "counters" /\ \E c \in Slots16, r \in Rows, timed \in BOOLEAN : given = <<c, r, timed>>
       \/ what = "rewards" /\ \E r \in Rewards, s \in Rewards : given = <<r, s>>

Translate ==
    /\ made = <<>>
    /\ made' = CASE what = "layout" -> LET o == Owned(given[2])[given[1]] IN <<o.Head, o.Row>>
                 [] what = "box" -> <<Box(given)>>
                 [] what = "counters" -> CounterRows(given[1], given[2], given[3])
                 [] what = "rewards" -> Forwarded(given[1], given[2])
    /\ UNCHANGED <<what, given>>
Next == Translate
Spec == Init /\ [][Next]_vars

Done(x) == made # <<>> /\ what = x

\* every byte of n once and in order
Carries(out, n) ==
    /\ {out[i] : i \in DOMAIN out} \ {0} = 1 .. n
    /\ \A i, j \in DOMAIN out : i < j /\ out[i] # 0 /\ out[j] # 0 => out[i] < out[j]

\* A translated packet is as long as the 2026 client reads it, and carries every byte of the 2016 one once and in order, but
\* the last of a character's record.
LayoutHolds ==
    Done("layout") =>
        LET o == Owned(given[2])[given[1]]
            lost == IF given[1] \in {"logincharacter", "characterlist"} THEN 1 ELSE 0
            fixed == o.row = 0
        IN /\ <<Len(Copied(made[1])), Len(Copied(made[2]))>> = Reads(given[1], given[2])
           /\ Carries(Copied(made[1]), o.n - (IF fixed THEN lost ELSE 0))
           /\ ~fixed => Carries(Copied(made[2]), o.row - lost)

\* The client, which walks a box by the classes of its items, finds the zone's items with their attributes, and each record's
\* own size names its end.
BoxReadsBack ==
    Done("box") =>
        LET b == Bytes(made[1])
            at == Walk(b)
            read(k) == SubSeq(b, at[k - 1] + 4, at[k] - 1)
        IN /\ at[Len(given)] = Len(b) + 1
           /\ \A k \in DOMAIN given : b[at[k - 1] + 3] = given[k].id /\ Back(given[k].id, read(k)) = given[k].a
           /\ \A k \in DOMAIN given : made[1][k].size + 1 = kRecordHead + given[k].extra + Len(read(k))

\* The counter of a mob is shown at a row the client has for it, each at a row of its own, when the client has rows for all the
\* mobs the zone counts; but where a later counter that the quest does not use has the number of that row, its value is shown.
\* Values are told apart by their counter.
CountersFollow ==
    Done("counters") =>
        LET counters == given[1] rows == given[2] values == [k \in 1 .. 7 |-> 10 + k]
            shown == Shown(made, values)
            counted == {k \in DOMAIN counters : counters[k] # NoMob}
        IN (\A k \in counted : Cardinality({i \in DOMAIN rows : rows[i] = counters[k]}) >=
                                Cardinality({j \in DOMAIN counters : counters[j] = counters[k]}))
           => \A k \in counted : \E i \in DOMAIN rows :
                  rows[i] = counters[k] /\ (shown[i] = values[k] \/ (i \in DOMAIN counters \ counted /\ i > k))

\* of the rewards of one kind, the client's first ones, as many as the zone has
Offered(rows, slots) ==
    {k \in DOMAIN rows : Cardinality({j \in 1 .. k : rows[j] = rows[k]}) =< Cardinality({s \in DOMAIN slots : slots[s] = rows[k]})}

\* A reward the client chooses is given as the zone's reward of the same type and value, if the zone has it, and no two as the
\* same one. For a reward the zone has not, it gets the client's number, whatever it has at it.
RewardIsTheChosen ==
    Done("rewards") =>
        LET offered == Offered(given[1], given[2])
        IN /\ \A k \in offered : made[k] \in DOMAIN given[2] /\ given[2][made[k]] = given[1][k]
           /\ \A j, k \in offered : j # k => made[j] # made[k]
=============================================================================
