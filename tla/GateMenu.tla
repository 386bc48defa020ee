------------------------------ MODULE GateMenu ------------------------------
(***************************************************************************)
(* Raid gates (zone/plugins/rid_gate), the quest check on every map link   *)
(* (zone/plugins/quest_gate) and the client's Escape (menu_escape).        *)
(*                                                                         *)
(* A click on a gate opens a server menu of at most three buttons.  What   *)
(* an instance button means is kept in a ring of records that all players  *)
(* share, and the button carries the record's index only; a submenu's      *)
(* button likewise, in a ring of its own.  The player answers much later.  *)
(* A hard instance is entered through the stock difficulty select, a round *)
(* trip through the WorldManager.                                          *)
(***************************************************************************)
EXTENDS Integers, FiniteSets, Sequences

CONSTANTS
    Players, Gates, Links,  \* Links[g]: the open maps of a gate, a sequence
    Rows,         \* InstanceDungeon rows: <<gate, slot, mode>>; slot 0 is a stock IDGate's own argument
    GatedMaps,    \* maps FieldQuestCondition names
    Blocked,      \* maps whose spot nobody can stand on
    Ring,         \* 64 in the code: g_options and g_subs
    Sites,        \* how many of the three role checks could be patched
    MaxRecords    \* bound: options and submenus recorded

kShown == 3
Town == << >>       \* on no map that a link leads to
Nothing == [kind |-> "none"]
Cancel == [kind |-> "cancel"]

\* A gate has at most two open maps: open_menu shows the first two of a longer group and only logs the others.
GateOK ==
    /\ Ring \in Nat \ {0} /\ Sites \in 0 .. 3 /\ MaxRecords \in Nat
    /\ Links \in [Gates -> Seq(STRING)] /\ \A g \in Gates : Len(Links[g]) < kShown

VARIABLES
    options, nextOption,  \* g_options, g_next_option
    subs, nextSub,        \* g_subs, g_next_sub
    menu,     \* player -> the open menu: its entries, and what each was drawn for
    reply,    \* player -> what the client's window keeps at +0x182: left there by the last menu of two buttons, or 0xFF
    hard,     \* player -> the level select under way: <<gate, mode>>
    done,     \* players whose quest is done
    where,    \* player -> map or <<instance row>>
    wanted    \* player -> what the last choice was drawn for; a stale record is told by its age
vars == <<options, nextOption, subs, nextSub, menu, reply, hard, done, where, wanted>>

ringVars == <<options, nextOption, subs, nextSub>>
-----------------------------------------------------------------------------
(* The rows. *)

\* stock fc_GetInstanceDungeonInfo, a miss told from a hit by comparing the argument; with find_hook: X is retried as X_I<mode>
StockFind(g, slot, mode) == {r \in Rows : r = <<g, slot, mode>>}
Find(g, slot, mode) ==
    IF StockFind(g, slot, mode) # {} \/ slot # 0 THEN StockFind(g, slot, mode) ELSE StockFind(g, mode, mode)

\* the row of an instance slot: X_I2 may be stored at mode 1
SlotRow(g, slot) == IF Find(g, slot, slot) # {} THEN Find(g, slot, slot) ELSE IF slot = 2 THEN Find(g, 2, 1) ELSE {}

\* collect: the gate's entries of a kind
LinkEntries(g) == [k \in DOMAIN Links[g] |-> [kind |-> "link", map |-> Links[g][k]]]
Mode(g, slot) == IF SlotRow(g, slot) # {} THEN <<slot>> ELSE << >>
Modes(g) == Mode(g, 1) \o Mode(g, 2)
OptionOf(g, slot) == [gate |-> g, slot |-> slot, mode |-> (CHOOSE r \in SlotRow(g, slot) : TRUE)[3]]
\* mutated: the index is taken after the counter has moved on
InstanceEntryAfter(g, k, at) == [kind |-> "instance", index |-> (at + 1) % Ring, at |-> at, drawn |-> OptionOf(g, Modes(g)[k])]
\* the k-th mode's entry, recorded as option number at (counted from 0)
InstanceEntry(g, k, at) == [kind |-> "instance", index |-> at % Ring, at |-> at, drawn |-> OptionOf(g, Modes(g)[k])]
InstanceEntries(g) == [k \in DOMAIN Modes(g) |-> InstanceEntry(g, k, nextOption + k - 1)]

\* the ring with these entries written one after another, each at its own number: the last of two at one place stays
Put(ring, entries) ==
    [i \in 0 .. Ring - 1 |-> LET hits == {e \in entries : e.at % Ring = i}
                            IN IF hits = {} THEN ring[i] ELSE (CHOOSE e \in hits : \A d \in hits : d.at =< e.at).drawn]
EntriesOf(s) == {s[k] : k \in DOMAIN s}

\* each collect records the gate's modes anew
Recorded(g) ==
    /\ nextOption + Len(Modes(g)) =< MaxRecords
    /\ nextOption' = nextOption + Len(Modes(g))
    /\ options' = Put(options, EntriesOf(InstanceEntries(g)))

\* open_menu: as many as fit beside Cancel
Menu(entries) == SubSeq(entries, 1, IF Len(entries) < kShown THEN Len(entries) ELSE kShown - 1) \o <<Cancel>>
-----------------------------------------------------------------------------
\* mutated: no groups, what does not fit is dropped
UngroupedTop(g) == LinkEntries(g) \o InstanceEntries(g)

\* role: everything in one menu if it fits, else a button per group, a group of one being its own entry
Grouped(group, kind, g, at) ==
    IF Len(group) =< 1 THEN group
    ELSE <<[kind |-> "sub", index |-> at % Ring, at |-> at, drawn |-> [gate |-> g, kind |-> kind]]>>
Top(g) ==
    IF Len(Links[g]) + Len(Modes(g)) + 1 =< kShown THEN LinkEntries(g) \o InstanceEntries(g)
    ELSE LET first == Grouped(LinkEntries(g), "link", g, nextSub)
         IN first \o Grouped(InstanceEntries(g), "instance", g, nextSub + IF Len(Links[g]) > 1 THEN 1 ELSE 0)
SubsOf(top) == {e \in EntriesOf(top) : e.kind = "sub"}

Click(p, g) ==
    /\ where[p] = Town /\ hard[p] = Nothing
    /\ Recorded(g)
    /\ LET s == SubsOf(Top(g)) IN
       /\ nextSub + Cardinality(s) =< MaxRecords /\ nextSub' = nextSub + Cardinality(s)
       /\ subs' = Put(subs, s)
    /\ menu' = [menu EXCEPT ![p] = Menu(Top(g))]
    /\ reply' = [reply EXCEPT ![p] = IF Len(Menu(Top(g))) = 2 THEN Cancel ELSE @]  \* two buttons fill +0x181 and +0x182
    /\ UNCHANGED <<hard, done, where, wanted>>

\* sub_functer: the group's own menu
OpenSub(p, e) ==
    LET s == subs[e.index]
        entries == IF s.kind = "link" THEN LinkEntries(s.gate) ELSE InstanceEntries(s.gate)
    IN
    /\ IF s.kind = "instance" THEN Recorded(s.gate) ELSE UNCHANGED <<options, nextOption>>
    /\ menu' = [menu EXCEPT ![p] = Menu(entries)]
    /\ wanted' = [wanted EXCEPT ![p] = [fresh |-> nextSub - e.at =< Ring, drawn |-> e.drawn, got |-> s]]
    /\ UNCHANGED <<subs, nextSub, reply, hard, done, where>>
-----------------------------------------------------------------------------
(* quest_gate: so_LinkTo *)

\* mutated: a GM's rank alone lets him through, at a gate too
LinkAllowedByRank(p, map, gm, admin) == (gm => map \notin Blocked) /\ (map \in GatedMaps => p \in done \/ admin)

\* the &linkto of a GM may not aim at a blocked spot and passes the quest check; everybody else needs the quest
LinkAllowed(p, map, gm, admin) == (gm => map \notin Blocked) /\ (map \in GatedMaps => p \in done \/ (gm /\ admin))

LinkTo(p, map, gm, admin) == where' = [where EXCEPT ![p] = IF LinkAllowed(p, map, gm, admin) THEN <<map>> ELSE @]

GmLink(p, map, admin) ==
    /\ where[p] = Town /\ menu[p] = <<>>   \* typed with no menu open
    /\ LinkTo(p, map, TRUE, admin)
    /\ UNCHANGED <<ringVars, menu, reply, hard, done, wanted>>
-----------------------------------------------------------------------------
(* the answer *)

\* enter: mode 1 goes straight in, a hard one starts the level select for the gate and the mode
Enter(p, o) ==
    IF o = Nothing \/ Find(o.gate, o.slot, o.mode) = {} THEN UNCHANGED <<where, hard>>
    ELSE IF o.mode >= 2
         THEN hard' = [hard EXCEPT ![p] = [kind |-> "asked", gate |-> o.gate, mode |-> o.mode]] /\ UNCHANGED where
         ELSE where' = [where EXCEPT ![p] = <<o.gate, o.slot, o.mode>>] /\ UNCHANGED hard

Chosen(p, e, admin) ==
    \/ /\ e.kind = "link" /\ LinkTo(p, e.map, FALSE, admin)
       /\ wanted' = [wanted EXCEPT ![p] = Nothing]
       /\ UNCHANGED hard
    \/ /\ e.kind = "instance" /\ Enter(p, options[e.index])
       /\ wanted' = [wanted EXCEPT ![p] = [fresh |-> nextOption - e.at =< Ring, drawn |-> e.drawn, got |-> options[e.index]]]
    \/ /\ e.kind \in {"cancel", "none"}
       /\ wanted' = [wanted EXCEPT ![p] = Nothing]
       /\ UNCHANGED <<where, hard>>

Answer(p, k, admin) ==
    LET e == menu[p][k] IN
    /\ where[p] = Town
    /\ \/ e.kind = "sub" /\ OpenSub(p, e)
       \/ e.kind # "sub" /\ Chosen(p, e, admin) /\ menu' = [menu EXCEPT ![p] = <<>>] /\ UNCHANGED <<ringVars, reply, done>>

\* mutated: Escape sends what an earlier menu left at +0x182
EscapeReply(p) == reply[p]
\* cancel_menu: 0xFF is written over it first
CancelReply(p) == Nothing

\* Escape, or a window of a higher priority: a menu of three sends the byte of the second of two
Escape(p, admin) ==
    /\ menu[p] # <<>> /\ where[p] = Town
    /\ reply' = [reply EXCEPT ![p] = CancelReply(p)]
    /\ IF CancelReply(p).kind = "cancel" /\ Len(menu[p]) = 3
       THEN Chosen(p, menu[p][2], admin)   \* the zone counts the reply in the menu it has open: 1 is its second entry
       ELSE Chosen(p, CancelReply(p), admin)
    /\ menu' = [menu EXCEPT ![p] = <<>>]
    /\ UNCHANGED <<ringVars, done>>
-----------------------------------------------------------------------------
(* the stock difficulty select, let through for a raid gate *)

\* LEVEL_SELECT_MENU_ACK, the WorldManager's CHECK_ACK and JOIN_ACK: each site demands an IDGate, or is patched
Selected(p) ==
    LET h == hard[p] IN
    /\ h # Nothing
    /\ hard' = [hard EXCEPT ![p] = IF h.kind = "asked" /\ Sites >= 2 /\ Find(h.gate, 0, h.mode) # {}
                                   THEN [h EXCEPT !.kind = "checked"] ELSE Nothing]
    /\ where' = [where EXCEPT ![p] = IF h.kind = "checked" /\ Sites >= 3 /\ where[p] = Town
                                     THEN CHOOSE r \in Find(h.gate, 0, h.mode) : TRUE ELSE @]
    /\ UNCHANGED <<ringVars, menu, reply, done, wanted>>

FinishQuest(p) == done' = done \cup {p} /\ UNCHANGED <<ringVars, menu, reply, hard, where, wanted>>
Back(p) == where[p] # Town /\ where' = [where EXCEPT ![p] = Town] /\ UNCHANGED <<ringVars, menu, reply, hard, done, wanted>>

Init ==
    /\ options = [i \in 0 .. Ring - 1 |-> Nothing] /\ nextOption = 0
    /\ subs = [i \in 0 .. Ring - 1 |-> Nothing] /\ nextSub = 0
    /\ menu = [p \in Players |-> <<>>] /\ reply \in [Players -> {Nothing, Cancel}] /\ hard = [p \in Players |-> Nothing]
    /\ done = {} /\ where = [p \in Players |-> Town] /\ wanted = [p \in Players |-> Nothing]

Maps == GatedMaps \cup Blocked \cup UNION {{Links[g][k] : k \in DOMAIN Links[g]} : g \in Gates}

Next ==
    \/ \E p \in Players, g \in Gates : Click(p, g)
    \/ \E p \in Players, admin \in BOOLEAN : \/ \E k \in DOMAIN menu[p] : Answer(p, k, admin)
                                             \/ \E map \in Maps : GmLink(p, map, admin)
                                             \/ Escape(p, admin)
    \/ \E p \in Players : Selected(p) \/ FinishQuest(p) \/ Back(p)

Spec == Init /\ [][Next]_vars
-----------------------------------------------------------------------------
\* A button leads to what it was drawn for, unless the ring has gone round since: the index alone does not tell.
ButtonMeansWhatItSays == \A p \in Players : wanted[p] # Nothing /\ wanted[p].fresh => wanted[p].got = wanted[p].drawn

\* Every link and every instance of a gate can be reached from its menu, each menu fits the client's three buttons, and its
\* last one is Cancel: with more entries than that the gate shows groups.
Reached(e, g) == IF e.kind # "sub" THEN {e} ELSE
    LET s == IF e.drawn.kind = "link" THEN LinkEntries(g) ELSE InstanceEntries(g) IN EntriesOf(Menu(s))
EveryWayIsOnTheMenu ==
    /\ \A p \in Players : menu[p] # <<>> => Len(menu[p]) =< kShown /\ menu[p][Len(menu[p])] = Cancel
    /\ \A g \in Gates :
         LET way == UNION {Reached(e, g) : e \in EntriesOf(Menu(Top(g)))}
         IN \A e \in EntriesOf(LinkEntries(g)) \cup EntriesOf(InstanceEntries(g)) : e \in way

\* A button leads into a gated map only with the quest done, whatever the player's rank: a GM is let past by his own
\* &linkto alone, and that one leads to no spot nobody can stand on.
GatesHold ==
    [][\A p \in Players, map \in Maps : where'[p] = <<map>> /\ where[p] # <<map>> =>
          /\ map \in GatedMaps /\ menu[p] # <<>> => p \in done
          /\ map \in Blocked => menu[p] # <<>>]_vars

\* Escape, and a window that replaces the menu, enter nothing: neither the open map, nor an instance, nor a level select.
EscapeEntersNothing == [][\A p \in Players, admin \in BOOLEAN : Escape(p, admin) => UNCHANGED <<where, hard>>]_vars
=============================================================================
