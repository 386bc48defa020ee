----------------------------- MODULE ZoneBridge -----------------------------
(***************************************************************************)
(* The Zone's half of the 2026 client bridge (zone/plugins/bridge26): a    *)
(* detour of the one function every packet to a client passes, and hooked  *)
(* rows of the client's protocol table.  What is known of a player is kept *)
(* by his object, which the zone reuses, and starts anew at his map login; *)
(* the abnormal states past the 2016 bitset are kept by object handle, and *)
(* that the zone's exe announces the end of scripts is learnt once for all.*)
(*                                                                         *)
(* Four groups of packets share nothing but the client's kind; a behaviour *)
(* follows one of them (part).  BridgeData has the byte layouts.           *)
(***************************************************************************)
EXTENDS Integers, FiniteSets, Sequences, SequencesExt

CONSTANTS
    Players,        \* ShinePlayer objects
    Quests, kTracked,  \* the tracker shows five
    Items,          \* item -> [s16, s26]: the slot the zone has it at, and the one the 2026 client draws it at
    Handles, Extra, \* object handles; abnormal states past the 2016 bitset
    Uncovered,      \* requests in whose command a plugin loaded later has hooked the table
    MaxQueue        \* bound: packets under way to a client or back, chunks of a list

Parts == {"quests", "dialog", "equip", "states"}
Old == 2016
New == 2026
Nobody == 0
NoItem == "none"
NoSlot == -1

\* items that the client draws at one slot have one slot in the zone: the fold goes by the slot
ZoneBridgeOK ==
    /\ kTracked \in Nat \ {0} /\ MaxQueue \in Nat
    /\ NoItem \notin DOMAIN Items /\ Items \in [DOMAIN Items -> [s16 : Nat, s26 : Nat]]
    /\ \A i, j \in DOMAIN Items : Items[i].s26 = Items[j].s26 => Items[i].s16 = Items[j].s16

VARIABLES
    part,
    real,      \* player object -> the client now using it
    client,    \* PlayerState.client: what its map login said
    online,    \* map login done
    \* quests
    tracked,   \* PlayerState.tracked
    whole,     \* the zone's records since the list began
    tracker,   \* what the client's tracker shows
    \* dialog
    ends,      \* the zone's exe is one that sends QSC_END
    announces, \* g_zone_announces_end
    pending,   \* PlayerState.close_pending and close_sent_at: "no", "fresh", or "old" after kCloseEchoMs
    script,    \* the zone is in a script with the player
    crossed,   \* history: a 0x200B has ended a script with something of it still under way
    down, up,  \* packets under way to the client and back
    dialog,    \* the client's dialog: closed, shown, or waiting to be told to close
    \* equipment
    worn,      \* zone slot -> item
    drawn,     \* 2026 slot folded into a zone slot -> item the client draws there
    empties,   \* PlayerState.folded_empty
    \* states
    extra,     \* g_extra
    has,       \* handle -> the extra states its object has
    record     \* the last LOGINCHARACTER record sent to a 2026 client: handle and bits, and the states then
questVars == <<tracked, whole, tracker>>
dialogVars == <<ends, announces, pending, script, crossed, down, up, dialog>>
equipVars == <<worn, drawn, empties>>
stateVars == <<extra, has, record>>
vars == <<part, real, client, online, questVars, dialogVars, equipVars, stateVars>>

\* to2026 with send=auto
to2026(p) == client[p] = New

Range16 == {Items[i].s16 : i \in DOMAIN Items}
Folded == {Items[i].s26 : i \in {j \in DOMAIN Items : Items[j].s26 # Items[j].s16}}
\* build_folds
FoldedInto(s) == {Items[i].s26 : i \in {j \in DOMAIN Items : Items[j].s16 = s /\ Items[j].s26 # s}}
Drawn(i) == IF i # NoItem /\ Items[i].s26 \in Folded THEN Items[i].s26 ELSE NoSlot
-----------------------------------------------------------------------------
(* MAP_LOGIN: the length tells the client; nothing carries over from the object's last player *)

\* mutated: the state is not started anew
LoginTrackedKept(p) == tracked
LoginTracked(p) == [tracked EXCEPT ![p] = <<>>]

Connect(p, c) ==
    /\ real[p] = Nobody /\ real' = [real EXCEPT ![p] = c]
    /\ part = "dialog" \/ p = CHOOSE q \in Players : TRUE   \* one player is enough where players share nothing
    /\ UNCHANGED <<part, client, online, questVars, dialogVars, equipVars, stateVars>>

MapLogin(p) ==
    /\ real[p] # Nobody /\ ~online[p] /\ online' = [online EXCEPT ![p] = TRUE]
    /\ client' = [client EXCEPT ![p] = real[p]]
    /\ tracked' = LoginTracked(p) /\ whole' = [whole EXCEPT ![p] = <<>>] /\ tracker' = [tracker EXCEPT ![p] = <<>>]
    /\ pending' = [pending EXCEPT ![p] = "no"] /\ empties' = [empties EXCEPT ![p] = {}]
    \* the client's own state is new, too; the zone sends his equipment and opens no script by itself
    /\ worn' = [worn EXCEPT ![p] = [s \in Range16 |-> NoItem]] /\ drawn' = [drawn EXCEPT ![p] = [t \in Folded |-> NoItem]]
    /\ script' = [script EXCEPT ![p] = FALSE] /\ crossed' = [crossed EXCEPT ![p] = FALSE] /\ dialog' = [dialog EXCEPT ![p] = "closed"]
    /\ down' = [down EXCEPT ![p] = <<>>] /\ up' = [up EXCEPT ![p] = <<>>]
    /\ UNCHANGED <<part, real, ends, announces, stateVars>>

Leave(p) ==
    /\ online[p] /\ real' = [real EXCEPT ![p] = Nobody] /\ online' = [online EXCEPT ![p] = FALSE]
    /\ UNCHANGED <<part, client, questVars, dialogVars, equipVars, stateVars>>
-----------------------------------------------------------------------------
(* The DOING list, in chunks; a record's bit 0x80 marks a tracked quest. *)

Records == [quest : Quests, status : {5, 6}, bit : BOOLEAN]
Live(r) == r.bit /\ r.status \in 6 .. 8

\* mutated: a quest is taken again that the set has
TakeTwice(set, r) == IF Live(r) /\ Len(set) < kTracked THEN Append(set, r.quest) ELSE set
\* TakeTracked: in order, each once, as many as the tracker has room for
Take(set, r) == IF Live(r) /\ ~Contains(set, r.quest) /\ Len(set) < kTracked THEN Append(set, r.quest) ELSE set

DoingList(p, clear, recs) ==
    /\ part = "quests" /\ online[p]
    /\ whole' = [whole EXCEPT ![p] = (IF clear THEN <<>> ELSE @) \o recs] /\ Len(whole'[p]) =< MaxQueue
    /\ IF to2026(p)
       THEN /\ tracked' = [tracked EXCEPT ![p] = FoldLeft(Take, IF clear THEN <<>> ELSE @, recs)]
            /\ tracker' = [tracker EXCEPT ![p] = tracked'[p]]     \* 0x110F follows the list
       ELSE UNCHANGED <<tracked, tracker>>
    /\ UNCHANGED <<part, real, client, online, dialogVars, equipVars, stateVars>>
-----------------------------------------------------------------------------
(* Dialogs: a 2026 client keeps its dialog until it is told 0x442E, and says 0x200B when it closes.  The same packet says *)
(* that the player has closed one; going up it is an "echo", his closing of a page ("own"), or Esc after his answer ("esc"). *)

EndOfTrades == {"echo", "own", "esc"}

Open(p) ==
    /\ part = "dialog" /\ online[p] /\ ~script[p] /\ Len(down[p]) < MaxQueue
    /\ script' = [script EXCEPT ![p] = TRUE] /\ down' = [down EXCEPT ![p] = Append(@, "page")]
    /\ UNCHANGED <<part, real, client, online, ends, announces, pending, crossed, up, dialog, questVars, equipVars, stateVars>>

\* mutated: the close is sent with no note of it
NotedNot(p, sends) == pending
\* a close sent is noted, with its time
Noted(p, sends) == IF Contains(sends, "close") THEN [pending EXCEPT ![p] = "fresh"] ELSE pending

\* mutated: no close at an ack
PerAckNever(p) == <<>>
\* 0x4402: the dialog is closed at every ack, unless the zone is known to announce ends
PerAck(p) == IF to2026(p) /\ ~announces THEN <<"close">> ELSE <<>>

\* the script's next step, as the client gets it: a page; QSC_DONE relayed, with a close; QSC_END, for which a close is sent
Script(p, step) ==
    CASE step = "page" -> <<"page">>
      [] step = "done" -> IF to2026(p) THEN <<"done", "close">> ELSE <<"done">>
      [] step = "end" -> IF ~ends THEN <<>> ELSE IF to2026(p) THEN <<"close">> ELSE <<"end">>

Ack(p) ==
    /\ part = "dialog" /\ online[p] /\ up[p] # <<>> /\ Head(up[p]) = "ack"
    /\ up' = [up EXCEPT ![p] = Tail(@)]
    /\ IF script[p]
       THEN \E step \in {"page", "done", "end"} :
              LET sends == PerAck(p) \o Script(p, step)
              IN /\ Len(down[p]) + Len(sends) =< MaxQueue
                 /\ down' = [down EXCEPT ![p] = @ \o sends] /\ pending' = Noted(p, sends)
                 /\ script' = [script EXCEPT ![p] = step = "page"]
                 /\ announces' = (announces \/ (step = "end" /\ ends /\ to2026(p)))
       ELSE /\ down' = [down EXCEPT ![p] = @ \o PerAck(p)] /\ pending' = Noted(p, PerAck(p))
            /\ Len(down'[p]) =< MaxQueue /\ UNCHANGED <<script, announces>>
    /\ UNCHANGED <<part, real, client, online, ends, crossed, dialog, questVars, equipVars, stateVars>>

\* 0x200B: what comes within kCloseEchoMs of a close is taken for its echo and swallowed; any other ends what the zone has
\* open
Swallows(p) == pending[p] = "fresh"
EndOfTrade(p) ==
    /\ part = "dialog" /\ online[p] /\ up[p] # <<>> /\ Head(up[p]) \in EndOfTrades
    /\ up' = [up EXCEPT ![p] = Tail(@)]
    /\ pending' = [pending EXCEPT ![p] = "no"]
    /\ script' = [script EXCEPT ![p] = @ /\ Swallows(p)]
    /\ crossed' = [crossed EXCEPT ![p] = @ \/ (script[p] /\ ~Swallows(p) /\ ~(up'[p] = <<>> /\ down[p] = <<>> /\ dialog[p] = "closed"))]
    /\ UNCHANGED <<part, real, client, online, ends, announces, down, dialog, questVars, equipVars, stateVars>>

\* the client
Click(p) ==
    /\ part = "dialog" /\ online[p] /\ dialog[p] = "shown" /\ Len(up[p]) < MaxQueue
    /\ up' = [up EXCEPT ![p] = Append(@, "ack")]
    /\ dialog' = [dialog EXCEPT ![p] = IF real[p] = New THEN "waiting" ELSE "closed"]
    /\ UNCHANGED <<part, real, client, online, ends, announces, pending, script, crossed, down, questVars, equipVars, stateVars>>
\* the player closes a page, or presses Esc in front of a dialog that waits
Dismiss(p) ==
    /\ part = "dialog" /\ online[p] /\ dialog[p] # "closed" /\ Len(up[p]) < MaxQueue
    /\ up' = [up EXCEPT ![p] = Append(@, IF dialog[p] = "shown" THEN "own" ELSE "esc")]
    /\ dialog' = [dialog EXCEPT ![p] = "closed"]
    /\ UNCHANGED <<part, real, client, online, ends, announces, pending, script, crossed, down, questVars, equipVars, stateVars>>
Hear(p) ==
    /\ part = "dialog" /\ online[p] /\ down[p] # <<>>
    /\ down' = [down EXCEPT ![p] = Tail(@)]
    /\ dialog' = [dialog EXCEPT ![p] = CASE Head(down[p]) = "page" -> "shown" [] Head(down[p]) = "close" -> "closed" [] OTHER -> @]
    /\ up' = [up EXCEPT ![p] = IF Head(down[p]) = "close" /\ dialog[p] # "closed" THEN Append(@, "echo") ELSE @]
    /\ Len(up'[p]) =< MaxQueue
    /\ UNCHANGED <<part, real, client, online, ends, announces, pending, script, crossed, questVars, equipVars, stateVars>>
\* kCloseEchoMs is over, wherever the close and its echo are
Wait(p) ==
    /\ part = "dialog" /\ pending[p] = "fresh"
    /\ pending' = [pending EXCEPT ![p] = "old"]
    /\ UNCHANGED <<part, real, client, online, ends, announces, script, crossed, down, up, dialog, questVars, equipVars, stateVars>>
-----------------------------------------------------------------------------
(* EQUIPCHANGE: the zone names its slot; the 2026 client draws the item at its own *)

\* mutated: a slot something is drawn at stays noted as empty
EmptiesKept(p, new) == empties[p]
\* a slot something is drawn at is not empty any more
Empties(p, new) == empties[p] \ {Drawn(new)}

\* the 2026 slots folded into the changed one, but the item's own, are cleared once until something is drawn there
Cleared(p, s, new) == (FoldedInto(s) \ {Drawn(new)}) \ Empties(p, new)

Equip(p, s, new) ==
    /\ part = "equip" /\ online[p] /\ (new # NoItem => Items[new].s16 = s)
    /\ worn' = [worn EXCEPT ![p][s] = new]
    /\ IF to2026(p)
       THEN /\ empties' = [empties EXCEPT ![p] = Empties(p, new) \cup Cleared(p, s, new)]
            /\ drawn' = [drawn EXCEPT ![p] = [t \in Folded |-> IF t = Drawn(new) THEN new
                                                               ELSE IF t \in Cleared(p, s, new) THEN NoItem ELSE @[t]]]
       ELSE UNCHANGED <<empties, drawn>>
    /\ UNCHANGED <<part, real, client, online, questVars, dialogVars, stateVars>>
-----------------------------------------------------------------------------
(* States past the 2016 bitset: the zone announces them by index, to whomever *)

\* ABSTATESET / ABSTATE_CHANGE and ABSTATERESET of one; extra_observe
SetState(h, x, on) ==
    /\ part = "states" /\ (on <=> x \notin has[h])
    /\ has' = [has EXCEPT ![h] = IF on THEN @ \cup {x} ELSE @ \ {x}]
    /\ extra' = [extra EXCEPT ![h] = IF on THEN @ \cup {x} ELSE @ \ {x}]
    /\ UNCHANGED <<part, real, client, online, record, questVars, dialogVars, equipVars>>

\* mutated: the list is added to what was tracked
AfterListAdded(h, states) == extra[h] \cup states
\* a list is the handle's whole state
AfterList(h, states) == states

\* another object comes under the handle; the zone sends its states as a list
Reuse(h, states) ==
    /\ part = "states"
    /\ has' = [has EXCEPT ![h] = states] /\ extra' = [extra EXCEPT ![h] = AfterList(h, states)]
    /\ UNCHANGED <<part, real, client, online, record, questVars, dialogVars, equipVars>>

\* post_translate, extra_fill
LoginCharacter(p, h) ==
    /\ part = "states" /\ online[p] /\ to2026(p)
    /\ record' = [handle |-> h, bits |-> extra[h], had |-> has[h]]
    /\ UNCHANGED <<part, real, client, online, extra, has, questVars, dialogVars, equipVars>>
-----------------------------------------------------------------------------
(* Requests that change no state here: what becomes of each. *)

Requests == {"empower", "reward", "track", "track10", "logout", "wrapped logout", "wrapped other", "map status", "whisper",
             "unknown", "late unknown"}
Registered == {"empower", "reward", "track"}

\* mutated: a map-status request goes on to the zone
AnswersNone == {}
Answers == {"map status"}

\* drop_unregistered and the stock handler behind it, which hangs up: a 2026 client's opcode that the zone does not know is
\* relayed to the WorldManager or dropped.  A row that a hook makes after the cover has the stock handler in it again, and
\* the map status' original is that handler, too
Unregistered(p, r) ==
    IF ~to2026(p) \/ r = "map status" \/ r \in Uncovered THEN "hung up" ELSE IF r = "whisper" THEN "relayed" ELSE "dropped"
\* on_client_packet: handled by the zone, run as its logout, dropped, or answered here; the rest is unregistered
Becomes(p, r) ==
    CASE r \in Registered -> "handled"
      [] r \in {"logout", "wrapped logout"} -> "logout"
      [] r \in {"track10", "wrapped other"} -> "dropped"
      [] r \in Answers -> "answered"
      [] OTHER -> Unregistered(p, r)

Init ==
    /\ part \in Parts /\ real = [p \in Players |-> Nobody]
    /\ client = [p \in Players |-> 0] /\ online = [p \in Players |-> FALSE]
    /\ tracked = [p \in Players |-> <<>>] /\ whole = [p \in Players |-> <<>>] /\ tracker = [p \in Players |-> <<>>]
    /\ ends \in BOOLEAN /\ announces = FALSE /\ pending = [p \in Players |-> "no"] /\ script = [p \in Players |-> FALSE]
    /\ crossed = [p \in Players |-> FALSE] /\ down = [p \in Players |-> <<>>] /\ up = [p \in Players |-> <<>>] /\ dialog = [p \in Players |-> "closed"]
    /\ worn = [p \in Players |-> [s \in Range16 |-> NoItem]] /\ drawn = [p \in Players |-> [t \in Folded |-> NoItem]]
    /\ empties = [p \in Players |-> {}]
    /\ extra = [h \in Handles |-> {}] /\ has = [h \in Handles |-> {}]
    /\ record = [handle |-> 0, bits |-> {}, had |-> {}]

Next ==
    \/ \E p \in Players : \/ \E c \in {Old, New} : Connect(p, c)
                          \/ MapLogin(p) \/ Leave(p)
                          \/ \E clear \in BOOLEAN, n \in 0 .. 2 : \E recs \in [1 .. n -> Records] : DoingList(p, clear, recs)
                          \/ Open(p) \/ Ack(p) \/ EndOfTrade(p) \/ Click(p) \/ Dismiss(p) \/ Hear(p) \/ Wait(p)
                          \/ \E s \in Range16, new \in DOMAIN Items \cup {NoItem} : Equip(p, s, new)
                          \/ \E h \in Handles : LoginCharacter(p, h)
    \/ \E h \in Handles : \/ \E x \in Extra, on \in BOOLEAN : SetState(h, x, on)
                          \/ \E states \in SUBSET Extra : Reuse(h, states)

Spec == Init /\ [][Next]_vars
-----------------------------------------------------------------------------
\* of a list's records, those of tracked quests under way, each quest where it comes first; and which of them one is
FirstAt(w) == {i \in DOMAIN w : Live(w[i]) /\ \A j \in 1 .. i - 1 : Live(w[j]) => w[j].quest # w[i].quest}
Rank(w, i) == Cardinality({j \in FirstAt(w) : j =< i})

\* A 2026 client's tracker shows the first five of the quests its own character tracks, of those still under way, over all
\* chunks of the list, in their order and each once: none of the character that had the object before.
TrackerListRight ==
    \A p \in Players : online[p] /\ real[p] = New /\ whole[p] # <<>> =>
        LET first == FirstAt(whole[p])
        IN /\ Len(tracker[p]) = IF Cardinality(first) < kTracked THEN Cardinality(first) ELSE kTracked
           /\ \A i \in first : Rank(whole[p], i) =< kTracked => tracker[p][Rank(whole[p], i)] = whole[p][i].quest

\* Once the script is over and nothing is under way, no client is left in front of a dialog, whether the zone's exe
\* announces ends or not, and whether that is known yet or not; unless a 0x200B has ended a script whose page or answer
\* was on its way.
NoDialogStuck ==
    \A p \in Players : online[p] /\ ~crossed[p] /\ ~script[p] /\ down[p] = <<>> /\ up[p] = <<>> => dialog[p] = "closed"

\* A client's echo of a close the bridge sent ends nothing in the zone if it is there within kCloseEchoMs; and the player's
\* own closing of a page is never taken for an echo: it ends the script.
EchoesToldApart ==
    [][\A p \in Players : EndOfTrade(p) /\ ~crossed[p] =>
          /\ Head(up[p]) = "echo" /\ pending[p] # "old" => script'[p] = script[p]
          /\ Head(up[p]) = "own" => ~script'[p]]_vars

\* Each folded 2026 slot shows the item worn there, if its place is that slot, and nothing else, however items change.
EquipDrawn ==
    \A p \in Players : online[p] /\ real[p] = New =>
        \A t \in Folded : drawn[p][t] = IF \E s \in Range16 : Drawn(worn[p][s]) = t
                                        THEN CHOOSE i \in DOMAIN Items : Items[i].s26 = t /\ worn[p][Items[i].s16] = i ELSE NoItem

\* The record of a character that comes into view of a 2026 client has the states past the 2016 bitset it has then.
RecordStates == record.bits = record.had

\* No packet of a 2026 client makes the zone hang up, but an unknown one in whose command a plugin has hooked the table after
\* the bridge covered it.
LegalClientsStay ==
    \A p \in Players, r \in Requests \ Uncovered : online[p] /\ real[p] = New => Becomes(p, r) # "hung up"
=============================================================================
