------------------------------- MODULE VoidBag -------------------------------
(***************************************************************************)
(* The Void Inventory, bag 18: the zone's half (zone/plugins/void_bag) and *)
(* Character's half (character/plugins/char_void) with the messages        *)
(* between them.                                                           *)
(*                                                                         *)
(* A zone keeps one in-memory bag per POOLED player object.  Its contents  *)
(* are fetched from Character after each login and until they have arrived *)
(* every move into or out of the bag is refused.  A reply is matched to a  *)
(* bag by character number alone.  The rows of tItem are the truth; the    *)
(* zone's generic storage code changes memory and row together.            *)
(***************************************************************************)
EXTENDS Integers, FiniteSets

CONSTANTS
    Items,             \* the items under study, of all characters
    Chars,             \* character numbers
    Objs,              \* the zone's pooled ShinePlayer objects
    Calls,             \* bound: how many list requests can be under way at once
    InvSlots,          \* cells of the ordinary inventory, bag 9
    CellsPerVoidPage,  \* 144 in the code
    ChunkItems,        \* most items one 0x1077 reply carries
    NoChar,            \* a player object or a bag that belongs to nobody
    Overlap,           \* may a character log in while an earlier list is under way?
    MayFail            \* may a request stay unsent, or be answered with an error?

kMaxVoidPages == 2
kVoidBagId == 18
kInventoryBagId == 9
kVoidCapacity == kMaxVoidPages * CellsPerVoidPage

ASSUME ConstantsOK ==
    /\ CellsPerVoidPage \in Nat /\ ChunkItems \in Nat \ {0}
    /\ NoChar \notin Chars
    /\ Overlap \in BOOLEAN /\ MayFail \in BOOLEAN

VoidSlots == 0 .. kVoidCapacity - 1
Spots == ({kInventoryBagId} \X InvSlots) \union ({kVoidBagId} \X VoidSlots)
Contents == SUBSET (VoidSlots \X Items)

\* so_StoreInventoryFromServer is called once per login part
Parts == {"inventory", "others"}

VARIABLES
    row,      \* tItem: item -> [char, bag, slot]
    pages,    \* void pages a character has unlocked (its enum-45 charged effects)
    occ,      \* so_GetCharRegistNumber of each player object; survives a logout
    stage,    \* what the object is doing: "free", "entering", "playing"
    parts,    \* login parts that have arrived
    owner,    \* VoidBag::owner
    loaded,   \* VoidBag::loaded
    cells,    \* VoidBag::cells, as the set of <<slot, item>> it holds
    client,   \* box 18 as the connected client shows it
    asked,    \* call -> the character a list was asked for
    unread,   \* call -> no worker has read the rows yet
    rest,     \* call -> the rows read and not yet sent
    begun     \* call -> the first reply of the list has gone out

zoneVars == <<occ, stage, parts, owner, loaded, cells, client>>
callVars == <<asked, unread, rest, begun>>
vars == <<row, pages, zoneVars, callVars>>

-----------------------------------------------------------------------------
(* What the rows and the bags hold. *)

PlaceOf(c, spot) == [char |-> c, bag |-> spot[1], slot |-> spot[2]]
Places == {PlaceOf(c, spot) : c \in Chars, spot \in Spots}

RowsIn(c, bag, slots) == {x \in slots \X Items : row[x[2]] = PlaceOf(c, <<bag, x[1]>>)}
VoidRows(c) == RowsIn(c, kVoidBagId, VoidSlots)

\* mutated: the loaded flag is not looked at
VoidBagOfAnyway(p) == owner[p] # NoChar

\* void_bag_of: the bag the move handler gets for bag 18, if it gets one
VoidBagOf(p) == loaded[p]

\* what the move handler sees in a bag of the player on p
View(p, bag) == IF bag = kVoidBagId THEN cells[p]
                ELSE RowsIn(occ[p], kInventoryBagId, InvSlots)

\* vb_size_input for bag 18; the inventory's own size is not the plugin's business
Usable(p, spot) == spot[1] = kVoidBagId => spot[2] < pages[occ[p]] * CellsPerVoidPage

\* ItemBag::ib_Initializetotal: each row goes to its own slot, over what was there
Filed(content, rows) ==
    {x \in content : \A y \in rows : y[1] # x[1]} \union rows

\* the cell of bag 18 that item i takes at a spot, if the spot is in bag 18
InVoid(spot, i) == IF spot[1] = kVoidBagId THEN {<<spot[2], i>>} ELSE {}

-----------------------------------------------------------------------------
Init ==
    /\ row \in [Items -> Places]
    /\ \A i, j \in Items : row[i] = row[j] => i = j
    /\ pages \in [Chars -> 0 .. kMaxVoidPages]
    /\ \A i \in Items : row[i].bag = kVoidBagId
                          => row[i].slot < pages[row[i].char] * CellsPerVoidPage
    /\ occ = [p \in Objs |-> NoChar]
    /\ stage = [p \in Objs |-> "free"]
    /\ parts = [p \in Objs |-> {}]
    /\ owner = [p \in Objs |-> NoChar]
    /\ loaded = [p \in Objs |-> FALSE]
    /\ cells = [p \in Objs |-> {}]
    /\ client = [p \in Objs |-> {}]
    /\ asked = [k \in Calls |-> NoChar]
    /\ unread = [k \in Calls |-> FALSE]
    /\ rest = [k \in Calls |-> {}]
    /\ begun = [k \in Calls |-> FALSE]

-----------------------------------------------------------------------------
(* The zone: logins and logouts. *)

\* A player object is taken from the pool for a character.  A character is in
\* the zone once.
Occupy(p, c) ==
    /\ stage[p] = "free"
    /\ \A q \in Objs : stage[q] # "free" => occ[q] # c
    /\ Overlap \/ \A k \in Calls : asked[k] # c
    /\ occ' = [occ EXCEPT ![p] = c]
    /\ stage' = [stage EXCEPT ![p] = "entering"]
    /\ parts' = [parts EXCEPT ![p] = {}]
    /\ client' = [client EXCEPT ![p] = {}]
    /\ UNCHANGED <<row, pages, owner, loaded, cells, callVars>>

\* the part that completes the login lets the client play
Arrived(p, part) ==
    /\ stage[p] = "entering"
    /\ part \notin parts[p]
    /\ parts' = [parts EXCEPT ![p] = @ \union {part}]
    /\ stage' = [stage EXCEPT ![p] = IF parts[p] \union {part} = Parts THEN "playing" ELSE @]

\* mutated: bags of earlier logins go on answering
StaleNone(p, c) == {}

\* the bags of earlier logins of c, which must stop answering to it
Stale(p, c) == {q \in Objs \ {p} : owner[q] = c}

\* request_void_list; a request that cannot be sent is logged and not repeated
RequestVoidList(c) ==
    \/ \E k \in Calls :
        /\ asked[k] = NoChar
        /\ asked' = [asked EXCEPT ![k] = c]
        /\ unread' = [unread EXCEPT ![k] = TRUE]
        /\ UNCHANGED <<rest, begun>>
    \/ MayFail /\ UNCHANGED callVars

\* mutated: the bag of the object's last occupant stays usable
StoreInventoryStillLoaded(p) ==
    /\ Arrived(p, "inventory")
    /\ cells' = [cells EXCEPT ![p] = {}]
    /\ loaded' = [q \in Objs |-> loaded[q] /\ q \notin Stale(p, occ[p])]
    /\ owner' = [q \in Objs |-> IF q = p THEN occ[p]
                                ELSE IF q \in Stale(p, occ[p]) THEN NoChar ELSE owner[q]]
    /\ RequestVoidList(occ[p])
    /\ UNCHANGED <<row, pages, occ, client>>

\* store_impl on the inventory part
StoreInventory(p) ==
    /\ Arrived(p, "inventory")
    /\ cells' = [cells EXCEPT ![p] = {}]
    /\ loaded' = [q \in Objs |-> loaded[q] /\ q \notin {p} \union Stale(p, occ[p])]
    /\ owner' = [q \in Objs |-> IF q = p THEN occ[p]
                                ELSE IF q \in Stale(p, occ[p]) THEN NoChar ELSE owner[q]]
    /\ RequestVoidList(occ[p])
    /\ UNCHANGED <<row, pages, occ, client>>

\* equipment, mini-house, action items: the void bag is left alone
StoreOthers(p) ==
    /\ Arrived(p, "others")
    /\ UNCHANGED <<row, pages, occ, owner, loaded, cells, client, callVars>>

\* The connection closes.  Neither the object's character number nor its bag is
\* touched: both are only replaced by the next login into the object.
Logout(p) ==
    /\ stage[p] # "free"
    /\ stage' = [stage EXCEPT ![p] = "free"]
    /\ parts' = [parts EXCEPT ![p] = {}]
    /\ client' = [client EXCEPT ![p] = {}]
    /\ UNCHANGED <<row, pages, occ, owner, loaded, cells, callVars>>

-----------------------------------------------------------------------------
(* Character's workers, each on a database connection of its own. *)

EndCall(k) ==
    /\ asked' = [asked EXCEPT ![k] = NoChar]
    /\ unread' = [unread EXCEPT ![k] = FALSE]
    /\ rest' = [rest EXCEPT ![k] = {}]
    /\ begun' = [begun EXCEPT ![k] = FALSE]

\* pack_void: one worker reads all of the character's bag 18 at one moment
PackVoid(k) ==
    /\ unread[k]
    /\ unread' = [unread EXCEPT ![k] = FALSE]
    /\ rest' = [rest EXCEPT ![k] = VoidRows(asked[k])]
    /\ UNCHANGED <<row, pages, zoneVars, asked, begun>>

\* the read failed, or there is no char_void (0x1202): the zone only logs it
AnswerError(k) ==
    /\ MayFail
    /\ unread[k]
    /\ EndCall(k)
    /\ UNCHANGED <<row, pages, zoneVars>>

-----------------------------------------------------------------------------
(* The list replies, and the moves. *)

\* the next 0x1077 of call k carries these rows
NextReply(k, rows) ==
    /\ asked[k] # NoChar /\ ~unread[k]
    /\ rows \subseteq rest[k]
    /\ Cardinality(rows) <= ChunkItems
    /\ rows = {} => rest[k] = {}

Advance(k, rows) ==
    IF rows = rest[k] THEN EndCall(k)
    ELSE /\ rest' = [rest EXCEPT ![k] = @ \ rows]
         /\ begun' = [begun EXCEPT ![k] = TRUE]
         /\ UNCHANGED <<asked, unread>>

\* mutated: the object's own character number is not compared
MatchesByOwner(p, c) == owner[p] = c

\* bag_of_char: some bag that answers to the character, if its object still is it
Matches(p, c) == owner[p] = c /\ occ[p] = c
NoMatch(c) == \/ \A p \in Objs : owner[p] # c
              \/ \E p \in Objs : owner[p] = c /\ occ[p] # c

\* mutated: the first reply is taken for the whole list
LoadReplyTooSoon(k, p, rows) ==
    LET full == Filed(IF ~begun[k] THEN {} ELSE cells[p], rows)
    IN /\ NextReply(k, rows)
       /\ Matches(p, asked[k])
       /\ cells' = [cells EXCEPT ![p] = full]
       /\ loaded' = [loaded EXCEPT ![p] = TRUE]
       /\ client' = [client EXCEPT ![p] =
                        IF ~begun[k] /\ full # {} /\ stage[p] # "free" THEN full ELSE @]
       /\ Advance(k, rows)
       /\ UNCHANGED <<row, pages, occ, stage, parts, owner>>

\* on_void_list with a bag: clear on the first reply, file the rows, and after
\* the last one send box 18 - nothing at all when the bag is empty
LoadReply(k, p, rows) ==
    LET first == ~begun[k]
        last  == rows = rest[k]
        full  == Filed(IF first THEN {} ELSE cells[p], rows)
    IN /\ NextReply(k, rows)
       /\ Matches(p, asked[k])
       /\ cells' = [cells EXCEPT ![p] = full]
       /\ loaded' = [loaded EXCEPT ![p] = last \/ (@ /\ ~first)]
       /\ client' = [client EXCEPT ![p] =
                        IF last /\ full # {} /\ stage[p] # "free" THEN full ELSE @]
       /\ Advance(k, rows)
       /\ UNCHANGED <<row, pages, occ, stage, parts, owner>>

\* on_void_list without one: the reply is dropped
DropReply(k, rows) ==
    /\ NextReply(k, rows)
    /\ NoMatch(asked[k])
    /\ Advance(k, rows)
    /\ UNCHANGED <<row, pages, zoneVars>>

\* sp_ItemReloc through the void-bag-reloc caves: both ends are resolved first,
\* and bag 18 resolves to what void_bag_of returns
Resolved(p, from, to) ==
    /\ stage[p] = "playing"
    /\ from # to
    /\ kVoidBagId \in {from[1], to[1]} => VoidBagOf(p)
    /\ Usable(p, to)

\* the bag, and box 18 as the client shows it, after a move
Rebag(p, out, in) ==
    /\ cells' = [cells EXCEPT ![p] = (@ \ out) \union in]
    /\ client' = [client EXCEPT ![p] = (@ \ out) \union in]
    /\ UNCHANGED <<pages, occ, stage, parts, owner, loaded, callVars>>

\* irm_Move: the destination cell is empty
Move(p, from, to, i) ==
    /\ Resolved(p, from, to)
    /\ <<from[2], i>> \in View(p, from[1])
    /\ \A j \in Items : <<to[2], j>> \notin View(p, to[1])
    /\ row' = [row EXCEPT ![i] = PlaceOf(occ[p], to)]
    /\ Rebag(p, InVoid(from, i), InVoid(to, i))

\* irm_Exchange: it holds another item
Exchange(p, from, to, i, j) ==
    /\ Resolved(p, from, to)
    /\ <<from[2], i>> \in View(p, from[1])
    /\ <<to[2], j>> \in View(p, to[1])
    /\ row' = [row EXCEPT ![i] = PlaceOf(occ[p], to), ![j] = PlaceOf(occ[p], from)]
    /\ Rebag(p, InVoid(from, i) \union InVoid(to, j), InVoid(to, i) \union InVoid(from, j))

\* mutated: the two-page limit is not checked
UseVoidItemUnlimited(p, pagesOfItem) ==
    /\ stage[p] = "playing"
    /\ pages' = [pages EXCEPT ![occ[p]] = @ + pagesOfItem]
    /\ UNCHANGED <<row, zoneVars, callVars>>

\* canuse_impl, and so_ply_ChargedBuff behind it
UseVoidItem(p, pagesOfItem) ==
    /\ stage[p] = "playing"
    /\ pages[occ[p]] + pagesOfItem <= kMaxVoidPages
    /\ pages' = [pages EXCEPT ![occ[p]] = @ + pagesOfItem]
    /\ UNCHANGED <<row, zoneVars, callVars>>

-----------------------------------------------------------------------------
Zone ==
    \E p \in Objs :
        \/ \E c \in Chars : Occupy(p, c)
        \/ StoreInventory(p)
        \/ StoreOthers(p)
        \/ Logout(p)
        \/ \E from, to \in Spots, i \in Items : Move(p, from, to, i)
        \/ \E from, to \in Spots, i, j \in Items : Exchange(p, from, to, i, j)
        \/ \E n \in 1 .. kMaxVoidPages : UseVoidItem(p, n)

Reply(k) ==
    \E rows \in SUBSET rest[k] :
        \/ \E p \in Objs : LoadReply(k, p, rows)
        \/ DropReply(k, rows)

Next == \/ Zone
        \/ \E k \in Calls : PackVoid(k) \/ AnswerError(k) \/ Reply(k)

Spec == Init /\ [][Next]_vars

\* A worker takes up every request it is handed and sends all of its replies.
\* Nothing obliges a player to log in, to stay or to move an item.
Fairness == \A k \in Calls : WF_vars(PackVoid(k)) /\ WF_vars(Reply(k))

FairSpec == Spec /\ Fairness

-----------------------------------------------------------------------------
(* Correctness. *)

TypeOK ==
    /\ row \in [Items -> Places]
    /\ pages \in [Chars -> 0 .. kMaxVoidPages]
    /\ occ \in [Objs -> Chars \union {NoChar}]
    /\ stage \in [Objs -> {"free", "entering", "playing"}]
    /\ parts \in [Objs -> SUBSET Parts]
    /\ owner \in [Objs -> Chars \union {NoChar}]
    /\ loaded \in [Objs -> BOOLEAN]
    /\ cells \in [Objs -> Contents]
    /\ client \in [Objs -> Contents]
    /\ asked \in [Calls -> Chars \union {NoChar}]
    /\ unread \in [Calls -> BOOLEAN]
    /\ rest \in [Calls -> Contents]
    /\ begun \in [Calls -> BOOLEAN]

\* "an item can never share a slot with a stored one" (zone/README.md, void_bag;
\* void_bag_of's comment): no two rows of tItem name the same cell.
NoSharedSlot == \A i, j \in Items : row[i] = row[j] => i = j

\* A bag that answers moves holds exactly the rows of its character - the reason
\* a move judged on it is a legal move of the rows.
LoadedBagIsTheRows ==
    \A p \in Objs : loaded[p] => owner[p] \in Chars /\ cells[p] = VoidRows(owner[p])

\* A reply is matched by character number: at most one bag answers to it, or the
\* items and box 18 go to the object of an earlier login (store_impl, 2026-09-19).
OneBagPerCharacter ==
    \A p, q \in Objs : owner[p] # NoChar /\ owner[p] = owner[q] => p = q

\* "one character's void items can never show up for the next" (the comment above
\* VoidBag): neither the client nor a usable bag shows an item of somebody else.
NoForeignItems ==
    \A p \in Objs : \A x \in VoidSlots \X Items :
        /\ stage[p] # "free" /\ x \in client[p] => row[x[2]].char = occ[p]
        /\ stage[p] = "playing" /\ VoidBagOf(p) /\ x \in cells[p] => row[x[2]].char = occ[p]

\* What the player sees in box 18 while moves are allowed is what the bag holds.
ClientShowsTheBag ==
    \A p \in Objs : stage[p] = "playing" /\ loaded[p] => client[p] = cells[p]

\* Whoever stays in the zone gets the void bag: no order of replies, logouts and
\* reused objects leaves it refused for good.
BagEventuallyLoads ==
    \A p \in Objs : stage[p] = "playing" ~> (loaded[p] \/ stage[p] # "playing")

\* The rows change as ItemStorage says, although every move is judged in memory.
Storage == INSTANCE ItemStorage WITH row <- row
RowsMoveLegally == Storage!Spec

-----------------------------------------------------------------------------
(* Why it is correct: the facts every step keeps. *)

\* Who is where: a character plays on one object, and from the inventory part on
\* that object's bag, and no other, answers to it.
WhoIsWhere ==
    /\ \A p \in Objs : stage[p] # "free" => occ[p] \in Chars
    /\ \A p, q \in Objs : stage[p] # "free" /\ stage[q] # "free" /\ occ[p] = occ[q] => p = q
    /\ \A p \in Objs : stage[p] = "playing" => parts[p] = Parts
    /\ \A p \in Objs : stage[p] # "free" /\ "inventory" \in parts[p] => owner[p] = occ[p]
    /\ \A p \in Objs : loaded[p] => owner[p] # NoChar
    /\ OneBagPerCharacter

\* A call that is not under way holds nothing, and one that no worker has taken
\* up has sent nothing.
CallsInOrder ==
    \A k \in Calls : asked[k] = NoChar \/ unread[k]
        => /\ asked[k] = NoChar => ~unread[k]
           /\ rest[k] = {} /\ ~begun[k]

\* Whatever a bag, a list or a client holds belongs to the character it is for.
OwnItems ==
    /\ \A p \in Objs : owner[p] # NoChar => \A x \in cells[p] : row[x[2]].char = owner[p]
    /\ \A p \in Objs : stage[p] # "free" => \A x \in client[p] : row[x[2]].char = occ[p]
    /\ \A k \in Calls : \A x \in rest[k] : row[x[2]].char = asked[k]

\* While logins do not overlap: one list per character at a time, none before the
\* inventory part has arrived, and no loaded bag while it is on its way.
OneListAtATime ==
    /\ \A k, l \in Calls : asked[k] # NoChar /\ asked[k] = asked[l] => k = l
    /\ \A p \in Objs, k \in Calls :
         stage[p] # "free" /\ "inventory" \notin parts[p] => asked[k] # occ[p]
    /\ \A p \in Objs, k \in Calls : asked[k] # NoChar /\ owner[p] = asked[k] => ~loaded[p]

\* What has been filed and what is still to come are together the rows.
ListIsTheRows ==
    \A k \in Calls : asked[k] # NoChar /\ ~unread[k] =>
        /\ ~begun[k] => rest[k] = VoidRows(asked[k])
        /\ begun[k] => \A p \in Objs : Matches(p, asked[k])
                            => cells[p] \union rest[k] = VoidRows(asked[k])

\* The client shows the bag from the list's last reply on, and before it, or when
\* nobody is connected, nothing.
ShownOnceLoaded ==
    \A p \in Objs :
        client[p] = IF stage[p] # "free" /\ "inventory" \in parts[p] /\ loaded[p] THEN cells[p] ELSE {}

LoginInv == TypeOK /\ WhoIsWhere /\ CallsInOrder /\ OwnItems
ListInv == /\ LoginInv /\ OneListAtATime /\ ListIsTheRows
           /\ NoSharedSlot /\ LoadedBagIsTheRows
=============================================================================
