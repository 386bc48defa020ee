----------------------------- MODULE Instances ------------------------------
(***************************************************************************)
(* Instance dungeons entered with a party or alone: indun_solo,            *)
(* indun_party_scale and leave_command in the zone, wm_indun_solo in the   *)
(* WorldManager.                                                           *)
(*                                                                         *)
(* An instance of the one dungeon modelled is named by its key: a party's  *)
(* number, or KeyBase plus a character's number for one entered alone.     *)
(* The key is worked out at the click and used at the Yes.  Every member   *)
(* of a party carries a state that fits the number of members on his map.  *)
(***************************************************************************)
EXTENDS Integers, FiniteSets, Sequences

CONSTANTS
    Chars, Parties,   \* numbers: a character and a party may have the same one
    KeyBase,          \* kSoloKeyBase, 0x10000
    kMaxMembers,      \* the party sizes the zone has a state for
    MaxMoving, MaxOpen   \* bounds: on a loading screen, open, at once

NoParty == -1   \* kNoParty
Town == -2
Away == -3      \* in another zone, or logged out

ASSUME InstancesOK ==
    /\ Chars \subseteq Nat /\ KeyBase \in Nat /\ Parties \subseteq 0 .. KeyBase - 1
    /\ kMaxMembers \in Nat /\ MaxMoving \in Nat /\ MaxOpen \in Nat

Solo(c) == KeyBase + c
Keys == Parties \cup {Solo(c) : c \in Chars}

VARIABLES
    party,    \* character -> the number its object gives
    slots,    \* PARTY_SLOT: party -> its members in order
    objs,     \* the members whose memberobj is set
    where,    \* character -> Town, Away or the key of the instance it stands in
    moving,   \* on a loading screen: no LOGINCOMPLETE yet
    open,     \* the instances that exist
    menu,     \* character -> the server menu it has open, one at a time: [kind, key]
    buff,     \* character -> the party size of the state it carries, 0 for none
    empty,    \* instances counting down
    noticed   \* <<character, instance>>: who was last told of a countdown
vars == <<party, slots, objs, where, moving, open, menu, buff, empty, noticed>>

partyVars == <<party, slots, objs>>
wmVars == <<empty, noticed>>
NoMenu == [kind |-> "none", key |-> NoParty]
Shows(c, kind, k) == menu[c] = [kind |-> kind, key |-> k]

SetOf(s) == {s[i] : i \in DOMAIN s}
\* the members of a list that are in W, in the list's order
Keep(s, W) ==
    LET kept[i \in 0 .. Len(s)] ==
            IF i = 0 THEN << >> ELSE IF s[i] \in W THEN Append(kept[i - 1], s[i]) ELSE kept[i - 1]
    IN kept[Len(s)]
Inside(k) == {c \in Chars : where[c] = k}
Here(c) == where[c] # Away
\* the WorldManager sends a member's object right after the join or the arrival: nothing else comes between
Settled == \A c \in Chars : party[c] # NoParty /\ Here(c) /\ c \notin moving => c \in objs
-----------------------------------------------------------------------------
(* indun_party_scale.  n holds party, slots, objs and where as the stock handler leaves them. *)

\* the state for the members of the list on the same instance map; none in town, none for a size the zone has no state for
Fit(n, c, list) ==
    LET size == Cardinality({x \in list : n.where[x] = n.where[c]})
    IN IF n.where[c] \in Keys /\ size =< kMaxMembers THEN size ELSE 0

\* members: those with an object here and the party's number, and the player himself
Members(n, c, gone) ==
    (IF n.party[c] = NoParty THEN {c} ELSE {x \in n.objs : n.party[x] = n.party[c]} \cup {c}) \ gone

\* refresh: everybody in the list, and the one who went if he has no party now
Refresh(b, n, c, gone) ==
    LET list == Members(n, c, gone)
    IN [x \in Chars |-> IF x \in list THEN Fit(n, x, list)
                        ELSE IF x \in gone /\ n.party[x] = NoParty THEN Fit(n, x, {x}) ELSE b[x]]

\* refresh_party: through the first member with an object
RefreshParty(b, n, p, gone) ==
    LET s == Keep(n.slots[p], n.objs \ gone)
    IN IF s = <<>> THEN b ELSE Refresh(b, n, Head(s), gone)

Now == [party |-> party, slots |-> slots, objs |-> objs, where |-> where]
Becomes(n) == party' = n.party /\ slots' = n.slots /\ objs' = n.objs /\ where' = n.where

\* login_impl, after the stock handler
LoginComplete(c) ==
    /\ c \in moving
    /\ moving' = moving \ {c}
    /\ buff' = Refresh(buff, Now, c, {})
    /\ UNCHANGED <<partyVars, where, open, menu, wmVars>>

\* revive_impl: death took the state off
Revive(c) ==
    /\ Here(c) /\ c \notin moving
    /\ buff' = Refresh([buff EXCEPT ![c] = 0], Now, c, {})
    /\ UNCHANGED <<partyVars, where, moving, open, menu, wmVars>>

\* handle_impl: pm_HandleSet gives the slot its object
HandleSet(c) ==
    /\ party[c] # NoParty /\ Here(c) /\ c \notin objs
    /\ LET n == [Now EXCEPT !.objs = @ \cup {c}] IN Becomes(n) /\ buff' = RefreshParty(buff, n, party[c], {})
    /\ UNCHANGED <<moving, open, menu, wmVars>>

\* mutated: the leaver is looked for after the stock handler, when his slot is empty
LeftUnknown(b, n, p, c) == RefreshParty(b, n, p, {})
\* leave_impl: the party without him, then the leaver, who counts as one
LeftBuff(b, n, p, c) == IF c \in objs THEN Refresh(RefreshParty(b, n, p, {c}), n, c, {}) ELSE RefreshParty(b, n, p, {})

Leave(c) ==
    /\ party[c] # NoParty
    /\ LET p == party[c]
           n == [Now EXCEPT !.party[c] = NoParty, !.slots[p] = Keep(@, Chars \ {c}), !.objs = @ \ {c}]
       IN Becomes(n) /\ buff' = LeftBuff(buff, n, p, c)
    /\ UNCHANGED <<moving, open, menu, wmVars>>

\* break_impl: each on his own
Break(p) ==
    /\ slots[p] # <<>>
    /\ LET n == [party |-> [c \in Chars |-> IF party[c] = p THEN NoParty ELSE party[c]], slots |-> [slots EXCEPT ![p] = <<>>],
                 objs |-> objs \ SetOf(slots[p]), where |-> where]
       IN Becomes(n) /\ buff' = [c \in Chars |-> IF c \in SetOf(slots[p]) \cap objs THEN Fit(n, c, {c}) ELSE buff[c]]
    /\ UNCHANGED <<moving, open, menu, wmVars>>

\* zoneleave_impl, logout_impl, for a member: the party is read before the stock handler lets the object go
Gone(c) ==
    /\ party[c] # NoParty /\ Here(c) /\ c \notin moving
    /\ LET n == [Now EXCEPT !.where[c] = Away, !.objs = @ \ {c}]
           b == [buff EXCEPT ![c] = 0]
       IN Becomes(n) /\ buff' = RefreshParty(b, n, party[c], {c})
    /\ menu' = [menu EXCEPT ![c] = NoMenu]
    /\ UNCHANGED <<moving, open, wmVars>>
-----------------------------------------------------------------------------
(* indun_solo *)

\* can_enter: a character with no group gets his own key; level, quest and item may refuse as in the stock game
CanEnter(c) == IF party[c] # NoParty THEN party[c] ELSE Solo(c)
Click(c) ==
    /\ where[c] = Town /\ c \notin moving
    /\ menu' = [menu EXCEPT ![c] = [kind |-> "enter", key |-> CanEnter(c)]]
    /\ UNCHANGED <<partyVars, where, moving, open, buff, wmVars>>

\* mutated: the patched jump lets every key through
GateAnswerAny(c) == TRUE
\* solo_type: somebody with no party goes on with a solo key only
GateAnswer(c) == party[c] # NoParty \/ menu[c].key >= KeyBase

\* those who have an instance of their own
Entrants == {c \in Chars : Solo(c) \in open}
\* mutated: a member's solo instance is looked for first
SoloFirst(k) ==
    IF k >= KeyBase THEN k ELSE LET solos == Keep(slots[k], Entrants) IN IF solos # <<>> THEN Solo(Head(solos)) ELSE k
\* find_instance: a party without an instance of its own inherits the first member's; a key that finds none makes one
FindInstance(k) ==
    IF k \in open \/ k >= KeyBase THEN k
    ELSE LET solos == Keep(slots[k], Entrants) IN IF solos = <<>> THEN k ELSE Solo(Head(solos))

Moves(c, to) == where' = [where EXCEPT ![c] = to] /\ moving' = moving \cup {c}

Yes(c) ==
    /\ menu[c].kind = "enter" /\ where[c] = Town /\ c \notin moving /\ Cardinality(moving) < MaxMoving
    /\ Cardinality(open \cup {FindInstance(menu[c].key)}) =< MaxOpen
    /\ menu' = [menu EXCEPT ![c] = NoMenu]
    /\ IF ~GateAnswer(c) THEN UNCHANGED <<where, moving, open>>
       ELSE Moves(c, FindInstance(menu[c].key)) /\ open' = open \cup {FindInstance(menu[c].key)}
    /\ UNCHANGED <<partyVars, buff, wmVars>>

\* mutated: only the newcomer is looked at
WarnJoiner(s, p, c) == {x \in {c} : where[x] = Solo(x) /\ p \in open}
\* warn_split: every member here who stands in his own solo instance while the party has another
WarnSplit(s, p, c) == {x \in SetOf(s) : where[x] = Solo(x) /\ p \in open}

\* party_join and join_impl: the slot and the number; the object comes with pm_HandleSet
Join(c, p) ==
    /\ party[c] = NoParty /\ Here(c)
    /\ LET n == [Now EXCEPT !.party[c] = p, !.slots[p] = Append(@, c)]
       IN /\ Becomes(n) /\ buff' = RefreshParty(buff, n, p, {})
          /\ menu' = [x \in Chars |-> IF x \in WarnSplit(n.slots[p], p, c) THEN [kind |-> "warning", key |-> NoParty] ELSE menu[x]]
    /\ UNCHANGED <<moving, open, wmVars>>

\* leave_command, or the way out; nothing outside an instance
LeaveDungeon(c) ==
    /\ where[c] \in Keys /\ c \notin moving /\ Cardinality(moving) < MaxMoving
    /\ Moves(c, Town)
    /\ UNCHANGED <<partyVars, open, menu, buff, wmVars>>

\* back in this zone, on the way in
ComeBack(c) ==
    /\ ~Here(c) /\ Cardinality(moving) < MaxMoving
    /\ Moves(c, Town)
    /\ UNCHANGED <<partyVars, open, menu, buff, wmVars>>
-----------------------------------------------------------------------------
(* wm_indun_solo: the countdown of an empty instance *)

\* mutated: a party found by the low half of any key
StockAudience(k) == IF k % KeyBase \in Parties THEN slots[k % KeyBase] ELSE <<>>
\* a solo key is answered for the character itself, every other by the stock handler
Audience(k) == IF k >= KeyBase THEN <<k - KeyBase>> ELSE StockAudience(k)

\* empty_cmd: the notice to all, the question to the first (a party's leader) if he is in this zone
Empty(k) ==
    /\ k \in open \ empty /\ Inside(k) = {}
    /\ empty' = empty \cup {k}
    /\ noticed' = SetOf(Audience(k)) \X {k}
    /\ menu' = IF Audience(k) = <<>> \/ ~Here(Head(Audience(k))) THEN menu
               ELSE [menu EXCEPT ![Head(Audience(k))] = [kind |-> "delete", key |-> k]]
    /\ UNCHANGED <<partyVars, where, moving, open, buff>>

\* reset_cmd: somebody is back inside; the question stays open
Reset(k) ==
    /\ k \in empty /\ Inside(k) # {}
    /\ empty' = empty \ {k}
    /\ noticed' = noticed \ (SetOf(Audience(k)) \X {k})
    /\ UNCHANGED <<partyVars, where, moving, open, menu, buff>>

Closed(k) ==
    /\ open' = open \ {k} /\ empty' = empty \ {k}
    /\ where' = [c \in Chars |-> IF where[c] = k THEN Town ELSE where[c]]
    /\ moving' = moving \cup Inside(k)
    /\ noticed' = {x \in noticed : x[2] # k}
    /\ UNCHANGED <<partyVars, buff>>

\* the five minutes are over, or Yes to "delete?": that one asks nobody who is back inside
Expire(k) == k \in empty /\ Inside(k) = {} /\ Closed(k) /\ UNCHANGED menu
Delete(c) == menu[c].kind = "delete" /\ Closed(menu[c].key) /\ menu' = [menu EXCEPT ![c] = NoMenu]

Init ==
    /\ party = [c \in Chars |-> NoParty] /\ slots = [p \in Parties |-> <<>>] /\ objs = {}
    /\ where = [c \in Chars |-> Town] /\ moving = {} /\ open = {} /\ menu = [c \in Chars |-> NoMenu]
    /\ buff = [c \in Chars |-> 0] /\ empty = {} /\ noticed = {}

Step ==
    \/ \E c \in Chars :
         \/ LoginComplete(c) \/ Revive(c) \/ Leave(c) \/ Gone(c) \/ ComeBack(c) \/ Click(c) \/ Yes(c) \/ LeaveDungeon(c) \/ Delete(c)
         \/ \E p \in Parties : Join(c, p)
    \/ \E p \in Parties : Break(p)
    \/ \E k \in Keys : Empty(k) \/ Reset(k) \/ Expire(k)
Next == (Settled /\ Step) \/ (\E c \in Chars : HandleSet(c))

Spec == Init /\ [][Next]_vars
-----------------------------------------------------------------------------
\* With every object known and nobody on a loading screen, each carries the state of exactly the members of his party on his
\* map, a loner that of one, and outside an instance nobody carries any: after every order of joins, leaves and map changes.
Group(c) == IF party[c] = NoParty THEN {c} ELSE {x \in Chars : party[x] = party[c]}
BuffFits ==
    moving = {} /\ Settled =>
        \A c \in Chars : LET size == Cardinality({x \in Group(c) : where[x] = where[c]})
                        IN buff[c] = IF where[c] \in Keys /\ size =< kMaxMembers THEN size ELSE 0

\* The key of the click decides: alone one comes into one's own instance only, a party's key leads into the party's instance
\* if it has one, else into one a member of it opened.
EntersByRight ==
    [][\A c \in Chars : where'[c] # where[c] /\ where'[c] \in Keys =>
          /\ party[c] = NoParty => where'[c] = Solo(c)
          /\ LET k == menu[c].key IN
             IF k >= KeyBase THEN where'[c] = Solo(c)
             ELSE where'[c] = k \/ (k \notin open /\ \E x \in SetOf(slots[k]) : where'[c] = Solo(x))]_vars

\* A join that leaves somebody of the party in another instance than the party's tells him, whoever it was that joined.
SplitIsTold ==
    [][\A p \in Parties : Len(slots'[p]) > Len(slots[p]) =>
          \A x \in SetOf(slots'[p]) : where[x] = Solo(x) /\ p \in open => menu'[x].kind = "warning"]_vars

\* The countdown and the question about an instance go to those it belongs to: never to a party whose number the low half of
\* a solo key happens to be.
AsksTheOwner ==
    [][/\ \A x \in noticed' \ noticed : x[2] = Solo(x[1]) \/ (x[2] \in Parties /\ x[1] \in SetOf(slots[x[2]]))
       /\ \A c \in Chars : menu'[c] # menu[c] /\ menu'[c].kind = "delete" =>
             menu'[c].key = Solo(c) \/ (menu'[c].key \in Parties /\ c = Head(slots[menu'[c].key]))]_vars
=============================================================================
