--------------------------- MODULE StorageProofs ---------------------------
(***************************************************************************)
(* The bag, for any number of items, characters, player objects and calls  *)
(* and any page size.  The titles: the stock bytes and the side table      *)
(* implement one title set for each player object, for any number of       *)
(* types, objects and values, beside the bag and the vaults.  And the      *)
(* vaults: what the plugin has gathered while the zone asks is what the    *)
(* rows of the vault say.                                                  *)
(***************************************************************************)
EXTENDS ZoneStorage, FiniteSetTheorems, TLAPS

(***************************************************************************)
(* The bag (VoidBag).                                                      *)
(***************************************************************************)
\* The actions a step of Next can be, by name.
LEMMA NextCases ==
    ASSUME Next
    PROVE  \/ \E p \in Objs, c \in Chars : Occupy(p, c)
           \/ \E p \in Objs : StoreInventory(p)
           \/ \E p \in Objs : StoreOthers(p)
           \/ \E p \in Objs : Logout(p)
           \/ \E p \in Objs, from, to \in Spots, i \in Items : Move(p, from, to, i)
           \/ \E p \in Objs, from, to \in Spots, i, j \in Items : Exchange(p, from, to, i, j)
           \/ \E p \in Objs, n \in 1 .. kMaxVoidPages : UseVoidItem(p, n)
           \/ \E k \in Calls : PackVoid(k)
           \/ \E k \in Calls : AnswerError(k)
           \/ \E k \in Calls : \E got \in SUBSET rest[k] : \E p \in Objs : LoadReply(k, p, got)
           \/ \E k \in Calls : \E got \in SUBSET rest[k] : DropReply(k, got)
  BY DEF Next, Zone, Reply

\* A spot in bag 18 names a cell of the bag.
LEMMA SpotFacts ==
    ASSUME NEW spot \in Spots, NEW i \in Items
    PROVE  /\ spot[1] = kVoidBagId => spot[2] \in VoidSlots
           /\ spot = <<spot[1], spot[2]>>
           /\ InVoid(spot, i) \in Contents
           /\ \A c \in Chars : PlaceOf(c, spot) \in Places
  <1>1. \/ spot \in {kInventoryBagId} \X InvSlots
        \/ spot \in {kVoidBagId} \X VoidSlots
    BY DEF Spots
  <1>2. kInventoryBagId # kVoidBagId
    BY DEF kInventoryBagId, kVoidBagId
  <1>3. spot[1] = kVoidBagId => spot[2] \in VoidSlots
    BY <1>1, <1>2
  <1>4. spot = <<spot[1], spot[2]>>
    BY <1>1
  <1>5. InVoid(spot, i) \in Contents
    BY <1>3 DEF InVoid, Contents
  <1> QED BY <1>3, <1>4, <1>5 DEF Places

\* What a row says and what VoidRows collects are the same.
LEMMA VoidRowsElement ==
    ASSUME NEW c, NEW x
    PROVE  x \in VoidRows(c) <=>
             x \in VoidSlots \X Items /\ row[x[2]] = [char |-> c, bag |-> kVoidBagId, slot |-> x[1]]
  BY DEF VoidRows, RowsIn, PlaceOf

\* What each action leaves alone.
LEMMA Frames ==
    /\ \A p \in Objs, c \in Chars : Occupy(p, c) => UNCHANGED <<row, callVars>>
    /\ \A p \in Objs : StoreOthers(p) \/ Logout(p) => UNCHANGED <<row, callVars>>
    /\ \A p \in Objs, from, to \in Spots, i, j \in Items :
         Move(p, from, to, i) \/ Exchange(p, from, to, i, j)
           => UNCHANGED <<occ, stage, parts, owner, loaded, callVars>>
    /\ \A p \in Objs, n \in 1 .. kMaxVoidPages :
         UseVoidItem(p, n) => UNCHANGED <<row, zoneVars, callVars>>
    /\ \A k \in Calls : PackVoid(k) \/ AnswerError(k) => UNCHANGED <<row, zoneVars>>
    /\ \A k \in Calls : \A got : DropReply(k, got) => UNCHANGED <<row, zoneVars>>
    /\ UNCHANGED vars => UNCHANGED <<row, zoneVars, callVars>>
    /\ UNCHANGED zoneVars => UNCHANGED <<occ, stage, parts, owner, loaded>>
  BY DEF Occupy, StoreOthers, Logout, Move, Exchange, Rebag, UseVoidItem, PackVoid, AnswerError,
         DropReply, vars, zoneVars

-----------------------------------------------------------------------------
LEMMA TypeInit == Init => TypeOK
  BY DEF Init, TypeOK, Contents

LEMMA TypeStep == TypeOK /\ WhoIsWhere /\ [Next]_vars => TypeOK'
  <1> SUFFICES ASSUME TypeOK, WhoIsWhere, [Next]_vars PROVE TypeOK'
    OBVIOUS
  <1>1. ASSUME NEW p \in Objs, NEW c \in Chars, Occupy(p, c) PROVE TypeOK'
    BY <1>1 DEF TypeOK, Occupy, callVars, Contents
  <1>2. ASSUME NEW p \in Objs, StoreInventory(p) PROVE TypeOK'
    <2>1. occ[p] \in Chars
      BY <1>2 DEF TypeOK, StoreInventory, Arrived, WhoIsWhere
    <2>2. /\ parts' \in [Objs -> SUBSET Parts]
          /\ stage' \in [Objs -> {"free", "entering", "playing"}]
      BY <1>2 DEF TypeOK, StoreInventory, Arrived, Parts
    <2>3. /\ cells' \in [Objs -> Contents]
          /\ loaded' \in [Objs -> BOOLEAN]
          /\ owner' \in [Objs -> Chars \union {NoChar}]
      BY <1>2, <2>1 DEF TypeOK, StoreInventory, Contents
    <2>4. /\ asked' \in [Calls -> Chars \union {NoChar}]
          /\ unread' \in [Calls -> BOOLEAN]
          /\ rest' \in [Calls -> Contents]
          /\ begun' \in [Calls -> BOOLEAN]
      <3>1. CASE UNCHANGED callVars
        BY <3>1 DEF TypeOK, callVars
      <3>2. CASE \E k \in Calls : /\ asked' = [asked EXCEPT ![k] = occ[p]]
                                  /\ unread' = [unread EXCEPT ![k] = TRUE]
                                  /\ UNCHANGED <<rest, begun>>
        BY <2>1, <3>2 DEF TypeOK
      <3> QED BY <1>2, <3>1, <3>2 DEF StoreInventory, RequestVoidList
    <2> QED BY <1>2, <2>2, <2>3, <2>4 DEF TypeOK, StoreInventory
  <1>3. ASSUME NEW p \in Objs, StoreOthers(p) PROVE TypeOK'
    BY <1>3 DEF TypeOK, StoreOthers, Arrived, Parts, callVars
  <1>4. ASSUME NEW p \in Objs, Logout(p) PROVE TypeOK'
    BY <1>4 DEF TypeOK, Logout, callVars, Contents
  <1>5. ASSUME NEW p \in Objs, NEW from \in Spots, NEW to \in Spots, NEW i \in Items,
               Move(p, from, to, i)
        PROVE  TypeOK'
    <2>1. occ[p] \in Chars
      BY <1>5 DEF TypeOK, Move, Resolved, WhoIsWhere
    <2>2. row' \in [Items -> Places]
      BY <1>5, <2>1, SpotFacts DEF TypeOK, Move
    <2>3. cells' \in [Objs -> Contents] /\ client' \in [Objs -> Contents]
      <3>1. \A in, out \in Contents : /\ (cells[p] \ out) \union in \in Contents
                                      /\ (client[p] \ out) \union in \in Contents
        BY DEF TypeOK, Contents
      <3> QED BY <1>5, <3>1, SpotFacts DEF TypeOK, Move, Rebag
    <2> QED BY <1>5, <2>2, <2>3 DEF TypeOK, Move, Rebag, callVars
  <1>6. ASSUME NEW p \in Objs, NEW from \in Spots, NEW to \in Spots,
               NEW i \in Items, NEW j \in Items, Exchange(p, from, to, i, j)
        PROVE  TypeOK'
    <2>1. occ[p] \in Chars
      BY <1>6 DEF TypeOK, Exchange, Resolved, WhoIsWhere
    <2>2. row' \in [Items -> Places]
      BY <1>6, <2>1, SpotFacts DEF TypeOK, Exchange
    <2>3. cells' \in [Objs -> Contents] /\ client' \in [Objs -> Contents]
      <3>1. \A in, out \in Contents : /\ (cells[p] \ out) \union in \in Contents
                                      /\ (client[p] \ out) \union in \in Contents
        BY DEF TypeOK, Contents
      <3>2. /\ InVoid(from, i) \union InVoid(to, j) \in Contents
            /\ InVoid(to, i) \union InVoid(from, j) \in Contents
        BY SpotFacts DEF Contents
      <3> QED BY <1>6, <3>1, <3>2 DEF TypeOK, Exchange, Rebag
    <2> QED BY <1>6, <2>2, <2>3 DEF TypeOK, Exchange, Rebag, callVars
  <1>7. ASSUME NEW p \in Objs, NEW n \in 1 .. kMaxVoidPages, UseVoidItem(p, n) PROVE TypeOK'
    <2>1. occ[p] \in Chars
      BY <1>7 DEF TypeOK, UseVoidItem, WhoIsWhere
    <2>2. pages' \in [Chars -> 0 .. kMaxVoidPages]
      BY <1>7, <2>1 DEF TypeOK, UseVoidItem, kMaxVoidPages
    <2> QED BY <1>7, <2>2 DEF TypeOK, UseVoidItem, zoneVars, callVars
  <1>8. ASSUME NEW k \in Calls, PackVoid(k) PROVE TypeOK'
    BY <1>8 DEF TypeOK, PackVoid, zoneVars, VoidRows, RowsIn, Contents
  <1>9. ASSUME NEW k \in Calls, AnswerError(k) PROVE TypeOK'
    BY <1>9 DEF TypeOK, AnswerError, EndCall, zoneVars, Contents
  <1>10. ASSUME NEW k \in Calls, NEW got \in SUBSET rest[k], Advance(k, got)
         PROVE  /\ asked' \in [Calls -> Chars \union {NoChar}]
                /\ unread' \in [Calls -> BOOLEAN]
                /\ rest' \in [Calls -> Contents]
                /\ begun' \in [Calls -> BOOLEAN]
    <2>1. CASE got = rest[k]
      BY <1>10, <2>1 DEF TypeOK, Advance, EndCall, Contents
    <2>2. CASE got # rest[k]
      <3>1. rest[k] \ got \in Contents
        BY DEF TypeOK, Contents
      <3> QED BY <1>10, <2>2, <3>1 DEF TypeOK, Advance
    <2> QED BY <2>1, <2>2
  <1>11. ASSUME NEW k \in Calls, NEW got \in SUBSET rest[k], NEW p \in Objs,
                LoadReply(k, p, got)
         PROVE  TypeOK'
    <2> DEFINE full == Filed(IF ~begun[k] THEN {} ELSE cells[p], got)
    <2>1. full \in Contents
      BY DEF TypeOK, Filed, Contents
    <2>2. cells' \in [Objs -> Contents] /\ client' \in [Objs -> Contents]
      BY <1>11, <2>1 DEF TypeOK, LoadReply
    <2>3. loaded' \in [Objs -> BOOLEAN]
      BY <1>11 DEF TypeOK, LoadReply
    <2> QED BY <1>10, <1>11, <2>2, <2>3 DEF TypeOK, LoadReply
  <1>12. ASSUME NEW k \in Calls, NEW got \in SUBSET rest[k], DropReply(k, got) PROVE TypeOK'
    BY <1>10, <1>12 DEF TypeOK, DropReply, zoneVars
  <1>13. CASE UNCHANGED vars
    BY <1>13 DEF TypeOK, vars, zoneVars, callVars
  <1> QED BY <1>1, <1>2, <1>3, <1>4, <1>5, <1>6, <1>7, <1>8, <1>9, <1>11, <1>12, <1>13, NextCases

-----------------------------------------------------------------------------
(* Who is where. *)

LEMMA WhoInit == Init => WhoIsWhere /\ CallsInOrder
  BY DEF Init, WhoIsWhere, CallsInOrder, OneBagPerCharacter

\* Steps that touch neither objects nor bags keep who is where.
LEMMA WhoUnchanged ==
    ASSUME WhoIsWhere, UNCHANGED <<occ, stage, parts, owner, loaded>>
    PROVE  WhoIsWhere'
  BY DEF WhoIsWhere, OneBagPerCharacter

LEMMA WhoStep == TypeOK /\ WhoIsWhere /\ [Next]_vars => WhoIsWhere'
  <1> SUFFICES ASSUME TypeOK, WhoIsWhere, [Next]_vars PROVE WhoIsWhere'
    OBVIOUS
  <1>1. ASSUME NEW p \in Objs, NEW c \in Chars, Occupy(p, c) PROVE WhoIsWhere'
    BY <1>1 DEF Occupy, TypeOK, WhoIsWhere, OneBagPerCharacter, Parts
  <1>2. ASSUME NEW p \in Objs, StoreInventory(p) PROVE WhoIsWhere'
    <2>1. /\ stage[p] = "entering" /\ occ[p] \in Chars
          /\ parts' = [parts EXCEPT ![p] = @ \union {"inventory"}]
          /\ stage' = [stage EXCEPT ![p] = IF parts[p] \union {"inventory"} = Parts
                                           THEN "playing" ELSE @]
          /\ occ' = occ
      BY <1>2 DEF StoreInventory, Arrived, WhoIsWhere
    <2>2. \A q \in Objs : /\ loaded'[q] <=> loaded[q] /\ q # p /\ owner[q] # occ[p]
                          /\ owner'[q] = IF q = p THEN occ[p]
                                         ELSE IF owner[q] = occ[p] THEN NoChar ELSE owner[q]
      BY <1>2 DEF StoreInventory, Stale
    <2>3. \A q \in Objs : /\ stage'[q] # "free" <=> stage[q] # "free"
                          /\ q # p => stage'[q] = stage[q] /\ parts'[q] = parts[q]
                          /\ stage'[q] = "playing" => parts'[q] = Parts
      BY <2>1 DEF TypeOK, WhoIsWhere
    <2>4. OneBagPerCharacter'
      BY <2>1, <2>2, ConstantsOK DEF WhoIsWhere, OneBagPerCharacter
    <2>5. \A q \in Objs : loaded'[q] => owner'[q] # NoChar
      BY <2>2 DEF WhoIsWhere
    <2>6. \A q \in Objs : stage'[q] # "free" /\ "inventory" \in parts'[q]
                            => owner'[q] = occ'[q]
      BY <2>1, <2>2, <2>3 DEF WhoIsWhere
    <2> QED BY <2>1, <2>3, <2>4, <2>5, <2>6 DEF WhoIsWhere
  <1>3. ASSUME NEW p \in Objs, StoreOthers(p) PROVE WhoIsWhere'
    BY <1>3 DEF StoreOthers, Arrived, TypeOK, WhoIsWhere, OneBagPerCharacter
  <1>4. ASSUME NEW p \in Objs, Logout(p) PROVE WhoIsWhere'
    BY <1>4 DEF Logout, TypeOK, WhoIsWhere, OneBagPerCharacter
  <1>5. ASSUME NEW k \in Calls, NEW got \in SUBSET rest[k], NEW p \in Objs,
               LoadReply(k, p, got)
        PROVE  WhoIsWhere'
    <2>1. owner[p] # NoChar
      BY <1>5 DEF LoadReply, NextReply, Matches
    <2> QED BY <1>5, <2>1 DEF LoadReply, TypeOK, WhoIsWhere, OneBagPerCharacter
  <1>6. ASSUME UNCHANGED <<occ, stage, parts, owner, loaded>> PROVE WhoIsWhere'
    BY <1>6, WhoUnchanged
  <1> QED BY <1>1, <1>2, <1>3, <1>4, <1>5, <1>6, NextCases, Frames

LEMMA CallsStep == TypeOK /\ CallsInOrder /\ WhoIsWhere /\ [Next]_vars => CallsInOrder'
  <1> SUFFICES ASSUME TypeOK, CallsInOrder, WhoIsWhere, [Next]_vars PROVE CallsInOrder'
    OBVIOUS
  <1>1. ASSUME NEW p \in Objs, StoreInventory(p) PROVE CallsInOrder'
    BY <1>1, ConstantsOK DEF StoreInventory, Arrived, RequestVoidList, callVars, TypeOK,
                             WhoIsWhere, CallsInOrder
  <1>2. ASSUME NEW k \in Calls, PackVoid(k) PROVE CallsInOrder'
    BY <1>2 DEF PackVoid, TypeOK, CallsInOrder
  <1>3. ASSUME NEW k \in Calls, EndCall(k) PROVE CallsInOrder'
    BY <1>3 DEF EndCall, TypeOK, CallsInOrder
  <1>4. ASSUME NEW k \in Calls, NEW got, NextReply(k, got), Advance(k, got)
        PROVE  CallsInOrder'
    BY <1>3, <1>4 DEF NextReply, Advance, TypeOK, CallsInOrder
  <1>5. ASSUME UNCHANGED callVars PROVE CallsInOrder'
    BY <1>5 DEF callVars, CallsInOrder
  <1>6. ASSUME NEW k \in Calls, AnswerError(k) PROVE CallsInOrder'
    BY <1>3, <1>6 DEF AnswerError
  <1>7. ASSUME NEW k \in Calls, NEW got, NEW p, LoadReply(k, p, got) \/ DropReply(k, got)
        PROVE  CallsInOrder'
    BY <1>4, <1>7 DEF LoadReply, DropReply
  <1> QED BY <1>1, <1>2, <1>5, <1>6, <1>7, NextCases, Frames

-----------------------------------------------------------------------------
(* Whose items. *)

LEMMA ElementTypes ==
    ASSUME TypeOK
    PROVE  /\ \A p \in Objs : \A x \in cells[p] : x[2] \in Items
           /\ \A p \in Objs : \A x \in client[p] : x[2] \in Items
           /\ \A k \in Calls : \A x \in rest[k] : x[2] \in Items
  BY DEF TypeOK, Contents

\* An item the move handler finds on an object belongs to who plays on it.
LEMMA ViewOwn ==
    ASSUME TypeOK, WhoIsWhere, OwnItems,
           NEW p \in Objs, NEW from \in Spots, NEW i \in Items,
           stage[p] = "playing", from[1] = kVoidBagId => VoidBagOf(p),
           <<from[2], i>> \in View(p, from[1])
    PROVE  row[i].char = occ[p]
  <1>1. owner[p] = occ[p] /\ owner[p] # NoChar
    BY ConstantsOK DEF WhoIsWhere, Parts
  <1>2. CASE from[1] = kVoidBagId
    BY <1>1, <1>2 DEF View, OwnItems
  <1>3. CASE from[1] # kVoidBagId
    BY <1>3 DEF View, RowsIn, PlaceOf
  <1> QED BY <1>2, <1>3

LEMMA MovesKeepOwners ==
    ASSUME TypeOK, WhoIsWhere, OwnItems, NEW p \in Objs,
           NEW from \in Spots, NEW to \in Spots, NEW i \in Items, NEW j \in Items,
           Move(p, from, to, i) \/ Exchange(p, from, to, i, j)
    PROVE  \A k \in Items : row'[k].char = row[k].char
  <1>1. \A c, s : PlaceOf(c, s).char = c
    BY DEF PlaceOf
  <1>2. row \in [Items -> Places]
    BY DEF TypeOK
  <1>3. CASE Move(p, from, to, i)
    <2>1. row[i].char = occ[p]
      BY <1>3, ViewOwn DEF Move, Resolved
    <2>2. row' = [row EXCEPT ![i] = PlaceOf(occ[p], to)]
      BY <1>3 DEF Move
    <2> QED BY <1>1, <1>2, <2>1, <2>2
  <1>4. CASE Exchange(p, from, to, i, j)
    <2>1. row[i].char = occ[p]
      BY <1>4, ViewOwn DEF Exchange, Resolved
    <2>2. row[j].char = occ[p]
      BY <1>4, ViewOwn DEF Exchange, Resolved
    <2>3. row' = [row EXCEPT ![i] = PlaceOf(occ[p], to), ![j] = PlaceOf(occ[p], from)]
      BY <1>4 DEF Exchange
    <2> QED BY <1>1, <1>2, <2>1, <2>2, <2>3
  <1> QED BY <1>3, <1>4

LEMMA OwnStep == TypeOK /\ WhoIsWhere /\ CallsInOrder /\ OwnItems /\ [Next]_vars => OwnItems'
  <1> SUFFICES ASSUME TypeOK, WhoIsWhere, CallsInOrder, OwnItems, [Next]_vars PROVE OwnItems'
    OBVIOUS
  <1>1. ASSUME NEW p \in Objs, NEW c \in Chars, Occupy(p, c) PROVE OwnItems'
    BY <1>1 DEF Occupy, TypeOK, OwnItems, callVars
  <1>2. ASSUME NEW p \in Objs, StoreInventory(p) PROVE OwnItems'
    <2>1. \A q \in Objs : /\ cells'[q] = IF q = p THEN {} ELSE cells[q]
                          /\ owner'[q] \in {owner[q], NoChar} \/ q = p
                          /\ stage'[q] # "free" => stage[q] # "free"
                          /\ client'[q] = client[q] /\ occ'[q] = occ[q]
      BY <1>2 DEF StoreInventory, Arrived, TypeOK
    <2>2. \A k \in Calls : rest'[k] = rest[k] /\ (rest[k] # {} => asked'[k] = asked[k])
      BY <1>2 DEF StoreInventory, RequestVoidList, callVars, TypeOK, CallsInOrder
    <2>3. row' = row
      BY <1>2 DEF StoreInventory
    <2> QED BY <2>1, <2>2, <2>3 DEF OwnItems
  <1>3. ASSUME NEW p \in Objs, StoreOthers(p) PROVE OwnItems'
    BY <1>3 DEF StoreOthers, Arrived, TypeOK, OwnItems, callVars
  <1>4. ASSUME NEW p \in Objs, Logout(p) PROVE OwnItems'
    BY <1>4 DEF Logout, TypeOK, OwnItems, callVars
  <1>5. ASSUME NEW p \in Objs, NEW from \in Spots, NEW to \in Spots, NEW i \in Items,
               NEW j \in Items, Move(p, from, to, i) \/ Exchange(p, from, to, i, j)
        PROVE  OwnItems'
    <2>1. \A k \in Items : row'[k].char = row[k].char
      BY <1>5, MovesKeepOwners
    <2>2. /\ row[i].char = occ[p]
          /\ Exchange(p, from, to, i, j) => row[j].char = occ[p]
          /\ owner[p] = occ[p]
      BY <1>5, ViewOwn DEF Move, Exchange, Resolved, WhoIsWhere, Parts
    <2>3. \A spot, k, x : x \in InVoid(spot, k) => x[2] = k
      BY DEF InVoid
    <2>4. \A q \in Objs : /\ \A x \in cells'[q] : x \in cells[q] \/ (q = p /\ x[2] = i)
                               \/ (q = p /\ Exchange(p, from, to, i, j) /\ x[2] = j)
                          /\ \A x \in client'[q] : x \in client[q] \/ (q = p /\ x[2] = i)
                               \/ (q = p /\ Exchange(p, from, to, i, j) /\ x[2] = j)
      <3>1. CASE Move(p, from, to, i)
        BY <2>3, <3>1 DEF Move, Rebag, TypeOK
      <3>2. CASE Exchange(p, from, to, i, j)
        BY <2>3, <3>2 DEF Exchange, Rebag, TypeOK
      <3> QED BY <1>5, <3>1, <3>2
    <2>5. UNCHANGED <<occ, stage, owner, rest, asked>>
      BY <1>5, Frames DEF callVars
    <2> QED BY <2>1, <2>2, <2>4, <2>5, ElementTypes DEF OwnItems
  <1>6. ASSUME NEW k \in Calls, PackVoid(k) PROVE OwnItems'
    <2>1. \A x \in VoidRows(asked[k]) : row[x[2]].char = asked[k]
      BY DEF VoidRows, RowsIn, PlaceOf
    <2> QED BY <1>6, <2>1 DEF PackVoid, TypeOK, OwnItems, zoneVars
  <1>7. ASSUME NEW k \in Calls, EndCall(k), UNCHANGED <<row, zoneVars>> PROVE OwnItems'
    BY <1>7 DEF EndCall, TypeOK, OwnItems, zoneVars
  <1>8. ASSUME NEW k \in Calls, NEW got, Advance(k, got)
        PROVE  \A l \in Calls : rest'[l] \subseteq rest[l] /\ (rest'[l] # {} => asked'[l] = asked[l])
    BY <1>8 DEF Advance, EndCall, TypeOK
  <1>9. ASSUME NEW k \in Calls, NEW got \in SUBSET rest[k], DropReply(k, got) PROVE OwnItems'
    BY <1>8, <1>9 DEF DropReply, OwnItems, zoneVars
  <1>10. ASSUME NEW k \in Calls, NEW got \in SUBSET rest[k], NEW p \in Objs,
                LoadReply(k, p, got)
         PROVE  OwnItems'
    <2>1. owner[p] = asked[k] /\ occ[p] = asked[k] /\ owner[p] # NoChar
      BY <1>10 DEF LoadReply, NextReply, Matches
    <2>2. \A q \in Objs : /\ \A x \in cells'[q] : x \in cells[q] \/ (q = p /\ x \in got)
                          /\ \A x \in client'[q] : \/ x \in client[q]
                                                   \/ q = p /\ x \in cells[p] \union got
      BY <1>10 DEF LoadReply, Filed, TypeOK
    <2>3. /\ UNCHANGED <<row, occ, stage, owner>>
          /\ \A l \in Calls : rest'[l] \subseteq rest[l] /\ (rest'[l] # {} => asked'[l] = asked[l])
      BY <1>8, <1>10 DEF LoadReply
    <2> QED BY <2>1, <2>2, <2>3 DEF OwnItems
  <1>11. ASSUME UNCHANGED <<row, zoneVars, callVars>> PROVE OwnItems'
    BY <1>11 DEF OwnItems, zoneVars, callVars
  <1>12. ASSUME NEW k \in Calls, AnswerError(k) PROVE OwnItems'
    BY <1>7, <1>12, Frames DEF AnswerError
  <1>13. CASE UNCHANGED vars
    BY <1>11, <1>13, Frames
  <1> QED BY <1>1, <1>2, <1>3, <1>4, <1>5, <1>6, <1>9, <1>10, <1>11, <1>12, <1>13, NextCases, Frames

LEMMA LoginStep == LoginInv /\ [Next]_vars => LoginInv'
  BY TypeStep, WhoStep, CallsStep, OwnStep DEF LoginInv

\* The login invariant holds whatever the logins do, overlapping ones included.
THEOREM LoginInvariant == Spec => []LoginInv
  <1>1. Init => LoginInv
    BY TypeInit, WhoInit DEF LoginInv, OwnItems, Init
  <1> QED BY <1>1, LoginStep, PTL DEF Spec

\* Every variable keeps its type (VoidBag's state, whatever the constants).
THEOREM TypeCorrect == Spec => []TypeOK
  <1>1. LoginInv => TypeOK
    BY DEF LoginInv
  <1> QED BY <1>1, LoginInvariant, PTL

\* No two bags answer to one character, in any order of logins, logouts, object
\* reuse and replies: what store_impl's release loop is for.
THEOREM AtMostOneBag == Spec => []OneBagPerCharacter
  <1>1. LoginInv => OneBagPerCharacter
    BY DEF LoginInv, WhoIsWhere
  <1> QED BY <1>1, LoginInvariant, PTL

\* One character's void items never show up for another, neither in a bag a move
\* can reach nor at a client, whatever the order of logins and replies.
THEOREM OnlyOwnItems == Spec => []NoForeignItems
  <1>1. LoginInv => NoForeignItems
    BY DEF LoginInv, OwnItems, NoForeignItems, WhoIsWhere, VoidBagOf, Parts
  <1> QED BY <1>1, LoginInvariant, PTL

-----------------------------------------------------------------------------
(* Logins that do not overlap: the bag is the rows. *)

\* What the move handler sees at a spot is what tItem has there.
LEMMA ViewIsTheRows ==
    ASSUME ListInv, NEW p \in Objs, NEW spot \in Spots, NEW i \in Items,
           stage[p] = "playing", spot[1] = kVoidBagId => VoidBagOf(p)
    PROVE  <<spot[2], i>> \in View(p, spot[1]) <=> row[i] = PlaceOf(occ[p], spot)
  <1>1. owner[p] = occ[p]
    BY DEF ListInv, LoginInv, WhoIsWhere, Parts
  <1>2. CASE spot[1] = kVoidBagId
    <2>1. View(p, spot[1]) = VoidRows(occ[p])
      BY <1>1, <1>2 DEF View, VoidBagOf, ListInv, LoadedBagIsTheRows
    <2> QED BY <1>2, <2>1, SpotFacts DEF VoidRows, RowsIn, PlaceOf
  <1>3. CASE spot[1] # kVoidBagId
    <2>1. spot[1] = kInventoryBagId /\ spot[2] \in InvSlots
      BY <1>3 DEF Spots
    <2> QED BY <1>3, <2>1 DEF View, RowsIn, PlaceOf
  <1> QED BY <1>2, <1>3

LEMMA PlaceOfInjective ==
    ASSUME NEW c, NEW d, NEW s \in Spots, NEW t \in Spots, PlaceOf(c, s) = PlaceOf(d, t)
    PROVE  c = d /\ s = t
  <1>1. c = d /\ s[1] = t[1] /\ s[2] = t[2]
    BY DEF PlaceOf
  <1>2. \A z \in Spots : z = <<z[1], z[2]>>
    BY DEF Spots
  <1> QED BY <1>1, <1>2

\* A move judged on the bag puts the item into a place no row names.
LEMMA MoveIsRelocate ==
    ASSUME ListInv, NEW p \in Objs, NEW from \in Spots, NEW to \in Spots, NEW i \in Items,
           Move(p, from, to, i)
    PROVE  /\ row[i] = PlaceOf(occ[p], from)
           /\ \A j \in Items : row[j] # PlaceOf(occ[p], to)
           /\ row' = [row EXCEPT ![i] = PlaceOf(occ[p], to)]
  <1>1. stage[p] = "playing" /\ (from[1] = kVoidBagId \/ to[1] = kVoidBagId => VoidBagOf(p))
    BY DEF Move, Resolved
  <1> QED BY <1>1, ViewIsTheRows DEF Move

\* An exchange judged on the bag exchanges two rows.
LEMMA ExchangeIsSwap ==
    ASSUME ListInv, NEW p \in Objs, NEW from \in Spots, NEW to \in Spots,
           NEW i \in Items, NEW j \in Items, Exchange(p, from, to, i, j)
    PROVE  /\ row[i] = PlaceOf(occ[p], from) /\ row[j] = PlaceOf(occ[p], to) /\ i # j
           /\ row' = [row EXCEPT ![i] = PlaceOf(occ[p], to), ![j] = PlaceOf(occ[p], from)]
  <1>1. /\ stage[p] = "playing" /\ from # to
        /\ from[1] = kVoidBagId \/ to[1] = kVoidBagId => VoidBagOf(p)
    BY DEF Exchange, Resolved
  <1>2. row[i] = PlaceOf(occ[p], from) /\ row[j] = PlaceOf(occ[p], to)
    BY <1>1, ViewIsTheRows DEF Exchange
  <1>3. i # j
    BY <1>1, <1>2, PlaceOfInjective
  <1> QED BY <1>2, <1>3 DEF Exchange

\* How a move changes the rows of bag 18: as Rebag changes the bag.
LEMMA RowsAfterMove ==
    ASSUME ListInv, NEW p \in Objs, NEW from \in Spots, NEW to \in Spots, NEW i \in Items,
           Move(p, from, to, i)
    PROVE  /\ VoidRows(occ[p])' = (VoidRows(occ[p]) \ InVoid(from, i)) \union InVoid(to, i)
           /\ \A c : c # occ[p] => VoidRows(c)' = VoidRows(c)
  <1>1. occ' = occ /\ row \in [Items -> Places]
    BY DEF Move, Rebag, ListInv, LoginInv, TypeOK
  <1>2. \A k \in Items : row'[k] = IF k = i THEN PlaceOf(occ[p], to) ELSE row[k]
    BY <1>1, MoveIsRelocate
  <1>3. row[i] = PlaceOf(occ[p], from)
    BY MoveIsRelocate
  <1>4. ASSUME NEW c, c # occ[p] PROVE VoidRows(c)' = VoidRows(c)
    BY <1>1, <1>2, <1>3, <1>4 DEF VoidRows, RowsIn, PlaceOf
  <1>5. from[1] # kVoidBagId => \A s \in VoidSlots : <<s, i>> \notin VoidRows(occ[p])
    BY <1>3 DEF VoidRows, RowsIn, PlaceOf
  <1>6. ASSUME NEW s \in VoidSlots, NEW k \in Items
        PROVE  <<s, k>> \in VoidRows(occ[p])'
                 <=> <<s, k>> \in (VoidRows(occ[p]) \ InVoid(from, i)) \union InVoid(to, i)
    <2>1. CASE k # i
      BY <1>1, <1>2, <2>1 DEF VoidRows, RowsIn, PlaceOf, InVoid
    <2>2. CASE k = i
      BY <1>1, <1>2, <1>3, <2>2 DEF VoidRows, RowsIn, PlaceOf, InVoid
    <2> QED BY <2>1, <2>2
  <1>7. /\ VoidRows(occ[p])' \subseteq VoidSlots \X Items
        /\ (VoidRows(occ[p]) \ InVoid(from, i)) \union InVoid(to, i) \subseteq VoidSlots \X Items
    BY SpotFacts DEF VoidRows, RowsIn, Contents
  <1>8. VoidRows(occ[p])' = (VoidRows(occ[p]) \ InVoid(from, i)) \union InVoid(to, i)
    BY <1>6, <1>7
  <1> QED BY <1>4, <1>8

LEMMA RowsAfterExchange ==
    ASSUME ListInv, NEW p \in Objs, NEW from \in Spots, NEW to \in Spots,
           NEW i \in Items, NEW j \in Items, Exchange(p, from, to, i, j)
    PROVE  /\ VoidRows(occ[p])' = (VoidRows(occ[p]) \ (InVoid(from, i) \union InVoid(to, j)))
                                     \union (InVoid(to, i) \union InVoid(from, j))
           /\ \A c : c # occ[p] => VoidRows(c)' = VoidRows(c)
  <1> DEFINE after == (VoidRows(occ[p]) \ (InVoid(from, i) \union InVoid(to, j)))
                        \union (InVoid(to, i) \union InVoid(from, j))
  <1>1. occ' = occ /\ row \in [Items -> Places]
    BY DEF Exchange, Rebag, ListInv, LoginInv, TypeOK
  <1>2. \A k \in Items : row'[k] = IF k = i THEN PlaceOf(occ[p], to)
                                   ELSE IF k = j THEN PlaceOf(occ[p], from) ELSE row[k]
    BY <1>1, ExchangeIsSwap
  <1>3. row[i] = PlaceOf(occ[p], from) /\ row[j] = PlaceOf(occ[p], to) /\ i # j
    BY ExchangeIsSwap
  <1>4. ASSUME NEW c, c # occ[p] PROVE VoidRows(c)' = VoidRows(c)
    BY <1>1, <1>2, <1>3, <1>4 DEF VoidRows, RowsIn, PlaceOf
  <1>5. ASSUME NEW s \in VoidSlots, NEW k \in Items
        PROVE  <<s, k>> \in VoidRows(occ[p])' <=> <<s, k>> \in after
    <2>1. CASE k # i /\ k # j
      BY <1>1, <1>2, <2>1 DEF VoidRows, RowsIn, PlaceOf, InVoid
    <2>2. CASE k = i
      BY <1>1, <1>2, <1>3, <2>2 DEF VoidRows, RowsIn, PlaceOf, InVoid
    <2>3. CASE k = j
      BY <1>1, <1>2, <1>3, <2>3 DEF VoidRows, RowsIn, PlaceOf, InVoid
    <2> QED BY <2>1, <2>2, <2>3
  <1>6. VoidRows(occ[p])' \subseteq VoidSlots \X Items /\ after \subseteq VoidSlots \X Items
    BY SpotFacts DEF VoidRows, RowsIn, Contents
  <1>7. VoidRows(occ[p])' = after
    BY <1>5, <1>6
  <1> QED BY <1>4, <1>7

\* The two together, as the steps below use them.
LEMMA RowsFollowTheBag ==
    ASSUME ListInv, NEW p \in Objs, NEW from \in Spots, NEW to \in Spots,
           NEW i \in Items, NEW j \in Items, Move(p, from, to, i) \/ Exchange(p, from, to, i, j)
    PROVE  /\ loaded[p] => cells'[p] = VoidRows(occ[p])'
           /\ ~loaded[p] => VoidRows(occ[p])' = VoidRows(occ[p]) /\ cells'[p] = cells[p]
           /\ \A q \in Objs \ {p} : cells'[q] = cells[q]
           /\ \A c : c # occ[p] => VoidRows(c)' = VoidRows(c)
           /\ owner[p] = occ[p]
  <1>1. owner[p] = occ[p] /\ cells \in [Objs -> Contents]
    BY DEF ListInv, LoginInv, WhoIsWhere, TypeOK, Move, Exchange, Resolved, Parts
  <1>2. loaded[p] => cells[p] = VoidRows(occ[p])
    BY <1>1 DEF ListInv, LoadedBagIsTheRows
  <1>3. ~loaded[p] => \A k : InVoid(from, k) = {} /\ InVoid(to, k) = {}
    BY DEF Move, Exchange, Resolved, VoidBagOf, InVoid
  <1>4. CASE Move(p, from, to, i)
    <2> DEFINE out == InVoid(from, i)
               in == InVoid(to, i)
    <2>1. /\ VoidRows(occ[p])' = (VoidRows(occ[p]) \ out) \union in
          /\ \A c : c # occ[p] => VoidRows(c)' = VoidRows(c)
      BY <1>4, RowsAfterMove
    <2>2. cells' = [cells EXCEPT ![p] = (@ \ out) \union in]
      BY <1>4 DEF Move, Rebag
    <2>3. ~loaded[p] => out = {} /\ in = {}
      BY <1>3
    <2> HIDE DEF out, in
    <2>4. cells'[p] = (cells[p] \ out) \union in /\ \A q \in Objs \ {p} : cells'[q] = cells[q]
      BY <1>1, <2>2
    <2> QED BY <1>1, <1>2, <2>1, <2>3, <2>4
  <1>5. CASE Exchange(p, from, to, i, j)
    <2> DEFINE out == (InVoid(from, i) \union InVoid(to, j))
               in == (InVoid(to, i) \union InVoid(from, j))
    <2>1. /\ VoidRows(occ[p])' = (VoidRows(occ[p]) \ out) \union in
          /\ \A c : c # occ[p] => VoidRows(c)' = VoidRows(c)
      BY <1>5, RowsAfterExchange
    <2>2. cells' = [cells EXCEPT ![p] = (@ \ out) \union in]
      BY <1>5 DEF Exchange, Rebag
    <2>3. ~loaded[p] => out = {} /\ in = {}
      BY <1>3
    <2> HIDE DEF out, in
    <2>4. cells'[p] = (cells[p] \ out) \union in /\ \A q \in Objs \ {p} : cells'[q] = cells[q]
      BY <1>1, <2>2
    <2> QED BY <1>1, <1>2, <2>1, <2>3, <2>4
  <1> QED BY <1>4, <1>5

LEMMA OneListStep == ~Overlap /\ ListInv /\ [Next]_vars => OneListAtATime'
  <1> SUFFICES ASSUME ~Overlap, ListInv, [Next]_vars PROVE OneListAtATime'
    OBVIOUS
  <1>0. TypeOK /\ WhoIsWhere /\ OneListAtATime
    BY DEF ListInv, LoginInv
  <1>1. ASSUME NEW p \in Objs, NEW c \in Chars, Occupy(p, c) PROVE OneListAtATime'
    BY <1>0, <1>1 DEF Occupy, TypeOK, OneListAtATime, callVars
  <1>2. ASSUME NEW p \in Objs, StoreInventory(p) PROVE OneListAtATime'
    <2>1. /\ stage[p] = "entering" /\ "inventory" \notin parts[p] /\ occ[p] \in Chars
          /\ occ' = occ
          /\ \A q \in Objs : /\ stage'[q] # "free" <=> stage[q] # "free"
                             /\ q # p => parts'[q] = parts[q]
                             /\ loaded'[q] => loaded[q] /\ q # p
                             /\ owner'[q] = owner[q] \/ ~loaded'[q]
                             /\ owner'[q] = occ[p] => ~loaded'[q]
          /\ "inventory" \in parts'[p]
      BY <1>0, <1>2 DEF StoreInventory, Arrived, Stale, TypeOK, WhoIsWhere
    <2>2. \A k \in Calls : asked[k] # occ[p]
      BY <1>0, <2>1 DEF OneListAtATime
    <2>3. /\ \A k \in Calls : asked'[k] = asked[k] \/ asked'[k] = occ[p]
          /\ \A k, l \in Calls : asked'[k] = occ[p] /\ asked'[l] = occ[p] => k = l
      BY <1>0, <1>2, <2>2 DEF StoreInventory, RequestVoidList, callVars, TypeOK
    <2>4. \A k, l \in Calls : asked'[k] # NoChar /\ asked'[k] = asked'[l] => k = l
      BY <1>0, <2>2, <2>3 DEF OneListAtATime
    <2>5. \A q \in Objs, k \in Calls :
             stage'[q] # "free" /\ "inventory" \notin parts'[q] => asked'[k] # occ'[q]
      BY <1>0, <2>1, <2>3 DEF OneListAtATime, WhoIsWhere
    <2>6. \A q \in Objs, k \in Calls :
             asked'[k] # NoChar /\ owner'[q] = asked'[k] => ~loaded'[q]
      BY <1>0, <2>1, <2>3 DEF OneListAtATime
    <2> QED BY <2>4, <2>5, <2>6 DEF OneListAtATime
  <1>3. ASSUME NEW p \in Objs, StoreOthers(p) PROVE OneListAtATime'
    BY <1>0, <1>3 DEF StoreOthers, Arrived, TypeOK, OneListAtATime, callVars
  <1>4. ASSUME NEW p \in Objs, Logout(p) PROVE OneListAtATime'
    BY <1>0, <1>4 DEF Logout, TypeOK, OneListAtATime, callVars
  <1>5. ASSUME UNCHANGED <<occ, stage, parts, owner, loaded>>,
               \A k \in Calls : asked'[k] \in {asked[k], NoChar}
        PROVE  OneListAtATime'
    BY <1>0, <1>5, ConstantsOK DEF OneListAtATime, WhoIsWhere
  <1>6. ASSUME NEW k \in Calls, EndCall(k) \/ asked' = asked
        PROVE  \A l \in Calls : asked'[l] \in {asked[l], NoChar}
    BY <1>0, <1>6 DEF EndCall, TypeOK
  <1>7. ASSUME NEW k \in Calls, PackVoid(k) \/ AnswerError(k) PROVE OneListAtATime'
    <2>1. EndCall(k) \/ asked' = asked
      BY <1>7 DEF PackVoid, AnswerError
    <2> QED BY <1>5, <1>6, <1>7, <2>1, Frames
  <1>8. ASSUME NEW k \in Calls, NEW got, Advance(k, got) PROVE EndCall(k) \/ asked' = asked
    BY <1>8 DEF Advance
  <1>9. ASSUME NEW k \in Calls, NEW got, DropReply(k, got) PROVE OneListAtATime'
    <2>1. EndCall(k) \/ asked' = asked
      BY <1>8, <1>9 DEF DropReply
    <2> QED BY <1>5, <1>6, <1>9, <2>1, Frames
  <1>10. ASSUME NEW k \in Calls, NEW got \in SUBSET rest[k], NEW p \in Objs, LoadReply(k, p, got)
         PROVE  OneListAtATime'
    <2>1. /\ owner[p] = asked[k] /\ asked[k] # NoChar /\ ~loaded[p]
          /\ UNCHANGED <<occ, stage, parts, owner>>
          /\ loaded' = [loaded EXCEPT ![p] = got = rest[k] \/ (@ /\ begun[k])]
      BY <1>0, <1>10 DEF LoadReply, NextReply, Matches, OneListAtATime
    <2>2. \A q \in Objs : loaded'[q] => loaded[q] \/ (q = p /\ got = rest[k])
      BY <1>0, <2>1 DEF TypeOK
    <2>3. /\ \A l \in Calls : asked'[l] \in {asked[l], NoChar}
          /\ got = rest[k] => asked'[k] = NoChar
      BY <1>0, <1>6, <1>8, <1>10 DEF LoadReply, Advance, EndCall, TypeOK
    <2>4. \A q \in Objs, l \in Calls :
             asked'[l] # NoChar /\ owner'[q] = asked'[l] => ~loaded'[q]
      BY <1>0, <2>1, <2>2, <2>3 DEF OneListAtATime
    <2>5. \A l, m \in Calls : asked'[l] # NoChar /\ asked'[l] = asked'[m] => l = m
      BY <1>0, <2>3 DEF OneListAtATime
    <2>6. \A q \in Objs, l \in Calls :
             stage'[q] # "free" /\ "inventory" \notin parts'[q] => asked'[l] # occ'[q]
      BY <1>0, <2>1, <2>3, ConstantsOK DEF OneListAtATime, WhoIsWhere
    <2> QED BY <2>4, <2>5, <2>6 DEF OneListAtATime
  <1>11. ASSUME UNCHANGED <<occ, stage, parts, owner, loaded, callVars>> PROVE OneListAtATime'
    BY <1>0, <1>11 DEF OneListAtATime, callVars
  <1>12. ASSUME UNCHANGED <<zoneVars, callVars>> PROVE OneListAtATime'
    BY <1>0, <1>12 DEF OneListAtATime, callVars, zoneVars
  <1> QED BY <1>1, <1>2, <1>3, <1>4, <1>7, <1>9, <1>10, <1>11, <1>12, NextCases, Frames

LEMMA SharedSlotStep == ListInv /\ [Next]_vars => NoSharedSlot'
  <1> SUFFICES ASSUME ListInv, [Next]_vars PROVE NoSharedSlot'
    OBVIOUS
  <1>1. TypeOK /\ NoSharedSlot
    BY DEF ListInv, LoginInv
  <1>2. ASSUME NEW p \in Objs, NEW from \in Spots, NEW to \in Spots, NEW i \in Items,
               Move(p, from, to, i)
        PROVE  NoSharedSlot'
    <2>1. /\ \A j \in Items : row[j] # PlaceOf(occ[p], to)
          /\ row' = [row EXCEPT ![i] = PlaceOf(occ[p], to)]
      BY <1>2, MoveIsRelocate
    <2>2. \A k \in Items : row'[k] = IF k = i THEN PlaceOf(occ[p], to) ELSE row[k]
      BY <1>1, <2>1 DEF TypeOK
    <2> QED BY <1>1, <2>1, <2>2 DEF NoSharedSlot
  <1>3. ASSUME NEW p \in Objs, NEW from \in Spots, NEW to \in Spots, NEW i \in Items,
               NEW j \in Items, Exchange(p, from, to, i, j)
        PROVE  NoSharedSlot'
    <2>1. /\ row[i] = PlaceOf(occ[p], from) /\ row[j] = PlaceOf(occ[p], to) /\ i # j
          /\ row' = [row EXCEPT ![i] = PlaceOf(occ[p], to), ![j] = PlaceOf(occ[p], from)]
      BY <1>3, ExchangeIsSwap
    <2>2. \A k \in Items : row'[k] = IF k = i THEN row[j] ELSE IF k = j THEN row[i] ELSE row[k]
      BY <1>1, <2>1 DEF TypeOK
    <2> QED BY <1>1, <2>1, <2>2 DEF NoSharedSlot
  <1>4. ASSUME row' = row PROVE NoSharedSlot'
    BY <1>1, <1>4 DEF NoSharedSlot
  <1>5. \A p \in Objs : StoreInventory(p) => row' = row
    BY DEF StoreInventory
  <1>6. \A k \in Calls : \A got, p : LoadReply(k, p, got) => row' = row
    BY DEF LoadReply
  <1> QED BY <1>2, <1>3, <1>4, <1>5, <1>6, NextCases, Frames

LEMMA LoadedStep == ListInv /\ [Next]_vars => LoadedBagIsTheRows'
  <1> SUFFICES ASSUME ListInv, [Next]_vars PROVE LoadedBagIsTheRows'
    OBVIOUS
  <1>0. TypeOK /\ WhoIsWhere /\ LoadedBagIsTheRows /\ CallsInOrder
    BY DEF ListInv, LoginInv
  <1>1. ASSUME row' = row PROVE \A c : VoidRows(c)' = VoidRows(c)
    BY <1>1 DEF VoidRows, RowsIn
  <1>2. ASSUME UNCHANGED <<row, owner, loaded, cells>> PROVE LoadedBagIsTheRows'
    BY <1>0, <1>1, <1>2 DEF LoadedBagIsTheRows
  <1>3. ASSUME NEW p \in Objs, StoreInventory(p) PROVE LoadedBagIsTheRows'
    <2>1. /\ row' = row
          /\ \A q \in Objs : loaded'[q] => /\ loaded[q] /\ cells'[q] = cells[q]
                                           /\ owner'[q] = owner[q]
      BY <1>0, <1>3 DEF StoreInventory, Stale, TypeOK
    <2> QED BY <1>0, <1>1, <2>1 DEF LoadedBagIsTheRows
  <1>4. ASSUME NEW p \in Objs, NEW from \in Spots, NEW to \in Spots, NEW i \in Items,
               NEW j \in Items, Move(p, from, to, i) \/ Exchange(p, from, to, i, j)
        PROVE  LoadedBagIsTheRows'
    <2>1. UNCHANGED <<occ, owner, loaded>>
      BY <1>4, Frames
    <2>2. /\ loaded[p] => cells'[p] = VoidRows(occ[p])'
          /\ \A q \in Objs \ {p} : cells'[q] = cells[q]
          /\ \A c : c # occ[p] => VoidRows(c)' = VoidRows(c)
          /\ owner[p] = occ[p]
      BY <1>4, RowsFollowTheBag
    <2>3. \A q \in Objs \ {p} : loaded[q] => owner[q] # occ[p]
      BY <1>0, <2>2 DEF WhoIsWhere, OneBagPerCharacter
    <2>4. ASSUME NEW q \in Objs, loaded'[q]
          PROVE  owner'[q] \in Chars /\ cells'[q] = VoidRows(owner[q])'
      <3>1. CASE q = p
        BY <1>0, <2>1, <2>2, <2>4, <3>1 DEF LoadedBagIsTheRows
      <3>2. CASE q # p
        BY <1>0, <2>1, <2>2, <2>3, <2>4, <3>2 DEF LoadedBagIsTheRows
      <3> QED BY <3>1, <3>2
    <2> QED BY <2>1, <2>4 DEF LoadedBagIsTheRows
  <1>5. ASSUME NEW k \in Calls, NEW got \in SUBSET rest[k], NEW p \in Objs, LoadReply(k, p, got)
        PROVE  LoadedBagIsTheRows'
    <2>1. /\ asked[k] # NoChar /\ ~unread[k] /\ owner[p] = asked[k] /\ occ[p] = asked[k]
          /\ UNCHANGED <<row, owner>> /\ ~loaded[p]
      BY <1>5 DEF LoadReply, NextReply, Matches, ListInv, OneListAtATime
    <2>2. CASE got # rest[k]
      <3>1. \A q \in Objs : loaded'[q] => loaded[q] /\ q # p /\ cells'[q] = cells[q]
        BY <1>0, <1>5, <2>1, <2>2 DEF LoadReply, TypeOK
      <3> QED BY <1>0, <1>1, <2>1, <3>1 DEF LoadedBagIsTheRows
    <2>3. CASE got = rest[k]
      <3> DEFINE had == IF ~begun[k] THEN {} ELSE cells[p]
      <3>1. had \union rest[k] = VoidRows(asked[k])
        BY <2>1 DEF ListInv, ListIsTheRows, Matches
      <3>2. \A x, y \in VoidRows(asked[k]) : x[1] = y[1] => x = y
        BY DEF VoidRows, RowsIn, ListInv, NoSharedSlot
      <3>3. Filed(had, rest[k]) = VoidRows(asked[k])
        BY <3>1, <3>2 DEF Filed
      <3>4. /\ cells'[p] = VoidRows(asked[k])
            /\ \A q \in Objs \ {p} : cells'[q] = cells[q] /\ loaded'[q] = loaded[q]
        BY <1>0, <1>5, <2>3, <3>3 DEF LoadReply, TypeOK
      <3>5. asked[k] \in Chars
        BY <1>0, <2>1 DEF TypeOK
      <3> QED BY <1>0, <1>1, <2>1, <3>4, <3>5 DEF LoadedBagIsTheRows
    <2> QED BY <2>2, <2>3
  <1>6. \A p \in Objs, c \in Chars : Occupy(p, c) => UNCHANGED <<row, owner, loaded, cells>>
    BY DEF Occupy
  <1>7. \A p \in Objs : StoreOthers(p) \/ Logout(p) => UNCHANGED <<row, owner, loaded, cells>>
    BY DEF StoreOthers, Logout
  <1>8. UNCHANGED zoneVars => UNCHANGED <<owner, loaded, cells>>
    BY DEF zoneVars
  <1> QED BY <1>2, <1>3, <1>4, <1>5, <1>6, <1>7, <1>8, NextCases, Frames

LEMMA ListStep == ~Overlap /\ ListInv /\ [Next]_vars => ListIsTheRows'
  <1> SUFFICES ASSUME ~Overlap, ListInv, [Next]_vars PROVE ListIsTheRows'
    OBVIOUS
  <1>0. /\ TypeOK /\ WhoIsWhere /\ CallsInOrder
        /\ OneListAtATime /\ ListIsTheRows /\ NoSharedSlot
    BY DEF ListInv, LoginInv
  <1>1. ASSUME row' = row PROVE \A c : VoidRows(c)' = VoidRows(c)
    BY <1>1 DEF VoidRows, RowsIn
  \* a step that matches no new bag and leaves bags and lists alone
  <1>2. ASSUME row' = row,
               \A l \in Calls : asked'[l] # NoChar /\ ~unread'[l] =>
                   /\ UNCHANGED <<asked[l], unread[l], rest[l], begun[l]>>
                   /\ \A q \in Objs : (Matches(q, asked[l]))' => /\ Matches(q, asked[l])
                                                                 /\ cells'[q] = cells[q]
        PROVE  ListIsTheRows'
    BY <1>0, <1>1, <1>2 DEF ListIsTheRows
  <1>3. ASSUME NEW p \in Objs, NEW c \in Chars, Occupy(p, c) PROVE ListIsTheRows'
    <2>1. \A l \in Calls : asked[l] # c
      BY <1>3 DEF Occupy
    <2> QED BY <1>0, <1>2, <1>3, <2>1 DEF Occupy, TypeOK, callVars, Matches
  <1>4. ASSUME NEW p \in Objs, StoreInventory(p) PROVE ListIsTheRows'
    <2>1. \A l \in Calls : asked[l] # occ[p]
      BY <1>0, <1>4 DEF StoreInventory, Arrived, OneListAtATime
    <2>2. /\ UNCHANGED <<row, occ, rest, begun>>
          /\ \A q \in Objs \ {p} : owner'[q] \in {owner[q], NoChar} /\ cells'[q] = cells[q]
          /\ owner'[p] = occ[p]
      BY <1>0, <1>4 DEF StoreInventory, Stale, RequestVoidList, callVars, TypeOK
    <2>3. \A l \in Calls : ~unread'[l] => asked'[l] = asked[l] /\ unread'[l] = unread[l]
      BY <1>0, <1>4 DEF StoreInventory, RequestVoidList, callVars, TypeOK
    <2> QED BY <1>2, <2>1, <2>2, <2>3 DEF Matches
  <1>5. ASSUME NEW p \in Objs, NEW from \in Spots, NEW to \in Spots, NEW i \in Items,
               NEW j \in Items, Move(p, from, to, i) \/ Exchange(p, from, to, i, j)
        PROVE  ListIsTheRows'
    <2>1. UNCHANGED <<occ, owner, loaded, asked, unread, rest, begun>>
      BY <1>5, Frames DEF callVars
    <2>2. /\ ~loaded[p] => VoidRows(occ[p])' = VoidRows(occ[p]) /\ cells'[p] = cells[p]
          /\ \A q \in Objs \ {p} : cells'[q] = cells[q]
          /\ \A c : c # occ[p] => VoidRows(c)' = VoidRows(c)
          /\ owner[p] = occ[p]
      BY <1>5, RowsFollowTheBag
    <2>3. ASSUME NEW l \in Calls, asked[l] # NoChar, ~unread[l]
          PROVE  /\ VoidRows(asked[l])' = VoidRows(asked[l])
                 /\ \A q \in Objs : Matches(q, asked[l]) => cells'[q] = cells[q]
      <3>1. CASE asked[l] = occ[p]
        <4>1. ~loaded[p]
          BY <1>0, <2>2, <2>3, <3>1 DEF OneListAtATime
        <4> QED BY <2>1, <2>2, <3>1, <4>1
      <3>2. CASE asked[l] # occ[p]
        BY <2>1, <2>2, <3>2 DEF Matches
      <3> QED BY <3>1, <3>2
    <2> QED BY <1>0, <2>1, <2>3 DEF ListIsTheRows, Matches
  <1>6. ASSUME NEW k \in Calls, PackVoid(k) PROVE ListIsTheRows'
    <2>1. UNCHANGED <<row, occ, owner, cells, asked, begun>>
      BY <1>6 DEF PackVoid, zoneVars
    <2>2. \A l \in Calls : /\ rest'[l] = IF l = k THEN VoidRows(asked[k]) ELSE rest[l]
                           /\ l # k => unread'[l] = unread[l]
      BY <1>0, <1>6 DEF PackVoid, TypeOK
    <2>3. ~begun[k]
      BY <1>0, <1>6 DEF PackVoid, CallsInOrder
    <2> QED BY <1>0, <1>1, <2>1, <2>2, <2>3 DEF ListIsTheRows, Matches
  <1>7. ASSUME NEW k \in Calls, EndCall(k), UNCHANGED <<row, occ, owner>>,
               \A q \in Objs : cells'[q] = cells[q] \/ Matches(q, asked[k]), asked[k] # NoChar
        PROVE  ListIsTheRows'
    <2>1. \A l \in Calls : /\ l = k => asked'[l] = NoChar
                           /\ l # k => UNCHANGED <<asked[l], unread[l], rest[l], begun[l]>>
      BY <1>0, <1>7 DEF EndCall, TypeOK
    <2>2. \A l \in Calls \ {k} : asked[l] # asked[k]
      BY <1>0, <1>7 DEF OneListAtATime
    <2> QED BY <1>2, <1>7, <2>1, <2>2 DEF Matches
  <1>8. ASSUME NEW k \in Calls, AnswerError(k) PROVE ListIsTheRows'
    <2>1. asked[k] # NoChar
      BY <1>0, <1>8 DEF AnswerError, CallsInOrder
    <2> QED BY <1>7, <1>8, <2>1 DEF AnswerError, zoneVars
  <1>9. ASSUME NEW k \in Calls, NEW got \in SUBSET rest[k], NextReply(k, got), got # rest[k],
               Advance(k, got), UNCHANGED <<row, occ, owner>>,
               \A q \in Objs : cells'[q] = cells[q] \/ Matches(q, asked[k]),
               \A q \in Objs : Matches(q, asked[k])
                  => cells'[q] \union (rest[k] \ got) = VoidRows(asked[k])
        PROVE  ListIsTheRows'
    <2>1. /\ UNCHANGED <<asked, unread>>
          /\ rest' = [rest EXCEPT ![k] = @ \ got] /\ begun' = [begun EXCEPT ![k] = TRUE]
          /\ asked[k] # NoChar
      BY <1>9 DEF Advance, NextReply
    <2>2. \A l \in Calls \ {k} : asked[l] # asked[k]
      BY <1>0, <2>1 DEF OneListAtATime
    <2>3. \A l \in Calls \ {k} : \A q \in Objs : Matches(q, asked[l]) => cells'[q] = cells[q]
      BY <1>9, <2>2 DEF Matches
    <2>4. \A l \in Calls : /\ l = k => begun'[l] /\ rest'[l] = rest[k] \ got
                           /\ l # k => UNCHANGED <<rest[l], begun[l]>>
      BY <1>0, <2>1 DEF TypeOK
    <2>5. \A l \in Calls, q \in Objs : (Matches(q, asked[l]))' <=> Matches(q, asked[l])
      BY <1>9, <2>1 DEF Matches
    <2>6. ASSUME NEW l \in Calls, asked'[l] # NoChar, ~unread'[l]
          PROVE  /\ ~begun'[l] => rest'[l] = VoidRows(asked[l])'
                 /\ begun'[l] => \A q \in Objs : (Matches(q, asked[l]))'
                                     => cells'[q] \union rest'[l] = VoidRows(asked[l])'
      <3>1. VoidRows(asked[l])' = VoidRows(asked[l])
        BY <1>1, <1>9, <2>1
      <3>2. CASE l = k
        BY <1>9, <2>4, <2>5, <3>1, <3>2
      <3>3. CASE l # k
        BY <1>0, <2>1, <2>3, <2>4, <2>5, <2>6, <3>1, <3>3 DEF ListIsTheRows
      <3> QED BY <3>2, <3>3
    <2> QED BY <2>6 DEF ListIsTheRows
  <1>10. ASSUME NEW k \in Calls, NEW got \in SUBSET rest[k], DropReply(k, got)
         PROVE  ListIsTheRows'
    <2>1. /\ NextReply(k, got) /\ Advance(k, got) /\ asked[k] # NoChar
          /\ UNCHANGED <<row, occ, owner, cells>>
          /\ NoMatch(asked[k])
      BY <1>10 DEF DropReply, NextReply, zoneVars
    <2>2. \A q \in Objs : ~Matches(q, asked[k])
      BY <1>0, <2>1 DEF NoMatch, Matches, WhoIsWhere, OneBagPerCharacter
    <2>3. CASE got = rest[k]
      BY <1>7, <2>1, <2>3 DEF Advance
    <2>4. CASE got # rest[k]
      BY <1>9, <2>1, <2>2, <2>4
    <2> QED BY <2>3, <2>4
  <1>11. ASSUME NEW k \in Calls, NEW got \in SUBSET rest[k], NEW p \in Objs, LoadReply(k, p, got)
         PROVE  ListIsTheRows'
    <2> DEFINE had == IF ~begun[k] THEN {} ELSE cells[p]
    <2>1. /\ NextReply(k, got) /\ Advance(k, got) /\ asked[k] # NoChar /\ ~unread[k]
          /\ UNCHANGED <<row, occ, owner>>
          /\ Matches(p, asked[k])
          /\ cells' = [cells EXCEPT ![p] = Filed(had, got)]
      BY <1>11 DEF LoadReply, NextReply
    <2>2. \A q \in Objs : Matches(q, asked[k]) => q = p
      BY <1>0, <2>1 DEF Matches, WhoIsWhere, OneBagPerCharacter
    <2>3. /\ cells'[p] = Filed(had, got)
          /\ \A q \in Objs : cells'[q] = cells[q] \/ Matches(q, asked[k])
      BY <1>0, <2>1 DEF TypeOK
    <2>4. had \union rest[k] = VoidRows(asked[k])
      BY <1>0, <2>1 DEF ListIsTheRows
    <2>5. \A x, y \in VoidRows(asked[k]) : x[1] = y[1] => x = y
      BY <1>0 DEF VoidRows, RowsIn, NoSharedSlot
    <2>6. Filed(had, got) \union (rest[k] \ got) = VoidRows(asked[k])
      BY <2>4, <2>5 DEF Filed
    <2>7. CASE got = rest[k]
      BY <1>7, <2>1, <2>3, <2>7 DEF Advance
    <2>8. CASE got # rest[k]
      BY <1>9, <2>1, <2>2, <2>3, <2>6, <2>8
    <2> QED BY <2>7, <2>8
  <1>12. \A p \in Objs : StoreOthers(p) \/ Logout(p)
            => UNCHANGED <<row, occ, owner, cells, asked, unread, rest, begun>>
    BY DEF StoreOthers, Logout, callVars
  <1>13. UNCHANGED <<row, zoneVars, callVars>>
            => UNCHANGED <<row, occ, owner, cells, asked, unread, rest, begun>>
    BY DEF zoneVars, callVars
  <1>14. ASSUME UNCHANGED <<row, occ, owner, cells, asked, unread, rest, begun>>
         PROVE  ListIsTheRows'
    BY <1>0, <1>1, <1>14 DEF ListIsTheRows, Matches
  <1> QED BY <1>3, <1>4, <1>5, <1>6, <1>8, <1>10, <1>11, <1>12, <1>13, <1>14, NextCases, Frames

\* While logins of one character do not overlap, ListInv always holds.
THEOREM ListInvariant == ASSUME ~Overlap PROVE Spec => []ListInv
  <1>1. Init => ListInv
    <2>1. Init => LoginInv
      BY TypeInit, WhoInit DEF LoginInv, OwnItems, Init
    <2>2. Init => OneListAtATime /\ ListIsTheRows
      BY DEF Init, OneListAtATime, ListIsTheRows
    <2>3. Init => NoSharedSlot /\ LoadedBagIsTheRows
      BY DEF Init, NoSharedSlot, LoadedBagIsTheRows
    <2> QED BY <2>1, <2>2, <2>3 DEF ListInv
  <1>2. ListInv /\ [Next]_vars => ListInv'
    <2>1. ListInv => LoginInv
      BY DEF ListInv
    <2> QED BY <2>1, LoginStep, OneListStep, ListStep, SharedSlotStep, LoadedStep DEF ListInv
  <1> QED BY <1>1, <1>2, PTL DEF Spec

\* "an item can never share a slot with a stored one": no two rows of tItem name
\* one cell, although moves are judged on the in-memory bag.
THEOREM NeverShared == ASSUME ~Overlap PROVE Spec => []NoSharedSlot
  <1>1. ListInv => NoSharedSlot
    BY DEF ListInv
  <1> QED BY <1>1, ListInvariant, PTL

\* A bag that moves may use is the character's rows, cell for cell.
THEOREM BagMirrorsRows == ASSUME ~Overlap PROVE Spec => []LoadedBagIsTheRows
  <1>1. ListInv => LoadedBagIsTheRows
    BY DEF ListInv
  <1> QED BY <1>1, ListInvariant, PTL

-----------------------------------------------------------------------------
LEMMA ShownStep == ~Overlap /\ ListInv /\ ShownOnceLoaded /\ [Next]_vars => ShownOnceLoaded'
  <1> SUFFICES ASSUME ~Overlap, ListInv, ShownOnceLoaded, [Next]_vars PROVE ShownOnceLoaded'
    OBVIOUS
  <1>0. TypeOK /\ WhoIsWhere /\ OneListAtATime
    BY DEF ListInv, LoginInv
  <1>1. ASSUME NEW p \in Objs, NEW c \in Chars, Occupy(p, c) PROVE ShownOnceLoaded'
    BY <1>0, <1>1 DEF Occupy, TypeOK, ShownOnceLoaded
  <1>2. ASSUME NEW p \in Objs, StoreInventory(p) PROVE ShownOnceLoaded'
    <2>1. /\ client' = client /\ stage[p] # "free" /\ "inventory" \notin parts[p] /\ ~loaded'[p]
          /\ \A q \in Objs \ {p} : /\ UNCHANGED <<stage[q], parts[q], cells[q]>>
                                   /\ loaded'[q] <=> loaded[q] /\ q \notin Stale(p, occ[p])
      BY <1>0, <1>2 DEF StoreInventory, Arrived, TypeOK
    <2>2. \A q \in Objs \ {p} : stage[q] # "free" /\ "inventory" \in parts[q] => q \notin Stale(p, occ[p])
      BY <1>0, <2>1 DEF WhoIsWhere, Stale
    <2>3. client'[p] = {}
      BY <2>1 DEF ShownOnceLoaded
    <2>4. \A q \in Objs \ {p} : stage[q] # "free" /\ "inventory" \in parts[q] => (loaded'[q] <=> loaded[q])
      BY <2>1, <2>2
    <2> QED BY <2>1, <2>3, <2>4 DEF ShownOnceLoaded
  <1>3. ASSUME NEW p \in Objs, StoreOthers(p) PROVE ShownOnceLoaded'
    <2>1. /\ UNCHANGED <<client, loaded, cells>>
          /\ \A q \in Objs : /\ stage'[q] # "free" <=> stage[q] # "free"
                             /\ "inventory" \in parts'[q] <=> "inventory" \in parts[q]
      BY <1>0, <1>3 DEF StoreOthers, Arrived, TypeOK
    <2> QED BY <2>1 DEF ShownOnceLoaded
  <1>4. ASSUME NEW p \in Objs, Logout(p) PROVE ShownOnceLoaded'
    BY <1>0, <1>4 DEF Logout, TypeOK, ShownOnceLoaded
  <1>5. ASSUME NEW p \in Objs, NEW out, NEW in, Rebag(p, out, in), stage[p] = "playing",
               ~loaded[p] => out = {} /\ in = {}
        PROVE  ShownOnceLoaded'
    <2>1. "inventory" \in parts[p]
      BY <1>0, <1>5 DEF WhoIsWhere, Parts
    <2>2. /\ UNCHANGED <<stage, parts, loaded>>
          /\ client'[p] = (client[p] \ out) \union in /\ cells'[p] = (cells[p] \ out) \union in
          /\ \A q \in Objs \ {p} : UNCHANGED <<client[q], cells[q]>>
      BY <1>0, <1>5 DEF Rebag, TypeOK
    <2>3. client[p] = IF loaded[p] THEN cells[p] ELSE {}
      BY <1>5, <2>1 DEF ShownOnceLoaded
    <2>4. client'[p] = IF loaded[p] THEN cells'[p] ELSE {}
      BY <1>5, <2>2, <2>3
    <2> QED BY <1>5, <2>1, <2>2, <2>4 DEF ShownOnceLoaded
  <1>6. ASSUME NEW p \in Objs, NEW from \in Spots, NEW to \in Spots, NEW i \in Items, Move(p, from, to, i)
        PROVE  ShownOnceLoaded'
    <2>1. stage[p] = "playing" /\ (~loaded[p] => InVoid(from, i) = {} /\ InVoid(to, i) = {})
      BY <1>6 DEF Move, Resolved, VoidBagOf, InVoid
    <2> QED BY <1>5, <1>6, <2>1 DEF Move
  <1>7. ASSUME NEW p \in Objs, NEW from \in Spots, NEW to \in Spots, NEW i \in Items, NEW j \in Items,
               Exchange(p, from, to, i, j)
        PROVE  ShownOnceLoaded'
    <2>1. /\ stage[p] = "playing"
          /\ ~loaded[p] => /\ InVoid(from, i) \union InVoid(to, j) = {}
                           /\ InVoid(to, i) \union InVoid(from, j) = {}
      BY <1>7 DEF Exchange, Resolved, VoidBagOf, InVoid
    <2> QED BY <1>5, <1>7, <2>1 DEF Exchange
  <1>8. ASSUME NEW k \in Calls, NEW got \in SUBSET rest[k], NEW p \in Objs, LoadReply(k, p, got)
        PROVE  ShownOnceLoaded'
    <2> DEFINE full == Filed(IF ~begun[k] THEN {} ELSE cells[p], got)
               last == got = rest[k]
    <2>1. /\ asked[k] # NoChar /\ owner[p] = asked[k] /\ occ[p] = asked[k] /\ UNCHANGED <<stage, parts>>
          /\ ~loaded[p] /\ (stage[p] # "free" => "inventory" \in parts[p])
      BY <1>0, <1>8 DEF LoadReply, NextReply, Matches, OneListAtATime
    <2>2. /\ cells'[p] = full /\ (loaded'[p] <=> last)
          /\ client'[p] = IF last /\ full # {} /\ stage[p] # "free" THEN full ELSE client[p]
          /\ \A q \in Objs \ {p} : UNCHANGED <<cells[q], loaded[q], client[q]>>
      BY <1>0, <1>8, <2>1 DEF LoadReply, TypeOK
    <2>3. client[p] = {}
      BY <2>1 DEF ShownOnceLoaded
    <2>4. client'[p] = IF stage[p] # "free" /\ last THEN full ELSE {}
      BY <2>2, <2>3
    <2> HIDE DEF full, last
    <2> QED BY <2>1, <2>2, <2>4 DEF ShownOnceLoaded
  <1>9. UNCHANGED zoneVars => ShownOnceLoaded'
    BY DEF zoneVars, ShownOnceLoaded
  <1> QED BY <1>1, <1>2, <1>3, <1>4, <1>6, <1>7, <1>8, <1>9, NextCases, Frames

\* What the player sees in box 18 while moves are allowed is what the bag holds, although the list comes in parts, an empty
\* bag is never sent at all and the object had another player before.
THEOREM BagIsShown == ASSUME ~Overlap PROVE Spec => []ClientShowsTheBag
  <1>1. Init => ShownOnceLoaded
    BY DEF Init, ShownOnceLoaded
  <1>2. ListInv /\ ShownOnceLoaded => ClientShowsTheBag
    BY DEF ListInv, LoginInv, WhoIsWhere, Parts, ShownOnceLoaded, ClientShowsTheBag
  <1> QED BY <1>1, <1>2, ShownStep, ListInvariant, PTL DEF Spec

-----------------------------------------------------------------------------
(* VoidBag implements ItemStorage. *)

LEMMA SamePlaces == Storage!Places = Places
  BY DEF Storage!Places, Places, PlaceOf

LEMMA StepRefines == ListInv /\ [Next]_vars => [Storage!Next]_row
  <1> SUFFICES ASSUME ListInv, [Next]_vars PROVE [Storage!Next]_row
    OBVIOUS
  <1>1. ASSUME NEW p \in Objs, NEW from \in Spots, NEW to \in Spots, NEW i \in Items,
               Move(p, from, to, i)
        PROVE  Storage!Next
    <2>1. /\ row[i] = PlaceOf(occ[p], from)
          /\ \A j \in Items : row[j] # PlaceOf(occ[p], to)
          /\ row' = [row EXCEPT ![i] = PlaceOf(occ[p], to)]
      BY <1>1, MoveIsRelocate
    <2>2. occ[p] \in Chars
      BY <1>1 DEF Move, Resolved, ListInv, LoginInv, WhoIsWhere
    <2>3. PlaceOf(occ[p], to) \in Storage!Places
      BY <2>2, SpotFacts, SamePlaces
    <2>4. PlaceOf(occ[p], to).char = row[i].char
      BY <2>1 DEF PlaceOf
    <2> QED BY <2>1, <2>3, <2>4 DEF Storage!Next, Storage!Relocate
  <1>2. ASSUME NEW p \in Objs, NEW from \in Spots, NEW to \in Spots, NEW i \in Items,
               NEW j \in Items, Exchange(p, from, to, i, j)
        PROVE  Storage!Next
    <2>1. /\ row[i] = PlaceOf(occ[p], from) /\ row[j] = PlaceOf(occ[p], to) /\ i # j
          /\ row' = [row EXCEPT ![i] = PlaceOf(occ[p], to), ![j] = PlaceOf(occ[p], from)]
      BY <1>2, ExchangeIsSwap
    <2>2. row[i].char = row[j].char
      BY <2>1 DEF PlaceOf
    <2>3. row' = [row EXCEPT ![i] = row[j], ![j] = row[i]]
      BY <2>1
    <2> QED BY <2>1, <2>2, <2>3 DEF Storage!Next, Storage!Swap
  <1>3. \A p \in Objs : StoreInventory(p) => row' = row
    BY DEF StoreInventory
  <1>4. \A k \in Calls : \A got, p : LoadReply(k, p, got) => row' = row
    BY DEF LoadReply
  <1> QED BY <1>1, <1>2, <1>3, <1>4, NextCases, Frames

\* Whatever the bags, logins and replies do, the rows change only as an item
\* storage's may: a move into a free place, or an exchange, of one character.
THEOREM ImplementsStorage == ASSUME ~Overlap PROVE Spec => RowsMoveLegally
  <1>1. Init => Storage!Init
    BY SamePlaces DEF Init, Storage!Init, Storage!Distinct
  <1> QED BY <1>1, StepRefines, ListInvariant, PTL DEF Spec, RowsMoveLegally, Storage!Spec

-----------------------------------------------------------------------------
(***************************************************************************)
(* The titles (TitleExt) and the vaults (VaultJobs).                       *)
(***************************************************************************)
\* the byte of four fields
Packed(p, q, r, s) == p + 4 * q + 16 * r + 64 * s

LEMMA FieldsOfPacked ==
    ASSUME NEW p \in 0 .. 3, NEW q \in 0 .. 3, NEW r \in 0 .. 3, NEW s \in 0 .. 3
    PROVE /\ Packed(p, q, r, s) \in Title!Byte
          /\ Title!Field(Packed(p, q, r, s), 0) = p /\ Title!Field(Packed(p, q, r, s), 1) = q
          /\ Title!Field(Packed(p, q, r, s), 2) = r /\ Title!Field(Packed(p, q, r, s), 3) = s
<1>1. Title!Place[0] = 1 /\ Title!Place[1] = 4 /\ Title!Place[2] = 16 /\ Title!Place[3] = 64
  BY DEF Title!Place
<1>2. Packed(p, q, r, s) \in Title!Byte
  BY DEF Packed, Title!Byte
<1>3. Title!Field(Packed(p, q, r, s), 0) = p
  BY <1>1 DEF Packed, Title!Field
<1>4. Title!Field(Packed(p, q, r, s), 1) = q
  BY <1>1 DEF Packed, Title!Field
<1>5. Title!Field(Packed(p, q, r, s), 2) = r
  BY <1>1 DEF Packed, Title!Field
<1>6. Title!Field(Packed(p, q, r, s), 3) = s
  BY <1>1 DEF Packed, Title!Field
<1> QED BY <1>2, <1>3, <1>4, <1>5, <1>6

LEMMA ByteIsPacked ==
    ASSUME NEW b \in Title!Byte
    PROVE \E p, q, r, s \in 0 .. 3 : b = Packed(p, q, r, s)
<1> DEFINE p == b % 4  q == (b \div 4) % 4  r == (b \div 16) % 4  s == b \div 64
<1>1. p \in 0 .. 3 /\ q \in 0 .. 3 /\ r \in 0 .. 3 /\ s \in 0 .. 3
  BY DEF Title!Byte
<1>2. b = Packed(p, q, r, s)
  BY DEF Title!Byte, Packed
<1> QED BY <1>1, <1>2

\* get_title_status of what set_title_status has written: the field set has the two low bits of the value, the other three
\* fields of the byte are as they were, and the byte is a byte
LEMMA WrittenIsRead ==
    ASSUME NEW b \in Title!Byte, NEW e \in 0 .. 3, NEW value \in Nat
    PROVE /\ Title!Written(b, e, value) \in Title!Byte
          /\ Title!Field(Title!Written(b, e, value), e) = value % 4
          /\ \A f \in 0 .. 3 \ {e} : Title!Field(Title!Written(b, e, value), f) = Title!Field(b, f)
<1>1. value % 4 \in 0 .. 3
  OBVIOUS
<1>2. PICK p, q, r, s \in 0 .. 3 : b = Packed(p, q, r, s)
  BY ByteIsPacked
<1> DEFINE v == value % 4
<1>3. Title!Field(b, 0) = p /\ Title!Field(b, 1) = q /\ Title!Field(b, 2) = r /\ Title!Field(b, 3) = s
  BY <1>2, FieldsOfPacked
<1>4. Title!Place[0] = 1 /\ Title!Place[1] = 4 /\ Title!Place[2] = 16 /\ Title!Place[3] = 64
  BY DEF Title!Place
<1>5. CASE e = 0
  <2>1. Title!Written(b, e, value) = Packed(v, q, r, s)
    BY <1>1, <1>2, <1>3, <1>4, <1>5 DEF Title!Written, Packed
  <2> QED BY <1>1, <1>3, <1>5, <2>1, FieldsOfPacked
<1>6. CASE e = 1
  <2>1. Title!Written(b, e, value) = Packed(p, v, r, s)
    BY <1>1, <1>2, <1>3, <1>4, <1>6 DEF Title!Written, Packed
  <2> QED BY <1>1, <1>3, <1>6, <2>1, FieldsOfPacked
<1>7. CASE e = 2
  <2>1. Title!Written(b, e, value) = Packed(p, q, v, s)
    BY <1>1, <1>2, <1>3, <1>4, <1>7 DEF Title!Written, Packed
  <2> QED BY <1>1, <1>3, <1>7, <2>1, FieldsOfPacked
<1>8. CASE e = 3
  <2>1. Title!Written(b, e, value) = Packed(p, q, r, v)
    BY <1>1, <1>2, <1>3, <1>4, <1>8 DEF Title!Written, Packed
  <2> QED BY <1>1, <1>3, <1>8, <2>1, FieldsOfPacked
<1> QED BY <1>5, <1>6, <1>7, <1>8

-----------------------------------------------------------------------------
LEMMA TitleTypeInit == ASSUME Title!TitleExtOK, Title!Init PROVE Title!TypeOK
BY DEF Title!Init, Title!TypeOK, Title!TitleExtOK, Title!Inline, Title!Beyond, Title!Byte

\* the byte a type is kept in, whether its object has a row or not
LEMMA ByteOfType == ASSUME Title!TitleExtOK, Title!TypeOK, NEW o \in Objs, NEW t \in Title!Types PROVE Title!StatusByte(o, t) \in Title!Byte
<1>1. t \in Title!Inline => inline[o][t] \in Title!Byte
  BY DEF Title!TypeOK
<1>2. t \notin Title!Inline => t \in Title!Beyond
  BY DEF Title!TitleExtOK, Title!Types, Title!Inline, Title!Beyond
<1>3. t \in Title!Beyond => side[o][t] \in Title!Byte
  BY DEF Title!TypeOK
<1> QED BY <1>1, <1>2, <1>3 DEF Title!StatusByte, Title!Byte

LEMMA SideTyped ==
    ASSUME Title!TypeOK, NEW o \in Objs
    PROVE Title!Used(o) \in [Objs -> [Title!Beyond -> Title!Byte]] /\ Title!ZeroSide(o) \in [Objs -> [Title!Beyond -> Title!Byte]]
<1>1. [t \in Title!Beyond |-> 0] \in [Title!Beyond -> Title!Byte]
  BY DEF Title!Byte
<1> QED BY <1>1 DEF Title!TypeOK, Title!Used, Title!ZeroSide

LEMMA TitleTypeNext == ASSUME Title!TitleExtOK, Title!TypeOK, [Title!Next]_(Title!vars) PROVE Title!TypeOK'
<1>1. ASSUME NEW o \in Objs, Title!Begin(o) PROVE Title!TypeOK'
  <2>1. [t \in Title!Inline |-> 0] \in [Title!Inline -> Title!Byte]
    BY DEF Title!Byte
  <2> QED BY <1>1, <2>1, SideTyped DEF Title!Begin, Title!TypeOK
<1>2. ASSUME NEW o \in Objs, Title!Look(o) PROVE Title!TypeOK'
  BY <1>2, SideTyped DEF Title!Look, Title!TypeOK
<1>3. ASSUME NEW o \in Objs, Title!Release(o) PROVE Title!TypeOK'
  BY <1>3 DEF Title!Release, Title!TypeOK
<1>4. ASSUME NEW o \in Objs, NEW t \in Title!Types, NEW e \in Elems, NEW value \in Values, Title!SetTitleStatus(o, t, e, value)
      PROVE Title!TypeOK'
  <2>1. Title!Written(Title!StatusByte(o, t), e, value) \in Title!Byte
    BY ByteOfType, WrittenIsRead DEF Title!TitleExtOK
  <2>2. CASE t \in Title!Inline
    <3>1. inline' = [inline EXCEPT ![o] = [@ EXCEPT ![t] = Title!Written(Title!StatusByte(o, t), e, value)]]
      BY <1>4, <2>2 DEF Title!SetTitleStatus
    <3>2. inline' \in [Objs -> [Title!Inline -> Title!Byte]]
      BY <2>1, <2>2, <3>1 DEF Title!TypeOK
    <3>3. UNCHANGED <<live, rows, side>>
      BY <1>4, <2>2 DEF Title!SetTitleStatus
    <3> QED BY <3>2, <3>3 DEF Title!TypeOK
  <2>3. CASE t \notin Title!Inline
    <3>1. t \in Title!Beyond
      BY <2>3 DEF Title!TitleExtOK, Title!Types, Title!Inline, Title!Beyond
    <3>2. [Title!Used(o) EXCEPT ![o] = [@ EXCEPT ![t] = Title!Written(Title!StatusByte(o, t), e, value)]] \in [Objs -> [Title!Beyond -> Title!Byte]]
      BY <2>1, <3>1, SideTyped
    <3> QED BY <1>4, <2>3, <3>2 DEF Title!SetTitleStatus, Title!TypeOK
  <2> QED BY <2>2, <2>3
<1>5. CASE UNCHANGED Title!vars
  BY <1>5 DEF Title!vars, Title!TypeOK
<1> QED BY <1>1, <1>2, <1>3, <1>4, <1>5 DEF Title!Next

\* every step of the storage is a step of the titles or leaves them alone
LEMMA StorageIsTitles == StorageSpec => Title!TitleExtOK /\ Title!Spec
<1>1. StorageInit => Title!Init
  BY DEF StorageInit
<1>2. [StorageNext]_<<part, vars, titleVars, vaultVars>> => [Title!Next]_(Title!vars)
  BY DEF StorageNext, titleVars, Title!vars
<1> QED BY <1>1, <1>2, ZoneStorageOK, PTL DEF StorageSpec, Title!Spec

\* Every byte stays a byte and every row is one of an object (TypeOK), whatever is set.
THEOREM TitleTypes == StorageSpec => []Title!TypeOK
<1>1. Title!Init => Title!TypeOK
  BY TitleTypeInit, ZoneStorageOK
<1>2. Title!TypeOK /\ [Title!Next]_(Title!vars) => Title!TypeOK'
  BY TitleTypeNext, ZoneStorageOK
<1> QED BY <1>1, <1>2, StorageIsTitles, PTL DEF Title!Spec
-----------------------------------------------------------------------------
(* What the title code sees, and how each operation changes it. *)

Seen == [o \in Objs |-> [x \in Title!Types \X Elems |-> Title!Status(o, x[1], x[2])]]

LEMMA SeenByField ==
    ASSUME NEW o \in Objs, NEW t \in Title!Types, NEW e \in Elems
    PROVE Seen[o][<<t, e>>] = Title!Field(Title!StatusByte(o, t), e)
BY DEF Seen, Title!Status

LEMMA TypesSplit == ASSUME Title!TitleExtOK, NEW t \in Title!Types PROVE t \in Title!Inline \/ (t \in Title!Beyond /\ t \notin Title!Inline)
BY DEF Title!TitleExtOK, Title!Types, Title!Inline, Title!Beyond

LEMMA BeginSeen ==
    ASSUME Title!TitleExtOK, Title!TypeOK, NEW o \in Objs, Title!Begin(o)
    PROVE Seen' = [Seen EXCEPT ![o] = [x \in Title!Types \X Elems |-> 0]]
<1>1. ASSUME NEW q \in Objs, NEW t \in Title!Types PROVE Title!StatusByte(q, t)' = IF q = o THEN 0 ELSE Title!StatusByte(q, t)
  <2>1. CASE t \in Title!Inline
    BY <2>1 DEF Title!Begin, Title!StatusByte, Title!TypeOK
  <2>2. CASE t \in Title!Beyond /\ t \notin Title!Inline
    BY <2>2 DEF Title!Begin, Title!StatusByte, Title!TypeOK, Title!ZeroSide
  <2> QED BY <2>1, <2>2, TypesSplit
<1>2. ASSUME NEW e \in Elems PROVE Title!Field(0, e) = 0
  <2>1. e \in 0 .. 3
    BY DEF Title!TitleExtOK
  <2>2. Title!Place[e] \in {1, 4, 16, 64}
    BY <2>1 DEF Title!Place
  <2> QED BY <2>2 DEF Title!Field
<1>3. ASSUME NEW q \in Objs, NEW t \in Title!Types, NEW e \in Elems
      PROVE Title!Status(q, t, e)' = IF q = o THEN 0 ELSE Title!Status(q, t, e)
  BY <1>1, <1>2 DEF Title!Status
<1> QED BY <1>3 DEF Seen

LEMMA ChangeSeen ==
    ASSUME Title!TitleExtOK, Title!TypeOK, NEW o \in Objs, NEW t \in Title!Types, NEW e \in Elems, NEW value \in Values,
           Title!SetTitleStatus(o, t, e, value)
    PROVE /\ Seen' = [Seen EXCEPT ![o] = [@ EXCEPT ![<<t, e>>] = value % 4]]
          /\ Title!Status(o, t, e)' = value % 4
<1> DEFINE w == Title!Written(Title!StatusByte(o, t), e, value)
<1>1. w \in Title!Byte /\ Title!Field(w, e) = value % 4 /\ \A f \in 0 .. 3 \ {e} : Title!Field(w, f) = Title!Field(Title!StatusByte(o, t), f)
  BY ByteOfType, WrittenIsRead DEF Title!TitleExtOK
<1>2. ASSUME NEW q \in Objs, NEW u \in Title!Types
      PROVE Title!StatusByte(q, u)' = IF q = o /\ u = t THEN w ELSE Title!StatusByte(q, u)
  <2> HIDE DEF w
  <2>1. CASE t \in Title!Inline
    <3>1. inline' = [inline EXCEPT ![o] = [@ EXCEPT ![t] = w]] /\ UNCHANGED <<rows, side>>
      BY <2>1 DEF Title!SetTitleStatus, w
    <3> QED BY <2>1, <3>1 DEF Title!StatusByte, Title!TypeOK
  <2>2. CASE t \in Title!Beyond /\ t \notin Title!Inline
    <3>1. rows' = rows \cup {o} /\ inline' = inline /\ side' = [Title!Used(o) EXCEPT ![o] = [@ EXCEPT ![t] = w]]
      BY <2>2 DEF Title!SetTitleStatus, w
    <3>2. CASE u \in Title!Inline
      BY <2>2, <3>1, <3>2 DEF Title!StatusByte
    <3>3. CASE u \in Title!Beyond /\ u \notin Title!Inline
      BY <2>2, <3>1, <3>3 DEF Title!StatusByte, Title!Used, Title!TypeOK
    <3> QED BY <3>2, <3>3, TypesSplit
  <2> QED BY <2>1, <2>2, TypesSplit
<1>3. Elems \subseteq 0 .. 3
  BY DEF Title!TitleExtOK
<1>4. ASSUME NEW q \in Objs, NEW u \in Title!Types, NEW f \in Elems
      PROVE Title!Status(q, u, f)' = IF q = o /\ u = t /\ f = e THEN value % 4 ELSE Title!Status(q, u, f)
  <2> HIDE DEF w
  <2>1. CASE q = o /\ u = t
    BY <1>1, <1>2, <1>3, <2>1 DEF Title!Status
  <2>2. CASE ~(q = o /\ u = t)
    BY <1>2, <2>2 DEF Title!Status
  <2> QED BY <2>1, <2>2
<1> DEFINE G == [Seen EXCEPT ![o] = [@ EXCEPT ![<<t, e>>] = value % 4]]
<1>5. ASSUME NEW q \in Objs, NEW x \in Title!Types \X Elems PROVE Seen'[q][x] = G[q][x]
  <2>1. PICK u \in Title!Types, f \in Elems : x = <<u, f>>
    OBVIOUS
  <2>2. Seen'[q][x] = Title!Status(q, u, f)'
    BY <2>1 DEF Seen
  <2>3. Seen[q][x] = Title!Status(q, u, f)
    BY <2>1 DEF Seen
  <2>4. G[q][x] = IF q = o /\ x = <<t, e>> THEN value % 4 ELSE Seen[q][x]
    BY DEF Seen
  <2>5. x = <<t, e>> <=> u = t /\ f = e
    BY <2>1
  <2> QED BY <1>4, <2>2, <2>3, <2>4, <2>5
<1>6. \A q \in Objs : Seen'[q] = G[q]
  <2> SUFFICES ASSUME NEW q \in Objs PROVE Seen'[q] = G[q]
    OBVIOUS
  <2>1. Seen'[q] = [x \in Title!Types \X Elems |-> Seen'[q][x]]
    BY DEF Seen
  <2>2. G[q] = [x \in Title!Types \X Elems |-> G[q][x]]
    BY DEF Seen
  <2> HIDE DEF G
  <2> QED BY <1>5, <2>1, <2>2
<1>7. Seen' = [q \in Objs |-> Seen'[q]] /\ G = [q \in Objs |-> G[q]]
  BY DEF Seen
<1> HIDE DEF G
<1>8. Seen' = G
  BY <1>6, <1>7
<1> QED BY <1>4, <1>8 DEF G

LEMMA LookSeen ==
    ASSUME Title!TitleExtOK, Title!TypeOK, NEW o \in Objs, Title!Look(o)
    PROVE Seen' = Seen
<1>1. ASSUME NEW q \in Objs, NEW t \in Title!Types PROVE Title!StatusByte(q, t)' = Title!StatusByte(q, t)
  <2>1. CASE t \in Title!Inline
    BY <2>1 DEF Title!Look, Title!StatusByte
  <2>2. CASE t \in Title!Beyond /\ t \notin Title!Inline
    BY <2>2 DEF Title!Look, Title!StatusByte, Title!Used, Title!TypeOK
  <2> QED BY <2>1, <2>2, TypesSplit
<1> QED BY <1>1 DEF Seen, Title!Status
-----------------------------------------------------------------------------
\* Whichever of the two its byte is in, a title's status is the two low bits of what was set (KeptAsSet).
THEOREM StatusKept == StorageSpec => Title!KeptAsSet
<1>1. ASSUME Title!TypeOK, NEW o \in Objs, NEW t \in Title!Types, NEW e \in Elems, NEW value \in Values, Title!SetTitleStatus(o, t, e, value)
      PROVE Title!Status(o, t, e)' = value % 4
  BY <1>1, ChangeSeen, ZoneStorageOK
<1>2. Title!TypeOK /\ [Title!Next]_(Title!vars)
      => [\A o \in live, t \in Title!Types, e \in Elems, value \in Values :
            Title!SetTitleStatus(o, t, e, value) => Title!Status(o, t, e)' = value % 4]_(Title!vars)
  BY <1>1 DEF Title!TypeOK
<1> QED BY <1>2, TitleTypes, StorageIsTitles, PTL DEF Title!Spec, Title!KeptAsSet

LEMMA TitlesInit == ASSUME Title!TitleExtOK, Title!Init PROVE Title!Titles!Init
<1>1. ASSUME NEW o \in Objs, NEW t \in Title!Types, NEW e \in Elems PROVE Title!Status(o, t, e) \in 0 .. 3
  <2>1. Title!StatusByte(o, t) \in Title!Byte
    BY TitleTypeInit, ByteOfType
  <2>2. e \in 0 .. 3
    BY DEF Title!TitleExtOK
  <2>3. Title!Place[e] \in {1, 4, 16, 64}
    BY <2>2 DEF Title!Place
  <2>4. \A b \in Title!Byte, n \in {1, 4, 16, 64} : (b \div n) % 4 \in 0 .. 3
    BY DEF Title!Byte
  <2> QED BY <2>1, <2>3, <2>4 DEF Title!Status, Title!Field
<1> QED BY <1>1 DEF Title!Init, Title!Titles!Init

LEMMA TitlesNext == ASSUME Title!TitleExtOK, Title!TypeOK, [Title!Next]_(Title!vars) PROVE [Title!Titles!Next]_<<live, Seen>>
<1>1. ASSUME NEW o \in Objs, Title!Begin(o) PROVE Title!Titles!Begin(o)
  BY <1>1, BeginSeen DEF Title!Begin, Title!Titles!Begin, Seen
<1>2. ASSUME NEW o \in Objs, NEW t \in Title!Types, NEW e \in Elems, NEW value \in Values, Title!SetTitleStatus(o, t, e, value)
      PROVE Title!Titles!Change(o, t, e, value % 4) /\ value % 4 \in 0 .. 3
  <2>1. o \in live /\ live' = live
    BY <1>2 DEF Title!SetTitleStatus
  <2>2. value % 4 \in 0 .. 3
    BY DEF Title!TitleExtOK
  <2>3. Seen' = [Seen EXCEPT ![o] = [@ EXCEPT ![<<t, e>>] = value % 4]]
    BY <1>2, ChangeSeen
  <2> QED BY <2>1, <2>2, <2>3 DEF Title!Titles!Change, Seen
<1>3. ASSUME NEW o \in Objs, Title!Look(o) PROVE UNCHANGED <<live, Seen>>
  BY <1>3, LookSeen DEF Title!Look
<1>4. ASSUME NEW o \in Objs, Title!Release(o) PROVE Title!Titles!Release(o)
  BY <1>4 DEF Title!Release, Title!Titles!Release, Seen, Title!Status, Title!StatusByte
<1>5. CASE UNCHANGED Title!vars
  BY <1>5 DEF Title!vars, Seen, Title!Status, Title!StatusByte
<1> QED BY <1>1, <1>2, <1>3, <1>4, <1>5 DEF Title!Next, Title!Titles!Next

\* title_ext gives every player object one title set of its own, the row of its last player notwithstanding: the stock
\* bytes and the side table implement TitleSet (OneTitleSet).
THEOREM ImplementsTitleSet == StorageSpec => Title!OneTitleSet
<1>1. Title!Init => Title!Titles!Init
  BY TitlesInit, ZoneStorageOK
<1>2. Title!TypeOK /\ [Title!Next]_(Title!vars) => [Title!Titles!Next]_<<live, Seen>>
  BY TitlesNext, ZoneStorageOK
<1> QED BY <1>1, <1>2, TitleTypes, StorageIsTitles, PTL DEF Title!Spec, Title!OneTitleSet, Title!Titles!Spec, Seen

\* For any objects, types, elements and values: beside the bag and the vaults, the stock array and the side table are one
\* title set for each player object, and a status is the two low bits of what was set (OneTitleSet).
THEOREM OneTitleSetForAll == StorageSpec => OneTitleSet
BY ImplementsTitleSet, StatusKept DEF OneTitleSet
-----------------------------------------------------------------------------
RowIs(i, kind) == vault[i][1] = kind

\* while a vault is open, the two flags say which of the rows asked about so far are a job's, and this job's
VaultInv ==
    /\ free \in Nat
    /\ high \subseteq Vault!Classes
    /\ \E n \in Nat : vault \in [1 .. n -> Vault!Rows] /\ rolled \subseteq 1 .. n
    /\ checked \subseteq rolled
    /\ open \in [player : Vault!Classes \cup {0}, job_rows : BOOLEAN, job_match : BOOLEAN, refused : BOOLEAN]
    /\ open = Vault!Closed /\ err = "none" => checked = {}
    /\ open.player # 0 =>
         /\ open.job_rows <=> \E i \in checked : RowIs(i, "job")
         /\ open.job_match <=> \E i \in checked : vault[i] = <<"job", open.player>>

LEMMA VaultInit == StorageInit => VaultInv
<1> SUFFICES ASSUME StorageInit PROVE VaultInv
  OBVIOUS
<1> USE ZoneStorageOK DEF Vault!VaultJobsOK
<1>1. Vault!Init
  BY DEF StorageInit
<1>2. free \in Nat /\ checked = {} /\ open = Vault!Closed /\ high \subseteq Vault!Classes
  BY <1>1 DEF Vault!Init, Vault!NoTable, Vault!Classes
<1>3. \E n \in Nat : vault \in [1 .. n -> Vault!Rows] /\ rolled \subseteq 1 .. n
  BY <1>1 DEF Vault!Init
<1> QED
  BY <1>2, <1>3 DEF VaultInv, Vault!Closed

\* both modules take Cardinality from FiniteSets
LEMMA SameCardinality == \A S : Vault!Cardinality(S) = Cardinality(S)
BY DEF Vault!Cardinality, Cardinality

\* a row that is a job's passes for that job only
LEMMA JobRowPasses ==
    ASSUME NEW n \in Nat, vault \in [1 .. n -> Vault!Rows], NEW i \in 1 .. n, NEW c \in Vault!Classes
    PROVE  /\ Vault!Passes(vault[i], c) <=> vault[i] \in {<<"all", 0>>, <<"line", LineOf[c]>>, <<"job", c>>}
           /\ vault[i][1] = "job" /\ Vault!Passes(vault[i], c) <=> vault[i] = <<"job", c>>
<1>1. vault[i] \in Vault!Rows
  OBVIOUS
<1>2. CASE vault[i] = <<"all", 0>>
  BY <1>2 DEF Vault!Passes
<1>3. CASE \E d \in Vault!Classes : vault[i] = <<"line", LineOf[d]>>
  BY <1>3 DEF Vault!Passes
<1>4. CASE \E d \in Jobs : vault[i] = <<"job", d>>
  BY <1>4 DEF Vault!Passes
<1> QED
  BY <1>1, <1>2, <1>3, <1>4 DEF Vault!Rows

LEMMA VaultNext == VaultInv /\ [StorageNext]_<<part, vars, titleVars, vaultVars>> => VaultInv'
<1> SUFFICES ASSUME VaultInv, [StorageNext]_<<part, vars, titleVars, vaultVars>> PROVE VaultInv'
  OBVIOUS
<1>1. CASE UNCHANGED vaultVars
  BY <1>1 DEF VaultInv, vaultVars, RowIs
<1>2. ASSUME NEW c \in Vault!Classes, Vault!Open(c) PROVE VaultInv'
  <2>1. checked = {} /\ open' = [Vault!Closed EXCEPT !.player = c]
    BY <1>2 DEF Vault!Open, VaultInv
  <2>2. open'.player = c /\ open'.job_rows = FALSE /\ open'.job_match = FALSE /\ open'.refused = FALSE
    BY <2>1 DEF Vault!Closed
  <2>3. open' \in [player : Vault!Classes \cup {0}, job_rows : BOOLEAN, job_match : BOOLEAN, refused : BOOLEAN]
    BY <2>1 DEF Vault!Closed
  <2> QED
    BY <1>2, <2>1, <2>2, <2>3 DEF Vault!Open, VaultInv, RowIs
<1>3. ASSUME NEW i \in rolled, Vault!Check(i) PROVE VaultInv'
  <2> PICK n \in Nat : vault \in [1 .. n -> Vault!Rows] /\ rolled \subseteq 1 .. n
    BY DEF VaultInv
  <2> DEFINE job == vault[i][1] = "job"
  <2>1. /\ open.player \in Vault!Classes /\ open.player # 0 /\ checked' = checked \cup {i}
        /\ open' = [open EXCEPT !.job_rows = @ \/ job, !.job_match = @ \/ (job /\ Vault!Passes(vault[i], open.player))]
        /\ UNCHANGED <<high, vault, rolled, free, given, err>>
    BY <1>3 DEF Vault!Check, VaultInv
  <2>2. open'.player = open.player
    BY <2>1 DEF VaultInv
  <2>3. open'.job_rows <=> \E k \in checked' : RowIs(k, "job")
    BY <2>1 DEF VaultInv, RowIs
  <2>4. open'.job_match <=> \E k \in checked' : vault[k] = <<"job", open.player>>
    <3>1. job /\ Vault!Passes(vault[i], open.player) <=> vault[i] = <<"job", open.player>>
      BY <2>1, JobRowPasses
    <3>2. open'.job_match <=> open.job_match \/ vault[i] = <<"job", open.player>>
      BY <2>1, <3>1 DEF VaultInv
    <3>3. open.job_match <=> \E k \in checked : vault[k] = <<"job", open.player>>
      BY <2>1 DEF VaultInv
    <3> QED BY <2>1, <3>2, <3>3
  <2>5. open' \in [player : Vault!Classes \cup {0}, job_rows : BOOLEAN, job_match : BOOLEAN, refused : BOOLEAN]
    BY <2>1 DEF VaultInv
  <2>6. open' # Vault!Closed
    BY <2>1, <2>2 DEF Vault!Closed
  <2> QED
    BY <2>1, <2>2, <2>3, <2>4, <2>5, <2>6 DEF VaultInv, RowIs
<1>4. ASSUME Vault!Finish PROVE VaultInv'
  <2>1. open' = Vault!Closed /\ err' # "none" /\ UNCHANGED <<high, vault, rolled, checked, free>>
    BY <1>4 DEF Vault!Finish
  <2> QED
    BY <2>1 DEF VaultInv, Vault!Closed
<1> QED
  BY <1>1, <1>2, <1>3, <1>4 DEF StorageNext, Vault!Next, vaultVars
-----------------------------------------------------------------------------
\* For any classes, lines, rows, rolls and room (VaultsByJob): when a vault is opened the two flags stand for all rows that
\* came up; where these decide as the vault's rows do it is refused to whom the header names, and whoever is not refused
\* gets the rows of his own if they fit.
THEOREM VaultsByJobForAll == StorageSpec => VaultsByJob
<1>1. StorageSpec => []VaultInv
  BY VaultInit, VaultNext, PTL DEF StorageSpec
<1> DEFINE c == open.player
           all == DOMAIN vault
           jobRow(S) == \E i \in S : vault[i][1] = "job"
           own(S) == \E i \in S : vault[i] = <<"job", c>>
           strict == jobRow(rolled) /\ c \notin high /\ ~own(rolled)
           refused == jobRow(all) /\ c \notin high /\ ~own(all)
           shown == (jobRow(all) => jobRow(rolled)) /\ (own(all) => own(rolled))
           his == {i \in rolled : vault[i] \in {<<"all", 0>>, <<"line", LineOf[c]>>, <<"job", c>>}}
           gets == given' = his /\ err' = IF his = {} THEN "nothing" ELSE "ok"
           fails == given' = {} /\ err' # "ok"
           Judged == IF strict \/ Vault!Cardinality(his) > free THEN fails ELSE gets
           Opened == /\ gets \/ fails
                     /\ c \in high \/ shown => IF refused \/ Vault!Cardinality(his) > free THEN fails ELSE gets
           Taken == {i \in rolled : Vault!Passes(vault[i], c)}
<1>2. ASSUME VaultInv, Vault!Finish PROVE Judged
  <2> PICK n \in Nat : vault \in [1 .. n -> Vault!Rows] /\ rolled \subseteq 1 .. n
    BY <1>2 DEF VaultInv
  <2>1. c \in Vault!Classes /\ c # 0 /\ checked = rolled /\ free \in Nat
    BY <1>2 DEF Vault!Finish, VaultInv
  <2>2. his = Taken
    BY <2>1, JobRowPasses
  <2>3. IsFiniteSet(his) /\ Cardinality(his) \in Nat /\ (Cardinality(his) = 0 <=> his = {})
    <3>1. IsFiniteSet(1 .. n)
      BY FS_Interval, n \in Int, 1 \in Int
    <3>2. his \subseteq 1 .. n
      BY VaultInv DEF VaultInv
    <3> HIDE DEF his
    <3> QED BY <3>1, <3>2, FS_Subset, FS_CardinalityType, FS_EmptySet
  <2>4. Vault!Refuses(open) <=> strict
    BY <1>2, <2>1 DEF Vault!Refuses, VaultInv, RowIs
  <2>5. LET room == IF strict THEN 0 ELSE free
        IN /\ given' = IF room < Cardinality(his) THEN {} ELSE his
           /\ err' = CASE his = {} -> "nothing" [] his # {} /\ strict -> "class"
                       [] OTHER -> IF room < Cardinality(his) THEN "full" ELSE "ok"
    <3>1. LET room == IF Vault!Refuses(open) THEN 0 ELSE free
          IN /\ given' = IF room < Cardinality(Taken) THEN {} ELSE Taken
             /\ err' = CASE Taken = {} -> "nothing" [] Taken # {} /\ Vault!Refuses(open) -> "class"
                         [] OTHER -> IF room < Cardinality(Taken) THEN "full" ELSE "ok"
      BY <1>2, SameCardinality DEF Vault!Finish
    <3> HIDE DEF his, strict, Taken
    <3> QED BY <2>2, <2>4, <3>1
  <2> HIDE DEF his, strict
  <2>9. Vault!Cardinality(his) = Cardinality(his)
    BY SameCardinality
  <2>6. CASE his = {}
    BY <2>1, <2>3, <2>5, <2>9, <2>6
  <2>7. CASE his # {} /\ strict
    BY <2>3, <2>5, <2>9, <2>7
  <2>8. CASE his # {} /\ ~strict
    BY <2>1, <2>3, <2>5, <2>9, <2>8
  <2> QED BY <2>6, <2>7, <2>8
<1>5. ASSUME VaultInv, Vault!Finish PROVE Opened
  <2> PICK n \in Nat : vault \in [1 .. n -> Vault!Rows] /\ rolled \subseteq 1 .. n
    BY <1>5 DEF VaultInv
  <2>1. rolled \subseteq all
    OBVIOUS
  <2>2. (jobRow(rolled) => jobRow(all)) /\ (own(rolled) => own(all))
    BY <2>1
  <2>3. Judged
    BY <1>2, <1>5
  <2>4. c \in high \/ shown => (strict <=> refused)
    <3> HIDE DEF jobRow, own
    <3> QED BY <2>2
  <2> HIDE DEF strict, refused, shown, gets, fails
  <2> QED BY <2>3, <2>4
<1>3. VaultInv /\ [StorageNext]_<<part, vars, titleVars, vaultVars>> => [Vault!Finish => Opened]_(Vault!vars)
  BY <1>5
<1>4. [][Vault!Finish => Opened]_(Vault!vars) => VaultsByJob
  BY PTL DEF VaultsByJob, Vault!VaultsByJob
<1> QED BY <1>1, <1>3, <1>4, PTL DEF StorageSpec
=============================================================================
