--------------------------- MODULE DungeonProofs ---------------------------
(***************************************************************************)
(* The dungeons, for any characters, parties, gates and rows.  Instances:  *)
(* between two steps the party lists, the numbers in the objects, the      *)
(* places and the states fit together, party by party, except where a      *)
(* member is still on a loading screen or has no object yet (GroupReady).  *)
(* Gates: a button's record is the one it was drawn for until the ring has *)
(* gone round (DrawnFor).                                                  *)
(***************************************************************************)
EXTENDS Dungeons, FiniteSetTheorems, SequenceTheorems, Induction, TLAPS

LEMMA SetOfAppend ==
    ASSUME NEW S, NEW s \in Seq(S), NEW x
    PROVE  SetOf(Append(s, x)) = SetOf(s) \cup {x}
<1> DEFINE t == Append(s, x)
<1>1. /\ Len(s) \in Nat /\ DOMAIN s = 1 .. Len(s) /\ DOMAIN t = 1 .. Len(s) + 1
      /\ t[Len(s) + 1] = x /\ \A i \in 1 .. Len(s) : t[i] = s[i]
  OBVIOUS
<1> HIDE DEF t
<1>2. DOMAIN t = DOMAIN s \cup {Len(s) + 1}
  BY <1>1
<1>3. {t[i] : i \in DOMAIN t} = {s[i] : i \in DOMAIN s} \cup {x}
  BY <1>1, <1>2
<1> QED BY <1>3 DEF SetOf, t

\* the part of a list that is kept has the members that are, and no more of them than before
LEMMA KeepMembers ==
    ASSUME NEW S, NEW s \in Seq(S), NEW W
    PROVE  /\ Keep(s, W) \in Seq(S)
           /\ SetOf(Keep(s, W)) = SetOf(s) \cap W
           /\ Len(Keep(s, W)) =< Len(s)
<1> DEFINE next(r, i) == IF s[i] \in W THEN Append(r, s[i]) ELSE r
           rule(f, n) == f = [i \in 0 .. n |-> IF i = 0 THEN << >> ELSE next(f[i - 1], i)]
           N == Len(s)
           defined == {n \in Nat : \E f : rule(f, n)}
<1>1. N \in Nat
  OBVIOUS
<1>2. \A n \in 0 .. N : n \in defined
  <2>1. 0 \in defined
    <3>1. rule([i \in 0 .. 0 |-> << >>], 0)
      OBVIOUS
    <3> QED BY <3>1
  <2>2. ASSUME NEW n \in 0 .. N, n < N, n \in defined PROVE n + 1 \in defined
    <3>1. PICK f : rule(f, n)
      BY <2>2
    <3> DEFINE g == [i \in 0 .. n + 1 |-> IF i = n + 1 THEN next(f[n], n + 1) ELSE f[i]]
    <3>2. ASSUME NEW i \in 0 .. n + 1 PROVE g[i] = IF i = 0 THEN << >> ELSE next(g[i - 1], i)
      <4>1. CASE i = n + 1
        BY <1>1, <4>1
      <4>2. CASE i # n + 1
        <5>1. i \in 0 .. n /\ g[i] = f[i]
          BY <1>1, <4>2
        <5>2. f[i] = IF i = 0 THEN << >> ELSE next(f[i - 1], i)
          BY <3>1, <5>1
        <5>3. i # 0 => g[i - 1] = f[i - 1]
          BY <1>1, <5>1
        <5> QED BY <5>1, <5>2, <5>3
      <4> QED BY <4>1, <4>2
    <3>3. rule(g, n + 1)
      <4>1. g = [i \in 0 .. n + 1 |-> g[i]]
        OBVIOUS
      <4> HIDE DEF next, g
      <4> QED BY <3>2, <4>1
    <3>4. \E h : rule(h, n + 1)
      <4> HIDE DEF rule, g
      <4> QED BY <3>3
    <3>5. n + 1 \in Nat
      BY <1>1
    <3> HIDE DEF rule, N
    <3> QED BY <3>4, <3>5
  <2> HIDE DEF defined
  <2> QED BY <1>1, <2>1, <2>2, UpTo
<1> DEFINE kept == CHOOSE f : rule(f, N)
<1>3. rule(kept, N)
  <2>1. N \in defined
    <3> HIDE DEF defined, N
    <3> QED BY <1>1, <1>2
  <2>2. \E f : rule(f, N)
    BY <2>1
  <2> HIDE DEF rule
  <2> QED BY <2>2
<1>4. Keep(s, W) = kept[N]
  BY DEF Keep
<1> HIDE DEF kept
<1> DEFINE holds == {n \in 0 .. N : /\ kept[n] \in Seq(S) /\ Len(kept[n]) =< n
                                    /\ SetOf(kept[n]) = {s[i] : i \in 1 .. n} \cap W}
<1>5. \A n \in 0 .. N : n \in holds
  <2>1. 0 \in holds
    <3>1. kept[0] = << >>
      BY <1>1, <1>3
    <3>2. SetOf(<< >>) = {} /\ {s[i] : i \in 1 .. 0} = {} /\ Len(<< >>) = 0 /\ << >> \in Seq(S)
      BY DEF SetOf
    <3>3. SetOf(kept[0]) = {s[i] : i \in 1 .. 0} \cap W /\ kept[0] \in Seq(S) /\ Len(kept[0]) =< 0
      BY <3>1, <3>2
    <3> HIDE DEF N
    <3> QED BY <1>1, <3>3
  <2>2. ASSUME NEW n \in 0 .. N, n < N, n \in holds PROVE n + 1 \in holds
    <3>1. n + 1 \in 1 .. N /\ n + 1 # 0 /\ n + 1 - 1 = n /\ s[n + 1] \in S
      BY <1>1, <2>2
    <3>2. kept[n + 1] = next(kept[n], n + 1)
      <4> HIDE DEF next, N
      <4> QED BY <1>3, <3>1
    <3>3. {s[i] : i \in 1 .. n + 1} = {s[i] : i \in 1 .. n} \cup {s[n + 1]}
      BY <1>1
    <3>4. kept[n] \in Seq(S) /\ Len(kept[n]) =< n /\ SetOf(kept[n]) = {s[i] : i \in 1 .. n} \cap W
      BY <2>2
    <3> HIDE DEF N
    <3>5. CASE s[n + 1] \in W
      <4>1. kept[n + 1] = Append(kept[n], s[n + 1])
        BY <3>2, <3>5
      <4>2. kept[n + 1] \in Seq(S) /\ Len(kept[n + 1]) =< n + 1
        BY <1>1, <3>1, <3>4, <4>1
      <4>3. SetOf(kept[n + 1]) = SetOf(kept[n]) \cup {s[n + 1]}
        BY <3>4, <4>1, SetOfAppend
      <4>4. SetOf(kept[n + 1]) = {s[i] : i \in 1 .. n + 1} \cap W
        BY <3>3, <3>4, <3>5, <4>3
      <4> QED BY <1>1, <3>1, <4>2, <4>4
    <3>6. CASE s[n + 1] \notin W
      <4>1. kept[n + 1] = kept[n]
        BY <3>2, <3>6
      <4>2. kept[n + 1] \in Seq(S) /\ Len(kept[n + 1]) =< n + 1
        BY <1>1, <3>1, <3>4, <4>1
      <4>4. SetOf(kept[n + 1]) = {s[i] : i \in 1 .. n + 1} \cap W
        BY <3>3, <3>4, <3>6, <4>1
      <4> QED BY <1>1, <3>1, <4>2, <4>4
    <3> QED BY <3>5, <3>6
  <2> HIDE DEF holds
  <2> QED BY <1>1, <2>1, <2>2, UpTo
<1>6. N \in holds
  <2> HIDE DEF holds, N
  <2> QED BY <1>1, <1>5
<1>7. SetOf(s) = {s[i] : i \in 1 .. N}
  BY DEF SetOf
<1> QED BY <1>4, <1>6, <1>7
-----------------------------------------------------------------------------
(* Instances. *)

\* the value of a menu, and whose key it may hold
Menus == [kind : {"none", "enter", "warning", "delete"}, key : Keys \cup {NoParty}]
OwnKeys(c) == Parties \cup {Solo(c)}

PlacesTyped ==
    /\ party \in [Chars -> Parties \cup {NoParty}] /\ slots \in [Parties -> Seq(Chars)]
    /\ where \in [Chars -> Keys \cup {Town, Away}] /\ open \subseteq Keys
    /\ menu \in [Chars -> Menus]
    /\ \A c \in Chars : /\ menu[c].kind = "enter" => menu[c].key \in OwnKeys(c)
                        /\ menu[c].kind = "delete" => menu[c].key \in Keys

\* the list of a party and the numbers in the objects agree; an object is that of a member in this zone
ListsAgree ==
    /\ \A p \in Parties : SetOf(slots[p]) = {x \in Chars : party[x] = p}
    /\ \A x \in objs : x \in Chars /\ party[x] # NoParty /\ where[x] # Away
    /\ \A x \in moving : x \in Chars /\ where[x] # Away

\* nobody of his group is on a loading screen, and everybody of it who is here has his object
GroupReady(c) == \A x \in Group(c) : x \notin moving /\ (party[x] # NoParty /\ where[x] # Away => x \in objs)
\* the state of exactly the members on his map
Fitting(c) ==
    LET size == Cardinality({x \in Group(c) : where[x] = where[c]})
    IN IF where[c] \in Keys /\ size =< kMaxMembers THEN size ELSE 0

StatesFit ==
    /\ buff = [c \in Chars |-> buff[c]]
    /\ \A c \in Chars : where[c] = Away => buff[c] = 0
    /\ \A c \in Chars : GroupReady(c) => buff[c] = Fitting(c)

PartyInv == PlacesTyped /\ ListsAgree /\ StatesFit

LEMMA KeyFacts ==
    /\ Keys \subseteq Nat /\ Town \notin Keys /\ Away \notin Keys /\ Town # Away /\ NoParty \notin Parties
    /\ \A p \in Parties : p \in Nat /\ p < KeyBase /\ p \in Keys
    /\ \A c \in Chars : Solo(c) \in Keys /\ Solo(c) >= KeyBase /\ OwnKeys(c) \subseteq Keys
    /\ \A c, d \in Chars : Solo(c) = Solo(d) => c = d
    /\ KeyBase \in Nat
<1>1. KeyBase \in Nat /\ Chars \subseteq Nat
  BY InstancesOK
<1>2. \A p \in Parties : p \in Nat /\ p < KeyBase
  BY InstancesOK
<1>3. \A c \in Chars : c \in Nat /\ KeyBase + c \in Nat /\ KeyBase + c >= KeyBase
  BY <1>1
<1>4. Keys \subseteq Nat
  BY <1>2, <1>3 DEF Keys, Solo
<1>5. \A c, d \in Chars : KeyBase + c = KeyBase + d => c = d
  BY <1>1
<1>6. -1 \notin Nat /\ -2 \notin Nat /\ -3 \notin Nat /\ -2 # -3
  OBVIOUS
<1>7. Town \notin Keys /\ Away \notin Keys /\ Town # Away /\ NoParty \notin Parties
  BY <1>2, <1>4, <1>6 DEF Town, Away, NoParty
<1>8. \A c \in Chars : Solo(c) \in Keys /\ Solo(c) >= KeyBase /\ OwnKeys(c) \subseteq Keys
  BY <1>3 DEF Keys, Solo, OwnKeys
<1> QED BY <1>1, <1>2, <1>4, <1>5, <1>7, <1>8 DEF Keys, Solo

LEMMA PartyInit == Init => PartyInv
<1> SUFFICES ASSUME Init PROVE PartyInv
  OBVIOUS
<1>1. PlacesTyped
  BY DEF Init, PlacesTyped, Menus, NoMenu
<1>2. SetOf(<< >>) = {}
  BY DEF SetOf
<1>3. ListsAgree
  BY <1>2, KeyFacts DEF Init, ListsAgree
<1>4. StatesFit
  BY KeyFacts DEF Init, StatesFit, Fitting
<1> QED BY <1>1, <1>3, <1>4 DEF PartyInv

\* what a click offers and a Yes leads to
LEMMA EntryKeys ==
    ASSUME PartyInv, NEW c \in Chars, menu[c].kind = "enter"
    PROVE  LET k == menu[c].key IN
           /\ k \in OwnKeys(c) /\ FindInstance(k) \in Keys
           /\ k >= KeyBase => k = Solo(c) /\ FindInstance(k) = k
           /\ k < KeyBase => FindInstance(k) = k
                             \/ (k \notin open /\ \E x \in SetOf(slots[k]) : FindInstance(k) = Solo(x))
<1> DEFINE k == menu[c].key
           s == Keep(slots[k], Entrants)
<1>1. k \in OwnKeys(c)
  BY DEF PartyInv, PlacesTyped
<1>2. k >= KeyBase => k = Solo(c) /\ k \in Keys /\ FindInstance(k) = k
  BY <1>1, KeyFacts DEF OwnKeys, FindInstance
<1>3. CASE k < KeyBase
  <2>1. k \in Parties /\ k \in Keys /\ slots[k] \in Seq(Chars)
    <3>1. k # Solo(c)
      <4>1. KeyBase \in Nat /\ Solo(c) \in Nat /\ Solo(c) >= KeyBase
        BY KeyFacts
      <4> HIDE DEF k
      <4> QED BY <1>3, <4>1
    <3>2. k \in Parties
      BY <1>1, <3>1 DEF OwnKeys
    <3> HIDE DEF k
    <3> QED BY <3>2, KeyFacts DEF PartyInv, PlacesTyped
  <2>2. s \in Seq(Chars) /\ SetOf(s) \subseteq SetOf(slots[k])
    BY <2>1, KeepMembers
  <2>3. s # << >> => Head(s) \in SetOf(s) /\ Head(s) \in Chars
    <3> HIDE DEF s
    <3> QED BY <2>2 DEF SetOf
  <2>4. FindInstance(k) = IF k \in open THEN k ELSE IF s = << >> THEN k ELSE Solo(Head(s))
    BY <1>3, <2>1, KeyFacts DEF FindInstance
  <2> HIDE DEF s
  <2> QED BY <1>1, <1>3, <2>1, <2>2, <2>3, <2>4, KeyFacts
<1>4. k \in Nat
  BY <1>1, KeyFacts
<1> QED BY <1>1, <1>2, <1>3, <1>4, KeyFacts

(* What a refresh gives, in the state after a step: n has the step's new values. *)

\* of somebody whose group nothing has happened to
LEMMA GroupStays ==
    ASSUME StatesFit, NEW x \in Chars, party'[x] = party[x],
           party[x] # NoParty => \A y \in Chars : party'[y] = party[x] <=> party[y] = party[x],
           \A y \in Group(x) : where'[y] = where[y] /\ (y \in moving => y \in moving') /\ (y \in objs' => y \in objs),
           GroupReady(x)'
    PROVE  Group(x)' = Group(x) /\ buff[x] = Fitting(x)'
<1>1. Group(x)' = Group(x)
  BY DEF Group
<1>2. \A y \in Group(x) : party'[y] = party[y]
  BY DEF Group
<1>3. GroupReady(x)
  BY <1>1, <1>2 DEF GroupReady
<1>4. x \in Group(x)
  BY DEF Group
<1>5. Fitting(x)' = Fitting(x)
  <2>1. {y \in Group(x)' : where'[y] = where'[x]} = {y \in Group(x) : where[y] = where[x]} /\ where'[x] = where[x]
    BY <1>1, <1>4
  <2> QED BY <2>1 DEF Fitting
<1> QED BY <1>1, <1>3, <1>5 DEF StatesFit

\* a list that holds every member who is here, and none of another group
LEMMA FitIsFitting ==
    ASSUME NEW n, n.where = where', NEW x \in Chars, NEW list, PlacesTyped',
           \A y \in list : where'[y] = where'[x] => y \in Group(x)',
           \A y \in Group(x)' : where'[y] # Away => y \in list
    PROVE  Fit(n, x, list) = Fitting(x)'
<1>1. CASE where'[x] \in Keys
  <2>1. where'[x] # Away
    BY <1>1, KeyFacts
  <2>2. {y \in list : where'[y] = where'[x]} = {y \in Group(x)' : where'[y] = where'[x]}
    BY <2>1
  <2> QED BY <2>2 DEF Fit, Fitting
<1>2. CASE where'[x] \notin Keys
  BY <1>2 DEF Fit, Fitting
<1> QED BY <1>1, <1>2

\* on his own
LEMMA FitAlone ==
    ASSUME NEW n, n.where = where', NEW x \in Chars, party'[x] = NoParty, PlacesTyped'
    PROVE  Fit(n, x, {x}) = Fitting(x)'
BY FitIsFitting DEF Group

\* everybody of the group of c, whoever of it is meant: c is here, or there is nobody
LEMMA GroupRefreshed ==
    ASSUME NEW b, NEW n, n.party = party', n.objs = objs', n.where = where', PlacesTyped', ListsAgree',
           NEW c \in Chars, NEW gone, \A y \in gone : where'[y] = Away \/ y \notin Group(c)', c \notin gone,
           NEW x \in Chars
    PROVE  LET r == Refresh(b, n, c, gone)[x] IN
           /\ x \in Group(c)' /\ where'[x] # Away /\ GroupReady(x)' => r = Fitting(x)'
           /\ x \notin Group(c)' /\ ~(x \in gone /\ party'[x] = NoParty) => r = b[x]
           /\ where'[x] = Away => r = b[x] \/ r = 0
<1> DEFINE list == Members(n, c, gone)
<1>1. list \subseteq Group(c)' /\ list \subseteq Chars
  BY DEF Members, Group, ListsAgree
<1>2. ASSUME x \in Group(c)', where'[x] # Away, GroupReady(x)' PROVE x \in list /\ Fit(n, x, list) = Fitting(x)'
  <2>1. Group(x)' = Group(c)'
    BY <1>2 DEF Group
  <2>2. \A y \in Group(x)' : where'[y] # Away => y \in list
    BY <1>2, <2>1 DEF GroupReady, Members, Group
  <2> HIDE DEF list
  <2>3. x \in list
    BY <1>2, <2>1, <2>2
  <2> QED BY <1>1, <2>1, <2>2, <2>3, FitIsFitting
<1>3. where'[x] = Away => Fit(n, x, list) = 0 /\ Fit(n, x, {x}) = 0
  BY KeyFacts DEF Fit
<1> HIDE DEF list
<1>4. Refresh(b, n, c, gone)[x] = IF x \in list THEN Fit(n, x, list)
                                  ELSE IF x \in gone /\ party'[x] = NoParty THEN Fit(n, x, {x}) ELSE b[x]
  BY DEF Refresh, list
<1> QED BY <1>1, <1>2, <1>3, <1>4

\* the same through the first member with an object: without one, nobody of the party is here, or somebody's is to come
LEMMA PartyRefreshed ==
    ASSUME NEW b, b = [y \in Chars |-> b[y]],
           NEW n, n.party = party', n.slots = slots', n.objs = objs', n.where = where', PlacesTyped', ListsAgree',
           NEW p \in Parties, NEW gone, \A y \in gone : where'[y] = Away \/ party'[y] # p, NEW x \in Chars
    PROVE  LET r == RefreshParty(b, n, p, gone) IN
           /\ r = [y \in Chars |-> r[y]]
           /\ party'[x] = p /\ where'[x] # Away /\ GroupReady(x)' => r[x] = Fitting(x)'
           /\ party'[x] # p /\ ~(x \in gone /\ party'[x] = NoParty) => r[x] = b[x]
           /\ where'[x] = Away => r[x] = b[x] \/ r[x] = 0
<1> DEFINE s == Keep(slots'[p], objs' \ gone)
           r == RefreshParty(b, n, p, gone)
<1>1. s \in Seq(Chars) /\ SetOf(s) = {y \in Chars : party'[y] = p} \cap (objs' \ gone)
  BY KeepMembers DEF PlacesTyped, ListsAgree
<1>2. r = IF s = << >> THEN b ELSE Refresh(b, n, Head(s), gone)
  BY DEF RefreshParty
<1> HIDE DEF s, r
<1>3. CASE s = << >>
  <2>1. SetOf(s) = {}
    BY <1>3 DEF SetOf
  <2>2. ~(party'[x] = p /\ where'[x] # Away /\ GroupReady(x)')
    <3> SUFFICES ASSUME party'[x] = p, where'[x] # Away, GroupReady(x)' PROVE FALSE
      OBVIOUS
    <3>1. x \in Group(x)' /\ party'[x] # NoParty
      BY KeyFacts DEF Group
    <3>2. x \in objs'
      BY <3>1 DEF GroupReady
    <3> QED BY <1>1, <2>1, <3>2
  <2> QED BY <1>2, <1>3, <2>2 DEF r
<1>4. CASE s # << >>
  <2>1. PICK c : c = Head(s) /\ c \in SetOf(s)
    BY <1>1, <1>4 DEF SetOf
  <2>2. c \in Chars /\ party'[c] = p /\ c \in objs' /\ c \notin gone /\ p # NoParty
    BY <1>1, <2>1, KeyFacts
  <2>3. r = Refresh(b, n, c, gone)
    BY <1>2, <1>4, <2>1
  <2>4. \A y \in Chars : y \in Group(c)' <=> party'[y] = p
    BY <2>2 DEF Group
  <2>5. \A y \in gone : where'[y] = Away \/ y \notin Group(c)'
    BY <2>4, <2>2 DEF Group
  <2>6. r = [y \in Chars |-> r[y]]
    BY <2>3 DEF Refresh
  <2>7. /\ x \in Group(c)' /\ where'[x] # Away /\ GroupReady(x)' => r[x] = Fitting(x)'
        /\ x \notin Group(c)' /\ ~(x \in gone /\ party'[x] = NoParty) => r[x] = b[x]
        /\ where'[x] = Away => r[x] = b[x] \/ r[x] = 0
    BY <2>2, <2>3, <2>5, GroupRefreshed
  <2> QED BY <2>4, <2>6, <2>7 DEF r
<1> QED BY <1>3, <1>4

(* The actions. *)

LEMMA AllFit ==
    ASSUME PlacesTyped', buff' = [y \in Chars |-> buff'[y]],
           \A x \in Chars : where'[x] = Away => buff'[x] = 0,
           \A x \in Chars : where'[x] # Away /\ GroupReady(x)' => buff'[x] = Fitting(x)'
    PROVE  StatesFit'
<1>1. \A x \in Chars : where'[x] = Away => Fitting(x)' = 0
  BY KeyFacts DEF Fitting
<1> QED BY <1>1 DEF StatesFit

\* whoever has moved is on a loading screen, and his group waits for him
LEMMA MoversWait ==
    ASSUME PartyInv, PlacesTyped', UNCHANGED <<partyVars, buff>>, moving \subseteq moving',
           \A x \in Chars : where'[x] # where[x] => x \in moving' /\ where'[x] # Away
    PROVE  StatesFit'
<1>1. ASSUME NEW x \in Chars, GroupReady(x)' PROVE buff'[x] = Fitting(x)'
  <2>1. Group(x)' = Group(x) /\ Group(x) \subseteq Chars
    BY DEF Group, partyVars
  <2>2. \A y \in Group(x) : where'[y] = where[y]
    BY <1>1, <2>1 DEF GroupReady
  <2> QED BY <1>1, <2>2, GroupStays DEF PartyInv, partyVars
<1> QED BY <1>1, AllFit DEF PartyInv, StatesFit, partyVars

LEMMA LoginCompleteStep == ASSUME PartyInv, NEW c \in Chars, LoginComplete(c) PROVE PartyInv'
<1>1. PlacesTyped' /\ ListsAgree'
  BY DEF LoginComplete, PartyInv, PlacesTyped, ListsAgree, partyVars
<1>2. /\ Now.party = party' /\ Now.objs = objs' /\ Now.where = where' /\ buff' = Refresh(buff, Now, c, {})
      /\ UNCHANGED <<party, objs, where>> /\ moving' = moving \ {c}
  BY DEF LoginComplete, Now, partyVars
<1>3. buff' = [y \in Chars |-> buff'[y]]
  BY <1>2 DEF Refresh
<1>4. ASSUME NEW x \in Chars
      PROVE  /\ where'[x] = Away => buff'[x] = 0
             /\ where'[x] # Away /\ GroupReady(x)' => buff'[x] = Fitting(x)'
  <2>1. /\ x \in Group(c)' /\ where'[x] # Away /\ GroupReady(x)' => buff'[x] = Fitting(x)'
        /\ x \notin Group(c)' => buff'[x] = buff[x]
        /\ where'[x] = Away => buff'[x] = buff[x] \/ buff'[x] = 0
    <3>1. PICK n : n = Now
      OBVIOUS
    <3>2. n.party = party' /\ n.objs = objs' /\ n.where = where' /\ c \notin {} /\ \A y \in {} : y \notin Group(c)'
      BY <1>2, <3>1
    <3> QED BY <1>1, <1>2, <3>1, <3>2, GroupRefreshed
  <2>2. x \notin Group(c)' => \A y \in Group(x) : y # c
    BY <1>2 DEF Group
  <2>3. x \notin Group(c)' /\ GroupReady(x)' => buff[x] = Fitting(x)'
    BY <1>2, <2>2, GroupStays DEF PartyInv
  <2> QED BY <1>2, <2>1, <2>3 DEF PartyInv, StatesFit
<1> QED BY <1>1, <1>3, <1>4, AllFit DEF PartyInv

LEMMA ReviveStep == ASSUME PartyInv, NEW c \in Chars, Revive(c) PROVE PartyInv'
<1> DEFINE b == [buff EXCEPT ![c] = 0]
<1>1. PlacesTyped' /\ ListsAgree'
  BY DEF Revive, PartyInv, PlacesTyped, ListsAgree, partyVars
<1>2. /\ Now.party = party' /\ Now.objs = objs' /\ Now.where = where' /\ buff' = Refresh(b, Now, c, {})
      /\ UNCHANGED <<party, objs, where, moving>> /\ where[c] # Away
  BY DEF Revive, Now, partyVars, Here
<1>3. buff' = [y \in Chars |-> buff'[y]]
  BY <1>2 DEF Refresh
<1>4. ASSUME NEW x \in Chars
      PROVE  /\ where'[x] = Away => buff'[x] = 0
             /\ where'[x] # Away /\ GroupReady(x)' => buff'[x] = Fitting(x)'
  <2>0. b[x] = IF x = c THEN 0 ELSE buff[x]
    BY DEF PartyInv, StatesFit
  <2> HIDE DEF b
  <2>1. /\ x \in Group(c)' /\ where'[x] # Away /\ GroupReady(x)' => buff'[x] = Fitting(x)'
        /\ x \notin Group(c)' => buff'[x] = b[x]
        /\ where'[x] = Away => buff'[x] = b[x] \/ buff'[x] = 0
    <3>1. PICK n : n = Now
      OBVIOUS
    <3>2. n.party = party' /\ n.objs = objs' /\ n.where = where' /\ c \notin {} /\ \A y \in {} : y \notin Group(c)'
      BY <1>2, <3>1
    <3> QED BY <1>1, <1>2, <3>1, <3>2, GroupRefreshed
  <2>2. x \notin Group(c)' => x # c
    BY DEF Group
  <2>3. GroupReady(x)' => buff[x] = Fitting(x)'
    BY <1>2, GroupStays DEF PartyInv
  <2> QED BY <1>2, <2>0, <2>1, <2>2, <2>3 DEF PartyInv, StatesFit
<1> QED BY <1>1, <1>3, <1>4, AllFit DEF PartyInv

LEMMA HandleSetStep == ASSUME PartyInv, NEW c \in Chars, HandleSet(c) PROVE PartyInv'
<1> DEFINE n == [Now EXCEPT !.objs = @ \cup {c}]
           p == party[c]
<1>1. /\ n.party = party' /\ n.slots = slots' /\ n.objs = objs' /\ n.where = where' /\ buff' = RefreshParty(buff, n, p, {})
      /\ UNCHANGED <<party, slots, where, moving, open, menu>> /\ objs' = objs \cup {c}
  BY DEF HandleSet, Now, Becomes
<1>2. p \in Parties /\ where[c] # Away
  BY DEF HandleSet, Here, PartyInv, PlacesTyped
<1>3. PlacesTyped' /\ ListsAgree'
  BY <1>1, <1>2, KeyFacts DEF PartyInv, PlacesTyped, ListsAgree
<1> HIDE DEF n
<1>4. PICK q \in Parties : q = p
  BY <1>2
<1>5. ASSUME NEW x \in Chars
      PROVE  /\ buff' = [y \in Chars |-> buff'[y]]
             /\ where'[x] = Away => buff'[x] = 0
             /\ where'[x] # Away /\ GroupReady(x)' => buff'[x] = Fitting(x)'
  <2>1. /\ buff' = [y \in Chars |-> buff'[y]]
        /\ party'[x] = q /\ where'[x] # Away /\ GroupReady(x)' => buff'[x] = Fitting(x)'
        /\ party'[x] # q => buff'[x] = buff[x]
        /\ where'[x] = Away => buff'[x] = buff[x] \/ buff'[x] = 0
    <3>1. buff = [y \in Chars |-> buff[y]]
      BY DEF PartyInv, StatesFit
    <3> QED BY <1>1, <1>3, <1>4, <3>1, PartyRefreshed
  <2>2. party[x] # q => \A y \in Group(x) : y # c
    BY <1>4 DEF Group
  <2>3. party[x] # q /\ GroupReady(x)' => buff[x] = Fitting(x)'
    BY <1>1, <2>2, GroupStays DEF PartyInv
  <2> QED BY <1>1, <2>1, <2>3 DEF PartyInv, StatesFit
<1>6. buff' = [y \in Chars |-> buff'[y]]
  BY <1>5
<1> QED BY <1>3, <1>5, <1>6, AllFit DEF PartyInv

LEMMA LeaveStep == ASSUME PartyInv, Settled, NEW c \in Chars, Leave(c) PROVE PartyInv'
<1> DEFINE m == [Now EXCEPT !.party[c] = NoParty, !.slots[party[c]] = Keep(@, Chars \ {c}), !.objs = @ \ {c}]
<1>1. /\ m.party = party' /\ m.slots = slots' /\ m.objs = objs' /\ m.where = where' /\ buff' = LeftBuff(buff, m, party[c], c)
      /\ party' = [party EXCEPT ![c] = NoParty] /\ slots' = [slots EXCEPT ![party[c]] = Keep(@, Chars \ {c})]
      /\ objs' = objs \ {c} /\ UNCHANGED <<where, moving, open, menu>>
  BY DEF Leave, Now, Becomes
<1>2. PICK n, p : n = m /\ p = party[c]
  OBVIOUS
<1> HIDE DEF m
<1>3. p \in Parties /\ p # NoParty
  BY <1>2, KeyFacts DEF Leave, PartyInv, PlacesTyped
<1>4. Keep(slots[p], Chars \ {c}) \in Seq(Chars) /\ SetOf(Keep(slots[p], Chars \ {c})) = SetOf(slots[p]) \cap (Chars \ {c})
  <2>1. slots[p] \in Seq(Chars)
    BY <1>3 DEF PartyInv, PlacesTyped
  <2> QED BY <2>1, KeepMembers
<1>5. PlacesTyped'
  BY <1>1, <1>2, <1>3, <1>4 DEF PartyInv, PlacesTyped
<1>6. ListsAgree'
  <2>1. \A x \in Chars : party'[x] = IF x = c THEN NoParty ELSE party[x]
    BY <1>1 DEF PartyInv, PlacesTyped
  <2>2. ASSUME NEW q \in Parties PROVE SetOf(slots'[q]) = {x \in Chars : party'[x] = q}
    <3>1. slots'[q] = IF q = p THEN Keep(slots[p], Chars \ {c}) ELSE slots[q]
      BY <1>1, <1>2 DEF PartyInv, PlacesTyped
    <3>2. SetOf(slots[q]) = {x \in Chars : party[x] = q}
      BY DEF PartyInv, ListsAgree
    <3>3. q # NoParty
      BY KeyFacts
    <3>4. CASE q = p
      <4>1. SetOf(slots'[q]) = {x \in Chars : party[x] = p} \cap (Chars \ {c})
        BY <1>4, <3>1, <3>2, <3>4
      <4>2. {x \in Chars : party'[x] = p} = {x \in Chars : party[x] = p} \cap (Chars \ {c})
        BY <2>1, <1>3
      <4> QED BY <3>4, <4>1, <4>2
    <3>5. CASE q # p
      <4>1. {x \in Chars : party'[x] = q} = {x \in Chars : party[x] = q}
        BY <1>2, <2>1, <3>3, <3>5
      <4> QED BY <3>1, <3>2, <3>5, <4>1
    <3> QED BY <3>4, <3>5
  <2> QED BY <1>1, <2>1, <2>2 DEF PartyInv, ListsAgree
<1> DEFINE b == RefreshParty(buff, n, p, {})
           d == RefreshParty(buff, n, p, {c})
<1>7. \A x \in Chars : party'[x] = IF x = c THEN NoParty ELSE party[x]
  BY <1>1 DEF PartyInv, PlacesTyped
<1>8. ASSUME NEW gone \in {{}, {c}}, NEW x \in Chars
      PROVE  LET r == RefreshParty(buff, n, p, gone) IN
             /\ r = [y \in Chars |-> r[y]]
             /\ party'[x] = p /\ where'[x] # Away /\ GroupReady(x)' => r[x] = Fitting(x)'
             /\ party'[x] # p /\ ~(x \in gone /\ party'[x] = NoParty) => r[x] = buff[x]
             /\ where'[x] = Away => r[x] = buff[x] \/ r[x] = 0
  <2>1. buff = [y \in Chars |-> buff[y]]
    BY DEF PartyInv, StatesFit
  <2>2. \A y \in gone : where'[y] = Away \/ party'[y] # p
    BY <1>3, <1>7
  <2>3. n.party = party' /\ n.slots = slots' /\ n.objs = objs' /\ n.where = where'
    BY <1>1, <1>2
  <2> QED BY <1>3, <1>5, <1>6, <2>1, <2>2, <2>3, PartyRefreshed
<1>9. \A x \in Chars : x # c /\ party[x] # p /\ GroupReady(x)' => buff[x] = Fitting(x)'
  <2> SUFFICES ASSUME NEW x \in Chars, x # c, party[x] # p, GroupReady(x)' PROVE buff[x] = Fitting(x)'
    OBVIOUS
  <2>1. \A y \in Group(x) : y # c
    BY <1>2 DEF Group
  <2> QED BY <1>1, <1>2, <1>7, <2>1, GroupStays DEF PartyInv
<1>10. buff' = IF c \in objs THEN Refresh(d, n, c, {}) ELSE b
  BY <1>1, <1>2 DEF LeftBuff
<1>11. Members(n, c, {}) = {c}
  BY <1>1, <1>2, <1>7 DEF Members
<1>12. buff' = [y \in Chars |-> buff'[y]]
  <2>1. b = [y \in Chars |-> b[y]]
    BY <1>8
  <2> HIDE DEF b, d
  <2> QED BY <1>10, <2>1 DEF Refresh
<1>13. \A x \in Chars : buff'[x] = IF c \notin objs THEN b[x] ELSE IF x = c THEN Fit(n, c, {c}) ELSE d[x]
  <2> HIDE DEF b, d
  <2> QED BY <1>10, <1>11 DEF Refresh
<1>14. Fit(n, c, {c}) = Fitting(c)'
  BY <1>1, <1>2, <1>5, <1>7, FitAlone
<1>15. c \notin objs => where[c] = Away \/ c \in moving
  BY DEF Settled, Leave, Here
<1>16. where[c] = Away => c \notin objs
  BY DEF PartyInv, ListsAgree
<1>17. \A x \in Chars : where[x] = Away => buff[x] = 0
  BY DEF PartyInv, StatesFit
<1>18. ASSUME NEW x \in Chars
       PROVE  /\ where'[x] = Away => buff'[x] = 0
              /\ where'[x] # Away /\ GroupReady(x)' => buff'[x] = Fitting(x)'
  <2>1. CASE x = c
    <3>1. where'[c] = Away => b[c] = 0
      BY <1>1, <1>8, <1>17
    <3>2. GroupReady(c)' => c \notin moving
      BY <1>1, <1>7 DEF GroupReady, Group
    <3> HIDE DEF b, d
    <3> QED BY <1>1, <1>13, <1>14, <1>15, <1>16, <2>1, <3>1, <3>2
  <2>2. CASE x # c
    <3>1. /\ party'[x] = p /\ where'[x] # Away /\ GroupReady(x)' => b[x] = Fitting(x)' /\ d[x] = Fitting(x)'
          /\ party'[x] # p => b[x] = buff[x] /\ d[x] = buff[x]
          /\ where'[x] = Away => b[x] \in {buff[x], 0} /\ d[x] \in {buff[x], 0}
      BY <1>8, <2>2
    <3> HIDE DEF b, d
    <3> QED BY <1>1, <1>7, <1>9, <1>13, <1>17, <2>2, <3>1
  <2> QED BY <2>1, <2>2
<1> QED BY <1>5, <1>6, <1>12, <1>18, AllFit DEF PartyInv

LEMMA BreakStep == ASSUME PartyInv, Settled, NEW p \in Parties, Break(p) PROVE PartyInv'
<1> DEFINE m == [party |-> [c \in Chars |-> IF party[c] = p THEN NoParty ELSE party[c]], slots |-> [slots EXCEPT ![p] = << >>],
                 objs |-> objs \ SetOf(slots[p]), where |-> where]
<1>1. /\ m.where = where' /\ party' = [c \in Chars |-> IF party[c] = p THEN NoParty ELSE party[c]]
      /\ slots' = [slots EXCEPT ![p] = << >>]
      /\ objs' = objs \ SetOf(slots[p]) /\ UNCHANGED <<where, moving, open, menu>>
      /\ buff' = [c \in Chars |-> IF c \in SetOf(slots[p]) \cap objs THEN Fit(m, c, {c}) ELSE buff[c]]
  BY DEF Break, Becomes
<1>2. PICK n : n = m
  OBVIOUS
<1> HIDE DEF m
<1>3. SetOf(slots[p]) = {x \in Chars : party[x] = p} /\ p # NoParty
  BY KeyFacts DEF PartyInv, ListsAgree
<1>4. PlacesTyped'
  BY <1>1 DEF PartyInv, PlacesTyped
<1>5. ListsAgree'
  <2>1. ASSUME NEW q \in Parties PROVE SetOf(slots'[q]) = {x \in Chars : party'[x] = q}
    <3>1. slots'[q] = IF q = p THEN << >> ELSE slots[q]
      BY <1>1 DEF PartyInv, PlacesTyped
    <3>2. SetOf(slots[q]) = {x \in Chars : party[x] = q} /\ q # NoParty /\ SetOf(<< >>) = {}
      BY KeyFacts DEF PartyInv, ListsAgree, SetOf
    <3> QED BY <1>1, <3>1, <3>2
  <2> QED BY <1>1, <1>3, <2>1 DEF PartyInv, ListsAgree
<1>6. ASSUME NEW x \in Chars
      PROVE  /\ where'[x] = Away => buff'[x] = 0
             /\ where'[x] # Away /\ GroupReady(x)' => buff'[x] = Fitting(x)'
  <2>1. CASE party[x] = p
    <3>1. party'[x] = NoParty
      BY <1>1, <2>1
    <3>2. Fit(n, x, {x}) = Fitting(x)'
      BY <1>1, <1>2, <1>4, <3>1, FitAlone
    <3>3. where[x] # Away /\ GroupReady(x)' => x \in objs
      BY <1>1, <1>3, <2>1, <3>1 DEF GroupReady, Group, Settled, Here
    <3>4. where[x] = Away => x \notin objs /\ buff[x] = 0
      BY DEF PartyInv, ListsAgree, StatesFit
    <3> QED BY <1>1, <1>2, <1>3, <2>1, <3>2, <3>3, <3>4
  <2>2. CASE party[x] # p
    <3>1. buff'[x] = buff[x] /\ party'[x] = party[x]
      BY <1>1, <1>3, <2>2
    <3>2. party[x] # NoParty => \A y \in Chars : party'[y] = party[x] <=> party[y] = party[x]
      BY <1>1, <2>2
    <3>3. GroupReady(x)' => buff[x] = Fitting(x)'
      BY <1>1, <3>1, <3>2, GroupStays DEF PartyInv
    <3> QED BY <1>1, <3>1, <3>3 DEF PartyInv, StatesFit
  <2> QED BY <2>1, <2>2
<1>7. buff' = [y \in Chars |-> buff'[y]]
  BY <1>1
<1> QED BY <1>4, <1>5, <1>6, <1>7, AllFit DEF PartyInv

LEMMA GoneStep == ASSUME PartyInv, NEW c \in Chars, Gone(c) PROVE PartyInv'
<1> DEFINE m == [Now EXCEPT !.where[c] = Away, !.objs = @ \ {c}]
           d == [buff EXCEPT ![c] = 0]
<1>1. /\ m.party = party' /\ m.slots = slots' /\ m.objs = objs' /\ m.where = where' /\ buff' = RefreshParty(d, m, party[c], {c})
      /\ where' = [where EXCEPT ![c] = Away] /\ objs' = objs \ {c} /\ menu' = [menu EXCEPT ![c] = NoMenu]
      /\ c \notin moving /\ UNCHANGED <<party, slots, moving, open>>
  BY DEF Gone, Now, Becomes
<1>2. \A x \in Chars : d[x] = IF x = c THEN 0 ELSE buff[x]
  BY DEF PartyInv, StatesFit
<1>3. PICK n, p, b : n = m /\ p = party[c] /\ b = d /\ b = [y \in Chars |-> b[y]]
  BY DEF PartyInv, StatesFit
<1> HIDE DEF m, d
<1>4. p \in Parties
  BY <1>3 DEF Gone, PartyInv, PlacesTyped
<1>5. \A x \in Chars : where'[x] = IF x = c THEN Away ELSE where[x]
  BY <1>1 DEF PartyInv, PlacesTyped
<1>6. PlacesTyped'
  <2>1. where' \in [Chars -> Keys \cup {Town, Away}]
    BY <1>1 DEF PartyInv, PlacesTyped
  <2>2. menu' \in [Chars -> Menus] /\ \A x \in Chars : menu'[x] = IF x = c THEN NoMenu ELSE menu[x]
    BY <1>1 DEF PartyInv, PlacesTyped, Menus, NoMenu
  <2> QED BY <1>1, <2>1, <2>2 DEF PartyInv, PlacesTyped, NoMenu
<1>7. ListsAgree'
  BY <1>1, <1>5 DEF PartyInv, ListsAgree
<1>8. ASSUME NEW x \in Chars
      PROVE  /\ buff' = [y \in Chars |-> buff'[y]]
             /\ where'[x] = Away => buff'[x] = 0
             /\ where'[x] # Away /\ GroupReady(x)' => buff'[x] = Fitting(x)'
  <2>1. /\ buff' = [y \in Chars |-> buff'[y]]
        /\ party'[x] = p /\ where'[x] # Away /\ GroupReady(x)' => buff'[x] = Fitting(x)'
        /\ party'[x] # p => buff'[x] = b[x]
        /\ where'[x] = Away => buff'[x] = b[x] \/ buff'[x] = 0
    <3>1. /\ n.party = party' /\ n.slots = slots' /\ n.objs = objs' /\ n.where = where'
          /\ buff' = RefreshParty(b, n, p, {c}) /\ \A y \in {c} : where'[y] = Away /\ party'[y] = p
      BY <1>1, <1>3, <1>5
    <3>2. PICK gone : gone = {c}
      OBVIOUS
    <3>3. LET r == RefreshParty(b, n, p, gone) IN
          /\ r = [y \in Chars |-> r[y]]
          /\ party'[x] = p /\ where'[x] # Away /\ GroupReady(x)' => r[x] = Fitting(x)'
          /\ party'[x] # p /\ ~(x \in gone /\ party'[x] = NoParty) => r[x] = b[x]
          /\ where'[x] = Away => r[x] = b[x] \/ r[x] = 0
      <4>1. \A y \in gone : where'[y] = Away \/ party'[y] # p
        BY <3>1, <3>2
      <4>2. b = [y \in Chars |-> b[y]]
        BY <1>3
      <4>3. n.party = party' /\ n.slots = slots' /\ n.objs = objs' /\ n.where = where'
        BY <3>1
      <4> QED BY <1>4, <1>6, <1>7, <4>1, <4>2, <4>3, PartyRefreshed
    <3> QED BY <3>1, <3>2, <3>3
  <2>2. party[x] # p => \A y \in Group(x) : y # c
    BY <1>3 DEF Group
  <2>3. party[x] # p /\ GroupReady(x)' => buff[x] = Fitting(x)'
    BY <1>1, <1>5, <2>2, GroupStays DEF PartyInv
  <2>4. b[x] = IF x = c THEN 0 ELSE buff[x]
    BY <1>2, <1>3
  <2>5. party[x] # p => x # c
    BY <1>3
  <2> QED BY <1>1, <1>5, <2>1, <2>3, <2>4, <2>5 DEF PartyInv, StatesFit
<1>9. buff' = [y \in Chars |-> buff'[y]]
  BY <1>8
<1> QED BY <1>6, <1>7, <1>8, <1>9, AllFit DEF PartyInv

LEMMA JoinStep == ASSUME PartyInv, NEW c \in Chars, NEW p \in Parties, Join(c, p) PROVE PartyInv'
<1> DEFINE m == [Now EXCEPT !.party[c] = p, !.slots[p] = Append(@, c)]
<1>1. /\ m.party = party' /\ m.slots = slots' /\ m.objs = objs' /\ m.where = where' /\ buff' = RefreshParty(buff, m, p, {})
      /\ party' = [party EXCEPT ![c] = p] /\ slots' = [slots EXCEPT ![p] = Append(@, c)]
      /\ party[c] = NoParty /\ where[c] # Away /\ UNCHANGED <<where, objs, moving, open>>
      /\ menu' = [x \in Chars |-> IF x \in WarnSplit(m.slots[p], p, c) THEN [kind |-> "warning", key |-> NoParty] ELSE menu[x]]
  BY DEF Join, Now, Becomes, Here
<1>2. PICK n : n = m
  OBVIOUS
<1> HIDE DEF m
<1>3. p # NoParty /\ slots[p] \in Seq(Chars)
  BY KeyFacts DEF PartyInv, PlacesTyped
<1>4. Append(slots[p], c) \in Seq(Chars) /\ SetOf(Append(slots[p], c)) = SetOf(slots[p]) \cup {c}
  BY <1>3, SetOfAppend
<1>5. \A x \in Chars : party'[x] = IF x = c THEN p ELSE party[x]
  BY <1>1 DEF PartyInv, PlacesTyped
<1>6. PlacesTyped'
  <2>1. party' \in [Chars -> Parties \cup {NoParty}] /\ slots' \in [Parties -> Seq(Chars)]
    BY <1>1, <1>4 DEF PartyInv, PlacesTyped
  <2>2. /\ menu' \in [Chars -> Menus]
        /\ \A x \in Chars : menu'[x] = menu[x] \/ menu'[x].kind = "warning"
    BY <1>1 DEF PartyInv, PlacesTyped, Menus
  <2>3. \A x \in Chars : /\ menu'[x].kind = "enter" => menu'[x].key \in OwnKeys(x)
                         /\ menu'[x].kind = "delete" => menu'[x].key \in Keys
    BY <2>2 DEF PartyInv, PlacesTyped
  <2> QED BY <1>1, <2>1, <2>2, <2>3 DEF PartyInv, PlacesTyped
<1>7. ListsAgree'
  <2>1. ASSUME NEW q \in Parties PROVE SetOf(slots'[q]) = {x \in Chars : party'[x] = q}
    <3>1. slots'[q] = IF q = p THEN Append(slots[p], c) ELSE slots[q]
      BY <1>1 DEF PartyInv, PlacesTyped
    <3>2. SetOf(slots[q]) = {x \in Chars : party[x] = q} /\ q # NoParty
      BY KeyFacts DEF PartyInv, ListsAgree
    <3>3. CASE q = p
      <4>1. {x \in Chars : party'[x] = q} = {x \in Chars : party[x] = q} \cup {c}
        BY <1>5, <3>3
      <4> QED BY <1>4, <3>1, <3>2, <3>3, <4>1
    <3>4. CASE q # p
      <4>1. {x \in Chars : party'[x] = q} = {x \in Chars : party[x] = q}
        BY <1>1, <1>5, <3>2, <3>4
      <4> QED BY <3>1, <3>2, <3>4, <4>1
    <3> QED BY <3>3, <3>4
  <2> QED BY <1>1, <1>3, <1>5, <2>1 DEF PartyInv, ListsAgree
<1>8. ASSUME NEW x \in Chars
      PROVE  /\ buff' = [y \in Chars |-> buff'[y]]
             /\ where'[x] = Away => buff'[x] = 0
             /\ where'[x] # Away /\ GroupReady(x)' => buff'[x] = Fitting(x)'
  <2>1. /\ buff' = [y \in Chars |-> buff'[y]]
        /\ party'[x] = p /\ where'[x] # Away /\ GroupReady(x)' => buff'[x] = Fitting(x)'
        /\ party'[x] # p => buff'[x] = buff[x]
        /\ where'[x] = Away => buff'[x] = buff[x] \/ buff'[x] = 0
    <3>1. /\ n.party = party' /\ n.slots = slots' /\ n.objs = objs' /\ n.where = where'
          /\ buff' = RefreshParty(buff, n, p, {}) /\ buff = [y \in Chars |-> buff[y]]
      BY <1>1, <1>2 DEF PartyInv, StatesFit
    <3> QED BY <1>6, <1>7, <3>1, PartyRefreshed
  <2>2. ASSUME party'[x] # p PROVE /\ x # c /\ party'[x] = party[x]
                                  /\ party[x] # NoParty => \A y \in Chars : party'[y] = party[x] <=> party[y] = party[x]
    BY <1>1, <1>5, <2>2
  <2>3. party'[x] # p /\ GroupReady(x)' => buff[x] = Fitting(x)'
    BY <1>1, <2>2, GroupStays DEF PartyInv
  <2> QED BY <1>1, <2>1, <2>3 DEF PartyInv, StatesFit
<1>9. buff' = [y \in Chars |-> buff'[y]]
  BY <1>8
<1> QED BY <1>6, <1>7, <1>8, <1>9, AllFit DEF PartyInv

\* onto a loading screen, on the way to another map
LEMMA MovesStep ==
    ASSUME PartyInv, NEW c \in Chars, NEW to \in Keys \cup {Town}, Moves(c, to), UNCHANGED <<partyVars, buff>>,
           open' \subseteq Keys, menu' = menu \/ menu' = [menu EXCEPT ![c] = NoMenu]
    PROVE  PartyInv'
<1>1. /\ where' \in [Chars -> Keys \cup {Town, Away}] /\ moving' = moving \cup {c}
      /\ \A x \in Chars : where'[x] = IF x = c THEN to ELSE where[x]
      /\ to # Away
  BY KeyFacts DEF Moves, PartyInv, PlacesTyped
<1>2. menu' \in [Chars -> Menus] /\ \A x \in Chars : menu'[x] = menu[x] \/ menu'[x] = NoMenu
  BY DEF PartyInv, PlacesTyped, Menus, NoMenu
<1>3. PlacesTyped'
  BY <1>1, <1>2 DEF PartyInv, PlacesTyped, NoMenu, partyVars
<1>4. ListsAgree'
  BY <1>1 DEF PartyInv, ListsAgree, partyVars
<1>5. StatesFit'
  BY <1>1, <1>3, MoversWait DEF PartyInv
<1> QED BY <1>3, <1>4, <1>5 DEF PartyInv

LEMMA YesStep == ASSUME PartyInv, NEW c \in Chars, Yes(c) PROVE PartyInv'
<1>1. menu[c].kind = "enter" /\ menu' = [menu EXCEPT ![c] = NoMenu] /\ UNCHANGED <<partyVars, buff>>
  BY DEF Yes
<1>2. FindInstance(menu[c].key) \in Keys
  BY <1>1, EntryKeys
<1>3. CASE GateAnswer(c)
  <2>1. Moves(c, FindInstance(menu[c].key)) /\ open' = open \cup {FindInstance(menu[c].key)}
    BY <1>3 DEF Yes
  <2>2. open' \subseteq Keys
    BY <1>2, <2>1 DEF PartyInv, PlacesTyped
  <2> QED BY <1>1, <1>2, <2>1, <2>2, MovesStep
<1>4. CASE ~GateAnswer(c)
  <2>1. UNCHANGED <<partyVars, buff, where, moving, open>>
    BY <1>1, <1>4 DEF Yes
  <2>2. menu' \in [Chars -> Menus] /\ \A x \in Chars : menu'[x] = menu[x] \/ menu'[x] = NoMenu
    BY <1>1 DEF PartyInv, PlacesTyped, Menus, NoMenu
  <2>3. PlacesTyped'
    BY <2>1, <2>2 DEF PartyInv, PlacesTyped, NoMenu, partyVars
  <2>4. ListsAgree'
    BY <2>1 DEF PartyInv, ListsAgree, partyVars
  <2> QED BY <2>1, <2>3, <2>4, MoversWait DEF PartyInv
<1> QED BY <1>3, <1>4

LEMMA WalkStep == ASSUME PartyInv, NEW c \in Chars, LeaveDungeon(c) \/ ComeBack(c) PROVE PartyInv'
<1>1. Moves(c, Town) /\ UNCHANGED <<partyVars, open, menu, buff>>
  BY DEF LeaveDungeon, ComeBack
<1> QED BY <1>1, MovesStep DEF PartyInv, PlacesTyped

LEMMA ClickStep == ASSUME PartyInv, NEW c \in Chars, Click(c) PROVE PartyInv'
<1>1. /\ menu' = [menu EXCEPT ![c] = [kind |-> "enter", key |-> CanEnter(c)]]
      /\ UNCHANGED <<partyVars, where, moving, open, buff>>
  BY DEF Click
<1>2. CanEnter(c) \in OwnKeys(c) /\ CanEnter(c) \in Keys
  BY KeyFacts DEF CanEnter, OwnKeys, PartyInv, PlacesTyped
<1>3. /\ menu' \in [Chars -> Menus]
      /\ \A x \in Chars : menu'[x] = IF x = c THEN [kind |-> "enter", key |-> CanEnter(c)] ELSE menu[x]
  BY <1>1, <1>2 DEF PartyInv, PlacesTyped, Menus
<1>4. PlacesTyped'
  BY <1>1, <1>2, <1>3 DEF PartyInv, PlacesTyped, partyVars
<1>5. ListsAgree'
  BY <1>1 DEF PartyInv, ListsAgree, partyVars
<1> QED BY <1>1, <1>4, <1>5, MoversWait DEF PartyInv

LEMMA ClosedStep ==
    ASSUME PartyInv, NEW k \in Keys, Closed(k), \/ menu' = menu
                                                \/ \E c \in Chars : menu' = [menu EXCEPT ![c] = NoMenu]
    PROVE  PartyInv'
<1>1. /\ where' = [c \in Chars |-> IF where[c] = k THEN Town ELSE where[c]] /\ moving' = moving \cup Inside(k)
      /\ open' = open \ {k} /\ UNCHANGED <<partyVars, buff>>
  BY DEF Closed
<1>2. menu' \in [Chars -> Menus] /\ \A x \in Chars : menu'[x] = menu[x] \/ menu'[x] = NoMenu
  <2>1. menu \in [Chars -> Menus] /\ NoMenu \in Menus
    BY DEF PartyInv, PlacesTyped, Menus, NoMenu
  <2>2. ASSUME NEW c \in Chars, menu' = [menu EXCEPT ![c] = NoMenu]
        PROVE  menu' \in [Chars -> Menus] /\ \A x \in Chars : menu'[x] = menu[x] \/ menu'[x] = NoMenu
    BY <2>1, <2>2
  <2> QED BY <2>1, <2>2
<1>3. PlacesTyped'
  BY <1>1, <1>2 DEF PartyInv, PlacesTyped, NoMenu, partyVars
<1>4. \A x \in Chars : /\ where'[x] = Away => where[x] = Away
                       /\ where'[x] # where[x] => x \in moving' /\ where'[x] # Away
                       /\ x \in moving' => where'[x] # Away
  BY <1>1, KeyFacts DEF Inside, PartyInv, ListsAgree
<1>5. ListsAgree'
  <2>1. moving' \subseteq Chars
    BY <1>1 DEF Inside, PartyInv, ListsAgree
  <2> QED BY <1>1, <1>4, <2>1 DEF PartyInv, ListsAgree, partyVars
<1>6. StatesFit'
  BY <1>1, <1>3, <1>4, MoversWait
<1> QED BY <1>3, <1>5, <1>6 DEF PartyInv

LEMMA CloseStep ==
    ASSUME PartyInv, (\E c \in Chars : Delete(c)) \/ (\E k \in Keys : Expire(k)) PROVE PartyInv'
<1>1. ASSUME NEW c \in Chars, Delete(c) PROVE PartyInv'
  <2>1. menu[c].key \in Keys
    BY <1>1 DEF Delete, PartyInv, PlacesTyped
  <2> QED BY <1>1, <2>1, ClosedStep DEF Delete
<1>2. ASSUME NEW k \in Keys, Expire(k) PROVE PartyInv'
  BY <1>2, ClosedStep DEF Expire
<1> QED BY <1>1, <1>2

\* who hears of a countdown, and who is asked
LEMMA AudienceIs ==
    ASSUME PartyInv, NEW k \in Keys
    PROVE  /\ Audience(k) \in Seq(Chars)
           /\ k >= KeyBase => \E c \in Chars : k = Solo(c) /\ Audience(k) = <<c>>
           /\ k < KeyBase => k \in Parties /\ Audience(k) = slots[k]
<1>1. CASE k >= KeyBase
  <2>1. k \notin Parties
    <3>1. KeyBase \in Nat /\ k \in Nat
      BY KeyFacts
    <3> QED BY <1>1, <3>1, KeyFacts
  <2>2. PICK c \in Chars : k = KeyBase + c
    BY <2>1 DEF Keys, Solo
  <2>3. k - KeyBase = c
    BY <2>2, InstancesOK
  <2>4. Audience(k) = <<c>> /\ k = Solo(c)
    BY <1>1, <2>2, <2>3 DEF Audience, Solo
  <2>5. ~(k < KeyBase)
    <3>1. KeyBase \in Nat /\ k \in Nat
      BY KeyFacts
    <3> QED BY <1>1, <3>1
  <2>6. <<c>> \in Seq(Chars)
    OBVIOUS
  <2> QED BY <2>4, <2>5, <2>6
<1>2. CASE ~(k >= KeyBase)
  <2>1. k \in Parties
    BY <1>2, KeyFacts DEF Keys
  <2>2. k % KeyBase = k
    BY <2>1, KeyFacts
  <2> QED BY <1>2, <2>1, <2>2, KeyFacts DEF Audience, StockAudience, PartyInv, PlacesTyped
<1>3. k \in Nat /\ KeyBase \in Nat
  BY KeyFacts
<1> QED BY <1>1, <1>2, <1>3

LEMMA EmptyStep == ASSUME PartyInv, NEW k \in Keys, Empty(k) \/ Reset(k) PROVE PartyInv'
<1>1. UNCHANGED <<partyVars, where, moving, open, buff>>
  BY DEF Empty, Reset
<1>2. \/ menu' = menu
      \/ \E c \in Chars : menu' = [menu EXCEPT ![c] = [kind |-> "delete", key |-> k]]
  <2>1. Audience(k) # << >> => Head(Audience(k)) \in Chars
    <3>1. PICK s : s = Audience(k) /\ s \in Seq(Chars)
      BY AudienceIs
    <3> QED BY <3>1
  <2> QED BY <2>1 DEF Empty, Reset
<1>3. /\ menu' \in [Chars -> Menus]
      /\ \A x \in Chars : menu'[x] = menu[x] \/ menu'[x] = [kind |-> "delete", key |-> k]
  BY <1>2 DEF PartyInv, PlacesTyped, Menus
<1>4. PlacesTyped'
  BY <1>1, <1>3 DEF PartyInv, PlacesTyped, partyVars
<1>5. ListsAgree'
  BY <1>1 DEF PartyInv, ListsAgree, partyVars
<1> QED BY <1>1, <1>4, <1>5, MoversWait DEF PartyInv

LEMMA PartyNext == PartyInv /\ [Next]_vars => PartyInv'
<1> SUFFICES ASSUME PartyInv, [Next]_vars PROVE PartyInv'
  OBVIOUS
<1>1. CASE UNCHANGED vars
  BY <1>1 DEF vars, PartyInv, PlacesTyped, ListsAgree, StatesFit, GroupReady, Group, Fitting
<1>2. CASE \E c \in Chars : HandleSet(c)
  BY <1>2, HandleSetStep
<1>3. CASE Settled /\ Step
  BY <1>3, LoginCompleteStep, ReviveStep, LeaveStep, GoneStep, WalkStep, ClickStep, YesStep, CloseStep, JoinStep,
     BreakStep, EmptyStep DEF Step
<1> QED BY <1>1, <1>2, <1>3 DEF Next

LEMMA InstancesAreFollowed == DungeonsSpec => Spec
<1>1. DungeonsInit => Init
  BY DEF DungeonsInit
<1>2. [DungeonsNext]_<<part, vars, gateVars>> => [Next]_vars
  BY DEF DungeonsNext
<1> QED BY <1>1, <1>2, PTL DEF DungeonsSpec, Spec

\* Between two steps the lists, the objects, the places and the states fit together (the hooks of indun_party_scale).
THEOREM PartiesFit == DungeonsSpec => []PartyInv
<1>1. Spec => []PartyInv
  BY PartyInit, PartyNext, PTL DEF Spec
<1> QED BY <1>1, InstancesAreFollowed, PTL

\* With every object known and nobody on a loading screen, each carries the state of exactly the members of his party on his
\* map, for any number of characters and parties (refresh and the nine hooks of indun_party_scale that call it).
THEOREM StatesAreRight == DungeonsSpec => []BuffFits
<1>1. PartyInv => BuffFits
  <2> SUFFICES ASSUME PartyInv, moving = {}, Settled, NEW c \in Chars PROVE buff[c] = Fitting(c)
    BY DEF BuffFits, Fitting
  <2>1. GroupReady(c)
    BY DEF GroupReady, Group, Settled, Here
  <2> QED BY <2>1 DEF PartyInv, StatesFit
<1> QED BY <1>1, PartiesFit, PTL

LEMMA OnlyYesEnters ==
    ASSUME PartyInv, [Next]_vars, NEW c \in Chars, where'[c] # where[c], where'[c] \in Keys
    PROVE  Yes(c) /\ where'[c] = FindInstance(menu[c].key) /\ GateAnswer(c)
<1>0. Town \notin Keys /\ Away \notin Keys /\ where \in [Chars -> Keys \cup {Town, Away}]
  BY KeyFacts DEF PartyInv, PlacesTyped
<1>1. ~(UNCHANGED where)
  OBVIOUS
<1>2. ASSUME NEW x \in Chars, HandleSet(x) PROVE FALSE
  BY <1>1, <1>2 DEF HandleSet, Becomes, Now
<1>3. ASSUME NEW x \in Chars, LoginComplete(x) \/ Revive(x) \/ Leave(x) \/ Click(x) PROVE FALSE
  BY <1>1, <1>3 DEF LoginComplete, Revive, Leave, Click, Becomes, Now
<1>4. ASSUME NEW x \in Chars, Gone(x) PROVE FALSE
  <2>1. where' = [where EXCEPT ![x] = Away]
    BY <1>4 DEF Gone, Becomes, Now
  <2> QED BY <1>0, <2>1
<1>5. ASSUME NEW x \in Chars, ComeBack(x) \/ LeaveDungeon(x) PROVE FALSE
  BY <1>0, <1>5 DEF ComeBack, LeaveDungeon, Moves
<1>6. ASSUME NEW k, Closed(k) PROVE FALSE
  BY <1>0, <1>6 DEF Closed
<1>7. ASSUME NEW x \in Chars, NEW p \in Parties, Join(x, p) PROVE FALSE
  BY <1>1, <1>7 DEF Join, Becomes, Now
<1>8. ASSUME NEW p \in Parties, Break(p) PROVE FALSE
  BY <1>1, <1>8 DEF Break, Becomes
<1>9. ASSUME NEW k \in Keys, Empty(k) \/ Reset(k) PROVE FALSE
  BY <1>1, <1>9 DEF Empty, Reset
<1>10. PICK x \in Chars : Yes(x)
  BY <1>1, <1>2, <1>3, <1>4, <1>5, <1>6, <1>7, <1>8, <1>9 DEF Next, Step, vars, Delete, Expire
<1>11. GateAnswer(x) /\ where' = [where EXCEPT ![x] = FindInstance(menu[x].key)]
  BY <1>1, <1>10 DEF Yes, Moves
<1> QED BY <1>0, <1>10, <1>11

\* The key of the click decides: alone one comes into one's own instance only, with a party's key into the party's or into
\* one a member of it opened (can_enter, solo_type and find_instance of indun_solo).
THEOREM EnteredByRight == DungeonsSpec => EntersByRight
<1>1. ASSUME PartyInv, [Next]_vars, NEW c \in Chars, where'[c] # where[c], where'[c] \in Keys
      PROVE  /\ party[c] = NoParty => where'[c] = Solo(c)
             /\ LET k == menu[c].key IN
                IF k >= KeyBase THEN where'[c] = Solo(c)
                ELSE where'[c] = k \/ (k \notin open /\ \E x \in SetOf(slots[k]) : where'[c] = Solo(x))
  <2>1. Yes(c) /\ where'[c] = FindInstance(menu[c].key) /\ GateAnswer(c)
    BY <1>1, OnlyYesEnters
  <2>2. PICK k : k = menu[c].key
    OBVIOUS
  <2>3. menu[c].kind = "enter"
    BY <2>1 DEF Yes
  <2>4. /\ k \in OwnKeys(c)
        /\ k >= KeyBase => k = Solo(c) /\ FindInstance(k) = k
        /\ k < KeyBase => FindInstance(k) = k \/ (k \notin open /\ \E x \in SetOf(slots[k]) : FindInstance(k) = Solo(x))
    BY <1>1, <2>2, <2>3, EntryKeys
  <2>5. k \in Nat /\ KeyBase \in Nat
    BY <2>4, KeyFacts
  <2>6. party[c] = NoParty => k >= KeyBase
    BY <2>1, <2>2 DEF GateAnswer
  <2>7. /\ party[c] = NoParty => where'[c] = Solo(c)
        /\ IF k >= KeyBase THEN where'[c] = Solo(c)
           ELSE where'[c] = k \/ (k \notin open /\ \E x \in SetOf(slots[k]) : where'[c] = Solo(x))
    BY <2>1, <2>2, <2>4, <2>5, <2>6
  <2> QED BY <2>2, <2>7
<1>2. PartyInv /\ [Next]_vars =>
        [\A c \in Chars : where'[c] # where[c] /\ where'[c] \in Keys =>
          /\ party[c] = NoParty => where'[c] = Solo(c)
          /\ LET k == menu[c].key IN
             IF k >= KeyBase THEN where'[c] = Solo(c)
             ELSE where'[c] = k \/ (k \notin open /\ \E x \in SetOf(slots[k]) : where'[c] = Solo(x))]_vars
  BY <1>1
<1> QED BY <1>2, PartiesFit, InstancesAreFollowed, PTL DEF Spec, EntersByRight

\* a step that makes a party's list longer is a join, and tells everybody of the list who stands in his own instance
LEMMA OnlyJoinLengthens ==
    ASSUME PartyInv, [Next]_vars, NEW p \in Parties, Len(slots'[p]) > Len(slots[p]),
           NEW x \in SetOf(slots'[p]), where[x] = Solo(x), p \in open
    PROVE  menu'[x].kind = "warning"
<1>0. slots \in [Parties -> Seq(Chars)] /\ \A q \in Parties : slots[q] \in Seq(Chars) /\ Len(slots[q]) \in Nat
  BY DEF PartyInv, PlacesTyped
<1>1. slots'[p] # slots[p]
  BY <1>0
<1>2. ASSUME NEW c \in Chars, HandleSet(c) \/ LoginComplete(c) \/ Revive(c) \/ Gone(c) \/ Click(c) \/ Yes(c) \/ Delete(c)
                              \/ ComeBack(c) \/ LeaveDungeon(c)
      PROVE  FALSE
  BY <1>1, <1>2 DEF HandleSet, LoginComplete, Revive, Gone, Click, Yes, Delete, ComeBack, LeaveDungeon, Closed, partyVars,
                    Becomes, Now
<1>3. ASSUME NEW c \in Chars, Leave(c) PROVE FALSE
  <2>1. slots' = [slots EXCEPT ![party[c]] = Keep(@, Chars \ {c})]
    BY <1>3 DEF Leave, Becomes, Now
  <2>2. slots'[p] = Keep(slots[p], Chars \ {c})
    BY <1>0, <1>1, <2>1
  <2>3. PICK W : slots'[p] = Keep(slots[p], W)
    BY <2>2
  <2>4. Len(Keep(slots[p], W)) =< Len(slots[p]) /\ Keep(slots[p], W) \in Seq(Chars)
    BY <1>0, KeepMembers
  <2>5. Len(slots'[p]) \in Nat
    BY <2>3, <2>4
  <2> QED BY <1>0, <2>3, <2>4, <2>5
<1>4. ASSUME NEW q \in Parties, Break(q) PROVE FALSE
  <2>1. slots' = [slots EXCEPT ![q] = << >>]
    BY <1>4 DEF Break, Becomes
  <2>2. slots'[p] = << >>
    BY <1>0, <1>1, <2>1
  <2> QED BY <1>0, <2>2
<1>5. ASSUME NEW k \in Keys, Empty(k) \/ Reset(k) \/ Expire(k) PROVE FALSE
  BY <1>1, <1>5 DEF Empty, Reset, Expire, Closed, partyVars
<1>6. PICK c \in Chars, q \in Parties : Join(c, q)
  BY <1>1, <1>2, <1>3, <1>4, <1>5 DEF Next, Step, vars
<1>7. PICK s : /\ slots' = [slots EXCEPT ![q] = Append(@, c)] /\ s = slots'[q]
               /\ menu' = [y \in Chars |-> IF y \in WarnSplit(s, q, c) THEN [kind |-> "warning", key |-> NoParty] ELSE menu[y]]
  BY <1>6 DEF Join, Becomes, Now
<1>8. q = p /\ slots'[p] = Append(slots[p], c)
  BY <1>0, <1>1, <1>7
<1>9. x \in Chars
  <2>1. Append(slots[p], c) \in Seq(Chars) /\ SetOf(Append(slots[p], c)) = SetOf(slots[p]) \cup {c}
    BY <1>0, SetOfAppend
  <2>2. SetOf(slots[p]) \subseteq Chars
    BY <1>0 DEF SetOf
  <2> QED BY <1>8, <2>1, <2>2
<1>10. x \in WarnSplit(s, q, c)
  BY <1>7, <1>8 DEF WarnSplit
<1> QED BY <1>7, <1>9, <1>10

\* a countdown's notice and question go to those the instance belongs to
LEMMA EmptyAsks ==
    ASSUME PartyInv, NEW k \in Keys, Empty(k)
    PROVE  /\ \A x \in noticed' : x[2] = Solo(x[1]) \/ (x[2] \in Parties /\ x[1] \in SetOf(slots[x[2]]))
           /\ \A c \in Chars : menu'[c] # menu[c] =>
                menu'[c].key = Solo(c) \/ (menu'[c].key \in Parties /\ c = Head(slots[menu'[c].key]))
<1>1. PICK s : s = Audience(k) /\ s \in Seq(Chars)
  BY AudienceIs
<1>2. /\ noticed' = SetOf(s) \X {k} /\ slots' = slots
      /\ menu' = menu \/ (s # << >> /\ menu' = [menu EXCEPT ![Head(s)] = [kind |-> "delete", key |-> k]])
  BY <1>1 DEF Empty, partyVars
<1>3. menu \in [Chars -> Menus]
  BY DEF PartyInv, PlacesTyped
<1>4. \A c \in Chars : menu'[c] # menu[c] => s # << >> /\ c = Head(s) /\ menu'[c].key = k
  BY <1>2, <1>3
<1>5. CASE k >= KeyBase
  <2>1. PICK c \in Chars : k = Solo(c) /\ s = <<c>>
    BY <1>1, <1>5, AudienceIs
  <2>2. SetOf(s) = {c} /\ Head(s) = c
    BY <2>1 DEF SetOf
  <2>3. \A x \in noticed' : x[1] = c /\ x[2] = k
    BY <1>2, <2>2
  <2> QED BY <1>4, <2>1, <2>2, <2>3
<1>6. CASE k < KeyBase
  <2>1. k \in Parties /\ s = slots[k]
    BY <1>1, <1>6, AudienceIs
  <2>2. \A x \in noticed' : x[1] \in SetOf(s) /\ x[2] = k
    BY <1>2
  <2> QED BY <1>2, <1>4, <2>1, <2>2
<1>7. k \in Nat /\ KeyBase \in Nat
  BY KeyFacts
<1> QED BY <1>5, <1>6, <1>7

LEMMA OnlyEmptyAsks ==
    ASSUME PartyInv, [Next]_vars
    PROVE  /\ \A x \in noticed' \ noticed : x[2] = Solo(x[1]) \/ (x[2] \in Parties /\ x[1] \in SetOf(slots[x[2]]))
           /\ \A c \in Chars : menu'[c] # menu[c] /\ menu'[c].kind = "delete" =>
                menu'[c].key = Solo(c) \/ (menu'[c].key \in Parties /\ c = Head(slots[menu'[c].key]))
<1> DEFINE told == \A x \in noticed' \ noticed : x[2] = Solo(x[1]) \/ (x[2] \in Parties /\ x[1] \in SetOf(slots[x[2]]))
           asked == \A c \in Chars : menu'[c] # menu[c] /\ menu'[c].kind = "delete" =>
                       menu'[c].key = Solo(c) \/ (menu'[c].key \in Parties /\ c = Head(slots[menu'[c].key]))
<1>0. menu \in [Chars -> Menus]
  BY DEF PartyInv, PlacesTyped
<1>1. ASSUME NEW k \in Keys, Empty(k) PROVE told /\ asked
  BY <1>1, EmptyAsks
<1>2. noticed' \subseteq noticed => told
  OBVIOUS
<1>3. (\A c \in Chars : menu'[c] = menu[c] \/ menu'[c].kind # "delete") => asked
  OBVIOUS
<1> HIDE DEF told, asked
<1>4. ASSUME NEW c \in Chars, HandleSet(c) \/ LoginComplete(c) \/ Revive(c) \/ Leave(c) \/ ComeBack(c) \/ LeaveDungeon(c)
      PROVE  told /\ asked
  <2>1. noticed' = noticed /\ menu' = menu
    BY <1>4 DEF HandleSet, LoginComplete, Revive, Leave, ComeBack, LeaveDungeon, wmVars
  <2> QED BY <1>2, <1>3, <2>1
<1>5. ASSUME NEW c \in Chars, Gone(c) \/ Click(c) \/ Yes(c) PROVE told /\ asked
  <2>1. \E v : v.kind # "delete" /\ menu' = [menu EXCEPT ![c] = v]
    BY <1>5 DEF Gone, Click, Yes, NoMenu
  <2>2. noticed' = noticed
    BY <1>5 DEF Gone, Click, Yes, wmVars
  <2> QED BY <1>0, <1>2, <1>3, <2>1, <2>2
<1>6. ASSUME NEW c \in Chars, NEW p \in Parties, Join(c, p) PROVE told /\ asked
  <2>1. noticed' = noticed /\ \A x \in Chars : menu'[x] = menu[x] \/ menu'[x].kind = "warning"
    BY <1>6 DEF Join, wmVars
  <2> QED BY <1>2, <1>3, <2>1
<1>7. ASSUME NEW p \in Parties, Break(p) PROVE told /\ asked
  BY <1>2, <1>3, <1>7 DEF Break, wmVars
<1>8. ASSUME NEW k \in Keys, Reset(k) \/ Expire(k) PROVE told /\ asked
  <2>1. noticed' \subseteq noticed /\ menu' = menu
    BY <1>8 DEF Reset, Expire, Closed
  <2> QED BY <1>2, <1>3, <2>1
<1>9. ASSUME NEW c \in Chars, Delete(c) PROVE told /\ asked
  <2>1. noticed' \subseteq noticed /\ menu' = [menu EXCEPT ![c] = NoMenu] /\ NoMenu.kind # "delete"
    BY <1>9 DEF Delete, Closed, NoMenu
  <2> QED BY <1>0, <1>2, <1>3, <2>1
<1>11. ASSUME NEW c \in Chars,
              \/ LoginComplete(c) \/ Revive(c) \/ Leave(c) \/ Gone(c) \/ ComeBack(c) \/ Click(c) \/ Yes(c)
              \/ LeaveDungeon(c) \/ Delete(c)
              \/ \E p \in Parties : Join(c, p)
       PROVE  told /\ asked
  BY <1>4, <1>5, <1>6, <1>9, <1>11
<1>12. ASSUME Step PROVE told /\ asked
  BY <1>1, <1>7, <1>8, <1>11, <1>12, Zenon DEF Step
<1>13. ASSUME Next PROVE told /\ asked
  BY <1>4, <1>12, <1>13, Zenon DEF Next
<1>14. ASSUME UNCHANGED vars PROVE told /\ asked
  BY <1>2, <1>3, <1>14 DEF vars
<1>15. told /\ asked
  BY <1>13, <1>14
<1> QED BY <1>15 DEF told, asked

\* A join that splits a party over two instances is told to whoever stands in the other, and a countdown's notice and
\* question go to those the instance belongs to (warn_split of indun_solo, empty_cmd of wm_indun_solo).
THEOREM OwnersHear == DungeonsSpec => OwnersAreTold
<1>1. PartyInv /\ [Next]_vars =>
        [\A p \in Parties : Len(slots'[p]) > Len(slots[p]) =>
          \A x \in SetOf(slots'[p]) : where[x] = Solo(x) /\ p \in open => menu'[x].kind = "warning"]_vars
  BY OnlyJoinLengthens
<1>2. PartyInv /\ [Next]_vars =>
        [/\ \A x \in noticed' \ noticed : x[2] = Solo(x[1]) \/ (x[2] \in Parties /\ x[1] \in SetOf(slots[x[2]]))
         /\ \A c \in Chars : menu'[c] # menu[c] /\ menu'[c].kind = "delete" =>
             menu'[c].key = Solo(c) \/ (menu'[c].key \in Parties /\ c = Head(slots[menu'[c].key]))]_vars
  BY OnlyEmptyAsks
<1>3. DungeonsSpec => SplitIsTold
  BY <1>1, PartiesFit, InstancesAreFollowed, PTL DEF Spec, SplitIsTold
<1>4. DungeonsSpec => AsksTheOwner
  BY <1>2, PartiesFit, InstancesAreFollowed, PTL DEF Spec, AsksTheOwner
<1> QED BY <1>3, <1>4 DEF OwnersAreTold

-----------------------------------------------------------------------------
(* The gates. *)

OptionFits(e) == /\ e.at \in 0 .. nextOption - 1 /\ e.index = e.at % Ring
                 /\ nextOption - e.at =< Ring => options[e.index] = e.drawn
SubFits(e) == /\ e.at \in 0 .. nextSub - 1 /\ e.index = e.at % Ring
              /\ nextSub - e.at =< Ring => subs[e.index] = e.drawn
              /\ subs[e.index] \in [gate : Gates, kind : {"link", "instance"}]
EntryFits(e) == (e.kind = "instance" => OptionFits(e)) /\ (e.kind = "sub" => SubFits(e))
MenuFits(s) ==
    /\ s # << >> => Len(s) =< Gate!kShown /\ s[Len(s)] = Gate!Cancel
    /\ \A e \in Gate!EntriesOf(s) : EntryFits(e)
\* a level select under way that the row has been found for
SelectFits(h) == h = Gate!Nothing \/ (/\ h = [kind |-> h.kind, gate |-> h.gate, mode |-> h.mode]
                                      /\ h.kind \in {"asked", "checked"}
                                      /\ h.kind = "checked" => Gate!Find(h.gate, 0, h.mode) # {})
ChoiceFits(w) == w # Gate!Nothing /\ w.fresh => w.got = w.drawn

DrawnFor ==
    /\ nextOption \in Nat /\ nextSub \in Nat
    /\ gateMenu = [p \in Players |-> gateMenu[p]] /\ place = [p \in Players |-> place[p]]
    /\ hard = [p \in Players |-> hard[p]] /\ wanted = [p \in Players |-> wanted[p]]
    /\ \A s \in {gateMenu[p] : p \in Players} : MenuFits(s)
    /\ \A p \in Players : SelectFits(hard[p]) /\ ChoiceFits(wanted[p])

\* two numbers less than a ring apart have places of their own
LEMMA PlacesApart == ASSUME NEW R \in Nat \ {0}, NEW a \in Nat, NEW b \in Nat, a < b, b < a + R PROVE a % R # b % R
<1> SUFFICES ASSUME a % R = b % R PROVE FALSE
  OBVIOUS
<1>1. a = R * (a \div R) + (a % R) /\ b = R * (b \div R) + (b % R) /\ a \div R \in Int /\ b \div R \in Int
  OBVIOUS
<1> DEFINE d == (b \div R) - (a \div R)
<1>2. d \in Int /\ b - a = R * d
  BY <1>1
<1> HIDE DEF d
<1>3. d > 0
  BY <1>2
<1>4. d < 1
  BY <1>2
<1> QED BY <1>2, <1>3, <1>4

\* a ring with entries first .. last - 1 written: the record numbered at is an entry's own or the old one, until the ring has
\* gone round
LEMMA PutFresh ==
    ASSUME NEW ring, NEW entries, NEW first \in Nat, NEW last \in Nat, \A e \in entries : e.at \in first .. last - 1,
           \A d, e \in entries : d.at = e.at => d = e,
           NEW at \in 0 .. last - 1, last - at =< Ring
    PROVE  /\ at < first => Gate!Put(ring, entries)[at % Ring] = ring[at % Ring]
           /\ \A e \in entries : e.at = at => Gate!Put(ring, entries)[at % Ring] = e.drawn
<1>1. Ring \in Nat \ {0} /\ at \in Nat /\ at % Ring \in 0 .. Ring - 1
  BY DungeonsOK DEF Gate!GateOK
<1> DEFINE hits == {e \in entries : e.at % Ring = at % Ring}
<1>2. Gate!Put(ring, entries)[at % Ring] =
        IF hits = {} THEN ring[at % Ring] ELSE (CHOOSE e \in hits : \A d \in hits : d.at =< e.at).drawn
  BY <1>1 DEF Gate!Put
<1>3. \A e \in hits : e.at \in Nat /\ e.at =< at /\ first =< e.at
  <2> SUFFICES ASSUME NEW e \in hits, e.at > at PROVE FALSE
    OBVIOUS
  <2>1. e.at \in Nat /\ e.at < at + Ring
    BY <1>1
  <2> QED BY <1>1, <2>1, PlacesApart
<1>4. at < first => hits = {}
  BY <1>1, <1>3
<1>5. ASSUME NEW e \in entries, e.at = at PROVE hits # {} /\ (CHOOSE x \in hits : \A d \in hits : d.at =< x.at) = e
  <2>1. e \in hits /\ \A d \in hits : d.at =< e.at
    BY <1>3, <1>5
  <2>2. \A x \in hits : (\A d \in hits : d.at =< x.at) => x = e
    BY <1>1, <1>3, <1>5, <2>1
  <2> HIDE DEF hits
  <2> QED BY <2>1, <2>2
<1> HIDE DEF hits
<1> QED BY <1>2, <1>4, <1>5

\* nothing but an entry's record is written
LEMMA PutValue ==
    ASSUME NEW ring, NEW entries, NEW last \in Nat, \A e \in entries : e.at \in 0 .. last - 1, NEW i \in 0 .. Ring - 1
    PROVE  /\ Gate!Put(ring, entries)[i] = ring[i] \/ \E e \in entries : Gate!Put(ring, entries)[i] = e.drawn
           /\ \A e \in entries : e.at % Ring = i => \E d \in entries : Gate!Put(ring, entries)[i] = d.drawn
<1> DEFINE hits == {e \in entries : e.at % Ring = i}
           ats == {e.at : e \in hits}
<1>1. Gate!Put(ring, entries)[i] = IF hits = {} THEN ring[i] ELSE (CHOOSE e \in hits : \A d \in hits : d.at =< e.at).drawn
  BY DEF Gate!Put
<1>2. CASE hits # {}
  <2>1. ats \subseteq Nat /\ ats # {} /\ \A n \in ats : n =< last
    BY <1>2
  <2>2. PICK n \in ats : \A k \in ats : k =< n
    <3> HIDE DEF ats
    <3> QED BY <2>1, LastNumber
  <2>3. \E e \in hits : \A d \in hits : d.at =< e.at
    BY <2>2
  <2>4. (CHOOSE e \in hits : \A d \in hits : d.at =< e.at) \in entries
    BY <2>3
  <2> HIDE DEF hits
  <2> QED BY <1>1, <1>2, <2>4
<1> QED BY <1>1, <1>2

LEMMA ConcatEntries ==
    ASSUME NEW S, NEW s \in Seq(S), NEW t \in Seq(S)
    PROVE  /\ s \o t \in Seq(S) /\ Len(s \o t) = Len(s) + Len(t)
           /\ Gate!EntriesOf(s \o t) = Gate!EntriesOf(s) \cup Gate!EntriesOf(t)
<1>1. s \o t \in Seq(S) /\ Len(s \o t) = Len(s) + Len(t) /\ Len(s) \in Nat /\ Len(t) \in Nat
  OBVIOUS
<1>2. \A i \in 1 .. Len(s) : (s \o t)[i] = s[i]
  OBVIOUS
<1>3. \A i \in 1 .. Len(t) : (s \o t)[Len(s) + i] = t[i]
  OBVIOUS
<1>4. /\ DOMAIN (s \o t) = 1 .. Len(s) + Len(t) /\ DOMAIN s = 1 .. Len(s) /\ DOMAIN t = 1 .. Len(t)
      /\ \A i \in 1 .. Len(s) + Len(t) : i \in 1 .. Len(s) \/ i - Len(s) \in 1 .. Len(t)
      /\ \A i \in 1 .. Len(t) : Len(s) + i \in 1 .. Len(s) + Len(t)
      /\ \A i \in 1 .. Len(s) : i \in 1 .. Len(s) + Len(t)
  OBVIOUS
<1> DEFINE u == s \o t
<1>5. ASSUME NEW i \in DOMAIN u PROVE u[i] \in {s[k] : k \in DOMAIN s} \cup {t[k] : k \in DOMAIN t}
  <2>1. CASE i \in 1 .. Len(s)
    BY <1>2, <1>4, <2>1
  <2>2. CASE i - Len(s) \in 1 .. Len(t)
    <3>1. Len(s) + (i - Len(s)) = i
      BY <1>1, <1>4
    <3>2. u[i] = t[i - Len(s)]
      BY <1>3, <2>2, <3>1
    <3> QED BY <1>4, <2>2, <3>2
  <2> QED BY <1>4, <2>1, <2>2
<1>6. ASSUME NEW e \in {s[k] : k \in DOMAIN s} \cup {t[k] : k \in DOMAIN t} PROVE \E i \in DOMAIN u : u[i] = e
  <2>1. CASE e \in {s[k] : k \in DOMAIN s}
    BY <1>2, <1>4, <2>1
  <2>2. CASE e \in {t[k] : k \in DOMAIN t}
    BY <1>3, <1>4, <2>2
  <2> QED BY <2>1, <2>2
<1>7. {u[i] : i \in DOMAIN u} = {s[k] : k \in DOMAIN s} \cup {t[k] : k \in DOMAIN t}
  <2> HIDE DEF u
  <2> QED BY <1>5, <1>6
<1> QED BY <1>1, <1>7 DEF Gate!EntriesOf

\* a menu has at most three buttons, the last is Cancel, the others are entries, and all of them if there are at most two
LEMMA MenuEntries ==
    ASSUME NEW S, NEW s \in Seq(S)
    PROVE  LET t == Gate!Menu(s) IN
           /\ t # << >> /\ Len(t) =< Gate!kShown /\ t[Len(t)] = Gate!Cancel
           /\ Gate!EntriesOf(t) \subseteq Gate!EntriesOf(s) \cup {Gate!Cancel}
           /\ Len(s) < Gate!kShown => Gate!EntriesOf(s) \subseteq Gate!EntriesOf(t)
<1>1. PICK m : m = Len(s) /\ m \in Nat /\ DOMAIN s = 1 .. m /\ \A i \in 1 .. m : s[i] \in S
  OBVIOUS
<1>2. PICK n : n = IF m < 3 THEN m ELSE 2
  OBVIOUS
<1>3. n \in 0 .. 2 /\ n \in Int /\ n =< m /\ (m < 3 => n = m) /\ 1 .. n \subseteq 1 .. m /\ \A i \in 1 .. n : s[i] \in S
  BY <1>1, <1>2
<1>4. PICK b : b = SubSeq(s, 1, n)
  OBVIOUS
<1>5. b \in Seq(S) /\ Len(b) = n /\ \A i \in 1 .. n : b[i] = s[i]
  <2>1. /\ b \in Seq(S) /\ Len(b) = IF 1 =< n THEN n - 1 + 1 ELSE 0
        /\ \A i \in 1 .. n - 1 + 1 : b[i] = s[1 + i - 1]
    BY <1>3, <1>4, SubSeqProperties
  <2>2. n - 1 + 1 = n /\ (~(1 =< n) => n = 0) /\ \A i \in 1 .. n : 1 + i - 1 = i
    BY <1>3
  <2> QED BY <2>1, <2>2
<1>6. PICK C, T : C = <<Gate!Cancel>> /\ T = S \cup {Gate!Cancel}
  OBVIOUS
<1>7. b \in Seq(T) /\ C \in Seq(T) /\ Len(C) = 1 /\ C[1] = Gate!Cancel /\ DOMAIN C = {1}
  BY <1>5, <1>6
<1>8. PICK t : t = b \o C
  OBVIOUS
<1>9. t = Gate!Menu(s)
  BY <1>1, <1>2, <1>4, <1>6, <1>8 DEF Gate!Menu, Gate!kShown
<1>10. t \in Seq(T) /\ Len(t) = n + 1 /\ Gate!EntriesOf(t) = Gate!EntriesOf(b) \cup Gate!EntriesOf(C)
  <2>1. /\ b \o C \in Seq(T) /\ Len(b \o C) = Len(b) + Len(C)
        /\ Gate!EntriesOf(b \o C) = Gate!EntriesOf(b) \cup Gate!EntriesOf(C)
    BY <1>7, ConcatEntries, Zenon
  <2> QED BY <1>5, <1>7, <1>8, <2>1
<1>11. t[n + 1] = Gate!Cancel
  <2>1. \A i \in 1 .. n + 1 : t[i] = IF i =< n THEN b[i] ELSE C[i - n]
    <3>1. \A i \in 1 .. Len(b) + Len(C) : (b \o C)[i] = IF i =< Len(b) THEN b[i] ELSE C[i - Len(b)]
      BY <1>7, ConcatProperties, Zenon
    <3> QED BY <1>5, <1>7, <1>8, <3>1
  <2>2. n + 1 \in 1 .. n + 1 /\ ~(n + 1 =< n) /\ (n + 1) - n = 1
    BY <1>3
  <2> QED BY <1>7, <2>1, <2>2
<1>12. /\ Gate!EntriesOf(C) = {Gate!Cancel} /\ Gate!EntriesOf(s) = {s[i] : i \in 1 .. m}
       /\ Gate!EntriesOf(b) = {s[i] : i \in 1 .. n}
  <2>1. DOMAIN b = 1 .. n
    BY <1>5
  <2> QED BY <1>1, <1>5, <1>7, <2>1 DEF Gate!EntriesOf
<1>13. {s[i] : i \in 1 .. n} \subseteq {s[i] : i \in 1 .. m}
  BY <1>3
<1>14. t # << >> /\ Len(t) =< 3
  <2>1. n + 1 \in Nat /\ n + 1 # 0 /\ n + 1 =< 3
    BY <1>3
  <2> QED BY <1>10, <2>1
<1>15. m < 3 => Gate!EntriesOf(s) = Gate!EntriesOf(b)
  BY <1>3, <1>12
<1>16. /\ t # << >> /\ Len(t) =< 3 /\ t[Len(t)] = Gate!Cancel
       /\ Gate!EntriesOf(t) \subseteq Gate!EntriesOf(s) \cup {Gate!Cancel}
       /\ Len(s) < 3 => Gate!EntriesOf(s) \subseteq Gate!EntriesOf(t)
  BY <1>1, <1>10, <1>11, <1>12, <1>13, <1>14, <1>15
<1> QED BY <1>9, <1>16 DEF Gate!kShown

\* a gate's entries: at most two of each kind, the instances numbered from the next record on
LEMMA GateEntries ==
    ASSUME NEW g, nextOption \in Nat
    PROVE  LET s == Gate!InstanceEntries(g)
               m == Len(Gate!Modes(g)) IN
           /\ m \in 0 .. 2 /\ s \in Seq(Gate!EntriesOf(s)) /\ Len(s) = m
           /\ \A e \in Gate!EntriesOf(s) : /\ e.kind = "instance" /\ e.at \in nextOption .. nextOption + m - 1
                                           /\ e.index = e.at % Ring
           /\ \A d, e \in Gate!EntriesOf(s) : d.at = e.at => d = e
<1>1. PICK m : m = Gate!Modes(g)
  OBVIOUS
<1>2. m \in Seq({1, 2}) /\ Len(m) \in 0 .. 2
  <2>1. PICK a, b : a = Gate!Mode(g, 1) /\ b = Gate!Mode(g, 2) /\ m = a \o b
    BY <1>1 DEF Gate!Modes
  <2>2. (a = <<1>> \/ a = << >>) /\ (b = <<2>> \/ b = << >>)
    BY <2>1 DEF Gate!Mode
  <2> DEFINE short == {x \in Seq({1, 2}) : Len(x) = 0 \/ Len(x) = 1}
  <2>0. <<1>> \in short /\ <<2>> \in short /\ << >> \in short
    OBVIOUS
  <2>3. a \in Seq({1, 2}) /\ (Len(a) = 0 \/ Len(a) = 1)
    <3>1. a \in short
      <4> HIDE DEF short
      <4> QED BY <2>0, <2>2, Zenon
    <3> QED BY <3>1
  <2>4. b \in Seq({1, 2}) /\ (Len(b) = 0 \/ Len(b) = 1)
    <3>1. b \in short
      <4> HIDE DEF short
      <4> QED BY <2>0, <2>2, Zenon
    <3> QED BY <3>1
  <2>5. a \o b \in Seq({1, 2}) /\ Len(a \o b) = Len(a) + Len(b)
    BY <2>3, <2>4, ConcatProperties, Zenon
  <2> QED BY <2>1, <2>3, <2>4, <2>5
<1>3. PICK n \in 0 .. 2 : n = Len(m) /\ DOMAIN m = 1 .. n
  BY <1>2
<1>4. PICK s : s = Gate!InstanceEntries(g)
  OBVIOUS
<1>5. /\ s = [k \in 1 .. n |-> s[k]]
      /\ \A k \in 1 .. n : s[k].kind = "instance" /\ s[k].index = (nextOption + k - 1) % Ring /\ s[k].at = nextOption + k - 1
  BY <1>1, <1>3, <1>4 DEF Gate!InstanceEntries, Gate!InstanceEntry
<1>6. Gate!EntriesOf(s) = {s[k] : k \in 1 .. n}
  <2>1. DOMAIN s = 1 .. n
    BY <1>5
  <2> QED BY <2>1 DEF Gate!EntriesOf
<1>7. s \in Seq(Gate!EntriesOf(s)) /\ Len(s) = n
  <2>1. \A k \in 1 .. n : s[k] \in Gate!EntriesOf(s)
    BY <1>6
  <2> QED BY <1>3, <1>5, <2>1
<1>8. \A e \in {s[k] : k \in 1 .. n} : e.kind = "instance" /\ e.at \in nextOption .. nextOption + n - 1 /\ e.index = e.at % Ring
  BY <1>3, <1>5
<1>9. \A d, e \in {s[k] : k \in 1 .. n} : d.at = e.at => d = e
  BY <1>3, <1>5
<1> QED BY <1>1, <1>3, <1>4, <1>6, <1>7, <1>8, <1>9

LEMMA GateLinks ==
    ASSUME NEW g \in Gates
    PROVE  LET s == Gate!LinkEntries(g) IN
           /\ s \in Seq(Gate!EntriesOf(s)) /\ Len(s) = Len(Links[g]) /\ Len(s) \in 0 .. 2
           /\ \A e \in Gate!EntriesOf(s) : e.kind = "link"
<1>1. Links[g] \in Seq(STRING) /\ Len(Links[g]) < 3
  BY DungeonsOK DEF Gate!GateOK, Gate!kShown
<1>2. PICK n : n = Len(Links[g]) /\ n \in 0 .. 2 /\ DOMAIN Links[g] = 1 .. n
  BY <1>1
<1>3. PICK s : s = Gate!LinkEntries(g)
  OBVIOUS
<1>4. s = [k \in 1 .. n |-> s[k]] /\ \A k \in 1 .. n : s[k].kind = "link"
  BY <1>2, <1>3 DEF Gate!LinkEntries
<1>5. Gate!EntriesOf(s) = {s[k] : k \in 1 .. n}
  <2>1. DOMAIN s = 1 .. n
    BY <1>4
  <2> QED BY <2>1 DEF Gate!EntriesOf
<1>6. s \in Seq(Gate!EntriesOf(s)) /\ Len(s) = n
  <2>1. \A k \in 1 .. n : s[k] \in Gate!EntriesOf(s)
    BY <1>5
  <2> QED BY <1>2, <1>4, <2>1
<1>7. \A e \in {s[k] : k \in 1 .. n} : e.kind = "link"
  BY <1>4
<1> QED BY <1>2, <1>3, <1>5, <1>6, <1>7

\* the button of a group
ButtonOf(kind, g, at) == [kind |-> "sub", index |-> at % Ring, at |-> at, drawn |-> [gate |-> g, kind |-> kind]]

LEMMA OneEntry == ASSUME NEW b PROVE Gate!EntriesOf(<<b>>) = {b} /\ Len(<<b>>) = 1 /\ \A S : b \in S => <<b>> \in Seq(S)
<1>1. DOMAIN <<b>> = {1} /\ <<b>>[1] = b
  OBVIOUS
<1> QED BY <1>1 DEF Gate!EntriesOf

\* a gate's first menu: its links and instances, or for a kind with two of them a button recorded in the ring of groups
LEMMA TopEntries ==
    ASSUME NEW g \in Gates, nextOption \in Nat, nextSub \in Nat
    PROVE  LET top == Gate!Top(g)
               links == Gate!EntriesOf(Gate!LinkEntries(g))
               ways == Gate!EntriesOf(Gate!InstanceEntries(g)) IN
           \E sub \in SUBSET {"link", "instance"}, at \in [{"link", "instance"} -> Nat] :
             /\ Len(top) \in 0 .. 2 /\ \E S : top \in Seq(S)
             /\ Gate!EntriesOf(top) = (IF "link" \in sub THEN {ButtonOf("link", g, at["link"])} ELSE links) \cup
                                      (IF "instance" \in sub THEN {ButtonOf("instance", g, at["instance"])} ELSE ways)
             /\ "link" \in sub => at["link"] = nextSub
             /\ "instance" \in sub => at["instance"] = IF "link" \in sub THEN nextSub + 1 ELSE nextSub
<1>1. PICK l, i : l = Gate!LinkEntries(g) /\ i = Gate!InstanceEntries(g)
  OBVIOUS
<1>2. l \in Seq(Gate!EntriesOf(l)) /\ Len(l) = Len(Links[g]) /\ Len(l) \in 0 .. 2
  BY <1>1, GateLinks
<1>3. i \in Seq(Gate!EntriesOf(i)) /\ Len(i) = Len(Gate!Modes(g)) /\ Len(i) \in 0 .. 2
  BY <1>1, GateEntries
<1>4. PICK n : n = nextSub + (IF Len(l) > 1 THEN 1 ELSE 0) /\ n \in Nat
  BY <1>2
<1>5. PICK S : S = Gate!EntriesOf(l) \cup Gate!EntriesOf(i) \cup {ButtonOf("link", g, nextSub), ButtonOf("instance", g, n)}
  OBVIOUS
<1>6. l \in Seq(S) /\ i \in Seq(S)
  BY <1>2, <1>3, <1>5
<1>7. PICK at : at = [k \in {"link", "instance"} |-> IF k = "link" THEN nextSub ELSE n]
  OBVIOUS
<1>8. at \in [{"link", "instance"} -> Nat] /\ at["link"] = nextSub /\ at["instance"] = n
  BY <1>4, <1>7
<1>9. PICK top : top = Gate!Top(g)
  OBVIOUS
<1>10. CASE Len(l) + Len(i) + 1 =< 3
  <2>1. top = l \o i
    BY <1>1, <1>2, <1>3, <1>9, <1>10 DEF Gate!Top, Gate!kShown
  <2>2. l \o i \in Seq(S) /\ Len(l \o i) = Len(l) + Len(i) /\ Gate!EntriesOf(l \o i) = Gate!EntriesOf(l) \cup Gate!EntriesOf(i)
    BY <1>6, ConcatEntries, Zenon
  <2>3. top \in Seq(S) /\ Len(top) \in 0 .. 2 /\ Gate!EntriesOf(top) = Gate!EntriesOf(l) \cup Gate!EntriesOf(i)
    BY <1>2, <1>3, <1>10, <2>1, <2>2
  <2>4. PICK sub : sub = {}
    OBVIOUS
  <2>5. sub \in SUBSET {"link", "instance"} /\ "link" \notin sub /\ "instance" \notin sub
    BY <2>4
  <2> QED BY <1>1, <1>8, <1>9, <2>3, <2>5
<1>11. CASE ~(Len(l) + Len(i) + 1 =< 3)
  <2>1. PICK a, b : a = Gate!Grouped(l, "link", g, nextSub) /\ b = Gate!Grouped(i, "instance", g, n)
    OBVIOUS
  <2>2. top = a \o b
    BY <1>1, <1>2, <1>3, <1>4, <1>9, <1>11, <2>1 DEF Gate!Top, Gate!kShown
  <2>3. /\ a \in Seq(S) /\ Len(a) \in 0 .. 1
        /\ Gate!EntriesOf(a) = (IF Len(l) =< 1 THEN Gate!EntriesOf(l) ELSE {ButtonOf("link", g, nextSub)})
    <3>1. PICK one : one = ButtonOf("link", g, nextSub)
      OBVIOUS
    <3>2. a = IF Len(l) =< 1 THEN l ELSE <<one>>
      BY <2>1, <3>1 DEF Gate!Grouped, ButtonOf
    <3>3. one \in S
      BY <1>5, <3>1
    <3>4. CASE Len(l) =< 1
      <4>1. a = l
        BY <3>2, <3>4
      <4>2. Len(l) \in 0 .. 1 /\ l \in Seq(S)
        <5>1. PICK k : k = Len(l)
          OBVIOUS
        <5>2. k \in 0 .. 2 /\ k =< 1
          BY <1>2, <3>4, <5>1
        <5>3. k \in 0 .. 1
          BY <5>2
        <5> QED BY <1>6, <5>1, <5>3
      <4>3. Gate!EntriesOf(a) = Gate!EntriesOf(l)
        BY <4>1
      <4> QED BY <3>4, <4>1, <4>2, <4>3
    <3>5. CASE ~(Len(l) =< 1)
      <4>1. a = <<one>>
        BY <3>2, <3>5
      <4>2. Gate!EntriesOf(a) = {one} /\ Len(a) = 1 /\ a \in Seq(S)
        BY <3>3, <4>1, OneEntry
      <4> QED BY <3>1, <3>5, <4>2
    <3> QED BY <3>4, <3>5
  <2>4. /\ b \in Seq(S) /\ Len(b) \in 0 .. 1
        /\ Gate!EntriesOf(b) = (IF Len(i) =< 1 THEN Gate!EntriesOf(i) ELSE {ButtonOf("instance", g, n)})
    <3>1. PICK one : one = ButtonOf("instance", g, n)
      OBVIOUS
    <3>2. b = IF Len(i) =< 1 THEN i ELSE <<one>>
      BY <2>1, <3>1 DEF Gate!Grouped, ButtonOf
    <3>3. one \in S
      BY <1>5, <3>1
    <3>4. CASE Len(i) =< 1
      <4>1. b = i
        BY <3>2, <3>4
      <4>2. Len(i) \in 0 .. 1 /\ i \in Seq(S)
        BY <1>3, <1>6, <3>4
      <4>3. Gate!EntriesOf(b) = Gate!EntriesOf(i)
        BY <4>1
      <4> QED BY <3>4, <4>1, <4>2, <4>3
    <3>5. CASE ~(Len(i) =< 1)
      <4>1. b = <<one>>
        BY <3>2, <3>5
      <4>2. Gate!EntriesOf(b) = {one} /\ Len(b) = 1 /\ b \in Seq(S)
        BY <3>3, <4>1, OneEntry
      <4> QED BY <3>1, <3>5, <4>2
    <3> QED BY <3>4, <3>5
  <2>7. a \o b \in Seq(S) /\ Len(a \o b) = Len(a) + Len(b) /\ Gate!EntriesOf(a \o b) = Gate!EntriesOf(a) \cup Gate!EntriesOf(b)
    <3>1. a \in Seq(S) /\ b \in Seq(S)
      BY <2>3, <2>4
    <3> QED BY <3>1, ConcatEntries, Zenon
  <2>8. PICK sub : sub = {k \in {"link", "instance"} : IF k = "link" THEN Len(l) > 1 ELSE Len(i) > 1}
    OBVIOUS
  <2>9. /\ sub \in SUBSET {"link", "instance"}
        /\ "link" \in sub <=> ~(Len(l) =< 1)
        /\ "instance" \in sub <=> ~(Len(i) =< 1)
    BY <1>2, <1>3, <2>8
  <2>10. Len(top) \in 0 .. 2 /\ top \in Seq(S)
    BY <2>2, <2>3, <2>4, <2>7
  <2>11. Gate!EntriesOf(top) = (IF "link" \in sub THEN {ButtonOf("link", g, nextSub)} ELSE Gate!EntriesOf(l)) \cup
                               (IF "instance" \in sub THEN {ButtonOf("instance", g, n)} ELSE Gate!EntriesOf(i))
    BY <2>2, <2>3, <2>4, <2>7, <2>9
  <2>12. n = IF "link" \in sub THEN nextSub + 1 ELSE nextSub
    BY <1>2, <1>4, <2>9
  <2> QED BY <1>1, <1>8, <1>9, <2>9, <2>10, <2>11, <2>12
<1> QED BY <1>10, <1>11

LEMMA SameCardinality == \A S : Gate!Cardinality(S) = Cardinality(S)
BY DEF Gate!Cardinality, Cardinality

\* the groups a click records
LEMMA ClickSubs ==
    ASSUME NEW g \in Gates, nextOption \in Nat, nextSub \in Nat
    PROVE  LET s == Gate!SubsOf(Gate!Top(g))
               n == Gate!Cardinality(s) IN
           /\ n \in Nat
           /\ \A e \in s : /\ e.kind = "sub" /\ e.at \in nextSub .. nextSub + n - 1 /\ e.index = e.at % Ring
                           /\ e.drawn \in [gate : Gates, kind : {"link", "instance"}]
           /\ \A d, e \in s : d.at = e.at => d = e
<1>1. PICK top, L, W : /\ top = Gate!EntriesOf(Gate!Top(g)) /\ L = Gate!EntriesOf(Gate!LinkEntries(g))
                       /\ W = Gate!EntriesOf(Gate!InstanceEntries(g))
  OBVIOUS
<1>2. PICK sub \in SUBSET {"link", "instance"}, at \in [{"link", "instance"} -> Nat] :
        /\ top = (IF "link" \in sub THEN {ButtonOf("link", g, at["link"])} ELSE L) \cup
                 (IF "instance" \in sub THEN {ButtonOf("instance", g, at["instance"])} ELSE W)
        /\ "link" \in sub => at["link"] = nextSub
        /\ "instance" \in sub => at["instance"] = IF "link" \in sub THEN nextSub + 1 ELSE nextSub
  BY <1>1, TopEntries
<1>3. (\A e \in L : e.kind = "link") /\ (\A e \in W : e.kind = "instance")
  BY <1>1, GateLinks, GateEntries
<1>4. PICK a, b : a = ButtonOf("link", g, at["link"]) /\ b = ButtonOf("instance", g, at["instance"])
  OBVIOUS
<1>5. /\ a.kind = "sub" /\ a.at = at["link"] /\ a.index = a.at % Ring /\ a.drawn = [gate |-> g, kind |-> "link"]
      /\ b.kind = "sub" /\ b.at = at["instance"] /\ b.index = b.at % Ring /\ b.drawn = [gate |-> g, kind |-> "instance"]
  BY <1>4 DEF ButtonOf
<1>6. PICK s : s = Gate!SubsOf(Gate!Top(g))
  OBVIOUS
<1>7. s = (IF "link" \in sub THEN {a} ELSE {}) \cup (IF "instance" \in sub THEN {b} ELSE {})
  <2>1. s = {e \in top : e.kind = "sub"}
    BY <1>1, <1>6 DEF Gate!SubsOf
  <2> QED BY <1>2, <1>3, <1>4, <1>5, <2>1
<1>8. a.drawn \in [gate : Gates, kind : {"link", "instance"}] /\ b.drawn \in [gate : Gates, kind : {"link", "instance"}]
  BY <1>5
<1>9. Cardinality({}) = 0 /\ Cardinality({a}) = 1 /\ Cardinality({b}) = 1 /\ (a # b => Cardinality({a, b}) = 2)
  <2>1. IsFiniteSet({a})
    BY FS_Singleton
  <2>2. a # b => Cardinality({a} \cup {b}) = Cardinality({a}) + 1
    BY <2>1, FS_AddElement
  <2>3. {a} \cup {b} = {a, b}
    OBVIOUS
  <2>4. Cardinality({}) = 0
    BY FS_EmptySet
  <2>5. Cardinality({a}) = 1 /\ Cardinality({b}) = 1
    BY FS_Singleton
  <2>6. a # b => Cardinality({a, b}) = 2
    BY <2>2, <2>3, <2>5
  <2> QED BY <2>4, <2>5, <2>6
<1>10. PICK n : n = Gate!Cardinality(s) /\ n = Cardinality(s)
  BY SameCardinality
<1>11. CASE "link" \in sub /\ "instance" \in sub
  <2>1. s = {a, b} /\ a.at = nextSub /\ b.at = nextSub + 1
    BY <1>2, <1>5, <1>7, <1>11
  <2>2. n = 2
    BY <1>9, <1>10, <2>1
  <2> QED BY <1>5, <1>6, <1>8, <1>10, <2>1, <2>2
<1>12. CASE "link" \in sub /\ "instance" \notin sub
  <2>1. s = {a} /\ a.at = nextSub
    BY <1>2, <1>5, <1>7, <1>12
  <2>2. n = 1
    BY <1>9, <1>10, <2>1
  <2> QED BY <1>5, <1>6, <1>8, <1>10, <2>1, <2>2
<1>13. CASE "link" \notin sub /\ "instance" \in sub
  <2>1. s = {b} /\ b.at = nextSub
    BY <1>2, <1>5, <1>7, <1>13
  <2>2. n = 1
    BY <1>9, <1>10, <2>1
  <2> QED BY <1>5, <1>6, <1>8, <1>10, <2>1, <2>2
<1>14. CASE "link" \notin sub /\ "instance" \notin sub
  <2>1. s = {} /\ n = 0
    BY <1>7, <1>9, <1>10, <1>14
  <2> QED BY <1>6, <1>10, <2>1
<1> QED BY <1>11, <1>12, <1>13, <1>14

\* what collect records: the buttons drawn now, and those drawn before
LEMMA RecordedKeeps ==
    ASSUME nextOption \in Nat, NEW g, Gate!Recorded(g)
    PROVE  /\ nextOption' \in Nat
           /\ \A e : OptionFits(e) => OptionFits(e)'
           /\ \A e \in Gate!EntriesOf(Gate!InstanceEntries(g)) : e.kind = "instance" /\ OptionFits(e)'
<1>1. PICK n, m, W : n = nextOption /\ m = nextOption' /\ W = Gate!EntriesOf(Gate!InstanceEntries(g))
  OBVIOUS
<1>2. /\ n \in Nat /\ m \in Nat /\ n =< m
      /\ \A e \in W : e.kind = "instance" /\ e.at \in n .. m - 1 /\ e.index = e.at % Ring
      /\ \A d, e \in W : d.at = e.at => d = e
  BY <1>1, GateEntries DEF Gate!Recorded
<1>3. options' = Gate!Put(options, W)
  BY <1>1 DEF Gate!Recorded
<1>4. ASSUME NEW at \in 0 .. m - 1, m - at =< Ring
      PROVE  /\ at < n => options'[at % Ring] = options[at % Ring]
             /\ \A e \in W : e.at = at => options'[at % Ring] = e.drawn
  <2>1. PICK ring : ring = options
    OBVIOUS
  <2> QED BY <1>2, <1>3, <1>4, <2>1, PutFresh
<1>5. Ring \in Nat
  BY DungeonsOK DEF Gate!GateOK
<1>6. ASSUME NEW e, OptionFits(e) PROVE OptionFits(e)'
  <2>1. e.at \in 0 .. n - 1 /\ e.at \in 0 .. m - 1 /\ e.at < n /\ e.index = e.at % Ring /\ (m - e.at =< Ring => n - e.at =< Ring)
    BY <1>1, <1>2, <1>5, <1>6 DEF OptionFits
  <2> QED BY <1>1, <1>4, <1>6, <2>1 DEF OptionFits
<1>7. ASSUME NEW e \in W PROVE e.kind = "instance" /\ OptionFits(e)'
  <2>1. e.at \in 0 .. m - 1
    BY <1>2
  <2>2. m - e.at =< Ring => options'[e.at % Ring] = e.drawn
    BY <1>4, <2>1
  <2> QED BY <1>1, <1>2, <2>1, <2>2 DEF OptionFits
<1> QED BY <1>1, <1>2, <1>6, <1>7

LEMMA SubsRecorded ==
    ASSUME nextOption \in Nat, nextSub \in Nat, NEW p \in Players, NEW g \in Gates, Gate!Click(p, g)
    PROVE  /\ nextSub' \in Nat
           /\ \A e : SubFits(e) => SubFits(e)'
           /\ \A e \in Gate!SubsOf(Gate!Top(g)) : e.kind = "sub" /\ SubFits(e)'
<1>1. PICK n, m, W : n = nextSub /\ m = nextSub' /\ W = Gate!SubsOf(Gate!Top(g))
  OBVIOUS
<1>2. /\ n \in Nat /\ m \in Nat /\ n =< m
      /\ \A e \in W : /\ e.kind = "sub" /\ e.at \in n .. m - 1 /\ e.index = e.at % Ring
                      /\ e.drawn \in [gate : Gates, kind : {"link", "instance"}]
      /\ \A d, e \in W : d.at = e.at => d = e
  <2>1. PICK k : k = Gate!Cardinality(W) /\ m = n + k
    BY <1>1 DEF Gate!Click
  <2>2. /\ k \in Nat
        /\ \A e \in W : /\ e.kind = "sub" /\ e.at \in n .. n + k - 1 /\ e.index = e.at % Ring
                        /\ e.drawn \in [gate : Gates, kind : {"link", "instance"}]
        /\ \A d, e \in W : d.at = e.at => d = e
    BY <1>1, <2>1, ClickSubs
  <2> QED BY <1>1, <2>1, <2>2
<1>3. PICK ring : ring = subs /\ subs' = Gate!Put(ring, W)
  BY <1>1 DEF Gate!Click
<1>4. ASSUME NEW at \in 0 .. m - 1, m - at =< Ring
      PROVE  /\ at < n => subs'[at % Ring] = subs[at % Ring]
             /\ \A e \in W : e.at = at => subs'[at % Ring] = e.drawn
  <2>1. /\ n \in Nat /\ m \in Nat /\ \A e \in W : e.at \in n .. m - 1
        /\ \A d, e \in W : d.at = e.at => d = e
    BY <1>2
  <2>2. /\ at < n => Gate!Put(ring, W)[at % Ring] = ring[at % Ring]
        /\ \A e \in W : e.at = at => Gate!Put(ring, W)[at % Ring] = e.drawn
    BY <1>4, <2>1, PutFresh
  <2> QED BY <1>3, <2>2
<1>5. Ring \in Nat \ {0}
  BY DungeonsOK DEF Gate!GateOK
<1>6. ASSUME NEW i \in 0 .. Ring - 1
      PROVE  subs'[i] = subs[i] \/ subs'[i] \in [gate : Gates, kind : {"link", "instance"}]
  <2>1. \A e \in W : e.at \in 0 .. m - 1
    BY <1>2
  <2>2. subs'[i] = subs[i] \/ \E e \in W : subs'[i] = e.drawn
    BY <1>2, <1>3, <2>1, PutValue
  <2> QED BY <1>2, <2>2
<1>7. \A e : e.at \in 0 .. m - 1 /\ e.index = e.at % Ring => e.index \in 0 .. Ring - 1
  BY <1>2, <1>5
<1>8. ASSUME NEW e, SubFits(e) PROVE SubFits(e)'
  <2>1. /\ e.at \in 0 .. m - 1 /\ e.at < n /\ e.index = e.at % Ring /\ (m - e.at =< Ring => n - e.at =< Ring)
        /\ subs[e.index] \in [gate : Gates, kind : {"link", "instance"}]
    BY <1>1, <1>2, <1>5, <1>8 DEF SubFits
  <2>2. subs'[e.index] \in [gate : Gates, kind : {"link", "instance"}]
    BY <1>6, <1>7, <2>1
  <2>3. m - e.at =< Ring => subs'[e.index] = e.drawn
    BY <1>1, <1>4, <1>8, <2>1 DEF SubFits
  <2> QED BY <1>1, <2>1, <2>2, <2>3 DEF SubFits
<1>9. ASSUME NEW e \in W PROVE e.kind = "sub" /\ SubFits(e)'
  <2>1. e.at \in 0 .. m - 1 /\ e.at \in Nat /\ n =< e.at /\ e.index = e.at % Ring /\ m - e.at =< m - n
    BY <1>2
  <2>2. m - e.at =< Ring => subs'[e.at % Ring] = e.drawn
    BY <1>4, <2>1
  <2>3. subs'[e.index] \in [gate : Gates, kind : {"link", "instance"}]
    <3>1. e.index \in 0 .. Ring - 1 /\ \A d \in W : d.at \in 0 .. m - 1
      BY <1>2, <1>7, <2>1
    <3>2. PICK i : i = e.index
      OBVIOUS
    <3>3. (\E d \in W : subs'[i] = d.drawn) => subs'[i] \in [gate : Gates, kind : {"link", "instance"}]
      BY <1>2
    <3>4. \E d \in W : Gate!Put(ring, W)[i] = d.drawn
      <4>1. e \in W /\ e.at % Ring = i
        BY <2>1, <3>2
      <4> QED BY <1>2, <3>1, <3>2, <4>1, PutValue
    <3> QED BY <1>3, <3>2, <3>3, <3>4
  <2> QED BY <1>1, <1>2, <2>1, <2>2, <2>3 DEF SubFits
<1> QED BY <1>1, <1>2, <1>8, <1>9

LEMMA MenuFitsIt ==
    ASSUME NEW S, NEW s \in Seq(S), \A e \in Gate!EntriesOf(s) : EntryFits(e)'
    PROVE  MenuFits(Gate!Menu(s))'
<1>1. PICK t : t = Gate!Menu(s)
  OBVIOUS
<1>2. /\ t # << >> /\ Len(t) =< Gate!kShown /\ t[Len(t)] = Gate!Cancel
      /\ Gate!EntriesOf(t) \subseteq Gate!EntriesOf(s) \cup {Gate!Cancel}
  BY <1>1, MenuEntries
<1>3. EntryFits(Gate!Cancel)'
  BY DEF EntryFits, Gate!Cancel
<1> QED BY <1>1, <1>2, <1>3 DEF MenuFits

LEMMA GatesStart == DungeonsInit => DrawnFor
<1> SUFFICES ASSUME DungeonsInit PROVE DrawnFor
  OBVIOUS
<1>1. Gate!Init
  BY DEF DungeonsInit
<1>2. MenuFits(<< >>)
  BY DEF MenuFits, Gate!EntriesOf
<1>3. SelectFits(Gate!Nothing) /\ ChoiceFits(Gate!Nothing)
  BY DEF SelectFits, ChoiceFits
<1> QED BY <1>1, <1>2, <1>3 DEF Gate!Init, DrawnFor

\* one player's menu changes, and what the open ones were drawn for stays
LEMMA MenusStay ==
    ASSUME DrawnFor, NEW p \in Players, NEW m, gateMenu' = [gateMenu EXCEPT ![p] = m], MenuFits(m)',
           \A e : EntryFits(e) => EntryFits(e)'
    PROVE  /\ gateMenu' = [q \in Players |-> gateMenu'[q]]
           /\ \A s \in {gateMenu'[q] : q \in Players} : MenuFits(s)'
<1>1. \A q \in Players : gateMenu'[q] = IF q = p THEN m ELSE gateMenu[q]
  BY DEF DrawnFor
<1>2. ASSUME NEW q \in Players, NEW s, s = gateMenu[q] PROVE MenuFits(s)'
  <2>1. MenuFits(s)
    BY <1>2 DEF DrawnFor
  <2> QED BY <2>1 DEF MenuFits
<1>3. ASSUME NEW q \in Players, NEW s, s = gateMenu'[q] PROVE MenuFits(s)'
  BY <1>1, <1>2, <1>3
<1>4. \A s \in {gateMenu'[q] : q \in Players} : MenuFits(s)'
  BY <1>3
<1>5. gateMenu' = [q \in Players |-> gateMenu'[q]]
  BY DEF DrawnFor
<1> QED BY <1>4, <1>5

LEMMA GateClick == ASSUME DrawnFor, NEW p \in Players, NEW g \in Gates, Gate!Click(p, g) PROVE DrawnFor'
<1>1. nextOption \in Nat /\ nextSub \in Nat /\ Gate!Recorded(g) /\ UNCHANGED <<hard, place, wanted>>
      /\ gateMenu' = [gateMenu EXCEPT ![p] = Gate!Menu(Gate!Top(g))]
  BY DEF DrawnFor, Gate!Click
<1>2. /\ nextOption' \in Nat /\ \A e : OptionFits(e) => OptionFits(e)'
      /\ \A e \in Gate!EntriesOf(Gate!InstanceEntries(g)) : e.kind = "instance" /\ OptionFits(e)'
  BY <1>1, RecordedKeeps
<1>3. /\ nextSub' \in Nat /\ \A e : SubFits(e) => SubFits(e)'
      /\ \A e \in Gate!SubsOf(Gate!Top(g)) : e.kind = "sub" /\ SubFits(e)'
  BY <1>1, SubsRecorded
<1>4. \A e : EntryFits(e) => EntryFits(e)'
  BY <1>2, <1>3 DEF EntryFits
<1>5. PICK top, E : top = Gate!Top(g) /\ E = Gate!EntriesOf(top)
  OBVIOUS
<1>6. /\ \E S : top \in Seq(S)
      /\ \A e \in E : \/ e.kind = "link" \/ e.kind = "sub"
                      \/ e \in Gate!EntriesOf(Gate!InstanceEntries(g))
  <2>1. PICK L, W : L = Gate!EntriesOf(Gate!LinkEntries(g)) /\ W = Gate!EntriesOf(Gate!InstanceEntries(g))
    OBVIOUS
  <2>2. PICK sub \in SUBSET {"link", "instance"}, at \in [{"link", "instance"} -> Nat] :
          /\ \E S : top \in Seq(S)
          /\ E = (IF "link" \in sub THEN {ButtonOf("link", g, at["link"])} ELSE L) \cup
                 (IF "instance" \in sub THEN {ButtonOf("instance", g, at["instance"])} ELSE W)
    BY <1>1, <1>5, <2>1, TopEntries
  <2>3. \A e \in L : e.kind = "link"
    BY <2>1, GateLinks
  <2>4. \A k, i : ButtonOf(k, g, i).kind = "sub"
    BY DEF ButtonOf
  <2>5. \A e \in E : e.kind = "link" \/ e.kind = "sub" \/ e \in W
    BY <2>2, <2>3, <2>4
  <2> QED BY <2>1, <2>2, <2>5
<1>7. ASSUME NEW e \in E PROVE EntryFits(e)'
  <2>1. e.kind = "sub" => SubFits(e)'
    BY <1>3, <1>5 DEF Gate!SubsOf
  <2>2. e.kind = "instance" => OptionFits(e)'
    BY <1>2, <1>6
  <2> QED BY <2>1, <2>2 DEF EntryFits
<1>8. PICK m : m = Gate!Menu(top) /\ MenuFits(m)'
  BY <1>5, <1>6, <1>7, MenuFitsIt
<1>9. /\ gateMenu' = [q \in Players |-> gateMenu'[q]]
      /\ \A s \in {gateMenu'[q] : q \in Players} : MenuFits(s)'
  BY <1>1, <1>4, <1>5, <1>8, MenusStay
<1> QED BY <1>1, <1>2, <1>3, <1>9 DEF DrawnFor

LEMMA OpenSubStep ==
    ASSUME DrawnFor, NEW p \in Players, NEW e, EntryFits(e), e.kind = "sub", Gate!OpenSub(p, e) PROVE DrawnFor'
<1>1. PICK s : s = subs[e.index] /\ s \in [gate : Gates, kind : {"link", "instance"}] /\ (nextSub - e.at =< Ring => s = e.drawn)
  BY DEF EntryFits, SubFits
<1>2. PICK entries : entries = IF s.kind = "link" THEN Gate!LinkEntries(s.gate) ELSE Gate!InstanceEntries(s.gate)
  OBVIOUS
<1>3. /\ IF s.kind = "instance" THEN Gate!Recorded(s.gate) ELSE UNCHANGED <<options, nextOption>>
      /\ gateMenu' = [gateMenu EXCEPT ![p] = Gate!Menu(entries)]
      /\ wanted' = [wanted EXCEPT ![p] = [fresh |-> nextSub - e.at =< Ring, drawn |-> e.drawn, got |-> s]]
      /\ UNCHANGED <<subs, nextSub, hard, place>>
  BY <1>1, <1>2 DEF Gate!OpenSub
<1>4. /\ nextOption' \in Nat /\ \A d : OptionFits(d) => OptionFits(d)'
      /\ \E S : entries \in Seq(S)
      /\ \A d \in Gate!EntriesOf(entries) : d.kind # "sub" /\ (d.kind = "instance" => OptionFits(d)')
  <2>1. CASE s.kind = "instance"
    <3>1. /\ nextOption' \in Nat /\ \A d : OptionFits(d) => OptionFits(d)'
          /\ \A d \in Gate!EntriesOf(Gate!InstanceEntries(s.gate)) : d.kind = "instance" /\ OptionFits(d)'
      BY <1>3, <2>1, RecordedKeeps DEF DrawnFor
    <3>2. Gate!InstanceEntries(s.gate) \in Seq(Gate!EntriesOf(Gate!InstanceEntries(s.gate)))
      BY GateEntries DEF DrawnFor
    <3>3. entries = Gate!InstanceEntries(s.gate)
      BY <1>2, <2>1
    <3> QED BY <3>1, <3>2, <3>3
  <2>2. CASE s.kind # "instance"
    <3>1. entries = Gate!LinkEntries(s.gate) /\ UNCHANGED <<options, nextOption>>
      BY <1>1, <1>2, <1>3, <2>2
    <3>2. /\ Gate!LinkEntries(s.gate) \in Seq(Gate!EntriesOf(Gate!LinkEntries(s.gate)))
          /\ \A d \in Gate!EntriesOf(Gate!LinkEntries(s.gate)) : d.kind = "link"
      BY <1>1, GateLinks
    <3>3. \A d : OptionFits(d) => OptionFits(d)'
      BY <3>1 DEF OptionFits
    <3> QED BY <3>1, <3>2, <3>3 DEF DrawnFor
  <2> QED BY <2>1, <2>2
<1>5. \A d : EntryFits(d) => EntryFits(d)'
  BY <1>3, <1>4 DEF EntryFits, SubFits
<1>6. \A d \in Gate!EntriesOf(entries) : EntryFits(d)'
  BY <1>4 DEF EntryFits
<1>7. PICK m : m = Gate!Menu(entries) /\ MenuFits(m)'
  BY <1>4, <1>6, MenuFitsIt
<1>8. /\ gateMenu' = [q \in Players |-> gateMenu'[q]]
      /\ \A t \in {gateMenu'[q] : q \in Players} : MenuFits(t)'
  BY <1>3, <1>5, <1>7, MenusStay
<1>9. wanted' = [q \in Players |-> wanted'[q]] /\ \A q \in Players : ChoiceFits(wanted'[q])
  <2>1. PICK w : w = [fresh |-> nextSub - e.at =< Ring, drawn |-> e.drawn, got |-> s]
    OBVIOUS
  <2>2. ChoiceFits(w)
    BY <1>1, <2>1 DEF ChoiceFits
  <2>3. \A q \in Players : wanted'[q] = IF q = p THEN w ELSE wanted[q]
    BY <1>3, <2>1 DEF DrawnFor
  <2> QED BY <1>3, <2>2, <2>3 DEF DrawnFor
<1> QED BY <1>3, <1>4, <1>8, <1>9 DEF DrawnFor

\* the answer: what the choice was drawn for is what the record says, and a level select that starts is asked for
LEMMA ChosenStep ==
    ASSUME DrawnFor, NEW p \in Players, NEW e, EntryFits(e), NEW admin, Gate!Chosen(p, e, admin)
    PROVE  /\ place' = [q \in Players |-> place'[q]] /\ hard' = [q \in Players |-> hard'[q]]
           /\ wanted' = [q \in Players |-> wanted'[q]]
           /\ \A q \in Players : SelectFits(hard'[q]) /\ ChoiceFits(wanted'[q])
<1>1. /\ \A q \in Players : SelectFits(hard[q]) /\ ChoiceFits(wanted[q])
      /\ place = [q \in Players |-> place[q]] /\ hard = [q \in Players |-> hard[q]] /\ wanted = [q \in Players |-> wanted[q]]
  BY DEF DrawnFor
<1>2. ChoiceFits(Gate!Nothing)
  BY DEF ChoiceFits
<1>3. CASE e.kind = "link" /\ Gate!LinkTo(p, e.map, FALSE, admin) /\ wanted' = [wanted EXCEPT ![p] = Gate!Nothing] /\ UNCHANGED hard
  BY <1>1, <1>2, <1>3 DEF Gate!LinkTo
<1>4. CASE e.kind \in {"cancel", "none"} /\ wanted' = [wanted EXCEPT ![p] = Gate!Nothing] /\ UNCHANGED <<place, hard>>
  BY <1>1, <1>2, <1>4
<1>5. CASE /\ e.kind = "instance" /\ Gate!Enter(p, options[e.index])
           /\ wanted' = [wanted EXCEPT ![p] =
                [fresh |-> nextOption - e.at =< Ring, drawn |-> e.drawn, got |-> options[e.index]]]
  <2>1. PICK o, w : /\ o = options[e.index]
                    /\ w = [fresh |-> nextOption - e.at =< Ring, drawn |-> e.drawn, got |-> o]
    OBVIOUS
  <2>2. ChoiceFits(w)
    BY <1>5, <2>1 DEF ChoiceFits, EntryFits, OptionFits
  <2>3. wanted' = [wanted EXCEPT ![p] = w] /\ Gate!Enter(p, o)
    BY <1>5, <2>1
  <2>4. wanted' = [q \in Players |-> wanted'[q]] /\ \A q \in Players : ChoiceFits(wanted'[q])
    BY <1>1, <2>2, <2>3
  <2>5. PICK h : h = [kind |-> "asked", gate |-> o.gate, mode |-> o.mode]
    OBVIOUS
  <2>6. SelectFits(h)
    BY <2>5 DEF SelectFits
  <2>7. \/ UNCHANGED <<place, hard>>
        \/ hard' = [hard EXCEPT ![p] = h] /\ UNCHANGED place
        \/ place' = [place EXCEPT ![p] = <<o.gate, o.slot, o.mode>>] /\ UNCHANGED hard
    BY <2>3, <2>5 DEF Gate!Enter
  <2> QED BY <1>1, <2>4, <2>6, <2>7
<1> QED BY <1>3, <1>4, <1>5 DEF Gate!Chosen

\* a menu is closed and the records stay
LEMMA MenuCloses ==
    ASSUME DrawnFor, NEW p \in Players, gateMenu' = [gateMenu EXCEPT ![p] = << >>],
           UNCHANGED <<options, nextOption, subs, nextSub>>,
           place' = [q \in Players |-> place'[q]], hard' = [q \in Players |-> hard'[q]],
           wanted' = [q \in Players |-> wanted'[q]], \A q \in Players : SelectFits(hard'[q]) /\ ChoiceFits(wanted'[q])
    PROVE  DrawnFor'
<1>1. \A e : EntryFits(e) => EntryFits(e)'
  BY DEF EntryFits, OptionFits, SubFits
<1>2. PICK m : m = << >> /\ MenuFits(m)'
  <2>1. PICK m : m = << >>
    OBVIOUS
  <2>2. m = << >> /\ Gate!EntriesOf(m) = {}
    BY <2>1 DEF Gate!EntriesOf
  <2> QED BY <2>2 DEF MenuFits
<1>3. /\ gateMenu' = [q \in Players |-> gateMenu'[q]]
      /\ \A s \in {gateMenu'[q] : q \in Players} : MenuFits(s)'
  BY <1>1, <1>2, MenusStay
<1> QED BY <1>3 DEF DrawnFor

LEMMA AnswerStep ==
    ASSUME DrawnFor, NEW p \in Players, NEW admin, NEW k \in DOMAIN gateMenu[p], Gate!Answer(p, k, admin) PROVE DrawnFor'
<1>1. PICK e : e = gateMenu[p][k]
  OBVIOUS
<1>2. EntryFits(e)
  <2>1. PICK s : s = gateMenu[p] /\ MenuFits(s)
    BY DEF DrawnFor
  <2>2. e \in Gate!EntriesOf(s)
    BY <1>1, <2>1 DEF Gate!EntriesOf
  <2> QED BY <2>1, <2>2 DEF MenuFits
<1>3. CASE e.kind = "sub" /\ Gate!OpenSub(p, e)
  BY <1>2, <1>3, OpenSubStep
<1>4. CASE Gate!Chosen(p, e, admin) /\ gateMenu' = [gateMenu EXCEPT ![p] = << >>] /\ UNCHANGED <<options, nextOption, subs, nextSub>>
  BY <1>2, <1>4, ChosenStep, MenuCloses
<1> QED BY <1>1, <1>3, <1>4 DEF Gate!Answer, Gate!ringVars

\* Escape: the reply byte is cleared before the client sends it
LEMMA EscapeIsNothing ==
    ASSUME NEW p \in Players, NEW admin, Gate!Escape(p, admin)
    PROVE  Gate!Chosen(p, Gate!Nothing, admin) /\ gateMenu' = [gateMenu EXCEPT ![p] = << >>] /\ UNCHANGED <<place, hard>>
BY DEF Gate!Escape, Gate!CancelReply, Gate!Chosen, Gate!Nothing

LEMMA EscapeStep == ASSUME DrawnFor, NEW p \in Players, NEW admin, Gate!Escape(p, admin) PROVE DrawnFor'
<1>1. EntryFits(Gate!Nothing)
  BY DEF EntryFits, Gate!Nothing
<1>2. Gate!Chosen(p, Gate!Nothing, admin) /\ gateMenu' = [gateMenu EXCEPT ![p] = << >>]
  BY EscapeIsNothing
<1>3. UNCHANGED <<options, nextOption, subs, nextSub>>
  BY DEF Gate!Escape, Gate!ringVars
<1> QED BY <1>1, <1>2, <1>3, ChosenStep, MenuCloses

\* nothing but a place and a level select changes
LEMMA MenusLeft ==
    ASSUME DrawnFor, UNCHANGED <<options, nextOption, subs, nextSub, gateMenu, wanted>>,
           place' = [q \in Players |-> place'[q]], hard' = [q \in Players |-> hard'[q]], \A q \in Players : SelectFits(hard'[q])
    PROVE  DrawnFor'
<1>1. \A e : EntryFits(e) => EntryFits(e)'
  BY DEF EntryFits, OptionFits, SubFits
<1>2. \A s : MenuFits(s) => MenuFits(s)'
  BY <1>1 DEF MenuFits
<1> QED BY <1>2 DEF DrawnFor

\* the row a level select was let through for
LEMMA RowFound == \A g, slot, mode : Gate!Find(g, slot, mode) # {} => \E k : \A r \in Gate!Find(g, slot, mode) : r = <<g, k, mode>>
BY DEF Gate!Find, Gate!StockFind

LEMMA SelectedStep == ASSUME DrawnFor, NEW p \in Players, Gate!Selected(p) PROVE DrawnFor'
<1>1. PICK h : h = hard[p] /\ SelectFits(h) /\ h # Gate!Nothing
  BY DEF DrawnFor, Gate!Selected
<1>2. PICK v : v = IF h.kind = "asked" /\ Sites >= 2 /\ Gate!Find(h.gate, 0, h.mode) # {}
                   THEN [h EXCEPT !.kind = "checked"] ELSE Gate!Nothing
  OBVIOUS
<1>3. hard' = [hard EXCEPT ![p] = v] /\ \E w : place' = [place EXCEPT ![p] = w]
  BY <1>1, <1>2 DEF Gate!Selected
<1>4. SelectFits(v)
  <2>1. CASE v = Gate!Nothing
    BY <2>1 DEF SelectFits
  <2>2. CASE v # Gate!Nothing
    <3>1. Gate!Find(h.gate, 0, h.mode) # {} /\ v = [h EXCEPT !.kind = "checked"]
      BY <1>2, <2>2
    <3>2. PICK g, mode, kind : g = h.gate /\ mode = h.mode /\ kind = h.kind
      OBVIOUS
    <3>3. h = [kind |-> kind, gate |-> g, mode |-> mode]
      BY <1>1, <3>2 DEF SelectFits
    <3>4. v = [kind |-> "checked", gate |-> g, mode |-> mode]
      BY <3>1, <3>3
    <3> QED BY <3>1, <3>2, <3>4 DEF SelectFits
  <2> QED BY <2>1, <2>2
<1>5. /\ place' = [q \in Players |-> place'[q]] /\ hard' = [q \in Players |-> hard'[q]]
      /\ \A q \in Players : SelectFits(hard'[q])
  BY <1>3, <1>4 DEF DrawnFor
<1>6. UNCHANGED <<options, nextOption, subs, nextSub, gateMenu, wanted>>
  BY DEF Gate!Selected, Gate!ringVars
<1> QED BY <1>5, <1>6, MenusLeft

LEMMA GatesNext == DrawnFor /\ [Gate!Next]_gateVars => DrawnFor'
<1> SUFFICES ASSUME DrawnFor, [Gate!Next]_gateVars PROVE DrawnFor'
  OBVIOUS
<1>1. CASE UNCHANGED gateVars
  BY <1>1, MenusLeft DEF gateVars, DrawnFor
<1>2. ASSUME NEW p \in Players, NEW admin, NEW map, Gate!GmLink(p, map, admin) PROVE DrawnFor'
  <2>1. /\ UNCHANGED <<options, nextOption, subs, nextSub, gateMenu, hard, wanted>> /\ \E v : place' = [place EXCEPT ![p] = v]
    BY <1>2 DEF Gate!GmLink, Gate!LinkTo, Gate!ringVars
  <2> QED BY <2>1, MenusLeft DEF DrawnFor
<1>3. ASSUME NEW p \in Players, Gate!FinishQuest(p) \/ Gate!Back(p) PROVE DrawnFor'
  <2>1. /\ UNCHANGED <<options, nextOption, subs, nextSub, gateMenu, hard, wanted>>
        /\ \E v : place' = [place EXCEPT ![p] = v] \/ place' = place
    BY <1>3 DEF Gate!FinishQuest, Gate!Back, Gate!ringVars
  <2> QED BY <2>1, MenusLeft DEF DrawnFor
<1>4. CASE Gate!Next
  BY <1>2, <1>3, <1>4, GateClick, AnswerStep, EscapeStep, SelectedStep DEF Gate!Next
<1> QED BY <1>1, <1>4

LEMMA GatesAreFollowed == DungeonsSpec => [][Gate!Next]_gateVars
<1>1. [DungeonsNext]_<<part, vars, gateVars>> => [Gate!Next]_gateVars
  BY DEF DungeonsNext
<1> QED BY <1>1, PTL DEF DungeonsSpec

\* Every button on an open menu carries a record that says what the button was drawn for, until the ring has gone round, and
\* a level select that was let through has its row (the rings of rid_gate).
THEOREM RecordsAreDrawn == DungeonsSpec => []DrawnFor
<1>1. DungeonsSpec => DungeonsInit
  BY DEF DungeonsSpec
<1> QED BY <1>1, GatesStart, GatesNext, GatesAreFollowed, PTL

LEMMA EveryWayShown ==
    ASSUME NEW g \in Gates, nextOption \in Nat, nextSub \in Nat,
           NEW e \in Gate!EntriesOf(Gate!LinkEntries(g)) \cup Gate!EntriesOf(Gate!InstanceEntries(g))
    PROVE  \E d \in Gate!EntriesOf(Gate!Menu(Gate!Top(g))) : e \in Gate!Reached(d, g)
<1>1. PICK l, i, L, W : /\ l = Gate!LinkEntries(g) /\ L = Gate!EntriesOf(l)
                        /\ i = Gate!InstanceEntries(g) /\ W = Gate!EntriesOf(i)
  OBVIOUS
<1>2. PICK top, E : top = Gate!Top(g) /\ E = Gate!EntriesOf(top)
  OBVIOUS
<1>3. PICK sub \in SUBSET {"link", "instance"}, at \in [{"link", "instance"} -> Nat] :
        /\ Len(top) \in 0 .. 2 /\ \E S : top \in Seq(S)
        /\ E = (IF "link" \in sub THEN {ButtonOf("link", g, at["link"])} ELSE L) \cup
               (IF "instance" \in sub THEN {ButtonOf("instance", g, at["instance"])} ELSE W)
  BY <1>1, <1>2, TopEntries
<1>4. /\ l \in Seq(L) /\ Len(l) < 3 /\ \A d \in L : d.kind = "link"
      /\ i \in Seq(W) /\ Len(i) < 3 /\ \A d \in W : d.kind = "instance"
  <2>1. l \in Seq(L) /\ Len(l) \in 0 .. 2 /\ \A d \in L : d.kind = "link"
    BY <1>1, GateLinks
  <2>2. i \in Seq(W) /\ Len(i) \in 0 .. 2 /\ \A d \in W : d.kind = "instance"
    BY <1>1, GateEntries
  <2>3. \A n \in 0 .. 2 : n < 3
    OBVIOUS
  <2> QED BY <2>1, <2>2, <2>3, Zenon
<1>5. L \subseteq Gate!EntriesOf(Gate!Menu(l)) /\ W \subseteq Gate!EntriesOf(Gate!Menu(i))
  BY <1>1, <1>4, MenuEntries DEF Gate!kShown
<1>6. E \subseteq Gate!EntriesOf(Gate!Menu(top))
  <2>1. Len(top) < 3
    <3>1. Len(top) \in 0 .. 2
      BY <1>3
    <3>2. \A n \in 0 .. 2 : n < 3
      OBVIOUS
    <3> QED BY <3>1, <3>2, Zenon
  <2> QED BY <1>2, <1>3, <2>1, MenuEntries DEF Gate!kShown
<1>7. ASSUME NEW d \in E, d.kind # "sub" PROVE Gate!Reached(d, g) = {d}
  BY <1>7 DEF Gate!Reached
<1>8. \A n : LET b == ButtonOf("link", g, n) IN b.kind = "sub" /\ Gate!Reached(b, g) = Gate!EntriesOf(Gate!Menu(l))
  BY <1>1 DEF ButtonOf, Gate!Reached
<1>9. \A n : LET b == ButtonOf("instance", g, n) IN b.kind = "sub" /\ Gate!Reached(b, g) = Gate!EntriesOf(Gate!Menu(i))
  BY <1>1 DEF ButtonOf, Gate!Reached
<1>10. \E d \in E : e \in Gate!Reached(d, g)
  <2>1. CASE e \in L
    <3>1. CASE "link" \in sub
      <4>1. PICK b : b = ButtonOf("link", g, at["link"])
        OBVIOUS
      <4>2. b \in E /\ e \in Gate!Reached(b, g)
        BY <1>3, <1>5, <1>8, <2>1, <3>1, <4>1
      <4> QED BY <4>2
    <3>2. CASE "link" \notin sub
      BY <1>3, <1>4, <1>7, <2>1, <3>2
    <3> QED BY <3>1, <3>2
  <2>2. CASE e \in W
    <3>1. CASE "instance" \in sub
      <4>1. PICK b : b = ButtonOf("instance", g, at["instance"])
        OBVIOUS
      <4>2. b \in E /\ e \in Gate!Reached(b, g)
        BY <1>3, <1>5, <1>9, <2>2, <3>1, <4>1
      <4> QED BY <4>2
    <3>2. CASE "instance" \notin sub
      BY <1>3, <1>4, <1>7, <2>2, <3>2
    <3> QED BY <3>1, <3>2
  <2> QED BY <1>1, <2>1, <2>2
<1> QED BY <1>2, <1>6, <1>10

\* A button leads to what it was drawn for as long as the ring has not gone round, and every way of a gate can be reached
\* from its menu of three buttons, for any ring, gates and rows, with at most two links a gate (collect, role and sub_functer
\* of rid_gate).
THEOREM ButtonsMeanWhatTheySay == DungeonsSpec => []ButtonMeansWhatItSays
<1>1. DrawnFor => ButtonMeansWhatItSays
  <2> SUFFICES ASSUME DrawnFor PROVE Gate!ButtonMeansWhatItSays /\ Gate!EveryWayIsOnTheMenu
    BY DEF ButtonMeansWhatItSays
  <2>1. Gate!ButtonMeansWhatItSays
    BY DEF DrawnFor, ChoiceFits, Gate!ButtonMeansWhatItSays
  <2>2. ASSUME NEW p \in Players, gateMenu[p] # << >>
        PROVE  Len(gateMenu[p]) =< Gate!kShown /\ gateMenu[p][Len(gateMenu[p])] = Gate!Cancel
    <3>1. PICK s : s = gateMenu[p] /\ MenuFits(s)
      BY DEF DrawnFor
    <3> QED BY <2>2, <3>1 DEF MenuFits
  <2>3. ASSUME NEW g \in Gates,
               NEW e \in Gate!EntriesOf(Gate!LinkEntries(g)) \cup Gate!EntriesOf(Gate!InstanceEntries(g))
        PROVE  e \in UNION {Gate!Reached(d, g) : d \in Gate!EntriesOf(Gate!Menu(Gate!Top(g)))}
    BY EveryWayShown DEF DrawnFor
  <2> QED BY <2>1, <2>2, <2>3 DEF Gate!EveryWayIsOnTheMenu
<1> QED BY <1>1, RecordsAreDrawn, PTL

LEMMA TuplesApart == \A a, b, c, m : <<a, b, c>> # <<m>> /\ << >> # <<m>>
<1>1. \A a, b, c, m : Len(<<a, b, c>>) = 3 /\ Len(<<m>>) = 1 /\ Len(<< >>) = 0
  OBVIOUS
<1>2. 3 # 1 /\ 0 # 1
  OBVIOUS
<1> QED BY <1>1, <1>2

\* onto a map by a link alone
LEMMA OnlyLinksLead ==
    ASSUME DrawnFor, Gate!Next, NEW p \in Players, NEW map, place'[p] = <<map>>, place[p] # <<map>>
    PROVE  /\ map \in GatedMaps /\ gateMenu[p] # << >> => p \in done
           /\ map \in Blocked => gateMenu[p] # << >>
<1>0. place = [q \in Players |-> place[q]] /\ \A q \in Players : SelectFits(hard[q])
  BY DEF DrawnFor
<1>1. ASSUME NEW q \in Players, NEW m, NEW gm, NEW admin, Gate!LinkTo(q, m, gm, admin)
      PROVE  q = p /\ m = map /\ Gate!LinkAllowed(p, map, gm, admin)
  <2>1. place' = [place EXCEPT ![q] = IF Gate!LinkAllowed(q, m, gm, admin) THEN <<m>> ELSE @]
    BY <1>1 DEF Gate!LinkTo
  <2>2. q = p
    BY <1>0, <2>1
  <2>3. Gate!LinkAllowed(p, m, gm, admin) /\ <<m>> = <<map>>
    BY <1>0, <2>1, <2>2
  <2>4. m = map
    BY <2>3
  <2> QED BY <2>2, <2>3, <2>4
<1>2. ASSUME NEW q \in Players, NEW o, Gate!Enter(q, o) PROVE FALSE
  <2>1. place' = [place EXCEPT ![q] = <<o.gate, o.slot, o.mode>>] \/ place' = place
    BY <1>2 DEF Gate!Enter
  <2> QED BY <1>0, <2>1, TuplesApart
<1>3. ASSUME NEW q \in Players, NEW e, NEW admin, Gate!Chosen(q, e, admin) PROVE q = p /\ (map \in GatedMaps => p \in done)
  <2>1. e.kind = "link" /\ Gate!LinkTo(q, e.map, FALSE, admin)
    BY <1>2, <1>3 DEF Gate!Chosen
  <2> QED BY <1>1, <2>1 DEF Gate!LinkAllowed
<1>4. ASSUME NEW q \in Players, NEW admin, NEW m, Gate!GmLink(q, m, admin)
      PROVE  gateMenu[p] = << >> /\ map \notin Blocked
  <2>1. q = p /\ map \notin Blocked
    BY <1>1, <1>4 DEF Gate!GmLink, Gate!LinkAllowed
  <2> QED BY <1>4, <2>1 DEF Gate!GmLink
<1>5. ASSUME NEW q \in Players, NEW admin, NEW k \in DOMAIN gateMenu[q], Gate!Answer(q, k, admin)
      PROVE  gateMenu[p] # << >> /\ (map \in GatedMaps => p \in done)
  <2>1. PICK e : e = gateMenu[q][k]
    OBVIOUS
  <2>2. ~Gate!OpenSub(q, e)
    BY <1>0 DEF Gate!OpenSub
  <2>3. Gate!Chosen(q, e, admin)
    BY <1>5, <2>1, <2>2 DEF Gate!Answer
  <2>4. q = p /\ (map \in GatedMaps => p \in done)
    BY <1>3, <2>3
  <2>5. gateMenu[q] # << >>
    OBVIOUS
  <2> QED BY <2>4, <2>5
<1>6. ASSUME NEW q \in Players, NEW admin, Gate!Escape(q, admin) PROVE FALSE
  BY <1>6, EscapeIsNothing
<1>7. ASSUME NEW q \in Players, Gate!Selected(q) PROVE FALSE
  <2>1. /\ hard[q] # Gate!Nothing
        /\ place' = [place EXCEPT ![q] = IF hard[q].kind = "checked" /\ Sites >= 3 /\ place[q] = Gate!Town
                                         THEN CHOOSE r \in Gate!Find(hard[q].gate, 0, hard[q].mode) : TRUE ELSE @]
    BY <1>7 DEF Gate!Selected
  <2>2. PICK v : v = CHOOSE r \in Gate!Find(hard[q].gate, 0, hard[q].mode) : TRUE
    OBVIOUS
  <2>3. q = p /\ hard[q].kind = "checked" /\ v = <<map>>
    BY <1>0, <2>1, <2>2
  <2>4. v \in Gate!Find(hard[q].gate, 0, hard[q].mode)
    BY <1>0, <2>1, <2>2, <2>3 DEF SelectFits
  <2>5. \E k : v = <<hard[q].gate, k, hard[q].mode>>
    BY <2>4, RowFound
  <2> QED BY <2>3, <2>5, TuplesApart
<1>8. ASSUME NEW q \in Players, NEW g \in Gates, Gate!Click(q, g) PROVE FALSE
  BY <1>8 DEF Gate!Click
<1>9. ASSUME NEW q \in Players, Gate!FinishQuest(q) \/ Gate!Back(q) PROVE FALSE
  <2>1. place' = place \/ place' = [place EXCEPT ![q] = << >>]
    BY <1>9 DEF Gate!FinishQuest, Gate!Back, Gate!Town
  <2> QED BY <1>0, <2>1, TuplesApart
<1> QED BY <1>4, <1>5, <1>6, <1>7, <1>8, <1>9 DEF Gate!Next

\* A gate leads into a gated map only with the quest done, whatever the player's rank, a GM's own link leads to no spot nobody
\* can stand on, and Escape enters nothing (quest_gate, rid_gate and menu_escape).
THEOREM GatesAreHeld == DungeonsSpec => GatesHold
<1>1. DrawnFor /\ [Gate!Next]_gateVars =>
        [\A p \in Players, map \in Gate!Maps : place'[p] = <<map>> /\ place[p] # <<map>> =>
          /\ map \in GatedMaps /\ gateMenu[p] # <<>> => p \in done
          /\ map \in Blocked => gateMenu[p] # <<>>]_gateVars
  BY OnlyLinksLead
<1>2. [Gate!Next]_gateVars => [\A p \in Players, admin \in BOOLEAN : Gate!Escape(p, admin) => UNCHANGED <<place, hard>>]_gateVars
  BY EscapeIsNothing
<1>3. Gate!vars = gateVars
  BY DEF Gate!vars, gateVars
<1>4. DungeonsSpec => Gate!GatesHold
  BY <1>1, RecordsAreDrawn, GatesAreFollowed, PTL DEF Gate!GatesHold, Gate!vars, gateVars
<1>5. DungeonsSpec => Gate!EscapeEntersNothing
  BY <1>2, GatesAreFollowed, PTL DEF Gate!EscapeEntersNothing, Gate!vars, gateVars
<1> QED BY <1>4, <1>5 DEF GatesHold
=============================================================================
