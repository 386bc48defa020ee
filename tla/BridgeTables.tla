---------------------------- MODULE BridgeTables ----------------------------
(***************************************************************************)
(* The table half of the zone's bridge (bridge26_tables.h): the zone reads *)
(* the 2026 client's own table files; those the layout file lists are      *)
(* converted in memory while they are read, and the checksum of the        *)
(* client's file goes into the slot that map logins are compared with.     *)
(* The values of UpgradeInfo stay 32 bits wide if sixteen instructions of  *)
(* the zone can be patched.                                                *)
(***************************************************************************)
EXTENDS Integers, FiniteSets, Sequences, SequencesExt

CONSTANTS
    Tables,      \* name -> [slot, kind, signed]: its slot of the zone's 49, counted from 0; "layout", "unchecked" or "plain";
                 \* whether the 2016 column of its values is a signed one
    Companion,   \* tables of the lockstep kind -> the keys of the server's own file, in order
    ClientRows,  \* what a client's file may hold: sequences of [key, value, equip]
    kMax,        \* the largest value the 2016 column has room for, if it is unsigned: 2^n - 1
    Folds,       \* g_fold: 2026 equip slot -> 2016 slot
    Sites        \* instructions to patch, 16 in the code

Names == DOMAIN Tables
Slots == 0 .. 48
BridgeTablesOK ==
    /\ kMax \in Nat /\ Sites \in Nat \ {0}
    /\ \A t \in Names : /\ Tables[t].slot \in Slots /\ Tables[t].kind \in {"layout", "unchecked", "plain"}
                        /\ Tables[t].signed \in BOOLEAN
                        /\ Tables[t].kind = "unchecked" <=> Tables[t].slot \in {24, 25}
    /\ \A t, u \in Names : Tables[t].slot = Tables[u].slot => t = u
    /\ \A t \in DOMAIN Companion : /\ t \in Names /\ Tables[t].kind = "layout" /\ Companion[t] \in Seq(Nat)
                                   /\ \A m, n \in DOMAIN Companion[t] : Companion[t][m] = Companion[t][n] => m = n
    /\ ClientRows # {}
    /\ \A r \in ClientRows : /\ r \in Seq([key : Nat, value : Int, equip : Nat]) /\ r # <<>>
                             /\ \A i, j \in DOMAIN r : r[i].key = r[j].key => i = j

VARIABLES
    file,     \* table -> the client's rows: sequences of [key, value, equip]; <<>> cannot be parsed
    found,    \* the layout file has usable layouts
    point,    \* the zone's reader has the injection point
    sites,    \* site -> "stock", "other" (unexpected bytes) or "wide"
    wide,     \* g_wide_upgrade
    hooked,   \* the detour of Read is in
    rows,     \* table -> the rows as the zone has them
    slot,     \* CheckSumData: zone slot -> checksum
    pc        \* start, reads, up
vars == <<file, found, point, sites, wide, hooked, rows, slot, pc>>

Zeros == <<"zeros">>
Sum(t, r) == <<t, r>>    \* the MD5 of a table of these rows
-----------------------------------------------------------------------------
(* init *)

\* mutated: a site is written as soon as it is checked
WidenInTurn ==
    LET n == CHOOSE m \in 0 .. Sites : (m = Sites \/ sites[m + 1] = "other") /\ \A i \in 1 .. m : sites[i] # "other"
    IN sites' = [i \in DOMAIN sites |-> IF i =< n THEN "wide" ELSE sites[i]] /\ wide' = (n = Sites)
\* widen_upgradeinfo: every site is checked before the first is written; a write may fail
Widen ==
    IF \E i \in DOMAIN sites : sites[i] = "other" THEN sites' = sites /\ wide' = FALSE
    ELSE \E n \in 0 .. Sites : /\ sites' = [i \in DOMAIN sites |-> IF i =< n THEN "wide" ELSE "stock"]
                               /\ wide' = (n = Sites)
Start ==
    /\ pc = "start" /\ pc' = "reads"
    /\ IF ~found THEN UNCHANGED <<sites, wide, hooked>> ELSE Widen /\ hooked' = point
    /\ UNCHANGED <<file, found, point, rows, slot>>
-----------------------------------------------------------------------------
(* convert *)

\* what a 2016 column has room for
Room(signed) == IF signed THEN -((kMax + 1) \div 2) .. kMax \div 2 ELSE 0 .. kMax
\* how the zone reads the bits of one
ReadAs(signed, bits) == IF signed /\ bits > kMax \div 2 THEN bits - (kMax + 1) ELSE bits

\* mutated: the value's low bits are kept
ClampWraps(v) == v % (kMax + 1)
\* build_shn: the bits written; what exceeds an unsigned field, signed or not, is its largest value, and of the rest the low bits
Clamp(v) == IF v > kMax THEN kMax ELSE IF v >= 0 THEN v ELSE v % (kMax + 1)

\* rules: equip slots from 30 on fold onto a 2016 slot, 0 when it is not known
Fold(e) == IF e < 30 THEN e ELSE IF e \in DOMAIN Folds THEN Folds[e] ELSE 0

\* the width of UpgradeInfo's column follows the patch
Row16(t, r) == [key |-> r.key, equip |-> Fold(r.equip),
                value |-> IF t = "upgradeinfo" /\ wide THEN r.value ELSE ReadAs(Tables[t].signed, Clamp(r.value))]

\* mutated: the rows stay in the file's order
InFileOrder(t, rs) == rs
Position(t, k) == IF \E n \in DOMAIN Companion[t] : Companion[t][n] = k THEN CHOOSE n \in DOMAIN Companion[t] : Companion[t][n] = k
                  ELSE Len(Companion[t]) + 1
Before(t, rs, i, j) == \/ Position(t, rs[i].key) < Position(t, rs[j].key)
                       \/ Position(t, rs[i].key) = Position(t, rs[j].key) /\ i < j
Rank(t, rs, j) == Cardinality({i \in DOMAIN rs : Before(t, rs, i, j)}) + 1
\* sorted by the companion's position, what it lacks last, both in the file's order
InOrder(t, rs) ==
    IF t \notin DOMAIN Companion THEN rs ELSE [n \in DOMAIN rs |-> rs[CHOOSE j \in DOMAIN rs : Rank(t, rs, j) = n]]

Converted(t) == InOrder(t, [j \in DOMAIN file[t] |-> Row16(t, file[t][j])])

\* mutated: the slot keeps the checksum of what the zone read
SlotAfterStock(t, image) == IF Tables[t].kind = "unchecked" THEN Zeros ELSE Sum(t, image)
\* read: the stock Read registers what it read; a converted table gets its original's sum, an unchecked one the zeros
SlotAfter(t, image) ==
    IF Tables[t].kind = "unchecked" THEN Zeros ELSE IF image # file[t] THEN Sum(t, file[t]) ELSE Sum(t, image)

Read(t) ==
    /\ pc = "reads" /\ rows[t] = <<"unread">>
    /\ LET image == IF hooked /\ Tables[t].kind = "layout" /\ file[t] # <<>> THEN Converted(t) ELSE file[t]
       IN /\ rows' = [rows EXCEPT ![t] = image]
          /\ slot' = [slot EXCEPT ![Tables[t].slot] = IF hooked THEN SlotAfter(t, image) ELSE Sum(t, image)]
    /\ UNCHANGED <<file, found, point, sites, wide, hooked, pc>>
Up == pc = "reads" /\ (\A t \in Names : rows[t] # <<"unread">>) /\ pc' = "up"
      /\ UNCHANGED <<file, found, point, sites, wide, hooked, rows, slot>>
-----------------------------------------------------------------------------
(* maplogin_2026_to_2016: the client's 53 sums become the zone's 49 *)

\* mutated: the tables the client lacks take two of its sums
MapLoginAsIs(sums) == [z \in Slots |-> sums[z]]
MapLogin(sums) == [z \in Slots |-> IF z < 24 THEN sums[z] ELSE IF z < 26 THEN Zeros ELSE sums[z - 2]]

\* a client with the zone's files: it numbers them without the two tables it does not have
ClientSums == [c \in 0 .. 52 |->
    LET at == IF c < 24 THEN c ELSE c + 2
        t == {x \in Names : Tables[x].slot = at /\ Tables[x].kind # "unchecked"}
    IN IF t = {} THEN <<"other">> ELSE LET x == CHOOSE x \in t : TRUE IN Sum(x, file[x])]

FileRows == {<<>>} \cup ClientRows
Init ==
    /\ file \in {f \in [Names -> FileRows] :
                   \A t \in Names : Tables[t].kind # "layout" => f[t] = CHOOSE r \in ClientRows : TRUE}
    /\ found \in BOOLEAN /\ point \in BOOLEAN
    /\ sites \in [1 .. Sites -> {"stock", "other"}]
    /\ wide = FALSE /\ hooked = FALSE
    /\ rows = [t \in Names |-> <<"unread">>] /\ slot = [z \in Slots |-> <<"other">>] /\ pc = "start"
Next == Start \/ (\E t \in Names : Read(t)) \/ Up
Spec == Init /\ [][Next]_vars
-----------------------------------------------------------------------------
\* A 2026 client with the zone's own files passes the zone's checksum comparison, converted tables, files that could not be
\* converted and tables it does not have included.
LoginPasses ==
    pc = "up" /\ hooked => \A t \in Names : MapLogin(ClientSums)[Tables[t].slot] = slot[Tables[t].slot]

\* A table that has to be in step with a file of the server's has that file's order, whatever the client's is: each row stands
\* where the server's file, without what the client lacks, has it, and none is lost.
InLockstep ==
    pc = "up" /\ hooked => \A t \in DOMAIN Companion : file[t] # <<>> =>
        LET keys == {file[t][i].key : i \in DOMAIN file[t]} IN
        /\ Len(rows[t]) = Len(file[t]) /\ {rows[t][i].key : i \in DOMAIN rows[t]} = keys
        /\ \A i \in DOMAIN rows[t], n \in DOMAIN Companion[t] :
               rows[t][i].key = Companion[t][n] => i = Cardinality({m \in 1 .. n : Companion[t][m] \in keys})

\* A value its 2016 column has room for is read as it was, signed or not; one too large for an unsigned column becomes the
\* largest, never a remainder.
NeverWraps ==
    pc = "up" /\ hooked => \A t \in Names : Tables[t].kind = "layout" => \A i \in DOMAIN file[t] : \A j \in DOMAIN rows[t] :
        file[t][i].key = rows[t][j].key =>
            /\ file[t][i].value \in Room(Tables[t].signed) => rows[t][j].value = file[t][i].value
            /\ ~Tables[t].signed /\ file[t][i].value > kMax => rows[t][j].value \in {kMax, file[t][i].value}

\* The table is as wide as the instructions that read it, unless a write to the code failed; unexpected bytes anywhere leave
\* every one of them as it was.
WidthAgrees ==
    /\ wide => \A i \in DOMAIN sites : sites[i] = "wide"
    /\ (\E i \in DOMAIN sites : sites[i] = "other") => ~wide /\ \A i \in DOMAIN sites : sites[i] # "wide"
=============================================================================
