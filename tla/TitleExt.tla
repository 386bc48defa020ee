----------------------------- MODULE TitleExt -----------------------------
(***************************************************************************)
(* zone/plugins/title_ext: titles of the types past 127.  The stock object *)
(* has one byte for each of 128 types, four fields of two bits; the bytes  *)
(* of the types above lie in a side table, kept by the object's address.   *)
(* The zone reuses player objects.                                         *)
(***************************************************************************)
EXTENDS Integers

CONSTANTS
    Objs,                 \* addresses of CCharacterTitle objects
    kStockTypes, kTypes,  \* 128 and 256
    Elems,                \* elements in use, of 0 .. 3
    Values                \* what the zone's callers set

TitleExtOK ==
    kStockTypes \in Nat /\ kTypes \in Nat /\ kStockTypes =< kTypes /\ Elems \subseteq 0 .. 3 /\ Values \subseteq Nat

VARIABLES
    live,     \* objects of players in the zone
    inline,   \* the stock bytes
    rows,     \* objects g_side has a row for
    side      \* the bytes of g_side
vars == <<live, inline, rows, side>>

Types == 0 .. kTypes - 1
Inline == 0 .. kStockTypes - 1
Beyond == kStockTypes .. kTypes - 1
Byte == 0 .. 255
-----------------------------------------------------------------------------
Place == [e \in 0 .. 3 |-> CASE e = 0 -> 1 [] e = 1 -> 4 [] e = 2 -> 16 [] e = 3 -> 64]
\* get_title_status
Field(b, e) == (b \div Place[e]) % 4

\* mutated: the new bits are put over the old ones
WrittenOver(b, e, value) == (b + (value % 4) * Place[e]) % 256
\* set_title_status
Written(b, e, value) == b - Field(b, e) * Place[e] + (value % 4) * Place[e]

\* status_byte: a row is zero on first use
StatusByte(o, t) == IF t \in Inline THEN inline[o][t] ELSE IF o \in rows THEN side[o][t] ELSE 0
Used(o) == IF o \in rows THEN side ELSE [side EXCEPT ![o] = [t \in Beyond |-> 0]]

\* mutated: the row of the object's last player stays
ZeroSideNever(o) == side
\* zero_side
ZeroSide(o) == IF o \in rows THEN [side EXCEPT ![o] = [t \in Beyond |-> 0]] ELSE side
-----------------------------------------------------------------------------
\* the constructor, and Clear of an object that is used again: the stock code, then zero_side
Begin(o) ==
    /\ live' = live \cup {o}
    /\ inline' = [inline EXCEPT ![o] = [t \in Inline |-> 0]]
    /\ side' = ZeroSide(o) /\ UNCHANGED rows

SetTitleStatus(o, t, e, value) ==
    /\ o \in live
    /\ IF t \in Inline
       THEN /\ inline' = [inline EXCEPT ![o] = [@ EXCEPT ![t] = Written(StatusByte(o, t), e, value)]]
            /\ UNCHANGED <<rows, side>>
       ELSE /\ rows' = rows \cup {o}
            /\ side' = [Used(o) EXCEPT ![o] = [@ EXCEPT ![t] = Written(StatusByte(o, t), e, value)]]
            /\ UNCHANGED inline
    /\ UNCHANGED live

\* get_group_title, get_title_status, get_my_title_count: a look at a type past the stock ones makes the row
Look(o) == o \in live /\ rows' = rows \cup {o} /\ side' = Used(o) /\ UNCHANGED <<live, inline>>

\* the player leaves; the object's bytes stay as they are
Release(o) == o \in live /\ live' = live \ {o} /\ UNCHANGED <<inline, rows, side>>

\* before its first constructor an object's memory is not zero: here all ones
Init ==
    /\ live = {} /\ rows = {}
    /\ inline = [o \in Objs |-> [t \in Inline |-> 255]] /\ side = [o \in Objs |-> [t \in Beyond |-> 255]]

Next ==
    \E o \in Objs : \/ Begin(o) \/ Look(o) \/ Release(o)
                    \/ \E t \in Types, e \in Elems, value \in Values : SetTitleStatus(o, t, e, value)
Spec == Init /\ [][Next]_vars
-----------------------------------------------------------------------------
TypeOK ==
    /\ live \subseteq Objs /\ rows \subseteq Objs
    /\ inline \in [Objs -> [Inline -> Byte]] /\ side \in [Objs -> [Beyond -> Byte]]

Status(o, t, e) == Field(StatusByte(o, t), e)
Titles == INSTANCE TitleSet WITH
    Statuses <- 0 .. 3, NoTitle <- 0,
    titles <- [o \in Objs |-> [x \in Types \X Elems |-> Status(o, x[1], x[2])]]

\* The stock array and the side table together are one title set for each player object: no title touches another's bits,
\* and a player never has the titles of whoever had the object before.
OneTitleSet == Titles!Spec

\* A title's status is the two low bits of what was set, whichever of the two its byte is in.
KeptAsSet ==
    [][\A o \in live, t \in Types, e \in Elems, value \in Values :
         SetTitleStatus(o, t, e, value) => Status(o, t, e)' = value % 4]_vars
=============================================================================
