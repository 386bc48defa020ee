----------------------------- MODULE TitleSet -----------------------------
(***************************************************************************)
(* What the zone's title code expects of CCharacterTitle                   *)
(* (zone/plugins/title_ext, header): every player object has a status of   *)
(* its own for each title type and element, and begins with none.          *)
(***************************************************************************)
CONSTANTS Objs, Types, Elems, Statuses, NoTitle

VARIABLES live, titles

Init == live = {} /\ titles \in [Objs -> [Types \X Elems -> Statuses]]

\* the object begins anew, for its first or its next player
Begin(o) ==
    /\ live' = live \cup {o}
    /\ titles' = [titles EXCEPT ![o] = [x \in Types \X Elems |-> NoTitle]]

Change(o, t, e, s) ==
    /\ o \in live /\ UNCHANGED live
    /\ titles' = [titles EXCEPT ![o] = [@ EXCEPT ![<<t, e>>] = s]]

Release(o) == live' = live \ {o} /\ UNCHANGED titles

Next == \E o \in Objs : Begin(o) \/ Release(o) \/ \E t \in Types, e \in Elems, s \in Statuses : Change(o, t, e, s)
Spec == Init /\ [][Next]_<<live, titles>>
=============================================================================
