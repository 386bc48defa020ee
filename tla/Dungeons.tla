------------------------------ MODULE Dungeons ------------------------------
(***************************************************************************)
(* Instance dungeons: the gates with their server menus (GateMenu), and    *)
(* who may stand in which instance, with which buff, and who is asked to   *)
(* close it (Instances).                                                   *)
(*                                                                         *)
(* A gate's button ends in the entry Instances begins with; the plugins of *)
(* the two share no variable, so each is followed by itself.               *)
(***************************************************************************)
EXTENDS Instances

CONSTANTS Players, Gates, Links, Rows, GatedMaps, Blocked, Ring, Sites, MaxRecords     \* GateMenu

VARIABLES
    part,    \* "gates" or "instances"
    options, nextOption, subs, nextSub, gateMenu, reply, hard, done, place, wanted
gateVars == <<options, nextOption, subs, nextSub, gateMenu, reply, hard, done, place, wanted>>

Gate == INSTANCE GateMenu WITH menu <- gateMenu, where <- place

ASSUME DungeonsOK == Gate!GateOK

\* the gates rest in one state while the instances are followed
DungeonsInit ==
    /\ Init /\ Gate!Init /\ part \in {"gates", "instances"}
    /\ part = "gates" \/ reply = [p \in Players |-> Gate!Nothing]
DungeonsNext ==
    \/ part = "gates" /\ Gate!Next /\ UNCHANGED <<part, vars>>
    \/ part = "instances" /\ Next /\ UNCHANGED <<part, gateVars>>
DungeonsSpec == DungeonsInit /\ [][DungeonsNext]_<<part, vars, gateVars>>
-----------------------------------------------------------------------------
\* A button leads to what it was drawn for as long as the ring has not gone round, and every way of a gate can be reached
\* from its menu (GateMenu; the gates do not move while the instances are followed).
ButtonMeansWhatItSays == part = "gates" => Gate!ButtonMeansWhatItSays /\ Gate!EveryWayIsOnTheMenu

\* A button leads into a gated map only with the quest done, and Escape enters nothing (GateMenu).
GatesHold == Gate!GatesHold /\ Gate!EscapeEntersNothing

\* A join that splits a party over two instances is told to whoever stands in the other, and a countdown's question goes to
\* those the instance belongs to (Instances).
OwnersAreTold == SplitIsTold /\ AsksTheOwner
=============================================================================
