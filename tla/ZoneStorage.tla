---------------------------- MODULE ZoneStorage ----------------------------
(***************************************************************************)
(* What the zone's plugins store for a player past the stock sizes: the    *)
(* void bag (VoidBag), the titles of the types past 127 (TitleExt), and    *)
(* what a mystery vault puts into his inventory (VaultJobs).               *)
(*                                                                         *)
(* The plugins keep tables of their own for the same pooled objects and    *)
(* share none of them, so each is followed by itself.                      *)
(***************************************************************************)
EXTENDS VoidBag

CONSTANTS
    kStockTypes, kTypes, Elems, Values,     \* TitleExt
    LineOf, Jobs, MaxRows, MaxFree          \* VaultJobs

VARIABLES
    part,    \* "bag", "titles" or "vault"
    live, inline, rows, side,
    high, vault, rolled, checked, open, free, given, err
titleVars == <<live, inline, rows, side>>
vaultVars == <<high, vault, rolled, checked, open, free, given, err>>

Title == INSTANCE TitleExt
Vault == INSTANCE VaultJobs WITH asked <- checked, made <- given

ASSUME ZoneStorageOK == Title!TitleExtOK /\ Vault!VaultJobsOK

\* a part that is not followed rests in one state
StorageInit ==
    /\ part \in {"bag", "titles", "vault"}
    /\ part = "vault" \/ (vault = << >> /\ high = Jobs /\ free = 0)
    /\ part = "bag" \/ pages = [c \in Chars |-> 0]
    /\ Vault!Init /\ Title!Init /\ Init
StorageNext ==
    \/ part = "bag" /\ Next /\ UNCHANGED <<part, titleVars, vaultVars>>
    \/ part = "titles" /\ Title!Next /\ UNCHANGED <<part, vars, vaultVars>>
    \/ part = "vault" /\ Vault!Next /\ UNCHANGED <<part, vars, titleVars>>
StorageSpec == StorageInit /\ [][StorageNext]_<<part, vars, titleVars, vaultVars>>

\* the bag followed, with the fairness VoidBag has for its requests and answers
BagInit == StorageInit /\ part = "bag"
BagNext == part = "bag" /\ Next /\ UNCHANGED <<part, titleVars, vaultVars>>
FairBagSpec == BagInit /\ [][BagNext]_<<part, vars, titleVars, vaultVars>> /\ Fairness
-----------------------------------------------------------------------------
\* The stock array and the side table together are one title set for each player object, as TitleSet describes it: no title
\* touches another's bits, a player never has the titles of whoever had the object before, and a title's status is the two
\* low bits of what was set (TitleExt).
OneTitleSet == Title!OneTitleSet /\ Title!KeptAsSet

\* A vault with rows of jobs gives nothing to a character without a high job, and everybody else is refused for want of room
\* only and gets the rows of his own, wherever the roll shows the rows that decide (VaultJobs).
VaultsByJob == Vault!VaultsByJob
=============================================================================
