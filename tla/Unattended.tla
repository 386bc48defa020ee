----------------------------- MODULE Unattended -----------------------------
(***************************************************************************)
(* The client from its start into the game without a hand on it            *)
(* (client/plugins/remote_control/remote_control.cpp): -stdinlogin fills   *)
(* the login form, then -world, -char and the "char" command choose.       *)
(*                                                                         *)
(* The login's thread has returned before there is a world to choose, and  *)
(* the two parts share no variable of the plugin.  So each is followed by  *)
(* itself: with -stdinlogin up to the end of the thread, without it from   *)
(* the world list on.                                                      *)
(***************************************************************************)
EXTENDS LoginForm

CONSTANTS Slots, ShownPage, WantWorld, MaxWorlds, FirstSlot, ByName, Commands, MaxEntries, Midway

VARIABLES
    stdinlogin,     \* g_stdin_login: whether -stdinlogin was given
    stage, worlds, joined, worldDone, selected, entered, entries, want, step, rested, tick, serve, asked, owing

Select == INSTANCE CharSelect
selectVars == <<stage, worlds, joined, worldDone, selected, entered, entries, want, step, rested, tick, serve, asked, owing>>

ASSUME UnattendedConstantsOK ==
    /\ Slots \subseteq Nat /\ WantWorld \in Int /\ MaxWorlds \in Nat
    /\ FirstSlot \in Slots \cup {-1} /\ ByName \in Slots \cup {-1}
    /\ Commands \in Nat /\ MaxEntries \in Nat /\ Midway \in BOOLEAN

StartInit == Init /\ Select!Init /\ stdinlogin \in BOOLEAN

LoginStep == stdinlogin /\ Next /\ UNCHANGED <<stdinlogin, selectVars>>
SelectStep == ~stdinlogin /\ Select!Next /\ UNCHANGED <<stdinlogin, vars>>

StartNext == LoginStep \/ SelectStep
StartSpec ==
    /\ StartInit /\ [][StartNext]_<<stdinlogin, vars, selectVars>>
    /\ stdinlogin => Fairness
    /\ ~stdinlogin => Select!Fairness
-----------------------------------------------------------------------------

StartTypeOK == stdinlogin \in BOOLEAN /\ TypeOK /\ Select!TypeOK

\* With -stdinlogin the thread comes to an end, submitted or not, and g_login is wiped.
LoginEnds == stdinlogin => FormEnds

\* The character the game is entered with is the one of the last command (CharSelect).
EntersAsked == Select!EntersAsked

\* The character of -char or of a command is entered with at the next character select that shows its page (CharSelect).
OwedIsEntered == ~stdinlogin => Select!OwedIsEntered
=============================================================================
