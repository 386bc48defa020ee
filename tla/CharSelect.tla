----------------------------- MODULE CharSelect -----------------------------
(***************************************************************************)
(* -world, -char, -charname and the "char" command: joining a world and    *)
(* entering the game with a character without a click                      *)
(* (client/plugins/remote_control/remote_control.cpp).                     *)
(*                                                                         *)
(* Both act on the game's thread, once a frame, until they have done their *)
(* part: g_world_done, and g_char_step, which counts the two clicks on a   *)
(* character.  The "char" command sets the slot and the step back from the *)
(* serve thread, without a lock.                                           *)
(***************************************************************************)
EXTENDS Integers

CONSTANTS
    Slots,              \* the account's character slots
    ShownPage,          \* the page the client shows
    WantWorld,          \* -world, or -1
    MaxWorlds,          \* bound: worlds in the list
    FirstSlot,          \* -char, or -1
    ByName,             \* -charname: the slot the avatar list gives for it, or -1
    Commands,           \* bound: "char" commands
    MaxEntries,         \* bound: times the player is at the character select
    Midway              \* whether a "char" command may come while the game's thread clicks

NoSlot == -1
PageOf(s) == s \div 6

VARIABLES
    stage,      \* the client: "worlds", "chars" or "game"
    worlds,     \* entries in its world list
    joined,     \* history: the index of the world it joined
    worldDone,  \* g_world_done
    selected,   \* the client's selected character
    entered,    \* history: the character it last entered with
    entries,    \* history: times at the character select
    want,       \* g_want_char
    step,       \* g_char_step
    rested,     \* a second has gone by since g_char_at
    tick,       \* the game thread in auto_char_tick
    serve,      \* the serve thread in a "char" command
    asked,      \* history: commands given
    owing       \* history: the slot of -char or of a command, until it has been entered with

client == <<stage, worlds, joined, selected, entered, entries>>
vars == <<client, worldDone, want, step, rested, tick, serve, asked, owing>>

Out == "out"

Init ==
    /\ stage = "worlds" /\ worlds = 0 /\ joined = NoSlot /\ worldDone = FALSE
    /\ selected = NoSlot /\ entered = NoSlot /\ entries = 0
    /\ want = FirstSlot /\ step = 0 /\ rested = TRUE
    /\ tick = Out /\ serve = "ready" /\ asked = 0 /\ owing = FirstSlot

-----------------------------------------------------------------------------
(* The world list. *)

\* the list arrives; it stays at the number of worlds there are
ListWorlds ==
    /\ stage = "worlds" /\ worlds = 0
    /\ worlds' \in 1 .. MaxWorlds
    /\ UNCHANGED <<stage, joined, selected, entered, entries, worldDone, want, step, rested, tick, serve, asked, owing>>

\* without -world a list of exactly one world is joined
WorldIndex == IF WantWorld >= 0 THEN WantWorld ELSE IF worlds = 1 THEN 0 ELSE -1

EnterChars ==
    /\ stage' = "chars" /\ entries' = entries + 1
    /\ selected' = NoSlot
    /\ want' = IF ByName # NoSlot THEN ByName ELSE want

\* auto_world_tick
WorldTick ==
    /\ stage = "worlds" /\ ~worldDone
    /\ worlds > 0 /\ WorldIndex >= 0
    /\ worldDone' = TRUE
    /\ IF WorldIndex < worlds
         THEN joined' = WorldIndex /\ EnterChars
         ELSE UNCHANGED <<stage, joined, selected, entries, want>>
    /\ UNCHANGED <<worlds, entered, step, rested, tick, serve, asked, owing>>

\* the player joins a world himself
PlayerJoins ==
    /\ stage = "worlds" /\ worlds > 0
    /\ joined' \in 0 .. worlds - 1
    /\ EnterChars
    /\ UNCHANGED <<worlds, worldDone, entered, step, rested, tick, serve, asked, owing>>

-----------------------------------------------------------------------------
(* The character select. *)

\* a mistake: a tick too many
LookOn ==
    /\ stage = "chars" /\ tick = Out
    /\ step <= 2 /\ want # NoSlot
    /\ step = 1 => rested
    /\ tick' = "page"
    /\ UNCHANGED <<client, worldDone, want, step, rested, serve, asked, owing>>

\* a mistake: the second click never comes
LookOnce ==
    /\ stage = "chars" /\ tick = Out
    /\ step < 1 /\ want # NoSlot
    /\ tick' = "page"
    /\ UNCHANGED <<client, worldDone, want, step, rested, serve, asked, owing>>

\* auto_char_tick looks at the step and the time
Look ==
    /\ stage = "chars" /\ tick = Out
    /\ step < 2 /\ want # NoSlot
    /\ step = 1 => rested
    /\ tick' = "page"
    /\ UNCHANGED <<client, worldDone, want, step, rested, serve, asked, owing>>

OffPage ==
    /\ tick = "page" /\ PageOf(want) # ShownPage
    /\ step' = 2
    /\ tick' = Out
    /\ UNCHANGED <<client, worldDone, want, rested, serve, asked, owing>>

LogIn ==
    /\ stage' = "game" /\ entered' = want
    /\ owing' = IF owing = want THEN NoSlot ELSE owing

\* SelectAvatar; on the selected slot it is the second click, the login
Select ==
    /\ tick = "page" /\ PageOf(want) = ShownPage
    /\ IF selected = want
         THEN LogIn
         ELSE UNCHANGED <<stage, entered, owing>>
    /\ selected' = want
    /\ tick' = "count"
    /\ UNCHANGED <<worlds, joined, entries, worldDone, want, step, rested, serve, asked>>

\* g_char_step++ and the time
CountStep ==
    /\ tick = "count"
    /\ step' = step + 1
    /\ rested' = FALSE
    /\ tick' = Out
    /\ UNCHANGED <<client, worldDone, want, serve, asked, owing>>

ASecond ==
    /\ ~rested
    /\ rested' = TRUE
    /\ UNCHANGED <<client, worldDone, want, step, tick, serve, asked, owing>>

\* the player leaves the game for the character select
Leave ==
    /\ stage = "game" /\ entries < MaxEntries
    /\ tick = Out
    /\ EnterChars
    /\ UNCHANGED <<worlds, joined, entered, worldDone, step, rested, tick, serve, asked, owing>>

-----------------------------------------------------------------------------
(* "char <slot>". *)

\* bound: a command comes before a character select, not while one is shown
CommandTime == stage # "chars" /\ (Midway \/ tick = Out)

\* a mistake: the slot of the command line stays
CharIfNone ==
    /\ serve = "ready" /\ asked < Commands
    /\ CommandTime
    /\ asked' = asked + 1
    /\ \E s \in Slots : want' = (IF want = NoSlot THEN s ELSE want) /\ owing' = s
    /\ serve' = "step"
    /\ UNCHANGED <<client, worldDone, step, rested, tick>>

CharCommand ==
    /\ serve = "ready" /\ asked < Commands
    /\ CommandTime
    /\ asked' = asked + 1
    /\ \E s \in Slots : want' = s /\ owing' = s
    /\ serve' = "step"
    /\ UNCHANGED <<client, worldDone, step, rested, tick>>

\* a mistake: the step is left where it is
KeepStep ==
    /\ serve = "step"
    /\ serve' = "ready"
    /\ UNCHANGED <<client, worldDone, want, step, rested, tick, asked, owing>>

ResetStep ==
    /\ serve = "step"
    /\ step' = 0
    /\ serve' = "ready"
    /\ UNCHANGED <<client, worldDone, want, rested, tick, asked, owing>>

-----------------------------------------------------------------------------

World == ListWorlds \/ WorldTick \/ PlayerJoins
CharTick == Look \/ OffPage \/ Select \/ CountStep
Command == CharCommand \/ ResetStep

Next == World \/ CharTick \/ ASecond \/ Leave \/ Command
Spec == Init /\ [][Next]_vars

\* the game draws frames, time goes by and the serve thread runs; the player and the controller need do nothing
Fairness == WF_vars(CharTick) /\ WF_vars(ASecond) /\ WF_vars(ResetStep)

-----------------------------------------------------------------------------

TypeOK ==
    /\ stage \in {"worlds", "chars", "game"} /\ worlds \in 0 .. MaxWorlds
    /\ joined \in -1 .. worlds - 1 /\ worldDone \in BOOLEAN
    /\ selected \in Slots \cup {NoSlot} /\ entered \in Slots \cup {NoSlot} /\ entries \in 0 .. MaxEntries
    /\ want \in Slots \cup {NoSlot} /\ step \in 0 .. 2 /\ rested \in BOOLEAN
    /\ tick \in {Out, "page", "count"} /\ serve \in {"ready", "step"}
    /\ asked \in 0 .. Commands /\ owing \in Slots \cup {NoSlot}

\* The character the game is entered with is the one of the last command, not another one that was wanted before.
EntersAsked == [][stage = "chars" /\ stage' = "game" /\ owing # NoSlot => entered' = owing]_vars

\* The character of -char or of a command is entered with at the next character select that shows its page.
OwedIsEntered ==
    \A s \in Slots : (owing = s /\ PageOf(s) = ShownPage /\ stage = "chars") ~> (owing # s \/ stage # "chars")
=============================================================================
