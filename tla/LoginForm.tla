----------------------------- MODULE LoginForm -----------------------------
(***************************************************************************)
(* -stdinlogin: the thread that fills in the login form                    *)
(* (client/plugins/remote_control/remote_control.cpp, auto_login).         *)
(*                                                                         *)
(* The form's two fields are edit windows of their own.  The thread sees   *)
(* them only through the focus of the game's thread: it types the account *)
(* into the focused field, taps Tab until another field has the focus,     *)
(* types the password into that one and taps Return.                       *)
(***************************************************************************)
EXTENDS Integers

CONSTANTS
    MaxTabs,    \* taps of Tab, 4 in the code
    Player      \* bound: the windows the player moves the focus to meanwhile

Render == "render"
Fields == {"name", "pass"}
Windows == Fields \cup {Render}

ASSUME LoginFormConstantsOK == MaxTabs \in Nat /\ Player \subseteq Windows

VARIABLES
    built,      \* the form is there
    focus,      \* the focused window as key_window answers: Render while no field has it
    heading,    \* the field a Tab is moving the focus to
    taps,       \* Tabs the game has not yet acted on
    at,         \* where the thread is
    name, pass, \* its two handles
    tabs,       \* Tabs it has tapped
    login,      \* g_login has not been wiped
    typed,      \* window -> what has been posted to it
    touched     \* history: the player has moved the focus

form == <<built, focus, heading, taps>>
thread == <<at, name, pass, tabs, login>>
vars == <<form, thread, typed, touched>>

Init ==
    /\ built = FALSE /\ focus = Render /\ heading = Render /\ taps = 0
    /\ at = "look" /\ name = Render /\ pass = Render /\ tabs = 0 /\ login = TRUE
    /\ typed = [w \in Windows |-> {}]
    /\ touched = FALSE

-----------------------------------------------------------------------------
(* The client's form. *)

\* the form is built and its first field gets the focus
Build ==
    /\ ~built
    /\ built' = TRUE /\ focus' = "name"
    /\ UNCHANGED <<heading, taps, thread, typed, touched>>

Following == [name |-> "pass", pass |-> "name", render |-> "name"]

\* a Tab hands the focus to the render window first
TabTaken ==
    /\ built /\ taps > 0 /\ heading = Render
    /\ taps' = taps - 1
    /\ heading' = Following[focus]
    /\ focus' = Render
    /\ UNCHANGED <<built, thread, typed, touched>>

\* and the field has it a frame or more later
TabDone ==
    /\ heading # Render
    /\ focus' = heading /\ heading' = Render
    /\ UNCHANGED <<built, taps, thread, typed, touched>>

\* the player clicks a field, or leaves the game's window and comes back
PlayerMoves ==
    /\ built /\ heading = Render
    /\ \E w \in Player \ {focus} : focus' = w
    /\ touched' = TRUE
    /\ UNCHANGED <<built, heading, taps, thread, typed>>

-----------------------------------------------------------------------------
(* The thread. *)

KeyWindow == focus
\* a mistake: the render window is taken for the next field
InPassMoved(w) == w # name

InPass(w) == w # name /\ w # Render

Post(w, what) == typed' = [typed EXCEPT ![w] = @ \cup {what}]
Wiped(done) == at' = done /\ login' = FALSE

\* a field has the focus
SeeForm ==
    /\ at = "look" /\ KeyWindow # Render
    /\ at' = "name"
    /\ UNCHANGED <<form, name, pass, tabs, login, typed, touched>>

\* up to ten minutes of patch and intro
NoForm ==
    /\ at = "look"
    /\ Wiped("gave up")
    /\ UNCHANGED <<form, name, pass, tabs, typed, touched>>

\* 300 ms later: what has the focus now is the name field
TakeName ==
    /\ at = "name"
    /\ name' = KeyWindow /\ pass' = KeyWindow
    /\ at' = "account"
    /\ UNCHANGED <<form, tabs, login, typed, touched>>

TypeAccount ==
    /\ at = "account"
    /\ Post(KeyWindow, "account")
    /\ at' = "next"
    /\ UNCHANGED <<form, name, pass, tabs, login, touched>>

\* a mistake: one Tab too many
FindPassMore ==
    /\ at = "next" /\ tabs <= MaxTabs
    /\ pass' = KeyWindow
    /\ at' = IF InPass(KeyWindow) THEN "check" ELSE "tab"
    /\ UNCHANGED <<form, name, tabs, login, typed, touched>>

\* the loop's test; after the last Tab the focus is not looked at again
FindPass ==
    /\ at = "next" /\ tabs < MaxTabs
    /\ pass' = KeyWindow
    /\ at' = IF InPass(KeyWindow) THEN "check" ELSE "tab"
    /\ UNCHANGED <<form, name, tabs, login, typed, touched>>

NoMoreTabs ==
    /\ at = "next" /\ tabs >= MaxTabs
    /\ at' = "check"
    /\ UNCHANGED <<form, name, pass, tabs, login, typed, touched>>

Tap ==
    /\ at = "tab"
    /\ taps' = taps + 1 /\ tabs' = tabs + 1
    /\ at' = "watch"
    /\ UNCHANGED <<built, focus, heading, name, pass, login, typed, touched>>

\* up to 3 s of looks
Watch ==
    /\ at = "watch" /\ InPass(KeyWindow)
    /\ pass' = KeyWindow
    /\ at' = "next"
    /\ UNCHANGED <<form, name, tabs, login, typed, touched>>

\* a mistake: the wait for the other field has no limit
WatchOn ==
    /\ at = "watch" /\ ~InPass(KeyWindow)
    /\ pass' = KeyWindow
    /\ UNCHANGED <<form, at, name, tabs, login, typed, touched>>

WatchOver ==
    /\ at = "watch" /\ ~InPass(KeyWindow)
    /\ pass' = KeyWindow
    /\ at' = "next"
    /\ UNCHANGED <<form, name, tabs, login, typed, touched>>

\* the Tab never moved the focus
NotSubmitted ==
    /\ at = "check" /\ ~InPass(pass)
    /\ Wiped("gave up")
    /\ UNCHANGED <<form, name, pass, tabs, typed, touched>>

Found ==
    /\ at = "check" /\ InPass(pass)
    /\ at' = "password"
    /\ UNCHANGED <<form, name, pass, tabs, login, typed, touched>>

\* a mistake, and once the code: the password goes wherever the focus is by now
TypeIntoFocus ==
    /\ at = "password"
    /\ Post(KeyWindow, "password")
    /\ at' = "submit"
    /\ UNCHANGED <<form, name, pass, tabs, login, touched>>

TypePassword ==
    /\ at = "password"
    /\ Post(pass, "password")
    /\ at' = "submit"
    /\ UNCHANGED <<form, name, pass, tabs, login, touched>>

Submit ==
    /\ at = "submit"
    /\ Wiped("submitted")
    /\ UNCHANGED <<form, name, pass, tabs, typed, touched>>

-----------------------------------------------------------------------------

Form == Build \/ TabTaken \/ TabDone \/ PlayerMoves
Thread ==
    \/ SeeForm \/ NoForm \/ TakeName \/ TypeAccount
    \/ FindPass \/ NoMoreTabs \/ Tap \/ Watch \/ WatchOver
    \/ NotSubmitted \/ Found \/ TypePassword \/ Submit

Next == Form \/ Thread
Spec == Init /\ [][Next]_vars

\* the thread runs, and the form does what a Tab asks of it
Fairness == WF_vars(Thread) /\ WF_vars(Build) /\ WF_vars(TabTaken) /\ WF_vars(TabDone)

-----------------------------------------------------------------------------

TypeOK ==
    /\ built \in BOOLEAN /\ focus \in Windows /\ heading \in Windows /\ taps \in 0 .. MaxTabs
    /\ at \in {"look", "name", "account", "next", "tab", "watch", "check", "password", "submit", "submitted", "gave up"}
    /\ name \in Windows /\ pass \in Windows /\ tabs \in 0 .. MaxTabs /\ login \in BOOLEAN
    /\ typed \in [Windows -> SUBSET {"account", "password"}] /\ touched \in BOOLEAN

\* On a form the player leaves alone, a login that is submitted has the account in the one field and the password in the
\* other: it is typed only "once the focus has really LEFT the name field".
FormAsMeant ==
    at = "submitted" /\ ~touched =>
        typed["name"] = {"account"} /\ typed["pass"] = {"password"} /\ typed[Render] = {}

\* Wherever the player clicks meanwhile, the password is typed into an edit field, never posted to the game's window
\* where the keys are shortcuts.
PasswordInAField == "password" \notin typed[Render]

\* The thread comes to an end, submitted or not, and g_login is wiped.
FormEnds == <>(at \in {"submitted", "gave up"} /\ ~login)
=============================================================================
