--------------------------- MODULE StartupProofs ---------------------------
(***************************************************************************)
(* The start as a whole.  Where the password goes, for any number of Tabs  *)
(* and whatever windows the player moves the focus to.  And the remote     *)
(* control's calls into the game's thread, for any number of commands and  *)
(* burst frames:                                                           *)
(*                                                                         *)
(* A late file: a path is only there while the caller that set it waits,  *)
(* whatever the other thread does, so capture_now writes for a caller that *)
(* is still there.  This needs only Paths.                                 *)
(*                                                                         *)
(* Whose answer: as long as no wait has run out, the request moves through *)
(* the serve thread and the game thread in turn; Turn says which of them   *)
(* holds it and Carried what it is by then.                                *)
(*                                                                         *)
(* Whose shot: while only the serve thread asks for frames, the one that   *)
(* wakes it is its own (Shown).                                            *)
(*                                                                         *)
(* The character: the slot that is clicked is the one that was asked for.  *)
(*                                                                         *)
(* And the order in which the loader brings the plugins in, for any folder *)
(* and any after= lines: the calls of load_one under way form a path of    *)
(* plugins that wait for each other (Deep), the loop around them goes      *)
(* through the table (Wide), and a load remembers the plugin of the table  *)
(* it goes back to (RootedAt).                                             *)
(***************************************************************************)
EXTENDS Startup, SequenceTheorems, Induction, TLAPS

(* The login form. *)

LEMMA StartupIsLogin == StartupSpec => Init /\ [][Next]_vars
<1>1. StartupInit => Init
  BY DEF StartupInit, StartInit
<1>2. [StartupNext]_<<part, startVars, loadVars, callVars>> => [Next]_vars
  BY DEF StartupNext, StartNext, LoginStep, SelectStep, startVars
<1> QED BY <1>1, <1>2, PTL DEF StartupSpec

USE DEF Windows, Fields, Render

Handles ==
    /\ typed \in [Windows -> SUBSET {"account", "password"}]
    /\ focus \in Windows /\ heading \in Windows
    /\ name \in Windows /\ pass \in Windows
    /\ taps \in Int

-----------------------------------------------------------------------------

\* the thread is at the password only with the handle of another field
FInv ==
    /\ Handles
    /\ at = "password" => InPass(pass)
    /\ PasswordInAField

LEMMA FieldInit == Init => FInv
BY DEF Init, FInv, Handles, PasswordInAField

LEMMA FieldNext == FInv /\ [Next]_vars => FInv'
<1> SUFFICES ASSUME FInv, [Next]_vars PROVE FInv'
  OBVIOUS
<1> USE DEF FInv, Handles, InPass, PasswordInAField, KeyWindow, Post, Wiped, form, thread
<1>1. CASE UNCHANGED vars
  BY <1>1 DEF vars
<1>2. CASE Form
  BY <1>2, LoginFormConstantsOK DEF Form, Build, TabTaken, TabDone, PlayerMoves, Following
<1>3. CASE TypePassword
  BY <1>3 DEF TypePassword
<1>4. CASE TypeAccount
  BY <1>4 DEF TypeAccount
<1>5. CASE Tap
  BY <1>5 DEF Tap
<1>6. CASE SeeForm \/ NoForm \/ TakeName \/ FindPass \/ NoMoreTabs
  BY <1>6 DEF SeeForm, NoForm, TakeName, FindPass, NoMoreTabs
<1>7. CASE Watch \/ WatchOver \/ NotSubmitted \/ Found \/ Submit
  BY <1>7 DEF Watch, WatchOver, NotSubmitted, Found, Submit
<1> QED
  BY <1>1, <1>2, <1>3, <1>4, <1>5, <1>6, <1>7 DEF Next, Thread

\* However the focus moves meanwhile, the password is never posted to the game's window.
THEOREM PasswordStaysInFields == StartupSpec => []PasswordInAField
<1>1. FInv => PasswordInAField
  BY DEF FInv
<1> QED
  BY FieldInit, FieldNext, <1>1, StartupIsLogin, PTL

-----------------------------------------------------------------------------

Nothing == \A w \in Windows : typed[w] = {}
OnlyAccount == typed["name"] = {"account"} /\ typed["pass"] = {} /\ typed[Render] = {}
AsMeant == typed["name"] = {"account"} /\ typed["pass"] = {"password"} /\ typed[Render] = {}

\* left alone, the form keeps the focus on its first field until the account is in it
Undisturbed ==
    /\ at \in {"look", "name", "account"} => taps = 0 /\ heading = Render /\ focus \in {"name", Render} /\ Nothing
    /\ at \in {"name", "account"} => focus = "name"
    /\ at \notin {"look", "name", "gave up"} => name = "name"
    /\ at \in {"next", "tab", "watch", "check", "password"} => OnlyAccount
    /\ at \in {"submit", "submitted"} => AsMeant

MInv == FInv /\ (~touched => Undisturbed)

LEMMA MeantInit == Init => MInv
BY FieldInit DEF Init, MInv, Undisturbed, Nothing

LEMMA FormMeant == ASSUME MInv, Form, ~touched' PROVE Undisturbed'
<1> USE DEF MInv, FInv, Handles, Undisturbed, Nothing, OnlyAccount, AsMeant, thread
<1>1. CASE Build
  BY <1>1 DEF Build
<1>2. CASE TabTaken
  <2>1. ~touched /\ taps \in Int /\ taps > 0
    BY <1>2 DEF TabTaken
  <2>2. at \in {"look", "name", "account"} => taps = 0
    BY <2>1
  <2>3. at \notin {"look", "name", "account"}
    BY ONLY <2>1, <2>2
  <2> QED
    BY <1>2, <2>1, <2>3 DEF TabTaken
<1>3. CASE TabDone
  BY <1>3 DEF TabDone
<1>4. CASE PlayerMoves
  BY <1>4 DEF PlayerMoves
<1> QED
  BY <1>1, <1>2, <1>3, <1>4 DEF Form

LEMMA ThreadMeant == ASSUME MInv, Thread, ~touched' PROVE Undisturbed'
<1> USE DEF MInv, FInv, Handles, Undisturbed, Nothing, OnlyAccount, AsMeant, form, KeyWindow, Post, Wiped, InPass
<1>1. CASE SeeForm \/ NoForm \/ TakeName
  BY <1>1 DEF SeeForm, NoForm, TakeName
<1>2. CASE TypeAccount
  BY <1>2 DEF TypeAccount
<1>3. CASE FindPass \/ NoMoreTabs \/ Watch \/ WatchOver \/ Tap
  BY <1>3 DEF FindPass, NoMoreTabs, Watch, WatchOver, Tap
<1>4. CASE NotSubmitted \/ Found \/ Submit
  BY <1>4 DEF NotSubmitted, Found, Submit
<1>5. CASE TypePassword
  <2>1. ~touched /\ at = "password" /\ name = "name" /\ pass = "pass"
    BY <1>5 DEF TypePassword
  <2> QED
    BY <1>5, <2>1 DEF TypePassword
<1> QED
  BY <1>1, <1>2, <1>3, <1>4, <1>5 DEF Thread

LEMMA MeantNext == MInv /\ [Next]_vars => MInv'
<1> SUFFICES ASSUME MInv, [Next]_vars PROVE MInv'
  OBVIOUS
<1>1. FInv'
  BY FieldNext DEF MInv
<1>2. CASE UNCHANGED vars
  BY <1>1, <1>2 DEF vars, form, thread, MInv, Undisturbed, Nothing, OnlyAccount, AsMeant
<1>3. CASE Next
  BY <1>1, <1>3, FormMeant, ThreadMeant DEF Next, MInv
<1> QED
  BY <1>2, <1>3

\* As long as only the Tabs move the focus, a login that is submitted has the account in one field and the password in
\* the other, however late the Tabs take effect.
THEOREM SubmittedAsMeant == StartupSpec => []FormAsMeant
<1>1. MInv => FormAsMeant
  BY DEF MInv, Undisturbed, AsMeant, FormAsMeant
<1> QED
  BY MeantInit, MeantNext, <1>1, StartupIsLogin, PTL
-----------------------------------------------------------------------------
(* The character select. *)

LEMMA StartupIsSelect == StartupSpec => Select!Spec
<1>1. StartupInit => Select!Init
  BY DEF StartupInit, StartInit
<1>2. [StartupNext]_<<part, startVars, loadVars, callVars>> => [Select!Next]_(Select!vars)
  BY DEF StartupNext, StartNext, LoginStep, SelectStep, startVars, selectVars, Select!vars, Select!client
<1> QED BY <1>1, <1>2, PTL DEF StartupSpec, Select!Spec

\* the slot the clicks go to is the one that is owed
Wanted == owing = Select!NoSlot \/ owing = want

LEMMA WantedStays == ASSUME ByName = Select!NoSlot, Wanted, [Select!Next]_(Select!vars) PROVE Wanted'
<1>1. CASE UNCHANGED Select!vars
  BY <1>1 DEF Select!vars, Wanted
<1>2. CASE Select!World \/ Select!Leave
  BY <1>2 DEF Select!World, Select!ListWorlds, Select!WorldTick, Select!PlayerJoins, Select!Leave, Select!EnterChars, Wanted
<1>3. CASE Select!CharTick \/ Select!ASecond
  BY <1>3 DEF Select!CharTick, Select!Look, Select!OffPage, Select!Select, Select!LogIn, Select!CountStep, Select!ASecond, Wanted
<1>4. CASE Select!Command
  BY <1>4 DEF Select!Command, Select!CharCommand, Select!ResetStep, Wanted
<1> QED BY <1>1, <1>2, <1>3, <1>4 DEF Select!Next

\* Without -charname, whoever joins a world or leaves the game meanwhile, and wherever the last tick is when a "char" command
\* comes: while the character of -char or of the last command is owed, the game is entered with no other.
THEOREM AskedIsEntered == ASSUME ByName = Select!NoSlot PROVE StartupSpec => EntersAsked
<1>1. Select!Init => Wanted
  BY DEF Select!Init, Wanted
<1>2. Wanted /\ [Select!Next]_(Select!vars) => Wanted'
  BY WantedStays
<1>3. Wanted => [stage = "chars" /\ stage' = "game" /\ owing # Select!NoSlot => entered' = owing]_(Select!vars)
        \/ ~[Select!Next]_(Select!vars)
  <2> SUFFICES ASSUME Wanted, Select!Next, stage = "chars", stage' = "game", owing # Select!NoSlot PROVE entered' = owing
    OBVIOUS
  <2>1. ~(Select!World \/ Select!Leave \/ Select!ASecond \/ Select!Command \/ Select!Look \/ Select!OffPage \/ Select!CountStep)
    BY DEF Select!World, Select!ListWorlds, Select!WorldTick, Select!PlayerJoins, Select!Leave, Select!EnterChars, Select!ASecond, Select!Command,
           Select!CharCommand, Select!ResetStep, Select!Look, Select!OffPage, Select!CountStep, Select!client
  <2>2. Select!Select
    BY <2>1 DEF Select!Next, Select!CharTick
  <2>3. entered' = want
    BY <2>2 DEF Select!Select, Select!LogIn
  <2> QED BY <2>3 DEF Wanted
<1> QED BY <1>1, <1>2, <1>3, StartupIsSelect, PTL DEF Select!Spec, EntersAsked, Select!EntersAsked
-----------------------------------------------------------------------------
(* The calls: every step of the start is one of theirs, in its renamed variables, or leaves all of theirs alone. *)

LEMMA StartupIsCalls == StartupSpec => Calls!Spec
<1>1. StartupInit => Calls!Init
  BY DEF StartupInit
<1>2. [StartupNext]_<<part, startVars, loadVars, callVars>> => [Calls!Next]_(Calls!vars)
  BY DEF StartupNext, callVars, Calls!vars, Calls!winsVars, Calls!capVars, Calls!history
<1> QED BY <1>1, <1>2, PTL DEF StartupSpec, Calls!Spec

USE DEF Calls!Serve, Calls!Burst, Calls!Threads

-----------------------------------------------------------------------------
(* Paths. *)

CallOf ==
    /\ callAt \in [Calls!Threads -> {"off", "ready", "write", "reset", "post", "wait", "take", "late",
                           "shot", "shown", "unshown", "window"}]
    /\ call \in [Calls!Threads -> Calls!Threads \X Int]
    /\ \A t \in Calls!Threads : call[t][1] = t
    /\ ~started => callAt[Calls!Burst] = "off"

\* an event that is set has been set for the path that was there: there is none now
Paths ==
    /\ path # Calls!NoCall => Calls!Asking(path)
    /\ capDone => path = Calls!NoCall

PInv == CallOf /\ Paths

LEMMA PathsInit == Calls!Init => PInv
BY DEF Calls!Init, PInv, CallOf, Paths, Calls!NoCall

LEMMA PathsNext == PInv /\ [Calls!Next]_(Calls!vars) => PInv'
<1> SUFFICES ASSUME PInv, [Calls!Next]_(Calls!vars) PROVE PInv'
  OBVIOUS
<1> USE DEF PInv, CallOf
<1>0. CallOf'
  BY DEF Calls!vars, Calls!Next, Calls!ServeWins, Calls!ServeAnswer, Calls!AskWins, Calls!WriteFilter, Calls!ResetWins, Calls!PostWins, Calls!TakeResult, Calls!ReplyWins,
         Calls!WinsTimeout, Calls!GiveUpWins, Calls!AskShot, Calls!BurstFrame, Calls!AskFrame, Calls!StartBurst, Calls!ShotOf, Calls!TakeShot, Calls!ReplyShot,
         Calls!ShotTimeout, Calls!GiveUpShot, Calls!Window, Calls!Game, Calls!CreateDevice, Calls!Present, Calls!Look, Calls!Compute, Calls!StoreResult, Calls!ClearPending,
         Calls!SignalWins, Calls!Go, Calls!Next1
<1>1. CASE UNCHANGED Calls!vars
  BY <1>1 DEF Calls!vars, Paths, Calls!Asking, Calls!capVars
<1>2. CASE Calls!ServeWins \/ Calls!ServeAnswer
  BY <1>2 DEF Calls!ServeWins, Calls!ServeAnswer, Calls!AskWins, Calls!WriteFilter, Calls!ResetWins, Calls!PostWins, Calls!TakeResult, Calls!ReplyWins,
              Calls!WinsTimeout, Calls!GiveUpWins, Calls!Go, Calls!Next1, Paths, Calls!Asking, Calls!capVars
<1>3. ASSUME NEW t \in Calls!Threads, Calls!AskFrame(t), callAt[t] = "ready"
      PROVE  Paths'
  BY <1>3 DEF Calls!AskFrame, Calls!Go, Calls!Next1, Paths, Calls!Asking, Calls!capVars
<1>4. CASE Calls!AskShot
  BY <1>0, <1>3, <1>4 DEF Calls!AskShot
<1>5. CASE Calls!BurstFrame
  BY <1>0, <1>3, <1>5 DEF Calls!BurstFrame
<1>6. CASE Calls!StartBurst
  BY <1>6 DEF Calls!StartBurst, Calls!Go, Paths, Calls!Asking, Calls!capVars
<1>7. ASSUME NEW t \in Calls!Threads, Calls!ShotOf(t)
      PROVE  Paths'
  <2>1. CASE Calls!TakeShot(t)
    BY <1>7, <2>1 DEF Calls!TakeShot, Calls!Go, Paths, Calls!Asking, Calls!capVars
  <2>2. CASE Calls!ReplyShot(t)
    BY <1>7, <2>2 DEF Calls!ReplyShot, Calls!Go, Paths, Calls!Asking, Calls!capVars
  <2>3. CASE Calls!ShotTimeout(t)
    BY <1>7, <2>3 DEF Calls!ShotTimeout, Calls!Go, Paths, Calls!Asking, Calls!capVars
  <2>4. CASE Calls!GiveUpShot(t)
    BY <1>7, <2>4 DEF Calls!GiveUpShot, Calls!Go, Paths, Calls!Asking
  <2>5. CASE Calls!Window(t)
    BY <1>7, <2>5 DEF Calls!Window, Calls!Go, Paths, Calls!Asking, Calls!capVars
  <2> QED
    BY <1>7, <2>1, <2>2, <2>3, <2>4, <2>5 DEF Calls!ShotOf
<1>8. CASE Calls!Present
  BY <1>8 DEF Calls!Present, Calls!CaptureNow, Paths, Calls!Asking, Calls!capVars
<1>9. CASE Calls!Game /\ ~Calls!Present
  BY <1>9 DEF Calls!Game, Calls!CreateDevice, Calls!Look, Calls!Compute, Calls!StoreResult, Calls!ClearPending, Calls!SignalWins, Paths, Calls!Asking, Calls!capVars
<1> QED
  BY <1>0, <1>1, <1>2, <1>4, <1>5, <1>6, <1>7, <1>8, <1>9 DEF Calls!Next

\* Whoever asks, and however late: a frame is never written to the file of a shot whose caller has gone.
THEOREM NoFileLate == StartupSpec => NoLateFile
<1>1. PInv /\ [Calls!Next]_(Calls!vars) => [\A c \in written' \ written : Calls!Asking(c)]_(Calls!vars)
  <2> SUFFICES ASSUME PInv, Calls!Next, NEW c \in written' \ written PROVE Calls!Asking(c)
    OBVIOUS
  <2>1. CASE Calls!Present
    BY <2>1 DEF Calls!Present, Calls!CaptureNow, PInv, Paths
  <2>2. CASE ~Calls!Present
    BY <2>2 DEF Calls!Next, Calls!ServeWins, Calls!ServeAnswer, Calls!AskWins, Calls!WriteFilter, Calls!ResetWins, Calls!PostWins, Calls!TakeResult, Calls!ReplyWins,
         Calls!WinsTimeout, Calls!GiveUpWins, Calls!AskShot, Calls!BurstFrame, Calls!AskFrame, Calls!StartBurst, Calls!ShotOf, Calls!TakeShot, Calls!ReplyShot,
         Calls!ShotTimeout, Calls!GiveUpShot, Calls!Window, Calls!Game, Calls!CreateDevice, Calls!Look, Calls!Compute, Calls!StoreResult, Calls!ClearPending,
         Calls!SignalWins, Calls!history
  <2> QED
    BY <2>1, <2>2
<1> QED
  BY PathsInit, PathsNext, <1>1, StartupIsCalls, PTL DEF Calls!Spec, Calls!NoLateFile, NoLateFile

-----------------------------------------------------------------------------
(* Turn and Carried: the request on its way, when no wait runs out. *)

Forms ==
    /\ CallOf
    /\ kind \in Calls!Kinds
    /\ pending \in BOOLEAN /\ ctl \in BOOLEAN /\ winsDone \in BOOLEAN
    /\ winsTick \in [at : {"away", "look", "see", "have", "stored", "cleared"}, ctl : BOOLEAN, of : Calls!Threads \X Int \cup {Calls!NoCall}]
    /\ filter \in Calls!Threads \X Int \cup {Calls!NoCall}

\* the game thread is at a request only while the serve thread waits for it
Turn ==
    /\ callAt[Calls!Serve] # "late"
    /\ callAt[Calls!Serve] \in {"write", "reset", "post", "wait", "take"} => kind \in {"wins", "ctl"}
    /\ pending => callAt[Calls!Serve] = "wait" /\ ~winsDone
    /\ winsTick.at \in {"see", "have", "stored"} => pending
    /\ winsTick.at = "cleared" => callAt[Calls!Serve] = "wait" /\ ~winsDone /\ ~pending
    /\ callAt[Calls!Serve] = "post" => ~winsDone

\* the flag is up from the command to the walk over the windows
Unread ==
    \/ callAt[Calls!Serve] \in {"write", "reset", "post"}
    \/ callAt[Calls!Serve] = "wait" /\ pending /\ winsTick.at \in {"away", "look", "see"}

Carried ==
    /\ callAt[Calls!Serve] \in {"reset", "post", "wait", "take"} => filter = call[Calls!Serve]
    /\ IF Unread THEN ctl <=> kind = "ctl" ELSE ~ctl
    /\ winsTick.at \in {"see", "have", "stored"} => (winsTick.ctl <=> kind = "ctl")
    /\ winsTick.at \in {"have", "stored"} => winsTick.of = call[Calls!Serve]
    /\ winsTick.at \in {"stored", "cleared"} \/ callAt[Calls!Serve] = "take" \/ (callAt[Calls!Serve] = "wait" /\ winsDone)
       => result = [of |-> call[Calls!Serve], as |-> kind]

RInv == Forms /\ Turn /\ Carried /\ Calls!AnswerIsMine

LEMMA RequestInit == Calls!Init => RInv
<1> SUFFICES ASSUME Calls!Init PROVE RInv
  OBVIOUS
<1>1. Forms
  <2>1. CallOf
    BY DEF Calls!Init, CallOf
  <2>2. winsTick \in [at : {"away", "look", "see", "have", "stored", "cleared"}, ctl : BOOLEAN, of : Calls!Threads \X Int \cup {Calls!NoCall}]
    BY DEF Calls!Init, Calls!Idle
  <2> QED
    BY <2>1, <2>2 DEF Calls!Init, Forms, Calls!Kinds
<1>2. Turn
  BY DEF Calls!Init, Turn, Calls!Idle
<1>3. Carried
  BY DEF Calls!Init, Carried, Unread, Calls!Idle
<1>4. Calls!AnswerIsMine
  BY DEF Calls!Init, Calls!AnswerIsMine
<1> QED
  BY <1>1, <1>2, <1>3, <1>4 DEF RInv

LEMMA RequestNext == ASSUME ~overdue', RInv, [Calls!Next]_(Calls!vars) PROVE RInv'
<1> USE DEF RInv, Forms, CallOf
<1>1. CASE UNCHANGED Calls!vars
  BY <1>1 DEF Calls!vars, Calls!winsVars, Calls!history, Turn, Carried, Unread, Calls!AnswerIsMine
<1>2. ASSUME NEW k \in {"wins", "ctl"}, Calls!AskWins(k)
      PROVE  RInv'
  <2>1. callAt[Calls!Serve] = "ready" /\ callAt' = [callAt EXCEPT ![Calls!Serve] = "write"] /\ ~pending /\ winsTick.at \in {"away", "look"}
    BY <1>2 DEF Calls!AskWins, Calls!Go, Turn
  <2>2. ~ctl
    BY <2>1 DEF Carried, Unread
  <2>3. kind' = k /\ (ctl' <=> k = "ctl")
    BY <1>2, <2>2 DEF Calls!AskWins
  <2>4. Forms'
    BY <1>2, <2>1 DEF Calls!AskWins, Calls!Next1, Calls!Kinds
  <2>5. Turn'
    BY <1>2, <2>1 DEF Calls!AskWins, Turn
  <2>6. Carried'
    BY <1>2, <2>1, <2>3 DEF Calls!AskWins, Carried, Unread
  <2>7. Calls!AnswerIsMine'
    BY <1>2 DEF Calls!AskWins, Calls!history, Calls!AnswerIsMine
  <2> QED
    BY <2>4, <2>5, <2>6, <2>7
<1>3. CASE Calls!WriteFilter
  BY <1>3 DEF Calls!WriteFilter, Calls!Go, Calls!history, Turn, Carried, Unread, Calls!AnswerIsMine
<1>4. CASE Calls!ResetWins
  BY <1>4 DEF Calls!ResetWins, Calls!Go, Calls!history, Turn, Carried, Unread, Calls!AnswerIsMine
<1>5. CASE Calls!PostWins
  BY <1>5 DEF Calls!PostWins, Calls!Go, Calls!history, Turn, Carried, Unread, Calls!AnswerIsMine
<1>6. CASE Calls!TakeResult
  BY <1>6 DEF Calls!TakeResult, Calls!Go, Calls!winsVars, Calls!history, Turn, Carried, Unread, Calls!AnswerIsMine
<1>7. CASE Calls!ReplyWins
  <2>1. callAt[Calls!Serve] = "take" /\ callAt' = [callAt EXCEPT ![Calls!Serve] = "ready"] /\ ~pending /\ winsTick.at \in {"away", "look"}
    BY <1>7 DEF Calls!ReplyWins, Calls!Go, Turn
  <2>2. result = [of |-> call[Calls!Serve], as |-> kind]
    BY <2>1 DEF Carried
  <2>3. Forms'
    BY <1>7, <2>1 DEF Calls!ReplyWins, Calls!winsVars
  <2>4. Turn'
    BY <1>7, <2>1 DEF Calls!ReplyWins, Calls!winsVars, Turn
  <2>5. Carried'
    BY <1>7, <2>1 DEF Calls!ReplyWins, Calls!winsVars, Carried, Unread
  <2>6. Calls!AnswerIsMine'
    BY <1>7, <2>2 DEF Calls!ReplyWins, Calls!AnswerIsMine
  <2> QED
    BY <2>3, <2>4, <2>5, <2>6
<1>8. CASE Calls!WinsTimeout \/ Calls!GiveUpWins
  BY <1>8 DEF Calls!WinsTimeout, Calls!GiveUpWins, Turn
<1>9. CASE Calls!AskShot
  BY <1>9 DEF Calls!AskShot, Calls!AskFrame, Calls!Go, Calls!Next1, Calls!winsVars, Calls!history, Turn, Carried, Unread, Calls!AnswerIsMine, Calls!Kinds
<1>10. CASE Calls!StartBurst \/ Calls!BurstFrame
  BY <1>10 DEF Calls!StartBurst, Calls!BurstFrame, Calls!AskFrame, Calls!Go, Calls!Next1, Calls!winsVars, Calls!history, Turn, Carried, Unread, 
               Calls!AnswerIsMine
<1>11. ASSUME NEW t \in Calls!Threads, Calls!ShotOf(t)
       PROVE  RInv'
  BY <1>11 DEF Calls!ShotOf, Calls!TakeShot, Calls!ReplyShot, Calls!ShotTimeout, Calls!GiveUpShot, Calls!Window, Calls!Go, Calls!winsVars, Calls!history, Turn, Carried,
               Unread, Calls!AnswerIsMine
<1>12. CASE Calls!CreateDevice
  BY <1>12 DEF Calls!CreateDevice, Calls!winsVars, Calls!history, Turn, Carried, Unread, Calls!AnswerIsMine
<1>13. CASE Calls!Present
  BY <1>13 DEF Calls!Present, Calls!winsVars, Turn, Carried, Unread, Calls!AnswerIsMine
<1>14. CASE Calls!Look
  BY <1>14 DEF Calls!Look, Calls!Idle, Calls!winsVars, Calls!history, Turn, Carried, Unread, Calls!AnswerIsMine
<1>15. CASE Calls!Compute
  BY <1>15 DEF Calls!Compute, Calls!history, Turn, Carried, Unread, Calls!AnswerIsMine
<1>16. CASE Calls!StoreResult
  BY <1>16 DEF Calls!StoreResult, Calls!history, Turn, Carried, Unread, Calls!AnswerIsMine
<1>17. CASE Calls!ClearPending
  BY <1>17 DEF Calls!ClearPending, Calls!history, Turn, Carried, Unread, Calls!AnswerIsMine
<1>18. CASE Calls!SignalWins
  <2>1. callAt[Calls!Serve] = "wait" /\ ~pending
    BY <1>18 DEF Calls!SignalWins, Turn
  <2>2. Forms'
    BY <1>18 DEF Calls!SignalWins, Calls!Idle
  <2>3. Turn'
    BY <1>18, <2>1 DEF Calls!SignalWins, Calls!Idle, Turn
  <2>4. Carried'
    BY <1>18, <2>1 DEF Calls!SignalWins, Calls!Idle, Carried, Unread
  <2>5. Calls!AnswerIsMine'
    BY <1>18 DEF Calls!SignalWins, Calls!history, Calls!AnswerIsMine
  <2> QED
    BY <2>2, <2>3, <2>4, <2>5
<1> QED
  BY <1>1, <1>2, <1>3, <1>4, <1>5, <1>6, <1>7, <1>8, <1>9, <1>10, <1>11, <1>12, <1>13, <1>14, <1>15, <1>16, <1>17,
     <1>18 DEF Calls!Next, Calls!ServeWins, Calls!ServeAnswer, Calls!Game

LEMMA OverdueStays == overdue /\ [Calls!Next]_(Calls!vars) => overdue'
BY DEF Calls!vars, Calls!Next, Calls!ServeWins, Calls!ServeAnswer, Calls!AskWins, Calls!WriteFilter, Calls!ResetWins, Calls!PostWins, Calls!TakeResult, Calls!ReplyWins,
       Calls!WinsTimeout, Calls!GiveUpWins, Calls!AskShot, Calls!BurstFrame, Calls!AskFrame, Calls!StartBurst, Calls!ShotOf, Calls!TakeShot, Calls!ReplyShot,
       Calls!ShotTimeout, Calls!GiveUpShot, Calls!Window, Calls!Game, Calls!CreateDevice, Calls!Present, Calls!Look, Calls!Compute, Calls!StoreResult, Calls!ClearPending,
       Calls!SignalWins, Calls!history

OInv == overdue \/ RInv

LEMMA Request == StartupSpec => []OInv
<1>1. Calls!Init => OInv
  BY RequestInit DEF OInv
<1>2. OInv /\ [Calls!Next]_(Calls!vars) => OInv'
  BY RequestNext, OverdueStays DEF OInv
<1> QED
  BY <1>1, <1>2, StartupIsCalls, PTL DEF Calls!Spec

\* As long as no wait has run out, every command gets the answer to its own filter, served as what it asked for.
THEOREM AnswersAreTheirs == StartupSpec => []AnswersMatch
<1>1. OInv => AnswersMatch
  BY DEF OInv, RInv, AnswersMatch, Calls!AnswersMatch
<1> QED
  BY Request, <1>1, PTL

\* As long as no wait has run out, the filter is not assigned while the game thread reads it.
THEOREM NoFilterTorn == StartupSpec => []NoTornRead
<1>1. OInv => NoTornRead
  BY DEF OInv, RInv, Turn, NoTornRead, Calls!NoTornRead
<1> QED
  BY Request, <1>1, PTL

-----------------------------------------------------------------------------
(* Shots of the serve thread alone. *)

\* the frame that woke the serve thread is its own, and no other can follow before it has looked
Shown ==
    /\ callAt[Calls!Serve] = "shot" /\ capDone /\ capOk => call[Calls!Serve] \in written
    /\ callAt[Calls!Serve] = "shown" => path = Calls!NoCall /\ (capOk => call[Calls!Serve] \in written)

SInv == PInv /\ (started \/ (Shown /\ oked \subseteq written))

LEMMA ShotsNext == SInv /\ [Calls!Next]_(Calls!vars) => SInv'
<1> SUFFICES ASSUME SInv, [Calls!Next]_(Calls!vars), ~started' PROVE Shown' /\ oked' \subseteq written'
  BY PathsNext DEF SInv
<1>0. ~started /\ callAt[Calls!Burst] = "off" /\ PInv /\ Shown /\ oked \subseteq written
  <2>1. started => started'
    BY DEF Calls!vars, Calls!Next, Calls!ServeWins, Calls!ServeAnswer, Calls!AskWins, Calls!WriteFilter, Calls!ResetWins, Calls!PostWins, Calls!TakeResult, Calls!ReplyWins,
       Calls!WinsTimeout, Calls!GiveUpWins, Calls!AskShot, Calls!BurstFrame, Calls!AskFrame, Calls!StartBurst, Calls!ShotOf, Calls!TakeShot, Calls!ReplyShot,
       Calls!ShotTimeout, Calls!GiveUpShot, Calls!Window, Calls!Game, Calls!CreateDevice, Calls!Present, Calls!Look, Calls!Compute, Calls!StoreResult, Calls!ClearPending,
       Calls!SignalWins
  <2> QED
    BY <2>1 DEF SInv, PInv, CallOf
<1> USE <1>0 DEF PInv, CallOf, Shown
<1>1. CASE UNCHANGED Calls!vars
  BY <1>1 DEF Calls!vars, Calls!capVars, Calls!history
<1>2. CASE Calls!ServeWins \/ Calls!ServeAnswer
  BY <1>2 DEF Calls!ServeWins, Calls!ServeAnswer, Calls!AskWins, Calls!WriteFilter, Calls!ResetWins, Calls!PostWins, Calls!TakeResult, Calls!ReplyWins,
              Calls!WinsTimeout, Calls!GiveUpWins, Calls!Go, Calls!Next1, Calls!capVars, Calls!history
<1>3. CASE Calls!AskShot
  BY <1>3 DEF Calls!AskShot, Calls!AskFrame, Calls!Go, Calls!Next1, Calls!capVars, Calls!history
<1>4. CASE Calls!StartBurst \/ Calls!BurstFrame
  BY <1>4 DEF Calls!StartBurst, Calls!BurstFrame
<1>5. ASSUME NEW t \in Calls!Threads, Calls!ShotOf(t)
      PROVE  Shown' /\ oked' \subseteq written'
  <2>1. t = Calls!Serve
    BY <1>5 DEF Calls!ShotOf, Calls!TakeShot, Calls!ReplyShot, Calls!ShotTimeout, Calls!GiveUpShot, Calls!Window
  <2>2. CASE Calls!TakeShot(t)
    BY <2>1, <2>2 DEF Calls!TakeShot, Calls!Go, Paths, Calls!capVars, Calls!history
  <2>3. CASE Calls!ReplyShot(t)
    BY <2>1, <2>3 DEF Calls!ReplyShot, Calls!Go, Calls!capVars
  <2>4. CASE Calls!ShotTimeout(t) \/ Calls!Window(t)
    BY <2>1, <2>4 DEF Calls!ShotTimeout, Calls!Window, Calls!Go, Calls!capVars, Calls!history
  <2>5. CASE Calls!GiveUpShot(t)
    BY <2>1, <2>5 DEF Calls!GiveUpShot, Calls!Go, Calls!history
  <2> QED
    BY <1>5, <2>2, <2>3, <2>4, <2>5 DEF Calls!ShotOf
<1>6. CASE Calls!Present
  <2>1. path # Calls!NoCall => path = call[Calls!Serve]
    BY DEF Paths, Calls!Asking
  <2> QED
    BY <1>6, <2>1 DEF Calls!Present, Calls!CaptureNow, Calls!capVars
<1>7. CASE Calls!Game /\ ~Calls!Present
  BY <1>7 DEF Calls!Game, Calls!CreateDevice, Calls!Look, Calls!Compute, Calls!StoreResult, Calls!ClearPending, Calls!SignalWins, Calls!capVars, Calls!history
<1> QED
  BY <1>1, <1>2, <1>3, <1>4, <1>5, <1>6, <1>7 DEF Calls!Next

\* Until a burst shares its path, a shot answered "ok" has its own file, after any number of shots that came too late.
THEOREM OkIsWritten == StartupSpec => []OkMeansWritten
<1>1. Calls!Init => SInv
  BY PathsInit DEF Calls!Init, SInv, Shown
<1>2. SInv => OkMeansWritten
  BY DEF SInv, OkMeansWritten, Calls!OkMeansWritten
<1> QED
  BY <1>1, <1>2, ShotsNext, StartupIsCalls, PTL DEF Calls!Spec

-----------------------------------------------------------------------------
(* The loader: the plugins as a depth-first search along their after= names. *)

LoadTyped ==
    /\ mode \in {"service", "client"} /\ threads \subseteq Callers
    /\ enabled \subseteq Load!Plugins /\ after \in [Load!Plugins -> Seq(Names)]
    /\ pc \in [Callers -> {"down", "first", "list", "load", "main"}]
    /\ initDone \in BOOLEAN /\ up \in BOOLEAN
    /\ table \in Seq(Load!Plugins) /\ state \in [Load!Plugins -> 0 .. 2]
    /\ stack \in [Callers -> Seq([name : Load!Plugins, dep : Nat \ {0}])]
    /\ top \in [Callers -> Nat \ {0}]
    /\ loads \in Seq([name : Load!Plugins, ok : BOOLEAN])

\* nothing has happened yet
Fresh == table = << >> /\ loads = << >> /\ ~up /\ state = [p \in Load!Plugins |-> 0]

Begun == up \/ \E t \in Callers : pc[t] = "load"
SetsUp(t) == pc[t] \in {"list", "load"}

\* one thread sets up, once
OneSetUp ==
    /\ \A t \in Callers : pc[t] # "down" => t \in threads
    /\ mode = "service" => /\ \A t, u \in threads : t = u
                           /\ \A t \in Callers : pc[t] = "first" => ~initDone
    /\ \A t, u \in Callers : SetsUp(t) /\ SetsUp(u) => t = u
    /\ \A t \in Callers : SetsUp(t) => initDone /\ ~up
    /\ up => initDone
    /\ IF Begun THEN table = Load!Listed ELSE Fresh

\* the calls of load_one under way, on a stack s with the marks st: each waits for the next, and of its dependencies it has
\* passed each is loaded or further out on the stack, or is the one it waits for
Deep(s, st) ==
    /\ \A i \in DOMAIN s : s[i].name \in Load!InTable
    /\ \A i, j \in DOMAIN s : s[i].name = s[j].name => i = j
    /\ \A p \in Load!Plugins : st[p] = 1 <=> \E i \in DOMAIN s : s[i].name = p
    /\ \A i \in DOMAIN s : i + 1 \in DOMAIN s => s[i + 1].name \in Load!DepsIn(s[i].name)
    /\ \A i \in DOMAIN s : \A d \in DOMAIN Load!Deps(s[i].name) :
          d < s[i].dep /\ Load!Deps(s[i].name)[d] \in Load!InTable =>
             \/ st[Load!Deps(s[i].name)[d]] = 2
             \/ \E j \in DOMAIN s : j =< i + 1 /\ s[j].name = Load!Deps(s[i].name)[d]

\* the plugins of the table before the current one are done
Wide(s, st, next) ==
    /\ \A j \in DOMAIN table : j < next => st[table[j]] # 0
    /\ s # << >> => /\ next - 1 \in DOMAIN table /\ s[1].name = table[next - 1]
                    /\ \A j \in DOMAIN table : j < next - 1 => st[table[j]] = 2

Searched(t) == Deep(stack[t], state) /\ Wide(stack[t], state, top[t])

\* a load goes back to a plugin of the table, and came after all the plugins before that one
RootedAt(i, k) ==
    /\ loads[i].name = table[k] \/ loads[i].name \in Load!WaitsFor(table[k])
    /\ \A j \in DOMAIN table : j < k => \E e \in DOMAIN loads : e < i /\ loads[e].name = table[j]

Loaded ==
    /\ \A p \in Load!Plugins : state[p] = 2 <=> Load!Tried(p)
    /\ \A p \in Load!Plugins : state[p] # 0 => p \in Load!InTable
    /\ \A i, j \in DOMAIN loads : loads[i].name = loads[j].name => i = j
    /\ Load!AfterHolds
    /\ \A i \in DOMAIN loads : \E k \in DOMAIN table : RootedAt(i, k)
    /\ up => ran = callbacks /\ \A p \in Load!InTable : Load!Tried(p)

LoadInv == LoadTyped /\ OneSetUp /\ Loaded /\ \A t \in Callers : pc[t] = "load" => Searched(t)

LEMMA FolderIs ==
    /\ Folder \in Seq(Load!Plugins) /\ Len(Folder) \in Nat /\ DOMAIN Folder = 1 .. Len(Folder)
    /\ \A i, j \in DOMAIN Folder : Folder[i] = Folder[j] => i = j
    /\ Load!Plugins = {Folder[i] : i \in DOMAIN Folder} /\ kMaxPlugins \in Nat
<1>1. Folder \in Seq(Load!Plugins) /\ kMaxPlugins \in Nat /\ \A i, j \in DOMAIN Folder : Folder[i] = Folder[j] => i = j
  BY StartupConstantsOK DEF Load!LoaderConstantsOK
<1>2. Len(Folder) \in Nat /\ DOMAIN Folder = 1 .. Len(Folder)
  BY <1>1
<1> QED BY <1>1, <1>2 DEF Load!Plugins

\* an enabled plugin at the end of a list, if there is room
Taken(r, p) == IF p \in enabled /\ Len(r) < kMaxPlugins THEN Append(r, p) ELSE r

\* the first n files of the folder are listed in r
ListsFirst(r, n) ==
    /\ r \in Seq(Load!Plugins) /\ Len(r) =< kMaxPlugins
    /\ \A i \in DOMAIN r : r[i] \in enabled /\ \E a \in 1 .. n : Folder[a] = r[i]
    /\ \A i, j \in DOMAIN r, a, b \in DOMAIN Folder : i < j /\ Folder[a] = r[i] /\ Folder[b] = r[j] => a < b
    /\ \A a \in 1 .. n : Folder[a] \in enabled => Len(r) = kMaxPlugins \/ \E i \in DOMAIN r : r[i] = Folder[a]

LEMMA OneMoreListed ==
    ASSUME NEW n \in Nat, n + 1 \in DOMAIN Folder, NEW r, ListsFirst(r, n)
    PROVE  ListsFirst(Taken(r, Folder[n + 1]), n + 1)
<1>. PICK p \in Load!Plugins : p = Folder[n + 1]
  BY FolderIs
<1>. PICK q : q = Taken(r, p)
  OBVIOUS
<1>0. /\ r \in Seq(Load!Plugins) /\ Len(r) \in Nat /\ DOMAIN r = 1 .. Len(r) /\ Len(r) =< kMaxPlugins /\ kMaxPlugins \in Nat
  BY FolderIs DEF ListsFirst
<1>1. CASE p \in enabled /\ Len(r) < kMaxPlugins
  <2>1. q = Append(r, p)
    BY <1>1 DEF Taken
  <2>2. /\ q \in Seq(Load!Plugins) /\ DOMAIN q = 1 .. Len(r) + 1 /\ Len(q) = Len(r) + 1 /\ q[Len(r) + 1] = p
        /\ \A i \in DOMAIN r : q[i] = r[i]
    BY <1>0, <2>1
  <2>3. \A i \in DOMAIN q : (i \in DOMAIN r /\ q[i] = r[i]) \/ (i = Len(r) + 1 /\ q[i] = p)
    BY <1>0, <2>2
  <2>4. \A i \in DOMAIN q : q[i] \in enabled /\ \E a \in 1 .. n + 1 : Folder[a] = q[i]
    <3>1. SUFFICES ASSUME NEW i \in DOMAIN q PROVE q[i] \in enabled /\ \E a \in 1 .. n + 1 : Folder[a] = q[i]
      OBVIOUS
    <3>2. CASE i \in DOMAIN r /\ q[i] = r[i]
      <4>1. PICK a \in 1 .. n : Folder[a] = r[i]
        BY <3>2 DEF ListsFirst
      <4>2. a \in 1 .. n + 1
        OBVIOUS
      <4> QED BY <3>2, <4>1, <4>2 DEF ListsFirst
    <3>3. CASE i = Len(r) + 1 /\ q[i] = p
      <4>1. n + 1 \in 1 .. n + 1
        OBVIOUS
      <4> QED BY <1>1, <3>3, <4>1
    <3> QED BY <2>3, <3>2, <3>3
  <2>5. ASSUME NEW i \in DOMAIN q, NEW j \in DOMAIN q, NEW a \in DOMAIN Folder, NEW b \in DOMAIN Folder,
               i < j, Folder[a] = q[i], Folder[b] = q[j]
        PROVE  a < b
    <3>1. i \in DOMAIN r /\ q[i] = r[i]
      BY <1>0, <2>2, <2>3, <2>5
    <3>2. CASE j \in DOMAIN r /\ q[j] = r[j]
      BY <2>5, <3>1, <3>2 DEF ListsFirst
    <3>3. CASE j = Len(r) + 1 /\ q[j] = p
      <4>1. b = n + 1
        BY <2>5, <3>3, FolderIs
      <4>2. PICK e \in 1 .. n : Folder[e] = r[i]
        BY <3>1 DEF ListsFirst
      <4>3. e \in DOMAIN Folder
        BY FolderIs
      <4>4. a = e
        BY <2>5, <3>1, <4>2, <4>3, FolderIs
      <4> QED BY <4>1, <4>4
    <3> QED BY <2>3, <3>2, <3>3
  <2>6. ASSUME NEW a \in 1 .. n + 1, Folder[a] \in enabled
        PROVE  Len(q) = kMaxPlugins \/ \E i \in DOMAIN q : q[i] = Folder[a]
    <3>1. CASE a = n + 1
      <4>1. Len(r) + 1 \in DOMAIN q
        BY <1>0, <2>2
      <4> QED BY <2>2, <3>1, <4>1
    <3>2. CASE a # n + 1
      <4>1. a \in 1 .. n
        BY <3>2
      <4>2. PICK i \in DOMAIN r : r[i] = Folder[a]
        BY <1>1, <2>6, <4>1 DEF ListsFirst
      <4>3. i \in DOMAIN q /\ q[i] = Folder[a]
        BY <1>0, <2>2, <4>2
      <4> QED BY <4>3
    <3> QED BY <3>1, <3>2
  <2>7. Len(q) =< kMaxPlugins
    BY <1>0, <1>1, <2>2
  <2> QED BY <2>2, <2>4, <2>5, <2>6, <2>7 DEF ListsFirst
<1>2. CASE ~(p \in enabled /\ Len(r) < kMaxPlugins)
  <2>1. q = r
    BY <1>2 DEF Taken
  <2>2. ASSUME NEW i \in DOMAIN r PROVE \E a \in 1 .. n + 1 : Folder[a] = r[i]
    <3>1. PICK a \in 1 .. n : Folder[a] = r[i]
      BY DEF ListsFirst
    <3>2. a \in 1 .. n + 1
      OBVIOUS
    <3> QED BY <3>1, <3>2
  <2>3. ASSUME NEW a \in 1 .. n + 1, Folder[a] \in enabled
        PROVE  Len(r) = kMaxPlugins \/ \E i \in DOMAIN r : r[i] = Folder[a]
    <3>1. CASE a = n + 1
      <4>1. p \in enabled
        BY <2>3, <3>1
      <4>2. ~(Len(r) < kMaxPlugins)
        BY <1>2, <4>1
      <4>3. PICK l \in Nat : l = Len(r)
        BY <1>0
      <4>4. l =< kMaxPlugins /\ kMaxPlugins \in Nat /\ ~(l < kMaxPlugins)
        BY <1>0, <4>2, <4>3
      <4> QED BY <4>3, <4>4
    <3>2. CASE a # n + 1
      <4>1. a \in 1 .. n
        BY <3>2
      <4> QED BY <2>3, <4>1 DEF ListsFirst
    <3> QED BY <3>1, <3>2
  <2> QED BY <2>1, <2>2, <2>3 DEF ListsFirst
<1> QED BY <1>1, <1>2

LEMMA ListedIs == ListsFirst(Load!Listed, Len(Folder))
<1>. PICK m \in Nat : m = Len(Folder)
  BY FolderIs
<1> DEFINE rule(f, n) == f = [i \in 0 .. n |-> IF i = 0 THEN << >> ELSE Taken(f[i - 1], Folder[i])]
           defined == {n \in Nat : \E f : rule(f, n)}
<1>2. \A n \in 0 .. m : n \in defined
  <2>1. 0 \in defined
    <3>1. rule([i \in 0 .. 0 |-> << >>], 0)
      OBVIOUS
    <3> QED BY <3>1
  <2>2. ASSUME NEW n \in 0 .. m, n < m, n \in defined PROVE n + 1 \in defined
    <3>1. PICK f : rule(f, n)
      BY <2>2
    <3> DEFINE g == [i \in 0 .. n + 1 |-> IF i = n + 1 THEN Taken(f[n], Folder[n + 1]) ELSE f[i]]
    <3>2. ASSUME NEW i \in 0 .. n + 1 PROVE g[i] = IF i = 0 THEN << >> ELSE Taken(g[i - 1], Folder[i])
      <4>1. CASE i = n + 1
        BY <4>1
      <4>2. CASE i # n + 1
        <5>1. i \in 0 .. n /\ g[i] = f[i]
          BY <4>2
        <5>2. f[i] = IF i = 0 THEN << >> ELSE Taken(f[i - 1], Folder[i])
          BY <3>1, <5>1
        <5>3. i # 0 => g[i - 1] = f[i - 1]
          BY <5>1
        <5> QED BY <5>1, <5>2, <5>3
      <4> QED BY <4>1, <4>2
    <3>3. rule(g, n + 1)
      <4>1. g = [i \in 0 .. n + 1 |-> g[i]]
        OBVIOUS
      <4> HIDE DEF g
      <4> QED BY <3>2, <4>1
    <3>4. \E h : rule(h, n + 1)
      <4> HIDE DEF rule, g
      <4> QED BY <3>3
    <3> HIDE DEF rule
    <3> QED BY <3>4
  <2> HIDE DEF defined
  <2> QED BY <2>1, <2>2, UpTo
<1> DEFINE listed == CHOOSE f : rule(f, m)
<1>3. rule(listed, m)
  <2>1. m \in defined
    <3> HIDE DEF defined
    <3> QED BY <1>2
  <2>2. \E f : rule(f, m)
    BY <2>1
  <2> HIDE DEF rule
  <2> QED BY <2>2
<1>4. Load!Listed = listed[m]
  BY DEF Load!Listed, Taken
<1> HIDE DEF listed
<1>5. \A i \in 0 .. m : listed[i] = IF i = 0 THEN << >> ELSE Taken(listed[i - 1], Folder[i])
  BY <1>3
<1>. PICK S : S = {n \in 0 .. m : ListsFirst(listed[n], n)}
  OBVIOUS
<1>6. 0 \in S
  <2>1. listed[0] = << >>
    BY <1>5
  <2>2. << >> \in Seq(Load!Plugins) /\ Len(<< >>) = 0
    BY EmptySeq
  <2>3. DOMAIN << >> = {} /\ 1 .. 0 = {} /\ kMaxPlugins \in Nat
    BY FolderIs
  <2>4. ListsFirst(<< >>, 0)
    BY <2>2, <2>3 DEF ListsFirst
  <2> QED BY <2>1, <2>4
<1>7. ASSUME NEW n \in 0 .. m, n < m, n \in S PROVE n + 1 \in S
  <2>1. n + 1 \in 0 .. m /\ n + 1 # 0 /\ n + 1 - 1 = n /\ n \in Nat
    BY <1>7
  <2>2. n + 1 \in DOMAIN Folder
    BY <1>7, FolderIs
  <2>3. listed[n + 1] = Taken(listed[n], Folder[n + 1])
    BY <1>5, <2>1
  <2>4. ListsFirst(listed[n], n)
    BY <1>7
  <2>5. ListsFirst(listed[n + 1], n + 1)
    BY <2>1, <2>2, <2>3, <2>4, OneMoreListed
  <2> QED BY <2>1, <2>5
<1>8. \A n \in 0 .. m : n \in S
  <2> HIDE DEF rule, defined
  <2> QED BY <1>6, <1>7, UpTo
<1>9. m \in 0 .. m
  OBVIOUS
<1> QED BY <1>4, <1>8, <1>9

LEMMA StartupIsLoad ==
    StartupSpec => /\ Load!Init /\ (mode = "service" => \A t, u \in threads : t = u)
                   /\ [][Load!Next]_loadVars
<1>1. StartupInit => Load!Init /\ (mode = "service" => \A t, u \in threads : t = u)
  BY OneRoutine, Zenon DEF StartupInit, Load!Init
<1>2. [StartupNext]_<<part, startVars, loadVars, callVars>> => [Load!Next]_loadVars
  BY DEF StartupNext
<1> QED BY <1>1, <1>2, PTL DEF StartupSpec

LEMMA LoadStarts == Load!Init /\ (mode = "service" => \A t, u \in threads : t = u) => LoadInv
<1> SUFFICES ASSUME Load!Init, mode = "service" => \A t, u \in threads : t = u PROVE LoadInv
  OBVIOUS
<1>1. PICK x \in Setups : mode = x.mode /\ threads = x.threads /\ after = x.after
  BY DEF Load!Init
<1>2. x.mode \in {"service", "client"} /\ x.threads \subseteq Callers /\ x.after \in [Load!Plugins -> Seq(Names)]
  BY StartupConstantsOK DEF Load!LoaderConstantsOK
<1>3. << >> \in Seq(Load!Plugins) /\ << >> \in Seq([name : Load!Plugins, ok : BOOLEAN]) /\ DOMAIN << >> = {}
      /\ << >> \in Seq([name : Load!Plugins, dep : Nat \ {0}])
  OBVIOUS
<1>4. LoadTyped
  <2>1. /\ mode \in {"service", "client"} /\ threads \subseteq Callers /\ after \in [Load!Plugins -> Seq(Names)]
        /\ enabled \subseteq Load!Plugins /\ initDone \in BOOLEAN /\ up \in BOOLEAN
    BY <1>1, <1>2 DEF Load!Init
  <2>2. table \in Seq(Load!Plugins) /\ loads \in Seq([name : Load!Plugins, ok : BOOLEAN])
    BY <1>3 DEF Load!Init
  <2>3. stack \in [Callers -> Seq([name : Load!Plugins, dep : Nat \ {0}])]
    <3>1. PICK X : X = Seq([name : Load!Plugins, dep : Nat \ {0}])
      OBVIOUS
    <3>2. stack \in [Callers -> X]
      BY <1>3, <3>1 DEF Load!Init
    <3> QED BY <3>1, <3>2
  <2>4. /\ pc \in [Callers -> {"down", "first", "list", "load", "main"}]
        /\ state \in [Load!Plugins -> 0 .. 2] /\ top \in [Callers -> Nat \ {0}]
    BY DEF Load!Init
  <2> QED BY <2>1, <2>2, <2>3, <2>4, Zenon DEF LoadTyped
<1>5. OneSetUp
  BY DEF OneSetUp, SetsUp, Begun, Fresh, Load!Init
<1>6. Loaded
  BY <1>3 DEF Loaded, Load!Tried, Load!AfterHolds, Load!Init
<1> QED BY <1>4, <1>5, <1>6 DEF LoadInv, Load!Init

(* What the search is made of. *)

\* p is s, of length n, without its last entry; q is s with the entry x after it
ButLast(p, s, n) ==
    /\ n \in Nat \ {0} /\ Len(s) = n /\ DOMAIN s = 1 .. n
    /\ Len(p) = n - 1 /\ DOMAIN p = 1 .. n - 1 /\ \A i \in 1 .. n - 1 : p[i] = s[i]

Extended(q, s, x, n) ==
    /\ n \in Nat \ {0} /\ Len(s) = n - 1 /\ DOMAIN s = 1 .. n - 1
    /\ Len(q) = n /\ DOMAIN q = 1 .. n /\ q[n] = x /\ \A i \in 1 .. n - 1 : q[i] = s[i]

LEMMA OffTheEnd ==
    ASSUME NEW S, NEW s \in Seq(S), s # << >>, NEW p, p = SubSeq(s, 1, Len(s) - 1)
    PROVE  p \in Seq(S) /\ s[Len(s)] \in S /\ ButLast(p, s, Len(s))
<1>1. Len(s) \in Nat /\ DOMAIN s = 1 .. Len(s) /\ Len(s) # 0
  OBVIOUS
<1>2. s[Len(s)] \in S
  BY <1>1
<1>3. p \in Seq(S) /\ Len(p) = Len(s) - 1 /\ DOMAIN p = 1 .. Len(s) - 1 /\ \A i \in 1 .. Len(s) - 1 : p[i] = s[i]
  BY <1>1
<1> QED BY <1>1, <1>2, <1>3 DEF ButLast

LEMMA AtTheEnd ==
    ASSUME NEW S, NEW s \in Seq(S), NEW x \in S, NEW q, q = Append(s, x)
    PROVE  q \in Seq(S) /\ Extended(q, s, x, Len(s) + 1)
<1>1. PICK m \in Nat : m = Len(s) /\ DOMAIN s = 1 .. m
  OBVIOUS
<1>2. q \in Seq(S) /\ Len(q) = m + 1 /\ DOMAIN q = 1 .. m + 1 /\ q[m + 1] = x /\ \A i \in 1 .. m : q[i] = s[i]
  BY <1>1
<1>3. m + 1 - 1 = m /\ m + 1 \in Nat \ {0}
  BY <1>1
<1>4. Extended(q, s, x, m + 1)
  BY <1>1, <1>2, <1>3 DEF Extended
<1> QED BY <1>1, <1>2, <1>4

\* q is s, of length n, with x for its last entry
Renewed(q, s, x, n) ==
    /\ Len(q) = n /\ Len(s) = n /\ n \in Nat \ {0} /\ DOMAIN s = 1 .. n /\ DOMAIN q = 1 .. n
    /\ q[n] = x /\ \A i \in 1 .. n - 1 : q[i] = s[i]

LEMMA Replaced ==
    ASSUME NEW S, NEW s \in Seq(S), s # << >>, NEW x \in S, NEW q, q = Append(SubSeq(s, 1, Len(s) - 1), x)
    PROVE  q \in Seq(S) /\ Renewed(q, s, x, Len(s))
<1>. PICK p : p = SubSeq(s, 1, Len(s) - 1)
  OBVIOUS
<1>1. p \in Seq(S) /\ ButLast(p, s, Len(s))
  BY OffTheEnd
<1>2. PICK n : n = Len(s)
  OBVIOUS
<1>3. /\ n \in Nat \ {0} /\ DOMAIN s = 1 .. n
      /\ Len(p) = n - 1 /\ DOMAIN p = 1 .. n - 1 /\ \A i \in 1 .. n - 1 : p[i] = s[i]
  BY <1>1, <1>2 DEF ButLast
<1>4. q = Append(p, x)
  OBVIOUS
<1>5. q \in Seq(S) /\ Extended(q, p, x, Len(p) + 1)
  BY <1>1, <1>4, AtTheEnd
<1>6. Len(p) + 1 = n
  BY <1>3
<1>7. Len(q) = n /\ DOMAIN q = 1 .. n /\ q[n] = x /\ \A i \in 1 .. n - 1 : q[i] = p[i]
  BY <1>5, <1>6 DEF Extended
<1>8. Renewed(q, s, x, n)
  BY <1>2, <1>3, <1>7 DEF Renewed
<1> QED BY <1>2, <1>5, <1>8

LEMMA LastOne == ASSUME NEW S, NEW s \in Seq(S), s # << >> PROVE s[Len(s)] \in S
  BY OffTheEnd

LEMMA OneAndLast == ASSUME NEW n \in Nat \ {0}, n # 1 PROVE 1 \in 1 .. n /\ n \in 1 .. n /\ 1 < n /\ n \in Nat
  OBVIOUS

LEMMA OneEntry == ASSUME NEW S, NEW x \in S PROVE <<x>> \in Seq(S)
  OBVIOUS

LEMMA Typed == ASSUME NEW S, NEW s \in Seq(S) PROVE Len(s) \in Nat /\ DOMAIN s = 1 .. Len(s) /\ \A i \in DOMAIN s : s[i] \in S
  OBVIOUS

LEMMA TableIs ==
    ASSUME LoadTyped
    PROVE  /\ Load!InTable \subseteq Load!Plugins /\ \A i \in DOMAIN table : table[i] \in Load!InTable
           /\ Len(table) \in Nat /\ DOMAIN table = 1 .. Len(table)
<1>1. Len(table) \in Nat /\ DOMAIN table = 1 .. Len(table) /\ \A i \in DOMAIN table : table[i] \in Load!Plugins
  BY Typed, Zenon DEF LoadTyped
<1> QED BY <1>1, Zenon DEF Load!InTable

\* the names of an after= line are counted from 1
LEMMA DepsAre ==
    ASSUME LoadTyped, NEW p \in Load!Plugins
    PROVE  Len(Load!Deps(p)) \in Nat /\ DOMAIN Load!Deps(p) = 1 .. Len(Load!Deps(p))
<1>1. kMaxDeps \in Nat
  BY StartupConstantsOK DEF Load!LoaderConstantsOK
<1>2. PICK a \in Seq(Names) : a = after[p]
  BY DEF LoadTyped
<1>3. PICK n \in 0 .. Len(a) : n = IF Len(a) =< kMaxDeps THEN Len(a) ELSE kMaxDeps
  BY <1>1
<1>4. Load!Deps(p) = SubSeq(a, 1, n)
  BY <1>2, <1>3 DEF Load!Deps
<1>5. SubSeq(a, 1, n) \in Seq(Names)
  BY <1>3
<1> QED BY <1>4, <1>5

LEMMA WaitsDirectly == \A p : Load!DepsIn(p) \subseteq Load!WaitsFor(p)
  BY Zenon DEF Load!WaitsFor, Load!DepsIn

LEMMA WaitsFurther ==
    ASSUME NEW p, NEW q \in Load!WaitsFor(p), NEW r \in Load!DepsIn(q)
    PROVE  r \in Load!WaitsFor(p)
<1>1. q \in Load!InTable /\ r \in Load!InTable
  BY DEF Load!WaitsFor, Load!DepsIn
<1>2. ASSUME NEW S \in SUBSET Load!InTable, Load!DepsIn(p) \subseteq S, \A x \in S : Load!DepsIn(x) \subseteq S
      PROVE  r \in S
  <2>1. q \in S
    BY <1>2, Zenon DEF Load!WaitsFor
  <2> QED BY <1>2, <2>1
<1> QED BY <1>1, <1>2, Zenon DEF Load!WaitsFor

\* the calls further in are waited for by those further out
LEMMA PathWaits ==
    ASSUME NEW s, NEW n \in Nat, DOMAIN s = 1 .. n, NEW st, Deep(s, st), NEW i \in 1 .. n, NEW j \in 1 .. n, i < j
    PROVE  s[j].name \in Load!WaitsFor(s[i].name)
<1>. PICK m \in Nat : m = n - i - 1
  OBVIOUS
<1>. PICK S : S = {a \in 0 .. m : s[i + a + 1].name \in Load!WaitsFor(s[i].name)}
  OBVIOUS
<1>1. 0 \in S
  <2>1. 0 \in 0 .. m /\ i + 0 + 1 = i + 1 /\ i \in DOMAIN s /\ i + 1 \in DOMAIN s
    OBVIOUS
  <2>2. s[i + 1].name \in Load!DepsIn(s[i].name)
    BY <2>1 DEF Deep
  <2>3. s[i + 1].name \in Load!WaitsFor(s[i].name)
    BY <2>2, WaitsDirectly, Zenon
  <2> QED BY <2>1, <2>3
<1>2. ASSUME NEW a \in 0 .. m, a < m, a \in S PROVE a + 1 \in S
  <2>1. a + 1 \in 0 .. m /\ i + a + 1 \in DOMAIN s /\ i + a + 1 + 1 \in DOMAIN s /\ i + (a + 1) + 1 = i + a + 1 + 1
    BY <1>2
  <2>2. s[i + a + 1 + 1].name \in Load!DepsIn(s[i + a + 1].name)
    BY <2>1 DEF Deep
  <2>3. s[i + a + 1].name \in Load!WaitsFor(s[i].name)
    BY <1>2
  <2>4. s[i + a + 1 + 1].name \in Load!WaitsFor(s[i].name)
    BY <2>2, <2>3, WaitsFurther
  <2> QED BY <2>1, <2>4
<1>3. \A a \in 0 .. m : a \in S
  BY <1>1, <1>2, UpTo
<1>4. j - i - 1 \in 0 .. m /\ i + (j - i - 1) + 1 = j
  OBVIOUS
<1>5. j - i - 1 \in S
  BY <1>3, <1>4
<1> QED BY <1>4, <1>5

(* Steps of the search. *)

Stacks(S) == Seq([name : S, dep : Nat \ {0}])

LEMMA FramesOf ==
    ASSUME LoadTyped, NEW t \in Callers, stack[t] # << >>, NEW s, s = stack[t]
    PROVE  /\ s \in Stacks(Load!Plugins) /\ Len(s) \in Nat \ {0} /\ DOMAIN s = 1 .. Len(s)
           /\ \A i \in DOMAIN s : s[i].name \in Load!Plugins /\ s[i].dep \in Nat \ {0}
           /\ Load!Innermost(t) = s[Len(s)] /\ Load!Pop(t) = SubSeq(s, 1, Len(s) - 1)
<1>1. s \in Stacks(Load!Plugins)
  BY Zenon DEF LoadTyped, Stacks
<1>2. PICK F : F = [name : Load!Plugins, dep : Nat \ {0}]
  OBVIOUS
<1>3. s \in Seq(F)
  BY <1>1, <1>2 DEF Stacks
<1>4. Len(s) \in Nat \ {0} /\ DOMAIN s = 1 .. Len(s) /\ \A i \in DOMAIN s : s[i] \in F
  BY <1>3
<1>5. \A i \in DOMAIN s : s[i].name \in Load!Plugins /\ s[i].dep \in Nat \ {0}
  BY <1>2, <1>4
<1> QED BY <1>1, <1>4, <1>5 DEF Load!Innermost, Load!Pop

LEMMA NoFrames ==
    ASSUME NEW st, Deep(<< >>, st), NEW p \in Load!Plugins
    PROVE  st[p] # 1
<1>1. DOMAIN << >> = {}
  OBVIOUS
<1> QED BY <1>1, Zenon DEF Deep

\* load_one of a plugin of the table that is not begun, from load_plugins
LEMMA DeepFirst ==
    ASSUME LoadTyped, Deep(<< >>, state), NEW p \in Load!InTable, p \in Load!Plugins
    PROVE  Deep(<<Load!Frame(p)>>, [state EXCEPT ![p] = 1])
<1>. PICK s : s = <<Load!Frame(p)>>
  OBVIOUS
<1>. PICK st : st = [state EXCEPT ![p] = 1]
  OBVIOUS
<1>1. DOMAIN s = {1} /\ s[1].name = p /\ s[1].dep = 1 /\ 1 + 1 \notin {1}
  BY DEF Load!Frame
<1>2. \A q \in Load!Plugins : st[q] = 1 <=> q = p
  <2>1. \A q \in Load!Plugins : st[q] = IF q = p THEN 1 ELSE state[q]
    BY DEF LoadTyped
  <2> QED BY <2>1, NoFrames, Zenon
<1>3. Load!Deps(p) = Load!Deps(p) /\ \A d \in DOMAIN Load!Deps(p) : ~(d < 1)
  BY DepsAre
<1> QED BY <1>1, <1>2, <1>3 DEF Deep

\* what a call that goes on to its next dependency leaves on the stack
Ahead(s, s1) ==
    /\ DOMAIN s1 = DOMAIN s
    /\ \A i \in DOMAIN s : s1[i].name = s[i].name /\ (i # Len(s) => s1[i].dep = s[i].dep)
    /\ s1[Len(s)].dep = s[Len(s)].dep + 1

LEMMA Passes ==
    ASSUME LoadTyped, NEW t \in Callers, stack[t] # << >>, NEW s, s = stack[t],
           NEW s1, s1 = Append(Load!Pop(t), [Load!Innermost(t) EXCEPT !.dep = @ + 1])
    PROVE  s1 \in Stacks(Load!Plugins) /\ Len(s1) = Len(s) /\ Ahead(s, s1)
<1>. PICK F : F = [name : Load!Plugins, dep : Nat \ {0}]
  OBVIOUS
<1>1. /\ s \in Seq(F) /\ Len(s) \in Nat \ {0} /\ DOMAIN s = 1 .. Len(s)
      /\ Load!Innermost(t) = s[Len(s)] /\ Load!Pop(t) = SubSeq(s, 1, Len(s) - 1)
  BY FramesOf DEF Stacks
<1>2. PICK n \in Nat \ {0} : n = Len(s)
  BY <1>1
<1>3. PICK f \in F : f = s[n]
  BY <1>1, <1>2, LastOne, Zenon
<1>4. PICK g : g = [f EXCEPT !.dep = @ + 1]
  OBVIOUS
<1>5. g \in F /\ g.name = f.name /\ g.dep = f.dep + 1
  BY <1>4
<1>6. s1 = Append(SubSeq(s, 1, Len(s) - 1), g)
  BY <1>1, <1>2, <1>3, <1>4
<1>7. s # << >>
  OBVIOUS
<1>9. s1 \in Seq(F) /\ Len(s1) = n /\ DOMAIN s1 = 1 .. n /\ s1[n] = g /\ \A i \in 1 .. n - 1 : s1[i] = s[i]
  <2>1. s1 \in Seq(F) /\ Renewed(s1, s, g, n)
    BY <1>1, <1>2, <1>5, <1>6, <1>7, Replaced, Zenon
  <2> QED BY <2>1, Zenon DEF Renewed
<1>10. \A i \in 1 .. n : i = n \/ i \in 1 .. n - 1
  OBVIOUS
<1>11. \A i \in 1 .. n : s1[i].name = s[i].name /\ (i # n => s1[i].dep = s[i].dep)
  BY <1>3, <1>5, <1>9, <1>10
<1>12. s1[n].dep = s[n].dep + 1
  BY <1>3, <1>5, <1>9
<1>13. Ahead(s, s1)
  <2>1. DOMAIN s = 1 .. n /\ DOMAIN s1 = 1 .. n /\ Len(s) = n
    BY <1>1, <1>2, <1>9
  <2> QED BY <1>11, <1>12, <2>1 DEF Ahead
<1> QED BY <1>2, <1>9, <1>13 DEF Stacks

\* the next dependency is passed: it is not there, loaded, or under way further out
LEMMA DeepPast ==
    ASSUME LoadTyped, NEW t \in Callers, stack[t] # << >>, NEW s, s = stack[t], Deep(s, state),
           NEW n, n = Len(s), s[n].dep =< Len(Load!Deps(s[n].name)),
           NEW d, d = Load!Deps(s[n].name)[s[n].dep], d \in Load!InTable => d \in Load!Plugins /\ state[d] # 0,
           NEW s1, Ahead(s, s1)
    PROVE  Deep(s1, state)
<1>1. /\ n \in Nat \ {0} /\ DOMAIN s = 1 .. n /\ n \in DOMAIN s
      /\ \A i \in DOMAIN s : s[i].name \in Load!Plugins /\ s[i].dep \in Nat \ {0}
  <2>1. /\ Len(s) \in Nat \ {0} /\ DOMAIN s = 1 .. Len(s)
        /\ \A i \in DOMAIN s : s[i].name \in Load!Plugins /\ s[i].dep \in Nat \ {0}
    BY FramesOf
  <2> QED BY <2>1
<1>2. DOMAIN s1 = 1 .. n /\ \A i \in 1 .. n : s1[i].name = s[i].name
  BY <1>1 DEF Ahead
<1>3. /\ \A i \in DOMAIN s1 : s1[i].name \in Load!InTable
      /\ \A i, j \in DOMAIN s1 : s1[i].name = s1[j].name => i = j
      /\ \A p \in Load!Plugins : state[p] = 1 <=> \E i \in DOMAIN s1 : s1[i].name = p
  <2>1. /\ \A i \in 1 .. n : s[i].name \in Load!InTable
        /\ \A i, j \in 1 .. n : s[i].name = s[j].name => i = j
        /\ \A p \in Load!Plugins : state[p] = 1 <=> \E i \in 1 .. n : s[i].name = p
    <3>1. /\ \A i \in DOMAIN s : s[i].name \in Load!InTable
          /\ \A i, j \in DOMAIN s : s[i].name = s[j].name => i = j
          /\ \A p \in Load!Plugins : state[p] = 1 <=> \E i \in DOMAIN s : s[i].name = p
      BY DEF Deep
    <3>2. DOMAIN s = 1 .. n
      BY <1>1
    <3> QED BY <3>1, <3>2
  <2>2. \A i \in 1 .. n : s1[i].name \in Load!InTable
    BY <1>2, <2>1
  <2>3. \A i, j \in 1 .. n : s1[i].name = s1[j].name => i = j
    BY <1>2, <2>1
  <2>4. \A p \in Load!Plugins : state[p] = 1 <=> \E i \in 1 .. n : s1[i].name = p
    BY <1>2, <2>1
  <2> QED BY <1>2, <2>2, <2>3, <2>4, Zenon
<1>4. \A i \in DOMAIN s1 : i + 1 \in DOMAIN s1 => s1[i + 1].name \in Load!DepsIn(s1[i].name)
  BY <1>1, <1>2 DEF Deep
<1>5. ASSUME NEW i \in DOMAIN s1, NEW e \in DOMAIN Load!Deps(s1[i].name), e < s1[i].dep,
             Load!Deps(s1[i].name)[e] \in Load!InTable
      PROVE  \/ state[Load!Deps(s1[i].name)[e]] = 2
             \/ \E j \in DOMAIN s1 : j =< i + 1 /\ s1[j].name = Load!Deps(s1[i].name)[e]
  <2>1. i \in DOMAIN s /\ s1[i].name = s[i].name /\ s[i].name \in Load!Plugins
    BY <1>1, <1>2
  <2>2. PICK q : q = Load!Deps(s[i].name)[e]
    OBVIOUS
  <2>3. CASE e < s[i].dep
    <3>1. state[q] = 2 \/ \E j \in DOMAIN s : j =< i + 1 /\ s[j].name = q
      BY <1>5, <2>1, <2>2, <2>3 DEF Deep
    <3> QED BY <1>1, <1>2, <2>1, <2>2, <3>1
  <2>4. CASE ~(e < s[i].dep)
    <3>1. i = n /\ e = s[n].dep
      <4>1. e \in Nat /\ s[i].dep \in Nat
        BY <1>1, <2>1, DepsAre
      <4>2. i = n
        BY <1>1, <1>5, <2>1, <2>4 DEF Ahead
      <4>3. s1[n].dep = s[n].dep + 1
        BY DEF Ahead
      <4> QED BY <1>5, <2>4, <4>1, <4>2, <4>3
    <3>2. q = d /\ d \in Load!InTable /\ d \in Load!Plugins /\ state[d] # 0
      BY <1>5, <2>1, <2>2, <3>1
    <3>3. state[d] \in 0 .. 2
      BY <3>2 DEF LoadTyped
    <3>4. CASE state[d] = 1
      <4>1. PICK j \in DOMAIN s : s[j].name = d
        BY <3>2, <3>4 DEF Deep
      <4>2. j \in DOMAIN s1 /\ j =< i + 1 /\ s1[j].name = q
        BY <1>1, <1>2, <3>1, <3>2, <4>1
      <4> QED BY <2>1, <2>2, <4>2
    <3> QED BY <2>1, <2>2, <3>2, <3>3, <3>4
  <2> QED BY <2>3, <2>4
<1> QED BY <1>3, <1>4, <1>5 DEF Deep

\* the next dependency is not begun: load_one calls itself for it
LEMMA DeepDown ==
    ASSUME LoadTyped, NEW t \in Callers, stack[t] # << >>, NEW s, s = stack[t], Deep(s, state),
           NEW n, n = Len(s), s[n].dep =< Len(Load!Deps(s[n].name)),
           NEW d \in Load!InTable, d = Load!Deps(s[n].name)[s[n].dep], d \in Load!Plugins, state[d] = 0,
           NEW s1, Ahead(s, s1), Len(s1) = n,
           NEW s2, Extended(s2, s1, Load!Frame(d), n + 1)
    PROVE  Deep(s2, [state EXCEPT ![d] = 1])
<1>. PICK st : st = [state EXCEPT ![d] = 1]
  OBVIOUS
<1>1. /\ n \in Nat \ {0} /\ DOMAIN s = 1 .. n /\ n \in DOMAIN s
      /\ \A i \in DOMAIN s : s[i].name \in Load!Plugins /\ s[i].dep \in Nat \ {0}
  <2>1. /\ Len(s) \in Nat \ {0} /\ DOMAIN s = 1 .. Len(s)
        /\ \A i \in DOMAIN s : s[i].name \in Load!Plugins /\ s[i].dep \in Nat \ {0}
    BY FramesOf
  <2> QED BY <2>1
<1>2. DOMAIN s2 = 1 .. n + 1 /\ s2[n + 1].name = d /\ s2[n + 1].dep = 1 /\ \A i \in 1 .. n : s2[i] = s1[i]
  <2>1. n + 1 - 1 = n
    BY <1>1
  <2>2. DOMAIN s2 = 1 .. n + 1 /\ s2[n + 1] = Load!Frame(d) /\ \A i \in 1 .. n + 1 - 1 : s2[i] = s1[i]
    BY DEF Extended
  <2>3. \A i \in 1 .. n : s2[i] = s1[i]
    BY <2>1, <2>2, Zenon
  <2>4. s2[n + 1].name = d /\ s2[n + 1].dep = 1
    BY <2>2 DEF Load!Frame
  <2> QED BY <2>2, <2>3, <2>4, Zenon
<1>3. /\ \A i \in 1 .. n : s2[i].name = s[i].name /\ (i # n => s2[i].dep = s[i].dep)
      /\ s2[n].dep = s[n].dep + 1
  <2>1. \A i \in 1 .. n : s1[i].name = s[i].name /\ (i # n => s1[i].dep = s[i].dep)
    BY <1>1 DEF Ahead
  <2>2. s1[n].dep = s[n].dep + 1 /\ n \in 1 .. n
    BY <1>1 DEF Ahead
  <2> QED BY <1>2, <2>1, <2>2
<1>4. /\ \A i \in 1 .. n : s[i].name \in Load!InTable
      /\ \A i, j \in 1 .. n : s[i].name = s[j].name => i = j
      /\ \A p \in Load!Plugins : state[p] = 1 <=> \E i \in 1 .. n : s[i].name = p
  <2>1. /\ \A i \in DOMAIN s : s[i].name \in Load!InTable
        /\ \A i, j \in DOMAIN s : s[i].name = s[j].name => i = j
        /\ \A p \in Load!Plugins : state[p] = 1 <=> \E i \in DOMAIN s : s[i].name = p
    BY DEF Deep
  <2>2. DOMAIN s = 1 .. n
    BY <1>1
  <2> QED BY <2>1, <2>2
<1>5. \A i \in 1 .. n + 1 : i \in 1 .. n \/ i = n + 1
  BY <1>1
<1>6. \A i \in 1 .. n : s[i].name # d
  <2>1. ~(state[d] = 1)
    OBVIOUS
  <2>2. ASSUME NEW i \in 1 .. n, s[i].name = d PROVE FALSE
    <3>1. state[d] = 1
      BY <1>4, <2>2, Zenon
    <3> QED BY <2>1, <3>1
  <2> QED BY <2>2
<1>7. \A p \in Load!Plugins : st[p] = IF p = d THEN 1 ELSE state[p]
  BY DEF LoadTyped
<1>8. \A i \in DOMAIN s2 : s2[i].name \in Load!InTable
  BY <1>2, <1>3, <1>4, <1>5
<1>9. ASSUME NEW i \in DOMAIN s2, NEW j \in DOMAIN s2, s2[i].name = s2[j].name PROVE i = j
  BY <1>2, <1>3, <1>4, <1>5, <1>6, <1>9
<1>10. ASSUME NEW p \in Load!Plugins PROVE st[p] = 1 <=> \E i \in DOMAIN s2 : s2[i].name = p
  <2>1. CASE p = d
    <3>1. n + 1 \in DOMAIN s2 /\ s2[n + 1].name = p
      BY <1>1, <1>2, <2>1
    <3> QED BY <1>7, <2>1, <3>1
  <2>2. CASE p # d
    <3>1. (\E i \in DOMAIN s2 : s2[i].name = p) <=> \E i \in 1 .. n : s[i].name = p
      <4>1. ASSUME NEW i \in DOMAIN s2, s2[i].name = p PROVE i \in 1 .. n /\ s[i].name = p
        BY <1>2, <1>3, <1>5, <2>2, <4>1
      <4>2. ASSUME NEW i \in 1 .. n, s[i].name = p PROVE i \in DOMAIN s2 /\ s2[i].name = p
        BY <1>1, <1>2, <1>3, <4>2
      <4> QED BY <4>1, <4>2
    <3> QED BY <1>4, <1>7, <2>2, <3>1
  <2> QED BY <2>1, <2>2
<1>11. ASSUME NEW i \in DOMAIN s2, i + 1 \in DOMAIN s2 PROVE s2[i + 1].name \in Load!DepsIn(s2[i].name)
  <2>1. i \in 1 .. n
    BY <1>1, <1>2, <1>11
  <2>2. CASE i = n
    <3>1. Load!Deps(s[n].name)[s[n].dep] \in {Load!Deps(s[n].name)[e] : e \in DOMAIN Load!Deps(s[n].name)}
      <4>1. s[n].dep \in DOMAIN Load!Deps(s[n].name)
        <5>1. s[n].dep \in Nat \ {0} /\ s[n].name \in Load!Plugins
          BY <1>1
        <5> QED BY <5>1, DepsAre
      <4> QED BY <4>1
    <3>2. d \in Load!DepsIn(s[n].name)
      BY <3>1 DEF Load!DepsIn
    <3> QED BY <1>2, <1>3, <2>1, <2>2, <3>2
  <2>3. CASE i # n
    <3>1. i + 1 \in 1 .. n /\ i \in DOMAIN s /\ i + 1 \in DOMAIN s
      BY <1>1, <2>1, <2>3
    <3>2. s[i + 1].name \in Load!DepsIn(s[i].name)
      BY <3>1 DEF Deep
    <3> QED BY <1>3, <2>1, <3>1, <3>2
  <2> QED BY <2>2, <2>3
<1>12. ASSUME NEW i \in DOMAIN s2, NEW e \in DOMAIN Load!Deps(s2[i].name), e < s2[i].dep,
              NEW q \in Load!InTable, q = Load!Deps(s2[i].name)[e]
       PROVE  st[q] = 2 \/ \E j \in DOMAIN s2 : j =< i + 1 /\ s2[j].name = q
  <2>1. CASE i = n + 1
    <3>1. e \in Nat \ {0} /\ e < 1
      BY <1>2, <1>12, <2>1, DepsAre
    <3> QED BY <3>1
  <2>2. CASE i \in 1 .. n
    <3>1. s2[i].name = s[i].name /\ s[i].name \in Load!Plugins /\ s[i].dep \in Nat /\ e \in Nat
      <4>1. s2[i].name = s[i].name /\ s[i].name \in Load!Plugins /\ s[i].dep \in Nat
        BY <1>1, <1>3, <2>2
      <4> QED BY <4>1, DepsAre
    <3>2. CASE e < s[i].dep
      <4>1. state[q] = 2 \/ \E j \in DOMAIN s : j =< i + 1 /\ s[j].name = q
        BY <1>1, <1>12, <2>2, <3>1, <3>2 DEF Deep
      <4>2. CASE state[q] = 2
        <5>1. q \in Load!Plugins
          BY TableIs
        <5>2. q # d
          BY <4>2
        <5> QED BY <1>7, <4>2, <5>1, <5>2
      <4>3. ASSUME NEW j \in DOMAIN s, j =< i + 1, s[j].name = q PROVE j \in DOMAIN s2 /\ s2[j].name = q
        BY <1>1, <1>2, <1>3, <4>3
      <4> QED BY <4>1, <4>2, <4>3
    <3>3. CASE ~(e < s[i].dep)
      <4>1. i = n /\ e = s[n].dep
        BY <1>3, <1>12, <2>2, <3>1, <3>3
      <4>2. q = d
        BY <1>12, <3>1, <4>1
      <4>3. n + 1 \in DOMAIN s2 /\ n + 1 =< i + 1
        BY <1>1, <1>2, <4>1
      <4> QED BY <1>2, <4>2, <4>3
    <3> QED BY <3>2, <3>3
  <2> QED BY <1>2, <1>5, <2>1, <2>2
<1> QED BY <1>8, <1>9, <1>10, <1>11, <1>12 DEF Deep

\* the innermost call has loaded its plugin and returns
LEMMA DeepUp ==
    ASSUME LoadTyped, NEW t \in Callers, stack[t] # << >>, NEW s, s = stack[t], Deep(s, state),
           NEW n, n = Len(s), NEW r, ButLast(r, s, n)
    PROVE  Deep(r, [state EXCEPT ![s[n].name] = 2])
<1>. PICK p : p = s[n].name
  OBVIOUS
<1>. PICK st : st = [state EXCEPT ![p] = 2]
  OBVIOUS
<1>1. /\ n \in Nat \ {0} /\ DOMAIN s = 1 .. n /\ n \in DOMAIN s /\ p \in Load!Plugins
      /\ \A i \in DOMAIN s : s[i].name \in Load!Plugins /\ s[i].dep \in Nat \ {0}
  <2>1. /\ Len(s) \in Nat \ {0} /\ DOMAIN s = 1 .. Len(s)
        /\ \A i \in DOMAIN s : s[i].name \in Load!Plugins /\ s[i].dep \in Nat \ {0}
    BY FramesOf
  <2> QED BY <2>1
<1>2. DOMAIN r = 1 .. n - 1 /\ \A i \in 1 .. n - 1 : r[i] = s[i]
  BY DEF ButLast
<1>3. \A i \in 1 .. n - 1 : i \in DOMAIN s /\ i # n
  BY <1>1
<1>4. \A q \in Load!Plugins : st[q] = IF q = p THEN 2 ELSE state[q]
  BY DEF LoadTyped
<1>5. \A i \in DOMAIN r : r[i].name \in Load!InTable
  BY <1>2, <1>3 DEF Deep
<1>6. \A i, j \in DOMAIN s : s[i].name = s[j].name => i = j
  BY Zenon DEF Deep
<1>7. \A i, j \in DOMAIN r : r[i].name = r[j].name => i = j
  BY <1>2, <1>3, <1>6
<1>8. ASSUME NEW q \in Load!Plugins PROVE st[q] = 1 <=> \E i \in DOMAIN r : r[i].name = q
  <2>1. CASE q = p
    <3>1. ASSUME NEW i \in DOMAIN r, r[i].name = p PROVE FALSE
      BY <1>1, <1>2, <1>3, <1>6, <3>1
    <3> QED BY <1>4, <2>1, <3>1
  <2>2. CASE q # p
    <3>1. state[q] = 1 <=> \E i \in DOMAIN s : s[i].name = q
      BY Zenon DEF Deep
    <3>2. ASSUME NEW i \in DOMAIN s, s[i].name = q PROVE i \in DOMAIN r /\ r[i].name = q
      <4>1. i \in 1 .. n - 1
        BY <1>1, <2>2, <3>2
      <4> QED BY <1>2, <3>2, <4>1
    <3>3. ASSUME NEW i \in DOMAIN r, r[i].name = q PROVE i \in DOMAIN s /\ s[i].name = q
      BY <1>2, <1>3, <3>3
    <3> QED BY <1>4, <2>2, <3>1, <3>2, <3>3
  <2> QED BY <2>1, <2>2
<1>9. ASSUME NEW i \in DOMAIN r, i + 1 \in DOMAIN r PROVE r[i + 1].name \in Load!DepsIn(r[i].name)
  <2>1. s[i + 1].name \in Load!DepsIn(s[i].name)
    BY <1>2, <1>3, <1>9 DEF Deep
  <2> QED BY <1>2, <1>9, <2>1
<1>10. ASSUME NEW i \in DOMAIN r, NEW e \in DOMAIN Load!Deps(r[i].name), e < r[i].dep,
              NEW q \in Load!InTable, q = Load!Deps(r[i].name)[e]
       PROVE  st[q] = 2 \/ \E j \in DOMAIN r : j =< i + 1 /\ r[j].name = q
  <2>1. r[i] = s[i] /\ i \in DOMAIN s /\ q \in Load!Plugins
    BY <1>2, <1>3, TableIs
  <2>2. state[q] = 2 \/ \E j \in DOMAIN s : j =< i + 1 /\ s[j].name = q
    BY <1>10, <2>1 DEF Deep
  <2>3. CASE state[q] = 2
    BY <1>4, <2>1, <2>3
  <2>4. ASSUME NEW j \in DOMAIN s, j =< i + 1, s[j].name = q PROVE st[q] = 2 \/ (j \in DOMAIN r /\ r[j].name = q)
    <3>1. CASE j = n
      BY <1>4, <2>1, <2>4, <3>1
    <3>2. CASE j # n
      <4>1. j \in 1 .. n - 1
        BY <1>1, <3>2
      <4> QED BY <1>2, <2>4, <4>1
    <3> QED BY <3>1, <3>2
  <2> QED BY <2>2, <2>3, <2>4
<1> QED BY <1>5, <1>7, <1>8, <1>9, <1>10 DEF Deep

(* What each action keeps. *)

\* the definitions that only look at the table and the after= lines
LEMMA SameTable ==
    ASSUME table' = table, after' = after
    PROVE  /\ Load!InTable' = Load!InTable /\ \A p : Load!Deps(p)' = Load!Deps(p)
           /\ \A p : Load!DepsIn(p)' = Load!DepsIn(p)
           /\ \A p : Load!WaitsFor(p)' = Load!WaitsFor(p)
<1>1. Load!InTable' = Load!InTable
  BY Zenon DEF Load!InTable
<1>2. \A p : Load!Deps(p)' = Load!Deps(p)
  BY Zenon DEF Load!Deps
<1>3. \A p : Load!DepsIn(p)' = Load!DepsIn(p)
  BY <1>1, <1>2, Zenon DEF Load!DepsIn
<1>4. \A p : Load!WaitsFor(p)' = Load!WaitsFor(p)
  BY <1>1, <1>3, Zenon DEF Load!WaitsFor
<1> QED BY <1>1, <1>2, <1>3, <1>4

LEMMA SearchedIs ==
    ASSUME table' = table, after' = after, NEW t \in Callers, NEW s, s = stack'[t], NEW st, st = state',
           Deep(s, st), Wide(s, st, top'[t])
    PROVE  Searched(t)'
<1>1. Deep(stack[t], state)'
  <2>1. /\ \A i \in DOMAIN s : s[i].name \in Load!InTable'
        /\ \A i, j \in DOMAIN s : s[i].name = s[j].name => i = j
        /\ \A p \in Load!Plugins : st[p] = 1 <=> \E i \in DOMAIN s : s[i].name = p
        /\ \A i \in DOMAIN s : i + 1 \in DOMAIN s => s[i + 1].name \in Load!DepsIn(s[i].name)'
    <3>1. \A i \in DOMAIN s : s[i].name \in Load!InTable
      BY Zenon DEF Deep
    <3>2. \A i, j \in DOMAIN s : s[i].name = s[j].name => i = j
      BY Zenon DEF Deep
    <3>3. \A p \in Load!Plugins : st[p] = 1 <=> \E i \in DOMAIN s : s[i].name = p
      BY Zenon DEF Deep
    <3>4. \A i \in DOMAIN s : i + 1 \in DOMAIN s => s[i + 1].name \in Load!DepsIn(s[i].name)
      BY Zenon DEF Deep
    <3>5. Load!InTable' = Load!InTable /\ \A i \in DOMAIN s : Load!DepsIn(s[i].name)' = Load!DepsIn(s[i].name)
      BY SameTable, Zenon
    <3>6. \A i \in DOMAIN s : i + 1 \in DOMAIN s => s[i + 1].name \in Load!DepsIn(s[i].name)'
      BY <3>4, <3>5
    <3> QED BY <3>1, <3>2, <3>3, <3>5, <3>6, Zenon
  <2>2. \A i \in DOMAIN s : \A d \in DOMAIN Load!Deps(s[i].name)' :
          d < s[i].dep /\ Load!Deps(s[i].name)'[d] \in Load!InTable' =>
             \/ st[Load!Deps(s[i].name)'[d]] = 2
             \/ \E j \in DOMAIN s : j =< i + 1 /\ s[j].name = Load!Deps(s[i].name)'[d]
    <3>1. \A i \in DOMAIN s : \A d \in DOMAIN Load!Deps(s[i].name) :
            d < s[i].dep /\ Load!Deps(s[i].name)[d] \in Load!InTable =>
               \/ st[Load!Deps(s[i].name)[d]] = 2
               \/ \E j \in DOMAIN s : j =< i + 1 /\ s[j].name = Load!Deps(s[i].name)[d]
      BY Zenon DEF Deep
    <3>2. Load!InTable' = Load!InTable /\ \A i \in DOMAIN s : Load!Deps(s[i].name)' = Load!Deps(s[i].name)
      BY SameTable, Zenon
    <3> QED BY <3>1, <3>2
  <2> QED BY <2>1, <2>2 DEF Deep
<1>2. Wide(stack[t], state, top[t])'
  BY Zenon DEF Wide
<1> QED BY <1>1, <1>2 DEF Searched

LEMMA SetUpStays ==
    ASSUME OneSetUp, NEW t \in Callers, pc[t] = "load", UNCHANGED <<mode, threads, enabled, pc, initDone, table, up>>
    PROVE  OneSetUp' /\ ~up /\ \A u \in Callers : pc'[u] = "load" => u = t
<1>1. Begun /\ Begun'
  BY DEF Begun
<1>2. table = Load!Listed /\ Load!Listed' = Load!Listed
  BY <1>1 DEF OneSetUp, Load!Listed
<1>3. ~up /\ \A u \in Callers : pc[u] = "load" => u = t
  BY DEF OneSetUp, SetsUp
<1>4. OneSetUp'
  BY <1>1, <1>2 DEF OneSetUp, SetsUp
<1> QED BY <1>3, <1>4

\* a step of the search that loads nothing
LEMMA MarksOnly ==
    ASSUME Loaded, table' = table, after' = after, loads' = loads, ~up',
           \A p \in Load!Plugins : (state'[p] = 2 <=> state[p] = 2) /\ (state'[p] # 0 => p \in Load!InTable)
    PROVE  Loaded'
<1>1. \A p : Load!Tried(p)' <=> Load!Tried(p)
  BY DEF Load!Tried
<1>2. Load!AfterHolds'
  BY <1>1, SameTable DEF Loaded, Load!AfterHolds, Load!TriedBefore
<1>3. \A i, k : RootedAt(i, k)' <=> RootedAt(i, k)
  BY SameTable, Zenon DEF RootedAt
<1>4. \A i \in DOMAIN loads' : \E k \in DOMAIN table' : RootedAt(i, k)'
  BY <1>3, Zenon DEF Loaded
<1>5. \A p \in Load!Plugins : state'[p] = 2 <=> Load!Tried(p)'
  BY <1>1 DEF Loaded
<1>6. \A p \in Load!Plugins : state'[p] # 0 => p \in Load!InTable'
  BY SameTable, Zenon
<1>7. \A i, j \in DOMAIN loads' : loads'[i].name = loads'[j].name => i = j
  BY DEF Loaded
<1> QED BY <1>2, <1>4, <1>5, <1>6, <1>7, Zenon DEF Loaded

LEMMA StackTyped ==
    ASSUME LoadTyped, NEW t \in Callers, NEW s \in Stacks(Load!Plugins), stack' = [stack EXCEPT ![t] = s]
    PROVE  stack' \in [Callers -> Stacks(Load!Plugins)] /\ stack'[t] = s
<1>. PICK X : X = Stacks(Load!Plugins)
  OBVIOUS
<1>1. stack \in [Callers -> X]
  BY DEF LoadTyped, Stacks
<1>2. stack' \in [Callers -> X] /\ stack'[t] = s
  BY <1>1
<1> QED BY <1>2

LEMMA FrameTyped == ASSUME NEW p \in Load!Plugins PROVE Load!Frame(p) \in [name : Load!Plugins, dep : Nat \ {0}]
  BY DEF Load!Frame

LEMMA MarkedIs ==
    ASSUME LoadTyped, Loaded, NEW p \in Load!InTable
    PROVE  /\ Load!Marked(p) \in [Load!Plugins -> 0 .. 2] /\ Load!Marked(p)[p] # 0
           /\ \A q \in Load!Plugins : /\ Load!Marked(p)[q] = 2 <=> state[q] = 2
                                      /\ Load!Marked(p)[q] # 0 => q \in Load!InTable
                                      /\ state[q] # 0 => Load!Marked(p)[q] # 0
<1>1. p \in Load!Plugins
  BY TableIs
<1>2. state \in [Load!Plugins -> 0 .. 2] /\ \A q \in Load!Plugins : state[q] # 0 => q \in Load!InTable
  BY DEF LoadTyped, Loaded
<1>3. CASE state[p] = 0
  <2>1. Load!Marked(p) = [state EXCEPT ![p] = 1]
    BY <1>3 DEF Load!Marked
  <2> QED BY <1>1, <1>2, <1>3, <2>1
<1>4. CASE state[p] # 0
  <2>1. Load!Marked(p) = state
    BY <1>4 DEF Load!Marked
  <2> QED BY <1>1, <1>2, <1>4, <2>1
<1> QED BY <1>3, <1>4

LEMMA Pushed ==
    ASSUME NEW P, NEW s \in Stacks(P), NEW g \in [name : P, dep : Nat \ {0}], NEW q, q = Append(s, g)
    PROVE  q \in Stacks(P) /\ Extended(q, s, g, Len(s) + 1)
  BY AtTheEnd, Zenon DEF Stacks

LEMMA KeepsTop ==
    ASSUME LoadInv, NEW t \in Callers, Load!NextTop(t)
    PROVE  LoadInv'
<1>. PICK k : k = top[t]
  OBVIOUS
<1>. PICK p : p = table[k]
  OBVIOUS
<1>. PICK s : s = Load!Called(p, << >>)
  OBVIOUS
<1>. PICK st : st = Load!Marked(p)
  OBVIOUS
<1>1. /\ pc[t] = "load" /\ stack[t] = << >> /\ k =< Len(table)
      /\ stack' = [stack EXCEPT ![t] = s] /\ state' = st /\ top' = [top EXCEPT ![t] = @ + 1]
      /\ UNCHANGED <<mode, threads, enabled, after, pc, initDone, table, loads, callbacks, ran, up>>
  BY DEF Load!NextTop
<1>2. LoadTyped /\ OneSetUp /\ Loaded /\ Deep(<< >>, state) /\ Wide(<< >>, state, k)
  BY <1>1 DEF LoadInv, Searched
<1>3. k \in Nat \ {0} /\ k \in DOMAIN table
  <2>1. k \in Nat \ {0}
    BY <1>2 DEF LoadTyped
  <2> QED BY <1>1, <1>2, <2>1, TableIs
<1>4. p \in Load!InTable /\ p \in Load!Plugins
  BY <1>2, <1>3, TableIs
<1>5. /\ st \in [Load!Plugins -> 0 .. 2] /\ st[p] # 0
      /\ \A q \in Load!Plugins : /\ st[q] = 2 <=> state[q] = 2
                                 /\ st[q] # 0 => q \in Load!InTable
                                 /\ state[q] # 0 => st[q] # 0
  BY <1>2, <1>4, MarkedIs
<1>6. s \in Stacks(Load!Plugins) /\ Deep(s, st) /\ (s # << >> => s[1].name = p)
  <2>1. CASE state[p] = 0
    <3>1. s = <<Load!Frame(p)>> /\ st = [state EXCEPT ![p] = 1]
      BY <2>1 DEF Load!Called, Load!Marked
    <3>2. Deep(s, st)
      BY <1>2, <1>4, <3>1, DeepFirst
    <3>3. s[1].name = p
      BY <3>1 DEF Load!Frame
    <3>4. s \in Stacks(Load!Plugins)
      <4>1. Load!Frame(p) \in [name : Load!Plugins, dep : Nat \ {0}]
        BY <1>4, FrameTyped
      <4>2. <<Load!Frame(p)>> \in Seq([name : Load!Plugins, dep : Nat \ {0}])
        BY <4>1, OneEntry, Zenon
      <4> QED BY <3>1, <4>2, Zenon DEF Stacks
    <3> QED BY <3>2, <3>3, <3>4
  <2>2. CASE state[p] # 0
    BY <1>2, <2>2 DEF Load!Called, Load!Marked, Stacks
  <2> QED BY <2>1, <2>2
<1>7. stack' \in [Callers -> Stacks(Load!Plugins)] /\ stack'[t] = s
  BY <1>1, <1>2, <1>6, StackTyped
<1>8. top' \in [Callers -> Nat \ {0}] /\ top'[t] = k + 1
  BY <1>1, <1>2 DEF LoadTyped
<1>9. LoadTyped'
  BY <1>1, <1>2, <1>5, <1>7, <1>8 DEF LoadTyped, Stacks
<1>10. OneSetUp' /\ ~up /\ \A u \in Callers : pc'[u] = "load" => u = t
  BY <1>1, <1>2, SetUpStays
<1>11. Loaded'
  BY <1>1, <1>2, <1>5, <1>10, MarksOnly
<1>12. Wide(s, st, k + 1)
  <2>1. \A j \in DOMAIN table : table[j] \in Load!Plugins /\ j \in Nat
    BY <1>2, TableIs
  <2>2. ASSUME NEW j \in DOMAIN table, j < k PROVE st[table[j]] = 2
    <3>1. state[table[j]] # 0
      BY <1>2, <2>2 DEF Wide
    <3>2. state[table[j]] # 1
      BY <1>2, <2>1, NoFrames
    <3>3. state[table[j]] \in 0 .. 2
      BY <1>2, <2>1 DEF LoadTyped
    <3> QED BY <1>5, <2>1, <3>1, <3>2, <3>3
  <2>3. ASSUME NEW j \in DOMAIN table, j < k + 1 PROVE st[table[j]] # 0
    <3>1. j < k \/ j = k
      BY <1>3, <2>1, <2>3
    <3> QED BY <1>5, <2>2, <3>1
  <2>4. k + 1 - 1 = k
    BY <1>3
  <2> QED BY <1>3, <1>6, <2>2, <2>3, <2>4 DEF Wide
<1>13. Searched(t)'
  BY <1>1, <1>6, <1>7, <1>8, <1>12, SearchedIs
<1> QED BY <1>9, <1>10, <1>11, <1>13 DEF LoadInv

LEMMA KeepsDep ==
    ASSUME LoadInv, NEW t \in Callers, Load!NextDep(t)
    PROVE  LoadInv'
<1>. PICK s : s = stack[t]
  OBVIOUS
<1>. PICK n : n = Len(s)
  OBVIOUS
<1>. PICK s1 : s1 = Append(Load!Pop(t), [Load!Innermost(t) EXCEPT !.dep = @ + 1])
  OBVIOUS
<1>. PICK d : d = Load!Deps(s[n].name)[s[n].dep]
  OBVIOUS
<1>. PICK s2 : s2 = IF d \in Load!InTable THEN Load!Called(d, s1) ELSE s1
  OBVIOUS
<1>. PICK st : st = IF d \in Load!InTable THEN Load!Marked(d) ELSE state
  OBVIOUS
<1>1. /\ pc[t] = "load" /\ s # << >>
      /\ UNCHANGED <<mode, threads, enabled, after, pc, initDone, table, top, loads, callbacks, ran, up>>
  BY DEF Load!NextDep, Load!Waiting
<1>2. LoadTyped /\ OneSetUp /\ Loaded /\ Deep(s, state) /\ Wide(s, state, top[t])
  BY <1>1 DEF LoadInv, Searched
<1>3. /\ n \in Nat \ {0} /\ DOMAIN s = 1 .. n /\ n \in DOMAIN s
      /\ \A i \in DOMAIN s : s[i].name \in Load!Plugins /\ s[i].dep \in Nat \ {0}
      /\ Load!Innermost(t) = s[n]
  <2>1. /\ Len(s) \in Nat \ {0} /\ DOMAIN s = 1 .. Len(s)
        /\ \A i \in DOMAIN s : s[i].name \in Load!Plugins /\ s[i].dep \in Nat \ {0}
        /\ Load!Innermost(t) = s[Len(s)]
    BY <1>1, <1>2, FramesOf
  <2> QED BY <2>1
<1>4. s[n].dep =< Len(Load!Deps(s[n].name))
  BY <1>3 DEF Load!NextDep, Load!Waiting
<1>5. stack' = [stack EXCEPT ![t] = s2] /\ state' = st
  BY <1>3 DEF Load!NextDep
<1>6. s1 \in Stacks(Load!Plugins) /\ Len(s1) = n /\ Ahead(s, s1)
  BY <1>1, <1>2, Passes
<1>7. d \in Load!InTable => d \in Load!Plugins
  BY <1>2, TableIs
<1>8. /\ st \in [Load!Plugins -> 0 .. 2]
      /\ \A q \in Load!Plugins : /\ st[q] = 2 <=> state[q] = 2
                                 /\ st[q] # 0 => q \in Load!InTable
                                 /\ state[q] # 0 => st[q] # 0
  <2>1. CASE d \in Load!InTable
    BY <1>2, <2>1, MarkedIs
  <2>2. CASE d \notin Load!InTable
    BY <1>2, <2>2 DEF LoadTyped, Loaded
  <2> QED BY <2>1, <2>2
<1>9. s2 \in Stacks(Load!Plugins) /\ Deep(s2, st) /\ s2 # << >> /\ s2[1].name = s[1].name
  <2>1. CASE d \in Load!InTable /\ state[d] = 0
    <3>1. s2 = Append(s1, Load!Frame(d)) /\ st = [state EXCEPT ![d] = 1]
      BY <2>1 DEF Load!Called, Load!Marked
    <3>2. s2 \in Stacks(Load!Plugins) /\ Extended(s2, s1, Load!Frame(d), n + 1)
      <4>1. PICK g : g = Load!Frame(d)
        OBVIOUS
      <4>2. s1 \in Stacks(Load!Plugins) /\ g \in [name : Load!Plugins, dep : Nat \ {0}] /\ s2 = Append(s1, g)
        BY <1>6, <1>7, <2>1, <3>1, <4>1, FrameTyped
      <4>3. s2 \in Stacks(Load!Plugins) /\ Extended(s2, s1, g, Len(s1) + 1)
        BY <4>2, Pushed, Zenon
      <4> QED BY <1>6, <4>1, <4>3, Zenon
    <3>3. Deep(s2, st)
      <4>1. d \in Load!InTable /\ d \in Load!Plugins /\ state[d] = 0 /\ stack[t] # << >>
        BY <1>1, <1>7, <2>1
      <4>2. Deep(s2, [state EXCEPT ![d] = 1])
        BY <1>2, <1>4, <1>6, <3>2, <4>1, DeepDown
      <4> QED BY <3>1, <4>2
    <3>4. s2[1] = s1[1] /\ s1[1].name = s[1].name /\ s2 # << >>
      <4>1. 1 \in 1 .. n + 1 - 1 /\ 1 \in 1 .. n /\ 1 \in 1 .. n + 1
        BY <1>3
      <4> QED BY <1>3, <1>6, <3>2, <4>1 DEF Extended, Ahead
    <3> QED BY <3>2, <3>3, <3>4
  <2>2. CASE ~(d \in Load!InTable /\ state[d] = 0)
    <3>1. s2 = s1 /\ st = state
      BY <2>2 DEF Load!Called, Load!Marked
    <3>2. Deep(s1, state)
      BY <1>1, <1>2, <1>4, <1>6, <1>7, <2>2, DeepPast
    <3>3. s1[1].name = s[1].name /\ s1 # << >>
      <4>1. 1 \in 1 .. n
        BY <1>3
      <4> QED BY <1>3, <1>6, <4>1 DEF Ahead
    <3> QED BY <1>6, <3>1, <3>2, <3>3
  <2> QED BY <2>1, <2>2
<1>10. stack' \in [Callers -> Stacks(Load!Plugins)] /\ stack'[t] = s2
  BY <1>2, <1>5, <1>9, StackTyped
<1>11. LoadTyped'
  BY <1>1, <1>2, <1>5, <1>8, <1>10 DEF LoadTyped, Stacks
<1>12. OneSetUp' /\ ~up /\ \A u \in Callers : pc'[u] = "load" => u = t
  BY <1>1, <1>2, SetUpStays
<1>13. Loaded'
  BY <1>1, <1>2, <1>5, <1>8, <1>12, MarksOnly
<1>14. Wide(s2, st, top[t])
  <2>1. \A j \in DOMAIN table : table[j] \in Load!Plugins
    BY <1>2, TableIs
  <2> QED BY <1>1, <1>2, <1>8, <1>9, <2>1 DEF Wide
<1>15. Searched(t)'
  BY <1>1, <1>5, <1>9, <1>10, <1>14, SearchedIs
<1> QED BY <1>11, <1>12, <1>13, <1>15 DEF LoadInv

\* a plugin is loaded: its dependencies and whatever the folder has before the plugin of the table it goes back to have been
LEMMA KeepsLoad ==
    ASSUME LoadInv, NEW t \in Callers, NEW ok \in BOOLEAN, NEW registers \in BOOLEAN, Load!LoadIt(t, ok, registers)
    PROVE  LoadInv'
<1>. PICK s : s = stack[t]
  OBVIOUS
<1>. PICK n : n = Len(s)
  OBVIOUS
<1>. PICK p : p = s[n].name
  OBVIOUS
<1>. PICK r : r = Load!Pop(t)
  OBVIOUS
<1>. PICK st : st = [state EXCEPT ![p] = 2]
  OBVIOUS
<1>. PICK m : m = Len(loads) + 1
  OBVIOUS
<1>. PICK l : l = [name |-> p, ok |-> ok]
  OBVIOUS
<1>1. /\ pc[t] = "load" /\ s # << >> /\ ~Load!Waiting(t)
      /\ UNCHANGED <<mode, threads, enabled, after, pc, initDone, table, top, ran, up>>
  BY DEF Load!LoadIt
<1>2. LoadTyped /\ OneSetUp /\ Loaded /\ Deep(s, state) /\ Wide(s, state, top[t])
  BY <1>1 DEF LoadInv, Searched
<1>3. /\ n \in Nat \ {0} /\ DOMAIN s = 1 .. n /\ n \in DOMAIN s
      /\ \A i \in DOMAIN s : s[i].name \in Load!Plugins /\ s[i].dep \in Nat \ {0}
      /\ Load!Innermost(t) = s[n] /\ r = SubSeq(s, 1, n - 1)
  <2>1. /\ Len(s) \in Nat \ {0} /\ DOMAIN s = 1 .. Len(s)
        /\ \A i \in DOMAIN s : s[i].name \in Load!Plugins /\ s[i].dep \in Nat \ {0}
        /\ Load!Innermost(t) = s[Len(s)] /\ Load!Pop(t) = SubSeq(s, 1, Len(s) - 1)
    BY <1>1, <1>2, FramesOf
  <2> QED BY <2>1
<1>4. p \in Load!Plugins /\ p \in Load!InTable /\ state[p] = 1
  BY <1>2, <1>3 DEF Deep
<1>5. /\ stack' = [stack EXCEPT ![t] = r] /\ state' = st
      /\ loads' = Append(loads, l)
  BY <1>3, <1>4 DEF Load!LoadIt
<1>6. r \in Stacks(Load!Plugins) /\ ButLast(r, s, n)
  <2>1. PICK F : F = [name : Load!Plugins, dep : Nat \ {0}]
    OBVIOUS
  <2>2. s \in Seq(F)
    BY <1>1, <1>2, <2>1, FramesOf DEF Stacks
  <2>3. r \in Seq(F) /\ ButLast(r, s, Len(s))
    BY <1>1, <1>3, <2>2, OffTheEnd
  <2> QED BY <2>1, <2>3 DEF Stacks
<1>7. /\ loads' \in Seq([name : Load!Plugins, ok : BOOLEAN]) /\ m \in Nat \ {0}
      /\ DOMAIN loads = 1 .. m - 1 /\ DOMAIN loads' = 1 .. m /\ loads'[m].name = p
      /\ \A i \in 1 .. m - 1 : loads'[i] = loads[i]
  <2>1. PICK F : F = [name : Load!Plugins, ok : BOOLEAN]
    OBVIOUS
  <2>2. loads \in Seq(F) /\ l \in F
    BY <1>2, <1>4, <2>1 DEF LoadTyped
  <2>3. PICK q : q = Append(loads, l)
    OBVIOUS
  <2>4. q \in Seq(F) /\ Extended(q, loads, l, m)
    BY <2>2, <2>3, AtTheEnd
  <2> QED BY <1>5, <2>1, <2>3, <2>4 DEF Extended
<1>8. \A i \in 1 .. m : i \in 1 .. m - 1 \/ i = m
  BY <1>7
<1>9. \A i \in 1 .. m - 1 : i \in 1 .. m /\ i < m
  BY <1>7
<1>10. st \in [Load!Plugins -> 0 .. 2] /\ \A q \in Load!Plugins : st[q] = IF q = p THEN 2 ELSE state[q]
  <2>1. state \in [Load!Plugins -> 0 .. 2]
    BY <1>2 DEF LoadTyped
  <2> QED BY <1>4, <2>1
<1>11. \A q : Load!Tried(q)' <=> Load!Tried(q) \/ q = p
  <2>1. ASSUME NEW q, Load!Tried(q) PROVE Load!Tried(q)'
    <3>1. PICK i \in 1 .. m - 1 : loads[i].name = q
      BY <1>7, <2>1 DEF Load!Tried
    <3>2. i \in DOMAIN loads' /\ loads'[i].name = q
      BY <1>7, <1>9, <3>1
    <3> QED BY <3>2, Zenon DEF Load!Tried
  <2>2. Load!Tried(p)'
    <3>1. m \in DOMAIN loads'
      BY <1>7
    <3> QED BY <1>7, <3>1, Zenon DEF Load!Tried
  <2>3. ASSUME NEW q, Load!Tried(q)' PROVE Load!Tried(q) \/ q = p
    <3>1. PICK i \in DOMAIN loads' : loads'[i].name = q
      BY <2>3, Zenon DEF Load!Tried
    <3>2. CASE i = m
      BY <1>7, <3>1, <3>2
    <3>3. CASE i \in 1 .. m - 1
      <4>1. loads[i].name = q /\ i \in DOMAIN loads
        BY <1>7, <3>1, <3>3
      <4> QED BY <4>1, Zenon DEF Load!Tried
    <3> QED BY <1>7, <1>8, <3>1, <3>2, <3>3
  <2> QED BY <2>1, <2>2, <2>3
<1>12. /\ \A a, b : Load!TriedBefore(a, b) => Load!TriedBefore(a, b)'
       /\ \A a : Load!Tried(a) => Load!TriedBefore(a, p)'
  <2>1. ASSUME NEW a, NEW b, Load!TriedBefore(a, b) PROVE Load!TriedBefore(a, b)'
    <3>1. PICK i \in DOMAIN loads, j \in DOMAIN loads : i < j /\ loads[i].name = a /\ loads[j].name = b
      BY <2>1, Zenon DEF Load!TriedBefore
    <3>2. i \in DOMAIN loads' /\ j \in DOMAIN loads' /\ loads'[i].name = a /\ loads'[j].name = b
      BY <1>7, <1>9, <3>1
    <3> QED BY <3>1, <3>2, Zenon DEF Load!TriedBefore
  <2>2. ASSUME NEW a, Load!Tried(a) PROVE Load!TriedBefore(a, p)'
    <3>1. PICK i \in DOMAIN loads : loads[i].name = a
      BY <2>2, Zenon DEF Load!Tried
    <3>2. i \in DOMAIN loads' /\ i < m /\ m \in DOMAIN loads' /\ loads'[i].name = a
      BY <1>7, <1>9, <3>1
    <3> QED BY <1>7, <3>2, Zenon DEF Load!TriedBefore
  <2> QED BY <2>1, <2>2
<1>13. \A q \in Load!Plugins : state[q] = 2 <=> Load!Tried(q)
  BY <1>2 DEF Loaded
<1>14. ~Load!Tried(p)
  BY <1>4, <1>13
\* the dependencies of p
<1>15. ASSUME NEW q \in Load!DepsIn(p) PROVE p \in Load!WaitsFor(q) \/ Load!Tried(q)
  <2>1. PICK e \in DOMAIN Load!Deps(p) : q = Load!Deps(p)[e]
    BY Zenon DEF Load!DepsIn
  <2>2. q \in Load!InTable /\ q \in Load!Plugins
    BY <1>2, TableIs DEF Load!DepsIn
  <2>3. e < s[n].dep
    <3>1. ~(s[n].dep =< Len(Load!Deps(p)))
      BY <1>1, <1>3 DEF Load!Waiting
    <3>2. e \in 1 .. Len(Load!Deps(p)) /\ Len(Load!Deps(p)) \in Nat
      BY <1>2, <1>4, DepsAre
    <3>3. s[n].dep \in Nat
      BY <1>3
    <3> QED BY <3>1, <3>2, <3>3
  <2>4. state[q] = 2 \/ \E j \in DOMAIN s : j =< n + 1 /\ s[j].name = q
    BY <1>2, <1>3, <2>1, <2>2, <2>3 DEF Deep
  <2>5. ASSUME NEW j \in DOMAIN s, s[j].name = q PROVE p \in Load!WaitsFor(q)
    <3>1. CASE j = n
      <4>1. p = q
        BY <2>5, <3>1
      <4> QED BY <4>1, WaitsDirectly, Zenon
    <3>2. CASE j # n
      <4>1. j \in 1 .. n /\ n \in 1 .. n /\ j < n /\ n \in Nat
        BY <1>3, <3>2
      <4>2. s[n].name \in Load!WaitsFor(s[j].name)
        BY <1>2, <1>3, <4>1, PathWaits
      <4> QED BY <2>5, <4>2
    <3> QED BY <3>1, <3>2
  <2> QED BY <1>13, <2>2, <2>4, <2>5
<1>16. Load!AfterHolds'
  <2>1. ASSUME NEW a \in Load!InTable, Load!Tried(a)', NEW q \in Load!DepsIn(a)
        PROVE  a \in Load!WaitsFor(q) \/ Load!TriedBefore(q, a)'
    <3>1. CASE a = p
      BY <1>12, <1>15, <2>1, <3>1
    <3>2. CASE a # p
      <4>1. Load!Tried(a)
        BY <1>11, <2>1, <3>2
      <4>2. a \in Load!WaitsFor(q) \/ Load!TriedBefore(q, a)
        BY <1>2, <2>1, <4>1, Zenon DEF Loaded, Load!AfterHolds
      <4> QED BY <1>12, <4>2
    <3> QED BY <3>1, <3>2
  <2> QED BY <1>1, <2>1, SameTable, Zenon DEF Load!AfterHolds
\* where it goes back to
<1>. PICK k : k = top[t] - 1
  OBVIOUS
<1>17. k \in DOMAIN table /\ s[1].name = table[k] /\ \A j \in DOMAIN table : j < k => state[table[j]] = 2
  BY <1>1, <1>2 DEF Wide
<1>18. p = table[k] \/ p \in Load!WaitsFor(table[k])
  <2>1. CASE n = 1
    BY <1>17, <2>1
  <2>2. CASE n # 1
    <3>1. 1 \in 1 .. n /\ n \in 1 .. n /\ 1 < n /\ n \in Nat
      <4>1. n \in Nat \ {0}
        BY <1>3
      <4> QED BY <2>2, <4>1, OneAndLast, Zenon
    <3>2. s[n].name \in Load!WaitsFor(s[1].name)
      BY <1>2, <1>3, <3>1, PathWaits
    <3> QED BY <1>17, <3>2
  <2> QED BY <2>1, <2>2
<1>19. RootedAt(m, k)'
  <2>1. ASSUME NEW j \in DOMAIN table, j < k PROVE \E e \in DOMAIN loads' : e < m /\ loads'[e].name = table[j]
    <3>1. Load!Tried(table[j])
      <4>1. table[j] \in Load!Plugins
        BY <1>2, TableIs
      <4> QED BY <1>13, <1>17, <2>1, <4>1
    <3>2. PICK e \in DOMAIN loads : loads[e].name = table[j]
      BY <3>1, Zenon DEF Load!Tried
    <3> QED BY <1>7, <1>9, <3>2
  <2> QED BY <1>1, <1>7, <1>18, <2>1, SameTable, Zenon DEF RootedAt
<1>20. ASSUME NEW i \in 1 .. m - 1 PROVE \E a \in DOMAIN table : RootedAt(i, a)'
  <2>1. i \in DOMAIN loads
    BY <1>7
  <2>2. PICK a \in DOMAIN table : RootedAt(i, a)
    BY <1>2, <2>1 DEF Loaded
  <2>3. loads'[i].name = table[a] \/ loads'[i].name \in Load!WaitsFor(table[a])
    BY <1>7, <2>2 DEF RootedAt
  <2>4. ASSUME NEW j \in DOMAIN table, j < a PROVE \E e \in DOMAIN loads' : e < i /\ loads'[e].name = table[j]
    <3>1. PICK e \in DOMAIN loads : e < i /\ loads[e].name = table[j]
      BY <2>2, <2>4, Zenon DEF RootedAt
    <3>2. e \in DOMAIN loads' /\ loads'[e].name = table[j]
      BY <1>7, <1>9, <3>1
    <3> QED BY <3>1, <3>2
  <2>5. RootedAt(i, a)'
    BY <1>1, <2>3, <2>4, SameTable, Zenon DEF RootedAt
  <2> QED BY <2>5
<1>21. \A i \in DOMAIN loads' : \E a \in DOMAIN table' : RootedAt(i, a)'
  BY <1>1, <1>7, <1>8, <1>17, <1>19, <1>20, Zenon
<1>22. OneSetUp' /\ ~up /\ \A u \in Callers : pc'[u] = "load" => u = t
  BY <1>1, <1>2, SetUpStays
<1>23. Loaded'
  <2>1. \A q \in Load!Plugins : state'[q] = 2 <=> Load!Tried(q)'
    BY <1>4, <1>5, <1>10, <1>11, <1>13
  <2>2. \A q \in Load!Plugins : state'[q] # 0 => q \in Load!InTable'
    <3>1. \A q \in Load!Plugins : state[q] # 0 => q \in Load!InTable
      BY <1>2 DEF Loaded
    <3>2. Load!InTable' = Load!InTable
      BY <1>1, SameTable
    <3> QED BY <1>4, <1>5, <1>10, <3>1, <3>2
  <2>3. ASSUME NEW i \in DOMAIN loads', NEW j \in DOMAIN loads', loads'[i].name = loads'[j].name PROVE i = j
    <3>1. \A a, b \in DOMAIN loads : loads[a].name = loads[b].name => a = b
      BY <1>2 DEF Loaded
    <3>2. \A a \in DOMAIN loads : loads[a].name # p
      BY <1>14 DEF Load!Tried
    <3> QED BY <1>7, <1>8, <2>3, <3>1, <3>2
  <2> QED BY <1>1, <1>16, <1>21, <1>22, <2>1, <2>2, <2>3, Zenon DEF Loaded
<1>24. stack' \in [Callers -> Stacks(Load!Plugins)] /\ stack'[t] = r
  BY <1>2, <1>5, <1>6, StackTyped
<1>25. LoadTyped'
  BY <1>1, <1>2, <1>5, <1>7, <1>10, <1>24 DEF LoadTyped, Stacks
<1>26. Deep(r, st)
  BY <1>1, <1>2, <1>6, DeepUp
<1>27. Wide(r, st, top[t])
  <2>1. \A j \in DOMAIN table : table[j] \in Load!Plugins
    BY <1>2, TableIs
  <2>2. r # << >> => r[1] = s[1]
    BY <1>6 DEF ButLast
  <2> QED BY <1>1, <1>2, <1>10, <2>1, <2>2 DEF Wide
<1>28. Searched(t)'
  BY <1>1, <1>5, <1>24, <1>26, <1>27, SearchedIs
<1> QED BY <1>22, <1>23, <1>25, <1>28 DEF LoadInv

\* a thread that only moves: the table, the search and the history are as they were
LEMMA Moves ==
    ASSUME LoadInv, UNCHANGED <<mode, threads, enabled, after, table, state, stack, top, loads, callbacks, ran, up>>,
           pc' \in [Callers -> {"down", "first", "list", "load", "main"}], initDone' \in BOOLEAN, OneSetUp',
           \A u \in Callers : pc'[u] = "load" => pc[u] = "load"
    PROVE  LoadInv'
<1>1. LoadTyped /\ Loaded /\ \A u \in Callers : pc[u] = "load" => Searched(u)
  BY DEF LoadInv
<1>2. LoadTyped'
  BY <1>1 DEF LoadTyped
<1>3. Loaded'
  <2>1. Load!AfterHolds'
    BY <1>1, SameTable DEF Loaded, Load!AfterHolds, Load!TriedBefore, Load!Tried
  <2>2. \A i, k : RootedAt(i, k)' <=> RootedAt(i, k)
    BY SameTable, Zenon DEF RootedAt
  <2>3. \A i \in DOMAIN loads' : \E k \in DOMAIN table' : RootedAt(i, k)'
    BY <1>1, <2>2, Zenon DEF Loaded
  <2>4. /\ \A p \in Load!Plugins : state'[p] = 2 <=> Load!Tried(p)'
        /\ \A i, j \in DOMAIN loads' : loads'[i].name = loads'[j].name => i = j
    BY <1>1 DEF Loaded, Load!Tried
  <2>5. /\ \A p \in Load!Plugins : state'[p] # 0 => p \in Load!InTable'
        /\ up' => ran' = callbacks' /\ \A p \in Load!InTable' : Load!Tried(p)'
    BY <1>1, SameTable DEF Loaded, Load!Tried
  <2> QED BY <2>1, <2>3, <2>4, <2>5, Zenon DEF Loaded
<1>4. ASSUME NEW u \in Callers, pc'[u] = "load" PROVE Searched(u)'
  <2>1. Deep(stack[u], state) /\ Wide(stack[u], state, top[u])
    BY <1>1, <1>4 DEF Searched
  <2>2. PICK s, st : s = stack[u] /\ st = state
    OBVIOUS
  <2> QED BY <2>1, <2>2, SearchedIs
<1> QED BY <1>2, <1>3, <1>4 DEF LoadInv

LEMMA MovesOutside ==
    ASSUME LoadInv, NEW t \in Callers, NEW w \in {"down", "first", "main"}, pc[t] \in {"down", "main"}, pc' = [pc EXCEPT ![t] = w],
           w # "down" => t \in threads, w = "first" => ~initDone,
           UNCHANGED <<mode, threads, enabled, after, initDone, table, state, stack, top, loads, callbacks, ran, up>>
    PROVE  LoadInv'
<1>1. LoadTyped /\ OneSetUp
  BY DEF LoadInv
<1>2. \A u \in Callers : pc'[u] = IF u = t THEN w ELSE pc[u]
  BY <1>1 DEF LoadTyped
<1>3. \A u \in Callers : (pc'[u] = "load" <=> pc[u] = "load") /\ (SetsUp(u)' <=> SetsUp(u))
  BY <1>2 DEF SetsUp
<1>4. Begun' = Begun /\ Load!Listed' = Load!Listed /\ Fresh' = Fresh
  BY <1>3 DEF Begun, Fresh, Load!Listed
<1>5. OneSetUp'
  <2>1. \A u \in Callers : pc'[u] # "down" => u \in threads'
    BY <1>1, <1>2 DEF OneSetUp
  <2>2. mode' = "service" => (\A x, u \in threads' : x = u) /\ \A u \in Callers : pc'[u] = "first" => ~initDone'
    BY <1>1, <1>2 DEF OneSetUp
  <2>3. /\ \A x, u \in Callers : SetsUp(x)' /\ SetsUp(u)' => x = u
        /\ \A u \in Callers : SetsUp(u)' => initDone' /\ ~up'
        /\ up' => initDone'
    BY <1>1, <1>3 DEF OneSetUp
  <2>4. IF Begun' THEN table' = Load!Listed' ELSE Fresh'
    BY <1>1, <1>4 DEF OneSetUp
  <2> QED BY <2>1, <2>2, <2>3, <2>4 DEF OneSetUp
<1>6. pc' \in [Callers -> {"down", "first", "list", "load", "main"}] /\ initDone' \in BOOLEAN
  BY <1>1 DEF LoadTyped
<1> QED BY <1>3, <1>5, <1>6, Moves

LEMMA KeepsEnter == ASSUME LoadInv, NEW t \in Callers, Load!Enter(t) PROVE LoadInv'
<1>. PICK w : w = IF initDone THEN "main" ELSE "first"
  OBVIOUS
<1>1. /\ pc[t] = "down" /\ t \in threads /\ pc' = [pc EXCEPT ![t] = w] /\ (w = "first" => ~initDone)
      /\ w \in {"down", "first", "main"}
      /\ UNCHANGED <<mode, threads, enabled, after, initDone, table, state, stack, top, loads, callbacks, ran, up>>
  BY DEF Load!Enter, Load!Goto, Load!loading
<1> QED BY <1>1, MovesOutside

LEMMA KeepsReturn == ASSUME LoadInv, NEW t \in Callers, Load!Return(t) PROVE LoadInv'
<1>1. /\ pc[t] = "main" /\ pc' = [pc EXCEPT ![t] = "down"]
      /\ UNCHANGED <<mode, threads, enabled, after, initDone, table, state, stack, top, loads, callbacks, ran, up>>
  BY DEF Load!Return, Load!Goto, Load!loading
<1> QED BY <1>1, MovesOutside

\* in a service no other routine is there; in the client only the first gets the flag
LEMMA KeepsClaim == ASSUME LoadInv, NEW t \in Callers, Load!Claim(t) PROVE LoadInv'
<1>1. /\ pc[t] = "first" /\ initDone'
      /\ pc' = [pc EXCEPT ![t] = IF mode = "client" /\ initDone THEN "main" ELSE "list"]
      /\ UNCHANGED <<mode, threads, enabled, after, table, state, stack, top, loads, callbacks, ran, up>>
  BY DEF Load!Claim, Load!Goto, Load!loading
<1>2. LoadTyped /\ OneSetUp
  BY DEF LoadInv
<1>3. \A u \in Callers : pc'[u] = IF u = t THEN (IF mode = "client" /\ initDone THEN "main" ELSE "list") ELSE pc[u]
  BY <1>1, <1>2 DEF LoadTyped
<1>4. \A u \in Callers : pc'[u] = "load" <=> pc[u] = "load"
  BY <1>1, <1>3
<1>5. Begun' = Begun /\ Load!Listed' = Load!Listed /\ Fresh' = Fresh
  BY <1>1, <1>4 DEF Begun, Fresh, Load!Listed
<1>6. ~(mode = "client" /\ initDone) => ~initDone
  BY <1>1, <1>2 DEF OneSetUp, LoadTyped
<1>7. OneSetUp'
  <2>1. \A u \in Callers : pc'[u] # "down" => u \in threads'
    BY <1>1, <1>2, <1>3 DEF OneSetUp
  <2>2. mode' = "service" => (\A x, u \in threads' : x = u) /\ \A u \in Callers : pc'[u] = "first" => ~initDone'
    <3>1. ASSUME mode = "service", NEW u \in Callers, pc'[u] = "first" PROVE FALSE
      <4>1. u # t /\ pc[u] = "first"
        BY <1>3, <3>1
      <4>2. u \in threads /\ t \in threads
        BY <1>1, <1>2, <4>1 DEF OneSetUp
      <4> QED BY <1>2, <3>1, <4>1, <4>2 DEF OneSetUp
    <3> QED BY <1>1, <1>2, <3>1 DEF OneSetUp
  <2>3. \A u \in Callers : SetsUp(u) => initDone /\ ~up
    BY <1>2 DEF OneSetUp
  <2>4. ASSUME NEW u \in Callers, SetsUp(u)' PROVE (u = t /\ ~initDone) \/ (u # t /\ SetsUp(u))
    BY <1>3, <1>6, <2>4 DEF SetsUp
  <2>5. up => initDone
    BY <1>2 DEF OneSetUp
  <2>6. /\ \A x, u \in Callers : SetsUp(x)' /\ SetsUp(u)' => x = u
        /\ \A u \in Callers : SetsUp(u)' => initDone' /\ ~up'
        /\ up' => initDone'
    <3>1. \A x, u \in Callers : SetsUp(x) /\ SetsUp(u) => x = u
      BY <1>2 DEF OneSetUp
    <3>2. ASSUME NEW x \in Callers, NEW u \in Callers, SetsUp(x)', SetsUp(u)' PROVE x = u
      BY <2>3, <2>4, <3>1, <3>2
    <3>3. ASSUME NEW u \in Callers, SetsUp(u)' PROVE initDone' /\ ~up'
      BY <1>1, <2>3, <2>4, <2>5, <3>3
    <3> QED BY <1>1, <3>2, <3>3
  <2>7. IF Begun' THEN table' = Load!Listed' ELSE Fresh'
    BY <1>1, <1>2, <1>5 DEF OneSetUp
  <2> QED BY <2>1, <2>2, <2>6, <2>7 DEF OneSetUp
<1>8. pc' \in [Callers -> {"down", "first", "list", "load", "main"}] /\ initDone' \in BOOLEAN
  BY <1>1, <1>2 DEF LoadTyped
<1> QED BY <1>1, <1>4, <1>7, <1>8, Moves

\* the set-up lists the folder: nothing has been loaded
LEMMA KeepsList == ASSUME LoadInv, NEW t \in Callers, Load!ListFolder(t) PROVE LoadInv'
<1>. PICK st : st = [p \in Load!Plugins |-> 0]
  OBVIOUS
<1>1. /\ pc[t] = "list" /\ table' = Load!Listed /\ state' = st /\ stack' = [stack EXCEPT ![t] = << >>]
      /\ top' = [top EXCEPT ![t] = 1] /\ pc' = [pc EXCEPT ![t] = "load"]
      /\ UNCHANGED <<mode, threads, enabled, after, initDone, loads, callbacks, ran, up>>
  BY DEF Load!ListFolder, Load!Goto
<1>2. LoadTyped /\ OneSetUp
  BY DEF LoadInv
<1>3. SetsUp(t) /\ initDone /\ ~up /\ \A u \in Callers : SetsUp(u) => u = t
  BY <1>1, <1>2 DEF OneSetUp, SetsUp
<1>4. Fresh
  BY <1>1, <1>2, <1>3 DEF OneSetUp, Begun, SetsUp
<1>5. \A u \in Callers : pc'[u] = IF u = t THEN "load" ELSE pc[u]
  BY <1>1, <1>2 DEF LoadTyped
<1>6. \A u \in Callers : (SetsUp(u)' <=> SetsUp(u)) /\ (pc'[u] = "load" => u = t)
  BY <1>1, <1>3, <1>5 DEF SetsUp
<1>7. OneSetUp'
  <2>1. \A u \in Callers : pc'[u] # "down" => u \in threads'
    BY <1>1, <1>2, <1>5 DEF OneSetUp
  <2>2. mode' = "service" => (\A x, u \in threads' : x = u) /\ \A u \in Callers : pc'[u] = "first" => ~initDone'
    BY <1>1, <1>2, <1>5 DEF OneSetUp
  <2>3. /\ \A x, u \in Callers : SetsUp(x)' /\ SetsUp(u)' => x = u
        /\ \A u \in Callers : SetsUp(u)' => initDone' /\ ~up'
        /\ up' => initDone'
    BY <1>1, <1>3, <1>6 DEF OneSetUp
  <2>4. Load!Listed' = Load!Listed
    BY <1>1 DEF Load!Listed
  <2>5. Begun' /\ table' = Load!Listed'
    BY <1>1, <1>5, <2>4 DEF Begun
  <2> QED BY <2>1, <2>2, <2>3, <2>5 DEF OneSetUp
<1>8. table' \in Seq(Load!Plugins)
  BY <1>1, ListedIs DEF ListsFirst
<1>9. << >> \in Stacks(Load!Plugins)
  BY DEF Stacks
<1>10. stack' \in [Callers -> Stacks(Load!Plugins)] /\ stack'[t] = << >>
  BY <1>1, <1>2, <1>9, StackTyped
<1>11. top' \in [Callers -> Nat \ {0}] /\ top'[t] = 1
  BY <1>1, <1>2 DEF LoadTyped
<1>12. LoadTyped'
  <2>1. state' \in [Load!Plugins -> 0 .. 2]
    BY <1>1
  <2>2. pc' \in [Callers -> {"down", "first", "list", "load", "main"}]
    BY <1>1, <1>2 DEF LoadTyped
  <2>3. /\ mode' \in {"service", "client"} /\ threads' \subseteq Callers
        /\ enabled' \subseteq Load!Plugins /\ after' \in [Load!Plugins -> Seq(Names)]
        /\ initDone' \in BOOLEAN /\ up' \in BOOLEAN
        /\ loads' \in Seq([name : Load!Plugins, ok : BOOLEAN])
    BY <1>1, <1>2, Zenon DEF LoadTyped
  <2> QED BY <1>8, <1>10, <1>11, <2>1, <2>2, <2>3, Zenon DEF LoadTyped, Stacks
<1>13. loads' = << >> /\ DOMAIN loads' = {} /\ ~up' /\ \A p : ~Load!Tried(p)'
  BY <1>1, <1>3, <1>4 DEF Fresh, Load!Tried
<1>14. Load!AfterHolds'
  BY <1>13 DEF Load!AfterHolds
<1>15. \A p \in Load!Plugins : st[p] = 0
  OBVIOUS
<1>16. Loaded'
  BY <1>1, <1>13, <1>14, <1>15 DEF Loaded
<1>17. Searched(t)'
  <2>1. DOMAIN << >> = {} /\ Len(table') \in Nat /\ DOMAIN table' = 1 .. Len(table')
    BY <1>8
  <2>2. Deep(stack[t], state)'
    BY <1>1, <1>10, <1>15, <2>1 DEF Deep
  <2>3. Wide(stack[t], state, top[t])'
    BY <1>10, <1>11, <2>1 DEF Wide
  <2> QED BY <2>2, <2>3 DEF Searched
<1> QED BY <1>6, <1>7, <1>12, <1>16, <1>17 DEF LoadInv

LEMMA KeepsCallback ==
    ASSUME LoadInv, NEW t \in Callers, NEW registers \in BOOLEAN, Load!RunCallback(t, registers)
    PROVE  LoadInv'
<1>1. /\ pc[t] = "load"
      /\ UNCHANGED <<mode, threads, enabled, after, pc, initDone, table, state, stack, top, loads, up>>
  BY DEF Load!RunCallback
<1>2. LoadTyped /\ OneSetUp /\ Loaded /\ Deep(stack[t], state) /\ Wide(stack[t], state, top[t])
  BY <1>1 DEF LoadInv, Searched
<1>3. OneSetUp' /\ ~up /\ \A u \in Callers : pc'[u] = "load" => u = t
  BY <1>1, <1>2, SetUpStays
<1>4. LoadTyped'
  BY <1>1, <1>2 DEF LoadTyped
<1>5. Loaded'
  <2>1. \A p \in Load!Plugins : (state'[p] = 2 <=> state[p] = 2) /\ (state'[p] # 0 => p \in Load!InTable)
    BY <1>1, <1>2 DEF Loaded
  <2> QED BY <1>1, <1>2, <1>3, <2>1, MarksOnly
<1>6. Searched(t)'
  <2>1. PICK s, st : s = stack[t] /\ st = state
    OBVIOUS
  <2> QED BY <1>1, <1>2, <2>1, SearchedIs
<1> QED BY <1>3, <1>4, <1>5, <1>6 DEF LoadInv

\* the last loop is through: no plugin is left out, and none is still under way
LEMMA KeepsFinished == ASSUME LoadInv, NEW t \in Callers, Load!Finished(t) PROVE LoadInv'
<1>1. /\ pc[t] = "load" /\ stack[t] = << >> /\ top[t] > Len(table) /\ ran = callbacks /\ up' = TRUE
      /\ pc' = [pc EXCEPT ![t] = "main"]
      /\ UNCHANGED <<mode, threads, enabled, after, initDone, table, state, stack, top, loads, callbacks, ran>>
  BY DEF Load!Finished, Load!Goto
<1>2. LoadTyped /\ OneSetUp /\ Loaded /\ Deep(<< >>, state) /\ Wide(<< >>, state, top[t])
  BY <1>1 DEF LoadInv, Searched
<1>3. initDone /\ ~up /\ \A u \in Callers : SetsUp(u) => u = t
  BY <1>1, <1>2 DEF OneSetUp, SetsUp
<1>4. \A u \in Callers : pc'[u] = IF u = t THEN "main" ELSE pc[u]
  BY <1>1, <1>2 DEF LoadTyped
<1>5. \A u \in Callers : ~SetsUp(u)' /\ pc'[u] # "load"
  BY <1>3, <1>4 DEF SetsUp
<1>6. OneSetUp'
  <2>1. \A u \in Callers : pc'[u] # "down" => u \in threads'
    BY <1>1, <1>2, <1>4 DEF OneSetUp
  <2>2. mode' = "service" => (\A x, u \in threads' : x = u) /\ \A u \in Callers : pc'[u] = "first" => ~initDone'
    BY <1>1, <1>2, <1>4 DEF OneSetUp
  <2>3. Load!Listed' = Load!Listed
    BY <1>1 DEF Load!Listed
  <2>4. Begun /\ Begun'
    BY <1>1 DEF Begun
  <2>5. table' = Load!Listed'
    BY <1>1, <1>2, <2>3, <2>4 DEF OneSetUp
  <2> QED BY <1>1, <1>3, <1>5, <2>1, <2>2, <2>4, <2>5 DEF OneSetUp
<1>7. LoadTyped'
  BY <1>1, <1>2 DEF LoadTyped
<1>8. \A p : Load!Tried(p)' <=> Load!Tried(p)
  BY <1>1 DEF Load!Tried
<1>9. Loaded'
  <2>1. Load!AfterHolds'
    BY <1>1, <1>2, SameTable DEF Loaded, Load!AfterHolds, Load!TriedBefore, Load!Tried
  <2>2. \A i, k : RootedAt(i, k)' <=> RootedAt(i, k)
    BY <1>1, SameTable, Zenon DEF RootedAt
  <2>3. \A i \in DOMAIN loads' : \E k \in DOMAIN table' : RootedAt(i, k)'
    BY <1>1, <1>2, <2>2, Zenon DEF Loaded
  <2>4. /\ \A p \in Load!Plugins : state'[p] = 2 <=> Load!Tried(p)'
        /\ \A i, j \in DOMAIN loads' : loads'[i].name = loads'[j].name => i = j
    BY <1>1, <1>2, <1>8 DEF Loaded
  <2>5. Load!InTable' = Load!InTable
    BY <1>1, SameTable
  <2>6. \A p \in Load!Plugins : state'[p] # 0 => p \in Load!InTable'
    BY <1>1, <1>2, <2>5 DEF Loaded
  <2>7. ASSUME NEW p \in Load!InTable PROVE Load!Tried(p)'
    <3>1. p \in Load!Plugins
      BY <1>2, TableIs
    <3>2. PICK j \in DOMAIN table : table[j] = p
      BY DEF Load!InTable
    <3>3. j < top[t]
      <4>1. top[t] \in Nat
        BY <1>2 DEF LoadTyped
      <4>2. j \in Nat /\ j =< Len(table) /\ Len(table) \in Nat
        BY <1>2, <3>2, TableIs
      <4> QED BY <1>1, <4>1, <4>2
    <3>4. state[p] # 0
      BY <1>2, <3>2, <3>3 DEF Wide
    <3>5. state[p] # 1
      BY <1>2, <3>1, NoFrames
    <3>6. state[p] \in 0 .. 2
      BY <1>2, <3>1 DEF LoadTyped
    <3>7. state[p] = 2
      BY <3>4, <3>5, <3>6
    <3> QED BY <1>2, <1>8, <3>1, <3>7 DEF Loaded
  <2> QED BY <1>1, <2>1, <2>3, <2>4, <2>5, <2>6, <2>7, Zenon DEF Loaded
<1> QED BY <1>5, <1>6, <1>7, <1>9 DEF LoadInv

LEMMA LoadNext == LoadInv /\ [Load!Next]_loadVars => LoadInv'
<1> SUFFICES ASSUME LoadInv, [Load!Next]_loadVars PROVE LoadInv'
  OBVIOUS
<1>1. CASE UNCHANGED loadVars
  <2>1. UNCHANGED <<mode, threads, enabled, after, pc, initDone, table, state, stack, top, loads, callbacks, ran, up>>
    BY <1>1 DEF loadVars
  <2>2. LoadTyped /\ OneSetUp
    BY DEF LoadInv
  <2>3. OneSetUp'
    BY <2>1, <2>2 DEF OneSetUp, SetsUp, Begun, Fresh, Load!Listed
  <2>4. pc' \in [Callers -> {"down", "first", "list", "load", "main"}] /\ initDone' \in BOOLEAN
    BY <2>1, <2>2 DEF LoadTyped
  <2> QED BY <2>1, <2>3, <2>4, Moves
<1>2. CASE Load!Next
  <2>1. PICK t \in Callers :
          \/ Load!Enter(t) \/ Load!Claim(t) \/ Load!Return(t) \/ Load!ListFolder(t) \/ Load!NextTop(t) \/ Load!NextDep(t)
          \/ \E ok, registers \in BOOLEAN : Load!LoadIt(t, ok, registers)
          \/ \E registers \in BOOLEAN : Load!RunCallback(t, registers)
          \/ Load!Finished(t)
    BY <1>2, Zenon DEF Load!Next
  <2> QED BY <2>1, KeepsEnter, KeepsClaim, KeepsReturn, KeepsList, KeepsTop, KeepsDep, KeepsLoad, KeepsCallback, KeepsFinished
<1> QED BY <1>1, <1>2

\* a plugin's place in the folder, by its place in the table
LEMMA PlaceIs ==
    ASSUME NEW r, ListsFirst(r, Len(Folder)), NEW i \in DOMAIN r, NEW j \in DOMAIN r, i < j
    PROVE  Load!Place(r[i]) < Load!Place(r[j])
<1>1. \A e \in DOMAIN r : \E a \in DOMAIN Folder : Folder[a] = r[e]
  BY FolderIs DEF ListsFirst
<1>2. PICK a \in DOMAIN Folder : Folder[a] = r[i]
  BY <1>1
<1>3. PICK b \in DOMAIN Folder : Folder[b] = r[j]
  BY <1>1
<1>4. Load!Place(r[i]) = a /\ Load!Place(r[j]) = b
  BY <1>2, <1>3, FolderIs DEF Load!Place
<1> QED BY <1>2, <1>3, <1>4 DEF ListsFirst

LEMMA LoadedAsListed == LoadInv => LoadedInOrder
<1> SUFFICES ASSUME LoadInv PROVE LoadedInOrder
  OBVIOUS
<1>1. LoadTyped /\ OneSetUp /\ Loaded
  BY DEF LoadInv
<1>2. ASSUME Begun PROVE ListsFirst(table, Len(Folder))
  BY <1>1, <1>2, ListedIs DEF OneSetUp
<1>3. Load!EveryPluginOnce
  <2>1. ASSUME up, NEW p \in enabled PROVE Load!Tried(p) \/ (Len(table) = kMaxPlugins /\ p \notin Load!InTable)
    <3>1. PICK a \in 1 .. Len(Folder) : Folder[a] = p
      BY <1>1, <2>1, FolderIs DEF LoadTyped
    <3>2. Len(table) = kMaxPlugins \/ p \in Load!InTable
      BY <1>2, <2>1, <3>1 DEF Begun, ListsFirst, Load!InTable
    <3>3. p \in Load!InTable => Load!Tried(p)
      BY <1>1, <2>1 DEF Loaded
    <3> QED BY <3>2, <3>3
  <2> QED BY <1>1, <2>1 DEF Loaded, Load!EveryPluginOnce
<1>4. ASSUME NEW p \in Load!InTable, NEW q \in Load!InTable, Load!TriedBefore(p, q), Load!Place(q) < Load!Place(p)
      PROVE  \E z \in Load!InTable : Load!Place(z) =< Load!Place(q) /\ p \in Load!WaitsFor(z)
  <2>1. PICK i \in DOMAIN loads, j \in DOMAIN loads : i < j /\ loads[i].name = p /\ loads[j].name = q
    BY <1>4, Zenon DEF Load!TriedBefore
  <2>2. Begun
    <3>1. loads # << >>
      BY <2>1
    <3> QED BY <1>1, <3>1 DEF OneSetUp, Fresh
  <2>3. ListsFirst(table, Len(Folder))
    BY <1>2, <2>2
  <2>4. PICK k \in DOMAIN table : RootedAt(i, k)
    BY <1>1, <2>1 DEF Loaded
  <2>5. PICK z \in Load!InTable : z = table[k]
    BY <1>1, TableIs
  <2>6. PICK h \in DOMAIN table : table[h] = q
    BY DEF Load!InTable
  <2>7. ~(h < k)
    <3>1. SUFFICES ASSUME h < k PROVE FALSE
      OBVIOUS
    <3>2. PICK e \in DOMAIN loads : e < i /\ loads[e].name = q
      BY <2>4, <2>6, <3>1 DEF RootedAt
    <3>3. e = j
      BY <1>1, <2>1, <3>2 DEF Loaded
    <3>4. i \in Nat /\ j \in Nat /\ e \in Nat
      <4>1. DOMAIN loads = 1 .. Len(loads) /\ Len(loads) \in Nat
        <5>1. PICK F : F = [name : Load!Plugins, ok : BOOLEAN]
          OBVIOUS
        <5>2. loads \in Seq(F)
          BY <1>1, <5>1 DEF LoadTyped
        <5> QED BY <5>2, Typed
      <4> QED BY <4>1
    <3> QED BY <2>1, <3>2, <3>3, <3>4
  <2>8. k = h \/ k < h
    <3>1. k \in Nat /\ h \in Nat
      BY <1>1, TableIs
    <3> QED BY <2>7, <3>1
  <2>9. Load!Place(z) = Load!Place(q) \/ Load!Place(z) < Load!Place(q)
    BY <2>3, <2>5, <2>6, <2>8, PlaceIs
  <2>10. Load!Place(z) \in Nat /\ Load!Place(q) \in Nat /\ Load!Place(p) \in Nat
    <3>1. ASSUME NEW x \in Load!Plugins PROVE Load!Place(x) \in DOMAIN Folder
      BY DEF Load!Place, Load!Plugins
    <3>2. z \in Load!Plugins /\ q \in Load!Plugins /\ p \in Load!Plugins
      BY <1>1, TableIs
    <3> QED BY <3>1, <3>2, FolderIs
  <2>11. p # z
    BY <1>4, <2>9, <2>10
  <2>12. p \in Load!WaitsFor(z)
    BY <2>1, <2>4, <2>5, <2>11 DEF RootedAt
  <2>13. Load!Place(z) =< Load!Place(q)
    BY <2>9, <2>10
  <2> QED BY <2>12, <2>13
<1>5. Load!ListingOrder
  BY <1>4 DEF Load!ListingOrder
<1> QED BY <1>1, <1>3, <1>5 DEF Loaded, LoadedInOrder

\* after= is kept, whatever plugins, lines and failures there are: every plugin of the folder is tried once, after the ones it
\* names that do not wait for it in turn, and where every line can be kept otherwise in the folder's order (load_one,
\* load_plugins).
THEOREM PluginsInOrder == StartupSpec => []LoadedInOrder
<1>1. StartupSpec => LoadInv /\ [][Load!Next]_loadVars
  BY StartupIsLoad, LoadStarts, PTL
<1> QED BY <1>1, LoadNext, LoadedAsListed, PTL
=============================================================================
