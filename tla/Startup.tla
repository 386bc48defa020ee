------------------------------ MODULE Startup ------------------------------
(***************************************************************************)
(* Everything that happens on the way into the game and has to come to an  *)
(* end: the hook loader brings the plugins in (Loader), the client fills   *)
(* its login form and chooses a character by itself (Unattended), and the  *)
(* remote control calls into the game's thread (RemoteCalls).              *)
(*                                                                         *)
(* The loader has returned before a plugin serves a command, and the       *)
(* start and the calls share no variable of the plugin beyond the socket's *)
(* thread, which serves one command at a time.  So each part is followed   *)
(* by itself.                                                              *)
(***************************************************************************)
EXTENDS Unattended

CONSTANTS
    CallCommands, Frames,                                                  \* RemoteCalls
    Folder, Names, kMaxPlugins, kMaxDeps, kMaxCallbacks, Callers, Setups   \* Loader

VARIABLES
    part,    \* "load", "start" or "calls"
    mode, threads, enabled, after, pc, initDone, table, state, stack, top, loads, callbacks, ran, up,
    hooked, started, callAt, call, kind, pending, ctl, filter, result, winsDone, path, capDone, capOk, winsTick,
    answers, oked, written, overdue

startVars == <<stdinlogin, vars, selectVars>>
loadVars == <<mode, threads, enabled, after, pc, initDone, table, state, stack, top, loads, callbacks, ran, up>>
callVars == <<hooked, started, callAt, call, kind, pending, ctl, filter, result, winsDone, path, capDone, capOk, winsTick,
              answers, oked, written, overdue>>

Load == INSTANCE Loader WITH Threads <- Callers
Calls == INSTANCE RemoteCalls WITH Commands <- CallCommands, at <- callAt, tick <- winsTick

ASSUME StartupConstantsOK == Load!LoaderConstantsOK /\ Calls!RemoteCallsConstantsOK

\* each server is one service with one routine
ASSUME OneRoutine == \A s \in Setups : s.mode = "service" => \A x, y \in s.threads : x = y

\* a part that is not followed rests in one state
StartupInit ==
    /\ StartInit /\ Load!Init /\ Calls!Init
    /\ part \in {"load", "start", "calls"}
    /\ part = "start" \/ stdinlogin
    /\ part = "load" \/ (mode = "client" /\ enabled = {} /\ \A p \in Load!Plugins : after[p] = << >>)

StartupNext ==
    \/ part = "load" /\ Load!Next /\ UNCHANGED <<part, startVars, callVars>>
    \/ part = "start" /\ StartNext /\ UNCHANGED <<part, loadVars, callVars>>
    \/ part = "calls" /\ Calls!Next /\ UNCHANGED <<part, startVars, loadVars>>

\* the fairness of Loader, of Unattended and of RemoteCalls, for the part that is followed
Loading == part = "load"
Filling == part = "start" /\ stdinlogin
Choosing == part = "start" /\ ~stdinlogin
Serving == part = "calls"
StartupFairness ==
    /\ \A t \in Callers : WF_loadVars(Loading /\ Load!Loads(t))
    /\ WF_vars(Filling /\ Thread) /\ WF_vars(Filling /\ Build)
    /\ WF_vars(Filling /\ TabTaken) /\ WF_vars(Filling /\ TabDone)
    /\ WF_selectVars(Choosing /\ Select!CharTick) /\ WF_selectVars(Choosing /\ Select!ASecond)
    /\ WF_selectVars(Choosing /\ Select!ResetStep)
    /\ WF_callVars(Serving /\ (Calls!WriteFilter \/ Calls!ResetWins \/ Calls!PostWins \/ Calls!ServeAnswer))
    /\ \A t \in Calls!Threads : WF_callVars(Serving /\ Calls!ShotOf(t))

StartupSpec == StartupInit /\ [][StartupNext]_<<part, startVars, loadVars, callVars>> /\ StartupFairness
-----------------------------------------------------------------------------
\* after= is kept: a plugin is loaded after every one it names that does not wait for it in turn; once start_plugins is
\* through each has been tried exactly once, whatever its line names; and where every line can be kept, the folder's order is
\* left for an after= only (Loader).
LoadedInOrder == Load!AfterHolds /\ Load!EveryPluginOnce /\ Load!ListingOrder

\* As long as no wait has run out, each answer is the one of the command that gets it (RemoteCalls).
AnswersMatch == Calls!AnswersMatch

\* As long as no wait has run out, the filter is not assigned while the game thread reads it (RemoteCalls).
NoTornRead == Calls!NoTornRead

\* Until a burst starts, a shot that is answered "ok" has written its own file (RemoteCalls).
OkMeansWritten == Calls!OkMeansWritten

\* A frame is written to the file of a shot only while its caller waits for it (RemoteCalls).
NoLateFile == Calls!NoLateFile

\* Every part comes to its end.  A thread that has begun to load plugins reaches the original routine (Loader); the
\* login's thread ends, and the game is entered with the character of -char or of the last command, at the next character
\* select that shows its page (LoginForm, CharSelect); every command the serve thread takes is answered, whatever the
\* game's thread does (RemoteCalls).
EveryPartEnds ==
    /\ Load!LoadingEnds
    /\ Calls!Answered
    /\ Filling ~> (at \in {"submitted", "gave up"} /\ ~login)
    /\ EntersAsked /\ Select!OwedIsEntered
=============================================================================
