---------------------------- MODULE RemoteCalls ----------------------------
(***************************************************************************)
(* The calls of the remote control into the game's own thread              *)
(* (client/plugins/remote_control/remote_control.cpp).                     *)
(*                                                                         *)
(* Two threads of the plugin want something of the game thread, which     *)
(* looks for it once a frame, in Present.  The serve thread takes the      *)
(* controller's commands one at a time: "wins" and "ctl" are asked through *)
(* g_wins_pending and answered in g_wins_result, "shot" through            *)
(* g_cap_path.  The burst worker asks for shots only.  Whoever asked waits *)
(* for an event, 3 s at most.                                              *)
(***************************************************************************)
EXTENDS Integers

CONSTANTS
    Commands,   \* bound: commands the controllers send
    Frames      \* burst_worker's frames; 0 without -burst

RemoteCallsConstantsOK == Commands \in Nat /\ Frames \in Nat

Serve == "serve"
Burst == "burst"
Threads == {Serve, Burst}
Kinds == {"wins", "ctl", "shot"}

\* a call is named by its thread and its number
Calls == {Serve} \X (1 .. Commands) \cup {Burst} \X (1 .. Frames)
NoCall == <<"none", 0>>
MaybeCall == Calls \cup {NoCall}

VARIABLES
    hooked,     \* g_present
    started,    \* g_burst_started
    at,         \* thread -> where it is
    call,       \* thread -> the call it is in, or its last one
    kind,       \* what the serve thread's call is
    pending,    \* g_wins_pending
    ctl,        \* g_ctl_pending
    filter,     \* g_wins_filter: the call it was written for
    result,     \* g_wins_result: the call and the kind it answers
    winsDone,   \* g_wins_done
    path,       \* g_cap_path: the call whose file it names
    capDone,    \* g_cap_done
    capOk,      \* g_cap_ok
    tick,       \* the game thread in wins_tick: where, and what it read
    answers,    \* history: calls and the results they returned
    oked,       \* history: shots whose caller was told the frame is written
    written,    \* history: shots whose frame was written
    overdue     \* history: a wait for "wins" or "ctl" has run out

winsVars == <<pending, ctl, filter, result, winsDone>>
capVars == <<path, capDone, capOk>>
history == <<answers, oked, written, overdue>>
vars == <<hooked, started, at, call, kind, winsVars, capVars, tick, history>>

Idle == [at |-> "away", ctl |-> FALSE, of |-> NoCall]

Limit(t) == IF t = Serve THEN Commands ELSE Frames
Next1(t) == <<t, call[t][2] + 1>>

Init ==
    /\ hooked = FALSE
    /\ started = FALSE
    /\ at = [t \in Threads |-> IF t = Serve THEN "ready" ELSE "off"]
    /\ call = [t \in Threads |-> <<t, 0>>]
    /\ kind = "wins"
    /\ pending = FALSE /\ ctl = FALSE /\ filter = NoCall
    /\ result = [of |-> NoCall, as |-> "wins"]
    /\ winsDone = FALSE
    /\ path = NoCall /\ capDone = FALSE /\ capOk = FALSE
    /\ tick = Idle
    /\ answers = {} /\ oked = {} /\ written = {} /\ overdue = FALSE

-----------------------------------------------------------------------------
(* "wins" and "ctl": the serve thread. *)

Go(t, where) == at' = [at EXCEPT ![t] = where]

\* a command arrives; "ctl" sets its flag first
AskWins(k) ==
    /\ at[Serve] = "ready" /\ call[Serve][2] < Commands
    /\ call' = [call EXCEPT ![Serve] = Next1(Serve)]
    /\ kind' = k
    /\ ctl' = (ctl \/ k = "ctl")
    /\ Go(Serve, "write")
    /\ UNCHANGED <<hooked, started, pending, filter, result, winsDone, capVars, tick, history>>

WriteFilter ==
    /\ at[Serve] = "write"
    /\ filter' = call[Serve]
    /\ Go(Serve, "reset")
    /\ UNCHANGED <<hooked, started, call, kind, pending, ctl, result, winsDone, capVars, tick, history>>

\* a mistake: the event keeps what the last request left in it
ResetNothing ==
    /\ at[Serve] = "reset"
    /\ Go(Serve, "post")
    /\ UNCHANGED <<hooked, started, call, kind, winsVars, capVars, tick, history>>

ResetWins ==
    /\ at[Serve] = "reset"
    /\ winsDone' = FALSE
    /\ Go(Serve, "post")
    /\ UNCHANGED <<hooked, started, call, kind, pending, ctl, filter, result, capVars, tick, history>>

PostWins ==
    /\ at[Serve] = "post"
    /\ pending' = TRUE
    /\ Go(Serve, "wait")
    /\ UNCHANGED <<hooked, started, call, kind, ctl, filter, result, winsDone, capVars, tick, history>>

TakeResult ==
    /\ at[Serve] = "wait" /\ winsDone
    /\ Go(Serve, "take")
    /\ UNCHANGED <<hooked, started, call, kind, winsVars, capVars, tick, history>>

\* the copy under the lock, and the reply
ReplyWins ==
    /\ at[Serve] = "take"
    /\ answers' = answers \cup {[call |-> call[Serve], kind |-> kind, of |-> result.of, as |-> result.as]}
    /\ Go(Serve, "ready")
    /\ UNCHANGED <<hooked, started, call, kind, winsVars, capVars, tick, oked, written, overdue>>

\* a mistake: the wait has no limit
WaitForever == FALSE /\ UNCHANGED vars

\* 3 s without an answer, in a game that loads a map
WinsTimeout ==
    /\ at[Serve] = "wait" /\ ~winsDone
    /\ Go(Serve, "late")
    /\ overdue' = TRUE
    /\ UNCHANGED <<hooked, started, call, kind, winsVars, capVars, tick, answers, oked, written>>

\* "err the game thread did not answer"
GiveUpWins ==
    /\ at[Serve] = "late"
    /\ pending' = FALSE
    /\ Go(Serve, "ready")
    /\ UNCHANGED <<hooked, started, call, kind, ctl, filter, result, winsDone, capVars, tick, history>>

-----------------------------------------------------------------------------
(* "shot": d3d_shot, on either thread. *)

\* the shot's path is set and the event reset under the lock
AskFrame(t) ==
    /\ call' = [call EXCEPT ![t] = Next1(t)]
    /\ IF hooked
         THEN path' = Next1(t) /\ capDone' = FALSE /\ Go(t, "shot")
         ELSE UNCHANGED <<path, capDone>> /\ Go(t, "window")
    /\ UNCHANGED <<hooked, started, winsVars, capOk, tick, history>>

AskShot ==
    /\ at[Serve] = "ready" /\ call[Serve][2] < Commands
    /\ kind' = "shot"
    /\ AskFrame(Serve)

\* a mistake: one frame too many
BurstOneMore ==
    /\ at[Burst] = "ready" /\ call[Burst][2] <= Frames
    /\ AskFrame(Burst)
    /\ UNCHANGED kind

BurstFrame ==
    /\ at[Burst] = "ready" /\ call[Burst][2] < Frames
    /\ AskFrame(Burst)
    /\ UNCHANGED kind

TakeShot(t) ==
    /\ at[t] = "shot" /\ capDone
    /\ Go(t, "shown")
    /\ UNCHANGED <<hooked, started, call, kind, winsVars, capVars, tick, history>>

\* g_cap_ok is read after the wait, without the lock
ReplyShot(t) ==
    /\ at[t] = "shown"
    /\ oked' = IF capOk THEN oked \cup {call[t]} ELSE oked
    /\ Go(t, IF capOk THEN "ready" ELSE "window")
    /\ UNCHANGED <<hooked, started, call, kind, winsVars, capVars, tick, answers, written, overdue>>

ShotTimeout(t) ==
    /\ at[t] = "shot" /\ ~capDone
    /\ Go(t, "unshown")
    /\ UNCHANGED <<hooked, started, call, kind, winsVars, capVars, tick, history>>

\* a mistake: the path stays for whichever frame comes
LeaveShot(t) ==
    /\ at[t] = "unshown"
    /\ Go(t, "window")
    /\ UNCHANGED <<hooked, started, call, kind, winsVars, capVars, tick, history>>

GiveUpShot(t) ==
    /\ at[t] = "unshown"
    /\ path' = NoCall
    /\ Go(t, "window")
    /\ UNCHANGED <<hooked, started, call, kind, winsVars, capDone, capOk, tick, history>>

\* without a frame the serve thread falls back to the window's picture, the worker goes on
Window(t) ==
    /\ at[t] = "window"
    /\ Go(t, "ready")
    /\ UNCHANGED <<hooked, started, call, kind, winsVars, capVars, tick, history>>

\* the client reports the map loaded; only the first report starts the worker
StartBurst ==
    /\ Frames > 0 /\ ~started
    /\ started' = TRUE
    /\ Go(Burst, "ready")
    /\ UNCHANGED <<hooked, call, kind, winsVars, capVars, tick, history>>

-----------------------------------------------------------------------------
(* The game thread. *)

\* my_create_device: the device exists and its Present is detoured
CreateDevice ==
    /\ ~hooked
    /\ hooked' = TRUE
    /\ UNCHANGED <<started, at, call, kind, winsVars, capVars, tick, history>>

\* a mistake: the requester is told before the copy has been tried
CaptureEarly ==
    IF path # NoCall
      THEN \E ok \in BOOLEAN :
             /\ capOk' = TRUE
             /\ written' = IF ok THEN written \cup {path} ELSE written
             /\ path' = NoCall
             /\ capDone' = TRUE
      ELSE UNCHANGED <<capVars, written>>

\* capture_now: under the lock a waiting path gets this frame, or the copy fails
CaptureNow ==
    IF path # NoCall
      THEN \E ok \in BOOLEAN :
             /\ capOk' = ok
             /\ written' = IF ok THEN written \cup {path} ELSE written
             /\ path' = NoCall
             /\ capDone' = TRUE
      ELSE UNCHANGED <<capVars, written>>

\* my_present: the capture, then wins_tick looks for a request
Present ==
    /\ hooked /\ tick.at = "away"
    /\ CaptureNow
    /\ tick' = [tick EXCEPT !.at = "look"]
    /\ UNCHANGED <<hooked, started, at, call, kind, winsVars, answers, oked, overdue>>

Look ==
    /\ tick.at = "look"
    /\ tick' = IF pending THEN [tick EXCEPT !.at = "see", !.ctl = ctl] ELSE Idle
    /\ UNCHANGED <<hooked, started, at, call, kind, winsVars, capVars, history>>

\* the windows are walked for the filter that is there now
Compute ==
    /\ tick.at = "see"
    /\ tick' = [tick EXCEPT !.at = "have", !.of = filter]
    /\ ctl' = (ctl /\ ~tick.ctl)
    /\ UNCHANGED <<hooked, started, at, call, kind, pending, filter, result, winsDone, capVars, history>>

StoreResult ==
    /\ tick.at = "have"
    /\ result' = [of |-> tick.of, as |-> IF tick.ctl THEN "ctl" ELSE "wins"]
    /\ tick' = [tick EXCEPT !.at = "stored"]
    /\ UNCHANGED <<hooked, started, at, call, kind, pending, ctl, filter, winsDone, capVars, history>>

\* a mistake: the request stays pending and is answered again
KeepPending ==
    /\ tick.at = "stored"
    /\ tick' = [tick EXCEPT !.at = "cleared"]
    /\ UNCHANGED <<hooked, started, at, call, kind, winsVars, capVars, history>>

ClearPending ==
    /\ tick.at = "stored"
    /\ pending' = FALSE
    /\ tick' = [tick EXCEPT !.at = "cleared"]
    /\ UNCHANGED <<hooked, started, at, call, kind, ctl, filter, result, winsDone, capVars, history>>

SignalWins ==
    /\ tick.at = "cleared"
    /\ winsDone' = TRUE
    /\ tick' = Idle
    /\ UNCHANGED <<hooked, started, at, call, kind, pending, ctl, filter, result, capVars, history>>

-----------------------------------------------------------------------------

ServeWins == (\E k \in {"wins", "ctl"} : AskWins(k)) \/ WriteFilter \/ ResetWins \/ PostWins
ServeAnswer == TakeResult \/ ReplyWins \/ WinsTimeout \/ GiveUpWins
ShotOf(t) == TakeShot(t) \/ ReplyShot(t) \/ ShotTimeout(t) \/ GiveUpShot(t) \/ Window(t)
Game == CreateDevice \/ Present \/ Look \/ Compute \/ StoreResult \/ ClearPending \/ SignalWins

Next ==
    \/ ServeWins \/ ServeAnswer \/ AskShot
    \/ StartBurst \/ BurstFrame
    \/ \E t \in Threads : ShotOf(t)
    \/ Game

Spec == Init /\ [][Next]_vars

\* the plugin's threads run; nothing is asked of the game thread, which may be busy for good
Fairness ==
    /\ WF_vars(WriteFilter \/ ResetWins \/ PostWins \/ ServeAnswer)
    /\ \A t \in Threads : WF_vars(ShotOf(t))
FairSpec == Spec /\ Fairness

-----------------------------------------------------------------------------

TypeOK ==
    /\ hooked \in BOOLEAN /\ started \in BOOLEAN
    /\ at \in [Threads -> {"off", "ready", "write", "reset", "post", "wait", "take", "late",
                           "shot", "shown", "unshown", "window"}]
    /\ \A t \in Threads : call[t] \in {t} \X (0 .. Limit(t))
    /\ kind \in Kinds
    /\ pending \in BOOLEAN /\ ctl \in BOOLEAN /\ filter \in MaybeCall
    /\ result \in [of : MaybeCall, as : {"wins", "ctl"}]
    /\ winsDone \in BOOLEAN
    /\ path \in MaybeCall /\ capDone \in BOOLEAN /\ capOk \in BOOLEAN
    /\ tick \in [at : {"away", "look", "see", "have", "stored", "cleared"}, ctl : BOOLEAN, of : MaybeCall]
    /\ answers \subseteq [call : Calls, kind : Kinds, of : MaybeCall, as : {"wins", "ctl"}]
    /\ oked \subseteq Calls /\ written \subseteq Calls /\ overdue \in BOOLEAN

\* "The serve thread posts the request, the Present hook answers it": what a command is answered with was computed for
\* its own filter, and by find_ctl if it is "ctl" and by dump_wins if it is "wins".
AnswerIsMine == \A a \in answers : a.of = a.call /\ a.as = a.kind

\* As long as no wait has run out, each answer is the one of the command that gets it.
AnswersMatch == overdue \/ AnswerIsMine

\* The filter is a std::string without a lock: as long as no wait has run out, the serve thread does not assign it
\* while the game thread reads it.
NoTornRead == overdue \/ ~(tick.at = "see" /\ at[Serve] = "write")

\* Until a burst starts, a shot that is answered "ok" from the frame has written its own file, however late its frame
\* came and whatever happened to the shots before it.
OkMeansWritten == started \/ oked \subseteq written

\* A frame goes to the file of a shot whose caller still waits: after "err" or the window's picture the game thread
\* no longer writes over the file.
Asking(c) == \E t \in Threads : call[t] = c /\ at[t] \in {"shot", "unshown"}
NoLateFile == [][\A c \in written' \ written : Asking(c)]_vars

\* Whatever the game thread does, a command that was taken is answered and the serve thread is back for the next one;
\* the burst goes on.
Answered == \A t \in Threads : at[t] \notin {"off", "ready"} ~> at[t] = "ready"
=============================================================================
