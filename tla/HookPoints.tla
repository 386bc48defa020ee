----------------------------- MODULE HookPoints -----------------------------
(***************************************************************************)
(* The two places where a plugin stands between a program and what it      *)
(* reads: the protocol tables of the servers (hook_core.h, ProtocolTable)  *)
(* and the input devices of the client (remote_control.cpp, RemoteInput).  *)
(* Both put a wrapper into a table of functions; what comes by must come   *)
(* out behind it once, whole and in order.                                 *)
(*                                                                         *)
(* They are in different programs and share nothing, so each is followed   *)
(* by itself.                                                              *)
(***************************************************************************)
EXTENDS RemoteInput

CONSTANTS Cmds, Depts, Plugins, Ks, kMaxSwaps, MaxHooks     \* ProtocolTable

VARIABLES
    part,    \* "packets" or "input"
    own, row, def, swaps, originals, loaded, registered, asked, lost, covered, stopping

tableVars == <<own, row, def, swaps, originals, loaded, registered, asked, lost, covered, stopping>>

Tables == INSTANCE ProtocolTable

ASSUME HookPointsOK == RemoteInputConstantsOK /\ Tables!ProtocolTableConstantsOK

\* the part that is not followed rests in one state
HookInit ==
    /\ Init /\ Tables!Init
    /\ \/ part = "input" /\ registered = {}
       \/ part = "packets" /\ slow /\ has = (CHOOSE s \in Setups : TRUE) /\ cursor = CHOOSE p \in Places : TRUE
HookNext ==
    \/ part = "input" /\ Next /\ UNCHANGED <<part, tableVars>>
    \/ part = "packets" /\ Tables!Next /\ UNCHANGED <<part, vars>>
HookSpec == HookInit /\ [][HookNext]_<<part, vars, tableVars>>
-----------------------------------------------------------------------------
\* A packet meets the callbacks that asked for its opcode and no others (ProtocolTable).
OnlyTheHooksAsked == part = "packets" => Tables!OnlyTheHooksAsked

\* The server's handlers are never lost behind the plugins: calling the original from every callback ends in the server's
\* handler of that very opcode, and with every plugin gone the handlers are in their slots again (ProtocolTable).
OriginalsKept == part = "packets" => Tables!OriginalReached /\ Tables!PutBack

\* Injected input arrives whole and means what its command meant: every event once and in order at every device, a press
\* held in a read of each keyboard, motion neither lost nor doubled; a click is read where the cursor was, and a line goes
\* into the chat input its own Enter has opened (RemoteInput).
EventsWhole ==
    part = "input" => EachEventOnce /\ PressSeen /\ MotionIsWhole /\ ClickLandsThere /\ SayGoesToChat
=============================================================================
