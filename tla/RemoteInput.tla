---------------------------- MODULE RemoteInput ----------------------------
(***************************************************************************)
(* The input the remote control injects below the game                     *)
(* (client/plugins/remote_control/remote_control.cpp).                     *)
(*                                                                         *)
(* A command becomes a short program of steps: keys and buttons held and   *)
(* released, the cursor moved, characters posted, and waits in between.    *)
(* The game reads its devices once a frame, each by its state and by its   *)
(* buffered events, then presents the frame.  What it reads of a device is *)
(* the device's own input and what has been injected; the serve thread,    *)
(* the thread of -stdinlogin and the game thread share this under one lock.*)
(***************************************************************************)
EXTENDS Integers, Sequences, FiniteSets

CONSTANTS
    Kbs, Mice,      \* keyboards and mice
    Setups,         \* bound: the devices the game may have created
    Keys,           \* keys a controller presses, Enter among them
    Enter, Tab,
    Places,         \* bound: places of the cursor, numbers on a line
    Commands,       \* bound: commands of the controller and taps of -stdinlogin; one if the game is slow
    Rooms           \* bound: how many injected events a read of the game has room for

RemoteInputConstantsOK ==
    /\ IsFiniteSet(Kbs) /\ IsFiniteSet(Mice) /\ Kbs \cap Mice = {}
    /\ Cardinality(Kbs) <= 4 /\ Cardinality(Mice) <= 4
    /\ Setups \subseteq SUBSET (Kbs \cup Mice)
    /\ Enter \in Keys /\ Tab \notin Keys
    /\ Places \subseteq Int
    /\ Commands \in Nat /\ Rooms \subseteq Nat

Devices == Kbs \cup Mice
Serve == "serve"
Login == "login"
Threads == {Serve, Login}
AllKeys == Keys \cup {Tab}

VARIABLES
    slow,       \* whether a frame may take longer than a command waits for it
    has,        \* g_kbs and g_mice: the devices the game has created
    keys,       \* g_keys: the keys held
    used,       \* g_remote_used
    button,     \* g_buttons: the left one
    cursorOn,   \* g_cursor_on
    cursor,     \* g_cursor; the player's own before cursorOn
    queue,      \* device -> g_kb_q / g_ms_q
    owed,       \* mouse -> g_ms_dx and g_ms_dz
    steps,      \* thread -> the rest of its program, the current step first
    left,       \* thread -> presents its wait still needs
    given,      \* thread -> commands it has begun
    due,        \* the reads the game has still to make in this frame
    chat,       \* the game's chat input
    was,        \* the keys its keyboard reported last
    sent,       \* history: device -> events injected
    got,        \* history: device -> injected events it has reported
    moved,      \* history: mouse -> motion it has reported
    pushed,     \* history: motion injected
    seen,       \* history: thread -> its last key, and the keyboards that have reported it held
    astray,     \* history: characters were posted without a chat input to take them
    misplaced,  \* history: a press was read with the cursor somewhere else
    short       \* history: a read had no room for all that was queued

input == <<keys, used, button, cursorOn, cursor, queue, owed>>
game == <<due, chat, was>>
history == <<sent, got, moved, pushed, seen, astray, misplaced, short>>
vars == <<slow, has, input, steps, left, given, game, history>>

-----------------------------------------------------------------------------
(* The programs of the commands. *)

KeyStep(k, down) == [do |-> "key", arg |-> k, down |-> down]
ButtonStep(down) == [do |-> "button", arg |-> "left", down |-> down]
CursorStep(p) == [do |-> "cursor", arg |-> p, down |-> FALSE]
WheelStep == [do |-> "wheel", arg |-> "notch", down |-> FALSE]
CharsStep == [do |-> "chars", arg |-> "line", down |-> FALSE]
FramesStep(n) == [do |-> "frames", arg |-> n, down |-> FALSE]

\* a mistake: held for a frame, which may be half over
PressShort(k) == <<KeyStep(k, TRUE), FramesStep(1), KeyStep(k, FALSE), FramesStep(1)>>

Press(k) == <<KeyStep(k, TRUE), FramesStep(2), KeyStep(k, FALSE), FramesStep(1)>>

\* a mistake: the text is posted while the key is still down
SayEarly ==
    <<KeyStep(Enter, TRUE), FramesStep(1), CharsStep, FramesStep(1), KeyStep(Enter, FALSE), FramesStep(2)>> \o Press(Enter)

Say == Press(Enter) \o <<FramesStep(3), CharsStep, FramesStep(2)>> \o Press(Enter)

\* Sleep(250): two frames of a game that is not slow
Sleep == FramesStep(2)

\* a mistake: the button goes down where the cursor has been
ClickFirst(p) == <<ButtonStep(TRUE), CursorStep(p), Sleep, ButtonStep(FALSE)>>

Click(p) == <<CursorStep(p), Sleep, ButtonStep(TRUE), Sleep, ButtonStep(FALSE)>>

KeyCommands == {Press(k) : k \in Keys \ {Enter}} \cup {<<KeyStep(k, d)>> : k \in Keys \ {Enter}, d \in BOOLEAN}
MouseCommands ==
    {Click(p) : p \in Places} \cup {<<CursorStep(p)>> : p \in Places}
    \cup {<<CursorStep(p), ButtonStep(d)>> : p \in Places, d \in BOOLEAN}
    \cup {<<CursorStep(p), WheelStep>> : p \in Places}

Programs(t) ==
    IF t = Login THEN {Press(Tab)}
    ELSE (IF has \cap Kbs = {} THEN {} ELSE KeyCommands \cup {Say})
         \cup (IF has \cap Mice = {} THEN {} ELSE MouseCommands)

-----------------------------------------------------------------------------

Reads == has \X {"state", "data"}

Init ==
    /\ slow \in BOOLEAN /\ has \in Setups
    /\ keys = {} /\ used = FALSE /\ button = FALSE /\ cursorOn = FALSE
    /\ cursor \in Places
    /\ queue = [d \in Devices |-> <<>>]
    /\ owed = [m \in Mice |-> [d |-> 0, z |-> 0]]
    /\ steps = [t \in Threads |-> <<>>]
    /\ left = [t \in Threads |-> 0]
    /\ given = [t \in Threads |-> 0]
    /\ due = Reads
    /\ chat = "closed" /\ was = {}
    /\ sent = [d \in Devices |-> <<>>]
    /\ got = [d \in Devices |-> <<>>]
    /\ moved = [m \in Mice |-> [d |-> 0, z |-> 0]]
    /\ pushed = [d |-> 0, z |-> 0]
    /\ seen = [t \in Threads |-> [key |-> "none", by |-> {}]]
    /\ astray = FALSE /\ misplaced = FALSE /\ short = FALSE

\* the next step; a wait starts counting presents from here on
Turn(t, rest) ==
    /\ steps' = [steps EXCEPT ![t] = rest]
    /\ left' = [left EXCEPT ![t] = IF rest # <<>> /\ Head(rest).do = "frames" THEN Head(rest).arg ELSE 0]

\* the controller's next command, or the login's next Tab
Give(t) ==
    /\ steps[t] = <<>> /\ given[Serve] + given[Login] < (IF slow THEN 1 ELSE Commands)
    /\ given' = [given EXCEPT ![t] = @ + 1]
    /\ \E p \in Programs(t) : Turn(t, p)
    /\ UNCHANGED <<slow, has, input, game, history>>

\* a mistake: one queue for all devices of a kind, the first one's
PushShared(devs, e) ==
    \E first \in devs :
        /\ queue' = [queue EXCEPT ![first] = Append(@, e)]
        /\ sent' = [d \in Devices |-> IF d \in devs THEN Append(sent[d], e) ELSE sent[d]]

\* push_event into the queue of every device of a kind
Push(devs, e) ==
    /\ queue' = [d \in Devices |-> IF d \in devs THEN Append(queue[d], e) ELSE queue[d]]
    /\ sent' = [d \in Devices |-> IF d \in devs THEN Append(sent[d], e) ELSE sent[d]]

Doing(t, what) == steps[t] # <<>> /\ Head(steps[t]).do = what

DiKey(t) ==
    /\ Doing(t, "key")
    /\ LET s == Head(steps[t]) IN
         /\ used' = TRUE
         /\ keys' = IF s.down THEN keys \cup {s.arg} ELSE keys \ {s.arg}
         /\ Push(has \cap Kbs, <<"key", s.arg, s.down>>)
    /\ seen' = IF Head(steps[t]).down THEN [seen EXCEPT ![t] = [key |-> Head(steps[t]).arg, by |-> {}]] ELSE seen
    /\ Turn(t, Tail(steps[t]))
    /\ UNCHANGED <<slow, has, button, cursorOn, cursor, owed, given, game, got, moved, pushed, astray, misplaced, short>>

\* the event keeps, for the properties, where the cursor was and whether it is a click's
DiButton(t) ==
    /\ Doing(t, "button")
    /\ button' = Head(steps[t]).down
    /\ Push(has \cap Mice, <<"button", cursor, button', Len(steps[t]) > 1>>)
    /\ Turn(t, Tail(steps[t]))
    /\ UNCHANGED <<slow, has, keys, used, cursorOn, cursor, owed, given, game, got, moved, pushed, seen,
                   astray, misplaced, short>>

Owe(field, n) ==
    /\ owed' = [m \in Mice |-> IF m \in has THEN [owed[m] EXCEPT ![field] = @ + n] ELSE owed[m]]
    /\ pushed' = [pushed EXCEPT ![field] = @ + n]

\* no motion is still a motion: the game looks under the cursor only when it moves
DiCursor(t) ==
    /\ Doing(t, "cursor")
    /\ LET p == Head(steps[t]).arg
           dx == IF p = cursor THEN 1 ELSE p - cursor
       IN  /\ Push(has \cap Mice, <<"motion", dx, FALSE>>)
           /\ Owe("d", dx)
           /\ cursor' = p
    /\ cursorOn' = TRUE
    /\ Turn(t, Tail(steps[t]))
    /\ UNCHANGED <<slow, has, keys, used, button, given, game, got, moved, seen, astray, misplaced, short>>

DiWheel(t) ==
    /\ Doing(t, "wheel")
    /\ used' = TRUE
    /\ Push(has \cap Mice, <<"wheel", 1, FALSE>>)
    /\ Owe("z", 1)
    /\ Turn(t, Tail(steps[t]))
    /\ UNCHANGED <<slow, has, keys, button, cursorOn, cursor, given, game, got, moved, seen, astray, misplaced, short>>

\* the characters land in the chat input if it is open
PostChars(t) ==
    /\ Doing(t, "chars")
    /\ astray' = (astray \/ chat # "open")
    /\ Turn(t, Tail(steps[t]))
    /\ UNCHANGED <<slow, has, input, given, game, sent, got, moved, pushed, seen, misplaced, short>>

\* wait_frames is over when the frames are, or when it gives up; Sleep does not look at them
WaitFrames(t) ==
    /\ Doing(t, "frames")
    /\ left[t] > 0 => slow
    /\ Turn(t, Tail(steps[t]))
    /\ UNCHANGED <<slow, has, input, given, game, sent, got, moved, pushed, seen, astray, misplaced, short>>

-----------------------------------------------------------------------------
(* The game's reads.  hr: what the device itself answers. *)

Answer == {"ok", "lost", "bad"}

\* a failed read is made a healthy, empty one once input has been injected
StateHealthy(hr) == hr = "ok" \/ cursorOn \/ keys # {} \/ (used /\ hr = "lost")

\* the game's own: Enter pressed since the last look opens the chat input, or sends its line
ChatAfter(now) ==
    IF Enter \notin now \ was THEN chat
    ELSE CASE chat = "closed" -> "opening" [] chat = "open" -> "closing" [] OTHER -> chat

\* GetDeviceState of a keyboard: the keys held are held there too
KbState(d, hr) ==
    /\ <<d, "state">> \in due
    /\ due' = due \ {<<d, "state">>}
    /\ IF StateHealthy(hr)
         THEN /\ seen' = [t \in Threads |-> IF seen[t].key \in keys THEN [seen[t] EXCEPT !.by = @ \cup {d}] ELSE seen[t]]
              /\ chat' = ChatAfter(keys) /\ was' = keys
         ELSE UNCHANGED <<seen, chat, was>>
    /\ UNCHANGED <<slow, has, input, steps, left, given, sent, got, moved, pushed, astray, misplaced, short>>

Still == [d |-> 0, z |-> 0]

\* a mistake: the motion is taken from every mouse
TakeAll(d) == [m \in Mice |-> Still]

\* the motion owed to the mouse that is read
TakeMotion(d) == [owed EXCEPT ![d] = Still]

\* GetDeviceState of a mouse: the button held, and the motion owed since its last read
MouseState(d, hr) ==
    /\ <<d, "state">> \in due
    /\ due' = due \ {<<d, "state">>}
    /\ IF StateHealthy(hr)
         THEN /\ moved' = [moved EXCEPT ![d] = [d |-> @.d + owed[d].d, z |-> @.z + owed[d].z]]
              /\ owed' = TakeMotion(d)
         ELSE UNCHANGED <<moved, owed>>
    /\ UNCHANGED <<slow, has, keys, used, button, cursorOn, cursor, queue, steps, left, given, chat, was, sent, got, pushed,
                   seen, astray, misplaced, short>>

\* q.erase: the events that were copied
KeepRest(q, n) == SubSeq(q, n + 1, Len(q))

\* a click's press that is read when the cursor has gone on
Misplaced(e) == e[1] = "button" /\ e[3] /\ e[4] /\ e[2] # cursor

\* GetDeviceData: behind the device's own events, as many of the queue as there is room for
DeviceData(d, room) ==
    /\ <<d, "data">> \in due
    /\ due' = due \ {<<d, "data">>}
    /\ LET n == IF room < Len(queue[d]) THEN room ELSE Len(queue[d])
           read == SubSeq(queue[d], 1, n)
       IN  /\ got' = [got EXCEPT ![d] = @ \o read]
           /\ queue' = [queue EXCEPT ![d] = KeepRest(@, n)]
           /\ misplaced' = (misplaced \/ \E i \in 1 .. n : Misplaced(read[i]))
           /\ short' = (short \/ n < Len(queue[d]))
    /\ UNCHANGED <<slow, has, keys, used, button, cursorOn, cursor, owed, steps, left, given, chat, was, sent, moved,
                   pushed, seen, astray>>

\* a mistake: the count runs on below nothing
CountOn(n) == n - 1

\* wait_frames compares g_presents with its target
Count(n) == IF n > 0 THEN n - 1 ELSE 0

\* the frame is presented; what it opened or closed is there
Present ==
    /\ due = {}
    /\ due' = Reads
    /\ left' = [t \in Threads |-> Count(left[t])]
    /\ chat' = CASE chat = "opening" -> "open" [] chat = "closing" -> "closed" [] OTHER -> chat
    /\ UNCHANGED <<slow, has, input, steps, given, was, history>>

-----------------------------------------------------------------------------

Step(t) == DiKey(t) \/ DiButton(t) \/ DiCursor(t) \/ DiWheel(t) \/ PostChars(t) \/ WaitFrames(t)

Next ==
    \/ \E t \in Threads : Give(t) \/ Step(t)
    \/ \E d \in Kbs, hr \in Answer : KbState(d, hr)
    \/ \E d \in Mice, hr \in Answer : MouseState(d, hr)
    \/ \E d \in Devices, room \in Rooms : DeviceData(d, room)
    \/ Present

Spec == Init /\ [][Next]_vars

-----------------------------------------------------------------------------

Event == {"key", "button", "motion", "wheel"}

TypeOK ==
    /\ slow \in BOOLEAN /\ has \in Setups
    /\ keys \subseteq AllKeys /\ used \in BOOLEAN /\ button \in BOOLEAN
    /\ cursorOn \in BOOLEAN /\ cursor \in Places
    /\ \A d \in Devices : \A i \in DOMAIN queue[d] : queue[d][i][1] \in Event
    /\ owed \in [Mice -> [d : Int, z : Int]]
    /\ \A t \in Threads : \A i \in DOMAIN steps[t] : steps[t][i].do \in {"key", "button", "cursor", "wheel", "chars", "frames"}
    /\ left \in [Threads -> Nat]
    /\ given \in [Threads -> Nat]
    /\ due \subseteq Reads
    /\ chat \in {"closed", "opening", "open", "closing"} /\ was \subseteq AllKeys

\* Every device the game has reports every injected event once and in the order the commands gave them, however little
\* room a read leaves: what it reported and what is still queued is what was injected.
EachEventOnce == \A d \in Devices : got[d] \o queue[d] = sent[d]

\* Motion is neither lost nor told twice: what each mouse has reported and still owes is what the commands moved.
MotionIsWhole == \A m \in has \cap Mice : moved[m].d + owed[m].d = pushed.d /\ moved[m].z + owed[m].z = pushed.z

\* A key that is pressed and released by one command has been held in a read of every keyboard, unless its wait
\* gave up: "held across two presented frames (one the game surely polled)".
PressSeen ==
    \A t \in Threads :
        Doing(t, "key") /\ Len(steps[t]) > 1 /\ ~Head(steps[t]).down /\ ~slow => seen[t].by = has \cap Kbs

\* The game reads the press of a click while the cursor still is where the click was, as long as its frames come faster
\* than the click's pauses and its reads leave nothing behind.
ClickLandsThere == slow \/ short \/ ~misplaced

\* The first line of a controller goes into the chat input that its own Enter has opened.
SayGoesToChat == slow \/ given[Serve] > 1 \/ ~astray
=============================================================================
