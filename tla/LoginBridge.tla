----------------------------- MODULE LoginBridge -----------------------------
(***************************************************************************)
(* The Login's half of the 2026 client bridge (login/plugins/              *)
(* login_bridge26): one detour of the packet parser, one of the socket's   *)
(* send.  A packet is still encrypted when the detour sees it, with a      *)
(* position in a table of 499 bytes that client and server each advance    *)
(* by what they send and parse: a packet translated to another length,     *)
(* answered or dropped has to leave the server's position where the        *)
(* client's is.  Which client a session is, is read off its first packet   *)
(* and kept by session address; the server reuses addresses.               *)
(*                                                                         *)
(* Packets are the command number within department 3 and the payload's    *)
(* length; both are the program's own.                                     *)
(***************************************************************************)
EXTENDS Integers, Sequences

CONSTANTS
    Sessions,    \* the addresses of the session pool
    Shifts,      \* numbering shifts of the 2026 builds: 0 is the German one
    Worlds,
    MaxPackets   \* bound: packets of one connection

kXorLen == 499
kShiftFrom == 44
Closed == 3
Nobody == [is2026 |-> FALSE, shift |-> -1]
Old == [is2026 |-> FALSE, shift |-> 0]
Clients == {Old} \cup {[is2026 |-> TRUE, shift |-> d] : d \in Shifts}

LoginBridgeOK == Shifts \subseteq 0 .. 400 /\ MaxPackets \in Nat /\ Worlds \subseteq 0 .. 255

VARIABLES
    real,   \* session -> the client at the other end
    cpos,   \* session -> the client's stream position
    spos,   \* session -> the server's, u16 at session + 0x10C
    mark,   \* g_sess: address -> what its last version check said, with the world selected
    gate,   \* the stock session state: 0 version, 1 login, 2 in, 3 the server has hung up
    asked,  \* the world the client asked for
    heard,  \* the packets the client got for its last one
    sent    \* packets of this connection
vars == <<real, cpos, spos, mark, gate, asked, heard, sent>>

\* U: the US build numbers the department's commands from 0x2C up higher
U(cmd, shift) == IF shift # 0 /\ cmd >= kShiftFrom THEN cmd + shift ELSE cmd
Packet(cmd, n, x) == [cmd |-> cmd, n |-> n, x |-> x]

\* a 2016 client's login by a launcher's one-time password: the length of a 2026 version check, and an opcode in its range
OtpLogin == Packet(55, 32, 0)
\* what a client may send, by where it has got to
Says(c, g) ==
    IF c.is2026
    THEN CASE g = 0 -> {Packet(44 + c.shift, 32, 0)}
           [] g = 1 -> {Packet(1, 349, otp) : otp \in {0, 1}}    \* 1: the leading 32 bytes are a hex OTP
           [] OTHER -> {Packet(24, 4, 0), Packet(U(53, c.shift), 6, 0), Packet(U(36, c.shift), 8, 0), Packet(U(63, c.shift), 65, 0)}
                       \cup {Packet(10, 1, w) : w \in Worlds}
    ELSE CASE g = 0 -> {Packet(101, 64, 0)}
           [] g = 1 -> {Packet(90, 316, 0), OtpLogin}
           [] OTHER -> {Packet(11, 1, w) : w \in Worlds}

\* what a client understands
Understands(c) ==
    IF c.is2026 THEN {<<U(45, c.shift), 1>>, <<7, 2>>, <<U(64, c.shift), 1>>, <<U(71, c.shift), 1>>, <<6, 5>>, <<U(62, c.shift), 65>>,
                      <<U(53, c.shift), 8>>, <<11, 84>>}
    ELSE {<<103, 0>>, <<9, 2>>, <<10, 1>>, <<12, 83>>}
-----------------------------------------------------------------------------
(* on_send: stock replies, told by their command *)

OnSend(c, m) ==
    IF ~c.is2026 THEN <<m>>
    ELSE CASE m.cmd = 103 -> <<Packet(U(45, c.shift), 1, 0)>>
           [] m.cmd = 9 -> <<Packet(7, m.n, 0)>>   \* the 2026 login scene has no case for 9
           [] m.cmd = 10 -> <<Packet(U(64, c.shift), 1, 0), Packet(U(71, c.shift), 1, 0), Packet(6, m.n + 4, 0),
                              Packet(U(62, c.shift), 65, 0)>>
           [] m.cmd = 12 -> <<Packet(11, m.n + 1, c.world)>>
           [] OTHER -> <<m>>

\* CParserClient::Parser on a packet it reads as m: the next state and the reply
Stock(g, m) ==
    CASE g = 0 /\ m.cmd = 101 /\ m.n = 64 -> {<<1, <<Packet(103, 0, 0)>> >>}
      [] g = 1 /\ <<m.cmd, m.n>> \in {<<90, 316>>, <<55, 32>>} -> {<<2, <<Packet(10, 1, 0)>> >>, <<1, <<Packet(9, 2, 0)>> >>}
      [] g = 2 /\ m.cmd = 11 -> {<<2, <<Packet(12, 83, 0)>> >>}
      [] OTHER -> {<<Closed, <<>> >>}   \* not let through, not registered, or the logout 0x0C18
-----------------------------------------------------------------------------
(* on_parser *)

\* mutated: a 2016 client's version check leaves the mark of the address's last client
MarkAfterStale(s, m) ==
    IF m.n = 32 /\ m.cmd >= 44 THEN [is2026 |-> TRUE, shift |-> m.cmd - 44, world |-> 0]
    ELSE IF mark[s].is2026 /\ m.cmd = U(10, mark[s].shift) /\ m.n = 1 THEN [mark[s] EXCEPT !.world = m.x] ELSE mark[s]
\* a version check marks the session anew, a world select notes the world
MarkAfter(s, m) ==
    IF m.cmd = 101 /\ m.n = 64 THEN [is2026 |-> FALSE, shift |-> 0, world |-> 0]
    ELSE IF m.n = 32 /\ m.cmd >= 44 THEN [is2026 |-> TRUE, shift |-> m.cmd - 44, world |-> 0]
    ELSE IF mark[s].is2026 /\ m.cmd = U(10, mark[s].shift) /\ m.n = 1 THEN [mark[s] EXCEPT !.world = m.x] ELSE mark[s]

\* mutated: the notices are not dropped, and 0x0C18 reads as the 2016 logout
DroppedButNotices(s, m) == m.n \in {8, 65}
\* 2026 notices whose numbers mean something else in 2016, the will-select and the challenge answer
Dropped(s, m) == m.cmd = 24 \/ m.cmd = U(53, mark[s].shift) \/ m.n \in {8, 65}

\* the 2016 frame the stock parser is run on; none when the packet is dropped or answered here
Fed(s, m) ==
    CASE m.n = 32 /\ m.cmd >= 44 -> <<Packet(101, 64, 0)>>
      [] m.cmd = 1 /\ m.n = 349 -> IF m.x = 1 THEN <<Packet(55, 32, 0)>> ELSE <<Packet(90, 349 - 33, 0)>>
      [] m.cmd = U(10, mark[s].shift) /\ m.n = 1 -> <<Packet(11, 1, m.x)>>
      [] OTHER -> IF Dropped(s, m) THEN <<>> ELSE <<m>>

\* the challenge answer is answered here, with the OTP frame
Answered(s, m) == IF m.n = 65 THEN <<Packet(U(53, mark[s].shift), 8, 0)>> ELSE <<>>

\* mutated: the position moves with the frame that was parsed
ConsumeFed(start, m, fed) == (start + IF fed = <<>> THEN 0 ELSE fed[1].n + 2) % kXorLen
\* consume: the position moves with the packet the client sent
Consume(start, m, fed) == (start + m.n + 2) % kXorLen

\* off its position the server reads noise, which no table row takes
Garbage == Packet(1023, 1, 0)

Receive(s, m) ==
    LET is == IF spos[s] = cpos[s] THEN m ELSE Garbage
        check == is.cmd = 101 /\ is.n = 64
        new == (~check /\ is.n = 32 /\ is.cmd >= 44) \/ (~check /\ mark[s].is2026)
        fed == IF new THEN Fed(s, is) ELSE <<is>>
    IN
    /\ real[s] # Nobody /\ gate[s] # Closed /\ sent[s] < MaxPackets
    /\ sent' = [sent EXCEPT ![s] = @ + 1]
    /\ mark' = [mark EXCEPT ![s] = MarkAfter(s, is)]
    /\ cpos' = [cpos EXCEPT ![s] = (@ + m.n + 2) % kXorLen]
    /\ spos' = [spos EXCEPT ![s] = Consume(@, is, fed)]
    /\ asked' = [asked EXCEPT ![s] = IF gate[s] = 2 /\ m.n = 1 THEN m.x ELSE @]
    /\ \/ /\ fed = <<>>
          /\ heard' = [heard EXCEPT ![s] = Answered(s, is)] /\ UNCHANGED gate
       \/ /\ fed # <<>>
          /\ \E r \in Stock(gate[s], fed[1]) :
                /\ gate' = [gate EXCEPT ![s] = r[1]]
                /\ heard' = [heard EXCEPT ![s] = IF r[2] = <<>> THEN <<>> ELSE OnSend(mark'[s], r[2][1])]
    /\ UNCHANGED real

\* the address goes to the next connection with its mark as it was
Connect(s, c) ==
    /\ real[s] = Nobody
    /\ real' = [real EXCEPT ![s] = c]
    /\ cpos' = [cpos EXCEPT ![s] = 0] /\ spos' = [spos EXCEPT ![s] = 0] /\ sent' = [sent EXCEPT ![s] = 0]
    /\ gate' = [gate EXCEPT ![s] = 0] /\ heard' = [heard EXCEPT ![s] = <<>>]
    /\ UNCHANGED <<mark, asked>>

Disconnect(s) ==
    /\ real[s] # Nobody /\ real' = [real EXCEPT ![s] = Nobody]
    /\ heard' = [heard EXCEPT ![s] = <<>>]
    /\ UNCHANGED <<cpos, spos, mark, gate, asked, sent>>

Init ==
    /\ real = [s \in Sessions |-> Nobody] /\ mark = [s \in Sessions |-> [is2026 |-> FALSE, shift |-> 0, world |-> 0]]
    /\ cpos = [s \in Sessions |-> 0] /\ spos = [s \in Sessions |-> 0]
    /\ gate = [s \in Sessions |-> 0] /\ asked = [s \in Sessions |-> 0]
    /\ heard = [s \in Sessions |-> <<>>] /\ sent = [s \in Sessions |-> 0]

Next ==
    \E s \in Sessions :
        \/ \E c \in Clients : Connect(s, c)
        \/ real[s] # Nobody /\ gate[s] # Closed /\ \E m \in Says(real[s], gate[s]) : Receive(s, m)
        \/ Disconnect(s)

Spec == Init /\ [][Next]_vars
-----------------------------------------------------------------------------
TypeOK ==
    /\ real \in [Sessions -> Clients \cup {Nobody}]
    /\ cpos \in [Sessions -> 0 .. kXorLen - 1] /\ spos \in [Sessions -> 0 .. kXorLen - 1]
    /\ gate \in [Sessions -> 0 .. Closed]
    /\ sent \in [Sessions -> 0 .. MaxPackets]

\* After every packet, translated, answered or dropped, the server decrypts where the client encrypts.
StreamInStep == \A s \in Sessions : real[s] # Nobody => spos[s] = cpos[s]

\* A client gets the replies of its own protocol only, whoever had the session's address before it, and a 2026 client's
\* world-select reply names the world it asked for.
SpeaksItsLanguage ==
    \A s \in Sessions : \A k \in DOMAIN heard[s] :
        /\ <<heard[s][k].cmd, heard[s][k].n>> \in Understands(real[s])
        /\ real[s].is2026 /\ heard[s][k].cmd = 11 => heard[s][k].x = asked[s]

\* the mark a 2016 client's one-time password leaves: a 2026 build whose numbering shift is 11
TakenFor2026(s) == ~real[s].is2026 /\ mark[s].is2026 /\ mark[s].shift = OtpLogin.cmd - kShiftFrom
\* Of the packets of legal clients one alone gets its session closed, the one-time password of a 2016 client: no other
\* reads as another protocol's logout, or as a command the Login lacks.
LegalClientsStay == \A s \in Sessions : real[s] # Nobody /\ gate[s] = Closed => TakenFor2026(s)

\* "2016 sessions stay stock" (login_bridge26.cpp:9): after its version check none is marked as a 2026 client's.
StockSessionsStayStock == \A s \in Sessions : real[s] = Old /\ gate[s] # 0 => ~mark[s].is2026
=============================================================================
