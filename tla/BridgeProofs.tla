---------------------------- MODULE BridgeProofs ----------------------------
(***************************************************************************)
(* The three bridges of a 2026 client on 2016 servers, each for any        *)
(* number of sessions, players and packets, and then all of them in        *)
(* Bridges.  Login: any numbering shifts and any succession of clients at  *)
(* an address.  World: any characters and guilds.  Zone: any items whose   *)
(* slot goes by the one they are drawn at, any quests and any chunks of    *)
(* their list.  Tables: any client files, companion orders and sites.      *)
(* Data: every layout, boxes of any such records, any quests and rewards.  *)
(***************************************************************************)
EXTENDS Bridges, FiniteSetTheorems, Induction, TLAPS

Marks == [is2026 : BOOLEAN, shift : Int, world : Int]
Replies == UNION {[1 .. n -> [cmd : Int, n : Int, x : Int]] : n \in 0 .. 4}

\* from its version check to its close, a session's mark says what its client is
MarkIsTheClients ==
    \A s \in Sessions : real[s] # Nobody /\ gate[s] \notin {0, Closed} =>
        /\ mark[s].is2026 = real[s].is2026
        /\ real[s].is2026 => mark[s].shift = real[s].shift

BridgeInv ==
    /\ TypeOK
    /\ mark \in [Sessions -> Marks]
    /\ asked \in [Sessions -> Int]
    /\ DOMAIN heard = Sessions
    /\ MarkIsTheClients /\ StreamInStep /\ SpeaksItsLanguage /\ LegalClientsStay

LEMMA BridgeInit == ASSUME LoginBridgeOK, Init PROVE BridgeInv
<1>1. TypeOK
  BY DEF LoginBridgeOK, Init, TypeOK, Nobody, Clients, kXorLen, Closed
<1>2. mark \in [Sessions -> Marks] /\ asked \in [Sessions -> Int] /\ DOMAIN heard = Sessions
  BY DEF Init, Marks
<1>3. MarkIsTheClients /\ StreamInStep /\ SpeaksItsLanguage /\ LegalClientsStay
  BY DEF Init, MarkIsTheClients, StreamInStep, SpeaksItsLanguage, LegalClientsStay, Closed
<1> QED BY <1>1, <1>2, <1>3 DEF BridgeInv

LEMMA ConnectKeeps ==
    ASSUME LoginBridgeOK, BridgeInv, NEW s \in Sessions, NEW c \in Clients, Connect(s, c)
    PROVE BridgeInv'
<1>1. TypeOK'
  <2>1. 0 \in 0 .. kXorLen - 1 /\ 0 \in 0 .. Closed /\ 0 \in 0 .. MaxPackets
    BY DEF LoginBridgeOK, kXorLen, Closed
  <2> QED BY <2>1 DEF BridgeInv, TypeOK, Connect
<1>2. (mark \in [Sessions -> Marks] /\ asked \in [Sessions -> Int] /\ DOMAIN heard = Sessions)'
  BY DEF BridgeInv, Connect
<1>3. MarkIsTheClients'
  BY DEF BridgeInv, TypeOK, MarkIsTheClients, Connect
<1>4. StreamInStep' /\ LegalClientsStay'
  <2>1. StreamInStep'
    BY DEF BridgeInv, TypeOK, StreamInStep, Connect
  <2>2. gate' = [gate EXCEPT ![s] = 0] /\ real' = [real EXCEPT ![s] = c] /\ mark' = mark /\ gate \in [Sessions -> 0 .. Closed]
    BY DEF BridgeInv, TypeOK, Connect
  <2>3. ASSUME NEW q \in Sessions, gate'[q] = Closed PROVE real'[q] = real[q] /\ gate'[q] = gate[q]
    BY <2>2, <2>3 DEF BridgeInv, TypeOK, Closed
  <2>4. ASSUME NEW q \in Sessions, real'[q] # Nobody, gate'[q] = Closed PROVE TakenFor2026(q)'
    BY <2>2, <2>3, <2>4 DEF BridgeInv, LegalClientsStay, TakenFor2026
  <2> QED BY <2>1, <2>4 DEF LegalClientsStay
<1>5. SpeaksItsLanguage'
  BY DEF BridgeInv, TypeOK, SpeaksItsLanguage, Connect
<1> QED BY <1>1, <1>2, <1>3, <1>4, <1>5 DEF BridgeInv

LEMMA DisconnectKeeps == ASSUME BridgeInv, NEW s \in Sessions, Disconnect(s) PROVE BridgeInv'
<1>1. TypeOK'
  BY DEF BridgeInv, TypeOK, Disconnect
<1>2. (mark \in [Sessions -> Marks] /\ asked \in [Sessions -> Int] /\ DOMAIN heard = Sessions)'
  BY DEF BridgeInv, Disconnect
<1>3. MarkIsTheClients'
  BY DEF BridgeInv, TypeOK, MarkIsTheClients, Disconnect
<1>4. StreamInStep' /\ LegalClientsStay'
  <2>1. StreamInStep'
    BY DEF BridgeInv, TypeOK, StreamInStep, Disconnect
  <2>2. ASSUME NEW q \in Sessions, real'[q] # Nobody PROVE real'[q] = real[q] /\ gate'[q] = gate[q] /\ mark'[q] = mark[q]
    BY <2>2 DEF BridgeInv, TypeOK, Disconnect
  <2> QED BY <2>1, <2>2 DEF BridgeInv, LegalClientsStay, TakenFor2026
<1>5. SpeaksItsLanguage'
  BY DEF BridgeInv, TypeOK, SpeaksItsLanguage, Disconnect
<1> QED BY <1>1, <1>2, <1>3, <1>4, <1>5 DEF BridgeInv
-----------------------------------------------------------------------------
(* One packet m of the client c, at gate g, with the address's mark k. *)

\* a reply of one protocol in the client's, with the world it asked for
Understood(c, r, world) ==
    \A i \in DOMAIN r : <<r[i].cmd, r[i].n>> \in Understands(c) /\ (c.is2026 /\ r[i].cmd = 11 => r[i].x = world)

LEMMA TwoKinds == ASSUME LoginBridgeOK, NEW c \in Clients
                  PROVE \/ c = Old /\ c.is2026 = FALSE
                        \/ c.is2026 = TRUE /\ c.shift \in 0 .. 400
BY DEF LoginBridgeOK, Clients, Old

StockReplies == {Packet(103, 0, 0), Packet(10, 1, 0), Packet(9, 2, 0), Packet(12, 83, 0)}

\* what the server's replies become
LEMMA RepliesUnderstood ==
    ASSUME LoginBridgeOK, NEW c \in Clients, NEW k \in Marks, k.is2026 = c.is2026, c.is2026 => k.shift = c.shift,
           NEW r \in StockReplies, NEW world, r.cmd = 12 /\ c.is2026 => world = k.world
    PROVE Understood(c, OnSend(k, r), world)
<1>1. CASE c = Old /\ c.is2026 = FALSE
  <2>1. OnSend(k, r) = <<r>>
    BY <1>1 DEF OnSend
  <2>2. <<r.cmd, r.n>> \in Understands(c)
    BY <1>1 DEF Understands, StockReplies, Packet
  <2> QED BY <1>1, <2>1, <2>2 DEF Understood
<1>2. CASE c.is2026 = TRUE /\ c.shift \in 0 .. 400
  <2>1. CASE r = Packet(103, 0, 0)
    <3>1. OnSend(k, r) = <<Packet(U(45, c.shift), 1, 0)>>
      BY <1>2, <2>1 DEF OnSend, Packet
    <3> QED BY <1>2, <3>1 DEF Understood, Understands, Packet, U, kShiftFrom
  <2>2. CASE r = Packet(10, 1, 0)
    <3>1. OnSend(k, r) = <<Packet(U(64, c.shift), 1, 0), Packet(U(71, c.shift), 1, 0), Packet(6, 5, 0),
                           Packet(U(62, c.shift), 65, 0)>>
      BY <1>2, <2>2 DEF OnSend, Packet
    <3> QED BY <1>2, <3>1 DEF Understood, Understands, Packet, U, kShiftFrom
  <2>3. CASE r = Packet(9, 2, 0)
    <3>1. OnSend(k, r) = <<Packet(7, 2, 0)>>
      BY <1>2, <2>3 DEF OnSend, Packet
    <3> QED BY <1>2, <3>1 DEF Understood, Understands, Packet
  <2>4. CASE r = Packet(12, 83, 0)
    <3>1. OnSend(k, r) = <<Packet(11, 84, k.world)>>
      BY <1>2, <2>4 DEF OnSend, Packet
    <3>2. world = k.world
      BY <1>2, <2>4 DEF Packet
    <3> QED BY <1>2, <3>1, <3>2 DEF Understood, Understands, Packet
  <2> QED BY <2>1, <2>2, <2>3, <2>4 DEF StockReplies
<1> QED BY <1>1, <1>2, TwoKinds

\* what Receive takes a packet in step for
Check(m) == m.cmd = 101 /\ m.n = 64
IsNew(s, m) == (~Check(m) /\ m.n = 32 /\ m.cmd >= 44) \/ (~Check(m) /\ mark[s].is2026)
FedOf(s, m) == IF IsNew(s, m) THEN Fed(s, m) ELSE <<m>>

\* the server lets the frame f through at gate g, and answers
LetThrough(g, f) == \A r \in Stock(g, f) : r[1] \in {1, 2} /\ \E q \in StockReplies : r[2] = <<q>> /\ (q.cmd = 12 <=> g = 2)

LEMMA StockLetsThrough ==
    /\ \A x : LetThrough(0, Packet(101, 64, x))
    /\ \A x : LetThrough(1, Packet(90, 316, x)) /\ LetThrough(1, Packet(55, 32, x))
    /\ \A x : LetThrough(2, Packet(11, 1, x))
BY DEF LetThrough, Stock, StockReplies, Packet

\* m is a 2016 client's login by a one-time password
IsOtp(s, m) == ~real[s].is2026 /\ m = OtpLogin

\* how any other packet of its client leaves a session: marked as what the client is, and answered in its language
MarkRight(s, m) ==
    /\ MarkAfter(s, m) \in Marks
    /\ MarkAfter(s, m).is2026 = real[s].is2026
    /\ real[s].is2026 => MarkAfter(s, m).shift = real[s].shift
FedRight(s, m) ==
    /\ m.n \in Nat /\ m.x \in Int
    /\ \/ FedOf(s, m) = <<>> /\ gate[s] = 2
       \/ \E f : FedOf(s, m) = <<f>> /\ LetThrough(gate[s], f)
    /\ FedOf(s, m) # <<>> /\ gate[s] = 2 /\ real[s].is2026 => m.n = 1 /\ MarkAfter(s, m).world = m.x
    /\ FedOf(s, m) = <<>> => \A world : Understood(real[s], Answered(s, m), world)

LEMMA PacketParsed ==
    ASSUME LoginBridgeOK, BridgeInv, NEW s \in Sessions, real[s] # Nobody, gate[s] # Closed, NEW m \in Says(real[s], gate[s])
    PROVE IsOtp(s, m) \/ (MarkRight(s, m) /\ FedRight(s, m))
<1> DEFINE c == real[s]  g == gate[s]
<1>1. c \in Clients /\ g \in {0, 1, 2} /\ mark[s] \in Marks
  BY DEF BridgeInv, TypeOK, Closed
<1>2. g # 0 => mark[s].is2026 = c.is2026 /\ (c.is2026 => mark[s].shift = c.shift)
  BY DEF BridgeInv, MarkIsTheClients
<1> HIDE DEF c, g
<1>3. CASE c = Old /\ c.is2026 = FALSE
  <2>1. CASE g = 0
    <3>1. m = Packet(101, 64, 0)
      BY <1>3, <2>1 DEF Says, c, g
    <3>2. MarkAfter(s, m) = [is2026 |-> FALSE, shift |-> 0, world |-> 0]
      BY <3>1 DEF MarkAfter, Packet
    <3>3. FedOf(s, m) = <<m>>
      BY <3>1 DEF FedOf, IsNew, Check, Packet
    <3>4. LetThrough(g, m)
      BY <2>1, <3>1, StockLetsThrough
    <3>5. FedOf(s, m) # <<>>
      BY <3>3
    <3>6. MarkRight(s, m)
      <4>1. MarkAfter(s, m) \in Marks
        BY <3>2 DEF Marks
      <4>2. MarkAfter(s, m).is2026 = FALSE
        BY <3>2
      <4> QED BY <1>3, <4>1, <4>2 DEF MarkRight, c
    <3>7. FedRight(s, m)
      BY <2>1, <3>1, <3>3, <3>4, <3>5 DEF FedRight, Packet, g
    <3> QED BY <3>6, <3>7
  <2>2. CASE g = 1 /\ m # OtpLogin
    <3>1. m = Packet(90, 316, 0)
      BY <1>3, <2>2 DEF Says, c, g
    <3>2. MarkAfter(s, m) = mark[s]
      BY <1>2, <1>3, <2>2, <3>1 DEF MarkAfter, Packet
    <3>3. FedOf(s, m) = <<m>>
      BY <1>2, <1>3, <2>2, <3>1 DEF FedOf, IsNew, Check, Packet
    <3>4. LetThrough(g, m)
      BY <2>2, <3>1, StockLetsThrough
    <3>5. FedOf(s, m) # <<>>
      BY <3>3
    <3> QED BY <1>1, <1>2, <1>3, <2>2, <3>1, <3>2, <3>3, <3>4, <3>5 DEF MarkRight, FedRight, Packet, c, g
  <2>3. CASE g = 2
    <3>1. PICK w \in Worlds : m = Packet(11, 1, w)
      BY <1>3, <2>3 DEF Says, c, g
    <3>2. MarkAfter(s, m) = mark[s]
      BY <1>2, <1>3, <2>3, <3>1 DEF MarkAfter, Packet
    <3>3. FedOf(s, m) = <<m>>
      BY <1>2, <1>3, <2>3, <3>1 DEF FedOf, IsNew, Check, Packet
    <3>4. w \in Int
      BY DEF LoginBridgeOK
    <3>5. LetThrough(g, m)
      BY <2>3, <3>1, StockLetsThrough
    <3>6. FedOf(s, m) # <<>>
      BY <3>3
    <3> QED BY <1>1, <1>2, <1>3, <2>3, <3>1, <3>2, <3>3, <3>4, <3>5, <3>6 DEF MarkRight, FedRight, Packet, c, g
  <2> QED BY <1>1, <1>3, <2>1, <2>2, <2>3 DEF IsOtp, c
<1>4. CASE c.is2026 = TRUE /\ c.shift \in 0 .. 400
  <2>1. CASE g = 0
    <3> DEFINE d == c.shift
    <3>1. m = Packet(44 + d, 32, 0) /\ d \in 0 .. 400
      BY <1>4, <2>1 DEF Says, c, g
    <3> HIDE DEF d
    <3>2. m.cmd = 44 + d /\ m.n = 32 /\ m.x = 0 /\ d \in 0 .. 400
      BY <3>1 DEF Packet
    <3>3. ~Check(m) /\ m.cmd >= 44
      BY <3>2 DEF Check
    <3>4. MarkAfter(s, m) = [is2026 |-> TRUE, shift |-> d, world |-> 0]
      <4>1. m.cmd - 44 = d
        BY <3>2
      <4> QED BY <3>2, <3>3, <4>1 DEF MarkAfter, Check
    <3>5. FedOf(s, m) = <<Packet(101, 64, 0)>>
      BY <3>2, <3>3 DEF FedOf, IsNew, Fed
    <3>6. LetThrough(g, Packet(101, 64, 0))
      BY <2>1, StockLetsThrough
    <3>7. FedOf(s, m) # <<>>
      BY <3>5
    <3>8. MarkRight(s, m)
      <4>1. MarkAfter(s, m) \in Marks
        BY <3>2, <3>4 DEF Marks
      <4>2. MarkAfter(s, m).is2026 = TRUE /\ MarkAfter(s, m).shift = d
        BY <3>4
      <4> QED BY <1>4, <4>1, <4>2 DEF MarkRight, c, d
    <3>9. FedRight(s, m)
      BY <2>1, <3>2, <3>5, <3>6, <3>7 DEF FedRight, g
    <3> QED BY <3>8, <3>9
  <2>2. CASE g = 1
    <3>1. PICK otp \in {0, 1} : m = Packet(1, 349, otp)
      BY <1>4, <2>2 DEF Says, c, g
    <3>2. MarkAfter(s, m) = mark[s]
      BY <1>2, <1>4, <2>2, <3>1 DEF MarkAfter, Packet
    <3>3. FedOf(s, m) \in {<<Packet(55, 32, 0)>>, <<Packet(90, 316, 0)>>}
      BY <1>2, <1>4, <2>2, <3>1 DEF FedOf, IsNew, Check, Fed, Packet
    <3>4. \E f : FedOf(s, m) = <<f>> /\ LetThrough(g, f)
      BY <2>2, <3>3, StockLetsThrough
    <3>5. FedOf(s, m) # <<>>
      BY <3>4
    <3> QED BY <1>1, <1>2, <1>4, <2>2, <3>1, <3>2, <3>4, <3>5 DEF MarkRight, FedRight, Packet, c, g
  <2>3. CASE g = 2
    <3> DEFINE d == c.shift
    <3>1. mark[s].is2026 = TRUE /\ mark[s].shift = d /\ d \in 0 .. 400
      BY <1>2, <1>4, <2>3
    <3>2. \/ \E w \in Worlds : m = Packet(10, 1, w)
          \/ m \in {Packet(24, 4, 0), Packet(U(53, d), 6, 0), Packet(U(36, d), 8, 0), Packet(U(63, d), 65, 0)}
      BY <1>4, <2>3 DEF Says, c, g
    <3> HIDE DEF d
    <3>3. ASSUME NEW w \in Worlds, m = Packet(10, 1, w)
          PROVE MarkAfter(s, m) = [mark[s] EXCEPT !.world = w] /\ FedOf(s, m) = <<Packet(11, 1, w)>> /\ w \in Int
      BY <3>1, <3>3 DEF MarkAfter, FedOf, IsNew, Check, Fed, Packet, U, kShiftFrom, LoginBridgeOK
    <3>4. ASSUME m \in {Packet(24, 4, 0), Packet(U(53, d), 6, 0), Packet(U(36, d), 8, 0), Packet(U(63, d), 65, 0)}
          PROVE MarkAfter(s, m) = mark[s] /\ FedOf(s, m) = <<>> /\ m.n \in Nat /\ m.x \in Int
      BY <3>1, <3>4 DEF MarkAfter, FedOf, IsNew, Check, Fed, Dropped, Packet, U, kShiftFrom
    <3>5. ASSUME NEW world PROVE Understood(real[s], Answered(s, m), world)
      <4>1. <<U(53, d), 8>> \in Understands(c) /\ U(53, d) # 11
        BY <1>4, <3>1 DEF Understands, U, kShiftFrom, d
      <4> QED BY <3>1, <4>1 DEF Understood, Answered, Packet, c
    <3>6. ASSUME NEW w \in Worlds, m = Packet(10, 1, w)
          PROVE MarkRight(s, m) /\ FedRight(s, m)
      <4>1. m.n = 1 /\ m.x = w /\ w \in Int /\ FedOf(s, m) = <<Packet(11, 1, w)>>
        BY <3>3, <3>6 DEF Packet
      <4>2. LetThrough(g, Packet(11, 1, w))
        BY <2>3, StockLetsThrough
      <4>3. FedOf(s, m) # <<>>
        BY <4>1
      <4>4. MarkAfter(s, m) \in Marks /\ MarkAfter(s, m).is2026 = TRUE /\ MarkAfter(s, m).shift = d /\ MarkAfter(s, m).world = w
        BY <1>1, <3>1, <3>3, <3>6, <4>1 DEF Marks
      <4>5. MarkRight(s, m)
        BY <1>4, <4>4 DEF MarkRight, c, d
      <4>6. FedRight(s, m)
        BY <2>3, <4>1, <4>2, <4>3, <4>4 DEF FedRight, g
      <4> QED BY <4>5, <4>6
    <3>7. CASE m \in {Packet(24, 4, 0), Packet(U(53, d), 6, 0), Packet(U(36, d), 8, 0), Packet(U(63, d), 65, 0)}
      BY <1>1, <1>4, <2>3, <3>1, <3>4, <3>5, <3>7 DEF MarkRight, FedRight, c, d, g
    <3> QED BY <3>2, <3>6, <3>7
  <2> QED BY <1>1, <2>1, <2>2, <2>3
<1> QED BY <1>1, <1>3, <1>4, TwoKinds DEF c

\* what a packet in step does to its session
LEMMA Received ==
    ASSUME NEW s \in Sessions, NEW m, BridgeInv, Receive(s, m)
    PROVE /\ real[s] # Nobody /\ gate[s] # Closed /\ sent[s] < MaxPackets
          /\ real' = real /\ sent' = [sent EXCEPT ![s] = @ + 1]
          /\ mark' = [mark EXCEPT ![s] = MarkAfter(s, m)]
          /\ cpos' = [cpos EXCEPT ![s] = (@ + m.n + 2) % kXorLen]
          /\ spos' = [spos EXCEPT ![s] = (@ + m.n + 2) % kXorLen]
          /\ asked' = [asked EXCEPT ![s] = IF gate[s] = 2 /\ m.n = 1 THEN m.x ELSE @]
          /\ \/ /\ FedOf(s, m) = <<>> /\ gate' = gate
                /\ heard' = [heard EXCEPT ![s] = Answered(s, m)]
             \/ /\ FedOf(s, m) # <<>>
                /\ \E r \in Stock(gate[s], FedOf(s, m)[1]) :
                      /\ gate' = [gate EXCEPT ![s] = r[1]]
                      /\ heard' = [heard EXCEPT ![s] = IF r[2] = <<>> THEN <<>> ELSE OnSend(mark'[s], r[2][1])]
<1>1. real[s] # Nobody /\ spos[s] = cpos[s]
  BY DEF Receive, BridgeInv, StreamInStep
<1> QED BY <1>1 DEF Receive, FedOf, IsNew, Check, Consume

LEMMA ReceiveKeeps ==
    ASSUME LoginBridgeOK, BridgeInv, NEW s \in Sessions, NEW m \in Says(real[s], gate[s]), ~IsOtp(s, m), Receive(s, m)
    PROVE BridgeInv'
<1>1. real[s] # Nobody /\ gate[s] # Closed
  BY Received
<1>2. MarkRight(s, m) /\ FedRight(s, m)
  BY <1>1, PacketParsed
<1>3. mark'[s] = MarkAfter(s, m) /\ mark' \in [Sessions -> Marks]
  BY <1>2, Received, SMTT(20) DEF BridgeInv, MarkRight
<1>4. asked' \in [Sessions -> Int]
  BY <1>2, Received DEF BridgeInv, FedRight
<1>5. /\ gate'[s] \in {1, 2} /\ DOMAIN heard' = Sessions
      /\ gate' \in [Sessions -> 0 .. Closed] /\ \A q \in Sessions \ {s} : gate'[q] = gate[q] /\ heard'[q] = heard[q]
      /\ Understood(real[s], heard'[s], asked'[s])
  <2>1. CASE FedOf(s, m) = <<>>
    <3>1. gate' = gate /\ heard' = [heard EXCEPT ![s] = Answered(s, m)]
      BY <2>1, Received
    <3>2. gate[s] = 2 /\ Understood(real[s], Answered(s, m), asked'[s])
      BY <1>2, <2>1 DEF FedRight
    <3> QED BY <3>1, <3>2 DEF BridgeInv, TypeOK
  <2>2. CASE FedOf(s, m) # <<>>
    <3>1. PICK f : FedOf(s, m) = <<f>> /\ LetThrough(gate[s], f)
      BY <1>2, <2>2 DEF FedRight
    <3>2. PICK r \in Stock(gate[s], f) :
              /\ gate' = [gate EXCEPT ![s] = r[1]]
              /\ heard' = [heard EXCEPT ![s] = IF r[2] = <<>> THEN <<>> ELSE OnSend(mark'[s], r[2][1])]
      BY <2>2, <3>1, Received
    <3>3. PICK q \in StockReplies : r[2] = <<q>> /\ (q.cmd = 12 <=> gate[s] = 2)
      BY <3>1, <3>2 DEF LetThrough
    <3>4. r[1] \in {1, 2}
      BY <3>1, <3>2 DEF LetThrough
    <3>5. heard' = [heard EXCEPT ![s] = OnSend(mark'[s], q)]
      BY <3>2, <3>3
    <3>6. q.cmd = 12 /\ real[s].is2026 => asked'[s] = mark'[s].world
      <4>1. ASSUME q.cmd = 12, real[s].is2026 PROVE asked'[s] = mark'[s].world
        <5>1. gate[s] = 2 /\ m.n = 1 /\ MarkAfter(s, m).world = m.x
          BY <1>2, <2>2, <3>3, <4>1 DEF FedRight
        <5>2. asked'[s] = m.x
          BY <5>1, Received DEF BridgeInv
        <5> QED BY <1>3, <5>1, <5>2
      <4> QED BY <4>1
    <3>7. real[s] \in Clients /\ mark'[s] \in Marks /\ mark'[s].is2026 = real[s].is2026
          /\ (real[s].is2026 => mark'[s].shift = real[s].shift)
      BY <1>1, <1>2, <1>3 DEF BridgeInv, TypeOK, MarkRight
    <3>8. Understood(real[s], OnSend(mark'[s], q), asked'[s])
      BY <3>6, <3>7, RepliesUnderstood
    <3> QED BY <3>2, <3>4, <3>5, <3>8 DEF BridgeInv, TypeOK, Closed
  <2> QED BY <2>1, <2>2
<1>6. TypeOK'
  <2>1. m.n \in Nat
    BY <1>2 DEF FedRight
  <2>2. cpos' \in [Sessions -> 0 .. kXorLen - 1] /\ spos' \in [Sessions -> 0 .. kXorLen - 1]
    <3> DEFINE Position == 0 .. kXorLen - 1
               Moved(p) == (p + m.n + 2) % kXorLen
    <3>1. \A k \in Int : k % 499 \in 0 .. 498
      OBVIOUS
    <3>2. ASSUME NEW p \in Position PROVE Moved(p) \in Position
      <4>1. p + m.n + 2 \in Int
        BY <2>1 DEF kXorLen
      <4> QED BY <3>1, <4>1 DEF kXorLen
    <3>3. cpos \in [Sessions -> Position] /\ spos \in [Sessions -> Position]
      BY DEF BridgeInv, TypeOK
    <3>4. cpos' = [cpos EXCEPT ![s] = Moved(@)] /\ spos' = [spos EXCEPT ![s] = Moved(@)]
      BY Received
    <3> HIDE DEF Position, Moved
    <3>5. Moved(cpos[s]) \in Position /\ Moved(spos[s]) \in Position
      BY <3>2, <3>3
    <3>6. cpos' \in [Sessions -> Position] /\ spos' \in [Sessions -> Position]
      BY <3>3, <3>4, <3>5
    <3> QED BY <3>6 DEF Position
  <2>3. sent' \in [Sessions -> 0 .. MaxPackets]
    <3>1. sent \in [Sessions -> 0 .. MaxPackets] /\ sent[s] < MaxPackets /\ sent' = [sent EXCEPT ![s] = @ + 1]
      BY Received DEF BridgeInv, TypeOK
    <3>2. sent[s] + 1 \in 0 .. MaxPackets
      BY <3>1 DEF LoginBridgeOK
    <3> QED BY <3>1, <3>2
  <2> QED BY <1>5, <2>2, <2>3, Received DEF BridgeInv, TypeOK
<1>7. StreamInStep'
  <2> SUFFICES ASSUME NEW q \in Sessions, real'[q] # Nobody PROVE spos'[q] = cpos'[q]
    BY DEF StreamInStep
  <2>1. spos[q] = cpos[q]
    BY Received DEF BridgeInv, StreamInStep
  <2>2. DOMAIN spos = Sessions /\ DOMAIN cpos = Sessions
    BY DEF BridgeInv, TypeOK
  <2>3. /\ spos' = [spos EXCEPT ![s] = (@ + m.n + 2) % kXorLen]
        /\ cpos' = [cpos EXCEPT ![s] = (@ + m.n + 2) % kXorLen]
    BY Received
  <2> QED BY <2>1, <2>2, <2>3
<1>8. LegalClientsStay'
  <2> SUFFICES ASSUME NEW q \in Sessions, real'[q] # Nobody, gate'[q] = Closed PROVE TakenFor2026(q)'
    BY DEF LegalClientsStay
  <2>1. q # s
    BY <1>5 DEF Closed
  <2>2. mark'[q] = mark[q] /\ real'[q] = real[q] /\ gate'[q] = gate[q]
    BY <1>5, <2>1, Received DEF BridgeInv
  <2> QED BY <2>2 DEF BridgeInv, LegalClientsStay, TakenFor2026
<1>9. MarkIsTheClients'
  <2> SUFFICES ASSUME NEW q \in Sessions, real'[q] # Nobody, gate'[q] \notin {0, Closed}
               PROVE mark'[q].is2026 = real'[q].is2026 /\ (real'[q].is2026 => mark'[q].shift = real'[q].shift)
    BY DEF MarkIsTheClients
  <2>1. CASE q = s
    BY <1>2, <1>3, <2>1, Received DEF MarkRight
  <2>2. CASE q # s
    <3>1. mark'[q] = mark[q] /\ real'[q] = real[q] /\ gate'[q] = gate[q]
      BY <1>5, <2>2, Received DEF BridgeInv
    <3> QED BY <3>1 DEF BridgeInv, MarkIsTheClients
  <2> QED BY <2>1, <2>2
<1>10. SpeaksItsLanguage'
  <2> SUFFICES ASSUME NEW q \in Sessions PROVE Understood(real'[q], heard'[q], asked'[q])
    BY DEF SpeaksItsLanguage, Understood
  <2>1. CASE q = s
    BY <1>5, <2>1, Received
  <2>2. CASE q # s
    <3>1. heard'[q] = heard[q] /\ real'[q] = real[q] /\ asked'[q] = asked[q]
      BY <1>5, <2>2, Received DEF BridgeInv
    <3>2. Understood(real[q], heard[q], asked[q])
      BY DEF BridgeInv, SpeaksItsLanguage, Understood
    <3> QED BY <3>1, <3>2
  <2> QED BY <2>1, <2>2
<1> QED BY <1>3, <1>4, <1>5, <1>6, <1>7, <1>8, <1>9, <1>10 DEF BridgeInv

\* the one-time password of a 2016 client: it is marked, and the version check it is turned into is not let through
LEMMA OtpKeeps ==
    ASSUME LoginBridgeOK, BridgeInv, NEW s \in Sessions, NEW m \in Says(real[s], gate[s]), IsOtp(s, m), Receive(s, m)
    PROVE BridgeInv'
<1> DEFINE taken == [is2026 |-> TRUE, shift |-> 11, world |-> 0]
<1>1. m.cmd = 55 /\ m.n = 32 /\ m.x = 0
  BY DEF IsOtp, OtpLogin, Packet
<1>2. real[s] \in Clients /\ gate[s] \in {0, 1, 2}
  <2>1. real[s] # Nobody /\ gate[s] # Closed
    BY Received
  <2> QED BY <2>1 DEF BridgeInv, TypeOK, Closed
<1>3. real[s].is2026 = FALSE /\ gate[s] = 1
  BY <1>1, <1>2, TwoKinds DEF IsOtp, Says, Packet
<1>4. MarkAfter(s, m) = taken /\ taken \in Marks
  BY <1>1 DEF MarkAfter, Marks
<1>5. FedOf(s, m) = <<Packet(101, 64, 0)>>
  BY <1>1 DEF FedOf, IsNew, Check, Fed
<1>6. Stock(gate[s], Packet(101, 64, 0)) = {<<Closed, << >> >>}
  BY <1>3 DEF Stock, Packet
<1>7. /\ mark' = [mark EXCEPT ![s] = taken] /\ asked' = asked /\ real' = real
      /\ gate' = [gate EXCEPT ![s] = Closed] /\ heard' = [heard EXCEPT ![s] = << >>]
      /\ sent[s] < MaxPackets /\ sent' = [sent EXCEPT ![s] = @ + 1]
      /\ cpos' = [cpos EXCEPT ![s] = (@ + 34) % kXorLen]
      /\ spos' = [spos EXCEPT ![s] = (@ + 34) % kXorLen]
  <2>1. FedOf(s, m) # << >> /\ FedOf(s, m)[1] = Packet(101, 64, 0)
    BY <1>5
  <2>2. asked' = asked
    BY <1>3, Received DEF BridgeInv
  <2>3. gate' = [gate EXCEPT ![s] = Closed] /\ heard' = [heard EXCEPT ![s] = << >>]
    BY <1>6, <2>1, Received
  <2>4. mark' = [mark EXCEPT ![s] = MarkAfter(s, m)] /\ real' = real /\ sent[s] < MaxPackets /\ sent' = [sent EXCEPT ![s] = @ + 1]
    BY Received
  <2>5. cpos' = [cpos EXCEPT ![s] = (@ + m.n + 2) % kXorLen] /\ spos' = [spos EXCEPT ![s] = (@ + m.n + 2) % kXorLen]
    BY Received
  <2>6. ASSUME NEW k \in Int PROVE k + m.n + 2 = k + 34
    BY <1>1
  <2>7. cpos[s] \in Int /\ spos[s] \in Int
    <3>1. cpos[s] \in 0 .. kXorLen - 1 /\ spos[s] \in 0 .. kXorLen - 1
      BY DEF BridgeInv, TypeOK
    <3> QED BY <3>1 DEF kXorLen
  <2>8. cpos' = [cpos EXCEPT ![s] = (@ + 34) % kXorLen] /\ spos' = [spos EXCEPT ![s] = (@ + 34) % kXorLen]
    BY <2>5, <2>6, <2>7
  <2> QED BY <1>4, <2>2, <2>3, <2>4, <2>8
<1>8. TypeOK'
  <2>1. \A k \in Int : k % 499 \in 0 .. 498
    OBVIOUS
  <2>2. cpos' \in [Sessions -> 0 .. kXorLen - 1] /\ spos' \in [Sessions -> 0 .. kXorLen - 1]
    <3>1. (cpos[s] + 34) % kXorLen \in 0 .. kXorLen - 1 /\ (spos[s] + 34) % kXorLen \in 0 .. kXorLen - 1
      <4>1. cpos[s] \in 0 .. kXorLen - 1 /\ spos[s] \in 0 .. kXorLen - 1
        BY DEF BridgeInv, TypeOK
      <4>2. cpos[s] \in Int /\ spos[s] \in Int
        BY <4>1 DEF kXorLen
      <4>3. \A k \in Int : (k + 34) % 499 \in 0 .. 498
        BY <2>1
      <4>4. (cpos[s] + 34) % 499 \in 0 .. 498 /\ (spos[s] + 34) % 499 \in 0 .. 498
        BY <4>2, <4>3
      <4> QED BY <4>4 DEF kXorLen
    <3> QED BY <1>7, <3>1 DEF BridgeInv, TypeOK
  <2>3. sent' \in [Sessions -> 0 .. MaxPackets]
    BY <1>7 DEF BridgeInv, TypeOK, LoginBridgeOK
  <2> QED BY <1>7, <2>2, <2>3 DEF BridgeInv, TypeOK, Closed
<1>9. (mark \in [Sessions -> Marks] /\ asked \in [Sessions -> Int] /\ DOMAIN heard = Sessions)'
  BY <1>4, <1>7 DEF BridgeInv
<1>10. MarkIsTheClients' /\ StreamInStep'
  BY <1>7 DEF BridgeInv, TypeOK, MarkIsTheClients, StreamInStep, Closed
<1>11. SpeaksItsLanguage'
  BY <1>7 DEF BridgeInv, SpeaksItsLanguage
<1>12. LegalClientsStay'
  <2> SUFFICES ASSUME NEW q \in Sessions, real'[q] # Nobody, gate'[q] = Closed PROVE TakenFor2026(q)'
    BY DEF LegalClientsStay
  <2>1. CASE q = s
    BY <1>3, <1>7, <2>1 DEF BridgeInv, TakenFor2026, OtpLogin, Packet, kShiftFrom
  <2>2. CASE q # s
    BY <1>7, <2>2 DEF BridgeInv, TypeOK, LegalClientsStay, TakenFor2026
  <2> QED BY <2>1, <2>2
<1> QED BY <1>8, <1>9, <1>10, <1>11, <1>12 DEF BridgeInv

LEMMA BridgeNext == ASSUME LoginBridgeOK, BridgeInv, [Next]_vars PROVE BridgeInv'
<1>1. CASE UNCHANGED vars
  BY <1>1 DEF vars, BridgeInv, TypeOK, MarkIsTheClients, StreamInStep, SpeaksItsLanguage, LegalClientsStay, TakenFor2026
<1>2. ASSUME NEW s \in Sessions, NEW c \in Clients, Connect(s, c) PROVE BridgeInv'
  BY <1>2, ConnectKeeps
<1>3. ASSUME NEW s \in Sessions, NEW m \in Says(real[s], gate[s]), Receive(s, m) PROVE BridgeInv'
  BY <1>3, ReceiveKeeps, OtpKeeps
<1>4. ASSUME NEW s \in Sessions, Disconnect(s) PROVE BridgeInv'
  BY <1>4, DisconnectKeeps
<1> QED BY <1>1, <1>2, <1>3, <1>4 DEF Next

\* The inductive invariant: types, marks that say what the client is from its version check on, and the three below.
THEOREM BridgeInvariant == ASSUME LoginBridgeOK PROVE Spec => []BridgeInv
<1>1. Init => BridgeInv
  BY BridgeInit
<1>2. BridgeInv /\ [Next]_vars => BridgeInv'
  BY BridgeNext
<1> QED BY <1>1, <1>2, PTL DEF Spec

\* Whatever is translated, answered or dropped, the Login decrypts where the client encrypts (StreamInStep).
THEOREM StreamsStayInStep == ASSUME LoginBridgeOK PROVE Spec => []StreamInStep
<1>1. BridgeInv => StreamInStep
  BY DEF BridgeInv
<1> QED BY <1>1, BridgeInvariant, PTL

\* Whoever had the address before, a client of either year gets replies of its own protocol, and a 2026 one the world it
\* asked for (SpeaksItsLanguage).
THEOREM OwnLanguage == ASSUME LoginBridgeOK PROVE Spec => []SpeaksItsLanguage
<1>1. BridgeInv => SpeaksItsLanguage
  BY DEF BridgeInv
<1> QED BY <1>1, BridgeInvariant, PTL

\* For any numbering shifts, the Login hangs up on no legal client but the 2016 one that logs in by a one-time password, which
\* it has taken for a 2026 client of shift 11 (LegalClientsStay).
THEOREM OnlyOtpIsHungUpOn == ASSUME LoginBridgeOK PROVE Spec => []LegalClientsStay
<1>1. BridgeInv => LegalClientsStay
  BY DEF BridgeInv
<1> QED BY <1>1, BridgeInvariant, PTL
-----------------------------------------------------------------------------
(* The WorldManager. *)

\* the packets of the stock WorldManager that the model's clients get
StockPacket(m) ==
    \/ m.op = \hC14 /\ \E k \in Nat : m.n = 3 + 130 * k
    \/ m.op = \h1406 /\ m.n = 131
    \/ m.op = \hC34 /\ m.n = 34
    \/ m.op = \h5407 /\ \E k \in Nat : m.n = 1 + 72 * k
    \/ m.op = \h541E /\ m.n = 2
    \/ m.op = \h741B /\ \E k \in Nat : m.n = 6 + 110 * k
    \/ m.op = \h980E /\ \E k \in Nat : m.n = 6 + 109 * k
    \/ m.op = \h9808 /\ m.n = 738
    \/ m.op = \h1097 /\ m.n = 741
    \/ m.op \in {\h200D, \h140C} /\ m.n = 1

\* whole records after a head
LEMMA WholeRecords ==
    ASSUME NEW k \in Nat
    PROVE  /\ (130 * k) \div 130 = k /\ (161 * k) % 161 = 0 /\ (130 * k) % 130 = 0
           /\ (72 * k) % 72 = 0 /\ (110 * k) % 110 = 0 /\ (109 * k) % 109 = 0
  OBVIOUS

LEMMA FitsIn ==
    ASSUME NEW c, NEW m, NEW w \in World!Width(c), m.op = w[1], m.n >= w[2],
           IF w[3] = 0 THEN m.n = w[2] ELSE (m.n - w[2]) % w[3] = 0
    PROVE  World!Reads(c, m)
  BY Zenon DEF World!Reads

\* a stock packet as a 2016 client reads it
LEMMA OldReads ==
    ASSUME NEW m, StockPacket(m), NEW c, c # World!New
    PROVE  World!Reads(c, m)
<1> DEFINE W == World!Width(c)
<1>1. W = {<<\hC14, 3, 130>>, <<\h1406, 131, 0>>, <<\hC34, 34, 0>>, <<\h5407, 1, 72>>, <<\h541E, 2, 0>>,
           <<\h741B, 6, 110>>, <<\h980E, 6, 109>>, <<\h9808, 738, 0>>, <<\h1097, 741, 0>>, <<\h200D, 1, 0>>, <<\h140C, 1, 0>>}
  BY DEF World!Width
<1> HIDE DEF W
<1> SUFFICES \E w \in W : m.op = w[1] /\ m.n >= w[2] /\ (IF w[3] = 0 THEN m.n = w[2] ELSE (m.n - w[2]) % w[3] = 0)
  BY DEF World!Reads, W
<1>2. CASE m.op = \hC14
  <2>1. PICK k \in Nat : m.n = 3 + 130 * k
    BY <1>2 DEF StockPacket
  <2>2. m.n >= 3 /\ m.n - 3 = 130 * k /\ (130 * k) % 130 = 0
    BY <2>1, WholeRecords
  <2> QED BY <1>1, <1>2, <2>2
<1>3. CASE m.op = \h5407
  <2>1. PICK k \in Nat : m.n = 1 + 72 * k
    BY <1>3 DEF StockPacket
  <2>2. m.n >= 1 /\ m.n - 1 = 72 * k /\ (72 * k) % 72 = 0
    BY <2>1, WholeRecords
  <2> QED BY <1>1, <1>3, <2>2
<1>4. CASE m.op = \h741B
  <2>1. PICK k \in Nat : m.n = 6 + 110 * k
    BY <1>4 DEF StockPacket
  <2>2. m.n >= 6 /\ m.n - 6 = 110 * k /\ (110 * k) % 110 = 0
    BY <2>1, WholeRecords
  <2> QED BY <1>1, <1>4, <2>2
<1>5. CASE m.op = \h980E
  <2>1. PICK k \in Nat : m.n = 6 + 109 * k
    BY <1>5 DEF StockPacket
  <2>2. m.n >= 6 /\ m.n - 6 = 109 * k /\ (109 * k) % 109 = 0
    BY <2>1, WholeRecords
  <2> QED BY <1>1, <1>5, <2>2
<1>6. CASE m.op \notin {\hC14, \h5407, \h741B, \h980E}
  BY <1>1, <1>6 DEF StockPacket
<1> QED BY <1>2, <1>3, <1>4, <1>5, <1>6

AllRead(c, q) == \A k \in DOMAIN q : World!Reads(c, q[k])

LEMMA OneRead ==
    ASSUME NEW c, NEW m
    PROVE  World!Reads(c, m) <=> AllRead(c, <<m>>)
<1>1. DOMAIN <<m>> = {1} /\ <<m>>[1] = m
  OBVIOUS
<1> QED BY <1>1, Zenon DEF AllRead

LEMMA TwoRead ==
    ASSUME NEW c, NEW a, NEW b, World!Reads(c, a), World!Reads(c, b)
    PROVE  AllRead(c, <<a>> \o <<b>>) /\ AllRead(c, <<a>> \o << >>)
<1>1. DOMAIN (<<a>> \o <<b>>) = {1, 2} /\ (<<a>> \o <<b>>)[1] = a /\ (<<a>> \o <<b>>)[2] = b
  OBVIOUS
<1>2. DOMAIN (<<a>> \o << >>) = {1} /\ (<<a>> \o << >>)[1] = a
  OBVIOUS
<1> DEFINE p == <<a>> \o <<b>>
           q == <<a>> \o << >>
<1>3. DOMAIN p = {1, 2} /\ p[1] = a /\ p[2] = b /\ DOMAIN q = {1} /\ q[1] = a
  BY <1>1, <1>2
<1> HIDE DEF p, q
<1>4. \A k \in DOMAIN p : World!Reads(c, p[k])
  <2>1. \A k \in {1, 2} : World!Reads(c, p[k])
    BY <1>3, Zenon
  <2> QED BY <1>3, <2>1
<1>5. \A k \in DOMAIN q : World!Reads(c, q[k])
  <2>1. \A k \in {1} : World!Reads(c, q[k])
    BY <1>3, Zenon
  <2> QED BY <1>3, <2>1
<1>6. AllRead(c, p) /\ AllRead(c, q)
  BY <1>4, <1>5 DEF AllRead
<1> QED BY <1>6 DEF p, q

LEMMA ReadsOne ==
    ASSUME NEW op, NEW n, NEW x, NEW w \in World!Width(World!New), op = w[1], n >= w[2],
           IF w[3] = 0 THEN n = w[2] ELSE (n - w[2]) % w[3] = 0
    PROVE  AllRead(World!New, <<World!Packet(op, n, x)>>)
<1> DEFINE m == World!Packet(op, n, x)
<1>1. m.op = op /\ m.n = n
  BY DEF World!Packet
<1>2. World!Reads(World!New, m)
  BY <1>1, Zenon DEF World!Reads
<1> HIDE DEF m
<1>3. AllRead(World!New, <<m>>)
  BY <1>2, OneRead
<1> QED BY <1>3 DEF m

\* what wm_bridge26 makes of it, as a 2026 client does
LEMMA NewReads ==
    ASSUME NEW m, StockPacket(m)
    PROVE  AllRead(World!New, World!OnSend(m))
<1> DEFINE W == World!Width(World!New)
<1>1. W = {<<\hC0F, 22, 161>>, <<\h1406, 162, 0>>, <<\hC25, 34, 0>>, <<\hC34, 6, 0>>, <<\h5407, 2, 72>>, <<\h541E, 4, 0>>,
           <<\h741B, 3, 110>>, <<\h980E, 3, 109>>, <<\h9808, 742, 0>>, <<\h1097, 745, 0>>, <<\h200D, 1, 0>>, <<\h140C, 1, 0>>}
  BY DEF World!Width
<1> HIDE DEF W
<1>2. CASE m.op = \hC14
  <2>1. PICK k \in Nat : m.n = 3 + 130 * k
    BY <1>2 DEF StockPacket
  <2>2. World!avatars(m.n) = 22 + 161 * k
    <3>1. World!avatar_record = 161
      BY DEF World!avatar_record
    <3>2. m.n - 3 = 130 * k
      BY <2>1
    <3>3. World!avatars(m.n) = 22 + k * 161
      BY <3>1, <3>2, WholeRecords DEF World!avatars
    <3> QED BY <3>3
  <2>3. <<\hC0F, 22, 161>> \in W /\ 22 + 161 * k >= 22 /\ (22 + 161 * k - 22) % 161 = 0
    <3>1. 22 + 161 * k >= 22 /\ 22 + 161 * k - 22 = 161 * k
      OBVIOUS
    <3> QED BY <1>1, <3>1, WholeRecords
  <2>4. AllRead(World!New, <<World!Packet(\hC0F, World!avatars(m.n), m.x)>>)
    BY <2>2, <2>3, ReadsOne DEF W
  <2>5. World!OnSend(m) = <<World!Packet(\hC0F, World!avatars(m.n), m.x)>>
    BY <1>2 DEF World!OnSend
  <2> QED BY <2>4, <2>5
<1>3. CASE m.op = \h5407
  <2>1. PICK k \in Nat : m.n = 1 + 72 * k
    BY <1>3 DEF StockPacket
  <2>2. <<\h5407, 2, 72>> \in World!Width(World!New)
    BY <1>1 DEF W
  <2>3. AllRead(World!New, <<World!Packet(\h5407, m.n + 1, m.x)>>)
    <3>1. PICK n : n = m.n + 1
      OBVIOUS
    <3>2. n >= 2 /\ n - 2 = 72 * k
      BY <2>1, <3>1
    <3>3. (n - 2) % 72 = 0
      BY <3>2, WholeRecords
    <3>4. AllRead(World!New, <<World!Packet(\h5407, n, m.x)>>)
      BY <2>2, <3>2, <3>3, ReadsOne
    <3> QED BY <3>1, <3>4
  <2>4. World!OnSend(m) = <<World!Packet(\h5407, m.n + 1, m.x)>>
    BY <1>3 DEF World!OnSend
  <2> QED BY <2>3, <2>4
<1>4. CASE m.op = \h741B
  <2>1. PICK k \in Nat : m.n = 6 + 110 * k
    BY <1>4 DEF StockPacket
  <2>2. <<\h741B, 3, 110>> \in W /\ m.n - 3 >= 3 /\ (m.n - 3 - 3) % 110 = 0 /\ (3 - 3) % 110 = 0
    <3>1. m.n - 3 >= 3 /\ m.n - 3 - 3 = 110 * k
      BY <2>1
    <3> QED BY <1>1, <3>1, WholeRecords
  <2> DEFINE a == World!Packet(\h741B, m.n - 3, m.x)
             b == World!Packet(\h741B, 3, <<m.x[3], 0, m.x[3]>>)
  <2>3. AllRead(World!New, <<a>>) /\ AllRead(World!New, <<b>>)
    BY <2>2, ReadsOne DEF W
  <2>4. World!OnSend(m) = <<a>> \o IF World!Ends(m.x[1], m.x[2], m.x[3]) THEN <<b>> ELSE <<>>
    BY <1>4 DEF World!OnSend
  <2> HIDE DEF a, b
  <2>5. World!Reads(World!New, a) /\ World!Reads(World!New, b)
    BY <2>3, OneRead
  <2>6. AllRead(World!New, <<a>> \o <<b>>) /\ AllRead(World!New, <<a>> \o << >>)
    BY <2>5, TwoRead
  <2> QED BY <2>4, <2>6
<1>5. CASE m.op = \h980E
  <2>1. PICK k \in Nat : m.n = 6 + 109 * k
    BY <1>5 DEF StockPacket
  <2>2. <<\h980E, 3, 109>> \in W /\ m.n - 3 >= 3 /\ (m.n - 3 - 3) % 109 = 0
    <3>1. m.n - 3 >= 3 /\ m.n - 3 - 3 = 109 * k
      BY <2>1
    <3> QED BY <1>1, <3>1, WholeRecords
  <2>3. AllRead(World!New, <<World!Packet(\h980E, m.n - 3, m.x)>>)
    BY <2>2, ReadsOne DEF W
  <2>4. World!OnSend(m) = <<World!Packet(\h980E, m.n - 3, m.x)>>
    BY <1>5 DEF World!OnSend
  <2> QED BY <2>3, <2>4
<1>6. CASE m.op = \h1406 /\ m.n = 131
  <2>1. World!OnSend(m) = <<World!Packet(\h1406, 162, m.x)>>
    <3>1. 1 + World!avatar_record = 162
      BY DEF World!avatar_record
    <3> QED BY <1>6, <3>1 DEF World!OnSend
  <2>2. <<\h1406, 162, 0>> \in W
    BY <1>1
  <2> QED BY <2>1, <2>2, ReadsOne DEF W
<1>7. CASE m.op = \hC34 /\ m.n = 34
  <2>1. World!OnSend(m) = <<World!Packet(\hC25, 34, m.x)>>
    BY <1>7 DEF World!OnSend
  <2>2. <<\hC25, 34, 0>> \in W
    BY <1>1
  <2> QED BY <2>1, <2>2, ReadsOne DEF W
<1>8. CASE m.op = \h541E /\ m.n = 2
  <2>1. World!OnSend(m) = <<World!Packet(\h541E, 4, m.x)>>
    BY <1>8 DEF World!OnSend
  <2>2. <<\h541E, 4, 0>> \in W
    BY <1>1
  <2> QED BY <2>1, <2>2, ReadsOne DEF W
<1>9. CASE m.op = \h9808 /\ m.n = 738
  <2>1. World!OnSend(m) = <<World!Packet(\h9808, 742, m.x)>>
    BY <1>9 DEF World!OnSend
  <2>2. <<\h9808, 742, 0>> \in W
    BY <1>1
  <2> QED BY <2>1, <2>2, ReadsOne DEF W
<1>10. CASE m.op = \h1097 /\ m.n = 741
  <2>1. World!OnSend(m) = <<World!Packet(\h1097, 745, m.x)>>
    BY <1>10 DEF World!OnSend
  <2>2. <<\h1097, 745, 0>> \in W
    BY <1>1
  <2> QED BY <2>1, <2>2, ReadsOne DEF W
<1>11. CASE m.op \in {\h200D, \h140C} /\ m.n = 1
  <2>1. World!OnSend(m) = <<m>>
    BY <1>11 DEF World!OnSend
  <2>2. <<\h200D, 1, 0>> \in W /\ <<\h140C, 1, 0>> \in W
    BY <1>1
  <2>3. World!Reads(World!New, m)
    BY <1>11, <2>2 DEF World!Reads, W
  <2> QED BY <2>1, <2>3 DEF AllRead
<1> QED BY <1>2, <1>3, <1>4, <1>5, <1>6, <1>7, <1>8, <1>9, <1>10, <1>11 DEF StockPacket

\* the answer that opens a 2026 client's character creation
Offer(m) == m.op = \hC34 /\ m.n = 6
NoOffer(q) == \A k \in DOMAIN q : ~Offer(q[k])

LEMMA NoOfferOne == ASSUME NEW a, ~Offer(a) PROVE NoOffer(<<a>>)
<1>1. DOMAIN <<a>> = {1} /\ <<a>>[1] = a
  OBVIOUS
<1> QED BY <1>1, Zenon DEF NoOffer

LEMMA NoOfferTwo == ASSUME NEW a, NEW b, ~Offer(a), ~Offer(b) PROVE NoOffer(<<a>> \o <<b>>) /\ NoOffer(<<a>> \o << >>)
<1> DEFINE p == <<a>> \o <<b>>
           q == <<a>> \o << >>
<1>1. DOMAIN p = {1, 2} /\ p[1] = a /\ p[2] = b /\ DOMAIN q = {1} /\ q[1] = a
  OBVIOUS
<1> HIDE DEF p, q
<1>2. \A k \in {1, 2} : ~Offer(p[k])
  BY <1>1, Zenon
<1>3. \A k \in {1} : ~Offer(q[k])
  BY <1>1, Zenon
<1>4. NoOffer(p) /\ NoOffer(q)
  BY <1>1, <1>2, <1>3 DEF NoOffer
<1> QED BY <1>4 DEF p, q

LEMMA PacketIs == ASSUME NEW op, NEW n, NEW x PROVE World!Packet(op, n, x).op = op /\ World!Packet(op, n, x).n = n /\ World!Packet(op, n, x).x = x
  BY DEF World!Packet

\* no packet the server sends of itself opens one
LEMMA NoneOffered == ASSUME NEW m, StockPacket(m) PROVE NoOffer(<<m>>) /\ NoOffer(World!OnSend(m))
<1>1. ~Offer(m)
  BY DEF StockPacket, Offer
<1>2. NoOffer(<<m>>)
  BY <1>1, NoOfferOne
<1>3. CASE m.op = \h741B
  <2> DEFINE a == World!Packet(\h741B, m.n - 3, m.x)
             b == World!Packet(\h741B, 3, <<m.x[3], 0, m.x[3]>>)
  <2>1. ~Offer(a) /\ ~Offer(b)
    BY DEF Offer, World!Packet
  <2>2. World!OnSend(m) = <<a>> \o IF World!Ends(m.x[1], m.x[2], m.x[3]) THEN <<b>> ELSE <<>>
    BY <1>3 DEF World!OnSend
  <2> HIDE DEF a, b
  <2>3. NoOffer(<<a>> \o <<b>>) /\ NoOffer(<<a>> \o << >>)
    BY <2>1, NoOfferTwo
  <2> QED BY <1>2, <2>2, <2>3
<1>4. CASE m.op # \h741B
  <2>1. \/ World!OnSend(m) = <<m>>
        \/ \E op \in {\hC0F, \h1406, \h5407, \h541E, \h980E, \hC25, \h9808, \h1097} : \E n : World!OnSend(m) = <<World!Packet(op, n, m.x)>>
    <3>1. CASE m.op = \hC14
      BY <3>1 DEF World!OnSend
    <3>2. CASE m.op = \h1406
      BY <3>2 DEF World!OnSend
    <3>3. CASE m.op = \h5407
      BY <3>3 DEF World!OnSend
    <3>4. CASE m.op = \h980E
      BY <3>4 DEF World!OnSend
    <3>8. CASE m.op = \h541E
      <4>1. m.n = 2
        BY <3>8 DEF StockPacket
      <4>2. World!OnSend(m) = <<World!Packet(\h541E, 4, m.x)>>
        BY <3>8, <4>1 DEF World!OnSend
      <4> QED BY <4>2
    <3>5. CASE m.op = \hC34
      BY <3>5 DEF World!OnSend
    <3>6. CASE m.op = \h9808
      <4>1. m.n = 738
        BY <3>6 DEF StockPacket
      <4>2. World!OnSend(m) = <<World!Packet(\h9808, 742, m.x)>>
        BY <3>6, <4>1 DEF World!OnSend
      <4> QED BY <4>2
    <3>9. CASE m.op = \h1097
      <4>1. m.n = 741
        BY <3>9 DEF StockPacket
      <4>2. World!OnSend(m) = <<World!Packet(\h1097, 745, m.x)>>
        BY <3>9, <4>1 DEF World!OnSend
      <4> QED BY <4>2
    <3>7. CASE m.op = \h200D
      BY <3>7 DEF World!OnSend
    <3>10. CASE m.op = \h140C
      BY <3>10 DEF World!OnSend
    <3> QED BY <1>4, <3>1, <3>2, <3>3, <3>4, <3>5, <3>6, <3>7, <3>8, <3>9, <3>10 DEF StockPacket
  <2>2. ASSUME NEW op \in {\hC0F, \h1406, \h5407, \h541E, \h980E, \hC25, \h9808, \h1097}, NEW n PROVE NoOffer(<<World!Packet(op, n, m.x)>>)
    <3>1. op # \hC34
      OBVIOUS
    <3>2. ~Offer(World!Packet(op, n, m.x))
      BY <3>1, PacketIs DEF Offer
    <3> QED BY <3>2, NoOfferOne
  <2> QED BY <1>2, <2>1, <2>2
<1> QED BY <1>2, <1>3, <1>4

-----------------------------------------------------------------------------
\* what a client may have done since its last list
Doings == SUBSET {"created", "erased"}
WorldTyped ==
    /\ worldReal \in [Sessions -> {World!Nobody, World!Old, World!New}]
    /\ worldMark \in [Sessions -> [is2026 : BOOLEAN, used : SUBSET World!Slots]]
    /\ st \in [Sessions -> {World!Out, World!In, World!Left, World!Closed}]
    /\ chars \in [Sessions -> SUBSET World!Slots]
    /\ relist \in [Sessions -> Doings]
    /\ roster \in [Sessions -> [got : Nat, total : Nat, at : Nat, ended : BOOLEAN]]
    /\ worldHeard = [s \in Sessions |-> worldHeard[s]]

\* a session's mark says what its client is, once it is in, and the slots its account uses: all of them until it creates a
\* character, these only until it erases one
SlotsNoted(s) ==
    /\ "created" \notin relist[s] => chars[s] \subseteq worldMark[s].used
    /\ relist[s] = {} => worldMark[s].used = chars[s]
MarkTrue(s) ==
    st[s] = World!In /\ worldReal[s] # World!Nobody =>
        /\ worldMark[s].is2026 <=> worldReal[s] = World!New
        /\ worldReal[s] = World!New => SlotsNoted(s)
\* it reads what it gets, and is offered a free slot of its account, as far as its last list tells
FreeOne(s, x) ==
    /\ "created" \notin relist[s] => x \notin chars[s]
    /\ relist[s] = {} /\ chars[s] # World!Slots => x \in World!Slots
HeardRight(s) ==
    /\ worldReal[s] = World!Nobody => worldHeard[s] = << >>
    /\ AllRead(worldReal[s], worldHeard[s])
    /\ \A k \in DOMAIN worldHeard[s] : Offer(worldHeard[s][k]) => FreeOne(s, worldHeard[s][k].x)
\* the guild's list adds up
ListRight(s) ==
    /\ roster[s].got = roster[s].at /\ roster[s].at =< roster[s].total
    /\ worldReal[s] = World!New => (roster[s].ended <=> roster[s].at >= roster[s].total)
SessionRight(s) == MarkTrue(s) /\ HeardRight(s) /\ ListRight(s)

WorldInv == WorldTyped /\ \A s \in Sessions : SessionRight(s)

LEMMA HearsNothing == ASSUME NEW c PROVE AllRead(c, << >>) /\ NoOffer(<< >>)
<1>1. DOMAIN << >> = {}
  OBVIOUS
<1> QED BY <1>1 DEF AllRead, NoOffer

\* the sessions a step is not about
LEMMA OthersRight ==
    ASSUME NEW q, SessionRight(q), worldReal'[q] = worldReal[q], worldMark'[q] = worldMark[q], st'[q] = st[q],
           chars'[q] = chars[q], relist'[q] = relist[q], roster'[q] = roster[q], worldHeard'[q] = worldHeard[q]
    PROVE  SessionRight(q)'
<1>1. MarkTrue(q)'
  BY DEF SessionRight, MarkTrue, SlotsNoted
<1>2. AllRead(worldReal[q], worldHeard[q])'
  BY DEF SessionRight, HeardRight
<1>3. HeardRight(q)'
  BY <1>2 DEF SessionRight, HeardRight, FreeOne
<1>4. ListRight(q)'
  BY DEF SessionRight, ListRight
<1> QED BY <1>1, <1>3, <1>4 DEF SessionRight

LEMMA WorldStarts == ASSUME World!Init PROVE WorldInv
<1>3. {} \in Doings
  BY DEF Doings
<1>1. WorldTyped
  BY <1>3 DEF World!Init, WorldTyped, World!NoList, World!Nobody, World!Out
<1>2. ASSUME NEW s \in Sessions PROVE SessionRight(s)
  <2>1. worldReal[s] = World!Nobody /\ worldHeard[s] = << >> /\ roster[s] = World!NoList /\ st[s] = World!Out
    BY DEF World!Init
  <2>2. MarkTrue(s) /\ ListRight(s)
    BY <2>1 DEF MarkTrue, SlotsNoted, ListRight, World!NoList, World!Nobody, World!New
  <2>3. HeardRight(s)
    BY <2>1, HearsNothing DEF HeardRight, FreeOne, NoOffer
  <2> QED BY <2>2, <2>3 DEF SessionRight
<1> QED BY <1>1, <1>2 DEF WorldInv

\* what the stock server sends, as the bridge delivers it
LEMMA Delivers ==
    ASSUME NEW s, NEW m, StockPacket(m), NEW c \in {World!Old, World!New}, worldMark'[s].is2026 <=> c = World!New
    PROVE  AllRead(c, World!Delivered(s, m)) /\ NoOffer(World!Delivered(s, m))
<1>1. CASE c = World!New
  <2>1. World!Delivered(s, m) = World!OnSend(m)
    BY <1>1 DEF World!Delivered
  <2> QED BY <1>1, <2>1, NewReads, NoneOffered
<1>2. CASE c # World!New
  <2>1. World!Delivered(s, m) = <<m>>
    BY <1>2 DEF World!Delivered
  <2> QED BY <1>2, <2>1, OldReads, OneRead, NoneOffered
<1> QED BY <1>1, <1>2

-----------------------------------------------------------------------------
\* a step is one session's
Elsewhere(s) ==
    \A q \in Sessions \ {s} :
        /\ worldReal'[q] = worldReal[q] /\ worldMark'[q] = worldMark[q] /\ st'[q] = st[q] /\ chars'[q] = chars[q]
        /\ relist'[q] = relist[q] /\ roster'[q] = roster[q] /\ worldHeard'[q] = worldHeard[q]

LEMMA OneSession ==
    ASSUME WorldInv, NEW s \in Sessions, Elsewhere(s), WorldTyped', SessionRight(s)'
    PROVE  WorldInv'
<1>1. ASSUME NEW q \in Sessions PROVE SessionRight(q)'
  <2>1. CASE q = s
    BY <2>1
  <2>2. CASE q # s
    <3>1. /\ worldReal'[q] = worldReal[q] /\ worldMark'[q] = worldMark[q] /\ st'[q] = st[q] /\ chars'[q] = chars[q]
          /\ relist'[q] = relist[q] /\ roster'[q] = roster[q] /\ worldHeard'[q] = worldHeard[q]
      BY <2>2, Zenon DEF Elsewhere
    <3>2. SessionRight(q)
      BY DEF WorldInv
    <3> QED BY <3>1, <3>2, OthersRight
  <2> QED BY <2>1, <2>2
<1> QED BY <1>1 DEF WorldInv

LEMMA WorldConnects ==
    ASSUME WorldInv, NEW s \in Sessions, NEW c \in {World!Old, World!New}, NEW cs \in SUBSET World!Slots, World!Connect(s, c, cs)
    PROVE  WorldInv'
<1>6. {} \in Doings
  BY DEF Doings
<1>1. WorldTyped'
  BY <1>6 DEF WorldInv, WorldTyped, World!Connect, World!NoList
<1>2. Elsewhere(s)
  BY DEF WorldInv, WorldTyped, World!Connect, Elsewhere
<1>3. worldReal'[s] = c /\ st'[s] = World!Out /\ roster'[s] = World!NoList /\ worldHeard'[s] = << >> /\ c # World!Nobody
  BY DEF WorldInv, WorldTyped, World!Connect, World!Old, World!New, World!Nobody
<1>4. MarkTrue(s)' /\ ListRight(s)'
  BY <1>3 DEF MarkTrue, SlotsNoted, ListRight, World!NoList, World!Out, World!In
<1>5. HeardRight(s)'
  BY <1>3, HearsNothing DEF HeardRight, FreeOne, NoOffer
<1> QED BY <1>1, <1>2, <1>4, <1>5, OneSession DEF SessionRight

LEMMA WorldDisconnects == ASSUME WorldInv, NEW s \in Sessions, World!Disconnect(s) PROVE WorldInv'
<1>1. WorldTyped'
  BY DEF WorldInv, WorldTyped, World!Disconnect
<1>2. Elsewhere(s)
  BY DEF WorldInv, WorldTyped, World!Disconnect, Elsewhere
<1>3. worldReal'[s] = World!Nobody /\ worldHeard'[s] = << >> /\ roster'[s] = roster[s]
  BY DEF WorldInv, WorldTyped, World!Disconnect
<1>4. MarkTrue(s)' /\ ListRight(s)'
  BY <1>3 DEF WorldInv, SessionRight, MarkTrue, SlotsNoted, ListRight, World!Nobody, World!New
<1>5. HeardRight(s)'
  BY <1>3, HearsNothing DEF HeardRight, FreeOne, NoOffer
<1> QED BY <1>1, <1>2, <1>4, <1>5, OneSession DEF SessionRight

LEMMA PushedIsStock == ASSUME World!WorldBridgeOK, NEW m \in World!Pushed \cup {World!Packet(\h200D, 1, 0)} PROVE StockPacket(m)
<1>1. CASE m \in {World!Packet(\h541E, 2, 0), World!Packet(\h9808, 738, 0), World!Packet(\h1097, 741, 0), World!Packet(\h200D, 1, 0)}
  BY <1>1 DEF StockPacket, World!Packet
<1>2. CASE \E k \in Members : m = World!Packet(\h5407, 1 + 72 * k, k)
  BY <1>2 DEF StockPacket, World!Packet, World!WorldBridgeOK
<1>3. CASE \E k \in Members : m = World!Packet(\h980E, 6 + 109 * k, k)
  BY <1>3 DEF StockPacket, World!Packet, World!WorldBridgeOK
<1> QED BY <1>1, <1>2, <1>3 DEF World!Pushed

LEMMA WorldPushes ==
    ASSUME WorldInv, NEW s \in Sessions, worldReal[s] # World!Nobody, NEW m, StockPacket(m), World!Push(s, m)
    PROVE  WorldInv'
<1>1. WorldTyped'
  BY DEF WorldInv, WorldTyped, World!Push
<1>2. Elsewhere(s)
  BY DEF WorldInv, WorldTyped, World!Push, Elsewhere
<1>3. worldHeard'[s] = World!Delivered(s, m)
  BY DEF WorldInv, WorldTyped, World!Push
<1>4. worldReal[s] \in {World!Old, World!New} /\ (worldMark'[s].is2026 <=> worldReal[s] = World!New)
  BY DEF WorldInv, WorldTyped, World!Push, SessionRight, MarkTrue, SlotsNoted
<1>5. AllRead(worldReal[s], worldHeard'[s]) /\ NoOffer(worldHeard'[s])
  BY <1>3, <1>4, Delivers
<1>6. HeardRight(s)'
  BY <1>4, <1>5 DEF HeardRight, FreeOne, NoOffer, World!Push, World!Old, World!New, World!Nobody
<1>7. MarkTrue(s)' /\ ListRight(s)'
  BY DEF WorldInv, SessionRight, MarkTrue, SlotsNoted, ListRight, World!Push
<1> QED BY <1>1, <1>2, <1>6, <1>7, OneSession DEF SessionRight

\* the guild's list, a chunk of it
LEMMA WorldLists ==
    ASSUME World!WorldBridgeOK, WorldInv, NEW s \in Sessions, worldReal[s] # World!Nobody, NEW total \in Members, World!GuildList(s, total)
    PROVE  WorldInv'
<1> DEFINE r == roster[s]
<1>1. r \in [got : Nat, total : Nat, at : Nat, ended : BOOLEAN] /\ r.got = r.at /\ total \in Nat
  BY DEF WorldInv, WorldTyped, SessionRight, ListRight, World!WorldBridgeOK
<1>2. PICK at : at = IF r.at < r.total THEN r.at ELSE 0
  OBVIOUS
<1>3. PICK count : count = IF total - at < Chunk THEN total - at ELSE Chunk
  OBVIOUS
<1>4. at \in Nat /\ count \in Nat /\ at + count =< total /\ (at = 0 \/ at = r.got)
  BY <1>1, <1>2, <1>3 DEF World!GuildList, World!WorldBridgeOK
<1>5. PICK m : m = World!Packet(\h741B, 6 + 110 * count, <<at, count, total>>)
  OBVIOUS
<1>6. StockPacket(m) /\ m.op = \h741B /\ m.x = <<at, count, total>>
  BY <1>4, <1>5, PacketIs DEF StockPacket
<1>7. PICK got : got = World!Delivered(s, m)
  OBVIOUS
<1>8. /\ worldHeard' = [worldHeard EXCEPT ![s] = got]
      /\ roster' = [roster EXCEPT ![s] = [got |-> (IF at = 0 THEN 0 ELSE r.got) + count, total |-> total, at |-> at + count,
                                          ended |-> worldMark[s].is2026 /\ Len(got) = 2]]
      /\ st[s] = World!In /\ worldMark' = worldMark /\ UNCHANGED <<worldReal, st, chars, relist>>
  BY <1>2, <1>3, <1>5, <1>7 DEF World!GuildList
<1>9. roster'[s] = [got |-> at + count, total |-> total, at |-> at + count, ended |-> worldMark[s].is2026 /\ Len(got) = 2]
  BY <1>1, <1>4, <1>8 DEF WorldInv, WorldTyped
<1>10. WorldTyped'
  <2>1. (IF at = 0 THEN 0 ELSE r.got) + count \in Nat /\ at + count \in Nat /\ (worldMark[s].is2026 /\ Len(got) = 2) \in BOOLEAN
    BY <1>1, <1>4 DEF WorldInv, WorldTyped
  <2>2. roster' \in [Sessions -> [got : Nat, total : Nat, at : Nat, ended : BOOLEAN]]
    BY <1>1, <1>8, <2>1 DEF WorldInv, WorldTyped
  <2> QED BY <1>8, <2>2 DEF WorldInv, WorldTyped
<1>11. Elsewhere(s)
  BY <1>8 DEF WorldInv, WorldTyped, Elsewhere
<1>12. worldReal[s] \in {World!Old, World!New} /\ (worldMark[s].is2026 <=> worldReal[s] = World!New) /\ worldHeard'[s] = got
  BY <1>8 DEF WorldInv, WorldTyped, SessionRight, MarkTrue, SlotsNoted
<1>13. AllRead(worldReal[s], got) /\ NoOffer(got)
  BY <1>6, <1>7, <1>8, <1>12, Delivers
<1>14. HeardRight(s)'
  BY <1>8, <1>12, <1>13 DEF HeardRight, FreeOne, NoOffer, World!Old, World!New, World!Nobody
<1>15. MarkTrue(s)'
  BY <1>8 DEF WorldInv, SessionRight, MarkTrue, SlotsNoted
<1>16. ListRight(s)'
  <2>1. worldReal[s] = World!New => (Len(got) = 2 <=> at + count >= total)
    <3> SUFFICES ASSUME worldReal[s] = World!New PROVE Len(got) = 2 <=> at + count >= total
      OBVIOUS
    <3>1. got = World!OnSend(m)
      BY <1>7, <1>8, <1>12 DEF World!Delivered
    <3> DEFINE a == World!Packet(\h741B, m.n - 3, m.x)
               b == World!Packet(\h741B, 3, <<m.x[3], 0, m.x[3]>>)
    <3>2. World!OnSend(m) = <<a>> \o IF World!Ends(m.x[1], m.x[2], m.x[3]) THEN <<b>> ELSE << >>
      BY <1>6 DEF World!OnSend
    <3> HIDE DEF a, b
    <3>3. World!Ends(m.x[1], m.x[2], m.x[3]) <=> at + count >= total
      BY <1>6 DEF World!Ends
    <3>4. Len(<<a>> \o <<b>>) = 2 /\ Len(<<a>> \o << >>) = 1
      OBVIOUS
    <3> QED BY <3>1, <3>2, <3>3, <3>4
  <2>2. roster'[s].got = at + count /\ roster'[s].at = at + count /\ roster'[s].total = total
        /\ (roster'[s].ended <=> worldMark[s].is2026 /\ Len(got) = 2)
    <3>1. PICK e \in BOOLEAN : e <=> worldMark[s].is2026 /\ Len(got) = 2
      OBVIOUS
    <3>2. e = (worldMark[s].is2026 /\ Len(got) = 2)
      BY <3>1 DEF WorldInv, WorldTyped
    <3>3. roster'[s] = [got |-> at + count, total |-> total, at |-> at + count, ended |-> e]
      BY <1>9, <3>2, Zenon
    <3>4. roster'[s].ended = e
      BY <3>3
    <3> QED BY <3>1, <3>3, <3>4
  <2>3. roster'[s].at =< roster'[s].total
    BY <1>4, <2>2
  <2>4. worldReal'[s] = World!New => (roster'[s].ended <=> roster'[s].at >= roster'[s].total)
    BY <1>8, <1>12, <2>1, <2>2
  <2> QED BY <2>2, <2>3, <2>4 DEF ListRight
<1> QED BY <1>10, <1>11, <1>14, <1>15, <1>16, OneSession DEF SessionRight

-----------------------------------------------------------------------------
(* A client's request. *)

LEMMA ListIsStock == ASSUME World!WorldBridgeOK, WorldInv, NEW s \in Sessions PROVE StockPacket(World!List(s))
<1>1. IsFiniteSet(World!Slots)
  BY FS_Interval DEF World!Slots, World!WorldBridgeOK
<1>2. chars[s] \subseteq World!Slots
  BY DEF WorldInv, WorldTyped
<1>3. Cardinality(chars[s]) \in Nat
  BY <1>1, <1>2, FS_Subset, FS_CardinalityType
<1>4. World!Cardinality(chars[s]) = Cardinality(chars[s])
  BY Zenon DEF Cardinality, World!Cardinality
<1>5. PICK k \in Nat : k = World!Cardinality(chars[s])
  BY <1>3, <1>4
<1>6. World!List(s) = World!Packet(\hC14, 3 + 130 * k, chars[s])
  BY <1>5 DEF World!List
<1>7. World!List(s).op = \hC14 /\ World!List(s).n = 3 + 130 * k
  BY <1>6 DEF World!Packet
<1> QED BY <1>7 DEF StockPacket

\* a handler writes a session's state, and leaves the others
Writes(s, v, h, c, r) ==
    /\ st' = [st EXCEPT ![s] = v] /\ worldHeard' = [worldHeard EXCEPT ![s] = h]
    /\ chars' = [chars EXCEPT ![s] = c] /\ relist' = [relist EXCEPT ![s] = r]
Written(s, v, h, c, r) ==
    WorldTyped' /\ Elsewhere(s) /\ st'[s] = v /\ worldHeard'[s] = h /\ chars'[s] = c /\ relist'[s] = r

LEMMA HandlerFrame ==
    ASSUME WorldInv, NEW s \in Sessions, UNCHANGED <<worldReal, roster>>,
           worldMark' \in [Sessions -> [is2026 : BOOLEAN, used : SUBSET World!Slots]],
           \A q \in Sessions \ {s} : worldMark'[q] = worldMark[q],
           NEW v \in {World!Out, World!In, World!Left, World!Closed}, NEW h, NEW c \in SUBSET World!Slots, NEW r \in Doings,
           Writes(s, v, h, c, r)
    PROVE  Written(s, v, h, c, r)
<1>1. WorldTyped
  BY DEF WorldInv
<1>2. /\ st' \in [Sessions -> {World!Out, World!In, World!Left, World!Closed}] /\ st'[s] = v
      /\ \A q \in Sessions \ {s} : st'[q] = st[q]
  BY <1>1 DEF WorldTyped, Writes
<1>3. /\ chars' \in [Sessions -> SUBSET World!Slots] /\ chars'[s] = c
      /\ \A q \in Sessions \ {s} : chars'[q] = chars[q]
  BY <1>1 DEF WorldTyped, Writes
<1>4. relist' \in [Sessions -> Doings] /\ relist'[s] = r /\ \A q \in Sessions \ {s} : relist'[q] = relist[q]
  BY <1>1 DEF WorldTyped, Writes
<1>5. worldHeard' = [q \in Sessions |-> worldHeard'[q]] /\ worldHeard'[s] = h /\ \A q \in Sessions \ {s} : worldHeard'[q] = worldHeard[q]
  BY <1>1 DEF WorldTyped, Writes
<1>6. WorldTyped'
  BY <1>1, <1>2, <1>3, <1>4, <1>5 DEF WorldTyped
<1> QED BY <1>2, <1>3, <1>4, <1>5, <1>6 DEF Elsewhere, Written

LEMMA NothingChanged ==
    ASSUME WorldInv, NEW s \in Sessions
    PROVE  /\ st = [st EXCEPT ![s] = st[s]] /\ chars = [chars EXCEPT ![s] = chars[s]] /\ relist = [relist EXCEPT ![s] = relist[s]]
           /\ st[s] \in {World!Out, World!In, World!Left, World!Closed} /\ chars[s] \in SUBSET World!Slots /\ relist[s] \in Doings
  BY DEF WorldInv, WorldTyped

\* a handler of the stock server's, run under a mark that says what the client is
LEMMA HandledKeeps ==
    ASSUME World!WorldBridgeOK, WorldInv, NEW s \in Sessions, worldReal[s] # World!Nobody, UNCHANGED <<worldReal, roster>>,
           NEW op \in World!Registered, NEW x, op \in {\h1401, \h1407} => x \in World!Slots, World!Handled(s, op, x),
           worldMark' \in [Sessions -> [is2026 : BOOLEAN, used : SUBSET World!Slots]],
           \A q \in Sessions \ {s} : worldMark'[q] = worldMark[q],
           worldMark'[s].is2026 <=> worldReal[s] = World!New,
           op \in {\hC0F, \hC1F} => (worldReal[s] = World!New => worldMark'[s].used = chars[s]),
           op \notin {\hC0F, \hC1F} => worldMark' = worldMark /\ st[s] = World!In
    PROVE  WorldInv' /\ (st'[s] = World!In \/ (st'[s] = World!Left /\ op = \hC18))
<1>1. worldReal[s] \in {World!Old, World!New} /\ worldReal'[s] = worldReal[s] /\ roster'[s] = roster[s] /\ SessionRight(s)
  BY DEF WorldInv, WorldTyped
<1>2. ListRight(s)'
  BY <1>1 DEF SessionRight, ListRight
<1>3. CASE op \in {\hC0F, \hC1F}
  <2>1. /\ st' = [st EXCEPT ![s] = World!In] /\ worldHeard' = [worldHeard EXCEPT ![s] = World!Delivered(s, World!List(s))]
        /\ relist' = [relist EXCEPT ![s] = {}] /\ chars' = chars
    BY <1>3 DEF World!Handled
  <2>2. WorldTyped' /\ Elsewhere(s) /\ worldHeard'[s] = World!Delivered(s, World!List(s)) /\ st'[s] = World!In /\ relist'[s] = {} /\ {} \in Doings
    <3>3. {} \in Doings
      BY DEF Doings
    <3>1. Writes(s, World!In, World!Delivered(s, World!List(s)), chars[s], {})
      BY <2>1, NothingChanged DEF Writes
    <3>2. Written(s, World!In, World!Delivered(s, World!List(s)), chars[s], {})
      BY <3>1, <3>3, NothingChanged, HandlerFrame
    <3> QED BY <3>2, <3>3 DEF Written
  <2>3. worldHeard'[s] = World!Delivered(s, World!List(s)) /\ st'[s] = World!In
    BY <2>2
  <2>4. AllRead(worldReal[s], worldHeard'[s]) /\ NoOffer(worldHeard'[s])
    BY <1>1, <2>3, ListIsStock, Delivers
  <2>5. HeardRight(s)'
    BY <1>1, <2>4 DEF HeardRight, FreeOne, NoOffer
  <2>6. MarkTrue(s)'
    BY <1>1, <1>3, <2>1 DEF MarkTrue, SlotsNoted
  <2> QED BY <1>2, <2>2, <2>3, <2>5, <2>6, OneSession DEF SessionRight
<1>4. CASE op = \hC18
  <2>1. st' = [st EXCEPT ![s] = World!Left] /\ worldHeard' = [worldHeard EXCEPT ![s] = << >>] /\ UNCHANGED <<chars, relist>>
    BY <1>4 DEF World!Handled
  <2>2. WorldTyped' /\ Elsewhere(s) /\ worldHeard'[s] = << >> /\ st'[s] = World!Left
    <3>1. Writes(s, World!Left, << >>, chars[s], relist[s])
      BY <2>1, NothingChanged DEF Writes
    <3>2. Written(s, World!Left, << >>, chars[s], relist[s])
      BY <3>1, NothingChanged, HandlerFrame
    <3> QED BY <3>2 DEF Written
  <2>3. worldHeard'[s] = << >> /\ st'[s] = World!Left
    BY <2>2
  <2>4. MarkTrue(s)' /\ HeardRight(s)'
    BY <2>3, HearsNothing, SMTT(20) DEF MarkTrue, SlotsNoted, HeardRight, FreeOne, NoOffer, World!Left, World!In
  <2> QED BY <1>2, <1>4, <2>2, <2>3, <2>4, OneSession DEF SessionRight
<1>5. CASE op = \hC33
  <2> DEFINE m == World!Packet(\hC34, 34, 0)
  <2>1. worldHeard' = [worldHeard EXCEPT ![s] = World!Delivered(s, m)] /\ UNCHANGED <<st, chars, relist>> /\ worldMark' = worldMark /\ st[s] = World!In
    BY <1>5 DEF World!Handled
  <2>2. StockPacket(m)
    BY DEF StockPacket, World!Packet
  <2> HIDE DEF m
  <2>3. WorldTyped' /\ Elsewhere(s) /\ worldHeard'[s] = World!Delivered(s, m) /\ st'[s] = st[s]
    <3>1. Writes(s, st[s], World!Delivered(s, m), chars[s], relist[s])
      BY <2>1, NothingChanged DEF Writes
    <3>2. Written(s, st[s], World!Delivered(s, m), chars[s], relist[s])
      BY <3>1, NothingChanged, HandlerFrame
    <3> QED BY <3>2 DEF Written
  <2>4. worldHeard'[s] = World!Delivered(s, m) /\ st'[s] = World!In
    BY <2>1, <2>3
  <2>5. AllRead(worldReal[s], worldHeard'[s]) /\ NoOffer(worldHeard'[s])
    BY <1>1, <2>2, <2>4, Delivers
  <2>6. MarkTrue(s)' /\ HeardRight(s)'
    BY <1>1, <2>1, <2>5 DEF SessionRight, MarkTrue, SlotsNoted, HeardRight, FreeOne, NoOffer
  <2> QED BY <1>2, <2>3, <2>4, <2>6, OneSession DEF SessionRight
<1>6. CASE op = \h1401 /\ x \notin chars[s] /\ chars' # chars
  <2> DEFINE m == World!Packet(\h1406, 131, x)
  <2>1. /\ chars' = [chars EXCEPT ![s] = @ \cup {x}] /\ relist' = [relist EXCEPT ![s] = @ \cup {"created"}]
        /\ worldHeard' = [worldHeard EXCEPT ![s] = World!Delivered(s, m)] /\ st' = st /\ worldMark' = worldMark /\ st[s] = World!In
    BY <1>6 DEF World!Handled
  <2>2. StockPacket(m)
    BY DEF StockPacket, World!Packet
  <2> HIDE DEF m
  <2>3. /\ WorldTyped' /\ Elsewhere(s)
        /\ worldHeard'[s] = World!Delivered(s, m) /\ st'[s] = st[s] /\ chars'[s] = chars[s] \cup {x} /\ relist'[s] = relist[s] \cup {"created"}
    <3>1. chars[s] \cup {x} \in SUBSET World!Slots /\ chars' = [chars EXCEPT ![s] = chars[s] \cup {x}]
          /\ relist[s] \cup {"created"} \in Doings /\ relist' = [relist EXCEPT ![s] = relist[s] \cup {"created"}]
      BY <1>6, <2>1, NothingChanged DEF Doings
    <3>2. Writes(s, st[s], World!Delivered(s, m), chars[s] \cup {x}, relist[s] \cup {"created"})
      BY <2>1, <3>1, NothingChanged DEF Writes
    <3>3. Written(s, st[s], World!Delivered(s, m), chars[s] \cup {x}, relist[s] \cup {"created"})
      BY <3>1, <3>2, NothingChanged, HandlerFrame
    <3> QED BY <3>3 DEF Written
  <2>4. worldHeard'[s] = World!Delivered(s, m) /\ st'[s] = World!In /\ "created" \in relist'[s]
    BY <2>1, <2>3
  <2>5. AllRead(worldReal[s], worldHeard'[s]) /\ NoOffer(worldHeard'[s])
    BY <1>1, <2>2, <2>4, Delivers
  <2>6. MarkTrue(s)' /\ HeardRight(s)'
    BY <1>1, <2>1, <2>4, <2>5 DEF SessionRight, MarkTrue, SlotsNoted, HeardRight, FreeOne, NoOffer
  <2> QED BY <1>2, <2>3, <2>4, <2>6, OneSession DEF SessionRight
<1>9. CASE op = \h1407 /\ x \in chars[s] /\ chars' # chars
  <2> DEFINE m == World!Packet(\h140C, 1, x)
  <2>1. /\ chars' = [chars EXCEPT ![s] = @ \ {x}] /\ relist' = [relist EXCEPT ![s] = @ \cup {"erased"}]
        /\ worldHeard' = [worldHeard EXCEPT ![s] = World!Delivered(s, m)] /\ st' = st /\ worldMark' = worldMark /\ st[s] = World!In
    BY <1>9 DEF World!Handled
  <2>2. StockPacket(m)
    BY DEF StockPacket, World!Packet
  <2> HIDE DEF m
  <2>3. /\ WorldTyped' /\ Elsewhere(s)
        /\ worldHeard'[s] = World!Delivered(s, m) /\ st'[s] = st[s] /\ chars'[s] = chars[s] \ {x} /\ relist'[s] = relist[s] \cup {"erased"}
    <3>1. chars[s] \ {x} \in SUBSET World!Slots /\ chars' = [chars EXCEPT ![s] = chars[s] \ {x}]
          /\ relist[s] \cup {"erased"} \in Doings /\ relist' = [relist EXCEPT ![s] = relist[s] \cup {"erased"}]
      BY <1>9, <2>1, NothingChanged DEF Doings
    <3>2. Writes(s, st[s], World!Delivered(s, m), chars[s] \ {x}, relist[s] \cup {"erased"})
      BY <2>1, <3>1, NothingChanged DEF Writes
    <3>3. Written(s, st[s], World!Delivered(s, m), chars[s] \ {x}, relist[s] \cup {"erased"})
      BY <3>1, <3>2, NothingChanged, HandlerFrame
    <3> QED BY <3>3 DEF Written
  <2>4. worldHeard'[s] = World!Delivered(s, m) /\ st'[s] = World!In /\ relist'[s] = relist[s] \cup {"erased"} /\ chars'[s] = chars[s] \ {x}
    BY <2>1, <2>3
  <2>5. AllRead(worldReal[s], worldHeard'[s]) /\ NoOffer(worldHeard'[s])
    BY <1>1, <2>2, <2>4, Delivers
  <2>6. MarkTrue(s)' /\ HeardRight(s)'
    BY <1>1, <2>1, <2>4, <2>5 DEF SessionRight, MarkTrue, SlotsNoted, HeardRight, FreeOne, NoOffer
  <2> QED BY <1>2, <2>3, <2>4, <2>6, OneSession DEF SessionRight
<1>7. CASE (op = \h1401 /\ x \in chars[s]) \/ (op = \h1407 /\ x \notin chars[s])
  <2>1. worldHeard' = [worldHeard EXCEPT ![s] = << >>] /\ UNCHANGED <<st, chars, relist>> /\ worldMark' = worldMark /\ st[s] = World!In
    BY <1>7 DEF World!Handled
  <2>2. WorldTyped' /\ Elsewhere(s) /\ worldHeard'[s] = << >> /\ st'[s] = st[s]
    <3>1. Writes(s, st[s], << >>, chars[s], relist[s])
      BY <2>1, NothingChanged DEF Writes
    <3>2. Written(s, st[s], << >>, chars[s], relist[s])
      BY <3>1, NothingChanged, HandlerFrame
    <3> QED BY <3>2 DEF Written
  <2>3. worldHeard'[s] = << >> /\ st'[s] = World!In
    BY <2>1, <2>2
  <2>4. HeardRight(s)'
    BY <2>3, HearsNothing DEF HeardRight, FreeOne, NoOffer
  <2>5. MarkTrue(s)'
    BY <1>1, <2>1, SMTT(20) DEF SessionRight, MarkTrue, SlotsNoted
  <2> QED BY <1>2, <2>2, <2>3, <2>4, <2>5, OneSession DEF SessionRight
<1>8. op = \h1401 /\ x \notin chars[s] => chars' # chars
  <2> SUFFICES ASSUME op = \h1401, x \notin chars[s] PROVE chars' # chars
    OBVIOUS
  <2>1. chars' = [chars EXCEPT ![s] = @ \cup {x}]
    BY DEF World!Handled
  <2>2. x \in chars'[s]
    BY <2>1 DEF WorldInv, WorldTyped
  <2> QED BY <2>2
<1>10. op = \h1407 /\ x \in chars[s] => chars' # chars
  <2> SUFFICES ASSUME op = \h1407, x \in chars[s] PROVE chars' # chars
    OBVIOUS
  <2>1. chars' = [chars EXCEPT ![s] = @ \ {x}]
    BY DEF World!Handled
  <2>2. x \notin chars'[s]
    BY <2>1 DEF WorldInv, WorldTyped
  <2> QED BY <2>2
<1> QED BY <1>3, <1>4, <1>5, <1>6, <1>7, <1>8, <1>9, <1>10 DEF World!Registered

\* the slot a creation is opened with: the first one the account has free, if it has one
LEMMA FirstFreeIsFree ==
    ASSUME World!WorldBridgeOK, NEW used \in SUBSET World!Slots
    PROVE  World!FirstFree(used) \notin used /\ (used # World!Slots => World!FirstFree(used) \in World!Slots)
<1>8. CASE used = World!Slots
  <2>1. kAvatarSlots \in 0 .. 64 /\ kAvatarSlots \notin used /\ \A j \in 0 .. kAvatarSlots - 1 : j \in used
    BY <1>8 DEF World!Slots, World!WorldBridgeOK
  <2>2. PICK f : f = World!FirstFree(used)
    OBVIOUS
  <2>3. f \in 0 .. 64 /\ f \notin used
    BY <2>1, <2>2, Zenon DEF World!FirstFree
  <2> QED BY <1>8, <2>2, <2>3
<1>9. SUFFICES ASSUME used # World!Slots PROVE World!FirstFree(used) \in World!Slots \ used
  BY <1>8
<1> DEFINE S == World!Slots \ used
<1>1. S \subseteq Nat /\ S # {} /\ S \subseteq 0 .. 64
  <2>1. S # {}
    BY <1>9, Zenon
  <2>2. World!Slots \subseteq Nat /\ World!Slots \subseteq 0 .. 64
    BY DEF World!Slots, World!WorldBridgeOK
  <2> QED BY <2>1, <2>2
<1>2. PICK k \in S : \A j \in S : k =< j
  <2> HIDE DEF S
  <2> QED BY <1>1, FirstNumber, Zenon
<1>3. k \in 0 .. 64 /\ k \notin used /\ \A j \in 0 .. k - 1 : j \in used
  <2>1. k \in 0 .. 64 /\ k \notin used
    BY <1>1, <1>2
  <2>2. ASSUME NEW j \in 0 .. k - 1, j \notin used PROVE FALSE
    <3>1. j \in World!Slots
      BY <1>2 DEF World!Slots, World!WorldBridgeOK
    <3> QED BY <1>2, <2>2, <3>1
  <2> QED BY <2>1, <2>2
<1>4. PICK f : f = World!FirstFree(used)
  OBVIOUS
<1>5. f \in 0 .. 64 /\ f \notin used /\ \A j \in 0 .. f - 1 : j \in used
  BY <1>3, <1>4, Zenon DEF World!FirstFree
<1>6. ~(k < f)
  <2> SUFFICES ASSUME k < f PROVE FALSE
    OBVIOUS
  <2>1. k \in 0 .. f - 1
    BY <1>1, <1>3, <1>5
  <2> QED BY <1>2, <1>5, <2>1
<1>7. f \in World!Slots
  BY <1>1, <1>2, <1>3, <1>5, <1>6 DEF World!Slots, World!WorldBridgeOK
<1> QED BY <1>4, <1>5, <1>7

LEMMA OfferSent == ASSUME NEW m, Offer(m) PROVE World!OnSend(m) = <<m>>
  BY DEF Offer, World!OnSend

\* the answer to a request for a creation
Offered(s, f, m, h) ==
    /\ worldReal[s] = World!New /\ st[s] = World!In
    /\ worldMark' = worldMark /\ UNCHANGED <<worldReal, st, chars, relist, roster>>
    /\ f = World!FirstFree(worldMark[s].used) /\ m = World!Packet(\hC34, 6, f)
    /\ h = IF worldMark'[s].is2026 THEN World!OnSend(m) ELSE <<m>>
    /\ worldHeard' = [worldHeard EXCEPT ![s] = h]

LEMMA OfferKeeps ==
    ASSUME World!WorldBridgeOK, WorldInv, NEW s \in Sessions, NEW f, NEW m, NEW h, Offered(s, f, m, h)
    PROVE  WorldInv'
<1>16. /\ worldReal[s] = World!New /\ st[s] = World!In
       /\ worldMark' = worldMark /\ UNCHANGED <<worldReal, st, chars, relist, roster>>
       /\ f = World!FirstFree(worldMark[s].used) /\ m = World!Packet(\hC34, 6, f)
       /\ h = IF worldMark'[s].is2026 THEN World!OnSend(m) ELSE <<m>>
       /\ worldHeard' = [worldHeard EXCEPT ![s] = h]
  BY DEF Offered
<1>1. worldMark[s].is2026 /\ SlotsNoted(s) /\ worldMark[s].used \in SUBSET World!Slots
  BY <1>16 DEF WorldInv, WorldTyped, SessionRight, MarkTrue, World!New, World!Nobody
<1>2. PICK u \in SUBSET World!Slots : u = worldMark[s].used
  BY <1>1
<1>17. f \notin u /\ (u # World!Slots => f \in World!Slots)
  BY <1>2, <1>16, FirstFreeIsFree
<1>3. FreeOne(s, f)
  BY <1>1, <1>2, <1>17 DEF FreeOne, SlotsNoted
<1>4. m.op = \hC34 /\ m.n = 6 /\ m.x = f
  BY <1>16, PacketIs
<1>5. World!OnSend(m) = <<m>>
  BY <1>4, OfferSent DEF Offer
<1>6. h = <<m>>
  BY <1>1, <1>5, <1>16
<1>8. Writes(s, st[s], h, chars[s], relist[s])
  BY <1>16, NothingChanged DEF Writes
<1>9. worldMark' \in [Sessions -> [is2026 : BOOLEAN, used : SUBSET World!Slots]] /\ \A q \in Sessions \ {s} : worldMark'[q] = worldMark[q]
  BY <1>16 DEF WorldInv, WorldTyped
<1>10. Written(s, st[s], h, chars[s], relist[s])
  BY <1>8, <1>9, <1>16, NothingChanged, HandlerFrame
<1>11. World!Reads(World!New, m)
  <2>1. <<\hC34, 6, 0>> \in World!Width(World!New)
    BY DEF World!Width
  <2> QED BY <1>4, <2>1 DEF World!Reads
<1>12. AllRead(World!New, <<m>>)
  BY <1>11, OneRead
<1>13. worldHeard'[s] = <<m>> /\ chars'[s] = chars[s] /\ relist'[s] = relist[s] /\ worldReal'[s] = World!New
  BY <1>6, <1>10, <1>16 DEF Written
<1>14. HeardRight(s)'
  <2>1. ASSUME NEW k \in DOMAIN worldHeard'[s]
        PROVE  /\ "created" \notin relist'[s] => worldHeard'[s][k].x \notin chars'[s]
               /\ relist'[s] = {} /\ chars'[s] # World!Slots => worldHeard'[s][k].x \in World!Slots
    <3>1. worldHeard'[s][k] = m
      BY <1>13
    <3> QED BY <1>3, <1>4, <1>13, <3>1 DEF FreeOne
  <2> QED BY <1>12, <1>13, <2>1 DEF HeardRight, FreeOne, World!New, World!Nobody
<1>15. MarkTrue(s)' /\ ListRight(s)'
  BY <1>16 DEF WorldInv, SessionRight, MarkTrue, SlotsNoted, ListRight
<1> QED BY <1>10, <1>14, <1>15, OneSession DEF SessionRight, Written

\* a request no handler is run for
LEMMA DropKeeps ==
    ASSUME WorldInv, NEW s \in Sessions, worldHeard' = [worldHeard EXCEPT ![s] = << >>],
           UNCHANGED <<worldReal, worldMark, st, chars, relist, roster>>
    PROVE  WorldInv'
<1>1. Writes(s, st[s], << >>, chars[s], relist[s])
  BY NothingChanged DEF Writes
<1>2. worldMark' \in [Sessions -> [is2026 : BOOLEAN, used : SUBSET World!Slots]] /\ \A q \in Sessions \ {s} : worldMark'[q] = worldMark[q]
  BY DEF WorldInv, WorldTyped
<1>3. Written(s, st[s], << >>, chars[s], relist[s])
  BY <1>1, <1>2, NothingChanged, HandlerFrame
<1>4. HeardRight(s)'
  BY <1>3, HearsNothing DEF Written, HeardRight, FreeOne, NoOffer
<1>5. MarkTrue(s)' /\ ListRight(s)'
  BY DEF WorldInv, SessionRight, MarkTrue, SlotsNoted, ListRight
<1> QED BY <1>3, <1>4, <1>5, OneSession DEF SessionRight, Written

\* what a request of a legal client comes to
LEMMA RequestKeeps ==
    ASSUME World!WorldBridgeOK, WorldInv, NEW s \in Sessions, worldReal[s] # World!Nobody, st[s] \in {World!Out, World!In},
           NEW m \in World!Says(s), World!Request(s, m)
    PROVE  WorldInv' /\ (st'[s] = World!In \/ (st'[s] = World!Left /\ <<m.op, m.x>> \in World!Logouts(worldReal[s])))
<1>1. worldReal[s] \in {World!Old, World!New} /\ UNCHANGED <<worldReal, roster>> /\ worldMark \in [Sessions -> [is2026 : BOOLEAN, used : SUBSET World!Slots]]
  BY DEF WorldInv, WorldTyped, World!Request
<1>2. CASE st[s] = World!Out
  <2>1. m.op \in {\hC0E, \hC0F} /\ (m.op = \hC0E <=> worldReal[s] = World!New)
    BY <1>1, <1>2 DEF World!Says, World!Packet, World!Old, World!New
  <2>2. World!Login(s, m)
    BY <1>2, <2>1 DEF World!Request
  <2>3. World!Handled(s, \hC0F, 0) /\ worldMark' = World!Marked(s, m)
    BY <2>2 DEF World!Login
  <2>4. chars[s] \in SUBSET World!Slots
    BY DEF WorldInv, WorldTyped
  <2>5. ASSUME worldReal[s] = World!New
        PROVE  /\ worldMark' \in [Sessions -> [is2026 : BOOLEAN, used : SUBSET World!Slots]]
               /\ \A q \in Sessions \ {s} : worldMark'[q] = worldMark[q]
               /\ worldMark'[s].is2026 /\ worldMark'[s].used = chars[s]
    <3>1. worldMark' = [worldMark EXCEPT ![s] = [is2026 |-> TRUE, used |-> chars[s]]]
      <4>1. worldMark' = [worldMark EXCEPT ![s] = World!MarkOf(s, m)]
        BY <2>3 DEF World!Marked
      <4>2. World!MarkOf(s, m) = [is2026 |-> TRUE, used |-> chars[s]]
        BY <2>1, <2>5 DEF World!MarkOf
      <4> QED BY <4>1, <4>2
    <3>2. [is2026 |-> TRUE, used |-> chars[s]] \in [is2026 : BOOLEAN, used : SUBSET World!Slots]
      BY <2>4
    <3>3. worldMark'[s] = [is2026 |-> TRUE, used |-> chars[s]]
      BY <1>1, <3>1
    <3>4. /\ worldMark' \in [Sessions -> [is2026 : BOOLEAN, used : SUBSET World!Slots]]
          /\ \A q \in Sessions \ {s} : worldMark'[q] = worldMark[q]
          /\ worldMark'[s].is2026 /\ worldMark'[s].used = chars[s]
      BY <1>1, <3>1, <3>2, <3>3
    <3> QED BY <3>4
  <2>6. ASSUME worldReal[s] # World!New
        PROVE  /\ worldMark' \in [Sessions -> [is2026 : BOOLEAN, used : SUBSET World!Slots]]
               /\ \A q \in Sessions \ {s} : worldMark'[q] = worldMark[q]
               /\ ~worldMark'[s].is2026
    <3>1. worldMark' = [worldMark EXCEPT ![s] = [is2026 |-> FALSE, used |-> {}]]
      <4>1. worldMark' = [worldMark EXCEPT ![s] = World!MarkOf(s, m)]
        BY <2>3 DEF World!Marked
      <4>2. World!MarkOf(s, m) = [is2026 |-> FALSE, used |-> {}]
        BY <2>1, <2>6 DEF World!MarkOf
      <4> QED BY <4>1, <4>2
    <3>2. [is2026 |-> FALSE, used |-> {}] \in [is2026 : BOOLEAN, used : SUBSET World!Slots]
      OBVIOUS
    <3>3. worldMark'[s] = [is2026 |-> FALSE, used |-> {}]
      BY <1>1, <3>1
    <3>4. /\ worldMark' \in [Sessions -> [is2026 : BOOLEAN, used : SUBSET World!Slots]]
          /\ \A q \in Sessions \ {s} : worldMark'[q] = worldMark[q]
          /\ ~worldMark'[s].is2026
      BY <1>1, <3>1, <3>2, <3>3
    <3> QED BY <3>4
  <2>7. \hC0F \in World!Registered
    BY DEF World!Registered
  <2>8. WorldInv' /\ (st'[s] = World!In \/ (st'[s] = World!Left /\ \hC0F = \hC18))
    BY <1>1, <2>3, <2>5, <2>6, <2>7, HandledKeeps
  <2> QED BY <2>8
<1>3. CASE st[s] = World!In /\ worldReal[s] = World!New
  <2>1. worldMark[s].is2026
    BY <1>3 DEF WorldInv, SessionRight, MarkTrue, SlotsNoted, World!New, World!Nobody
  <2>2. World!OnClient(s, m)
    BY <1>3, <2>1 DEF World!Request, World!In, World!Out
  <2>3. CASE m.op = \hC32
    <3>2. /\ worldMark' = worldMark /\ UNCHANGED <<st, chars, relist>>
          /\ worldHeard' = [worldHeard EXCEPT ![s] = World!Delivered(s, World!Packet(\hC34, 6, World!FirstFree(worldMark[s].used)))]
      BY <2>2, <2>3 DEF World!OnClient
    <3>3. PICK f : f = World!FirstFree(worldMark[s].used)
      OBVIOUS
    <3>4. PICK p : p = World!Packet(\hC34, 6, f)
      OBVIOUS
    <3>9. PICK h : h = World!Delivered(s, p)
      OBVIOUS
    <3>5. h = IF worldMark'[s].is2026 THEN World!OnSend(p) ELSE <<p>>
      BY <3>9 DEF World!Delivered
    <3>6. worldHeard' = [worldHeard EXCEPT ![s] = h]
      BY <3>2, <3>3, <3>4, <3>9
    <3>7. worldMark' = worldMark /\ UNCHANGED <<worldReal, st, chars, relist, roster>>
      BY <1>1, <3>2
    <3>8. Offered(s, f, p, h)
      BY <1>3, <3>3, <3>4, <3>5, <3>6, <3>7 DEF Offered
    <3>10. WorldInv'
      BY <3>8, OfferKeeps
    <3> QED BY <1>3, <3>7, <3>10
  <2>4. CASE m.op # \hC32 /\ World!HandlerOf(m) = 0
    <3>1. worldHeard' = [worldHeard EXCEPT ![s] = << >>] /\ UNCHANGED <<worldMark, st, chars, relist>>
      BY <2>2, <2>4 DEF World!OnClient
    <3> QED BY <1>1, <1>3, <3>1, DropKeeps
  <2>5. CASE m.op # \hC32 /\ World!HandlerOf(m) # 0
    <3>1. PICK h : h = World!HandlerOf(m)
      OBVIOUS
    <3>2. worldMark' = (IF h = \hC1F THEN World!MarkAfterList(s) ELSE worldMark) /\ World!Handled(s, h, m.x)
      <4>1. worldMark' = (IF World!HandlerOf(m) = \hC1F THEN World!MarkAfterList(s) ELSE worldMark) /\ World!Handled(s, World!HandlerOf(m), m.x)
        BY <2>2, <2>5 DEF World!OnClient
      <4> QED BY <3>1, <4>1
    <3>3. m \in {World!Packet(\hC15, 1, 0), World!Packet(\hC23, 3, \hC15), World!Packet(\hC1A, 1, 0), World!Packet(\hC24, 2, 0)}
                \cup {World!Packet(\h1401, 26, k) : k \in World!Slots} \cup {World!Packet(\h1407, 1, k) : k \in World!Slots}
      BY <1>3, <2>5 DEF World!Says, World!Packet, World!HandlerOf, World!In, World!Out
    <3>4. /\ h \in World!Registered \ {\hC0F}
          /\ h \in {\h1401, \h1407} => m.x \in World!Slots
          /\ h = \hC18 => <<m.op, m.x>> \in World!Logouts(World!New)
      BY <3>1, <3>3 DEF World!Packet, World!HandlerOf, World!Registered, World!Logouts
    <3>5. /\ worldMark' \in [Sessions -> [is2026 : BOOLEAN, used : SUBSET World!Slots]]
          /\ \A q \in Sessions \ {s} : worldMark'[q] = worldMark[q]
          /\ worldMark'[s].is2026 /\ (h = \hC1F => worldMark'[s].used = chars[s]) /\ (h # \hC1F => worldMark' = worldMark)
      <4>1. CASE h = \hC1F
        <5>1. worldMark' = [worldMark EXCEPT ![s].used = chars[s]]
          BY <2>1, <3>2, <4>1 DEF World!MarkAfterList
        <5>2. chars[s] \in SUBSET World!Slots
          BY DEF WorldInv, WorldTyped
        <5> QED BY <1>1, <2>1, <4>1, <5>1, <5>2
      <4>2. CASE h # \hC1F
        BY <1>1, <2>1, <3>2, <4>2
      <4> QED BY <4>1, <4>2
    <3>6. WorldInv' /\ (st'[s] = World!In \/ (st'[s] = World!Left /\ h = \hC18))
      BY <1>1, <1>3, <3>2, <3>4, <3>5, HandledKeeps
    <3> QED BY <1>3, <3>4, <3>6
  <2> QED BY <2>3, <2>4, <2>5
<1>4. CASE st[s] = World!In /\ worldReal[s] = World!Old
  <2>1. ~worldMark[s].is2026
    BY <1>4 DEF WorldInv, SessionRight, MarkTrue, SlotsNoted, World!Old, World!New, World!Nobody
  <2>2. World!OnStock(s, m)
    BY <1>4, <2>1 DEF World!Request, World!In, World!Out
  <2>3. /\ m.op \in World!Registered /\ m.op # \hC0F
        /\ m.op \in {\h1401, \h1407} => m.x \in World!Slots
        /\ m.op = \hC18 => <<m.op, m.x>> \in World!Logouts(World!Old)
    <3>1. m \in {World!Packet(\hC18, 1, 0), World!Packet(\hC1F, 1, 0), World!Packet(\hC33, 0, 0)} \cup {World!Packet(\h1401, 25, k) : k \in World!Slots}
              \cup {World!Packet(\h1407, 1, k) : k \in World!Slots}
      BY <1>4 DEF World!Says, World!In, World!Out, World!Old, World!New
    <3>2. (m.op \in {\hC18, \hC1F, \hC33} /\ m.x = 0) \/ (m.op \in {\h1401, \h1407} /\ m.x \in World!Slots)
      BY <3>1 DEF World!Packet
    <3>3. World!Logouts(World!Old) = {<<\hC18, 0>>}
      BY DEF World!Logouts, World!Old, World!New
    <3> QED BY <3>2, <3>3 DEF World!Registered
  <2>4. worldMark' = worldMark /\ World!Handled(s, m.op, m.x)
    BY <2>2, <2>3 DEF World!OnStock
  <2>5. WorldInv' /\ (st'[s] = World!In \/ (st'[s] = World!Left /\ m.op = \hC18))
    <3>1. m.op \in World!Registered /\ m.op # \hC0F /\ (worldMark'[s].is2026 <=> worldReal[s] = World!New) /\ worldReal[s] # World!New
      BY <1>4, <2>1, <2>3, <2>4 DEF World!Registered, World!Old, World!New
    <3> QED BY <1>1, <1>4, <2>3, <2>4, <3>1, HandledKeeps
  <2> QED BY <1>4, <2>3, <2>5
<1> QED BY <1>1, <1>2, <1>3, <1>4

LEMMA WorldUnchanged == ASSUME WorldInv, UNCHANGED worldVars PROVE WorldInv'
<1>1. WorldTyped'
  BY DEF WorldInv, WorldTyped, worldVars
<1>2. ASSUME NEW q \in Sessions PROVE SessionRight(q)'
  <2>1. /\ worldReal'[q] = worldReal[q] /\ worldMark'[q] = worldMark[q] /\ st'[q] = st[q] /\ chars'[q] = chars[q]
        /\ relist'[q] = relist[q] /\ roster'[q] = roster[q] /\ worldHeard'[q] = worldHeard[q]
    BY DEF worldVars
  <2>2. SessionRight(q)
    BY DEF WorldInv
  <2> QED BY <2>1, <2>2, OthersRight
<1> QED BY <1>1, <1>2 DEF WorldInv

LEMMA WorldSteps == ASSUME World!WorldBridgeOK, WorldInv, World!Next PROVE WorldInv'
<1>1. ASSUME NEW s \in Sessions, NEW c \in {World!Old, World!New}, NEW cs \in SUBSET World!Slots, World!Connect(s, c, cs) PROVE WorldInv'
  BY <1>1, WorldConnects
<1>2. ASSUME NEW s \in Sessions, worldReal[s] # World!Nobody, st[s] \in {World!Out, World!In}, NEW m \in World!Says(s), World!Request(s, m)
      PROVE  WorldInv'
  BY <1>2, RequestKeeps
<1>3. ASSUME NEW s \in Sessions, worldReal[s] # World!Nobody, NEW m \in World!Pushed, World!Push(s, m) PROVE WorldInv'
  BY <1>3, PushedIsStock, WorldPushes
<1>4. ASSUME NEW s \in Sessions, worldReal[s] # World!Nobody, NEW total \in Members, World!GuildList(s, total) PROVE WorldInv'
  BY <1>4, WorldLists
<1>5. ASSUME NEW s \in Sessions, worldReal[s] # World!Nobody, World!ZoneWhisper(s) PROVE WorldInv'
  <2>1. PICK m : m = World!Packet(\h200D, 1, 0)
    OBVIOUS
  <2>2. World!Push(s, m) /\ StockPacket(m)
    BY <1>5, <2>1, PushedIsStock DEF World!ZoneWhisper
  <2> QED BY <1>5, <2>2, WorldPushes
<1>6. ASSUME NEW s \in Sessions, World!Disconnect(s) PROVE WorldInv'
  BY <1>6, WorldDisconnects
<1> QED BY <1>1, <1>2, <1>3, <1>4, <1>5, <1>6 DEF World!Next

\* what the invariant says of the properties
LEMMA WorldHolds == ASSUME WorldInv PROVE World!FormsFit /\ World!OfferedSlotFree /\ World!RosterWhole
<1>1. World!FormsFit
  BY DEF WorldInv, SessionRight, HeardRight, AllRead, World!FormsFit
<1>2. World!OfferedSlotFree
  BY DEF WorldInv, SessionRight, HeardRight, FreeOne, Offer, World!OfferedSlotFree
<1>3. World!RosterWhole
  <2> SUFFICES ASSUME NEW s \in Sessions, worldReal[s] = World!New
               PROVE  /\ roster[s].at >= roster[s].total => roster[s].ended
                      /\ roster[s].ended => roster[s].got = roster[s].total
    BY DEF World!RosterWhole
  <2>1. /\ roster[s].got = roster[s].at /\ roster[s].at =< roster[s].total
        /\ roster[s].ended <=> roster[s].at >= roster[s].total
        /\ roster[s].at \in Nat /\ roster[s].total \in Nat
    BY DEF WorldInv, WorldTyped, SessionRight, ListRight
  <2> QED BY <2>1
<1> QED BY <1>1, <1>2, <1>3

LEMMA WorldStays ==
    ASSUME World!WorldBridgeOK, WorldInv
    PROVE  \A s \in Sessions : worldReal[s] # World!Nobody /\ st[s] \in {World!Out, World!In} =>
               \A m \in World!Says(s) : World!Request(s, m) =>
                   st'[s] = World!In \/ (st'[s] = World!Left /\ <<m.op, m.x>> \in World!Logouts(worldReal[s]))
  BY RequestKeeps
-----------------------------------------------------------------------------
(* The zone. *)

Clients2 == {Zone!Nobody, Zone!Old, Zone!New}
WhoTyped ==
    /\ part \in Zone!Parts
    /\ zoneReal \in [Players -> Clients2] /\ client \in [Players -> Clients2] /\ online \in [Players -> BOOLEAN]
QuestsTyped ==
    /\ tracked \in [Players -> Seq(Quests)] /\ tracker \in [Players -> Seq(Quests)] /\ whole \in [Players -> Seq(Zone!Records)]
Downs == {"page", "done", "close", "end"}
Ups == {"ack", "echo", "own", "esc"}
DialogTyped ==
    /\ ends \in BOOLEAN /\ announces \in BOOLEAN /\ (announces => ends)
    /\ pending \in [Players -> {"no", "fresh", "old"}] /\ script \in [Players -> BOOLEAN] /\ crossed \in [Players -> BOOLEAN]
    /\ down \in [Players -> Seq(Downs)] /\ up \in [Players -> Seq(Ups)]
    /\ dialog \in [Players -> {"closed", "shown", "waiting"}]
EquipTyped ==
    /\ worn \in [Players -> [Zone!Range16 -> DOMAIN Items \cup {Zone!NoItem}]]
    /\ drawn \in [Players -> [Zone!Folded -> DOMAIN Items \cup {Zone!NoItem}]]
    /\ empties \in [Players -> SUBSET Zone!Folded]
StatesRight ==
    /\ extra \in [Handles -> SUBSET Extra] /\ has \in [Handles -> SUBSET Extra]
    /\ extra = has /\ record.bits = record.had
ZoneTyped == WhoTyped /\ QuestsTyped /\ DialogTyped /\ EquipTyped

\* a player in the zone is taken for what he is
KnownAs(p) == online[p] => client[p] = zoneReal[p] /\ zoneReal[p] # Zone!Nobody

\* a page is the last thing under way to a client, and never there twice
PageLast(q) == \A k \in DOMAIN q : q[k] = "page" => k = Len(q)
HasPage(q) == q # << >> /\ q[Len(q)] = "page"
HasClose(q) == \E k \in DOMAIN q : q[k] = "close"

\* a 2016 client's dialog
OldDialog(p) ==
    /\ PageLast(down[p]) /\ ~HasClose(down[p]) /\ pending[p] = "no"
    /\ \/ dialog[p] = "shown" /\ script[p] /\ down[p] = << >> /\ up[p] = << >>
       \/ dialog[p] = "closed" /\ script[p] /\ down[p] = << >> /\ up[p] \in {<<"ack">>, <<"own">>}
       \/ dialog[p] = "closed" /\ (script[p] <=> HasPage(down[p])) /\ up[p] = << >>

\* what a 2026 client has under way back, after an echo or an Esc that the zone has not seen yet: nothing; the answer to a
\* page; the closing of one; an answer and an Esc behind it
Late == {"echo", "esc"}
Silent == {<< >>, <<"echo">>, <<"esc">>}
Acked == {<<"ack">>, <<"echo", "ack">>, <<"esc", "ack">>}
Dismissed == {<<"own">>, <<"echo", "own">>, <<"esc", "own">>}
Escaped == {<<"ack", "esc">>, <<"echo", "ack", "esc">>, <<"esc", "ack", "esc">>}
FirstIs(u, S) == u # << >> /\ u[1] \in S

\* what its dialog waits for
Closing(p) == down[p] = <<"page">> \/ (HasClose(down[p]) /\ pending[p] # "no")
\* its dialog, the script and what is under way; an echo is that of a close sent, and what is swallowed for one is an echo
\* or an Esc
NewDialog(p) ==
    /\ PageLast(down[p])
    /\ \/ dialog[p] = "shown" /\ script[p] /\ down[p] = << >> /\ up[p] \in Silent
       \/ dialog[p] = "waiting" /\ script[p] /\ down[p] = << >> /\ up[p] \in Acked
       \/ dialog[p] = "waiting" /\ up[p] = << >> /\ (script[p] <=> HasPage(down[p])) /\ Closing(p)
       \/ dialog[p] = "closed" /\ (script[p] <=> HasPage(down[p])) /\ up[p] \in Silent
       \/ dialog[p] = "closed" /\ script[p] /\ down[p] = << >> /\ up[p] \in Dismissed \cup Escaped
    /\ FirstIs(up[p], {"echo"}) => pending[p] # "no"
    /\ pending[p] = "fresh" => FirstIs(up[p], Late) \/ (dialog[p] = "waiting" /\ up[p] = << >> /\ HasClose(down[p]))
DialogRight(p) ==
    online[p] /\ ~crossed[p] =>
        /\ zoneReal[p] = Zone!Old => OldDialog(p)
        /\ zoneReal[p] = Zone!New => NewDialog(p)

\* what is drawn is what is worn
EquipRight(p) ==
    online[p] =>
        /\ \A s \in Zone!Range16 : worn[p][s] # Zone!NoItem => Items[worn[p][s]].s16 = s
        /\ zoneReal[p] = Zone!New =>
               /\ \A t \in Zone!Folded, i \in DOMAIN Items : drawn[p][t] = i <=> Items[i].s26 = t /\ worn[p][Items[i].s16] = i
               /\ \A t \in empties[p] : drawn[p][t] = Zone!NoItem

\* the tracked quests of a list are those a tracker shows, in order
Follows(t, w) ==
    /\ \A i \in Zone!FirstAt(w) : Zone!Rank(w, i) =< kTracked => Zone!Rank(w, i) \in DOMAIN t /\ t[Zone!Rank(w, i)] = w[i].quest
    /\ Len(t) = IF Zone!Cardinality(Zone!FirstAt(w)) < kTracked THEN Zone!Cardinality(Zone!FirstAt(w)) ELSE kTracked
    /\ \A k \in DOMAIN t : \E i \in Zone!FirstAt(w) : w[i].quest = t[k]
TrackerRight(p) ==
    online[p] /\ zoneReal[p] = Zone!New => Follows(tracked[p], whole[p]) /\ tracker[p] = tracked[p]

PlayerRight(p) == KnownAs(p) /\ DialogRight(p) /\ EquipRight(p) /\ TrackerRight(p)
ZoneInv == ZoneTyped /\ StatesRight /\ \A p \in Players : PlayerRight(p)

\* a step is one player's
ElsewhereInZone(p) ==
    \A q \in Players \ {p} :
        /\ zoneReal'[q] = zoneReal[q] /\ client'[q] = client[q] /\ online'[q] = online[q]
        /\ tracked'[q] = tracked[q] /\ whole'[q] = whole[q] /\ tracker'[q] = tracker[q]
        /\ pending'[q] = pending[q] /\ script'[q] = script[q] /\ crossed'[q] = crossed[q] /\ down'[q] = down[q] /\ up'[q] = up[q] /\ dialog'[q] = dialog[q]
        /\ worn'[q] = worn[q] /\ drawn'[q] = drawn[q] /\ empties'[q] = empties[q]

LEMMA KnownKept == ASSUME NEW q, KnownAs(q), zoneReal'[q] = zoneReal[q], client'[q] = client[q], online'[q] = online[q] PROVE KnownAs(q)'
  BY DEF KnownAs

LEMMA DialogKept ==
    ASSUME NEW q, DialogRight(q), zoneReal'[q] = zoneReal[q], online'[q] = online[q],
           pending'[q] = pending[q], script'[q] = script[q], crossed'[q] = crossed[q], down'[q] = down[q], up'[q] = up[q], dialog'[q] = dialog[q]
    PROVE  DialogRight(q)'
<1>1. OldDialog(q) => OldDialog(q)'
  BY DEF OldDialog, PageLast, HasPage, HasClose
<1>2. NewDialog(q) => NewDialog(q)'
  BY DEF NewDialog, Closing, PageLast, HasPage, HasClose
<1> QED BY <1>1, <1>2 DEF DialogRight

LEMMA EquipKept ==
    ASSUME NEW q, EquipRight(q), zoneReal'[q] = zoneReal[q], online'[q] = online[q],
           worn'[q] = worn[q], drawn'[q] = drawn[q], empties'[q] = empties[q]
    PROVE  EquipRight(q)'
  BY DEF EquipRight

LEMMA TrackerKept ==
    ASSUME NEW q, TrackerRight(q), zoneReal'[q] = zoneReal[q], online'[q] = online[q],
           tracked'[q] = tracked[q], whole'[q] = whole[q], tracker'[q] = tracker[q]
    PROVE  TrackerRight(q)'
<1>1. Follows(tracked[q], whole[q]) => Follows(tracked[q], whole[q])'
  BY DEF Follows
<1> QED BY <1>1 DEF TrackerRight

LEMMA OnePlayer ==
    ASSUME ZoneInv, NEW p \in Players, ElsewhereInZone(p), ZoneTyped', StatesRight', PlayerRight(p)'
    PROVE  ZoneInv'
<1>1. ASSUME NEW q \in Players PROVE PlayerRight(q)'
  <2>1. CASE q = p
    BY <2>1
  <2>2. CASE q # p
    <3>1. /\ zoneReal'[q] = zoneReal[q] /\ client'[q] = client[q] /\ online'[q] = online[q]
          /\ tracked'[q] = tracked[q] /\ whole'[q] = whole[q] /\ tracker'[q] = tracker[q]
          /\ pending'[q] = pending[q] /\ script'[q] = script[q] /\ crossed'[q] = crossed[q] /\ down'[q] = down[q] /\ up'[q] = up[q] /\ dialog'[q] = dialog[q]
          /\ worn'[q] = worn[q] /\ drawn'[q] = drawn[q] /\ empties'[q] = empties[q]
      BY <2>2 DEF ElsewhereInZone
    <3>2. KnownAs(q) /\ DialogRight(q) /\ EquipRight(q) /\ TrackerRight(q)
      BY DEF ZoneInv, PlayerRight
    <3> QED BY <3>1, <3>2, KnownKept, DialogKept, EquipKept, TrackerKept DEF PlayerRight
  <2> QED BY <2>1, <2>2
<1> QED BY <1>1 DEF ZoneInv

LEMMA ZoneStarts == ASSUME Zone!Init PROVE ZoneInv
<1>1. ZoneTyped
  <2>1. WhoTyped
    BY DEF Zone!Init, WhoTyped, Clients2, Zone!Nobody
  <2>2. QuestsTyped
    BY DEF Zone!Init, QuestsTyped
  <2>3. DialogTyped
    <3>1. ends \in BOOLEAN /\ announces \in BOOLEAN /\ (announces => ends)
      BY Zenon DEF Zone!Init
    <3>2. pending \in [Players -> {"no", "fresh", "old"}] /\ dialog \in [Players -> {"closed", "shown", "waiting"}]
      BY DEF Zone!Init
    <3>3. script \in [Players -> BOOLEAN] /\ crossed \in [Players -> BOOLEAN]
      BY DEF Zone!Init
    <3>4. down \in [Players -> Seq(Downs)] /\ up \in [Players -> Seq(Ups)]
      BY DEF Zone!Init
    <3> QED BY <3>1, <3>2, <3>3, <3>4 DEF DialogTyped
  <2>4. EquipTyped
    BY DEF Zone!Init, EquipTyped
  <2> QED BY <2>1, <2>2, <2>3, <2>4 DEF ZoneTyped
<1>2. StatesRight
  BY DEF Zone!Init, StatesRight
<1>3. ASSUME NEW p \in Players PROVE PlayerRight(p)
  <2>1. ~online[p]
    BY DEF Zone!Init
  <2> QED BY <2>1 DEF PlayerRight, KnownAs, DialogRight, EquipRight, TrackerRight
<1> QED BY <1>1, <1>2, <1>3 DEF ZoneInv

LEMMA ZoneUnchanged == ASSUME ZoneInv, UNCHANGED zoneVars PROVE ZoneInv'
<1>1. ZoneTyped'
  BY DEF ZoneInv, zoneVars, ZoneTyped, WhoTyped, QuestsTyped, DialogTyped, EquipTyped
<1>2. StatesRight'
  BY DEF ZoneInv, zoneVars, StatesRight
<1>3. ASSUME NEW p \in Players PROVE PlayerRight(p)'
  <2>1. KnownAs(p) /\ DialogRight(p) /\ EquipRight(p) /\ TrackerRight(p)
    BY DEF ZoneInv, PlayerRight
  <2>2. /\ zoneReal'[p] = zoneReal[p] /\ client'[p] = client[p] /\ online'[p] = online[p]
        /\ tracked'[p] = tracked[p] /\ whole'[p] = whole[p] /\ tracker'[p] = tracker[p]
        /\ pending'[p] = pending[p] /\ script'[p] = script[p] /\ crossed'[p] = crossed[p] /\ down'[p] = down[p] /\ up'[p] = up[p]
        /\ dialog'[p] = dialog[p] /\ worn'[p] = worn[p] /\ drawn'[p] = drawn[p] /\ empties'[p] = empties[p]
    BY DEF zoneVars
  <2> QED BY <2>1, <2>2, KnownKept, DialogKept, EquipKept, TrackerKept DEF PlayerRight
<1> QED BY <1>1, <1>2, <1>3 DEF ZoneInv

\* a step of p's dialog, of his quests, of his equipment
DialogStep(p) ==
    /\ UNCHANGED <<part, zoneReal, client, online, ends, tracked, whole, tracker, worn, drawn, empties, extra, has, record>>
    /\ \A q \in Players \ {p} : /\ pending'[q] = pending[q] /\ script'[q] = script[q] /\ crossed'[q] = crossed[q]
                                /\ down'[q] = down[q] /\ up'[q] = up[q] /\ dialog'[q] = dialog[q]
QuestStep(p) ==
    /\ UNCHANGED <<part, zoneReal, client, online, ends, announces, pending, script, crossed, down, up, dialog,
                   worn, drawn, empties, extra, has, record>>
    /\ \A q \in Players \ {p} : tracked'[q] = tracked[q] /\ whole'[q] = whole[q] /\ tracker'[q] = tracker[q]
EquipStep(p) ==
    /\ UNCHANGED <<part, zoneReal, client, online, ends, announces, pending, script, crossed, down, up, dialog,
                   tracked, whole, tracker, extra, has, record>>
    /\ \A q \in Players \ {p} : worn'[q] = worn[q] /\ drawn'[q] = drawn[q] /\ empties'[q] = empties[q]

LEMMA DialogSteps ==
    ASSUME ZoneInv, NEW p \in Players, DialogStep(p), DialogTyped', DialogRight(p)'
    PROVE  ZoneInv'
<1>1. ElsewhereInZone(p)
  BY DEF DialogStep, ElsewhereInZone
<1>2. ZoneTyped'
  BY DEF ZoneInv, ZoneTyped, WhoTyped, QuestsTyped, EquipTyped, DialogStep
<1>3. StatesRight'
  BY DEF ZoneInv, StatesRight, DialogStep
<1>4. KnownAs(p)' /\ EquipRight(p)' /\ TrackerRight(p)'
  <2>1. KnownAs(p) /\ EquipRight(p) /\ TrackerRight(p)
    BY DEF ZoneInv, PlayerRight
  <2> QED BY <2>1, KnownKept, EquipKept, TrackerKept DEF DialogStep
<1> QED BY <1>1, <1>2, <1>3, <1>4, OnePlayer DEF PlayerRight

LEMMA QuestSteps ==
    ASSUME ZoneInv, NEW p \in Players, QuestStep(p), QuestsTyped', TrackerRight(p)'
    PROVE  ZoneInv'
<1>1. ElsewhereInZone(p)
  BY DEF QuestStep, ElsewhereInZone
<1>2. ZoneTyped'
  BY DEF ZoneInv, ZoneTyped, WhoTyped, DialogTyped, EquipTyped, QuestStep
<1>3. StatesRight'
  BY DEF ZoneInv, StatesRight, QuestStep
<1>4. KnownAs(p)' /\ EquipRight(p)' /\ DialogRight(p)'
  <2>1. KnownAs(p) /\ EquipRight(p) /\ DialogRight(p)
    BY DEF ZoneInv, PlayerRight
  <2> QED BY <2>1, KnownKept, EquipKept, DialogKept DEF QuestStep
<1> QED BY <1>1, <1>2, <1>3, <1>4, OnePlayer DEF PlayerRight

LEMMA EquipSteps ==
    ASSUME ZoneInv, NEW p \in Players, EquipStep(p), EquipTyped', EquipRight(p)'
    PROVE  ZoneInv'
<1>1. ElsewhereInZone(p)
  BY DEF EquipStep, ElsewhereInZone
<1>2. ZoneTyped'
  BY DEF ZoneInv, ZoneTyped, WhoTyped, DialogTyped, QuestsTyped, EquipStep
<1>3. StatesRight'
  BY DEF ZoneInv, StatesRight, EquipStep
<1>4. KnownAs(p)' /\ TrackerRight(p)' /\ DialogRight(p)'
  <2>1. KnownAs(p) /\ TrackerRight(p) /\ DialogRight(p)
    BY DEF ZoneInv, PlayerRight
  <2> QED BY <2>1, KnownKept, TrackerKept, DialogKept DEF EquipStep
<1> QED BY <1>1, <1>2, <1>3, <1>4, OnePlayer DEF PlayerRight

LEMMA ZoneStates ==
    ASSUME ZoneInv,
           (\E h \in Handles : (\E x \in Extra, on \in BOOLEAN : Zone!SetState(h, x, on)) \/ \E states \in SUBSET Extra : Zone!Reuse(h, states))
           \/ \E p \in Players, h \in Handles : Zone!LoginCharacter(p, h)
    PROVE  ZoneInv'
<1>1. UNCHANGED <<part, zoneReal, client, online, tracked, whole, tracker, ends, announces, pending, script, crossed, down, up, dialog,
                  worn, drawn, empties>>
  BY DEF Zone!SetState, Zone!Reuse, Zone!LoginCharacter, Zone!questVars, Zone!dialogVars, Zone!equipVars
<1>2. StatesRight'
  <2>1. CASE \E h \in Handles, x \in Extra, on \in BOOLEAN : Zone!SetState(h, x, on)
    BY <2>1 DEF ZoneInv, StatesRight, Zone!SetState
  <2>2. CASE \E h \in Handles, states \in SUBSET Extra : Zone!Reuse(h, states)
    BY <2>2 DEF ZoneInv, StatesRight, Zone!Reuse, Zone!AfterList
  <2>3. CASE \E p \in Players, h \in Handles : Zone!LoginCharacter(p, h)
    BY <2>3 DEF ZoneInv, StatesRight, Zone!LoginCharacter
  <2> QED BY <2>1, <2>2, <2>3
<1>3. ZoneTyped'
  BY <1>1 DEF ZoneInv, ZoneTyped, WhoTyped, QuestsTyped, DialogTyped, EquipTyped
<1>4. ASSUME NEW p \in Players PROVE PlayerRight(p)'
  <2>1. KnownAs(p) /\ DialogRight(p) /\ EquipRight(p) /\ TrackerRight(p)
    BY DEF ZoneInv, PlayerRight
  <2> QED BY <1>1, <2>1, KnownKept, DialogKept, EquipKept, TrackerKept DEF PlayerRight
<1> QED BY <1>2, <1>3, <1>4 DEF ZoneInv

LEMMA ConnectZone == ASSUME ZoneInv, NEW p \in Players, NEW c \in {Zone!Old, Zone!New}, Zone!Connect(p, c) PROVE ZoneInv'
<1>1. ElsewhereInZone(p)
  BY DEF ZoneInv, ZoneTyped, WhoTyped, ElsewhereInZone, Zone!Connect, Zone!questVars, Zone!dialogVars, Zone!equipVars
<1>2. ZoneTyped'
  <2>1. WhoTyped'
    BY DEF ZoneInv, ZoneTyped, WhoTyped, Zone!Connect, Clients2
  <2>2. QuestsTyped' /\ DialogTyped' /\ EquipTyped'
    BY DEF ZoneInv, ZoneTyped, QuestsTyped, DialogTyped, EquipTyped, Zone!Connect, Zone!questVars, Zone!dialogVars, Zone!equipVars
  <2> QED BY <2>1, <2>2 DEF ZoneTyped
<1>3. StatesRight'
  BY DEF ZoneInv, StatesRight, Zone!Connect, Zone!stateVars
<1>4. ~online'[p]
  <2>1. ~online[p]
    BY DEF ZoneInv, PlayerRight, KnownAs, Zone!Connect
  <2> QED BY <2>1 DEF Zone!Connect
<1>5. PlayerRight(p)'
  BY <1>4 DEF PlayerRight, KnownAs, DialogRight, EquipRight, TrackerRight
<1> QED BY <1>1, <1>2, <1>3, <1>5, OnePlayer

LEMMA LeaveZone == ASSUME ZoneInv, NEW p \in Players, Zone!Leave(p) PROVE ZoneInv'
<1>1. ElsewhereInZone(p)
  BY DEF ZoneInv, ZoneTyped, WhoTyped, ElsewhereInZone, Zone!Leave, Zone!questVars, Zone!dialogVars, Zone!equipVars
<1>2. ZoneTyped'
  <2>1. WhoTyped'
    BY DEF ZoneInv, ZoneTyped, WhoTyped, Zone!Leave, Clients2
  <2>2. QuestsTyped' /\ DialogTyped' /\ EquipTyped'
    BY DEF ZoneInv, ZoneTyped, QuestsTyped, DialogTyped, EquipTyped, Zone!Leave, Zone!questVars, Zone!dialogVars, Zone!equipVars
  <2> QED BY <2>1, <2>2 DEF ZoneTyped
<1>3. StatesRight'
  BY DEF ZoneInv, StatesRight, Zone!Leave, Zone!stateVars
<1>4. ~online'[p]
  BY DEF ZoneInv, ZoneTyped, WhoTyped, Zone!Leave
<1>5. PlayerRight(p)'
  BY <1>4 DEF PlayerRight, KnownAs, DialogRight, EquipRight, TrackerRight
<1> QED BY <1>1, <1>2, <1>3, <1>5, OnePlayer

\* a list of nothing is followed by a tracker of nothing
LEMMA NothingFollows == Follows(<< >>, << >>)
<1>1. Zone!FirstAt(<< >>) = {}
  BY DEF Zone!FirstAt
<1>2. Zone!Cardinality({}) = 0
  <2>1. Zone!Cardinality({}) = Cardinality({})
    BY Zenon DEF Cardinality, Zone!Cardinality
  <2> QED BY <2>1, FS_EmptySet
<1>3. kTracked \in Nat \ {0}
  BY BridgesOK DEF Zone!ZoneBridgeOK
<1> QED BY <1>1, <1>2, <1>3 DEF Follows

LEMMA MapLoginZone == ASSUME ZoneInv, NEW p \in Players, Zone!MapLogin(p) PROVE ZoneInv'
<1>1. ElsewhereInZone(p)
  BY DEF ZoneInv, ZoneTyped, WhoTyped, QuestsTyped, DialogTyped, EquipTyped, ElsewhereInZone, Zone!MapLogin, Zone!LoginTracked
<1>2. /\ zoneReal' = zoneReal /\ zoneReal[p] \in Clients2 /\ zoneReal[p] # Zone!Nobody /\ client'[p] = zoneReal[p]
      /\ tracked'[p] = << >> /\ whole'[p] = << >> /\ tracker'[p] = << >>
  BY DEF ZoneInv, ZoneTyped, WhoTyped, QuestsTyped, Zone!MapLogin, Zone!LoginTracked
<1>3. script'[p] = FALSE /\ dialog'[p] = "closed" /\ down'[p] = << >> /\ up'[p] = << >> /\ pending'[p] = "no"
  BY DEF ZoneInv, ZoneTyped, DialogTyped, Zone!MapLogin
<1>4. worn'[p] = [s \in Zone!Range16 |-> Zone!NoItem] /\ drawn'[p] = [t \in Zone!Folded |-> Zone!NoItem] /\ empties'[p] = {}
  BY DEF ZoneInv, ZoneTyped, EquipTyped, Zone!MapLogin
<1>5. ZoneTyped'
  <2>1. WhoTyped'
    BY DEF ZoneInv, ZoneTyped, WhoTyped, Zone!MapLogin
  <2>2. QuestsTyped'
    BY DEF ZoneInv, ZoneTyped, QuestsTyped, Zone!MapLogin, Zone!LoginTracked
  <2>3. DialogTyped'
    <3>1. ends' = ends /\ announces' = announces
      BY DEF Zone!MapLogin
    <3>2. ends' \in BOOLEAN /\ announces' \in BOOLEAN /\ (announces' => ends')
      BY <3>1, Zenon DEF ZoneInv, ZoneTyped, DialogTyped
    <3>3. pending' \in [Players -> {"no", "fresh", "old"}] /\ dialog' \in [Players -> {"closed", "shown", "waiting"}]
      BY DEF ZoneInv, ZoneTyped, DialogTyped, Zone!MapLogin
    <3>4. /\ script' \in [Players -> BOOLEAN] /\ crossed' \in [Players -> BOOLEAN]
          /\ down' \in [Players -> Seq(Downs)] /\ up' \in [Players -> Seq(Ups)]
      BY DEF ZoneInv, ZoneTyped, DialogTyped, Zone!MapLogin
    <3> QED BY <3>2, <3>3, <3>4 DEF DialogTyped
  <2>4. EquipTyped'
    <3> DEFINE w0 == [s \in Zone!Range16 |-> Zone!NoItem]
               d0 == [t \in Zone!Folded |-> Zone!NoItem]
    <3>1. w0 \in [Zone!Range16 -> DOMAIN Items \cup {Zone!NoItem}] /\ d0 \in [Zone!Folded -> DOMAIN Items \cup {Zone!NoItem}]
      OBVIOUS
    <3>2. worn' = [worn EXCEPT ![p] = w0] /\ drawn' = [drawn EXCEPT ![p] = d0] /\ empties' = [empties EXCEPT ![p] = {}]
      BY DEF Zone!MapLogin
    <3> HIDE DEF w0, d0
    <3> QED BY <3>1, <3>2 DEF ZoneInv, ZoneTyped, EquipTyped
  <2> QED BY <2>1, <2>2, <2>3, <2>4 DEF ZoneTyped
<1>6. StatesRight'
  BY DEF ZoneInv, StatesRight, Zone!MapLogin, Zone!stateVars
<1>7. PlayerRight(p)'
  <2>1. KnownAs(p)'
    BY <1>2 DEF KnownAs
  <2>2. DialogRight(p)'
    BY <1>2, <1>3 DEF DialogRight, OldDialog, NewDialog, Silent, FirstIs, PageLast, HasPage, HasClose
  <2>3. EquipRight(p)'
    <3>1. Zone!NoItem \notin DOMAIN Items /\ \A i \in DOMAIN Items : Items[i].s16 \in Zone!Range16
      BY BridgesOK DEF Zone!ZoneBridgeOK, Zone!Range16
    <3> QED BY <1>4, <3>1 DEF EquipRight
  <2>4. TrackerRight(p)'
    <3>1. Follows(tracked[p], whole[p])'
      BY <1>2, NothingFollows DEF Follows
    <3> QED BY <1>2, <3>1 DEF TrackerRight
  <2> QED BY <2>1, <2>2, <2>3, <2>4 DEF PlayerRight
<1> QED BY <1>1, <1>5, <1>6, <1>7, OnePlayer

\* what is added to or heard from the packets under way
NoPage(q) == \A k \in DOMAIN q : q[k] # "page"
PageOn(q, r) == /\ r \in Seq(Downs) /\ PageLast(r) /\ HasPage(r) /\ (HasClose(r) <=> HasClose(q))
LEMMA PageAdded ==
    ASSUME NEW q \in Seq(Downs), PageLast(q), ~HasPage(q)
    PROVE  PageOn(q, Append(q, "page"))
<1> DEFINE r == Append(q, "page")
<1>1. r \in Seq(Downs) /\ Len(r) = Len(q) + 1 /\ r[Len(q) + 1] = "page" /\ \A k \in 1 .. Len(q) : r[k] = q[k]
  BY DEF Downs
<1>2. DOMAIN q = 1 .. Len(q) /\ DOMAIN r = 1 .. Len(q) + 1 /\ Len(q) \in Nat
  BY <1>1
<1>3. NoPage(q)
  BY <1>2 DEF NoPage, PageLast, HasPage
<1> HIDE DEF r
<1>4. PageLast(r)
  BY <1>1, <1>2, <1>3 DEF PageLast, NoPage
<1>5. HasPage(r)
  <2>1. r # << >> /\ r[Len(r)] = "page"
    BY <1>1, <1>2
  <2> QED BY <2>1 DEF HasPage
<1>6. HasClose(r) <=> HasClose(q)
  <2>1. ASSUME HasClose(r) PROVE HasClose(q)
    <3>1. PICK k \in DOMAIN r : r[k] = "close"
      BY <2>1 DEF HasClose
    <3>2. k \in DOMAIN q /\ q[k] = "close"
      BY <1>1, <1>2, <3>1
    <3> QED BY <3>2 DEF HasClose
  <2>2. ASSUME HasClose(q) PROVE HasClose(r)
    <3>1. PICK k \in DOMAIN q : q[k] = "close"
      BY <2>2 DEF HasClose
    <3>2. k \in DOMAIN r /\ r[k] = "close"
      BY <1>1, <1>2, <3>1
    <3> QED BY <3>2 DEF HasClose
  <2> QED BY <2>1, <2>2
<1> QED BY <1>1, <1>4, <1>5, <1>6 DEF PageOn, r

Heard(q, r) ==
    /\ r \in Seq(Downs) /\ PageLast(r)
    /\ Head(q) = "page" => q = <<"page">> /\ r = << >> /\ HasPage(q) /\ ~HasClose(q)
    /\ Head(q) # "page" => (HasPage(r) <=> HasPage(q))
    /\ HasClose(r) => HasClose(q)
    /\ HasClose(q) => Head(q) = "close" \/ HasClose(r)
    /\ Head(q) = "close" => HasClose(q)
LEMMA OneHeard ==
    ASSUME NEW q \in Seq(Downs), PageLast(q), q # << >>
    PROVE  Heard(q, Tail(q))
<1> DEFINE r == Tail(q)
<1>1. r \in Seq(Downs) /\ Len(r) = Len(q) - 1 /\ Head(q) = q[1] /\ Len(q) \in Nat \ {0} /\ \A k \in 1 .. Len(r) : r[k] = q[k + 1]
  OBVIOUS
<1>2. DOMAIN q = 1 .. Len(q) /\ DOMAIN r = 1 .. Len(r) /\ Len(r) \in Nat
  BY <1>1
<1> HIDE DEF r
<1>3. PageLast(r)
  <2> SUFFICES ASSUME NEW k \in DOMAIN r, r[k] = "page" PROVE k = Len(r)
    BY DEF PageLast
  <2>1. k + 1 \in DOMAIN q /\ q[k + 1] = "page"
    BY <1>1, <1>2
  <2>2. k + 1 = Len(q)
    BY <2>1, Zenon DEF PageLast
  <2> QED BY <1>1, <1>2, <2>2
<1>4. ASSUME q[1] = "page" PROVE q = <<"page">> /\ r = << >> /\ HasPage(q) /\ ~HasClose(q)
  <2>1. 1 \in DOMAIN q
    BY <1>1, <1>2
  <2>2. Len(q) = 1
    BY <1>4, <2>1, Zenon DEF PageLast
  <2>3. q = <<"page">> /\ r = << >>
    BY <1>1, <1>4, <2>2
  <2>4. DOMAIN q = {1}
    BY <1>2, <2>2
  <2>5. HasPage(q)
    BY <1>4, <2>2, <2>3 DEF HasPage
  <2>6. ~HasClose(q)
    BY <1>4, <2>4 DEF HasClose
  <2> QED BY <2>3, <2>5, <2>6
<1>5. ASSUME q[1] # "page" PROVE HasPage(r) <=> HasPage(q)
  <2>1. CASE Len(q) = 1
    <3>1. r = << >> /\ q[Len(q)] # "page"
      BY <1>1, <1>5, <2>1
    <3> QED BY <3>1 DEF HasPage
  <2>2. CASE Len(q) # 1
    <3>1. Len(r) \in 1 .. Len(r) /\ Len(r) + 1 = Len(q)
      BY <1>1, <2>2
    <3>2. r # << >> /\ r[Len(r)] = q[Len(q)]
      BY <1>1, <3>1
    <3> QED BY <3>2 DEF HasPage
  <2> QED BY <2>1, <2>2
<1>6. ASSUME HasClose(r) PROVE HasClose(q)
  <2>1. PICK k \in DOMAIN r : r[k] = "close"
    BY <1>6 DEF HasClose
  <2>2. k + 1 \in DOMAIN q /\ q[k + 1] = "close"
    BY <1>1, <1>2, <2>1
  <2> QED BY <2>2 DEF HasClose
<1>7. ASSUME HasClose(q), q[1] # "close" PROVE HasClose(r)
  <2>1. PICK k \in DOMAIN q : q[k] = "close"
    BY <1>7 DEF HasClose
  <2>2. k # 1
    BY <1>7, <2>1
  <2>3. k - 1 \in 1 .. Len(r) /\ (k - 1) + 1 = k
    BY <1>1, <1>2, <2>1, <2>2
  <2>4. r[k - 1] = "close" /\ k - 1 \in DOMAIN r
    BY <1>1, <1>2, <2>1, <2>3
  <2> QED BY <2>4 DEF HasClose
<1>8. ASSUME q[1] = "close" PROVE HasClose(q)
  BY <1>1, <1>2, <1>8 DEF HasClose
<1> QED BY <1>1, <1>3, <1>4, <1>5, <1>6, <1>7, <1>8 DEF Heard, r

\* a player whose dialog takes a step is one of the two, and taken for it
LEMMA WhichClient ==
    ASSUME ZoneInv, NEW p \in Players, online[p]
    PROVE  /\ client[p] = zoneReal[p] /\ zoneReal[p] \in {Zone!Old, Zone!New} /\ Zone!Old # Zone!New
           /\ (Zone!to2026(p) <=> zoneReal[p] = Zone!New)
           /\ ~crossed[p] => (zoneReal[p] = Zone!Old => OldDialog(p)) /\ (zoneReal[p] = Zone!New => NewDialog(p))
<1>1. KnownAs(p) /\ DialogRight(p)
  BY DEF ZoneInv, PlayerRight
<1>2. zoneReal[p] \in Clients2
  BY DEF ZoneInv, ZoneTyped, WhoTyped
<1> QED BY <1>1, <1>2 DEF KnownAs, DialogRight, Clients2, Zone!to2026, Zone!Old, Zone!New

\* what is claimed of a dialog after a step that crosses nothing, by client
LEMMA ByClient ==
    ASSUME ZoneInv, NEW p \in Players, online[p], UNCHANGED zoneReal,
           ~crossed'[p] => (zoneReal[p] = Zone!Old => OldDialog(p)') /\ (zoneReal[p] = Zone!New => NewDialog(p)')
    PROVE  DialogRight(p)'
  BY DEF DialogRight

LEMMA OpenZone == ASSUME ZoneInv, NEW p \in Players, Zone!Open(p) PROVE ZoneInv'
<1>0. DialogTyped
  BY DEF ZoneInv, ZoneTyped
<1>1. DialogStep(p)
  BY <1>0 DEF DialogTyped, DialogStep, Zone!Open, Zone!questVars, Zone!equipVars, Zone!stateVars
<1>2. /\ online[p] /\ ~script[p] /\ script'[p] = TRUE /\ down'[p] = Append(down[p], "page") /\ crossed'[p] = crossed[p]
      /\ pending'[p] = pending[p] /\ up'[p] = up[p] /\ dialog'[p] = dialog[p] /\ zoneReal' = zoneReal
  BY <1>0 DEF DialogTyped, Zone!Open
<1>3. down[p] \in Seq(Downs)
  BY <1>0 DEF DialogTyped
<1>6. DialogTyped'
  <2>1. Append(down[p], "page") \in Seq(Downs)
    BY <1>3 DEF Downs
  <2>2. ends' = ends /\ announces' = announces
    BY DEF Zone!Open
  <2>3. ends' \in BOOLEAN /\ announces' \in BOOLEAN /\ (announces' => ends')
    BY <1>0, <2>2, Zenon DEF DialogTyped
  <2>4. script' \in [Players -> BOOLEAN] /\ crossed' \in [Players -> BOOLEAN] /\ down' \in [Players -> Seq(Downs)]
    BY <1>0, <2>1 DEF DialogTyped, Zone!Open
  <2>5. /\ pending' \in [Players -> {"no", "fresh", "old"}] /\ dialog' \in [Players -> {"closed", "shown", "waiting"}]
        /\ up' \in [Players -> Seq(Ups)]
    BY <1>0 DEF DialogTyped, Zone!Open
  <2> QED BY <2>3, <2>4, <2>5 DEF DialogTyped
<1>4. ASSUME ~crossed[p] PROVE ~HasPage(down[p]) /\ PageLast(down[p])
  BY <1>2, <1>4, WhichClient DEF OldDialog, NewDialog
<1>5. ASSUME ~crossed[p] PROVE PageOn(down[p], down'[p])
  BY <1>2, <1>3, <1>4, <1>5, PageAdded
<1>7. ASSUME ~crossed[p], zoneReal[p] = Zone!Old PROVE OldDialog(p)'
  <2>1. OldDialog(p)
    BY <1>2, <1>7, WhichClient
  <2>2. dialog[p] = "closed" /\ up[p] = << >>
    BY <1>2, <2>1 DEF OldDialog
  <2> QED BY <1>2, <1>5, <1>7, <2>1, <2>2 DEF OldDialog, PageOn
<1>8. ASSUME ~crossed[p], zoneReal[p] = Zone!New PROVE NewDialog(p)'
  <2>1. NewDialog(p)
    BY <1>2, <1>8, WhichClient
  <2>2. \/ dialog[p] = "waiting" /\ up[p] = << >> /\ HasClose(down[p]) /\ pending[p] # "no"
        \/ dialog[p] = "closed" /\ up[p] \in Silent
    <3>1. down[p] # <<"page">>
      BY <1>4, <1>8 DEF HasPage
    <3> QED BY <1>2, <2>1, <3>1 DEF NewDialog, Closing
  <2>3. PageLast(down'[p]) /\ HasPage(down'[p]) /\ (HasClose(down'[p]) <=> HasClose(down[p]))
    BY <1>5, <1>8 DEF PageOn
  <2> QED BY <1>2, <2>1, <2>2, <2>3 DEF NewDialog, Closing
<1>9. DialogRight(p)'
  BY <1>2, <1>7, <1>8, ByClient
<1> QED BY <1>1, <1>6, <1>9, DialogSteps

HasMore(a, q, y) == Len(a) = Len(q) + 1 /\ a[Len(q) + 1] = y /\ \A i \in 1 .. Len(q) : a[i] = q[i]
LEMMA AppendIs == ASSUME NEW S, NEW q \in Seq(S), NEW y \in S PROVE Append(q, y) \in Seq(S) /\ HasMore(Append(q, y), q, y)
  BY DEF HasMore

LEMMA Appended == ASSUME NEW x, NEW y PROVE Append(<<x>>, y) = <<x, y>>
<1> DEFINE q == <<x>>
           a == Append(q, y)
           b == <<x, y>>
<1>1. q \in Seq({x, y}) /\ Len(q) = 1 /\ q[1] = x
  OBVIOUS
<1>2. b \in Seq({x, y}) /\ Len(b) = 2 /\ b[1] = x /\ b[2] = y
  OBVIOUS
<1> HIDE DEF q
<1>3. a \in Seq({x, y}) /\ HasMore(a, q, y)
  <2>1. y \in {x, y}
    OBVIOUS
  <2> QED BY <1>1, <2>1, AppendIs, Zenon
<1> HIDE DEF a, b
<1>4. Len(a) = 2 /\ a[1] = x /\ a[2] = y
  BY <1>1, <1>3 DEF HasMore
<1>5. \A i \in 1 .. Len(a) : a[i] = b[i]
  BY <1>2, <1>4
<1>6. a = b
  BY <1>2, <1>3, <1>4, <1>5
<1> QED BY <1>6 DEF a, b, q

LEMMA AppendedTwo == ASSUME NEW x, NEW y, NEW z PROVE Append(<<x, y>>, z) = <<x, y, z>>
<1> DEFINE q == <<x, y>>
           a == Append(q, z)
           b == <<x, y, z>>
<1>1. q \in Seq({x, y, z}) /\ Len(q) = 2 /\ q[1] = x /\ q[2] = y
  OBVIOUS
<1>2. b \in Seq({x, y, z}) /\ Len(b) = 3 /\ b[1] = x /\ b[2] = y /\ b[3] = z
  OBVIOUS
<1> HIDE DEF q
<1>3. a \in Seq({x, y, z}) /\ HasMore(a, q, z)
  <2>1. z \in {x, y, z}
    OBVIOUS
  <2> QED BY <1>1, <2>1, AppendIs, Zenon
<1> HIDE DEF a, b
<1>4. Len(a) = 3 /\ a[1] = x /\ a[2] = y /\ a[3] = z
  BY <1>1, <1>3 DEF HasMore
<1>5. \A i \in 1 .. Len(a) : a[i] = b[i]
  BY <1>2, <1>4
<1>6. a = b
  BY <1>2, <1>3, <1>4, <1>5
<1> QED BY <1>6 DEF a, b, q

LEMMA Spelt ==
    /\ \A u \in Silent : u = << >> \/ (u[1] \in Late /\ Head(u) = u[1] /\ Tail(u) = << >>)
    /\ \A u \in Acked : Head(u) = u[1] /\ (u = <<"ack">> \/ (u[1] \in Late /\ Tail(u) = <<"ack">>))
    /\ \A u \in Dismissed : Head(u) = u[1] /\ (u = <<"own">> \/ (u[1] \in Late /\ Tail(u) = <<"own">>))
    /\ \A u \in Escaped : Head(u) = u[1] /\ (u = <<"ack", "esc">> \/ (u[1] \in Late /\ Tail(u) = <<"ack", "esc">>))
    /\ Tail(<<"ack">>) = << >> /\ Tail(<<"own">>) = << >> /\ Tail(<<"ack", "esc">>) = <<"esc">>
<1>1. ASSUME NEW x PROVE Head(<<x>>) = <<x>>[1] /\ <<x>>[1] = x /\ Tail(<<x>>) = << >>
  OBVIOUS
<1>2. ASSUME NEW x, NEW y PROVE Head(<<x, y>>) = <<x, y>>[1] /\ <<x, y>>[1] = x /\ Tail(<<x, y>>) = <<y>>
  <2>1. Head(<<x, y>>) = <<x, y>>[1] /\ <<x, y>>[1] = x
    OBVIOUS
  <2> DEFINE a == Tail(<<x, y>>)
             b == <<y>>
  <2>2. b \in Seq({x, y}) /\ Len(b) = 1 /\ b[1] = y
    OBVIOUS
  <2>3. a \in Seq({x, y}) /\ Len(a) = 1 /\ a[1] = y
    OBVIOUS
  <2> HIDE DEF a, b
  <2>4. \A i \in 1 .. Len(a) : a[i] = b[i]
    BY <2>2, <2>3
  <2>5. a = b
    BY <2>2, <2>3, <2>4
  <2> QED BY <2>1, <2>5 DEF a, b
<1>3. ASSUME NEW x, NEW y, NEW z PROVE Head(<<x, y, z>>) = <<x, y, z>>[1] /\ <<x, y, z>>[1] = x /\ Tail(<<x, y, z>>) = <<y, z>>
  <2>1. Head(<<x, y, z>>) = <<x, y, z>>[1] /\ <<x, y, z>>[1] = x
    OBVIOUS
  <2> DEFINE a == Tail(<<x, y, z>>)
             b == <<y, z>>
  <2>2. b \in Seq({x, y, z}) /\ Len(b) = 2 /\ b[1] = y /\ b[2] = z
    OBVIOUS
  <2>3. a \in Seq({x, y, z}) /\ Len(a) = 2 /\ a[1] = y /\ a[2] = z
    OBVIOUS
  <2> HIDE DEF a, b
  <2>4. \A i \in 1 .. Len(a) : a[i] = b[i]
    BY <2>2, <2>3
  <2>5. a = b
    BY <2>2, <2>3, <2>4
  <2> QED BY <2>1, <2>5 DEF a, b
<1>4. "echo" \in Late /\ "esc" \in Late
  BY DEF Late
<1>5. \A u \in Silent : u = << >> \/ (u[1] \in Late /\ Head(u) = u[1] /\ Tail(u) = << >>)
  BY <1>1, <1>4, Zenon DEF Silent
<1>6. ASSUME NEW u \in Acked PROVE Head(u) = u[1] /\ (u = <<"ack">> \/ (u[1] \in Late /\ Tail(u) = <<"ack">>))
  <2>1. CASE u = <<"ack">>
    BY <1>1, <2>1, Zenon
  <2>2. CASE u = <<"echo", "ack">>
    BY <1>2, <1>4, <2>2, Zenon
  <2>3. CASE u = <<"esc", "ack">>
    BY <1>2, <1>4, <2>3, Zenon
  <2> QED BY <2>1, <2>2, <2>3, Zenon DEF Acked
<1>7. ASSUME NEW u \in Dismissed PROVE Head(u) = u[1] /\ (u = <<"own">> \/ (u[1] \in Late /\ Tail(u) = <<"own">>))
  <2>1. CASE u = <<"own">>
    BY <1>1, <2>1, Zenon
  <2>2. CASE u = <<"echo", "own">>
    BY <1>2, <1>4, <2>2, Zenon
  <2>3. CASE u = <<"esc", "own">>
    BY <1>2, <1>4, <2>3, Zenon
  <2> QED BY <2>1, <2>2, <2>3, Zenon DEF Dismissed
<1>8. ASSUME NEW u \in Escaped PROVE Head(u) = u[1] /\ (u = <<"ack", "esc">> \/ (u[1] \in Late /\ Tail(u) = <<"ack", "esc">>))
  <2>1. CASE u = <<"ack", "esc">>
    BY <1>2, <2>1, Zenon
  <2>2. CASE u = <<"echo", "ack", "esc">>
    <3>1. u[1] = "echo"
      BY <2>2
    <3>2. Head(u) = u[1] /\ Tail(u) = <<"ack", "esc">>
      BY <1>3, <2>2
    <3> QED BY <1>4, <3>1, <3>2, Zenon
  <2>3. CASE u = <<"esc", "ack", "esc">>
    <3>1. u[1] = "esc"
      BY <2>3
    <3>2. Head(u) = u[1] /\ Tail(u) = <<"ack", "esc">>
      BY <1>3, <2>3
    <3> QED BY <1>4, <3>1, <3>2, Zenon
  <2> QED BY <2>1, <2>2, <2>3, Zenon DEF Escaped
<1>9. Tail(<<"ack">>) = << >> /\ Tail(<<"own">>) = << >> /\ Tail(<<"ack", "esc">>) = <<"esc">>
  BY <1>1, <1>2, Zenon
<1> QED BY <1>5, <1>6, <1>7, <1>8, <1>9, Zenon

LEMMA Said ==
    /\ \A u \in Silent : Append(u, "ack") \in Acked /\ Append(u, "own") \in Dismissed
    /\ \A u \in Acked : Append(u, "esc") \in Escaped
    /\ Append(<< >>, "esc") = <<"esc">> /\ Append(<< >>, "echo") = <<"echo">>
<1>1. /\ Append(<< >>, "esc") = <<"esc">> /\ Append(<< >>, "echo") = <<"echo">>
      /\ Append(<< >>, "ack") = <<"ack">> /\ Append(<< >>, "own") = <<"own">>
  OBVIOUS
<1>2. ASSUME NEW u \in Silent PROVE Append(u, "ack") \in Acked /\ Append(u, "own") \in Dismissed
  <2>1. /\ Append(<<"echo">>, "ack") = <<"echo", "ack">> /\ Append(<<"esc">>, "ack") = <<"esc", "ack">>
        /\ Append(<<"echo">>, "own") = <<"echo", "own">> /\ Append(<<"esc">>, "own") = <<"esc", "own">>
    BY Appended, Zenon
  <2>2. u = << >> \/ u = <<"echo">> \/ u = <<"esc">>
    BY Zenon DEF Silent
  <2>3. /\ <<"ack">> \in Acked /\ <<"echo", "ack">> \in Acked /\ <<"esc", "ack">> \in Acked
        /\ <<"own">> \in Dismissed /\ <<"echo", "own">> \in Dismissed /\ <<"esc", "own">> \in Dismissed
    BY Zenon DEF Acked, Dismissed
  <2> QED BY <1>1, <2>1, <2>2, <2>3, Zenon
<1>3. ASSUME NEW u \in Acked PROVE Append(u, "esc") \in Escaped
  <2>1. /\ Append(<<"ack">>, "esc") = <<"ack", "esc">> /\ Append(<<"echo", "ack">>, "esc") = <<"echo", "ack", "esc">>
        /\ Append(<<"esc", "ack">>, "esc") = <<"esc", "ack", "esc">>
    BY Appended, AppendedTwo, Zenon
  <2>2. u = <<"ack">> \/ u = <<"echo", "ack">> \/ u = <<"esc", "ack">>
    BY Zenon DEF Acked
  <2>3. <<"ack", "esc">> \in Escaped /\ <<"echo", "ack", "esc">> \in Escaped /\ <<"esc", "ack", "esc">> \in Escaped
    BY Zenon DEF Escaped
  <2> QED BY <2>1, <2>2, <2>3, Zenon
<1> QED BY <1>1, <1>2, <1>3, Zenon

LEMMA Spoken ==
    /\ Append(<< >>, "ack") = <<"ack">> /\ Append(<< >>, "own") = <<"own">>
    /\ ~FirstIs(<<"ack">>, {"echo"}) /\ ~FirstIs(<<"own">>, {"echo"}) /\ ~FirstIs(<<"esc">>, {"echo"})
    /\ FirstIs(<<"esc">>, Late) /\ FirstIs(<<"echo">>, Late) /\ ~FirstIs(<<"ack">>, Late) /\ ~FirstIs(<<"own">>, Late)
    /\ \A S : ~FirstIs(<< >>, S)
  BY DEF FirstIs, Late

\* what is said last leaves what was said first
LEMMA FirstStays == ASSUME NEW u \in Seq(Ups), NEW y \in Ups, NEW S, u # << >> PROVE FirstIs(Append(u, y), S) <=> FirstIs(u, S)
<1>1. Append(u, y) # << >> /\ Append(u, y)[1] = u[1]
  OBVIOUS
<1> QED BY <1>1 DEF FirstIs

LEMMA ClickZone == ASSUME ZoneInv, NEW p \in Players, Zone!Click(p) PROVE ZoneInv'
<1>0. DialogTyped
  BY DEF ZoneInv, ZoneTyped
<1>1. DialogStep(p)
  BY <1>0 DEF DialogTyped, DialogStep, Zone!Click, Zone!questVars, Zone!equipVars, Zone!stateVars
<1>2. /\ online[p] /\ dialog[p] = "shown" /\ up'[p] = Append(up[p], "ack") /\ dialog'[p] = IF zoneReal[p] = Zone!New THEN "waiting" ELSE "closed"
      /\ pending'[p] = pending[p] /\ script'[p] = script[p] /\ crossed'[p] = crossed[p] /\ down'[p] = down[p] /\ zoneReal' = zoneReal
  BY <1>0 DEF DialogTyped, Zone!Click
<1>5. up[p] \in Seq(Ups)
  BY <1>0 DEF DialogTyped
<1>3. DialogTyped'
  <2>1. Append(up[p], "ack") \in Seq(Ups)
    BY <1>5 DEF Ups
  <2>2. ends' = ends /\ announces' = announces
    BY DEF Zone!Click
  <2>3. ends' \in BOOLEAN /\ announces' \in BOOLEAN /\ (announces' => ends')
    BY <1>0, <2>2, Zenon DEF DialogTyped
  <2>4. up' \in [Players -> Seq(Ups)] /\ dialog' \in [Players -> {"closed", "shown", "waiting"}]
    BY <1>0, <2>1 DEF DialogTyped, Zone!Click
  <2>5. /\ pending' \in [Players -> {"no", "fresh", "old"}] /\ script' \in [Players -> BOOLEAN] /\ crossed' \in [Players -> BOOLEAN]
        /\ down' \in [Players -> Seq(Downs)]
    BY <1>0 DEF DialogTyped, Zone!Click
  <2> QED BY <2>3, <2>4, <2>5 DEF DialogTyped
<1>6. ASSUME ~crossed[p], zoneReal[p] = Zone!Old PROVE OldDialog(p)'
  <2>1. OldDialog(p) /\ Zone!Old # Zone!New
    BY <1>2, <1>6, WhichClient
  <2>2. script[p] /\ down[p] = << >> /\ up[p] = << >>
    BY <1>2, <2>1 DEF OldDialog
  <2>3. up'[p] = <<"ack">> /\ dialog'[p] = "closed"
    BY <1>2, <1>6, <2>1, <2>2
  <2> QED BY <1>2, <2>1, <2>2, <2>3 DEF OldDialog
<1>7. ASSUME ~crossed[p], zoneReal[p] = Zone!New PROVE NewDialog(p)'
  <2>1. NewDialog(p)
    BY <1>2, <1>7, WhichClient
  <2>2. script[p] /\ down[p] = << >> /\ up[p] \in Silent
    BY <1>2, <2>1 DEF NewDialog
  <2>3. up'[p] \in Acked /\ dialog'[p] = "waiting"
    BY <1>2, <1>7, <2>2, Said
  <2>4. up[p] # << >> => \A S : FirstIs(up'[p], S) <=> FirstIs(up[p], S)
    BY <1>2, <1>5, FirstStays DEF Ups
  <2>5. up[p] = << >> => up'[p] = <<"ack">> /\ ~FirstIs(<<"ack">>, {"echo"}) /\ pending[p] # "fresh"
    BY <1>2, <2>1, Spoken DEF NewDialog, FirstIs
  <2> QED BY <1>2, <2>1, <2>2, <2>3, <2>4, <2>5 DEF NewDialog
<1>4. DialogRight(p)'
  BY <1>2, <1>6, <1>7, ByClient
<1> QED BY <1>1, <1>3, <1>4, DialogSteps

\* the player closes a page, or does not wait for what comes after it
LEMMA DismissZone == ASSUME ZoneInv, NEW p \in Players, Zone!Dismiss(p) PROVE ZoneInv'
<1>0. DialogTyped
  BY DEF ZoneInv, ZoneTyped
<1>1. DialogStep(p)
  BY <1>0 DEF DialogTyped, DialogStep, Zone!Dismiss, Zone!questVars, Zone!equipVars, Zone!stateVars
<1> DEFINE word == IF dialog[p] = "shown" THEN "own" ELSE "esc"
<1>2. /\ online[p] /\ dialog[p] # "closed" /\ up'[p] = Append(up[p], word) /\ dialog'[p] = "closed"
      /\ pending'[p] = pending[p] /\ script'[p] = script[p] /\ crossed'[p] = crossed[p] /\ down'[p] = down[p] /\ zoneReal' = zoneReal
  BY <1>0 DEF DialogTyped, Zone!Dismiss
<1>5. up[p] \in Seq(Ups) /\ word \in Ups
  BY <1>0 DEF DialogTyped, Ups
<1>3. DialogTyped'
  <2>1. Append(up[p], word) \in Seq(Ups)
    BY <1>5
  <2>2. ends' = ends /\ announces' = announces
    BY DEF Zone!Dismiss
  <2>3. ends' \in BOOLEAN /\ announces' \in BOOLEAN /\ (announces' => ends')
    BY <1>0, <2>2, Zenon DEF DialogTyped
  <2>4. up' \in [Players -> Seq(Ups)] /\ dialog' \in [Players -> {"closed", "shown", "waiting"}]
    BY <1>0, <2>1 DEF DialogTyped, Zone!Dismiss
  <2>5. /\ pending' \in [Players -> {"no", "fresh", "old"}] /\ script' \in [Players -> BOOLEAN] /\ crossed' \in [Players -> BOOLEAN]
        /\ down' \in [Players -> Seq(Downs)]
    BY <1>0 DEF DialogTyped, Zone!Dismiss
  <2> QED BY <2>3, <2>4, <2>5 DEF DialogTyped
<1>6. ASSUME ~crossed[p], zoneReal[p] = Zone!Old PROVE OldDialog(p)'
  <2>1. OldDialog(p)
    BY <1>2, <1>6, WhichClient
  <2>2. dialog[p] = "shown" /\ script[p] /\ down[p] = << >> /\ up[p] = << >>
    BY <1>2, <2>1 DEF OldDialog
  <2>3. up'[p] = <<"own">>
    BY <1>2, <2>2
  <2> QED BY <1>2, <2>1, <2>2, <2>3 DEF OldDialog
<1>7. ASSUME ~crossed[p], zoneReal[p] = Zone!New PROVE NewDialog(p)'
  <2>1. NewDialog(p) /\ PageLast(down[p])
    BY <1>2, <1>7, WhichClient DEF NewDialog
  <2>4. up[p] # << >> => \A S : FirstIs(up'[p], S) <=> FirstIs(up[p], S)
    BY <1>2, <1>5, FirstStays
  <2>2. CASE dialog[p] = "shown"
    <3>1. script[p] /\ down[p] = << >> /\ up[p] \in Silent /\ up'[p] = Append(up[p], "own")
      BY <1>2, <2>1, <2>2 DEF NewDialog
    <3>2. up'[p] \in Dismissed
      BY <3>1, Said
    <3>3. up[p] = << >> => up'[p] = <<"own">> /\ ~FirstIs(<<"own">>, {"echo"}) /\ pending[p] # "fresh"
      BY <2>1, <2>2, <3>1, Spoken DEF NewDialog, FirstIs
    <3> QED BY <1>2, <2>1, <2>2, <2>4, <3>1, <3>2, <3>3 DEF NewDialog
  <2>3. CASE dialog[p] = "waiting" /\ up[p] # << >>
    <3>1. script[p] /\ down[p] = << >> /\ up[p] \in Acked /\ up'[p] = Append(up[p], "esc")
      BY <1>2, <2>1, <2>3 DEF NewDialog
    <3>2. up'[p] \in Escaped
      BY <3>1, Said
    <3> QED BY <1>2, <2>1, <2>3, <2>4, <3>1, <3>2 DEF NewDialog
  <2>5. CASE dialog[p] = "waiting" /\ up[p] = << >>
    <3>1. up'[p] = <<"esc">> /\ <<"esc">> \in Silent /\ FirstIs(<<"esc">>, Late) /\ ~FirstIs(<<"esc">>, {"echo"})
      BY <1>2, <2>5, Said, Spoken DEF Silent
    <3>2. script[p] <=> HasPage(down[p])
      <4>1. << >> \notin Acked
        BY DEF Acked
      <4> QED BY <2>1, <2>5, <4>1 DEF NewDialog
    <3> QED BY <1>2, <2>1, <3>1, <3>2 DEF NewDialog
  <2> QED BY <1>0, <1>2, <2>2, <2>3, <2>5 DEF DialogTyped
<1>4. DialogRight(p)'
  BY <1>2, <1>6, <1>7, ByClient
<1> QED BY <1>1, <1>3, <1>4, DialogSteps

LEMMA EndOfTradeZone ==
    ASSUME ZoneInv, NEW p \in Players, Zone!EndOfTrade(p)
    PROVE  /\ ZoneInv'
           /\ ~crossed[p] => /\ Head(up[p]) = "echo" /\ pending[p] # "old" => script'[p] = script[p]
                             /\ Head(up[p]) = "own" => ~script'[p]
<1>0. DialogTyped
  BY DEF ZoneInv, ZoneTyped
<1> DEFINE left == script[p] /\ ~Zone!Swallows(p) /\ ~(up'[p] = << >> /\ down[p] = << >> /\ dialog[p] = "closed")
<1>1. /\ online[p] /\ up[p] # << >> /\ Head(up[p]) \in {"echo", "own", "esc"} /\ up'[p] = Tail(up[p]) /\ pending'[p] = "no"
      /\ down'[p] = down[p] /\ dialog'[p] = dialog[p] /\ zoneReal' = zoneReal
  BY <1>0 DEF DialogTyped, Zone!EndOfTrade, Zone!EndOfTrades
<1>2. (script'[p] <=> script[p] /\ pending[p] = "fresh") /\ script'[p] \in BOOLEAN /\ (~crossed'[p] => ~crossed[p] /\ ~left)
  <2>1. PICK b \in BOOLEAN : script[p] = b
    BY <1>0 DEF DialogTyped
  <2>2. PICK c \in BOOLEAN : crossed[p] = c
    BY <1>0 DEF DialogTyped
  <2>3. script'[p] = (b /\ Zone!Swallows(p))
    BY <1>0, <2>1 DEF DialogTyped, Zone!EndOfTrade
  <2>4. crossed'[p] = (c \/ left)
    BY <1>0, <2>2 DEF DialogTyped, Zone!EndOfTrade
  <2> HIDE DEF left
  <2> QED BY <2>1, <2>2, <2>3, <2>4 DEF Zone!Swallows
<1>3. DialogTyped'
  <2>1. Tail(up[p]) \in Seq(Ups)
    BY <1>0, <1>1 DEF DialogTyped, Ups
  <2>2. ends' = ends /\ announces' = announces
    BY DEF Zone!EndOfTrade
  <2>3. ends' \in BOOLEAN /\ announces' \in BOOLEAN /\ (announces' => ends')
    BY <1>0, <2>2, Zenon DEF DialogTyped
  <2>4. up' \in [Players -> Seq(Ups)] /\ pending' \in [Players -> {"no", "fresh", "old"}]
    BY <1>0, <2>1 DEF DialogTyped, Zone!EndOfTrade
  <2>5. script' \in [Players -> BOOLEAN]
    BY <1>0 DEF DialogTyped, Zone!EndOfTrade
  <2>6. dialog' \in [Players -> {"closed", "shown", "waiting"}] /\ down' \in [Players -> Seq(Downs)]
    BY <1>0 DEF DialogTyped, Zone!EndOfTrade
  <2>7. crossed' \in [Players -> BOOLEAN]
    BY <1>0 DEF DialogTyped, Zone!EndOfTrade
  <2> QED BY <2>3, <2>4, <2>5, <2>6, <2>7 DEF DialogTyped
<1>4. DialogStep(p)
  <2>1. UNCHANGED <<part, zoneReal, client, online, ends, tracked, whole, tracker, worn, drawn, empties, extra, has, record>>
    BY DEF Zone!EndOfTrade, Zone!questVars, Zone!equipVars, Zone!stateVars
  <2>2. \A q \in Players \ {p} : /\ pending'[q] = pending[q] /\ script'[q] = script[q] /\ crossed'[q] = crossed[q]
                                /\ down'[q] = down[q] /\ up'[q] = up[q] /\ dialog'[q] = dialog[q]
    BY <1>0 DEF DialogTyped, Zone!EndOfTrade
  <2> QED BY <2>1, <2>2 DEF DialogStep
<1> HIDE DEF left
<1>5. ASSUME ~crossed[p], zoneReal[p] = Zone!Old
      PROVE  Head(up[p]) # "echo" /\ ~script'[p] /\ (~crossed'[p] => OldDialog(p)')
  <2>1. OldDialog(p)
    BY <1>1, <1>5, WhichClient
  <2>2. up[p] = <<"own">> /\ down[p] = << >> /\ dialog[p] = "closed" /\ pending[p] = "no"
    <3>1. up[p] # <<"ack">>
      BY <1>1
    <3> QED BY <1>1, <2>1, <3>1 DEF OldDialog
  <2>3. Head(up[p]) = "own" /\ up'[p] = << >> /\ ~script'[p]
    BY <1>1, <1>2, <2>2, Spelt
  <2>4. ~HasPage(down[p])
    BY <2>2 DEF HasPage
  <2> QED BY <1>1, <2>1, <2>2, <2>3, <2>4 DEF OldDialog
<1>6. ASSUME ~crossed[p], zoneReal[p] = Zone!New
      PROVE  /\ Head(up[p]) = "echo" /\ pending[p] # "old" => (script'[p] <=> script[p])
             /\ Head(up[p]) = "own" => ~script'[p]
             /\ ~crossed'[p] => NewDialog(p)'
  <2>1. NewDialog(p) /\ PageLast(down[p])
    BY <1>1, <1>6, WhichClient DEF NewDialog
  <2>9. Head(up[p]) = up[p][1] /\ up[p] # <<"ack">> /\ up[p] # <<"ack", "esc">>
    BY <1>1
  <2>2. CASE up[p] = <<"own">>
    <3>1. dialog[p] = "closed" /\ down[p] = << >> /\ ~FirstIs(up[p], Late) /\ Head(up[p]) = "own"
      <4>1. <<"own">> \notin Silent /\ <<"own">> \notin Acked /\ <<"own">> # << >>
        BY DEF Silent, Acked
      <4> QED BY <2>1, <2>2, <2>9, <4>1, Spoken DEF NewDialog
    <3>2. pending[p] # "fresh" /\ ~script'[p] /\ up'[p] = << >>
      BY <1>1, <1>2, <2>1, <2>2, <3>1, Spelt DEF NewDialog
    <3>3. NewDialog(p)'
      BY <1>1, <2>1, <3>1, <3>2, Spoken DEF NewDialog, HasPage, Silent
    <3> QED BY <3>1, <3>2, <3>3
  <2>3. CASE up[p] # <<"own">>
    <3>1. /\ FirstIs(up[p], Late) /\ up[p][1] \in Late
          /\ \/ dialog[p] = "shown" /\ script[p] /\ down[p] = << >> /\ up'[p] = << >>
             \/ dialog[p] = "waiting" /\ script[p] /\ down[p] = << >> /\ up'[p] = <<"ack">>
             \/ dialog[p] = "closed" /\ (script[p] <=> HasPage(down[p])) /\ up'[p] = << >>
             \/ dialog[p] = "closed" /\ script[p] /\ down[p] = << >> /\ up'[p] \in {<<"own">>, <<"ack", "esc">>}
      BY <1>1, <2>1, <2>3, <2>9, Spelt DEF NewDialog, FirstIs
    <3>2. Head(up[p]) # "own" /\ (Head(up[p]) = "echo" => pending[p] # "no")
      BY <1>1, <2>1, <2>9, <3>1 DEF NewDialog, FirstIs, Late
    <3>3. pending[p] \in {"no", "fresh", "old"}
      BY <1>0 DEF DialogTyped
    <3>4. /\ << >> \in Silent /\ <<"ack">> \in Acked /\ <<"own">> \in Dismissed /\ <<"ack", "esc">> \in Escaped
          /\ ~FirstIs(<<"ack", "esc">>, {"echo"})
      BY DEF Silent, Acked, Dismissed, Escaped, FirstIs
    <3>5. ~FirstIs(up'[p], {"echo"})
      BY <3>1, <3>4, Spoken
    <3>6. CASE pending[p] = "fresh"
      <4>1. script'[p] <=> script[p]
        BY <1>2, <3>6
      <4>2. NewDialog(p)'
        BY <1>1, <2>1, <3>1, <3>4, <3>5, <4>1 DEF NewDialog
      <4> QED BY <3>2, <4>1, <4>2
    <3>7. CASE pending[p] # "fresh"
      <4>1. ~script'[p]
        BY <1>2, <3>7
      <4>2. ASSUME ~crossed'[p] PROVE NewDialog(p)'
        <5>1. ~left /\ ~Zone!Swallows(p)
          BY <1>2, <3>7, <4>2 DEF Zone!Swallows
        <5>2. ~script[p] \/ (up'[p] = << >> /\ down[p] = << >> /\ dialog[p] = "closed")
          BY <5>1 DEF left
        <5>3. ~HasPage(<< >>) /\ <<"own">> # << >> /\ <<"ack", "esc">> # << >>
          BY DEF HasPage
        <5>4. dialog[p] = "closed" /\ ~HasPage(down[p]) /\ up'[p] = << >>
          BY <3>1, <5>2, <5>3
        <5> QED BY <1>1, <2>1, <3>4, <3>5, <4>1, <5>4 DEF NewDialog
      <4> QED BY <3>2, <3>3, <3>7, <4>1, <4>2
    <3> QED BY <3>6, <3>7
  <2> QED BY <2>2, <2>3
<1>7. DialogRight(p)'
  BY <1>1, <1>2, <1>5, <1>6, ByClient
<1>8. ASSUME ~crossed[p]
      PROVE  /\ Head(up[p]) = "echo" /\ pending[p] # "old" => script'[p] = script[p]
             /\ Head(up[p]) = "own" => ~script'[p]
  <2>1. script[p] \in BOOLEAN
    BY <1>0 DEF DialogTyped
  <2> QED BY <1>1, <1>2, <1>5, <1>6, <1>8, <2>1, WhichClient
<1>9. ZoneInv'
  BY <1>3, <1>4, <1>7, DialogSteps
<1> QED BY <1>8, <1>9

LEMMA WaitZone == ASSUME ZoneInv, NEW p \in Players, Zone!Wait(p) PROVE ZoneInv'
<1>0. DialogTyped
  BY DEF ZoneInv, ZoneTyped
<1>1. DialogStep(p)
  BY <1>0 DEF DialogTyped, DialogStep, Zone!Wait, Zone!questVars, Zone!equipVars, Zone!stateVars
<1>2. /\ pending[p] = "fresh" /\ pending'[p] = "old" /\ up'[p] = up[p] /\ script'[p] = script[p] /\ down'[p] = down[p]
      /\ dialog'[p] = dialog[p] /\ crossed'[p] = crossed[p] /\ zoneReal' = zoneReal /\ online' = online
  BY <1>0 DEF DialogTyped, Zone!Wait
<1>3. DialogTyped'
  <2>2. ends' = ends /\ announces' = announces
    BY DEF Zone!Wait
  <2>3. ends' \in BOOLEAN /\ announces' \in BOOLEAN /\ (announces' => ends')
    BY <1>0, <2>2, Zenon DEF DialogTyped
  <2>4. pending' \in [Players -> {"no", "fresh", "old"}]
    BY <1>0 DEF DialogTyped, Zone!Wait
  <2>6. dialog' \in [Players -> {"closed", "shown", "waiting"}] /\ down' \in [Players -> Seq(Downs)]
    BY <1>0 DEF DialogTyped, Zone!Wait
  <2>7. script' \in [Players -> BOOLEAN] /\ crossed' \in [Players -> BOOLEAN] /\ up' \in [Players -> Seq(Ups)]
    BY <1>0 DEF DialogTyped, Zone!Wait
  <2> QED BY <2>3, <2>4, <2>6, <2>7 DEF DialogTyped
<1>6. DialogRight(p)
  BY DEF ZoneInv, PlayerRight
<1>7. ~OldDialog(p)
  BY <1>2 DEF OldDialog
<1>8. NewDialog(p) => NewDialog(p)'
  BY <1>2 DEF NewDialog, Closing, PageLast, HasPage, HasClose
<1>9. DialogRight(p)'
  BY <1>2, <1>6, <1>7, <1>8 DEF DialogRight
<1> QED BY <1>1, <1>3, <1>9, DialogSteps

LEMMA HearZone == ASSUME ZoneInv, NEW p \in Players, Zone!Hear(p) PROVE ZoneInv'
<1>0. DialogTyped
  BY DEF ZoneInv, ZoneTyped
<1>1. DialogStep(p)
  BY <1>0 DEF DialogTyped, DialogStep, Zone!Hear, Zone!questVars, Zone!equipVars, Zone!stateVars
<1> DEFINE shows == CASE Head(down[p]) = "page" -> "shown" [] Head(down[p]) = "close" -> "closed" [] OTHER -> dialog[p]
           says == IF Head(down[p]) = "close" /\ dialog[p] # "closed" THEN Append(up[p], "echo") ELSE up[p]
<1>2. /\ online[p] /\ down[p] # << >> /\ down'[p] = Tail(down[p]) /\ dialog'[p] = shows /\ up'[p] = says
      /\ pending'[p] = pending[p] /\ script'[p] = script[p] /\ crossed'[p] = crossed[p] /\ zoneReal' = zoneReal
  BY <1>0 DEF DialogTyped, Zone!Hear
<1>3. down[p] \in Seq(Downs) /\ up[p] \in Seq(Ups) /\ dialog[p] \in {"closed", "shown", "waiting"}
  BY <1>0 DEF DialogTyped
<1>4. /\ Head(down[p]) = "page" => shows = "shown"
      /\ Head(down[p]) = "close" => shows = "closed"
      /\ Head(down[p]) \notin {"page", "close"} => shows = dialog[p]
  OBVIOUS
<1>5. DialogTyped'
  <2>1. Tail(down[p]) \in Seq(Downs) /\ says \in Seq(Ups)
    BY <1>2, <1>3 DEF Ups
  <2>2. ends' = ends /\ announces' = announces
    BY DEF Zone!Hear
  <2>3. ends' \in BOOLEAN /\ announces' \in BOOLEAN /\ (announces' => ends')
    BY <1>0, <2>2, Zenon DEF DialogTyped
  <2>4. shows \in {"closed", "shown", "waiting"}
    BY <1>3, <1>4
  <2>5. down' = [down EXCEPT ![p] = Tail(down[p])] /\ dialog' = [dialog EXCEPT ![p] = shows] /\ up' = [up EXCEPT ![p] = says]
    BY DEF Zone!Hear
  <2> HIDE DEF shows, says
  <2>6. down' \in [Players -> Seq(Downs)] /\ dialog' \in [Players -> {"closed", "shown", "waiting"}] /\ up' \in [Players -> Seq(Ups)]
    BY <1>0, <2>1, <2>4, <2>5 DEF DialogTyped
  <2>7. pending' \in [Players -> {"no", "fresh", "old"}] /\ script' \in [Players -> BOOLEAN] /\ crossed' \in [Players -> BOOLEAN]
    BY <1>0 DEF DialogTyped, Zone!Hear
  <2> QED BY <2>3, <2>6, <2>7 DEF DialogTyped
<1>6. /\ Head(down[p]) # "close" \/ dialog[p] = "closed" => says = up[p]
      /\ Head(down[p]) = "close" /\ dialog[p] # "closed" /\ up[p] = << >> => says = <<"echo">>
  <2>1. Append(<< >>, "echo") = <<"echo">>
    OBVIOUS
  <2>2. Head(down[p]) # "close" \/ dialog[p] = "closed" => says = up[p]
    OBVIOUS
  <2>3. ASSUME Head(down[p]) = "close", dialog[p] # "closed", up[p] = << >> PROVE says = <<"echo">>
    BY <2>1, <2>3
  <2> QED BY <2>2, <2>3
<1> HIDE DEF shows, says
<1>7. PageLast(down[p]) => Heard(down[p], down'[p])
  BY <1>2, <1>3, OneHeard
<1>8. ASSUME ~crossed[p], zoneReal[p] = Zone!Old PROVE OldDialog(p)'
  <2>1. OldDialog(p)
    BY <1>2, <1>8, WhichClient
  <2>2. PageLast(down[p]) /\ ~HasClose(down[p]) /\ dialog[p] = "closed" /\ (script[p] <=> HasPage(down[p])) /\ up[p] = << >> /\ pending[p] = "no"
    BY <1>2, <2>1 DEF OldDialog
  <2>3. Heard(down[p], down'[p]) /\ Head(down[p]) # "close" /\ PageLast(down'[p]) /\ ~HasClose(down'[p])
    BY <1>7, <2>2 DEF Heard
  <2>4. ASSUME Head(down[p]) = "page" PROVE OldDialog(p)'
    <3>1. down'[p] = << >> /\ HasPage(down[p]) /\ dialog'[p] = "shown" /\ up'[p] = << >>
      BY <1>2, <1>4, <1>6, <2>2, <2>3, <2>4 DEF Heard
    <3> QED BY <1>2, <2>2, <2>3, <3>1 DEF OldDialog
  <2>5. ASSUME Head(down[p]) # "page" PROVE OldDialog(p)'
    <3>1. (HasPage(down'[p]) <=> HasPage(down[p])) /\ dialog'[p] = "closed" /\ up'[p] = << >>
      BY <1>2, <1>4, <1>6, <2>2, <2>3, <2>5 DEF Heard
    <3> QED BY <1>2, <2>2, <2>3, <3>1 DEF OldDialog
  <2> QED BY <2>4, <2>5
<1>9. ASSUME ~crossed[p], zoneReal[p] = Zone!New PROVE NewDialog(p)'
  <2>1. NewDialog(p)
    BY <1>2, <1>9, WhichClient
  <2>2. PageLast(down[p]) /\ (script[p] <=> HasPage(down[p]))
    BY <1>2, <2>1 DEF NewDialog
  <2>3. Heard(down[p], down'[p]) /\ PageLast(down'[p])
    BY <1>7, <2>2 DEF Heard
  <2>4. \/ dialog[p] = "waiting" /\ up[p] = << >> /\ Closing(p)
        \/ dialog[p] = "closed" /\ up[p] \in Silent
    BY <1>2, <2>1 DEF NewDialog
  <2>5. /\ FirstIs(up[p], {"echo"}) => pending[p] # "no"
        /\ pending[p] = "fresh" => FirstIs(up[p], Late) \/ (dialog[p] = "waiting" /\ up[p] = << >> /\ HasClose(down[p]))
    BY <2>1 DEF NewDialog
  <2>6. ASSUME Head(down[p]) = "page" PROVE NewDialog(p)'
    <3>1. down'[p] = << >> /\ HasPage(down[p]) /\ ~HasClose(down[p]) /\ dialog'[p] = "shown" /\ up'[p] = up[p]
      BY <1>2, <1>4, <1>6, <2>3, <2>6 DEF Heard
    <3>2. up'[p] \in Silent
      BY <2>4, <3>1 DEF Silent
    <3>3. pending[p] = "fresh" => FirstIs(up[p], Late)
      BY <2>5, <3>1
    <3> QED BY <1>2, <2>2, <2>3, <2>5, <3>1, <3>2, <3>3 DEF NewDialog
  <2>7. ASSUME Head(down[p]) = "close" PROVE NewDialog(p)'
    <3>1. (HasPage(down'[p]) <=> HasPage(down[p])) /\ dialog'[p] = "closed" /\ HasClose(down[p])
      BY <1>2, <1>4, <2>3, <2>7 DEF Heard
    <3>2. CASE dialog[p] = "waiting"
      <4>1. up'[p] = <<"echo">> /\ <<"echo">> \in Silent /\ FirstIs(<<"echo">>, Late)
        BY <1>2, <1>6, <2>4, <2>7, <3>2, Spoken DEF Silent
      <4>2. pending[p] # "no"
        <5>1. down[p] # <<"page">>
          BY <2>7
        <5> QED BY <2>4, <3>2, <5>1 DEF Closing
      <4> QED BY <1>2, <2>2, <2>3, <3>1, <4>1, <4>2 DEF NewDialog
    <3>3. CASE dialog[p] = "closed"
      <4>1. up'[p] = up[p] /\ up[p] \in Silent
        BY <1>2, <1>6, <2>4, <3>3
      <4>2. pending[p] = "fresh" => FirstIs(up[p], Late)
        BY <2>5, <3>3
      <4> QED BY <1>2, <2>2, <2>3, <2>5, <3>1, <4>1, <4>2 DEF NewDialog
    <3> QED BY <2>4, <3>2, <3>3
  <2>8. ASSUME Head(down[p]) \notin {"page", "close"} PROVE NewDialog(p)'
    <3>1. (HasPage(down'[p]) <=> HasPage(down[p])) /\ dialog'[p] = dialog[p] /\ up'[p] = up[p] /\ (HasClose(down[p]) => HasClose(down'[p]))
      BY <1>2, <1>4, <1>6, <2>3, <2>8 DEF Heard
    <3>2. down[p] # <<"page">>
      BY <2>8
    <3>3. Closing(p) => HasClose(down'[p]) /\ pending[p] # "no"
      BY <3>1, <3>2 DEF Closing
    <3> QED BY <1>2, <2>2, <2>3, <2>4, <2>5, <3>1, <3>3 DEF NewDialog, Closing
  <2> QED BY <2>6, <2>7, <2>8
<1>10. DialogRight(p)'
  BY <1>2, <1>8, <1>9, ByClient
<1> QED BY <1>1, <1>5, <1>10, DialogSteps

\* what an ack brings
OldSends == {<<"page">>, <<"done">>, <<"end">>, << >>}
NewSends == {<<"close", "page">>, <<"page">>, <<"close", "done", "close">>, <<"done", "close">>, <<"close", "close">>, <<"close">>}
Pages == {<<"page">>, <<"close", "page">>}

LEMMA Sent ==
    /\ \A q \in OldSends \cup NewSends : q \in Seq(Downs) /\ PageLast(q) /\ (HasPage(q) <=> q \in Pages)
    /\ \A q \in NewSends : q # <<"page">> => HasClose(q) /\ Zone!Contains(q, "close")
    /\ \A q \in OldSends : ~HasClose(q) /\ ~Zone!Contains(q, "close")
  BY DEF OldSends, NewSends, Pages, PageLast, HasPage, HasClose, Zone!Contains, Downs

\* the sends of an ack, by client, and the script after it
LEMMA OldAck ==
    ASSUME NEW p \in Players, ~Zone!to2026(p), NEW step \in {"page", "done", "end"}
    PROVE  /\ Zone!PerAck(p) \o Zone!Script(p, step) \in OldSends
           /\ step = "page" <=> Zone!PerAck(p) \o Zone!Script(p, step) \in Pages
<1>1. Zone!PerAck(p) = << >>
  BY DEF Zone!PerAck
<1>2. Zone!Script(p, step) \in {<<"page">>, <<"done">>, <<"end">>, << >>} /\ (step = "page" <=> Zone!Script(p, step) = <<"page">>)
  <2>1. CASE step = "page"
    BY <2>1 DEF Zone!Script
  <2>2. CASE step = "done"
    <3>1. Zone!Script(p, step) = <<"done">>
      BY <2>2 DEF Zone!Script
    <3> QED BY <2>2, <3>1
  <2>3. CASE step = "end"
    <3>1. Zone!Script(p, step) = IF ~ends THEN << >> ELSE <<"end">>
      BY <2>3 DEF Zone!Script
    <3> QED BY <2>3, <3>1
  <2> QED BY <2>1, <2>2, <2>3
<1> DEFINE q == Zone!Script(p, step)
<1> HIDE DEF q
<1>3. << >> \o q = q
  BY <1>2 DEF q
<1> QED BY <1>1, <1>2, <1>3 DEF q, OldSends, Pages

Spells(a, b, c) ==
    /\ a \in Seq(Downs) /\ b \in Seq(Downs) /\ c \in Seq(Downs) /\ Len(c) = Len(a) + Len(b)
    /\ \A i \in 1 .. Len(a) : c[i] = a[i]
    /\ \A i \in 1 .. Len(b) : c[Len(a) + i] = b[i]
LEMMA Joined == ASSUME NEW a, NEW b, NEW c, Spells(a, b, c) PROVE a \o b = c
<1> USE DEF Spells
<1> DEFINE d == a \o b
<1>1. d \in Seq(Downs) /\ Len(d) = Len(a) + Len(b)
  OBVIOUS
<1>2. ASSUME NEW i \in 1 .. Len(d) PROVE d[i] = c[i]
  <2>1. CASE i =< Len(a)
    <3>1. i \in 1 .. Len(a)
      BY <1>1, <2>1
    <3>2. d[i] = a[i]
      BY <3>1
    <3> QED BY <3>1, <3>2
  <2>2. CASE i > Len(a)
    <3>1. i - Len(a) \in 1 .. Len(b) /\ Len(a) + (i - Len(a)) = i
      BY <1>1, <2>2
    <3>2. d[i] = b[i - Len(a)]
      BY <1>1, <2>2
    <3>3. c[Len(a) + (i - Len(a))] = b[i - Len(a)]
      BY <3>1
    <3> QED BY <3>1, <3>2, <3>3
  <2> QED BY <2>1, <2>2
<1> HIDE DEF d
<1>3. d = c
  BY <1>1, <1>2
<1> QED BY <1>3 DEF d

LEMMA Closes ==
    /\ <<"close">> \o <<"page">> = <<"close", "page">> /\ <<"close">> \o <<"close">> = <<"close", "close">>
    /\ <<"close">> \o <<"done", "close">> = <<"close", "done", "close">> /\ << >> \o <<"done", "close">> = <<"done", "close">>
    /\ <<"close">> \o << >> = <<"close">> /\ << >> \o <<"close">> = <<"close">> /\ << >> \o <<"page">> = <<"page">>
<1>1. <<"close">> \o <<"page">> = <<"close", "page">>
  <2> DEFINE a == <<"close">>
             b == <<"page">>
             c == <<"close", "page">>
  <2>1. /\ a \in Seq(Downs) /\ b \in Seq(Downs) /\ c \in Seq(Downs) /\ Len(a) = 1 /\ Len(b) = 1 /\ Len(c) = 2
        /\ c[1] = a[1] /\ c[2] = b[1]
    BY DEF Downs
  <2> HIDE DEF a, b, c
  <2>2. a \o b = c
    <3>1. \A i \in 1 .. Len(a) : c[i] = a[i]
      BY <2>1
    <3>2. \A i \in 1 .. Len(b) : c[Len(a) + i] = b[i]
      BY <2>1
    <3>3. Spells(a, b, c)
      BY <2>1, <3>1, <3>2 DEF Spells
    <3> QED BY <3>3, Zenon, Joined
  <2> QED BY <2>2 DEF a, b, c
<1>2. <<"close">> \o <<"close">> = <<"close", "close">>
  <2> DEFINE a == <<"close">>
             c == <<"close", "close">>
  <2>1. a \in Seq(Downs) /\ c \in Seq(Downs) /\ Len(a) = 1 /\ Len(c) = 2 /\ c[1] = a[1] /\ c[2] = a[1]
    BY DEF Downs
  <2> HIDE DEF a, c
  <2>2. a \o a = c
    <3>1. \A i \in 1 .. Len(a) : c[i] = a[i]
      BY <2>1
    <3>2. \A i \in 1 .. Len(a) : c[Len(a) + i] = a[i]
      BY <2>1
    <3>3. Spells(a, a, c)
      BY <2>1, <3>1, <3>2 DEF Spells
    <3> QED BY <3>3, Zenon, Joined
  <2> QED BY <2>2 DEF a, c
<1>3. <<"close">> \o <<"done", "close">> = <<"close", "done", "close">>
  <2> DEFINE a == <<"close">>
             b == <<"done", "close">>
             c == <<"close", "done", "close">>
  <2>1. /\ a \in Seq(Downs) /\ b \in Seq(Downs) /\ c \in Seq(Downs) /\ Len(a) = 1 /\ Len(b) = 2 /\ Len(c) = 3
        /\ c[1] = a[1] /\ c[2] = b[1] /\ c[3] = b[2]
    BY DEF Downs
  <2> HIDE DEF a, b, c
  <2>2. a \o b = c
    <3>1. \A i \in 1 .. Len(a) : c[i] = a[i]
      BY <2>1
    <3>2. \A i \in 1 .. Len(b) : c[Len(a) + i] = b[i]
      BY <2>1
    <3>3. Spells(a, b, c)
      BY <2>1, <3>1, <3>2 DEF Spells
    <3> QED BY <3>3, Zenon, Joined
  <2> QED BY <2>2 DEF a, b, c
<1>4. << >> \o <<"done", "close">> = <<"done", "close">>
  <2> DEFINE b == <<"done", "close">>
  <2>1. b \in Seq(Downs)
    BY DEF Downs
  <2> HIDE DEF b
  <2>2. << >> \o b = b
    BY <2>1
  <2> QED BY <2>2 DEF b
<1>5. <<"close">> \o << >> = <<"close">> /\ << >> \o <<"close">> = <<"close">> /\ << >> \o <<"page">> = <<"page">>
  OBVIOUS
<1> QED BY <1>1, <1>2, <1>3, <1>4, <1>5

\* what of it opens a page
LEMMA Opening ==
    /\ <<"page">> \in Pages /\ <<"close", "page">> \in Pages /\ <<"close", "done", "close">> \notin Pages
    /\ <<"done", "close">> \notin Pages /\ <<"close", "close">> \notin Pages /\ <<"close">> \notin Pages
  BY DEF Pages

LEMMA NewAck ==
    ASSUME NEW p \in Players, Zone!to2026(p), NEW step \in {"page", "done", "end"}, announces => ends
    PROVE  /\ Zone!PerAck(p) \o Zone!Script(p, step) \in NewSends
           /\ step = "page" <=> Zone!PerAck(p) \o Zone!Script(p, step) \in Pages
<1>1. Zone!PerAck(p) = IF announces THEN << >> ELSE <<"close">>
  BY DEF Zone!PerAck
<1>5. CASE step = "page"
  <2>1. Zone!Script(p, step) = <<"page">>
    BY <1>5 DEF Zone!Script
  <2> QED BY <1>1, <1>5, <2>1, Closes, Opening DEF NewSends
<1>6. CASE step = "done"
  <2>1. Zone!Script(p, step) = <<"done", "close">>
    BY <1>6 DEF Zone!Script
  <2> QED BY <1>1, <1>6, <2>1, Closes, Opening DEF NewSends
<1>7. CASE step = "end"
  <2>1. Zone!Script(p, step) = IF ends THEN <<"close">> ELSE << >>
    BY <1>7 DEF Zone!Script
  <2> QED BY <1>1, <1>7, <2>1, Closes, Opening DEF NewSends
<1> QED BY <1>5, <1>6, <1>7

\* an ack adds packets to those under way, notes a close among them and takes the script on or leaves it
AckSends(p, q, goes) ==
    /\ down' = [down EXCEPT ![p] = @ \o q] /\ pending' = Zone!Noted(p, q) /\ script' = [script EXCEPT ![p] = goes]
LEMMA AckTyped ==
    ASSUME ZoneInv, NEW p \in Players, Zone!Ack(p), NEW q \in Seq(Downs), NEW goes \in BOOLEAN, AckSends(p, q, goes),
           announces' \in BOOLEAN, announces' => ends
    PROVE  /\ DialogTyped' /\ DialogStep(p)
           /\ down'[p] = down[p] \o q /\ script'[p] = goes /\ (Zone!Contains(q, "close") => pending'[p] = "fresh")
           /\ (~Zone!Contains(q, "close") => pending'[p] = pending[p])
<1>0. DialogTyped
  BY DEF ZoneInv, ZoneTyped
<1>1. down' = [down EXCEPT ![p] = @ \o q] /\ pending' = Zone!Noted(p, q) /\ script' = [script EXCEPT ![p] = goes]
  BY DEF AckSends
<1>2. down[p] \o q \in Seq(Downs)
  BY <1>0 DEF DialogTyped
<1>3. DialogTyped'
  <2>1. ends' = ends
    BY DEF Zone!Ack
  <2>2. ends' \in BOOLEAN /\ announces' \in BOOLEAN /\ (announces' => ends')
    BY <1>0, <2>1 DEF DialogTyped
  <2>3. pending' \in [Players -> {"no", "fresh", "old"}]
    BY <1>0, <1>1 DEF DialogTyped, Zone!Noted
  <2>4. script' \in [Players -> BOOLEAN]
    BY <1>0, <1>1 DEF DialogTyped
  <2>5. down' \in [Players -> Seq(Downs)]
    BY <1>0, <1>1, <1>2 DEF DialogTyped
  <2>6. Tail(up[p]) \in Seq(Ups)
    BY <1>0 DEF DialogTyped, Ups, Zone!Ack
  <2>7. up' \in [Players -> Seq(Ups)] /\ dialog' \in [Players -> {"closed", "shown", "waiting"}] /\ crossed' \in [Players -> BOOLEAN]
    BY <1>0, <2>6 DEF DialogTyped, Zone!Ack
  <2> QED BY <2>2, <2>3, <2>4, <2>5, <2>7 DEF DialogTyped
<1>4. DialogStep(p)
  <2>1. UNCHANGED <<part, zoneReal, client, online, ends, tracked, whole, tracker, worn, drawn, empties, extra, has, record>>
    BY DEF Zone!Ack, Zone!questVars, Zone!equipVars, Zone!stateVars
  <2> SUFFICES ASSUME NEW z \in Players \ {p}
               PROVE  /\ pending'[z] = pending[z] /\ script'[z] = script[z] /\ crossed'[z] = crossed[z]
                      /\ down'[z] = down[z] /\ up'[z] = up[z] /\ dialog'[z] = dialog[z]
    BY <2>1 DEF DialogStep
  <2>2. script'[z] = script[z] /\ down'[z] = down[z]
    BY <1>0, <1>1 DEF DialogTyped
  <2>3. pending'[z] = pending[z]
    BY <1>0, <1>1 DEF DialogTyped, Zone!Noted
  <2>4. up'[z] = up[z] /\ dialog'[z] = dialog[z] /\ crossed'[z] = crossed[z]
    BY <1>0 DEF DialogTyped, Zone!Ack
  <2> QED BY <2>2, <2>3, <2>4
<1>5. down'[p] = down[p] \o q /\ script'[p] = goes
  BY <1>0, <1>1 DEF DialogTyped
<1>6. (Zone!Contains(q, "close") => pending'[p] = "fresh") /\ (~Zone!Contains(q, "close") => pending'[p] = pending[p])
  BY <1>0, <1>1 DEF DialogTyped, Zone!Noted
<1> QED BY <1>3, <1>4, <1>5, <1>6

LEMMA AckZone == ASSUME ZoneInv, NEW p \in Players, Zone!Ack(p) PROVE ZoneInv'
<1>0. DialogTyped
  BY DEF ZoneInv, ZoneTyped
<1>1. /\ online[p] /\ up[p] # << >> /\ Head(up[p]) = "ack" /\ up'[p] = Tail(up[p]) /\ dialog'[p] = dialog[p]
      /\ crossed'[p] = crossed[p] /\ zoneReal' = zoneReal
  BY <1>0 DEF DialogTyped, Zone!Ack
<1>2. announces \in BOOLEAN /\ ends \in BOOLEAN /\ (announces => ends) /\ script[p] \in BOOLEAN
  BY <1>0, Zenon DEF DialogTyped
<1>3. CASE ~script[p]
  <2>1. AckSends(p, Zone!PerAck(p), FALSE) /\ announces' = announces
    <3>1. script = [script EXCEPT ![p] = FALSE]
      BY <1>0, <1>2, <1>3 DEF DialogTyped
    <3> QED BY <1>3, <3>1 DEF Zone!Ack, AckSends
  <2>2. Zone!PerAck(p) \in Seq(Downs)
    <3>1. Zone!PerAck(p) = <<"close">> \/ Zone!PerAck(p) = << >>
      BY Zenon DEF Zone!PerAck
    <3>2. <<"close">> \in Seq(Downs) /\ << >> \in Seq(Downs)
      BY DEF Downs
    <3> QED BY <3>1, <3>2, Zenon
  <2>3. DialogTyped' /\ DialogStep(p)
    BY <1>2, <2>1, <2>2, AckTyped
  <2>4. ASSUME ~crossed[p] PROVE FALSE
    <3>1. up[p][1] = "ack"
      BY <1>1
    <3>2. up[p] \notin Silent
      BY <1>1, <3>1, Spelt, Zenon DEF Late
    <3> QED BY <1>1, <1>3, <2>4, <3>2, WhichClient DEF OldDialog, NewDialog
  <2>5. DialogRight(p)'
    BY <1>1, <2>4, ByClient
  <2> QED BY <2>3, <2>5, DialogSteps
<1>4. CASE script[p]
  <2>1. PICK step \in {"page", "done", "end"} :
           /\ down' = [down EXCEPT ![p] = @ \o (Zone!PerAck(p) \o Zone!Script(p, step))]
           /\ pending' = Zone!Noted(p, Zone!PerAck(p) \o Zone!Script(p, step))
           /\ script' = [script EXCEPT ![p] = (step = "page")]
           /\ announces' = (announces \/ (step = "end" /\ ends /\ Zone!to2026(p)))
    BY <1>4 DEF Zone!Ack
  <2> DEFINE sends == Zone!PerAck(p) \o Zone!Script(p, step)
  <2>2. /\ step = "page" <=> sends \in Pages
        /\ ~Zone!to2026(p) => sends \in OldSends
        /\ Zone!to2026(p) => sends \in NewSends
    <3>1. CASE ~Zone!to2026(p)
      BY <3>1, OldAck
    <3>2. CASE Zone!to2026(p)
      BY <1>2, <3>2, NewAck
    <3> QED BY <3>1, <3>2
  <2> HIDE DEF sends
  <2>3. sends \in Seq(Downs) /\ PageLast(sends) /\ (HasPage(sends) <=> sends \in Pages)
    <3>1. sends \in OldSends \cup NewSends
      BY <2>2
    <3> QED BY <3>1, Sent
  <2>4. PICK goes \in BOOLEAN : goes = (step = "page")
    OBVIOUS
  <2>5. AckSends(p, sends, goes)
    BY <2>1, <2>4 DEF AckSends, sends
  <2>6. announces' \in BOOLEAN /\ (announces' => ends)
    BY <1>2, <2>1
  <2>7. /\ DialogTyped' /\ DialogStep(p)
        /\ down'[p] = down[p] \o sends /\ script'[p] = goes /\ (Zone!Contains(sends, "close") => pending'[p] = "fresh")
        /\ (~Zone!Contains(sends, "close") => pending'[p] = pending[p])
    BY <2>3, <2>5, <2>6, AckTyped
  <2>8. down[p] = << >> => down'[p] = sends
    BY <2>3, <2>7
  <2>9. ASSUME ~crossed[p], zoneReal[p] = Zone!Old PROVE OldDialog(p)'
    <3>1. OldDialog(p) /\ ~Zone!to2026(p)
      BY <1>1, <2>9, WhichClient
    <3>2. dialog[p] = "closed" /\ down[p] = << >> /\ up[p] = <<"ack">> /\ pending[p] = "no"
      <4>1. up[p] # <<"own">>
        BY <1>1
      <4> QED BY <1>1, <3>1, <4>1 DEF OldDialog
    <3>3. ~HasClose(sends) /\ pending'[p] = "no"
      BY <2>2, <2>7, <3>1, <3>2, Sent
    <3>4. up'[p] = << >> /\ dialog'[p] = "closed" /\ down'[p] = sends
      BY <1>1, <2>8, <3>2, Spelt
    <3> QED BY <2>2, <2>3, <2>4, <2>7, <3>3, <3>4 DEF OldDialog
  <2>10. ASSUME ~crossed[p], zoneReal[p] = Zone!New PROVE NewDialog(p)'
    <3>1. NewDialog(p) /\ Zone!to2026(p)
      BY <1>1, <2>10, WhichClient
    <3>5. up[p][1] = "ack" /\ ~FirstIs(up[p], Late)
      BY <1>1 DEF FirstIs, Late
    <3>2. \/ dialog[p] = "waiting" /\ down[p] = << >> /\ up[p] = <<"ack">>
          \/ dialog[p] = "closed" /\ down[p] = << >> /\ up[p] = <<"ack", "esc">>
      <4>1. up[p] \notin Silent /\ up[p] \notin Dismissed
        BY <1>1, <3>5 DEF Silent, Dismissed
      <4> QED BY <1>1, <3>1, <3>5, <4>1, Spelt DEF NewDialog, FirstIs, Late
    <3>3. sends = <<"page">> \/ (HasClose(sends) /\ pending'[p] = "fresh")
      BY <2>2, <2>7, <3>1, Sent
    <3>4. down'[p] = sends /\ (goes <=> HasPage(sends))
      BY <2>2, <2>3, <2>4, <2>8, <3>2
    <3>6. CASE dialog[p] = "waiting"
      <4>1. up'[p] = << >> /\ dialog'[p] = "waiting" /\ ~FirstIs(<< >>, {"echo"})
        BY <1>1, <3>2, <3>6, Spelt, Spoken
      <4>2. sends = <<"page">> /\ ~HasClose(sends) => pending'[p] = pending[p] /\ pending[p] # "fresh"
        <5>1. ASSUME sends = <<"page">> PROVE ~Zone!Contains(sends, "close")
          BY <5>1 DEF Zone!Contains
        <5>2. up[p] # << >>
          BY <1>1
        <5> QED BY <2>7, <3>1, <3>5, <5>1, <5>2 DEF NewDialog
      <4>3. Closing(p)'
        <5>1. down'[p] = <<"page">> \/ (HasClose(down'[p]) /\ pending'[p] # "no")
          BY <3>3, <3>4
        <5>2. HasClose(down[p])' <=> HasClose(down'[p])
          BY DEF HasClose
        <5> QED BY <5>1, <5>2 DEF Closing
      <4>4. pending'[p] = "fresh" => HasClose(sends)
        BY <3>3, <4>2
      <4> QED BY <2>3, <2>7, <3>4, <4>1, <4>3, <4>4 DEF NewDialog
    <3>7. CASE dialog[p] = "closed"
      <4>1. up'[p] = <<"esc">> /\ dialog'[p] = "closed" /\ <<"esc">> \in Silent
        BY <1>1, <3>2, <3>7, Spelt DEF Silent
      <4> QED BY <2>3, <2>7, <3>4, <4>1, Spoken DEF NewDialog
    <3> QED BY <3>2, <3>6, <3>7
  <2>11. DialogRight(p)'
    BY <1>1, <2>9, <2>10, ByClient
  <2> QED BY <2>7, <2>11, DialogSteps
<1> QED BY <1>2, <1>3, <1>4

\* what the 2026 client draws of what is worn, and the slots known to be empty
Drew(w, d, e) ==
    /\ \A t \in Zone!Folded, i \in DOMAIN Items : d[t] = i <=> Items[i].s26 = t /\ w[Items[i].s16] = i
    /\ \A t \in e : d[t] = Zone!NoItem
Worns == [Zone!Range16 -> DOMAIN Items \cup {Zone!NoItem}]
Drawns == [Zone!Folded -> DOMAIN Items \cup {Zone!NoItem}]

LEMMA ItemFacts ==
    /\ Zone!NoItem \notin DOMAIN Items
    /\ \A i \in DOMAIN Items : Items[i].s16 \in Zone!Range16 /\ Items[i].s26 \in Nat
    /\ \A i, j \in DOMAIN Items : Items[i].s26 = Items[j].s26 => Items[i].s16 = Items[j].s16
    /\ \A t \in Zone!Folded : \E j \in DOMAIN Items : Items[j].s26 = t /\ Items[j].s16 # t
    /\ \A s, t : t \in Zone!FoldedInto(s) <=> \E j \in DOMAIN Items : Items[j].s26 = t /\ Items[j].s16 = s /\ t # s
    /\ \A s : Zone!FoldedInto(s) \subseteq Zone!Folded
<1>1. /\ Zone!NoItem \notin DOMAIN Items /\ Items \in [DOMAIN Items -> [s16 : Nat, s26 : Nat]]
      /\ \A i, j \in DOMAIN Items : Items[i].s26 = Items[j].s26 => Items[i].s16 = Items[j].s16
  BY BridgesOK DEF Zone!ZoneBridgeOK
<1>2. \A i \in DOMAIN Items : Items[i].s16 \in Zone!Range16 /\ Items[i].s26 \in Nat
  BY <1>1 DEF Zone!Range16
<1>3. \A t \in Zone!Folded : \E j \in DOMAIN Items : Items[j].s26 = t /\ Items[j].s16 # t
  BY DEF Zone!Folded
<1>4. \A s, t : t \in Zone!FoldedInto(s) <=> \E j \in DOMAIN Items : Items[j].s26 = t /\ Items[j].s16 = s /\ t # s
  BY DEF Zone!FoldedInto
<1>5. \A s : Zone!FoldedInto(s) \subseteq Zone!Folded
  BY DEF Zone!FoldedInto, Zone!Folded
<1> QED BY <1>1, <1>2, <1>3, <1>4, <1>5

\* an item that folds into a slot of the zone, and is drawn at another, folds there
LEMMA FoldsThere ==
    ASSUME NEW t \in Zone!Folded, NEW i \in DOMAIN Items, Items[i].s26 = t
    PROVE  t \in Zone!FoldedInto(Items[i].s16)
<1>1. PICK j \in DOMAIN Items : Items[j].s26 = t /\ Items[j].s16 # t
  BY ItemFacts
<1>2. Items[j].s16 = Items[i].s16
  BY <1>1, ItemFacts
<1> QED BY <1>1, <1>2, ItemFacts

Redrawn(w, d, e, s, new, w2, d2, e2, c2) ==
    /\ e2 = e \ {Zone!Drawn(new)} /\ c2 = (Zone!FoldedInto(s) \ {Zone!Drawn(new)}) \ e2
    /\ w2 = [w EXCEPT ![s] = new]
    /\ d2 = [t \in Zone!Folded |-> IF t = Zone!Drawn(new) THEN new ELSE IF t \in c2 THEN Zone!NoItem ELSE d[t]]

LEMMA Redraws ==
    ASSUME NEW w \in Worns, NEW d \in Drawns, NEW e \in SUBSET Zone!Folded, Drew(w, d, e),
           NEW s \in Zone!Range16, NEW new \in DOMAIN Items \cup {Zone!NoItem}, new # Zone!NoItem => Items[new].s16 = s,
           NEW w2, NEW d2, NEW e2, NEW c2, Redrawn(w, d, e, s, new, w2, d2, e2, c2)
    PROVE  d2 \in Drawns /\ e2 \cup c2 \in SUBSET Zone!Folded /\ Drew(w2, d2, e2 \cup c2)
<1> DEFINE D == Zone!Drawn(new)
<1>1. /\ \A t \in Zone!Folded : d2[t] = IF t = D THEN new ELSE IF t \in c2 THEN Zone!NoItem ELSE d[t]
      /\ d2 \in Drawns
  BY DEF Redrawn, Drawns
<1>2. e2 = e \ {D} /\ c2 = (Zone!FoldedInto(s) \ {D}) \ e2
  BY DEF Redrawn
<1>3. w2[s] = new /\ \A z \in Zone!Range16 \ {s} : w2[z] = w[z]
  BY DEF Redrawn, Worns
<1>4. \A t \in Zone!Folded : t = D <=> new \in DOMAIN Items /\ Items[new].s26 = t
  BY ItemFacts DEF Zone!Drawn, Zone!NoSlot
<1> HIDE DEF D
<1>5. e2 \cup c2 \in SUBSET Zone!Folded
  BY <1>2, ItemFacts
<1>6. ASSUME NEW t \in Zone!Folded, NEW i \in DOMAIN Items
      PROVE  d2[t] = i <=> Items[i].s26 = t /\ w2[Items[i].s16] = i
  <2>1. Items[i].s16 \in Zone!Range16 /\ i # Zone!NoItem
    BY ItemFacts
  <2>2. CASE t = D
    <3>1. new \in DOMAIN Items /\ Items[new].s26 = t /\ Items[new].s16 = s /\ d2[t] = new
      BY <1>1, <1>4, <2>2, ItemFacts
    <3>2. ASSUME Items[i].s26 = t, w2[Items[i].s16] = i PROVE i = new
      <4>1. Items[i].s16 = s
        BY <3>1, <3>2, ItemFacts
      <4> QED BY <1>3, <3>2, <4>1
    <3> QED BY <1>3, <3>1, <3>2
  <2>3. CASE t # D /\ t \in Zone!FoldedInto(s)
    <3>1. d2[t] = Zone!NoItem
      <4>1. CASE t \in c2
        BY <1>1, <2>3, <4>1
      <4>2. CASE t \notin c2
        <5>1. t \in e
          BY <1>2, <2>3, <4>2
        <5> QED BY <1>1, <2>3, <4>2, <5>1 DEF Drew
      <4> QED BY <4>1, <4>2
    <3>2. ~(Items[i].s26 = t /\ w2[Items[i].s16] = i)
      <4> SUFFICES ASSUME Items[i].s26 = t, w2[Items[i].s16] = i PROVE FALSE
        OBVIOUS
      <4>1. PICK j \in DOMAIN Items : Items[j].s26 = t /\ Items[j].s16 = s
        BY <2>3, ItemFacts
      <4>2. Items[i].s16 = s
        BY <4>1, ItemFacts
      <4>3. i = new
        BY <1>3, <4>2
      <4> QED BY <1>4, <2>3, <4>3
    <3> QED BY <2>1, <3>1, <3>2
  <2>4. CASE t # D /\ t \notin Zone!FoldedInto(s)
    <3>1. d2[t] = d[t]
      BY <1>1, <1>2, <2>4
    <3>2. Items[i].s26 = t => w2[Items[i].s16] = w[Items[i].s16]
      BY <1>3, <2>1, <2>4, FoldsThere
    <3>3. d[t] = i <=> Items[i].s26 = t /\ w[Items[i].s16] = i
      BY Zenon DEF Drew
    <3> QED BY <3>1, <3>2, <3>3
  <2> QED BY <2>2, <2>3, <2>4
<1>7. ASSUME NEW t \in e2 \cup c2 PROVE d2[t] = Zone!NoItem
  <2>1. t \in Zone!Folded /\ t # D
    BY <1>2, <1>5
  <2>2. t \in c2 \/ d[t] = Zone!NoItem
    BY <1>2 DEF Drew
  <2> QED BY <1>1, <2>1, <2>2
<1>8. Drew(w2, d2, e2 \cup c2)
  BY <1>6, <1>7, Zenon DEF Drew
<1> QED BY <1>1, <1>5, <1>8

LEMMA EquipZone ==
    ASSUME ZoneInv, NEW p \in Players, NEW s \in Zone!Range16, NEW new \in DOMAIN Items \cup {Zone!NoItem}, Zone!Equip(p, s, new)
    PROVE  ZoneInv'
<1>0. EquipTyped /\ EquipRight(p) /\ worn[p] \in Worns /\ drawn[p] \in Drawns /\ empties[p] \in SUBSET Zone!Folded
  BY DEF ZoneInv, ZoneTyped, EquipTyped, PlayerRight, Worns, Drawns
<1>1. /\ online[p] /\ (new # Zone!NoItem => Items[new].s16 = s) /\ worn' = [worn EXCEPT ![p] = [worn[p] EXCEPT ![s] = new]]
      /\ zoneReal' = zoneReal /\ online' = online
  BY <1>0 DEF Zone!Equip, EquipTyped
<1>2. [worn[p] EXCEPT ![s] = new] \in Worns
  BY <1>0 DEF Worns
<1>3. worn'[p] = [worn[p] EXCEPT ![s] = new]
  BY <1>0, <1>1 DEF EquipTyped
<1>4. \A z \in Zone!Range16 : worn'[p][z] # Zone!NoItem => Items[worn'[p][z]].s16 = z
  <2>1. \A z \in Zone!Range16 : worn[p][z] # Zone!NoItem => Items[worn[p][z]].s16 = z
    BY <1>0, <1>1 DEF EquipRight
  <2>2. \A z \in Zone!Range16 : worn'[p][z] = IF z = s THEN new ELSE worn[p][z]
    BY <1>0, <1>3 DEF Worns
  <2> QED BY <1>1, <2>1, <2>2
<1>5. EquipStep(p) /\ EquipTyped' /\ EquipRight(p)'
  <2>1. UNCHANGED <<part, zoneReal, client, online, ends, announces, pending, script, crossed, down, up, dialog,
                    tracked, whole, tracker, extra, has, record>>
    BY DEF Zone!Equip, Zone!questVars, Zone!dialogVars, Zone!stateVars
  <2>2. CASE Zone!to2026(p)
    <3>1. zoneReal[p] = Zone!New /\ zoneReal[p] # Zone!Old
      BY <1>1, <2>2, WhichClient
    <3>2. Drew(worn[p], drawn[p], empties[p])
      BY <1>0, <1>1, <3>1 DEF EquipRight, Drew
    <3>3. PICK e2, c2, d2 :
             /\ e2 = Zone!Empties(p, new) /\ c2 = Zone!Cleared(p, s, new)
             /\ d2 = [t \in Zone!Folded |-> IF t = Zone!Drawn(new) THEN new ELSE IF t \in c2 THEN Zone!NoItem ELSE drawn[p][t]]
      OBVIOUS
    <3>4. empties' = [empties EXCEPT ![p] = e2 \cup c2] /\ drawn' = [drawn EXCEPT ![p] = d2]
      BY <2>2, <3>3 DEF Zone!Equip
    <3>5. PICK w2 : w2 = [worn[p] EXCEPT ![s] = new]
      OBVIOUS
    <3>6. Redrawn(worn[p], drawn[p], empties[p], s, new, w2, d2, e2, c2)
      BY <3>3, <3>5 DEF Redrawn, Zone!Empties, Zone!Cleared
    <3>7. d2 \in Drawns /\ e2 \cup c2 \in SUBSET Zone!Folded /\ Drew(w2, d2, e2 \cup c2)
      BY <1>0, <1>1, <3>2, <3>6, Redraws
    <3>8. EquipTyped' /\ drawn'[p] = d2 /\ empties'[p] = e2 \cup c2 /\ worn'[p] = w2
      BY <1>0, <1>1, <1>2, <1>3, <3>4, <3>5, <3>7 DEF EquipTyped, Worns, Drawns
    <3>9. EquipStep(p)
      BY <1>0, <1>1, <2>1, <3>4 DEF EquipTyped, EquipStep
    <3>10. EquipRight(p)'
      <4>1. \A t \in Zone!Folded, i \in DOMAIN Items : d2[t] = i <=> Items[i].s26 = t /\ w2[Items[i].s16] = i
        BY <3>7, Zenon DEF Drew
      <4>2. \A t \in e2 \cup c2 : d2[t] = Zone!NoItem
        BY <3>7, Zenon DEF Drew
      <4>3. \A t \in Zone!Folded, i \in DOMAIN Items : drawn'[p][t] = i <=> Items[i].s26 = t /\ worn'[p][Items[i].s16] = i
        BY <3>8, <4>1
      <4>4. \A t \in empties'[p] : drawn'[p][t] = Zone!NoItem
        BY <3>8, <4>2
      <4> QED BY <1>4, <4>3, <4>4 DEF EquipRight
    <3> QED BY <3>8, <3>9, <3>10
  <2>3. CASE ~Zone!to2026(p)
    <3>1. zoneReal[p] # Zone!New
      BY <1>1, <2>3, WhichClient
    <3>2. drawn' = drawn /\ empties' = empties
      BY <2>3 DEF Zone!Equip
    <3>3. EquipTyped'
      BY <1>0, <1>1, <1>2, <3>2 DEF EquipTyped, Worns
    <3>4. EquipStep(p)
      BY <1>0, <1>1, <2>1, <3>2 DEF EquipTyped, EquipStep
    <3>5. EquipRight(p)'
      BY <1>1, <1>4, <3>1 DEF EquipRight
    <3> QED BY <3>3, <3>4, <3>5
  <2> QED BY <2>2, <2>3
<1> QED BY <1>5, EquipSteps

\* the fold over a list takes its records one after the other
FoldRule(it, b, recs, n) ==
    it = [s \in SUBSET (1 .. n) |-> IF s = {} THEN b ELSE Zone!Take(it[s \ {Zone!Max(s)}], recs[Zone!Max(s)])]

LEMMA LastOfThem == ASSUME NEW n \in Nat, NEW s \in SUBSET (1 .. n + 1), n + 1 \in s PROVE Zone!Max(s) = n + 1
<1>1. n + 1 \in s /\ \A y \in s : n + 1 >= y
  OBVIOUS
<1>2. \A x \in s : (\A y \in s : x >= y) => x = n + 1
  OBVIOUS
<1> QED BY <1>1, <1>2, Zenon DEF Zone!Max

LEMMA FoldStep ==
    ASSUME NEW b, NEW recs, NEW n \in Nat, NEW it, FoldRule(it, b, recs, n)
    PROVE  \E i2 : FoldRule(i2, b, recs, n + 1)
<1> DEFINE i2 == [s \in SUBSET (1 .. n + 1) |-> IF n + 1 \in s THEN Zone!Take(it[s \ {n + 1}], recs[n + 1]) ELSE it[s]]
           val(s) == IF s = {} THEN b ELSE Zone!Take(i2[s \ {Zone!Max(s)}], recs[Zone!Max(s)])
<1>1. ASSUME NEW s \in SUBSET (1 .. n) PROVE s \in SUBSET (1 .. n + 1) /\ n + 1 \notin s
  OBVIOUS
<1>2. ASSUME NEW s \in SUBSET (1 .. n) PROVE i2[s] = it[s]
  BY <1>1
<1>3. ASSUME NEW s \in SUBSET (1 .. n + 1), n + 1 \in s PROVE i2[s] = Zone!Take(it[s \ {n + 1}], recs[n + 1]) /\ s \ {n + 1} \in SUBSET (1 .. n)
  BY <1>3
<1>4. \A s \in SUBSET (1 .. n) : it[s] = IF s = {} THEN b ELSE Zone!Take(it[s \ {Zone!Max(s)}], recs[Zone!Max(s)])
  BY DEF FoldRule
<1>5. i2 = [s \in SUBSET (1 .. n + 1) |-> i2[s]]
  OBVIOUS
<1> HIDE DEF i2
<1>6. ASSUME NEW s \in SUBSET (1 .. n + 1) PROVE i2[s] = val(s)
  <2>1. CASE n + 1 \in s
    <3>1. Zone!Max(s) = n + 1 /\ s # {}
      BY <2>1, LastOfThem
    <3>2. i2[s] = Zone!Take(it[s \ {n + 1}], recs[n + 1]) /\ i2[s \ {n + 1}] = it[s \ {n + 1}]
      BY <1>2, <1>3, <2>1
    <3> QED BY <3>1, <3>2
  <2>2. CASE n + 1 \notin s
    <3>1. s \in SUBSET (1 .. n)
      BY <2>2
    <3>2. s \ {Zone!Max(s)} \in SUBSET (1 .. n)
      BY <3>1
    <3>3. i2[s] = it[s] /\ i2[s \ {Zone!Max(s)}] = it[s \ {Zone!Max(s)}]
      BY <1>2, <3>1, <3>2
    <3> QED BY <1>4, <3>1, <3>3
  <2> QED BY <2>1, <2>2
<1>7. i2 = [s \in SUBSET (1 .. n + 1) |-> val(s)]
  <2> HIDE DEF val
  <2>1. [s \in SUBSET (1 .. n + 1) |-> i2[s]] = [s \in SUBSET (1 .. n + 1) |-> val(s)]
    BY <1>6
  <2> QED BY <1>5, <2>1, Zenon
<1> QED BY <1>7, Zenon DEF FoldRule

LEMMA FoldIs ==
    ASSUME NEW b, NEW recs, NEW n \in Nat, DOMAIN recs = 1 .. n
    PROVE  \E it : FoldRule(it, b, recs, n) /\ Zone!FoldLeft(Zone!Take, b, recs) = it[1 .. n]
<1> DEFINE holds == {m \in Nat : \E it : FoldRule(it, b, recs, m)}
<1>1. 0 \in holds
  <2> DEFINE it == [s \in SUBSET (1 .. 0) |-> b]
  <2>1. \A s \in SUBSET (1 .. 0) : s = {}
    OBVIOUS
  <2>2. it = [s \in SUBSET (1 .. 0) |-> IF s = {} THEN b ELSE Zone!Take(it[s \ {Zone!Max(s)}], recs[Zone!Max(s)])]
    BY <2>1
  <2>3. FoldRule(it, b, recs, 0)
    BY <2>2, Zenon DEF FoldRule
  <2> QED BY <2>3
<1>2. \A m \in 0 .. n : m < n /\ m \in holds => m + 1 \in holds
  BY FoldStep
<1> HIDE DEF holds
<1>3. n \in holds
  BY <1>1, <1>2, UpTo
<1>4. \E it : FoldRule(it, b, recs, n)
  BY <1>3 DEF holds
<1> DEFINE it == CHOOSE it : FoldRule(it, b, recs, n)
<1>5. FoldRule(it, b, recs, n)
  BY <1>4, Zenon
<1>6. Zone!FoldLeft(Zone!Take, b, recs) = it[1 .. n]
  BY DEF Zone!FoldLeft, Zone!MapThenFoldSet, FoldRule
<1> QED BY <1>5, <1>6

LEMMA CountedInZone == ASSUME NEW S PROVE Zone!Cardinality(S) = Cardinality(S)
  BY Zenon DEF Cardinality, Zone!Cardinality

\* the first places of a list's quests, and how many they are
FirstsAre(w) ==
    /\ Zone!FirstAt(w) \subseteq 1 .. Len(w) /\ IsFiniteSet(Zone!FirstAt(w))
    /\ Zone!Cardinality(Zone!FirstAt(w)) = Cardinality(Zone!FirstAt(w)) /\ Cardinality(Zone!FirstAt(w)) \in Nat
    /\ \A i \in Zone!FirstAt(w) : Zone!Rank(w, i) \in 1 .. Cardinality(Zone!FirstAt(w))
LEMMA FirstFacts == ASSUME NEW w \in Seq(Zone!Records) PROVE FirstsAre(w)
<1> DEFINE F == Zone!FirstAt(w)
<1>1. F \subseteq 1 .. Len(w) /\ Len(w) \in Nat
  BY DEF Zone!FirstAt
<1>2. IsFiniteSet(F)
  <2>1. IsFiniteSet(1 .. Len(w))
    BY <1>1, FS_Interval
  <2> HIDE DEF F
  <2> QED BY <1>1, <2>1, FS_Subset
<1>3. Zone!Cardinality(F) = Cardinality(F) /\ Cardinality(F) \in Nat
  <2> HIDE DEF F
  <2> QED BY <1>2, CountedInZone, FS_CardinalityType
<1>4. ASSUME NEW i \in F PROVE Zone!Rank(w, i) \in 1 .. Cardinality(F)
  <2> DEFINE G == {j \in F : j =< i}
  <2>1. Zone!Rank(w, i) = Cardinality(G)
    BY CountedInZone DEF Zone!Rank
  <2>2. i \in G
    BY <1>1
  <2>3. G \subseteq F
    OBVIOUS
  <2> HIDE DEF F, G
  <2>4. IsFiniteSet(G) /\ Cardinality(G) =< Cardinality(F) /\ Cardinality(G) \in Nat
    BY <1>2, <2>3, FS_Subset, FS_CardinalityType
  <2>5. Cardinality(G) # 0
    BY <2>2, <2>4, FS_EmptySet
  <2> QED BY <1>3, <2>1, <2>4, <2>5
<1> QED BY <1>1, <1>2, <1>3, <1>4 DEF FirstsAre

\* a live record's quest has a first place
LEMMA FirstPlace ==
    ASSUME NEW w \in Seq(Zone!Records), NEW j \in 1 .. Len(w), Zone!Live(w[j])
    PROVE  \E i \in Zone!FirstAt(w) : w[i].quest = w[j].quest
<1> DEFINE S == {i \in 1 .. Len(w) : Zone!Live(w[i]) /\ w[i].quest = w[j].quest}
<1>1. j \in S /\ S \subseteq Nat
  OBVIOUS
<1>2. PICK m \in S : \A i \in S : m =< i
  <2> HIDE DEF S
  <2> QED BY <1>1, FirstNumber
<1>3. m \in DOMAIN w /\ Zone!Live(w[m]) /\ w[m].quest = w[j].quest
  OBVIOUS
<1>4. ASSUME NEW k \in 1 .. m - 1, Zone!Live(w[k]) PROVE w[k].quest # w[m].quest
  <2>1. k \in 1 .. Len(w) /\ k < m
    OBVIOUS
  <2> QED BY <1>2, <1>3, <1>4, <2>1
<1>5. m \in Zone!FirstAt(w)
  BY <1>3, <1>4 DEF Zone!FirstAt
<1> QED BY <1>3, <1>5

\* one more record, of a quest that is new or not
NewIn(w, r) == Zone!Live(r) /\ \A j \in 1 .. Len(w) : Zone!Live(w[j]) => w[j].quest # r.quest
OneMore(w, r, v) ==
    /\ v \in Seq(Zone!Records) /\ Len(v) = Len(w) + 1 /\ v[Len(w) + 1] = r /\ \A i \in 1 .. Len(w) : v[i] = w[i]
    /\ Zone!FirstAt(v) = IF NewIn(w, r) THEN Zone!FirstAt(w) \cup {Len(w) + 1} ELSE Zone!FirstAt(w)
    /\ \A i \in Zone!FirstAt(w) : Zone!Rank(v, i) = Zone!Rank(w, i)
    /\ Cardinality(Zone!FirstAt(v)) = IF NewIn(w, r) THEN Cardinality(Zone!FirstAt(w)) + 1 ELSE Cardinality(Zone!FirstAt(w))
    /\ NewIn(w, r) => Zone!Rank(v, Len(w) + 1) = Cardinality(Zone!FirstAt(w)) + 1
LEMMA OneMoreIs ==
    ASSUME NEW w \in Seq(Zone!Records), NEW r \in Zone!Records
    PROVE  OneMore(w, r, Append(w, r))
<1> DEFINE v == Append(w, r)
           F == Zone!FirstAt(w)
           H == Zone!FirstAt(v)
           n == Len(w)
<1>1. v \in Seq(Zone!Records) /\ Len(v) = n + 1 /\ v[n + 1] = r /\ (\A i \in 1 .. n : v[i] = w[i]) /\ n \in Nat
  OBVIOUS
<1>2. DOMAIN v = 1 .. n + 1 /\ DOMAIN w = 1 .. n
  BY <1>1
<1>3. IsFiniteSet(F) /\ F \subseteq 1 .. n /\ Cardinality(F) \in Nat
  BY FirstFacts DEF FirstsAre
<1> HIDE DEF v, n
<1>4. ASSUME NEW i \in 1 .. n PROVE i \in H <=> i \in F
  <2>1. v[i] = w[i] /\ i \in DOMAIN v /\ i \in DOMAIN w /\ \A j \in 1 .. i - 1 : v[j] = w[j]
    BY <1>1, <1>2
  <2> QED BY <2>1 DEF Zone!FirstAt
<1>5. n + 1 \in H <=> NewIn(w, r)
  <2>1. n + 1 \in DOMAIN v /\ 1 .. (n + 1) - 1 = 1 .. n
    BY <1>1, <1>2
  <2>2. n + 1 \in H <=> Zone!Live(r) /\ \A j \in 1 .. n : Zone!Live(v[j]) => v[j].quest # r.quest
    BY <1>1, <2>1 DEF Zone!FirstAt
  <2>3. NewIn(w, r) <=> Zone!Live(r) /\ \A j \in 1 .. n : Zone!Live(w[j]) => w[j].quest # r.quest
    BY DEF NewIn, n
  <2> QED BY <1>1, <2>2, <2>3
<1>6. H \subseteq 1 .. n + 1
  BY <1>2 DEF Zone!FirstAt
<1> HIDE DEF F, H
<1>7. H = IF NewIn(w, r) THEN F \cup {n + 1} ELSE F
  <2>1. \A i \in 1 .. n + 1 : i \in 1 .. n \/ i = n + 1
    BY <1>1
  <2>2. n + 1 \notin F
    BY <1>1, <1>3
  <2>3. CASE NewIn(w, r)
    <3>1. \A i : i \in H <=> i \in F \/ i = n + 1
      BY <1>3, <1>4, <1>5, <1>6, <2>1, <2>3
    <3> QED BY <2>3, <3>1
  <2>4. CASE ~NewIn(w, r)
    <3>1. \A i : i \in H <=> i \in F
      BY <1>3, <1>4, <1>5, <1>6, <2>1, <2>4
    <3> QED BY <2>4, <3>1
  <2> QED BY <2>3, <2>4
<1>8. ASSUME NEW i \in F PROVE Zone!Rank(v, i) = Zone!Rank(w, i)
  <2>1. {j \in H : j =< i} = {j \in F : j =< i}
    BY <1>1, <1>3, <1>7
  <2> QED BY <2>1 DEF Zone!Rank, F, H
<1>9. Cardinality(H) = IF NewIn(w, r) THEN Cardinality(F) + 1 ELSE Cardinality(F)
  <2>1. n + 1 \notin F
    BY <1>1, <1>3
  <2>2. Cardinality(F \cup {n + 1}) = Cardinality(F) + 1
    BY <1>3, <2>1, FS_AddElement
  <2> QED BY <1>7, <2>2
<1>10. NewIn(w, r) => Zone!Rank(v, n + 1) = Cardinality(F) + 1
  <2> SUFFICES ASSUME NewIn(w, r) PROVE Zone!Rank(v, n + 1) = Cardinality(F) + 1
    OBVIOUS
  <2>0. \A j \in H : j =< n + 1
    BY <1>1, <1>6
  <2>1. {j \in H : j =< n + 1} = H
    BY <2>0
  <2>2. Zone!Rank(v, n + 1) = Cardinality(H)
    BY <2>1, CountedInZone DEF Zone!Rank, H
  <2> QED BY <1>9, <2>2
<1> QED BY <1>1, <1>7, <1>8, <1>9, <1>10 DEF OneMore, F, H, v, n

LEMMA FollowsOn ==
    ASSUME NEW w \in Seq(Zone!Records), NEW t \in Seq(Quests), NEW r \in Zone!Records, Follows(t, w)
    PROVE  Zone!Take(t, r) \in Seq(Quests) /\ Follows(Zone!Take(t, r), Append(w, r))
<1> DEFINE v == Append(w, r)
           F == Zone!FirstAt(w)
           H == Zone!FirstAt(v)
           n == Len(w)
           c == Cardinality(F)
           u == Zone!Take(t, r)
<1>1. kTracked \in Nat \ {0} /\ r.quest \in Quests /\ n \in Nat /\ Len(t) \in Nat /\ DOMAIN t = 1 .. Len(t)
  BY BridgesOK DEF Zone!ZoneBridgeOK, Zone!Records
<1>2. /\ v[n + 1] = r /\ (\A i \in 1 .. n : v[i] = w[i]) /\ (\A i \in F : Zone!Rank(v, i) = Zone!Rank(w, i))
      /\ H = (IF NewIn(w, r) THEN F \cup {n + 1} ELSE F)
      /\ Cardinality(H) = (IF NewIn(w, r) THEN c + 1 ELSE c)
      /\ (NewIn(w, r) => Zone!Rank(v, n + 1) = c + 1) /\ v \in Seq(Zone!Records)
  BY OneMoreIs DEF OneMore
<1>3. F \subseteq 1 .. n /\ c \in Nat /\ \A i \in F : Zone!Rank(w, i) \in 1 .. c
  BY FirstFacts DEF FirstsAre
<1>4. Zone!Cardinality(F) = c /\ Zone!Cardinality(H) = Cardinality(H)
  BY CountedInZone
<1>5. \A i \in F : Zone!Rank(w, i) =< kTracked => Zone!Rank(w, i) \in DOMAIN t /\ t[Zone!Rank(w, i)] = w[i].quest
  BY Zenon DEF Follows
<1>6. Len(t) = IF c < kTracked THEN c ELSE kTracked
  BY <1>4 DEF Follows
<1>7. \A k \in DOMAIN t : \E i \in F : w[i].quest = t[k]
  BY Zenon DEF Follows
<1>8. \A i \in F : Zone!Live(w[i])
  BY DEF Zone!FirstAt
<1> HIDE DEF v, F, H, n, c
<1>9. CASE ~NewIn(w, r)
  <2>1. u = t
    <3>1. CASE ~Zone!Live(r)
      BY <3>1 DEF Zone!Take
    <3>2. CASE Zone!Live(r) /\ Len(t) < kTracked
      <4>1. PICK j \in 1 .. Len(w) : Zone!Live(w[j]) /\ w[j].quest = r.quest
        BY <1>9, <3>2 DEF NewIn
      <4>2. PICK i \in F : w[i].quest = r.quest
        BY <4>1, FirstPlace DEF F
      <4>3. Zone!Rank(w, i) =< kTracked
        BY <1>1, <1>3, <1>6, <3>2
      <4>4. Zone!Rank(w, i) \in 1 .. Len(t) /\ t[Zone!Rank(w, i)] = r.quest
        BY <1>1, <1>5, <4>2, <4>3
      <4>5. Zone!Contains(t, r.quest)
        BY <4>4 DEF Zone!Contains
      <4> QED BY <4>5 DEF Zone!Take
    <3>3. CASE ~(Len(t) < kTracked)
      BY <3>3 DEF Zone!Take
    <3> QED BY <3>1, <3>2, <3>3
  <2> HIDE DEF u
  <2>2. H = F /\ Cardinality(H) = c
    BY <1>2, <1>9
  <2>3. \A i \in H : Zone!Rank(v, i) =< kTracked => Zone!Rank(v, i) \in DOMAIN u /\ u[Zone!Rank(v, i)] = v[i].quest
    BY <1>2, <1>3, <1>5, <2>1, <2>2
  <2>4. Len(u) = IF Zone!Cardinality(H) < kTracked THEN Zone!Cardinality(H) ELSE kTracked
    BY <1>4, <1>6, <2>1, <2>2
  <2>5. \A k \in DOMAIN u : \E i \in H : v[i].quest = u[k]
    BY <1>2, <1>3, <1>7, <2>1, <2>2
  <2> QED BY <2>1, <2>3, <2>4, <2>5 DEF Follows, H, v, u
<1>10. CASE NewIn(w, r)
  <2>1. Zone!Live(r) /\ \A k \in DOMAIN t : t[k] # r.quest
    <3>1. \A i \in F : w[i].quest # r.quest
      BY <1>3, <1>8, <1>10 DEF NewIn, n
    <3> QED BY <1>7, <1>10, <3>1 DEF NewIn
  <2>2. ~Zone!Contains(t, r.quest)
    BY <1>1, <2>1 DEF Zone!Contains
  <2>3. u = IF Len(t) < kTracked THEN Append(t, r.quest) ELSE t
    BY <2>1, <2>2 DEF Zone!Take
  <2> HIDE DEF u
  <2>4. H = F \cup {n + 1} /\ Cardinality(H) = c + 1 /\ Zone!Rank(v, n + 1) = c + 1
    BY <1>2, <1>10
  <2>5. CASE Len(t) < kTracked
    <3>1. u = Append(t, r.quest) /\ c = Len(t)
      BY <1>1, <1>3, <1>6, <2>3, <2>5
    <3>2. u \in Seq(Quests) /\ Len(u) = Len(t) + 1 /\ u[Len(t) + 1] = r.quest /\ \A k \in 1 .. Len(t) : u[k] = t[k]
      BY <1>1, <3>1
    <3>3. DOMAIN u = 1 .. Len(t) + 1
      BY <3>2
    <3>4. ASSUME NEW i \in H, Zone!Rank(v, i) =< kTracked PROVE Zone!Rank(v, i) \in DOMAIN u /\ u[Zone!Rank(v, i)] = v[i].quest
      <4>1. CASE i \in F
        <5>1. Zone!Rank(v, i) = Zone!Rank(w, i) /\ v[i] = w[i]
          BY <1>2, <1>3, <4>1
        <5>2. Zone!Rank(w, i) \in 1 .. Len(t) /\ t[Zone!Rank(w, i)] = w[i].quest
          BY <1>1, <1>5, <3>4, <4>1, <5>1
        <5> QED BY <1>1, <3>2, <3>3, <5>1, <5>2
      <4>2. CASE i = n + 1
        BY <1>1, <1>2, <2>4, <3>1, <3>2, <3>3, <4>2
      <4> QED BY <2>4, <4>1, <4>2
    <3>5. Len(u) = IF Zone!Cardinality(H) < kTracked THEN Zone!Cardinality(H) ELSE kTracked
      BY <1>1, <1>3, <1>4, <2>4, <2>5, <3>1, <3>2
    <3>6. ASSUME NEW k \in DOMAIN u PROVE \E i \in H : v[i].quest = u[k]
      <4>1. CASE k = Len(t) + 1
        <5>1. n + 1 \in H /\ v[n + 1].quest = u[k]
          BY <1>2, <2>4, <3>2, <4>1
        <5> QED BY <5>1
      <4>2. CASE k # Len(t) + 1
        <5>1. k \in DOMAIN t /\ u[k] = t[k]
          BY <1>1, <3>2, <3>3, <4>2
        <5>2. PICK i \in F : w[i].quest = t[k]
          BY <1>7, <5>1
        <5>3. i \in H /\ v[i].quest = u[k]
          BY <1>2, <1>3, <2>4, <5>1, <5>2
        <5> QED BY <5>3
      <4> QED BY <4>1, <4>2
    <3> QED BY <3>2, <3>4, <3>5, <3>6 DEF Follows, H, v, u
  <2>6. CASE ~(Len(t) < kTracked)
    <3>1. u = t /\ c >= kTracked /\ Len(t) = kTracked
      BY <1>1, <1>3, <1>6, <2>3, <2>6
    <3>2. ASSUME NEW i \in H, Zone!Rank(v, i) =< kTracked PROVE Zone!Rank(v, i) \in DOMAIN u /\ u[Zone!Rank(v, i)] = v[i].quest
      <4>1. i \in F
        BY <1>1, <1>3, <2>4, <3>1, <3>2
      <4> QED BY <1>2, <1>3, <1>5, <3>1, <3>2, <4>1
    <3>3. Len(u) = IF Zone!Cardinality(H) < kTracked THEN Zone!Cardinality(H) ELSE kTracked
      BY <1>1, <1>3, <1>4, <2>4, <3>1
    <3>4. ASSUME NEW k \in DOMAIN u PROVE \E i \in H : v[i].quest = u[k]
      <4>1. PICK i \in F : w[i].quest = t[k]
        BY <1>7, <3>1
      <4>2. i \in H /\ v[i].quest = u[k]
        BY <1>2, <1>3, <2>4, <3>1, <4>1
      <4> QED BY <4>2
    <3> QED BY <3>1, <3>2, <3>3, <3>4 DEF Follows, H, v, u
  <2> QED BY <2>5, <2>6
<1> QED BY <1>9, <1>10

\* a list and the first k records of the next chunk
LEMMA ChunkGrows ==
    ASSUME NEW w \in Seq(Zone!Records), NEW recs \in Seq(Zone!Records), NEW k \in Nat, k < Len(recs)
    PROVE  /\ w \o SubSeq(recs, 1, k) \in Seq(Zone!Records)
           /\ w \o SubSeq(recs, 1, k + 1) = Append(w \o SubSeq(recs, 1, k), recs[k + 1])
<1> DEFINE a == SubSeq(recs, 1, k)
           b == SubSeq(recs, 1, k + 1)
           r == recs[k + 1]
<1>1. a \in Seq(Zone!Records) /\ Len(a) = k /\ \A i \in 1 .. k : a[i] = recs[i]
  OBVIOUS
<1>2. b \in Seq(Zone!Records) /\ Len(b) = k + 1 /\ \A i \in 1 .. k + 1 : b[i] = recs[i]
  OBVIOUS
<1>3. r \in Zone!Records
  OBVIOUS
<1> HIDE DEF a, b, r
<1>4. b = Append(a, r)
  <2> DEFINE d == Append(a, r)
  <2>1. d \in Seq(Zone!Records) /\ Len(d) = k + 1 /\ d[k + 1] = r /\ \A i \in 1 .. k : d[i] = a[i]
    BY <1>1, <1>3
  <2> HIDE DEF d
  <2>2. \A i \in 1 .. Len(d) : d[i] = b[i]
    BY <1>1, <1>2, <2>1 DEF r
  <2>3. d = b
    BY <1>2, <2>1, <2>2
  <2> QED BY <2>3 DEF d
<1>5. w \o Append(a, r) = Append(w \o a, r) /\ w \o a \in Seq(Zone!Records)
  BY <1>1, <1>3
<1> QED BY <1>4, <1>5 DEF a, b, r

LEMMA ListFollows ==
    ASSUME NEW w \in Seq(Zone!Records), NEW t \in Seq(Quests), Follows(t, w), NEW recs \in Seq(Zone!Records)
    PROVE  Zone!FoldLeft(Zone!Take, t, recs) \in Seq(Quests) /\ Follows(Zone!FoldLeft(Zone!Take, t, recs), w \o recs)
<1>1. PICK n \in Nat : n = Len(recs) /\ DOMAIN recs = 1 .. n
  OBVIOUS
<1>2. PICK it : FoldRule(it, t, recs, n) /\ Zone!FoldLeft(Zone!Take, t, recs) = it[1 .. n]
  BY <1>1, FoldIs
<1>3. it[1 .. 0] = t
  <2>1. 1 .. 0 \in SUBSET (1 .. n) /\ 1 .. 0 = {}
    OBVIOUS
  <2> QED BY <1>2, <2>1 DEF FoldRule
<1>4. ASSUME NEW k \in Nat, k < n PROVE it[1 .. k + 1] = Zone!Take(it[1 .. k], recs[k + 1])
  <2>1. 1 .. k + 1 \in SUBSET (1 .. n) /\ 1 .. k + 1 # {} /\ (1 .. k + 1) \ {k + 1} = 1 .. k /\ k + 1 \in 1 .. k + 1
    BY <1>4
  <2>2. Zone!Max(1 .. k + 1) = k + 1
    BY <2>1, LastOfThem
  <2> QED BY <1>2, <2>1, <2>2 DEF FoldRule
<1> DEFINE S == {k \in Nat : it[1 .. k] \in Seq(Quests) /\ Follows(it[1 .. k], w \o SubSeq(recs, 1, k))}
<1>5. 0 \in S
  <2>1. SubSeq(recs, 1, 0) = << >> /\ w \o << >> = w
    OBVIOUS
  <2> QED BY <1>3, <2>1
<1>6. ASSUME NEW k \in 0 .. n, k < n, k \in S PROVE k + 1 \in S
  <2>1. k \in Nat /\ k < Len(recs) /\ recs[k + 1] \in Zone!Records
    BY <1>1, <1>6
  <2>2. PICK v : v = w \o SubSeq(recs, 1, k)
    OBVIOUS
  <2>3. v \in Seq(Zone!Records) /\ w \o SubSeq(recs, 1, k + 1) = Append(v, recs[k + 1])
    BY <2>1, <2>2, ChunkGrows
  <2>4. PICK u : u = it[1 .. k]
    OBVIOUS
  <2>5. u \in Seq(Quests) /\ Follows(u, v)
    BY <1>6, <2>2, <2>4
  <2>6. Zone!Take(u, recs[k + 1]) \in Seq(Quests) /\ Follows(Zone!Take(u, recs[k + 1]), Append(v, recs[k + 1]))
    BY <2>1, <2>3, <2>5, FollowsOn
  <2>7. it[1 .. k + 1] = Zone!Take(u, recs[k + 1])
    BY <1>4, <1>6, <2>1, <2>4
  <2>8. it[1 .. k + 1] \in Seq(Quests) /\ Follows(it[1 .. k + 1], w \o SubSeq(recs, 1, k + 1))
    BY <2>3, <2>6, <2>7, Zenon
  <2>9. k + 1 \in Nat
    BY <2>1
  <2> QED BY <2>8, <2>9
<1> HIDE DEF S
<1>7. n \in S
  <2>1. \A k \in 0 .. n : k < n /\ k \in S => k + 1 \in S
    BY <1>6, Zenon
  <2>2. \A k \in 0 .. n : k \in S
    BY <1>5, <2>1, UpTo
  <2> QED BY <2>2
<1>8. SubSeq(recs, 1, n) = recs
  BY <1>1
<1> QED BY <1>2, <1>7, <1>8 DEF S

LEMMA ListZone ==
    ASSUME ZoneInv, NEW p \in Players, NEW clear \in BOOLEAN, NEW n \in 0 .. 2, NEW recs \in [1 .. n -> Zone!Records],
           Zone!DoingList(p, clear, recs)
    PROVE  ZoneInv'
<1>0. QuestsTyped /\ TrackerRight(p) /\ whole[p] \in Seq(Zone!Records) /\ tracked[p] \in Seq(Quests)
  BY DEF ZoneInv, ZoneTyped, QuestsTyped, PlayerRight
<1>1. recs \in Seq(Zone!Records)
  <2>1. n \in Nat
    OBVIOUS
  <2> QED BY <2>1
<1>2. PICK w, t : w = (IF clear THEN << >> ELSE whole[p]) /\ t = (IF clear THEN << >> ELSE tracked[p])
  OBVIOUS
<1>3. w \in Seq(Zone!Records) /\ t \in Seq(Quests) /\ w \o recs \in Seq(Zone!Records)
  <2>1. w \in Seq(Zone!Records) /\ t \in Seq(Quests)
    BY <1>0, <1>2
  <2> QED BY <1>1, <2>1
<1>4. online[p] /\ whole' = [whole EXCEPT ![p] = w \o recs] /\ zoneReal' = zoneReal /\ online' = online
  BY <1>2 DEF Zone!DoingList
<1>5. UNCHANGED <<part, zoneReal, client, online, ends, announces, pending, script, crossed, down, up, dialog,
                  worn, drawn, empties, extra, has, record>>
  BY DEF Zone!DoingList, Zone!dialogVars, Zone!equipVars, Zone!stateVars
<1>6. QuestStep(p) /\ QuestsTyped' /\ TrackerRight(p)'
  <2>1. CASE Zone!to2026(p)
    <3>1. zoneReal[p] = Zone!New
      BY <1>4, <2>1, WhichClient
    <3>2. Follows(tracked[p], whole[p])
      BY <1>0, <1>4, <3>1 DEF TrackerRight
    <3>3. Follows(t, w)
      BY <1>2, <3>2, NothingFollows
    <3>4. PICK u : u = Zone!FoldLeft(Zone!Take, t, recs)
      OBVIOUS
    <3>5. u \in Seq(Quests) /\ Follows(u, w \o recs)
      BY <1>1, <1>3, <3>3, <3>4, ListFollows
    <3>6. tracked' = [tracked EXCEPT ![p] = u] /\ tracker' = [tracker EXCEPT ![p] = tracked'[p]]
      BY <1>2, <2>1, <3>4 DEF Zone!DoingList
    <3>7. tracked'[p] = u /\ tracker'[p] = u /\ whole'[p] = w \o recs
      BY <1>0, <1>4, <3>6 DEF QuestsTyped
    <3>8. QuestsTyped'
      BY <1>0, <1>3, <1>4, <3>5, <3>6, <3>7 DEF QuestsTyped
    <3>9. QuestStep(p)
      BY <1>0, <1>4, <1>5, <3>6 DEF QuestsTyped, QuestStep
    <3>10. TrackerRight(p)'
      <4>1. Follows(tracked[p], whole[p])'
        <5>1. Follows(u, w \o recs)
          BY <3>5
        <5> QED BY <3>7, <5>1 DEF Follows
      <4> QED BY <3>7, <4>1 DEF TrackerRight
    <3> QED BY <3>8, <3>9, <3>10
  <2>2. CASE ~Zone!to2026(p)
    <3>1. zoneReal[p] # Zone!New
      BY <1>4, <2>2, WhichClient
    <3>2. tracked' = tracked /\ tracker' = tracker
      BY <2>2 DEF Zone!DoingList
    <3>3. QuestsTyped'
      BY <1>0, <1>3, <1>4, <3>2 DEF QuestsTyped
    <3>4. QuestStep(p)
      BY <1>0, <1>4, <1>5, <3>2 DEF QuestsTyped, QuestStep
    <3>5. TrackerRight(p)'
      BY <1>4, <3>1 DEF TrackerRight
    <3> QED BY <3>3, <3>4, <3>5
  <2> QED BY <2>1, <2>2
<1> QED BY <1>6, QuestSteps

LEMMA ZoneSteps == ASSUME ZoneInv, Zone!Next PROVE ZoneInv'
<1>1. CASE \E p \in Players : \/ \E c \in {Zone!Old, Zone!New} : Zone!Connect(p, c)
                              \/ Zone!MapLogin(p) \/ Zone!Leave(p)
                              \/ \E clear \in BOOLEAN, n \in 0 .. 2 : \E recs \in [1 .. n -> Zone!Records] : Zone!DoingList(p, clear, recs)
                              \/ Zone!Open(p) \/ Zone!Ack(p) \/ Zone!EndOfTrade(p) \/ Zone!Click(p) \/ Zone!Dismiss(p) \/ Zone!Hear(p)
                              \/ Zone!Wait(p)
                              \/ \E s \in Zone!Range16, new \in DOMAIN Items \cup {Zone!NoItem} : Zone!Equip(p, s, new)
                              \/ \E h \in Handles : Zone!LoginCharacter(p, h)
  BY <1>1, ConnectZone, MapLoginZone, LeaveZone, ListZone, OpenZone, AckZone, EndOfTradeZone, ClickZone, DismissZone, HearZone, WaitZone,
     EquipZone, ZoneStates
<1>2. CASE \E h \in Handles : \/ \E x \in Extra, on \in BOOLEAN : Zone!SetState(h, x, on)
                              \/ \E states \in SUBSET Extra : Zone!Reuse(h, states)
  BY <1>2, ZoneStates
<1> QED BY <1>1, <1>2 DEF Zone!Next

\* what the invariant says of what a client shows
LEMMA ZoneHolds ==
    ASSUME ZoneInv
    PROVE  Zone!TrackerListRight /\ Zone!EquipDrawn /\ Zone!RecordStates /\ Zone!NoDialogStuck
<1>1. Zone!TrackerListRight
  <2> SUFFICES ASSUME NEW p \in Players, online[p], zoneReal[p] = Zone!New
      PROVE  /\ Len(tracker[p]) = IF Zone!Cardinality(Zone!FirstAt(whole[p])) < kTracked THEN Zone!Cardinality(Zone!FirstAt(whole[p])) ELSE kTracked
             /\ \A i \in Zone!FirstAt(whole[p]) : Zone!Rank(whole[p], i) =< kTracked => tracker[p][Zone!Rank(whole[p], i)] = whole[p][i].quest
    BY DEF Zone!TrackerListRight
  <2>1. Follows(tracked[p], whole[p]) /\ tracker[p] = tracked[p]
    BY DEF ZoneInv, PlayerRight, TrackerRight
  <2> QED BY <2>1 DEF Follows
<1>2. Zone!EquipDrawn
  <2> SUFFICES ASSUME NEW p \in Players, online[p], zoneReal[p] = Zone!New, NEW t \in Zone!Folded
      PROVE  drawn[p][t] = IF \E s \in Zone!Range16 : Zone!Drawn(worn[p][s]) = t
                           THEN CHOOSE i \in DOMAIN Items : Items[i].s26 = t /\ worn[p][Items[i].s16] = i ELSE Zone!NoItem
    BY DEF Zone!EquipDrawn
  <2>1. /\ \A i \in DOMAIN Items : drawn[p][t] = i <=> Items[i].s26 = t /\ worn[p][Items[i].s16] = i
        /\ \A s \in Zone!Range16 : worn[p][s] # Zone!NoItem => Items[worn[p][s]].s16 = s
    BY DEF ZoneInv, PlayerRight, EquipRight
  <2>2. /\ worn[p] \in [Zone!Range16 -> DOMAIN Items \cup {Zone!NoItem}]
        /\ drawn[p][t] \in DOMAIN Items \cup {Zone!NoItem}
    BY DEF ZoneInv, ZoneTyped, EquipTyped
  <2>3. CASE \E s \in Zone!Range16 : Zone!Drawn(worn[p][s]) = t
    <3>1. PICK s \in Zone!Range16 : Zone!Drawn(worn[p][s]) = t
      BY <2>3
    <3>2. PICK i : i = worn[p][s]
      OBVIOUS
    <3>3. i \in DOMAIN Items /\ Items[i].s26 = t
      BY <2>2, <3>1, <3>2, ItemFacts DEF Zone!Drawn, Zone!NoSlot
    <3>4. Items[i].s16 = s
      BY <2>1, <3>2, <3>3, ItemFacts
    <3>5. drawn[p][t] = i /\ Items[i].s26 = t /\ worn[p][Items[i].s16] = i
      BY <2>1, <3>2, <3>3, <3>4
    <3>6. \A j \in DOMAIN Items : Items[j].s26 = t /\ worn[p][Items[j].s16] = j => j = i
      BY <2>1, <3>5
    <3>7. i = CHOOSE j \in DOMAIN Items : Items[j].s26 = t /\ worn[p][Items[j].s16] = j
      BY <3>3, <3>5, <3>6
    <3> QED BY <2>3, <3>5, <3>7
  <2>4. CASE ~\E s \in Zone!Range16 : Zone!Drawn(worn[p][s]) = t
    <3>1. ASSUME NEW i \in DOMAIN Items, drawn[p][t] = i PROVE FALSE
      <4>1. Items[i].s26 = t /\ worn[p][Items[i].s16] = i /\ Items[i].s16 \in Zone!Range16 /\ i # Zone!NoItem
        BY <2>1, <3>1, ItemFacts
      <4>2. Zone!Drawn(i) = t
        BY <4>1 DEF Zone!Drawn
      <4> QED BY <2>4, <4>1, <4>2
    <3> QED BY <2>2, <2>4, <3>1
  <2> QED BY <2>3, <2>4
<1>3. Zone!RecordStates
  BY DEF ZoneInv, StatesRight, Zone!RecordStates
<1>4. Zone!NoDialogStuck
  <2> SUFFICES ASSUME NEW p \in Players, online[p], ~crossed[p], ~script[p], down[p] = << >>, up[p] = << >> PROVE dialog[p] = "closed"
    BY DEF Zone!NoDialogStuck
  <2>1. OldDialog(p) => dialog[p] = "closed"
    BY DEF OldDialog
  <2>2. NewDialog(p) => dialog[p] = "closed"
    <3>1. ~HasClose(<< >>) /\ << >> # <<"page">>
      BY DEF HasClose
    <3> QED BY <3>1 DEF NewDialog, Closing
  <2> QED BY <2>1, <2>2, WhichClient
<1> QED BY <1>1, <1>2, <1>3, <1>4

LEMMA ZoneStays == ASSUME ZoneInv PROVE Zone!LegalClientsStay
<1> SUFFICES ASSUME NEW p \in Players, NEW r \in Zone!Requests \ Uncovered, online[p], zoneReal[p] = Zone!New PROVE Zone!Becomes(p, r) # "hung up"
  BY DEF Zone!LegalClientsStay
<1>1. Zone!to2026(p)
  BY WhichClient
<1>2. CASE r \in Zone!Registered
  BY <1>2 DEF Zone!Becomes, Zone!Registered, Zone!Answers
<1>3. CASE r \in Zone!Answers
  BY <1>3 DEF Zone!Becomes, Zone!Registered, Zone!Answers
<1>4. CASE r \in {"logout", "wrapped logout"}
  BY <1>4 DEF Zone!Becomes, Zone!Registered, Zone!Answers
<1>5. CASE r \in {"track10", "wrapped other"}
  BY <1>5 DEF Zone!Becomes, Zone!Registered, Zone!Answers
<1>6. CASE r \in {"whisper", "unknown", "late unknown"}
  <2>1. Zone!Becomes(p, r) = Zone!Unregistered(p, r)
    BY <1>6 DEF Zone!Becomes, Zone!Registered, Zone!Answers
  <2>2. r # "map status" /\ r \notin Uncovered
    BY <1>6
  <2>3. Zone!Unregistered(p, r) \in {"relayed", "dropped"}
    BY <1>1, <2>2 DEF Zone!Unregistered
  <2> QED BY <2>1, <2>3
<1> QED BY <1>2, <1>3, <1>4, <1>5, <1>6 DEF Zone!Answers, Zone!Registered, Zone!Requests
-----------------------------------------------------------------------------
(* The tables. *)

\* what the login compares a table's slot with, and what of a table the zone has read
Expected(t) == IF Tables[t].kind = "unchecked" THEN Client!Zeros ELSE Client!Sum(t, file[t])
IsRead(t) ==
    hooked => /\ slot[Tables[t].slot] = Expected(t)
              /\ Tables[t].kind = "layout" /\ file[t] # << >> => rows[t] = Client!Converted(t)

TablesInv ==
    /\ file \in [Client!Names -> Client!FileRows]
    /\ DOMAIN rows = Client!Names /\ DOMAIN slot = Client!Slots
    /\ DOMAIN sites = 1 .. Sites /\ wide \in BOOLEAN
    /\ pc = "start" => wide = FALSE /\ (\A i \in DOMAIN sites : sites[i] # "wide") /\ \A t \in Client!Names : rows[t] = <<"unread">>
    /\ pc = "up" => \A t \in Client!Names : rows[t] # <<"unread">>
    /\ \A t \in Client!Names : rows[t] # <<"unread">> => IsRead(t)
    /\ Client!WidthAgrees

LEMMA TableFacts == ASSUME NEW t \in Client!Names
    PROVE /\ Tables[t].slot \in Client!Slots /\ Tables[t].kind \in {"layout", "unchecked", "plain"}
          /\ Tables[t].kind = "unchecked" <=> Tables[t].slot \in {24, 25}
          /\ \A u \in Client!Names : Tables[t].slot = Tables[u].slot => t = u
          /\ kMax \in Nat /\ Sites \in Nat
<1>1. Client!BridgeTablesOK
  BY BridgesOK
<1>2. kMax \in Nat /\ Sites \in Nat
  BY <1>1 DEF Client!BridgeTablesOK
<1>3. Tables[t].slot \in Client!Slots /\ Tables[t].kind \in {"layout", "unchecked", "plain"}
  BY <1>1, Zenon DEF Client!BridgeTablesOK
<1>4. Tables[t].kind = "unchecked" <=> Tables[t].slot \in {24, 25}
  BY <1>1, Zenon DEF Client!BridgeTablesOK
<1>5. \A u \in Client!Names : Tables[t].slot = Tables[u].slot => t = u
  BY <1>1, Zenon DEF Client!BridgeTablesOK
<1> QED BY <1>2, <1>3, <1>4, <1>5

LEMMA TablesStart == ASSUME Client!Init PROVE TablesInv
<1>1. file \in [Client!Names -> Client!FileRows] /\ sites \in [1 .. Sites -> {"stock", "other"}]
  BY DEF Client!Init
<1> QED BY <1>1 DEF Client!Init, TablesInv, Client!WidthAgrees

LEMMA StartTables == ASSUME TablesInv, Client!Start PROVE TablesInv'
<1>1. /\ pc = "start" /\ pc' = "reads" /\ UNCHANGED <<file, found, point, rows, slot>>
      /\ UNCHANGED <<sites, wide, hooked>> \/ Client!Widen
  BY DEF Client!Start
<1>2. Sites \in Nat
  BY BridgesOK DEF Client!BridgeTablesOK
<1>3. DOMAIN sites' = 1 .. Sites /\ wide' \in BOOLEAN /\ Client!WidthAgrees'
  <2>1. CASE UNCHANGED <<sites, wide>>
    BY <2>1 DEF TablesInv, Client!WidthAgrees
  <2>2. CASE Client!Widen
    <3>1. CASE \E i \in DOMAIN sites : sites[i] = "other"
      BY <1>1, <2>2, <3>1 DEF Client!Widen, TablesInv, Client!WidthAgrees
    <3>2. CASE ~\E i \in DOMAIN sites : sites[i] = "other"
      <4>1. PICK n \in 0 .. Sites : /\ sites' = [i \in DOMAIN sites |-> IF i =< n THEN "wide" ELSE "stock"]
                                    /\ wide' = (n = Sites)
        BY <2>2, <3>2 DEF Client!Widen
      <4>2. DOMAIN sites' = 1 .. Sites /\ \A i \in 1 .. Sites : sites'[i] # "other" /\ (i =< n => sites'[i] = "wide")
        BY <4>1 DEF TablesInv
      <4>3. wide' \in BOOLEAN /\ (wide' => n = Sites)
        BY <4>1
      <4>4. wide' => \A i \in 1 .. Sites : sites'[i] = "wide"
        BY <1>2, <4>2, <4>3
      <4> QED BY <4>2, <4>3, <4>4 DEF Client!WidthAgrees
    <3> QED BY <3>1, <3>2
  <2> QED BY <1>1, <2>1, <2>2
<1> QED BY <1>1, <1>3 DEF TablesInv

LEMMA KeptRead == ASSUME NEW t, IsRead(t), UNCHANGED <<hooked, wide, file>>, rows'[t] = rows[t], slot'[Tables[t].slot] = slot[Tables[t].slot]
    PROVE IsRead(t)'
<1>1. Client!Converted(t)' = Client!Converted(t)
  BY DEF Client!Converted, Client!Row16
<1> QED BY <1>1 DEF IsRead, Expected

LEMMA ReadTables == ASSUME TablesInv, NEW t \in Client!Names, Client!Read(t) PROVE TablesInv'
<1> DEFINE image == IF hooked /\ Tables[t].kind = "layout" /\ file[t] # << >> THEN Client!Converted(t) ELSE file[t]
           z == Tables[t].slot
<1>1. /\ pc = "reads" /\ UNCHANGED <<file, sites, wide, hooked, pc>>
      /\ rows' = [rows EXCEPT ![t] = image]
      /\ slot' = [slot EXCEPT ![z] = IF hooked THEN Client!SlotAfter(t, image) ELSE Client!Sum(t, image)]
  BY DEF Client!Read
<1>2. Client!SlotAfter(t, image) = Expected(t)
  BY DEF Client!SlotAfter, Expected
<1> HIDE DEF image
<1>3. DOMAIN rows' = Client!Names /\ DOMAIN slot' = Client!Slots /\ rows'[t] = image
      /\ z \in Client!Slots
  BY <1>1, TableFacts DEF TablesInv
<1>4. IsRead(t)'
  <2>1. hooked => slot'[z] = Expected(t)
    BY <1>1, <1>2, <1>3 DEF TablesInv
  <2>2. Client!Converted(t)' = Client!Converted(t) /\ Expected(t)' = Expected(t)
    BY <1>1 DEF Client!Converted, Client!Row16, Expected
  <2>3. hooked /\ Tables[t].kind = "layout" /\ file[t] # << >> => rows'[t] = Client!Converted(t)
    BY <1>3 DEF image
  <2> QED BY <1>1, <2>1, <2>2, <2>3 DEF IsRead
<1>5. ASSUME NEW u \in Client!Names, rows'[u] # <<"unread">> PROVE IsRead(u)'
  <2>1. CASE u = t
    BY <1>4, <2>1
  <2>2. CASE u # t
    <3>1. Tables[u].slot # z /\ Tables[u].slot \in Client!Slots
      BY <2>2, TableFacts
    <3>2. rows'[u] = rows[u] /\ slot'[Tables[u].slot] = slot[Tables[u].slot]
      BY <1>1, <2>2, <3>1 DEF TablesInv
    <3>3. IsRead(u)
      BY <1>5, <3>2 DEF TablesInv
    <3> QED BY <1>1, <3>2, <3>3, KeptRead
  <2> QED BY <2>1, <2>2
<1>6. Client!WidthAgrees'
  BY <1>1 DEF TablesInv, Client!WidthAgrees
<1> QED BY <1>1, <1>3, <1>5, <1>6 DEF TablesInv

LEMMA TablesKept == ASSUME TablesInv, UNCHANGED <<file, sites, wide, hooked, rows, slot>>, pc' = pc \/ Client!Up PROVE TablesInv'
<1>1. ASSUME NEW t \in Client!Names, rows'[t] # <<"unread">> PROVE IsRead(t)'
  BY <1>1, KeptRead DEF TablesInv
<1>2. pc' = "up" => \A t \in Client!Names : rows'[t] # <<"unread">>
  BY DEF TablesInv, Client!Up
<1>3. Client!WidthAgrees'
  BY DEF TablesInv, Client!WidthAgrees
<1>4. pc' = "start" => pc = "start"
  BY DEF Client!Up
<1> QED BY <1>1, <1>2, <1>3, <1>4 DEF TablesInv

LEMMA TablesStep == ASSUME TablesInv, Client!Next \/ UNCHANGED tableVars PROVE TablesInv'
<1>1. CASE Client!Start
  BY <1>1, StartTables
<1>2. CASE \E t \in Client!Names : Client!Read(t)
  BY <1>2, ReadTables
<1>3. CASE Client!Up
  <2>1. UNCHANGED <<file, sites, wide, hooked, rows, slot>>
    BY <1>3 DEF Client!Up
  <2> QED BY <1>3, <2>1, TablesKept
<1>4. CASE UNCHANGED tableVars
  <2>1. UNCHANGED <<file, sites, wide, hooked, rows, slot>> /\ pc' = pc
    BY <1>4 DEF tableVars
  <2> QED BY <2>1, TablesKept
<1> QED BY <1>1, <1>2, <1>3, <1>4 DEF Client!Next

\* the checksums of a login: a table that is checked is found under the number the client has for it
LEMMA SumsAgree == ASSUME NEW t \in Client!Names PROVE Client!MapLogin(Client!ClientSums)[Tables[t].slot] = Expected(t)
<1> DEFINE z == Tables[t].slot
           c == IF z < 24 THEN z ELSE z - 2
           of(y) == {x \in Client!Names : Tables[x].slot = y /\ Tables[x].kind # "unchecked"}
<1>1. z \in 0 .. 48
  BY TableFacts DEF Client!Slots
<1>2. CASE Tables[t].kind = "unchecked"
  BY <1>1, <1>2, TableFacts DEF Client!MapLogin, Client!Slots, Expected
<1>3. CASE Tables[t].kind # "unchecked"
  <2>1. z # 24 /\ z # 25
    BY <1>3, TableFacts
  <2>2. c \in 0 .. 52 /\ (IF c < 24 THEN c ELSE c + 2) = z
    BY <1>1, <2>1
  <2>3. Client!MapLogin(Client!ClientSums)[z] = Client!ClientSums[c]
    BY <1>1, <2>1 DEF Client!MapLogin, Client!Slots
  <2>4. of(z) = {t}
    BY <1>3, TableFacts
  <2>5. Client!ClientSums[c] = IF of(z) = {} THEN <<"other">> ELSE LET x == CHOOSE x \in of(z) : TRUE IN Client!Sum(x, file[x])
    <3>1. /\ c \in 0 .. 52 
          /\ Client!ClientSums = [y \in 0 .. 52 |->
                LET at == IF y < 24 THEN y ELSE y + 2
                    t2 == {x \in Client!Names : Tables[x].slot = at /\ Tables[x].kind # "unchecked"}
                IN IF t2 = {} THEN <<"other">> ELSE LET x == CHOOSE x \in t2 : TRUE IN Client!Sum(x, file[x])]
      BY <2>2, Zenon DEF Client!ClientSums
    <3> HIDE DEF c
    <3>2. Client!ClientSums[c] =
                LET at == IF c < 24 THEN c ELSE c + 2
                    t2 == {x \in Client!Names : Tables[x].slot = at /\ Tables[x].kind # "unchecked"}
                IN IF t2 = {} THEN <<"other">> ELSE LET x == CHOOSE x \in t2 : TRUE IN Client!Sum(x, file[x])
      BY <3>1, Zenon
    <3> QED BY <2>2, <3>2, Zenon
  <2>6. of(z) # {} /\ (CHOOSE x \in of(z) : TRUE) = t
    BY <2>4
  <2>7. Client!ClientSums[c] = Client!Sum(t, file[t])
    BY <2>5, <2>6
  <2> QED BY <1>3, <2>3, <2>7 DEF Expected
<1> QED BY <1>2, <1>3

\* a stable sort by ranks is a permutation: of any two places one comes before the other, so it has the smaller rank
Earlier(p, i, j) == p[i] < p[j] \/ (p[i] = p[j] /\ i < j)
Predecessors(p, n, j) == {i \in 1 .. n : Earlier(p, i, j)}
LEMMA PredecessorsFinite == ASSUME NEW n \in Nat, NEW p, NEW j
    PROVE IsFiniteSet(Predecessors(p, n, j)) /\ Cardinality(Predecessors(p, n, j)) \in Nat
<1>1. IsFiniteSet(1 .. n)
  BY FS_Interval
<1>2. Predecessors(p, n, j) \in SUBSET (1 .. n)
  BY DEF Predecessors
<1> QED BY <1>1, <1>2, FS_Subset, FS_CardinalityType

LEMMA EarlierRanksLower ==
    ASSUME NEW n \in Nat, NEW p \in [1 .. n -> Nat], NEW i \in 1 .. n, NEW j \in 1 .. n, Earlier(p, i, j)
    PROVE  Cardinality(Predecessors(p, n, i)) < Cardinality(Predecessors(p, n, j))
<1> DEFINE A == Predecessors(p, n, i)
           B == Predecessors(p, n, j)
<1>1. i \in B /\ i \notin A /\ A \in SUBSET B
  <2>1. i \in Int /\ p[i] \in Int /\ j \in Int /\ p[j] \in Int
    OBVIOUS
  <2>2. ~Earlier(p, i, i)
    BY <2>1 DEF Earlier
  <2>3. ASSUME NEW k \in A PROVE k \in B
    <3>1. k \in 1 .. n /\ Earlier(p, k, i) /\ p[k] \in Int /\ k \in Int
      BY DEF Predecessors
    <3>2. Earlier(p, k, j)
      BY <2>1, <3>1 DEF Earlier
    <3> QED BY <3>1, <3>2 DEF Predecessors
  <2>4. i \in B /\ i \notin A
    BY <2>2 DEF Predecessors
  <2> QED BY <2>3, <2>4
<1> HIDE DEF A, B
<1>2. IsFiniteSet(B) /\ Cardinality(A) \in Nat /\ Cardinality(B) \in Nat
  BY PredecessorsFinite DEF A, B
<1>3. Cardinality(A) =< Cardinality(B) /\ (Cardinality(B) = Cardinality(A) => B = A)
  BY <1>1, <1>2, FS_Subset
<1>4. Cardinality(B) # Cardinality(A)
  BY <1>1, <1>3
<1>5. Cardinality(A) < Cardinality(B)
  BY <1>2, <1>3, <1>4
<1> QED BY <1>5 DEF A, B

AreRanks(r, p, n) ==
    /\ r \in [1 .. n -> 1 .. n]
    /\ \A j \in 1 .. n : r[j] = Cardinality(Predecessors(p, n, j)) + 1
    /\ \A i, j \in 1 .. n : r[i] = r[j] => i = j
    /\ \A k \in 1 .. n : \E j \in 1 .. n : r[j] = k
LEMMA RanksArePlaces == ASSUME NEW n \in Nat, NEW p \in [1 .. n -> Nat] PROVE \E r : AreRanks(r, p, n)
<1> DEFINE r == [j \in 1 .. n |-> Cardinality(Predecessors(p, n, j)) + 1]
<1>1. IsFiniteSet(1 .. n)
  BY FS_Interval
<1>2. ASSUME NEW j \in 1 .. n PROVE Cardinality(Predecessors(p, n, j)) \in 0 .. n - 1
  <2>1. j \notin Predecessors(p, n, j) /\ Predecessors(p, n, j) \in SUBSET ((1 .. n) \ {j})
    BY DEF Predecessors, Earlier
  <2>2. IsFiniteSet((1 .. n) \ {j}) /\ Cardinality((1 .. n) \ {j}) = Cardinality(1 .. n) - 1
    BY <1>1, FS_RemoveElement
  <2>3. Cardinality(1 .. n) = n
    <3>1. Cardinality(1 .. n) = IF 1 > n THEN 0 ELSE n - 1 + 1
      BY FS_Interval
    <3> QED BY <3>1
  <2>4. Cardinality(Predecessors(p, n, j)) =< Cardinality((1 .. n) \ {j})
    BY <2>1, <2>2, FS_Subset
  <2>5. Cardinality(Predecessors(p, n, j)) \in Nat
    BY PredecessorsFinite
  <2> QED BY <2>2, <2>3, <2>4, <2>5
<1>3. r \in [1 .. n -> 1 .. n]
  BY <1>2
<1>4. ASSUME NEW i \in 1 .. n, NEW j \in 1 .. n, r[i] = r[j] PROVE i = j
  <2>1. SUFFICES ASSUME i # j PROVE FALSE
    OBVIOUS
  <2>2. Earlier(p, i, j) \/ Earlier(p, j, i)
    <3>1. i \in Int /\ p[i] \in Int /\ j \in Int /\ p[j] \in Int
      OBVIOUS
    <3> QED BY <2>1, <3>1 DEF Earlier
  <2>3. Cardinality(Predecessors(p, n, i)) = Cardinality(Predecessors(p, n, j))
    <3>1. Cardinality(Predecessors(p, n, i)) \in Nat /\ Cardinality(Predecessors(p, n, j)) \in Nat
      BY PredecessorsFinite
    <3> QED BY <1>4, <3>1
  <2>4. Cardinality(Predecessors(p, n, i)) < Cardinality(Predecessors(p, n, j)) \/ Cardinality(Predecessors(p, n, j)) < Cardinality(Predecessors(p, n, i))
    BY <2>2, EarlierRanksLower
  <2>5. Cardinality(Predecessors(p, n, i)) \in Nat
    BY PredecessorsFinite
  <2> QED BY <2>3, <2>4, <2>5
<1>5. \A j \in 1 .. n : r[j] = Cardinality(Predecessors(p, n, j)) + 1
  OBVIOUS
<1> HIDE DEF r
<1>6. r \in Injection(1 .. n, 1 .. n)
  BY <1>3, <1>4, Zenon DEF Injection, IsInjective
<1>7. r \in Surjection(1 .. n, 1 .. n)
  BY <1>1, <1>6, FS_Injection
<1>8. \A k \in 1 .. n : \E j \in 1 .. n : r[j] = k
  BY <1>7 DEF Surjection
<1> QED BY <1>3, <1>4, <1>5, <1>8 DEF AreRanks

LEMMA CountedInClient == ASSUME NEW s PROVE Client!Cardinality(s) = Cardinality(s)
  BY Zenon DEF Cardinality, Client!Cardinality

LEMMA CompanionFacts == ASSUME NEW t \in DOMAIN Companion
    PROVE /\ t \in Client!Names /\ Tables[t].kind = "layout" /\ Companion[t] \in Seq(Nat)
          /\ \A m, n \in DOMAIN Companion[t] : Companion[t][m] = Companion[t][n] => m = n
<1>1. Client!BridgeTablesOK
  BY BridgesOK
<1> QED BY <1>1, Zenon DEF Client!BridgeTablesOK

LEMMA Positions == ASSUME NEW t \in DOMAIN Companion, NEW k
    PROVE /\ Client!Position(t, k) \in Nat
          /\ \A n \in DOMAIN Companion[t] : Companion[t][n] = k <=> Client!Position(t, k) = n
<1>1. Companion[t] \in Seq(Nat) /\ Len(Companion[t]) \in Nat /\ DOMAIN Companion[t] = 1 .. Len(Companion[t])
  BY CompanionFacts
<1>2. CASE \E n \in DOMAIN Companion[t] : Companion[t][n] = k
  <2>1. PICK n \in DOMAIN Companion[t] : Companion[t][n] = k
    BY <1>2
  <2>2. \A m \in DOMAIN Companion[t] : Companion[t][m] = k => m = n
    BY <2>1, CompanionFacts
  <2>3. Client!Position(t, k) = n
    BY <1>2, <2>1, <2>2 DEF Client!Position
  <2>4. n \in Nat
    BY <1>1
  <2> QED BY <2>1, <2>2, <2>3, <2>4
<1>3. CASE ~\E n \in DOMAIN Companion[t] : Companion[t][n] = k
  <2>1. Client!Position(t, k) = Len(Companion[t]) + 1
    BY <1>3 DEF Client!Position
  <2> QED BY <1>1, <1>3, <2>1
<1> QED BY <1>2, <1>3

PositionsOf(t, rs) == [i \in 1 .. Len(rs) |-> Client!Position(t, rs[i].key)]

\* the sorted table: row j goes to its rank
Sorts(r, t, rs, n) == DOMAIN Client!InOrder(t, rs) = 1 .. n /\ \A j \in 1 .. n : Client!InOrder(t, rs)[r[j]] = rs[j]
LEMMA RowsGoToTheirRank ==
    ASSUME NEW t \in DOMAIN Companion, NEW rs, NEW n \in Nat, DOMAIN rs = 1 .. n, Len(rs) = n
    PROVE  \E r : AreRanks(r, PositionsOf(t, rs), n) /\ Sorts(r, t, rs, n)
<1> DEFINE p == PositionsOf(t, rs)
<1>1. p \in [1 .. n -> Nat] /\ \A i \in 1 .. n : p[i] = Client!Position(t, rs[i].key)
  BY Positions DEF PositionsOf
<1> HIDE DEF p
<1>2. PICK r : AreRanks(r, p, n)
  BY <1>1, RanksArePlaces, Zenon
<1>3. ASSUME NEW j \in 1 .. n PROVE Client!Rank(t, rs, j) = r[j]
  <2>1. {i \in DOMAIN rs : Client!Before(t, rs, i, j)} = Predecessors(p, n, j)
    BY <1>1 DEF Client!Before, Predecessors, Earlier
  <2>2. Client!Rank(t, rs, j) = Cardinality(Predecessors(p, n, j)) + 1
    BY <2>1, CountedInClient DEF Client!Rank
  <2> QED BY <1>2, <2>2 DEF AreRanks
<1>4. Client!InOrder(t, rs) = [k \in 1 .. n |-> rs[CHOOSE j \in 1 .. n : Client!Rank(t, rs, j) = k]]
  <2>1. Client!InOrder(t, rs) = [k \in DOMAIN rs |-> rs[CHOOSE j \in DOMAIN rs : Client!Rank(t, rs, j) = k]]
    BY Zenon DEF Client!InOrder
  <2>2. DOMAIN rs = 1 .. n
    OBVIOUS
  <2> QED BY <2>1, <2>2, SMT
<1>5. ASSUME NEW j \in 1 .. n PROVE Client!InOrder(t, rs)[r[j]] = rs[j]
  <2>1. r[j] \in 1 .. n
    BY <1>2 DEF AreRanks
  <2>2. ASSUME NEW i \in 1 .. n PROVE Client!Rank(t, rs, i) = r[j] <=> i = j
    <3>1. Client!Rank(t, rs, i) = r[i]
      BY <1>3
    <3> QED BY <1>2, <3>1 DEF AreRanks
  <2>3. (CHOOSE i \in 1 .. n : Client!Rank(t, rs, i) = r[j]) = j
    BY <2>2
  <2> QED BY <1>4, <2>1, <2>3
<1>6. DOMAIN Client!InOrder(t, rs) = 1 .. n
  BY <1>4, Zenon
<1> QED BY <1>2, <1>5, <1>6, Zenon DEF p, Sorts

ClientFile(f, n) == n \in Nat /\ DOMAIN f = 1 .. n /\ Len(f) = n /\ \A i, j \in 1 .. n : f[i].key = f[j].key => i = j
LEMMA FilesAre == ASSUME file \in [Client!Names -> Client!FileRows], NEW t \in Client!Names
    PROVE file[t] # << >> => ClientFile(file[t], Len(file[t]))
<1>1. Client!BridgeTablesOK
  BY BridgesOK
<1>2. ASSUME NEW f \in ClientRows PROVE ClientFile(f, Len(f))
  <2>1. f \in Seq([key : Nat, value : Int, equip : Nat]) /\ \A i, j \in DOMAIN f : f[i].key = f[j].key => i = j
    BY <1>1, Zenon DEF Client!BridgeTablesOK
  <2> QED BY <2>1, SMTT(20) DEF ClientFile
<1> QED BY <1>2 DEF Client!FileRows

\* what a converted file holds: every row once, converted; a lockstep table's at their rank
LEMMA ConvertedRows ==
    ASSUME NEW t \in Client!Names, NEW n, ClientFile(file[t], n)
    PROVE  /\ DOMAIN Client!Converted(t) = 1 .. n
           /\ \A i \in 1 .. n : \E j \in 1 .. n : Client!Converted(t)[i] = Client!Row16(t, file[t][j])
<1> DEFINE rs == [j \in DOMAIN file[t] |-> Client!Row16(t, file[t][j])]
<1>1. n \in Nat /\ DOMAIN rs = 1 .. n /\ Client!Converted(t) = Client!InOrder(t, rs)
  BY DEF ClientFile, Client!Converted
<1>2. \A j \in 1 .. n : rs[j] = Client!Row16(t, file[t][j])
  BY DEF ClientFile
<1> HIDE DEF rs
<1>3. CASE t \notin DOMAIN Companion
  BY <1>1, <1>2, <1>3 DEF Client!InOrder
<1>4. CASE t \in DOMAIN Companion
  <2>1. Len(rs) = n
    BY <1>1 DEF rs
  <2>2. PICK r : AreRanks(r, PositionsOf(t, rs), n) /\ Sorts(r, t, rs, n)
    BY <1>1, <1>4, <2>1, RowsGoToTheirRank, Zenon
  <2> QED BY <1>1, <1>2, <2>2 DEF AreRanks, Sorts
<1> QED BY <1>3, <1>4

\* the bits of a number that fits are read as the number
LEMMA BitsRead ==
    ASSUME NEW v \in Int, NEW s \in BOOLEAN
    PROVE  /\ v \in Client!Room(s) => Client!ReadAs(s, Client!Clamp(v)) = v
           /\ ~s /\ v > kMax => Client!ReadAs(s, Client!Clamp(v)) = kMax
<1>1. kMax \in Nat
  BY BridgesOK DEF Client!BridgeTablesOK
<1>2. PICK h \in Nat : kMax = 2 * h \/ kMax = 2 * h + 1
  <2>1. kMax \div 2 \in Nat /\ (kMax = 2 * (kMax \div 2) \/ kMax = 2 * (kMax \div 2) + 1)
    BY <1>1
  <2> QED BY <2>1
<1>3. kMax \div 2 = h /\ (kMax + 1) \div 2 =< h + 1 /\ (kMax + 1) \div 2 \in Nat /\ (kMax = 2 * h => (kMax + 1) \div 2 = h)
  BY <1>1, <1>2
<1>4. ASSUME ~s PROVE (v \in Client!Room(s) => Client!ReadAs(s, Client!Clamp(v)) = v) /\ (v > kMax => Client!ReadAs(s, Client!Clamp(v)) = kMax)
  BY <1>1, <1>4 DEF Client!Room, Client!ReadAs, Client!Clamp
<1>5. ASSUME s, v \in Client!Room(s) PROVE Client!ReadAs(s, Client!Clamp(v)) = v
  <2>1. v =< h /\ v >= -((kMax + 1) \div 2) /\ h =< kMax /\ kMax \in Int /\ h \in Int
    BY <1>1, <1>2, <1>3, <1>5 DEF Client!Room
  <2>2. CASE v >= 0
    <3>1. Client!Clamp(v) = v
      BY <2>1, <2>2 DEF Client!Clamp
    <3> QED BY <1>3, <2>1, <3>1 DEF Client!ReadAs
  <2>3. CASE v < 0
    <3>1. v + (kMax + 1) \in 0 .. kMax /\ v + (kMax + 1) > h
      BY <1>1, <1>2, <1>3, <2>1, <2>3
    <3>2. v % (kMax + 1) = v + (kMax + 1)
      BY <1>1, <2>3, <3>1
    <3>3. Client!Clamp(v) = v + (kMax + 1)
      <4>1. ~(v > kMax) /\ ~(v >= 0)
        BY <1>1, <2>3
      <4> QED BY <3>2, <4>1, Zenon DEF Client!Clamp
    <3>4. (v + (kMax + 1)) - (kMax + 1) = v
      BY <1>1
    <3>5. Client!ReadAs(s, v + (kMax + 1)) = v
      BY <1>3, <1>5, <3>1, <3>4 DEF Client!ReadAs
    <3> QED BY <3>3, <3>5, Zenon
  <2> QED BY <2>2, <2>3
<1> QED BY <1>4, <1>5

LEMMA NoWrapping == ASSUME TablesInv PROVE Client!NeverWraps
<1> SUFFICES ASSUME pc = "up", hooked, NEW t \in Client!Names, Tables[t].kind = "layout",
                    NEW i \in DOMAIN file[t], NEW j \in DOMAIN rows[t], file[t][i].key = rows[t][j].key
             PROVE  /\ file[t][i].value \in Client!Room(Tables[t].signed) => rows[t][j].value = file[t][i].value
                    /\ ~Tables[t].signed /\ file[t][i].value > kMax => rows[t][j].value \in {kMax, file[t][i].value}
  BY DEF Client!NeverWraps
<1>1. file[t] # << >> /\ rows[t] = Client!Converted(t)
  BY DEF TablesInv, IsRead
<1>2. ClientFile(file[t], Len(file[t]))
  BY <1>1, FilesAre DEF TablesInv
<1> DEFINE n == Len(file[t])
<1> HIDE DEF n
<1>0. ClientFile(file[t], n)
  BY <1>2 DEF n
<1>3. PICK k \in 1 .. n : rows[t][j] = Client!Row16(t, file[t][k])
  <2>1. DOMAIN Client!Converted(t) = 1 .. n /\ \A m \in 1 .. n : \E k \in 1 .. n : Client!Converted(t)[m] = Client!Row16(t, file[t][k])
    BY <1>0, ConvertedRows
  <2> QED BY <1>1, <2>1
<1>4. rows[t][j].key = file[t][k].key
  BY <1>3 DEF Client!Row16
<1>5. k = i
  BY <1>0, <1>4 DEF ClientFile
<1>6. rows[t][j].value = file[t][i].value \/ rows[t][j].value = Client!ReadAs(Tables[t].signed, Client!Clamp(file[t][i].value))
  BY <1>3, <1>5 DEF Client!Row16
<1>7. file[t][i].value \in Int /\ Tables[t].signed \in BOOLEAN
  <2>1. Tables[t].signed \in BOOLEAN
    BY BridgesOK DEF Client!BridgeTablesOK
  <2>2. file[t] \in Client!FileRows
    BY DEF TablesInv
  <2>3. file[t] \in ClientRows
    BY <1>1, <2>2 DEF Client!FileRows
  <2>4. file[t] \in Seq([key : Nat, value : Int, equip : Nat])
    BY <2>3, BridgesOK, Zenon DEF Client!BridgeTablesOK
  <2>5. \A S, f : f \in Seq(S) => \A x \in DOMAIN f : f[x] \in S
    OBVIOUS
  <2>6. file[t][i] \in [key : Nat, value : Int, equip : Nat]
    BY <2>4, <2>5
  <2> QED BY <2>1, <2>6
<1> QED BY <1>6, <1>7, BitsRead

\* the rows of a table in step, counted: those the companion has before row j, and its keys before j's that the file has
LEMMA PlacesAgree ==
    ASSUME NEW t \in DOMAIN Companion, NEW rs, NEW n \in Nat, ClientFile(rs, n),
           NEW j \in 1 .. n, NEW m \in DOMAIN Companion[t], rs[j].key = Companion[t][m]
    PROVE  Cardinality(Predecessors(PositionsOf(t, rs), n, j)) + 1
              = Cardinality({k \in 1 .. m : Companion[t][k] \in {rs[i].key : i \in 1 .. n}})
<1> DEFINE p == PositionsOf(t, rs)
           A == Predecessors(p, n, j)
           B == {i \in 1 .. n : p[i] =< m}
           C == {k \in 1 .. m : Companion[t][k] \in {rs[i].key : i \in 1 .. n}}
<1>1. /\ Companion[t] \in Seq(Nat) /\ m \in 1 .. Len(Companion[t]) /\ DOMAIN Companion[t] = 1 .. Len(Companion[t])
      /\ Len(Companion[t]) \in Nat
  BY CompanionFacts
<1>2. \A i \in 1 .. n : /\ p[i] = Client!Position(t, rs[i].key) /\ p[i] \in Nat
                        /\ \A k \in 1 .. Len(Companion[t]) : Companion[t][k] = rs[i].key <=> p[i] = k
  BY <1>1, Positions DEF PositionsOf, ClientFile
<1> HIDE DEF p
<1>3. p[j] = m
  BY <1>1, <1>2
<1>4. ASSUME NEW i \in 1 .. n, p[i] = m PROVE i = j
  <2>1. Companion[t][m] = rs[i].key
    BY <1>1, <1>2, <1>4
  <2> QED BY <2>1 DEF ClientFile
<1>5. B = A \cup {j} /\ j \notin A
  <2>1. \A i \in 1 .. n : p[i] =< m <=> Earlier(p, i, j) \/ i = j
    BY <1>1, <1>2, <1>3, <1>4 DEF Earlier
  <2>2. ~Earlier(p, j, j)
    BY <1>2 DEF Earlier
  <2> QED BY <2>1, <2>2 DEF Predecessors
<1>6. IsFiniteSet(A) /\ Cardinality(A) \in Nat
  BY PredecessorsFinite
<1>7. IsFiniteSet(B) /\ Cardinality(B) = Cardinality(A) + 1
  <2> HIDE DEF A, B
  <2> QED BY <1>5, <1>6, FS_AddElement
<1>8. ExistsBijection(B, C)
  <2> DEFINE f == [i \in B |-> p[i]]
  <2>1. ASSUME NEW i \in B PROVE f[i] \in C
    <3>1. i \in 1 .. n /\ p[i] \in Nat /\ p[i] =< m /\ f[i] = p[i]
      BY <1>2
    <3>2. p[i] # 0
      <4>1. Client!Position(t, rs[i].key) # 0
        BY <1>1 DEF Client!Position
      <4> QED BY <1>2, <3>1, <4>1
    <3>3. p[i] \in 1 .. m /\ p[i] \in 1 .. Len(Companion[t])
      BY <1>1, <3>1, <3>2
    <3> QED BY <1>2, <3>1, <3>3
  <2>2. ASSUME NEW i \in B, NEW k \in B, f[i] = f[k] PROVE i = k
    <3>1. i \in 1 .. n /\ k \in 1 .. n /\ p[i] = p[k] /\ p[i] \in C
      BY <2>1, <2>2
    <3>2. p[i] \in 1 .. Len(Companion[t])
      BY <1>1, <3>1
    <3>3. Companion[t][p[i]] = rs[i].key /\ Companion[t][p[i]] = rs[k].key
      BY <1>2, <3>1, <3>2
    <3> QED BY <3>1, <3>3 DEF ClientFile
  <2>3. ASSUME NEW c \in C PROVE \E i \in B : f[i] = c
    <3>1. PICK i \in 1 .. n : rs[i].key = Companion[t][c]
      OBVIOUS
    <3>2. c \in 1 .. Len(Companion[t]) /\ c \in 1 .. m
      BY <1>1
    <3>3. p[i] = c
      BY <1>2, <3>1, <3>2
    <3>4. i \in B
      BY <1>1, <3>2, <3>3
    <3> QED BY <3>3, <3>4
  <2>4. f \in [B -> C]
    BY <2>1
  <2> HIDE DEF f, B, C
  <2>5. f \in Bijection(B, C)
    BY <2>2, <2>3, <2>4, Zenon DEF Bijection, Injection, Surjection, IsInjective
  <2> QED BY <2>5, Zenon DEF ExistsBijection
<1> HIDE DEF A, B, C
<1>9. Cardinality(C) = Cardinality(A) + 1
  BY <1>7, <1>8, FS_Bijection
<1> QED BY <1>9 DEF A, C, p

LEMMA InStep == ASSUME TablesInv PROVE Client!InLockstep
<1> DEFINE keys(t) == {file[t][i].key : i \in DOMAIN file[t]}
<1> SUFFICES ASSUME pc = "up", hooked, NEW t \in DOMAIN Companion, file[t] # << >>
             PROVE  /\ Len(rows[t]) = Len(file[t]) /\ {rows[t][i].key : i \in DOMAIN rows[t]} = keys(t)
                    /\ \A i \in DOMAIN rows[t], m \in DOMAIN Companion[t] :
                          rows[t][i].key = Companion[t][m] => i = Cardinality({k \in 1 .. m : Companion[t][k] \in keys(t)})
  BY CountedInClient DEF Client!InLockstep
<1> DEFINE n == Len(file[t])
           rs == [j \in DOMAIN file[t] |-> Client!Row16(t, file[t][j])]
<1>1. t \in Client!Names /\ rows[t] = Client!Converted(t)
  BY CompanionFacts DEF TablesInv, IsRead
<1>2. ClientFile(file[t], n)
  BY <1>1, FilesAre DEF TablesInv
<1> HIDE DEF n
<1>3. DOMAIN rs = 1 .. n /\ Len(rs) = n /\ \A j \in 1 .. n : rs[j].key = file[t][j].key
  BY <1>2 DEF ClientFile, Client!Row16
<1>4. ClientFile(rs, n)
  BY <1>2, <1>3 DEF ClientFile
<1>5. rows[t] = Client!InOrder(t, rs)
  BY <1>1 DEF Client!Converted
<1> HIDE DEF rs
<1>6. PICK r : AreRanks(r, PositionsOf(t, rs), n) /\ Sorts(r, t, rs, n)
  BY <1>3, <1>4, RowsGoToTheirRank DEF ClientFile
<1>7. DOMAIN rows[t] = 1 .. n /\ \A j \in 1 .. n : r[j] \in 1 .. n /\ rows[t][r[j]] = rs[j]
  BY <1>5, <1>6 DEF AreRanks, Sorts
<1>8. \A i \in 1 .. n : \E j \in 1 .. n : i = r[j] /\ rows[t][i] = rs[j]
  BY <1>6, <1>7 DEF AreRanks
<1>9. keys(t) = {rs[i].key : i \in 1 .. n}
  BY <1>2, <1>3 DEF ClientFile
<1> HIDE DEF keys
<1>10. Len(rows[t]) = Len(file[t])
  BY <1>2, <1>7 DEF ClientFile
<1>11. {rows[t][i].key : i \in DOMAIN rows[t]} = keys(t)
  <2>1. \A i \in DOMAIN rows[t] : rows[t][i].key \in {rs[x].key : x \in 1 .. n}
    BY <1>7, <1>8
  <2>2. \A x \in 1 .. n : rs[x].key \in {rows[t][i].key : i \in DOMAIN rows[t]}
    BY <1>7
  <2> QED BY <1>9, <2>1, <2>2
<1>12. ASSUME NEW i \in 1 .. n, NEW m \in DOMAIN Companion[t], rows[t][i].key = Companion[t][m]
       PROVE  i = Cardinality({k \in 1 .. m : Companion[t][k] \in keys(t)})
  <2>1. PICK j \in 1 .. n : i = r[j] /\ rows[t][i] = rs[j]
    BY <1>8
  <2>2. r[j] = Cardinality(Predecessors(PositionsOf(t, rs), n, j)) + 1
    BY <1>6 DEF AreRanks
  <2>3. n \in Nat /\ rs[j].key = Companion[t][m]
    BY <1>4, <1>12, <2>1 DEF ClientFile
  <2>4. r[j] = Cardinality({k \in 1 .. m : Companion[t][k] \in {rs[x].key : x \in 1 .. n}})
    BY <1>4, <2>2, <2>3, PlacesAgree
  <2> QED BY <1>9, <2>1, <2>4
<1> QED BY <1>7, <1>10, <1>11, <1>12

LEMMA TablesHold ==
    ASSUME TablesInv PROVE Client!LoginPasses /\ Client!InLockstep /\ Client!NeverWraps /\ Client!WidthAgrees
<1>1. Client!LoginPasses
  <2> SUFFICES ASSUME pc = "up", hooked, NEW t \in Client!Names
               PROVE  Client!MapLogin(Client!ClientSums)[Tables[t].slot] = slot[Tables[t].slot]
    BY DEF Client!LoginPasses
  <2>1. slot[Tables[t].slot] = Expected(t)
    BY DEF TablesInv, IsRead
  <2> QED BY <2>1, SumsAgree
<1> QED BY <1>1, InStep, NoWrapping DEF TablesInv
-----------------------------------------------------------------------------
(* Packets and quest data. *)

\* FlattenSeq joins a sequence of sequences one after the other
JoinRule(g, s, m) == g = [i \in 1 .. m |-> IF i = 1 THEN s[i] ELSE g[i - 1] \o s[i]]
Joins(g, s, S, n) ==
    /\ n = Len(s) /\ g \in [0 .. n -> Seq(S)] /\ g[0] = << >>
    /\ \A k \in 0 .. n - 1 : g[k + 1] = g[k] \o s[k + 1]
    /\ Data!FlattenSeq(s) = g[n]

LEMMA JoinsAt ==
    ASSUME NEW s, NEW S, NEW g, NEW n \in Nat, Joins(g, s, S, n), NEW k \in 0 .. n - 1 PROVE g[k + 1] = g[k] \o s[k + 1]
  BY Zenon DEF Joins
LEMMA SeqFacts == ASSUME NEW S, NEW a \in Seq(S), NEW b \in Seq(S)
    PROVE a \o b \in Seq(S) /\ << >> \o a = a /\ << >> \in Seq(S)
  OBVIOUS

LEMMA JoinStep ==
    ASSUME NEW s, NEW m \in Nat, NEW g, JoinRule(g, s, m) PROVE \E h : JoinRule(h, s, m + 1)
<1> DEFINE val(f, i) == IF i = 1 THEN s[i] ELSE f[i - 1] \o s[i]
           h == [i \in 1 .. m + 1 |-> IF i = m + 1 THEN val(g, i) ELSE g[i]]
<1>1. \A i \in 1 .. m : g[i] = val(g, i)
  BY DEF JoinRule
<1> HIDE DEF val
<1>2. \A i \in 1 .. m : h[i] = g[i] /\ i # m + 1
  OBVIOUS
<1>3. \A i \in 1 .. m + 1 : h[i] = val(g, i)
  BY <1>1
<1>5. h = [i \in 1 .. m + 1 |-> h[i]]
  OBVIOUS
<1> HIDE DEF h
<1>4. \A i \in 1 .. m + 1 : val(h, i) = val(g, i)
  <2> SUFFICES ASSUME NEW i \in 1 .. m + 1 PROVE val(h, i) = val(g, i)
    OBVIOUS
  <2>1. CASE i = 1
    BY <2>1 DEF val
  <2>2. CASE i # 1
    <3>1. i - 1 \in 1 .. m
      BY <2>2
    <3> QED BY <1>2, <2>2, <3>1 DEF val
  <2> QED BY <2>1, <2>2
<1>6. [i \in 1 .. m + 1 |-> h[i]] = [i \in 1 .. m + 1 |-> val(h, i)]
  BY <1>3, <1>4
<1> QED BY <1>5, <1>6, Zenon DEF JoinRule, val

LEMMA JoinThere == ASSUME NEW s, NEW n \in Nat PROVE \E g : JoinRule(g, s, n)
<1> DEFINE holds == {m \in Nat : \E g : JoinRule(g, s, m)}
<1>1. 0 \in holds
  <2>1. JoinRule([i \in 1 .. 0 |-> 0], s, 0)
    BY DEF JoinRule
  <2> QED BY <2>1
<1>2. \A m \in 0 .. n : m < n /\ m \in holds => m + 1 \in holds
  BY JoinStep
<1> HIDE DEF holds
<1>3. n \in holds
  BY <1>1, <1>2, UpTo
<1> QED BY <1>3 DEF holds

LEMMA FlattenJoins == ASSUME NEW S, NEW s \in Seq(Seq(S)) PROVE \E g : Joins(g, s, S, Len(s))
<1> DEFINE n == Len(s)
           j == CHOOSE j : JoinRule(j, s, n)
           g == [k \in 0 .. n |-> IF k = 0 THEN << >> ELSE j[k]]
<1>1. n \in Nat /\ \A i \in 1 .. n : s[i] \in Seq(S)
  OBVIOUS
<1> HIDE DEF n
<1>2. JoinRule(j, s, n)
  BY <1>1, JoinThere, Zenon
<1>3. Data!FlattenSeq(s) = IF n = 0 THEN s ELSE j[n]
  BY Zenon DEF Data!FlattenSeq, JoinRule, n
<1> HIDE DEF j
<1>4. \A i \in 1 .. n : j[i] = IF i = 1 THEN s[i] ELSE j[i - 1] \o s[i]
  BY <1>2 DEF JoinRule
<1>5. g[0] = << >> /\ DOMAIN g = 0 .. n /\ \A k \in 1 .. n : g[k] = j[k]
  BY <1>1
<1>6. g = [k \in 0 .. n |-> g[k]]
  OBVIOUS
<1> HIDE DEF g
<1>7. ASSUME NEW k \in 0 .. n - 1 PROVE g[k + 1] = g[k] \o s[k + 1]
  <2>1. k + 1 \in 1 .. n /\ k \in 0 .. n /\ (k + 1) - 1 = k
    BY <1>1
  <2>2. CASE k = 0
    <3>1. j[k + 1] = s[k + 1]
      BY <1>4, <2>1, <2>2
    <3>2. g[k + 1] = s[k + 1] /\ g[k] = << >> /\ s[k + 1] \in Seq(S)
      BY <1>1, <1>5, <2>1, <2>2, <3>1
    <3> QED BY <3>2, SeqFacts
  <2>3. CASE k # 0
    <3>1. k \in 1 .. n
      BY <2>1, <2>3
    <3>2. j[k + 1] = j[k] \o s[k + 1]
      <4>1. \A i \in 1 .. n : i # 1 => j[i] = j[i - 1] \o s[i]
        BY <1>4, Zenon
      <4>2. k + 1 # 1
        BY <2>3
      <4>3. \A i \in 1 .. n, m \in 0 .. n : i # 1 /\ i - 1 = m => j[i] = j[m] \o s[i]
        BY <4>1, Zenon
      <4> QED BY <2>1, <4>2, <4>3, Zenon
    <3> QED BY <1>5, <2>1, <3>1, <3>2
  <2> QED BY <2>2, <2>3
<1>8. \A k \in 0 .. n : g[k] \in Seq(S)
  <2> DEFINE good == {k \in 0 .. n : g[k] \in Seq(S)}
  <2>1. 0 \in good
    <3>1. << >> \in Seq(S) /\ 0 \in 0 .. n
      BY <1>1
    <3> QED BY <1>5, <3>1
  <2>2. ASSUME NEW k \in 0 .. n, k < n, k \in good PROVE k + 1 \in good
    <3>1. k \in 0 .. n - 1 /\ k + 1 \in 0 .. n /\ k + 1 \in 1 .. n
      BY <1>1, <2>2
    <3>2. g[k + 1] = g[k] \o s[k + 1] /\ g[k] \in Seq(S) /\ s[k + 1] \in Seq(S)
      BY <1>1, <1>7, <2>2, <3>1
    <3>3. g[k + 1] \in Seq(S)
      BY <3>2, SeqFacts
    <3> QED BY <3>1, <3>3
  <2> HIDE DEF good
  <2>3. \A k \in 0 .. n : k \in good
    BY <1>1, <2>1, <2>2, UpTo
  <2> QED BY <2>3 DEF good
<1>9. g \in [0 .. n -> Seq(S)]
  BY <1>6, <1>8
<1>10. Data!FlattenSeq(s) = g[n]
  <2>1. CASE n = 0
    <3>1. s = << >>
      BY <2>1 DEF n
    <3> QED BY <1>3, <1>5, <2>1, <3>1
  <2>2. CASE n # 0
    <3>1. n \in 1 .. n
      BY <1>1, <2>2
    <3> QED BY <1>3, <1>5, <2>2, <3>1
  <2> QED BY <2>1, <2>2
<1>11. Joins(g, s, S, n)
  BY <1>5, <1>7, <1>9, <1>10 DEF Joins, n
<1> QED BY <1>11 DEF n

\* the join of one sequence more is longer by it
LEMMA FlattenMore ==
    ASSUME NEW S, NEW s \in Seq(Seq(S)), NEW x \in Seq(S)
    PROVE  Data!FlattenSeq(Append(s, x)) = Data!FlattenSeq(s) \o x /\ Data!FlattenSeq(s) \in Seq(S)
<1> DEFINE n == Len(s)
           s1 == Append(s, x)
<1>1. n \in Nat /\ s1 \in Seq(Seq(S)) /\ Len(s1) = n + 1 /\ (\A i \in 1 .. n : s1[i] = s[i]) /\ s1[n + 1] = x
  OBVIOUS
<1> HIDE DEF s1
<1>2. PICK g : Joins(g, s, S, n)
  BY FlattenJoins
<1> HIDE DEF n
<1>3. PICK h : Joins(h, s1, S, n + 1)
  BY <1>1, FlattenJoins
<1> DEFINE same == {k \in 0 .. n : g[k] = h[k]}
<1>4. 0 \in same
  BY <1>1, <1>2, <1>3 DEF Joins
<1>5. ASSUME NEW k \in 0 .. n, k < n, k \in same PROVE k + 1 \in same
  <2>1. k + 1 \in 1 .. n /\ k + 1 \in 0 .. n /\ k \in 0 .. n - 1 /\ k \in 0 .. (n + 1) - 1
    BY <1>1, <1>5
  <2>2. g[k + 1] = g[k] \o s[k + 1]
    BY <1>2, <2>1 DEF Joins
  <2>3. h[k + 1] = h[k] \o s1[k + 1]
    <3>1. n + 1 \in Nat
      BY <1>1
    <3> QED BY <1>3, <2>1, <3>1, JoinsAt, Zenon
  <2> QED BY <1>1, <1>5, <2>1, <2>2, <2>3
<1> HIDE DEF same
<1>6. n \in same
  <2>1. \A k \in 0 .. n : k \in same
    BY <1>1, <1>4, <1>5, UpTo
  <2> QED BY <1>1, <2>1
<1>7. h[n + 1] = h[n] \o x
  <2>1. n \in 0 .. (n + 1) - 1
    BY <1>1
  <2>2. h[n + 1] = h[n] \o s1[n + 1]
    <3>1. n + 1 \in Nat
      BY <1>1
    <3> QED BY <1>3, <2>1, <3>1, JoinsAt, Zenon
  <2> QED BY <1>1, <2>2
<1>8. Data!FlattenSeq(s1) = h[n + 1]
  BY <1>3 DEF Joins
<1>9. Data!FlattenSeq(s) = g[n] /\ g[n] \in Seq(S)
  <2>1. Data!FlattenSeq(s) = g[n] /\ g \in [0 .. n -> Seq(S)]
    BY <1>2, Zenon DEF Joins
  <2>2. n \in 0 .. n
    BY <1>1
  <2> QED BY <2>1, <2>2
<1>10. g[n] = h[n]
  BY <1>6 DEF same
<1> QED BY <1>7, <1>8, <1>9, <1>10 DEF s1

(* Fixed layouts. *)

LEMMA FunctionIsSeq == ASSUME NEW S, NEW n \in Nat, NEW f \in [1 .. n -> S] PROVE f \in Seq(S) /\ Len(f) = n /\ DOMAIN f = 1 .. n
  OBVIOUS
LEMMA AppendFacts == ASSUME NEW S, NEW a \in Seq(S), NEW x \in S
    PROVE /\ Append(a, x) \in Seq(S) /\ Len(a) \in Nat /\ DOMAIN a = 1 .. Len(a)
          /\ Len(Append(a, x)) = Len(a) + 1 /\ DOMAIN Append(a, x) = 1 .. Len(a) + 1
          /\ Append(a, x)[Len(a) + 1] = x
          /\ \A i \in 1 .. Len(a) : Append(a, x)[i] = a[i]
  OBVIOUS
ConcatIs(S, a, b) ==
    /\ a \o b \in Seq(S) /\ Len(a) \in Nat /\ Len(b) \in Nat
    /\ Len(a \o b) = Len(a) + Len(b) /\ DOMAIN (a \o b) = 1 .. Len(a) + Len(b)
    /\ \A i \in 1 .. Len(a) : i \in 1 .. Len(a) + Len(b) /\ (a \o b)[i] = a[i]
    /\ \A i \in 1 .. Len(b) : Len(a) + i \in 1 .. Len(a) + Len(b) /\ (a \o b)[Len(a) + i] = b[i]
LEMMA ConcatFacts == ASSUME NEW S, NEW a \in Seq(S), NEW b \in Seq(S) PROVE ConcatIs(S, a, b)
  BY DEF ConcatIs

Segments == {<<a, m>> : a \in {Data!Zero} \cup Nat, m \in Nat}
CopyOf(s) == [i \in 1 .. s[2] |-> IF s[1] = Data!Zero THEN 0 ELSE s[1] + i]

LEMMA CopyFacts == ASSUME NEW a \in {Data!Zero} \cup Nat, NEW m \in Nat
    PROVE /\ <<a, m>> \in Segments /\ CopyOf(<<a, m>>) \in Seq(Nat) /\ Len(CopyOf(<<a, m>>)) = m
          /\ \A i \in 1 .. m : CopyOf(<<a, m>>)[i] = IF a = Data!Zero THEN 0 ELSE a + i
<1>1. <<a, m>> \in Segments /\ CopyOf(<<a, m>>) = [i \in 1 .. m |-> IF a = Data!Zero THEN 0 ELSE a + i]
  BY DEF Segments, CopyOf
<1>2. \A i \in 1 .. m : (IF a = Data!Zero THEN 0 ELSE a + i) \in Nat
  BY DEF Data!Zero
<1>3. CopyOf(<<a, m>>) \in [1 .. m -> Nat]
  BY <1>1, <1>2
<1>4. \A i \in 1 .. m : CopyOf(<<a, m>>)[i] = IF a = Data!Zero THEN 0 ELSE a + i
  BY <1>1
<1> HIDE DEF CopyOf
<1> QED BY <1>1, <1>3, <1>4, FunctionIsSeq

LEMMA CopiedMore == ASSUME NEW q \in Seq(Segments), NEW s \in Segments
    PROVE /\ Append(q, s) \in Seq(Segments) /\ Data!Copied(q) \in Seq(Nat)
          /\ Data!Copied(Append(q, s)) = Data!Copied(q) \o CopyOf(s)
<1> DEFINE parts(x) == [k \in DOMAIN x |-> CopyOf(x[k])]
<1>1. \A x \in Segments : CopyOf(x) \in Seq(Nat)
  <2> SUFFICES ASSUME NEW x \in Segments PROVE CopyOf(x) \in Seq(Nat)
    OBVIOUS
  <2>1. PICK a \in {Data!Zero} \cup Nat, m \in Nat : x = <<a, m>>
    BY DEF Segments
  <2> QED BY <2>1, CopyFacts
<1>2. parts(q) \in Seq(Seq(Nat)) /\ CopyOf(s) \in Seq(Nat)
  <2>1. \A k \in 1 .. Len(q) : CopyOf(q[k]) \in Seq(Nat)
    BY <1>1
  <2>2. Len(q) \in Nat /\ DOMAIN q = 1 .. Len(q)
    OBVIOUS
  <2> HIDE DEF CopyOf
  <2>3. parts(q) \in [1 .. Len(q) -> Seq(Nat)]
    BY <2>1, <2>2
  <2> QED BY <1>1, <2>2, <2>3
<1>3. Data!Copied(q) = Data!FlattenSeq(parts(q)) /\ Data!Copied(Append(q, s)) = Data!FlattenSeq(parts(Append(q, s)))
  BY Zenon DEF Data!Copied, CopyOf
<1> HIDE DEF CopyOf
<1>4. parts(Append(q, s)) = Append(parts(q), CopyOf(s))
  <2>1. /\ DOMAIN Append(q, s) = 1 .. Len(q) + 1 /\ DOMAIN q = 1 .. Len(q) /\ Len(q) \in Nat
        /\ \A k \in 1 .. Len(q) : Append(q, s)[k] = q[k]
        /\ Append(q, s)[Len(q) + 1] = s
    BY AppendFacts
  <2>2. Len(parts(q)) = Len(q) /\ \A k \in 1 .. Len(q) : parts(q)[k] = CopyOf(q[k])
    BY <1>2, <2>1
  <2>7. parts(Append(q, s)) = [k \in 1 .. Len(q) + 1 |-> CopyOf(Append(q, s)[k])]
    BY <2>1
  <2> DEFINE more == Append(parts(q), CopyOf(s))
  <2>3. /\ DOMAIN more = 1 .. Len(q) + 1 /\ more[Len(q) + 1] = CopyOf(s) /\ \A k \in 1 .. Len(q) : more[k] = parts(q)[k]
        /\ more \in Seq(Seq(Nat))
    <3> HIDE DEF parts
    <3> QED BY <1>2, <2>2, AppendFacts
  <2> HIDE DEF more, parts
  <2>4. ASSUME NEW k \in 1 .. Len(q) + 1 PROVE more[k] = CopyOf(Append(q, s)[k])
    <3>1. k \in 1 .. Len(q) \/ k = Len(q) + 1
      BY <2>1
    <3> QED BY <2>1, <2>2, <2>3, <3>1
  <2>5. more = [k \in 1 .. Len(q) + 1 |-> more[k]]
    BY <2>3
  <2>6. more = [k \in 1 .. Len(q) + 1 |-> CopyOf(Append(q, s)[k])]
    BY <2>4, <2>5
  <2> QED BY <2>6, <2>7 DEF more
<1>5. Append(q, s) \in Seq(Segments)
  BY AppendFacts
<1> HIDE DEF parts
<1>6. Data!FlattenSeq(Append(parts(q), CopyOf(s))) = Data!FlattenSeq(parts(q)) \o CopyOf(s) /\ Data!FlattenSeq(parts(q)) \in Seq(Nat)
  BY <1>2, FlattenMore
<1> QED BY <1>3, <1>4, <1>5, <1>6

\* a packet that carries the first n bytes so far and has the given size
Covers(q, n, size) ==
    /\ q \in Seq(Segments) /\ n \in Nat /\ Data!Copied(q) \in Seq(Nat) /\ Len(Data!Copied(q)) = size
    /\ Data!Carries(Data!Copied(q), n)

LEMMA CoversNone == Covers(<< >>, 0, 0)
<1>1. << >> \in Seq(Segments)
  OBVIOUS
<1>2. Data!Copied(<< >>) = << >>
  BY DEF Data!Copied, Data!FlattenSeq
<1>3. << >> \in Seq(Nat) /\ Len(<< >>) = 0 /\ DOMAIN << >> = 1 .. 0
  OBVIOUS
<1>4. Data!Carries(<< >>, 0)
  BY <1>3 DEF Data!Carries
<1> QED BY <1>1, <1>2, <1>3, <1>4 DEF Covers

LEMMA CoversSkip == ASSUME NEW q, NEW n, NEW size, Covers(q, n, size), NEW m \in Nat
    PROVE Covers(Append(q, <<Data!Zero, m>>), n, size + m)
<1> DEFINE s == <<Data!Zero, m>>
           out == Data!Copied(q)
           c == CopyOf(s)
           new == Data!Copied(Append(q, s))
<1>1. q \in Seq(Segments) /\ n \in Nat /\ out \in Seq(Nat) /\ Len(out) = size /\ Data!Carries(out, n)
  BY DEF Covers
<1>2. s \in Segments /\ c \in Seq(Nat) /\ Len(c) = m /\ \A i \in 1 .. m : c[i] = 0
  BY CopyFacts
<1>3. Append(q, s) \in Seq(Segments) /\ new = out \o c
  BY <1>1, <1>2, CopiedMore
<1> HIDE DEF s, out, c, new
<1>4. /\ new \in Seq(Nat) /\ Len(new) = size + m /\ size \in Nat /\ DOMAIN new = 1 .. size + m /\ DOMAIN out = 1 .. size
      /\ \A i \in 1 .. size : i \in 1 .. size + m /\ new[i] = out[i]
      /\ \A i \in 1 .. size + m : i \in 1 .. size \/ new[i] = 0
  <2>1. /\ new \in Seq(Nat) /\ Len(new) = size + m /\ size \in Nat /\ DOMAIN new = 1 .. size + m /\ DOMAIN out = 1 .. size
        /\ \A i \in 1 .. size : i \in 1 .. size + m /\ new[i] = out[i]
        /\ \A i \in 1 .. m : new[size + i] = c[i]
    <3>1. ConcatIs(Nat, out, c)
      BY <1>1, <1>2, ConcatFacts
    <3>2. new = out \o c /\ Len(out) = size /\ Len(c) = m /\ DOMAIN out = 1 .. Len(out)
      BY <1>1, <1>2, <1>3
    <3> QED BY <3>1, <3>2 DEF ConcatIs
  <2>2. ASSUME NEW i \in 1 .. size + m, i \notin 1 .. size PROVE new[i] = 0
    <3>1. i - size \in 1 .. m /\ size + (i - size) = i
      BY <2>1, <2>2
    <3> QED BY <1>2, <2>1, <3>1
  <2> QED BY <2>1, <2>2
<1>5. {new[i] : i \in DOMAIN new} \ {0} = {out[i] : i \in DOMAIN out} \ {0}
  <2>1. \A i \in DOMAIN new : new[i] # 0 => i \in DOMAIN out /\ new[i] = out[i]
    BY <1>4
  <2>2. \A i \in DOMAIN out : i \in DOMAIN new /\ new[i] = out[i]
    BY <1>4
  <2> QED BY <2>1, <2>2
<1>6. \A i, j \in DOMAIN new : i < j /\ new[i] # 0 /\ new[j] # 0 => new[i] < new[j]
  BY <1>1, <1>4 DEF Data!Carries
<1> QED BY <1>1, <1>3, <1>4, <1>5, <1>6 DEF Covers, Data!Carries, new, s, out

LEMMA CoversCopy == ASSUME NEW q, NEW n, NEW size, Covers(q, n, size), NEW m \in Nat
    PROVE Covers(Append(q, <<n, m>>), n + m, size + m)
<1> DEFINE s == <<n, m>>
           out == Data!Copied(q)
           c == CopyOf(s)
           new == Data!Copied(Append(q, s))
<1>1. q \in Seq(Segments) /\ n \in Nat /\ out \in Seq(Nat) /\ Len(out) = size /\ Data!Carries(out, n)
  BY DEF Covers
<1>2. s \in Segments /\ c \in Seq(Nat) /\ Len(c) = m /\ \A i \in 1 .. m : c[i] = n + i
  BY <1>1, CopyFacts DEF Data!Zero
<1>3. Append(q, s) \in Seq(Segments) /\ new = out \o c
  BY <1>1, <1>2, CopiedMore
<1> HIDE DEF s, out, c, new
<1>4. /\ new \in Seq(Nat) /\ Len(new) = size + m /\ size \in Nat /\ DOMAIN new = 1 .. size + m /\ DOMAIN out = 1 .. size
      /\ \A i \in 1 .. size : i \in 1 .. size + m /\ new[i] = out[i]
      /\ \A i \in 1 .. size + m : i \in 1 .. size \/ (i > size /\ new[i] = n + (i - size))
  <2>1. /\ new \in Seq(Nat) /\ Len(new) = size + m /\ size \in Nat /\ DOMAIN new = 1 .. size + m /\ DOMAIN out = 1 .. size
        /\ \A i \in 1 .. size : i \in 1 .. size + m /\ new[i] = out[i]
        /\ \A i \in 1 .. m : new[size + i] = c[i]
    <3>1. ConcatIs(Nat, out, c)
      BY <1>1, <1>2, ConcatFacts
    <3>2. new = out \o c /\ Len(out) = size /\ Len(c) = m /\ DOMAIN out = 1 .. Len(out)
      BY <1>1, <1>2, <1>3
    <3> QED BY <3>1, <3>2 DEF ConcatIs
  <2>2. ASSUME NEW i \in 1 .. size + m, i \notin 1 .. size PROVE i > size /\ new[i] = n + (i - size)
    <3>1. i - size \in 1 .. m /\ size + (i - size) = i /\ i > size
      BY <2>1, <2>2
    <3> QED BY <1>2, <2>1, <3>1
  <2> QED BY <2>1, <2>2
<1>5. {out[i] : i \in DOMAIN out} \ {0} = 1 .. n
  BY <1>1 DEF Data!Carries
<1>6. \A i \in 1 .. size : out[i] \in 0 .. n
  <2>1. ASSUME NEW i \in 1 .. size PROVE out[i] \in 0 .. n
    <3>1. out[i] = 0 \/ out[i] \in {out[k] : k \in DOMAIN out} \ {0}
      BY <1>4
    <3> QED BY <1>1, <1>5, <3>1
  <2> QED BY <2>1
<1>7. {new[i] : i \in DOMAIN new} \ {0} = 1 .. n + m
  <2>1. ASSUME NEW i \in 1 .. size + m, new[i] # 0 PROVE new[i] \in 1 .. n + m
    BY <1>1, <1>4, <1>6, <2>1
  <2>2. ASSUME NEW v \in 1 .. n + m PROVE \E i \in 1 .. size + m : new[i] = v
    <3>1. CASE v =< n
      <4>1. v \in 1 .. n
        BY <1>1, <3>1
      <4>2. PICK i \in DOMAIN out : out[i] = v
        BY <1>5, <4>1
      <4>3. i \in 1 .. size + m /\ new[i] = v
        BY <1>4, <4>2
      <4> QED BY <4>3
    <3>2. CASE v > n
      <4>1. size + (v - n) \in 1 .. size + m /\ size + (v - n) \notin 1 .. size /\ n + ((size + (v - n)) - size) = v
        BY <1>1, <1>4, <3>2
      <4>2. new[size + (v - n)] = v
        BY <1>4, <4>1
      <4> QED BY <4>1, <4>2
    <3> QED BY <1>1, <3>1, <3>2
  <2>3. \A i \in DOMAIN new : new[i] # 0 => new[i] \in 1 .. n + m
    BY <1>4, <2>1
  <2>4. ASSUME NEW v \in 1 .. n + m PROVE v # 0 /\ \E i \in DOMAIN new : new[i] = v
    <3>1. PICK i \in 1 .. size + m : new[i] = v
      BY <2>2
    <3>2. i \in DOMAIN new
      BY <1>4
    <3>3. v # 0
      BY <1>1
    <3> QED BY <3>1, <3>2, <3>3
  <2> QED BY <2>3, <2>4
<1>8. \A i, j \in DOMAIN new : i < j /\ new[i] # 0 /\ new[j] # 0 => new[i] < new[j]
  <2> SUFFICES ASSUME NEW i \in 1 .. size + m, NEW j \in 1 .. size + m, i < j, new[i] # 0, new[j] # 0 PROVE new[i] < new[j]
    BY <1>4
  <2>1. CASE j \in 1 .. size
    <3>1. i \in 1 .. size
      BY <1>4, <2>1
    <3>2. i \in DOMAIN out /\ j \in DOMAIN out /\ new[i] = out[i] /\ new[j] = out[j]
      BY <1>4, <2>1, <3>1
    <3> QED BY <1>1, <3>2 DEF Data!Carries
  <2>2. CASE i \in 1 .. size /\ j \notin 1 .. size
    <3>1. new[j] = n + (j - size) /\ j > size /\ new[i] \in 0 .. n
      BY <1>4, <1>6, <2>2
    <3> QED BY <1>1, <1>4, <3>1
  <2>3. CASE i \notin 1 .. size /\ j \notin 1 .. size
    <3>1. new[j] = n + (j - size) /\ new[i] = n + (i - size)
      BY <1>4, <2>3
    <3> QED BY <1>1, <1>4, <3>1
  <2> QED BY <2>1, <2>2, <2>3
<1>9. n + m \in Nat
  BY <1>1
<1> QED BY <1>3, <1>4, <1>7, <1>8, <1>9 DEF Covers, Data!Carries, new, s

\* the shapes the layouts have, c for a copied segment, m for a made one
LongerBy(q, x, r) == Len(r) = Len(q) + 1 /\ r[Len(q) + 1] = x /\ \A i \in 1 .. Len(q) : r[i] = q[i]
LEMMA IsAppended == ASSUME NEW S, NEW q \in Seq(S), NEW x \in S, NEW r \in Seq(S), LongerBy(q, x, r) PROVE Append(q, x) = r
  BY DEF LongerBy
LEMMA Grown0 == ASSUME NEW a PROVE Append(<< >>, a) = <<a>>
  OBVIOUS
LEMMA Grown1 == ASSUME NEW a, NEW b PROVE Append(<<a>>, b) = <<a, b>>
<1> DEFINE S == {a, b}
<1>1. <<a>> \in Seq(S) /\ <<a, b>> \in Seq(S)
  OBVIOUS
<1>2. LongerBy(<<a>>, b, <<a, b>>)
  <2>1. \A i \in 1 .. 1 : i = 1
    OBVIOUS
  <2> QED BY <2>1 DEF LongerBy
<1> QED BY <1>1, <1>2, IsAppended
LEMMA Grown2 == ASSUME NEW a, NEW b, NEW c PROVE Append(<<a, b>>, c) = <<a, b, c>>
<1> DEFINE S == {a, b, c}
<1>1. <<a, b>> \in Seq(S) /\ <<a, b, c>> \in Seq(S)
  OBVIOUS
<1>2. LongerBy(<<a, b>>, c, <<a, b, c>>)
  <2>1. \A i \in 1 .. 2 : i = 1 \/ i = 2
    OBVIOUS
  <2> QED BY <2>1 DEF LongerBy
<1> QED BY <1>1, <1>2, IsAppended
LEMMA Grown3 == ASSUME NEW a, NEW b, NEW c, NEW d PROVE Append(<<a, b, c>>, d) = <<a, b, c, d>>
<1> DEFINE S == {a, b, c, d}
<1>1. <<a, b, c>> \in Seq(S) /\ <<a, b, c, d>> \in Seq(S)
  OBVIOUS
<1>2. LongerBy(<<a, b, c>>, d, <<a, b, c, d>>)
  <2>1. \A i \in 1 .. 3 : i = 1 \/ i = 2 \/ i = 3
    OBVIOUS
  <2> QED BY <2>1 DEF LongerBy
<1> QED BY <1>1, <1>2, IsAppended
LEMMA Grown4 == ASSUME NEW a, NEW b, NEW c, NEW d, NEW e PROVE Append(<<a, b, c, d>>, e) = <<a, b, c, d, e>>
<1> DEFINE S == {a, b, c, d, e}
<1>1. <<a, b, c, d>> \in Seq(S) /\ <<a, b, c, d, e>> \in Seq(S)
  OBVIOUS
<1>2. LongerBy(<<a, b, c, d>>, e, <<a, b, c, d, e>>)
  <2>1. \A i \in 1 .. 4 : i = 1 \/ i = 2 \/ i = 3 \/ i = 4
    OBVIOUS
  <2> QED BY <2>1 DEF LongerBy
<1> QED BY <1>1, <1>2, IsAppended
LEMMA Grown5 == ASSUME NEW a, NEW b, NEW c, NEW d, NEW e, NEW f PROVE Append(<<a, b, c, d, e>>, f) = <<a, b, c, d, e, f>>
<1> DEFINE S == {a, b, c, d, e, f}
<1>1. <<a, b, c, d, e>> \in Seq(S) /\ <<a, b, c, d, e, f>> \in Seq(S)
  OBVIOUS
<1>2. LongerBy(<<a, b, c, d, e>>, f, <<a, b, c, d, e, f>>)
  <2>1. \A i \in 1 .. 5 : i = 1 \/ i = 2 \/ i = 3 \/ i = 4 \/ i = 5
    OBVIOUS
  <2> QED BY <2>1 DEF LongerBy
<1> QED BY <1>1, <1>2, IsAppended
LEMMA Grown6 == ASSUME NEW a, NEW b, NEW c, NEW d, NEW e, NEW f, NEW g PROVE Append(<<a, b, c, d, e, f>>, g) = <<a, b, c, d, e, f, g>>
<1> DEFINE S == {a, b, c, d, e, f, g}
<1>1. <<a, b, c, d, e, f>> \in Seq(S) /\ <<a, b, c, d, e, f, g>> \in Seq(S)
  OBVIOUS
<1>2. LongerBy(<<a, b, c, d, e, f>>, g, <<a, b, c, d, e, f, g>>)
  <2>1. \A i \in 1 .. 6 : i = 1 \/ i = 2 \/ i = 3 \/ i = 4 \/ i = 5 \/ i = 6
    OBVIOUS
  <2> QED BY <2>1 DEF LongerBy
<1> QED BY <1>1, <1>2, IsAppended
LEMMA Grown7 == ASSUME NEW a, NEW b, NEW c, NEW d, NEW e, NEW f, NEW g, NEW h PROVE Append(<<a, b, c, d, e, f, g>>, h) = <<a, b, c, d, e, f, g, h>>
<1> DEFINE S == {a, b, c, d, e, f, g, h}
<1>1. <<a, b, c, d, e, f, g>> \in Seq(S) /\ <<a, b, c, d, e, f, g, h>> \in Seq(S)
  OBVIOUS
<1>2. LongerBy(<<a, b, c, d, e, f, g>>, h, <<a, b, c, d, e, f, g, h>>)
  <2>1. \A i \in 1 .. 7 : i = 1 \/ i = 2 \/ i = 3 \/ i = 4 \/ i = 5 \/ i = 6 \/ i = 7
    OBVIOUS
  <2> QED BY <2>1 DEF LongerBy
<1> QED BY <1>1, <1>2, IsAppended

Z(n) == <<Data!Zero, n>>
LEMMA Skips == ASSUME NEW q, NEW n, NEW size, Covers(q, n, size), NEW m \in Nat, NEW r, Append(q, Z(m)) = r PROVE Covers(r, n, size + m)
  BY CoversSkip DEF Z
LEMMA Copies == ASSUME NEW q, NEW n, NEW size, Covers(q, n, size), NEW m \in Nat, NEW r, Append(q, <<n, m>>) = r PROVE Covers(r, n + m, size + m)
  BY CoversCopy

LEMMA ShapeCM == ASSUME NEW a \in Nat, NEW b \in Nat
    PROVE /\ Covers(<< <<0, a>> >>, a, a)
          /\ Covers(<< <<0, a>>, Z(b) >>, a, a + b)
          /\ Covers(<< Z(b), <<0, a>> >>, a, a + b)
<1>1. Append(<< >>, <<0, a>>) = << <<0, a>> >> /\ Append(<< >>, Z(b)) = << Z(b) >>
  BY Grown0, Grown1, Grown2, Grown3, Zenon
<1>2. Covers(<< <<0, a>> >>, 0 + a, 0 + a) /\ Covers(<< Z(b) >>, 0, 0 + b)
  BY <1>1, CoversNone, Skips, Copies
<1>3. Append(<< <<0, a>> >>, Z(b)) = << <<0, a>>, Z(b) >> /\ Append(<< Z(b) >>, <<0, a>>) = << Z(b), <<0, a>> >>
  BY Grown0, Grown1, Grown2, Grown3, Zenon
<1>4. Covers(<< <<0, a>>, Z(b) >>, 0 + a, (0 + a) + b) /\ Covers(<< Z(b), <<0, a>> >>, 0 + a, (0 + b) + a)
  <2>1. Covers(<< <<0, a>>, Z(b) >>, 0 + a, (0 + a) + b)
    BY <1>2, <1>3, Skips
  <2>2. Covers(<< Z(b), <<0, a>> >>, 0 + a, (0 + b) + a)
    BY <1>2, <1>3, Copies
  <2> QED BY <2>1, <2>2
<1>5. 0 + a = a /\ (0 + a) + b = a + b /\ (0 + b) + a = a + b
  OBVIOUS
<1> QED BY <1>2, <1>4, <1>5

LEMMA ShapeCMC == ASSUME NEW a \in Nat, NEW b \in Nat, NEW c \in Nat, NEW d \in Nat
    PROVE /\ Covers(<< <<0, a>>, Z(b), <<a, c>> >>, a + c, a + b + c)
          /\ Covers(<< <<0, a>>, Z(b), <<a, c>>, Z(d) >>, a + c, a + b + c + d)
          /\ Covers(<< <<0, a>>, Z(b), Z(d) >>, a, a + b + d)
<1>1. Covers(<< <<0, a>>, Z(b) >>, a, a + b)
  BY ShapeCM
<1>2. \A x, y, z : Append(<<x, y>>, z) = <<x, y, z>>
  BY Grown2
<1>6. \A x, y, z, u : Append(<<x, y, z>>, u) = <<x, y, z, u>>
  BY Grown3
<1> HIDE DEF Z
<1>3. Covers(<< <<0, a>>, Z(b), <<a, c>> >>, a + c, a + b + c)
  BY <1>1, <1>2, Copies
<1>4. Covers(<< <<0, a>>, Z(b), Z(d) >>, a, a + b + d)
  BY <1>1, <1>2, Skips
<1>5. Covers(<< <<0, a>>, Z(b), <<a, c>>, Z(d) >>, a + c, a + b + c + d)
  BY <1>3, <1>6, Skips
<1> QED BY <1>3, <1>4, <1>5

\* a layout that reads right: head, and row when it has one
Right(o, lost, reads) ==
    /\ IF o.row = 0 THEN Covers(o.Head, o.n - lost, reads[1]) /\ o.Row = << >> /\ reads[2] = 0
       ELSE Covers(o.Head, o.n, reads[1]) /\ Covers(o.Row, o.row - lost, reads[2])

LEMMA FixedRight == ASSUME NEW n \in Nat, NEW head, NEW lost \in 0 .. n, NEW size, Covers(head, n - lost, size)
    PROVE Right(Data!Fixed(n, head), lost, <<size, 0>>)
  BY DEF Right, Data!Fixed
LEMMA RowsReadRight == ASSUME NEW n \in Nat, NEW head, NEW size, Covers(head, n, size),
                          NEW k \in Nat \ {0}, NEW row, NEW lost \in 0 .. k, NEW width, Covers(row, k - lost, width)
    PROVE Right(Data!List(n, head, k, row), lost, <<size, width>>)
  BY DEF Right, Data!List
LEMMA ExtendedRight == ASSUME NEW n \in Nat, NEW more \in Nat PROVE Right(Data!Extended(n, more), 0, <<n + more, 0>>)
<1>1. Covers(<< <<0, n>>, <<Data!Zero, more>> >>, n, n + more)
  BY ShapeCM DEF Z
<1>2. n - 0 = n /\ 0 \in 0 .. n
  OBVIOUS
<1> QED BY <1>1, <1>2, FixedRight DEF Data!Extended

LongRow(a, b, c, d, f, m, g, h) == << <<0, a>>, Z(b), <<a, c>>, Z(d), <<a + c, f>>, Z(m), <<a + c + f, g>>, Z(h) >>
LEMMA ShapeLong == ASSUME NEW a \in Nat, NEW b \in Nat, NEW c \in Nat, NEW d \in Nat,
                          NEW f \in Nat, NEW m \in Nat, NEW g \in Nat, NEW h \in Nat
    PROVE Covers(LongRow(a, b, c, d, f, m, g, h), a + c + f + g, a + b + c + d + f + m + g + h)
<1> DEFINE x == a + c y == x + f
           q4 == << <<0, a>>, Z(b), <<a, c>>, Z(d) >>
           q5 == << <<0, a>>, Z(b), <<a, c>>, Z(d), <<x, f>> >>
           q6 == << <<0, a>>, Z(b), <<a, c>>, Z(d), <<x, f>>, Z(m) >>
           q7 == << <<0, a>>, Z(b), <<a, c>>, Z(d), <<x, f>>, Z(m), <<y, g>> >>
           q8 == << <<0, a>>, Z(b), <<a, c>>, Z(d), <<x, f>>, Z(m), <<y, g>>, Z(h) >>
<1>1. Covers(q4, x, a + b + c + d)
  BY ShapeCMC
<1> HIDE DEF x, y
<1>2. Append(q4, <<x, f>>) = q5
  BY Grown4
<1>3. Append(q5, Z(m)) = q6
  BY Grown5
<1>4. Append(q6, <<y, g>>) = q7
  BY Grown6
<1>5. Append(q7, Z(h)) = q8
  BY Grown7
<1> HIDE DEF q4, q5, q6, q7, q8
<1>6. Covers(q5, y, a + b + c + d + f)
  BY <1>1, <1>2, Copies DEF y
<1>7. Covers(q6, y, a + b + c + d + f + m)
  BY <1>3, <1>6, Skips
<1>8. Covers(q7, y + g, a + b + c + d + f + m + g)
  BY <1>4, <1>7, Copies
<1>9. Covers(q8, y + g, a + b + c + d + f + m + g + h)
  BY <1>5, <1>8, Skips
<1> QED BY <1>9 DEF q8, LongRow, x, y

\* a character's record: the last byte of the 235 is not carried
LEMMA RecordRow == ASSUME NEW e \in 0 .. 1 PROVE Covers(Data!LoginCharacterRow(e), 235 - 1, 304 + e)
<1> DEFINE a == 82 b == 31 c == 9 d == 1 f == 99 m == 36 + e g == 44 h == 2
<1>1. a \in Nat /\ b \in Nat /\ c \in Nat /\ d \in Nat /\ f \in Nat /\ m \in Nat /\ g \in Nat /\ h \in Nat
  OBVIOUS
<1>2. a + c + f + g = 235 - 1 /\ a + b + c + d + f + m + g + h = 304 + e
  OBVIOUS
<1>3. Data!LoginCharacterRow(e) = LongRow(a, b, c, d, f, m, g, h)
  BY DEF Data!LoginCharacterRow, Z, LongRow
<1> HIDE DEF a, b, c, d, f, m, g, h
<1>4. Covers(LongRow(a, b, c, d, f, m, g, h), a + c + f + g, a + b + c + d + f + m + g + h)
  BY <1>1, ShapeLong, ZenonT(30)
<1> QED BY <1>2, <1>3, <1>4

LEMMA MobRow == ASSUME NEW e \in 0 .. 1 PROVE Covers(Data!RegenMobRow(e), 149, 187 + e)
<1>1. \A a, b, c, d \in Nat : Covers(<< <<0, a>>, Z(b), <<a, c>>, Z(d) >>, a + c, a + b + c + d)
  BY ShapeCMC
<1>2. 114 \in Nat /\ 37 + e \in Nat /\ 35 \in Nat /\ 1 \in Nat
  OBVIOUS
<1>3. Covers(<< <<0, 114>>, Z(37 + e), <<114, 35>>, Z(1) >>, 114 + 35, 114 + (37 + e) + 35 + 1)
  BY <1>1, <1>2
<1>4. 114 + 35 = 149 /\ 114 + (37 + e) + 35 + 1 = 187 + e
  OBVIOUS
<1> QED BY <1>3, <1>4 DEF Data!RegenMobRow, Z

\* each of the bridge's layouts reads right
LEMMA LayoutsRight == ASSUME NEW e \in 0 .. 1, NEW name \in DOMAIN Data!Owned(0)
    PROVE Right(Data!Owned(e)[name], IF name \in {"logincharacter", "characterlist"} THEN 1 ELSE 0, Data!Reads(name, e))
<1> DEFINE right(x, lost) == Right(Data!Owned(e)[x], lost, Data!Reads(x, e))
<1>0. (\A a, b \in Nat : Covers(<< <<0, a>> >>, a, a) /\ Covers(<< <<0, a>>, Z(b) >>, a, a + b) /\ Covers(<< Z(b), <<0, a>> >>, a, a + b))
  BY ShapeCM
<1>00. \A a, b, c, d \in Nat : /\ Covers(<< <<0, a>>, Z(b), <<a, c>> >>, a + c, a + b + c)
                                /\ Covers(<< <<0, a>>, Z(b), <<a, c>>, Z(d) >>, a + c, a + b + c + d)
                                /\ Covers(<< <<0, a>>, Z(b), Z(d) >>, a, a + b + d)
  BY ShapeCMC
<1>1. right("swing", 0)
  <2>1. Data!Owned(e)["swing"] = Data!Fixed(16, << <<0, 8>>, Z(2), <<8, 8>>, Z(7) >>) /\ Data!Reads("swing", e) = <<25, 0>>
    BY DEF Data!Owned, Data!Reads, Z
  <2>2. 0 \in Nat /\ 2 \in Nat /\ 7 \in Nat /\ 8 \in Nat
    OBVIOUS
  <2>3. Covers(<< <<0, 8>>, Z(2), <<8, 8>>, Z(7) >>, 8 + 8, 8 + 2 + 8 + 7)
    BY <1>00, <2>2
  <2>4. 8 + 8 = 16 - 0 /\ 8 + 2 + 8 + 7 = 25 /\ 16 \in Nat /\ 0 \in 0 .. 16
    OBVIOUS
  <2>5. Right(Data!Fixed(16, << <<0, 8>>, Z(2), <<8, 8>>, Z(7) >>), 0, <<25, 0>>)
    BY <2>3, <2>4, FixedRight
  <2> QED BY <2>1, <2>5
<1>2. right("targetinfo", 0)
  <2>1. Data!Owned(e)["targetinfo"] = Data!Fixed(30, << <<0, 30>>, Z(2), Z(9) >>) /\ Data!Reads("targetinfo", e) = <<41, 0>>
    BY DEF Data!Owned, Data!Reads, Z
  <2>2. 0 \in Nat /\ 2 \in Nat /\ 30 \in Nat /\ 9 \in Nat
    OBVIOUS
  <2>3. Covers(<< <<0, 30>>, Z(2), Z(9) >>, 30, 30 + 2 + 9)
    BY <1>00, <2>2
  <2>4. 30 = 30 - 0 /\ 30 + 2 + 9 = 41 /\ 30 \in Nat /\ 0 \in 0 .. 30
    OBVIOUS
  <2>5. Right(Data!Fixed(30, << <<0, 30>>, Z(2), Z(9) >>), 0, <<41, 0>>)
    BY <2>3, <2>4, FixedRight
  <2> QED BY <2>1, <2>5
<1>3. right("clientbase", 0)
  <2> DEFINE a == 54 b == 1 c == 51 d == 256
             head == << <<0, a>>, Z(b), <<a, c>>, Z(d) >>
  <2>1. Data!Owned(e)["clientbase"] = Data!Fixed(105, head) /\ Data!Reads("clientbase", e) = <<362, 0>>
    BY DEF Data!Owned, Data!Reads, Z
  <2>2. a \in Nat /\ b \in Nat /\ c \in Nat /\ d \in Nat
    OBVIOUS
  <2>3. a + c = 105 - 0 /\ a + b + c + d = 362 /\ 105 \in Nat /\ 0 \in 0 .. 105
    OBVIOUS
  <2> HIDE DEF a, b, c, d
  <2>4. Covers(head, a + c, a + b + c + d)
    BY <2>2, ShapeCMC
  <2> HIDE DEF head
  <2>5. Right(Data!Fixed(105, head), 0, <<362, 0>>)
    BY <2>3, <2>4, FixedRight
  <2> QED BY <2>1, <2>5
<1>4. right("regenmover", 0)
  <2>1. Data!Owned(e)["regenmover"] = Data!Fixed(139, << <<0, 118>>, Z(37 + e), <<118, 21>> >>) /\ Data!Reads("regenmover", e) = <<176 + e, 0>>
    BY DEF Data!Owned, Data!Reads, Z
  <2>2. 0 \in Nat /\ 118 \in Nat /\ 21 \in Nat /\ 37 + e \in Nat
    OBVIOUS
  <2>3. Covers(<< <<0, 118>>, Z(37 + e), <<118, 21>> >>, 118 + 21, 118 + (37 + e) + 21)
    BY <1>00, <2>2, ZenonT(30)
  <2>4. 118 + 21 = 139 - 0 /\ 118 + (37 + e) + 21 = 176 + e /\ 139 \in Nat /\ 0 \in 0 .. 139
    OBVIOUS
  <2>5. Right(Data!Fixed(139, << <<0, 118>>, Z(37 + e), <<118, 21>> >>), 0, <<176 + e, 0>>)
    BY <2>3, <2>4, FixedRight
  <2> QED BY <2>1, <2>5
<1>5. right("tail7", 0)
  <2>1. Data!Owned(e)["tail7"] = Data!Extended(13, 7) /\ Data!Reads("tail7", e) = <<13 + 7, 0>>
    BY DEF Data!Owned, Data!Reads
  <2>2. Right(Data!Extended(13, 7), 0, <<13 + 7, 0>>)
    BY ExtendedRight
  <2> QED BY <2>1, <2>2
<1>6. right("hitstart6", 0)
  <2>1. Data!Owned(e)["hitstart6"] = Data!Extended(6, 4) /\ Data!Reads("hitstart6", e) = <<6 + 4, 0>>
    BY DEF Data!Owned, Data!Reads
  <2>2. Right(Data!Extended(6, 4), 0, <<6 + 4, 0>>)
    BY ExtendedRight
  <2> QED BY <2>1, <2>2
<1>7. right("hitstart8", 0)
  <2>1. Data!Owned(e)["hitstart8"] = Data!Extended(8, 4) /\ Data!Reads("hitstart8", e) = <<8 + 4, 0>>
    BY DEF Data!Owned, Data!Reads
  <2>2. Right(Data!Extended(8, 4), 0, <<8 + 4, 0>>)
    BY ExtendedRight
  <2> QED BY <2>1, <2>2
<1>8. right("hitstart12", 0)
  <2>1. Data!Owned(e)["hitstart12"] = Data!Extended(12, 4) /\ Data!Reads("hitstart12", e) = <<12 + 4, 0>>
    BY DEF Data!Owned, Data!Reads
  <2>2. Right(Data!Extended(12, 4), 0, <<12 + 4, 0>>)
    BY ExtendedRight
  <2> QED BY <2>1, <2>2
<1>9. right("hitstart14", 0)
  <2>1. Data!Owned(e)["hitstart14"] = Data!Extended(14, 4) /\ Data!Reads("hitstart14", e) = <<14 + 4, 0>>
    BY DEF Data!Owned, Data!Reads
  <2>2. Right(Data!Extended(14, 4), 0, <<14 + 4, 0>>)
    BY ExtendedRight
  <2> QED BY <2>1, <2>2
<1>10. right("chargedbuff_start", 0)
  <2>1. Data!Owned(e)["chargedbuff_start"] = Data!Extended(14, 8) /\ Data!Reads("chargedbuff_start", e) = <<14 + 8, 0>>
    BY DEF Data!Owned, Data!Reads
  <2>2. Right(Data!Extended(14, 8), 0, <<14 + 8, 0>>)
    BY ExtendedRight
  <2> QED BY <2>1, <2>2
<1>11. right("chargedbuff_terminate", 0)
  <2>1. Data!Owned(e)["chargedbuff_terminate"] = Data!Extended(4, 1) /\ Data!Reads("chargedbuff_terminate", e) = <<4 + 1, 0>>
    BY DEF Data!Owned, Data!Reads
  <2>2. Right(Data!Extended(4, 1), 0, <<4 + 1, 0>>)
    BY ExtendedRight
  <2> QED BY <2>1, <2>2
<1>12. right("skillhit", 0)
  <2>1. Data!Owned(e)["skillhit"] = Data!List(5, << <<0, 5>>, Z(4) >>, 14, << <<0, 14>>, Z(7) >>)
        /\ Data!Reads("skillhit", e) = <<9, 21>>
    BY DEF Data!Owned, Data!Reads, Z
  <2>2. 0 \in Nat /\ 14 \in Nat /\ 4 \in Nat /\ 5 \in Nat /\ 7 \in Nat
    OBVIOUS
  <2>3. Covers(<< <<0, 5>>, Z(4) >>, 5, 5 + 4) /\ Covers(<< <<0, 14>>, Z(7) >>, 14, 14 + 7)
    BY <1>0, <1>00, <2>2
  <2>4. 5 = 5 /\ 5 + 4 = 9 /\ 14 = 14 - 0 /\ 14 + 7 = 21 /\ 5 \in Nat /\ 14 \in Nat \ {0} /\ 0 \in 0 .. 14
    OBVIOUS
  <2>5. Covers(<< <<0, 5>>, Z(4) >>, 5, 9) /\ Covers(<< <<0, 14>>, Z(7) >>, 14 - 0, 21)
    BY <2>3, <2>4
  <2>6. Right(Data!List(5, << <<0, 5>>, Z(4) >>, 14, << <<0, 14>>, Z(7) >>), 0, <<9, 21>>)
    BY <2>4, <2>5, RowsReadRight
  <2> QED BY <2>1, <2>6
<1>13. right("chargedbuff", 0)
  <2>1. Data!Owned(e)["chargedbuff"] = Data!List(2, << Z(4), <<0, 2>> >>, 14, << <<0, 14>>, Z(8) >>)
        /\ Data!Reads("chargedbuff", e) = <<6, 22>>
    BY DEF Data!Owned, Data!Reads, Z
  <2>2. 0 \in Nat /\ 14 \in Nat /\ 2 \in Nat /\ 4 \in Nat /\ 8 \in Nat
    OBVIOUS
  <2>3. Covers(<< Z(4), <<0, 2>> >>, 2, 2 + 4) /\ Covers(<< <<0, 14>>, Z(8) >>, 14, 14 + 8)
    BY <1>0, <1>00, <2>2
  <2>4. 2 = 2 /\ 2 + 4 = 6 /\ 14 = 14 - 0 /\ 14 + 8 = 22 /\ 2 \in Nat /\ 14 \in Nat \ {0} /\ 0 \in 0 .. 14
    OBVIOUS
  <2>5. Covers(<< Z(4), <<0, 2>> >>, 2, 6) /\ Covers(<< <<0, 14>>, Z(8) >>, 14 - 0, 22)
    BY <2>3, <2>4
  <2>6. Right(Data!List(2, << Z(4), <<0, 2>> >>, 14, << <<0, 14>>, Z(8) >>), 0, <<6, 22>>)
    BY <2>4, <2>5, RowsReadRight
  <2> QED BY <2>1, <2>6
<1>14. right("shoptable", 0)
  <2>1. Data!Owned(e)["shoptable"] = Data!List(4, << <<0, 4>> >>, 3, << <<0, 1>>, Z(3), <<1, 2>> >>)
        /\ Data!Reads("shoptable", e) = <<4, 6>>
    BY DEF Data!Owned, Data!Reads, Z
  <2>2. 0 \in Nat /\ 1 \in Nat /\ 2 \in Nat /\ 3 \in Nat /\ 4 \in Nat
    OBVIOUS
  <2>3. Covers(<< <<0, 4>> >>, 4, 4) /\ Covers(<< <<0, 1>>, Z(3), <<1, 2>> >>, 1 + 2, 1 + 3 + 2)
    BY <1>0, <1>00, <2>2
  <2>4. 4 = 4 /\ 4 = 4 /\ 1 + 2 = 3 - 0 /\ 1 + 3 + 2 = 6 /\ 4 \in Nat /\ 3 \in Nat \ {0} /\ 0 \in 0 .. 3
    OBVIOUS
  <2>5. Covers(<< <<0, 4>> >>, 4, 4) /\ Covers(<< <<0, 1>>, Z(3), <<1, 2>> >>, 3 - 0, 6)
    BY <2>3, <2>4
  <2>6. Right(Data!List(4, << <<0, 4>> >>, 3, << <<0, 1>>, Z(3), <<1, 2>> >>), 0, <<4, 6>>)
    BY <2>4, <2>5, RowsReadRight
  <2> QED BY <2>1, <2>6
<1>15. right("regenmob", 0)
  <2>1. Data!Owned(e)["regenmob"] = Data!Fixed(149, Data!RegenMobRow(e)) /\ Data!Reads("regenmob", e) = <<187 + e, 0>>
    BY ZenonT(30) DEF Data!Owned, Data!Reads
  <2>2. Covers(Data!RegenMobRow(e), 149 - 0, 187 + e) /\ 149 \in Nat /\ 0 \in 0 .. 149
    BY MobRow
  <2>3. Right(Data!Fixed(149, Data!RegenMobRow(e)), 0, <<187 + e, 0>>)
    BY <2>2, FixedRight
  <2> QED BY <2>1, <2>3
<1>16. right("mobcmd", 0)
  <2>1. Data!Owned(e)["mobcmd"] = Data!List(1, << <<0, 1>> >>, 149, Data!RegenMobRow(e)) /\ Data!Reads("mobcmd", e) = <<1, 187 + e>>
    BY ZenonT(30) DEF Data!Owned, Data!Reads
  <2>2. Covers(Data!RegenMobRow(e), 149 - 0, 187 + e) /\ 1 \in Nat /\ 149 \in Nat \ {0} /\ 0 \in 0 .. 149
    BY MobRow
  <2>3. Covers(<< <<0, 1>> >>, 1, 1)
    BY <1>0, <2>2
  <2>4. Right(Data!List(1, << <<0, 1>> >>, 149, Data!RegenMobRow(e)), 0, <<1, 187 + e>>)
    BY <2>2, <2>3, RowsReadRight
  <2> QED BY <2>1, <2>4
<1>17. right("logincharacter", 1)
  <2>1. Data!Owned(e)["logincharacter"] = Data!Fixed(235, Data!LoginCharacterRow(e)) /\ Data!Reads("logincharacter", e) = <<304 + e, 0>>
    BY ZenonT(30) DEF Data!Owned, Data!Reads
  <2>2. Covers(Data!LoginCharacterRow(e), 235 - 1, 304 + e) /\ 235 \in Nat /\ 1 \in 0 .. 235
    BY RecordRow
  <2>3. Right(Data!Fixed(235, Data!LoginCharacterRow(e)), 1, <<304 + e, 0>>)
    BY <2>2, FixedRight
  <2> QED BY <2>1, <2>3
<1>18. right("characterlist", 1)
  <2>1. Data!Owned(e)["characterlist"] = Data!List(1, << <<0, 1>> >>, 235, Data!LoginCharacterRow(e)) /\ Data!Reads("characterlist", e) = <<1, 304 + e>>
    BY ZenonT(30) DEF Data!Owned, Data!Reads
  <2>2. Covers(Data!LoginCharacterRow(e), 235 - 1, 304 + e) /\ 1 \in Nat /\ 235 \in Nat \ {0} /\ 1 \in 0 .. 235
    BY RecordRow
  <2>3. Covers(<< <<0, 1>> >>, 1, 1)
    BY <1>0, <2>2
  <2>4. Right(Data!List(1, << <<0, 1>> >>, 235, Data!LoginCharacterRow(e)), 1, <<1, 304 + e>>)
    BY <2>2, <2>3, RowsReadRight
  <2> QED BY <2>1, <2>4
<1>19. name \in {"swing", "targetinfo", "clientbase", "regenmover", "tail7", "hitstart6", "hitstart8", "hitstart12", "hitstart14", "chargedbuff_start", "chargedbuff_terminate", "skillhit", "chargedbuff", "shoptable", "regenmob", "mobcmd", "logincharacter", "characterlist"}
  BY DEF Data!Owned
<1> HIDE DEF right
<1>20. CASE name \in {"logincharacter", "characterlist"}
  <2>1. right(name, 1)
    BY <1>18, <1>17, <1>20
  <2> QED BY <1>20, <2>1 DEF right
<1>21. CASE name \notin {"logincharacter", "characterlist"}
  <2>1. right(name, 0)
    BY <1>19, <1>21, <1>1, <1>2, <1>3, <1>4, <1>5, <1>6, <1>7, <1>8, <1>9, <1>10, <1>11, <1>12, <1>13, <1>14, <1>15, <1>16
  <2> QED BY <1>21, <2>1 DEF right
<1> QED BY <1>20, <1>21

LEMMA LayoutReads ==
    ASSUME NEW e \in 0 .. 1, NEW name \in DOMAIN Data!Owned(0), given = <<name, e>>,
           made = <<Data!Owned(e)[name].Head, Data!Owned(e)[name].Row>>
    PROVE  Data!LayoutHolds
<1> DEFINE o == Data!Owned(given[2])[given[1]]
           lost == IF given[1] \in {"logincharacter", "characterlist"} THEN 1 ELSE 0
           fixed == o.row = 0
           head == Data!Copied(made[1])
           body == Data!Copied(made[2])
           reads == Data!Reads(given[1], given[2])
<1>1. Right(o, lost, reads)
  BY LayoutsRight
<1>2. made[1] = o.Head /\ made[2] = o.Row
  OBVIOUS
<1>3. reads = <<reads[1], reads[2]>>
  <2>1. name \in DOMAIN Data!Owned(0)
    OBVIOUS
  <2> QED BY DEF Data!Reads, Data!Owned
<1>4. Len(head) = reads[1] /\ Data!Carries(head, o.n - (IF fixed THEN lost ELSE 0))
  <2>1. CASE fixed
    BY <1>1, <1>2, <2>1 DEF Right, Covers
  <2>2. CASE ~fixed
    <3>1. Covers(o.Head, o.n, reads[1])
      BY <1>1, <2>2, Zenon DEF Right
    <3>2. o.n - 0 = o.n
      BY <3>1 DEF Covers
    <3> QED BY <1>2, <2>2, <3>1, <3>2, Zenon DEF Covers
  <2> QED BY <2>1, <2>2
<1>5. Len(body) = reads[2] /\ (~fixed => Data!Carries(body, o.row - lost))
  <2>1. CASE fixed
    <3>1. made[2] = << >> /\ reads[2] = 0
      BY <1>1, <1>2, <2>1, Zenon DEF Right
    <3>2. Covers(<< >>, 0, 0)
      BY CoversNone
    <3> QED BY <2>1, <3>1, <3>2, Zenon DEF Covers
  <2>2. CASE ~fixed
    BY <1>1, <1>2, <2>2, Zenon DEF Right, Covers
  <2> QED BY <2>1, <2>2
<1> HIDE DEF head, body, reads, fixed, lost, o
<1>6. <<Len(head), Len(body)>> = reads
  BY <1>3, <1>4, <1>5
<1> QED BY <1>4, <1>5, <1>6, Zenon DEF Data!LayoutHolds, head, body, reads, fixed, lost, o

(* Item records. *)

Regrouped(x, y, z) == (x \o y) \o z = x \o (y \o z)
LEMMA Regroup == ASSUME NEW S, NEW x \in Seq(S), NEW y \in Seq(S), NEW z \in Seq(S) PROVE Regrouped(x, y, z)
  BY DEF Regrouped

\* two sequences with the same elements, and what SubSeq takes
LEMMA SameElements == ASSUME NEW S, NEW a \in Seq(S), NEW b \in Seq(S), Len(a) = Len(b), \A i \in 1 .. Len(a) : a[i] = b[i] PROVE a = b
  OBVIOUS
LEMMA SubSeqTakes == ASSUME NEW S, NEW a, NEW p \in Int, NEW q \in Int, \A i \in p .. q : a[i] \in S
    PROVE /\ SubSeq(a, p, q) \in Seq(S) /\ Len(SubSeq(a, p, q)) = IF p =< q THEN q - p + 1 ELSE 0
          /\ \A i \in 1 .. q - p + 1 : SubSeq(a, p, q)[i] = a[p + i - 1]
  OBVIOUS

\* a sequence is the two parts it is cut into, and cutting at the joint gives the parts back
LEMMA Cut == ASSUME NEW S, NEW a \in Seq(S), NEW p \in 0 .. Len(a)
    PROVE /\ SubSeq(a, 1, p) \in Seq(S) /\ Len(SubSeq(a, 1, p)) = p
          /\ SubSeq(a, p + 1, Len(a)) \in Seq(S)
          /\ SubSeq(a, 1, p) \o SubSeq(a, p + 1, Len(a)) = a
<1> DEFINE x == SubSeq(a, 1, p)
           y == SubSeq(a, p + 1, Len(a))
<1>1. Len(a) \in Nat /\ \A i \in 1 .. Len(a) : a[i] \in S
  OBVIOUS
<1>2. x \in Seq(S) /\ Len(x) = p /\ \A i \in 1 .. p : x[i] = a[i]
  <2>1. (\A i \in 1 .. p : a[i] \in S) /\ p \in Int
    BY <1>1
  <2>2. x \in Seq(S) /\ Len(x) = (IF 1 =< p THEN p - 1 + 1 ELSE 0) /\ \A i \in 1 .. p - 1 + 1 : x[i] = a[1 + i - 1]
    BY <2>1, SubSeqTakes
  <2> HIDE DEF x
  <2>3. \A i \in 1 .. p : i \in 1 .. p - 1 + 1 /\ 1 + i - 1 = i
    BY <2>1
  <2> QED BY <2>1, <2>2, <2>3
<1>3. y \in Seq(S) /\ Len(y) = Len(a) - p /\ \A i \in 1 .. Len(a) - p : y[i] = a[p + i]
  <2>1. (\A i \in p + 1 .. Len(a) : a[i] \in S) /\ p + 1 \in Int /\ Len(a) \in Int
    BY <1>1
  <2>2. /\ y \in Seq(S) /\ Len(y) = IF p + 1 =< Len(a) THEN Len(a) - (p + 1) + 1 ELSE 0
        /\ \A i \in 1 .. Len(a) - (p + 1) + 1 : y[i] = a[p + 1 + i - 1]
    BY <2>1, SubSeqTakes
  <2> HIDE DEF y
  <2>3. \A i \in 1 .. Len(a) - p : i \in 1 .. Len(a) - (p + 1) + 1 /\ p + 1 + i - 1 = p + i
    BY <1>1
  <2> QED BY <1>1, <2>2, <2>3
<1> HIDE DEF x, y
<1>4. x \o y \in Seq(S) /\ Len(x \o y) = Len(a) /\ \A i \in 1 .. Len(a) : (x \o y)[i] = a[i]
  <2>1. x \o y \in Seq(S) /\ Len(x \o y) = p + (Len(a) - p)
    BY <1>2, <1>3
  <2>2. ASSUME NEW i \in 1 .. p PROVE (x \o y)[i] = a[i]
    BY <1>1, <1>2, <1>3
  <2>3. ASSUME NEW i \in p + 1 .. Len(a) PROVE (x \o y)[i] = a[i]
    <3>1. i - p \in 1 .. Len(a) - p /\ p + (i - p) = i
      BY <1>1
    <3>2. (x \o y)[i] = y[i - p]
      BY <1>1, <1>2, <1>3
    <3> QED BY <1>3, <3>1, <3>2
  <2> QED BY <1>1, <2>1, <2>2, <2>3
<1>5. x \o y = a
  BY <1>1, <1>4, SameElements
<1> QED BY <1>2, <1>3, <1>5 DEF x, y

LEMMA CutAtJoint == ASSUME NEW S, NEW x \in Seq(S), NEW y \in Seq(S)
    PROVE SubSeq(x \o y, 1, Len(x)) = x /\ SubSeq(x \o y, Len(x) + 1, Len(x \o y)) = y
<1> DEFINE w == x \o y
           u == SubSeq(w, 1, Len(x))
           v == SubSeq(w, Len(x) + 1, Len(w))
<1>1. /\ w \in Seq(S) /\ Len(x) \in Nat /\ Len(y) \in Nat /\ Len(w) = Len(x) + Len(y)
      /\ \A i \in 1 .. Len(x) : w[i] = x[i]
      /\ \A i \in 1 .. Len(y) : w[Len(x) + i] = y[i]
  <2>1. ConcatIs(S, x, y)
    BY ConcatFacts
  <2> QED BY <2>1 DEF ConcatIs
<1> HIDE DEF w
<1>2. Len(x) \in 0 .. Len(w)
  BY <1>1
<1>3. u \in Seq(S) /\ Len(u) = Len(x) /\ v \in Seq(S) /\ u \o v = w
  BY <1>1, <1>2, Cut, Zenon
<1> HIDE DEF u, v
<1>4. ConcatIs(S, u, v)
  BY <1>3, ConcatFacts, Zenon
<1>5. Len(v) = Len(y)
  BY <1>1, <1>3, <1>4 DEF ConcatIs
<1>6. \A i \in 1 .. Len(u) : u[i] = x[i]
  BY <1>1, <1>3, <1>4 DEF ConcatIs
<1>7. \A i \in 1 .. Len(v) : v[i] = y[i]
  BY <1>1, <1>3, <1>4, <1>5 DEF ConcatIs
<1>8. u = x
  BY <1>3, <1>6, SameElements
<1>9. v = y
  BY <1>3, <1>5, <1>7, SameElements
<1> QED BY <1>8, <1>9 DEF u, v, w

\* a sequence with one byte more after the first p
WithByte(a, p) == SubSeq(a, 1, p) \o <<0>> \o SubSeq(a, p + 1, Len(a))
LEMMA WithByteIs == ASSUME NEW a \in Seq(Nat), NEW p \in 0 .. Len(a)
    PROVE /\ WithByte(a, p) \in Seq(Nat) /\ Len(WithByte(a, p)) = Len(a) + 1
          /\ \A i \in 1 .. Len(a) : i > p => WithByte(a, p)[i + 1] = a[i]
          /\ SubSeq(WithByte(a, p), 1, p) \o SubSeq(WithByte(a, p), p + 2, Len(WithByte(a, p))) = a
<1> DEFINE x == SubSeq(a, 1, p) y == SubSeq(a, p + 1, Len(a)) z == <<0>>
<1>1. x \in Seq(Nat) /\ Len(x) = p /\ y \in Seq(Nat) /\ x \o y = a
  BY Cut
<1>2. z \in Seq(Nat) /\ Len(z) = 1
  OBVIOUS
<1>3. WithByte(a, p) = (x \o z) \o y
  BY DEF WithByte
<1> HIDE DEF x, y, z
<1> DEFINE xz == x \o z
           w == xz \o y
<1>4. xz \in Seq(Nat) /\ Len(xz) = p + 1 /\ z \o y \in Seq(Nat)
  <2>1. ConcatIs(Nat, x, z) /\ ConcatIs(Nat, z, y)
    BY <1>1, <1>2, ConcatFacts
  <2> QED BY <1>1, <1>2, <2>1 DEF ConcatIs
<1>5. w = x \o (z \o y)
  <2>1. Regrouped(x, z, y)
    BY <1>1, <1>2, Regroup
  <2> QED BY <2>1 DEF Regrouped
<1>6. SubSeq(w, 1, p) = x
  BY <1>1, <1>4, <1>5, CutAtJoint
<1> HIDE DEF xz
<1>7. SubSeq(w, p + 1 + 1, Len(w)) = y
  <2>1. SubSeq(xz \o y, Len(xz) + 1, Len(xz \o y)) = y
    BY <1>1, <1>4, CutAtJoint
  <2> QED BY <1>4, <2>1
<1>8. ConcatIs(Nat, xz, y) /\ ConcatIs(Nat, x, y) /\ p + 1 + 1 = p + 2
  BY <1>1, <1>4, ConcatFacts
<1>9. w \in Seq(Nat) /\ Len(w) = Len(a) + 1
  BY <1>1, <1>4, <1>8 DEF ConcatIs
<1>10. ASSUME NEW i \in 1 .. Len(a), i > p PROVE w[i + 1] = a[i]
  <2>1. i - p \in 1 .. Len(y) /\ p + (i - p) = i /\ p + 1 + (i - p) = i + 1
    BY <1>1, <1>8, <1>10 DEF ConcatIs
  <2>2. w[p + 1 + (i - p)] = y[i - p]
    BY <1>4, <1>8, <2>1 DEF ConcatIs
  <2>3. a[p + (i - p)] = y[i - p]
    BY <1>1, <1>8, <2>1 DEF ConcatIs
  <2> QED BY <2>1, <2>2, <2>3
<1>11. WithByte(a, p) = w
  BY <1>3 DEF xz
<1> HIDE DEF w
<1> QED BY <1>1, <1>6, <1>7, <1>8, <1>9, <1>10, <1>11

\* what the bridge makes of an item's attributes: the client takes them, however much follows, and finds those the zone had
ItemReads(id, a) ==
    /\ a \in Seq(Nat) /\ Data!Record(id, a) \in Seq(Nat) /\ Data!Record(id, a) # Data!Refused
    /\ Data!Back(id, Data!Record(id, a)) = a
    /\ \A tail \in Seq(Nat) : Data!WidthOf(id, Data!Record(id, a) \o tail) = Len(Data!Record(id, a))

LEMMA NotRefused == ASSUME NEW a \in Seq(Nat) PROVE a # Data!Refused
  BY DEF Data!Refused

LEMMA PrefixAt == ASSUME NEW a \in Seq(Nat), NEW tail \in Seq(Nat), NEW i \in 1 .. Len(a) PROVE (a \o tail)[i] = a[i]
  OBVIOUS

LEMMA Enchanted ==
    ASSUME NEW cls, Data!EnchantFixed(cls) > 0, NEW c \in 0 .. 15, NEW a, a = Data!Attributes16(cls, c)
    PROVE  LET f == Data!EnchantFixed(cls) - 1 IN
           /\ f \in Nat /\ a \in Seq(Nat) /\ Len(a) = f + (c \div 2) * 3 /\ a[f] = c
           /\ Data!insert_at_2016(cls) \in 0 .. f - 1 /\ f \in 1 .. Len(a) /\ c \div 2 \in Nat
<1> DEFINE f == Data!EnchantFixed(cls) - 1
           n == f + (c \div 2) * 3
<1>1. f \in Nat /\ f >= 13 /\ Data!insert_at_2016(cls) \in 0 .. f - 1
  BY DEF Data!EnchantFixed, Data!insert_at_2016
<1>2. c \div 2 \in Nat
  OBVIOUS
<1>3. n \in Nat /\ f \in 1 .. n
  BY <1>1, <1>2
<1>4. a = [i \in 1 .. n |-> IF i = f THEN c ELSE 100 + i]
  BY DEF Data!Attributes16
<1> HIDE DEF f, n
<1>5. a \in [1 .. n -> Nat]
  BY <1>3, <1>4
<1>6. a \in Seq(Nat) /\ Len(a) = n
  BY <1>3, <1>5, FunctionIsSeq
<1>7. a[f] = c
  BY <1>3, <1>4
<1> QED BY <1>1, <1>2, <1>3, <1>6, <1>7 DEF f, n

LEMMA EnchantedReads ==
    ASSUME NEW id \in DOMAIN Classes, id # Data!None, Data!EnchantFixed(Classes[id]) > 0, NEW c \in 0 .. 15,
           NEW a, a = Data!Attributes16(Classes[id], c)
    PROVE  ItemReads(id, a)
<1> DEFINE cls == Classes[id]
           f == Data!EnchantFixed(cls) - 1
           p == Data!insert_at_2016(cls)
           w == WithByte(a, p)
<1>1. /\ f \in Nat /\ a \in Seq(Nat) /\ Len(a) = f + (c \div 2) * 3 /\ a[f] = c
      /\ p \in 0 .. f - 1 /\ f \in 1 .. Len(a) /\ c \div 2 \in Nat
  BY Enchanted
<1>2. p \in 0 .. Len(a) /\ f > p /\ f > 0 /\ Len(a) >= f /\ Data!EnchantFixed(cls) = f + 1
  <2>1. Data!EnchantFixed(cls) \in Int
    BY DEF Data!EnchantFixed
  <2>2. Data!EnchantFixed(cls) = f + 1
    BY <2>1
  <2> HIDE DEF f, p
  <2> QED BY <1>1, <2>2
<1>3. /\ w \in Seq(Nat) /\ Len(w) = Len(a) + 1 /\ w[f + 1] = a[f]
      /\ SubSeq(w, 1, p) \o SubSeq(w, p + 2, Len(w)) = a
  <2> HIDE DEF f, p
  <2> QED BY <1>1, <1>2, WithByteIs
<1>4. Data!Record(id, a) = w
  <2>1. Data!Insert(cls, a) = w
    BY DEF Data!Insert, WithByte
  <2>2. ~(Len(a) < f) /\ ~(Len(a) # f + (a[f] \div 2) * 3)
    BY <1>1, <1>2
  <2> HIDE DEF w, p
  <2> QED BY <1>2, <2>1, <2>2 DEF Data!Record
<1> HIDE DEF w
<1>5. Data!Back(id, w) = a
  <2>1. ~(Data!EnchantFixed(cls) < 0)
    BY <1>1, <1>2
  <2> QED BY <1>3, <2>1, Zenon DEF Data!Back
<1>6. ASSUME NEW tail \in Seq(Nat) PROVE Data!WidthOf(id, w \o tail) = Len(w)
  <2> HIDE DEF f
  <2>1. f + 1 \in 1 .. Len(w)
    BY <1>1, <1>3
  <2>2. (w \o tail)[f + 1] = c
    BY <1>1, <1>3, <2>1, PrefixAt
  <2>3. Data!WidthOf(id, w \o tail) = f + 1 + ((w \o tail)[f + 1] \div 2) * 3
    <3>1. f + 1 > 0
      BY <1>1
    <3> QED BY <1>2, <3>1, Zenon DEF Data!WidthOf, Data!Width26
  <2>4. f + 1 + (c \div 2) * 3 = f + (c \div 2) * 3 + 1
    BY <1>1
  <2> QED BY <1>1, <1>3, <2>2, <2>3, <2>4
<1>7. w # Data!Refused
  BY <1>3, NotRefused
<1> QED BY <1>1, <1>3, <1>4, <1>5, <1>6, <1>7 DEF ItemReads

LEMMA PlainReads ==
    ASSUME NEW id \in DOMAIN Classes, id # Data!None, ~(Data!EnchantFixed(Classes[id]) > 0), NEW c \in 0 .. 15,
           NEW a, a = Data!Attributes16(Classes[id], c)
    PROVE  ItemReads(id, a)
<1> DEFINE cls == Classes[id]
<1>1. Data!EnchantFixed(cls) < 0 /\ ~(Data!EnchantFixed(cls) - 1 > 0)
  BY DEF Data!EnchantFixed
<1>2. CASE cls = 39
  <2> DEFINE z == [i \in 1 .. 15 |-> 0]
             w == a \o z
  <2>1. a = [i \in 1 .. 1 |-> 100 + i]
    BY <1>1, <1>2 DEF Data!Attributes16
  <2>2. a \in Seq(Nat) /\ Len(a) = 1
    <3>1. a \in [1 .. 1 -> Nat]
      BY <2>1
    <3> QED BY <3>1, FunctionIsSeq
  <2>3. z \in Seq(Nat) /\ Len(z) = 15
    OBVIOUS
  <2>9. w = a \o [i \in 1 .. 15 |-> 0]
    OBVIOUS
  <2> HIDE DEF z
  <2>4. w \in Seq(Nat) /\ Len(w) = 16
    <3>1. ConcatIs(Nat, a, z)
      BY <2>2, <2>3, ConcatFacts
    <3> QED BY <2>2, <2>3, <3>1 DEF ConcatIs
  <2>5. SubSeq(w, 1, 1) = a
    BY <2>2, <2>3, CutAtJoint
  <2>6. Data!Record(id, a) = w
    BY <1>1, <1>2, <2>2, <2>9, Zenon DEF Data!Record
  <2> HIDE DEF w
  <2>7. Data!Back(id, w) = a
    BY <1>1, <1>2, <2>5, Zenon DEF Data!Back
  <2>8. ASSUME NEW tail \in Seq(Nat) PROVE Data!WidthOf(id, w \o tail) = Len(w)
    <3>1. Data!Width26(39, w \o tail) = Data!Constant(39)
      BY <1>1, <1>2 DEF Data!Width26
    <3>2. Data!Constant(39) = 16
      BY DEF Data!Constant
    <3> QED BY <1>2, <2>4, <3>1, <3>2 DEF Data!WidthOf
  <2> QED BY <2>2, <2>4, <2>6, <2>7, <2>8, NotRefused DEF ItemReads
<1>3. CASE cls \in {13, 15}
  <2> DEFINE n == 1 + c * (IF cls = 13 THEN 10 ELSE 8)
  <2>1. a = [i \in 1 .. n |-> IF i = 1 THEN c ELSE 100 + i]
    BY <1>1, <1>3 DEF Data!Attributes16
  <2>2. n \in Nat /\ 1 \in 1 .. n
    OBVIOUS
  <2>3. n = IF cls = 13 THEN 1 + c * 10 ELSE 1 + c * 8
    OBVIOUS
  <2> HIDE DEF n
  <2>4. a \in Seq(Nat) /\ Len(a) = n /\ a[1] = c
    <3>1. a \in [1 .. n -> Nat] /\ a[1] = c
      BY <2>1, <2>2
    <3> QED BY <2>2, <3>1, FunctionIsSeq
  <2>5. ASSUME NEW s, s[1] = c PROVE Data!Width26(cls, s) = n
    <3>1. c % 16 = c
      OBVIOUS
    <3>2. CASE cls = 13
      BY <1>1, <2>3, <2>5, <3>2 DEF Data!Width26
    <3>3. CASE cls = 15
      BY <1>1, <2>3, <2>5, <3>1, <3>3 DEF Data!Width26
    <3> QED BY <1>3, <3>2, <3>3
  <2>6. Data!Record(id, a) = a
    <3>1. cls # 39 /\ ~(Data!Width26(cls, a) # Len(a))
      BY <1>3, <2>4, <2>5
    <3> QED BY <1>1, <3>1, Zenon DEF Data!Record
  <2>7. Data!Back(id, a) = a
    <3>1. cls # 39
      BY <1>3
    <3> QED BY <1>1, <3>1, Zenon DEF Data!Back
  <2>8. ASSUME NEW tail \in Seq(Nat) PROVE Data!WidthOf(id, a \o tail) = Len(a)
    <3>1. 1 \in 1 .. Len(a)
      BY <2>2, <2>4
    <3>2. (a \o tail)[1] = c
      BY <2>4, <3>1, PrefixAt
    <3> QED BY <2>4, <2>5, <3>2 DEF Data!WidthOf
  <2> QED BY <2>4, <2>6, <2>7, <2>8, NotRefused DEF ItemReads
<1>4. CASE cls \notin {13, 15, 39}
  <2> DEFINE n == Data!Constant(cls)
  <2>1. n \in Nat
    BY DEF Data!Constant
  <2>2. a = [i \in 1 .. n |-> 100 + i]
    BY <1>1, <1>4, Zenon DEF Data!Attributes16
  <2>3. \A s : Data!Width26(cls, s) = n
    BY <1>1, <1>4, Zenon DEF Data!Width26
  <2> HIDE DEF n
  <2>4. a \in Seq(Nat) /\ Len(a) = n
    <3>1. a \in [1 .. n -> Nat]
      BY <2>1, <2>2
    <3> QED BY <2>1, <3>1, FunctionIsSeq
  <2>5. Data!Record(id, a) = a
    BY <1>1, <1>4, <2>3, <2>4, Zenon DEF Data!Record
  <2>6. Data!Back(id, a) = a
    BY <1>1, <1>4, Zenon DEF Data!Back
  <2> QED BY <2>3, <2>4, <2>5, <2>6, NotRefused DEF ItemReads, Data!WidthOf
<1> QED BY <1>2, <1>3, <1>4

LEMMA ItemIds == DOMAIN Classes \subseteq Nat /\ Data!None \notin DOMAIN Classes /\ Counts \subseteq 0 .. 15 /\ MaxItems \in Nat
<1>1. DOMAIN Classes \subseteq 0 .. Data!None - 1 /\ Counts \subseteq 0 .. 15 /\ MaxItems \in Nat
  BY BridgesOK DEF Data!BridgeDataOK
<1>2. Data!None \in Int
  BY DEF Data!None
<1>3. \A i \in 0 .. Data!None - 1 : i \in Nat /\ i # Data!None
  BY <1>2
<1> QED BY <1>1, <1>3

LEMMA NoneReads == ItemReads(Data!None, << >>)
<1>1. Data!Record(Data!None, << >>) = << >> /\ Data!Back(Data!None, << >>) = << >>
  BY Zenon DEF Data!Record, Data!Back
<1>2. Data!None \notin DOMAIN Classes
  BY ItemIds
<1>3. << >> \in Seq(Nat) /\ Len(<< >>) = 0
  OBVIOUS
<1> QED BY <1>1, <1>2, <1>3, NotRefused DEF ItemReads, Data!WidthOf

LEMMA ItemsRead == ASSUME NEW id \in DOMAIN Classes \cup {Data!None}, NEW r \in Data!RecordsOf(id)
    PROVE /\ r.id = id /\ ItemReads(id, r.a) /\ r.extra \in Nat /\ id \in Nat
          /\ r = [id |-> r.id, a |-> r.a, extra |-> r.extra, size |-> r.size]
<1>1. PICK a \in IF id = Data!None THEN {<< >>} ELSE {Data!Attributes16(Classes[id], c) : c \in Counts}, x \in {0, 12} :
          r = [id |-> id, a |-> a, extra |-> x, size |-> Data!kRecordHead + x + Len(a) - 1]
  BY DEF Data!RecordsOf
<1>2. r.id = id /\ r.a = a /\ r.extra \in Nat /\ r = [id |-> r.id, a |-> r.a, extra |-> r.extra, size |-> r.size]
  BY <1>1
<1>4. CASE id = Data!None
  BY <1>1, <1>2, <1>4, NoneReads DEF Data!None
<1>5. CASE id # Data!None
  <2>1. PICK c \in Counts : a = Data!Attributes16(Classes[id], c)
    BY <1>1, <1>5
  <2>2. id \in DOMAIN Classes /\ c \in 0 .. 15 /\ id \in Nat
    BY <1>5, ItemIds
  <2>3. ItemReads(id, a)
    BY <1>5, <2>1, <2>2, EnchantedReads, PlainReads
  <2> QED BY <1>2, <2>2, <2>3
<1> QED BY <1>4, <1>5

(* Boxes. *)

\* every partial join begins the whole
Starts(p, b, S) == \E tail \in Seq(S) : b = p \o tail
LEMMA Begins == ASSUME NEW S, NEW s \in Seq(Seq(S)), NEW n \in Nat, NEW g, Joins(g, s, S, n), NEW k \in 0 .. n
    PROVE Starts(g[k], g[n], S)
<1> DEFINE good == {m \in 0 .. n : n - m \in 0 .. n /\ \E tail \in Seq(S) : g[n] = g[n - m] \o tail}
<1>1. g \in [0 .. n -> Seq(S)] /\ n = Len(s) /\ \A i \in 1 .. n : s[i] \in Seq(S)
  BY DEF Joins
<1>2. 0 \in good
  <2>1. g[n] \in Seq(S) /\ << >> \in Seq(S)
    BY <1>1
  <2>2. g[n] = g[n] \o << >>
    BY <2>1
  <2>3. n - 0 = n /\ n \in 0 .. n /\ 0 \in 0 .. n
    OBVIOUS
  <2> QED BY <2>1, <2>2, <2>3
<1>3. ASSUME NEW m \in 0 .. n, m < n, m \in good PROVE m + 1 \in good
  <2> DEFINE i == n - (m + 1)
  <2>1. i \in 0 .. n - 1 /\ i \in 0 .. n /\ i + 1 = n - m /\ i + 1 \in 1 .. n /\ m + 1 \in 0 .. n
    BY <1>3
  <2>2. PICK tail \in Seq(S) : g[n] = g[n - m] \o tail
    BY <1>3
  <2> HIDE DEF i
  <2>3. g[i + 1] = g[i] \o s[i + 1]
    BY <2>1, JoinsAt, Zenon
  <2>4. g[i] \in Seq(S) /\ s[i + 1] \in Seq(S)
    BY <1>1, <2>1
  <2>5. Regrouped(g[i], s[i + 1], tail) /\ ConcatIs(S, s[i + 1], tail)
    BY <2>2, <2>4, Regroup, ConcatFacts, Zenon
  <2>6. g[n] = g[i] \o (s[i + 1] \o tail) /\ s[i + 1] \o tail \in Seq(S)
    BY <2>1, <2>2, <2>3, <2>5, Zenon DEF Regrouped, ConcatIs
  <2> QED BY <2>1, <2>6 DEF i
<1> HIDE DEF good
<1>4. \A m \in 0 .. n : m \in good
  BY <1>2, <1>3, UpTo
<1>5. n - k \in 0 .. n /\ n - (n - k) = k
  OBVIOUS
<1>6. n - k \in good
  BY <1>4, <1>5
<1>7. \E tail \in Seq(S) : g[n] = g[n - (n - k)] \o tail
  BY <1>6 DEF good
<1> QED BY <1>5, <1>7 DEF Starts

LEMMA Middle == ASSUME NEW S, NEW x \in Seq(S), NEW y \in Seq(S), NEW z \in Seq(S)
    PROVE SubSeq((x \o y) \o z, Len(x) + 1, Len(x) + Len(y)) = y
<1> DEFINE xy == x \o y
           w == xy \o z
           u == SubSeq(w, Len(x) + 1, Len(x) + Len(y))
<1>1. ConcatIs(S, x, y) /\ xy \in Seq(S)
  BY ConcatFacts DEF ConcatIs
<1>2. /\ Len(x) \in Nat /\ Len(y) \in Nat /\ Len(xy) = Len(x) + Len(y)
      /\ \A i \in 1 .. Len(y) : xy[Len(x) + i] = y[i]
  BY <1>1 DEF ConcatIs
<1> HIDE DEF xy
<1>3. ConcatIs(S, xy, z)
  BY <1>1, ConcatFacts
<1>4. \A i \in 1 .. Len(xy) : w[i] = xy[i]
  BY <1>3 DEF ConcatIs
<1>5. \A i \in 1 .. Len(y) : w[Len(x) + i] = y[i] /\ y[i] \in S
  <2> SUFFICES ASSUME NEW i \in 1 .. Len(y) PROVE w[Len(x) + i] = y[i] /\ y[i] \in S
    OBVIOUS
  <2>1. Len(x) + i \in 1 .. Len(xy)
    BY <1>2
  <2> QED BY <1>2, <1>4, <2>1
<1> HIDE DEF w
<1>6. u \in Seq(S) /\ Len(u) = Len(y) /\ \A i \in 1 .. Len(y) : u[i] = w[Len(x) + i]
  <2>1. \A j \in Len(x) + 1 .. Len(x) + Len(y) : w[j] \in S
    <3> SUFFICES ASSUME NEW j \in Len(x) + 1 .. Len(x) + Len(y) PROVE w[j] \in S
      OBVIOUS
    <3>1. j - Len(x) \in 1 .. Len(y) /\ Len(x) + (j - Len(x)) = j
      BY <1>2
    <3> QED BY <1>5, <3>1
  <2>2. Len(x) + 1 \in Int /\ Len(x) + Len(y) \in Int
    BY <1>2
  <2>3. /\ u \in Seq(S) /\ Len(u) = IF Len(x) + 1 =< Len(x) + Len(y) THEN Len(x) + Len(y) - (Len(x) + 1) + 1 ELSE 0
        /\ \A i \in 1 .. Len(x) + Len(y) - (Len(x) + 1) + 1 : u[i] = w[Len(x) + 1 + i - 1]
    BY <2>1, <2>2, SubSeqTakes
  <2> HIDE DEF u
  <2>4. Len(u) = Len(y) /\ Len(x) + Len(y) - (Len(x) + 1) + 1 = Len(y)
    BY <1>2, <2>3
  <2>5. \A i \in 1 .. Len(y) : Len(x) + 1 + i - 1 = Len(x) + i
    BY <1>2
  <2> QED BY <2>3, <2>4, <2>5
<1> HIDE DEF u
<1>7. \A i \in 1 .. Len(u) : u[i] = y[i]
  BY <1>5, <1>6
<1>8. u = y
  BY <1>6, <1>7, SameElements
<1> QED BY <1>8 DEF u, w, xy

\* where a record stands: its id in the fourth byte, then its attributes, then the rest
Stands(b, x, head, a, tail) ==
    /\ Len(x \o (head \o a)) = Len(x) + 4 + Len(a) /\ Len(b) >= Len(x) + 4 + Len(a) /\ Len(x) \in Nat /\ Len(b) \in Nat
    /\ b[Len(x) + 4] = head[4]
    /\ SubSeq(b, Len(x) + 5, Len(b)) = a \o tail
    /\ SubSeq(b, Len(x) + 5, Len(x) + 4 + Len(a)) = a
LEMMA RecordStands ==
    ASSUME NEW x \in Seq(Nat), NEW head \in Seq(Nat), Len(head) = 4, NEW a \in Seq(Nat), NEW tail \in Seq(Nat),
           NEW b, b = (x \o (head \o a)) \o tail
    PROVE  Stands(b, x, head, a, tail)
<1> DEFINE h == x \o head
           r == a \o tail
           m == head \o a
           p == x \o m
           ha == h \o a
<1>1. ConcatIs(Nat, x, head) /\ ConcatIs(Nat, a, tail) /\ ConcatIs(Nat, head, a) /\ h \in Seq(Nat) /\ r \in Seq(Nat) /\ m \in Seq(Nat)
  <2>1. ConcatIs(Nat, x, head) /\ ConcatIs(Nat, a, tail) /\ ConcatIs(Nat, head, a)
    BY ConcatFacts
  <2> QED BY <2>1 DEF ConcatIs
<1>2. Len(h) = Len(x) + 4 /\ h[Len(x) + 4] = head[4] /\ Len(x) \in Nat /\ Len(a) \in Nat /\ Len(tail) \in Nat
      /\ Len(m) = 4 + Len(a) /\ Len(r) = Len(a) + Len(tail)
  BY <1>1 DEF ConcatIs
<1>3. Regrouped(x, head, a)
  BY Regroup
<1>4. p = ha
  BY <1>3 DEF Regrouped
<1> HIDE DEF h, r, m
<1>5. ConcatIs(Nat, x, m) /\ ConcatIs(Nat, h, a) /\ ConcatIs(Nat, h, r) /\ p \in Seq(Nat) /\ ha \in Seq(Nat)
  <2>1. ConcatIs(Nat, x, m) /\ ConcatIs(Nat, h, a) /\ ConcatIs(Nat, h, r)
    BY <1>1, ConcatFacts
  <2> QED BY <2>1 DEF ConcatIs
<1>6. Len(p) = Len(x) + 4 + Len(a)
  BY <1>2, <1>5 DEF ConcatIs
<1>7. Regrouped(h, a, tail)
  BY <1>1, Regroup
<1>8. b = (h \o a) \o tail
  BY <1>4 DEF m
<1>9. b = h \o r
  BY <1>7, <1>8 DEF Regrouped, r
<1>10. Len(b) = Len(x) + 4 + Len(a) + Len(tail) /\ b[Len(x) + 4] = head[4]
  <2>1. Len(x) + 4 \in 1 .. Len(h)
    BY <1>2
  <2>2. Len(b) = Len(h) + Len(r) /\ b[Len(x) + 4] = h[Len(x) + 4]
    BY <1>5, <1>9, <2>1 DEF ConcatIs
  <2> QED BY <1>2, <2>2
<1>11. SubSeq(b, Len(x) + 5, Len(b)) = r
  <2>1. SubSeq(h \o r, Len(h) + 1, Len(h \o r)) = r
    BY <1>1, CutAtJoint
  <2>2. Len(h) + 1 = Len(x) + 5
    BY <1>2
  <2> QED BY <1>9, <2>1, <2>2
<1>12. SubSeq(b, Len(x) + 5, Len(x) + 4 + Len(a)) = a
  <2>1. SubSeq((h \o a) \o tail, Len(h) + 1, Len(h) + Len(a)) = a
    BY <1>1, Middle
  <2>2. Len(h) + 1 = Len(x) + 5 /\ Len(h) + Len(a) = Len(x) + 4 + Len(a)
    BY <1>2
  <2> QED BY <1>8, <2>1, <2>2
<1>13. p = x \o (head \o a)
  BY DEF m
<1> HIDE DEF p
<1>14. Len(x \o (head \o a)) = Len(x) + 4 + Len(a)
  BY <1>6, <1>13
<1>15. Len(x) + 4 + Len(a) + Len(tail) \in Nat /\ Len(x) + 4 + Len(a) + Len(tail) >= Len(x) + 4 + Len(a)
  BY <1>2
<1>16. Len(b) >= Len(x) + 4 + Len(a) /\ Len(b) \in Nat
  BY <1>10, <1>15
<1> QED BY <1>2, <1>10, <1>11, <1>12, <1>14, <1>16, Zenon DEF r, Stands

WalkRule(at, b) ==
    at = [k \in 0 .. Len(b) |->
             IF k = 0 THEN 1 ELSE IF at[k - 1] + 3 > Len(b) THEN at[k - 1]
             ELSE at[k - 1] + 4 + Data!WidthOf(b[at[k - 1] + 3], SubSeq(b, at[k - 1] + 4, Len(b)))]

\* n records end to end in b, till[k] the bytes of the first k; each is as wide as the client takes its class to be
Laid(b, n, till) ==
    /\ n \in Nat /\ Len(b) \in Nat /\ till \in [0 .. n -> Nat] /\ till[0] = 0 /\ till[n] = Len(b)
    /\ \A k \in 0 .. n - 1 :
           /\ till[k] + 4 =< till[k + 1] /\ till[k + 1] =< Len(b)
           /\ Data!WidthOf(b[till[k] + 4], SubSeq(b, till[k] + 5, Len(b))) = till[k + 1] - till[k] - 4
StepsTo(b, v, w) == ~(v + 3 > Len(b)) /\ v + 4 + Data!WidthOf(b[v + 3], SubSeq(b, v + 4, Len(b))) = w

LEMMA LaidStep == ASSUME NEW b, NEW n, NEW till, Laid(b, n, till), NEW k \in 0 .. n - 1
    PROVE StepsTo(b, till[k] + 1, till[k + 1] + 1)
<1>1. k \in 0 .. n /\ k + 1 \in 0 .. n
  BY DEF Laid
<1>2. /\ till[k] \in Nat /\ till[k + 1] \in Nat /\ till[k] + 4 =< till[k + 1] /\ till[k + 1] =< Len(b) /\ Len(b) \in Nat
      /\ Data!WidthOf(b[till[k] + 4], SubSeq(b, till[k] + 5, Len(b))) = till[k + 1] - till[k] - 4
  BY <1>1 DEF Laid
<1>3. \A p, q, l \in Nat : p + 4 =< q /\ q =< l => /\ p + 1 + 4 + (q - p - 4) = q + 1 /\ ~(p + 1 + 3 > l)
                                                   /\ p + 1 + 3 = p + 4 /\ p + 1 + 4 = p + 5
  OBVIOUS
<1>4. /\ till[k] + 1 + 4 + (till[k + 1] - till[k] - 4) = till[k + 1] + 1 /\ ~(till[k] + 1 + 3 > Len(b))
      /\ till[k] + 1 + 3 = till[k] + 4 /\ till[k] + 1 + 4 = till[k] + 5
  BY <1>2, <1>3
<1>5. Data!WidthOf(b[till[k] + 1 + 3], SubSeq(b, till[k] + 1 + 4, Len(b))) = till[k + 1] - till[k] - 4
  BY <1>2, <1>4, Zenon
<1>6. till[k] + 1 + 4 + Data!WidthOf(b[till[k] + 1 + 3], SubSeq(b, till[k] + 1 + 4, Len(b))) = till[k + 1] + 1
  BY <1>4, <1>5, Zenon
<1> QED BY <1>4, <1>6, Zenon DEF StepsTo

LEMMA WalkThere == ASSUME NEW b, NEW n, NEW till, Laid(b, n, till) PROVE \E at : WalkRule(at, b)
<1> DEFINE m == Len(b)
           at == [k \in 0 .. m |-> IF k =< n THEN till[k] + 1 ELSE m + 1]
           next(v) == IF v + 3 > Len(b) THEN v ELSE v + 4 + Data!WidthOf(b[v + 3], SubSeq(b, v + 4, Len(b)))
<1>1. m \in Nat /\ n \in Nat /\ till[0] = 0 /\ till[n] = m /\ 0 \in 0 .. m
  BY DEF Laid
<1>2. at[0] = 1
  BY <1>1
<1>3. ASSUME NEW k \in 1 .. m PROVE at[k] = next(at[k - 1])
  <2>1. k - 1 \in 0 .. m /\ k \in 0 .. m
    BY <1>1
  <2>2. CASE k =< n
    <3>1. k - 1 \in 0 .. n - 1 /\ k - 1 =< n /\ (k - 1) + 1 = k
      BY <1>1, <2>2
    <3>2. at[k - 1] = till[k - 1] + 1 /\ at[k] = till[k] + 1
      BY <2>1, <2>2, <3>1
    <3> HIDE DEF at
    <3>3. StepsTo(b, till[k - 1] + 1, till[(k - 1) + 1] + 1)
      BY <3>1, LaidStep
    <3>4. StepsTo(b, at[k - 1], at[k])
      BY <3>1, <3>2, <3>3
    <3> QED BY <3>4, Zenon DEF StepsTo
  <2>3. CASE k > n
    <3>1. at[k] = m + 1
      BY <1>1, <2>1, <2>3
    <3>2. at[k - 1] = m + 1
      <4>1. CASE k - 1 = n
        BY <1>1, <2>1, <4>1
      <4>2. CASE k - 1 # n
        <5>1. ~(k - 1 =< n)
          BY <1>1, <2>1, <2>3, <4>2
        <5> QED BY <2>1, <5>1
      <4> QED BY <4>1, <4>2
    <3>3. m + 1 + 3 > m
      BY <1>1
    <3> HIDE DEF at
    <3> QED BY <3>1, <3>2, <3>3
  <2> QED BY <1>1, <2>2, <2>3
<1>4. at = [k \in 0 .. m |-> at[k]]
  OBVIOUS
<1> HIDE DEF at, next, m
<1>5. \A k \in 0 .. m : at[k] = IF k = 0 THEN 1 ELSE next(at[k - 1])
  <2> SUFFICES ASSUME NEW k \in 0 .. m PROVE at[k] = IF k = 0 THEN 1 ELSE next(at[k - 1])
    OBVIOUS
  <2>1. k = 0 \/ k \in 1 .. m
    BY <1>1
  <2> QED BY <1>2, <1>3, <2>1
<1>6. at = [k \in 0 .. m |-> IF k = 0 THEN 1 ELSE next(at[k - 1])]
  BY <1>4, <1>5
<1>7. WalkRule(at, b)
  BY <1>6, Zenon DEF WalkRule, next, m
<1> QED BY <1>7

LEMMA Walked == ASSUME NEW b, NEW n, NEW till, Laid(b, n, till), n =< Len(b), NEW k \in 0 .. n PROVE Data!Walk(b)[k] = till[k] + 1
<1> DEFINE at == Data!Walk(b)
           next(v) == IF v + 3 > Len(b) THEN v ELSE v + 4 + Data!WidthOf(b[v + 3], SubSeq(b, v + 4, Len(b)))
           good == {i \in 0 .. n : at[i] = till[i] + 1}
<1>1. n \in Nat /\ Len(b) \in Nat /\ till[0] = 0
  BY DEF Laid
<1>2. WalkRule(at, b)
  <2>1. at = CHOOSE f : WalkRule(f, b)
    BY Zenon DEF Data!Walk, WalkRule
  <2> HIDE DEF at
  <2> QED BY <2>1, WalkThere, Zenon
<1>3. at = [i \in 0 .. Len(b) |-> IF i = 0 THEN 1 ELSE next(at[i - 1])]
  BY <1>2, Zenon DEF WalkRule
<1> HIDE DEF at
<1>4. 0 \in good
  <2>1. 0 \in 0 .. Len(b) /\ 0 \in 0 .. n
    BY <1>1
  <2> HIDE DEF next
  <2>2. at[0] = 1
    BY <1>3, <2>1
  <2> QED BY <1>1, <2>1, <2>2
<1>5. ASSUME NEW i \in 0 .. n, i < n, i \in good PROVE i + 1 \in good
  <2>1. i + 1 \in 1 .. n /\ i + 1 \in 0 .. Len(b) /\ i + 1 \in 0 .. n /\ i + 1 # 0 /\ (i + 1) - 1 = i
    BY <1>1, <1>5
  <2>2. at[i] = till[i] + 1
    BY <1>5
  <2>3. at[i + 1] = next(at[i])
    <3> HIDE DEF next
    <3>1. at[i + 1] = IF i + 1 = 0 THEN 1 ELSE next(at[(i + 1) - 1])
      BY <1>3, <2>1
    <3> QED BY <2>1, <3>1
  <2>4. i \in 0 .. n - 1
    BY <1>1, <1>5
  <2>6. StepsTo(b, till[i] + 1, till[i + 1] + 1)
    BY <2>4, LaidStep
  <2>5. at[i + 1] = till[i + 1] + 1
    BY <2>2, <2>3, <2>6, Zenon DEF StepsTo
  <2> QED BY <2>1, <2>5
<1> HIDE DEF good
<1>6. \A i \in 0 .. n : i \in good
  BY <1>1, <1>4, <1>5, UpTo
<1> QED BY <1>6 DEF good, at

\* record k of a box that goes out, from x to y in its bytes b, with the attributes a
RecordIn(b, id, a, x, y) ==
    /\ x \in Nat /\ y \in Nat /\ y = x + 4 + Len(a) /\ y =< Len(b)
    /\ b[x + 4] = id /\ Data!WidthOf(id, SubSeq(b, x + 5, Len(b))) = Len(a) /\ SubSeq(b, x + 5, y) = a

LEMMA BoxGoesOut == ASSUME NEW recs \in Data!Boxes
    PROVE /\ Len(recs) \in Nat /\ DOMAIN recs = 1 .. Len(recs)
          /\ Data!Box(recs) = Data!Widened(recs) /\ DOMAIN Data!Widened(recs) = 1 .. Len(recs)
          /\ \A k \in 1 .. Len(recs) :
                 /\ recs[k].id \in Nat /\ recs[k].extra \in Nat /\ ItemReads(recs[k].id, recs[k].a)
                 /\ Data!Widened(recs)[k].id = recs[k].id /\ Data!Widened(recs)[k].a = Data!Record(recs[k].id, recs[k].a)
                 /\ Data!Widened(recs)[k].size
                      = Data!kRecordHead + recs[k].extra + Len(Data!Record(recs[k].id, recs[k].a)) - 1
<1> DEFINE all == UNION {Data!RecordsOf(id) : id \in DOMAIN Classes \cup {Data!None}}
<1>1. PICK n \in 0 .. MaxItems : recs \in [1 .. n -> all]
  BY DEF Data!Boxes
<1>2. n \in Nat /\ Len(recs) = n /\ DOMAIN recs = 1 .. n
  BY <1>1, ItemIds
<1>3. ASSUME NEW k \in 1 .. n
      PROVE  /\ recs[k].id \in Nat /\ recs[k].extra \in Nat /\ ItemReads(recs[k].id, recs[k].a)
             /\ recs[k] = [id |-> recs[k].id, a |-> recs[k].a, extra |-> recs[k].extra, size |-> recs[k].size]
  <2>1. recs[k] \in all
    BY <1>1
  <2>2. PICK id \in DOMAIN Classes \cup {Data!None} : recs[k] \in Data!RecordsOf(id)
    BY <2>1
  <2> HIDE DEF all
  <2> QED BY <2>2, ItemsRead
<1> HIDE DEF all
<1>4. \A k \in 1 .. n : Data!Record(recs[k].id, recs[k].a) # Data!Refused
  BY <1>3 DEF ItemReads
<1>5. Data!Box(recs) = Data!Widened(recs)
  BY <1>2, <1>4, Zenon DEF Data!Box
<1>6. Data!Widened(recs) = [k \in 1 .. n |-> [recs[k] EXCEPT !.a = Data!Record(recs[k].id, recs[k].a),
          !.size = Data!kRecordHead + recs[k].extra + Len(Data!Record(recs[k].id, recs[k].a)) - 1]]
  BY <1>2, Zenon DEF Data!Widened
<1>7. ASSUME NEW k \in 1 .. n
      PROVE  /\ Data!Widened(recs)[k].id = recs[k].id /\ Data!Widened(recs)[k].a = Data!Record(recs[k].id, recs[k].a)
             /\ Data!Widened(recs)[k].size
                  = Data!kRecordHead + recs[k].extra + Len(Data!Record(recs[k].id, recs[k].a)) - 1
  <2> DEFINE new == Data!Record(recs[k].id, recs[k].a)
             size == Data!kRecordHead + recs[k].extra + Len(new) - 1
  <2>1. Data!Widened(recs)[k] = [recs[k] EXCEPT !.a = new, !.size = size]
    BY <1>6
  <2> HIDE DEF new, size
  <2>2. recs[k] = [id |-> recs[k].id, a |-> recs[k].a, extra |-> recs[k].extra, size |-> recs[k].size]
    BY <1>3
  <2> DEFINE r == recs[k]
  <2> HIDE DEF r
  <2>3. [r EXCEPT !.a = new, !.size = size].a = new /\ [r EXCEPT !.a = new, !.size = size].size = size
        /\ [r EXCEPT !.a = new, !.size = size].id = r.id
    <3>1. r = [id |-> r.id, a |-> r.a, extra |-> r.extra, size |-> r.size]
      BY <2>2 DEF r
    <3> QED BY <3>1
  <2> QED BY <2>1, <2>3 DEF new, size, r
<1>8. DOMAIN Data!Widened(recs) = 1 .. n
  BY <1>6
<1> QED BY <1>2, <1>3, <1>5, <1>7, <1>8

LEMMA RecordsIn == ASSUME NEW recs \in Data!Boxes
    PROVE \E g : LET b == Data!Bytes(Data!Box(recs)) n == Len(recs) IN
              /\ n \in Nat /\ g \in [0 .. n -> Seq(Nat)] /\ g[0] = << >> /\ g[n] = b
              /\ \A k \in 0 .. n - 1 : RecordIn(b, recs[k + 1].id, Data!Record(recs[k + 1].id, recs[k + 1].a), Len(g[k]), Len(g[k + 1]))
<1> DEFINE w == Data!Widened(recs)
           n == Len(recs)
           new(k) == Data!Record(recs[k].id, recs[k].a)
           head(k) == <<w[k].size, 0, 0, w[k].id>>
           parts == [k \in 1 .. n |-> head(k) \o new(k)]
           b == Data!Bytes(Data!Box(recs))
<1>1. /\ n \in Nat /\ DOMAIN recs = 1 .. n /\ Data!Box(recs) = w /\ DOMAIN w = 1 .. n
      /\ \A k \in 1 .. n : /\ recs[k].id \in Nat /\ recs[k].extra \in Nat /\ ItemReads(recs[k].id, recs[k].a)
                           /\ w[k].id = recs[k].id /\ w[k].a = new(k)
                           /\ w[k].size = Data!kRecordHead + recs[k].extra + Len(new(k)) - 1
  BY BoxGoesOut, Zenon
<1> HIDE DEF w, n, new
<1>2. b = Data!FlattenSeq(parts)
  <2>1. b = Data!FlattenSeq([k \in 1 .. n |-> head(k) \o w[k].a])
    BY <1>1, Zenon DEF Data!Bytes
  <2>2. [k \in 1 .. n |-> head(k) \o w[k].a] = parts
    BY <1>1
  <2> QED BY <2>1, <2>2
<1>3. ASSUME NEW k \in 1 .. n PROVE head(k) \in Seq(Nat) /\ Len(head(k)) = 4 /\ head(k)[4] = recs[k].id /\ new(k) \in Seq(Nat)
  <2>1. new(k) \in Seq(Nat) /\ w[k].id \in Nat /\ w[k].id = recs[k].id
    BY <1>1 DEF ItemReads, new
  <2>2. w[k].size \in Nat
    <3>1. Len(new(k)) \in Nat
      BY <2>1
    <3> QED BY <1>1, <3>1 DEF Data!kRecordHead
  <2> QED BY <2>1, <2>2
<1> HIDE DEF head, b
<1>4. parts \in Seq(Seq(Nat)) /\ Len(parts) = n /\ \A k \in 1 .. n : parts[k] = head(k) \o new(k)
  <2>1. \A k \in 1 .. n : head(k) \o new(k) \in Seq(Nat)
    <3> SUFFICES ASSUME NEW k \in 1 .. n PROVE head(k) \o new(k) \in Seq(Nat)
      OBVIOUS
    <3>1. ConcatIs(Nat, head(k), new(k))
      BY <1>3, ConcatFacts
    <3> QED BY <3>1 DEF ConcatIs
  <2>2. parts \in [1 .. n -> Seq(Nat)] /\ \A k \in 1 .. n : parts[k] = head(k) \o new(k)
    BY <2>1
  <2> HIDE DEF parts
  <2> QED BY <1>1, <2>2, FunctionIsSeq
<1> HIDE DEF parts
<1>5. PICK g : Joins(g, parts, Nat, n)
  BY <1>4, FlattenJoins
<1>6. g \in [0 .. n -> Seq(Nat)] /\ g[0] = << >> /\ g[n] = b
  BY <1>2, <1>5, Zenon DEF Joins
<1>7. ASSUME NEW k \in 0 .. n - 1
      PROVE  RecordIn(b, recs[k + 1].id, new(k + 1), Len(g[k]), Len(g[k + 1]))
  <2>1. k \in 0 .. n /\ k + 1 \in 0 .. n /\ k + 1 \in 1 .. n
    BY <1>1
  <2> DEFINE h == head(k + 1) a == new(k + 1) x == g[k]
  <2>2. g[k + 1] = x \o (h \o a)
    <3>1. g[k + 1] = g[k] \o parts[k + 1]
      BY <1>1, <1>5, JoinsAt, Zenon
    <3>2. parts[k + 1] = head(k + 1) \o new(k + 1)
      BY <1>4, <2>1, Zenon
    <3> QED BY <3>1, <3>2, Zenon
  <2>3. PICK tail \in Seq(Nat) : b = g[k + 1] \o tail
    <3>1. Starts(g[k + 1], g[n], Nat)
      BY <1>1, <1>4, <1>5, <2>1, Begins, Zenon
    <3> QED BY <1>6, <3>1, Zenon DEF Starts
  <2>4. x \in Seq(Nat) /\ h \in Seq(Nat) /\ Len(h) = 4 /\ a \in Seq(Nat) /\ h[4] = recs[k + 1].id
    BY <1>3, <1>6, <2>1
  <2>5. ItemReads(recs[k + 1].id, recs[k + 1].a)
    BY <1>1, <2>1
  <2>6. Data!WidthOf(recs[k + 1].id, a \o tail) = Len(a)
    BY <2>5, Zenon DEF ItemReads, new
  <2> HIDE DEF h, a, x
  <2>7. b = (x \o (h \o a)) \o tail
    BY <2>2, <2>3
  <2>12. Stands(b, x, h, a, tail)
    BY <2>4, <2>7, RecordStands, Zenon
  <2>8. /\ Len(x \o (h \o a)) = Len(x) + 4 + Len(a) /\ Len(b) >= Len(x) + 4 + Len(a) /\ Len(x) \in Nat /\ Len(b) \in Nat
        /\ b[Len(x) + 4] = h[4]
        /\ SubSeq(b, Len(x) + 5, Len(b)) = a \o tail
        /\ SubSeq(b, Len(x) + 5, Len(x) + 4 + Len(a)) = a
    BY <2>12, Zenon DEF Stands
  <2>9. Len(g[k + 1]) = Len(x) + 4 + Len(a) /\ Len(a) \in Nat
    BY <2>2, <2>4, <2>8
  <2>10. Len(x) + 4 + Len(a) \in Nat /\ Len(x) + 4 + Len(a) =< Len(b)
    BY <2>8, <2>9
  <2>11. RecordIn(b, recs[k + 1].id, a, Len(x), Len(g[k + 1]))
    BY <2>4, <2>6, <2>8, <2>9, <2>10, Zenon DEF RecordIn
  <2> QED BY <2>11 DEF a, x
<1> QED BY <1>1, <1>6, <1>7 DEF new, n, b

LEMMA BoxReads == ASSUME given \in Data!Boxes, made = <<Data!Box(given)>> PROVE Data!BoxReadsBack
<1> DEFINE n == Len(given)
           b == Data!Bytes(made[1])
           at == Data!Walk(b)
           read(k) == SubSeq(b, at[k - 1] + 4, at[k] - 1)
           new(k) == Data!Record(given[k].id, given[k].a)
<1>1. made[1] = Data!Box(given)
  OBVIOUS
<1>2. /\ n \in Nat /\ DOMAIN given = 1 .. n
      /\ \A k \in 1 .. n : /\ given[k].id \in Nat /\ given[k].extra \in Nat /\ ItemReads(given[k].id, given[k].a)
                           /\ made[1][k].size = Data!kRecordHead + given[k].extra + Len(new(k)) - 1
  BY <1>1, BoxGoesOut, Zenon
<1>3. PICK g : /\ g \in [0 .. n -> Seq(Nat)] /\ g[0] = << >> /\ g[n] = b
               /\ \A k \in 0 .. n - 1 : RecordIn(b, given[k + 1].id, new(k + 1), Len(g[k]), Len(g[k + 1]))
  BY <1>1, RecordsIn, Zenon
<1> HIDE DEF n, b, new
<1> DEFINE till == [k \in 0 .. n |-> Len(g[k])]
<1>4. till \in [0 .. n -> Nat] /\ \A k \in 0 .. n : till[k] = Len(g[k])
  <2>1. \A k \in 0 .. n : Len(g[k]) \in Nat
    BY <1>3
  <2> QED BY <2>1
<1>5. till[0] = 0 /\ till[n] = Len(b) /\ Len(b) \in Nat
  <2>1. 0 \in 0 .. n /\ n \in 0 .. n /\ Len(<< >>) = 0
    BY <1>2
  <2>2. g[n] \in Seq(Nat)
    BY <1>3, <2>1
  <2> HIDE DEF till
  <2> QED BY <1>3, <1>4, <2>1, <2>2
<1> HIDE DEF till
<1>6. ASSUME NEW k \in 0 .. n - 1
      PROVE  /\ till[k] \in Nat /\ Len(new(k + 1)) \in Nat /\ till[k + 1] = till[k] + 4 + Len(new(k + 1)) /\ till[k + 1] =< Len(b)
             /\ b[till[k] + 4] = given[k + 1].id
             /\ Data!WidthOf(given[k + 1].id, SubSeq(b, till[k] + 5, Len(b))) = Len(new(k + 1))
             /\ SubSeq(b, till[k] + 5, till[k + 1]) = new(k + 1)
  <2>1. k \in 0 .. n /\ k + 1 \in 0 .. n /\ k + 1 \in 1 .. n
    BY <1>2
  <2>2. RecordIn(b, given[k + 1].id, new(k + 1), till[k], till[k + 1])
    BY <1>3, <1>4, <2>1
  <2>3. new(k + 1) \in Seq(Nat)
    BY <1>2, <2>1 DEF ItemReads, new
  <2>4. Len(new(k + 1)) \in Nat
    BY <2>3
  <2> QED BY <2>2, <2>4, Zenon DEF RecordIn
<1>7. Laid(b, n, till)
  <2>1. ASSUME NEW k \in 0 .. n - 1
        PROVE  /\ till[k] + 4 =< till[k + 1] /\ till[k + 1] =< Len(b)
               /\ Data!WidthOf(b[till[k] + 4], SubSeq(b, till[k] + 5, Len(b))) = till[k + 1] - till[k] - 4
    <3>1. /\ till[k] \in Nat /\ Len(new(k + 1)) \in Nat /\ till[k + 1] = till[k] + 4 + Len(new(k + 1)) /\ till[k + 1] =< Len(b)
          /\ Data!WidthOf(b[till[k] + 4], SubSeq(b, till[k] + 5, Len(b))) = Len(new(k + 1))
      BY <1>6, Zenon
    <3>2. \A p, l \in Nat : p + 4 =< p + 4 + l /\ (p + 4 + l) - p - 4 = l
      OBVIOUS
    <3> QED BY <3>1, <3>2
  <2> QED BY <1>2, <1>4, <1>5, <2>1, Zenon DEF Laid
<1>8. n =< Len(b)
  <2> DEFINE good == {k \in 0 .. n : k =< till[k]}
  <2>1. 0 \in good
    BY <1>2, <1>5
  <2>2. ASSUME NEW k \in 0 .. n, k < n, k \in good PROVE k + 1 \in good
    <3>1. k \in 0 .. n - 1 /\ k + 1 \in 0 .. n
      BY <1>2, <2>2
    <3>2. till[k] \in Nat /\ Len(new(k + 1)) \in Nat /\ till[k + 1] = till[k] + 4 + Len(new(k + 1))
      BY <1>6, <3>1
    <3>3. k + 1 =< till[k + 1]
      BY <2>2, <3>2
    <3> QED BY <3>1, <3>3
  <2> HIDE DEF good
  <2>3. \A k \in 0 .. n : k \in good
    BY <1>2, <2>1, <2>2, UpTo
  <2>4. n \in good
    BY <1>2, <2>3
  <2> QED BY <1>5, <2>4 DEF good
<1>9. \A k \in 0 .. n : at[k] = till[k] + 1
  BY <1>7, <1>8, Walked
<1> HIDE DEF at
<1>10. at[n] = Len(b) + 1
  <2>1. n \in 0 .. n
    BY <1>2
  <2> QED BY <1>5, <1>9, <2>1
<1>11. ASSUME NEW k \in 1 .. n
       PROVE  /\ b[at[k - 1] + 3] = given[k].id /\ Data!Back(given[k].id, read(k)) = given[k].a
              /\ made[1][k].size + 1 = Data!kRecordHead + given[k].extra + Len(read(k))
  <2> DEFINE j == k - 1
  <2>1. j \in 0 .. n - 1 /\ j \in 0 .. n /\ k \in 0 .. n /\ j + 1 = k
    BY <1>2
  <2> HIDE DEF j
  <2>2. /\ till[j] \in Nat /\ Len(new(k)) \in Nat /\ till[k] = till[j] + 4 + Len(new(k))
        /\ b[till[j] + 4] = given[k].id /\ SubSeq(b, till[j] + 5, till[k]) = new(k)
    <3>1. /\ till[j] \in Nat /\ Len(new(j + 1)) \in Nat /\ till[j + 1] = till[j] + 4 + Len(new(j + 1))
          /\ b[till[j] + 4] = given[j + 1].id /\ SubSeq(b, till[j] + 5, till[j + 1]) = new(j + 1)
      BY <1>6, <2>1, Zenon
    <3> QED BY <2>1, <3>1
  <2>3. at[j] = till[j] + 1 /\ at[k] = till[k] + 1
    BY <1>9, <2>1
  <2>4. at[j] + 3 = till[j] + 4 /\ at[j] + 4 = till[j] + 5 /\ at[k] - 1 = till[k]
    BY <2>2, <2>3
  <2>5. SubSeq(b, at[j] + 4, at[k] - 1) = new(k) /\ b[at[j] + 3] = given[k].id
    BY <2>2, <2>4
  <2>6. read(k) = new(k) /\ b[at[k - 1] + 3] = given[k].id
    BY <2>5 DEF j
  <2>7. Data!Back(given[k].id, new(k)) = given[k].a
    BY <1>2, Zenon DEF ItemReads, new
  <2>8. made[1][k].size + 1 = Data!kRecordHead + given[k].extra + Len(new(k))
    <3>1. made[1][k].size = Data!kRecordHead + given[k].extra + Len(new(k)) - 1 /\ given[k].extra \in Nat
      BY <1>2
    <3> DEFINE size == made[1][k].size
               more == given[k].extra
    <3>2. size = 5 + more + Len(new(k)) - 1 /\ more \in Nat /\ Len(new(k)) \in Nat
      BY <2>2, <3>1 DEF Data!kRecordHead
    <3> HIDE DEF size, more
    <3>3. size + 1 = 5 + more + Len(new(k))
      BY <3>2
    <3> QED BY <3>3, Zenon DEF Data!kRecordHead, size, more
  <2> HIDE DEF read
  <2> QED BY <2>6, <2>7, <2>8
<1> HIDE DEF read
<1>12. /\ at[n] = Len(b) + 1
       /\ \A k \in DOMAIN given : b[at[k - 1] + 3] = given[k].id /\ Data!Back(given[k].id, read(k)) = given[k].a
       /\ \A k \in DOMAIN given : made[1][k].size + 1 = Data!kRecordHead + given[k].extra + Len(read(k))
  BY <1>2, <1>10, <1>11
<1> QED BY <1>12, Zenon DEF Data!BoxReadsBack, read, at, b, n

(* A quest's counters and rewards. *)

\* f starts at x and each next value is its step F of the one before
GivenBy(f, x, F, n) == f[0] = x /\ \A k \in 0 .. n - 1 : f[k + 1] = F[k + 1][f[k]]

LEMMA Recursion == ASSUME NEW n \in Nat, NEW V, NEW x \in V, NEW F \in [1 .. n -> [V -> V]]
    PROVE \E f \in [0 .. n -> V] : GivenBy(f, x, F, n)
<1> DEFINE good == {m \in 0 .. n : \E f \in [0 .. m -> V] : GivenBy(f, x, F, m)}
<1>1. 0 \in good
  <2> DEFINE f == [k \in 0 .. 0 |-> x]
  <2>1. f \in [0 .. 0 -> V] /\ f[0] = x /\ \A k \in 0 .. 0 - 1 : FALSE
    OBVIOUS
  <2>2. GivenBy(f, x, F, 0)
    BY <2>1 DEF GivenBy
  <2> HIDE DEF f
  <2> QED BY <2>1, <2>2
<1>2. ASSUME NEW m \in 0 .. n, m < n, m \in good PROVE m + 1 \in good
  <2>1. PICK f \in [0 .. m -> V] : GivenBy(f, x, F, m)
    BY <1>2
  <2> DEFINE next == F[m + 1][f[m]]
             h == [k \in 0 .. m + 1 |-> IF k = m + 1 THEN next ELSE f[k]]
  <2>2. m + 1 \in 1 .. n /\ m + 1 \in 0 .. n /\ m \in 0 .. m
    BY <1>2
  <2>3. next \in V
    BY <2>2
  <2> HIDE DEF next
  <2>4. h \in [0 .. m + 1 -> V] /\ (\A k \in 0 .. m : h[k] = f[k]) /\ h[m + 1] = next
    <3>1. \A k \in 0 .. m + 1 : k # m + 1 => k \in 0 .. m
      OBVIOUS
    <3> QED BY <2>3, <3>1
  <2> HIDE DEF h
  <2>5. h[0] = x
    BY <2>1, <2>4 DEF GivenBy
  <2>6. ASSUME NEW k \in 0 .. (m + 1) - 1 PROVE h[k + 1] = F[k + 1][h[k]]
    <3>1. CASE k = m
      BY <2>2, <2>4, <3>1 DEF next
    <3>2. CASE k # m
      <4>1. k \in 0 .. m - 1 /\ k \in 0 .. m /\ k + 1 \in 0 .. m
        BY <3>2
      <4> QED BY <2>1, <2>4, <4>1 DEF GivenBy
    <3> QED BY <3>1, <3>2
  <2>7. GivenBy(h, x, F, m + 1)
    BY <2>5, <2>6 DEF GivenBy
  <2> QED BY <2>2, <2>4, <2>7
<1> HIDE DEF good
<1>3. \A m \in 0 .. n : m \in good
  BY <1>1, <1>2, UpTo
<1>4. n \in good
  BY <1>3
<1> QED BY <1>4 DEF good

Unrolls(f, x, F, n) == f = [k \in 0 .. n |-> IF k = 0 THEN x ELSE F[k][f[k - 1]]]
LEMMA Unrolled == ASSUME NEW n \in Nat, NEW V, NEW x, NEW F, NEW f \in [0 .. n -> V], GivenBy(f, x, F, n)
    PROVE Unrolls(f, x, F, n)
<1>1. ASSUME NEW k \in 0 .. n PROVE f[k] = IF k = 0 THEN x ELSE F[k][f[k - 1]]
  <2>1. CASE k = 0
    BY <2>1 DEF GivenBy
  <2>2. CASE k # 0
    <3>1. k - 1 \in 0 .. n - 1 /\ (k - 1) + 1 = k
      BY <2>2
    <3>2. f[(k - 1) + 1] = F[(k - 1) + 1][f[k - 1]]
      BY <3>1, Zenon DEF GivenBy
    <3> QED BY <2>2, <3>1, <3>2
  <2> QED BY <2>1, <2>2
<1>2. f = [k \in 0 .. n |-> f[k]]
  OBVIOUS
<1> QED BY <1>1, <1>2 DEF Unrolls

LEMMA MinIsFirst == ASSUME NEW S, S \subseteq Nat, S # {} PROVE Data!Min(S) \in S /\ Data!Min(S) \in Nat /\ \A y \in S : Data!Min(S) =< y
<1>1. \E m \in S : \A j \in S : m =< j
  BY FirstNumber
<1> QED BY <1>1 DEF Data!Min

\* more of one kind than of the other: one is left
LEMMA OneLeft ==
    ASSUME NEW n \in Nat, NEW S, IsFiniteSet(S), NEW all \in SUBSET (1 .. n), NEW k \in all, Cardinality(all) =< Cardinality(S), NEW v
    PROVE  \E i \in S : \A j \in all \ {k} : v[j] # i
<1> DEFINE T == all \ {k}
           f == [i \in S |-> CHOOSE j \in T : v[j] = i]
<1> SUFFICES ASSUME \A i \in S : \E j \in T : v[j] = i PROVE FALSE
  BY Zenon
<1>1. IsFiniteSet(all) /\ Cardinality(all) \in Nat /\ Cardinality(S) \in Nat
  <2>1. IsFiniteSet(1 .. n)
    <3>1. 1 \in Int /\ n \in Int
      OBVIOUS
    <3> QED BY <3>1, FS_Interval, Zenon
  <2> QED BY <2>1, FS_Subset, FS_CardinalityType
<1>2. IsFiniteSet(T) /\ Cardinality(T) = Cardinality(all) - 1
  BY <1>1, FS_RemoveElement
<1>3. Cardinality(T) < Cardinality(S)
  BY <1>1, <1>2
<1> HIDE DEF T
<1>4. f \in [S -> T] /\ \A i \in S : v[f[i]] = i
  <2>1. \A i \in S : (CHOOSE j \in T : v[j] = i) \in T /\ v[CHOOSE j \in T : v[j] = i] = i
    OBVIOUS
  <2> QED BY <2>1
<1> HIDE DEF f
<1>5. PICK x \in S, y \in S : x # y /\ f[x] = f[y]
  BY <1>2, <1>3, <1>4, FS_PigeonHole
<1> QED BY <1>4, <1>5

\* the slots given to the first k rows; a row that gets none has no slot left of its kind
Alike(clientRows, k) == {j \in 1 .. k : clientRows[j] = clientRows[k]}
OfKind(slots, c) == {s \in DOMAIN slots : slots[s] = c}
Given(v, k, clientRows, slots) ==
    /\ v \in Seq(Nat) /\ Len(v) = k
    /\ \A i \in 1 .. k : v[i] = 0 => ~(Cardinality(Alike(clientRows, i)) =< Cardinality(OfKind(slots, clientRows[i])))
    /\ \A i \in 1 .. k : v[i] # 0 => v[i] \in DOMAIN slots /\ slots[v[i]] = clientRows[i]
    /\ \A i, j \in 1 .. k : i # j /\ v[i] # 0 => v[i] # v[j]
GiveNext(v, row, slots) == Append(v, IF Data!FreeSlots(slots, row, Data!ToSet(v)) = {} THEN 0 ELSE Data!Min(Data!FreeSlots(slots, row, Data!ToSet(v))))

LEMMA GivesOne == ASSUME NEW v \in Seq(Nat), NEW row, NEW slots, DOMAIN slots \subseteq Nat \ {0}
    PROVE \E s \in Nat : /\ GiveNext(v, row, slots) = Append(v, s)
                         /\ s # 0 => s \in DOMAIN slots /\ slots[s] = row /\ \A i \in 1 .. Len(v) : v[i] # s
                         /\ s = 0 => \A x \in OfKind(slots, row) : \E i \in 1 .. Len(v) : v[i] = x
<1> DEFINE hits == Data!FreeSlots(slots, row, Data!ToSet(v))
           s == IF hits = {} THEN 0 ELSE Data!Min(hits)
<1>1. hits = {k \in DOMAIN slots : slots[k] = row /\ \A i \in 1 .. Len(v) : v[i] # k}
  <2>1. DOMAIN v = 1 .. Len(v)
    OBVIOUS
  <2> QED BY <2>1 DEF Data!FreeSlots, Data!ToSet
<1>2. hits \subseteq Nat
  BY <1>1
<1>3. GiveNext(v, row, slots) = Append(v, s)
  BY Zenon DEF GiveNext
<1> HIDE DEF hits
<1>4. s \in Nat /\ (s # 0 => s \in hits) /\ (s = 0 => hits = {})
  <2>1. CASE hits = {}
    BY <2>1
  <2>2. CASE hits # {}
    <3>1. Data!Min(hits) \in hits /\ Data!Min(hits) \in Nat
      BY <1>2, <2>2, MinIsFirst
    <3>2. 0 \notin hits
      BY <1>1
    <3> QED BY <2>2, <3>1, <3>2
  <2> QED BY <2>1, <2>2
<1> HIDE DEF s
<1>5. s = 0 => \A x \in OfKind(slots, row) : \E i \in 1 .. Len(v) : v[i] = x
  BY <1>1, <1>4 DEF OfKind
<1> QED BY <1>1, <1>3, <1>4, <1>5

LEMMA GivenMore ==
    ASSUME NEW k \in Nat, NEW v, NEW clientRows, NEW slots, DOMAIN slots \subseteq Nat \ {0}, IsFiniteSet(DOMAIN slots),
           Given(v, k, clientRows, slots)
    PROVE Given(GiveNext(v, clientRows[k + 1], slots), k + 1, clientRows, slots)
<1>1. v \in Seq(Nat) /\ Len(v) = k
  BY DEF Given
<1>2. PICK s \in Nat : /\ GiveNext(v, clientRows[k + 1], slots) = Append(v, s)
                       /\ s # 0 => s \in DOMAIN slots /\ slots[s] = clientRows[k + 1] /\ \A i \in 1 .. Len(v) : v[i] # s
                       /\ s = 0 => \A x \in OfKind(slots, clientRows[k + 1]) : \E i \in 1 .. Len(v) : v[i] = x
  BY <1>1, GivesOne
<1> DEFINE w == Append(v, s)
<1>3. w \in Seq(Nat) /\ Len(w) = k + 1 /\ w[k + 1] = s /\ \A i \in 1 .. k : w[i] = v[i]
  BY <1>1, AppendFacts
<1> HIDE DEF w
<1>4. \A i \in 1 .. k + 1 : i \in 1 .. k \/ i = k + 1
  OBVIOUS
<1>5. ASSUME NEW i \in 1 .. k + 1, w[i] # 0 PROVE w[i] \in DOMAIN slots /\ slots[w[i]] = clientRows[i]
  BY <1>2, <1>3, <1>4, <1>5 DEF Given
<1>6. ASSUME NEW i \in 1 .. k + 1, NEW j \in 1 .. k + 1, i # j, w[i] # 0 PROVE w[i] # w[j]
  <2>1. CASE i \in 1 .. k /\ j \in 1 .. k
    BY <1>3, <1>6, <2>1 DEF Given
  <2>2. CASE i \in 1 .. k /\ j = k + 1
    BY <1>1, <1>2, <1>3, <1>6, <2>2
  <2>3. CASE i = k + 1 /\ j \in 1 .. k
    BY <1>1, <1>2, <1>3, <1>6, <2>3
  <2> QED BY <1>4, <1>6, <2>1, <2>2, <2>3
<1>8. ASSUME s = 0, Cardinality(Alike(clientRows, k + 1)) =< Cardinality(OfKind(slots, clientRows[k + 1])) PROVE FALSE
  <2> DEFINE c == clientRows[k + 1]
             all == Alike(clientRows, k + 1)
             S == OfKind(slots, c)
  <2>1. IsFiniteSet(S) /\ S \subseteq DOMAIN slots
    <3>1. S \in SUBSET DOMAIN slots
      BY DEF OfKind
    <3> QED BY <3>1, FS_Subset
  <2>2. k + 1 \in Nat /\ all \in SUBSET (1 .. k + 1) /\ k + 1 \in all
    BY DEF Alike
  <2>3. PICK i \in S : \A j \in all \ {k + 1} : v[j] # i
    <3>1. Cardinality(all) =< Cardinality(S)
      BY <1>8
    <3> DEFINE n == k + 1
    <3>2. n \in Nat /\ all \in SUBSET (1 .. n) /\ n \in all
      BY <2>2
    <3> HIDE DEF all, S, n
    <3>3. n \in Nat /\ all \in SUBSET (1 .. n) /\ n \in all /\ IsFiniteSet(S) /\ Cardinality(all) =< Cardinality(S)
      BY <2>1, <3>1, <3>2, Zenon
    <3>4. \E i \in S : \A j \in all \ {n} : v[j] # i
      BY ONLY <3>3, OneLeft, SMTT(30)
    <3> QED BY <3>4 DEF n
  <2>4. PICK j \in 1 .. k : v[j] = i
    BY <1>1, <1>2, <1>8
  <2>5. i \in DOMAIN slots /\ slots[i] = c /\ i # 0
    BY DEF OfKind
  <2>6. clientRows[j] = c
    BY <2>4, <2>5 DEF Given
  <2>7. j \in all \ {k + 1}
    BY <2>6 DEF Alike
  <2> QED BY <2>3, <2>4, <2>7
<1>9. ASSUME NEW i \in 1 .. k + 1, w[i] = 0 PROVE ~(Cardinality(Alike(clientRows, i)) =< Cardinality(OfKind(slots, clientRows[i])))
  BY <1>3, <1>4, <1>8, <1>9 DEF Given
<1>7. Given(w, k + 1, clientRows, slots)
  BY <1>3, <1>5, <1>6, <1>9 DEF Given
<1> QED BY <1>2, <1>7 DEF w

GotRule(got, clientRows, slots) ==
    got = [n \in 0 .. Len(clientRows) |-> IF n = 0 THEN << >> ELSE GiveNext(got[n - 1], clientRows[n], slots)]

LEMMA RewardsGiven ==
    ASSUME NEW clientRows, Len(clientRows) \in Nat, NEW slots, DOMAIN slots \subseteq Nat \ {0}, IsFiniteSet(DOMAIN slots)
    PROVE Given(Data!RewardSlots(clientRows, slots), Len(clientRows), clientRows, slots)
<1> DEFINE n == Len(clientRows)
           got == CHOOSE f : GotRule(f, clientRows, slots)
           F == [k \in 1 .. n |-> [v \in Seq(Nat) |-> GiveNext(v, clientRows[k], slots)]]
<1>1. Data!RewardSlots(clientRows, slots) = got[n]
  BY Zenon DEF Data!RewardSlots, GotRule, GiveNext
<1> HIDE DEF n
<1>2. F \in [1 .. n -> [Seq(Nat) -> Seq(Nat)]]
  <2>1. ASSUME NEW v \in Seq(Nat), NEW row PROVE GiveNext(v, row, slots) \in Seq(Nat)
    <3>1. PICK s \in Nat : GiveNext(v, row, slots) = Append(v, s)
      BY GivesOne
    <3> QED BY <3>1, AppendFacts
  <2> QED BY <2>1
<1>3. \A k \in 1 .. n, v \in Seq(Nat) : F[k][v] = GiveNext(v, clientRows[k], slots)
  OBVIOUS
<1> HIDE DEF F
<1>4. n \in Nat /\ << >> \in Seq(Nat)
  BY DEF n
<1>5. PICK f \in [0 .. n -> Seq(Nat)] : GivenBy(f, << >>, F, n)
  BY <1>2, <1>4, Recursion
<1>6. f = [k \in 0 .. n |-> IF k = 0 THEN << >> ELSE F[k][f[k - 1]]]
  <2>1. Unrolls(f, << >>, F, n)
    BY <1>4, <1>5, Unrolled
  <2> QED BY <2>1, Zenon DEF Unrolls
<1>7. \A k \in 0 .. n : k # 0 => F[k][f[k - 1]] = GiveNext(f[k - 1], clientRows[k], slots)
  <2> SUFFICES ASSUME NEW k \in 0 .. n, k # 0 PROVE F[k][f[k - 1]] = GiveNext(f[k - 1], clientRows[k], slots)
    OBVIOUS
  <2>1. k \in 1 .. n /\ k - 1 \in 0 .. n
    BY <1>4
  <2> QED BY <1>3, <1>5, <2>1
<1>8. f = [k \in 0 .. n |-> IF k = 0 THEN << >> ELSE GiveNext(f[k - 1], clientRows[k], slots)]
  BY <1>6, <1>7
<1>9. GotRule(f, clientRows, slots)
  BY <1>8, Zenon DEF GotRule, n
<1>10. GotRule(got, clientRows, slots)
  BY <1>9, Zenon
<1> HIDE DEF got
<1>11. \A k \in 0 .. n : got[k] = IF k = 0 THEN << >> ELSE GiveNext(got[k - 1], clientRows[k], slots)
  BY <1>10 DEF GotRule, n
<1> DEFINE good == {k \in 0 .. n : Given(got[k], k, clientRows, slots)}
<1>12. 0 \in good
  <2>1. 0 \in 0 .. n /\ got[0] = << >>
    BY <1>4, <1>11
  <2>2. << >> \in Seq(Nat) /\ Len(<< >>) = 0 /\ \A i \in 1 .. 0 : FALSE
    OBVIOUS
  <2>3. Given(<< >>, 0, clientRows, slots)
    BY <2>2 DEF Given
  <2> QED BY <2>1, <2>3
<1>13. ASSUME NEW k \in 0 .. n, k < n, k \in good PROVE k + 1 \in good
  <2>1. k + 1 \in 0 .. n /\ k + 1 # 0 /\ (k + 1) - 1 = k /\ k \in Nat
    BY <1>4, <1>13
  <2>2. got[k + 1] = GiveNext(got[k], clientRows[k + 1], slots)
    <3>1. got[k + 1] = GiveNext(got[(k + 1) - 1], clientRows[k + 1], slots)
      BY <1>11, <2>1, Zenon
    <3> QED BY <2>1, <3>1, Zenon
  <2>3. Given(got[k], k, clientRows, slots)
    BY <1>13
  <2>4. Given(got[k + 1], k + 1, clientRows, slots)
    BY <2>1, <2>2, <2>3, GivenMore
  <2> QED BY <2>1, <2>4
<1> HIDE DEF good
<1>14. \A k \in 0 .. n : k \in good
  BY <1>4, <1>12, <1>13, UpTo
<1>15. n \in good
  BY <1>4, <1>14
<1> QED BY <1>1, <1>15 DEF good, n

LEMMA CountedInData == ASSUME NEW s PROVE Data!Cardinality(s) = Cardinality(s)
  BY Zenon DEF Cardinality, Data!Cardinality

LEMMA RewardsChosen ==
    ASSUME NEW r \in Rewards, NEW s \in Rewards, given = <<r, s>>, made = Data!Forwarded(r, s)
    PROVE  Data!RewardIsTheChosen
<1> DEFINE got == Data!RewardSlots(r, s)
<1>1. \A q \in Rewards : Len(q) \in Nat /\ DOMAIN q = 1 .. Len(q)
  <2> SUFFICES ASSUME NEW q \in Rewards PROVE Len(q) \in Nat /\ DOMAIN q = 1 .. Len(q)
    OBVIOUS
  <2>1. q \in Seq({q[k] : k \in DOMAIN q})
    BY BridgesOK DEF Data!BridgeDataOK
  <2> QED BY <2>1
<1>2. DOMAIN s \subseteq Nat \ {0} /\ IsFiniteSet(DOMAIN s) /\ Len(r) \in Nat /\ DOMAIN r = 1 .. Len(r)
  <2>1. 1 \in Int /\ Len(s) \in Int
    BY <1>1
  <2>2. IsFiniteSet(1 .. Len(s))
    BY <2>1, FS_Interval, Zenon
  <2> QED BY <1>1, <2>2
<1>3. Given(got, Len(r), r, s)
  BY <1>2, RewardsGiven
<1> HIDE DEF got
<1>4. given[1] = r /\ given[2] = s /\ DOMAIN made = 1 .. Len(r) /\ \A k \in 1 .. Len(r) : made[k] = IF got[k] = 0 THEN k ELSE got[k]
  BY <1>2 DEF Data!Forwarded, got
<1>5. ASSUME NEW k \in Data!Offered(r, s) PROVE k \in 1 .. Len(r) /\ got[k] # 0
  <2>1. k \in 1 .. Len(r) /\ Data!Cardinality({j \in 1 .. k : r[j] = r[k]}) =< Data!Cardinality({x \in DOMAIN s : s[x] = r[k]})
    BY <1>2 DEF Data!Offered
  <2>2. Cardinality(Alike(r, k)) =< Cardinality(OfKind(s, r[k]))
    BY <2>1, CountedInData DEF Alike, OfKind
  <2> QED BY <1>3, <2>1, <2>2 DEF Given
<1>6. ASSUME NEW k \in Data!Offered(r, s) PROVE made[k] = got[k] /\ made[k] \in DOMAIN s /\ s[made[k]] = r[k]
  BY <1>3, <1>4, <1>5 DEF Given
<1>7. ASSUME NEW j \in Data!Offered(r, s), NEW k \in Data!Offered(r, s), j # k PROVE made[j] # made[k]
  <2>1. j \in 1 .. Len(r) /\ k \in 1 .. Len(r) /\ got[j] # 0 /\ made[j] = got[j] /\ made[k] = got[k]
    BY <1>5, <1>6
  <2> QED BY <1>3, <1>7, <2>1 DEF Given
<1> QED BY <1>4, <1>6, <1>7 DEF Data!RewardIsTheChosen

\* the rows of the first k counters: each its own, but those of counters that are not used
Placed(v, k, counters, clientRows) ==
    /\ v \in Seq(Nat) /\ Len(v) = k
    /\ \A i \in 1 .. k : IF counters[i] = Data!NoMob THEN v[i] = i ELSE v[i] \in DOMAIN clientRows /\ clientRows[v[i]] = counters[i]
    /\ \A i, j \in 1 .. k : i # j /\ counters[i] # Data!NoMob /\ counters[j] # Data!NoMob => v[i] # v[j]
Taken(v, n, counters) == {v[j] : j \in {i \in 1 .. n - 1 : counters[i] # Data!NoMob}}
PlaceNext(v, n, counters, clientRows) ==
    Append(v, IF counters[n] = Data!NoMob \/ Data!FirstMatch(counters[n], clientRows, Taken(v, n, counters)) = {} THEN n
              ELSE Data!Min(Data!FirstMatch(counters[n], clientRows, Taken(v, n, counters))))

\* there are as many rows for the mob as counters of it
Enough(c, counters, clientRows) ==
    c # Data!NoMob => Cardinality({i \in DOMAIN clientRows : clientRows[i] = c}) >= Cardinality({j \in 1 .. 5 : counters[j] = c})

LEMMA RowLeft ==
    ASSUME NEW k \in 0 .. 4, NEW v, NEW counters, NEW clientRows, DOMAIN clientRows \subseteq Nat, IsFiniteSet(DOMAIN clientRows),
           Placed(v, k, counters, clientRows), Enough(counters[k + 1], counters, clientRows), counters[k + 1] # Data!NoMob
    PROVE  \E i \in DOMAIN clientRows : clientRows[i] = counters[k + 1] /\ \A j \in 1 .. k : counters[j] # Data!NoMob => v[j] # i
<1> DEFINE c == counters[k + 1]
           S == {i \in DOMAIN clientRows : clientRows[i] = c}
           all == {j \in 1 .. 5 : counters[j] = c}
<1>1. IsFiniteSet(S)
  <2>1. S \in SUBSET DOMAIN clientRows
    OBVIOUS
  <2> HIDE DEF S
  <2> QED BY <2>1, FS_Subset
<1>2. all \in SUBSET (1 .. 5) /\ k + 1 \in all /\ 5 \in Nat
  OBVIOUS
<1>3. Cardinality(all) =< Cardinality(S)
  <2>1. Cardinality(S) >= Cardinality(all)
    BY Zenon DEF Enough
  <2>2. IsFiniteSet(all)
    <3>1. IsFiniteSet(1 .. 5)
      <4>1. 1 \in Int /\ 5 \in Int
        OBVIOUS
      <4> QED BY <4>1, FS_Interval, Zenon
    <3> HIDE DEF all
    <3> QED BY <1>2, <3>1, FS_Subset
  <2> HIDE DEF all, S
  <2>3. Cardinality(all) \in Nat /\ Cardinality(S) \in Nat
    BY <1>1, <2>2, FS_CardinalityType
  <2> QED BY <2>1, <2>3
<1>4. PICK i \in S : \A j \in all \ {k + 1} : v[j] # i
  <2> HIDE DEF all, S
  <2> QED BY <1>1, <1>2, <1>3, OneLeft
<1>5. ASSUME NEW j \in 1 .. k, counters[j] # Data!NoMob, v[j] = i PROVE FALSE
  <2>1. clientRows[v[j]] = counters[j]
    BY <1>5 DEF Placed
  <2>2. counters[j] = c
    BY <1>5, <2>1
  <2>3. j \in 1 .. 5 /\ j # k + 1
    OBVIOUS
  <2>4. j \in all \ {k + 1}
    BY <2>2, <2>3
  <2> QED BY <1>4, <1>5, <2>4
<1>6. i \in DOMAIN clientRows /\ clientRows[i] = c
  OBVIOUS
<1> QED BY <1>5, <1>6

LEMMA PlacedMore ==
    ASSUME NEW k \in 0 .. 4, NEW v, NEW counters, NEW clientRows, DOMAIN clientRows \subseteq Nat, IsFiniteSet(DOMAIN clientRows),
           Placed(v, k, counters, clientRows), \A i \in 1 .. 5 : Enough(counters[i], counters, clientRows)
    PROVE  Placed(PlaceNext(v, k + 1, counters, clientRows), k + 1, counters, clientRows)
<1> DEFINE c == counters[k + 1]
           hits == Data!FirstMatch(c, clientRows, Taken(v, k + 1, counters))
           s == IF c = Data!NoMob THEN k + 1 ELSE Data!Min(hits)
           w == Append(v, s)
<1>1. k + 1 \in 1 .. 5 /\ (k + 1) - 1 = k /\ k \in Nat
  OBVIOUS
<1>2. hits = {i \in DOMAIN clientRows : clientRows[i] = c /\ \A j \in 1 .. k : counters[j] # Data!NoMob => v[j] # i}
  <2>1. Taken(v, k + 1, counters) = {v[j] : j \in {i \in 1 .. k : counters[i] # Data!NoMob}}
    BY <1>1, Zenon DEF Taken
  <2> QED BY <2>1 DEF Data!FirstMatch
<1>3. c # Data!NoMob => hits # {}
  <2> SUFFICES ASSUME c # Data!NoMob PROVE hits # {}
    OBVIOUS
  <2>1. PICK i \in DOMAIN clientRows : clientRows[i] = counters[k + 1] /\ \A j \in 1 .. k : counters[j] # Data!NoMob => v[j] # i
    BY <1>1, RowLeft
  <2>2. i \in hits
    BY <1>2, <2>1, Zenon
  <2> QED BY <2>2
<1>4. PlaceNext(v, k + 1, counters, clientRows) = w
  <2>1. CASE c = Data!NoMob
    BY <2>1, Zenon DEF PlaceNext
  <2>2. CASE c # Data!NoMob
    BY <1>3, <2>2, Zenon DEF PlaceNext
  <2> QED BY <2>1, <2>2
<1> HIDE DEF hits
<1>5. hits \subseteq Nat
  BY <1>2
<1>6. s \in Nat /\ (c # Data!NoMob => s \in hits) /\ (c = Data!NoMob => s = k + 1)
  <2>1. CASE c = Data!NoMob
    BY <1>1, <2>1
  <2>2. CASE c # Data!NoMob
    <3>1. Data!Min(hits) \in hits /\ Data!Min(hits) \in Nat
      BY <1>3, <1>5, <2>2, MinIsFirst
    <3> QED BY <2>2, <3>1
  <2> QED BY <2>1, <2>2
<1> HIDE DEF s
<1>7. c # Data!NoMob => s \in DOMAIN clientRows /\ clientRows[s] = c /\ \A j \in 1 .. k : counters[j] # Data!NoMob => v[j] # s
  BY <1>2, <1>6
<1>8. v \in Seq(Nat) /\ Len(v) = k
  BY DEF Placed
<1>9. w \in Seq(Nat) /\ Len(w) = k + 1 /\ w[k + 1] = s /\ \A i \in 1 .. k : w[i] = v[i]
  BY <1>6, <1>8, AppendFacts
<1> HIDE DEF w
<1>10. \A i \in 1 .. k + 1 : i \in 1 .. k \/ i = k + 1
  OBVIOUS
<1>11. ASSUME NEW i \in 1 .. k + 1
       PROVE  IF counters[i] = Data!NoMob THEN w[i] = i ELSE w[i] \in DOMAIN clientRows /\ clientRows[w[i]] = counters[i]
  <2>1. CASE i \in 1 .. k
    BY <1>9, <2>1 DEF Placed
  <2>2. CASE i = k + 1
    BY <1>6, <1>7, <1>9, <2>2
  <2> QED BY <1>10, <2>1, <2>2
<1>12. ASSUME NEW i \in 1 .. k + 1, NEW j \in 1 .. k + 1, i # j, counters[i] # Data!NoMob, counters[j] # Data!NoMob PROVE w[i] # w[j]
  <2>1. CASE i \in 1 .. k /\ j \in 1 .. k
    BY <1>9, <1>12, <2>1 DEF Placed
  <2>2. CASE i \in 1 .. k /\ j = k + 1
    BY <1>7, <1>9, <1>12, <2>2
  <2>3. CASE i = k + 1 /\ j \in 1 .. k
    BY <1>7, <1>9, <1>12, <2>3
  <2> QED BY <1>10, <1>12, <2>1, <2>2, <2>3
<1>13. Placed(w, k + 1, counters, clientRows)
  BY <1>9, <1>11, <1>12 DEF Placed
<1> QED BY <1>4, <1>13

WantRule(want, counters, clientRows) ==
    want = [n \in 0 .. Len(counters) |-> IF n = 0 THEN << >> ELSE PlaceNext(want[n - 1], n, counters, clientRows)]

LEMMA MatchedPlaced ==
    ASSUME NEW counters, Len(counters) = 5, NEW clientRows, DOMAIN clientRows \subseteq Nat, IsFiniteSet(DOMAIN clientRows),
           \A i \in 1 .. 5 : Enough(counters[i], counters, clientRows)
    PROVE  Placed(Data!Matched(counters, clientRows), 5, counters, clientRows)
<1> DEFINE n == Len(counters)
           want == CHOOSE f : WantRule(f, counters, clientRows)
           F == [k \in 1 .. n |-> [v \in Seq(Nat) |-> PlaceNext(v, k, counters, clientRows)]]
<1>1. Data!Matched(counters, clientRows) = want[n]
  BY Zenon DEF Data!Matched, WantRule, PlaceNext, Taken
<1>4. n \in Nat /\ << >> \in Seq(Nat) /\ n = 5
  OBVIOUS
<1> HIDE DEF n
<1>2. F \in [1 .. n -> [Seq(Nat) -> Seq(Nat)]]
  <2>1. ASSUME NEW v \in Seq(Nat), NEW k \in 1 .. n PROVE PlaceNext(v, k, counters, clientRows) \in Seq(Nat)
    <3> DEFINE hits == Data!FirstMatch(counters[k], clientRows, Taken(v, k, counters))
               s == IF counters[k] = Data!NoMob \/ hits = {} THEN k ELSE Data!Min(hits)
    <3>1. PlaceNext(v, k, counters, clientRows) = Append(v, s)
      BY Zenon DEF PlaceNext
    <3>2. hits \subseteq Nat
      BY DEF Data!FirstMatch
    <3> HIDE DEF hits
    <3>3. s \in Nat
      <4>1. k \in Nat
        BY <1>4
      <4>2. CASE counters[k] = Data!NoMob \/ hits = {}
        BY <4>1, <4>2
      <4>3. CASE ~(counters[k] = Data!NoMob \/ hits = {})
        <5>1. hits # {} /\ s = Data!Min(hits)
          BY <4>3
        <5> QED BY <3>2, <5>1, MinIsFirst
      <4> QED BY <4>2, <4>3
    <3> HIDE DEF s
    <3> QED BY <3>1, <3>3, AppendFacts
  <2> QED BY <2>1
<1>3. \A k \in 1 .. n, v \in Seq(Nat) : F[k][v] = PlaceNext(v, k, counters, clientRows)
  OBVIOUS
<1> HIDE DEF F
<1>5. PICK f \in [0 .. n -> Seq(Nat)] : GivenBy(f, << >>, F, n)
  BY <1>2, <1>4, Recursion
<1>6. f = [k \in 0 .. n |-> IF k = 0 THEN << >> ELSE F[k][f[k - 1]]]
  <2>1. Unrolls(f, << >>, F, n)
    BY <1>4, <1>5, Unrolled
  <2> QED BY <2>1, Zenon DEF Unrolls
<1>7. \A k \in 0 .. n : k # 0 => F[k][f[k - 1]] = PlaceNext(f[k - 1], k, counters, clientRows)
  <2> SUFFICES ASSUME NEW k \in 0 .. n, k # 0 PROVE F[k][f[k - 1]] = PlaceNext(f[k - 1], k, counters, clientRows)
    OBVIOUS
  <2>1. k \in 1 .. n /\ k - 1 \in 0 .. n
    BY <1>4
  <2> QED BY <1>3, <1>5, <2>1
<1>8. f = [k \in 0 .. n |-> IF k = 0 THEN << >> ELSE PlaceNext(f[k - 1], k, counters, clientRows)]
  BY <1>6, <1>7
<1>9. WantRule(f, counters, clientRows)
  BY <1>8, Zenon DEF WantRule, n
<1>10. WantRule(want, counters, clientRows)
  BY <1>9, Zenon
<1> HIDE DEF want
<1>11. \A k \in 0 .. n : want[k] = IF k = 0 THEN << >> ELSE PlaceNext(want[k - 1], k, counters, clientRows)
  BY <1>10 DEF WantRule, n
<1> DEFINE good == {k \in 0 .. n : Placed(want[k], k, counters, clientRows)}
<1>12. 0 \in good
  <2>1. 0 \in 0 .. n /\ want[0] = << >>
    BY <1>4, <1>11
  <2>2. << >> \in Seq(Nat) /\ Len(<< >>) = 0 /\ \A i \in 1 .. 0 : FALSE
    OBVIOUS
  <2>3. Placed(<< >>, 0, counters, clientRows)
    BY <2>2 DEF Placed
  <2> QED BY <2>1, <2>3
<1>13. ASSUME NEW k \in 0 .. n, k < n, k \in good PROVE k + 1 \in good
  <2>1. k + 1 \in 0 .. n /\ k + 1 # 0 /\ (k + 1) - 1 = k /\ k \in 0 .. 4
    BY <1>4, <1>13
  <2>2. want[k + 1] = PlaceNext(want[k], k + 1, counters, clientRows)
    <3>1. want[k + 1] = PlaceNext(want[(k + 1) - 1], k + 1, counters, clientRows)
      BY <1>11, <2>1, Zenon
    <3> QED BY <2>1, <3>1, Zenon
  <2>3. Placed(want[k], k, counters, clientRows)
    BY <1>13
  <2>4. Placed(want[k + 1], k + 1, counters, clientRows)
    BY <2>1, <2>2, <2>3, PlacedMore
  <2> QED BY <2>1, <2>4
<1> HIDE DEF good
<1>14. \A k \in 0 .. n : k \in good
  BY <1>4, <1>12, <1>13, UpTo
<1>15. n \in good
  BY <1>4, <1>14
<1> QED BY <1>1, <1>4, <1>15 DEF good

LEMMA MoreUnused ==
    ASSUME NEW counters, NEW clientRows, DOMAIN clientRows \subseteq Nat, NEW timed
    PROVE  /\ Data!More(counters, clientRows, timed) \in Seq(Nat)
           /\ \A i \in 1 .. Len(Data!More(counters, clientRows, timed)), k \in DOMAIN counters :
                  counters[k] # Data!NoMob => Data!More(counters, clientRows, timed)[i] # Data!Matched(counters, clientRows)[k]
<1> DEFINE used == {Data!Matched(counters, clientRows)[k] : k \in {j \in DOMAIN counters : counters[j] # Data!NoMob}}
           kills == {i \in DOMAIN clientRows : clientRows[i].kill}
           free == kills \ used
           later == free \ {Data!Min(free)}
           m == Data!More(counters, clientRows, timed)
           none == timed \/ Data!Cardinality(kills) =< 5 \/ free = {}
           one == Data!Min(free) two == Data!Min(later)
<1>1. m = IF none THEN << >> ELSE IF later = {} THEN <<one>> ELSE <<one, two>>
  BY Zenon DEF Data!More
<1>2. free \subseteq Nat /\ later \subseteq free /\ later \subseteq Nat
  OBVIOUS
<1>3. \A k \in DOMAIN counters : counters[k] # Data!NoMob => Data!Matched(counters, clientRows)[k] \notin free
  OBVIOUS
<1>4. free # {} => one \in free
  <2> HIDE DEF free
  <2> QED BY <1>2, MinIsFirst
<1>5. later # {} => two \in later
  <2> HIDE DEF later
  <2> QED BY <1>2, MinIsFirst
<1>6. ~none => free # {}
  OBVIOUS
<1> HIDE DEF free, later, none, m, one, two
<1>7. m \in Seq(free) /\ m \in Seq(Nat)
  <2>1. CASE none
    BY <1>1, <2>1
  <2>2. CASE ~none /\ later = {}
    <3>1. m = <<one>> /\ one \in free /\ one \in Nat
      BY <1>1, <1>2, <1>4, <1>6, <2>2
    <3> QED BY <3>1
  <2>3. CASE ~none /\ later # {}
    <3>1. m = <<one, two>> /\ one \in free /\ two \in free /\ one \in Nat /\ two \in Nat
      BY <1>1, <1>2, <1>4, <1>5, <1>6, <2>3
    <3> QED BY <3>1
  <2> QED BY <2>1, <2>2, <2>3
<1>8. \A i \in 1 .. Len(m) : m[i] \in free
  BY <1>7
<1> QED BY <1>3, <1>7, <1>8 DEF m

LEMMA CountersAtTheirRows ==
    ASSUME NEW c \in Slots16, NEW r \in Rows, NEW timed \in BOOLEAN, given = <<c, r, timed>>, made = Data!CounterRows(c, r, timed)
    PROVE  Data!CountersFollow
<1> DEFINE v == Data!Matched(c, r)
           m == Data!More(c, r, timed)
           values == [k \in 1 .. 7 |-> 10 + k]
           shown == Data!Shown(made, values)
<1>1. given[1] = c /\ given[2] = r
  OBVIOUS
<1>2. DOMAIN c = 1 .. 5 /\ Len(c) = 5
  <2>1. c \in [1 .. 5 -> Data!Mobs]
    BY BridgesOK DEF Data!BridgeDataOK
  <2> QED BY <2>1
<1>3. DOMAIN r \subseteq 1 .. 10 /\ DOMAIN r \subseteq Nat /\ IsFiniteSet(DOMAIN r)
  <2>1. r \in Seq(Data!Mobs) /\ Len(r) =< 10
    BY BridgesOK DEF Data!BridgeDataOK
  <2>2. DOMAIN r = 1 .. Len(r) /\ Len(r) \in Nat /\ Len(r) \in Int /\ 1 \in Int
    BY <2>1
  <2>3. IsFiniteSet(1 .. Len(r))
    BY <2>2, FS_Interval, Zenon
  <2>4. DOMAIN r \subseteq 1 .. 10
    BY <2>1, <2>2
  <2> QED BY <2>2, <2>3, <2>4
<1> SUFFICES ASSUME \A k \in 1 .. 5 : Enough(c[k], c, r), NEW k \in 1 .. 5, c[k] # Data!NoMob
             PROVE  \E i \in DOMAIN r : r[i] = c[k] /\ (shown[i] = values[k] \/ (i \in 1 .. 5 /\ c[i] = Data!NoMob /\ i > k))
  <2>1. \A j \in 1 .. 5 :
            (c[j] # Data!NoMob => Data!Cardinality({i \in DOMAIN r : r[i] = c[j]}) >= Data!Cardinality({i \in DOMAIN c : c[i] = c[j]}))
            => Enough(c[j], c, r)
    BY <1>2, CountedInData DEF Enough
  <2> DEFINE counted == {j \in DOMAIN given[1] : given[1][j] # Data!NoMob}
             enough == \A j \in counted : Data!Cardinality({i \in DOMAIN given[2] : given[2][i] = given[1][j]})
                                            >= Data!Cardinality({i \in DOMAIN given[1] : given[1][i] = given[1][j]})
             follow == \A j \in counted : \E i \in DOMAIN given[2] :
                           given[2][i] = given[1][j] /\ (shown[i] = values[j] \/ (i \in DOMAIN given[1] \ counted /\ i > j))
  <2>2. (enough => follow) => Data!CountersFollow
    BY Zenon DEF Data!CountersFollow
  <2>5. counted = {j \in 1 .. 5 : c[j] # Data!NoMob} /\ DOMAIN given[1] \ counted = {j \in 1 .. 5 : c[j] = Data!NoMob}
    BY <1>1, <1>2
  <2> HIDE DEF shown, values
  <2>3. enough => \A j \in 1 .. 5 : Enough(c[j], c, r)
    BY <1>1, <1>2, <2>1
  <2>4. (\A j \in 1 .. 5 : c[j] # Data!NoMob =>
            \E i \in DOMAIN r : r[i] = c[j] /\ (shown[i] = values[j] \/ (i \in 1 .. 5 /\ c[i] = Data!NoMob /\ i > j))) => follow
    <3> HIDE DEF counted
    <3> QED BY <1>1, <2>5
  <2> HIDE DEF enough, follow
  <2> QED BY <2>2, <2>3, <2>4, Zenon
<1>4. Placed(v, 5, c, r)
  BY <1>2, <1>3, MatchedPlaced
<1>5. /\ m \in Seq(Nat)
      /\ \A i \in 1 .. Len(m) : m[i] # v[k]
  BY <1>2, <1>3, MoreUnused
<1>6. made = v \o m
  BY Zenon DEF Data!CounterRows
<1> HIDE DEF v, m
<1>7. /\ v \in Seq(Nat) /\ Len(v) = 5 /\ v[k] \in DOMAIN r /\ r[v[k]] = c[k]
      /\ \A j \in 1 .. 5 : j # k /\ v[j] = v[k] => c[j] = Data!NoMob /\ j = v[k]
  BY <1>4 DEF Placed
<1>8. ConcatIs(Nat, v, m)
  BY <1>5, <1>7, ConcatFacts
<1> DEFINE w == v \o m
<1>9. DOMAIN w = 1 .. 5 + Len(m) /\ Len(m) \in Nat /\ (\A j \in 1 .. 5 : w[j] = v[j]) /\ \A i \in 1 .. Len(m) : w[5 + i] = m[i]
  BY <1>7, <1>8 DEF ConcatIs
<1> HIDE DEF w
<1> SUFFICES ASSUME ~(v[k] \in 1 .. 5 /\ c[v[k]] = Data!NoMob /\ v[k] > k)
             PROVE  shown[v[k]] = values[k]
  <2> HIDE DEF shown, values
  <2> QED BY <1>7
<1> DEFINE at(row) == {j \in DOMAIN w : w[j] = row}
<1>10. k \in at(v[k]) /\ \A j \in at(v[k]) : j =< k
  <2>1. ASSUME NEW j \in DOMAIN w, w[j] = v[k], j # k PROVE j < k
    <3>1. CASE j \in 1 .. 5
      BY <1>7, <1>9, <2>1, <3>1
    <3>2. CASE j \notin 1 .. 5
      <4>1. j - 5 \in 1 .. Len(m) /\ 5 + (j - 5) = j
        BY <1>9, <3>2
      <4>2. w[j] = m[j - 5]
        BY <1>9, <4>1
      <4> QED BY <1>5, <2>1, <4>1, <4>2
    <3> QED BY <3>1, <3>2
  <2>2. k \in DOMAIN w /\ w[k] = v[k]
    BY <1>9
  <2>3. \A j \in at(v[k]) : j = k \/ j < k
    BY <2>1
  <2>4. at(v[k]) \subseteq Int
    BY <1>9
  <2> QED BY <2>2, <2>3, <2>4
<1>11. v[k] \in 1 .. 10
  BY <1>3, <1>7
<1>12. shown = [row \in 1 .. 10 |-> IF at(row) = {} THEN 0 ELSE values[CHOOSE j \in at(row) : \A i \in at(row) : i =< j]]
  <2>1. made = w
    BY <1>6 DEF w
  <2>2. Data!Shown(w, values) = [row \in 1 .. 10 |-> IF at(row) = {} THEN 0 ELSE values[CHOOSE j \in at(row) : \A i \in at(row) : i =< j]]
    BY Zenon DEF Data!Shown
  <2> QED BY <2>1, <2>2, Zenon
<1>14. at(v[k]) \subseteq Int
  BY <1>9
<1> HIDE DEF at, shown, values
<1>15. shown[v[k]] = values[CHOOSE j \in at(v[k]) : \A i \in at(v[k]) : i =< j]
  BY <1>10, <1>11, <1>12
<1>16. (CHOOSE j \in at(v[k]) : \A i \in at(v[k]) : i =< j) = k
  BY <1>10, <1>14
<1> QED BY <1>15, <1>16
-----------------------------------------------------------------------------
(* What was translated is one of the four samples, and what came of it is its translation. *)

DataAsked ==
    \/ what = "layout" /\ \E name \in DOMAIN Data!Owned(0), e \in 0 .. 1 : given = <<name, e>>
    \/ what = "box" /\ given \in Data!Boxes
    \/ what = "counters" /\ \E c \in Slots16, r \in Rows, timed \in BOOLEAN : given = <<c, r, timed>>
    \/ what = "rewards" /\ \E r \in Rewards, s \in Rewards : given = <<r, s>>
DataMade ==
    \/ made = << >>
    \/ what = "layout" /\ made = <<Data!Owned(given[2])[given[1]].Head, Data!Owned(given[2])[given[1]].Row>>
    \/ what = "box" /\ made = <<Data!Box(given)>>
    \/ what = "counters" /\ made = Data!CounterRows(given[1], given[2], given[3])
    \/ what = "rewards" /\ made = Data!Forwarded(given[1], given[2])
DataInv == DataAsked /\ DataMade

LEMMA DataStarts == ASSUME Data!Init PROVE DataInv
  BY DEF Data!Init, DataInv, DataAsked, DataMade

LEMMA DataSteps == ASSUME DataInv, Data!Next \/ UNCHANGED dataVars PROVE DataInv'
<1>1. CASE UNCHANGED dataVars
  BY <1>1 DEF DataInv, DataAsked, DataMade, dataVars
<1>2. CASE Data!Next
  <2>1. what' = what /\ given' = given
    BY <1>2 DEF Data!Next, Data!Translate
  <2>2. DataAsked'
    BY <2>1 DEF DataInv, DataAsked
  <2>3. ASSUME what = "layout" PROVE DataMade'
    BY <1>2, <2>1, <2>3 DEF Data!Next, Data!Translate, DataMade
  <2>4. ASSUME what = "box" PROVE DataMade'
    BY <1>2, <2>1, <2>4 DEF Data!Next, Data!Translate, DataMade
  <2>5. ASSUME what = "counters" PROVE DataMade'
    BY <1>2, <2>1, <2>5 DEF Data!Next, Data!Translate, DataMade
  <2>6. ASSUME what = "rewards" PROVE DataMade'
    BY <1>2, <2>1, <2>6 DEF Data!Next, Data!Translate, DataMade
  <2>7. what \in {"layout", "box", "counters", "rewards"}
    BY DEF DataInv, DataAsked
  <2> QED BY <2>2, <2>3, <2>4, <2>5, <2>6, <2>7 DEF DataInv
<1> QED BY <1>1, <1>2

LEMMA DataHolds ==
    ASSUME DataInv
    PROVE  Data!LayoutHolds /\ Data!BoxReadsBack /\ Data!CountersFollow /\ Data!RewardIsTheChosen
<1>0. CASE made = << >>
  BY <1>0 DEF Data!Done, Data!LayoutHolds, Data!BoxReadsBack, Data!CountersFollow, Data!RewardIsTheChosen
<1>1. CASE made # << >> /\ what = "layout"
  <2>1. PICK name \in DOMAIN Data!Owned(0), e \in 0 .. 1 : given = <<name, e>>
    BY <1>1 DEF DataInv, DataAsked
  <2>2. made = <<Data!Owned(e)[name].Head, Data!Owned(e)[name].Row>>
    BY <1>1, <2>1 DEF DataInv, DataMade
  <2>3. Data!LayoutHolds
    BY <2>1, <2>2, LayoutReads
  <2> QED BY <1>1, <2>3 DEF Data!Done, Data!BoxReadsBack, Data!CountersFollow, Data!RewardIsTheChosen
<1>2. CASE made # << >> /\ what = "box"
  <2>1. given \in Data!Boxes /\ made = <<Data!Box(given)>>
    BY <1>2 DEF DataInv, DataAsked, DataMade
  <2>2. Data!BoxReadsBack
    BY <2>1, BoxReads
  <2> QED BY <1>2, <2>2 DEF Data!Done, Data!LayoutHolds, Data!CountersFollow, Data!RewardIsTheChosen
<1>3. CASE made # << >> /\ what = "counters"
  <2>1. PICK c \in Slots16, r \in Rows, timed \in BOOLEAN : given = <<c, r, timed>>
    BY <1>3 DEF DataInv, DataAsked
  <2>2. made = Data!CounterRows(c, r, timed)
    BY <1>3, <2>1 DEF DataInv, DataMade
  <2>3. Data!CountersFollow
    BY <2>1, <2>2, CountersAtTheirRows
  <2> QED BY <1>3, <2>3 DEF Data!Done, Data!LayoutHolds, Data!BoxReadsBack, Data!RewardIsTheChosen
<1>4. CASE made # << >> /\ what = "rewards"
  <2>1. PICK r \in Rewards, s \in Rewards : given = <<r, s>>
    BY <1>4 DEF DataInv, DataAsked
  <2>2. made = Data!Forwarded(r, s)
    BY <1>4, <2>1 DEF DataInv, DataMade
  <2>3. Data!RewardIsTheChosen
    BY <2>1, <2>2, RewardsChosen
  <2> QED BY <1>4, <2>3 DEF Data!Done, Data!LayoutHolds, Data!BoxReadsBack, Data!CountersFollow
<1>5. what \in {"layout", "box", "counters", "rewards"}
  BY DEF DataInv, DataAsked
<1> QED BY <1>0, <1>1, <1>2, <1>3, <1>4, <1>5
-----------------------------------------------------------------------------
(* The three servers. *)

ServersInv == BridgeInv /\ WorldInv /\ ZoneInv

LEMMA ServersStart == ASSUME BridgesInit PROVE ServersInv
  BY BridgesOK, BridgeInit, WorldStarts, ZoneStarts DEF BridgesInit, ServersInv

LEMMA ServersGoOn ==
    ASSUME ServersInv, [BridgesNext]_<<bridge, vars, worldVars, zoneVars, dataVars, tableVars>>
    PROVE  ServersInv'
<1>1. BridgeInv' \/ ~(Next \/ UNCHANGED vars)
  BY BridgesOK, BridgeNext DEF ServersInv
<1>2. WorldInv' \/ ~(World!Next \/ UNCHANGED worldVars)
  BY BridgesOK, WorldSteps, WorldUnchanged DEF ServersInv
<1>3. ZoneInv' \/ ~(Zone!Next \/ UNCHANGED zoneVars)
  BY ZoneSteps, ZoneUnchanged DEF ServersInv
<1>4. (Next \/ UNCHANGED vars) /\ (World!Next \/ UNCHANGED worldVars) /\ (Zone!Next \/ UNCHANGED zoneVars)
  BY DEF BridgesNext
<1> QED BY <1>1, <1>2, <1>3, <1>4 DEF ServersInv

\* In each of the three servers, what the bridge keeps of a client fits the client, whoever came before him: his mark and
\* his stream's position; the forms he heard and what he was offered; his dialog, equipment and tracker.
THEOREM ServersInvariant == BridgesSpec => []ServersInv
<1>1. BridgesInit => ServersInv
  BY ServersStart
<1>2. ServersInv /\ [BridgesNext]_<<bridge, vars, worldVars, zoneVars, dataVars, tableVars>> => ServersInv'
  BY ServersGoOn
<1> QED BY <1>1, <1>2, PTL DEF BridgesSpec

\* Every client is spoken to in the forms of its own protocol, by the Login and by the WorldManager (OwnForms).
THEOREM OwnFormsHold == BridgesSpec => []OwnForms
<1>1. ServersInv => OwnForms
  BY WorldHolds DEF ServersInv, BridgeInv, OwnForms
<1> QED BY <1>1, ServersInvariant, PTL

\* What a 2026 client shows is what the server has: tracker, equipment, states, dialogs, the slot for a new character and
\* the guild (ClientShowsTheZone).
THEOREM ClientShowsIt == BridgesSpec => []ClientShowsTheZone
<1>1. ServersInv => ClientShowsTheZone
  BY WorldHolds, ZoneHolds DEF ServersInv, ClientShowsTheZone
<1> QED BY <1>1, ServersInvariant, PTL

\* No packet of a legal client makes one of the three servers hang up (NobodyIsDropped).
THEOREM NobodyIsEverDropped == BridgesSpec => NobodyIsDropped
<1>1. ServersInv => (bridge = "login" => LegalClientsStay) /\ (bridge = "zone" => Zone!LegalClientsStay)
  BY ZoneStays DEF ServersInv, BridgeInv
<1>2. ServersInv => [\A s \in Sessions : worldReal[s] # World!Nobody /\ st[s] \in {World!Out, World!In} =>
                        \A m \in World!Says(s) : World!Request(s, m) =>
                            st'[s] = World!In \/ (st'[s] = World!Left /\ <<m.op, m.x>> \in World!Logouts(worldReal[s]))]_(World!vars)
  BY BridgesOK, WorldStays DEF ServersInv
<1> QED BY <1>1, <1>2, ServersInvariant, PTL DEF NobodyIsDropped, World!LegalClientsStay

\* A client's echo of a close the bridge sent ends nothing in the zone if it is back in time, and the player's own closing of
\* a page always ends its script (EchoesToldApart).
THEOREM EchoesAreToldApart == BridgesSpec => EchoesToldApart
<1>1. ServersInv => [\A p \in Players : Zone!EndOfTrade(p) /\ ~crossed[p] =>
                        /\ Head(up[p]) = "echo" /\ pending[p] # "old" => script'[p] = script[p]
                        /\ Head(up[p]) = "own" => ~script'[p]]_(Zone!vars)
  BY EndOfTradeZone DEF ServersInv
<1> QED BY <1>1, ServersInvariant, PTL DEF EchoesToldApart, Zone!EchoesToldApart
-----------------------------------------------------------------------------
(* What is translated. *)

\* the samples are followed where they are what is followed; the tables always are
TranslationsInv == TablesInv /\ (bridge = "data" => DataInv)

LEMMA TranslationsStart == ASSUME BridgesInit PROVE TranslationsInv
<1>1. TablesInv
  BY TablesStart DEF BridgesInit
<1>2. bridge = "data" => DataInv
  BY DataStarts DEF BridgesInit
<1> QED BY <1>1, <1>2 DEF TranslationsInv

LEMMA TranslationsGoOn ==
    ASSUME TranslationsInv, [BridgesNext]_<<bridge, vars, worldVars, zoneVars, dataVars, tableVars>>
    PROVE  TranslationsInv'
<1>1. bridge' = bridge
  BY DEF BridgesNext
<1>2. TablesInv' \/ ~(Client!Next \/ UNCHANGED tableVars)
  BY TablesStep DEF TranslationsInv
<1>3. bridge # "data" \/ DataInv' \/ ~(Data!Next \/ UNCHANGED dataVars)
  BY DataSteps DEF TranslationsInv
<1>4. (Client!Next \/ UNCHANGED tableVars) /\ (Data!Next \/ UNCHANGED dataVars)
  BY DEF BridgesNext
<1> QED BY <1>1, <1>2, <1>3, <1>4 DEF TranslationsInv

\* What is translated says the same on the other side: the zone's packets and boxes as the client takes them apart, a kill at
\* the row of its mob, the reward that was chosen, and the client's own tables to the 2016 zone (TranslationsHold).
THEOREM TranslationsAreRight == BridgesSpec => []TranslationsHold
<1>1. BridgesInit => TranslationsInv
  BY TranslationsStart
<1>2. TranslationsInv /\ [BridgesNext]_<<bridge, vars, worldVars, zoneVars, dataVars, tableVars>> => TranslationsInv'
  BY TranslationsGoOn
<1>3. TranslationsInv => TranslationsHold
  BY TablesHold, DataHolds DEF TranslationsInv, TranslationsHold
<1> QED BY <1>1, <1>2, <1>3, PTL DEF BridgesSpec
=============================================================================
