----------------------------- MODULE WorldBridge -----------------------------
(***************************************************************************)
(* The WorldManager's half of the 2026 client bridge (worldmanager/        *)
(* plugins/wm_bridge26).  The login packet marks a session, by its         *)
(* address, as a 2016 or a 2026 one.  A 2026 client's requests go to the   *)
(* stock handlers of other opcodes, are answered here or are dropped; what *)
(* the stock server sends it is widened.  A stock handler's refusal, like  *)
(* an opcode without a handler, closes the session.                        *)
(*                                                                         *)
(* A packet is its opcode, the length of its payload and the one datum     *)
(* that matters.  The encryption is left out: translations in place keep   *)
(* the length (LoginBridge has the ones that do not).                      *)
(***************************************************************************)
EXTENDS Integers, FiniteSets, Sequences

CONSTANTS
    Sessions,
    kAvatarSlots,  \* character slots of an account, 6 in the code
    Members,       \* sizes of a guild or academy, and of a friend list
    Chunk          \* members per packet of a guild's list

Old == 2016
New == 2026
Nobody == 0
Out == 0  In == 1  Left == 2  Closed == 3

WorldBridgeOK == kAvatarSlots \in 1 .. 64 /\ Members \subseteq Nat /\ Chunk \in Nat \ {0}

VARIABLES
    real,    \* session -> the client at the other end
    mark,    \* g_sess: address -> is2026, and the slots of the last character list it was sent
    st,      \* session -> Out before the world login, In, Left by logout, Closed by the server
    chars,   \* session -> the slots of the account's characters
    relist,  \* session -> what its client has done to the account's characters since its last list
    roster,  \* session -> members of the guild list the client is being sent: at it, of, ended
    heard    \* session -> the packets the client got last
vars == <<real, mark, st, chars, relist, roster, heard>>

Packet(op, n, x) == [op |-> op, n |-> n, x |-> x]
NoList == [got |-> 0, total |-> 0, at |-> 0, ended |-> TRUE]
Slots == 0 .. kAvatarSlots - 1

\* lengths a client reads from: a head, then whole records
Width(c) ==
    IF c = New THEN {<<\hC0F, 22, 161>>, <<\h1406, 162, 0>>, <<\hC25, 34, 0>>, <<\hC34, 6, 0>>, <<\h5407, 2, 72>>, <<\h541E, 4, 0>>,
                     <<\h741B, 3, 110>>, <<\h980E, 3, 109>>, <<\h9808, 742, 0>>, <<\h1097, 745, 0>>, <<\h200D, 1, 0>>, <<\h140C, 1, 0>>}
    ELSE {<<\hC14, 3, 130>>, <<\h1406, 131, 0>>, <<\hC34, 34, 0>>, <<\h5407, 1, 72>>, <<\h541E, 2, 0>>,
          <<\h741B, 6, 110>>, <<\h980E, 6, 109>>, <<\h9808, 738, 0>>, <<\h1097, 741, 0>>, <<\h200D, 1, 0>>, <<\h140C, 1, 0>>}
Reads(c, m) == \E w \in Width(c) : m.op = w[1] /\ m.n >= w[2] /\ (IF w[3] = 0 THEN m.n = w[2] ELSE (m.n - w[2]) % w[3] = 0)

\* what a client may send
Says(s) ==
    IF st[s] = Out THEN {IF real[s] = New THEN Packet(\hC0E, 320, 0) ELSE Packet(\hC0F, 320, 0)}
    ELSE IF real[s] = New
         THEN {Packet(\hC15, 1, 0), Packet(\hC23, 3, \hC15), Packet(\hC23, 5, \hC1F), Packet(\hC1A, 1, 0), Packet(\hC24, 2, 0),
               Packet(\hC18, 4, 0), Packet(\hC35, 4, 0), Packet(\hC7E, 9, 0), Packet(\hC32, 2, 0)}
              \cup {Packet(\h1401, 26, k) : k \in Slots} \cup {Packet(\h1407, 1, k) : k \in Slots}
         ELSE {Packet(\hC18, 1, 0), Packet(\hC1F, 1, 0), Packet(\hC33, 0, 0)}
              \cup {Packet(\h1401, 25, k) : k \in Slots} \cup {Packet(\h1407, 1, k) : k \in Slots}
-----------------------------------------------------------------------------
(* on_send *)

\* avatar_record: 2016's 130 bytes, 15 slots and a byte more
avatar_record == 3 + 48 + 20 * 2 + (35 - 20) * 2 + 1 + (130 - (3 + 48 + 20 * 2))
\* avatars: the slots, the address and the port join the head
avatars(n) == 22 + ((n - 3) \div 130) * avatar_record

\* mutated: the list is closed only by a chunk beyond its end
EndsBeyond(at, count, total) == at + count > total
\* the chunk that reaches the total is followed by an empty one
Ends(at, count, total) == at + count >= total

\* mutated: the own create-open answer is taken for the will-select's
OnSendByOpcode(m) == IF m.op = \hC34 THEN <<Packet(\hC25, m.n, m.x)>> ELSE <<m>>
\* one translation per opcode, taken only at its 2016 length
OnSend(m) ==
    CASE m.op = \hC14 -> <<Packet(\hC0F, avatars(m.n), m.x)>>
      [] m.op = \h1406 /\ m.n = 131 -> <<Packet(\h1406, 1 + avatar_record, m.x)>>
      [] m.op = \h5407 -> <<Packet(\h5407, m.n + 1, m.x)>>
      [] m.op = \h541E /\ m.n = 2 -> <<Packet(\h541E, 4, m.x)>>
      [] m.op = \h741B -> <<Packet(\h741B, m.n - 3, m.x)>> \o IF Ends(m.x[1], m.x[2], m.x[3])
                                                           THEN <<Packet(\h741B, 3, <<m.x[3], 0, m.x[3]>>)>> ELSE <<>>
      [] m.op = \h980E -> <<Packet(\h980E, m.n - 3, m.x)>>
      [] m.op = \hC34 /\ m.n = 34 -> <<Packet(\hC25, 34, m.x)>>
      [] m.op = \h9808 /\ m.n = 738 -> <<Packet(\h9808, 742, m.x)>>
      [] m.op = \h1097 /\ m.n = 741 -> <<Packet(\h1097, 745, m.x)>>
      [] OTHER -> <<m>>

Delivered(s, m) == IF mark'[s].is2026 THEN OnSend(m) ELSE <<m>>
-----------------------------------------------------------------------------
(* the stock WorldManager *)

List(s) == Packet(\hC14, 3 + 130 * Cardinality(chars[s]), chars[s])

\* its handlers; a list sent to a 2026 session also notes the slots in use (avatars)
Handled(s, op, x) ==
    \/ /\ op \in {\hC0F, \hC1F}
       /\ st' = [st EXCEPT ![s] = In]
       /\ heard' = [heard EXCEPT ![s] = Delivered(s, List(s))]
       /\ relist' = [relist EXCEPT ![s] = {}]
       /\ UNCHANGED chars
    \/ /\ op = \hC18 /\ st' = [st EXCEPT ![s] = Left] /\ heard' = [heard EXCEPT ![s] = <<>>] /\ UNCHANGED <<chars, relist>>
    \/ /\ op = \hC33 /\ heard' = [heard EXCEPT ![s] = Delivered(s, Packet(\hC34, 34, 0))] /\ UNCHANGED <<st, chars, relist>>
    \/ /\ op = \h1401 /\ x \notin chars[s]
       /\ chars' = [chars EXCEPT ![s] = @ \cup {x}] /\ relist' = [relist EXCEPT ![s] = @ \cup {"created"}]
       /\ heard' = [heard EXCEPT ![s] = Delivered(s, Packet(\h1406, 131, x))] /\ UNCHANGED st
    \/ /\ op = \h1407 /\ x \in chars[s]
       /\ chars' = [chars EXCEPT ![s] = @ \ {x}] /\ relist' = [relist EXCEPT ![s] = @ \cup {"erased"}]
       /\ heard' = [heard EXCEPT ![s] = Delivered(s, Packet(\h140C, 1, x))] /\ UNCHANGED st
    \/ /\ (op = \h1401 /\ x \in chars[s]) \/ (op = \h1407 /\ x \notin chars[s])
       /\ heard' = [heard EXCEPT ![s] = <<>>] /\ UNCHANGED <<st, chars, relist>>

Registered == {\hC0F, \hC1F, \hC18, \hC33, \h1401, \h1407}
MarkAfterList(s) == [mark EXCEPT ![s].used = IF mark[s].is2026 THEN chars[s] ELSE @]

\* mutated: the mark is made by a 2026 login only
MarkedNewOnly(s, m) == IF m.op = \hC0E THEN [mark EXCEPT ![s] = [is2026 |-> TRUE, used |-> chars[s]]] ELSE mark
\* on_parser: either login marks the session anew; the list that answers it is sent under the new mark
MarkOf(s, m) == IF m.op = \hC0E THEN [is2026 |-> TRUE, used |-> chars[s]] ELSE [is2026 |-> FALSE, used |-> {}]
Marked(s, m) == [mark EXCEPT ![s] = MarkOf(s, m)]

Login(s, m) == m.op \in {\hC0E, \hC0F} /\ mark' = Marked(s, m) /\ Handled(s, \hC0F, 0)
-----------------------------------------------------------------------------
(* on_client and the covered slots *)

\* mutated: the answer offers the number of characters
FirstFreeCount(used) == Cardinality(used)
\* the first slot the last list did not name
FirstFree(used) == CHOOSE k \in 0 .. 64 : k \notin used /\ \A j \in 0 .. k - 1 : j \in used

\* mutated: the mid-login notice runs the handler of its number
HandlerOfAny(m) ==
    CASE m.op \in {\hC15, \hC18} -> \hC18
      [] m.op = \hC23 /\ m.x = \hC15 -> \hC18
      [] m.op = \hC1A -> \hC1F
      [] m.op = \hC24 -> \hC33
      [] m.op \in {\h1401, \h1407} -> m.op
      [] OTHER -> 0
\* the stock handler a 2026 request runs; 0: none, it is dropped
HandlerOf(m) ==
    CASE m.op = \hC15 /\ m.n = 1 -> \hC18
      [] m.op = \hC23 /\ m.n = 3 /\ m.x = \hC15 -> \hC18
      [] m.op = \hC1A /\ m.n = 1 -> \hC1F
      [] m.op = \hC24 -> \hC33
      [] m.op \in {\h1401, \h1407} -> m.op
      [] OTHER -> 0

OnClient(s, m) ==
    IF m.op = \hC32
    THEN /\ mark' = mark
         /\ heard' = [heard EXCEPT ![s] = Delivered(s, Packet(\hC34, 6, FirstFree(mark[s].used)))]
         /\ UNCHANGED <<st, chars, relist>>
    ELSE LET h == HandlerOf(m) IN
         IF h = 0 THEN heard' = [heard EXCEPT ![s] = <<>>] /\ UNCHANGED <<mark, st, chars, relist>>
         ELSE mark' = (IF h = \hC1F THEN MarkAfterList(s) ELSE mark) /\ Handled(s, h, m.x)

\* a 2016 client: stock, unknown opcodes included
OnStock(s, m) ==
    /\ mark' = mark
    /\ IF m.op \in Registered THEN Handled(s, m.op, m.x)
       ELSE st' = [st EXCEPT ![s] = Closed] /\ heard' = [heard EXCEPT ![s] = <<>>] /\ UNCHANGED <<chars, relist>>

Request(s, m) ==
    /\ IF m.op \in {\hC0E, \hC0F} /\ st[s] = Out THEN Login(s, m)
       ELSE IF mark[s].is2026 THEN OnClient(s, m) ELSE OnStock(s, m)
    /\ UNCHANGED <<real, roster>>

\* what the server sends of itself; a friend list, the points, academies
Push(s, m) ==
    /\ st[s] = In /\ mark' = mark
    /\ heard' = [heard EXCEPT ![s] = Delivered(s, m)]
    /\ UNCHANGED <<real, st, chars, relist, roster>>
Pushed == {Packet(\h541E, 2, 0), Packet(\h9808, 738, 0), Packet(\h1097, 741, 0)}
          \cup {Packet(\h5407, 1 + 72 * k, k) : k \in Members} \cup {Packet(\h980E, 6 + 109 * k, k) : k \in Members}

\* the guild's list, a chunk after the other; the client adds them up until an empty one
GuildList(s, total) ==
    /\ st[s] = In /\ mark' = mark /\ (roster[s].at < roster[s].total => total = roster[s].total)
    /\ LET at == IF roster[s].at < roster[s].total THEN roster[s].at ELSE 0
           count == IF total - at < Chunk THEN total - at ELSE Chunk
           got == Delivered(s, Packet(\h741B, 6 + 110 * count, <<at, count, total>>))
       IN /\ heard' = [heard EXCEPT ![s] = got]
          /\ roster' = [roster EXCEPT ![s] = [got |-> (IF at = 0 THEN 0 ELSE @.got) + count, total |-> total, at |-> at + count,
                                              ended |-> mark[s].is2026 /\ Len(got) = 2]]
    /\ UNCHANGED <<real, st, chars, relist>>

\* zone_whisper: the zone's copy of a chat packet runs the stock handler for the sender's session
ZoneWhisper(s) == Push(s, Packet(\h200D, 1, 0))

Connect(s, c, cs) ==
    /\ real[s] = Nobody
    /\ real' = [real EXCEPT ![s] = c] /\ chars' = [chars EXCEPT ![s] = cs]
    /\ st' = [st EXCEPT ![s] = Out] /\ relist' = [relist EXCEPT ![s] = {}]
    /\ roster' = [roster EXCEPT ![s] = NoList] /\ heard' = [heard EXCEPT ![s] = <<>>]
    /\ UNCHANGED mark

Disconnect(s) ==
    /\ real[s] # Nobody
    /\ real' = [real EXCEPT ![s] = Nobody] /\ heard' = [heard EXCEPT ![s] = <<>>]
    /\ UNCHANGED <<mark, st, chars, relist, roster>>

Init ==
    /\ real = [s \in Sessions |-> Nobody] /\ mark = [s \in Sessions |-> [is2026 |-> FALSE, used |-> {}]]
    /\ st = [s \in Sessions |-> Out] /\ chars = [s \in Sessions |-> {}] /\ relist = [s \in Sessions |-> {}]
    /\ roster = [s \in Sessions |-> NoList] /\ heard = [s \in Sessions |-> <<>>]

Next ==
    \E s \in Sessions :
        \/ \E c \in {Old, New}, cs \in SUBSET Slots : Connect(s, c, cs)
        \/ real[s] # Nobody /\ st[s] \in {Out, In} /\ \E m \in Says(s) : Request(s, m)
        \/ real[s] # Nobody /\ (\E m \in Pushed : Push(s, m))
        \/ real[s] # Nobody /\ \E total \in Members : GuildList(s, total)
        \/ real[s] # Nobody /\ ZoneWhisper(s)
        \/ Disconnect(s)

Spec == Init /\ [][Next]_vars
-----------------------------------------------------------------------------
\* Everything a client gets has a length its own protocol reads, whichever client had the address before, whichever half of
\* a reused opcode (0x0C0F, 0x0C18, 0x0C34) it is.
FormsFit == \A s \in Sessions : \A k \in DOMAIN heard[s] : Reads(real[s], heard[s][k])

\* No request of a legal client closes its session: it leaves by its own logout only.
Logouts(c) == IF c = New THEN {<<\hC15, 0>>, <<\hC23, \hC15>>} ELSE {<<\hC18, 0>>}
LegalClientsStay ==
    [][\A s \in Sessions : real[s] # Nobody /\ st[s] \in {Out, In} =>
          \A m \in Says(s) : Request(s, m) => st'[s] = In \/ (st'[s] = Left /\ <<m.op, m.x>> \in Logouts(real[s]))]_vars

\* The slot a 2026 client's character creation is opened with is free as long as the client has created no character since
\* its last list, and one an account has as long as it has erased none either.
OfferedSlotFree ==
    \A s \in Sessions : \A k \in DOMAIN heard[s] : heard[s][k].op = \hC34 /\ heard[s][k].n = 6 =>
        /\ "created" \notin relist[s] => heard[s][k].x \notin chars[s]
        /\ relist[s] = {} /\ chars[s] # Slots => heard[s][k].x \in Slots

\* A 2026 client's guild list ends exactly when it has all of the members; the last chunk tells it so.
RosterWhole ==
    \A s \in Sessions : real[s] = New => /\ roster[s].at >= roster[s].total => roster[s].ended
                                         /\ roster[s].ended => roster[s].got = roster[s].total
=============================================================================
