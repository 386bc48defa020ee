--------------------------- MODULE ProtocolTable ---------------------------
(***************************************************************************)
(* The protocol table of a server (PROTOCOLFUNCTIONTEMPLETE) and the hooks *)
(* plugins put into it (common/include/hook_core.h, namespace hook::proto).*)
(*                                                                         *)
(* A row per command, a handler per department in it.  Commands nobody has *)
(* registered share one default row; the handler of an unregistered opcode *)
(* drops the client.  A hook swaps the handler in a slot for a thunk of    *)
(* its DLL and keeps what was there as the original the callback may call, *)
(* so the hooks of several plugins on one opcode form a chain.  At detach  *)
(* each DLL puts back what it swapped, the last one loaded first.          *)
(***************************************************************************)
EXTENDS Integers, Sequences, SequencesExt, FiniteSets

CONSTANTS
    Cmds, Depts,        \* the two halves of an opcode
    Plugins, Ks,        \* DLLs, and the hook slots K a DLL has
    kMaxSwaps,
    MaxHooks            \* bound: hooks alive at a time

ProtocolTableConstantsOK ==
    /\ Plugins # {} /\ Ks # {} /\ IsFiniteSet(Plugins) /\ IsFiniteSet(Ks)
    /\ IsFiniteSet(Cmds) /\ IsFiniteSet(Depts)
    /\ kMaxSwaps \in Nat /\ MaxHooks \in Nat

Ops == Cmds \X Depts
Thunks == Plugins \X Ks
None == <<"none">>
Unknown == <<"unknown">>
Stock(op) == <<"stock", op>>
Thunk(p, k) == <<"thunk", <<p, k>> >>
Cover(p) == <<"cover", p>>
Handler ==
    {Unknown} \cup {Stock(op) : op \in Ops} \cup {<<"thunk", t>> : t \in Thunks} \cup {Cover(p) : p \in Plugins}

VARIABLES
    own,        \* commands with a row of their own
    row,        \* their rows: [Cmds -> [Depts -> Handler]]
    def,        \* the shared default row
    swaps,      \* plugin -> g_swaps: what it put over what, in order
    originals,  \* thunk -> op -> HookTable::originals
    loaded,     \* the plugins in the order they were loaded
    registered, \* history: opcodes the server has registered, or a plugin through the server
    asked,      \* history: hooks in place, as <<thunk, op>>
    lost,       \* history: a full g_swaps has forgotten a swap
    covered,    \* history: cover_unregistered has been called
    stopping    \* the server is going down

table == <<own, row, def>>
vars == <<own, row, def, swaps, originals, loaded, registered, asked, lost, covered, stopping>>

-----------------------------------------------------------------------------
(* Reading the table. *)

Get(op) == IF op[1] \in own THEN row[op[1]][op[2]] ELSE def[op[2]]
IsRegistered(op) == Get(op) # Unknown

\* the row a command has once slot() has been asked for one of its slots
Slot(c) == IF c \in own THEN row[c] ELSE [d \in Depts |-> Unknown]

\* a mistake: the shared row is written where there is no own one
PutShared(op, h) ==
    IF op[1] \in own
    THEN row' = [row EXCEPT ![op[1]][op[2]] = h] /\ UNCHANGED <<own, def>>
    ELSE def' = [def EXCEPT ![op[2]] = h] /\ UNCHANGED <<own, row>>

Put(op, h) ==
    /\ own' = own \cup {op[1]}
    /\ row' = [row EXCEPT ![op[1]] = [Slot(op[1]) EXCEPT ![op[2]] = h]]
    /\ UNCHANGED def

-----------------------------------------------------------------------------
(* The server registers its handlers before any plugin gets at the table. *)

Init ==
    /\ registered \in SUBSET Ops
    /\ own = {op[1] : op \in registered}
    /\ row = [c \in Cmds |-> [d \in Depts |-> IF <<c, d>> \in registered THEN Stock(<<c, d>>) ELSE Unknown]]
    /\ def = [d \in Depts |-> Unknown]
    /\ swaps = [p \in Plugins |-> << >>]
    /\ originals = [t \in Thunks |-> [op \in Ops |-> None]]
    /\ loaded = << >> /\ asked = {} /\ lost = FALSE /\ covered = FALSE /\ stopping = FALSE

Load(p) ==
    /\ ~stopping /\ p \notin ToSet(loaded)
    /\ loaded' = Append(loaded, p)
    /\ UNCHANGED <<table, swaps, originals, registered, asked, lost, covered, stopping>>

\* the plugins reach the table in the order they were loaded (their detours of the server's
\* registration nest, and each calls the one below it first), and not when the server stops
MayHook(p) ==
    /\ ~stopping
    /\ \E i \in DOMAIN loaded :
          /\ loaded[i] = p
          /\ \A j \in DOMAIN loaded : i < j => \A a \in asked : a[1][1] # loaded[j]

\* a mistake: the list of swaps is one longer than its array
RememberOneMore(p, op, was) ==
    IF Len(swaps[p]) <= kMaxSwaps
    THEN swaps' = [swaps EXCEPT ![p] = Append(@, [at |-> op, was |-> was])] /\ UNCHANGED lost
    ELSE UNCHANGED swaps /\ lost' = TRUE

\* set: the slot's old handler is remembered while there is room
Remember(p, op, was) ==
    IF Len(swaps[p]) < kMaxSwaps
    THEN swaps' = [swaps EXCEPT ![p] = Append(@, [at |-> op, was |-> was])] /\ UNCHANGED lost
    ELSE UNCHANGED swaps /\ lost' = TRUE

\* a mistake: the original is read from the slot after the swap
HookOpcodeLate(p, k, op) ==
    /\ MayHook(p)
    /\ Cardinality(asked) < MaxHooks
    /\ <<<<p, k>>, op>> \notin asked
    /\ Put(op, Thunk(p, k))
    /\ Remember(p, op, Slot(op[1])[op[2]])
    /\ originals' = [originals EXCEPT ![<<p, k>>][op] = Thunk(p, k)]
    /\ asked' = asked \cup {<<<<p, k>>, op>>}
    /\ UNCHANGED <<loaded, registered, covered, stopping>>

\* hook_opcode<k>(table, op); a plugin hooks an opcode once per slot k
HookOpcode(p, k, op) ==
    LET was == Slot(op[1])[op[2]]
    IN  /\ MayHook(p)
        /\ Cardinality(asked) < MaxHooks
        /\ <<<<p, k>>, op>> \notin asked
        /\ Put(op, Thunk(p, k))
        /\ Remember(p, op, was)
        /\ originals' = [originals EXCEPT ![<<p, k>>][op] = was]
        /\ asked' = asked \cup {<<<<p, k>>, op>>}
        /\ UNCHANGED <<loaded, registered, covered, stopping>>

\* hook_department<k>(table, d): every opcode of the department that has a handler
InDepartment(d) == {op \in Ops : op[2] = d /\ IsRegistered(op)}

HookDepartment(p, k, d) ==
    LET ops == InDepartment(d)
    IN  /\ MayHook(p)
        /\ ops # {} /\ Cardinality(asked) + Cardinality(ops) <= MaxHooks
        /\ \A op \in ops : <<<<p, k>>, op>> \notin asked
        /\ own' = own \cup {op[1] : op \in ops}
        /\ row' = [c \in Cmds |-> IF <<c, d>> \in ops THEN [Slot(c) EXCEPT ![d] = Thunk(p, k)] ELSE row[c]]
        /\ \E order \in [1 .. Cardinality(ops) -> ops] :
              /\ ToSet(order) = ops /\ \A i, j \in DOMAIN order : i < j => order[i][1] < order[j][1]
              /\ LET all == swaps[p] \o [i \in DOMAIN order |-> [at |-> order[i], was |-> Slot(order[i][1])[d]]]
                 IN  /\ swaps' = [swaps EXCEPT ![p] = SubSeq(all, 1, IF Len(all) <= kMaxSwaps THEN Len(all) ELSE kMaxSwaps)]
                     /\ lost' = (lost \/ Len(all) > kMaxSwaps)
        /\ originals' = [originals EXCEPT ![<<p, k>>] =
                            [op \in Ops |-> IF op \in ops THEN Slot(op[1])[d] ELSE @[op]]]
        /\ asked' = asked \cup {<<<<p, k>>, op>> : op \in ops}
        /\ UNCHANGED <<def, loaded, registered, covered, stopping>>

\* pft_Store, the server's own registration, as the plugins call it for opcodes of their own
Store(op) ==
    /\ ~stopping /\ loaded # << >> /\ op \notin registered /\ \A t \in Thunks : <<t, op>> \notin asked
    /\ Put(op, Stock(op))
    /\ registered' = registered \cup {op}
    /\ UNCHANGED <<swaps, originals, loaded, asked, lost, covered, stopping>>

\* a mistake: every slot is covered
CoveringAll(p, h) == Cover(p)

\* cover_unregistered(table, fn): nothing of it is remembered for uninstall_all
Covering(p, h) == IF h = Unknown THEN Cover(p) ELSE h

CoverUnregistered(p) ==
    /\ MayHook(p)
    /\ def' = [d \in Depts |-> Covering(p, def[d])]
    /\ row' = [c \in Cmds |-> IF c \in own THEN [d \in Depts |-> Covering(p, row[c][d])] ELSE row[c]]
    /\ covered' = TRUE
    /\ UNCHANGED <<own, swaps, originals, loaded, registered, asked, lost, stopping>>

\* a mistake: the swaps are taken back in the order they were made
RestoredForward(ss, op) == LET mine == {i \in DOMAIN ss : ss[i].at = op}
                           IN  ss[CHOOSE i \in mine : \A j \in mine : i >= j].was

\* restore_all: the swaps are taken back from the last to the first, so the oldest wins
Restored(ss, op) == LET mine == {i \in DOMAIN ss : ss[i].at = op}
                    IN  ss[CHOOSE i \in mine : \A j \in mine : i <= j].was

\* detach: the DLL loaded last goes first
Unload(p) ==
    LET mine == {swaps[p][i].at : i \in DOMAIN swaps[p]}
    IN  /\ loaded # << >> /\ p = Last(loaded)
        /\ loaded' = Front(loaded) /\ stopping' = TRUE
        /\ row' = [c \in Cmds |-> [d \in Depts |->
                      IF <<c, d>> \in mine THEN Restored(swaps[p], <<c, d>>) ELSE row[c][d]]]
        /\ swaps' = [swaps EXCEPT ![p] = << >>]
        /\ originals' = [t \in Thunks |-> IF t[1] = p THEN [op \in Ops |-> None] ELSE originals[t]]
        /\ asked' = {a \in asked : a[1][1] # p}
        /\ UNCHANGED <<own, def, registered, lost, covered>>

Next ==
    \/ \E p \in Plugins : Load(p) \/ Unload(p) \/ CoverUnregistered(p)
    \/ \E p \in Plugins, k \in Ks, op \in Ops : HookOpcode(p, k, op)
    \/ \E p \in Plugins, k \in Ks, d \in Depts : HookDepartment(p, k, d)
    \/ \E op \in Ops : Store(op)

Spec == Init /\ [][Next]_vars

-----------------------------------------------------------------------------
(* What a packet meets: the handler in the slot, then the original of each thunk on the way. *)

Below(h, op) == IF h[1] = "thunk" THEN originals[h[2]][op] ELSE h
Longest == Cardinality(Plugins) * Cardinality(Ks) + 1
Chain(op) == LET at[n \in 0..Longest] == IF n = 0 THEN Get(op) ELSE Below(at[n - 1], op) IN at
Met(op) == {t \in Thunks : \E n \in 0..Longest : Chain(op)[n] = <<"thunk", t>>}
EndOf(op) == Chain(op)[Longest]

\* Type invariant.
TypeOK ==
    /\ own \subseteq Cmds /\ row \in [Cmds -> [Depts -> Handler]] /\ def \in [Depts -> Handler]
    /\ \A p \in Plugins : swaps[p] \in Seq([at : Ops, was : Handler]) /\ Len(swaps[p]) <= kMaxSwaps
    /\ originals \in [Thunks -> [Ops -> Handler \cup {None}]]
    /\ loaded \in Seq(Plugins) /\ IsInjective(loaded)
    /\ registered \subseteq Ops /\ asked \subseteq Thunks \X Ops
    /\ lost \in BOOLEAN /\ covered \in BOOLEAN

\* Whatever hooks lie on top of each other, a packet meets the callbacks that asked for its
\* opcode and no others, as long as no swap was forgotten.
OnlyTheHooksAsked == lost \/ \A op \in Ops : Met(op) = {t \in Thunks : <<t, op>> \in asked}

\* Calling the original from every callback ends in the server's handler of that very opcode,
\* or, where there is none, in the unknown-opcode handler or a cover.
OriginalReached ==
    lost \/ \A op \in Ops :
        IF op \in registered THEN EndOf(op) = Stock(op)
        ELSE EndOf(op) = Unknown \/ \E p \in Plugins : EndOf(op) = Cover(p)

\* "uninstall_all() puts it back": with every plugin gone the server's handlers are in their
\* slots again and no thunk is left anywhere.
PutBack ==
    (loaded = << >> /\ ~lost) =>
        \A op \in Ops : IF op \in registered THEN Get(op) = Stock(op) ELSE Get(op)[1] \in {"unknown", "cover"}

\* What cover_unregistered is for: once it has been called, no unregistered opcode reaches the
\* handler that drops the client.
CoverHolds == covered => \A op \in Ops : EndOf(op) # Unknown
=============================================================================
