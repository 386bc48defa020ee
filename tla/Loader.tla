------------------------------- MODULE Loader -------------------------------
(***************************************************************************)
(* The hook loader (common/loader): how the plugins of hooks\ come up      *)
(* before the program they extend.                                         *)
(*                                                                         *)
(* Stage 1 puts a wrapper in front of the service routines (or, in the     *)
(* game client, of the first window and the first LoadLibraryA("d3d9")).   *)
(* Stage 2 runs in the first thread that gets there: it lists the folder,  *)
(* reads each plugin's .ini, loads the plugins depth first along their     *)
(* after= names and then runs the callbacks the plugins registered.  Only  *)
(* then does that thread go on to the original routine.                    *)
(***************************************************************************)
EXTENDS Integers, Sequences

CONSTANTS
    Folder,         \* the *.dll files in listing order
    Names,          \* what an after= line can name: plugins, and files that are not there
    kMaxPlugins, kMaxDeps, kMaxCallbacks,
    Threads,        \* service routines of the exe, or threads that call the client's two hooked imports
    Setups          \* bound: [mode : "service" or "client", threads \subseteq Threads, after : plugin -> Seq(Names)]

Plugins == {Folder[i] : i \in DOMAIN Folder}

LoaderConstantsOK ==
    /\ Folder \in Seq(Plugins) /\ \A i, j \in DOMAIN Folder : Folder[i] = Folder[j] => i = j
    /\ \A s \in Setups :
         s.mode \in {"service", "client"} /\ s.threads \subseteq Threads /\ s.after \in [Plugins -> Seq(Names)]
    /\ kMaxPlugins \in Nat /\ kMaxDeps \in Nat /\ kMaxCallbacks \in Nat

VARIABLES
    mode,       \* the program is a service or the client
    threads,    \* those that come by the hooked routine or imports
    enabled,    \* plugins whose .ini does not say enabled=0
    after,      \* plugin -> the names of its after= line
    pc,         \* thread -> where it is
    initDone,   \* g_init_done, or g_client_started
    table,      \* g_plugins, as the names in their order
    state,      \* Plugin::state of a name of the table: 0, 1 visiting, 2 loaded or given up
    stack,      \* thread -> the load_one calls under way, innermost last: [name, dep]
    top,        \* thread -> index of load_plugins' last loop
    loads,      \* history: the LoadLibrary calls, in order: [name, ok]
    callbacks,  \* g_callback_count
    ran,        \* history: callbacks that have run
    up          \* history: start_plugins has returned

vars == <<mode, threads, enabled, after, pc, initDone, table, state, stack, top, loads, callbacks, ran, up>>
loading == <<table, state, stack, top, loads, callbacks, ran, up>>

Init ==
    /\ enabled \in SUBSET Plugins
    /\ \E s \in Setups : mode = s.mode /\ threads = s.threads /\ after = s.after
    /\ pc = [t \in Threads |-> "down"]
    /\ initDone = FALSE
    /\ table = << >> /\ state = [p \in Plugins |-> 0]
    /\ stack = [t \in Threads |-> << >>] /\ top = [t \in Threads |-> 1]
    /\ loads = << >> /\ callbacks = 0 /\ ran = 0 /\ up = FALSE

Goto(t, where) == pc' = [pc EXCEPT ![t] = where]

-----------------------------------------------------------------------------
(* Getting in front. *)

\* service_main_hook is called, or the client's hooked import: it looks at the flag
Enter(t) ==
    /\ t \in threads /\ pc[t] = "down"
    /\ Goto(t, IF initDone THEN "main" ELSE "first")
    /\ UNCHANGED <<mode, threads, enabled, after, initDone, loading>>

\* a mistake: the client, too, tests and sets its flag in two steps
ClaimInTwoSteps(t) ==
    /\ pc[t] = "first"
    /\ initDone' = TRUE
    /\ Goto(t, "list")
    /\ UNCHANGED <<mode, threads, enabled, after, loading>>

\* service mode sets the flag it tested a moment ago, before the set-up runs;
\* client mode exchanges it in one step and only the winner goes on to the set-up
Claim(t) ==
    /\ pc[t] = "first"
    /\ initDone' = TRUE
    /\ Goto(t, IF mode = "client" /\ initDone THEN "main" ELSE "list")
    /\ UNCHANGED <<mode, threads, enabled, after, loading>>

\* the original routine returns; the SCM may start it again
Return(t) ==
    /\ pc[t] = "main" /\ Goto(t, "down")
    /\ UNCHANGED <<mode, threads, enabled, after, initDone, loading>>

-----------------------------------------------------------------------------
(* load_plugins. *)

\* the table: enabled plugins in listing order until it is full
Listed ==
    LET got[i \in 0..Len(Folder)] ==
            IF i = 0 THEN << >>
            ELSE IF Folder[i] \in enabled /\ Len(got[i - 1]) < kMaxPlugins THEN Append(got[i - 1], Folder[i]) ELSE got[i - 1]
    IN  got[Len(Folder)]

ListFolder(t) ==
    /\ pc[t] = "list"
    /\ table' = Listed
    /\ state' = [p \in Plugins |-> 0]
    /\ stack' = [stack EXCEPT ![t] = << >>] /\ top' = [top EXCEPT ![t] = 1]
    /\ Goto(t, "load")
    /\ UNCHANGED <<mode, threads, enabled, after, initDone, loads, callbacks, ran, up>>

InTable == {table[i] : i \in DOMAIN table}

\* the names of its after= line that fit the entry
Deps(p) == SubSeq(after[p], 1, IF Len(after[p]) <= kMaxDeps THEN Len(after[p]) ELSE kMaxDeps)

Frame(p) == [name |-> p, dep |-> 1]
Innermost(t) == stack[t][Len(stack[t])]
Pop(t) == SubSeq(stack[t], 1, Len(stack[t]) - 1)
Waiting(t) == pc[t] = "load" /\ stack[t] # << >> /\ Innermost(t).dep <= Len(Deps(Innermost(t).name))

\* load_one(p): what a call of it does at once, for the caller's stack s
Called(p, s) == IF state[p] = 0 THEN Append(s, Frame(p)) ELSE s
Marked(p) == IF state[p] = 0 THEN [state EXCEPT ![p] = 1] ELSE state

\* a mistake: the last plugin of the folder is loaded first
NextTopBackwards(t) ==
    LET p == table[Len(table) + 1 - top[t]]
    IN  /\ pc[t] = "load" /\ stack[t] = << >> /\ top[t] <= Len(table)
        /\ stack' = [stack EXCEPT ![t] = Called(p, << >>)]
        /\ state' = Marked(p)
        /\ top' = [top EXCEPT ![t] = @ + 1]
        /\ UNCHANGED <<mode, threads, enabled, after, pc, initDone, table, loads, callbacks, ran, up>>

\* the last loop of load_plugins calls load_one for the next plugin of the table
NextTop(t) ==
    /\ pc[t] = "load" /\ stack[t] = << >> /\ top[t] <= Len(table)
    /\ stack' = [stack EXCEPT ![t] = Called(table[top[t]], << >>)]
    /\ state' = Marked(table[top[t]])
    /\ top' = [top EXCEPT ![t] = @ + 1]
    /\ UNCHANGED <<mode, threads, enabled, after, pc, initDone, table, loads, callbacks, ran, up>>

\* a mistake: a name that is not in the folder is asked for again and again
NextDepAgain(t) ==
    LET f == Innermost(t)
        d == Deps(f.name)[f.dep]
        s == Append(Pop(t), [f EXCEPT !.dep = @ + 1])
    IN  /\ Waiting(t)
        /\ IF d \in InTable
           THEN stack' = [stack EXCEPT ![t] = Called(d, s)] /\ state' = Marked(d)
           ELSE UNCHANGED <<stack, state>>
        /\ UNCHANGED <<mode, threads, enabled, after, pc, initDone, table, top, loads, callbacks, ran, up>>

\* load_one goes on to its next dependency: one that is missing, done or being visited is passed
NextDep(t) ==
    LET f == Innermost(t)
        d == Deps(f.name)[f.dep]
        s == Append(Pop(t), [f EXCEPT !.dep = @ + 1])
    IN  /\ Waiting(t)
        /\ IF d \in InTable
           THEN stack' = [stack EXCEPT ![t] = Called(d, s)] /\ state' = Marked(d)
           ELSE stack' = [stack EXCEPT ![t] = s] /\ UNCHANGED state
        /\ UNCHANGED <<mode, threads, enabled, after, pc, initDone, table, top, loads, callbacks, ran, up>>

\* a mistake: the list is checked for one more than it holds
ZoneHookRegisterOneMore(registers) ==
    IF registers /\ callbacks <= kMaxCallbacks THEN callbacks + 1 ELSE callbacks

\* the count of callbacks after a plugin's call, if it makes one: a full list refuses it
ZoneHookRegister(registers) ==
    IF registers /\ callbacks < kMaxCallbacks THEN callbacks + 1 ELSE callbacks

\* a mistake: the load comes before the dependencies have been gone through
LoadItEarly(t, ok, registers) ==
    LET p == Innermost(t).name
    IN  /\ pc[t] = "load" /\ stack[t] # << >>
        /\ registers => ok
        /\ stack' = [stack EXCEPT ![t] = Pop(t)]
        /\ state' = [state EXCEPT ![p] = 2]
        /\ loads' = Append(loads, [name |-> p, ok |-> ok])
        /\ callbacks' = ZoneHookRegister(registers)
        /\ UNCHANGED <<mode, threads, enabled, after, pc, initDone, table, top, ran, up>>

\* the dependencies are through: LoadLibrary runs the plugin's DllMain, which may register
\* a callback and may fail
LoadIt(t, ok, registers) ==
    LET p == Innermost(t).name
    IN  /\ pc[t] = "load" /\ stack[t] # << >> /\ ~Waiting(t)
        /\ registers => ok
        /\ stack' = [stack EXCEPT ![t] = Pop(t)]
        /\ state' = [state EXCEPT ![p] = 2]
        /\ IF state[p] = 2 THEN UNCHANGED <<loads, callbacks>>
           ELSE /\ loads' = Append(loads, [name |-> p, ok |-> ok])
                /\ callbacks' = ZoneHookRegister(registers)
        /\ UNCHANGED <<mode, threads, enabled, after, pc, initDone, table, top, ran, up>>

\* start_plugins: the callbacks in the order of their registration; one may register another
RunCallback(t, registers) ==
    /\ pc[t] = "load" /\ stack[t] = << >> /\ top[t] > Len(table)
    /\ ran < callbacks
    /\ ran' = ran + 1
    /\ callbacks' = ZoneHookRegister(registers)
    /\ UNCHANGED <<mode, threads, enabled, after, pc, initDone, table, state, stack, top, loads, up>>

\* start_plugins returns into the wrapper, which calls the original
Finished(t) ==
    /\ pc[t] = "load" /\ stack[t] = << >> /\ top[t] > Len(table) /\ ran = callbacks
    /\ up' = TRUE
    /\ Goto(t, "main")
    /\ UNCHANGED <<mode, threads, enabled, after, initDone, table, state, stack, top, loads, callbacks, ran>>

Next ==
    \E t \in Threads :
        \/ Enter(t) \/ Claim(t) \/ Return(t) \/ ListFolder(t) \/ NextTop(t) \/ NextDep(t)
        \/ \E ok, registers \in BOOLEAN : LoadIt(t, ok, registers)
        \/ \E registers \in BOOLEAN : RunCallback(t, registers)
        \/ Finished(t)

Spec == Init /\ [][Next]_vars

\* a thread that loads goes on: LoadLibrary and the callbacks return
Loads(t) ==
    \/ Claim(t) \/ ListFolder(t) \/ NextTop(t) \/ NextDep(t) \/ Finished(t)
    \/ \E ok, registers \in BOOLEAN : LoadIt(t, ok, registers)
    \/ \E registers \in BOOLEAN : RunCallback(t, registers)

FairSpec == Spec /\ \A t \in Threads : WF_vars(Loads(t))
-----------------------------------------------------------------------------
(* Properties. *)

\* Type invariant.
TypeOK ==
    /\ mode \in {"service", "client"} /\ threads \subseteq Threads
    /\ enabled \subseteq Plugins /\ after \in [Plugins -> Seq(Names)]
    /\ pc \in [Threads -> {"down", "first", "list", "load", "main"}]
    /\ initDone \in BOOLEAN /\ up \in BOOLEAN
    /\ table \in Seq(enabled) /\ Len(table) <= kMaxPlugins
    /\ state \in [Plugins -> 0..2]
    /\ stack \in [Threads -> Seq([name : InTable, dep : 1..(kMaxDeps + 1)])]
    /\ top \in [Threads -> 1..(Len(table) + 1)]
    /\ loads \in Seq([name : InTable, ok : BOOLEAN])
    /\ callbacks \in 0..kMaxCallbacks /\ ran \in 0..callbacks

Tried(p) == \E i \in DOMAIN loads : loads[i].name = p
TriedBefore(p, q) ==
    \E i, j \in DOMAIN loads : i < j /\ loads[i].name = p /\ loads[j].name = q

\* the plugins of the table p waits for, directly, and through others
DepsIn(p) == {Deps(p)[i] : i \in DOMAIN Deps(p)} \cap InTable
WaitsFor(p) ==
    {q \in InTable : \A S \in SUBSET InTable :
        DepsIn(p) \subseteq S /\ (\A r \in S : DepsIn(r) \subseteq S) => q \in S}

\* after= is kept: when a plugin is loaded, every plugin of the folder that it names has been
\* tried before it, unless that plugin itself waits for it (a cycle).  Loads of other branches
\* come in between, and load_one leaves a plugin half-way when it meets it again.
AfterHolds ==
    \A p \in InTable : Tried(p) =>
        \A q \in DepsIn(p) : p \in WaitsFor(q) \/ TriedBefore(q, p)

\* When start_plugins is through, every enabled plugin that fits the table has been loaded, or
\* tried, exactly once, whatever failed and whatever cycles there are, and every callback that
\* was taken has run.
EveryPluginOnce ==
    /\ \A i, j \in DOMAIN loads : loads[i].name = loads[j].name => i = j
    /\ up => /\ \A p \in enabled : Tried(p) \/ (Len(table) = kMaxPlugins /\ p \notin InTable)
             /\ ran = callbacks

Place(p) == CHOOSE i \in DOMAIN Folder : Folder[i] = p

\* an after= line that cannot be kept: it names a file that is not in the table, or is in a cycle
LeftOpen(p) == (\E i \in DOMAIN Deps(p) : Deps(p)[i] \notin InTable) \/ p \in WaitsFor(p)

\* "Order otherwise = the folder listing": where every after= line can be kept, a plugin overtakes
\* one listed before it only when something listed no later than that one waits for it.
ListingOrder ==
    (\A p \in InTable : ~LeftOpen(p)) =>
    \A p, q \in InTable :
        TriedBefore(p, q) /\ Place(q) < Place(p)
        => \E z \in InTable : Place(z) <= Place(q) /\ p \in WaitsFor(z)

\* A thread that has begun to load plugins comes to the original routine.
LoadingEnds == \A t \in Threads : (pc[t] = "list") ~> (pc[t] = "main")
=============================================================================
