------------------------------- MODULE Engine -------------------------------
(***************************************************************************)
(* The C ABI of engine.zig as a host with several threads uses it: the     *)
(* table of engine slots behind its spin lock, the views of the engine in  *)
(* use that every thread keeps (g_active_engine, the active runtime, the   *)
(* write callback, the write override of io.zig), and the programs that    *)
(* engine_begin leaves suspended.  A script may call back into the host,   *)
(* and the host may call the ABI again from there; it keeps the rules of   *)
(* docs/engine-api.md and docs/embedding.md: no engine is used by two      *)
(* threads at once, re-entered, or destroyed while in use.                 *)
(***************************************************************************)
EXTENDS Integers, Sequences, SequencesExt

CONSTANTS
    Threads,
    MaxEngines,
    MaxDepth,       \* nesting of ABI calls on one thread
    None

ASSUME EngineAssumption ==
    /\ MaxEngines \in Nat \ {0}
    /\ MaxDepth \in Nat
    /\ None \notin Threads \cup (0..MaxEngines)

Handles == 1..MaxEngines

VARIABLES
    active,     \* engine_slots[i].active
    program,    \* of each engine: "none", "loaded" or "suspended" in a sleep
    callback,   \* of each engine: engine.write_callback is set
    creator,    \* history: the thread that created each engine
    lock,       \* the thread that holds engine_slots_lock, or None
    found,      \* of each thread in engine_init: the free slot it has found
    view,       \* of each thread: the thread-local variables
    stack       \* of each thread: the ABI calls it is in

vars == <<active, program, callback, creator, lock, found, view, stack>>

IdleView == [engine |-> None,       \* g_active_engine
             runtime |-> None,      \* the Runtime that activate() pinned last
             write |-> None,        \* write_callback, by the engine it is of
             override |-> FALSE]    \* io.zig's write_override is set

Init ==
    /\ active = [h \in Handles |-> FALSE]
    /\ program = [h \in Handles |-> "none"]
    /\ callback = [h \in Handles |-> FALSE]
    /\ creator = [h \in Handles |-> None]
    /\ lock = None
    /\ found = [t \in Threads |-> None]
    /\ view = [t \in Threads |-> IdleView]
    /\ stack = [t \in Threads |-> << >>]

\* A thread that is not inside engine_init is in the host's code: outside
\* the ABI, or in a callback of the innermost call.
InHost(t) == found[t] = None /\ lock # t

InUse(h) == \E t \in Threads : \E i \in DOMAIN stack[t] : stack[t][i].handle = h

\* The thread-local views and what they were taken from are out of step
\* until the next push or pop.
Unsynced(s) == IF s = << >> THEN s ELSE [s EXCEPT ![Len(s)].synced = FALSE]
Synced(s)   == IF s = << >> THEN s ELSE [s EXCEPT ![Len(s)].synced = TRUE]

WriteOf(h) == IF callback[h] THEN h ELSE None
----------------------------------------------------------------------------
(* Creating and destroying engines.                                        *)

\* A definition marked "Faulty" is a plausible mistake in the one after it.
\* No specification uses it; it shows that the properties would notice.

\* Faulty: there is no lock.
LockSlotsNot(t) == UNCHANGED lock

LockSlots(t) == lock = None /\ lock' = t

\* engine_init, engine_init_with_config: the lock is taken, ...
InitLock(t) ==
    /\ InHost(t)
    /\ LockSlots(t)
    /\ found' = [found EXCEPT ![t] = 0]
    /\ UNCHANGED <<active, program, callback, creator, view, stack>>

\* Faulty: the search goes one slot too far.
FirstFreeBeyond ==
    {h \in 1..(MaxEngines + 1) :
        (h \in Handles => ~active[h]) /\ \A g \in 1..(h - 1) : active[g]}

\* The first slot that is not active, if there is one.
FirstFree == {h \in Handles : ~active[h] /\ \A g \in 1..(h - 1) : active[g]}

\* ... a free slot looked for, ...
InitScan(t) ==
    /\ found[t] = 0
    /\ \/ /\ \E h \in FirstFree : found' = [found EXCEPT ![t] = h]
          /\ UNCHANGED lock
       \/ /\ FirstFree = {}
          /\ found' = [found EXCEPT ![t] = None]
          /\ lock' = None
    /\ UNCHANGED <<active, program, callback, creator, view, stack>>

\* ... and the engine in it initialised, which also makes its runtime the
\* thread's active one and sets the thread's write override.
InitEngine(t) ==
    /\ found[t] \in Handles
    /\ LET h == found[t]
       IN  /\ active' = [active EXCEPT ![h] = TRUE]
           /\ program' = [program EXCEPT ![h] = "none"]
           /\ callback' = [callback EXCEPT ![h] = FALSE]
           /\ creator' = [creator EXCEPT ![h] = t]
           /\ view' = [view EXCEPT ![t] = [@ EXCEPT !.runtime = h, !.override = TRUE]]
    /\ stack' = [stack EXCEPT ![t] = Unsynced(@)]
    /\ found' = [found EXCEPT ![t] = None]
    /\ lock' = None

\* The allocation fails: the slot stays free.  Its runtime may already be
\* the active one (initArrays is the last allocation).
InitFails(t) ==
    /\ found[t] \in Handles
    /\ LET h == found[t]
       IN  /\ program' = [program EXCEPT ![h] = "none"]
           /\ callback' = [callback EXCEPT ![h] = FALSE]
           /\ \/ UNCHANGED <<view, stack>>
              \/ /\ view' = [view EXCEPT ![t] = [@ EXCEPT !.runtime = h]]
                 /\ stack' = [stack EXCEPT ![t] = Unsynced(@)]
    /\ found' = [found EXCEPT ![t] = None]
    /\ lock' = None
    /\ UNCHANGED <<active, creator>>

\* Faulty: the overrides are cleared whichever engine goes.
ClearOverridesAlways(t, h) == view' = [view EXCEPT ![t] = [@ EXCEPT !.override = FALSE]]

\* The thread that destroys the last engine loses its overrides.
ClearOverrides(t, h) ==
    view' = IF \A g \in Handles \ {h} : ~active[g]
            THEN [view EXCEPT ![t] = [@ EXCEPT !.override = FALSE]] ELSE view

\* engine_destroy, under the lock.
engine_destroy(t, h) ==
    /\ InHost(t) /\ lock = None
    /\ active[h] /\ ~InUse(h)
    /\ active' = [active EXCEPT ![h] = FALSE]
    /\ program' = [program EXCEPT ![h] = "none"]
    /\ creator' = [creator EXCEPT ![h] = None]
    /\ ClearOverrides(t, h)
    /\ UNCHANGED <<callback, lock, found, stack>>

\* engine_set_write_fn, also for an engine in use on the same thread.
engine_set_write_fn(t, h, on) ==
    /\ InHost(t) /\ lock = None
    /\ active[h]
    /\ callback' = [callback EXCEPT ![h] = on]
    /\ stack' = [stack EXCEPT ![t] =
                    IF @ # << >> /\ Last(@).handle = h THEN Unsynced(@) ELSE @]
    /\ \A u \in Threads \ {t} : \A i \in DOMAIN stack[u] : stack[u][i].handle # h
    /\ UNCHANGED <<active, program, creator, lock, found, view>>
----------------------------------------------------------------------------
(* Calls.                                                                  *)

\* getEngine finds the engine, and the host may use it.
MayEnter(t, h) ==
    /\ InHost(t) /\ lock = None
    /\ active[h] /\ ~InUse(h)

\* pushEngineState.
pushEngineState(t, h, kind) ==
    /\ view' = [view EXCEPT ![t] =
                    [@ EXCEPT !.engine = h, !.runtime = h, !.write = WriteOf(h)]]
    /\ stack' = [stack EXCEPT ![t] =
                    Append(@, [handle |-> h, kind |-> kind, prev |-> view[t].engine,
                               synced |-> TRUE])]

\* Faulty: the callback of the inner engine stays.
ViewAfterKeepsCallback(v, p) ==
    IF p = None THEN [v EXCEPT !.engine = None, !.write = None]
    ELSE [v EXCEPT !.engine = p, !.runtime = p]

\* popEngineState with p the engine that was active before.
ViewAfter(v, p) ==
    IF p = None THEN [v EXCEPT !.engine = None, !.write = None]
    ELSE [v EXCEPT !.engine = p, !.runtime = p, !.write = WriteOf(p)]

popEngineState(t) ==
    /\ view' = [view EXCEPT ![t] = ViewAfter(view[t], Last(stack[t]).prev)]
    /\ stack' = [stack EXCEPT ![t] = Synced(Front(@))]

\* A call that returns without running anything: push and pop.
PushAndPop(t, h) ==
    /\ view' = [view EXCEPT ![t] =
                    ViewAfter([view[t] EXCEPT !.engine = h, !.runtime = h], view[t].engine)]
    /\ stack' = [stack EXCEPT ![t] = Synced(@)]

Suspended(h) == program[h] = "suspended"

Shared == UNCHANGED <<active, callback, creator, lock, found>>

\* Faulty: begin() does not look at the deadline.
MayStartAlways(h) == TRUE

\* A suspended program is not replaced (RuntimeSuspended).
MayStart(h) == ~Suspended(h)

\* engine_run, engine_run_path and engine_begin: what was loaded is gone.
Start(t, h, kind) ==
    /\ MayEnter(t, h) /\ Len(stack[t]) < MaxDepth
    /\ MayStart(h)
    /\ pushEngineState(t, h, kind)
    /\ program' = [program EXCEPT ![h] = "none"]
    /\ Shared

\* engine_call.
engine_call(t, h) ==
    /\ MayEnter(t, h) /\ Len(stack[t]) < MaxDepth
    /\ ~Suspended(h)
    /\ pushEngineState(t, h, "call")
    /\ UNCHANGED program
    /\ Shared

\* engine_continue after the deadline.
engine_continue(t, h) ==
    /\ MayEnter(t, h) /\ Len(stack[t]) < MaxDepth
    /\ Suspended(h)
    /\ pushEngineState(t, h, "continue")
    /\ program' = [program EXCEPT ![h] = "loaded"]
    /\ Shared

\* A call refused with RuntimeSuspended or NotSuspended, with bad
\* arguments, or an engine_continue before the deadline.
Refused(t, h) ==
    /\ MayEnter(t, h)
    /\ PushAndPop(t, h)
    /\ UNCHANGED program
    /\ Shared

\* engine_reset.
engine_reset(t, h) ==
    /\ MayEnter(t, h)
    /\ PushAndPop(t, h)
    /\ program' = [program EXCEPT ![h] = "none"]
    /\ Shared

\* What a call leaves: a program that completed or panicked stays loaded,
\* one that did not compile is gone, one that sleeps is suspended (also by
\* engine_run, when the sleep fails after a recovered panic).
Leaves(kind, h) ==
    CASE kind = "call" -> {program[h]}
      [] kind = "continue" -> {"loaded", "suspended"}
      [] OTHER -> {"none", "loaded", "suspended"}

\* The innermost call returns.
Return(t) ==
    /\ InHost(t) /\ stack[t] # << >>
    /\ LET top == Last(stack[t])
       IN  \E p \in Leaves(top.kind, top.handle) :
             program' = [program EXCEPT ![top.handle] = p]
    /\ popEngineState(t)
    /\ Shared

Next ==
    \E t \in Threads :
        \/ InitLock(t)
        \/ InitScan(t)
        \/ InitEngine(t)
        \/ InitFails(t)
        \/ Return(t)
        \/ \E h \in Handles :
              \/ engine_destroy(t, h)
              \/ \E on \in BOOLEAN : engine_set_write_fn(t, h, on)
              \/ \E kind \in {"run", "begin"} : Start(t, h, kind)
              \/ engine_call(t, h)
              \/ engine_continue(t, h)
              \/ Refused(t, h)
              \/ engine_reset(t, h)

Spec == Init /\ [][Next]_vars
----------------------------------------------------------------------------
Views == [engine : Handles \cup {None}, runtime : Handles \cup {None},
          write : Handles \cup {None}, override : BOOLEAN]

Frames == [handle : Handles, kind : {"run", "begin", "call", "continue"},
           prev : Handles \cup {None}, synced : BOOLEAN]

\* Every slot number that engine_init finds and every engine that a view or
\* a call names is one of the table's (engine_init, getEngine).
TypeOK ==
    /\ active \in [Handles -> BOOLEAN]
    /\ program \in [Handles -> {"none", "loaded", "suspended"}]
    /\ callback \in [Handles -> BOOLEAN]
    /\ creator \in [Handles -> Threads \cup {None}]
    /\ lock \in Threads \cup {None}
    /\ found \in [Threads -> Handles \cup {0, None}]
    /\ view \in [Threads -> Views]
    /\ stack \in [Threads -> Seq(Frames)]

\* A slot is handed out once: no two threads initialise the same slot, and
\* none initialises a slot that is in use (engine_init's search and claim
\* under engine_slots_lock).
SlotHandedOutOnce ==
    \A t \in Threads : found[t] \in Handles =>
        /\ ~active[found[t]]
        /\ \A u \in Threads \ {t} : found[u] # found[t]

\* Whatever engines other threads use and whatever engines its callbacks
\* used meanwhile, a running script finds its own engine in the
\* thread-local views: as g_active_engine always, as the active runtime and
\* the write callback unless the host has, in the script's callback, created
\* an engine or set the callback (pushEngineState, popEngineState).
ScriptSeesItsEngine ==
    \A t \in Threads :
        /\ stack[t] = << >> => view[t].engine = None /\ view[t].write = None
        /\ stack[t] # << >> =>
             LET top == Last(stack[t])
             IN  /\ view[t].engine = top.handle
                 /\ top.synced => /\ view[t].runtime = top.handle
                                  /\ view[t].write = WriteOf(top.handle)

\* Where what the script on thread t prints goes: to the callback of an
\* engine, or to stdout (None).
Destination(t) == IF view[t].override THEN view[t].write ELSE None

\* A script that runs on the thread that created its engine prints to the
\* engine's callback if there is one, whichever engines are destroyed on
\* this thread and others (engine_destroy's rule for the last engine).
OwnOutputReachesCallback ==
    \A t \in Threads : stack[t] # << >> =>
        LET top == Last(stack[t])
        IN  top.synced /\ creator[top.handle] = t /\ callback[top.handle]
                => Destination(t) = top.handle

\* The same for every thread: "If the callback is NULL (or never set),
\* output falls through to stdout/stderr" (gengo-engine.h:296), and else it
\* reaches the callback.
OutputReachesCallback ==
    \A t \in Threads : stack[t] # << >> =>
        LET top == Last(stack[t])
        IN  top.synced /\ callback[top.handle] => Destination(t) = top.handle

\* A suspended program is resumed, reset or destroyed by its host and is
\* never lost to another run, call or thread (RuntimeSuspended in begin,
\* runPathWithProvider and callGlobal).
SuspendedProgramSurvives ==
    [][\A h \in Handles :
         Suspended(h) /\ program'[h] # "suspended" =>
            \E t \in Threads : engine_continue(t, h) \/ engine_reset(t, h) \/ engine_destroy(t, h)]_vars
=============================================================================
