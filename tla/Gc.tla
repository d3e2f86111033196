--------------------------------- MODULE Gc ---------------------------------
(***************************************************************************)
(* Mark and sweep over the object pool that all tasks of a Runtime share   *)
(* (lang/vm_gc.zig, the pool half of runtime/heap.zig), under a mutator    *)
(* that calls, panics, sends, receives, spawns and is called by the host   *)
(* (lang/vm.zig, lang/vm_task.zig).                                        *)
(*                                                                         *)
(* `refs' is the object graph: a pair <<place, object>> for every place    *)
(* that holds a reference. A place is a root area of one task's vm_state,  *)
(* a task's mailbox, the globals and constants, or the fields of an        *)
(* object; how often or where in an area an object occurs does not matter. *)
(* Collection stops the world, so mutator and collector steps alternate    *)
(* only at allocations. `scan' is the run of markValue calls under way.    *)
(***************************************************************************)
EXTENDS Integers, Sequences, FiniteSets

CONSTANTS
    Objs,        \* slots of the object pool
    NTasks,      \* slots of the task table, the null slot not counted
    Modes,       \* what is explored beyond one scheduler driving the tasks
    MaxRefs,     \* bound: references that exist at once
    MaxSpawns    \* bound: spawns in one run

ASSUME GcAssumption ==
    /\ IsFiniteSet(Objs)
    /\ NTasks \in Nat \ {0}
    /\ Modes \subseteq {"call", "entry"}
    /\ MaxRefs \in Nat /\ MaxSpawns \in Nat

Tasks == 1 .. NTasks

\* (A definition marked "Faulty" is a plausible mistake in the one after it. No
\* specification uses it; it shows that the properties would notice.)

\* Faulty: main takes the slot that stands for no task.
MainInNullSlot == 0

Main  == 1
None  == 0

\* The areas of a vm_state that markVMStateRoots walks; defer_stack stands for
\* itself and panic for panic_value and pending_panic_value.
Areas == {"stack", "callee", "temp", "defer", "panic"}

Area(a, t) == <<a, t>>
Mail(t)    == <<"mail", t>>
Global     == <<"global", None>>
Field(o)   == <<"field", o>>

Roots(t) == {Area(a, t) : a \in Areas}
Places   == (UNION {Roots(t) : t \in Tasks}) \cup {Mail(t) : t \in Tasks}
            \cup {Global} \cup {Field(o) : o \in Objs}

VARIABLES
    live,       \* obj_live: the pool slots in use
    refs,       \* the object graph
    marked,     \* obj_marked
    worklist,   \* mark_worklist, its top at the end
    scan,       \* objects markValue is still to be called on
    alive,      \* tasks whose slot is neither empty nor dead
    current,    \* task_state.current
    active,     \* task whose vm_state executes: the one ctx.vs belongs to
    spawners,   \* tasks inside spawnTask, the innermost at the end
    inCall,     \* callGlobal is running
    pc,         \* "mutate", "mark" or "host"
    spawned     \* spawns so far in this run

heapVars == <<live, refs>>
markVars == <<marked, worklist, scan>>
taskVars == <<alive, current, active, spawners, inCall, spawned>>
vars     == <<heapVars, markVars, taskVars, pc>>

Held(p) == {o \in Objs : <<p, o>> \in refs}
HeldBy(P) == UNION {Held(p) : p \in P}
----------------------------------------------------------------------------
(* The mutator.                                                            *)

\* Script code runs. In the mode "entry" it also runs while spawnTask enters the
\* frame of the new task: predicates of its parameters' types do.
Mutating == pc = "mutate" /\ (spawners = << >> \/ "entry" \in Modes)
Room     == Cardinality(refs) < MaxRefs

Add(p, o)     == refs' = refs \cup {<<p, o>>}
Move(p, q, o) == refs' = (refs \ {<<p, o>>}) \cup {<<q, o>>}

\* allocObject: any free pool slot, with no fields yet; the new object is on
\* the stack or on the temporary roots.
Alloc(o, a) ==
    /\ Mutating
    /\ Room
    /\ o \notin live
    /\ live' = live \cup {o}
    /\ Add(Area(a, active), o)
    /\ UNCHANGED <<markVars, taskVars, pc>>

\* A field of an object on the stack, or a global, is pushed.
Load(p, o) ==
    /\ Mutating
    /\ Room
    /\ <<p, o>> \in refs
    /\ \/ p = Global
       \/ \E q \in Held(Area("stack", active)) : p = Field(q)
    /\ Add(Area("stack", active), o)
    /\ UNCHANGED <<live, markVars, taskVars, pc>>

\* An object on the stack is stored in a global, in a field of another object
\* on the stack, or pushed as a deferred call.
Store(p, o) ==
    /\ Mutating
    /\ o \in Held(Area("stack", active))
    /\ \/ p \in {Global, Area("defer", active)}
       \/ \E q \in Held(Area("stack", active)) : p = Field(q)
    /\ Move(Area("stack", active), p, o)
    /\ UNCHANGED <<live, markVars, taskVars, pc>>

\* A reference is popped or overwritten.
Drop(p, o) ==
    /\ Mutating
    /\ <<p, o>> \in refs
    /\ \/ p \in Roots(active) \cup {Global}
       \/ \E q \in Held(Area("stack", active)) : p = Field(q)
    /\ refs' = refs \ {<<p, o>>}
    /\ UNCHANGED <<live, markVars, taskVars, pc>>

\* call_tail: the callee leaves the operand stack and is held by the reused
\* frame alone, in the place of the callee the frame had.
TailCall(o) ==
    /\ Mutating
    /\ o \in Held(Area("stack", active))
    /\ refs' = {r \in refs : /\ r[1] # Area("callee", active)
                             /\ r # <<Area("stack", active), o>>}
                   \cup {<<Area("callee", active), o>>}
    /\ UNCHANGED <<live, markVars, taskVars, pc>>

\* A panic unwinds the stack and the frames; the panicked value is held by
\* panic_value alone while the deferred calls run.
Panic(o) ==
    /\ Mutating
    /\ o \in Held(Area("stack", active))
    /\ refs' = {r \in refs : r[1] \notin {Area("stack", active),
                                          Area("callee", active),
                                          Area("temp", active)}}
                   \cup {<<Area("panic", active), o>>}
    /\ UNCHANGED <<live, markVars, taskVars, pc>>

Recover(o) ==
    /\ Mutating
    /\ o \in Held(Area("panic", active))
    /\ Move(Area("panic", active), Area("stack", active), o)
    /\ UNCHANGED <<live, markVars, taskVars, pc>>
----------------------------------------------------------------------------
(* Messages and spawned tasks.                                             *)

\* send: the clone, on the sender's temporary roots, goes to the mailbox of a
\* live task.
Send(u, c) ==
    /\ Mutating
    /\ u \in alive
    /\ c \in Held(Area("temp", active))
    /\ Move(Area("temp", active), Mail(u), c)
    /\ UNCHANGED <<live, markVars, taskVars, pc>>

\* receive() takes from the mailbox of the current task.
Receive(o) ==
    /\ Mutating
    /\ ~inCall
    /\ o \in Held(Mail(current))
    /\ Move(Mail(current), Area("stack", active), o)
    /\ UNCHANGED <<live, markVars, taskVars, pc>>

\* spawnTask, first half: the slot is claimed, and the clones that the
\* spawner's temporary roots hold are pushed on the new vm_state, on which the
\* frame is then entered. A type predicate that runs there may spawn too.
SpawnClaim(u) ==
    /\ Mutating
    /\ spawned < MaxSpawns
    /\ u \in Tasks \ (alive \cup {Main})
    /\ \A t \in Tasks \ (alive \cup {Main}) : u <= t
    /\ LET args == Held(Area("temp", active)) IN
       /\ Cardinality(refs) + Cardinality(args) <= MaxRefs
       /\ refs' = refs \cup {<<Area("stack", u), o>> : o \in args}
    /\ alive' = alive \cup {u}
    /\ spawners' = Append(spawners, active)
    /\ active' = u
    /\ spawned' = spawned + 1
    /\ UNCHANGED <<live, markVars, current, inCall, pc>>

Spawner == spawners[Len(spawners)]

\* Second half, or an error of enterFunctionFrame: back on the spawner's
\* vm_state, whose temporary roots are popped.
SpawnDone ==
    /\ pc = "mutate"
    /\ spawners # << >>
    /\ active' = Spawner
    /\ spawners' = SubSeq(spawners, 1, Len(spawners) - 1)
    /\ refs' = {r \in refs : r[1] # Area("temp", Spawner)}
    /\ UNCHANGED <<live, markVars, alive, current, inCall, pc, spawned>>

\* The current task yields to another live one.
Switch(u) ==
    /\ pc = "mutate" /\ spawners = << >>
    /\ ~inCall
    /\ u \in alive \ {current}
    /\ current' = u
    /\ active' = u
    /\ UNCHANGED <<heapVars, markVars, alive, spawners, inCall, pc, spawned>>

\* A spawned task ends. Its roots and its mailbox are roots no longer. Another
\* live task goes on or, if all of them are blocked, the run ends.
TaskEnds(u) ==
    /\ pc = "mutate" /\ spawners = << >>
    /\ ~inCall
    /\ current # Main
    /\ alive' = alive \ {current}
    /\ refs' = {r \in refs : r[1] \notin Roots(current) \cup {Mail(current)}}
    /\ \/ /\ u \in alive \ {current}
          /\ current' = u /\ active' = u
          /\ UNCHANGED pc
       \/ /\ u = None
          /\ pc' = "host"
          /\ UNCHANGED <<current, active>>
    /\ UNCHANGED <<live, markVars, spawners, inCall, spawned>>

\* The run or the call returns to the host.
Return ==
    /\ pc = "mutate" /\ spawners = << >>
    /\ active = Main
    /\ pc' = "host"
    /\ inCall' = FALSE
    /\ UNCHANGED <<heapVars, markVars, alive, current, active, spawners, spawned>>

\* callGlobal runs on main's vm_state and leaves task_state.current alone.
Call ==
    /\ "call" \in Modes
    /\ pc = "host"
    /\ pc' = "mutate"
    /\ inCall' = TRUE
    /\ active' = Main
    /\ UNCHANGED <<heapVars, markVars, alive, current, spawners, spawned>>

\* The heap and the task table are reset and a program starts.
Run ==
    /\ pc = "host"
    /\ live' = {} /\ refs' = {}
    /\ marked' = {}
    /\ alive' = {Main}
    /\ current' = Main /\ active' = Main
    /\ inCall' = FALSE
    /\ spawned' = 0
    /\ pc' = "mutate"
    /\ UNCHANGED <<worklist, scan, spawners>>
----------------------------------------------------------------------------
(* collectGarbage.                                                         *)

\* Faulty: messages not yet received are no roots.
RootSetWithoutMail ==
    HeldBy(Roots(active) \cup {Global}
           \cup (UNION {Roots(t) : t \in alive \ {current}}))

\* What the collector takes for roots. It skips the vm_state of `current', on
\* the ground that it is the active one.
RootSet ==
    HeldBy(Roots(active) \cup {Global}
           \cup (UNION {Roots(t) \cup {Mail(t)} : t \in alive \ {current}})
           \cup {Mail(current)})

\* An allocation runs the collector. While spawnTask enters the frame, variadic
\* packing, the construction of a named or an interface argument and whatever a
\* type predicate does allocate.
Collect ==
    /\ Mutating
    /\ pc' = "mark"
    /\ worklist' = << >>
    /\ scan' = RootSet
    /\ UNCHANGED <<heapVars, marked, taskVars>>

\* Faulty: an object is marked and its fields are never looked at.
MarkWithoutQueue(o) ==
    /\ pc = "mark"
    /\ o \in scan
    /\ scan' = scan \ {o}
    /\ marked' = marked \cup ({o} \cap live)
    /\ UNCHANGED <<heapVars, worklist, taskVars, pc>>

\* Faulty: an object already marked is queued again.
MarkAlwaysQueues(o) ==
    /\ pc = "mark"
    /\ o \in scan \cap live
    /\ scan' = scan \ {o}
    /\ marked' = marked \cup {o}
    /\ worklist' = Append(worklist, o)
    /\ UNCHANGED <<heapVars, taskVars, pc>>

\* markObjectQueue.
MarkObjectQueue(o) ==
    /\ pc = "mark"
    /\ o \in scan
    /\ scan' = scan \ {o}
    /\ IF o \in live \ marked
       THEN /\ marked' = marked \cup {o}
            /\ worklist' = Append(worklist, o)
       ELSE UNCHANGED <<marked, worklist>>
    /\ UNCHANGED <<heapVars, taskVars, pc>>

\* drainMarkQueue: the top of the worklist is popped, its fields are marked.
DrainMarkQueue ==
    /\ pc = "mark"
    /\ scan = {}
    /\ worklist # << >>
    /\ worklist' = SubSeq(worklist, 1, Len(worklist) - 1)
    /\ scan' = Held(Field(worklist[Len(worklist)]))
    /\ UNCHANGED <<heapVars, marked, taskVars, pc>>

\* Faulty: the marks survive into the next collection.
SweepKeepsMarks ==
    /\ pc = "mark"
    /\ scan = {} /\ worklist = << >>
    /\ live' = marked
    /\ refs' = {r \in refs : \A o \in Objs \ marked : r[1] # Field(o)}
    /\ pc' = "mutate"
    /\ UNCHANGED <<worklist, scan, marked, taskVars>>

\* sweepObjects: what is not marked is freed, with its fields.
SweepObjects ==
    /\ pc = "mark"
    /\ scan = {} /\ worklist = << >>
    /\ live' = marked
    /\ refs' = {r \in refs : \A o \in Objs \ marked : r[1] # Field(o)}
    /\ marked' = {}
    /\ pc' = "mutate"
    /\ UNCHANGED <<worklist, scan, taskVars>>
----------------------------------------------------------------------------
Init ==
    /\ live = {} /\ refs = {}
    /\ marked = {} /\ worklist = << >> /\ scan = {}
    /\ alive = {Main}
    /\ current = Main /\ active = Main
    /\ spawners = << >>
    /\ inCall = FALSE
    /\ spawned = 0
    /\ pc = "mutate"

Mutate ==
    \/ \E o \in Objs, a \in {"stack", "temp"} : Alloc(o, a)
    \/ \E p \in Places, o \in Objs : Load(p, o) \/ Store(p, o) \/ Drop(p, o)
    \/ \E o \in Objs : TailCall(o) \/ Panic(o) \/ Recover(o) \/ Receive(o)
    \/ \E u \in Tasks, c \in Objs : Send(u, c)
    \/ \E u \in Tasks : SpawnClaim(u) \/ Switch(u)
    \/ SpawnDone
    \/ \E u \in Tasks \cup {None} : TaskEnds(u)
    \/ Return

Mark == (\E o \in Objs : MarkObjectQueue(o)) \/ DrainMarkQueue

Next == Mutate \/ Call \/ Run \/ Collect \/ Mark \/ SweepObjects

Spec == Init /\ [][Next]_vars
----------------------------------------------------------------------------
(* Properties.                                                             *)

\* Every variable has the type its declaration in heap.zig and task_state.zig
\* gives it, and references leave only places that exist.
TypeOK ==
    /\ live \subseteq Objs
    /\ refs \subseteq Places \X Objs
    /\ marked \subseteq live
    /\ worklist \in Seq(Objs)
    /\ scan \subseteq Objs
    /\ alive \subseteq Tasks
    /\ current \in Tasks /\ active \in Tasks
    /\ spawners \in Seq(Tasks)
    /\ inCall \in BOOLEAN
    /\ pc \in {"mutate", "mark", "host"}
    /\ spawned \in 0 .. MaxSpawns

\* Two things the collector relies on and the code does not ensure: it does not
\* run while spawnTask enters a frame on the new vm_state, and the new task is
\* not the one `current' stands for (a host call leaves `current' at a task that
\* may have ended, and the spawn takes the first free slot). The theorems assume
\* them where they say so, and one run checks the behaviours in which they hold.
Careful ==
    /\ pc = "mark" => spawners = << >>
    /\ spawners # << >> => active # current

\* The behaviours in which they hold. A collection that has started is carried on.
CarefulSpec == Init /\ [][Next /\ Careful']_vars /\ WF_vars(Mark \/ SweepObjects)

\* No reference anywhere - on a stack, in a frame, among the temporary roots, in
\* a deferred call, in a panic, in a mailbox, in a global or in a field - leads
\* to a pool slot that has been freed.
NoDanglingReference == \A r \in refs : r[2] \in live

\* While the collector marks, nothing black points at anything white: what a
\* marked object that has left the worklist refers to is marked or about to be.
Tricolor ==
    pc = "mark" =>
        \A o \in marked :
            \/ \E i \in DOMAIN worklist : worklist[i] = o
            \/ Held(Field(o)) \subseteq marked \cup scan

\* mark_worklist, sized to the object pool, never overflows: an object is pushed
\* at most once in a collection.
WorklistFits ==
    /\ Len(worklist) <= Cardinality(Objs)
    /\ \A i, j \in DOMAIN worklist : worklist[i] = worklist[j] => i = j

\* The objects reachable from what live tasks hold, by following fields.
Reachable ==
    LET start == HeldBy({Global} \cup (UNION {Roots(t) \cup {Mail(t)} : t \in alive}))
        next(S) == S \cup (UNION {Held(Field(o)) : o \in S})
        within[n \in 0 .. Cardinality(Objs)] ==
            IF n = 0 THEN start ELSE next(within[n - 1])
    IN  within[Cardinality(Objs)]

\* A sweep keeps every reachable object and frees every other one.
SweepIsExact ==
    [][pc = "mark" /\ pc' = "mutate" => live' = Reachable]_vars

\* Marking ends, also on cyclic graphs.
CollectionEnds == (pc = "mark") ~> (pc = "mutate")
=============================================================================
