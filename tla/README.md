# A TLA+ verification of Gengo

Gengo is a scripting language with an embeddable engine, written in Zig: a
compiler to bytecode, a virtual machine with a mark-sweep collector over a
fixed heap, cooperative tasks with mailboxes, and a C ABI with a C SDK and
example hosts. This directory holds
TLA+ models of the parts where the difficult state is, the TLC configurations
that check them on small instances, and TLAPS proofs of the most important
results for every value of the constants. Paths below are relative to the
repository.

## 1. The system

| component | state it keeps | operations | talks to |
|---|---|---|---|
| task table (`src/lang/task_state.zig`, `vm_task.zig`) | 64 slots with generation, status, vm_state, mailbox; ready queue; `current` | claim, free, resolve a reference, send, enqueue, pop, reset | VM instructions spawn/send/receive; scheduling loop; collector (roots) |
| scheduling loop and entry points (`src/runtime/runtime.zig`) | which vm_state runs, the sleep deadline | run, runPath, runFromGbc, continueRun, runIncremental, call, reset | task table, VM, host |
| managed heap (`src/runtime/heap.zig`) | bump regions by size class, overflow bump, permanent bump, free lists | allocate, free, coalesce, split, defragment, compact, reset | VM allocation ladder |
| allocation ladder, maps (`src/lang/vm_gc.zig`, `vm_map.zig`) | object slices | allocate with collect-and-retry and compact-and-retry, grow, shrink, hash | heap, collector |
| collector (`src/lang/vm_gc.zig`, object pool of `heap.zig`) | live bits, mark bits, mark worklist | mark roots, drain, sweep | every vm_state, mailboxes, globals |
| VM core (`src/lang/vm.zig`, `vm_state.zig`) | operand stack, frames, deferred calls, panic flags, `call_depth_target` | call, return, defer, panic, recover, callbacks, suspend | all of the above |
| budget and policy | instruction gas | dispatchTick | VM |
| chunk, verifier, fusion, inline caches | bytecode and side tables | verify, fuse, defuse, patch | compiler, VM |
| `.gbc` reader and writer | byte stream | encode, decode, reject | entry points |
| module compilation | import graph, module cache | import, roll back | compiler |
| compiler, REPL symbols | scopes, captures, symbol tables | declare, compile, roll back a line | chunk |
| engine C ABI (`src/engine.zig`, `src/runtime/io.zig`) | table of slots behind a spin lock; per thread: active engine, active runtime, write callback and override; suspended programs; the scratch buffers of returned values | init, destroy, run, begin, continue, call, reset, set_write_fn | Runtime; hosts, whose callbacks call it again |
| C SDK (`sdk/c/include/`) | wire values | construct, read | engine, hosts |
| FastCGI host (`examples/fastcgi-host/`) | the one request under way, its streams | a round of the record loop | web server, engine |
| Mosquitto plugin (`examples/mosquitto-acl/`) | engine handle, registered callbacks | init, check, authenticate, reload, clean up | broker, engine, policy file |
| policy hosts (`examples/sqlite-policy/`, `firmware-gate-c/`, `bundle-c/`) | last reason, rows, cases | load, decide, explain, print | SQLite, engine |
| package state, net/HTTP/fs state | handle tables | open, close, reset | natives |
| lexer, values, natives, I/O, CLI | - | - | - |

What is hard here: inside an engine, one thread but many interleavings. Tasks switch at
instructions; the host interleaves runs, calls, REPL lines, resets and resumed
sleeps on one Runtime; every allocation may collect and move memory under
whoever holds a pointer; `run()` re-enters itself from returns, unwinds and
natives. Around the engine there are threads: hosts create, nest and destroy
engines, and every thread keeps its own view of the one in use. A property is worth stating when it survives all of these:

* tasks: no wake-up is lost, a reference never names another task, a deadlock
  report is true, queued tasks run, also after a step that failed half-way;
* heap: no granule is handed out twice, pointers into the middle of blocks
  follow them, OutOfMemory is true of what compaction could pack, every allocation
  is answered;
* collector: nothing reachable from anywhere is freed, nothing else is kept,
  marking ends;
* unwinding: deferred calls run with their frame, recover() sees exactly the
  panics in progress, a nested run stays above its target;
* C ABI: a slot is handed out once, a script finds its own engine in the
  thread-local views, its output reaches its callback, a suspended program is
  not lost;
* hosts: what crosses the wire arrives as it was sent or is known to be cut or
  missing, a host grants nothing without the
  script's own true, a request is answered once and from its own data, a reason
  is the reason of its case, error texts stay in their buffers.

`PROJECT.json` lists every component with its status, and the hazards at the
lines where they bite.

## 2. The modules

**`Tasks`** - the task table, spawn/send/receive/sleep, the scheduling loop and
the host's entry points. One step is one instruction that touches this state,
together with everything the loop does before the next instruction. `driver`
tells which of the four callers runs the VM: the scheduling loop,
`continueRun`, `runIncremental` or `callGlobal`; the last three run main's
vm_state without the loop, which is why `taskYield` and `current` may be stale.
`recovered` marks a turn that has recovered a panic and therefore runs in a
nested `run()`, whose result cannot express a suspension. A message is a payload;
`Sendable` are those `isSendable` accepts. Generations wrap at `GenMod`.
`enqueueReady` sets the status before the append that may fail, and a message or a
spawn can fail at each of its allocations: those are the actions `SendStrands`,
`SpawnOutOfMemory` and `SpawnRejected` (a mailbox that cannot grow changes nothing).
The history variable `stranded` remembers the slots a send has made ready and could
not queue; a spawn that fails after its claim leaves a "fresh" slot, which no script
has a reference to.

**`Actors`** - what a script may believe about actors, without slots,
generations, queue or scheduler. **`TasksRefinement`** maps the table to it: an
actor is a pair of slot and generation. It also defines `AddressedSpec`, in which
each message names its addressee, so that a misdelivery is visible.

**`Heap`** - the allocator and the ladder above it. An address counts granules,
an owner is one slice of an object. A loop of the code is a sequence of steps
(`pc` says which loop), so invariants hold in the middle of a compaction too.
Which block of its class a free list gives and which owners a collection finds
dead are open choices. Merging (`Defragment`) and compaction need a table when there
are more blocks than fit the stack (`DefragTable`, `CompactTable`; 512 and 2048 in the code),
and the host may have no memory for it: then they do nothing, and the ladder goes
on as if they had. `HashSpec` adds the one operation that keeps a slice
across an allocation.

**`Gc`** - the object graph as a set of pairs (place, object), where a place is
one of the areas `markVMStateRoots` walks, a mailbox, the globals or an object's
fields; the mutator moves references between places, the collector marks and
sweeps. `current` (what the collector believes runs) and `active` (the vm_state
that runs) are separate variables, since the code keeps them separately.
`Modes` adds two things. "call": host calls. "entry": script code and allocation
while `spawnTask` enters the behaviour's frame on the new vm_state - the packing of
variadic arguments, the conversion of named and interface parameters, and their
predicates, which are script code and may load, store, send, receive, panic and
spawn in turn (`spawners` is the stack of spawns under way). Such code cannot yield
or end its task, as it runs in a nested `run()`.

**`Unwind`** - frames, deferred calls, panic flags and the native call stack
`ctl` of runs, returns and unwinds that call one another. A function that returns
runs its deferred calls, goes, and then has its results checked: the predicates of
a named result type are a nested run with the frame already popped (`gone`), whose
target may be that of the run around it. An unwind may itself fail - the text of
the panic is interned in a table that fills, the results of the function that has
recovered are pushed on a stack that may be full - and then leaves `is_panicking`,
frames and deferred calls as they are. Two variables are not in the code:
`taken` (recover() returned the panic of that unwind) and the history variable
`unwindFailed`. `NativeBackSpec` adds callbacks of natives.

**`Engine`** - the C ABI under several host threads. `stack[t]` holds the ABI calls
that thread `t` is in: a call is pushed by `pushEngineState`, the script runs and
may call back the host, which may call the ABI again, and `Return` pops it. The
thread-local variables are in `view[t]`. `engine_init` is three steps (lock,
search, initialise), since `lock` is what keeps two threads apart; the other
entry points are atomic, since no other thread may use their engine meanwhile
(`MayEnter`, the rule of `docs/engine-api.md` and `docs/embedding.md`). `synced` marks a call in
whose callback the host has created an engine or changed the callback: the code
then keeps the old view until the next push or pop.

**`Wire`** - `gengo-wire.h` and the conversions of `engine.zig` on the other side,
as operators: scalars and strings, with the errors of what has no wire, the trap of
a rune that is none, and the engine's scratch buffer, to which a long string is cut
when it cannot be duplicated (`setStringScratch`). Words have `Width` bits; a double is
a fixed-point number with one fraction digit, enough to tell a bit copy from a
conversion.

**`Marshal`** - the values that hold values: what `engine_call` and
`engine_get_global` hand out, the engine's buffer of 256 wires for the outermost
container, the permanent end of the heap for those inside it, and the way back. It has
no state of its own: the room left in the heap is a parameter, counted in wires, and what is left
of it is part of the result. The conversions recurse, so this module is checked and not
proved about; the instance `MCHosts` brings it together with `Hosts`.

**`HostEngine`** - one engine as the example hosts see it: what is loaded, the text
of the last error, the answers a script may give. A reason is handed to the host
whole (`Handed`), since the hosts' buffers are smaller than the scratch buffer
(`HostBuf <= MaxStringScratch`; 512 and 4096). **`AclPlugin`** is the Mosquitto
plugin, **`PolicyHosts`** the three command-line hosts, and **`Hosts`** composes them:
a process is one of the four. What a script answers is open, and the result of a
call tells which answer it was, so that properties can relate what a host did to
what its script said.

**`FastCgi`** - the FastCGI host with the web server as its environment. One action
is one record and all that the loop does with it. The handler returns its
arguments, so that an answer shows what it was computed from, and is cut to the
scratch buffer if the engine has to; parameters are decoded byte by byte, as the properties are about that.

**`TasksProofs`**, **`TasksRefinementProofs`**, **`GcProofs`**, **`UnwindProofs`**,
**`HeapProofs`**, **`EngineProofs`**, **`HostsProofs`** and **`FastCgiProofs`** hold the theorems; **`MC...`** modules and
`.cfg` files the instances. A definition marked *Faulty* is a plausible mistake
in its neighbour: substituting it must break the property it is paired with in
`PROJECT.json`, which shows that the property says something about the code.

`PROJECT.json`'s `map` gives the source lines of every definition.

## 3. What the runs show

| run | instance | question |
|---|---|---|
| `tasks` | main and two spawned tasks in 4 slots (the null slot included), generations modulo 3, run and call, failing appends | type; no lost wake-up; the queue and the loop agree (`SchedulerInv`) and a deadlock report is real, but for stranded tasks; generation 0 is never live; queued tasks get a turn |
| `tasks_repl` | the same table under REPL lines and calls | the queue misses no ready task but stranded ones, although the table is never reset |
| `tasks_refine` | 3 slots, generations 1-3, mailboxes of 2 | the table implements `Actors`; messages wait only at their addressee |
| `heap` | flat heap of 5 granules, classes of 1, 2 and 4, three owners, a view, permanent data, tables refused | no overlap of anything with anything, views follow, OutOfMemory is real when compaction had its table, every allocation is answered |
| `heap_partitioned` | 7 granules with class regions | live slices stay apart where compaction packs into regions |
| `gc` | `CarefulSpec` with 2 objects, 3 references, 3 tasks, host calls, two spawns one in the other, code at frame entry | but for the two deviations of section 5: nothing dangles, tricolor, worklist bound, exact sweep, marking ends |
| `unwind` | 3 frames, 2 deferred calls, nesting 5 | panic flag exact and deferred calls in their frames' sections until an unwind fails; runs own their frames and containment whatever fails |
| `engine` | 2 threads, 2 slots, calls nested twice | slots handed out once; scripts see their engine; output on the creating thread reaches the callback; suspended programs survive |
| `hosts` | the four hosts, scripts of every load outcome, 3 cases, 2 clients, words of 4 bits | fail closed; reasons belong to their case; error texts stay in the buffer; scalars and strings cross (`WireRoundTrip`); containers arrive in their places or are null, and a failure has a cause (`ContainersArrive`: 21 values of every kind nested up to past the limit, buffers of 4 wires, room for 0 to 8 more, depth 4) |
| `fastcgi` | 2 requests, 34 workloads, fragments of 1, 5 or all bytes | ended exactly once; answered from their own data |
| `gc_entry`, `acl_reload` | the smallest that suffices | expected violations, section 5 |

*Bounds.* The null slot, main and two spawned tasks are the least with a sender,
a receiver and a third party to recycle a slot; generations modulo 3 wrap within
three claims, and `MaxGen` bounds claims. A mailbox of two messages tells order;
one is enough for wake-ups. Five granules hold a block of every class and force
every fallback of the ladder, including split, merge and compaction; permanent
data of one and two granules shrinks the heap below any class. Seven granules is
the first size with two class regions. Three owners are more live blocks than
`CompactTable = 1` and enough free ones to exceed `DefragTable = 2`, so both tables
are refused and granted. Two objects and three references give cycles, shared objects and an
object held only by a mailbox, a frame, a temporary root or a panic. Three
frames are a function, its deferred call and a function that one calls; two
deferred calls put two in one frame or one in each of two; five records of `ctl`
are a run, an unwind or a return, its deferred call's run, an unwind in that and a
run again. Two spawns, with host calls and
code at frame entry, reach both deviations of section 5 (`MCGc_entry.cfg`,
`MCGc_call_spawn.cfg`), which `CarefulSpec` excludes by name; the proofs cover every
number of tasks, objects and spawns.

Two threads and two slots are the least for a race on a slot, for
a callback that runs another engine, and for the rule about the last engine; the
proof covers the rest. Two requests suffice for interleaving, refusal and reuse of an
id, as the host keeps one request; the limits (13 bytes of parameters, 2 of body,
3 of a field, 4 of an output record) are each reached and exceeded.
The error buffers of engine and host have equal sizes, as in the code (512), and
one load error fills them. Words of 4 bits have both signs and a fraction, and
lengths of 4 bits let the index of a map wrap; runes of 3 bits leave words that are
none. The scratch buffer is 7 characters in `hosts`, as long as the error buffers,
and 6 in `fastcgi`, where some answers are longer. In `ContainersArrive` each limit (wires,
depth, room) is met exactly and exceeded by one.

*Fairness.* `TurnsEndSpec`: a VM that has control keeps executing (weak fairness
of its steps), and every turn ends (strong fairness of the steps that end one).
The second is no promise of the engine: scheduling is cooperative, and a script
that neither blocks nor ends keeps the engine. `MCTasks_receive_yields.cfg`
shows what happens without it. `RunsSpec` and `CarefulSpec` only say that a
started allocation or collection is carried on, which a single-threaded loop
does. No fairness is assumed of hosts.

*Deadlock* is checked in the runs of the engine's parts: a host can
always start something. It is not in `hosts` and `fastcgi`, whose processes end.

## 4. What is proved

For every value of the constants that the named assumptions allow
(`TasksAssumption`, `HeapAssumption`, `NoBlockAssumption`, `PowersOfTwo` of `Heap`,
`GcAssumption`, `UnwindAssumption`, `EngineAssumption`,
`HostEngineAssumption`, `PolicyHostsAssumption`, `AclAssumption`,
`FastCgiAssumption`, `WorkloadAssumption`, `WireAssumption`, and for the
refinement `NoWrapAssumption` and `ProgramsOnly`); a hypothesis beyond these is
in the statement of the theorem and below. Each proof goes through an inductive
invariant, which is more than the property: what follows says what more, and
why.

**Tasks** (`TasksProofs`)

* `TypeCorrect`, and `NoWakeupIsLost`, inductive with `TypeOK`, for every host.
* `ReadyTasksAreQueued` - `QueueComplete` is inductive by itself, for every host:
  whoever makes a slot ready also queues it or strands it, whatever the queue holds
  besides. That stranding is the only way to be forgotten is the content.
* `SchedulerIsSafe` - `SchedulerInv` for hosts without `runIncremental`, which
  works on the slot the last run left current. The inductive invariant `QInv`
  adds to the type: the queue is injective and holds only ready slots with a
  frame (`QueueSound`); every ready slot with a frame is queued, just picked or
  stranded (`QueueComplete`); a stranded slot stays ready, with its message and out of
  the queue (`StrandedSound`: nothing rescues it, and it disturbs nobody); the loop's own slot is ready or running and not queued
  (`LoopSound`); sleepers are current; main keeps its slot; a parked slot has a
  frame; the driver is none but a whole-program one. Each is needed: `Dispatch`
  takes its slot from the queue, so the queue must be sound before the loop can
  be; waking needs `ParkedHasFrame` to keep the queue sound; resuming needs
  `SleeperIsCurrent`.
* `DeadlockReportIsReal` - from `QInv`: the queue is empty when it is reported,
  so no task but a stranded one is ready, and the only one that was running has
  just parked. That a stranded one makes the report false is `MCTasks_stranded.cfg`.
* `LiveRefsAreNotNull` - a live slot's generation is not 0, wrap-around included.

**Refinement** (`TasksRefinementProofs`)

* `TableImplementsActors` - every step of the table is a step of `Actors` or
  leaves it unchanged. `RInv` is `QInv` (the slot that takes a message, parks or
  dies is alive), `LiveRefsAreNotNull` (a live slot stands for an actor) and
  generations that have not gone round (a claim makes an actor that was never
  born before). The proof found an overlap of two arms of a `CASE` in
  `Actors!Restart`, of which TLC takes the first and the logic any; it is now a
  nested `IF`.
* `MailReachesItsAddressee` - the same for messages that name their addressee.

**Heap** (`HeapProofs`)

* `TypeCorrect`, `LiveSlicesNeverOverlap`, `NothingIsHandedOutTwice`,
  `ViewsFollowTheirSource`, `CompactionCopiesDown` and `FailureIsReal`, for `Spec`
  (maps that become hashed excluded, see section 5), for a flat heap as for a
  partitioned one. `HeapSafe` says what the properties leave open. `BumpsInOrder` -
  each bump stays in its region, and on aligned addresses, so that the
  code's rounding up changes nothing. `Taken` are the granules the bumps have handed
  out; `FreeApart`, `OwnApart` and `HandApart` say that every block lies in it and
  shares nothing with another, so a bump needs no look at the lists. `Packed` - what
  compaction has moved fills 0 to `dest` without a gap, and what it has not lies
  above: with the order of addresses this is why a block moves down into space
  that is free or its own. `Repacked` - the third attempt finds the lists empty and
  the overflow bump right behind the live blocks, which makes its failure real. It is
  required only when compaction has packed: `FailureIsReal`, like `OomIsReal`, is about
  an allocation whose compaction had its table (`oom.packed`), while merging may fail for
  want of one at any attempt. What happens without is `MCHeap_no_table.cfg`; the safety
  theorems hold either way.
  `Control` - no sweep follows a compaction of the same allocation, and the source of a
  view is neither garbage nor the owner that is being given a block.
* Merging of free lists is the deepest step. `MergedStarts` shows that the recursive
  definition of block starts has a solution, `StartsAligned` that every start is aligned,
  so that at least the smallest class fits there, and `CutsApart` that two blocks
  cut from a run share nothing; each by a least counterexample.
* `PowersOfTwo` (`2^0 = 1`, `2^(c+1) = 2 * 2^c` for the classes) is a law of
  arithmetic that the prover does not know for a variable exponent; TLC evaluates
  it on every instance.

**Collector** (`GcProofs`)

* `CarefulRunsAreSafe` - for every value of `Modes` and every number of spawns, one
  inside the other too: in a behaviour that satisfies `[]Careful`, nothing dangles,
  marking is tricolour and every sweep is exact. `Careful` says that the collector
  does not run while `spawnTask` enters the new frame, and that the spawned task does
  not get the slot `current` stands for. The code ensures neither; section 5 shows
  one counterexample for each (`MCGc_entry.cfg`, `MCGc_call_spawn.cfg`). The mutator is
  not restrained otherwise: what predicates load, store, send, receive and panic with on the new
  vm_state is in the model, so that among these steps there is no third way. The run
  `gc` checks `CarefulSpec`, whose behaviours are those of `Spec` with `[]Careful`
  (lemma `CarefulSpecIsCareful`).
* `NothingDangles`, `MarkingIsTricolor`, `SweepsAreExact` - the same without
  `Careful`, for the configurations in which it holds (`Undisturbed`, lemma
  `UndisturbedIsCareful`): no spawned frame whose entry runs code or allocates, and
  either no host calls and any number of spawns, or host calls and at most one spawn
  in a run: these programs need no hypothesis on when the collector runs. The invariant `GInv` adds: references leave only live
  holders, dead tasks hold nothing (`HoldersAlive`); the task whose vm_state the
  collector skips, `current`, is the active one or is dead (`OneVm`: or the first of those whose spawn
  is under way; after a run that ended with main blocked, a host call executes on main while `current` is
  still the task that ended last); while marking, every root is marked or about to be
  (`RootsCovered`), nothing black points at white (`Tricolor`), and outside of
  marking there are no marks (`NotMarking`). At the sweep scan and worklist are
  empty, so roots and fields of marked objects are marked, hence what is freed
  is referred to only by what is freed.
* `WorklistNeverOverflows` - in every mode. `WInv`: the worklist is injective and
  everything in it is marked, so a second push is impossible, and an injective
  sequence over the pool is no longer than the pool.
* Exactness of a sweep. `Reachable` is the last of a sequence of
  sets; the proof shows that the sequence exists, that it is closed at the end
  (a step that is not closed adds an object, and there are no more than
  `Cardinality(Objs)`), and that it is the least closed set around the roots.
  `NothingElseMarked` says that what is marked lies in every such set, and `GInv`
  that at the sweep the marked set is one.

**Calls and panics** (`UnwindProofs`)

* `TypeCorrect`, `PanicFlagExact`, `DefersAreSections`, `RunsOwnFrames` and the
  action property `NestedRunsAreContained`, for `Spec` (callbacks of natives
  excluded, see section 5) and any number of frames, deferred calls and nested
  runs. `PanicFlagIsExact` and `DefersBelongToFrames` hold until an unwind has itself
  failed: afterwards the flag is stale (`MCUnwind_stale_flag.cfg`) and deferred calls of
  frames that are gone lie about. `RunsOwnTheirFrames` and `NestedRunIsContained` hold
  whatever fails; targets rise strictly, except from a return whose frame has gone to
  the run of its predicates, where they may be equal.
* `UInv` therefore has two halves. Whatever fails: `Skeleton`, the types and what the
  native stack says of targets and depth (`Nested`), and `Floor`, that the first frame above
  a target has the lowest `defer_base` of those above it, which is why a run that
  unwinds to its target leaves the deferred calls below alone. Until an unwind fails: `Sections` - each
  deferred call is below the bases of *all* later frames, not only the next one, since
  an unwind removes several - and `Exact` - every saved `prev` is what the rest of the
  native stack says (`Flags`), `recovered` is set only inside an unwind that has not yet looked
  at it (`Taken`), the first run takes all frames (`Rooted`), and an unwind is at the
  innermost frame but for those of the run it has called (`Matched`). The properties are consequences; none is inductive without the
  others.

**C ABI** (`EngineProofs`)

* `EngineTypeCorrect`, `SlotsAreHandedOutOnce`, `ScriptsSeeTheirEngine`,
  `OwnOutputIsDelivered`, `SuspendedProgramsSurvive`. The invariant
  `EInv` adds to the type: a search for a slot holds the lock and what it found is
  free (`SearchHoldsLock`); every call remembers the engine of the call below it,
  and its engine is there and not suspended (`CallsNest`); no engine is in two
  calls (`OneCallPerEngine`); a free slot has no program, and the creator of an
  engine keeps its write override (`FreeSlotsAreClean`). `CallsNest` is what makes
  `popEngineState` restore the right engine; `OneCallPerEngine` is what lets a step
  on one engine leave the views of all other calls true; `FreeSlotsAreClean` carries the
  override across `engine_destroy`, whose rule clears it only with the last engine.

**Hosts and wire** (`HostsProofs`)

* `TypeCorrect`, `HostsFailClosed` - `HInv` adds to the type: a process runs one
  host (`OneHost`), and the rows stored are those of cases already over.
* `ReasonsAreOfTheirCases` - if the buffers hold the longest report
  (`TextSizesFit`; the longest report of the model has six pieces, and the host adds a NUL). With smaller
  buffers a reason may be cut, which the property would call another text.
* `LogsStayInBuffers` - if the engine's buffer is no larger than the hosts'
  (`MaxErrorLen <= HostBuf`; both are 512 in the code). `ReportsFit` is the part of the
  invariant that only bundle-c needs, as it alone does not cut the length.
* `ScalarsCross` - `WireRoundTrip` for every width of words, lengths and runes, every
  size of the scratch buffer and strings of any length (`StringsDoCross`): numbers and booleans are
  unchanged in both directions, readers find the elements of a container in their
  places, a string is whole or, if it is longer than the scratch buffer, cut to it,
  and one too long for a wire is an error. Nested containers are checked only
  (`ContainersArrive`), as their conversion recurses. The hypothesis `PowersOfTwo`,
  `2^w = 2 * 2^(w-1)` and the like for the widths, is a law of arithmetic that the prover
  does not know for a variable exponent; it excludes no width.

**FastCGI host** (`FastCgiProofs`)

* `TypeCorrect`, `RequestsEndExactlyOnce`,
  `RepliesAreOfTheirRequests`, `AnswersAreOfTheirRequests`, for any number of requests
  and any cutting of their streams. `FInv` relates the server's bookkeeping, `request_t` and the replies: an
  id in use stands for one request (`Openers`); what is gathered is a beginning of
  what that request sends (`Gathered`, `Positions`); a request that is begun and not
  under way has its answer (`Answered`). `WorkloadAssumption` says that the server sends
  bytes under ids of its own, writes lengths in a form that can express them (the
  short one below 128, the long one below 2^31) and cuts a request, if it does, within
  its last pair.
* `AnswersAreOfTheirRequests` goes on from `FInv` without another invariant: what is
  read out of any answer in `AnswersOf` is what the request calls for (`AnswersRead`).
  On the way in, `ParamsDecoded`: the loop of `parse_params` finds exactly the pairs
  that were encoded, and fails if the last is cut (`LengthDecoded`, `PairDecoded`,
  `PairCut` for one round, `PairsLie` for where the pairs are); `ParamsRead`: the
  assignments leave in the fields the last method, the last query string, and the
  path that `PathOf` says (`FoldRuns`, `LastIsKept`, `PathIsKept`); `HandlerGets`: those
  are the arguments of `handle()`. On the way out, `WrittenIsRead`: the records of
  `write_record`, put together, are the data.

*Induction.* Where a proof needs it (least positions in sequences, the steps of
`Reachable`, the cuts of a free run, the rounds of `parse_params`, the records of an
answer) it is made for a set of numbers: a nonempty set of naturals has a
least element (`Smallest`, `Least`), by the well-foundedness of strict inclusion among
finite sets; `UpTo` and `Reaches` are induction in that form. That a recursive function or a fold
has a value at all is proved the same way (`LoopRuns`, `FoldRuns`, `FlattenFacts`):
each finite beginning of it has a solution.

Only model-checked: liveness (`QueuedTaskRuns`, `AllocationAnswers`,
`CollectionEnds`), which the prover does not do, and `ContainersArrive`, as the
conversions of `Marshal` recurse. Every other invariant of the passing runs is proved.

## 5. Deviations

What the code does against its own comments and documents. Those marked * are
runs of `PROJECT.json`, with the quotations in `findings`; the others are
reproduced with `tlc -config X.cfg M`, and the table or the property quotes what
they refute.

| configuration | module | what happens |
|---|---|---|
| `MCTasks_abandoned.cfg` | `MCTasks` | after a recovered panic a task that parks is taken for finished; if it is main, the program ends with tasks queued (`vm.zig:5268`, against `runtime.zig:656-660`) |
| `MCTasks_sleep_recover.cfg` | `MCTasks` | after a recovered panic, sleep() fails the run and leaves the deadline set |
| `MCTasks_stranded.cfg` | `MCTasks` | a send whose append to the ready queue fails leaves the receiver ready, not queued and never woken again; TaskDeadlock is reported although it could run |
| `MCTasks_ready_queued.cfg` | `MCTasks` | a spawn rejected after the claim, or whose append to the ready queue fails, leaks its slot until the next reset |
| `MCTasks_yield_escapes.cfg` | `MCTasks` | a main that resumes from sleep and then parks returns task_yielded to the host |
| `MCTasks_silent_hang.cfg` | `MCTasks` | the program completes with main parked for ever |
| `MCTasks_torn_call.cfg` | `MCTasks` | a host call after that is cut short and reported as a success |
| `MCTasks_receive_yields.cfg` | `MCTasks` | receive() with a message waiting does not yield |
| `MCHeap_stale_entries.cfg` | `MCHeap` | a map that becomes hashed stores a slice from before a compaction (`vm_map.zig:180`, against `vm_gc.zig:476`) |
| `MCHeap_no_table.cfg` | `MCHeap` | without host memory for its table compaction does nothing, and OutOfMemory is reported though the packed data would leave room |
| `MCHeap_reclaims.cfg` | `MCHeap` | compaction loses the granules below the class regions' end |
| `MCGc_entry.cfg` * | `MCGc` | spawning a behaviour with variadic, named or interface parameters may collect, or run predicates that do, with the spawner's roots skipped (`vm.zig:1243`, `vm_types.zig:784-803`, against `vm_gc.zig:284-287`) |
| `MCGc_call_spawn.cfg` | `MCGc` | a spawn in a host call may reuse the slot the collector skips |
| `MCUnwind_recover.cfg` | `MCUnwind` | a recover() is forgotten when the handler then survives another panic (`vm.zig:5114`, against `docs/language.md:1050`) |
| `MCUnwind_stale_flag.cfg` | `MCUnwind` | a panic whose text cannot be interned leaves `is_panicking` set: a later recover() outside of any panic returns the old one |
| `MCUnwind_callback.cfg` | `MCUnwind` | a native called back by a native makes the nested run execute its caller's code (`vm.zig:5361`, against `vm_state.zig:177-178`) |
| `MCHosts_reload.cfg` * | `MCHosts` | a reload that fails has already reset the engine: the old policy is gone |
| `MCEngine_threads.cfg` | `MCEngine` | an engine called from a thread that did not create it prints to stdout although a callback is set: the write override is thread-local and set only by `engine_init` (`io.zig:28-37`, against `gengo-engine.h:296`) |

Smaller ones, seen while modelling:

* the comment at `runtime.zig:672-677` says that a sleep in a spawned task suspends the
  whole run as main's does; `requestSleep` refuses it (`vm.zig:1366`, `vm_state.zig:375`),
  and were it suspended, `continueRun` would resume main. The model refuses it, as the
  code does;
* a program loaded from bytecode fails at its first sleep(): `runFromGbc` makes an
  error of the suspension (`runtime.zig:650`; `HostOps` with "gbc" explores it);
* the wires of containers inside containers come from the permanent end of the heap
  (`engine.zig:629`, 635, 641, 647, 662, 685) and are not given back before a reset: after enough
  calls one succeeds with null in the place of a container, where
  `docs/engine-api.md:43-49` promises scratch storage and an error
  (`Agrees(_, _, TRUE)` in `ContainersArrive` allows for the null);
* a returned string longer than 4096 characters is cut to that when it cannot be
  duplicated (`engine.zig:349-353`), and the call succeeds;
* a number that a host marks as a rune and that is none traps (`engine.zig:499`);
* the FastCGI host has no branch for `FCGI_ABORT_REQUEST`: a request aborted before
  its STDIN ended keeps the host busy until the server ends it or closes the connection;
* `parse_params` lets an empty `SCRIPT_NAME` after `PATH_INFO` erase the path;
* a statement of sqlite-policy that fails before its trigger prints the reason of
  an earlier order (`ReasonIsOfThisCase` leaves it out);
* `mosquitto_plugin_init` tests `g_engine == 0` only; the negative codes of
  `engine_init_with_config` are caught by the load that follows;
* the comment at `engine.zig:943` says engine_call blocks through a sleep, but a
  sleep in a call fails with SleepNotAllowed; `gengo-engine.h` calls the default
  dial policy ALLOW where the code denies; `docs/host-abi.md:138-140` calls
  process-global what is thread-local;
* handles carry no generation: one kept after `engine_destroy` names the next
  engine in the slot, which is why `MayEnter` relies on the host's rule;
* an early return of `callGlobal` (`vm.zig:5370-5376`) keeps the text of an older error.

## 6. Not modelled

Of the C ABI: host functions and their signatures, configuration checks, resource
policies, bundles, and hosts that break the rules of the documents (an engine
used by two threads at once, re-entered, or destroyed in use: the code does not
defend against them). `g_init_error`, a plain global that `engine_init` writes
before it takes the lock, is left out: it only feeds a message. Of the example
hosts: the text they print, `exec_or_die`'s message and `read_file`'s steps. The
FFI test library is a set of stateless functions.

The lexer, value representation, pure natives, I/O and the command line keep no
state whose interleavings matter. Sockets and files are operating-system
services. The inner steps of compilation are abstract in `RunPath` (it succeeds
or leaves the Runtime reset). In `Unwind` the size of the native stack and the
panic values are left out; in `Gc` the layout of objects; in `Heap` the contents
of blocks, and growth is by one class, where the code may also stay in its class. In
`Tasks` a spawn is one step: predicates of its arguments may send and spawn before it
is queued, and the model orders those before the whole spawn.

Also not explored: programs and REPL lines mixed on one Runtime; the temporary roots
that `spawnTask` pops a second time when `enqueueReady` fails (`vm.zig:1338`, 1372);
map iterators while the map changes; the deferred calls that are dropped at the frame
limit; how far recovered panics make the native stack grow.

In `Marshal` a variant of either form is its pairs of key and value, a cyclic container one
nested deeper than the limit, padding for alignment is left out, and so is a failure to
intern a variant's tag or to allocate the values passed in (each fails the call). The
length of a string that is not inside a container is cast without a check
(`engine.zig:703`); strings of 4 GiB are not explored. A wire points to memory that the
next operation may reuse; hosts that keep it break `docs/engine-api.md`.

## 7. Plan

1. Panic values in `Unwind`.
2. `MapTable`: open addressing of `vm_map.zig` (insert, delete, rehash) against
   a function; iteration.
3. `Imports`: module compilation, cycles, cache, rollback of a failed import;
   `ReplSymbols`: what survives a line that fails half-way.
4. `Verifier`: the stack-depth dataflow over jumps against an abstract machine;
   `Fusion`: rewriting with jump retargeting against the unfused sequence.
5. `HandleTables` for net, HTTP and fs state; `Budget`.
6. `Container`: the `.gbc` reader against the writer.

Each new module gets one run that checks all its properties together.
