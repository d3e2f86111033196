-------------------------------- MODULE Tasks --------------------------------
(***************************************************************************)
(* The task (actor) system of a Runtime: the task table and its ready      *)
(* queue (lang/task_state.zig), spawn, send and receive (lang/vm.zig,      *)
(* lang/vm_task.zig), the scheduling loop and the entry points a host uses *)
(* to start, resume and call into a program (runtime/runtime.zig).         *)
(*                                                                         *)
(* One step is one instruction that touches this state, with everything    *)
(* the scheduler does before the next instruction of any task. The data of *)
(* a message is one of Payloads; a payload outside Sendable is one that    *)
(* isSendable rejects (a function, a closure, a cell or an iterator, at    *)
(* any depth).                                                             *)
(***************************************************************************)
EXTENDS Integers, Sequences, FiniteSets

CONSTANTS
    MaxTasks,     \* slots of the table, the null slot included (64)
    GenMod,       \* generations are counted modulo GenMod (2^32)
    Payloads,     \* what a script may try to send
    Sendable,     \* the payloads that may cross a task boundary
    HostOps,      \* the entry points this host uses
    ScriptOps,    \* "recover": scripts recover panics of the functions they call
    MaxGen,       \* bound: no slot is claimed once its generation is MaxGen
    MailboxCap    \* bound: longest mailbox explored

ASSUME TasksAssumption ==
    /\ MaxTasks \in Nat /\ MaxTasks > 1
    /\ GenMod \in Nat /\ GenMod > 1
    /\ MaxGen \in 1 .. GenMod
    /\ MailboxCap \in Nat
    /\ Sendable \subseteq Payloads
    /\ HostOps \subseteq {"run", "gbc", "call", "incremental"}
    /\ ~({"run", "gbc"} \subseteq HostOps)  \* a host compiles programs or loads them
    /\ ScriptOps \subseteq {"recover"}

Slots     == 0 .. MaxTasks - 1
NullSlot  == 0                       \* never occupied by a task
MainSlot  == 1                       \* the program's own top level
TaskSlots == 1 .. MaxTasks - 1
Gens      == 0 .. GenMod - 1
Refs      == [index : Slots, generation : Gens]

TaskStatus == {"empty", "ready", "running", "blocked_receive", "dead"}

VARIABLES
    generation,   \* generation[s]: how often slot s has been claimed
    status,       \* status[s], a TaskStatus
    vs,           \* vs[s]: the slot's vm_state; see VmStates
    mailbox,      \* mailbox[s]: messages not yet received
    readyQueue,   \* slots waiting for a turn, oldest first
    stranded,     \* (history) slots that a send woke while the queue could not grow
    current,      \* slot whose turn it is; 0 before the first run
    phase,        \* "host": no VM running; "dispatch": top of the scheduling
                  \* loop; "exec": instructions are being executed
    driver,       \* who runs the VM: "scheduler" (driveTaskScheduler),
                  \* "continue" (continueRun), "incremental" (runIncremental)
                  \* or "call" (callGlobal)
    sleep,        \* main's sleep_deadline_ns: "none", "pending" or "due"
    taskYield,    \* task_yield of main's vm_state
    recovered,    \* this turn has recovered a panic: its instructions run in a
                  \* nested run() below runPanicUnwind
    outcome       \* how the last entry point returned to the host

taskVars == <<generation, status, vs, mailbox, readyQueue, stranded, current>>
hostVars == <<phase, driver, sleep, taskYield, recovered, outcome>>
vars     == <<taskVars, hostVars>>

\* A slot has no vm_state, borrows the Runtime's own (main), or owns one: that
\* of a task ("task"), or of a spawn that failed after its claim ("fresh").
VmStates == {"none", "main", "fresh", "task"}

Outcomes == {"none", "completed", "suspended", "task_yielded", "error",
             "TaskDeadlock", "torn_call"}
----------------------------------------------------------------------------
(* The task table.                                                         *)

\* (A definition marked "Faulty" is a plausible mistake in the one after it. No
\* specification uses it; it shows that the properties would notice.)

\* Faulty: the counter wraps to the generation of the null reference.
NextGenerationWithZero(g) == (g + 1) % GenMod

\* Faulty: a slot is claimed again under the generation it had.
NextGenerationKept(g) == IF g = 0 THEN 1 ELSE g

\* generation +%= 1, skipping 0 so that no reference looks like the null one.
NextGeneration(g) ==
    IF (g + 1) % GenMod = 0 THEN 1 ELSE (g + 1) % GenMod

\* Faulty: any reference to the slot is taken for one to its present task.
ResolveAnyGeneration(r) == IF r.index < MaxTasks THEN r.index ELSE NullSlot

\* The slot a reference names, or NullSlot.
ResolveSameGeneration(r) ==
    IF /\ r.index # NullSlot
       /\ r.index < MaxTasks
       /\ generation[r.index] = r.generation
    THEN r.index
    ELSE NullSlot

IsAlive(s) == status[s] \notin {"empty", "dead"}

FreeSlots == {s \in TaskSlots : ~IsAlive(s)}

\* claimSlot takes the free slot with the lowest index.
IsFirstFree(s) == s \in FreeSlots /\ \A t \in FreeSlots : s <= t

\* Faulty: the queue counts as empty while one task is left in it.
ScheduleNextButLastOr(r) ==
    /\ recovered' = FALSE
    /\ \/ /\ Len(readyQueue) > 1
          /\ current' = Head(readyQueue)
          /\ readyQueue' = Tail(readyQueue)
          /\ phase' = "dispatch"
          /\ UNCHANGED outcome
       \/ /\ Len(readyQueue) <= 1
          /\ phase' = "host"
          /\ outcome' = r
          /\ UNCHANGED <<current, readyQueue>>

\* Faulty: the newest entry of the queue goes first.
ScheduleNewestOr(r) ==
    /\ recovered' = FALSE
    /\ \/ /\ readyQueue # << >>
          /\ current' = readyQueue[Len(readyQueue)]
          /\ readyQueue' = SubSeq(readyQueue, 1, Len(readyQueue) - 1)
          /\ phase' = "dispatch"
          /\ UNCHANGED outcome
       \/ /\ readyQueue = << >>
          /\ phase' = "host"
          /\ outcome' = r
          /\ UNCHANGED <<current, readyQueue>>

\* popReady after the current task has yielded or died. The loop ends with
\* result r when the queue is empty; current then keeps its value.
ScheduleNextOr(r) ==
    /\ recovered' = FALSE
    /\ \/ /\ readyQueue # << >>
          /\ current' = Head(readyQueue)
          /\ readyQueue' = Tail(readyQueue)
          /\ phase' = "dispatch"
          /\ UNCHANGED outcome
       \/ /\ readyQueue = << >>
          /\ phase' = "host"
          /\ outcome' = r
          /\ UNCHANGED <<current, readyQueue>>

\* Control returns to the host with result r.
ReturnToHost(r) ==
    /\ recovered' = FALSE
    /\ phase' = "host"
    /\ outcome' = r
    /\ UNCHANGED <<current, readyQueue>>

\* The vm_state that is executing is the Runtime's own.
OnMainVm == driver # "scheduler" \/ current = MainSlot
\* enqueueReady(s).
EnqueueReady(s) ==
    /\ status' = [status EXCEPT ![s] = "ready"]
    /\ readyQueue' = Append(readyQueue, s)
    /\ UNCHANGED stranded

\* enqueueReady(s) when the queue cannot grow: the status has been set, the
\* append fails.
EnqueueReadyFails(s) ==
    /\ status' = [status EXCEPT ![s] = "ready"]
    /\ stranded' = stranded \cup {s}
    /\ UNCHANGED readyQueue
----------------------------------------------------------------------------
(* What the executing task may do.                                         *)

\* The instructions of a call made while main is parked in receive() run with
\* main's task_yield still set: the first safepoint after one of them makes
\* the call return.
AfterInstruction ==
    IF driver = "call" /\ taskYield
    THEN phase' = "host" /\ outcome' = "torn_call"
    ELSE UNCHANGED <<phase, outcome>>

\* Worker(args): the arguments are cloned, a slot is claimed, the behaviour's
\* frame is entered and the task is queued.
Spawn(s) ==
    /\ phase = "exec"
    /\ IsFirstFree(s)
    /\ generation[s] < MaxGen
    /\ generation' = [generation EXCEPT ![s] = NextGeneration(@)]
    /\ mailbox' = [mailbox EXCEPT ![s] = << >>]
    /\ vs' = [vs EXCEPT ![s] = "task"]
    /\ EnqueueReady(s)
    /\ AfterInstruction
    /\ UNCHANGED <<current, driver, sleep, taskYield, recovered>>

\* The new vm_state cannot be allocated: the slot stays free, its generation
\* is used up. The spawner sees an error, which it may recover.
SpawnOutOfMemory(s) ==
    /\ phase = "exec"
    /\ IsFirstFree(s)
    /\ generation[s] < MaxGen
    /\ generation' = [generation EXCEPT ![s] = NextGeneration(@)]
    /\ mailbox' = [mailbox EXCEPT ![s] = << >>]
    /\ vs' = [vs EXCEPT ![s] = "none"]
    /\ status' = [status EXCEPT ![s] = "empty"]
    /\ UNCHANGED <<readyQueue, stranded, current, hostVars>>

\* The spawn fails after the slot has been claimed: enterFunctionFrame rejects the
\* arguments (their number or a type), or the frame has been entered and the
\* ready queue cannot grow. The slot stays ready and is never queued; the spawner
\* sees an error, and nobody a reference.
SpawnRejected(s) ==
    /\ phase = "exec"
    /\ IsFirstFree(s)
    /\ generation[s] < MaxGen
    /\ generation' = [generation EXCEPT ![s] = NextGeneration(@)]
    /\ mailbox' = [mailbox EXCEPT ![s] = << >>]
    /\ vs' = [vs EXCEPT ![s] = "fresh"]
    /\ status' = [status EXCEPT ![s] = "ready"]
    /\ UNCHANGED <<readyQueue, stranded, current, hostVars>>

\* The references a script can hold. A spawn hands its reference out only when
\* nothing has failed.
HeldRefs == {r \in Refs : vs[r.index] = "fresh" =>
                              generation[r.index] # r.generation}

\* Faulty: the message is appended and nobody is woken.
DeliverWithoutWake(s, m) ==
    /\ mailbox' = [mailbox EXCEPT ![s] = Append(@, m)]
    /\ UNCHANGED <<status, readyQueue, stranded>>

\* Faulty: the receiver is queued whether or not it is parked.
DeliverAlwaysQueues(s, m) ==
    /\ mailbox' = [mailbox EXCEPT ![s] = Append(@, m)]
    /\ EnqueueReady(s)

\* The mailbox append and the wake-up of a parked receiver.
Deliver(s, m) ==
    /\ mailbox' = [mailbox EXCEPT ![s] = Append(@, m)]
    /\ IF status[s] = "blocked_receive"
       THEN EnqueueReady(s)
       ELSE UNCHANGED <<status, readyQueue, stranded>>

\* The same when the ready queue cannot grow.
DeliverStrands(s, m) ==
    /\ status[s] = "blocked_receive"
    /\ mailbox' = [mailbox EXCEPT ![s] = Append(@, m)]
    /\ EnqueueReadyFails(s)

\* Faulty: nested values are not looked into.
IsSendableShallow(m) == m \in Payloads

\* isSendable, over the whole value.
IsSendable(m) == m \in Sendable

\* r.send(m) goes to task s. (A stale or dead target is not an error: the
\* message is dropped, and nothing but the instruction itself has happened.)
Reaches(r, s, m) ==
    /\ s = ResolveSameGeneration(r)
    /\ s # NullSlot
    /\ IsAlive(s)
    /\ IsSendable(m)
    /\ Len(mailbox[s]) < MailboxCap

\* A payload that is not sendable, and a mailbox that cannot grow, are errors of
\* the sender and change nothing.
Send(r, m) ==
    /\ phase = "exec"
    /\ \E s \in TaskSlots : Reaches(r, s, m) /\ Deliver(s, m)
    /\ AfterInstruction
    /\ UNCHANGED <<generation, vs, current, driver, sleep, taskYield, recovered>>

\* The message is in the mailbox and the receiver ready, but not in the queue:
\* no later send queues it, since it is no longer parked. The sender sees an
\* error, which it may recover.
SendStrands(r, m) ==
    /\ phase = "exec"
    /\ \E s \in TaskSlots : Reaches(r, s, m) /\ DeliverStrands(s, m)
    /\ UNCHANGED <<generation, vs, current, hostVars>>

\* receive() is compiled only at top level and in a task's own body, so never
\* below callGlobal.
MayReceive == phase = "exec" /\ driver # "call"

ReceiveMessage ==
    /\ MayReceive
    /\ mailbox[current] # << >>
    /\ mailbox' = [mailbox EXCEPT ![current] = Tail(@)]
    /\ taskYield' = IF OnMainVm THEN FALSE ELSE taskYield
    /\ UNCHANGED <<generation, status, vs, readyQueue, stranded, current,
                   phase, driver, sleep, recovered, outcome>>

\* An empty mailbox parks the task. The scheduler looks for another one; the
\* other drivers return what runUntilSuspend returned.
ReceiveBlock ==
    /\ MayReceive
    /\ ~recovered
    /\ mailbox[current] = << >>
    /\ status' = [status EXCEPT ![current] = "blocked_receive"]
    /\ stranded' = stranded \ {current}
    /\ taskYield' = IF OnMainVm THEN TRUE ELSE taskYield
    /\ CASE driver = "scheduler"   -> ScheduleNextOr("TaskDeadlock")
         [] driver = "continue"    -> ReturnToHost("task_yielded")
         [] driver = "incremental" -> ReturnToHost("completed")
    /\ UNCHANGED <<generation, vs, mailbox, driver, sleep>>

\* A function that the task called has panicked and one of its deferred calls
\* has recovered. runPanicUnwind continues the task in a nested run(), which
\* lasts until the end of the turn. (A call from the host is a run() anyway.)
RecoverPanic ==
    /\ "recover" \in ScriptOps
    /\ phase = "exec"
    /\ driver # "call"
    /\ ~recovered
    /\ recovered' = TRUE
    /\ UNCHANGED <<taskVars, phase, driver, sleep, taskYield, outcome>>

\* receive() on an empty mailbox in a nested run(): run() turns task_yielded
\* into success, so the turn ends as if the task had finished.
ReceiveBlockNested ==
    /\ MayReceive
    /\ recovered
    /\ mailbox[current] = << >>
    /\ stranded' = stranded \ {current}
    /\ taskYield' = IF OnMainVm THEN TRUE ELSE taskYield
    /\ \/ /\ OnMainVm
          /\ status' = [status EXCEPT ![current] = "blocked_receive"]
          /\ ReturnToHost("completed")
       \/ /\ ~OnMainVm
          /\ status' = [status EXCEPT ![current] = "dead"]
          /\ ScheduleNextOr("completed")
    /\ UNCHANGED <<generation, vs, mailbox, driver, sleep>>

\* The suspension of a sleep reaches the host as the error ExecutionSuspended:
\* in a nested run(), and in runFromGbc, which does not resume programs.
SuspensionIsError == recovered \/ (driver = "scheduler" /\ "gbc" \in HostOps)

\* std.time.sleep at top level. Below callGlobal, in a deferred call of a panic
\* and in a spawned task (whose call_depth_target is 0) it is SleepNotAllowed, an
\* error like any other of that task; runIncremental waits the deadline out
\* itself.
Sleep ==
    /\ phase = "exec"
    /\ driver \in {"scheduler", "continue"}
    /\ OnMainVm
    /\ ~SuspensionIsError
    /\ sleep' = "pending"
    /\ ReturnToHost("suspended")
    /\ UNCHANGED <<generation, status, vs, mailbox, stranded, driver, taskYield>>

\* A sleep whose suspension is an error leaves the deadline set.
SleepFails ==
    /\ phase = "exec"
    /\ driver # "call"
    /\ OnMainVm
    /\ SuspensionIsError
    /\ sleep' = "pending"
    /\ ReturnToHost("error")
    /\ UNCHANGED <<generation, status, vs, mailbox, stranded, driver, taskYield>>

\* A spawned task returns or dies of an unrecovered error.
WorkerEnds ==
    /\ phase = "exec"
    /\ ~OnMainVm
    /\ status' = [status EXCEPT ![current] = "dead"]
    /\ ScheduleNextOr("completed")
    /\ UNCHANGED <<generation, vs, mailbox, stranded, driver, sleep, taskYield>>

\* The top level, or what a host called, returns or fails.
MainEnds(r) ==
    /\ phase = "exec"
    /\ OnMainVm
    /\ ReturnToHost(r)
    /\ UNCHANGED <<generation, status, vs, mailbox, stranded, driver, sleep, taskYield>>

\* Any other instruction of a call torn by main's stale task_yield.
CallTorn ==
    /\ phase = "exec"
    /\ driver = "call"
    /\ taskYield
    /\ ReturnToHost("torn_call")
    /\ UNCHANGED <<generation, status, vs, mailbox, stranded, driver, sleep, taskYield>>

\* The top of the scheduling loop: the chosen task runs.
Dispatch ==
    /\ phase = "dispatch"
    /\ status' = [status EXCEPT ![current] = "running"]
    /\ phase' = "exec"
    /\ UNCHANGED <<generation, vs, mailbox, readyQueue, stranded, current,
                   driver, sleep, taskYield, recovered, outcome>>
----------------------------------------------------------------------------
(* What the host may do while no VM is running.                            *)

\* State.reset of the table, keeping the generations.
ResetTable ==
    /\ mailbox' = [s \in Slots |-> << >>]
    /\ readyQueue' = << >>
    /\ stranded' = {}

\* Runtime.reset (engine_reset), also while suspended.
Reset ==
    /\ phase = "host"
    /\ ResetTable
    /\ status' = [s \in Slots |-> "empty"]
    /\ vs' = [s \in Slots |-> "none"]
    /\ current' = NullSlot
    /\ sleep' = "none"
    /\ taskYield' = FALSE
    /\ outcome' = "none"
    /\ UNCHANGED <<generation, phase, driver, recovered>>

\* run, runPath, begin, runFromGbc: everything is reset, the program compiled
\* or loaded, main claims its slot and the scheduling loop starts. A program
\* that does not compile leaves the Runtime reset.
RunPath ==
    /\ HostOps \cap {"run", "gbc"} # {}
    /\ phase = "host"
    /\ sleep = "none"
    /\ generation[MainSlot] < MaxGen
    /\ ResetTable
    /\ generation' = [generation EXCEPT ![MainSlot] = NextGeneration(@)]
    /\ status' = [s \in Slots |-> IF s = MainSlot THEN "ready" ELSE "empty"]
    /\ vs' = [s \in Slots |-> IF s = MainSlot THEN "main" ELSE "none"]
    /\ current' = MainSlot
    /\ taskYield' = FALSE
    /\ phase' = "dispatch"
    /\ driver' = "scheduler"
    /\ outcome' = "none"
    /\ UNCHANGED <<sleep, recovered>>

\* The clock reaches main's deadline.
DeadlinePasses ==
    /\ sleep = "pending"
    /\ sleep' = "due"
    /\ UNCHANGED <<taskVars, phase, driver, taskYield, recovered, outcome>>

\* continueRun once the deadline has passed: main's vm_state is run directly.
ContinueRun ==
    /\ phase = "host"
    /\ sleep = "due"
    /\ sleep' = "none"
    /\ phase' = "exec"
    /\ driver' = "continue"
    /\ UNCHANGED <<taskVars, taskYield, recovered, outcome>>

\* callGlobal (engine_call), on main's vm_state as the last run left it. There
\* is a function to call only after a program has run.
CallGlobal ==
    /\ "call" \in HostOps
    /\ phase = "host"
    /\ sleep = "none"
    /\ outcome # "none"
    /\ phase' = "exec"
    /\ driver' = "call"
    /\ UNCHANGED <<taskVars, sleep, taskYield, recovered, outcome>>

\* Faulty: a new line forgets the tasks that earlier lines queued.
RunIncrementalForgetsQueue ==
    /\ "incremental" \in HostOps
    /\ phase = "host"
    /\ sleep = "none"
    /\ readyQueue' = << >>
    /\ taskYield' = FALSE
    /\ phase' = "exec"
    /\ driver' = "incremental"
    /\ UNCHANGED <<generation, status, vs, mailbox, stranded, current, sleep,
                   recovered, outcome>>

\* runIncremental: one line of a REPL. Only main's execution state is reset;
\* the task table is left as it is and no scheduling loop runs.
RunIncremental ==
    /\ "incremental" \in HostOps
    /\ phase = "host"
    /\ sleep = "none"
    /\ taskYield' = FALSE
    /\ phase' = "exec"
    /\ driver' = "incremental"
    /\ UNCHANGED <<taskVars, sleep, recovered, outcome>>
----------------------------------------------------------------------------
Init ==
    /\ generation = [s \in Slots |-> 0]
    /\ status = [s \in Slots |-> "empty"]
    /\ vs = [s \in Slots |-> "none"]
    /\ mailbox = [s \in Slots |-> << >>]
    /\ readyQueue = << >>
    /\ stranded = {}
    /\ current = NullSlot
    /\ phase = "host"
    /\ driver = "scheduler"
    /\ sleep = "none"
    /\ taskYield = FALSE
    /\ recovered = FALSE
    /\ outcome = "none"

HostStep == Reset \/ RunPath \/ DeadlinePasses \/ ContinueRun \/ CallGlobal
            \/ RunIncremental

\* The steps with which a task's turn ends.
TurnEnds == ReceiveBlock \/ ReceiveBlockNested \/ Sleep \/ SleepFails
            \/ WorkerEnds \/ CallTorn
            \/ \E r \in {"completed", "error"} : MainEnds(r)

\* What a task does to the table, but for sending.
OwnStep ==
    \/ \E s \in TaskSlots : Spawn(s) \/ SpawnOutOfMemory(s) \/ SpawnRejected(s)
    \/ ReceiveMessage
    \/ RecoverPanic
    \/ Dispatch
    \/ TurnEnds

TaskStep ==
    \/ OwnStep
    \/ \E r \in HeldRefs, m \in Payloads : Send(r, m) \/ SendStrands(r, m)

Next == HostStep \/ TaskStep

Spec == Init /\ [][Next]_vars

\* A VM that has control keeps executing, and every turn of every task ends:
\* the scheduler is cooperative, so the second is a duty of the script.
TurnsEndSpec == Spec /\ WF_vars(TaskStep) /\ SF_vars(TurnEnds)

\* A VM that has control keeps executing, and a task that can receive a message
\* again and again does so; it need not block or end.
ReceivingSpec == Spec /\ WF_vars(TaskStep) /\ SF_vars(ReceiveMessage)
----------------------------------------------------------------------------
(* Properties.                                                             *)

\* Every variable has the type its declaration in task_state.zig, vm_state.zig
\* or runtime.zig gives it.
TypeOK ==
    /\ generation \in [Slots -> Gens]
    /\ status \in [Slots -> TaskStatus]
    /\ vs \in [Slots -> VmStates]
    /\ mailbox \in [Slots -> Seq(Sendable)]
    /\ readyQueue \in Seq(TaskSlots)
    /\ stranded \subseteq TaskSlots
    /\ current \in Slots
    /\ phase \in {"host", "dispatch", "exec"}
    /\ driver \in {"scheduler", "continue", "incremental", "call"}
    /\ sleep \in {"none", "pending", "due"}
    /\ taskYield \in BOOLEAN
    /\ recovered \in BOOLEAN
    /\ outcome \in Outcomes

\* A task parked in receive() has nothing to receive: every send() that found
\* it parked also woke it, whichever task, call or REPL line sent.
NoLostWakeup ==
    \A s \in Slots : status[s] = "blocked_receive" => mailbox[s] = << >>

\* A slot is in the ready queue at most once, and only while it is ready.
QueuedOnce ==
    /\ \A i, j \in DOMAIN readyQueue :
          readyQueue[i] = readyQueue[j] => i = j
    /\ \A i \in DOMAIN readyQueue :
          status[readyQueue[i]] = "ready" /\ vs[readyQueue[i]] \in {"main", "task"}

\* A ready task whose spawn succeeded is in the queue, or is the one that the
\* scheduling loop has just picked, unless its wake-up found the queue unable to
\* grow: nothing else makes the scheduler forget a task.
ReadyIsQueued ==
    \A s \in Slots :
        status[s] = "ready" /\ vs[s] # "fresh" =>
            \/ \E i \in DOMAIN readyQueue : readyQueue[i] = s
            \/ phase = "dispatch" /\ s = current
            \/ s \in stranded

\* A task whose wake-up failed keeps the message that was to wake it, unread and
\* ready without being queued, however often it is sent to: only the host's next
\* reset or run ends that.
StrandedStayStranded ==
    \A s \in stranded :
        /\ status[s] = "ready" /\ vs[s] \in {"main", "task"}
        /\ mailbox[s] # << >>
        /\ \A i \in DOMAIN readyQueue : readyQueue[i] # s

\* The scheduling loop only ever runs a vm_state that exists, is not in the
\* queue and belongs to a task that has not finished.
CurrentIsRunnable ==
    /\ phase = "dispatch" =>
          /\ driver = "scheduler"
          /\ status[current] = "ready"
          /\ vs[current] \in {"main", "task"}
          /\ \A i \in DOMAIN readyQueue : readyQueue[i] # current
    /\ phase = "exec" /\ driver = "scheduler" =>
          /\ status[current] = "running"
          /\ vs[current] \in {"main", "task"}
    /\ \A s \in Slots : status[s] = "running" => s = current

\* TaskDeadlock is reported only when it is one, as long as the ready queue could
\* grow: every task that was spawned and has not finished is parked with an empty
\* mailbox, or a failed wake-up has stranded it.
DeadlockIsReal ==
    outcome = "TaskDeadlock" /\ phase = "host" =>
        \A s \in Slots : IsAlive(s) /\ vs[s] # "fresh" =>
            \/ status[s] = "blocked_receive" /\ mailbox[s] = << >>
            \/ s \in stranded

\* A slot that is in use has a generation other than 0, also after the
\* generation counter has wrapped around.
LiveGenerationIsNotNull ==
    \A s \in TaskSlots : IsAlive(s) => generation[s] # 0

\* Whatever spawned tasks do, a sleep leaves main the current task: the vm_state
\* that continueRun resumes is the one that went to sleep, and the slot that a
\* resumed main receives from is its own. (It is requestSleep's refusal of a
\* spawned task that ensures it: with the suspension that the comment above
\* driveTaskScheduler describes, continueRun would resume main in its place.)
SleeperIsCurrent ==
    sleep # "none" \/ (phase = "exec" /\ driver = "continue") =>
        /\ current = MainSlot
        /\ status[MainSlot] = "running"
        /\ vs[MainSlot] = "main"

\* From the start of a program to the next reset main keeps its slot: no spawn
\* takes it, not even in a call long after the run has ended, and no slot but
\* main's ever borrows the Runtime's vm_state.
MainKeepsItsSlot ==
    /\ phase # "host" \/ sleep # "none" \/ outcome # "none" =>
          IsAlive(MainSlot) /\ vs[MainSlot] = "main"
    /\ \A s \in Slots : vs[s] = "main" => s = MainSlot

\* What the scheduling loop relies on, for hosts that run whole programs. The
\* last two conjuncts close it under the steps of Next.
SchedulerInv ==
    /\ QueuedOnce
    /\ ReadyIsQueued
    /\ StrandedStayStranded
    /\ CurrentIsRunnable
    /\ SleeperIsCurrent
    /\ MainKeepsItsSlot
    /\ \A s \in Slots : status[s] = "blocked_receive" => vs[s] \in {"main", "task"}
    /\ driver # "incremental" /\ (sleep # "none" => phase = "host")

\* A task waiting in the ready queue is eventually given a turn, unless the run
\* ends or is suspended first.
QueuedTaskRuns ==
    \A s \in TaskSlots :
        (\E i \in DOMAIN readyQueue : readyQueue[i] = s)
            ~> (status[s] = "running" \/ phase = "host")
----------------------------------------------------------------------------
(* What comments and design documents of the repository say of the task    *)
(* system and the code does not do; each is refuted by a configuration.    *)

\* TaskStatus: "ready, // in the ready queue, waiting for a scheduler turn".
ReadyMeansQueued ==
    \A s \in Slots : status[s] = "ready" =>
        \/ \E i \in DOMAIN readyQueue : readyQueue[i] = s
        \/ phase = "dispatch" /\ s = current

\* The scheduling loop, where it reports TaskDeadlock: "every live task is now
\* blocked with nothing left that could ever wake one".
DeadlockMeansAllBlocked ==
    outcome = "TaskDeadlock" /\ phase = "host" =>
        \A s \in Slots : IsAlive(s) /\ vs[s] # "fresh" => status[s] = "blocked_receive"

\* RunOutcome: task_yielded is "handled entirely inside the scheduling loop
\* ... and never meant to reach a caller".
TaskYieldStaysInScheduler == outcome # "task_yielded"

\* The scheduling loop: a run in which nothing can ever wake a blocked task is
\* surfaced "loudly"; here, the program does not complete with main parked.
HangIsReported ==
    phase = "host" /\ driver = "scheduler" /\ outcome = "completed" =>
        status[MainSlot] # "blocked_receive"

\* The scheduling loop: a task keeps its turn "until it blocks in receive(),
\* finishes or panics" and "main returning ends the program": while tasks are
\* waiting for a turn, the program completes only by main's return.
ReadyWorkIsNotAbandoned ==
    phase = "host" /\ driver = "scheduler" /\ outcome = "completed"
        /\ readyQueue # << >> => status[MainSlot] = "running"

\* The regression note on sleep(): no run fails with ExecutionSuspended and
\* leaves the runtime "permanently stuck suspended".
SleepIsASuspension ==
    phase = "host" /\ sleep # "none" => outcome = "suspended"

\* engine_call returns 0 "on success": no call is cut short and then reported
\* as a success.
CallsRunToCompletion == outcome # "torn_call"
=============================================================================
