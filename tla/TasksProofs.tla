---------------------------- MODULE TasksProofs ----------------------------
(***************************************************************************)
(* Proofs about the task system, for every size of the table, every        *)
(* generation width and every set of payloads.                             *)
(***************************************************************************)
EXTENDS Tasks, SequenceTheorems, TLAPS

----------------------------------------------------------------------------
(* Lemmas about the operators of Tasks.                                    *)

\* A claimed slot's new generation is in range and never the null one, also
\* where the counter wraps around.
LEMMA NextGenerationType ==
    ASSUME NEW g \in Gens
    PROVE  NextGeneration(g) \in Gens \ {0}
BY TasksAssumption, SMT DEF NextGeneration, Gens

\* The null slot is a slot and not a task's; main's is one.
LEMMA SlotFacts ==
    /\ TaskSlots \subseteq Slots
    /\ NullSlot \in Slots /\ NullSlot \notin TaskSlots
    /\ MainSlot \in TaskSlots
    /\ Slots \subseteq Nat
BY TasksAssumption, SMT DEF Slots, TaskSlots, NullSlot, MainSlot

\* popReady keeps the types of the queue and of current.
LEMMA ScheduleType ==
    ASSUME TypeOK, NEW r \in Outcomes, ScheduleNextOr(r)
    PROVE  /\ readyQueue' \in Seq(TaskSlots)
           /\ current' \in Slots
           /\ phase' \in {"host", "dispatch", "exec"}
           /\ outcome' \in Outcomes
           /\ recovered' = FALSE
<1>1. CASE readyQueue # << >> /\ UNCHANGED outcome /\ phase' = "dispatch"
           /\ current' = Head(readyQueue) /\ readyQueue' = Tail(readyQueue)
  <2>1. Head(readyQueue) \in TaskSlots /\ Tail(readyQueue) \in Seq(TaskSlots)
    BY <1>1, HeadTailProperties DEF TypeOK
  <2> QED
    BY <1>1, <2>1, SlotFacts DEF TypeOK, ScheduleNextOr
<1>2. CASE phase' = "host" /\ outcome' = r /\ UNCHANGED <<current, readyQueue>>
  BY <1>2 DEF TypeOK, ScheduleNextOr
<1> QED
  BY <1>1, <1>2 DEF ScheduleNextOr

\* A delivery keeps the types of what it touches.
LEMMA DeliverType ==
    ASSUME TypeOK, NEW s \in TaskSlots, NEW m \in Sendable,
           Deliver(s, m) \/ DeliverStrands(s, m)
    PROVE  /\ mailbox' \in [Slots -> Seq(Sendable)]
           /\ status' \in [Slots -> TaskStatus]
           /\ readyQueue' \in Seq(TaskSlots)
           /\ stranded' \subseteq TaskSlots
<1>1. Append(mailbox[s], m) \in Seq(Sendable)
  BY SlotFacts, AppendProperties DEF TypeOK
<1>2. Append(readyQueue, s) \in Seq(TaskSlots)
  BY AppendProperties DEF TypeOK
<1>3. CASE Deliver(s, m)
  BY <1>1, <1>2, <1>3, SlotFacts DEF Deliver, EnqueueReady, TypeOK, TaskStatus
<1>4. CASE DeliverStrands(s, m)
  BY <1>1, <1>4, SlotFacts DEF DeliverStrands, EnqueueReadyFails, TypeOK, TaskStatus
<1> QED
  BY <1>3, <1>4
----------------------------------------------------------------------------
(* Type correctness.                                                       *)

\* The types hold initially.
LEMMA TypeInit == Init => TypeOK
<1> SUFFICES ASSUME Init PROVE TypeOK
  OBVIOUS
<1>1. 0 \in Gens
  BY TasksAssumption DEF Gens
<1>2. << >> \in Seq(Sendable) /\ << >> \in Seq(TaskSlots)
  BY EmptySeq
<1> QED
  BY <1>1, <1>2, SlotFacts DEF Init, TypeOK, TaskStatus, VmStates, Outcomes

\* The types are kept by every step.
LEMMA TypeStep == TypeOK /\ [Next]_vars => TypeOK'
<1> SUFFICES ASSUME TypeOK, [Next]_vars PROVE TypeOK'
  OBVIOUS
<1> USE SlotFacts
<1>0. \A s \in Slots : NextGeneration(generation[s]) \in Gens
  BY NextGenerationType DEF TypeOK
<1>e. << >> \in Seq(Sendable) /\ << >> \in Seq(TaskSlots)
  BY EmptySeq
<1>1. ASSUME NEW s \in TaskSlots, Spawn(s) PROVE TypeOK'
  <2>1. Append(readyQueue, s) \in Seq(TaskSlots)
    BY AppendProperties DEF TypeOK
  <2> QED
    BY <1>0, <1>e, <1>1, <2>1
    DEF Spawn, EnqueueReady, TypeOK, AfterInstruction, TaskStatus, VmStates, Outcomes
<1>2. ASSUME NEW s \in TaskSlots, SpawnOutOfMemory(s) PROVE TypeOK'
  BY <1>0, <1>e, <1>2 DEF SpawnOutOfMemory, TypeOK, TaskStatus, VmStates, hostVars
<1>3. ASSUME NEW s \in TaskSlots, SpawnRejected(s) PROVE TypeOK'
  BY <1>0, <1>e, <1>3 DEF SpawnRejected, TypeOK, TaskStatus, VmStates, hostVars
<1>4. ASSUME NEW r \in HeldRefs, NEW m \in Payloads, Send(r, m) \/ SendStrands(r, m)
      PROVE  TypeOK'
  <2>1. PICK s \in TaskSlots : m \in Sendable /\ (Deliver(s, m) \/ DeliverStrands(s, m))
    BY <1>4 DEF Send, SendStrands, Reaches, IsSendable
  <2>2. /\ mailbox' \in [Slots -> Seq(Sendable)]
        /\ status' \in [Slots -> TaskStatus]
        /\ readyQueue' \in Seq(TaskSlots)
        /\ stranded' \subseteq TaskSlots
    BY <2>1, DeliverType
  <2> QED
    BY <1>4, <2>2 DEF Send, SendStrands, TypeOK, AfterInstruction, Outcomes, hostVars
<1>5. ASSUME ReceiveMessage PROVE TypeOK'
  <2>1. Tail(mailbox[current]) \in Seq(Sendable)
    BY <1>5, HeadTailProperties DEF TypeOK, ReceiveMessage
  <2> QED
    BY <1>5, <2>1 DEF ReceiveMessage, TypeOK
<1>6. ASSUME ReceiveBlock PROVE TypeOK'
  <2>1. /\ readyQueue' \in Seq(TaskSlots)
        /\ current' \in Slots
        /\ phase' \in {"host", "dispatch", "exec"}
        /\ outcome' \in Outcomes /\ recovered' = FALSE
    BY <1>6, ScheduleType DEF ReceiveBlock, ReturnToHost, TypeOK, Outcomes, MayReceive
  <2> QED
    BY <1>6, <2>1 DEF ReceiveBlock, TypeOK, TaskStatus
<1>7. ASSUME Sleep PROVE TypeOK'
  BY <1>7 DEF Sleep, ReturnToHost, TypeOK, Outcomes
<1>8. ASSUME WorkerEnds PROVE TypeOK'
  <2>1. /\ readyQueue' \in Seq(TaskSlots)
        /\ current' \in Slots
        /\ phase' \in {"host", "dispatch", "exec"}
        /\ outcome' \in Outcomes /\ recovered' = FALSE
    BY <1>8, ScheduleType DEF WorkerEnds, Outcomes
  <2> QED
    BY <1>8, <2>1 DEF WorkerEnds, TypeOK, TaskStatus
<1>9. ASSUME NEW r \in {"completed", "error"}, MainEnds(r) PROVE TypeOK'
  BY <1>9 DEF MainEnds, ReturnToHost, TypeOK, Outcomes
<1>10. ASSUME CallTorn PROVE TypeOK'
  BY <1>10 DEF CallTorn, ReturnToHost, TypeOK, Outcomes
<1>11. ASSUME Dispatch PROVE TypeOK'
  BY <1>11 DEF Dispatch, TypeOK, TaskStatus
<1>12. ASSUME Reset PROVE TypeOK'
  BY <1>e, <1>12 DEF Reset, ResetTable, TypeOK, TaskStatus, VmStates, Outcomes
<1>13. ASSUME RunPath PROVE TypeOK'
  BY <1>0, <1>e, <1>13 DEF RunPath, ResetTable, TypeOK, TaskStatus, VmStates, Outcomes
<1>14. ASSUME DeadlinePasses PROVE TypeOK'
  BY <1>14 DEF DeadlinePasses, taskVars, TypeOK
<1>15. ASSUME ContinueRun PROVE TypeOK'
  BY <1>15 DEF ContinueRun, taskVars, TypeOK
<1>16. ASSUME CallGlobal PROVE TypeOK'
  BY <1>16 DEF CallGlobal, taskVars, TypeOK
<1>17. ASSUME RunIncremental PROVE TypeOK'
  BY <1>17 DEF RunIncremental, taskVars, TypeOK
<1>18. ASSUME UNCHANGED vars PROVE TypeOK'
  BY <1>18 DEF vars, taskVars, hostVars, TypeOK
<1>19. ASSUME RecoverPanic PROVE TypeOK'
  BY <1>19 DEF RecoverPanic, taskVars, TypeOK
<1>20. ASSUME ReceiveBlockNested PROVE TypeOK'
  <2>1. /\ readyQueue' \in Seq(TaskSlots)
        /\ current' \in Slots
        /\ phase' \in {"host", "dispatch", "exec"}
        /\ outcome' \in Outcomes /\ recovered' = FALSE
    BY <1>20, ScheduleType DEF ReceiveBlockNested, ReturnToHost, TypeOK, Outcomes
  <2> QED
    BY <1>20, <2>1 DEF ReceiveBlockNested, TypeOK, TaskStatus
<1>21. ASSUME SleepFails PROVE TypeOK'
  BY <1>21 DEF SleepFails, ReturnToHost, TypeOK, Outcomes
<1> QED
  BY <1>1, <1>2, <1>3, <1>4, <1>5, <1>6, <1>7, <1>8, <1>9, <1>10, <1>11,
     <1>12, <1>13, <1>14, <1>15, <1>16, <1>17, <1>18, <1>19, <1>20,
     <1>21
  DEF Next, HostStep, TaskStep, OwnStep, TurnEnds

\* Type correctness of the task table, the queue, the mailboxes and the host's
\* view of a run, through every entry point of the Runtime.
THEOREM TypeCorrect == Spec => []TypeOK
BY TypeInit, TypeStep, PTL DEF Spec
----------------------------------------------------------------------------
(* No wake-up is lost.                                                     *)

\* Every step that parks a task finds its mailbox empty, every delivery wakes.
LEMMA WakeupStep == TypeOK /\ NoLostWakeup /\ [Next]_vars => NoLostWakeup'
<1> SUFFICES ASSUME TypeOK, NoLostWakeup, [Next]_vars PROVE NoLostWakeup'
  OBVIOUS
<1> USE SlotFacts
<1>1. ASSUME NEW s \in TaskSlots,
             Spawn(s) \/ SpawnOutOfMemory(s) \/ SpawnRejected(s)
      PROVE  NoLostWakeup'
  BY <1>1 DEF Spawn, EnqueueReady, SpawnOutOfMemory, SpawnRejected, NoLostWakeup, TypeOK
<1>2. ASSUME NEW r \in HeldRefs, NEW m \in Payloads, Send(r, m) \/ SendStrands(r, m)
      PROVE  NoLostWakeup'
  <2>1. PICK s \in TaskSlots : Deliver(s, m) \/ DeliverStrands(s, m)
    BY <1>2 DEF Send, SendStrands
  <2> QED
    BY <2>1 DEF Deliver, DeliverStrands, EnqueueReady, EnqueueReadyFails, NoLostWakeup,
       TypeOK
<1>3. ASSUME ReceiveMessage PROVE NoLostWakeup'
  BY <1>3 DEF ReceiveMessage, NoLostWakeup, TypeOK
<1>4. ASSUME ReceiveBlock \/ ReceiveBlockNested PROVE NoLostWakeup'
  BY <1>4 DEF ReceiveBlock, ReceiveBlockNested, NoLostWakeup, TypeOK
<1>5. ASSUME Sleep \/ SleepFails \/ RecoverPanic \/ CallTorn
             \/ DeadlinePasses \/ ContinueRun \/ CallGlobal
             \/ RunIncremental \/ (\E r \in {"completed", "error"} : MainEnds(r))
             \/ UNCHANGED vars
      PROVE  NoLostWakeup'
  BY <1>5 DEF Sleep, SleepFails, RecoverPanic, CallTorn, DeadlinePasses, ContinueRun, CallGlobal,
     RunIncremental, MainEnds, vars, taskVars, NoLostWakeup
<1>6. ASSUME WorkerEnds \/ Dispatch PROVE NoLostWakeup'
  BY <1>6 DEF WorkerEnds, Dispatch, NoLostWakeup, TypeOK
<1>7. ASSUME Reset \/ RunPath PROVE NoLostWakeup'
  BY <1>7 DEF Reset, RunPath, ResetTable, NoLostWakeup
<1> QED
  BY <1>1, <1>2, <1>3, <1>4, <1>5, <1>6, <1>7
  DEF Next, HostStep, TaskStep, OwnStep, TurnEnds

\* A task parked in receive() never sits on an unreceived message, whoever sends
\* to it: the wake-up in send covers every path that fills a mailbox.
THEOREM NoWakeupIsLost == Spec => []NoLostWakeup
<1>1. Init => NoLostWakeup
  BY DEF Init, NoLostWakeup
<1> QED
  BY <1>1, WakeupStep, TypeCorrect, PTL DEF Spec
----------------------------------------------------------------------------
(* The ready queue, as a set.                                              *)

Elems(q)     == {q[i] : i \in DOMAIN q}
Injective(q) == \A i, j \in DOMAIN q : q[i] = q[j] => i = j

\* The empty queue.
LEMMA EmptyElems == Elems(<< >>) = {} /\ Injective(<< >>)
BY SMT DEF Elems, Injective

\* Queueing a slot that is not queued.
LEMMA AppendElems ==
    ASSUME NEW q \in Seq(TaskSlots), NEW s \in TaskSlots
    PROVE  /\ Elems(Append(q, s)) = Elems(q) \cup {s}
           /\ Injective(q) /\ s \notin Elems(q) => Injective(Append(q, s))
<1>1. /\ DOMAIN Append(q, s) = 1 .. Len(q) + 1
      /\ Append(q, s)[Len(q) + 1] = s
      /\ \A i \in 1 .. Len(q) : Append(q, s)[i] = q[i]
      /\ DOMAIN q = 1 .. Len(q) /\ Len(q) \in Nat
  BY AppendProperties, LenProperties
<1> QED
  BY <1>1, SMT DEF Elems, Injective

\* Taking the first slot of the queue.
LEMMA TailElems ==
    ASSUME NEW q \in Seq(TaskSlots), q # << >>, Injective(q)
    PROVE  /\ Head(q) \in Elems(q)
           /\ Elems(Tail(q)) = Elems(q) \ {Head(q)}
           /\ Injective(Tail(q))
<1>1. /\ DOMAIN q = 1 .. Len(q) /\ Len(q) \in Nat /\ Len(q) > 0
      /\ Head(q) = q[1]
      /\ Tail(q) \in Seq(TaskSlots)
      /\ Len(Tail(q)) = Len(q) - 1
      /\ \A i \in 1 .. Len(q) - 1 : Tail(q)[i] = q[i + 1]
  BY HeadTailProperties, LenProperties, EmptySeq, SMT
<1>2. DOMAIN Tail(q) = 1 .. Len(q) - 1
  BY <1>1, LenProperties
<1>3. \A i \in 2 .. Len(q) : i - 1 \in 1 .. Len(q) - 1 /\ Tail(q)[i - 1] = q[i]
  BY <1>1, SMT
<1>4. Elems(Tail(q)) = Elems(q) \ {Head(q)}
  <2>1. ASSUME NEW x \in Elems(Tail(q)) PROVE x \in Elems(q) \ {Head(q)}
    BY <1>1, <1>2, <2>1, SMT DEF Elems, Injective
  <2>2. ASSUME NEW x \in Elems(q) \ {Head(q)} PROVE x \in Elems(Tail(q))
    <3>1. PICK i \in 1 .. Len(q) : x = q[i]
      BY <1>1, <2>2 DEF Elems
    <3>2. i \in 2 .. Len(q)
      BY <1>1, <2>2, <3>1, SMT
    <3> QED
      BY <1>2, <1>3, <3>1, <3>2 DEF Elems
  <2> QED
    BY <2>1, <2>2
<1>5. Injective(Tail(q))
  BY <1>1, <1>2, SMT DEF Injective
<1>6. Head(q) \in Elems(q)
  <2>1. 1 \in 1 .. Len(q)
    BY <1>1, SMT
  <2> QED
    BY <1>1, <2>1 DEF Elems
<1> QED
  BY <1>4, <1>5, <1>6
----------------------------------------------------------------------------
(* The scheduling loop.                                                    *)

HasFrame(s) == vs[s] \in {"main", "task"}

\* SchedulerInv with the ready queue as a set, and a part for each relation
\* between the queue, the status of the slots and the phase of the loop.
QueueSound ==
    /\ Injective(readyQueue)
    /\ \A s \in Elems(readyQueue) : status[s] = "ready" /\ HasFrame(s)
QueueComplete ==
    \A s \in Slots : status[s] = "ready" /\ vs[s] # "fresh" =>
        s \in Elems(readyQueue) \/ (phase = "dispatch" /\ s = current) \/ s \in stranded
StrandedSound ==
    \A s \in stranded : /\ status[s] = "ready" /\ HasFrame(s) /\ mailbox[s] # << >>
                        /\ s \notin Elems(readyQueue)
LoopSound ==
    /\ phase = "dispatch" =>
          /\ driver = "scheduler" /\ status[current] = "ready"
          /\ HasFrame(current) /\ current \notin Elems(readyQueue)
          /\ current \notin stranded
    /\ phase = "exec" /\ driver = "scheduler" =>
          status[current] = "running" /\ HasFrame(current)
    /\ \A s \in Slots : status[s] = "running" => s = current
ParkedHasFrame == \A s \in Slots : status[s] = "blocked_receive" => HasFrame(s)
WholePrograms ==
    driver # "incremental" /\ (sleep # "none" => phase = "host")

QInv == /\ TypeOK /\ QueueSound /\ QueueComplete /\ StrandedSound /\ LoopSound
        /\ SleeperIsCurrent /\ MainKeepsItsSlot /\ ParkedHasFrame
        /\ WholePrograms

\* QInv is SchedulerInv with the queue as a set.
LEMMA QInvImplies == QInv => SchedulerInv
<1> SUFFICES ASSUME QInv PROVE SchedulerInv
  OBVIOUS
<1> USE DEF QInv, HasFrame
<1>1. \A i \in DOMAIN readyQueue : readyQueue[i] \in Elems(readyQueue)
  BY DEF Elems
<1>2. \A s \in Elems(readyQueue) : \E i \in DOMAIN readyQueue : readyQueue[i] = s
  BY DEF Elems
<1>3. QueuedOnce
  BY <1>1 DEF QueuedOnce, QueueSound, Injective
<1>4. ReadyIsQueued
  BY <1>2 DEF ReadyIsQueued, QueueComplete
<1>5. CurrentIsRunnable
  BY <1>1 DEF CurrentIsRunnable, LoopSound
<1>6. StrandedStayStranded
  BY <1>1 DEF StrandedStayStranded, StrandedSound
<1> QED
  BY <1>3, <1>4, <1>5, <1>6 DEF SchedulerInv, ParkedHasFrame, WholePrograms

\* QInv holds initially.
LEMMA QInvInit == Init => QInv
<1> SUFFICES ASSUME Init PROVE QInv
  OBVIOUS
<1>1. Elems(readyQueue) = {} /\ Injective(readyQueue)
  BY EmptyElems DEF Init
<1> QED
  BY <1>1, TypeInit, SlotFacts
  DEF Init, QInv, QueueSound, QueueComplete, StrandedSound, LoopSound,
      SleeperIsCurrent, MainKeepsItsSlot, ParkedHasFrame, WholePrograms

\* A new task in a free slot.
LEMMA SpawnKeepsQInv ==
    ASSUME QInv, NEW s \in TaskSlots, TypeOK',
           Spawn(s) \/ SpawnOutOfMemory(s) \/ SpawnRejected(s)
    PROVE  QInv'
<1> USE SlotFacts DEF QInv, HasFrame
<1>1. s \in Slots /\ status[s] \in {"empty", "dead"} /\ phase = "exec"
  BY DEF Spawn, SpawnOutOfMemory, SpawnRejected, IsFirstFree, FreeSlots, IsAlive,
     TypeOK
<1>2. s \notin Elems(readyQueue) /\ s # MainSlot /\ s \notin stranded
  BY <1>1 DEF QueueSound, StrandedSound, MainKeepsItsSlot, IsAlive
<1>m. stranded' = stranded /\ mailbox' = [mailbox EXCEPT ![s] = << >>]
  BY DEF Spawn, EnqueueReady, SpawnOutOfMemory, SpawnRejected
<1>3. phase' # "dispatch" /\ current' = current /\ driver' = driver
      /\ sleep' = sleep /\ sleep = "none"
  BY <1>1 DEF Spawn, SpawnOutOfMemory, SpawnRejected, AfterInstruction, hostVars,
     WholePrograms
<1>4. driver = "scheduler" \/ driver = "continue" => s # current
  BY <1>1 DEF LoopSound, SleeperIsCurrent
<1>p. phase' = "exec" => phase = "exec"
  BY <1>1
<1>5. CASE Spawn(s)
  <2>1. Elems(readyQueue') = Elems(readyQueue) \cup {s} /\ Injective(readyQueue')
    BY <1>2, <1>5, AppendElems DEF Spawn, EnqueueReady, TypeOK, QueueSound
  <2>2. /\ status' = [status EXCEPT ![s] = "ready"]
        /\ vs' = [vs EXCEPT ![s] = "task"]
    BY <1>5 DEF Spawn, EnqueueReady
  <2>3. QueueSound'
    BY <1>2, <2>1, <2>2, SMTT(30) DEF QueueSound, TypeOK
  <2>4. QueueComplete'
    BY <1>1, <1>3, <1>m, <2>1, <2>2 DEF QueueComplete, TypeOK
  <2>s. StrandedSound'
    BY <1>1, <1>2, <1>m, <2>1, <2>2 DEF StrandedSound, TypeOK
  <2>5. LoopSound'
    BY <1>1, <1>3, <1>4, <2>2 DEF LoopSound, TypeOK
  <2>6. SleeperIsCurrent' /\ MainKeepsItsSlot'
    BY <1>1, <1>2, <1>3, <2>2 DEF SleeperIsCurrent, MainKeepsItsSlot, IsAlive, TypeOK
  <2>7. ParkedHasFrame' /\ WholePrograms'
    BY <1>1, <1>3, <2>2 DEF ParkedHasFrame, WholePrograms, TypeOK
  <2> QED
    BY <2>3, <2>4, <2>s, <2>5, <2>6, <2>7
<1>6. CASE SpawnOutOfMemory(s) \/ SpawnRejected(s)
  <2>1. readyQueue' = readyQueue /\ phase' = phase /\ outcome' = outcome
    BY <1>6 DEF SpawnOutOfMemory, SpawnRejected, hostVars
  <2>2. \E x \in {"empty", "ready"}, v \in {"none", "fresh"} :
           /\ status' = [status EXCEPT ![s] = x]
           /\ vs' = [vs EXCEPT ![s] = v]
           /\ x = "ready" => v = "fresh"
    BY <1>6 DEF SpawnOutOfMemory, SpawnRejected
  <2>3. QueueSound'
    BY <1>2, <2>1, <2>2 DEF QueueSound, TypeOK
  <2>4. QueueComplete'
    BY <1>1, <1>3, <1>m, <2>1, <2>2 DEF QueueComplete, TypeOK
  <2>s. StrandedSound'
    BY <1>1, <1>2, <1>m, <2>1, <2>2 DEF StrandedSound, TypeOK
  <2>5. LoopSound'
    BY <1>1, <1>3, <1>4, <2>1, <2>2 DEF LoopSound, TypeOK
  <2>6. SleeperIsCurrent' /\ MainKeepsItsSlot'
    BY <1>1, <1>2, <1>3, <2>1, <2>2
    DEF SleeperIsCurrent, MainKeepsItsSlot, IsAlive, TypeOK
  <2>7. ParkedHasFrame' /\ WholePrograms'
    BY <1>1, <1>3, <2>1, <2>2 DEF ParkedHasFrame, WholePrograms, TypeOK
  <2> QED
    BY <2>3, <2>4, <2>s, <2>5, <2>6, <2>7
<1> QED
  BY <1>5, <1>6

\* send, with or without a parked receiver to wake, and with or without room in
\* the queue for it.
LEMMA SendKeepsQInv ==
    ASSUME QInv, TypeOK', NEW r \in HeldRefs, NEW m \in Payloads,
           Send(r, m) \/ SendStrands(r, m)
    PROVE  QInv'
<1> USE SlotFacts DEF QInv, HasFrame
<1>1. PICK s \in TaskSlots : m \in Sendable /\ (Deliver(s, m) \/ DeliverStrands(s, m))
  BY DEF Send, SendStrands, Reaches, IsSendable
<1>2. /\ phase = "exec"
      /\ vs' = vs /\ current' = current /\ driver' = driver /\ sleep' = sleep
      /\ phase' # "dispatch" /\ sleep = "none"
  <2>1. CASE Send(r, m)
    BY <2>1 DEF Send, AfterInstruction, WholePrograms
  <2>2. CASE SendStrands(r, m)
    BY <2>2 DEF SendStrands, hostVars, WholePrograms
  <2> QED
    BY <2>1, <2>2
<1>3. \A t \in Slots : mailbox[t] # << >> => mailbox'[t] # << >>
  <2>1. mailbox' = [mailbox EXCEPT ![s] = Append(@, m)]
    BY <1>1 DEF Deliver, DeliverStrands
  <2>2. mailbox[s] \in Seq(Sendable)
    BY SlotFacts DEF TypeOK
  <2>3. Append(mailbox[s], m) # << >>
    BY <1>1, <2>2, AppendProperties
  <2> QED
    BY <2>1, <2>3 DEF TypeOK
<1>4. CASE Deliver(s, m) /\ status[s] = "blocked_receive"
  <2>1. /\ status' = [status EXCEPT ![s] = "ready"] /\ readyQueue' = Append(readyQueue, s)
        /\ stranded' = stranded
    BY <1>4 DEF Deliver, EnqueueReady
  <2>2. s \notin Elems(readyQueue) /\ s \notin stranded
    BY <1>4 DEF QueueSound, StrandedSound
  <2>3. Elems(readyQueue') = Elems(readyQueue) \cup {s} /\ Injective(readyQueue')
    BY <1>1, <2>1, <2>2, AppendElems DEF TypeOK, QueueSound
  <2>4. QueueSound' /\ QueueComplete'
    BY <1>1, <1>2, <1>4, <2>1, <2>3
    DEF QueueSound, QueueComplete, ParkedHasFrame, TypeOK
  <2>5. StrandedSound'
    BY <1>2, <1>3, <2>1, <2>2, <2>3 DEF StrandedSound, TypeOK
  <2>6. LoopSound'
    BY <1>1, <1>2, <1>4, <2>1 DEF LoopSound, TypeOK
  <2>7. SleeperIsCurrent' /\ MainKeepsItsSlot'
    BY <1>1, <1>2, <1>4, <2>1 DEF SleeperIsCurrent, MainKeepsItsSlot, IsAlive, TypeOK
  <2>8. ParkedHasFrame' /\ WholePrograms'
    BY <1>1, <1>2, <2>1 DEF ParkedHasFrame, WholePrograms, TypeOK
  <2> QED
    BY <2>4, <2>5, <2>6, <2>7, <2>8
<1>5. CASE DeliverStrands(s, m)
  <2>1. /\ status[s] = "blocked_receive"
        /\ status' = [status EXCEPT ![s] = "ready"] /\ readyQueue' = readyQueue
        /\ stranded' = stranded \cup {s}
    BY <1>5 DEF DeliverStrands, EnqueueReadyFails
  <2>2. s \notin Elems(readyQueue) /\ HasFrame(s)
    BY <2>1 DEF QueueSound, ParkedHasFrame
  <2>3. QueueSound' /\ QueueComplete'
    BY <1>1, <1>2, <2>1, <2>2 DEF QueueSound, QueueComplete, TypeOK
  <2>4. mailbox'[s] # << >>
    <3>1. mailbox[s] \in Seq(Sendable)
      BY SlotFacts DEF TypeOK
    <3>2. Append(mailbox[s], m) # << >>
      BY <1>1, <3>1, AppendProperties
    <3> QED
      BY <1>5, <3>2 DEF DeliverStrands, TypeOK
  <2>5. StrandedSound'
    BY <1>2, <1>3, <2>1, <2>2, <2>4 DEF StrandedSound, TypeOK
  <2>6. LoopSound'
    BY <1>1, <1>2, <2>1 DEF LoopSound, TypeOK
  <2>7. SleeperIsCurrent' /\ MainKeepsItsSlot'
    BY <1>1, <1>2, <2>1 DEF SleeperIsCurrent, MainKeepsItsSlot, IsAlive, TypeOK
  <2>8. ParkedHasFrame' /\ WholePrograms'
    BY <1>1, <1>2, <2>1 DEF ParkedHasFrame, WholePrograms, TypeOK
  <2> QED
    BY <2>3, <2>5, <2>6, <2>7, <2>8
<1>6. CASE Deliver(s, m) /\ status[s] # "blocked_receive"
  <2>1. status' = status /\ readyQueue' = readyQueue /\ stranded' = stranded
    BY <1>6 DEF Deliver
  <2>2. StrandedSound'
    BY <1>2, <1>3, <2>1 DEF StrandedSound, TypeOK
  <2> QED
    BY <1>2, <2>1, <2>2
    DEF QueueSound, QueueComplete, LoopSound, SleeperIsCurrent, MainKeepsItsSlot,
        IsAlive, ParkedHasFrame, WholePrograms
<1> QED
  BY <1>1, <1>4, <1>5, <1>6

\* The current task stops running - parked, or dead - and the loop takes the
\* next one from the queue or ends.
LEMMA ScheduleKeepsQInv ==
    ASSUME QInv, TypeOK', phase = "exec", driver = "scheduler",
           NEW x \in {"blocked_receive", "dead"}, NEW r \in Outcomes,
           status' = [status EXCEPT ![current] = x],
           x = "dead" => current # MainSlot,
           ScheduleNextOr(r),
           stranded' = stranded \/ stranded' = stranded \ {current},
           UNCHANGED <<vs, mailbox, driver, sleep>>
    PROVE  QInv'
<1> USE SlotFacts DEF QInv, HasFrame
<1>1. /\ status[current] = "running" /\ HasFrame(current) /\ sleep = "none"
      /\ current \in Slots /\ current \notin Elems(readyQueue)
      /\ current \notin stranded /\ stranded' = stranded
  BY DEF LoopSound, QueueSound, StrandedSound, WholePrograms, TypeOK
<1>2. IsAlive(MainSlot)' /\ vs[MainSlot] = "main"
  BY <1>1 DEF MainKeepsItsSlot, IsAlive, TypeOK
<1>3. CASE readyQueue # << >>
  <2>1. /\ current' = Head(readyQueue) /\ readyQueue' = Tail(readyQueue)
        /\ phase' = "dispatch" /\ outcome' = outcome
    BY <1>3 DEF ScheduleNextOr
  <2>2. /\ current' \in Elems(readyQueue)
        /\ Elems(readyQueue') = Elems(readyQueue) \ {current'}
        /\ Injective(readyQueue')
    BY <1>3, <2>1, TailElems DEF QueueSound, TypeOK
  <2>3. QueueSound' /\ QueueComplete'
    BY <1>1, <2>1, <2>2, SMTT(30) DEF QueueSound, QueueComplete, TypeOK
  <2>s. StrandedSound'
    BY <1>1, <2>1, <2>2 DEF StrandedSound, TypeOK
  <2>4. LoopSound'
    BY <1>1, <2>1, <2>2 DEF LoopSound, QueueSound, StrandedSound, TypeOK
  <2>5. SleeperIsCurrent' /\ MainKeepsItsSlot' /\ WholePrograms'
    BY <1>1, <1>2, <2>1 DEF SleeperIsCurrent, MainKeepsItsSlot, WholePrograms
  <2>6. ParkedHasFrame'
    BY <1>1 DEF ParkedHasFrame, TypeOK
  <2> QED
    BY <2>3, <2>s, <2>4, <2>5, <2>6
<1>4. CASE readyQueue = << >>
  <2>1. /\ current' = current /\ readyQueue' = readyQueue /\ phase' = "host"
    BY <1>4 DEF ScheduleNextOr
  <2>2. QueueSound' /\ QueueComplete' /\ StrandedSound'
    BY <1>1, <2>1 DEF QueueSound, QueueComplete, StrandedSound, TypeOK
  <2>3. LoopSound'
    BY <1>1, <2>1 DEF LoopSound, TypeOK
  <2>4. SleeperIsCurrent' /\ MainKeepsItsSlot' /\ WholePrograms'
    BY <1>1, <1>2, <2>1 DEF SleeperIsCurrent, MainKeepsItsSlot, WholePrograms
  <2>5. ParkedHasFrame'
    BY <1>1 DEF ParkedHasFrame, TypeOK
  <2> QED
    BY <2>2, <2>3, <2>4, <2>5
<1> QED
  BY <1>3, <1>4

\* The steps that return to the host without touching the table.
LEMMA ReturnKeepsQInv ==
    ASSUME QInv, TypeOK', phase = "exec", phase' = "host",
           UNCHANGED <<status, vs, mailbox, readyQueue, stranded, current, driver>>,
           sleep' = sleep \/ (OnMainVm /\ driver \in {"scheduler", "continue"})
    PROVE  QInv'
<1> USE SlotFacts DEF QInv, HasFrame
<1>1. IsAlive(MainSlot) /\ vs[MainSlot] = "main" /\ sleep = "none"
  BY DEF MainKeepsItsSlot, WholePrograms
<1>2. sleep' # sleep =>
        current = MainSlot /\ status[MainSlot] = "running" /\ vs[MainSlot] = "main"
  BY <1>1 DEF OnMainVm, LoopSound, SleeperIsCurrent
<1> QED
  BY <1>1, <1>2
  DEF QueueSound, QueueComplete, StrandedSound, LoopSound, SleeperIsCurrent, MainKeepsItsSlot,
      IsAlive, ParkedHasFrame, WholePrograms

\* Main parks and the host gets control back.
LEMMA ParkedMainKeepsQInv ==
    ASSUME QInv, TypeOK', phase = "exec", phase' = "host", sleep = "none",
           current = MainSlot, status[current] = "running", vs[current] = "main",
           status' = [status EXCEPT ![current] = "blocked_receive"],
           stranded' = stranded \ {current},
           UNCHANGED <<vs, mailbox, readyQueue, current, driver, sleep>>
    PROVE  QInv'
<1> USE SlotFacts DEF QInv, HasFrame
<1>1. QueueSound' /\ QueueComplete' /\ StrandedSound'
  BY DEF QueueSound, QueueComplete, StrandedSound, TypeOK
<1>2. LoopSound' /\ ParkedHasFrame' /\ WholePrograms'
  BY DEF LoopSound, ParkedHasFrame, WholePrograms, TypeOK
<1>3. SleeperIsCurrent' /\ MainKeepsItsSlot'
  BY DEF SleeperIsCurrent, MainKeepsItsSlot, IsAlive, TypeOK
<1> QED
  BY <1>1, <1>2, <1>3

\* QInv is kept by every step, for hosts that run whole programs.
LEMMA QInvStep ==
    ASSUME "incremental" \notin HostOps, QInv, [Next]_vars
    PROVE  QInv'
<1> USE SlotFacts DEF QInv, HasFrame
<1>t. TypeOK'
  BY TypeStep
<1>1. ASSUME NEW s \in TaskSlots,
             Spawn(s) \/ SpawnOutOfMemory(s) \/ SpawnRejected(s)
      PROVE  QInv'
  BY <1>t, <1>1, SpawnKeepsQInv
<1>2. ASSUME NEW r \in HeldRefs, NEW m \in Payloads, Send(r, m) \/ SendStrands(r, m)
      PROVE  QInv'
  BY <1>t, <1>2, SendKeepsQInv
<1>3. ASSUME ReceiveMessage PROVE QInv'
  <2>1. status[current] = "running"
    BY <1>3 DEF ReceiveMessage, MayReceive, LoopSound, SleeperIsCurrent, WholePrograms,
       TypeOK
  <2>2. StrandedSound'
    BY <1>3, <2>1 DEF ReceiveMessage, StrandedSound, TypeOK
  <2> QED
    BY <1>t, <1>3, <2>2
    DEF ReceiveMessage, QueueSound, QueueComplete, LoopSound, SleeperIsCurrent,
        MainKeepsItsSlot, IsAlive, ParkedHasFrame, WholePrograms
<1>4. ASSUME ReceiveBlock PROVE QInv'
  <2>0. phase = "exec" /\ driver \in {"scheduler", "continue"}
    BY <1>4 DEF ReceiveBlock, MayReceive, WholePrograms, TypeOK
  <2>1. CASE driver = "scheduler"
    <3>1. ScheduleNextOr("TaskDeadlock")
      BY <1>4, <2>1 DEF ReceiveBlock
    <3> QED
      BY <1>t, <1>4, <2>0, <2>1, <3>1, ScheduleKeepsQInv DEF ReceiveBlock, Outcomes
  <2>2. CASE driver = "continue"
    <3>1. /\ phase' = "host" /\ current' = current /\ readyQueue' = readyQueue
          /\ vs' = vs /\ driver' = driver /\ sleep' = sleep /\ mailbox' = mailbox
          /\ stranded' = stranded \ {current}
          /\ status' = [status EXCEPT ![current] = "blocked_receive"]
      BY <1>4, <2>2 DEF ReceiveBlock, ReturnToHost
    <3>2. current = MainSlot /\ status[current] = "running" /\ vs[current] = "main"
      BY <2>0, <2>2 DEF SleeperIsCurrent
    <3>3. sleep = "none"
      BY <2>0 DEF WholePrograms
    <3> QED
      BY <1>t, <2>0, <3>1, <3>2, <3>3, ParkedMainKeepsQInv
  <2> QED
    BY <2>0, <2>1, <2>2
<1>12. ASSUME ReceiveBlockNested, ~OnMainVm PROVE QInv'
  <2>1. driver = "scheduler" /\ current # MainSlot /\ phase = "exec"
    BY <1>12 DEF ReceiveBlockNested, MayReceive, OnMainVm
  <2>2. ScheduleNextOr("completed") /\ "completed" \in Outcomes
    BY <1>12 DEF ReceiveBlockNested, Outcomes
  <2>3. /\ status' = [status EXCEPT ![current] = "dead"]
        /\ UNCHANGED <<vs, mailbox, driver, sleep>>
        /\ stranded' = stranded \ {current}
    BY <1>12 DEF ReceiveBlockNested
  <2> QED
    BY <1>t, <2>1, <2>2, <2>3, ScheduleKeepsQInv
<1>13. ASSUME ReceiveBlockNested, OnMainVm PROVE QInv'
  <2>1. /\ phase = "exec" /\ phase' = "host" /\ current' = current
        /\ readyQueue' = readyQueue /\ vs' = vs /\ driver' = driver /\ sleep' = sleep
        /\ mailbox' = mailbox /\ stranded' = stranded \ {current}
        /\ status' = [status EXCEPT ![current] = "blocked_receive"]
        /\ driver \in {"scheduler", "continue"}
    BY <1>13 DEF ReceiveBlockNested, MayReceive, ReturnToHost, WholePrograms, TypeOK
  <2>2. current = MainSlot /\ status[current] = "running" /\ vs[current] = "main"
    BY <1>13, <2>1 DEF OnMainVm, LoopSound, MainKeepsItsSlot, SleeperIsCurrent
  <2>3. sleep = "none"
    BY <2>1 DEF WholePrograms
  <2> QED
    BY <1>t, <2>1, <2>2, <2>3, ParkedMainKeepsQInv
<1>5. ASSUME WorkerEnds PROVE QInv'
  <2>1. driver = "scheduler" /\ current # MainSlot /\ phase = "exec"
    BY <1>5 DEF WorkerEnds, OnMainVm
  <2>2. ScheduleNextOr("completed") /\ "completed" \in Outcomes
    BY <1>5 DEF WorkerEnds, Outcomes
  <2>3. /\ status' = [status EXCEPT ![current] = "dead"]
        /\ UNCHANGED <<vs, mailbox, stranded, driver, sleep>>
    BY <1>5 DEF WorkerEnds
  <2> QED
    BY <1>t, <2>1, <2>2, <2>3, ScheduleKeepsQInv
<1>6. ASSUME Sleep \/ SleepFails \/ CallTorn
             \/ (\E r \in {"completed", "error"} : MainEnds(r))
      PROVE  QInv'
  <2>1. phase = "exec" /\ phase' = "host"
        /\ UNCHANGED <<status, vs, mailbox, readyQueue, stranded, current, driver>>
    BY <1>6 DEF Sleep, SleepFails, CallTorn, MainEnds, ReturnToHost
  <2>2. sleep' = sleep \/ (OnMainVm /\ driver \in {"scheduler", "continue"})
    BY <1>6 DEF Sleep, SleepFails, CallTorn, MainEnds, WholePrograms, TypeOK
  <2> QED
    BY <1>t, <2>1, <2>2, ReturnKeepsQInv
<1>7. ASSUME Dispatch PROVE QInv'
  <2>1. /\ phase = "dispatch" /\ phase' = "exec"
        /\ status' = [status EXCEPT ![current] = "running"]
        /\ UNCHANGED <<vs, mailbox, readyQueue, stranded, current, driver, sleep, outcome>>
    BY <1>7 DEF Dispatch
  <2>2. QueueSound' /\ QueueComplete' /\ StrandedSound'
    BY <2>1 DEF QueueSound, QueueComplete, StrandedSound, LoopSound, TypeOK
  <2>3. LoopSound'
    BY <2>1 DEF QueueSound, QueueComplete, LoopSound, TypeOK
  <2>4. SleeperIsCurrent' /\ MainKeepsItsSlot'
    BY <2>1 DEF SleeperIsCurrent, MainKeepsItsSlot, LoopSound, WholePrograms,
                IsAlive, TypeOK
  <2>5. ParkedHasFrame' /\ WholePrograms'
    BY <2>1 DEF ParkedHasFrame, WholePrograms, TypeOK
  <2> QED
    BY <1>t, <2>2, <2>3, <2>4, <2>5
<1>8. ASSUME Reset PROVE QInv'
  <2>1. Elems(readyQueue') = {} /\ Injective(readyQueue')
    BY <1>8, EmptyElems DEF Reset, ResetTable
  <2> QED
    BY <1>t, <1>8, <2>1
    DEF Reset, ResetTable, QueueSound, QueueComplete, StrandedSound, LoopSound,
        SleeperIsCurrent,
        MainKeepsItsSlot, IsAlive, ParkedHasFrame, WholePrograms
<1>9. ASSUME RunPath PROVE QInv'
  <2>1. Elems(readyQueue') = {} /\ Injective(readyQueue')
    BY <1>9, EmptyElems DEF RunPath, ResetTable
  <2>2. /\ status' = [s \in Slots |-> IF s = MainSlot THEN "ready" ELSE "empty"]
        /\ vs' = [s \in Slots |-> IF s = MainSlot THEN "main" ELSE "none"]
        /\ current' = MainSlot /\ phase' = "dispatch" /\ driver' = "scheduler"
        /\ sleep' = "none" /\ stranded' = {}
    BY <1>9 DEF RunPath, ResetTable
  <2> QED
    BY <1>t, <2>1, <2>2
    DEF QueueSound, QueueComplete, StrandedSound, LoopSound, SleeperIsCurrent,
        MainKeepsItsSlot, IsAlive, ParkedHasFrame, WholePrograms
<1>10. ASSUME DeadlinePasses \/ ContinueRun \/ CallGlobal \/ RecoverPanic
              \/ UNCHANGED vars
       PROVE  QInv'
  BY <1>t, <1>10
  DEF DeadlinePasses, ContinueRun, CallGlobal, RecoverPanic, vars, taskVars, hostVars,
      QueueSound, QueueComplete, StrandedSound, LoopSound, SleeperIsCurrent,
      MainKeepsItsSlot, IsAlive, ParkedHasFrame, WholePrograms
<1>11. ~RunIncremental
  BY DEF RunIncremental
<1> QED
  BY <1>1, <1>2, <1>3, <1>4, <1>5, <1>6, <1>7, <1>8, <1>9, <1>10, <1>11,
     <1>12, <1>13
  DEF Next, HostStep, TaskStep, OwnStep, TurnEnds

\* For hosts that run whole programs, suspend and resume them and call into them:
\* the queue holds each waiting task exactly once, but for those whose wake-up
\* found it unable to grow, which stay as they are; the loop only dispatches a
\* task that is waiting and has a frame, and a sleeping main is resumed on its
\* own vm_state.
THEOREM SchedulerIsSafe ==
    ASSUME "incremental" \notin HostOps
    PROVE  Spec => []SchedulerInv
<1>1. QInv /\ [Next]_vars => QInv'
  BY QInvStep
<1> QED
  BY QInvInit, <1>1, QInvImplies, PTL DEF Spec
----------------------------------------------------------------------------
(* What the scheduling loop reports, and what references mean.             *)

\* TaskDeadlock is reported with an empty queue; nothing wakes a task after that.
LEMMA DeadlockStep ==
    ASSUME "incremental" \notin HostOps,
           QInv, NoLostWakeup, DeadlockIsReal, [Next]_vars
    PROVE  DeadlockIsReal'
<1> USE SlotFacts DEF QInv
<1>1. ASSUME ReceiveBlock, driver = "scheduler", readyQueue = << >>
      PROVE  DeadlockIsReal'
  <2>1. Elems(readyQueue) = {}
    BY <1>1, EmptyElems
  <2>2. status' = [status EXCEPT ![current] = "blocked_receive"]
        /\ vs' = vs /\ mailbox' = mailbox
        /\ mailbox[current] = << >> /\ phase = "exec" /\ current' = current
        /\ stranded' = stranded \ {current}
    BY <1>1 DEF ReceiveBlock, MayReceive, ScheduleNextOr
  <2>3. \A s \in Slots \ {current} : IsAlive(s) /\ vs[s] # "fresh" =>
           (status[s] = "blocked_receive" /\ mailbox[s] = << >>) \/ s \in stranded
    BY <2>1, <2>2 DEF QueueComplete, LoopSound, NoLostWakeup, IsAlive, TypeOK, TaskStatus
  <2> QED
    BY <2>2, <2>3 DEF DeadlockIsReal, IsAlive, TypeOK
<1>2. ASSUME DeadlinePasses \/ UNCHANGED vars PROVE DeadlockIsReal'
  BY <1>2 DEF DeadlinePasses, vars, taskVars, hostVars, DeadlockIsReal, IsAlive
<1>3. ASSUME phase' # "host" \/ outcome' # "TaskDeadlock" PROVE DeadlockIsReal'
  BY <1>3 DEF DeadlockIsReal
<1>4. ASSUME NEW s \in TaskSlots,
             Spawn(s) \/ SpawnOutOfMemory(s) \/ SpawnRejected(s)
      PROVE  DeadlockIsReal'
  BY <1>3, <1>4 DEF Spawn, SpawnOutOfMemory, SpawnRejected, AfterInstruction, hostVars
<1>5. ASSUME NEW r \in HeldRefs, NEW m \in Payloads, Send(r, m) \/ SendStrands(r, m)
      PROVE  DeadlockIsReal'
  BY <1>3, <1>5 DEF Send, SendStrands, AfterInstruction, hostVars
<1>6. ASSUME ReceiveBlock PROVE DeadlockIsReal'
  <2>1. CASE driver = "continue"
    BY <1>3, <1>6, <2>1 DEF ReceiveBlock, ReturnToHost
  <2>2. CASE driver = "scheduler" /\ readyQueue # << >>
    BY <1>3, <1>6, <2>2 DEF ReceiveBlock, ScheduleNextOr
  <2> QED
    BY <1>1, <1>6, <2>1, <2>2 DEF ReceiveBlock, MayReceive, WholePrograms, TypeOK
<1>7. ASSUME ReceiveMessage \/ Dispatch \/ ContinueRun \/ CallGlobal
             \/ RunPath \/ Reset \/ RunIncremental
      PROVE  DeadlockIsReal'
  BY <1>3, <1>7 DEF ReceiveMessage, MayReceive, Dispatch, ContinueRun, CallGlobal,
     RunPath, Reset, RunIncremental
<1>8. ASSUME WorkerEnds \/ ReceiveBlockNested PROVE DeadlockIsReal'
  BY <1>3, <1>8 DEF WorkerEnds, ReceiveBlockNested, ReturnToHost, ScheduleNextOr
<1>9. ASSUME Sleep \/ SleepFails \/ CallTorn \/ RecoverPanic
             \/ (\E r \in {"completed", "error"} : MainEnds(r))
      PROVE  DeadlockIsReal'
  BY <1>3, <1>9 DEF Sleep, SleepFails, CallTorn, RecoverPanic, MainEnds, ReturnToHost
<1> QED
  BY <1>2, <1>4, <1>5, <1>6, <1>7, <1>8, <1>9
  DEF Next, HostStep, TaskStep, OwnStep, TurnEnds

\* TaskDeadlock is a false alarm only after a failed wake-up: when
\* driveTaskScheduler returns it, every task that could still run or be woken by a
\* message it has is one that enqueueReady could not append to the queue.
THEOREM DeadlockReportIsReal ==
    ASSUME "incremental" \notin HostOps
    PROVE  Spec => []DeadlockIsReal
<1>1. QInv /\ [Next]_vars => QInv'
  BY QInvStep
<1>2. QInv /\ NoLostWakeup /\ DeadlockIsReal /\ [Next]_vars => DeadlockIsReal'
  BY DeadlockStep
<1>3. Init => DeadlockIsReal
  BY DEF Init, DeadlockIsReal
<1> QED
  BY QInvInit, <1>1, <1>2, <1>3, NoWakeupIsLost, PTL DEF Spec

\* A slot comes alive only by a claim, which skips generation 0.
LEMMA GenerationStep ==
    ASSUME "incremental" \notin HostOps,
           QInv, LiveGenerationIsNotNull, [Next]_vars
    PROVE  LiveGenerationIsNotNull'
<1> USE SlotFacts DEF QInv, LiveGenerationIsNotNull, IsAlive
<1>0. \A s \in Slots : NextGeneration(generation[s]) # 0
  BY NextGenerationType DEF TypeOK
<1>1. ASSUME NEW s \in TaskSlots,
             Spawn(s) \/ SpawnOutOfMemory(s) \/ SpawnRejected(s)
      PROVE  LiveGenerationIsNotNull'
  BY <1>0, <1>1 DEF Spawn, EnqueueReady, SpawnOutOfMemory, SpawnRejected, TypeOK
<1>2. ASSUME NEW r \in HeldRefs, NEW m \in Payloads, Send(r, m) \/ SendStrands(r, m)
      PROVE  LiveGenerationIsNotNull'
  <2>1. PICK s \in TaskSlots : /\ Deliver(s, m) \/ DeliverStrands(s, m)
                               /\ IsAlive(s) /\ generation' = generation
    BY <1>2 DEF Send, SendStrands, Reaches
  <2> QED
    BY <2>1 DEF Deliver, DeliverStrands, EnqueueReady, EnqueueReadyFails, TypeOK
<1>3. ASSUME ReceiveBlock \/ ReceiveBlockNested PROVE LiveGenerationIsNotNull'
  <2>1. status[current] = "running"
    BY <1>3 DEF ReceiveBlock, ReceiveBlockNested, MayReceive, LoopSound,
       SleeperIsCurrent, WholePrograms, TypeOK
  <2> QED
    BY <1>3, <2>1 DEF ReceiveBlock, ReceiveBlockNested, TypeOK
<1>4. ASSUME Dispatch PROVE LiveGenerationIsNotNull'
  BY <1>4 DEF Dispatch, LoopSound, TypeOK
<1>5. ASSUME WorkerEnds PROVE LiveGenerationIsNotNull'
  BY <1>5 DEF WorkerEnds, TypeOK
<1>6. ASSUME RunPath \/ Reset PROVE LiveGenerationIsNotNull'
  BY <1>0, <1>6 DEF RunPath, Reset, TypeOK
<1>7. ASSUME ReceiveMessage \/ Sleep \/ SleepFails \/ RecoverPanic \/ CallTorn
             \/ DeadlinePasses \/ ContinueRun
             \/ CallGlobal \/ RunIncremental \/ UNCHANGED vars
             \/ (\E r \in {"completed", "error"} : MainEnds(r))
      PROVE  LiveGenerationIsNotNull'
  BY <1>7 DEF ReceiveMessage, Sleep, SleepFails, RecoverPanic, CallTorn,
     DeadlinePasses, ContinueRun,
     CallGlobal, RunIncremental, MainEnds, vars, taskVars
<1> QED
  BY <1>1, <1>2, <1>3, <1>4, <1>5, <1>6, <1>7
  DEF Next, HostStep, TaskStep, OwnStep, TurnEnds

\* No reference to a live task equals the null reference (generation 0), for any
\* generation width and however often slots are reused.
THEOREM LiveRefsAreNotNull ==
    ASSUME "incremental" \notin HostOps
    PROVE  Spec => []LiveGenerationIsNotNull
<1>1. QInv /\ [Next]_vars => QInv'
  BY QInvStep
<1>2. QInv /\ LiveGenerationIsNotNull /\ [Next]_vars => LiveGenerationIsNotNull'
  BY GenerationStep
<1>3. Init => LiveGenerationIsNotNull
  BY DEF Init, LiveGenerationIsNotNull, IsAlive, TaskSlots, Slots
<1> QED
  BY QInvInit, <1>1, <1>2, <1>3, PTL DEF Spec
----------------------------------------------------------------------------
(* The ready queue of any host.                                            *)

\* What popReady leaves in the queue, also of a queue with repetitions.
LEMMA PoppedElems ==
    ASSUME NEW q \in Seq(TaskSlots), q # << >>
    PROVE  Elems(q) \subseteq Elems(Tail(q)) \cup {Head(q)}
<1>1. /\ DOMAIN q = 1 .. Len(q) /\ Len(q) \in Nat /\ Len(q) > 0
      /\ Head(q) = q[1]
      /\ Tail(q) \in Seq(TaskSlots)
      /\ Len(Tail(q)) = Len(q) - 1
      /\ \A i \in 1 .. Len(q) - 1 : Tail(q)[i] = q[i + 1]
  BY HeadTailProperties, LenProperties, EmptySeq, SMT
<1>2. DOMAIN Tail(q) = 1 .. Len(q) - 1
  BY <1>1, LenProperties
<1>3. \A i \in 2 .. Len(q) : i - 1 \in 1 .. Len(q) - 1 /\ Tail(q)[i - 1] = q[i]
  BY <1>1, SMT
<1> SUFFICES ASSUME NEW x \in Elems(q), x # Head(q) PROVE x \in Elems(Tail(q))
  OBVIOUS
<1>4. PICK i \in 1 .. Len(q) : x = q[i]
  BY <1>1 DEF Elems
<1>5. i \in 2 .. Len(q)
  BY <1>1, <1>4, SMT
<1> QED
  BY <1>2, <1>3, <1>4, <1>5 DEF Elems

\* The end of a turn: current is no longer ready, and whoever leaves the queue is
\* the one that the loop dispatches.
LEMMA ScheduleKeepsComplete ==
    ASSUME TypeOK, QueueComplete, phase = "exec", vs' = vs,
           stranded' = stranded \/ stranded' = stranded \ {current},
           NEW st \in {"blocked_receive", "dead"}, status' = [status EXCEPT ![current] = st],
           \/ \E r \in Outcomes : ScheduleNextOr(r)
           \/ \E r \in Outcomes : ReturnToHost(r)
    PROVE  QueueComplete'
<1>1. CASE UNCHANGED readyQueue
  BY <1>1 DEF QueueComplete, TypeOK
<1>2. CASE /\ readyQueue # << >> /\ current' = Head(readyQueue)
           /\ readyQueue' = Tail(readyQueue) /\ phase' = "dispatch"
  <2>1. Elems(readyQueue) \subseteq Elems(readyQueue') \cup {current'}
    BY <1>2, PoppedElems DEF TypeOK
  <2> QED
    BY <1>2, <2>1 DEF QueueComplete, TypeOK
<1> QED
  BY <1>1, <1>2 DEF ScheduleNextOr, ReturnToHost

\* A ready task stays queued or chosen, for any host.
LEMMA CompleteStep == TypeOK /\ QueueComplete /\ [Next]_vars => QueueComplete'
<1> SUFFICES ASSUME TypeOK, QueueComplete, [Next]_vars PROVE QueueComplete'
  OBVIOUS
<1> USE SlotFacts
<1>1. ASSUME NEW s \in TaskSlots, Spawn(s) PROVE QueueComplete'
  <2>1. Elems(readyQueue') = Elems(readyQueue) \cup {s} /\ phase = "exec"
    BY <1>1, AppendElems DEF Spawn, EnqueueReady, TypeOK
  <2> QED
    BY <1>1, <2>1 DEF Spawn, EnqueueReady, QueueComplete, TypeOK
<1>2. ASSUME NEW s \in TaskSlots, SpawnOutOfMemory(s) \/ SpawnRejected(s)
      PROVE  QueueComplete'
  BY <1>2 DEF SpawnOutOfMemory, SpawnRejected, hostVars, QueueComplete, TypeOK
<1>3. ASSUME NEW r \in HeldRefs, NEW m \in Payloads, Send(r, m) \/ SendStrands(r, m)
      PROVE  QueueComplete'
  <2>1. PICK s \in TaskSlots : Deliver(s, m) \/ DeliverStrands(s, m)
    BY <1>3 DEF Send, SendStrands
  <2>2. phase = "exec" /\ vs' = vs /\ current' = current
    BY <1>3 DEF Send, SendStrands
  <2>3. CASE Deliver(s, m) /\ status[s] = "blocked_receive"
    <3>1. Elems(readyQueue') = Elems(readyQueue) \cup {s}
      BY <2>3, AppendElems DEF Deliver, EnqueueReady, TypeOK
    <3> QED
      BY <2>2, <2>3, <3>1 DEF Deliver, EnqueueReady, QueueComplete, TypeOK
  <2>4. CASE Deliver(s, m) /\ status[s] # "blocked_receive"
    BY <2>2, <2>4 DEF Deliver, QueueComplete
  <2>5. CASE DeliverStrands(s, m)
    BY <2>2, <2>5 DEF DeliverStrands, EnqueueReadyFails, QueueComplete, TypeOK
  <2> QED
    BY <2>1, <2>3, <2>4, <2>5
<1>4. ASSUME ReceiveBlock \/ ReceiveBlockNested \/ WorkerEnds PROVE QueueComplete'
  <2>1. /\ phase = "exec" /\ vs' = vs
        /\ \E st \in {"blocked_receive", "dead"} : status' = [status EXCEPT ![current] = st]
        /\ stranded' = stranded \/ stranded' = stranded \ {current}
    BY <1>4 DEF ReceiveBlock, ReceiveBlockNested, WorkerEnds, MayReceive
  <2>2. \/ \E r \in Outcomes : ScheduleNextOr(r)
        \/ \E r \in Outcomes : ReturnToHost(r)
    BY <1>4 DEF ReceiveBlock, ReceiveBlockNested, WorkerEnds, MayReceive, Outcomes, TypeOK
  <2> QED
    BY <2>1, <2>2, ScheduleKeepsComplete
<1>5. ASSUME Dispatch PROVE QueueComplete'
  BY <1>5 DEF Dispatch, QueueComplete, TypeOK
<1>6. ASSUME Reset \/ RunPath PROVE QueueComplete'
  BY <1>6 DEF Reset, RunPath, QueueComplete
<1>7. ASSUME \/ ReceiveMessage \/ RecoverPanic \/ Sleep \/ SleepFails \/ CallTorn
             \/ (\E r \in {"completed", "error"} : MainEnds(r))
             \/ ContinueRun \/ CallGlobal \/ RunIncremental
      PROVE  QueueComplete'
  <2>1. phase # "dispatch" /\ status' = status /\ vs' = vs /\ readyQueue' = readyQueue
        /\ stranded' = stranded
    BY <1>7 DEF ReceiveMessage, MayReceive, RecoverPanic, Sleep, SleepFails, CallTorn, MainEnds,
       ContinueRun, CallGlobal, RunIncremental, ReturnToHost, taskVars
  <2> QED
    BY <2>1 DEF QueueComplete
<1>8. ASSUME DeadlinePasses \/ UNCHANGED vars PROVE QueueComplete'
  BY <1>8 DEF DeadlinePasses, vars, taskVars, hostVars, QueueComplete
<1> QED
  BY <1>1, <1>2, <1>3, <1>4, <1>5, <1>6, <1>7, <1>8
  DEF Next, HostStep, TaskStep, OwnStep, TurnEnds

\* No ready task is forgotten but those whose wake-up found the queue unable to
\* grow, for every host: one that runs whole programs, a REPL whose lines leave
\* tasks in the queue (runIncremental), and one that mixes the entry points as it
\* likes.
THEOREM ReadyTasksAreQueued == Spec => []ReadyIsQueued
<1>1. Init => QueueComplete
  BY DEF Init, QueueComplete
<1>2. QueueComplete => ReadyIsQueued
  BY DEF QueueComplete, ReadyIsQueued, Elems
<1> QED
  BY <1>1, <1>2, CompleteStep, TypeCorrect, PTL DEF Spec
=============================================================================
