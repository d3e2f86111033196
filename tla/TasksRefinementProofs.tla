----------------------- MODULE TasksRefinementProofs -----------------------
(***************************************************************************)
(* The task table implements Actors, for every size of the table, every    *)
(* number of generations that does not wrap and every set of payloads; and *)
(* an addressed message waits only in the mailbox of its addressee.        *)
(*                                                                         *)
(* Both rest on RInv: the scheduler's invariant QInv of TasksProofs (the   *)
(* slot that receives, parks or dies is alive), LiveGenerationIsNotNull (a *)
(* live slot stands for an actor) and a bound on the generations (a slot   *)
(* has not gone round).                                                    *)
(***************************************************************************)
EXTENDS TasksRefinement, TasksProofs

RInv ==
    /\ QInv /\ LiveGenerationIsNotNull
    /\ \A s \in TaskSlots : generation[s] \in 0 .. MaxGen
    /\ status[NullSlot] = "empty"

\* Below MaxGen the counter counts.
LEMMA NextIsSuccessor ==
    ASSUME NEW g \in 0 .. MaxGen - 1
    PROVE  NextGeneration(g) = g + 1 /\ g + 1 \in 1 .. MaxGen
BY NoWrapAssumption, TasksAssumption, SMT DEF NextGeneration

\* The slots that are claimed, and what is claimed.
LEMMA ClaimFacts ==
    ASSUME RInv, NEW s \in TaskSlots, generation[s] < MaxGen
    PROVE  /\ NextGeneration(generation[s]) = generation[s] + 1
           /\ generation[s] \in Nat /\ generation[s] + 1 \in 1 .. MaxGen
<1>1. generation[s] \in 0 .. MaxGen - 1
  BY TasksAssumption DEF RInv
<1> QED
  BY <1>1, NextIsSuccessor

\* No slot is claimed once its generation is MaxGen.
LEMMA GenerationBound ==
    ASSUME RInv, [Next]_vars
    PROVE  \A s \in TaskSlots : generation'[s] \in 0 .. MaxGen
<1> SUFFICES ASSUME NEW s \in TaskSlots PROVE generation'[s] \in 0 .. MaxGen
  OBVIOUS
<1> USE SlotFacts
<1>1. generation[s] \in 0 .. MaxGen /\ generation \in [Slots -> Gens]
  BY DEF RInv, QInv, TypeOK
<1>2. ASSUME NEW t \in TaskSlots, generation[t] < MaxGen,
             generation' = [generation EXCEPT ![t] = NextGeneration(@)]
      PROVE  generation'[s] \in 0 .. MaxGen
  BY <1>1, <1>2, ClaimFacts
<1>3. CASE generation' = generation
  BY <1>1, <1>3
<1>4. \/ generation' = generation
      \/ \E t \in TaskSlots : /\ generation[t] < MaxGen
                              /\ generation' = [generation EXCEPT ![t] = NextGeneration(@)]
  BY DEF Next, HostStep, TaskStep, OwnStep, TurnEnds, Spawn, SpawnOutOfMemory, SpawnRejected,
     Send, SendStrands, ReceiveMessage, RecoverPanic, Dispatch, ReceiveBlock, ReceiveBlockNested, Sleep,
     SleepFails, WorkerEnds, CallTorn, MainEnds, Reset, RunPath, DeadlinePasses, ContinueRun,
     CallGlobal, RunIncremental, vars, taskVars
<1> QED
  BY <1>2, <1>3, <1>4

\* No task runs in the null slot: whoever is dispatched or parked is not there.
LEMMA NullSlotStays ==
    ASSUME RInv, [Next]_vars
    PROVE  status'[NullSlot] = "empty"
<1> USE SlotFacts
<1>1. status \in [Slots -> TaskStatus] /\ status[NullSlot] = "empty"
  BY DEF RInv, QInv, TypeOK
<1>2. ASSUME NEW t \in Slots, NEW x, t # NullSlot, status' = [status EXCEPT ![t] = x]
      PROVE  status'[NullSlot] = "empty"
  BY <1>1, <1>2
<1>3. phase = "exec" /\ driver # "call" => current # NullSlot
  BY <1>1 DEF RInv, QInv, TypeOK, WholePrograms, LoopSound, SleeperIsCurrent, MainSlot, NullSlot
<1>4. phase = "dispatch" => current # NullSlot
  BY <1>1 DEF RInv, QInv, LoopSound
<1>5. current \in Slots
  BY DEF RInv, QInv, TypeOK
<1>6. ASSUME NEW r \in HeldRefs, NEW m \in Payloads, Send(r, m) \/ SendStrands(r, m)
      PROVE  status'[NullSlot] = "empty"
  <2>1. PICK s \in TaskSlots : Deliver(s, m) \/ DeliverStrands(s, m)
    BY <1>6 DEF Send, SendStrands
  <2>2. status' = status \/ status' = [status EXCEPT ![s] = "ready"]
    BY <2>1 DEF Deliver, DeliverStrands, EnqueueReady, EnqueueReadyFails
  <2> QED
    BY <1>1, <1>2, <2>2
<1>7. ASSUME NEW s \in TaskSlots, Spawn(s) \/ SpawnOutOfMemory(s) \/ SpawnRejected(s)
      PROVE  status'[NullSlot] = "empty"
  BY <1>1, <1>7 DEF Spawn, EnqueueReady, SpawnOutOfMemory, SpawnRejected
<1>8. CASE Dispatch
  BY <1>2, <1>4, <1>5, <1>8 DEF Dispatch
<1>9. CASE ReceiveBlock \/ ReceiveBlockNested \/ WorkerEnds
  BY <1>2, <1>3, <1>5, <1>9 DEF ReceiveBlock, ReceiveBlockNested, WorkerEnds, MayReceive, OnMainVm
<1>10. CASE Reset \/ RunPath
  BY <1>10 DEF Reset, RunPath
<1>11. CASE status' = status
  BY <1>1, <1>11
<1> QED
  BY <1>6, <1>7, <1>8, <1>9, <1>10, <1>11 DEF Next, HostStep, TaskStep, OwnStep, TurnEnds,
     ReceiveMessage, RecoverPanic, Sleep, SleepFails, CallTorn, MainEnds, DeadlinePasses,
     ContinueRun, CallGlobal, RunIncremental, vars, taskVars

\* RInv is an inductive invariant: the first states.
LEMMA RInvInit == Init => RInv
<1>1. Init => LiveGenerationIsNotNull
  BY DEF Init, LiveGenerationIsNotNull, IsAlive, TaskSlots, Slots
<1>2. Init => \A s \in TaskSlots : generation[s] \in 0 .. MaxGen
  BY SlotFacts, TasksAssumption DEF Init
<1>3. Init => status[NullSlot] = "empty"
  BY SlotFacts DEF Init
<1> QED
  BY <1>1, <1>2, <1>3, QInvInit DEF RInv

\* RInv is an inductive invariant: the steps.
LEMMA RInvStep == RInv /\ [Next]_vars => RInv'
<1> SUFFICES ASSUME RInv, [Next]_vars PROVE RInv'
  OBVIOUS
<1>1. QInv'
  BY ProgramsOnly, QInvStep DEF RInv
<1>2. LiveGenerationIsNotNull'
  BY ProgramsOnly, GenerationStep DEF RInv
<1>3. \A s \in TaskSlots : generation'[s] \in 0 .. MaxGen
  BY GenerationBound
<1>4. status'[NullSlot] = "empty"
  BY NullSlotStays
<1> QED
  BY <1>1, <1>2, <1>3, <1>4 DEF RInv
----------------------------------------------------------------------------
(* The refinement mapping, before and after a step.                        *)

IsUnborn(i) == i.generation > generation[i.index]
IsPresent(i) == i.generation = generation[i.index] /\ IsAlive(i.index)

\* What the mapping says of an actor, case by case.
LEMMA LifeCases ==
    ASSUME RInv, NEW i \in ActorIds
    PROVE  /\ IsUnborn(i) => LifeOf(i) = "unborn" /\ ~IsPresent(i)
           /\ IsPresent(i) => LifeOf(i) = "alive"
           /\ ~IsUnborn(i) /\ ~IsPresent(i) => LifeOf(i) = "gone"
           /\ InboxOf(i) = IF IsPresent(i) THEN mailbox[i.index] ELSE << >>
<1>1. i.index \in TaskSlots /\ i.generation \in 1 .. MaxGen
  BY DEF ActorIds
<1>2. generation[i.index] \in 0 .. MaxGen /\ MaxGen \in Nat
  BY <1>1, TasksAssumption DEF RInv
<1> USE <1>1, <1>2
<1>3. IsUnborn(i) => LifeOf(i) = "unborn" /\ ~IsPresent(i)
  BY DEF LifeOf, IsUnborn, IsPresent
<1>4. IsPresent(i) => LifeOf(i) = "alive"
  BY DEF LifeOf, IsPresent
<1>5. ~IsUnborn(i) /\ ~IsPresent(i) => LifeOf(i) = "gone"
  BY DEF LifeOf, IsUnborn, IsPresent
<1> QED
  BY <1>3, <1>4, <1>5 DEF InboxOf

\* The same of the state after the step.
LEMMA LifeCasesPrimed ==
    ASSUME RInv', NEW i \in ActorIds
    PROVE  /\ IsUnborn(i)' => LifeOf(i)' = "unborn" /\ ~IsPresent(i)'
           /\ IsPresent(i)' => LifeOf(i)' = "alive"
           /\ ~IsUnborn(i)' /\ ~IsPresent(i)' => LifeOf(i)' = "gone"
           /\ InboxOf(i)' = IF IsPresent(i)' THEN mailbox'[i.index] ELSE << >>
<1>1. i.index \in TaskSlots /\ i.generation \in 1 .. MaxGen
  BY DEF ActorIds
<1>2. generation'[i.index] \in 0 .. MaxGen /\ MaxGen \in Nat
  BY <1>1, TasksAssumption DEF RInv
<1> USE <1>1, <1>2
<1>3. IsUnborn(i)' => LifeOf(i)' = "unborn" /\ ~IsPresent(i)'
  BY DEF LifeOf, IsUnborn, IsPresent
<1>4. IsPresent(i)' => LifeOf(i)' = "alive"
  BY DEF LifeOf, IsPresent
<1>5. ~IsUnborn(i)' /\ ~IsPresent(i)' => LifeOf(i)' = "gone"
  BY DEF LifeOf, IsUnborn, IsPresent
<1> QED
  BY <1>3, <1>4, <1>5 DEF InboxOf

Same(i) == LifeOf(i)' = LifeOf(i) /\ InboxOf(i)' = InboxOf(i)

\* An actor whose slot the step leaves alone is left alone.
LEMMA SameSlot ==
    ASSUME RInv, RInv', NEW i \in ActorIds,
           generation'[i.index] = generation[i.index],
           IsAlive(i.index)' <=> IsAlive(i.index),
           mailbox'[i.index] = mailbox[i.index]
    PROVE  Same(i)
<1>1. (IsUnborn(i)' <=> IsUnborn(i)) /\ (IsPresent(i)' <=> IsPresent(i))
  BY DEF IsUnborn, IsPresent
<1>2. CASE IsUnborn(i)
  BY <1>1, <1>2, LifeCases, LifeCasesPrimed DEF Same
<1>3. CASE IsPresent(i)
  BY <1>1, <1>3, LifeCases, LifeCasesPrimed DEF Same
<1>4. CASE ~IsUnborn(i) /\ ~IsPresent(i)
  BY <1>1, <1>4, LifeCases, LifeCasesPrimed DEF Same
<1> QED
  BY <1>2, <1>3, <1>4

\* A step that leaves every actor alone is a stutter of Actors.
LEMMA Stutters ==
    ASSUME \A i \in ActorIds : Same(i)
    PROVE  [actors!Next]_(actors!actorVars)
BY DEF Same, actors!actorVars

\* A step after which one actor is alive that was not born.
LEMMA IsBorn ==
    ASSUME NEW a \in ActorIds, LifeOf(a) = "unborn", LifeOf(a)' = "alive",
           InboxOf(a)' = InboxOf(a),
           \A i \in ActorIds \ {a} : Same(i)
    PROVE  [actors!Next]_(actors!actorVars)
<1>1. actors!Born(a)
  BY DEF Same, actors!Born
<1> QED
  BY <1>1 DEF actors!Next

\* A step that uses up one reference.
LEMMA IsStillborn ==
    ASSUME NEW a \in ActorIds, LifeOf(a) = "unborn", LifeOf(a)' = "gone",
           InboxOf(a)' = InboxOf(a),
           \A i \in ActorIds \ {a} : Same(i)
    PROVE  [actors!Next]_(actors!actorVars)
<1>1. actors!Stillborn(a)
  BY DEF Same, actors!Stillborn
<1> QED
  BY <1>1 DEF actors!Next

\* A step that appends a message to one inbox.
LEMMA IsDelivered ==
    ASSUME NEW a \in ActorIds, NEW m \in Sendable,
           LifeOf(a) = "alive", LifeOf(a)' = "alive",
           InboxOf(a)' = Append(InboxOf(a), m),
           \A i \in ActorIds \ {a} : Same(i)
    PROVE  [actors!Next]_(actors!actorVars)
<1>1. actors!Deliver(a, m)
  BY DEF Same, actors!Deliver
<1> QED
  BY <1>1 DEF actors!Next

\* A step that takes the first message of one inbox.
LEMMA IsTaken ==
    ASSUME NEW a \in ActorIds,
           LifeOf(a) = "alive", LifeOf(a)' = "alive",
           InboxOf(a) # << >>, InboxOf(a)' = Tail(InboxOf(a)),
           \A i \in ActorIds \ {a} : Same(i)
    PROVE  [actors!Next]_(actors!actorVars)
<1>1. actors!Take(a)
  BY DEF Same, actors!Take
<1> QED
  BY <1>1 DEF actors!Next

\* A step that ends one actor.
LEMMA IsDeath ==
    ASSUME NEW a \in ActorIds,
           LifeOf(a) = "alive", LifeOf(a)' = "gone", InboxOf(a)' = << >>,
           \A i \in ActorIds \ {a} : Same(i)
    PROVE  [actors!Next]_(actors!actorVars)
<1>1. actors!Die(a)
  BY DEF Same, actors!Die
<1> QED
  BY <1>1 DEF actors!Next
----------------------------------------------------------------------------
(* The steps of the task table are steps of Actors.                        *)

\* A slot and a generation make one actor.
LEMMA IdFacts ==
    ASSUME NEW s \in TaskSlots, NEW g \in 1 .. MaxGen
    PROVE  \E a \in ActorIds :
              /\ a.index = s /\ a.generation = g
              /\ \A i \in ActorIds \ {a} : i.index = s => i.generation # g
<1> DEFINE a == [index |-> s, generation |-> g]
<1>1. a \in ActorIds /\ a.index = s /\ a.generation = g
  BY DEF ActorIds
<1>2. \A i \in ActorIds \ {a} : i.index = s => i.generation # g
  BY DEF ActorIds
<1> QED
  BY <1>1, <1>2

\* Who receives, parks or ends is alive and is an actor.
LEMMA CurrentIsAlive ==
    ASSUME RInv, phase = "exec", driver # "call"
    PROVE  /\ current \in TaskSlots /\ status[current] = "running"
           /\ IsAlive(current) /\ generation[current] \in 1 .. MaxGen
<1>1. driver \in {"scheduler", "continue"}
  BY DEF RInv, QInv, TypeOK, WholePrograms
<1>2. status[current] = "running" /\ current \in Slots
  BY <1>1 DEF RInv, QInv, TypeOK, LoopSound, SleeperIsCurrent, MainSlot
<1>3. current \in TaskSlots
  BY <1>2 DEF RInv, Slots, TaskSlots, NullSlot
<1>4. IsAlive(current)
  BY <1>2 DEF IsAlive
<1>5. generation[current] \in 1 .. MaxGen
  BY <1>3, <1>4, TasksAssumption DEF RInv, LiveGenerationIsNotNull
<1> QED
  BY <1>2, <1>3, <1>4, <1>5

\* A slot is claimed: the new reference is used, whether or not the task
\* comes to life; what the slot held before was already gone.
LEMMA ClaimStep ==
    ASSUME RInv, RInv', NEW s \in TaskSlots, NEW st \in TaskStatus,
           ~IsAlive(s), generation[s] < MaxGen,
           generation' = [generation EXCEPT ![s] = NextGeneration(@)],
           mailbox' = [mailbox EXCEPT ![s] = << >>],
           status' = [status EXCEPT ![s] = st]
    PROVE  [actors!Next]_(actors!actorVars)
<1>1. /\ generation \in [Slots -> Gens] /\ mailbox \in [Slots -> Seq(Sendable)]
      /\ status \in [Slots -> TaskStatus]
  BY DEF RInv, QInv, TypeOK
<1>2. /\ generation[s] \in Nat /\ generation[s] + 1 \in 1 .. MaxGen
      /\ generation'[s] = generation[s] + 1 /\ mailbox'[s] = << >> /\ status'[s] = st
  BY <1>1, ClaimFacts, SlotFacts
<1>3. PICK a \in ActorIds :
         /\ a.index = s /\ a.generation = generation[s] + 1
         /\ \A i \in ActorIds \ {a} : i.index = s => i.generation # generation[s] + 1
  BY <1>2, IdFacts
<1>5. IsUnborn(a) /\ ~IsUnborn(a)' /\ (IsPresent(a)' <=> IsAlive(s)')
  BY <1>2, <1>3 DEF IsUnborn, IsPresent, IsAlive
<1>6. LifeOf(a) = "unborn" /\ InboxOf(a) = << >> /\ InboxOf(a)' = << >>
  BY <1>2, <1>3, <1>5, LifeCases, LifeCasesPrimed
<1>7. ASSUME NEW i \in ActorIds \ {a} PROVE Same(i)
  <2>1. CASE i.index # s
    <3>1. i \in ActorIds /\ i.index \in Slots
      BY SlotFacts DEF ActorIds
    <3>2. /\ generation'[i.index] = generation[i.index]
          /\ mailbox'[i.index] = mailbox[i.index] /\ status'[i.index] = status[i.index]
      BY <1>1, <2>1, <3>1
    <3> QED
      BY <3>1, <3>2, SameSlot DEF IsAlive
  <2>2. CASE i.index = s
    <3>1. i.generation # generation[s] + 1 /\ i.generation \in Nat /\ i \in ActorIds
      BY <1>3, <2>2, TasksAssumption DEF ActorIds
    <3>2. ~IsPresent(i) /\ ~IsPresent(i)' /\ (IsUnborn(i)' <=> IsUnborn(i))
      BY <1>2, <2>2, <3>1 DEF IsPresent, IsUnborn, IsAlive
    <3> QED
      BY <3>1, <3>2, LifeCases, LifeCasesPrimed DEF Same
  <2> QED
    BY <2>1, <2>2
<1>8. CASE IsAlive(s)'
  <2>1. LifeOf(a)' = "alive"
    BY <1>3, <1>5, <1>8, LifeCasesPrimed
  <2> QED
    BY <1>3, <1>6, <1>7, <2>1, IsBorn
<1>9. CASE ~IsAlive(s)'
  <2>1. LifeOf(a)' = "gone"
    BY <1>3, <1>5, <1>9, LifeCasesPrimed
  <2> QED
    BY <1>3, <1>6, <1>7, <2>1, IsStillborn
<1> QED
  BY <1>8, <1>9

\* The step changes slot s, which is alive before it, and keeps every
\* generation: it is a matter of that one actor.
LEMMA OneActorStep ==
    ASSUME RInv, RInv', NEW s \in TaskSlots, IsAlive(s), generation' = generation,
           \A t \in TaskSlots \ {s} : /\ mailbox'[t] = mailbox[t]
                                      /\ IsAlive(t)' <=> IsAlive(t)
    PROVE  \E a \in ActorIds :
           /\ LifeOf(a) = "alive" /\ InboxOf(a) = mailbox[s]
           /\ IsAlive(s)' => LifeOf(a)' = "alive" /\ InboxOf(a)' = mailbox'[s]
           /\ ~IsAlive(s)' => LifeOf(a)' = "gone" /\ InboxOf(a)' = << >>
           /\ \A i \in ActorIds \ {a} : Same(i)
<1>1. generation[s] \in 1 .. MaxGen
  BY TasksAssumption DEF RInv, LiveGenerationIsNotNull
<1>2. PICK a \in ActorIds :
         /\ a.index = s /\ a.generation = generation[s]
         /\ \A i \in ActorIds \ {a} : i.index = s => i.generation # generation[s]
  BY <1>1, IdFacts
<1>4. IsPresent(a) /\ ~IsUnborn(a) /\ ~IsUnborn(a)' /\ (IsPresent(a)' <=> IsAlive(s)')
  BY <1>1, <1>2 DEF IsPresent, IsUnborn, IsAlive
<1>5. LifeOf(a) = "alive" /\ InboxOf(a) = mailbox[s]
  BY <1>2, <1>4, LifeCases
<1>6. IsAlive(s)' => LifeOf(a)' = "alive" /\ InboxOf(a)' = mailbox'[s]
  BY <1>2, <1>4, LifeCasesPrimed
<1>7. ~IsAlive(s)' => LifeOf(a)' = "gone" /\ InboxOf(a)' = << >>
  BY <1>2, <1>4, LifeCasesPrimed
<1>8. ASSUME NEW i \in ActorIds \ {a} PROVE Same(i)
  <2>0. i \in ActorIds /\ i.index \in TaskSlots
    BY DEF ActorIds
  <2>1. CASE i.index # s
    BY <2>0, <2>1, SameSlot
  <2>2. CASE i.index = s
    <3>1. ~IsPresent(i) /\ ~IsPresent(i)' /\ (IsUnborn(i)' <=> IsUnborn(i))
      BY <1>2, <2>2 DEF IsPresent, IsUnborn
    <3> QED
      BY <2>0, <3>1, LifeCases, LifeCasesPrimed DEF Same
  <2> QED
    BY <2>1, <2>2
<1> QED
  BY <1>2, <1>5, <1>6, <1>7, <1>8

\* The step keeps generations and mailboxes, and nobody is born or dies.
LEMMA QuietStep ==
    ASSUME RInv, RInv', generation' = generation, mailbox' = mailbox,
           \A t \in TaskSlots : IsAlive(t)' <=> IsAlive(t)
    PROVE  [actors!Next]_(actors!actorVars)
<1>1. ASSUME NEW i \in ActorIds PROVE Same(i)
  <2>1. i.index \in TaskSlots
    BY DEF ActorIds
  <2> QED
    BY <2>1, SameSlot
<1> QED
  BY <1>1, Stutters

\* The host starts over: whoever was alive is gone, and new is born.
LEMMA RestartStep ==
    ASSUME RInv, RInv', NEW new, new = {} \/ \E a \in ActorIds : new = {a},
           \A i \in new : IsUnborn(i) /\ IsPresent(i)',
           \A i \in ActorIds \ new : ~IsPresent(i)' /\ (IsUnborn(i)' <=> IsUnborn(i)),
           \A s \in TaskSlots : mailbox'[s] = << >>
    PROVE  [actors!Next]_(actors!actorVars)
<1>1. new \subseteq ActorIds
  OBVIOUS
<1>2. \A i \in new : LifeOf(i) = "unborn" /\ LifeOf(i)' = "alive"
  BY <1>1, LifeCases, LifeCasesPrimed
<1>3. ASSUME NEW i \in ActorIds \ new
      PROVE  LifeOf(i)' = IF LifeOf(i) = "unborn" THEN "unborn" ELSE "gone"
  <2>1. CASE IsUnborn(i)
    BY <2>1, LifeCases, LifeCasesPrimed
  <2>2. CASE ~IsUnborn(i)
    <3>1. LifeOf(i) \in {"alive", "gone"}
      BY <2>2, LifeCases
    <3> QED
      BY <2>2, <3>1, LifeCasesPrimed
  <2> QED
    BY <2>1, <2>2
<1>4. \A i \in ActorIds : InboxOf(i)' = << >>
  BY LifeCasesPrimed DEF ActorIds
<1>5. actors!Restart(new)
  <2>1. ASSUME NEW i \in ActorIds
        PROVE  LifeOf(i)' = IF i \in new THEN "alive"
                            ELSE IF LifeOf(i) = "unborn" THEN "unborn" ELSE "gone"
    BY <1>2, <1>3
  <2>2. [i \in ActorIds |-> LifeOf(i)]' =
           [i \in ActorIds |-> IF i \in new THEN "alive"
                               ELSE IF LifeOf(i) = "unborn" THEN "unborn" ELSE "gone"]
    BY <2>1
  <2> QED
    BY <1>1, <1>2, <1>4, <2>2 DEF actors!Restart
<1> QED
  BY <1>5 DEF actors!Next

\* receive() takes a message.
LEMMA ReceiveRefines ==
    ASSUME RInv, RInv', ReceiveMessage
    PROVE  [actors!Next]_(actors!actorVars)
<1>1. /\ current \in TaskSlots /\ IsAlive(current)
  BY CurrentIsAlive DEF ReceiveMessage, MayReceive
<1>2. /\ mailbox \in [Slots -> Seq(Sendable)] /\ TaskSlots \subseteq Slots
  BY SlotFacts DEF RInv, QInv, TypeOK
<1>3. /\ generation' = generation /\ status' = status
      /\ mailbox'[current] = Tail(mailbox[current]) /\ mailbox[current] # << >>
      /\ \A t \in TaskSlots \ {current} : mailbox'[t] = mailbox[t]
  BY <1>1, <1>2 DEF ReceiveMessage
<1>4. \A t \in TaskSlots : IsAlive(t)' <=> IsAlive(t)
  BY <1>3 DEF IsAlive
<1>5. PICK c \in TaskSlots : c = current
  BY <1>1
<1>6. IsAlive(c)' /\ IsAlive(c) /\ \A t \in TaskSlots \ {c} : mailbox'[t] = mailbox[t]
  BY <1>1, <1>3, <1>5 DEF IsAlive
<1>7. PICK a \in ActorIds :
           /\ LifeOf(a) = "alive" /\ InboxOf(a) = mailbox[c]
           /\ LifeOf(a)' = "alive" /\ InboxOf(a)' = mailbox'[c]
           /\ \A i \in ActorIds \ {a} : Same(i)
  BY <1>3, <1>4, <1>6, OneActorStep
<1> QED
  BY <1>3, <1>5, <1>7, IsTaken

\* What send() does to the table, whether or not it can queue the receiver.
LEMMA SendFacts ==
    ASSUME NEW r \in HeldRefs, NEW m \in Payloads, Send(r, m) \/ SendStrands(r, m)
    PROVE  \E s \in TaskSlots :
              /\ s = ResolveSameGeneration(r) /\ IsAlive(s) /\ m \in Sendable
              /\ generation' = generation
              /\ mailbox' = [mailbox EXCEPT ![s] = Append(@, m)]
              /\ status' = [status EXCEPT ![s] = "ready"] \/ status' = status
<1>1. PICK s \in TaskSlots : Reaches(r, s, m) /\ (Deliver(s, m) \/ DeliverStrands(s, m))
  BY DEF Send, SendStrands
<1>2. s = ResolveSameGeneration(r) /\ IsAlive(s) /\ m \in Sendable
  BY <1>1 DEF Reaches, IsSendable
<1>3. /\ mailbox' = [mailbox EXCEPT ![s] = Append(@, m)]
      /\ status' = [status EXCEPT ![s] = "ready"] \/ status' = status
  BY <1>1 DEF Deliver, DeliverStrands, EnqueueReady, EnqueueReadyFails
<1> QED
  BY <1>2, <1>3 DEF Send, SendStrands

\* send() to a live task delivers.
LEMMA SendRefines ==
    ASSUME RInv, RInv', NEW r \in HeldRefs, NEW m \in Payloads,
           Send(r, m) \/ SendStrands(r, m)
    PROVE  [actors!Next]_(actors!actorVars)
<1>1. PICK s \in TaskSlots :
         /\ s = ResolveSameGeneration(r) /\ IsAlive(s) /\ m \in Sendable
         /\ generation' = generation
         /\ mailbox' = [mailbox EXCEPT ![s] = Append(@, m)]
         /\ status' = [status EXCEPT ![s] = "ready"] \/ status' = status
  BY SendFacts
<1>2. /\ mailbox \in [Slots -> Seq(Sendable)] /\ status \in [Slots -> TaskStatus]
      /\ TaskSlots \subseteq Slots
  BY SlotFacts DEF RInv, QInv, TypeOK
<1>3. m \in Sendable /\ IsAlive(s) /\ generation' = generation
  BY <1>1
<1>4. /\ mailbox' = [mailbox EXCEPT ![s] = Append(@, m)]
      /\ status' = [status EXCEPT ![s] = "ready"] \/ status' = status
  BY <1>1
<1>5. /\ mailbox'[s] = Append(mailbox[s], m)
      /\ \A t \in TaskSlots \ {s} : mailbox'[t] = mailbox[t]
  BY <1>2, <1>4
<1>6. \A t \in TaskSlots : IsAlive(t)' <=> IsAlive(t)
  BY <1>2, <1>3, <1>4 DEF IsAlive
<1>7. PICK a \in ActorIds :
           /\ LifeOf(a) = "alive" /\ InboxOf(a) = mailbox[s]
           /\ LifeOf(a)' = "alive" /\ InboxOf(a)' = mailbox'[s]
           /\ \A i \in ActorIds \ {a} : Same(i)
  BY <1>3, <1>5, <1>6, OneActorStep
<1> QED
  BY <1>3, <1>5, <1>7, IsDelivered

\* A spawned task ends, or is ended by a receive() in a nested run().
LEMMA DeathRefines ==
    ASSUME RInv, RInv', phase = "exec", ~OnMainVm, generation' = generation,
           mailbox' = mailbox, status' = [status EXCEPT ![current] = "dead"]
    PROVE  [actors!Next]_(actors!actorVars)
<1>1. PICK c \in TaskSlots : c = current
  BY CurrentIsAlive DEF OnMainVm
<1>2. IsAlive(c)
  BY <1>1, CurrentIsAlive DEF OnMainVm
<1>3. status \in [Slots -> TaskStatus] /\ TaskSlots \subseteq Slots
  BY SlotFacts DEF RInv, QInv, TypeOK
<1>4. /\ ~IsAlive(c)'
      /\ \A t \in TaskSlots \ {c} : mailbox'[t] = mailbox[t] /\ (IsAlive(t)' <=> IsAlive(t))
  BY <1>1, <1>3 DEF IsAlive
<1>5. PICK a \in ActorIds :
           /\ LifeOf(a) = "alive" /\ LifeOf(a)' = "gone" /\ InboxOf(a)' = << >>
           /\ \A i \in ActorIds \ {a} : Same(i)
  BY <1>2, <1>4, OneActorStep
<1> QED
  BY <1>5, IsDeath

\* The current task parks or is given its turn: no actor notices.
LEMMA TurnRefines ==
    ASSUME RInv, RInv', generation' = generation, mailbox' = mailbox,
           IsAlive(current), NEW st \in {"running", "blocked_receive"},
           status' = [status EXCEPT ![current] = st]
    PROVE  [actors!Next]_(actors!actorVars)
<1>1. status \in [Slots -> TaskStatus] /\ TaskSlots \subseteq Slots
  BY SlotFacts DEF RInv, QInv, TypeOK
<1>2. \A t \in TaskSlots : IsAlive(t)' <=> IsAlive(t)
  BY <1>1 DEF IsAlive
<1> QED
  BY <1>2, QuietStep

\* A reset ends every actor.
LEMMA ResetRefines ==
    ASSUME RInv, RInv', Reset
    PROVE  [actors!Next]_(actors!actorVars)
<1>1. generation' = generation /\ \A s \in TaskSlots : mailbox'[s] = << >> /\ ~IsAlive(s)'
  BY SlotFacts DEF Reset, ResetTable, IsAlive
<1>2. ASSUME NEW i \in ActorIds PROVE ~IsPresent(i)' /\ (IsUnborn(i)' <=> IsUnborn(i))
  <2>1. i.index \in TaskSlots
    BY DEF ActorIds
  <2> QED
    BY <1>1, <2>1 DEF IsPresent, IsUnborn
<1>3. PICK none : none = {}
  OBVIOUS
<1>4. /\ \A i \in none : IsUnborn(i) /\ IsPresent(i)'
      /\ \A i \in ActorIds \ none : ~IsPresent(i)' /\ (IsUnborn(i)' <=> IsUnborn(i))
  BY <1>2, <1>3
<1> QED
  BY <1>1, <1>3, <1>4, RestartStep

\* A new run ends every actor and starts main.
LEMMA RunPathRefines ==
    ASSUME RInv, RInv', RunPath
    PROVE  [actors!Next]_(actors!actorVars)
<1> USE SlotFacts
<1>1. generation \in [Slots -> Gens]
  BY DEF RInv, QInv, TypeOK
<1>2. /\ generation[MainSlot] \in Nat /\ generation[MainSlot] + 1 \in 1 .. MaxGen
      /\ generation'[MainSlot] = generation[MainSlot] + 1
      /\ \A s \in TaskSlots \ {MainSlot} : generation'[s] = generation[s]
  BY <1>1, ClaimFacts DEF RunPath
<1>3. /\ \A s \in TaskSlots : mailbox'[s] = << >>
      /\ \A s \in TaskSlots : IsAlive(s)' <=> s = MainSlot
  BY DEF RunPath, ResetTable, IsAlive
<1>4. PICK a \in ActorIds :
         /\ a.index = MainSlot /\ a.generation = generation[MainSlot] + 1
         /\ \A i \in ActorIds \ {a} :
               i.index = MainSlot => i.generation # generation[MainSlot] + 1
  BY <1>2, IdFacts
<1>5. IsUnborn(a) /\ IsPresent(a)'
  BY <1>2, <1>3, <1>4 DEF IsUnborn, IsPresent, IsAlive
<1>6. ASSUME NEW i \in ActorIds \ {a} PROVE ~IsPresent(i)' /\ (IsUnborn(i)' <=> IsUnborn(i))
  <2>1. i.index \in TaskSlots /\ i.generation \in Nat
    BY TasksAssumption DEF ActorIds
  <2>2. CASE i.index = MainSlot
    BY <1>2, <1>4, <2>1, <2>2 DEF IsPresent, IsUnborn
  <2>3. CASE i.index # MainSlot
    BY <1>2, <1>3, <2>1, <2>3 DEF IsPresent, IsUnborn
  <2> QED
    BY <2>2, <2>3
<1> QED
  BY <1>3, <1>5, <1>6, RestartStep
----------------------------------------------------------------------------
(* The theorems.                                                           *)

\* No slot has been claimed: no actor is born.
LEMMA InitRefines == Init => actors!Init
<1> SUFFICES ASSUME Init PROVE actors!Init
  OBVIOUS
<1>1. RInv
  BY RInvInit
<1>2. ASSUME NEW i \in ActorIds PROVE LifeOf(i) = "unborn" /\ InboxOf(i) = << >>
  <2>0. i.index \in TaskSlots /\ i.generation \in 1 .. MaxGen
    BY DEF ActorIds
  <2>1. i.index \in Slots
    BY <2>0, SlotFacts
  <2>2. IsUnborn(i)
    BY <2>0, <2>1, TasksAssumption DEF Init, IsUnborn
  <2> QED
    BY <1>1, <2>2, LifeCases
<1> QED
  BY <1>2 DEF actors!Init

\* Every step of the task system is one of Actors or a stutter.
LEMMA StepRefines ==
    ASSUME RInv, [Next]_vars
    PROVE  [actors!Next]_(actors!actorVars)
<1>0. RInv'
  BY RInvStep
<1> USE <1>0
<1>1. ASSUME NEW s \in TaskSlots, Spawn(s) \/ SpawnOutOfMemory(s) \/ SpawnRejected(s)
      PROVE  [actors!Next]_(actors!actorVars)
  <2>1. ~IsAlive(s)
    BY <1>1 DEF Spawn, SpawnOutOfMemory, SpawnRejected, IsFirstFree, FreeSlots
  <2> QED
    BY <1>1, <2>1, ClaimStep
    DEF Spawn, EnqueueReady, SpawnOutOfMemory, SpawnRejected, TaskStatus
<1>2. ASSUME NEW r \in HeldRefs, NEW m \in Payloads, Send(r, m) \/ SendStrands(r, m)
      PROVE  [actors!Next]_(actors!actorVars)
  BY <1>2, SendRefines
<1>3. CASE ReceiveMessage
  BY <1>3, ReceiveRefines
<1>4. CASE Dispatch
  <2>1. IsAlive(current)
    BY <1>4 DEF Dispatch, RInv, QInv, LoopSound, IsAlive
  <2> QED
    BY <1>4, <2>1, TurnRefines DEF Dispatch
<1>5. CASE ReceiveBlock \/ (ReceiveBlockNested /\ OnMainVm)
  <2>1. IsAlive(current)
    BY <1>5, CurrentIsAlive DEF ReceiveBlock, ReceiveBlockNested, MayReceive
  <2> QED
    BY <1>5, <2>1, TurnRefines DEF ReceiveBlock, ReceiveBlockNested
<1>6. CASE WorkerEnds \/ (ReceiveBlockNested /\ ~OnMainVm)
  BY <1>6, DeathRefines DEF WorkerEnds, ReceiveBlockNested, MayReceive
<1>7. CASE Reset
  BY <1>7, ResetRefines
<1>8. CASE RunPath
  BY <1>8, RunPathRefines
<1>9. CASE UNCHANGED <<generation, mailbox, status>>
  BY <1>9, QuietStep DEF IsAlive
<1> QED
  BY <1>1, <1>2, <1>3, <1>4, <1>5, <1>6, <1>7, <1>8, <1>9 DEF Next, HostStep, TaskStep,
     OwnStep, TurnEnds, RecoverPanic, Sleep, SleepFails, CallTorn, MainEnds, DeadlinePasses,
     ContinueRun, CallGlobal, RunIncremental, vars, taskVars

\* The task table implements Actors: whatever is spawned, killed, reset and
\* recycled, a reference names one task for ever, and a message sent through it
\* reaches that task, once and in order, or nobody (claimSlot, resolve, send and
\* receive of task_state.zig and vm_task.zig).
THEOREM TableImplementsActors == Spec => ImplementsActors
<1>1. RInv /\ [Next]_vars => [actors!Next]_(actors!actorVars)
  BY StepRefines
<1> QED
  BY <1>1, RInvInit, RInvStep, InitRefines, PTL DEF Spec, ImplementsActors, actors!Spec

\* DeliveredAsAddressed is kept: by a claim, which empties the mailbox; by a
\* send, whose reference resolved to this generation; by everything else, since
\* no slot comes alive without a claim.
LEMMA AddressedStep ==
    ASSUME RInv, DeliveredAsAddressed, [AddressedNext]_vars
    PROVE  DeliveredAsAddressed'
<1> SUFFICES ASSUME NEW s \in TaskSlots, NEW i \in DOMAIN mailbox'[s]
             PROVE  LET to == mailbox'[s][i][1] IN
                    to.index = s /\ (IsAlive(s)' => to.generation = generation'[s])
  BY DEF DeliveredAsAddressed
<1> USE SlotFacts
<1>1. /\ generation \in [Slots -> Gens] /\ mailbox \in [Slots -> Seq(Sendable)]
      /\ status \in [Slots -> TaskStatus] /\ s \in Slots /\ current \in Slots
  BY DEF RInv, QInv, TypeOK
<1>2. CASE mailbox'[s] = << >>
  BY <1>2
<1>3. ASSUME i \in DOMAIN mailbox[s], mailbox'[s][i] = mailbox[s][i],
             generation'[s] = generation[s], IsAlive(s)' => IsAlive(s)
      PROVE  LET to == mailbox'[s][i][1] IN
             to.index = s /\ (IsAlive(s)' => to.generation = generation'[s])
  BY <1>3 DEF DeliveredAsAddressed
<1>4. ASSUME NEW t \in TaskSlots, Spawn(t) \/ SpawnOutOfMemory(t) \/ SpawnRejected(t)
      PROVE  LET to == mailbox'[s][i][1] IN
             to.index = s /\ (IsAlive(s)' => to.generation = generation'[s])
  <2>1. CASE s = t
    <3>1. mailbox'[s] = << >>
      BY <1>1, <1>4, <2>1 DEF Spawn, SpawnOutOfMemory, SpawnRejected
    <3> QED
      BY <1>2, <3>1
  <2>2. CASE s # t
    <3>1. /\ mailbox'[s] = mailbox[s] /\ generation'[s] = generation[s]
          /\ status'[s] = status[s]
      BY <1>1, <1>4, <2>2 DEF Spawn, EnqueueReady, SpawnOutOfMemory, SpawnRejected
    <3> QED
      BY <1>3, <3>1 DEF IsAlive
  <2> QED
    BY <2>1, <2>2
<1>5. ASSUME NEW r \in HeldRefs, NEW m \in Sendable, m[1] = r,
             Send(r, m) \/ SendStrands(r, m)
      PROVE  LET to == mailbox'[s][i][1] IN
             to.index = s /\ (IsAlive(s)' => to.generation = generation'[s])
  <2>1. PICK t \in TaskSlots :
           /\ t = ResolveSameGeneration(r) /\ IsAlive(t) /\ m \in Sendable
           /\ generation' = generation
           /\ mailbox' = [mailbox EXCEPT ![t] = Append(@, m)]
           /\ status' = [status EXCEPT ![t] = "ready"] \/ status' = status
    BY <1>5, SendFacts, TasksAssumption
  <2>2. r.index = t /\ r.generation = generation[t]
    BY <2>1 DEF ResolveSameGeneration, NullSlot, TaskSlots
  <2>3. /\ mailbox' = [mailbox EXCEPT ![t] = Append(@, m)] /\ IsAlive(t)
        /\ generation' = generation
        /\ status' = [status EXCEPT ![t] = "ready"] \/ status' = status
    BY <2>1
  <2>4. IsAlive(s)' => IsAlive(s)
    BY <1>1, <2>3 DEF IsAlive
  <2>5. CASE s # t
    BY <1>1, <1>3, <2>3, <2>4, <2>5
  <2>6. CASE s = t
    <3>1. mailbox'[s] = Append(mailbox[s], m) /\ mailbox[s] \in Seq(Sendable)
      BY <1>1, <2>3, <2>6
    <3>2. /\ DOMAIN mailbox'[s] = 1 .. Len(mailbox[s]) + 1
          /\ DOMAIN mailbox[s] = 1 .. Len(mailbox[s]) /\ Len(mailbox[s]) \in Nat
          /\ mailbox'[s][Len(mailbox[s]) + 1] = m
          /\ \A k \in 1 .. Len(mailbox[s]) : mailbox'[s][k] = mailbox[s][k]
      BY <3>1
    <3>3. CASE i \in 1 .. Len(mailbox[s])
      BY <1>3, <2>3, <2>4, <3>2, <3>3
    <3>4. CASE i = Len(mailbox[s]) + 1
      BY <1>5, <2>2, <2>3, <2>6, <3>2, <3>4
    <3> QED
      BY <3>2, <3>3, <3>4
  <2> QED
    BY <2>5, <2>6
<1>6. CASE ReceiveMessage
  <2>1. generation' = generation /\ (IsAlive(s)' <=> IsAlive(s))
    BY <1>6 DEF ReceiveMessage, IsAlive
  <2>2. CASE s # current
    <3>1. mailbox'[s] = mailbox[s]
      BY <1>1, <1>6, <2>2 DEF ReceiveMessage
    <3> QED
      BY <1>3, <2>1, <3>1
  <2>3. CASE s = current
    <3>1. mailbox'[s] = Tail(mailbox[s]) /\ mailbox[s] # << >> /\ mailbox[s] \in Seq(Sendable)
      BY <1>1, <1>6, <2>3 DEF ReceiveMessage
    <3>2. /\ Len(mailbox[s]) \in Nat /\ DOMAIN mailbox[s] = 1 .. Len(mailbox[s])
          /\ DOMAIN mailbox'[s] = 1 .. Len(mailbox[s]) - 1
          /\ \A k \in 1 .. Len(mailbox[s]) - 1 : mailbox'[s][k] = mailbox[s][k + 1]
      BY <3>1
    <3>3. i + 1 \in DOMAIN mailbox[s] /\ mailbox'[s][i] = mailbox[s][i + 1]
      BY <3>2
    <3> QED
      BY <2>1, <3>3 DEF DeliveredAsAddressed
  <2> QED
    BY <2>2, <2>3
<1>7. CASE Reset \/ RunPath
  <2>1. mailbox'[s] = << >>
    BY <1>1, <1>7 DEF Reset, RunPath, ResetTable
  <2> QED
    BY <1>2, <2>1
<1>8. CASE Dispatch
  <2>1. IsAlive(current)
    BY <1>8 DEF Dispatch, RInv, QInv, LoopSound, IsAlive
  <2> QED
    BY <1>1, <1>3, <1>8, <2>1 DEF Dispatch, IsAlive
<1>9. CASE ReceiveBlock \/ ReceiveBlockNested \/ WorkerEnds
  <2>1. IsAlive(current)
    BY <1>9, CurrentIsAlive
    DEF ReceiveBlock, ReceiveBlockNested, WorkerEnds, MayReceive, OnMainVm
  <2> QED
    BY <1>1, <1>3, <1>9, <2>1 DEF ReceiveBlock, ReceiveBlockNested, WorkerEnds, IsAlive
<1>10. CASE UNCHANGED <<generation, mailbox, status>>
  BY <1>3, <1>10 DEF IsAlive
<1> QED
  BY <1>4, <1>5, <1>6, <1>7, <1>8, <1>9, <1>10 DEF AddressedNext, HostStep, OwnStep, TurnEnds,
     RecoverPanic, Sleep, SleepFails, CallTorn, MainEnds, DeadlinePasses, ContinueRun,
     CallGlobal, RunIncremental, vars, taskVars

\* A message lies only in the mailbox of the task it was addressed to, never in
\* that of a later task in the same slot: claimSlot empties the mailbox, and
\* resolve compares generations.
THEOREM MailReachesItsAddressee == AddressedSpec => []DeliveredAsAddressed
<1>1. Init => DeliveredAsAddressed
  BY SlotFacts DEF Init, DeliveredAsAddressed
<1>2. [AddressedNext]_vars => [Next]_vars
  BY TasksAssumption DEF AddressedNext, Next, TaskStep
<1>3. RInv /\ DeliveredAsAddressed /\ [AddressedNext]_vars => DeliveredAsAddressed'
  BY AddressedStep
<1> QED
  BY <1>1, <1>2, <1>3, RInvInit, RInvStep, PTL DEF AddressedSpec
=============================================================================
