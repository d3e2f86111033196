------------------------------ MODULE GcProofs ------------------------------
(***************************************************************************)
(* Collection, for every pool, every number of tasks, every object graph   *)
(* and every mode: if the collector never runs inside spawnTask and no     *)
(* task is spawned into the slot `current' stands for, no reference ever   *)
(* dangles and a sweep frees exactly what no live task can reach. When     *)
(* entering a spawned frame neither allocates nor runs code, and host      *)
(* calls come only after at most one spawn, both conditions hold. The      *)
(* worklist never overflows, without any condition.                        *)
(***************************************************************************)
EXTENDS Gc, SequenceTheorems, FiniteSetTheorems, TLAPS

----------------------------------------------------------------------------
(* Places.                                                                 *)

\* Main has a slot, and no slot stands for no task.
LEMMA TaskFacts == Main \in Tasks /\ None \notin Tasks
BY GcAssumption, SMT DEF Main, None, Tasks

\* The places of every task, the globals and the fields are places.
LEMMA PlaceFacts ==
    /\ \A t \in Tasks : Roots(t) \subseteq Places /\ Mail(t) \in Places
    /\ \A t \in Tasks, a \in Areas : Area(a, t) \in Roots(t) /\ Area(a, t) \in Places
    /\ Global \in Places
    /\ \A o \in Objs : Field(o) \in Places
    /\ "stack" \in Areas /\ "callee" \in Areas /\ "temp" \in Areas
    /\ "defer" \in Areas /\ "panic" \in Areas
<1>1. ASSUME NEW t \in Tasks
      PROVE  Roots(t) \subseteq Places /\ Mail(t) \in Places
  <2>1. Roots(t) \in {Roots(u) : u \in Tasks}
    OBVIOUS
  <2> QED
    BY <2>1, Zenon DEF Places
<1>2. ASSUME NEW t \in Tasks, NEW a \in Areas
      PROVE  Area(a, t) \in Roots(t)
  BY Zenon DEF Roots
<1>3. Global \in Places /\ \A o \in Objs : Field(o) \in Places
  BY Zenon DEF Places
<1>4. /\ "stack" \in Areas /\ "callee" \in Areas /\ "temp" \in Areas
      /\ "defer" \in Areas /\ "panic" \in Areas
  BY DEF Areas
<1> QED
  BY <1>1, <1>2, <1>3, <1>4, Zenon

\* A place is a field, or the globals, or belongs to a task.
LEMMA PlaceCases ==
    ASSUME NEW p \in Places
    PROVE  \/ \E o \in Objs : p = Field(o)
           \/ p = Global
           \/ \E t \in Tasks : p \in Roots(t) \cup {Mail(t)}
<1>1. CASE p \in UNION {Roots(t) : t \in Tasks}
  BY <1>1, Zenon
<1>2. CASE p \in {Mail(t) : t \in Tasks}
  BY <1>2, Zenon
<1>3. CASE p \in {Field(o) : o \in Objs}
  BY <1>3, Zenon
<1> QED
  BY <1>1, <1>2, <1>3, Zenon DEF Places

\* No two tasks share a place, and fields and globals belong to none.
LEMMA PlacesApart ==
    ASSUME NEW t \in Tasks, NEW p \in Roots(t) \cup {Mail(t)}
    PROVE  /\ \A u \in Tasks : p \in Roots(u) \cup {Mail(u)} => u = t
           /\ p # Global
           /\ \A o \in Objs : p # Field(o)
BY SMT DEF Roots, Area, Mail, Global, Field, Areas, None

TaskPlaces(t) == Roots(t) \cup {Mail(t)}

\* A reference is a pair of a place and an object the place holds.
LEMMA HeldFacts ==
    ASSUME TypeOK
    PROVE  /\ \A r \in refs : r[1] \in Places /\ r[2] \in Objs /\ r = <<r[1], r[2]>>
           /\ \A r \in refs : r[2] \in Held(r[1])
           /\ \A p, o : o \in Held(p) => <<p, o>> \in refs /\ o \in Objs
<1>1. \A r \in refs : r[1] \in Places /\ r[2] \in Objs /\ r = <<r[1], r[2]>>
  BY DEF TypeOK
<1> QED
  BY <1>1 DEF Held
----------------------------------------------------------------------------
(* The inductive invariant.                                                *)

\* Only live tasks hold references.
HoldersAlive ==
    \A r \in refs, t \in Tasks : r[1] \in TaskPlaces(t) => t \in alive

\* The task whose vm_state the collector skips is the one it runs on, or it has
\* ended and holds nothing. The latter is so in a host call after a run that
\* ended with main blocked.
OneVm ==
    /\ Main \in alive
    /\ pc # "host" => active \in alive
    /\ pc # "host" /\ spawners = << >> => active = current \/ current \notin alive
    /\ pc = "host" => current = Main \/ current \notin alive
    /\ spawners # << >> => /\ pc = "mutate"
                           /\ spawners[1] = current \/ current \notin alive
    /\ \A i \in 1 .. Len(spawners) : spawners[i] \in alive

\* Everything the collector must keep is marked or will be visited.
RootsCovered ==
    pc = "mark" =>
        \A r \in refs : (\A o \in Objs : r[1] # Field(o)) =>
            r[2] \in marked \cup scan

NotMarking == pc # "mark" => marked = {} /\ worklist = << >> /\ scan = {}

GInv == /\ TypeOK /\ NoDanglingReference /\ HoldersAlive /\ OneVm
        /\ RootsCovered /\ Tricolor /\ NotMarking
----------------------------------------------------------------------------
\* A program starts in it.
LEMMA GInvInit == Init => GInv
<1> SUFFICES ASSUME Init PROVE GInv
  OBVIOUS
<1> USE DEF Init
<1>1. TypeOK
  <2>1. << >> \in Seq(Objs) /\ << >> \in Seq(Tasks)
    BY EmptySeq
  <2>2. 0 \in 0 .. MaxSpawns
    BY GcAssumption
  <2> QED
    BY TaskFacts, <2>1, <2>2 DEF TypeOK
<1>2. NoDanglingReference /\ HoldersAlive
  BY DEF NoDanglingReference, HoldersAlive
<1>3. OneVm
  <2>1. Len(spawners) = 0
    BY LenProperties, EmptySeq
  <2> QED
    BY TaskFacts, <2>1 DEF OneVm
<1>4. RootsCovered /\ Tricolor /\ NotMarking
  BY DEF RootsCovered, Tricolor, NotMarking
<1> QED
  BY <1>1, <1>2, <1>3, <1>4 DEF GInv

\* A mutator step that only adds references to live objects from places of live
\* tasks, from globals or from fields, and drops any, keeps the invariant.
LEMMA MutatorKeepsGInv ==
    ASSUME GInv, pc = "mutate",
           live \subseteq live', live' \subseteq Objs,
           refs' \subseteq Places \X Objs,
           \A r \in refs' \ refs :
               /\ r[2] \in live'
               /\ \A t \in Tasks : r[1] \in TaskPlaces(t) => t \in alive,
           UNCHANGED <<markVars, taskVars, pc>>
    PROVE  GInv'
<1> USE DEF GInv, markVars, taskVars
<1>1. TypeOK'
  BY DEF TypeOK
<1>2. NoDanglingReference' /\ HoldersAlive'
  BY DEF NoDanglingReference, HoldersAlive
<1>3. OneVm' /\ RootsCovered' /\ Tricolor' /\ NotMarking'
  BY DEF OneVm, RootsCovered, Tricolor, NotMarking
<1> QED
  BY <1>1, <1>2, <1>3
----------------------------------------------------------------------------
(* One lemma per kind of step.                                             *)

\* In a state where the mutator runs, the active task is alive.
LEMMA ActiveFacts ==
    ASSUME GInv, pc = "mutate"
    PROVE  /\ active \in Tasks /\ active \in alive /\ current \in Tasks
           /\ spawners = << >> => active = current \/ current \notin alive
BY DEF GInv, TypeOK, OneVm

\* A place of a live task, and no other task's; a global; a field: all may hold.
LEMMA MayHold ==
    ASSUME NEW p \in Places,
           \/ p = Global
           \/ \E o \in Objs : p = Field(o)
           \/ \E t \in alive \cap Tasks : p \in TaskPlaces(t)
    PROVE  \A t \in Tasks : p \in TaskPlaces(t) => t \in alive
BY PlacesApart, Zenon DEF TaskPlaces

\* The steps that add one reference, to an object that was or becomes live.
LEMMA AddKeepsGInv ==
    ASSUME GInv, pc = "mutate",
           NEW p \in Places, NEW o \in Objs,
           live \subseteq live', live' \subseteq Objs, o \in live',
           \/ p = Global
           \/ \E q \in Objs : p = Field(q)
           \/ \E t \in alive \cap Tasks : p \in TaskPlaces(t),
           refs' \subseteq refs \cup {<<p, o>>},
           UNCHANGED <<markVars, taskVars, pc>>
    PROVE  GInv'
<1>1. \A t \in Tasks : p \in TaskPlaces(t) => t \in alive
  BY MayHold
<1>2. refs \subseteq Places \X Objs
  BY DEF GInv, TypeOK
<1>3. refs' \subseteq Places \X Objs
  BY <1>2
<1>4. \A r \in refs' \ refs : r = <<p, o>>
  OBVIOUS
<1>5. \A r \in refs' \ refs : r[1] = p /\ r[2] = o
  BY <1>4
<1>6. \A r \in refs' \ refs :
         /\ r[2] \in live'
         /\ \A t \in Tasks : r[1] \in TaskPlaces(t) => t \in alive
  BY <1>1, <1>5
<1> QED
  BY <1>3, <1>6, MutatorKeepsGInv

\* What a place holds is a live object of the pool.
LEMMA HeldIsLive ==
    ASSUME GInv, NEW p, NEW o, o \in Held(p)
    PROVE  o \in Objs /\ o \in live /\ <<p, o>> \in refs
<1>1. <<p, o>> \in refs /\ o \in Objs
  BY DEF Held
<1>2. <<p, o>>[2] = o
  OBVIOUS
<1> QED
  BY <1>1, <1>2 DEF GInv, NoDanglingReference

\* The areas of a live task's vm_state are places of a live task,
LEMMA OwnPlace ==
    ASSUME NEW t \in Tasks, t \in alive, NEW a \in Areas
    PROVE  /\ Area(a, t) \in Places
           /\ \E u \in alive \cap Tasks : Area(a, t) \in TaskPlaces(u)
BY PlaceFacts, Zenon DEF TaskPlaces

\* and so is its mailbox.
LEMMA OwnMail ==
    ASSUME NEW t \in Tasks, t \in alive
    PROVE  /\ Mail(t) \in Places
           /\ \E u \in alive \cap Tasks : Mail(t) \in TaskPlaces(u)
BY PlaceFacts, Zenon DEF TaskPlaces

\* Allocation, loads and stores, calls, panics and messages.
LEMMA MutatorSteps ==
    ASSUME GInv,
           \/ \E o \in Objs, a \in {"stack", "temp"} : Alloc(o, a)
           \/ \E p \in Places, o \in Objs : Load(p, o) \/ Store(p, o) \/ Drop(p, o)
           \/ \E o \in Objs : TailCall(o) \/ Panic(o) \/ Recover(o) \/ Receive(o)
           \/ \E u \in Tasks, c \in Objs : Send(u, c)
    PROVE  GInv'
<1> USE PlaceFacts
<1>0. live \subseteq Objs
  BY DEF GInv, TypeOK
<1>1. ASSUME NEW o \in Objs, NEW a \in {"stack", "temp"}, Alloc(o, a)
      PROVE  GInv'
  <2>1. pc = "mutate" /\ UNCHANGED <<markVars, taskVars, pc>>
    BY <1>1 DEF Alloc, Mutating
  <2>2. live' = live \cup {o} /\ refs' = refs \cup {<<Area(a, active), o>>}
    BY <1>1 DEF Alloc, Add
  <2>3. a \in Areas
    BY <1>1
  <2> QED
    BY <1>0, <2>1, <2>2, <2>3, ActiveFacts, OwnPlace, AddKeepsGInv
<1>2. ASSUME NEW p \in Places, NEW o \in Objs, Load(p, o)
      PROVE  GInv'
  <2>1. pc = "mutate" /\ UNCHANGED <<live, markVars, taskVars, pc>>
    BY <1>2 DEF Load, Mutating
  <2>2. refs' = refs \cup {<<Area("stack", active), o>>} /\ o \in live
    BY <1>2, HeldIsLive DEF Load, Add, Held
  <2> QED
    BY <1>0, <2>1, <2>2, ActiveFacts, OwnPlace, AddKeepsGInv
<1>3. ASSUME NEW p \in Places, NEW o \in Objs, Store(p, o)
      PROVE  GInv'
  <2>1. pc = "mutate" /\ UNCHANGED <<live, markVars, taskVars, pc>>
    BY <1>3 DEF Store, Mutating
  <2>2. refs' \subseteq refs \cup {<<p, o>>} /\ o \in live
    BY <1>3, HeldIsLive DEF Store, Move
  <2>3. \/ p = Global
        \/ p = Area("defer", active)
        \/ \E q \in Objs : p = Field(q)
    BY <1>3, HeldIsLive DEF Store
  <2>4. \/ p = Global
        \/ \E q \in Objs : p = Field(q)
        \/ \E t \in alive \cap Tasks : p \in TaskPlaces(t)
    BY <2>1, <2>3, ActiveFacts, OwnPlace
  <2> QED
    BY <1>0, <2>1, <2>2, <2>4, AddKeepsGInv
<1>4. ASSUME NEW p \in Places, NEW o \in Objs, Drop(p, o)
      PROVE  GInv'
  <2>1. pc = "mutate" /\ UNCHANGED <<live, markVars, taskVars, pc>>
    BY <1>4 DEF Drop, Mutating
  <2>2. refs' \subseteq refs
    BY <1>4 DEF Drop
  <2>3. refs' \subseteq Places \X Objs
    BY <2>2 DEF GInv, TypeOK
  <2> QED
    BY <1>0, <2>1, <2>2, <2>3, MutatorKeepsGInv
<1>5. ASSUME NEW o \in Objs, TailCall(o)
      PROVE  GInv'
  <2>1. pc = "mutate" /\ UNCHANGED <<live, markVars, taskVars, pc>>
    BY <1>5 DEF TailCall, Mutating
  <2>2. refs' \subseteq refs \cup {<<Area("callee", active), o>>} /\ o \in live
    BY <1>5, HeldIsLive DEF TailCall
  <2> QED
    BY <1>0, <2>1, <2>2, ActiveFacts, OwnPlace, AddKeepsGInv
<1>6. ASSUME NEW o \in Objs, Panic(o)
      PROVE  GInv'
  <2>1. pc = "mutate" /\ UNCHANGED <<live, markVars, taskVars, pc>>
    BY <1>6 DEF Panic, Mutating
  <2>2. refs' \subseteq refs \cup {<<Area("panic", active), o>>} /\ o \in live
    BY <1>6, HeldIsLive DEF Panic
  <2> QED
    BY <1>0, <2>1, <2>2, ActiveFacts, OwnPlace, AddKeepsGInv
<1>7. ASSUME NEW o \in Objs, Recover(o)
      PROVE  GInv'
  <2>1. pc = "mutate" /\ UNCHANGED <<live, markVars, taskVars, pc>>
    BY <1>7 DEF Recover, Mutating
  <2>2. refs' \subseteq refs \cup {<<Area("stack", active), o>>} /\ o \in live
    BY <1>7, HeldIsLive DEF Recover, Move
  <2> QED
    BY <1>0, <2>1, <2>2, ActiveFacts, OwnPlace, AddKeepsGInv
<1>8. ASSUME NEW o \in Objs, Receive(o)
      PROVE  GInv'
  <2>1. pc = "mutate" /\ UNCHANGED <<live, markVars, taskVars, pc>>
    BY <1>8 DEF Receive, Mutating
  <2>2. refs' \subseteq refs \cup {<<Area("stack", active), o>>} /\ o \in live
    BY <1>8, HeldIsLive DEF Receive, Move
  <2> QED
    BY <1>0, <2>1, <2>2, ActiveFacts, OwnPlace, AddKeepsGInv
<1>9. ASSUME NEW u \in Tasks, NEW c \in Objs, Send(u, c)
      PROVE  GInv'
  <2>1. pc = "mutate" /\ UNCHANGED <<live, markVars, taskVars, pc>> /\ u \in alive
    BY <1>9 DEF Send, Mutating
  <2>2. refs' \subseteq refs \cup {<<Mail(u), c>>} /\ c \in live
    BY <1>9, HeldIsLive DEF Send, Move
  <2> QED
    BY <1>0, <2>1, <2>2, OwnMail, AddKeepsGInv
<1> QED
  BY <1>1, <1>2, <1>3, <1>4, <1>5, <1>6, <1>7, <1>8, <1>9, Zenon
----------------------------------------------------------------------------
(* Steps of the task table.                                                *)

\* A step of the mutator or the host that adds no reference and outside which
\* nothing is being marked keeps whatever does not name a task.
LEMMA NotMarkingFacts ==
    ASSUME GInv, pc # "mark", pc' # "mark", UNCHANGED markVars
    PROVE  RootsCovered' /\ Tricolor' /\ NotMarking'
BY DEF GInv, RootsCovered, Tricolor, NotMarking, markVars

\* spawnTask pushes on the new vm_state what the spawner holds.
LEMMA SpawnClaimKeepsGInv ==
    ASSUME GInv, Careful', NEW u \in Tasks, SpawnClaim(u)
    PROVE  GInv'
<1> USE PlaceFacts
<1>1. /\ pc = "mutate" /\ pc' = "mutate" /\ UNCHANGED markVars
      /\ live' = live /\ alive' = alive \cup {u} /\ spawners' = Append(spawners, active)
      /\ active' = u /\ spawned' = spawned + 1 /\ spawned < MaxSpawns
      /\ UNCHANGED <<current, inCall>>
  BY DEF SpawnClaim, Mutating
<1>2. refs' = refs \cup {<<Area("stack", u), o>> : o \in Held(Area("temp", active))}
  BY DEF SpawnClaim
<1>3. \A r \in refs' \ refs :
         /\ r = <<Area("stack", u), r[2]>> /\ r[1] = Area("stack", u)
         /\ r[2] \in live /\ r[2] \in Objs
  <2> SUFFICES ASSUME NEW r \in refs' \ refs
               PROVE  /\ r = <<Area("stack", u), r[2]>> /\ r[1] = Area("stack", u)
                      /\ r[2] \in live /\ r[2] \in Objs
    OBVIOUS
  <2>1. PICK o \in Held(Area("temp", active)) : r = <<Area("stack", u), o>>
    BY <1>2
  <2>2. o \in Objs /\ o \in live
    BY HeldIsLive
  <2> QED
    BY <2>1, <2>2
<1>4. TypeOK'
  <2>1. refs' \subseteq Places \X Objs
    BY <1>3 DEF GInv, TypeOK
  <2>2. spawned' \in 0 .. MaxSpawns
    BY <1>1, GcAssumption DEF GInv, TypeOK
  <2>3. spawners' \in Seq(Tasks)
    BY <1>1, ActiveFacts, AppendProperties DEF GInv, TypeOK
  <2> QED
    BY <1>1, <2>1, <2>2, <2>3 DEF GInv, TypeOK, markVars
<1>5. NoDanglingReference'
  BY <1>1, <1>3 DEF GInv, NoDanglingReference
<1>6. HoldersAlive'
  <2> SUFFICES ASSUME NEW r \in refs', NEW t \in Tasks, r[1] \in TaskPlaces(t)
               PROVE  t \in alive'
    BY DEF HoldersAlive
  <2>1. CASE r \in refs
    BY <1>1, <2>1 DEF GInv, HoldersAlive
  <2>2. CASE r \notin refs
    <3>1. r[1] \in Roots(u) \cup {Mail(u)}
      BY <1>3, <2>2
    <3>2. t = u
      BY <3>1, PlacesApart DEF TaskPlaces
    <3> QED
      BY <1>1, <3>2
  <2> QED
    BY <2>1, <2>2
<1>7. OneVm'
  <2>1. active \in alive /\ active \in Tasks /\ spawners \in Seq(Tasks)
    BY <1>1, ActiveFacts DEF GInv, TypeOK
  <2>2. /\ spawners' # << >> /\ Len(spawners) \in Nat
        /\ Len(spawners') = Len(spawners) + 1
        /\ spawners'[Len(spawners) + 1] = active
        /\ \A i \in 1 .. Len(spawners) : spawners'[i] = spawners[i]
    BY <1>1, <2>1, AppendProperties, LenProperties
  <2>3. u # current
    BY <1>1, <2>2 DEF Careful
  <2>4. spawners'[1] = current \/ current \notin alive
    <3>1. CASE spawners = << >>
      BY <1>1, <2>2, <3>1, ActiveFacts
    <3>2. CASE spawners # << >>
      <4>1. 1 \in 1 .. Len(spawners)
        BY <2>1, <3>2, EmptySeq
      <4> QED
        BY <2>2, <3>2, <4>1 DEF GInv, OneVm
    <3> QED
      BY <3>1, <3>2
  <2>5. \A i \in 1 .. Len(spawners') : spawners'[i] \in alive
    BY <2>1, <2>2 DEF GInv, OneVm
  <2> QED
    BY <1>1, <2>2, <2>3, <2>4, <2>5 DEF GInv, OneVm
<1> QED
  BY <1>1, <1>4, <1>5, <1>6, <1>7, NotMarkingFacts DEF GInv

\* It returns to the spawner's vm_state.
LEMMA SpawnDoneKeepsGInv ==
    ASSUME GInv, SpawnDone
    PROVE  GInv'
<1> DEFINE n == Len(spawners) - 1
<1>0. spawners \in Seq(Tasks) /\ spawners # << >>
  BY DEF SpawnDone, GInv, TypeOK
<1>1. /\ pc = "mutate" /\ pc' = "mutate" /\ UNCHANGED markVars
      /\ live' = live /\ refs' \subseteq refs /\ active' = spawners[n + 1]
      /\ spawners' = SubSeq(spawners, 1, n)
      /\ UNCHANGED <<alive, current, inCall, spawned>>
  <2>1. n + 1 = Len(spawners)
    BY <1>0
  <2> QED
    BY <2>1 DEF SpawnDone, Spawner
<1>5. /\ n \in Nat /\ 1 .. Len(spawners) = 1 .. (n + 1)
      /\ \A i \in 1 .. (n + 1) : spawners[i] \in Tasks
  BY <1>0, EmptySeq
<1> HIDE DEF n
<1>6. /\ spawners' \in Seq(Tasks) /\ Len(spawners') = n
      /\ \A i \in 1 .. n : spawners'[i] = spawners[i]
  <2>1. /\ n - 1 + 1 = n /\ \A i \in 1 .. n : 1 + i - 1 = i /\ i \in 1 .. (n + 1)
        /\ (1 <= n => n - 1 + 1 = n) /\ (~(1 <= n) => n = 0)
    BY <1>5
  <2>2. \A i \in 1 .. n : spawners[i] \in Tasks
    BY <1>5, <2>1
  <2>3. /\ SubSeq(spawners, 1, n) \in Seq(Tasks)
        /\ Len(SubSeq(spawners, 1, n)) = IF 1 <= n THEN n - 1 + 1 ELSE 0
        /\ \A i \in 1 .. n - 1 + 1 : SubSeq(spawners, 1, n)[i] = spawners[1 + i - 1]
    BY <1>5, <2>2, SubSeqProperties
  <2> QED
    BY <1>1, <2>1, <2>3
<1>7. n + 1 \in 1 .. (n + 1) /\ 1 \in 1 .. (n + 1) /\ \A i \in 1 .. n : i \in 1 .. (n + 1)
  BY <1>5
<1>2. TypeOK'
  <2>1. active' \in Tasks
    BY <1>1, <1>5, <1>7
  <2> QED
    BY <1>1, <1>6, <2>1 DEF GInv, TypeOK, markVars
<1>3. NoDanglingReference' /\ HoldersAlive'
  BY <1>1 DEF GInv, NoDanglingReference, HoldersAlive
<1>4. OneVm'
  <2>1. \A i \in 1 .. (n + 1) : spawners[i] \in alive
    BY <1>5 DEF GInv, OneVm
  <2>2. spawners[1] = current \/ current \notin alive
    BY <1>0 DEF GInv, OneVm
  <2>3. \A i \in 1 .. Len(spawners') : spawners'[i] \in alive
    BY <1>6, <1>7, <2>1
  <2>4. active' \in alive
    BY <1>1, <1>7, <2>1
  <2>5. spawners' # << >> => 1 \in 1 .. n
    BY <1>5, <1>6, EmptySeq, LenProperties
  <2>6. spawners' # << >> => spawners'[1] = current \/ current \notin alive
    BY <1>6, <2>2, <2>5
  <2>7. spawners' = << >> => n + 1 = 1
    BY <1>5, <1>6, EmptySeq
  <2>8. spawners' = << >> => active' = current \/ current \notin alive
    BY <1>1, <2>2, <2>7
  <2> QED
    BY <1>1, <2>3, <2>4, <2>6, <2>8 DEF GInv, OneVm
<1> QED
  BY <1>1, <1>2, <1>3, <1>4, NotMarkingFacts DEF GInv

\* The scheduler changes the current task and the vm_state together.
LEMMA SwitchKeepsGInv ==
    ASSUME GInv, NEW u \in Tasks, Switch(u)
    PROVE  GInv'
<1>1. /\ pc = "mutate" /\ pc' = "mutate" /\ spawners = << >> /\ UNCHANGED markVars
      /\ UNCHANGED <<live, refs, alive, spawners, inCall, spawned>>
      /\ u \in alive /\ current' = u /\ active' = u
  BY DEF Switch, Mutating, heapVars
<1>2. TypeOK'
  BY <1>1 DEF GInv, TypeOK, markVars
<1>3. NoDanglingReference' /\ HoldersAlive'
  BY <1>1 DEF GInv, NoDanglingReference, HoldersAlive
<1>4. OneVm'
  BY <1>1 DEF GInv, OneVm
<1> QED
  BY <1>1, <1>2, <1>3, <1>4, NotMarkingFacts DEF GInv

\* A task that ends takes its references with it.
LEMMA TaskEndsKeepsGInv ==
    ASSUME GInv, NEW u \in Tasks \cup {None}, TaskEnds(u)
    PROVE  GInv'
<1>1. /\ pc = "mutate" /\ spawners = << >> /\ UNCHANGED markVars
      /\ UNCHANGED <<live, spawners, inCall, spawned>>
      /\ current # Main /\ alive' = alive \ {current}
      /\ refs' = {r \in refs : r[1] \notin Roots(current) \cup {Mail(current)}}
  BY DEF TaskEnds, Mutating
<1>2. \/ /\ u \in alive \ {current} /\ current' = u /\ active' = u
         /\ pc' = "mutate"
      \/ pc' = "host" /\ UNCHANGED <<current, active>>
  BY <1>1 DEF TaskEnds
<1>3. TypeOK'
  <2>1. refs' \subseteq Places \X Objs /\ alive' \subseteq Tasks
    BY <1>1 DEF GInv, TypeOK
  <2>2. current' \in Tasks /\ active' \in Tasks /\ pc' \in {"mutate", "mark", "host"}
    BY <1>2 DEF GInv, TypeOK
  <2> QED
    BY <1>1, <2>1, <2>2 DEF GInv, TypeOK, markVars
<1>4. NoDanglingReference'
  BY <1>1 DEF GInv, NoDanglingReference
<1>5. HoldersAlive'
  BY <1>1 DEF GInv, HoldersAlive, TaskPlaces
<1>6. OneVm'
  BY <1>1, <1>2 DEF GInv, OneVm
<1> QED
  BY <1>1, <1>2, <1>3, <1>4, <1>5, <1>6, NotMarkingFacts DEF GInv

\* A run returns on the vm_state of main.
LEMMA ReturnKeepsGInv ==
    ASSUME GInv, Return
    PROVE  GInv'
<1>1. /\ pc = "mutate" /\ pc' = "host" /\ spawners = << >> /\ UNCHANGED markVars
      /\ UNCHANGED <<live, refs, alive, current, active, spawners, spawned>>
      /\ inCall' = FALSE
  BY DEF Return, Mutating, heapVars
<1>0. active = Main
  BY DEF Return
<1>2. TypeOK'
  BY <1>1 DEF GInv, TypeOK, markVars
<1>3. NoDanglingReference' /\ HoldersAlive'
  BY <1>1 DEF GInv, NoDanglingReference, HoldersAlive
<1>4. OneVm'
  BY <1>0, <1>1 DEF GInv, OneVm
<1> QED
  BY <1>1, <1>2, <1>3, <1>4, NotMarkingFacts DEF GInv

\* A host call runs on the vm_state of main, whatever `current' is.
LEMMA CallKeepsGInv ==
    ASSUME GInv, Call
    PROVE  GInv'
<1>1. /\ pc = "host" /\ pc' = "mutate" /\ UNCHANGED markVars
      /\ UNCHANGED <<live, refs, alive, current, spawners, spawned>>
      /\ inCall' = TRUE /\ active' = Main
  BY DEF Call, heapVars
<1>2. TypeOK'
  BY <1>1, TaskFacts DEF GInv, TypeOK, markVars
<1>3. NoDanglingReference' /\ HoldersAlive'
  BY <1>1 DEF GInv, NoDanglingReference, HoldersAlive
<1>4. OneVm'
  BY <1>1 DEF GInv, OneVm
<1> QED
  BY <1>1, <1>2, <1>3, <1>4, NotMarkingFacts DEF GInv

\* A run starts with an empty pool.
LEMMA RunKeepsGInv ==
    ASSUME GInv, Run
    PROVE  GInv'
<1>1. /\ pc = "host" /\ pc' = "mutate" /\ live' = {} /\ refs' = {} /\ marked' = {}
      /\ alive' = {Main} /\ current' = Main /\ active' = Main /\ inCall' = FALSE
      /\ spawned' = 0 /\ UNCHANGED <<worklist, scan, spawners>>
  BY DEF Run
<1>2. spawners = << >> /\ worklist = << >> /\ scan = {}
  BY <1>1 DEF GInv, OneVm, NotMarking
<1>3. TypeOK'
  <2>1. 0 \in 0 .. MaxSpawns
    BY GcAssumption
  <2> QED
    BY <1>1, <2>1, TaskFacts DEF GInv, TypeOK
<1>4. NoDanglingReference' /\ HoldersAlive'
  BY <1>1 DEF NoDanglingReference, HoldersAlive
<1>5. OneVm'
  BY <1>1, <1>2 DEF OneVm
<1>6. RootsCovered' /\ Tricolor' /\ NotMarking'
  BY <1>1, <1>2 DEF RootsCovered, Tricolor, NotMarking
<1> QED
  BY <1>3, <1>4, <1>5, <1>6 DEF GInv
----------------------------------------------------------------------------
(* Steps of the collector.                                                 *)

\* The collector skips the vm_state of `current', but that is the active one or
\* holds nothing.
LEMMA CollectKeepsGInv ==
    ASSUME GInv, Careful', Collect
    PROVE  GInv'
<1>0. /\ pc = "mutate" /\ pc' = "mark"
      /\ worklist' = << >> /\ scan' = RootSet
      /\ UNCHANGED <<live, refs, marked, taskVars>>
  BY DEF Collect, Mutating, heapVars
<1>1. /\ pc = "mutate" /\ pc' = "mark" /\ spawners = << >>
      /\ worklist' = << >> /\ scan' = RootSet
      /\ UNCHANGED <<live, refs, marked, taskVars>>
  BY <1>0 DEF Careful, taskVars
<1>2. marked = {} /\ (active = current \/ current \notin alive)
  BY <1>1, ActiveFacts DEF GInv, NotMarking
<1>3. RootSet \subseteq Objs
  BY DEF RootSet, HeldBy, Held
<1>4. TypeOK'
  BY <1>1, <1>3, EmptySeq DEF GInv, TypeOK, taskVars
<1>5. NoDanglingReference' /\ HoldersAlive' /\ OneVm'
  BY <1>1 DEF GInv, NoDanglingReference, HoldersAlive, OneVm, taskVars
<1>6. RootsCovered'
  <2> SUFFICES ASSUME NEW r \in refs, \A o \in Objs : r[1] # Field(o)
               PROVE  r[2] \in RootSet
    BY <1>1 DEF RootsCovered
  <2> DEFINE P == Roots(active) \cup {Global}
                    \cup (UNION {Roots(t) \cup {Mail(t)} : t \in alive \ {current}})
                    \cup {Mail(current)}
  <2>1. r[1] \in Places /\ r[2] \in Held(r[1])
    BY HeldFacts DEF GInv
  <2>2. r[1] \in P
    <3>1. CASE r[1] = Global
      BY <3>1
    <3>2. CASE \E t \in Tasks : r[1] \in Roots(t) \cup {Mail(t)}
      <4>1. PICK t \in Tasks : r[1] \in Roots(t) \cup {Mail(t)}
        BY <3>2
      <4>2. t \in alive
        BY <4>1 DEF GInv, HoldersAlive, TaskPlaces
      <4>3. CASE t = current
        BY <1>2, <4>1, <4>2, <4>3
      <4>4. CASE t # current
        <5>1. r[1] \in UNION {Roots(v) \cup {Mail(v)} : v \in alive \ {current}}
          BY <4>1, <4>2, <4>4, Zenon
        <5> QED
          BY <5>1
      <4> QED
        BY <4>3, <4>4
    <3> QED
      BY <2>1, <3>1, <3>2, PlaceCases
  <2>3. r[2] \in HeldBy(P)
    BY <2>1, <2>2, Zenon DEF HeldBy
  <2> QED
    BY <2>3 DEF RootSet
<1>7. Tricolor' /\ NotMarking'
  BY <1>1, <1>2 DEF Tricolor, NotMarking
<1> QED
  BY <1>4, <1>5, <1>6, <1>7 DEF GInv

\* An object that is marked is queued before its fields are looked at.
LEMMA MarkObjectQueueKeepsGInv ==
    ASSUME GInv, NEW o \in Objs, MarkObjectQueue(o)
    PROVE  GInv'
<1>1. /\ pc = "mark" /\ pc' = "mark" /\ o \in scan /\ scan' = scan \ {o}
      /\ UNCHANGED <<live, refs, taskVars>>
  BY DEF MarkObjectQueue, heapVars
<1>2. CASE o \in live \ marked
  <2>1. marked' = marked \cup {o} /\ worklist' = Append(worklist, o)
    BY <1>2 DEF MarkObjectQueue
  <2>2. TypeOK'
    BY <1>1, <1>2, <2>1 DEF GInv, TypeOK, taskVars
  <2>3. NoDanglingReference' /\ HoldersAlive' /\ OneVm'
    BY <1>1 DEF GInv, NoDanglingReference, HoldersAlive, OneVm, taskVars
  <2>4. RootsCovered' /\ NotMarking'
    BY <1>1, <2>1 DEF GInv, RootsCovered, NotMarking
  <2>5. Tricolor'
    <3> SUFFICES ASSUME NEW x \in marked'
                 PROVE  \/ \E i \in DOMAIN worklist' : worklist'[i] = x
                        \/ Held(Field(x))' \subseteq marked' \cup scan'
      BY DEF Tricolor
    <3>0. worklist \in Seq(Objs)
      BY DEF GInv, TypeOK
    <3>1. CASE x = o
      BY <2>1, <3>0, <3>1
    <3>2. CASE x \in marked /\ \E i \in DOMAIN worklist : worklist[i] = x
      BY <2>1, <3>0, <3>2
    <3>3. CASE x \in marked /\ Held(Field(x)) \subseteq marked \cup scan
      BY <1>1, <2>1, <3>3 DEF Held
    <3> QED
      BY <1>1, <2>1, <3>1, <3>2, <3>3 DEF GInv, Tricolor
  <2> QED
    BY <2>2, <2>3, <2>4, <2>5 DEF GInv
<1>3. CASE o \notin live \ marked
  <2>1. UNCHANGED <<marked, worklist>>
    BY <1>3 DEF MarkObjectQueue
  <2>2. TypeOK'
    BY <1>1, <2>1 DEF GInv, TypeOK, taskVars
  <2>3. NoDanglingReference' /\ HoldersAlive' /\ OneVm'
    BY <1>1 DEF GInv, NoDanglingReference, HoldersAlive, OneVm, taskVars
  <2>4. \A r \in refs : r[2] = o => o \in marked
    BY <1>3 DEF GInv, NoDanglingReference
  <2>5. RootsCovered' /\ NotMarking'
    BY <1>1, <2>1, <2>4 DEF GInv, RootsCovered, NotMarking
  <2>6. \A p : o \in Held(p) => o \in marked
    BY <1>3, HeldIsLive
  <2>7. Tricolor'
    BY <1>1, <2>1, <2>6 DEF GInv, Tricolor, Held
  <2> QED
    BY <2>2, <2>3, <2>5, <2>7 DEF GInv
<1> QED
  BY <1>2, <1>3

\* An object leaves the worklist when its fields are about to be visited.
LEMMA DrainMarkQueueKeepsGInv ==
    ASSUME GInv, DrainMarkQueue
    PROVE  GInv'
<1> DEFINE top == worklist[Len(worklist)]
<1>1. /\ pc = "mark" /\ pc' = "mark" /\ scan = {} /\ worklist # << >>
      /\ worklist' = SubSeq(worklist, 1, Len(worklist) - 1)
      /\ scan' = Held(Field(top))
      /\ UNCHANGED <<live, refs, marked, taskVars>>
  BY DEF DrainMarkQueue, heapVars
<1>2. worklist \in Seq(Objs) /\ Len(worklist) \in Nat \ {0}
  BY <1>1, EmptySeq, LenProperties DEF GInv, TypeOK
<1>3. /\ worklist' \in Seq(Objs)
      /\ Len(worklist') = Len(worklist) - 1
      /\ \A i \in 1 .. (Len(worklist) - 1) : worklist'[i] = worklist[i]
  <2> DEFINE n == Len(worklist) - 1
  <2>1. n \in Nat /\ n - 1 + 1 = n /\ \A i \in 1 .. n : 1 + i - 1 = i
    BY <1>2
  <2>2. \A i \in 1 .. n : worklist[i] \in Objs
    BY <1>2
  <2>3. /\ SubSeq(worklist, 1, n) \in Seq(Objs)
        /\ Len(SubSeq(worklist, 1, n)) = IF 1 <= n THEN n - 1 + 1 ELSE 0
        /\ \A i \in 1 .. n - 1 + 1 : SubSeq(worklist, 1, n)[i] = worklist[1 + i - 1]
    BY <2>1, <2>2, SubSeqProperties
  <2> HIDE DEF n
  <2>4. /\ Len(SubSeq(worklist, 1, n)) = n
        /\ \A i \in 1 .. n : SubSeq(worklist, 1, n)[i] = worklist[i]
    BY <2>1, <2>3
  <2> QED
    BY <1>1, <2>3, <2>4 DEF n
<1>4. TypeOK'
  BY <1>1, <1>3 DEF GInv, TypeOK, taskVars, Held
<1>5. NoDanglingReference' /\ HoldersAlive' /\ OneVm'
  BY <1>1 DEF GInv, NoDanglingReference, HoldersAlive, OneVm, taskVars
<1>6. RootsCovered' /\ NotMarking'
  BY <1>1 DEF GInv, RootsCovered, NotMarking
<1>7. Tricolor'
  <2> SUFFICES ASSUME NEW x \in marked
               PROVE  \/ \E i \in DOMAIN worklist' : worklist'[i] = x
                      \/ Held(Field(x)) \subseteq marked \cup Held(Field(top))
    BY <1>1 DEF Tricolor, Held
  <2>1. CASE Held(Field(x)) \subseteq marked \cup scan
    BY <1>1, <2>1
  <2>2. CASE \E i \in DOMAIN worklist : worklist[i] = x
    <3>1. PICK i \in 1 .. Len(worklist) : worklist[i] = x
      BY <1>2, <2>2
    <3>2. CASE i = Len(worklist)
      BY <3>1, <3>2
    <3>3. CASE i # Len(worklist)
      BY <1>2, <1>3, <3>1, <3>3
    <3> QED
      BY <3>2, <3>3
  <2> QED
    BY <1>1, <2>1, <2>2 DEF GInv, Tricolor
<1> QED
  BY <1>4, <1>5, <1>6, <1>7 DEF GInv

\* When nothing is left to visit, what is marked is closed under references and
\* contains everything that a place other than a field holds.
LEMMA SweepObjectsKeepsGInv ==
    ASSUME GInv, SweepObjects
    PROVE  GInv'
<1>1. /\ pc = "mark" /\ pc' = "mutate" /\ scan = {} /\ worklist = << >>
      /\ live' = marked /\ marked' = {}
      /\ refs' = {r \in refs : \A o \in Objs \ marked : r[1] # Field(o)}
      /\ UNCHANGED <<worklist, scan, taskVars>>
  BY DEF SweepObjects
<1>2. TypeOK'
  <2>1. refs' \subseteq Places \X Objs /\ live' \subseteq Objs
    BY <1>1 DEF GInv, TypeOK
  <2> QED
    BY <1>1, <2>1 DEF GInv, TypeOK, taskVars
<1>3. NoDanglingReference'
  <2> SUFFICES ASSUME NEW r \in refs' PROVE r[2] \in marked
    BY <1>1 DEF NoDanglingReference
  <2>1. r \in refs /\ \A o \in Objs \ marked : r[1] # Field(o)
    BY <1>1
  <2>2. CASE \A o \in Objs : r[1] # Field(o)
    BY <1>1, <2>1, <2>2 DEF GInv, RootsCovered
  <2>3. CASE \E o \in Objs : r[1] = Field(o)
    <3>1. PICK o \in Objs : r[1] = Field(o)
      BY <2>3
    <3>2. o \in marked
      BY <2>1, <3>1
    <3>3. r[2] \in Held(Field(o))
      BY <2>1, <3>1, HeldFacts DEF GInv
    <3>4. ~ \E i \in DOMAIN worklist : worklist[i] = o
      BY <1>1
    <3> QED
      BY <1>1, <3>2, <3>3, <3>4 DEF GInv, Tricolor
  <2> QED
    BY <2>2, <2>3
<1>4. HoldersAlive'
  BY <1>1 DEF GInv, HoldersAlive, taskVars
<1>5. OneVm'
  BY <1>1 DEF GInv, OneVm, taskVars
<1>6. RootsCovered' /\ Tricolor' /\ NotMarking'
  BY <1>1 DEF RootsCovered, Tricolor, NotMarking
<1> QED
  BY <1>2, <1>3, <1>4, <1>5, <1>6 DEF GInv
----------------------------------------------------------------------------
\* One step of the mutator or of the collector.
LEMMA GInvNext ==
    ASSUME GInv, Careful', [Next]_vars
    PROVE  GInv'
<1>1. CASE UNCHANGED vars
  BY <1>1 DEF vars, heapVars, markVars, taskVars, GInv, TypeOK, NoDanglingReference,
              HoldersAlive, OneVm, RootsCovered, Tricolor, NotMarking, Held
<1>2. CASE Mutate
  BY <1>2, MutatorSteps, SpawnClaimKeepsGInv, SpawnDoneKeepsGInv, SwitchKeepsGInv,
     TaskEndsKeepsGInv, ReturnKeepsGInv, Zenon DEF Mutate
<1>3. CASE Mark
  BY <1>3, MarkObjectQueueKeepsGInv, DrainMarkQueueKeepsGInv, Zenon DEF Mark
<1> QED
  BY <1>1, <1>2, <1>3, CallKeepsGInv, RunKeepsGInv, CollectKeepsGInv, SweepObjectsKeepsGInv, Zenon
  DEF Next
----------------------------------------------------------------------------
(* The worklist, for every mode.                                           *)

\* What is in the worklist has been marked, each object once, and nothing is
\* left in it when the collector is not marking: a mark is what keeps an object
\* from being pushed again.
WInv ==
    /\ worklist \in Seq(Objs)
    /\ \A i \in 1 .. Len(worklist) : worklist[i] \in marked
    /\ \A i, j \in 1 .. Len(worklist) : worklist[i] = worklist[j] => i = j
    /\ pc # "mark" => worklist = << >>

\* WInv is kept when the worklist is empty after the step, and when nothing but
\* marks are added.
LEMMA WorklistStep == WInv /\ [Next]_vars => WInv'
<1> SUFFICES ASSUME WInv, [Next]_vars PROVE WInv'
  OBVIOUS
<1>0. Len(worklist) \in Nat /\ Len(<< >>) = 0 /\ << >> \in Seq(Objs)
  BY LenProperties, EmptySeq DEF WInv
<1>1. CASE worklist' = << >>
  BY <1>0, <1>1 DEF WInv
<1>2. CASE UNCHANGED <<worklist, marked, pc>>
  BY <1>2 DEF WInv
<1>3. ASSUME NEW o \in Objs, MarkObjectQueue(o), o \in live \ marked PROVE WInv'
  <2>1. worklist' = Append(worklist, o) /\ marked' = marked \cup {o} /\ pc' = "mark"
    BY <1>3 DEF MarkObjectQueue
  <2>2. /\ worklist' \in Seq(Objs) /\ Len(worklist') = Len(worklist) + 1
        /\ worklist'[Len(worklist) + 1] = o
        /\ \A i \in 1 .. Len(worklist) : worklist'[i] = worklist[i]
    BY <2>1, AppendProperties DEF WInv
  <2>3. \A i \in 1 .. Len(worklist') : i \in 1 .. Len(worklist) \/ i = Len(worklist) + 1
    BY <1>0, <2>2
  <2>4. \A i \in 1 .. Len(worklist) : worklist[i] # o /\ worklist[i] \in marked
    BY <1>3 DEF WInv
  <2>5. \A i \in 1 .. Len(worklist') : worklist'[i] \in marked'
    BY <2>1, <2>2, <2>3, <2>4
  <2>6. \A i, j \in 1 .. Len(worklist') : worklist'[i] = worklist'[j] => i = j
    BY <2>2, <2>3, <2>4 DEF WInv
  <2> QED
    BY <2>1, <2>2, <2>5, <2>6 DEF WInv
<1>4. CASE DrainMarkQueue
  <2>1. /\ worklist' = SubSeq(worklist, 1, Len(worklist) - 1) /\ worklist # << >>
        /\ marked' = marked /\ pc' = "mark"
    BY <1>4 DEF DrainMarkQueue
  <2>2. Len(worklist) \in Nat \ {0} /\ \A i \in 1 .. Len(worklist) : worklist[i] \in Objs
    BY <2>1, EmptySeq, ElementOfSeq DEF WInv
  <2>3. /\ worklist' \in Seq(Objs) /\ Len(worklist') = Len(worklist) - 1
        /\ \A i \in 1 .. Len(worklist) - 1 : worklist'[i] = worklist[i]
    <3> DEFINE n == Len(worklist) - 1
               rest == SubSeq(worklist, 1, n)
    <3>1. n \in Nat /\ \A i \in 1 .. n : worklist[i] \in Objs
      BY <2>2
    <3> HIDE DEF n
    <3>2. /\ rest \in Seq(Objs)
          /\ Len(rest) = IF 1 <= n THEN n - 1 + 1 ELSE 0
          /\ \A i \in 1 .. n - 1 + 1 : rest[i] = worklist[1 + i - 1]
      BY <3>1, SubSeqProperties
    <3> HIDE DEF rest
    <3>3. Len(rest) = n /\ \A i \in 1 .. n : rest[i] = worklist[i]
      BY <3>1, <3>2
    <3>4. worklist' = rest
      BY <2>1 DEF rest, n
    <3> QED
      BY <3>2, <3>3, <3>4 DEF n
  <2>4. \A i \in 1 .. Len(worklist') : i \in 1 .. Len(worklist) /\ worklist'[i] = worklist[i]
    BY <2>2, <2>3
  <2> QED
    BY <2>1, <2>3, <2>4 DEF WInv
<1>5. CASE pc # "mark" /\ worklist' = worklist
  BY <1>1, <1>5 DEF WInv
<1>6. CASE SweepObjects
  BY <1>1, <1>6 DEF SweepObjects
<1>7. CASE Collect
  BY <1>1, <1>7 DEF Collect
<1>8. ASSUME NEW o \in Objs, MarkObjectQueue(o) PROVE WInv'
  BY <1>2, <1>3, <1>8 DEF MarkObjectQueue
<1>9. CASE Mutate \/ Call \/ Run
  BY <1>5, <1>9 DEF Mutate, Call, Run, Alloc, Load, Store, Drop, TailCall, Panic, Recover,
     Receive, Send, SpawnClaim, Switch, SpawnDone, TaskEnds, Return, Mutating, markVars
<1>10. CASE UNCHANGED vars
  BY <1>2, <1>10 DEF vars, markVars
<1> QED
  BY <1>4, <1>6, <1>7, <1>8, <1>9, <1>10 DEF Next, Mark

\* mark_worklist, allocated with one entry per slot of the object pool, is never
\* overrun: an injective sequence of objects is no longer than the pool
\* (markObjectQueue would end the process).
THEOREM WorklistNeverOverflows == Spec => []WorklistFits
<1>1. Init => WInv
  BY EmptySeq DEF Init, WInv
<1>2. WInv => WorklistFits
  <2> SUFFICES ASSUME WInv PROVE WorklistFits
    OBVIOUS
  <2> DEFINE n == Len(worklist)
  <2>1. n \in Nat /\ DOMAIN worklist = 1 .. n /\ worklist \in [1 .. n -> Objs]
    BY LenProperties DEF WInv
  <2>2. \A i, j \in 1 .. n : worklist[i] = worklist[j] => i = j
    BY DEF WInv
  <2> HIDE DEF n
  <2>3. worklist \in Injection(1 .. n, Objs)
    BY <2>1, <2>2 DEF Injection, IsInjective
  <2>4. Cardinality(1 .. n) <= Cardinality(Objs)
    BY <2>3, GcAssumption, FS_Injection
  <2>5. Cardinality(1 .. n) = n
    BY <2>1, FS_Interval
  <2> QED
    BY <2>1, <2>2, <2>4, <2>5 DEF WorklistFits, n
<1> QED
  BY <1>1, <1>2, WorklistStep, PTL DEF Spec
----------------------------------------------------------------------------
(* A sweep frees exactly what cannot be reached.                           *)

\* A nonempty set of naturals has a least element: the well-foundedness of
\* strict inclusion among finite sets, applied to the intervals 0 .. x.
LEMMA Smallest ==
    ASSUME NEW T \in SUBSET Nat, T # {}
    PROVE  \E x \in T : \A y \in T : x <= y
<1> DEFINE F == {0 .. x : x \in T}
           R == StrictSubsetOrdering(Nat)
           B == FiniteSubsetsOf(Nat)
<1>1. \A x \in T : 0 .. x \in B
  <2> SUFFICES ASSUME NEW x \in T PROVE 0 .. x \in B
    OBVIOUS
  <2>1. x \in Int /\ 0 \in Int
    OBVIOUS
  <2>2. IsFiniteSet(0 .. x)
    BY <2>1, FS_Interval
  <2> QED BY <2>2 DEF FiniteSubsetsOf
<1>2. F \subseteq B /\ F # {}
  BY <1>1
<1>3. IsWellFoundedOn(R, B)
  BY FS_StrictSubsetOrderingWellFounded
<1>4. \E s \in F : \A r \in F : ~(<<r, s>> \in R)
  <2> HIDE DEF F, R, B
  <2> QED BY <1>2, <1>3, WFMin
<1>5. PICK x \in T : \A y \in T : ~(<<0 .. y, 0 .. x>> \in R)
  BY <1>4
<1>6. ASSUME NEW y \in T, ~(x <= y) PROVE FALSE
  <2>1. 0 .. y \subseteq 0 .. x /\ 0 .. y # 0 .. x
    <3>1. x \in 0 .. x /\ x \notin 0 .. y
      BY <1>6
    <3> QED BY <3>1, <1>6
  <2>2. <<0 .. y, 0 .. x>> \in R
    BY <2>1, <1>1 DEF StrictSubsetOrdering
  <2> QED BY <1>5, <2>2
<1> QED BY <1>5, <1>6

\* Induction up to N, for a set of numbers.
LEMMA UpTo ==
    ASSUME NEW N \in Nat, NEW S, 0 \in S,
           \A n \in 0 .. (N - 1) : n \in S => n + 1 \in S
    PROVE  0 .. N \subseteq S
<1> DEFINE T == (0 .. N) \ S
<1> SUFFICES ASSUME T # {} PROVE FALSE
  OBVIOUS
<1>1. T \in SUBSET Nat
  OBVIOUS
<1>2. PICK x \in T : \A y \in T : x <= y
  <2> HIDE DEF T
  <2> QED
    BY <1>1, Smallest
<1>3. x # 0 /\ x - 1 \in 0 .. (N - 1)
  BY <1>2
<1>4. x - 1 \in S
  BY <1>2, <1>3
<1> QED
  BY <1>2, <1>3, <1>4

\* What the globals and the live tasks hold, and the sets that fields do not
\* lead out of.
LiveRoots == HeldBy({Global} \cup (UNION {Roots(t) \cup {Mail(t)} : t \in alive}))

Follow(S) == S \cup (UNION {Held(Field(o)) : o \in S})

Closed(M) == \A o \in M : Held(Field(o)) \subseteq M

\* The sets of objects reached in n steps, for any n up to a bound.
Steps(w, n) ==
    w = [i \in 0 .. n |-> IF i = 0 THEN LiveRoots ELSE Follow(w[i - 1])]

\* They exist: the recursive definition of Reachable defines something.
LEMMA StepsExist ==
    ASSUME NEW N \in Nat
    PROVE  \E w : Steps(w, N)
<1> DEFINE S == {n \in Nat : \E w : Steps(w, n)}
<1>1. 0 \in S
  <2> DEFINE w == [i \in 0 .. 0 |-> LiveRoots]
  <2>1. w = [i \in 0 .. 0 |-> IF i = 0 THEN LiveRoots ELSE Follow(w[i - 1])]
    OBVIOUS
  <2> QED
    BY <2>1 DEF Steps
<1>2. ASSUME NEW n \in 0 .. (N - 1), n \in S PROVE n + 1 \in S
  <2>1. PICK w : w = [i \in 0 .. n |-> IF i = 0 THEN LiveRoots ELSE Follow(w[i - 1])]
    BY <1>2 DEF Steps
  <2> DEFINE v == [i \in 0 .. n + 1 |-> IF i <= n THEN w[i] ELSE Follow(w[n])]
             f(i) == IF i = 0 THEN LiveRoots ELSE Follow(v[i - 1])
  <2>2. ASSUME NEW i \in 0 .. n + 1 PROVE v[i] = f(i)
    <3>1. CASE i = 0
      BY <2>1, <3>1
    <3>2. CASE i \in 1 .. n
      <4>1. i - 1 \in 0 .. n + 1 /\ i - 1 <= n /\ i <= n /\ i \in 0 .. n
        BY <3>2
      <4>2. v[i] = w[i] /\ v[i - 1] = w[i - 1]
        BY <4>1
      <4>3. w[i] = Follow(w[i - 1])
        BY <2>1, <3>2, <4>1
      <4> QED
        BY <3>2, <4>2, <4>3
    <3>3. CASE i = n + 1
      <4>1. i - 1 = n /\ i # 0 /\ n \in 0 .. n + 1 /\ ~(i <= n)
        BY <3>3
      <4>2. v[i] = Follow(w[n]) /\ v[n] = w[n]
        BY <3>3, <4>1
      <4> QED
        BY <4>1, <4>2
    <3> QED
      BY <3>1, <3>2, <3>3
  <2>3. v = [i \in 0 .. n + 1 |-> f(i)]
    BY <2>2
  <2>4. Steps(v, n + 1)
    BY <2>3 DEF Steps
  <2> QED
    BY <2>4
<1>3. 0 .. N \subseteq S
  <2> HIDE DEF S
  <2> QED
    BY <1>1, <1>2, UpTo
<1> QED
  BY <1>3

\* Reachable is the last of them.
LEMMA ReachableIsLast ==
    \E w : Steps(w, Cardinality(Objs)) /\ Reachable = w[Cardinality(Objs)]
<1> DEFINE N == Cardinality(Objs)
<1>1. N \in Nat
  BY GcAssumption, FS_CardinalityType
<1>2. \E w : Steps(w, N)
  BY <1>1, StepsExist
<1> QED
  BY <1>2 DEF Reachable, Steps, LiveRoots, Follow

\* What is reached is closed under fields, because the pool is finite: every
\* step that is not the last adds an object. And it is the least such set.
LEMMA ReachableFacts ==
    /\ Reachable \subseteq Objs /\ LiveRoots \subseteq Reachable /\ Closed(Reachable)
    /\ \A M \in SUBSET Objs : LiveRoots \subseteq M /\ Closed(M) => Reachable \subseteq M
<1> DEFINE N == Cardinality(Objs)
<1>1. N \in Nat
  BY GcAssumption, FS_CardinalityType
<1>2. PICK w : Steps(w, N) /\ Reachable = w[N]
  BY ReachableIsLast
<1> HIDE DEF N
<1>3. w[0] = LiveRoots /\ \A n \in 0 .. (N - 1) : w[n + 1] = Follow(w[n])
  <2>1. ASSUME NEW i \in 0 .. N PROVE w[i] = IF i = 0 THEN LiveRoots ELSE Follow(w[i - 1])
    BY <1>2 DEF Steps
  <2>2. 0 \in 0 .. N
    BY <1>1
  <2>3. \A n \in 0 .. (N - 1) : n + 1 \in 0 .. N /\ n + 1 # 0 /\ (n + 1) - 1 = n
    BY <1>1
  <2> QED
    BY <2>1, <2>2, <2>3
<1>4. LiveRoots \subseteq Objs /\ \A S \in SUBSET Objs : S \subseteq Follow(S) /\ Follow(S) \subseteq Objs
  BY DEF LiveRoots, HeldBy, Held, Follow
<1>5. \A n \in 0 .. N : w[n] \subseteq Objs /\ LiveRoots \subseteq w[n]
  <2> DEFINE S == {n \in 0 .. N : w[n] \subseteq Objs /\ LiveRoots \subseteq w[n]}
  <2>1. 0 \in S
    BY <1>1, <1>3, <1>4
  <2>2. ASSUME NEW n \in 0 .. (N - 1), n \in S PROVE n + 1 \in S
    BY <1>1, <1>3, <1>4, <2>2
  <2>3. 0 .. N \subseteq S
    <3> HIDE DEF S
    <3> QED
      BY <1>1, <2>1, <2>2, UpTo
  <2> QED
    BY <2>3
<1>6. \A M \in SUBSET Objs : LiveRoots \subseteq M /\ Closed(M) => w[N] \subseteq M
  <2> SUFFICES ASSUME NEW M \in SUBSET Objs, LiveRoots \subseteq M, Closed(M)
               PROVE  w[N] \subseteq M
    OBVIOUS
  <2> DEFINE S == {n \in 0 .. N : w[n] \subseteq M}
  <2>1. 0 \in S
    BY <1>1, <1>3
  <2>2. ASSUME NEW n \in 0 .. (N - 1), n \in S PROVE n + 1 \in S
    <3>1. Follow(w[n]) \subseteq M
      BY <2>2 DEF Follow, Closed
    <3> QED
      BY <1>1, <1>3, <3>1
  <2>3. 0 .. N \subseteq S
    <3> HIDE DEF S
    <3> QED
      BY <1>1, <2>1, <2>2, UpTo
  <2> QED
    BY <1>1, <2>3
<1>7. Closed(w[N])
  <2> DEFINE S == {n \in 0 .. N : Closed(w[n]) \/ Cardinality(w[n]) >= n}
  <2>0. \A T \in SUBSET Objs : IsFiniteSet(T) /\ Cardinality(T) \in Nat
    BY GcAssumption, FS_Subset, FS_CardinalityType
  <2>1. 0 \in S
    BY <1>1, <1>5, <2>0
  <2>2. ASSUME NEW n \in 0 .. (N - 1), n \in S PROVE n + 1 \in S
    <3>0. n \in 0 .. N /\ n + 1 \in 0 .. N /\ n \in Nat
      BY <1>1
    <3>1. CASE Closed(w[n])
      <4>1. Follow(w[n]) = w[n]
        BY <3>1 DEF Follow, Closed
      <4> QED
        BY <1>3, <3>0, <3>1, <4>1
    <3>2. CASE ~Closed(w[n])
      <4>1. w[n] \subseteq w[n + 1] /\ w[n] # w[n + 1]
        <5>1. w[n] \subseteq Follow(w[n]) /\ w[n] # Follow(w[n])
          BY <3>2 DEF Follow, Closed
        <5> QED
          BY <1>3, <5>1
      <4>2. /\ IsFiniteSet(w[n + 1]) /\ Cardinality(w[n]) \in Nat
            /\ Cardinality(w[n + 1]) \in Nat
        BY <1>5, <2>0, <3>0
      <4>3. Cardinality(w[n]) <= Cardinality(w[n + 1])
            /\ Cardinality(w[n + 1]) # Cardinality(w[n])
        BY <4>1, <4>2, FS_Subset
      <4>4. Cardinality(w[n]) >= n
        BY <2>2, <3>2
      <4>5. Cardinality(w[n + 1]) >= n + 1
        BY <3>0, <4>2, <4>3, <4>4
      <4> QED
        BY <3>0, <4>5
    <3> QED
      BY <3>1, <3>2
  <2>3. 0 .. N \subseteq S
    <3> HIDE DEF S
    <3> QED
      BY <1>1, <2>1, <2>2, UpTo
  <2>4. CASE Cardinality(w[N]) >= N
    <3>1. N \in 0 .. N
      BY <1>1
    <3>2. w[N] \in SUBSET Objs
      BY <1>5, <3>1
    <3>3. Cardinality(w[N]) <= Cardinality(Objs) /\ (Cardinality(Objs) = Cardinality(w[N]) => Objs = w[N])
      BY <3>2, GcAssumption, FS_Subset
    <3>4. Objs = w[N]
      BY <1>1, <2>0, <2>4, <3>2, <3>3 DEF N
    <3> QED
      BY <3>4 DEF Closed, Held
  <2> QED
    BY <1>1, <2>3, <2>4
<1> QED
  BY <1>1, <1>2, <1>5, <1>6, <1>7

\* Whatever the collector has marked or is about to lies in every closed set
\* that contains the roots of the live tasks.
NothingElseMarked ==
    pc = "mark" =>
        \A M \in SUBSET Objs :
            LiveRoots \subseteq M /\ Closed(M) => marked \cup scan \subseteq M

\* A collection starts from roots of live tasks only: it runs on the vm_state of
\* one, and the mailbox of a current task that has ended is empty. What it visits
\* next is a field of a marked object.
LEMMA NothingElseStep ==
    ASSUME GInv, WInv, NothingElseMarked, [Next]_vars
    PROVE  NothingElseMarked'
<1>1. CASE Collect
  <2>1. /\ pc = "mutate" /\ scan' = RootSet /\ UNCHANGED <<refs, marked, alive>>
    BY <1>1 DEF Collect, Mutating, heapVars, taskVars
  <2>2. marked = {} /\ active \in alive /\ current \in Tasks
    BY <2>1, ActiveFacts DEF GInv, NotMarking
  <2>3. RootSet \subseteq LiveRoots
    <3> DEFINE P == Roots(active) \cup {Global}
                      \cup (UNION {Roots(t) \cup {Mail(t)} : t \in alive \ {current}})
                      \cup {Mail(current)}
               Q == {Global} \cup (UNION {Roots(t) \cup {Mail(t)} : t \in alive})
    <3>0. ASSUME NEW p \in P, NEW o \in Held(p) PROVE p \in Q
      <4>1. \A t \in alive : Roots(t) \subseteq Q /\ Mail(t) \in Q
        <5> SUFFICES ASSUME NEW t \in alive
                     PROVE  Roots(t) \cup {Mail(t)} \subseteq Q
          OBVIOUS
        <5>1. Roots(t) \cup {Mail(t)} \in {Roots(u) \cup {Mail(u)} : u \in alive}
          OBVIOUS
        <5> QED
          BY <5>1, Zenon
      <4>2. Global \in Q
        OBVIOUS
      <4>3. p = Mail(current) => current \in alive
        <5> SUFFICES ASSUME p = Mail(current) PROVE current \in alive
          OBVIOUS
        <5>1. <<p, o>> \in refs /\ <<p, o>>[1] = p
          BY DEF Held
        <5>2. p \in TaskPlaces(current)
          BY DEF TaskPlaces
        <5> QED
          BY <2>2, <5>1, <5>2, Zenon DEF GInv, HoldersAlive
      <4>4. \/ p \in Roots(active) \/ p = Global \/ p = Mail(current)
            \/ \E t \in alive : p \in Roots(t) \cup {Mail(t)}
        BY Zenon
      <4> HIDE DEF P, Q
      <4> QED
        BY <2>2, <4>1, <4>2, <4>3, <4>4
    <3>2. HeldBy(P) \subseteq HeldBy(Q)
      <4> HIDE DEF P, Q
      <4> QED
        BY <3>0, Zenon DEF HeldBy
    <3> QED
      BY <3>2 DEF RootSet, LiveRoots
  <2>4. LiveRoots' = LiveRoots
    BY <2>1 DEF LiveRoots, HeldBy, Held
  <2> QED
    BY <2>1, <2>2, <2>3, <2>4 DEF NothingElseMarked
<1>2. ASSUME pc = "mark", UNCHANGED <<refs, alive>>,
             \A M \in SUBSET Objs :
                LiveRoots \subseteq M /\ Closed(M) /\ marked \cup scan \subseteq M
                    => marked' \cup scan' \subseteq M
      PROVE  NothingElseMarked'
  <2>1. LiveRoots' = LiveRoots /\ \A M : Closed(M)' <=> Closed(M)
    BY <1>2 DEF LiveRoots, HeldBy, Held, Closed
  <2> QED
    BY <1>2, <2>1 DEF NothingElseMarked
<1>3. ASSUME NEW o \in Objs, MarkObjectQueue(o) PROVE NothingElseMarked'
  <2>1. /\ pc = "mark" /\ o \in scan /\ scan' = scan \ {o} /\ UNCHANGED <<refs, alive>>
        /\ marked' \subseteq marked \cup {o}
    BY <1>3 DEF MarkObjectQueue, heapVars, taskVars
  <2> QED
    BY <1>2, <2>1
<1>4. CASE DrainMarkQueue
  <2> DEFINE top == worklist[Len(worklist)]
  <2>1. /\ pc = "mark" /\ worklist # << >> /\ scan' = Held(Field(top))
        /\ UNCHANGED <<refs, alive, marked>>
    BY <1>4 DEF DrainMarkQueue, heapVars, taskVars
  <2>2. top \in marked
    <3>1. Len(worklist) \in 1 .. Len(worklist)
      BY <2>1, EmptySeq, LenProperties DEF WInv
    <3> QED
      BY <3>1 DEF WInv
  <2> HIDE DEF top
  <2>3. \A M \in SUBSET Objs : Closed(M) /\ marked \cup scan \subseteq M
                                => marked' \cup scan' \subseteq M
    BY <2>1, <2>2 DEF Closed
  <2> QED
    BY <1>2, <2>1, <2>3
<1>5. CASE pc' # "mark"
  BY <1>5 DEF NothingElseMarked
<1>6. CASE UNCHANGED vars
  BY <1>2, <1>5, <1>6 DEF vars, heapVars, markVars, taskVars
<1>7. CASE Mutate \/ Call \/ Run \/ SweepObjects
  BY <1>5, <1>7 DEF Mutate, Call, Run, SweepObjects, Alloc, Load, Store, Drop, TailCall,
     Panic, Recover, Receive, Send, SpawnClaim, Switch, SpawnDone, TaskEnds, Return, Mutating
<1> QED
  BY <1>1, <1>3, <1>4, <1>6, <1>7 DEF Next, Mark

\* When marking has ended, what is marked contains the roots of the live tasks
\* and is closed under fields.
LEMMA MarkedIsClosed ==
    ASSUME GInv, SweepObjects
    PROVE  LiveRoots \subseteq marked /\ Closed(marked) /\ marked \subseteq Objs
<1>1. pc = "mark" /\ scan = {} /\ worklist = << >>
  BY DEF SweepObjects
<1>2. marked \subseteq Objs
  BY DEF GInv, TypeOK
<1>3. Closed(marked)
  BY <1>1 DEF GInv, Tricolor, Closed
<1>4. LiveRoots \subseteq marked
  <2> DEFINE Q == {Global} \cup (UNION {Roots(t) \cup {Mail(t)} : t \in alive})
  <2> SUFFICES ASSUME NEW x \in HeldBy(Q) PROVE x \in marked
    BY DEF LiveRoots
  <2>1. PICK p \in Q : x \in Held(p)
    BY Zenon DEF HeldBy
  <2>2. <<p, x>> \in refs /\ <<p, x>>[1] = p /\ <<p, x>>[2] = x
    BY <2>1 DEF Held
  <2>3. \A o \in Objs : p # Field(o)
    <3>1. CASE p = Global
      BY <3>1 DEF Global, Field
    <3>2. CASE p # Global
      <4>1. PICK t \in alive : p \in Roots(t) \cup {Mail(t)}
        BY <3>2, Zenon
      <4>2. t \in Tasks
        BY DEF GInv, TypeOK
      <4> QED
        BY <4>1, <4>2, PlacesApart
    <3> QED
      BY <3>1, <3>2
  <2>4. \A o \in Objs : <<p, x>>[1] # Field(o)
    BY <2>2, <2>3
  <2> QED
    BY <1>1, <2>2, <2>4 DEF GInv, RootsCovered
<1> QED
  BY <1>2, <1>3, <1>4

----------------------------------------------------------------------------
(* The theorems.                                                           *)

\* The inductive invariant of safe and complete collection.
CollectorInv == GInv /\ WInv /\ NothingElseMarked

LEMMA CollectorInvInit == Init => CollectorInv
BY GInvInit, EmptySeq DEF Init, WInv, NothingElseMarked, CollectorInv

LEMMA CollectorInvNext == CollectorInv /\ Careful' /\ [Next]_vars => CollectorInv'
BY GInvNext, WorklistStep, NothingElseStep DEF CollectorInv

\* A sweep frees what is not marked, and that is what no live task reaches.
LEMMA SweepStep ==
    ASSUME CollectorInv, [Next]_vars, pc = "mark", pc' = "mutate"
    PROVE  live' = Reachable
<1> USE DEF CollectorInv
<1>1. SweepObjects
  BY DEF Next, vars, Mutate, Call, Run, Collect, Mark, MarkObjectQueue, DrainMarkQueue,
     Alloc, Load, Store, Drop, TailCall, Panic, Recover, Receive, Send, SpawnClaim, Switch,
     SpawnDone, TaskEnds, Return, Mutating
<1>2. live' = marked
  BY <1>1 DEF SweepObjects
<1>3. Reachable \subseteq marked
  BY <1>1, MarkedIsClosed, ReachableFacts
<1>4. marked \subseteq Reachable
  BY ReachableFacts DEF NothingElseMarked
<1> QED
  BY <1>2, <1>3, <1>4

\* In every mode, whatever the pool, the number of tasks, the number of spawns
\* and the object graph: in a behaviour in which the collector never runs while
\* spawnTask enters a frame and no spawn takes the slot `current' stands for, no
\* reference dangles, no black object points at a white one and every sweep is
\* exact, whatever script code runs inside spawnTask. So collectGarbage can go
\* wrong in these two ways only.
THEOREM CarefulRunsAreSafe ==
    Spec /\ []Careful => [](NoDanglingReference /\ Tricolor) /\ SweepIsExact
<1>1. CollectorInv => NoDanglingReference /\ Tricolor
  BY DEF CollectorInv, GInv
<1>2. CollectorInv /\ [Next]_vars => [pc = "mark" /\ pc' = "mutate" => live' = Reachable]_vars
  BY SweepStep
<1> QED
  BY <1>1, <1>2, CollectorInvInit, CollectorInvNext, PTL DEF Spec, SweepIsExact

\* Those behaviours are the ones of CarefulSpec.
LEMMA CarefulSpecIsCareful == CarefulSpec => Spec /\ []Careful
<1>1. Init => Careful
  BY DEF Init, Careful
<1>2. Careful /\ [Next /\ Careful']_vars => Careful'
  BY DEF Careful, vars, markVars, taskVars
<1>3. [Next /\ Careful']_vars => [Next]_vars
  OBVIOUS
<1> QED
  BY <1>1, <1>2, <1>3, PTL DEF CarefulSpec, Spec

\* What a program and its host can do without meeting either: no behaviour is
\* spawned that is variadic or has a parameter of a named or an interface type
\* that a bare value must be turned into, and the host calls only programs that
\* spawn at most one task per run.
Undisturbed == "entry" \notin Modes /\ ("call" \in Modes => MaxSpawns <= 1)

\* Without host calls the current task is alive whenever one executes; with
\* them, `current' is still main's slot when the only spawn happens. No task is
\* spawned while another one is.
Spawns ==
    /\ "call" \notin Modes => ~inCall /\ (pc # "host" => current \in alive)
    /\ spawned = 0 => current = Main /\ alive = {Main}
    /\ pc = "host" => spawners = << >>
    /\ spawners # << >> => \E t : spawners = <<t>>
    /\ spawned \in Nat

LEMMA CarefulStep ==
    ASSUME Undisturbed, Careful, Spawns, [Next]_vars
    PROVE  Careful' /\ Spawns'
<1> USE DEF Careful, Spawns
<1>1. CASE UNCHANGED <<pc, taskVars>>
  BY <1>1 DEF taskVars
<1>2. ASSUME NEW u \in Tasks, SpawnClaim(u) PROVE Careful' /\ Spawns'
  <2>1. /\ pc = "mutate" /\ pc' = "mutate" /\ spawned < MaxSpawns
        /\ u \notin alive /\ u # Main /\ alive' = alive \cup {u}
        /\ active' = u /\ spawned' = spawned + 1 /\ UNCHANGED <<current, inCall>>
        /\ spawners = << >> /\ spawners' = Append(spawners, active)
    BY <1>2 DEF SpawnClaim, Mutating, Undisturbed
  <2>2. u # current
    <3>1. CASE "call" \in Modes
      <4>1. spawned = 0
        BY <2>1, <3>1, GcAssumption DEF Undisturbed
      <4> QED
        BY <2>1, <4>1
    <3>2. CASE "call" \notin Modes
      BY <2>1, <3>2
    <3> QED
      BY <3>1, <3>2
  <2>3. spawned' \in Nat /\ spawned' # 0 /\ spawners' = <<active>>
    BY <2>1
  <2> QED
    BY <2>1, <2>2, <2>3
<1>3. CASE SpawnDone
  <2>1. PICK t : spawners = <<t>>
    BY <1>3 DEF SpawnDone
  <2>2. SubSeq(spawners, 1, Len(spawners) - 1) = << >>
    <3>1. /\ SubSeq(<<t>>, 1, 0) \in Seq({t})
          /\ Len(SubSeq(<<t>>, 1, 0)) = IF 1 <= 0 THEN 0 - 1 + 1 ELSE 0
      <4>1. \A i \in 1 .. 0 : <<t>>[i] \in {t}
        OBVIOUS
      <4>2. 1 \in Nat /\ 0 \in Nat
        OBVIOUS
      <4>3. <<t>> \in Seq({t})
        OBVIOUS
      <4> QED
        BY <4>1, <4>2, <4>3, SubSeqProperties
    <3>2. Len(spawners) - 1 = 0
      BY <2>1
    <3> QED
      BY <2>1, <3>1, <3>2, EmptySeq
  <2>3. spawners' = << >> /\ pc' = pc /\ pc = "mutate"
        /\ UNCHANGED <<alive, current, inCall, spawned>>
    BY <1>3, <2>2 DEF SpawnDone
  <2> QED
    BY <2>3
<1>4. ASSUME NEW u \in Tasks, Switch(u) PROVE Careful' /\ Spawns'
  BY <1>4 DEF Switch, Mutating
<1>5. ASSUME NEW u \in Tasks \cup {None}, TaskEnds(u) PROVE Careful' /\ Spawns'
  BY <1>5 DEF TaskEnds, Mutating
<1>6. CASE Return
  BY <1>6 DEF Return, Mutating
<1>7. CASE Call
  BY <1>7 DEF Call
<1>8. CASE Run
  BY <1>8 DEF Run
<1>9. CASE Collect
  BY <1>9 DEF Collect, Mutating, Undisturbed, taskVars
<1>10. CASE SweepObjects
  BY <1>10 DEF SweepObjects, taskVars
<1>11. CASE Mark
  BY <1>1, <1>11 DEF Mark, MarkObjectQueue, DrainMarkQueue
<1>12. ASSUME NEW o \in Objs, NEW a \in {"stack", "temp"}, Alloc(o, a)
       PROVE  UNCHANGED <<pc, taskVars>>
  BY <1>12 DEF Alloc
<1>13. ASSUME NEW p \in Places, NEW o \in Objs, Load(p, o) \/ Store(p, o) \/ Drop(p, o)
       PROVE  UNCHANGED <<pc, taskVars>>
  BY <1>13 DEF Load, Store, Drop
<1>14. ASSUME NEW o \in Objs, TailCall(o) \/ Panic(o) \/ Recover(o) \/ Receive(o)
       PROVE  UNCHANGED <<pc, taskVars>>
  BY <1>14 DEF TailCall, Panic, Recover, Receive
<1>15. ASSUME NEW u \in Tasks, NEW c \in Objs, Send(u, c)
       PROVE  UNCHANGED <<pc, taskVars>>
  BY <1>15 DEF Send
<1>16. CASE UNCHANGED vars
  BY <1>1, <1>16 DEF vars
<1> QED
  BY <1>1, <1>2, <1>3, <1>4, <1>5, <1>6, <1>7, <1>8, <1>9, <1>10, <1>11, <1>12, <1>13, <1>14,
     <1>15, <1>16, Zenon DEF Next, Mutate

\* Then both conditions hold throughout.
LEMMA UndisturbedIsCareful ==
    ASSUME Undisturbed
    PROVE  Spec => []Careful
<1>1. Init => Careful /\ Spawns
  BY DEF Init, Careful, Spawns
<1>2. Careful /\ Spawns /\ [Next]_vars => (Careful /\ Spawns)'
  BY CarefulStep
<1> QED
  BY <1>1, <1>2, PTL DEF Spec

\* Whatever the pool, the number of tasks and the object graph, collection frees
\* no object that a stack, a frame, a temporary root, a deferred call, a panic, a
\* mailbox, a global or a live object's field still refers to: under a scheduler
\* alone for any number of spawns, and with host calls for one.
THEOREM NothingDangles ==
    ASSUME Undisturbed
    PROVE  Spec => []NoDanglingReference
BY UndisturbedIsCareful, CarefulRunsAreSafe, PTL

\* Under the same conditions no black object points at a white one while the
\* collector marks.
THEOREM MarkingIsTricolor ==
    ASSUME Undisturbed
    PROVE  Spec => []Tricolor
BY UndisturbedIsCareful, CarefulRunsAreSafe, PTL

\* A sweep keeps every object that a live task can reach and frees every other
\* one: collection is complete as well as safe (collectGarbage, sweepObjects).
THEOREM SweepsAreExact ==
    ASSUME Undisturbed
    PROVE  Spec => SweepIsExact
BY UndisturbedIsCareful, CarefulRunsAreSafe, PTL
=============================================================================
