---------------------------- MODULE EngineProofs ----------------------------
(***************************************************************************)
(* The C ABI for any number of threads, engines and nested calls.  The     *)
(* inductive invariant EInv says of the slots that a search for a free one *)
(* holds the lock, of the calls that each knows the one below it and that  *)
(* no engine is in two of them, and of the views that they are those of    *)
(* the innermost call.                                                     *)
(***************************************************************************)
EXTENDS Engine, SequenceTheorems, TLAPS

\* Who looks for a slot holds the lock, and what was found is free.
SearchHoldsLock ==
    \A t \in Threads : found[t] # None =>
        /\ lock = t
        /\ found[t] \in Handles => ~active[found[t]]

\* Every call remembers the engine of the call below it; its engine is
\* there, and is not suspended while it runs.
CallsNest ==
    \A t \in Threads : \A i \in 1..Len(stack[t]) :
        /\ stack[t][i].prev = IF i = 1 THEN None ELSE stack[t][i - 1].handle
        /\ active[stack[t][i].handle]
        /\ program[stack[t][i].handle] # "suspended"

\* No engine is in two calls.
OneCallPerEngine ==
    \A t, u \in Threads : \A i \in 1..Len(stack[t]), j \in 1..Len(stack[u]) :
        stack[t][i].handle = stack[u][j].handle => t = u /\ i = j

\* A slot that is not active has no program and no creator, and the
\* creator of an engine keeps its write override.
FreeSlotsAreClean ==
    \A h \in Handles :
        /\ ~active[h] => program[h] = "none" /\ creator[h] = None
        /\ \A t \in Threads : creator[h] = t => view[t].override

EInv ==
    /\ TypeOK
    /\ SearchHoldsLock
    /\ CallsNest
    /\ OneCallPerEngine
    /\ FreeSlotsAreClean
    /\ ScriptSeesItsEngine

----------------------------------------------------------------------------
(* Stacks of calls.                                                        *)

\* The same calls, whatever their views.
SameCalls(s, r) ==
    /\ r \in Seq(Frames)
    /\ Len(r) = Len(s)
    /\ \A i \in 1..Len(s) : r[i].handle = s[i].handle /\ r[i].prev = s[i].prev

\* Marking the innermost call as out of step with its views, or in step,
\* changes nothing else.
LEMMA MarkingKeepsCalls ==
    ASSUME NEW s \in Seq(Frames)
    PROVE  /\ SameCalls(s, Unsynced(s)) /\ SameCalls(s, Synced(s))
           /\ s # << >> => ~Unsynced(s)[Len(s)].synced
  <1>1. CASE s = << >>
    BY <1>1 DEF SameCalls, Unsynced, Synced
  <1>2. CASE s # << >>
    <2>1. Len(s) \in 1..Len(s) /\ DOMAIN s = 1..Len(s) /\ s[Len(s)] \in Frames
      BY <1>2
    <2>2. ASSUME NEW b \in BOOLEAN, NEW r, r = [s EXCEPT ![Len(s)].synced = b]
          PROVE  SameCalls(s, r) /\ r[Len(s)].synced = b
      <3>1. /\ DOMAIN r = 1..Len(s)
            /\ \A i \in 1..Len(s) : r[i] \in Frames /\ r[i].handle = s[i].handle
                                      /\ r[i].prev = s[i].prev
            /\ r[Len(s)].synced = b
        <4>1. DOMAIN r = 1..Len(s)
          BY <2>1, <2>2
        <4>2. r[Len(s)] = [s[Len(s)] EXCEPT !.synced = b]
          BY <2>1, <2>2
        <4>3. \A i \in 1..Len(s) : i # Len(s) => r[i] = s[i]
          BY <2>1, <2>2
        <4>4. r[Len(s)] \in Frames
          BY <2>1, <2>2, <4>2, Zenon DEF Frames
        <4>5. /\ r[Len(s)].handle = s[Len(s)].handle
              /\ r[Len(s)].prev = s[Len(s)].prev
              /\ r[Len(s)].synced = b
          BY <2>1, <4>2, Zenon DEF Frames
        <4>6. \A i \in 1..Len(s) : s[i] \in Frames
          OBVIOUS
        <4> QED BY <4>1, <4>3, <4>4, <4>5, <4>6, Zenon
      <3>2. r = [i \in 1..Len(s) |-> r[i]]
        BY <2>1, <2>2
      <3>3. r \in Seq(Frames) /\ Len(r) = Len(s)
        BY <3>1, <3>2
      <3> QED BY <3>1, <3>3 DEF SameCalls
    <2> QED BY <1>2, <2>2 DEF Unsynced, Synced
  <1> QED BY <1>1, <1>2

\* A new innermost call.
LEMMA PushedCalls ==
    ASSUME NEW s \in Seq(Frames), NEW e \in Frames
    PROVE  LET r == Append(s, e)
           IN  /\ r \in Seq(Frames) /\ Len(r) = Len(s) + 1 /\ r # << >>
               /\ r[Len(r)] = e
               /\ \A i \in 1..Len(s) : r[i] = s[i]
  OBVIOUS

\* The innermost call is gone.
LEMMA PoppedCalls ==
    ASSUME NEW s \in Seq(Frames), s # << >>
    PROVE  LET r == Front(s)
           IN  /\ r \in Seq(Frames) /\ Len(r) = Len(s) - 1
               /\ \A i \in 1..Len(r) : r[i] = s[i]
  <1>1. \A i \in 1..(Len(s) - 1) : s[i] \in Frames
    OBVIOUS
  <1>2. Len(s) \in Nat \ {0}
    OBVIOUS
  <1>3. SubSeq(s, 1, Len(s) - 1) \in Seq(Frames)
    BY <1>1, <1>2, SubSeqProperties
  <1>4. Len(SubSeq(s, 1, Len(s) - 1)) = Len(s) - 1
    <2>1. CASE Len(s) = 1
      BY <2>1
    <2>2. CASE Len(s) > 1
      <3>1. Len(s) - 1 \in Int /\ 1 <= Len(s) - 1 /\ Len(s) - 1 <= Len(s)
        BY <1>2, <2>2
      <3> QED BY <1>2, <3>1
    <2> QED BY <1>2, <2>1, <2>2
  <1>5. \A i \in 1..(Len(s) - 1) : SubSeq(s, 1, Len(s) - 1)[i] = s[i]
    BY <1>1, <1>2, SubSeqProperties
  <1> QED BY <1>3, <1>4, <1>5 DEF Front

(* Views, changed in the ways the actions do.                              *)

\* What engine_init leaves in a thread's view is a view.
LEMMA RuntimeAndOverride ==
    ASSUME NEW v \in Views, NEW h \in Handles \cup {None}, NEW b \in BOOLEAN
    PROVE  LET a == [v EXCEPT !.runtime = h, !.override = b]
           IN  a \in Views /\ a.engine = v.engine /\ a.write = v.write /\ a.override = b
  BY Zenon DEF Views

\* So is what an initialisation leaves that fails after activate().
LEMMA RuntimeOnly ==
    ASSUME NEW v \in Views, NEW h \in Handles \cup {None}
    PROVE  LET a == [v EXCEPT !.runtime = h]
           IN  a \in Views /\ a.engine = v.engine /\ a.write = v.write /\ a.override = v.override
  BY Zenon DEF Views

\* So is what engine_destroy leaves.
LEMMA OverrideOnly ==
    ASSUME NEW v \in Views, NEW b \in BOOLEAN
    PROVE  LET a == [v EXCEPT !.override = b]
           IN  a \in Views /\ a.engine = v.engine /\ a.write = v.write
                 /\ a.runtime = v.runtime /\ a.override = b
  BY Zenon DEF Views

\* ScriptSeesItsEngine for one thread: its calls s, its view v and the
\* callbacks c.
Matches(s, v, c) ==
    /\ s = << >> => v.engine = None /\ v.write = None
    /\ s # << >> =>
         LET top == s[Len(s)]
         IN  /\ v.engine = top.handle
             /\ top.synced => /\ v.runtime = top.handle
                              /\ v.write = IF c[top.handle] THEN top.handle ELSE None

\* ScriptSeesItsEngine, said of each thread by the view it has.
LEMMA ScriptSeesByThread ==
    /\ ScriptSeesItsEngine <=> \A t \in Threads : Matches(stack[t], view[t], callback)
    /\ ScriptSeesItsEngine' <=> \A t \in Threads : Matches(stack'[t], view'[t], callback')
  BY Zenon DEF ScriptSeesItsEngine, Matches, WriteOf, Last

\* Marked as out of step, the views but g_active_engine are free.
LEMMA MatchesUnsynced ==
    ASSUME NEW s \in Seq(Frames), NEW v, NEW c, NEW w, NEW d,
           Matches(s, v, c), w.engine = v.engine, s = << >> => w.write = v.write
    PROVE  Matches(Unsynced(s), w, d)
  <1>1. /\ Unsynced(s) \in Seq(Frames) /\ Len(Unsynced(s)) = Len(s)
        /\ \A i \in 1..Len(s) : Unsynced(s)[i].handle = s[i].handle
        /\ s # << >> => ~Unsynced(s)[Len(s)].synced
    BY MarkingKeepsCalls DEF SameCalls
  <1>2. CASE s = << >>
    BY <1>2 DEF Matches, Unsynced
  <1>3. CASE s # << >>
    <2>1. Len(s) \in 1..Len(s) /\ Unsynced(s) # << >>
      BY <1>1, <1>3
    <2> QED BY <1>1, <1>3, <2>1 DEF Matches
  <1> QED BY <1>2, <1>3

\* The callbacks of other engines do not matter.
LEMMA MatchesOtherCallback ==
    ASSUME NEW s \in Seq(Frames), NEW v, NEW c, NEW d, Matches(s, v, c),
           \A i \in 1..Len(s) : d[s[i].handle] = c[s[i].handle]
    PROVE  Matches(s, v, d)
  <1>1. s # << >> => Len(s) \in 1..Len(s)
    OBVIOUS
  <1> QED BY <1>1 DEF Matches
----------------------------------------------------------------------------
(* The initial state, and each action in turn.                             *)

\* No engine, no call, no view.
LEMMA InitEInv == Init => EInv
  <1> SUFFICES ASSUME Init PROVE EInv
    OBVIOUS
  <1> USE EngineAssumption DEF Init, Handles
  <1>1. TypeOK
    <2>1. IdleView \in Views
      BY DEF IdleView, Views
    <2> QED BY <2>1 DEF TypeOK
  <1>2. SearchHoldsLock /\ CallsNest /\ OneCallPerEngine /\ FreeSlotsAreClean
    BY DEF SearchHoldsLock, CallsNest, OneCallPerEngine, FreeSlotsAreClean
  <1>3. ScriptSeesItsEngine
    BY DEF ScriptSeesItsEngine, IdleView
  <1> QED BY <1>1, <1>2, <1>3 DEF EInv

\* The search for a slot.
LEMMA LockStep ==
    ASSUME EInv, NEW t \in Threads, InitLock(t) PROVE EInv'
  <1> USE EngineAssumption DEF EInv, InitLock, LockSlots
  <1>1. TypeOK'
    BY DEF TypeOK
  <1>2. SearchHoldsLock'
    BY DEF SearchHoldsLock, TypeOK, Handles
  <1>3. CallsNest' /\ OneCallPerEngine' /\ FreeSlotsAreClean'
    BY DEF CallsNest, OneCallPerEngine, FreeSlotsAreClean
  <1>4. ScriptSeesItsEngine'
    BY DEF ScriptSeesItsEngine, WriteOf
  <1> QED BY <1>1, <1>2, <1>3, <1>4

\* The slot that the search finds is the first free one, and the lock is
\* kept until it is claimed.
LEMMA ScanStep ==
    ASSUME EInv, NEW t \in Threads, InitScan(t) PROVE EInv'
  <1> USE EngineAssumption DEF EInv, InitScan
  <1>1. TypeOK'
    <2>1. found' \in [Threads -> Handles \cup {0, None}]
      BY DEF TypeOK, FirstFree
    <2>2. lock' \in Threads \cup {None}
      BY DEF TypeOK
    <2> QED BY <2>1, <2>2 DEF TypeOK
  <1>2. SearchHoldsLock'
    <2>1. lock = t
      BY DEF SearchHoldsLock
    <2> QED BY <2>1 DEF SearchHoldsLock, TypeOK, Handles, FirstFree
  <1>3. CallsNest' /\ OneCallPerEngine' /\ FreeSlotsAreClean'
    BY DEF CallsNest, OneCallPerEngine, FreeSlotsAreClean
  <1>4. ScriptSeesItsEngine'
    BY DEF ScriptSeesItsEngine, WriteOf
  <1> QED BY <1>1, <1>2, <1>3, <1>4

\* Calls are of engines of the table.
LEMMA HandlesOfCalls ==
    ASSUME EInv, NEW u \in Threads, NEW i \in 1..Len(stack[u])
    PROVE  stack[u][i] \in Frames /\ stack[u][i].handle \in Handles
  <1>1. stack[u] \in Seq(Frames)
    BY DEF EInv, TypeOK
  <1>2. stack[u][i] \in Frames
    BY <1>1
  <1> QED BY <1>2 DEF Frames

\* An engine is created in the slot that was found, which is in no call.
LEMMA FoundIsUnused ==
    ASSUME EInv, NEW t \in Threads, found[t] \in Handles
    PROVE  /\ lock = t /\ ~active[found[t]]
           /\ \A u \in Threads : \A i \in 1..Len(stack[u]) : stack[u][i].handle # found[t]
           /\ \A u \in Threads \ {t} : found[u] = None
  BY EngineAssumption DEF EInv, SearchHoldsLock, CallsNest, Handles

\* A step that leaves the calls as they are, or marks their views, and takes
\* no engine away, keeps the nesting.
LEMMA NestingKept ==
    ASSUME EInv,
           \A u \in Threads : SameCalls(stack[u], stack'[u]),
           \A u \in Threads : \A i \in 1..Len(stack[u]) :
              active'[stack[u][i].handle] /\ program'[stack[u][i].handle] # "suspended"
    PROVE  CallsNest' /\ OneCallPerEngine'
  <1>1. CallsNest'
    <2> SUFFICES ASSUME NEW u \in Threads, NEW i \in 1..Len(stack[u])
                 PROVE  /\ stack'[u][i].prev = IF i = 1 THEN None ELSE stack'[u][i - 1].handle
                        /\ active'[stack'[u][i].handle]
                        /\ program'[stack'[u][i].handle] # "suspended"
      BY DEF CallsNest, SameCalls
    <2>1. stack[u] \in Seq(Frames) /\ Len(stack[u]) \in Nat
      BY DEF EInv, TypeOK
    <2>2. i # 1 => i - 1 \in 1..Len(stack[u])
      BY <2>1
    <2> QED BY <2>2 DEF EInv, CallsNest, SameCalls
  <1>2. OneCallPerEngine'
    BY DEF EInv, OneCallPerEngine, SameCalls
  <1> QED BY <1>1, <1>2

\* Calls that are not touched are the same.
LEMMA UntouchedCalls ==
    ASSUME EInv, NEW u \in Threads, stack'[u] = stack[u]
    PROVE  SameCalls(stack[u], stack'[u])
  BY DEF EInv, TypeOK, SameCalls

\* engine_init claims the slot: the views of its thread go out of step,
\* those of the others stay.
LEMMA CreateStep ==
    ASSUME EInv, NEW t \in Threads, InitEngine(t) PROVE EInv'
  <1> USE EngineAssumption DEF EInv, InitEngine
  <1> DEFINE h == found[t]
  <1>0. /\ h \in Handles /\ lock = t /\ ~active[h]
        /\ \A u \in Threads : \A i \in 1..Len(stack[u]) : stack[u][i].handle # h
        /\ \A u \in Threads \ {t} : found[u] = None
    BY FoundIsUnused
  <1>1. stack[t] \in Seq(Frames) /\ SameCalls(stack[t], Unsynced(stack[t]))
    BY MarkingKeepsCalls DEF TypeOK
  <1>v. PICK v \in Views :
            /\ view' = [view EXCEPT ![t] = v]
            /\ v.engine = view[t].engine /\ v.write = view[t].write /\ v.override = TRUE
    <2>1. view[t] \in Views
      BY DEF TypeOK
    <2>2. view' = [view EXCEPT ![t] = [view[t] EXCEPT !.runtime = h, !.override = TRUE]]
      OBVIOUS
    <2>3. LET a == [view[t] EXCEPT !.runtime = h, !.override = TRUE]
          IN  a \in Views /\ a.engine = view[t].engine /\ a.write = view[t].write
                /\ a.override = TRUE
      BY <1>0, <2>1, RuntimeAndOverride, Zenon
    <2> QED BY <2>2, <2>3, Zenon
  <1>2. TypeOK'
    <2>1. active' \in [Handles -> BOOLEAN] /\ callback' \in [Handles -> BOOLEAN]
      BY <1>0 DEF TypeOK
    <2>2. program' \in [Handles -> {"none", "loaded", "suspended"}]
          /\ creator' \in [Handles -> Threads \cup {None}]
      BY <1>0 DEF TypeOK
    <2>3. lock' \in Threads \cup {None} /\ found' \in [Threads -> Handles \cup {0, None}]
      BY DEF TypeOK
    <2>4. view' \in [Threads -> Views]
      BY <1>v DEF TypeOK
    <2>5. stack' \in [Threads -> Seq(Frames)]
      BY <1>1 DEF TypeOK, SameCalls
    <2> QED BY <2>1, <2>2, <2>3, <2>4, <2>5 DEF TypeOK
  <1>3. SearchHoldsLock'
    BY <1>0 DEF SearchHoldsLock, TypeOK
  <1>4. \A u \in Threads : SameCalls(stack[u], stack'[u])
    BY <1>1, UntouchedCalls DEF TypeOK
  <1>5. CallsNest' /\ OneCallPerEngine'
    <2>1. \A u \in Threads : \A i \in 1..Len(stack[u]) :
            active'[stack[u][i].handle] /\ program'[stack[u][i].handle] # "suspended"
      <3> SUFFICES ASSUME NEW u \in Threads, NEW i \in 1..Len(stack[u])
                   PROVE  /\ active'[stack[u][i].handle]
                          /\ program'[stack[u][i].handle] # "suspended"
        OBVIOUS
      <3>1. stack[u][i] \in Frames
        BY DEF TypeOK
      <3>2. stack[u][i].handle \in Handles /\ stack[u][i].handle # h
        BY <1>0, <3>1 DEF Frames
      <3> QED BY <3>2 DEF TypeOK, CallsNest
    <2> QED BY <1>4, <2>1, NestingKept
  <1>6. FreeSlotsAreClean'
    BY <1>0, <1>v DEF TypeOK, FreeSlotsAreClean
  <1>7. ScriptSeesItsEngine'
    <2> SUFFICES ASSUME NEW u \in Threads
                 PROVE  Matches(stack'[u], view'[u], callback')
      BY ScriptSeesByThread
    <2>1. Matches(stack[u], view[u], callback) /\ stack[u] \in Seq(Frames)
      BY ScriptSeesByThread DEF TypeOK
    <2>2. CASE u = t
      <3>1. stack'[t] = Unsynced(stack[t]) /\ view'[t] = v
        BY <1>v DEF TypeOK
      <3> QED BY <1>v, <2>1, <2>2, <3>1, MatchesUnsynced
    <2>3. CASE u # t
      <3>1. stack'[u] = stack[u] /\ view'[u] = view[u]
        BY <1>v, <2>3 DEF TypeOK
      <3>2. \A i \in 1..Len(stack[u]) : /\ stack[u][i].handle \in Handles
                                        /\ stack[u][i].handle # h
        BY <1>0, HandlesOfCalls
      <3>3. \A g \in Handles : g # h => callback'[g] = callback[g]
        BY DEF TypeOK
      <3>4. \A i \in 1..Len(stack[u]) :
              callback'[stack[u][i].handle] = callback[stack[u][i].handle]
        BY <3>2, <3>3
      <3>5. Matches(stack[u], view[u], callback')
        BY <2>1, <3>4, MatchesOtherCallback
      <3> QED BY <3>1, <3>5
    <2> QED BY <2>2, <2>3
  <1> QED BY <1>2, <1>3, <1>5, <1>6, <1>7

\* An engine_init that runs out of memory leaves the slot as it was.
LEMMA CreateFailsStep ==
    ASSUME EInv, NEW t \in Threads, InitFails(t) PROVE EInv'
  <1> USE EngineAssumption DEF EInv, InitFails
  <1> DEFINE h == found[t]
  <1>0. /\ h \in Handles /\ lock = t /\ ~active[h]
        /\ \A u \in Threads : \A i \in 1..Len(stack[u]) : stack[u][i].handle # h
        /\ \A u \in Threads \ {t} : found[u] = None
    BY FoundIsUnused
  <1>1. /\ active' = active /\ creator' = creator /\ lock' = None
        /\ found' = [found EXCEPT ![t] = None]
        /\ program' = [program EXCEPT ![h] = "none"]
        /\ callback' = [callback EXCEPT ![h] = FALSE]
    OBVIOUS
  <1>v. PICK v \in Views :
            /\ view' = [view EXCEPT ![t] = v]
            /\ v.engine = view[t].engine /\ v.write = view[t].write
            /\ v.override = view[t].override
            /\ \/ stack' = stack /\ v = view[t]
               \/ stack' = [stack EXCEPT ![t] = Unsynced(stack[t])]
    <2>1. view[t] \in Views /\ view = [view EXCEPT ![t] = view[t]]
      BY DEF TypeOK
    <2>2. LET a == [view[t] EXCEPT !.runtime = h]
          IN  a \in Views /\ a.engine = view[t].engine /\ a.write = view[t].write
                /\ a.override = view[t].override
      BY <1>0, <2>1, RuntimeOnly, Zenon
    <2>3. CASE UNCHANGED <<view, stack>>
      BY <2>1, <2>3
    <2>4. CASE /\ view' = [view EXCEPT ![t] = [view[t] EXCEPT !.runtime = h]]
               /\ stack' = [stack EXCEPT ![t] = Unsynced(stack[t])]
      BY <2>2, <2>4, Zenon
    <2> QED BY <2>3, <2>4
  <1> HIDE DEF InitFails
  <1>c. \A u \in Threads :
            /\ SameCalls(stack[u], stack'[u])
            /\ u # t => stack'[u] = stack[u]
            /\ stack'[t] = Unsynced(stack[t]) \/ (stack'[t] = stack[t] /\ v = view[t])
    BY <1>v, UntouchedCalls, MarkingKeepsCalls DEF TypeOK
  <1>2. TypeOK'
    <2>1. stack' \in [Threads -> Seq(Frames)]
      BY <1>v, <1>c DEF TypeOK, SameCalls
    <2>2. view' \in [Threads -> Views]
      BY <1>v DEF TypeOK
    <2> QED BY <1>0, <1>1, <2>1, <2>2 DEF TypeOK
  <1>3. SearchHoldsLock'
    BY <1>0, <1>1 DEF SearchHoldsLock, TypeOK
  <1>4. CallsNest' /\ OneCallPerEngine'
    <2>1. \A u \in Threads : \A i \in 1..Len(stack[u]) :
            active'[stack[u][i].handle] /\ program'[stack[u][i].handle] # "suspended"
      BY <1>0, <1>1, HandlesOfCalls DEF TypeOK, CallsNest
    <2> QED BY <1>c, <2>1, NestingKept
  <1>5. FreeSlotsAreClean'
    BY <1>0, <1>1, <1>v DEF TypeOK, FreeSlotsAreClean
  <1>6. ScriptSeesItsEngine'
    <2> SUFFICES ASSUME NEW u \in Threads
                 PROVE  Matches(stack'[u], view'[u], callback')
      BY ScriptSeesByThread
    <2>1. Matches(stack[u], view[u], callback) /\ stack[u] \in Seq(Frames)
      BY ScriptSeesByThread DEF TypeOK
    <2>2. \A i \in 1..Len(stack[u]) :
            callback'[stack[u][i].handle] = callback[stack[u][i].handle]
      BY <1>0, <1>1, HandlesOfCalls DEF TypeOK
    <2>3. Matches(stack[u], view[u], callback')
      BY <2>1, <2>2, MatchesOtherCallback
    <2>4. view'[u] = IF u = t THEN v ELSE view[u]
      BY <1>v DEF TypeOK
    <2>5. CASE stack'[u] = stack[u] /\ view'[u] = view[u]
      BY <2>3, <2>5
    <2>6. CASE u = t /\ stack'[t] = Unsynced(stack[t])
      BY <1>v, <2>1, <2>4, <2>6, MatchesUnsynced
    <2> QED BY <1>c, <2>4, <2>5, <2>6
  <1> QED BY <1>2, <1>3, <1>4, <1>5, <1>6

\* The engine that is destroyed is in no call.
LEMMA DestroyStep ==
    ASSUME EInv, NEW t \in Threads, NEW h \in Handles, engine_destroy(t, h) PROVE EInv'
  <1> USE EngineAssumption DEF EInv
  <1>1. /\ lock = None /\ active[h] /\ ~InUse(h)
        /\ active' = [active EXCEPT ![h] = FALSE]
        /\ program' = [program EXCEPT ![h] = "none"]
        /\ creator' = [creator EXCEPT ![h] = None]
        /\ callback' = callback /\ lock' = lock /\ found' = found /\ stack' = stack
    BY DEF engine_destroy
  <1>v. PICK v \in Views :
            /\ view' = [view EXCEPT ![t] = v]
            /\ v.engine = view[t].engine /\ v.write = view[t].write
            /\ v.runtime = view[t].runtime
            /\ \/ v.override = view[t].override
               \/ \A g \in Handles \ {h} : ~active[g]
    <2>1. view[t] \in Views /\ view = [view EXCEPT ![t] = view[t]]
      BY DEF TypeOK
    <2>2. LET a == [view[t] EXCEPT !.override = FALSE]
          IN  a \in Views /\ a.engine = view[t].engine /\ a.write = view[t].write
                /\ a.runtime = view[t].runtime
      BY <2>1, OverrideOnly, Zenon
    <2>3. CASE \A g \in Handles \ {h} : ~active[g]
      <3>1. view' = [view EXCEPT ![t] = [view[t] EXCEPT !.override = FALSE]]
        BY <2>3 DEF engine_destroy, ClearOverrides
      <3> QED BY <2>2, <2>3, <3>1, Zenon
    <2>4. CASE ~\A g \in Handles \ {h} : ~active[g]
      <3>1. view' = view
        BY <2>4 DEF engine_destroy, ClearOverrides
      <3> QED BY <2>1, <3>1
    <2> QED BY <2>3, <2>4
  <1>2. TypeOK'
    BY <1>1, <1>v DEF TypeOK
  <1>3. SearchHoldsLock'
    BY <1>1 DEF SearchHoldsLock, TypeOK
  <1>4. CallsNest' /\ OneCallPerEngine'
    <2>1. \A u \in Threads : \A i \in 1..Len(stack[u]) : stack[u][i].handle # h
      BY <1>1 DEF InUse, TypeOK
    <2>2. \A u \in Threads : \A i \in 1..Len(stack[u]) :
            active'[stack[u][i].handle] /\ program'[stack[u][i].handle] # "suspended"
      BY <1>1, <2>1, HandlesOfCalls DEF TypeOK, CallsNest
    <2>3. \A u \in Threads : SameCalls(stack[u], stack'[u])
      BY <1>1, UntouchedCalls
    <2> QED BY <2>2, <2>3, NestingKept
  <1>5. FreeSlotsAreClean'
    BY <1>1, <1>v DEF TypeOK, FreeSlotsAreClean
  <1>6. ScriptSeesItsEngine'
    <2> SUFFICES ASSUME NEW u \in Threads
                 PROVE  Matches(stack'[u], view'[u], callback')
      BY ScriptSeesByThread
    <2>1. Matches(stack[u], view[u], callback)
      BY ScriptSeesByThread
    <2>2. /\ view'[u].engine = view[u].engine /\ view'[u].write = view[u].write
          /\ view'[u].runtime = view[u].runtime
      BY <1>v DEF TypeOK
    <2> QED BY <1>1, <2>1, <2>2 DEF Matches
  <1> QED BY <1>2, <1>3, <1>4, <1>5, <1>6

\* A callback is set or cleared on the thread that uses the engine, if one
\* does.
LEMMA SetWriteStep ==
    ASSUME EInv, NEW t \in Threads, NEW h \in Handles, NEW on \in BOOLEAN,
           engine_set_write_fn(t, h, on)
    PROVE  EInv'
  <1> USE EngineAssumption DEF EInv
  <1>1. /\ callback' = [callback EXCEPT ![h] = on]
        /\ active' = active /\ program' = program /\ creator' = creator
        /\ lock' = lock /\ found' = found /\ view' = view
        /\ \A u \in Threads \ {t} : \A i \in 1..Len(stack[u]) : stack[u][i].handle # h
    BY DEF engine_set_write_fn, TypeOK
  <1>2. /\ stack[t] \in Seq(Frames)
        /\ stack' = [stack EXCEPT ![t] =
                IF stack[t] # << >> /\ stack[t][Len(stack[t])].handle = h
                THEN Unsynced(stack[t]) ELSE stack[t]]
    BY DEF engine_set_write_fn, TypeOK, Last
  <1>3. \A u \in Threads : SameCalls(stack[u], stack'[u])
    BY <1>2, UntouchedCalls, MarkingKeepsCalls DEF TypeOK
  <1>4. TypeOK'
    <2>1. stack' \in [Threads -> Seq(Frames)]
      BY <1>2, <1>3 DEF TypeOK, SameCalls
    <2>2. callback' \in [Handles -> BOOLEAN]
      BY <1>1 DEF TypeOK
    <2> QED BY <1>1, <2>1, <2>2 DEF TypeOK
  <1>5. SearchHoldsLock' /\ FreeSlotsAreClean'
    BY <1>1 DEF SearchHoldsLock, FreeSlotsAreClean
  <1>6. CallsNest' /\ OneCallPerEngine'
    <2>1. \A u \in Threads : \A i \in 1..Len(stack[u]) :
            active'[stack[u][i].handle] /\ program'[stack[u][i].handle] # "suspended"
      BY <1>1 DEF CallsNest
    <2> QED BY <1>3, <2>1, NestingKept
  <1>7. ScriptSeesItsEngine'
    <2> SUFFICES ASSUME NEW u \in Threads
                 PROVE  Matches(stack'[u], view'[u], callback')
      BY ScriptSeesByThread
    <2>1. Matches(stack[u], view[u], callback) /\ stack[u] \in Seq(Frames)
      BY ScriptSeesByThread DEF TypeOK
    <2>2. CASE u = t /\ stack[t] # << >> /\ stack[t][Len(stack[t])].handle = h
      <3>1. stack'[t] = Unsynced(stack[t])
        BY <1>2, <2>2 DEF TypeOK
      <3> QED BY <1>1, <2>1, <2>2, <3>1, MatchesUnsynced
    <2>3. CASE ~(u = t /\ stack[t] # << >> /\ stack[t][Len(stack[t])].handle = h)
      <3>1. stack'[u] = stack[u]
        BY <1>2, <2>3 DEF TypeOK
      <3>2. stack[u] # << >> =>
              /\ Len(stack[u]) \in 1..Len(stack[u])
              /\ stack[u][Len(stack[u])].handle \in Handles \ {h}
        <4> HAVE stack[u] # << >>
        <4>1. Len(stack[u]) \in 1..Len(stack[u])
          BY <2>1
        <4> QED BY <1>1, <2>3, <4>1, HandlesOfCalls
      <3>3. \A g \in Handles \ {h} : callback'[g] = callback[g]
        BY <1>1 DEF TypeOK
      <3> QED BY <1>1, <2>1, <3>1, <3>2, <3>3 DEF Matches
    <2> QED BY <2>2, <2>3
  <1> QED BY <1>4, <1>5, <1>6, <1>7

----------------------------------------------------------------------------
(* Calls.                                                                  *)

Kinds == {"run", "begin", "call", "continue"}

\* WriteOf is a handle or none.
LEMMA WriteOfType == \A h \in Handles : WriteOf(h) \in Handles \cup {None}
  BY DEF WriteOf

\* A call that pushes: its engine is in no other call, and its program is
\* replaced by one that is not suspended.
LEMMA PushKeeps ==
    ASSUME EInv, NEW t \in Threads, NEW h \in Handles, NEW k \in Kinds,
           NEW p \in {"none", "loaded"},
           MayEnter(t, h), pushEngineState(t, h, k), Shared,
           program' = [program EXCEPT ![h] = p]
    PROVE  EInv'
  <1> USE EngineAssumption DEF EInv
  <1> DEFINE e == [handle |-> h, kind |-> k, prev |-> view[t].engine, synced |-> TRUE]
  <1>1. /\ active' = active /\ callback' = callback /\ creator' = creator
        /\ lock' = lock /\ found' = found
        /\ active[h]
        /\ \A u \in Threads : \A i \in 1..Len(stack[u]) : stack[u][i].handle # h
    BY DEF Shared, MayEnter, InUse, TypeOK
  <1>2. view[t] \in Views /\ stack[t] \in Seq(Frames)
    BY DEF TypeOK
  <1>3. e \in Frames
    BY <1>2 DEF Frames, Views, Kinds
  <1>v. PICK v \in Views :
            /\ view' = [view EXCEPT ![t] = v]
            /\ v.engine = h /\ v.runtime = h /\ v.write = WriteOf(h)
            /\ v.override = view[t].override
    <2>1. view' = [view EXCEPT ![t] =
                      [view[t] EXCEPT !.engine = h, !.runtime = h, !.write = WriteOf(h)]]
      BY DEF pushEngineState
    <2>2. LET a == [view[t] EXCEPT !.engine = h, !.runtime = h, !.write = WriteOf(h)]
          IN  a \in Views /\ a.engine = h /\ a.write = WriteOf(h) /\ a.runtime = h
                /\ a.override = view[t].override
      <3>1. h \in Handles \cup {None} /\ WriteOf(h) \in Handles \cup {None}
        BY WriteOfType
      <3> QED BY <1>2, <3>1, Zenon DEF Views
    <2> QED BY <2>1, <2>2, Zenon
  <1> DEFINE r == Append(stack[t], e)
  <1>s. stack' = [stack EXCEPT ![t] = r]
    BY DEF pushEngineState
  <1>r. /\ r \in Seq(Frames) /\ Len(r) = Len(stack[t]) + 1 /\ r # << >>
        /\ r[Len(stack[t]) + 1] = e
        /\ \A i \in 1..Len(stack[t]) : r[i] = stack[t][i]
        /\ Len(stack[t]) \in Nat
    BY <1>2, <1>3, PushedCalls
  <1>e. e.handle = h /\ e.prev = view[t].engine
    OBVIOUS
  <1>n. view[t].engine = IF Len(stack[t]) = 0 THEN None ELSE stack[t][Len(stack[t])].handle
    <2>1. Matches(stack[t], view[t], callback)
      BY ScriptSeesByThread
    <2> QED BY <1>2, <2>1 DEF Matches
  <1> HIDE DEF e, r
  <1>4. TypeOK'
    BY <1>1, <1>v, <1>s, <1>r DEF TypeOK
  <1>5. SearchHoldsLock'
    BY <1>1 DEF SearchHoldsLock
  <1>6. FreeSlotsAreClean'
    BY <1>1, <1>v DEF TypeOK, FreeSlotsAreClean
  <1>7. CallsNest'
    <2> SUFFICES ASSUME NEW u \in Threads, NEW i \in 1..Len(stack'[u])
                 PROVE  /\ stack'[u][i].prev = IF i = 1 THEN None ELSE stack'[u][i - 1].handle
                        /\ active'[stack'[u][i].handle]
                        /\ program'[stack'[u][i].handle] # "suspended"
      BY DEF CallsNest
    <2>1. program'[h] = p /\ \A g \in Handles \ {h} : program'[g] = program[g]
      BY DEF TypeOK
    <2>2. CASE u # t
      <3>1. stack'[u] = stack[u]
        BY <1>s, <2>2 DEF TypeOK
      <3>2. stack[u][i].handle \in Handles \ {h}
        BY <1>1, <3>1, HandlesOfCalls
      <3> QED BY <1>1, <2>1, <3>1, <3>2 DEF CallsNest
    <2>3. CASE u = t /\ i \in 1..Len(stack[t])
      <3>0. stack'[t] = r /\ (i # 1 => i - 1 \in 1..Len(stack[t]))
        BY <1>s, <1>r, <2>3 DEF TypeOK
      <3>1. stack'[t] = r /\ r[i] = stack[t][i] /\ (i # 1 => r[i - 1] = stack[t][i - 1])
        BY <1>r, <2>3, <3>0
      <3>2. stack[t][i].handle \in Handles \ {h}
        BY <1>1, <2>3, HandlesOfCalls
      <3> QED BY <1>1, <2>1, <2>3, <3>1, <3>2 DEF CallsNest
    <2>4. CASE u = t /\ i = Len(stack[t]) + 1
      <3>1. stack'[t] = r /\ r[i] = e /\ (i # 1 => r[i - 1] = stack[t][Len(stack[t])])
        BY <1>s, <1>r, <2>4, SMTT(30) DEF TypeOK
      <3>2. i = 1 <=> Len(stack[t]) = 0
        BY <1>r, <2>4
      <3> QED BY <1>1, <1>e, <1>n, <2>1, <2>4, <3>1, <3>2
    <2>5. u = t => i \in 1..Len(stack[t]) \/ i = Len(stack[t]) + 1
      BY <1>s, <1>r DEF TypeOK
    <2> QED BY <2>2, <2>3, <2>4, <2>5
  <1>8. OneCallPerEngine'
    <2>1. \A u \in Threads : \A i \in 1..Len(stack'[u]) :
            \/ /\ i \in 1..Len(stack[u])
               /\ stack'[u][i].handle = stack[u][i].handle
               /\ stack[u][i].handle # h
            \/ u = t /\ i = Len(stack[t]) + 1 /\ stack'[u][i].handle = h
      BY <1>1, <1>s, <1>r, <1>e DEF TypeOK
    <2> SUFFICES ASSUME NEW a \in Threads, NEW b \in Threads,
                        NEW i \in 1..Len(stack'[a]), NEW j \in 1..Len(stack'[b]),
                        stack'[a][i].handle = stack'[b][j].handle
                 PROVE  a = b /\ i = j
      BY DEF OneCallPerEngine
    <2>2. CASE i \in 1..Len(stack[a]) /\ stack'[a][i].handle = stack[a][i].handle
                 /\ stack[a][i].handle # h
      <3>1. stack'[b][j].handle # h
        BY <2>2
      <3>2. j \in 1..Len(stack[b]) /\ stack'[b][j].handle = stack[b][j].handle
        BY <2>1, <3>1
      <3>3. stack[a][i].handle = stack[b][j].handle
        BY <2>2, <3>2
      <3> QED BY <2>2, <3>2, <3>3 DEF OneCallPerEngine
    <2>3. CASE a = t /\ i = Len(stack[t]) + 1 /\ stack'[a][i].handle = h
      BY <2>1, <2>3
    <2> QED BY <2>1, <2>2, <2>3
  <1>9. ScriptSeesItsEngine'
    <2> SUFFICES ASSUME NEW u \in Threads
                 PROVE  Matches(stack'[u], view'[u], callback')
      BY ScriptSeesByThread
    <2>1. CASE u # t
      <3>1. stack'[u] = stack[u] /\ view'[u] = view[u]
        BY <1>s, <1>v, <2>1 DEF TypeOK
      <3> QED BY <1>1, <3>1, ScriptSeesByThread
    <2>2. CASE u = t
      <3>1. stack'[t] = r /\ view'[t] = v
        BY <1>s, <1>v DEF TypeOK
      <3> QED BY <1>1, <1>v, <1>r, <1>e, <2>2, <3>1 DEF Matches, WriteOf
    <2> QED BY <2>1, <2>2
  <1> QED BY <1>4, <1>5, <1>6, <1>7, <1>8, <1>9

\* popEngineState leaves the view of the engine p, or of none.
LEMMA ViewAfterFacts ==
    ASSUME NEW v \in Views, NEW p \in Handles \cup {None}
    PROVE  /\ ViewAfter(v, p) \in Views
           /\ ViewAfter(v, p).engine = p
           /\ ViewAfter(v, p).override = v.override
           /\ p = None => ViewAfter(v, p).write = None
           /\ p # None => /\ ViewAfter(v, p).runtime = p
                          /\ ViewAfter(v, p).write = WriteOf(p)
  <1>1. CASE p = None
    <2>1. LET a == [v EXCEPT !.engine = None, !.write = None]
          IN  a \in Views /\ a.engine = None /\ a.write = None /\ a.override = v.override
      BY Zenon DEF Views
    <2> QED BY <1>1, <2>1 DEF ViewAfter
  <1>2. CASE p # None
    <2>1. p \in Handles /\ WriteOf(p) \in Handles \cup {None}
      BY <1>2, WriteOfType
    <2>2. LET a == [v EXCEPT !.engine = p, !.runtime = p, !.write = WriteOf(p)]
          IN  a \in Views /\ a.engine = p /\ a.write = WriteOf(p) /\ a.runtime = p
                /\ a.override = v.override
      BY <2>1, Zenon DEF Views
    <2> QED BY <1>2, <2>2 DEF ViewAfter
  <1> QED BY <1>1, <1>2

\* Such a view is that of the calls whose innermost one is of p.
LEMMA MatchesRestored ==
    ASSUME NEW s \in Seq(Frames), NEW v \in Views, NEW p \in Handles \cup {None},
           p = IF s = << >> THEN None ELSE s[Len(s)].handle
    PROVE  Matches(Synced(s), ViewAfter(v, p), callback)
  <1> DEFINE w == ViewAfter(v, p)
  <1> SUFFICES Matches(Synced(s), w, callback)
    OBVIOUS
  <1>1. /\ w.engine = p /\ (p = None => w.write = None)
        /\ p # None => w.runtime = p /\ w.write = WriteOf(p)
    BY ViewAfterFacts
  <1>2. /\ Synced(s) \in Seq(Frames) /\ Len(Synced(s)) = Len(s)
        /\ \A i \in 1..Len(s) : Synced(s)[i].handle = s[i].handle
    BY MarkingKeepsCalls DEF SameCalls
  <1> HIDE DEF w
  <1>3. CASE s = << >>
    <2>1. Synced(s) = << >> /\ p = None
      BY <1>3 DEF Synced
    <2> QED BY <1>1, <2>1 DEF Matches
  <1>4. CASE s # << >>
    <2>1. Len(s) \in 1..Len(s) /\ Synced(s) # << >> /\ s[Len(s)] \in Frames
      BY <1>2, <1>4
    <2>2. p \in Handles /\ p # None
      BY <1>4, <2>1, EngineAssumption DEF Frames, Handles
    <2>3. w.engine = p /\ w.runtime = p /\ w.write = IF callback[p] THEN p ELSE None
      BY <1>1, <2>2 DEF WriteOf
    <2>4. Synced(s)[Len(Synced(s))].handle = p
      BY <1>2, <1>4, <2>1
    <2> QED BY <2>1, <2>3, <2>4 DEF Matches
  <1> QED BY <1>3, <1>4

\* A step in which thread t comes back to the calls s, which are its own or
\* those below its innermost one, with their view restored.
LEMMA RestoreKeeps ==
    ASSUME EInv, NEW t \in Threads, NEW s \in Seq(Frames), NEW v \in Views,
           NEW p \in Handles \cup {None},
           p = IF s = << >> THEN None ELSE s[Len(s)].handle,
           v.override = view[t].override,
           Len(s) <= Len(stack[t]), \A i \in 1..Len(s) : s[i] = stack[t][i],
           view' = [view EXCEPT ![t] = ViewAfter(v, p)],
           stack' = [stack EXCEPT ![t] = Synced(s)],
           program' \in [Handles -> {"none", "loaded", "suspended"}],
           \A h \in Handles : ~active[h] => program'[h] = "none",
           \A u \in Threads : \A i \in 1..Len(stack'[u]) :
              program'[stack'[u][i].handle] # "suspended",
           Shared
    PROVE  EInv'
  <1> USE EngineAssumption DEF EInv
  <1>1. /\ active' = active /\ callback' = callback /\ creator' = creator
        /\ lock' = lock /\ found' = found
    BY DEF Shared
  <1>2. /\ ViewAfter(v, p) \in Views
        /\ ViewAfter(v, p).override = view[t].override
    BY ViewAfterFacts
  <1>3. /\ Synced(s) \in Seq(Frames) /\ Len(Synced(s)) = Len(s)
        /\ \A i \in 1..Len(s) : /\ Synced(s)[i].handle = stack[t][i].handle
                                 /\ Synced(s)[i].prev = stack[t][i].prev
    BY MarkingKeepsCalls DEF SameCalls
  <1>4. TypeOK'
    BY <1>1, <1>2, <1>3 DEF TypeOK
  <1>5. SearchHoldsLock'
    BY <1>1 DEF SearchHoldsLock
  <1>6. FreeSlotsAreClean'
    BY <1>1, <1>2 DEF TypeOK, FreeSlotsAreClean
  <1>7. \A u \in Threads :
            /\ Len(stack'[u]) \in Nat /\ Len(stack[u]) \in Nat
            /\ Len(stack'[u]) <= Len(stack[u])
            /\ \A i \in 1..Len(stack'[u]) : /\ stack'[u][i].handle = stack[u][i].handle
                                             /\ stack'[u][i].prev = stack[u][i].prev
    BY <1>3 DEF TypeOK
  <1>8. CallsNest'
    <2> SUFFICES ASSUME NEW u \in Threads, NEW i \in 1..Len(stack'[u])
                 PROVE  /\ stack'[u][i].prev = IF i = 1 THEN None ELSE stack'[u][i - 1].handle
                        /\ active'[stack'[u][i].handle]
                        /\ program'[stack'[u][i].handle] # "suspended"
      BY DEF CallsNest
    <2>1. i \in 1..Len(stack[u]) /\ (i # 1 => i - 1 \in 1..Len(stack'[u]))
      BY <1>7
    <2> QED BY <1>1, <1>7, <2>1 DEF CallsNest
  <1>9. OneCallPerEngine'
    <2> SUFFICES ASSUME NEW a \in Threads, NEW b \in Threads,
                        NEW i \in 1..Len(stack'[a]), NEW j \in 1..Len(stack'[b]),
                        stack'[a][i].handle = stack'[b][j].handle
                 PROVE  a = b /\ i = j
      BY DEF OneCallPerEngine
    <2>1. i \in 1..Len(stack[a]) /\ j \in 1..Len(stack[b])
      BY <1>7
    <2> QED BY <1>7, <2>1 DEF OneCallPerEngine
  <1>10. ScriptSeesItsEngine'
    <2> SUFFICES ASSUME NEW u \in Threads
                 PROVE  Matches(stack'[u], view'[u], callback')
      BY ScriptSeesByThread
    <2>1. CASE u # t
      <3>1. stack'[u] = stack[u] /\ view'[u] = view[u]
        BY <2>1 DEF TypeOK
      <3> QED BY <1>1, <3>1, ScriptSeesByThread
    <2>2. CASE u = t
      <3>1. stack'[t] = Synced(s) /\ view'[t] = ViewAfter(v, p)
        BY DEF TypeOK
      <3> QED BY <1>1, <2>2, <3>1, MatchesRestored
    <2> QED BY <2>1, <2>2
  <1> QED BY <1>4, <1>5, <1>6, <1>8, <1>9, <1>10

\* The calls that push.
LEMMA CallStep ==
    ASSUME EInv, NEW t \in Threads, NEW h \in Handles,
           \/ \E kind \in {"run", "begin"} : Start(t, h, kind)
           \/ engine_call(t, h)
           \/ engine_continue(t, h)
    PROVE  EInv'
  <1>1. ASSUME NEW kind \in {"run", "begin"}, Start(t, h, kind) PROVE EInv'
    BY <1>1, PushKeeps DEF Start, Kinds
  <1>2. CASE engine_call(t, h)
    <2>1. program' = [program EXCEPT ![h] = program[h]] /\ program[h] \in {"none", "loaded"}
      BY <1>2 DEF engine_call, Suspended, EInv, TypeOK
    <2> QED BY <1>2, <2>1, PushKeeps DEF engine_call, Kinds
  <1>3. CASE engine_continue(t, h)
    BY <1>3, PushKeeps DEF engine_continue, Kinds
  <1> QED BY <1>1, <1>2, <1>3

\* The calls that only push and pop.
LEMMA PassStep ==
    ASSUME EInv, NEW t \in Threads, NEW h \in Handles,
           Refused(t, h) \/ engine_reset(t, h)
    PROVE  EInv'
  <1> USE EngineAssumption DEF EInv
  <1> DEFINE s == stack[t]
             p == view[t].engine
             v == [view[t] EXCEPT !.engine = h, !.runtime = h]
  <1>1. /\ PushAndPop(t, h) /\ Shared /\ active[h]
        /\ \/ program' = program
           \/ program' = [program EXCEPT ![h] = "none"]
    BY DEF Refused, engine_reset, MayEnter
  <1>2. s \in Seq(Frames) /\ view[t] \in Views
    BY DEF TypeOK
  <1>3. v \in Views /\ v.override = view[t].override
    BY <1>2, Zenon DEF Views
  <1>4. p \in Handles \cup {None}
    BY <1>2 DEF Views
  <1>5. p = IF s = << >> THEN None ELSE s[Len(s)].handle
    <2>1. Matches(s, view[t], callback)
      BY ScriptSeesByThread
    <2> QED BY <2>1 DEF Matches
  <1>6. /\ view' = [view EXCEPT ![t] = ViewAfter(v, p)]
        /\ stack' = [stack EXCEPT ![t] = Synced(s)]
    BY <1>1 DEF PushAndPop
  <1>7. /\ program' \in [Handles -> {"none", "loaded", "suspended"}]
        /\ \A g \in Handles : ~active[g] => program'[g] = "none"
        /\ \A g \in Handles : program[g] # "suspended" => program'[g] # "suspended"
    BY <1>1 DEF TypeOK, FreeSlotsAreClean
  <1>8. \A u \in Threads : SameCalls(stack[u], stack'[u])
    BY <1>2, <1>6, UntouchedCalls, MarkingKeepsCalls DEF TypeOK
  <1>9. \A u \in Threads : \A i \in 1..Len(stack'[u]) :
            program'[stack'[u][i].handle] # "suspended"
    BY <1>7, <1>8, HandlesOfCalls DEF CallsNest, SameCalls
  <1>10. Len(s) <= Len(stack[t]) /\ \A i \in 1..Len(s) : s[i] = stack[t][i]
    BY <1>2
  <1> HIDE DEF s, p, v
  <1> QED BY <1>1, <1>2, <1>3, <1>4, <1>5, <1>6, <1>7, <1>9, <1>10, RestoreKeeps

\* The innermost call returns to the one below it, which is of another
\* engine.
LEMMA ReturnStep ==
    ASSUME EInv, NEW t \in Threads, Return(t) PROVE EInv'
  <1> USE EngineAssumption DEF EInv
  <1> DEFINE s == Front(stack[t])
             n == Len(stack[t])
             top == stack[t][n]
             p == top.prev
  <1>1. stack[t] \in Seq(Frames) /\ stack[t] # << >> /\ view[t] \in Views /\ n \in Nat \ {0}
    BY DEF TypeOK, Return
  <1>2. /\ s \in Seq(Frames) /\ Len(s) = n - 1
        /\ \A i \in 1..Len(s) : s[i] = stack[t][i]
    BY <1>1, PoppedCalls
  <1>3. n \in 1..n /\ top \in Frames /\ top.handle \in Handles /\ p \in Handles \cup {None}
    <2>1. n \in 1..n /\ top \in Frames
      BY <1>1
    <2> QED BY <2>1 DEF Frames
  <1>4. p = IF s = << >> THEN None ELSE s[Len(s)].handle
    <2>1. p = IF n = 1 THEN None ELSE stack[t][n - 1].handle
      BY <1>3 DEF CallsNest
    <2> HIDE DEF s
    <2>2. s = << >> <=> n = 1
      <3>1. s = << >> <=> Len(s) = 0
        BY <1>2, EmptySeq
      <3>2. Len(s) = 0 <=> n = 1
        <4> HIDE DEF n
        <4> QED BY <1>1, <1>2
      <3> QED BY <3>1, <3>2
    <2>3. n # 1 => s[Len(s)] = stack[t][n - 1]
      <3>1. n # 1 => Len(s) \in 1..Len(s)
        <4> HIDE DEF n
        <4> QED BY <1>1, <1>2
      <3> QED BY <1>2, <3>1
    <2> QED BY <2>1, <2>2, <2>3
  <1>5. /\ view' = [view EXCEPT ![t] = ViewAfter(view[t], p)]
        /\ stack' = [stack EXCEPT ![t] = Synced(s)]
        /\ Shared
    BY DEF Return, popEngineState, Last
  <1>6. PICK q \in {"none", "loaded", "suspended"} : program' = [program EXCEPT ![top.handle] = q]
    BY <1>3 DEF Return, Leaves, TypeOK, Last
  <1>7. /\ program' \in [Handles -> {"none", "loaded", "suspended"}]
        /\ \A g \in Handles : ~active[g] => program'[g] = "none"
    BY <1>3, <1>6 DEF TypeOK, FreeSlotsAreClean, CallsNest
  <1>8. \A u \in Threads : \A i \in 1..Len(stack'[u]) :
            program'[stack'[u][i].handle] # "suspended"
    <2> SUFFICES ASSUME NEW u \in Threads, NEW i \in 1..Len(stack'[u])
                 PROVE  program'[stack'[u][i].handle] # "suspended"
      OBVIOUS
    <2>1. SameCalls(s, Synced(s))
      BY <1>2, MarkingKeepsCalls
    <2>2. /\ i \in 1..Len(stack[u]) /\ stack'[u][i].handle = stack[u][i].handle
          /\ ~(u = t /\ i = n)
      <3>1. CASE u = t
        <4>1. stack'[u] = Synced(s)
          BY <1>5, <3>1 DEF TypeOK
        <4> QED BY <1>1, <1>2, <2>1, <3>1, <4>1 DEF SameCalls
      <3>2. CASE u # t
        BY <1>5, <3>2 DEF TypeOK
      <3> QED BY <3>1, <3>2
    <2>3. stack[u][i].handle # top.handle
      BY <1>3, <2>2 DEF OneCallPerEngine
    <2> QED BY <1>6, <2>2, <2>3, HandlesOfCalls DEF TypeOK, CallsNest
  <1>9. Len(s) <= Len(stack[t])
    BY <1>1, <1>2
  <1> HIDE DEF s, p
  <1> QED BY <1>1, <1>2, <1>3, <1>4, <1>5, <1>7, <1>8, <1>9, RestoreKeeps

----------------------------------------------------------------------------
(* The theorems.                                                           *)

\* Every step of a host's threads keeps the invariant.
LEMMA NextEInv == ASSUME EInv, [Next]_vars PROVE EInv'
  <1>1. CASE UNCHANGED vars
    <2>1. /\ TypeOK' /\ SearchHoldsLock' /\ CallsNest' /\ OneCallPerEngine'
          /\ FreeSlotsAreClean'
      BY <1>1 DEF EInv, TypeOK, SearchHoldsLock, CallsNest, OneCallPerEngine,
                  FreeSlotsAreClean, vars
    <2>2. ScriptSeesItsEngine'
      BY <1>1, ScriptSeesByThread DEF EInv, vars
    <2> QED BY <2>1, <2>2 DEF EInv
  <1>2. ASSUME NEW t \in Threads,
               \/ InitLock(t) \/ InitScan(t) \/ InitEngine(t) \/ InitFails(t) \/ Return(t)
        PROVE  EInv'
    BY <1>2, LockStep, ScanStep, CreateStep, CreateFailsStep, ReturnStep
  <1>3. ASSUME NEW t \in Threads, NEW h \in Handles,
               \/ engine_destroy(t, h)
               \/ \E on \in BOOLEAN : engine_set_write_fn(t, h, on)
               \/ \E kind \in {"run", "begin"} : Start(t, h, kind)
               \/ engine_call(t, h) \/ engine_continue(t, h)
               \/ Refused(t, h) \/ engine_reset(t, h)
        PROVE  EInv'
    BY <1>3, DestroyStep, SetWriteStep, CallStep, PassStep
  <1> QED BY <1>1, <1>2, <1>3 DEF Next

\* The inductive invariant holds of the C ABI, for any number of threads,
\* slots and nested calls.
THEOREM Invariance == Spec => []EInv
  BY InitEInv, NextEInv, PTL DEF Spec

\* Every slot number and every engine named by a view or a call is one of
\* the table's, for any number of threads (engine_init, getEngine).
THEOREM EngineTypeCorrect == Spec => []TypeOK
  BY Invariance, PTL DEF EInv

\* The spin lock around engine_init's search and claim is enough: no slot is
\* handed out to two threads, or while it is in use.
THEOREM SlotsAreHandedOutOnce == Spec => []SlotHandedOutOnce
  <1>1. EInv => SlotHandedOutOnce
    BY EngineAssumption DEF EInv, SearchHoldsLock, SlotHandedOutOnce, Handles
  <1> QED BY <1>1, Invariance, PTL

\* pushEngineState and popEngineState keep the thread-local views those of
\* the running script, at any depth of callbacks.
THEOREM ScriptsSeeTheirEngine == Spec => []ScriptSeesItsEngine
  BY Invariance, PTL DEF EInv

\* On the thread that created it, an engine's output reaches its callback.
THEOREM OwnOutputIsDelivered == Spec => []OwnOutputReachesCallback
  <1>1. EInv => OwnOutputReachesCallback
    <2> SUFFICES ASSUME EInv, NEW t \in Threads, stack[t] # << >>,
                        stack[t][Len(stack[t])].synced,
                        creator[stack[t][Len(stack[t])].handle] = t,
                        callback[stack[t][Len(stack[t])].handle]
                 PROVE  Destination(t) = stack[t][Len(stack[t])].handle
      BY DEF OwnOutputReachesCallback, Last
    <2>1. Len(stack[t]) \in 1..Len(stack[t])
      BY DEF EInv, TypeOK
    <2>2. stack[t][Len(stack[t])].handle \in Handles
      BY <2>1, HandlesOfCalls
    <2>3. view[t].override
      BY <2>2 DEF EInv, FreeSlotsAreClean
    <2>4. view[t].write = stack[t][Len(stack[t])].handle
      BY ScriptSeesByThread DEF EInv, Matches
    <2> QED BY <2>3, <2>4 DEF Destination
  <1> QED BY <1>1, Invariance, PTL

\* A suspended program ends only by its host's engine_continue,
\* engine_reset or engine_destroy.
THEOREM SuspendedProgramsSurvive == Spec => SuspendedProgramSurvives
  <1> DEFINE Kept ==
        \A h \in Handles :
          Suspended(h) /\ program'[h] # "suspended" =>
            \E t \in Threads : engine_continue(t, h) \/ engine_reset(t, h) \/ engine_destroy(t, h)
  <1>1. ASSUME EInv, [Next]_vars PROVE [Kept]_vars
    <2> SUFFICES ASSUME Next, NEW g \in Handles, program[g] = "suspended",
                        program'[g] # "suspended"
                 PROVE  \E t \in Threads :
                           engine_continue(t, g) \/ engine_reset(t, g) \/ engine_destroy(t, g)
      BY <1>1 DEF Suspended
    <2> USE <1>1 DEF EInv
    <2>1. program' # program /\ program \in [Handles -> {"none", "loaded", "suspended"}]
      BY DEF TypeOK
    <2>2. ASSUME NEW t \in Threads, InitEngine(t) \/ InitFails(t) PROVE FALSE
      <3>1. found[t] \in Handles /\ program' = [program EXCEPT ![found[t]] = "none"]
        BY <2>2 DEF InitEngine, InitFails
      <3>2. found[t] = g
        BY <2>1, <3>1
      <3>3. ~active[g]
        BY <3>1, <3>2, EngineAssumption DEF SearchHoldsLock, Handles
      <3> QED BY <3>3 DEF FreeSlotsAreClean
    <2>3. ASSUME NEW t \in Threads, Return(t) PROVE FALSE
      <3>1. stack[t] \in Seq(Frames) /\ stack[t] # << >>
        BY <2>3 DEF Return, TypeOK
      <3>2. Len(stack[t]) \in 1..Len(stack[t])
        BY <3>1
      <3>3. stack[t][Len(stack[t])].handle # g
        BY <3>2 DEF CallsNest
      <3>4. \E q : program' = [program EXCEPT ![stack[t][Len(stack[t])].handle] = q]
        BY <2>3 DEF Return, Last
      <3> QED BY <2>1, <3>3, <3>4
    <2>4. ASSUME NEW t \in Threads, NEW h \in Handles,
                 \/ \E kind \in {"run", "begin"} : Start(t, h, kind)
                 \/ engine_call(t, h) \/ Refused(t, h)
                 \/ \E on \in BOOLEAN : engine_set_write_fn(t, h, on)
          PROVE  FALSE
      BY <2>1, <2>4 DEF Start, MayStart, Suspended, engine_call, Refused, engine_set_write_fn
    <2>5. ASSUME NEW t \in Threads, InitLock(t) \/ InitScan(t) PROVE FALSE
      BY <2>1, <2>5 DEF InitLock, InitScan
    <2>6. ASSUME NEW t \in Threads, NEW h \in Handles,
                 engine_continue(t, h) \/ engine_reset(t, h) \/ engine_destroy(t, h)
          PROVE  h = g
      <3>1. \E q : program' = [program EXCEPT ![h] = q]
        BY <2>6 DEF engine_continue, engine_reset, engine_destroy
      <3> QED BY <2>1, <3>1
    <2> QED BY <2>2, <2>3, <2>4, <2>5, <2>6 DEF Next
  <1>2. [][Kept]_vars => SuspendedProgramSurvives
    BY PTL DEF SuspendedProgramSurvives
  <1> HIDE DEF Kept
  <1> QED BY <1>1, <1>2, Invariance, PTL DEF Spec
=============================================================================
