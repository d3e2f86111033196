------------------------------- MODULE Unwind -------------------------------
(***************************************************************************)
(* Calls, deferred calls, panics and recover() in one vm_state             *)
(* (lang/vm.zig, lang/native/core.zig), through every nesting of run():    *)
(* a deferred call is a call of run() inside retSlowPath or runPanicUnwind *)
(* of another run(), and so are a function that a native calls back and a  *)
(* predicate by which a named type checks an argument or a returned value. *)
(*                                                                         *)
(* `ctl' is the native call stack, as far as it matters: a "run" is an     *)
(* activation of runUntilSuspend with its call_depth_target, a "ret" one   *)
(* of retSlowPath and an "unwind" one of runPanicUnwind, each called by    *)
(* the record before it. `signal' is what the call that the top record     *)
(* made has just returned: "none" while the record itself executes. A      *)
(* frame is its defer_base, a deferred call its kind and the frame that    *)
(* scheduled it. What a script does next is left open.                     *)
(*                                                                         *)
(* runPanicUnwind itself may fail: it adds the text of a panic to a table  *)
(* of strings that only grows, and pushes the results of the function that *)
(* has recovered. Then it leaves is_panicking, the frames and the deferred *)
(* calls as they are. `unwindFailed', which is not in the code, remembers  *)
(* it: what still holds afterwards is said by each property.               *)
(*                                                                         *)
(* A recovered panic goes on in `return run(ctx)', one level deeper in the *)
(* native stack with the same target; here it goes on in the run it began  *)
(* in. Suspension is the subject of Tasks.                                 *)
(***************************************************************************)
EXTENDS Integers, Sequences, SequencesExt

CONSTANTS
    MaxFrames,    \* frames.len
    MaxDefers,    \* defer_stack.len
    MaxNesting    \* bound: records of ctl when a native is called back

ASSUME UnwindAssumption ==
    MaxFrames \in Nat \ {0} /\ MaxDefers \in Nat /\ MaxNesting \in Nat

Kinds    == {"func", "native", "recover"}
NoTarget == MaxFrames + 1      \* maxInt: a depth that is never reached

VARIABLES
    frames,       \* frames[i]: defer_base of the i-th frame
    defers,       \* defer_stack
    isPanicking,  \* is_panicking
    recovered,    \* recovered
    ctl,          \* the native call stack
    signal,       \* "none", "ok", "error", or "done" after a deferred recover()
    unwindFailed  \* history: an unwind has itself failed since the last Run

flags == <<isPanicking, recovered, unwindFailed>>
vars  == <<frames, defers, flags, ctl, signal>>

Depth == Len(frames)
Top   == Last(ctl)

RunRec(t)    == [kind |-> "run", target |-> t]
\* gone: the returning frame has been popped.
RetRec(g)    == [kind |-> "ret", gone |-> g]
\* prev is prev_panicking, frec is frame_recovered; frame is the frame whose
\* deferred calls are being made, those above its defer_base, or 0. taken is not
\* in the code: recover() has returned this panic, and no panic has replaced it.
UnwindRec(p) == [kind |-> "unwind", prev |-> p, frec |-> FALSE, taken |-> FALSE,
                 frame |-> 0]

\* call_depth_target: that of the innermost run.
Target == (IF Top.kind = "run" THEN Top ELSE Last(Front(ctl))).target

\* (A definition marked "Faulty" is a plausible mistake in the one after it. No
\* specification uses it; it shows that the properties would notice.)

\* Faulty: a run inside another one unwinds all there is.
StopDepthZero == 0

\* The depth to which runPanicUnwind unwinds.
StopDepth == IF Target = NoTarget THEN 0 ELSE Target

Executing == ctl # << >> /\ Top.kind = "run" /\ signal = "none"
Draining  == ctl # << >> /\ Top.kind \in {"ret", "unwind"} /\ signal = "none"

\* The loop over the deferred calls of a frame, which returns or is unwound.
DrainingFrame ==
    /\ Draining
    /\ IF Top.kind = "ret" THEN ~Top.gone ELSE Top.frame # 0

\* That frame; that of an executing run is the innermost one.
DrainedFrame == IF Top.kind = "unwind" THEN Top.frame ELSE Depth

\* Some of its deferred calls have not been made yet.
Pending == frames # << >> /\ Len(defers) > frames[DrainedFrame]

Raise == signal' = "error" /\ UNCHANGED ctl
----------------------------------------------------------------------------
(* The script.                                                             *)

\* Faulty: the frames are not counted.
EnterFrameUnchecked(c) ==
    /\ frames' = Append(frames, Len(defers'))
    /\ ctl' = c
    /\ signal' = "none"

\* enterFunctionFrame, called by a record that becomes c if it succeeds. It may
\* reject the arguments, and finds no room for the frame or for its values.
EnterFrame(c) ==
    \/ Raise /\ UNCHANGED frames
    \/ /\ Depth < MaxFrames
       /\ frames' = Append(frames, Len(defers'))
       /\ ctl' = c
       /\ signal' = "none"

Call ==
    /\ Executing
    /\ UNCHANGED <<defers, flags>>
    /\ EnterFrame(ctl)

\* defer_call, defer_invoke_method.
Defer(k) ==
    /\ Executing
    /\ frames # << >>
    /\ IF Len(defers) = MaxDefers
       THEN Raise /\ UNCHANGED defers
       ELSE /\ defers' = Append(defers, [kind |-> k, frame |-> Depth])
            /\ UNCHANGED <<ctl, signal>>
    /\ UNCHANGED <<frames, flags>>

Unwinds == {i \in DOMAIN ctl : ctl[i].kind = "unwind"}
Innermost == CHOOSE i \in Unwinds : \A j \in Unwinds : j <= i

\* core_recover: it returns the panic value, and notes that it has, or null.
CoreRecover ==
    IF isPanicking /\ ~recovered
    THEN /\ recovered' = TRUE
         /\ ctl' = IF Unwinds = {} THEN ctl ELSE [ctl EXCEPT ![Innermost].taken = TRUE]
    ELSE UNCHANGED <<recovered, ctl>>

Recover ==
    /\ Executing
    /\ CoreRecover
    /\ UNCHANGED <<frames, defers, isPanicking, unwindFailed, signal>>

\* Any instruction, or the native it calls, fails.
Panic ==
    /\ Executing
    /\ Raise
    /\ UNCHANGED <<frames, defers, flags>>

\* callValue: a native (sort, map, filter), an operator method or a predicate
\* calls a script function.
CallBack ==
    /\ Executing
    /\ UNCHANGED <<defers, flags>>
    /\ EnterFrame(Append(ctl, RunRec(Depth)))

\* callValue on a native or a type: performCall has done it all and pushed no
\* frame, and run() is called nevertheless.
CallBackOfNative ==
    /\ Executing
    /\ Len(ctl) < MaxNesting
    /\ ctl' = Append(ctl, RunRec(Depth))
    /\ UNCHANGED <<frames, defers, flags, signal>>

\* The frame goes. The innermost run ends if it has come down to its target; if
\* not, or if it has not been reached, the run goes on. c is its native stack.
PopFrame(c) ==
    /\ frames' = Front(frames)
    /\ IF Depth - 1 = Last(c).target
       THEN ctl' = Front(c) /\ signal' = "ok"
       ELSE ctl' = c /\ signal' = "none"

\* At once, or by retSlowPath if there are deferred calls or a type to check.
Return ==
    /\ Executing
    /\ frames # << >>
    /\ \/ ~Pending /\ PopFrame(ctl)
       \/ ctl' = Append(ctl, RetRec(FALSE)) /\ UNCHANGED <<frames, signal>>
    /\ UNCHANGED <<defers, flags>>

\* The end of the program's own code.
Halt ==
    /\ Executing
    /\ frames = << >>
    /\ ctl' = Front(ctl)
    /\ signal' = "ok"
    /\ UNCHANGED <<frames, defers, flags>>
----------------------------------------------------------------------------
(* Deferred calls.                                                         *)

\* Faulty: the entry at the bottom of the stack is taken off.
DeferTopWrong == Tail(defers)

DeferTopPopped == Front(defers)

\* The loops of retSlowPath and of runPanicUnwind (runDeferredCall): the last
\* deferred call of the frame is taken off and made.
NextDeferred ==
    /\ DrainingFrame
    /\ Pending
    /\ defers' = DeferTopPopped
    /\ CASE Last(defers).kind = "func" ->
              EnterFrame(Append(ctl, RunRec(Depth))) /\ UNCHANGED flags
         [] Last(defers).kind = "native" ->
              signal' \in {"ok", "error"} /\ UNCHANGED <<frames, ctl, flags>>
         [] Last(defers).kind = "recover" ->
              CoreRecover /\ signal' = "done" /\ UNCHANGED <<frames, isPanicking, unwindFailed>>

\* The deferred call is not over: the run that has ended was that of a predicate
\* on its arguments, or a native calls back.
DeferredGoesOn ==
    /\ ctl # << >> /\ Top.kind \in {"ret", "unwind"}
    /\ signal = "ok"
    /\ UNCHANGED <<defers, flags>>
    /\ EnterFrame(Append(ctl, RunRec(Depth)))

\* retSlowPath goes on after a call. An error ends it.
RetResumes ==
    /\ ctl # << >> /\ Top.kind = "ret"
    /\ signal # "none"
    /\ IF signal = "error"
       THEN ctl' = Front(ctl) /\ UNCHANGED signal
       ELSE signal' = "none" /\ UNCHANGED ctl
    /\ UNCHANGED <<frames, defers, flags>>

\* retSlowPath fails by itself, with or without the frame.
RetFails ==
    /\ Draining /\ Top.kind = "ret"
    /\ ctl' = Front(ctl)
    /\ signal' = "error"
    /\ UNCHANGED <<frames, defers, flags>>

\* All deferred calls of a returning frame have been made: the frame goes,
\* before the value is checked.
RetPops ==
    /\ DrainingFrame /\ Top.kind = "ret"
    /\ ~Pending
    /\ frames' = Front(frames)
    /\ ctl' = Append(Front(ctl), RetRec(TRUE))
    /\ UNCHANGED <<defers, flags, signal>>

\* enforceFuncReturnTypes calls a predicate.
RetChecks ==
    /\ Draining /\ Top.kind = "ret" /\ Top.gone
    /\ Len(ctl) < MaxNesting
    /\ UNCHANGED <<defers, flags>>
    /\ EnterFrame(Append(ctl, RunRec(Depth)))

\* The value is returned to the innermost run, which ends if it has come down to
\* its target.
RetEnds ==
    /\ Draining /\ Top.kind = "ret" /\ Top.gone
    /\ IF Depth = Target
       THEN ctl' = Front(Front(ctl)) /\ signal' = "ok"
       ELSE ctl' = Front(ctl) /\ UNCHANGED signal
    /\ UNCHANGED <<frames, defers, flags>>
----------------------------------------------------------------------------
(* runPanicUnwind.                                                         *)

\* Faulty: the flag of the panic outside is forgotten.
PrevForgotten == FALSE

PrevPanicking == isPanicking

\* runPanicUnwind returns an error of its own, and run() with it.
UnwindGivesUp(c) ==
    /\ ctl' = Front(c)
    /\ signal' = "error"
    /\ unwindFailed' = TRUE

\* runInner of the innermost run has returned an error. Its text may not be
\* interned.
BeginUnwind ==
    /\ ctl # << >> /\ Top.kind = "run"
    /\ signal = "error"
    /\ isPanicking' = TRUE
    /\ recovered' = FALSE
    /\ \/ UnwindGivesUp(ctl)
       \/ /\ ctl' = Append(ctl, UnwindRec(PrevPanicking))
          /\ signal' = "none"
          /\ UNCHANGED unwindFailed
    /\ UNCHANGED <<frames, defers>>

\* The next frame to unwind, if there is one above the target.
UnwindNextFrame ==
    /\ Draining /\ Top.kind = "unwind" /\ Top.frame = 0
    /\ Depth > StopDepth
    /\ ctl' = Append(Front(ctl), [Top EXCEPT !.frame = Depth])
    /\ UNCHANGED <<frames, defers, flags, signal>>

\* A deferred call of the unwinding frame has returned, with an error or not.
\* The name of a new error may not be interned.
UnwindResumes ==
    /\ ctl # << >> /\ Top.kind = "unwind"
    /\ signal # "none"
    /\ LET again == signal = "error" /\ ~recovered
           rec   == IF again THEN [Top EXCEPT !.frec = FALSE, !.taken = FALSE] ELSE Top
       IN  \/ /\ again
              /\ UnwindGivesUp(Front(ctl))
              /\ UNCHANGED <<isPanicking, recovered>>
           \/ /\ ctl' = Append(Front(ctl), IF recovered THEN [rec EXCEPT !.frec = TRUE]
                                           ELSE rec)
              /\ isPanicking' = ((isPanicking \/ again) /\ ~recovered)
              /\ recovered' = FALSE
              /\ signal' = "none"
              /\ UNCHANGED unwindFailed
    /\ UNCHANGED <<frames, defers>>

\* Faulty: a recovery skips the deferred calls still pending.
UnwindFrameAtOnce ==
    /\ DrainingFrame /\ Top.kind = "unwind"
    /\ ~Pending \/ Top.frec
    /\ IF Top.frec
       THEN PopFrame(Front(ctl)) /\ isPanicking' = Top.prev
       ELSE /\ frames' = Front(frames)
            /\ ctl' = Append(Front(ctl), [Top EXCEPT !.frame = 0])
            /\ UNCHANGED <<isPanicking, signal>>
    /\ UNCHANGED <<defers, recovered, unwindFailed>>

\* All deferred calls of the frame have been made, and the innermost frame goes.
\* If the panic has been recovered, it returns to its caller.
UnwindFrame ==
    /\ DrainingFrame /\ Top.kind = "unwind"
    /\ ~Pending
    /\ IF Top.frec
       THEN PopFrame(Front(ctl)) /\ isPanicking' = Top.prev
       ELSE /\ frames' = Front(frames)
            /\ ctl' = Append(Front(ctl), [Top EXCEPT !.frame = 0])
            /\ UNCHANGED <<isPanicking, signal>>
    /\ UNCHANGED <<defers, recovered, unwindFailed>>

\* The frame has gone, and the results of its function cannot be pushed.
RecoveredPushFails ==
    /\ DrainingFrame /\ Top.kind = "unwind" /\ Top.frec
    /\ ~Pending
    /\ frames' = Front(frames)
    /\ UnwindGivesUp(Front(ctl))
    /\ UNCHANGED <<defers, isPanicking, recovered>>

\* No frame of this run is left: the error goes to whoever called run().
UnwindFails ==
    /\ Draining /\ Top.kind = "unwind" /\ Top.frame = 0
    /\ Depth <= StopDepth
    /\ ctl' = Front(Front(ctl))
    /\ signal' = "error"
    /\ isPanicking' = Top.prev
    /\ UNCHANGED <<frames, defers, recovered, unwindFailed>>

\* A callback has returned to the native, which goes on.
CallBackReturns ==
    /\ ctl # << >> /\ Top.kind = "run"
    /\ signal = "ok"
    /\ signal' = "none"
    /\ UNCHANGED <<frames, defers, flags, ctl>>
----------------------------------------------------------------------------
(* The host.                                                               *)

\* A new program on a vm_state that has been reset.
Run ==
    /\ ctl = << >>
    /\ frames' = << >> /\ defers' = << >>
    /\ isPanicking' = FALSE /\ recovered' = FALSE /\ unwindFailed' = FALSE
    /\ ctl' = <<RunRec(NoTarget)>>
    /\ signal' = "none"

\* A call of a global function, on whatever was left behind.
CallGlobal ==
    /\ ctl = << >>
    /\ UNCHANGED <<defers, flags>>
    /\ EnterFrame(<<RunRec(Depth)>>)

Init ==
    /\ frames = << >> /\ defers = << >>
    /\ isPanicking = FALSE /\ recovered = FALSE /\ unwindFailed = FALSE
    /\ ctl = << >>
    /\ signal = "none"

Script == Call \/ (\E k \in Kinds : Defer(k)) \/ Recover \/ Panic
          \/ CallBack \/ Return \/ Halt

Returning == RetResumes \/ RetFails \/ RetPops \/ RetChecks \/ RetEnds

Unwinding == BeginUnwind \/ UnwindNextFrame \/ UnwindResumes \/ UnwindFrame
             \/ RecoveredPushFails \/ UnwindFails

Machine == NextDeferred \/ DeferredGoesOn \/ Returning \/ Unwinding \/ CallBackReturns

Next == Script \/ Machine \/ Run \/ CallGlobal

Spec == Init /\ [][Next]_vars

\* Callbacks of natives are apart because they break RunsOwnTheirFrames.
NativeBackNext == Next \/ CallBackOfNative

NativeBackSpec == Init /\ [][NativeBackNext]_vars
----------------------------------------------------------------------------
(* Properties.                                                             *)

Records == {RetRec(g) : g \in BOOLEAN} \cup {RunRec(t) : t \in 0 .. NoTarget}
           \cup [kind : {"unwind"}, prev : BOOLEAN, frec : BOOLEAN, taken : BOOLEAN,
                 frame : 0 .. MaxFrames]

\* Every variable has its type, and retSlowPath and runPanicUnwind are called
\* by a run.
TypeOK ==
    /\ frames \in Seq(0 .. MaxDefers) /\ Len(frames) <= MaxFrames
    /\ defers \in Seq([kind : Kinds, frame : 1 .. MaxFrames])
    /\ Len(defers) <= MaxDefers
    /\ isPanicking \in BOOLEAN /\ recovered \in BOOLEAN /\ unwindFailed \in BOOLEAN
    /\ ctl \in Seq(Records)
    /\ \A i \in DOMAIN ctl : ctl[i].kind # "run" => i > 1 /\ ctl[i - 1].kind = "run"
    /\ signal \in {"none", "ok", "done", "error"}

\* The panic that the unwind at i of ctl found in progress: that of the nearest
\* unwind below, unless the frame being unwound there has recovered it.
InProgressBelow(i) ==
    LET below == {j \in Unwinds : j < i} IN
    below # {} /\ ~ctl[CHOOSE j \in below : \A k \in below : k <= j].frec

\* Unless an unwind has itself failed since the last Run, is_panicking says
\* exactly whether the innermost unwind is still looking for a recover(), however
\* unwinds, recoveries, new panics in deferred calls and callbacks nest; every
\* prev_panicking says the same of the unwind outside it. So recover() returns
\* null outside of a panic, also after earlier panics.
PanicFlagIsExact ==
    ~unwindFailed =>
        /\ isPanicking = InProgressBelow(Len(ctl) + 1)
        /\ \A i \in Unwinds : ctl[i].prev = InProgressBelow(i)

\* A deferred call is made while the frame that scheduled it is the innermost
\* one, whether that frame returns or is unwound, and no frame goes before all
\* its deferred calls have been made: the stack of deferred calls is made of
\* one section for each frame. (An unwind that has itself failed leaves frames
\* behind, among which the deferred calls of the frames below are then made.)
DefersBelongToFrames ==
    ~unwindFailed =>
        /\ \A i \in DOMAIN frames :
              frames[i] <= (IF i = Depth THEN Len(defers) ELSE frames[i + 1])
        /\ \A n \in DOMAIN defers :
              LET f == defers[n].frame IN
              /\ f \in DOMAIN frames
              /\ n > frames[f]
              /\ f < Depth => n <= frames[f + 1]

\* The record at i of ctl is a run that is to come down to a target.
HasTarget(i) == ctl[i].kind = "run" /\ ctl[i].target # NoTarget

\* A run executes only frames above its call_depth_target, and the runs inside
\* it have targets above its own, unless it is returning its last frame and has
\* no other left: a predicate on the value returned starts where that frame was.
\* No frame and no deferred call is left when the host has control again, unless
\* an unwind has itself failed.
RunsOwnTheirFrames ==
    /\ \A i \in DOMAIN ctl : HasTarget(i) =>
          /\ ctl[i].target <= Depth
          /\ signal = "none" /\ i = Len(ctl) => ctl[i].target < Depth
          /\ \A j \in 1 .. i - 1 : HasTarget(j) =>
                IF ctl[i - 1] = RetRec(TRUE)
                THEN ctl[j].target <= ctl[i].target
                ELSE ctl[j].target < ctl[i].target
    /\ ctl = << >> /\ ~unwindFailed => frames = << >> /\ defers = << >> /\ ~recovered

\* What a run, a return or an unwind does leaves the frames at or below its
\* call_depth_target, and the deferred calls they have scheduled, as they were.
NestedRunIsContained ==
    [][\A i \in DOMAIN ctl \cap DOMAIN ctl' :
          /\ ctl[i].kind = "run" /\ ctl'[i] = ctl[i] /\ ctl[i].target \in DOMAIN frames
          => LET t == ctl[i].target
                 n == IF t < Depth THEN frames[t + 1] ELSE Len(defers) IN
             /\ SubSeq(frames', 1, t) = SubSeq(frames, 1, t)
             /\ SubSeq(defers', 1, n) = SubSeq(defers, 1, n)]_vars

\* docs/language.md, of recover(): "catches a panic from inside a defer function
\* and stops the unwind". Once the deferred call in which it returned the panic
\* is over, the unwind has stopped.
RecoverStopsTheUnwind ==
    Draining /\ Top.kind = "unwind" /\ Top.taken => Top.frec

\* docs/language.md:1069, of recover(): "Calling it with no panic in progress
\* [...] returns `null`". It returns null unless is_panicking is set.
RecoverAnswersOnlyPanics == isPanicking => Unwinds # {}
=============================================================================
