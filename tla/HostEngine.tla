----------------------------- MODULE HostEngine -----------------------------
(***************************************************************************)
(* An engine as the example hosts use it: created once, loaded with one    *)
(* script at a time, called, asked for the text of its last error, and     *)
(* destroyed.  What a script answers is left open: a call may come to any  *)
(* answer, and the result says which one it was.  Texts are sequences of   *)
(* parts, each part a number that stands for some characters.              *)
(***************************************************************************)
EXTENDS Wire

CONSTANTS
    Scripts,        \* the scripts a file can contain
    LoadOutcome,    \* what loading each of them comes to
    MaxErrorLen,    \* engine.zig's MaxErrorLen
    HostBuf,        \* the hosts' char buf[512]
    NoProgram

ASSUME HostEngineAssumption ==
    /\ LoadOutcome \in [Scripts -> {"ok", "compile", "verbose", "runtime", "long"}]
    /\ MaxErrorLen \in Nat \ {0}
    /\ HostBuf \in Nat \ {0, 1} /\ HostBuf <= MaxStringScratch
    /\ NoProgram \notin [script : Scripts, whole : BOOLEAN]

VARIABLES
    program,    \* the host this process runs
    eng,        \* its engine
    logged      \* its last log of an engine error: length printed, bytes filled

\* Parts of texts.
Panic   == 1
Kind    == 2
Colon   == 3
Compile == 4
Heap    == 5
Args    == 6

\* The message of a panic in the call for q, which has a colon of its own,
\* and the reason a script notes when it answers false.
Text(q) == <<200 + q, Colon, 9>>
Note(q) == <<100 + q>>

NoEngine == [live |-> FALSE, prog |-> NoProgram, err |-> << >>, note |-> << >>]

\* Faulty: the length of what would have been written is stored.
BufPrintLength(msg) == msg

\* std.fmt.bufPrint(...) catch "": a message that does not fit is empty.
BufPrint(msg) == IF Len(msg) <= MaxErrorLen THEN msg ELSE << >>

\* setCompileError and setRuntimeError.  The message of a compile error may
\* be as long as the buffer ("verbose").
CompileError(msg) == BufPrint(<<Compile, Kind, Colon>> \o msg)
RuntimeError(msg) == BufPrint(<<Panic, Kind, Colon>> \o msg)
OutOfMemory       == BufPrint(<<Panic, Heap>>)

\* engine_init_with_config: a handle, 0 or a negative code.
InitResults == {1, 0, -3, -4}
engine_init_with_config(h) == [NoEngine EXCEPT !.live = h > 0]

engine_destroy(e) == NoEngine

engine_reset(e) ==
    IF e.live THEN [e EXCEPT !.err = << >>, !.prog = NoProgram, !.note = << >>] ELSE e

\* engine_run and engine_run_path.  What was loaded before is gone once the
\* input's length is accepted; a program that panics while it is loaded
\* stays, with what it had defined by then.
engine_run(e, s) ==
    LET After(code, p, msg) ==
            [rc |-> code, eng |-> [e EXCEPT !.prog = p, !.err = msg, !.note = << >>]]
    IN  IF ~e.live THEN [rc |-> -1, eng |-> e]
        ELSE CASE LoadOutcome[s] = "ok" ->
                    After(0, [script |-> s, whole |-> TRUE], << >>)
               [] LoadOutcome[s] = "compile" -> After(-1, NoProgram, CompileError(<<7>>))
               [] LoadOutcome[s] = "verbose" ->
                    After(-1, NoProgram, CompileError([i \in 1..MaxErrorLen |-> 7]))
               [] LoadOutcome[s] = "runtime" ->
                    After(-2, [script |-> s, whole |-> FALSE], RuntimeError(<<8>>))
               [] LoadOutcome[s] = "long" ->
                    [rc |-> -2, eng |-> [e EXCEPT !.err = RuntimeError(<<8>>)]]

Decisions    == {"true", "false", "other", "panic", "oom", "args", "missing"}
Explanations == {"note", "null", "panic", "missing"}
Evaluations  == {"line", "null", "panic", "missing"}

\* The wire of a returned value, one of valueToWireWithScratch's.  Strings are
\* whole here: what a scratch buffer leaves out of them is past the end of the
\* hosts' buffers (StringsCross).
Handed(v) ==
    IF v.kind = "string" THEN MakeWire(TagString, TRUE, v.data, Len(v.data)) ELSE valueToWire(v)

\* engine_call when the script's answer to q is a.  Deciding functions note
\* a reason when they answer false, and none otherwise.
CallResult(e, q, a) ==
    LET Returns(v, n) == [rc |-> 0, said |-> a, out |-> Handed(v),
                          eng |-> [e EXCEPT !.err = << >>, !.note = n]]
        Fails(msg) == [rc |-> -2, said |-> a, out |-> gengo_wire_null,
                       eng |-> [e EXCEPT !.err = msg]]
    IN  CASE a = "true"    -> Returns(BoolValue(TRUE), << >>)
          [] a = "false"   -> Returns(BoolValue(FALSE), Note(q))
          [] a = "other"   -> Returns(IntValue(1), << >>)
          [] a = "line"    -> Returns(StringValue(Note(q)), e.note)
          [] a = "note"    -> Returns(StringValue(e.note), e.note)
          [] a = "null"    -> Returns(NullValue, e.note)
          [] a = "panic"   -> Fails(RuntimeError(Text(q)))
          [] a = "oom"     -> Fails(OutOfMemory)
          [] a = "args"    -> Fails(<<Args, Colon, Heap>>)
          [] a = "missing" -> Fails(RuntimeError(<< >>))

\* engine_call: what it can come to for the answers a function may give.
engine_call(e, q, answers) ==
    IF ~e.live
    THEN {[rc |-> -1, said |-> "missing", out |-> gengo_wire_null, eng |-> e]}
    ELSE {CallResult(e, q, a) : a \in IF e.prog = NoProgram THEN {"missing"} ELSE answers}

AtMost(n, m) == IF n < m THEN n ELSE m

\* engine_last_error: the length it returns and the bytes it writes.
engine_last_error(e, size) ==
    LET msg == IF e.live THEN e.err ELSE << >>
    IN  [len |-> Len(msg), buf |-> SubSeq(msg, 1, AtMost(Len(msg), size))]
=============================================================================
