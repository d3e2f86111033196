----------------------------- MODULE HostsProofs -----------------------------
(***************************************************************************)
(* The example hosts, for any scripts, any number of cases and any sizes   *)
(* of the error buffers.  HInv relates the engine, the plugin's variables  *)
(* and those of the policy hosts; FailsClosed is a part of it, inductive   *)
(* only with OneHost (a policy host would otherwise find the plugin in     *)
(* service) and with rows behind index (a case not yet asked is not yet    *)
(* stored).  LogStaysInBuffer needs ReportsFit besides, for bundle-c alone *)
(* does not cut the length it is told.                                     *)
(***************************************************************************)
EXTENDS Hosts, SequenceTheorems, FiniteSetTheorems, TLAPS

Engines == [live : BOOLEAN, prog : ProgramStates, err : Seq(Nat), note : Seq(Nat)]

Answers == Decisions \cup Explanations \cup Evaluations

----------------------------------------------------------------------------
(* Texts.                                                                  *)

\* The messages of the model are texts.
LEMMA TextsAreSequences ==
  /\ << >> \in Seq(Nat)
  /\ \A q \in Nat : Text(q) \in Seq(Nat) /\ Note(q) \in Seq(Nat)
  /\ <<Panic, Kind, Colon>> \in Seq(Nat) /\ <<Compile, Kind, Colon>> \in Seq(Nat)
  /\ <<Panic, Heap>> \in Seq(Nat) /\ <<Args, Colon, Heap>> \in Seq(Nat)
  /\ EngineErrorText \in Seq(Nat) /\ NullText \in Seq(Nat) /\ FailedText \in Seq(Nat)
  /\ SqliteText \in Seq(Nat) /\ NoReasonText \in Seq(Nat)
  /\ <<7>> \in Seq(Nat) /\ <<8>> \in Seq(Nat)
  BY DEF Text, Note, Panic, Kind, Colon, Compile, Heap, Args, EngineErrorText, NullText,
     FailedText, SqliteText, NoReasonText

\* bufPrint gives a text, and one that fits.
LEMMA BufPrintFits ==
  ASSUME NEW m \in Seq(Nat)
  PROVE  BufPrint(m) \in Seq(Nat) /\ Len(BufPrint(m)) <= MaxErrorLen
  BY EmptySeq, LenProperties, HostEngineAssumption DEF BufPrint

\* So do setCompileError and setRuntimeError.
LEMMA ErrorTexts ==
  /\ \A m \in Seq(Nat) :
        /\ CompileError(m) \in Seq(Nat) /\ Len(CompileError(m)) <= MaxErrorLen
        /\ RuntimeError(m) \in Seq(Nat) /\ Len(RuntimeError(m)) <= MaxErrorLen
  /\ OutOfMemory \in Seq(Nat) /\ Len(OutOfMemory) <= MaxErrorLen
<1>1. ASSUME NEW m \in Seq(Nat)
      PROVE  /\ <<Compile, Kind, Colon>> \o m \in Seq(Nat)
             /\ <<Panic, Kind, Colon>> \o m \in Seq(Nat)
  BY TextsAreSequences, ConcatProperties
<1> QED
  BY <1>1, TextsAreSequences, BufPrintFits DEF CompileError, RuntimeError, OutOfMemory

\* engine_last_error writes what it reports, cut to the buffer.
LEMMA LastErrorFacts ==
  ASSUME NEW e \in Engines, NEW size \in Nat
  PROVE  /\ engine_last_error(e, size).len \in Nat
         /\ engine_last_error(e, size).buf \in Seq(Nat)
         /\ Len(engine_last_error(e, size).buf) = AtMost(engine_last_error(e, size).len, size)
         /\ engine_last_error(e, size).len <= Len(e.err) \/ ~e.live
         /\ ~e.live => engine_last_error(e, size).len = 0
<1> DEFINE msg == IF e.live THEN e.err ELSE << >>
           n == AtMost(Len(msg), size)
<1>1. msg \in Seq(Nat) /\ Len(msg) \in Nat
  BY EmptySeq, LenProperties DEF Engines
<1>2. n \in Nat /\ n <= Len(msg)
  BY <1>1 DEF AtMost
<1>3. \A i \in 1 .. n : msg[i] \in Nat
  BY <1>1, <1>2, ElementOfSeq
<1>4. ~e.live => Len(msg) = 0
  BY EmptySeq
<1>5. Len(msg) <= Len(e.err) \/ ~e.live
  BY <1>1
<1>6. engine_last_error(e, size) = [len |-> Len(msg), buf |-> SubSeq(msg, 1, n)]
  BY DEF engine_last_error
<1> HIDE DEF msg, n
<1>7. SubSeq(msg, 1, n) \in Seq(Nat) /\ Len(SubSeq(msg, 1, n)) = n
  BY <1>2, <1>3, SubSeqProperties
<1>8. /\ engine_last_error(e, size).len = Len(msg)
      /\ engine_last_error(e, size).buf = SubSeq(msg, 1, n)
  BY DEF engine_last_error, msg, n
<1>9. n = AtMost(Len(msg), size)
  BY DEF n
<1> QED
  BY <1>1, <1>4, <1>5, <1>7, <1>8, <1>9
----------------------------------------------------------------------------
(* Values on the wire.                                                     *)

\* The wires of the values that answers are made of.
LEMMA WireOfValue ==
  ASSUME NEW d
  PROVE  /\ Handed(Value("boolean", d)).tag = TagBoolean
         /\ Handed(Value("boolean", d)).data = d
         /\ Handed(Value("string", d)) = MakeWire(TagString, TRUE, d, Len(d))
         /\ Handed(Value("string", d)).tag = TagString
         /\ Handed(Value("null", d)) = gengo_wire_null
         /\ Handed(Value("int", d)).tag = TagNumber
<1>1. /\ Value("boolean", d).kind = "boolean" /\ Value("string", d).kind = "string"
      /\ Value("null", d).kind = "null" /\ Value("int", d).kind = "int"
      /\ Value("boolean", d).data = d /\ Value("string", d).data = d
  BY DEF Value
<1>2. Handed(Value("boolean", d)) = MakeWire(TagBoolean, d = <<1>>, d, 0)
  BY <1>1 DEF Handed, valueToWire
<1>3. Handed(Value("string", d)) = MakeWire(TagString, TRUE, d, Len(d))
  BY <1>1 DEF Handed
<1>4. Handed(Value("null", d)) = gengo_wire_null
  BY <1>1 DEF Handed, valueToWire
<1>5. Handed(Value("int", d)) =
        [gengo_wire_int(Value("int", d).data[1]) EXCEPT !.flags = FlagInteger]
  BY <1>1 DEF Handed, valueToWire
<1>6. Handed(Value("int", d)).tag = TagNumber
  BY <1>5 DEF gengo_wire_int, gengo_wire_null
<1>7. MakeWire(TagBoolean, d = <<1>>, d, 0).tag = TagBoolean
  BY DEF MakeWire, gengo_wire_null
<1>8. MakeWire(TagBoolean, d = <<1>>, d, 0).data = d
  BY DEF MakeWire, gengo_wire_null
<1>9. MakeWire(TagString, TRUE, d, Len(d)).tag = TagString
  BY DEF MakeWire, gengo_wire_null
<1> QED
  BY <1>2, <1>3, <1>4, <1>6, <1>7, <1>8, <1>9

\* Of the answers that cross the boundary only the boolean true reads as
\* true.
LEMMA OnlyTrueIsTrue ==
  /\ gengo_wire_as_bool(Handed(BoolValue(TRUE)))
  /\ ~gengo_wire_as_bool(Handed(BoolValue(FALSE)))
  /\ ~gengo_wire_as_bool(Handed(IntValue(1)))
  /\ ~gengo_wire_as_bool(Handed(NullValue))
  /\ \A s : ~gengo_wire_as_bool(Handed(StringValue(s)))
<1>1. /\ BoolValue(TRUE) = Value("boolean", <<1>>) /\ BoolValue(FALSE) = Value("boolean", <<0>>)
      /\ IntValue(1) = Value("int", <<1>>) /\ NullValue = Value("null", << >>)
      /\ \A s : StringValue(s) = Value("string", s)
  BY DEF BoolValue, IntValue, NullValue, StringValue
<1>2. gengo_wire_null.tag = TagNull
  BY DEF gengo_wire_null
<1>3. /\ TagNull # TagBoolean /\ TagNumber # TagBoolean /\ TagString # TagBoolean
      /\ <<0>> # <<1>>
  BY DEF TagNull, TagBoolean, TagNumber, TagString
<1>4. /\ Handed(BoolValue(TRUE)).tag = TagBoolean
      /\ Handed(BoolValue(TRUE)).data = <<1>>
  BY <1>1, WireOfValue
<1>5. Handed(BoolValue(FALSE)).data = <<0>>
  BY <1>1, WireOfValue
<1>6. Handed(IntValue(1)).tag = TagNumber
  BY <1>1, WireOfValue
<1>7. Handed(NullValue).tag = TagNull
  BY <1>1, <1>2, WireOfValue
<1>8. \A s : Handed(StringValue(s)).tag = TagString
  BY <1>1, WireOfValue
<1>9. gengo_wire_as_bool(Handed(BoolValue(TRUE)))
  BY <1>4 DEF gengo_wire_as_bool
<1>10. ~gengo_wire_as_bool(Handed(BoolValue(FALSE)))
  BY <1>3, <1>5 DEF gengo_wire_as_bool
<1>11. \A s : ~gengo_wire_as_bool(Handed(StringValue(s)))
  BY <1>3, <1>8 DEF gengo_wire_as_bool
<1>12. ~gengo_wire_as_bool(Handed(IntValue(1)))
  BY <1>3, <1>6 DEF gengo_wire_as_bool
<1>13. ~gengo_wire_as_bool(Handed(NullValue))
  BY <1>3, <1>7 DEF gengo_wire_as_bool
<1> QED
  BY <1>9, <1>10, <1>11, <1>12, <1>13

\* A string arrives as far as the reader's buffer goes.
LEMMA ReadString ==
  ASSUME NEW s, NEW size
  PROVE  gengo_wire_read_str(Handed(StringValue(s)), size) =
            IF Len(s) = 0 THEN << >>
            ELSE SubSeq(s, 1, IF Len(s) < size THEN Len(s) ELSE size - 1)
<1>1. Handed(StringValue(s)) = MakeWire(TagString, TRUE, s, Len(s))
  BY WireOfValue DEF StringValue
<1> DEFINE w == MakeWire(TagString, TRUE, s, Len(s))
<1>2. w.tag = TagString /\ w.ptr = TRUE /\ w.data = s /\ w.len = Len(s)
  BY DEF MakeWire, gengo_wire_null
<1> HIDE DEF w
<1>3. (w.tag # TagString \/ ~w.ptr \/ w.len = 0) <=> Len(s) = 0
  BY <1>2
<1>4. gengo_wire_read_str(w, size) =
        IF w.tag # TagString \/ ~w.ptr \/ w.len = 0 THEN << >>
        ELSE SubSeq(w.data, 1, IF w.len < size THEN w.len ELSE size - 1)
  BY DEF gengo_wire_read_str
<1> QED
  BY <1>1, <1>2, <1>3, <1>4 DEF w

\* Null reads as no text.
LEMMA ReadNull ==
  \A size : gengo_wire_read_str(Handed(NullValue), size) = << >>
<1>1. Handed(NullValue) = gengo_wire_null
  BY WireOfValue DEF NullValue
<1>2. gengo_wire_null.tag # TagString
  BY DEF gengo_wire_null, TagNull, TagString
<1> QED
  BY <1>1, <1>2 DEF gengo_wire_read_str
----------------------------------------------------------------------------
(* Calls of the engine.                                                    *)

Returned(e, a, w, n) ==
    [rc |-> 0, said |-> a, out |-> w, eng |-> [e EXCEPT !.err = << >>, !.note = n]]

FailedWith(e, a, m) ==
    [rc |-> -2, said |-> a, out |-> gengo_wire_null, eng |-> [e EXCEPT !.err = m]]

\* What every answer of a script comes to.
LEMMA CallResults ==
  ASSUME NEW e, NEW q
  PROVE  /\ CallResult(e, q, "true") =
              Returned(e, "true", Handed(BoolValue(TRUE)), << >>)
         /\ CallResult(e, q, "false") =
              Returned(e, "false", Handed(BoolValue(FALSE)), Note(q))
         /\ CallResult(e, q, "other") =
              Returned(e, "other", Handed(IntValue(1)), << >>)
         /\ CallResult(e, q, "line") =
              Returned(e, "line", Handed(StringValue(Note(q))), e.note)
         /\ CallResult(e, q, "note") =
              Returned(e, "note", Handed(StringValue(e.note)), e.note)
         /\ CallResult(e, q, "null") = Returned(e, "null", Handed(NullValue), e.note)
         /\ CallResult(e, q, "panic") = FailedWith(e, "panic", RuntimeError(Text(q)))
         /\ CallResult(e, q, "oom") = FailedWith(e, "oom", OutOfMemory)
         /\ CallResult(e, q, "args") = FailedWith(e, "args", <<Args, Colon, Heap>>)
         /\ CallResult(e, q, "missing") = FailedWith(e, "missing", RuntimeError(<< >>))
  BY DEF CallResult, Returned, FailedWith

\* The outcomes of a call: the engine stays the same but for its error and
\* its note, and reads as true only when a program was asked and said so.
CallOutcome(e, q, r) ==
    /\ r.eng \in Engines
    /\ r.eng.live = e.live /\ r.eng.prog = e.prog
    /\ ~e.live => r.eng = e
    /\ r.rc \in {0, -1, -2}
    /\ r.said \in Answers
    /\ r.rc = 0 /\ gengo_wire_as_bool(r.out) <=> r.said = "true"
    /\ r.said = "true" => e.live /\ e.prog # NoProgram
    /\ r.rc = -2 /\ r.said # "args" => Len(r.eng.err) <= MaxErrorLen
    /\ r.rc = 0 => r.eng.err = << >>
    /\ r.rc = -1 => r.eng = e /\ r.said = "missing"
    /\ r.rc = -2 => e.live
    /\ r.said = "false" => r.eng.note = Note(q)
    /\ r.said = "other" => r.eng.note = << >>
    /\ r.said = "panic" => r.rc = -1 \/ r.eng.err = RuntimeError(Text(q))
    /\ r.said = "oom" => r.rc = -1 \/ r.eng.err = OutOfMemory
    /\ r.said = "args" => r.rc = -1 \/ r.eng.err = <<Args, Colon, Heap>>
    /\ r.said = "missing" => r.rc = -1 \/ r.eng.err = RuntimeError(<< >>)
    /\ r.rc = -2 <=> (r.rc # -1 /\ r.said \in {"panic", "oom", "args", "missing"})

\* A call that returns a value.
LEMMA Returning ==
  ASSUME NEW e \in Engines, NEW q, NEW a \in Answers, NEW w, NEW n \in Seq(Nat),
         gengo_wire_as_bool(w) <=> a = "true", e.live, e.prog # NoProgram,
         a \notin {"panic", "oom", "args", "missing"},
         a = "false" => n = Note(q), a = "other" => n = << >>
  PROVE  CallOutcome(e, q, Returned(e, a, w, n))
<1> DEFINE r == Returned(e, a, w, n)
           f == [e EXCEPT !.err = << >>, !.note = n]
<1>1. f \in Engines /\ f.live = e.live /\ f.prog = e.prog /\ f.err = << >> /\ f.note = n
  BY EmptySeq DEF Engines
<1>2. r.rc = 0 /\ r.said = a /\ r.out = w /\ r.eng = f
  BY DEF Returned
<1> HIDE DEF f, r
<1>3. r.eng \in Engines /\ r.eng.live = e.live /\ r.eng.prog = e.prog
  BY <1>1, <1>2
<1>4. ~e.live => r.eng = e
  BY <1>1, <1>2
<1>5. r.rc \in {0, -1, -2}
  BY <1>1, <1>2
<1>6. r.said \in Answers
  BY <1>1, <1>2
<1>7. (r.rc = 0 /\ gengo_wire_as_bool(r.out)) <=> r.said = "true"
  BY <1>1, <1>2
<1>8. r.said = "true" => e.live /\ e.prog # NoProgram
  BY <1>1, <1>2
<1>9. r.rc = -2 /\ r.said # "args" => Len(r.eng.err) <= MaxErrorLen
  BY <1>1, <1>2
<1>10. (r.rc = 0 => r.eng.err = << >>) /\ (r.rc = -1 => r.eng = e /\ r.said = "missing")
  BY <1>1, <1>2
<1>11. r.rc = -2 => e.live
  BY <1>1, <1>2
<1>12. /\ r.said = "false" => r.eng.note = Note(q)
       /\ r.said = "other" => r.eng.note = << >>
  BY <1>1, <1>2
<1>13. /\ r.said = "panic" => r.rc = -1 \/ r.eng.err = RuntimeError(Text(q))
       /\ r.said = "oom" => r.rc = -1 \/ r.eng.err = OutOfMemory
       /\ r.said = "args" => r.rc = -1 \/ r.eng.err = <<Args, Colon, Heap>>
       /\ r.said = "missing" => r.rc = -1 \/ r.eng.err = RuntimeError(<< >>)
  BY <1>1, <1>2
<1>14. r.rc = -2 <=> (r.rc # -1 /\ r.said \in {"panic", "oom", "args", "missing"})
  BY <1>1, <1>2
<1> QED
  BY <1>2, <1>3, <1>4, <1>5, <1>6, <1>7, <1>8, <1>9, <1>10, <1>11, <1>12, <1>13, <1>14
     DEF CallOutcome, r

\* A call that fails.
LEMMA Failing ==
  ASSUME NEW e \in Engines, NEW q, NEW a \in Answers, NEW m \in Seq(Nat),
         a \in {"panic", "oom", "args", "missing"}, e.live,
         a # "args" => Len(m) <= MaxErrorLen,
         a = "panic" => m = RuntimeError(Text(q)), a = "oom" => m = OutOfMemory,
         a = "args" => m = <<Args, Colon, Heap>>, a = "missing" => m = RuntimeError(<< >>)
  PROVE  CallOutcome(e, q, FailedWith(e, a, m))
<1> DEFINE r == FailedWith(e, a, m)
           f == [e EXCEPT !.err = m]
<1>1. f \in Engines /\ f.live = e.live /\ f.prog = e.prog /\ f.err = m
  BY DEF Engines
<1>2. r.rc = -2 /\ r.said = a /\ r.eng = f
  BY DEF FailedWith
<1> HIDE DEF f, r
<1>3. r.eng \in Engines /\ r.eng.live = e.live /\ r.eng.prog = e.prog
  BY <1>1, <1>2
<1>4. ~e.live => r.eng = e
  BY <1>1, <1>2
<1>5. r.rc \in {0, -1, -2}
  BY <1>1, <1>2
<1>6. r.said \in Answers
  BY <1>1, <1>2
<1>7. (r.rc = 0 /\ gengo_wire_as_bool(r.out)) <=> r.said = "true"
  BY <1>1, <1>2
<1>8. r.said = "true" => e.live /\ e.prog # NoProgram
  BY <1>1, <1>2
<1>9. r.rc = -2 /\ r.said # "args" => Len(r.eng.err) <= MaxErrorLen
  BY <1>1, <1>2
<1>10. (r.rc = 0 => r.eng.err = << >>) /\ (r.rc = -1 => r.eng = e /\ r.said = "missing")
  BY <1>1, <1>2
<1>11. r.rc = -2 => e.live
  BY <1>1, <1>2
<1>12. /\ r.said = "false" => r.eng.note = Note(q)
       /\ r.said = "other" => r.eng.note = << >>
  BY <1>1, <1>2
<1>13. /\ r.said = "panic" => r.rc = -1 \/ r.eng.err = RuntimeError(Text(q))
       /\ r.said = "oom" => r.rc = -1 \/ r.eng.err = OutOfMemory
       /\ r.said = "args" => r.rc = -1 \/ r.eng.err = <<Args, Colon, Heap>>
       /\ r.said = "missing" => r.rc = -1 \/ r.eng.err = RuntimeError(<< >>)
  BY <1>1, <1>2
<1>14. r.rc = -2 <=> (r.rc # -1 /\ r.said \in {"panic", "oom", "args", "missing"})
  BY <1>1, <1>2
<1> QED
  BY <1>2, <1>3, <1>4, <1>5, <1>6, <1>7, <1>8, <1>9, <1>10, <1>11, <1>12, <1>13, <1>14
     DEF CallOutcome, r

\* Every call the hosts make has one of those outcomes.
LEMMA CallOutcomes ==
  ASSUME NEW e \in Engines, NEW q \in Nat, NEW answers \in SUBSET Answers,
         NEW r \in engine_call(e, q, answers)
  PROVE  CallOutcome(e, q, r)
<1>1. CASE ~e.live
  <2>1. r = [rc |-> -1, said |-> "missing", out |-> gengo_wire_null, eng |-> e]
    BY <1>1 DEF engine_call
  <2> QED
    BY <1>1, <2>1 DEF CallOutcome, Answers, Decisions
<1>2. CASE e.live
  <2>1. PICK a \in IF e.prog = NoProgram THEN {"missing"} ELSE answers : r = CallResult(e, q, a)
    BY <1>2 DEF engine_call
  <2>2. a \in answers \cup {"missing"} /\ (a # "missing" => e.prog # NoProgram)
    BY <2>1
  <2>3. a \in Answers
    BY <2>2 DEF Answers, Decisions
  <2>4. /\ e.note \in Seq(Nat) /\ Note(q) \in Seq(Nat) /\ << >> \in Seq(Nat)
        /\ RuntimeError(Text(q)) \in Seq(Nat) /\ OutOfMemory \in Seq(Nat)
        /\ RuntimeError(<< >>) \in Seq(Nat) /\ <<Args, Colon, Heap>> \in Seq(Nat)
        /\ Len(RuntimeError(Text(q))) <= MaxErrorLen /\ Len(OutOfMemory) <= MaxErrorLen
        /\ Len(RuntimeError(<< >>)) <= MaxErrorLen
    BY TextsAreSequences, ErrorTexts DEF Engines
  <2>5. a \in {"true", "false", "other", "line", "note", "null", "panic", "oom", "args", "missing"}
    BY <2>3 DEF Answers, Decisions, Explanations, Evaluations
  <2>6. CASE a = "true"
    <3>1. r = Returned(e, a, Handed(BoolValue(TRUE)), << >>)
      BY <2>1, <2>6, CallResults
    <3> QED
      BY <1>2, <2>2, <2>3, <2>4, <2>6, <3>1, Returning, OnlyTrueIsTrue
  <2>7. CASE a = "false"
    <3>1. r = Returned(e, a, Handed(BoolValue(FALSE)), Note(q))
      BY <2>1, <2>7, CallResults
    <3> QED
      BY <1>2, <2>2, <2>3, <2>4, <2>7, <3>1, Returning, OnlyTrueIsTrue
  <2>8. CASE a = "other"
    <3>1. r = Returned(e, a, Handed(IntValue(1)), << >>)
      BY <2>1, <2>8, CallResults
    <3> QED
      BY <1>2, <2>2, <2>3, <2>4, <2>8, <3>1, Returning, OnlyTrueIsTrue
  <2>9. CASE a = "line"
    <3>1. r = Returned(e, a, Handed(StringValue(Note(q))), e.note)
      BY <2>1, <2>9, CallResults
    <3> QED
      BY <1>2, <2>2, <2>3, <2>4, <2>9, <3>1, Returning, OnlyTrueIsTrue
  <2>10. CASE a = "note"
    <3>1. r = Returned(e, a, Handed(StringValue(e.note)), e.note)
      BY <2>1, <2>10, CallResults
    <3> QED
      BY <1>2, <2>2, <2>3, <2>4, <2>10, <3>1, Returning, OnlyTrueIsTrue
  <2>11. CASE a = "null"
    <3>1. r = Returned(e, a, Handed(NullValue), e.note)
      BY <2>1, <2>11, CallResults
    <3> QED
      BY <1>2, <2>2, <2>3, <2>4, <2>11, <3>1, Returning, OnlyTrueIsTrue
  <2>12. CASE a = "panic"
    <3>1. r = FailedWith(e, a, RuntimeError(Text(q)))
      BY <2>1, <2>12, CallResults
    <3> QED
      BY <1>2, <2>2, <2>3, <2>4, <2>12, <3>1, Failing
  <2>13. CASE a = "oom"
    <3>1. r = FailedWith(e, a, OutOfMemory)
      BY <2>1, <2>13, CallResults
    <3> QED
      BY <1>2, <2>2, <2>3, <2>4, <2>13, <3>1, Failing
  <2>14. CASE a = "args"
    <3>1. r = FailedWith(e, a, <<Args, Colon, Heap>>)
      BY <2>1, <2>14, CallResults
    <3> QED
      BY <1>2, <2>2, <2>3, <2>4, <2>14, <3>1, Failing
  <2>15. CASE a = "missing"
    <3>1. r = FailedWith(e, a, RuntimeError(<< >>))
      BY <2>1, <2>15, CallResults
    <3> QED
      BY <1>2, <2>2, <2>3, <2>4, <2>15, <3>1, Failing
  <2> QED
    BY <2>5, <2>6, <2>7, <2>8, <2>9, <2>10, <2>11, <2>12, <2>13, <2>14, <2>15
<1> QED
  BY <1>1, <1>2 DEF Engines

\* The answer is one that was possible, and what a text function returns.
LEMMA CallAnswers ==
  ASSUME NEW e \in Engines, NEW q \in Nat, NEW answers \in SUBSET Answers,
         NEW r \in engine_call(e, q, answers)
  PROVE  /\ r.said \in answers \cup {"missing"}
         /\ r.said = "note" => r.out = Handed(StringValue(e.note))
         /\ r.said = "line" => r.out = Handed(StringValue(Note(q)))
         /\ r.said = "null" => r.out = Handed(NullValue)
<1>1. CASE ~e.live
  <2>1. r = [rc |-> -1, said |-> "missing", out |-> gengo_wire_null, eng |-> e]
    BY <1>1 DEF engine_call
  <2>2. r.said = "missing"
    BY <2>1
  <2> QED
    BY <2>2
<1>2. CASE e.live
  <2>1. PICK a \in IF e.prog = NoProgram THEN {"missing"} ELSE answers : r = CallResult(e, q, a)
    BY <1>2 DEF engine_call
  <2>2. a \in answers \cup {"missing"}
    BY <2>1
  <2>3. a \in {"true", "false", "other", "line", "note", "null", "panic", "oom", "args", "missing"}
    BY <2>2 DEF Answers, Decisions, Explanations, Evaluations
  <2>4. r.said = a
    BY <2>1, <2>3 DEF CallResult
  <2>5. a = "note" => r.out = Handed(StringValue(e.note))
    <3>1. CallResult(e, q, "note") =
            Returned(e, "note", Handed(StringValue(e.note)), e.note)
      BY CallResults
    <3> QED
      BY <2>1, <3>1 DEF Returned
  <2>6. a = "line" => r.out = Handed(StringValue(Note(q)))
    <3>1. CallResult(e, q, "line") =
            Returned(e, "line", Handed(StringValue(Note(q))), e.note)
      BY CallResults
    <3> QED
      BY <2>1, <3>1 DEF Returned
  <2>7. a = "null" => r.out = Handed(NullValue)
    <3>1. CallResult(e, q, "null") = Returned(e, "null", Handed(NullValue), e.note)
      BY CallResults
    <3> QED
      BY <2>1, <3>1 DEF Returned
  <2> QED
    BY <2>2, <2>4, <2>5, <2>6, <2>7
<1> QED
  BY <1>1, <1>2 DEF Engines

\* Loading a script.
LEMMA RunOutcomes ==
  ASSUME NEW e \in Engines, NEW s \in Scripts
  PROVE  /\ engine_run(e, s).eng \in Engines
         /\ engine_run(e, s).eng.live = e.live
         /\ ~e.live => engine_run(e, s).eng = e /\ engine_run(e, s).rc = -1
         /\ e.live => Len(engine_run(e, s).eng.err) <= MaxErrorLen
<1>1. CASE ~e.live
  <2>1. engine_run(e, s) = [rc |-> -1, eng |-> e]
    BY <1>1 DEF engine_run
  <2> QED
    BY <1>1, <2>1
<1>2. CASE e.live
  <2> DEFINE after(code, p, msg) ==
               [rc |-> code, eng |-> [e EXCEPT !.prog = p, !.err = msg, !.note = << >>]]
             many == [i \in 1..MaxErrorLen |-> 7]
  <2>1. ASSUME NEW code, NEW p \in ProgramStates, NEW m \in Seq(Nat), Len(m) <= MaxErrorLen
        PROVE  /\ after(code, p, m).eng \in Engines /\ after(code, p, m).eng.live = e.live
               /\ Len(after(code, p, m).eng.err) <= MaxErrorLen
    BY <2>1, EmptySeq DEF Engines
  <2>2. /\ [script |-> s, whole |-> TRUE] \in ProgramStates /\ NoProgram \in ProgramStates
        /\ [script |-> s, whole |-> FALSE] \in ProgramStates
    BY DEF ProgramStates
  <2>3. many \in Seq(Nat)
    BY HostEngineAssumption, IsASeq
  <2>4. /\ << >> \in Seq(Nat) /\ Len(<< >>) <= MaxErrorLen
        /\ CompileError(<<7>>) \in Seq(Nat) /\ Len(CompileError(<<7>>)) <= MaxErrorLen
        /\ CompileError(many) \in Seq(Nat) /\ Len(CompileError(many)) <= MaxErrorLen
        /\ RuntimeError(<<8>>) \in Seq(Nat) /\ Len(RuntimeError(<<8>>)) <= MaxErrorLen
    <3> HIDE DEF many
    <3>1. << >> \in Seq(Nat) /\ <<7>> \in Seq(Nat) /\ <<8>> \in Seq(Nat)
      BY TextsAreSequences
    <3>2. Len(<< >>) <= MaxErrorLen
      BY EmptySeq, HostEngineAssumption
    <3> QED
      BY <2>3, <3>1, <3>2, ErrorTexts
  <2> DEFINE r == engine_run(e, s)
  <2>5. LoadOutcome[s] \in {"ok", "compile", "verbose", "runtime", "long"}
    BY HostEngineAssumption
  <2>6. /\ LoadOutcome[s] = "ok" => r = after(0, [script |-> s, whole |-> TRUE], << >>)
        /\ LoadOutcome[s] = "compile" => r = after(-1, NoProgram, CompileError(<<7>>))
        /\ LoadOutcome[s] = "verbose" => r = after(-1, NoProgram, CompileError(many))
        /\ LoadOutcome[s] = "runtime" =>
              r = after(-2, [script |-> s, whole |-> FALSE], RuntimeError(<<8>>))
        /\ LoadOutcome[s] = "long" =>
              r = [rc |-> -2, eng |-> [e EXCEPT !.err = RuntimeError(<<8>>)]]
    BY <1>2 DEF engine_run
  <2>7. CASE LoadOutcome[s] = "long"
    <3>1. /\ [e EXCEPT !.err = RuntimeError(<<8>>)] \in Engines
          /\ [e EXCEPT !.err = RuntimeError(<<8>>)].live = e.live
          /\ [e EXCEPT !.err = RuntimeError(<<8>>)].err = RuntimeError(<<8>>)
      BY <2>4 DEF Engines
    <3>2. r.eng = [e EXCEPT !.err = RuntimeError(<<8>>)]
      BY <2>6, <2>7
    <3> HIDE DEF r
    <3> QED
      BY <1>2, <2>4, <3>1, <3>2 DEF r
  <2>8. CASE LoadOutcome[s] # "long"
    <3>1. \E code : \E p \in ProgramStates, m \in Seq(Nat) :
             Len(m) <= MaxErrorLen /\ r = after(code, p, m)
      <4> HIDE DEF after, r, many
      <4> QED
        BY <2>2, <2>4, <2>5, <2>6, <2>8
    <3> HIDE DEF after, r
    <3> QED
      BY <1>2, <2>1, <3>1 DEF r
  <2> QED
    BY <2>7, <2>8
<1> QED
  BY <1>1, <1>2 DEF Engines
----------------------------------------------------------------------------
(* What hosts print.                                                       *)

\* The hosts that cut the length print what was written.
LEMMA ClampedLog ==
  ASSUME NEW e \in Engines
  PROVE  LogClamped(e).n <= LogClamped(e).filled
<1> DEFINE m == engine_last_error(e, HostBuf)
<1>1. HostBuf \in Nat
  BY HostEngineAssumption
<1>2. m.len \in Nat /\ Len(m.buf) = AtMost(m.len, HostBuf)
  BY <1>1, LastErrorFacts
<1>3. LogClamped(e).n = AtMost(m.len, HostBuf) /\ LogClamped(e).filled = Len(m.buf)
  BY DEF LogClamped
<1> HIDE DEF m
<1> QED
  BY <1>1, <1>2, <1>3 DEF AtMost

\* bundle-c does too, as long as the error fits its buffer.
LEMMA LogFits ==
  ASSUME NEW e \in Engines, program = "bundle" /\ e.live => Len(e.err) <= HostBuf
  PROVE  LogError(e).n <= LogError(e).filled
<1> DEFINE m == engine_last_error(e, HostBuf)
<1>1. HostBuf \in Nat
  BY HostEngineAssumption
<1>2. /\ m.len \in Nat /\ Len(m.buf) = AtMost(m.len, HostBuf)
      /\ m.len <= Len(e.err) \/ ~e.live
      /\ ~e.live => m.len = 0
  BY <1>1, LastErrorFacts
<1>3. /\ LogError(e).n = IF program = "bundle" THEN m.len ELSE AtMost(m.len, HostBuf)
      /\ LogError(e).filled = Len(m.buf)
  BY DEF LogError
<1>4. Len(e.err) \in Nat
  BY LenProperties DEF Engines
<1> HIDE DEF m
<1>5. program = "bundle" => m.len <= HostBuf
  BY <1>1, <1>2, <1>4
<1> QED
  BY <1>1, <1>2, <1>3, <1>5 DEF AtMost

\* Cutting a text gives a text.
LEMMA CutIsText ==
  ASSUME NEW s \in Seq(Nat), NEW m \in Nat \ {0}, NEW n \in Nat, n <= Len(s)
  PROVE  /\ SubSeq(s, m, n) \in Seq(Nat)
         /\ Len(SubSeq(s, m, n)) = IF m <= n THEN n - m + 1 ELSE 0
         /\ \A i \in 1 .. n - m + 1 : SubSeq(s, m, n)[i] = s[m + i - 1]
<1>1. \A i \in m .. n : s[i] \in Nat
  <2>1. Len(s) \in Nat /\ \A i \in 1 .. Len(s) : s[i] \in Nat
    BY LenProperties, ElementOfSeq
  <2> QED
    BY <2>1
<1> QED
  BY <1>1, SubSeqProperties

\* Not cutting it gives the text itself.
LEMMA UncutIsItself ==
  ASSUME NEW s \in Seq(Nat)
  PROVE  SubSeq(s, 1, Len(s)) = s
<1> DEFINE n == Len(s)
           t == SubSeq(s, 1, n)
<1>1. n \in Nat
  BY LenProperties
<1>2. t \in Seq(Nat) /\ Len(t) = IF 1 <= n THEN n - 1 + 1 ELSE 0
  BY <1>1, CutIsText
<1>3. \A i \in 1 .. n - 1 + 1 : t[i] = s[1 + i - 1]
  BY <1>1, CutIsText
<1> HIDE DEF t
<1>4. Len(t) = Len(s) /\ \A i \in 1 .. Len(t) : t[i] = s[i]
  <2> HIDE DEF n
  <2>1. Len(t) = n /\ \A i \in 1 .. n : t[i] = s[i]
    BY <1>1, <1>2, <1>3
  <2> QED
    BY <2>1 DEF n
<1>5. t = s
  BY <1>2, <1>4, SeqEqual
<1> QED
  BY <1>5 DEF t, n

\* A text read by a host is a text; a noted reason and no text are read
\* whole.
LEMMA TextRead ==
  ASSUME NEW s \in Seq(Nat)
  PROVE  LET got == gengo_wire_read_str(Handed(StringValue(s)), HostBuf)
         IN  got \in Seq(Nat) /\ (Len(s) < HostBuf => got = s)
<1> DEFINE n == IF Len(s) < HostBuf THEN Len(s) ELSE HostBuf - 1
<1>1. Len(s) \in Nat /\ HostBuf \in Nat \ {0, 1} /\ n \in Nat /\ n <= Len(s)
  BY LenProperties, HostEngineAssumption
<1>2. gengo_wire_read_str(Handed(StringValue(s)), HostBuf) =
        IF Len(s) = 0 THEN << >> ELSE SubSeq(s, 1, n)
  BY ReadString
<1>3. Len(s) = 0 => s = << >>
  BY EmptySeq
<1>4. << >> \in Seq(Nat) /\ SubSeq(s, 1, n) \in Seq(Nat)
  <2> HIDE DEF n
  <2> QED
    BY <1>1, CutIsText, EmptySeq
<1>5. Len(s) < HostBuf => SubSeq(s, 1, n) = s
  BY UncutIsItself
<1> HIDE DEF n
<1> QED
  BY <1>2, <1>3, <1>4, <1>5

\* A nonempty set of naturals has a least element: the well-foundedness of
\* strict inclusion among finite sets, applied to the intervals 0 .. x.
LEMMA Smallest ==
  ASSUME NEW T \in SUBSET Nat, T # {}
  PROVE  \E x \in T : \A y \in T : x <= y
<1> DEFINE F == {0 .. x : x \in T}
           R == StrictSubsetOrdering(Nat)
           B == FiniteSubsetsOf(Nat)
<1>1. \A x \in T : 0 .. x \in B
  <2> SUFFICES ASSUME NEW x \in T PROVE 0 .. x \in B
    OBVIOUS
  <2>1. x \in Int /\ 0 \in Int
    OBVIOUS
  <2>2. IsFiniteSet(0 .. x)
    BY <2>1, FS_Interval
  <2> QED BY <2>2 DEF FiniteSubsetsOf
<1>2. F \subseteq B /\ F # {}
  BY <1>1
<1>3. IsWellFoundedOn(R, B)
  BY FS_StrictSubsetOrderingWellFounded
<1>4. \E s \in F : \A r \in F : ~(<<r, s>> \in R)
  <2> HIDE DEF F, R, B
  <2> QED BY <1>2, <1>3, WFMin
<1>5. PICK x \in T : \A y \in T : ~(<<0 .. y, 0 .. x>> \in R)
  BY <1>4
<1>6. ASSUME NEW y \in T, ~(x <= y) PROVE FALSE
  <2>1. 0 .. y \subseteq 0 .. x /\ 0 .. y # 0 .. x
    <3>1. x \in 0 .. x /\ x \notin 0 .. y
      BY <1>6
    <3> QED BY <3>1, <1>6
  <2>2. <<0 .. y, 0 .. x>> \in R
    BY <2>1, <1>1 DEF StrictSubsetOrdering
  <2> QED BY <1>5, <2>2
<1> QED BY <1>5, <1>6

\* The place of the first colon.
LEMMA FirstColonFacts ==
  ASSUME NEW m \in Seq(Nat)
  PROVE  /\ FirstColon(m) \in 0 .. Len(m)
         /\ FirstColon(m) = 0 => \A i \in 1 .. Len(m) : m[i] # Colon
         /\ FirstColon(m) # 0 => /\ m[FirstColon(m)] = Colon
                                  /\ \A i \in 1 .. Len(m) : m[i] = Colon => FirstColon(m) <= i
<1> DEFINE I == {i \in 1 .. Len(m) : m[i] = Colon}
<1>1. FirstColon(m) = IF I # {} THEN Min(I) ELSE 0
  BY DEF FirstColon, SelectInSeq
<1>2. Len(m) \in Nat /\ I \subseteq Nat /\ I \subseteq 1 .. Len(m)
  BY LenProperties
<1>3. I # {} => Min(I) \in I /\ \A y \in I : Min(I) <= y
  <2> HIDE DEF I
  <2> SUFFICES ASSUME I # {} PROVE Min(I) \in I /\ \A y \in I : Min(I) <= y
    OBVIOUS
  <2>1. \E x \in I : \A y \in I : x <= y
    BY <1>2, Smallest
  <2> QED
    BY <2>1 DEF Min
<1> QED
  BY <1>1, <1>2, <1>3

\* The reason sqlite-policy stores is a text.
LEMMA StoredIsText ==
  ASSUME NEW e \in Engines
  PROVE  store_engine_error(e) \in Seq(Nat)
<1> DEFINE size == HostBuf - 1
           m == engine_last_error(e, size)
           raw == SubSeq(m.buf, 1, AtMost(m.len, size))
           msg == IF raw[1] = Panic THEN Tail(raw) ELSE raw
<1>1. size \in Nat \ {0}
  BY HostEngineAssumption
<1>2. m.len \in Nat /\ Len(m.buf) = AtMost(m.len, size) /\ m.buf \in Seq(Nat)
  BY <1>1, LastErrorFacts
<1>3. raw = m.buf
  BY <1>2, UncutIsItself
<1> HIDE DEF size, m, raw
<1>4. m.len > 0 => msg \in Seq(Nat)
  <2> SUFFICES ASSUME m.len > 0 PROVE msg \in Seq(Nat)
    OBVIOUS
  <2>1. raw \in Seq(Nat) /\ Len(raw) > 0
    BY <1>1, <1>2, <1>3 DEF AtMost
  <2>2. raw # << >>
    BY <2>1, EmptySeq
  <2> QED
    BY <2>1, <2>2
<1>5. store_engine_error(e) =
        IF m.len <= 0 THEN EngineErrorText
        ELSE IF raw[1] # Panic \/ FirstColon(msg) = 0 THEN msg
        ELSE SubSeq(msg, FirstColon(msg) + 1, Len(msg))
  BY DEF store_engine_error, m, raw, size
<1> HIDE DEF msg
<1>6. m.len > 0 => SubSeq(msg, FirstColon(msg) + 1, Len(msg)) \in Seq(Nat)
  <2> SUFFICES ASSUME m.len > 0 PROVE SubSeq(msg, FirstColon(msg) + 1, Len(msg)) \in Seq(Nat)
    OBVIOUS
  <2>1. msg \in Seq(Nat) /\ Len(msg) \in Nat /\ FirstColon(msg) \in 0 .. Len(msg)
    BY <1>4, FirstColonFacts, LenProperties
  <2>2. FirstColon(msg) + 1 \in Nat \ {0}
    BY <2>1
  <2> QED
    BY <2>1, <2>2, CutIsText
<1>7. EngineErrorText \in Seq(Nat)
  BY TextsAreSequences
<1>8. CASE m.len <= 0
  BY <1>5, <1>7, <1>8
<1>9. CASE m.len > 0
  <2>1. ~(m.len <= 0)
    BY <1>2, <1>9
  <2> QED
    BY <1>4, <1>5, <1>6, <1>9, <2>1
<1> QED
  BY <1>2, <1>8, <1>9

\* Two texts that agree part by part.
LEMMA SameThree ==
  ASSUME NEW s \in Seq(Nat), NEW t \in Seq(Nat), Len(s) = 3, Len(t) = 3,
         s[1] = t[1], s[2] = t[2], s[3] = t[3]
  PROVE  s = t
<1>1. \A i \in 1 .. Len(s) : s[i] = t[i]
  OBVIOUS
<1> QED
  BY <1>1, SeqEqual

\* The same for longer ones.
LEMMA SameSix ==
  ASSUME NEW s \in Seq(Nat), NEW t \in Seq(Nat), Len(s) = 6, Len(t) = 6,
         s[1] = t[1], s[2] = t[2], s[3] = t[3], s[4] = t[4], s[5] = t[5], s[6] = t[6]
  PROVE  s = t
<1>1. \A i \in 1 .. Len(s) : s[i] = t[i]
  OBVIOUS
<1> QED
  BY <1>1, SeqEqual

\* Two short texts put together.
LEMMA Joined ==
  ASSUME NEW s \in Seq(Nat), NEW t \in Seq(Nat), Len(s) = 3, Len(t) = 3
  PROVE  /\ s \o t \in Seq(Nat) /\ Len(s \o t) = 6
         /\ (s \o t)[1] = s[1] /\ (s \o t)[2] = s[2] /\ (s \o t)[3] = s[3]
         /\ (s \o t)[4] = t[1] /\ (s \o t)[5] = t[2] /\ (s \o t)[6] = t[3]
<1> DEFINE c == s \o t
<1>1. /\ c \in Seq(Nat) /\ Len(c) = Len(s) + Len(t)
      /\ \A i \in 1 .. Len(s) + Len(t) : c[i] = IF i <= Len(s) THEN s[i] ELSE t[i - Len(s)]
  BY ConcatProperties
<1> HIDE DEF c
<1>2. /\ c \in Seq(Nat) /\ Len(c) = 6
      /\ c[1] = s[1] /\ c[2] = s[2] /\ c[3] = s[3] /\ c[4] = t[1] /\ c[5] = t[2] /\ c[6] = t[3]
  BY <1>1
<1> QED
  BY <1>2 DEF c

\* The report of a panic.
LEMMA PanicText ==
  ASSUME NEW q \in Nat
  PROVE  <<Panic, Kind, Colon>> \o Text(q) = <<Panic, Kind, Colon, 200 + q, Colon, 9>>
<1> DEFINE s == <<Panic, Kind, Colon>>
           t == Text(q)
           a == <<Panic, Kind, Colon, 200 + q, Colon, 9>>
<1>1. /\ s \in Seq(Nat) /\ Len(s) = 3 /\ t \in Seq(Nat) /\ Len(t) = 3
      /\ a \in Seq(Nat) /\ Len(a) = 6
      /\ s[1] = a[1] /\ s[2] = a[2] /\ s[3] = a[3]
      /\ t[1] = a[4] /\ t[2] = a[5] /\ t[3] = a[6]
  BY DEF Text, Panic, Kind, Colon
<1> HIDE DEF s, t, a
<1> DEFINE c == s \o t
<1>2. /\ c \in Seq(Nat) /\ Len(c) = 6
      /\ c[1] = s[1] /\ c[2] = s[2] /\ c[3] = s[3]
      /\ c[4] = t[1] /\ c[5] = t[2] /\ c[6] = t[3]
  BY <1>1, Joined
<1> HIDE DEF c
<1>3. c = a
  BY <1>1, <1>2, SameSix
<1> QED
  BY <1>3 DEF c, s, t, a

\* The message of a panic after its kind.
LEMMA MessageOfPanic ==
  ASSUME NEW q \in Nat
  PROVE  /\ FirstColon(<<Kind, Colon, 200 + q, Colon, 9>>) = 2
         /\ SubSeq(<<Kind, Colon, 200 + q, Colon, 9>>, 3, 5) = Text(q)
<1> DEFINE s == <<Kind, Colon, 200 + q, Colon, 9>>
           t == Text(q)
           c == SubSeq(s, 3, 5)
<1>1. /\ s \in Seq(Nat) /\ Len(s) = 5 /\ t \in Seq(Nat) /\ Len(t) = 3
      /\ t[1] = s[3] /\ t[2] = s[4] /\ t[3] = s[5]
      /\ s[1] # Colon /\ s[2] = Colon
  BY DEF Text, Kind, Colon
<1> HIDE DEF s, t
<1>2. FirstColon(s) = 2
  <2>1. FirstColon(s) \in 0 .. Len(s)
    BY <1>1, FirstColonFacts
  <2>2. FirstColon(s) # 0
    BY <1>1, FirstColonFacts, SMTT(30)
  <2>3. /\ s[FirstColon(s)] = Colon
        /\ \A i \in 1 .. Len(s) : s[i] = Colon => FirstColon(s) <= i
    BY <1>1, <2>2, FirstColonFacts
  <2>4. FirstColon(s) <= 2
    BY <1>1, <2>3
  <2> QED
    BY <1>1, <2>1, <2>2, <2>3, <2>4
<1>3. /\ c \in Seq(Nat) /\ Len(c) = IF 3 <= 5 THEN 5 - 3 + 1 ELSE 0
      /\ \A i \in 1 .. 5 - 3 + 1 : c[i] = s[3 + i - 1]
  <2>1. 3 \in Int /\ 5 \in Int /\ \A i \in 3 .. 5 : s[i] \in Nat
    <3>1. \A i \in 1 .. Len(s) : s[i] \in Nat
      BY <1>1, ElementOfSeq
    <3> QED
      BY <1>1, <3>1
  <2> QED
    BY <2>1, SubSeqProperties
<1> HIDE DEF c
<1>4. Len(c) = 3 /\ c[1] = s[3] /\ c[2] = s[4] /\ c[3] = s[5]
  BY <1>3
<1>5. c = t
  BY <1>1, <1>3, <1>4, SameThree
<1> QED
  BY <1>2, <1>5 DEF s, t, c

\* A function that is missing has a report without a message.
LEMMA MissingText ==
  /\ <<Panic, Kind, Colon>> \o << >> = <<Panic, Kind, Colon>>
  /\ FirstColon(<<Kind, Colon>>) = 2
  /\ SubSeq(<<Kind, Colon>>, 3, 2) = << >>
  /\ FirstColon(<<Heap>>) = 0
<1>1. <<Panic, Kind, Colon>> \in Seq(Nat)
  BY TextsAreSequences
<1>2. <<Panic, Kind, Colon>> \o << >> = <<Panic, Kind, Colon>>
  BY <1>1, ConcatEmptySeq
<1>3. SubSeq(<<Kind, Colon>>, 3, 2) = << >>
  BY SubSeqEmpty
<1>4. FirstColon(<<Kind, Colon>>) = 2
  <2> DEFINE s == <<Kind, Colon>>
  <2>1. s \in Seq(Nat) /\ Len(s) = 2 /\ s[1] # Colon /\ s[2] = Colon
    BY DEF Kind, Colon
  <2> HIDE DEF s
  <2>2. FirstColon(s) \in 0 .. Len(s)
    BY <2>1, FirstColonFacts
  <2>3. FirstColon(s) # 0
    BY <2>1, FirstColonFacts, SMTT(30)
  <2>4. s[FirstColon(s)] = Colon
    BY <2>1, <2>3, FirstColonFacts
  <2>5. FirstColon(s) = 2
    BY <2>1, <2>2, <2>3, <2>4
  <2> QED
    BY <2>5 DEF s
<1>5. FirstColon(<<Heap>>) = 0
  <2> DEFINE s == <<Heap>>
  <2>1. s \in Seq(Nat) /\ Len(s) = 1 /\ s[1] # Colon
    BY DEF Heap, Colon
  <2> HIDE DEF s
  <2>2. FirstColon(s) \in 0 .. Len(s)
    BY <2>1, FirstColonFacts
  <2>3. FirstColon(s) # 0 => s[FirstColon(s)] = Colon
    BY <2>1, FirstColonFacts
  <2>4. FirstColon(s) = 0
    BY <2>1, <2>2, <2>3
  <2> QED
    BY <2>4 DEF s
<1> QED
  BY <1>2, <1>3, <1>4, <1>5

\* An error that fits the host's buffer is stored without "panic: " and
\* what precedes the first colon.
LEMMA StoredWhole ==
  ASSUME NEW e \in Engines, e.live = TRUE, Len(e.err) > 0, Len(e.err) < HostBuf
  PROVE  /\ e.err[1] # Panic => store_engine_error(e) = e.err
         /\ e.err[1] = Panic /\ FirstColon(Tail(e.err)) = 0 =>
               store_engine_error(e) = Tail(e.err)
         /\ e.err[1] = Panic /\ FirstColon(Tail(e.err)) # 0 =>
               store_engine_error(e) =
                 SubSeq(Tail(e.err), FirstColon(Tail(e.err)) + 1, Len(Tail(e.err)))
<1> DEFINE size == HostBuf - 1
           m == engine_last_error(e, size)
           raw == SubSeq(m.buf, 1, AtMost(m.len, size))
           msg == IF raw[1] = Panic THEN Tail(raw) ELSE raw
<1>0. PICK err : err = e.err
  OBVIOUS
<1>1. err \in Seq(Nat) /\ Len(err) \in Nat /\ HostBuf \in Nat /\ size \in Nat
  BY <1>0, LenProperties, HostEngineAssumption DEF Engines
<1>2. m.len = Len(err) /\ m.buf = SubSeq(err, 1, AtMost(Len(err), size))
  BY <1>0 DEF engine_last_error
<1>3. store_engine_error(e) =
        IF m.len <= 0 THEN EngineErrorText
        ELSE IF raw[1] # Panic \/ FirstColon(msg) = 0 THEN msg
        ELSE SubSeq(msg, FirstColon(msg) + 1, Len(msg))
  BY DEF store_engine_error
<1>4. AtMost(Len(err), size) = Len(err)
  BY <1>0, <1>1 DEF AtMost
<1> HIDE DEF size, m
<1>5. raw = err
  BY <1>1, <1>2, <1>4, UncutIsItself
<1>6. ~(m.len <= 0)
  BY <1>0, <1>1, <1>2
<1> HIDE DEF raw
<1>7. msg = IF err[1] = Panic THEN Tail(err) ELSE err
  BY <1>5
<1> HIDE DEF msg
<1>8. store_engine_error(e) =
        IF err[1] # Panic \/ FirstColon(msg) = 0 THEN msg
        ELSE SubSeq(msg, FirstColon(msg) + 1, Len(msg))
  BY <1>3, <1>5, <1>6
<1> QED
  BY <1>0, <1>7, <1>8

\* What it stores for the errors a call can fail with, if they fit the
\* buffers: the message without "panic: " and the kind.
LEMMA StoredTexts ==
  ASSUME MaxErrorLen >= 6, HostBuf >= 7, NEW e \in Engines, e.live = TRUE, NEW q \in Nat
  PROVE  /\ e.err = RuntimeError(Text(q)) => store_engine_error(e) = Text(q)
         /\ e.err = RuntimeError(<< >>) => store_engine_error(e) = << >>
         /\ e.err = OutOfMemory => store_engine_error(e) = <<Heap>>
         /\ e.err = <<Args, Colon, Heap>> => store_engine_error(e) = <<Args, Colon, Heap>>
<1>0. MaxErrorLen \in Nat /\ HostBuf \in Nat
  BY HostEngineAssumption
<1>1. e.err = RuntimeError(Text(q)) => store_engine_error(e) = Text(q)
  <2> SUFFICES ASSUME e.err = RuntimeError(Text(q)) PROVE store_engine_error(e) = Text(q)
    OBVIOUS
  <2> DEFINE all == <<Panic, Kind, Colon, 200 + q, Colon, 9>>
             rest == <<Kind, Colon, 200 + q, Colon, 9>>
  <2>1. Len(all) = 6 /\ Tail(all) = rest /\ all[1] = Panic /\ Len(rest) = 5
    BY DEF Panic, Kind, Colon
  <2>2. RuntimeError(Text(q)) = IF Len(all) <= MaxErrorLen THEN all ELSE << >>
    BY PanicText DEF RuntimeError, BufPrint
  <2>3. FirstColon(rest) = 2 /\ SubSeq(rest, 3, 5) = Text(q)
    BY MessageOfPanic
  <2> HIDE DEF all, rest
  <2>4. e.err = all
    BY <1>0, <2>1, <2>2
  <2>5. Len(all) > 0 /\ Len(all) < HostBuf
    BY <1>0, <2>1
  <2>6. FirstColon(rest) # 0
    BY <2>3
  <2>7. store_engine_error(e) = SubSeq(rest, FirstColon(rest) + 1, Len(rest))
    BY <2>1, <2>4, <2>5, <2>6, StoredWhole
  <2>8. FirstColon(rest) + 1 = 3 /\ Len(rest) = 5
    BY <2>1, <2>3
  <2> QED
    BY <2>3, <2>7, <2>8
<1>2. e.err = RuntimeError(<< >>) => store_engine_error(e) = << >>
  <2> SUFFICES ASSUME e.err = RuntimeError(<< >>) PROVE store_engine_error(e) = << >>
    OBVIOUS
  <2> DEFINE all == <<Panic, Kind, Colon>>
             rest == <<Kind, Colon>>
  <2>1. Len(all) = 3 /\ Tail(all) = rest /\ all[1] = Panic /\ Len(rest) = 2
    BY DEF Panic, Kind, Colon
  <2>2. RuntimeError(<< >>) = IF Len(all) <= MaxErrorLen THEN all ELSE << >>
    BY MissingText DEF RuntimeError, BufPrint
  <2>3. FirstColon(rest) = 2 /\ SubSeq(rest, 3, 2) = << >>
    BY MissingText
  <2> HIDE DEF all, rest
  <2>4. e.err = all
    BY <1>0, <2>1, <2>2
  <2>5. Len(all) > 0 /\ Len(all) < HostBuf
    BY <1>0, <2>1
  <2>6. FirstColon(rest) # 0
    BY <2>3
  <2>7. store_engine_error(e) = SubSeq(rest, FirstColon(rest) + 1, Len(rest))
    BY <2>1, <2>4, <2>5, <2>6, StoredWhole
  <2>8. FirstColon(rest) + 1 = 3 /\ Len(rest) = 2
    BY <2>1, <2>3
  <2> QED
    BY <2>3, <2>7, <2>8
<1>3. e.err = OutOfMemory => store_engine_error(e) = <<Heap>>
  <2> SUFFICES ASSUME e.err = OutOfMemory PROVE store_engine_error(e) = <<Heap>>
    OBVIOUS
  <2> DEFINE all == <<Panic, Heap>>
             rest == <<Heap>>
  <2>1. Len(all) = 2 /\ Tail(all) = rest /\ all[1] = Panic
    BY DEF Panic, Heap
  <2>2. OutOfMemory = IF Len(all) <= MaxErrorLen THEN all ELSE << >>
    BY DEF OutOfMemory, BufPrint
  <2>3. FirstColon(rest) = 0
    BY MissingText
  <2> HIDE DEF all, rest
  <2>4. e.err = all
    BY <1>0, <2>1, <2>2
  <2>5. Len(all) > 0 /\ Len(all) < HostBuf
    BY <1>0, <2>1
  <2>6. store_engine_error(e) = rest
    BY <2>1, <2>3, <2>4, <2>5, StoredWhole
  <2> QED
    BY <2>6 DEF rest
<1>4. e.err = <<Args, Colon, Heap>> => store_engine_error(e) = <<Args, Colon, Heap>>
  <2> SUFFICES ASSUME e.err = <<Args, Colon, Heap>>
               PROVE  store_engine_error(e) = <<Args, Colon, Heap>>
    OBVIOUS
  <2> DEFINE all == <<Args, Colon, Heap>>
  <2>1. Len(all) = 3 /\ all[1] # Panic
    BY DEF Panic, Args, Colon, Heap
  <2> HIDE DEF all
  <2>2. e.err = all
    BY DEF all
  <2>3. Len(all) > 0 /\ Len(all) < HostBuf
    BY <1>0, <2>1
  <2>4. store_engine_error(e) = all
    BY <2>1, <2>2, <2>3, StoredWhole
  <2> QED
    BY <2>4 DEF all
<1> QED
  BY <1>1, <1>2, <1>3, <1>4
----------------------------------------------------------------------------
(* The invariant.                                                          *)

Said  == Answers \cup {"unasked", "unreached"}
Shows == [kind : {"ok", "rejected", "fail closed", "allow", "deny", "line", "none"},
          text : Seq(Nat)]

EnginePart ==
    /\ program \in Programs
    /\ eng \in Engines
    /\ ~eng.live => eng = NoEngine
    /\ pc = "exited" \/ stage \in {"failed", "cleaned"} => ~eng.live

PluginPart ==
    /\ file \in Scripts \cup {Missing}
    /\ g_engine \in InitResults /\ g_basic_auth \in BOOLEAN
    /\ registered \subseteq {"acl", "reload", "auth"}
    /\ stage \in {"start", "serving", "failed", "cleaned"}
    /\ accepted \in ProgramStates
    /\ AclFailsClosed

PolicyPart ==
    /\ pc \in {"init", "bundle", "read", "run", "open", "cases", "exited", "died"}
    /\ index \in 1 .. (Cases + 1)
    /\ last_reason \in Seq(Nat)
    /\ rows \subseteq 1 .. (index - 1)
    /\ verdicts \in Seq(Said) /\ shown \in Seq(Shows)
    /\ Len(verdicts) = index - 1 /\ Len(shown) = index - 1
    /\ PolicyFailsClosed

\* A process runs one host: the variables of the others stay as they were,
\* and the plugin has no engine before it is initialised.
OneHost ==
    /\ program # "acl" => stage = "start"
    /\ program = "acl" => pc = "init"
    /\ program = "acl" /\ stage = "start" => ~eng.live

HInv == EnginePart /\ PluginPart /\ PolicyPart /\ OneHost

\* What bundle-c relies on.
ReportsFit == program = "bundle" => Len(eng.err) <= MaxErrorLen
----------------------------------------------------------------------------
\* The invariant implies the type invariant.
LEMMA InvariantGivesType == HInv => TypeOK
<1> SUFFICES ASSUME HInv PROVE TypeOK
  OBVIOUS
<1>1. /\ eng.live \in BOOLEAN /\ eng.prog \in ProgramStates
      /\ eng.err \in Seq(Nat) /\ eng.note \in Seq(Nat)
  BY DEF HInv, EnginePart, Engines
<1>2. rows \subseteq 1 .. Cases
  BY PolicyHostsAssumption DEF HInv, PolicyPart
<1> QED
  BY <1>1, <1>2 DEF HInv, EnginePart, PluginPart, PolicyPart, TypeOK

\* No engine is a state of an engine without an error.
LEMMA NoEngineFacts ==
  NoEngine \in Engines /\ NoEngine.live = FALSE /\ NoEngine.err = << >>
<1>1. << >> \in Seq(Nat) /\ NoProgram \in ProgramStates
  BY EmptySeq DEF ProgramStates
<1> QED
  BY <1>1 DEF NoEngine, Engines

\* The process starts in it.
LEMMA InvariantInit == Init => HInv /\ LogStaysInBuffer /\ ReportsFit
<1> SUFFICES ASSUME Init PROVE HInv /\ LogStaysInBuffer /\ ReportsFit
  OBVIOUS
<1>1. EnginePart
  BY NoEngineFacts DEF Init, AclInit, PolicyInit, EnginePart
<1>2. PluginPart
  <2>1. check.granted = FALSE
    BY DEF Init, AclInit, NoCheck
  <2>2. AclFailsClosed
    BY <2>1 DEF Init, AclInit, AclFailsClosed
  <2> QED
    BY <2>2 DEF Init, AclInit, PluginPart, InitResults, ProgramStates
<1>3. PolicyPart
  <2>1. << >> \in Seq(Nat) /\ << >> \in Seq(Said) /\ << >> \in Seq(Shows) /\ Len(<< >>) = 0
    BY EmptySeq
  <2>2. index \in 1 .. (Cases + 1)
    BY PolicyHostsAssumption DEF Init, PolicyInit
  <2>3. PolicyFailsClosed
    BY DEF Init, PolicyInit, PolicyFailsClosed
  <2> QED
    BY <2>1, <2>2, <2>3 DEF Init, PolicyInit, PolicyPart
<1>4. OneHost
  BY NoEngineFacts DEF Init, AclInit, PolicyInit, OneHost
<1>5. LogStaysInBuffer
  BY DEF Init, LogStaysInBuffer
<1>6. ReportsFit
  BY NoEngineFacts, EmptySeq, HostEngineAssumption DEF Init, ReportsFit
<1> QED
  BY <1>1, <1>2, <1>3, <1>4, <1>5, <1>6 DEF HInv
----------------------------------------------------------------------------
(* The plugin.                                                             *)

\* engine_init_with_config gives a live engine exactly for a positive
\* result, and one that has no error.
LEMMA CreateOutcomes ==
  ASSUME NEW h \in InitResults
  PROVE  /\ engine_init_with_config(h) \in Engines
         /\ engine_init_with_config(h).live <=> h > 0
         /\ ~engine_init_with_config(h).live => engine_init_with_config(h) = NoEngine
         /\ engine_init_with_config(h).err = << >>
<1>1. << >> \in Seq(Nat) /\ NoProgram \in ProgramStates
  BY EmptySeq DEF ProgramStates
<1>2. engine_init_with_config(h) =
        [live |-> h > 0, prog |-> NoProgram, err |-> << >>, note |-> << >>]
  BY DEF engine_init_with_config, NoEngine
<1>3. CASE h > 0
  <2>1. engine_init_with_config(h) =
          [live |-> TRUE, prog |-> NoProgram, err |-> << >>, note |-> << >>]
    BY <1>2, <1>3
  <2> QED
    BY <1>1, <1>3, <2>1 DEF Engines
<1>4. CASE ~(h > 0)
  <2>1. (h > 0) = FALSE
    BY <1>4
  <2>2. engine_init_with_config(h) = NoEngine
    BY <1>2, <2>1 DEF NoEngine
  <2>3. engine_init_with_config(h).live = FALSE
    BY <2>2, NoEngineFacts
  <2> QED
    BY <1>4, <2>2, <2>3, NoEngineFacts
<1> QED
  BY <1>3, <1>4

\* engine_reset leaves an engine live and no engine as it is.
LEMMA ResetOutcomes ==
  ASSUME NEW e \in Engines
  PROVE  /\ engine_reset(e) \in Engines /\ engine_reset(e).live = e.live
         /\ ~e.live => engine_reset(e) = e
<1>1. << >> \in Seq(Nat) /\ NoProgram \in ProgramStates
  BY EmptySeq DEF ProgramStates
<1>2. CASE e.live
  <2>1. engine_reset(e) = [e EXCEPT !.err = << >>, !.prog = NoProgram, !.note = << >>]
    BY <1>2 DEF engine_reset
  <2> QED
    BY <1>1, <1>2, <2>1 DEF Engines
<1>3. CASE ~e.live
  BY <1>3 DEF engine_reset
<1> QED
  BY <1>2, <1>3

\* load_script loads into the engine it is given, and succeeds only with
\* one.
LEMMA LoadOutcomes ==
  ASSUME NEW e \in Engines, file \in Scripts \cup {Missing}, accepted \in ProgramStates,
         NEW r \in load_script(e)
  PROVE  /\ r.eng \in Engines /\ r.eng.live = e.live
         /\ ~e.live => r.eng = e
         /\ r.ok \in BOOLEAN /\ (r.ok => e.live)
         /\ Accepted(r) \in ProgramStates
         /\ r.log = logged \/ r.log = LogClamped(r.eng)
<1>1. CASE r = [ok |-> FALSE, eng |-> e, log |-> logged]
  <2>1. r.ok = FALSE /\ r.eng = e /\ r.log = logged
    BY <1>1
  <2>2. Accepted(r) = accepted
    BY <2>1 DEF Accepted
  <2> QED
    BY <2>1, <2>2
<1>2. CASE r # [ok |-> FALSE, eng |-> e, log |-> logged]
  <2> DEFINE x == engine_run(engine_reset(e), file)
  <2>1. /\ file \in Scripts
        /\ r = [ok |-> x.rc = 0, eng |-> x.eng,
                log |-> IF x.rc = 0 THEN logged ELSE LogClamped(x.eng)]
    BY <1>2 DEF load_script
  <2>2. /\ engine_reset(e) \in Engines /\ engine_reset(e).live = e.live
        /\ ~e.live => engine_reset(e) = e
    BY ResetOutcomes
  <2>3. /\ x.eng \in Engines /\ x.eng.live = e.live
        /\ ~e.live => x.eng = e /\ x.rc = -1
    BY <2>1, <2>2, RunOutcomes
  <2> HIDE DEF x
  <2>4. /\ r.ok = (x.rc = 0) /\ r.eng = x.eng
        /\ r.log = IF x.rc = 0 THEN logged ELSE LogClamped(x.eng)
    BY <2>1
  <2>5. r.ok \in BOOLEAN
    BY <2>4
  <2>6. x.rc = 0 => e.live
    BY <2>3
  <2>7. r.ok => e.live
    BY <2>4, <2>6
  <2>8. x.eng.prog \in ProgramStates
    BY <2>3 DEF Engines
  <2>9. Accepted(r) \in ProgramStates
    BY <2>4, <2>8 DEF Accepted
  <2> QED
    BY <2>3, <2>4, <2>5, <2>7, <2>9
<1> QED
  BY <1>1, <1>2

\* The parts of a policy host are not the plugin's to change.
LEMMA PolicyPartStays == PolicyPart /\ UNCHANGED policyVars => PolicyPart'
  BY DEF PolicyPart, policyVars, PolicyFailsClosed

\* What is left to show of a step of the plugin.
LEMMA PluginStepKeeps ==
  ASSUME HInv, program = "acl", UNCHANGED <<program, policyVars>>,
         eng' \in Engines, ~eng'.live => eng' = NoEngine,
         stage' \in {"failed", "cleaned"} => ~eng'.live, stage' # "start",
         PluginPart'
  PROVE  HInv'
<1>1. PolicyPart'
  BY PolicyPartStays DEF HInv
<1>2. pc' = "init" /\ program' = "acl"
  BY DEF HInv, OneHost, policyVars
<1>3. EnginePart'
  BY <1>2 DEF HInv, EnginePart
<1>4. OneHost'
  BY <1>2 DEF OneHost
<1> QED
  BY <1>1, <1>3, <1>4 DEF HInv

\* mosquitto_plugin_init, every way out of it included.
LEMMA PluginInitKeeps ==
  ASSUME HInv, program = "acl", UNCHANGED <<program, policyVars>>, PluginInit
  PROVE  HInv'
<1>0. /\ stage = "start" /\ ~eng.live /\ eng \in Engines /\ eng = NoEngine
      /\ UNCHANGED <<file, g_basic_auth, check>>
  BY DEF PluginInit, HInv, OneHost, EnginePart
<1>1. ASSUME stage' = "failed", UNCHANGED <<registered, accepted, eng>>, g_engine' \in InitResults
      PROVE  HInv'
  <2>1. PluginPart'
    BY <1>0, <1>1 DEF HInv, PluginPart, AclFailsClosed
  <2> QED
    BY <1>0, <1>1, <2>1, PluginStepKeeps
<1>2. CASE InitWithoutScript
  BY <1>1, <1>2 DEF InitWithoutScript, HInv, PluginPart
<1>3. ASSUME NEW h \in InitResults, InitWithoutEngine(h) PROVE HInv'
  BY <1>1, <1>3 DEF InitWithoutEngine
<1>4. ASSUME NEW h \in InitResults, InitWithEngine(h) PROVE HInv'
  <2> DEFINE e == engine_init_with_config(h)
  <2>1. e \in Engines /\ (e.live <=> h > 0)
    BY CreateOutcomes
  <2>2. PICK r \in load_script(e) :
          /\ accepted' = Accepted(r)
          /\ IF r.ok
             THEN /\ g_engine' = h /\ eng' = r.eng /\ stage' = "serving"
                  /\ registered' = {"acl", "reload"} \cup IF g_basic_auth THEN {"auth"} ELSE {}
             ELSE /\ g_engine' = 0 /\ eng' = engine_destroy(r.eng) /\ stage' = "failed"
                  /\ UNCHANGED registered
    BY <1>4 DEF InitWithEngine
  <2> HIDE DEF e
  <2>3. /\ r.eng \in Engines /\ r.eng.live = e.live /\ r.ok \in BOOLEAN /\ (r.ok => e.live)
        /\ accepted' \in ProgramStates
    BY <2>1, <2>2, LoadOutcomes DEF HInv, PluginPart
  <2>4. CASE r.ok
    <3>1. /\ g_engine' = h /\ h > 0 /\ eng' \in Engines /\ eng'.live /\ stage' = "serving"
          /\ registered' \subseteq {"acl", "reload", "auth"}
      BY <2>1, <2>2, <2>3, <2>4
    <3>2. PluginPart'
      BY <1>0, <1>4, <2>3, <3>1 DEF HInv, PluginPart, AclFailsClosed
    <3> QED
      BY <3>1, <3>2, PluginStepKeeps
  <2>5. CASE ~r.ok
    <3>1. /\ g_engine' = 0 /\ eng' = NoEngine /\ stage' = "failed" /\ UNCHANGED registered
      BY <2>2, <2>5 DEF engine_destroy
    <3>2. PluginPart'
      BY <1>0, <2>3, <3>1 DEF HInv, PluginPart, AclFailsClosed, InitResults
    <3> QED
      BY <3>1, <3>2, NoEngineFacts, PluginStepKeeps
  <2> QED
    BY <2>4, <2>5
<1> QED
  BY <1>2, <1>3, <1>4 DEF PluginInit

\* While the plugin serves it has an engine.
LEMMA ServingFacts ==
  ASSUME HInv, stage = "serving"
  PROVE  eng \in Engines /\ eng.live /\ g_engine > 0
  BY DEF HInv, EnginePart, PluginPart, AclFailsClosed

\* A check is granted only by the answer true of a program.
LEMMA DecideKeeps ==
  ASSUME HInv, program = "acl", UNCHANGED <<program, policyVars>>, stage = "serving",
         NEW q \in Clients, Decide(q), Unchanged
  PROVE  HInv'
<1>1. eng \in Engines /\ eng.live /\ g_engine > 0 /\ q \in Nat /\ Decisions \in SUBSET Answers
  BY ServingFacts, AclAssumption DEF Answers
<1>2. PICK r \in engine_call(eng, q, Decisions) :
        /\ eng' = r.eng
        /\ check' = [by |-> eng.prog, wanted |-> accepted, said |-> r.said,
                     granted |-> call_bool(r)]
  BY DEF Decide
<1>3. CallOutcome(eng, q, r)
  BY <1>1, <1>2, CallOutcomes
<1>4. /\ r.eng \in Engines /\ r.eng.live = eng.live
      /\ (r.rc = 0 /\ gengo_wire_as_bool(r.out)) <=> r.said = "true"
      /\ r.said = "true" => eng.prog # NoProgram
  BY <1>3 DEF CallOutcome
<1>5. call_bool(r) => r.said = "true"
  BY <1>4 DEF call_bool
<1>6. check'.granted = call_bool(r) /\ check'.said = r.said /\ check'.by = eng.prog
  BY <1>2
<1>7. check'.granted => check'.said = "true" /\ check'.by # NoProgram
  BY <1>4, <1>5, <1>6
<1>8. AclFailsClosed'
  BY <1>1, <1>2, <1>4, <1>7 DEF AclFailsClosed, Unchanged
<1>9. PluginPart'
  BY <1>8 DEF HInv, PluginPart, Unchanged
<1> QED
  BY <1>1, <1>2, <1>4, <1>9, PluginStepKeeps DEF Unchanged

\* Every step of the broker's.
LEMMA PluginStep ==
  ASSUME HInv, program = "acl", UNCHANGED <<program, policyVars>>, AclNext
  PROVE  HInv'
<1>1. CASE EditFile
  <2>1. eng \in Engines /\ eng.live
    BY <1>1, ServingFacts DEF EditFile
  <2>2. PluginPart'
    BY <1>1 DEF EditFile, HInv, PluginPart, AclFailsClosed
  <2> QED
    BY <1>1, <2>1, <2>2, PluginStepKeeps DEF EditFile
<1>2. CASE PluginInit
  BY <1>2, PluginInitKeeps
<1>3. ASSUME NEW q \in Clients, OnAclCheck(q) \/ OnBasicAuth(q) PROVE HInv'
  BY <1>3, DecideKeeps DEF OnAclCheck, OnBasicAuth, Serves
<1>4. CASE OnUnknownAccess
  <2>1. eng \in Engines /\ eng.live /\ stage = "serving"
    BY <1>4, ServingFacts DEF OnUnknownAccess, Serves
  <2>2. check'.granted = FALSE
    BY <1>4 DEF OnUnknownAccess
  <2>3. PluginPart'
    BY <1>4, <2>2 DEF OnUnknownAccess, Unchanged, HInv, PluginPart, AclFailsClosed
  <2> QED
    BY <1>4, <2>1, <2>3, PluginStepKeeps DEF OnUnknownAccess, Unchanged
<1>5. CASE OnReload
  <2>1. eng \in Engines /\ eng.live /\ stage = "serving"
    BY <1>5, ServingFacts DEF OnReload, Serves
  <2>2. PICK r \in load_script(eng) : eng' = r.eng /\ accepted' = Accepted(r)
    BY <1>5 DEF OnReload
  <2>3. eng' \in Engines /\ eng'.live = eng.live /\ accepted' \in ProgramStates
    BY <2>1, <2>2, LoadOutcomes DEF HInv, PluginPart
  <2>4. PluginPart'
    BY <1>5, <2>1, <2>3 DEF OnReload, HInv, PluginPart, AclFailsClosed
  <2> QED
    BY <1>5, <2>1, <2>3, <2>4, PluginStepKeeps DEF OnReload
<1>6. CASE PluginCleanup
  <2>1. eng' = NoEngine
    <3>1. g_engine # 0
      BY <1>6, ServingFacts DEF PluginCleanup, HInv, PluginPart, InitResults
    <3> QED
      BY <1>6, <3>1 DEF PluginCleanup, engine_destroy
  <2>2. PluginPart'
    BY <1>6 DEF PluginCleanup, HInv, PluginPart, AclFailsClosed, InitResults
  <2> QED
    BY <1>6, <2>1, <2>2, NoEngineFacts, PluginStepKeeps DEF PluginCleanup
<1> QED
  BY <1>1, <1>2, <1>3, <1>4, <1>5, <1>6 DEF AclNext
----------------------------------------------------------------------------
(* The policy hosts.                                                       *)

\* The variables of the plugin are not a policy host's to change.
LEMMA PolicyStepKeeps ==
  ASSUME HInv, program # "acl", UNCHANGED <<program, aclVars>>,
         eng' \in Engines, ~eng'.live => eng' = NoEngine, pc' = "exited" => ~eng'.live,
         PolicyPart'
  PROVE  HInv'
<1>1. stage' = "start" /\ program' # "acl"
  BY DEF HInv, OneHost, aclVars
<1>2. EnginePart'
  BY <1>1 DEF HInv, EnginePart
<1>3. PluginPart'
  BY <1>1 DEF HInv, PluginPart, AclFailsClosed, aclVars
<1>4. OneHost'
  BY <1>1 DEF OneHost
<1> QED
  BY <1>2, <1>3, <1>4 DEF HInv

\* Steps before and after the cases.
LEMMA SetupKeeps ==
  ASSUME HInv, program # "acl", UNCHANGED <<program, aclVars>>, Setup,
         pc' \in {"init", "bundle", "read", "run", "open", "cases", "exited", "died"},
         eng' \in Engines, ~eng'.live => eng' = NoEngine, pc' = "exited" => ~eng'.live
  PROVE  HInv'
<1>1. PolicyPart'
  BY DEF HInv, PolicyPart, PolicyFailsClosed, Setup
<1> QED
  BY <1>1, PolicyStepKeeps

\* A way out of main() destroys the engine first.
LEMMA LeaveKeeps ==
  ASSUME HInv, program # "acl", UNCHANGED <<program, aclVars>>, Setup, Leave
  PROVE  HInv'
  BY SetupKeeps, NoEngineFacts DEF Leave, engine_destroy

\* A step of main() that leaves the engine alone.
LEMMA StayKeeps ==
  ASSUME HInv, program # "acl", UNCHANGED <<program, aclVars>>, Setup, UNCHANGED eng,
         pc' \in {"read", "run", "open", "cases", "died"}
  PROVE  HInv'
  BY SetupKeeps DEF HInv, EnginePart

\* Everything main() does before and after its cases.
LEMMA SetupSteps ==
  ASSUME HInv, program # "acl", UNCHANGED <<program, aclVars>>,
         CreateEngine \/ LoadBundle \/ ReadScript \/ RunScript \/ OpenDatabase \/ Finish
  PROVE  HInv'
<1>1. CASE CreateEngine
  <2>1. PICK h \in InitResults :
          /\ eng' = engine_init_with_config(h)
          /\ pc' = IF h <= 0 THEN "exited" ELSE IF program = "bundle" THEN "bundle" ELSE "read"
    BY <1>1 DEF CreateEngine
  <2>2. eng' \in Engines /\ (eng'.live <=> h > 0) /\ (~eng'.live => eng' = NoEngine)
    BY <2>1, CreateOutcomes
  <2>3. pc' \in {"exited", "bundle", "read"} /\ (pc' = "exited" => ~(h > 0))
    BY <2>1 DEF InitResults
  <2> QED
    BY <1>1, <2>2, <2>3, SetupKeeps DEF CreateEngine
<1>2. CASE LoadBundle
  BY <1>2, LeaveKeeps, StayKeeps DEF LoadBundle
<1>3. CASE ReadScript
  BY <1>3, LeaveKeeps, StayKeeps DEF ReadScript
<1>4. CASE RunScript
  <2>1. PICK f \in Scripts :
          \/ Leave
          \/ /\ eng' = engine_run(eng, f).eng
             /\ pc' = IF program = "sqlite" THEN "open" ELSE "cases"
    BY <1>4 DEF RunScript
  <2>2. Setup
    BY <1>4 DEF RunScript
  <2>3. CASE Leave
    BY <2>2, <2>3, LeaveKeeps
  <2>4. CASE eng' = engine_run(eng, f).eng /\ pc' \in {"open", "cases"}
    <3>1. eng \in Engines /\ (~eng.live => eng = NoEngine)
      BY DEF HInv, EnginePart
    <3>2. eng' \in Engines /\ eng'.live = eng.live /\ (~eng.live => eng' = eng)
      BY <2>4, <3>1, RunOutcomes
    <3> QED
      BY <2>2, <2>4, <3>1, <3>2, SetupKeeps
  <2> QED
    BY <2>1, <2>3, <2>4
<1>5. CASE OpenDatabase
  BY <1>5, LeaveKeeps, StayKeeps DEF OpenDatabase
<1>6. CASE Finish
  BY <1>6, LeaveKeeps DEF Finish
<1> QED
  BY <1>1, <1>2, <1>3, <1>4, <1>5, <1>6

\* A case is done: its verdict and what was printed go to the histories.
LEMMA DoneFacts ==
  ASSUME HInv, pc = "cases", index <= Cases, NEW said \in Said, NEW text \in Shows,
         Done(said, text)
  PROVE  /\ verdicts' \in Seq(Said) /\ shown' \in Seq(Shows)
         /\ Len(verdicts') = index' - 1 /\ Len(shown') = index' - 1
         /\ index \in Nat \ {0} /\ index' = index + 1 /\ index' \in 1 .. (Cases + 1)
         /\ verdicts'[index] = said /\ shown'[index] = text
         /\ \A i \in 1 .. (index - 1) : verdicts'[i] = verdicts[i] /\ shown'[i] = shown[i]
         /\ DOMAIN shown' = 1 .. index /\ DOMAIN shown = 1 .. (index - 1)
         /\ pc' = pc
<1>1. /\ verdicts \in Seq(Said) /\ shown \in Seq(Shows) /\ Len(verdicts) = index - 1
      /\ Len(shown) = index - 1 /\ index \in 1 .. (Cases + 1) /\ Cases \in Nat
  BY PolicyHostsAssumption DEF HInv, PolicyPart
<1>2. /\ verdicts' = Append(verdicts, said) /\ shown' = Append(shown, text)
      /\ index' = index + 1 /\ pc' = pc
  BY DEF Done
<1>3. /\ verdicts' \in Seq(Said) /\ Len(verdicts') = Len(verdicts) + 1
      /\ \A i \in 1 .. Len(verdicts) : verdicts'[i] = verdicts[i]
      /\ verdicts'[Len(verdicts) + 1] = said
  BY <1>1, <1>2, AppendProperties
<1>4. /\ shown' \in Seq(Shows) /\ Len(shown') = Len(shown) + 1
      /\ \A i \in 1 .. Len(shown) : shown'[i] = shown[i]
      /\ shown'[Len(shown) + 1] = text
  BY <1>1, <1>2, AppendProperties
<1>5. DOMAIN shown' = 1 .. Len(shown') /\ DOMAIN shown = 1 .. Len(shown)
  BY <1>1, <1>4, LenProperties
<1>6. Len(verdicts) + 1 = index /\ Len(shown) + 1 = index
  BY <1>1
<1> QED
  BY <1>1, <1>2, <1>3, <1>4, <1>5, <1>6

\* A case that ends, granted only by the answer true.
LEMMA DoneKeeps ==
  ASSUME HInv, program # "acl", UNCHANGED <<program, aclVars>>,
         pc = "cases", index <= Cases, NEW said \in Said, NEW text \in Shows,
         Done(said, text),
         last_reason' \in Seq(Nat), rows' \subseteq rows \cup {index},
         index \in rows' => said = "true",
         text.kind \in {"ok", "allow"} => said = "true",
         eng' \in Engines, ~eng'.live => eng' = NoEngine
  PROVE  HInv'
<1>1. /\ verdicts' \in Seq(Said) /\ shown' \in Seq(Shows)
      /\ Len(verdicts') = index' - 1 /\ Len(shown') = index' - 1
      /\ index \in Nat \ {0} /\ index' = index + 1 /\ index' \in 1 .. (Cases + 1)
      /\ verdicts'[index] = said /\ shown'[index] = text
      /\ \A i \in 1 .. (index - 1) : verdicts'[i] = verdicts[i] /\ shown'[i] = shown[i]
      /\ DOMAIN shown' = 1 .. index /\ DOMAIN shown = 1 .. (index - 1)
      /\ pc' = pc
  BY DoneFacts
<1>2. /\ rows \subseteq 1 .. (index - 1) /\ \A i \in rows : verdicts[i] = "true"
      /\ \A i \in DOMAIN shown : shown[i].kind \in {"ok", "allow"} => verdicts[i] = "true"
  BY DEF HInv, PolicyPart, PolicyFailsClosed
<1>3. \A i \in rows' : verdicts'[i] = "true"
  BY <1>1, <1>2
<1>4. \A i \in DOMAIN shown' : shown'[i].kind \in {"ok", "allow"} => verdicts'[i] = "true"
  <2> SUFFICES ASSUME NEW i \in 1 .. index, shown'[i].kind \in {"ok", "allow"}
               PROVE  verdicts'[i] = "true"
    BY <1>1
  <2>1. CASE i = index
    BY <1>1, <2>1
  <2>2. CASE i \in 1 .. (index - 1)
    BY <1>1, <1>2, <2>2
  <2> QED
    BY <1>1, <2>1, <2>2
<1>5. rows' \subseteq 1 .. (index' - 1)
  BY <1>1, <1>2
<1>6. PolicyPart'
  BY <1>1, <1>3, <1>4, <1>5 DEF PolicyPart, PolicyFailsClosed
<1> QED
  BY <1>1, <1>6, PolicyStepKeeps

\* The texts of a case.
TextSizesFit == MaxErrorLen >= 6 /\ HostBuf >= 7

ReasonOf(i, said, text) ==
    /\ said # "unreached" => text \in TextsOf(i)
    /\ said = "true" => text \in {<< >>, SqliteText}
    /\ said = "unasked" => text = NullText
    /\ program = "sqlite" /\ said = "panic" => text = Text(i)

\* What a script that says no leaves in the engine.
LEMMA SayingNo ==
  ASSUME NEW e \in Engines, NEW q \in Nat, NEW r \in engine_call(e, q, Decisions),
         r.rc = 0, ~gengo_wire_as_bool(r.out)
  PROVE  r.said \in {"false", "other"} /\ r.eng.note \in {Note(q), << >>}
<1>1. Decisions \in SUBSET Answers
  BY DEF Answers
<1>2. CallOutcome(e, q, r) /\ r.said \in Decisions \cup {"missing"}
  BY <1>1, CallOutcomes, CallAnswers
<1>3. r.said \notin {"panic", "oom", "args", "missing"} /\ r.said # "true"
  BY <1>2 DEF CallOutcome
<1>4. r.said \in {"false", "other"}
  BY <1>2, <1>3 DEF Decisions
<1> QED
  BY <1>2, <1>4 DEF CallOutcome

\* The reason that is then fetched is the one noted.
LEMMA ReasonGot ==
  ASSUME NEW e \in Engines, NEW q \in Nat, NEW x \in engine_call(e, q, Explanations),
         x.rc = 0, e.note \in {Note(q), << >>}
  PROVE  gengo_wire_read_str(x.out, HostBuf) \in {Note(q), << >>}
<1>1. Explanations \in SUBSET Answers
  BY DEF Answers
<1>2. CallOutcome(e, q, x) /\ x.said \in Explanations \cup {"missing"}
  BY <1>1, CallOutcomes, CallAnswers
<1>3. x.said \in {"note", "null"}
  BY <1>2 DEF CallOutcome, Explanations
<1>4. /\ x.said = "note" => x.out = Handed(StringValue(e.note))
      /\ x.said = "null" => x.out = Handed(NullValue)
  BY <1>1, CallAnswers
<1>5. Len(Note(q)) < HostBuf /\ Len(<< >>) < HostBuf /\ HostBuf \in Nat
  BY HostEngineAssumption DEF Note
<1>6. gengo_wire_read_str(Handed(StringValue(e.note)), HostBuf) = e.note
  <2>1. e.note \in Seq(Nat) /\ Len(e.note) < HostBuf
    BY <1>5 DEF Engines
  <2> QED
    BY <2>1, TextRead
<1>7. gengo_wire_read_str(Handed(NullValue), HostBuf) = << >>
  BY ReadNull
<1> QED
  BY <1>3, <1>4, <1>6, <1>7

\* sql_gengo_validate accepts only what the script answered true, and its
\* reason is one of this order.
LEMMA ValidateOutcomes ==
  ASSUME NEW e \in Engines, e = eng, NEW q \in Nat, NEW v \in sql_gengo_validate(q)
  PROVE  /\ v.eng \in Engines /\ v.eng.live = e.live /\ (~e.live => v.eng = e)
         /\ v.said \in Said \ {"unreached"} /\ v.reason \in Seq(Nat)
         /\ v.ok = TRUE <=> v.said = "true"
         /\ v.ok \in BOOLEAN
         /\ v.said = "true" => v.reason = << >>
         /\ v.said = "unasked" => v.reason = NullText
         /\ TextSizesFit => v.reason \in TextsOf(q)
         /\ TextSizesFit /\ v.said = "panic" => v.reason = Text(q)
<1>0. /\ Decisions \in SUBSET Answers /\ Explanations \in SUBSET Answers
      /\ Decisions \cup {"missing"} \subseteq Said \ {"unasked", "unreached"}
      /\ "unasked" \in Said
  BY DEF Answers, Said, Decisions, Explanations, Evaluations
<1>1. CASE v = Verdict(FALSE, NullText, e, "unasked")
  <2>1. v.ok = FALSE /\ v.reason = NullText /\ v.eng = e /\ v.said = "unasked"
    BY <1>1 DEF Verdict
  <2>2. NullText \in Seq(Nat) /\ NullText \in TextsOf(q)
    BY TextsAreSequences DEF TextsOf
  <2> QED
    BY <1>0, <2>1, <2>2
<1>2. ASSUME NEW r \in engine_call(e, q, Decisions), v \in ValidateAnswer(r, q)
      PROVE  /\ v.eng \in Engines /\ v.eng.live = e.live /\ (~e.live => v.eng = e)
             /\ v.said \in Said \ {"unreached"} /\ v.reason \in Seq(Nat)
             /\ v.ok = TRUE <=> v.said = "true"
             /\ v.ok \in BOOLEAN
             /\ v.said = "true" => v.reason = << >>
             /\ v.said # "unasked"
             /\ TextSizesFit => v.reason \in TextsOf(q)
             /\ TextSizesFit /\ v.said = "panic" => v.reason = Text(q)
  <2>1. CallOutcome(e, q, r) /\ r.said \in Decisions \cup {"missing"}
    BY <1>0, CallOutcomes, CallAnswers
  <2>2. /\ r.eng \in Engines /\ r.eng.live = e.live /\ (~e.live => r.eng = e)
        /\ r.said \in Said \ {"unasked", "unreached"}
    BY <1>0, <2>1 DEF CallOutcome
  <2>3. CASE r.rc = -2
    <3>1. v = Verdict(FALSE, store_engine_error(r.eng), r.eng, r.said)
      BY <1>2, <2>3 DEF ValidateAnswer
    <3>2. v.ok = FALSE /\ v.reason = store_engine_error(r.eng) /\ v.eng = r.eng /\ v.said = r.said
      BY <3>1 DEF Verdict
    <3>3. v.reason \in Seq(Nat)
      BY <2>2, <3>2, StoredIsText
    <3>4. r.said \in {"panic", "oom", "args", "missing"} /\ r.eng.live = TRUE
      BY <2>1, <2>2, <2>3 DEF CallOutcome, Engines
    <3>5. TextSizesFit => /\ r.said = "panic" => v.reason = Text(q)
                          /\ r.said = "oom" => v.reason = <<Heap>>
                          /\ r.said = "args" => v.reason = <<Args, Colon, Heap>>
                          /\ r.said = "missing" => v.reason = << >>
      <4> SUFFICES ASSUME TextSizesFit
                   PROVE  /\ r.said = "panic" => v.reason = Text(q)
                          /\ r.said = "oom" => v.reason = <<Heap>>
                          /\ r.said = "args" => v.reason = <<Args, Colon, Heap>>
                          /\ r.said = "missing" => v.reason = << >>
        OBVIOUS
      <4>1. MaxErrorLen >= 6 /\ HostBuf >= 7
        BY DEF TextSizesFit
      <4>2. /\ r.eng.err = RuntimeError(Text(q)) => store_engine_error(r.eng) = Text(q)
            /\ r.eng.err = RuntimeError(<< >>) => store_engine_error(r.eng) = << >>
            /\ r.eng.err = OutOfMemory => store_engine_error(r.eng) = <<Heap>>
            /\ r.eng.err = <<Args, Colon, Heap>> =>
                  store_engine_error(r.eng) = <<Args, Colon, Heap>>
        BY <2>2, <3>4, <4>1, StoredTexts
      <4>3. /\ r.said = "panic" => r.eng.err = RuntimeError(Text(q))
            /\ r.said = "oom" => r.eng.err = OutOfMemory
            /\ r.said = "args" => r.eng.err = <<Args, Colon, Heap>>
            /\ r.said = "missing" => r.eng.err = RuntimeError(<< >>)
        BY <2>1, <2>3 DEF CallOutcome
      <4> QED
        BY <3>2, <4>2, <4>3
    <3>6. TextSizesFit => v.reason \in TextsOf(q)
      BY <3>4, <3>5 DEF TextsOf
    <3> QED
      BY <2>2, <3>2, <3>3, <3>4, <3>5, <3>6
  <2>4. CASE r.rc = -1
    <3>1. v = Verdict(FALSE, EngineErrorText, r.eng, r.said)
      BY <1>2, <2>4 DEF ValidateAnswer
    <3>2. v.ok = FALSE /\ v.reason = EngineErrorText /\ v.eng = r.eng /\ v.said = r.said
      BY <3>1 DEF Verdict
    <3>3. r.said = "missing"
      BY <2>1, <2>4 DEF CallOutcome
    <3>4. EngineErrorText \in Seq(Nat) /\ EngineErrorText \in TextsOf(q)
      BY TextsAreSequences DEF TextsOf
    <3> QED
      BY <2>2, <3>2, <3>3, <3>4
  <2>5. CASE r.rc = 0 /\ gengo_wire_as_bool(r.out)
    <3>1. v = Verdict(TRUE, << >>, r.eng, r.said)
      BY <1>2, <2>5 DEF ValidateAnswer
    <3>2. v.ok = TRUE /\ v.reason = << >> /\ v.eng = r.eng /\ v.said = r.said
      BY <3>1 DEF Verdict
    <3>3. r.said = "true"
      BY <2>1, <2>5 DEF CallOutcome
    <3>4. << >> \in Seq(Nat) /\ << >> \in TextsOf(q)
      BY TextsAreSequences DEF TextsOf
    <3> QED
      BY <2>2, <3>2, <3>3, <3>4
  <2>6. CASE r.rc = 0 /\ ~gengo_wire_as_bool(r.out)
    <3>1. r.said \in {"false", "other"} /\ r.eng.note \in {Note(q), << >>}
      BY <2>6, SayingNo
    <3>2. PICK x \in engine_call(r.eng, q, Explanations) :
            v = Verdict(FALSE, IF x.rc = 0 THEN gengo_wire_read_str(x.out, HostBuf)
                               ELSE FailedText, x.eng, r.said)
      <4>1. v \in FetchReason(r, q)
        BY <1>2, <2>6 DEF ValidateAnswer
      <4> QED
        BY <4>1 DEF FetchReason
    <3>3. CallOutcome(r.eng, q, x)
      BY <1>0, <2>2, CallOutcomes
    <3>4. /\ x.eng \in Engines /\ x.eng.live = r.eng.live
          /\ ~r.eng.live => x.eng = r.eng
      BY <3>3 DEF CallOutcome
    <3>5. /\ v.ok = FALSE /\ v.eng = x.eng /\ v.said = r.said
          /\ v.reason = IF x.rc = 0 THEN gengo_wire_read_str(x.out, HostBuf) ELSE FailedText
      BY <3>2 DEF Verdict
    <3>6. v.reason \in {Note(q), << >>, FailedText}
      BY <2>2, <3>1, <3>5, ReasonGot
    <3>7. v.reason \in Seq(Nat) /\ v.reason \in TextsOf(q)
      BY <3>6, TextsAreSequences DEF TextsOf
    <3> QED
      BY <2>2, <3>1, <3>4, <3>5, <3>7
  <2>7. r.rc \in {0, -1, -2}
    BY <2>1 DEF CallOutcome
  <2> QED
    BY <2>3, <2>4, <2>5, <2>6, <2>7
<1>3. \/ v = Verdict(FALSE, NullText, e, "unasked")
      \/ \E r \in engine_call(e, q, Decisions) : v \in ValidateAnswer(r, q)
  BY DEF sql_gengo_validate
<1> QED
  BY <1>1, <1>2, <1>3

\* What a step of the loop over the cases comes to.
CaseDone(said, text) ==
    /\ pc = "cases" /\ index <= Cases
    /\ said \in Said /\ text \in Shows /\ Done(said, text)
    /\ last_reason' \in Seq(Nat)
    /\ rows' \subseteq rows \cup {index}
    /\ index \in rows' => said = "true"
    /\ text.kind \in {"ok", "allow"} => said = "true"
    /\ eng' \in Engines /\ (~eng'.live => eng' = NoEngine)
    /\ TextSizesFit => ReasonOf(index, said, text.text)

\* What is known when a case begins: none is stored ahead.
LEMMA CaseFacts ==
  ASSUME HInv
  PROVE  /\ eng \in Engines /\ (~eng.live => eng = NoEngine)
         /\ index \in Nat \ {0} /\ index \notin rows /\ last_reason \in Seq(Nat)
<1>1. index \in Nat \ {0} /\ rows \subseteq 1 .. (index - 1)
  BY PolicyHostsAssumption DEF HInv, PolicyPart
<1> QED
  BY <1>1 DEF HInv, EnginePart, PolicyPart

\* sqlite-policy.
LEMMA InsertOrderCase ==
  ASSUME HInv, InsertOrder
  PROVE  \E said \in Said, text \in Shows : CaseDone(said, text)
<1>1. pc = "cases" /\ index <= Cases /\ program = "sqlite"
  BY DEF InsertOrder, AtCase
<1>2. /\ eng \in Engines /\ (~eng.live => eng = NoEngine)
      /\ index \in Nat /\ index \notin rows /\ last_reason \in Seq(Nat)
  BY CaseFacts
<1>3. PICK v \in sql_gengo_validate(index) :
        /\ eng' = v.eng
        /\ last_reason' = v.reason
        /\ \/ /\ v.ok
              /\ rows' = rows \cup {index}
              /\ Done(v.said, [kind |-> "ok", text |-> << >>])
           \/ /\ UNCHANGED rows
              /\ Done(v.said, Rejected(v.reason))
  BY DEF InsertOrder
<1>4. /\ v.eng \in Engines /\ v.eng.live = eng.live /\ (~eng.live => v.eng = eng)
      /\ v.said \in Said \ {"unreached"} /\ v.reason \in Seq(Nat)
      /\ v.ok = TRUE <=> v.said = "true"
      /\ v.ok \in BOOLEAN
      /\ v.said = "true" => v.reason = << >>
      /\ v.said = "unasked" => v.reason = NullText
      /\ TextSizesFit => v.reason \in TextsOf(index)
      /\ TextSizesFit /\ v.said = "panic" => v.reason = Text(index)
  BY <1>2, <1>3, ValidateOutcomes
<1>5. eng' \in Engines /\ (~eng'.live => eng' = NoEngine) /\ last_reason' \in Seq(Nat)
  BY <1>2, <1>3, <1>4
<1>6. /\ << >> \in Seq(Nat) /\ SqliteText \in Seq(Nat)
      /\ << >> \in TextsOf(index) /\ SqliteText \in TextsOf(index)
  BY TextsAreSequences DEF TextsOf
<1>7. CASE v.ok /\ rows' = rows \cup {index} /\ Done(v.said, [kind |-> "ok", text |-> << >>])
  <2> DEFINE t == [kind |-> "ok", text |-> << >>]
  <2>1. t \in Shows /\ t.text = << >>
    BY <1>6 DEF Shows
  <2>2. v.said = "true"
    BY <1>4, <1>7
  <2>3. ReasonOf(index, v.said, t.text)
    BY <1>6, <2>1, <2>2 DEF ReasonOf
  <2>4. CaseDone(v.said, t)
    BY <1>1, <1>4, <1>5, <1>7, <2>1, <2>2, <2>3 DEF CaseDone
  <2> QED
    BY <1>4, <2>1, <2>4
<1>8. CASE UNCHANGED rows /\ Done(v.said, Rejected(v.reason))
  <2> DEFINE x == IF v.reason # << >> THEN v.reason ELSE SqliteText
             t == Rejected(v.reason)
  <2>1. t.kind = "rejected" /\ t.text = x /\ t \in Shows
    BY <1>4, <1>6 DEF Rejected, Shows
  <2>2. NullText # << >> /\ Text(index) # << >>
    BY DEF NullText, Text
  <2>3. /\ v.said = "true" => x = SqliteText
        /\ v.said = "unasked" => x = NullText
        /\ TextSizesFit => x \in TextsOf(index)
        /\ TextSizesFit /\ v.said = "panic" => x = Text(index)
    BY <1>4, <1>6, <2>2
  <2> HIDE DEF x, t
  <2>4. TextSizesFit => ReasonOf(index, v.said, t.text)
    BY <2>1, <2>3 DEF ReasonOf
  <2>5. CaseDone(v.said, t)
    BY <1>1, <1>2, <1>4, <1>5, <1>8, <2>1, <2>4 DEF CaseDone, t
  <2> QED
    BY <1>4, <2>1, <2>5
<1> QED
  BY <1>3, <1>7, <1>8

\* An insertion that fails before the script is asked ends the case too.
LEMMA InsertFailsCase ==
  ASSUME HInv, InsertFails
  PROVE  \E said \in Said, text \in Shows : CaseDone(said, text)
<1>1. pc = "cases" /\ index <= Cases /\ Done("unreached", Rejected(last_reason))
  BY DEF InsertFails, AtCase
<1>2. /\ eng \in Engines /\ (~eng.live => eng = NoEngine)
      /\ index \in Nat /\ index \notin rows /\ last_reason \in Seq(Nat)
  BY CaseFacts
<1>3. "unreached" \in Said
  BY DEF Said
<1>4. Rejected(last_reason) \in Shows /\ Rejected(last_reason).kind = "rejected"
  BY <1>2, TextsAreSequences DEF Rejected, Shows
<1>5. ReasonOf(index, "unreached", Rejected(last_reason).text)
  BY DEF ReasonOf
<1>6. CaseDone("unreached", Rejected(last_reason))
  BY <1>1, <1>2, <1>3, <1>4, <1>5 DEF CaseDone, InsertFails
<1> QED
  BY <1>3, <1>4, <1>6

\* firmware-gate-c.
LEMMA CheckDeviceCase ==
  ASSUME HInv, CheckDevice
  PROVE  \E said \in Said, text \in Shows : CaseDone(said, text)
<1>1. /\ pc = "cases" /\ index <= Cases /\ program = "firmware"
      /\ UNCHANGED <<last_reason, rows>>
  BY DEF CheckDevice, AtCase
<1>2. /\ eng \in Engines /\ (~eng.live => eng = NoEngine)
      /\ index \in Nat /\ index \notin rows /\ last_reason \in Seq(Nat)
  BY CaseFacts
<1>3. /\ Decisions \in SUBSET Answers /\ Explanations \in SUBSET Answers
      /\ Decisions \cup {"missing"} \subseteq Said \ {"unasked", "unreached"}
  BY DEF Answers, Said, Decisions, Explanations, Evaluations
<1>4. \A x \in {<< >>, Note(index), NoReasonText} : x \in TextsOf(index) /\ x \in Seq(Nat)
  BY <1>2, TextsAreSequences DEF TextsOf
<1>5. ASSUME NEW said \in Decisions \cup {"missing"}, NEW k \in {"fail closed", "allow", "deny"},
             NEW x \in {<< >>, Note(index), NoReasonText}, Done(said, Show(k, x)),
             k = "allow" => said = "true", said = "true" => x = << >>,
             eng' \in Engines, eng'.live = eng.live, ~eng.live => eng' = eng
      PROVE  CaseDone(said, Show(k, x)) /\ said \in Said /\ Show(k, x) \in Shows
  <2>1. Show(k, x) \in Shows /\ Show(k, x).kind = k /\ Show(k, x).text = x
    BY <1>4, <1>5 DEF Show, Shows
  <2>2. ReasonOf(index, said, x)
    BY <1>1, <1>3, <1>4, <1>5 DEF ReasonOf
  <2>3. said \in Said
    BY <1>3
  <2>4. k \in {"ok", "allow"} => said = "true"
    BY <1>5
  <2>5. ~eng'.live => eng' = NoEngine
    BY <1>2, <1>5
  <2> QED
    BY <1>1, <1>2, <1>5, <2>1, <2>2, <2>3, <2>4, <2>5 DEF CaseDone
<1>6. PICK r \in engine_call(eng, index, Decisions) :
        \/ r.rc # 0 /\ eng' = r.eng /\ Done(r.said, Show("fail closed", << >>))
        \/ r.rc = 0 /\ gengo_wire_as_bool(r.out) /\ eng' = r.eng /\ Done(r.said, Show("allow", << >>))
        \/ /\ r.rc = 0 /\ ~gengo_wire_as_bool(r.out)
           /\ \E y \in engine_call(r.eng, index, Explanations) :
                /\ eng' = y.eng
                /\ Done(r.said, Show("deny", IF y.rc # 0 THEN << >>
                        ELSE IF gengo_wire_read_str(y.out, HostBuf) # << >>
                        THEN gengo_wire_read_str(y.out, HostBuf) ELSE NoReasonText))
  BY DEF CheckDevice
<1>7. CallOutcome(eng, index, r) /\ r.said \in Decisions \cup {"missing"}
  BY <1>2, <1>3, CallOutcomes, CallAnswers
<1>8. /\ r.eng \in Engines /\ r.eng.live = eng.live /\ (~eng.live => r.eng = eng)
      /\ (r.rc = 0 /\ gengo_wire_as_bool(r.out)) <=> r.said = "true"
  BY <1>7 DEF CallOutcome
<1>9. CASE r.rc # 0 /\ eng' = r.eng /\ Done(r.said, Show("fail closed", << >>))
  BY <1>5, <1>7, <1>8, <1>9
<1>10. CASE r.rc = 0 /\ gengo_wire_as_bool(r.out) /\ eng' = r.eng /\ Done(r.said, Show("allow", << >>))
  <2>1. r.said = "true"
    BY <1>8, <1>10
  <2> QED
    BY <1>5, <1>7, <1>8, <1>10, <2>1
<1>11. ASSUME r.rc = 0, ~gengo_wire_as_bool(r.out),
              NEW y \in engine_call(r.eng, index, Explanations), eng' = y.eng,
              Done(r.said, Show("deny", IF y.rc # 0 THEN << >>
                        ELSE IF gengo_wire_read_str(y.out, HostBuf) # << >>
                        THEN gengo_wire_read_str(y.out, HostBuf) ELSE NoReasonText))
       PROVE  \E said \in Said, text \in Shows : CaseDone(said, text)
  <2>1. r.said \in {"false", "other"} /\ r.eng.note \in {Note(index), << >>}
    BY <1>2, <1>11, SayingNo
  <2>2. CallOutcome(r.eng, index, y)
    BY <1>2, <1>3, <1>8, CallOutcomes
  <2>3. eng' \in Engines /\ eng'.live = eng.live /\ (~eng.live => eng' = eng)
    BY <1>8, <1>11, <2>2 DEF CallOutcome
  <2>4. y.rc = 0 => gengo_wire_read_str(y.out, HostBuf) \in {Note(index), << >>}
    BY <1>2, <1>8, <2>1, ReasonGot
  <2>5. PICK x : x = IF y.rc # 0 THEN << >>
                     ELSE IF gengo_wire_read_str(y.out, HostBuf) # << >>
                     THEN gengo_wire_read_str(y.out, HostBuf) ELSE NoReasonText
    OBVIOUS
  <2>6. x \in {<< >>, Note(index), NoReasonText} /\ Done(r.said, Show("deny", x))
    BY <1>11, <2>4, <2>5
  <2> QED
    BY <1>5, <1>7, <2>1, <2>3, <2>6
<1> QED
  BY <1>6, <1>9, <1>10, <1>11

\* bundle-c.
LEMMA EvaluateStudentCase ==
  ASSUME HInv, EvaluateStudent
  PROVE  \E said \in Said, text \in Shows : CaseDone(said, text)
<1>1. /\ pc = "cases" /\ index <= Cases /\ program = "bundle"
      /\ UNCHANGED <<last_reason, rows>>
  BY DEF EvaluateStudent, AtCase
<1>2. /\ eng \in Engines /\ (~eng.live => eng = NoEngine)
      /\ index \in Nat /\ index \notin rows /\ last_reason \in Seq(Nat)
  BY CaseFacts
<1>3. /\ Evaluations \in SUBSET Answers
      /\ Evaluations \cup {"missing"} \subseteq Said \ {"unasked", "unreached", "true"}
  BY DEF Answers, Said, Decisions, Explanations, Evaluations
<1>4. PICK r \in engine_call(eng, index, Evaluations) :
        /\ eng' = r.eng
        /\ Done(r.said, IF r.rc = 0 THEN Show("line", gengo_wire_read_str(r.out, HostBuf))
                                    ELSE Show("none", << >>))
  BY DEF EvaluateStudent
<1>5. CallOutcome(eng, index, r) /\ r.said \in Evaluations \cup {"missing"}
  BY <1>2, <1>3, CallOutcomes, CallAnswers
<1>6. r.rc = 0 => gengo_wire_read_str(r.out, HostBuf) \in {Note(index), << >>}
  <2> SUFFICES ASSUME r.rc = 0 PROVE gengo_wire_read_str(r.out, HostBuf) \in {Note(index), << >>}
    OBVIOUS
  <2>1. r.said \in {"line", "null"}
    BY <1>5 DEF CallOutcome, Evaluations
  <2>2. /\ r.said = "line" => r.out = Handed(StringValue(Note(index)))
        /\ r.said = "null" => r.out = Handed(NullValue)
    BY <1>2, <1>3, CallAnswers
  <2>3. Note(index) \in Seq(Nat) /\ Len(Note(index)) < HostBuf
    BY <1>2, TextsAreSequences, HostEngineAssumption DEF Note
  <2>4. gengo_wire_read_str(Handed(StringValue(Note(index))), HostBuf) = Note(index)
    BY <2>3, TextRead
  <2>5. gengo_wire_read_str(Handed(NullValue), HostBuf) = << >>
    BY ReadNull
  <2> QED
    BY <2>1, <2>2, <2>4, <2>5
<1>7. \E k \in {"line", "none"}, x \in {Note(index), << >>} : Done(r.said, Show(k, x))
  BY <1>4, <1>6
<1>8. PICK k \in {"line", "none"}, x \in {Note(index), << >>} : Done(r.said, Show(k, x))
  BY <1>7
<1>9. x \in TextsOf(index) /\ x \in Seq(Nat)
  BY <1>2, <1>8, TextsAreSequences DEF TextsOf
<1>10. Show(k, x) \in Shows /\ Show(k, x).kind = k /\ Show(k, x).text = x
  BY <1>8, <1>9 DEF Show, Shows
<1>11. r.said \in Said \ {"unasked", "unreached", "true"}
  BY <1>3, <1>5
<1>12. ReasonOf(index, r.said, x)
  BY <1>1, <1>9, <1>11 DEF ReasonOf
<1>13. eng' \in Engines /\ (~eng'.live => eng' = NoEngine)
  BY <1>2, <1>4, <1>5 DEF CallOutcome
<1>14. CaseDone(r.said, Show(k, x))
  BY <1>1, <1>2, <1>8, <1>10, <1>11, <1>12, <1>13 DEF CaseDone
<1> QED
  BY <1>10, <1>11, <1>14

\* The loop over the cases.
LEMMA CaseSteps ==
  ASSUME HInv, InsertOrder \/ InsertFails \/ CheckDevice \/ EvaluateStudent
  PROVE  \E said \in Said, text \in Shows : CaseDone(said, text)
  BY InsertOrderCase, InsertFailsCase, CheckDeviceCase, EvaluateStudentCase

\* However a case ends.
LEMMA CaseDoneKeeps ==
  ASSUME HInv, program # "acl", UNCHANGED <<program, aclVars>>,
         NEW said \in Said, NEW text \in Shows, CaseDone(said, text)
  PROVE  HInv'
  BY DoneKeeps DEF CaseDone
----------------------------------------------------------------------------
(* What crosses the boundary.  The prover knows no law of powers with a    *)
(* variable exponent: the one that is needed, which holds for every        *)
(* positive width, is a hypothesis of what follows.                        *)

PowersOfTwo ==
    /\ \A w \in {Width, LenWidth} :
        2^(w - 1) \in Nat \ {0} /\ 2^w = 2 * 2^(w - 1)
    /\ 2^RuneWidth \in Nat

\* The wire of an integer.
LEMMA IntWire ==
  ASSUME NEW n
  PROVE  /\ gengo_wire_int(n).tag = TagNumber /\ gengo_wire_int(n).flags = FlagInteger
         /\ gengo_wire_int(n).data = <<Bits(n)>>
  BY DEF gengo_wire_int, gengo_wire_null

\* The engine's wires of the four kinds of number: the flags tell them
\* apart.
LEMMA NumberWires ==
  ASSUME NEW d
  PROVE  /\ valueToWire(Value("int", d)).tag = TagNumber
         /\ valueToWire(Value("int", d)).flags = FlagInteger
         /\ valueToWire(Value("int", d)).data = <<Bits(d[1])>>
         /\ valueToWire(Value("decimal", d)).tag = TagNumber
         /\ valueToWire(Value("decimal", d)).flags = FlagDecimal
         /\ valueToWire(Value("decimal", d)).data = <<Bits(d[1])>>
         /\ valueToWire(Value("float", d)).tag = TagNumber
         /\ valueToWire(Value("float", d)).flags = 0
         /\ valueToWire(Value("float", d)).data = d
         /\ valueToWire(Value("rune", d)).tag = TagNumber
         /\ valueToWire(Value("rune", d)).flags = FlagRune
         /\ valueToWire(Value("rune", d)).data = d
<1>1. /\ Value("int", d).kind = "int" /\ Value("int", d).data = d
      /\ Value("decimal", d).kind = "decimal" /\ Value("decimal", d).data = d
      /\ Value("float", d).kind = "float" /\ Value("float", d).data = d
      /\ Value("rune", d).kind = "rune" /\ Value("rune", d).data = d
  BY DEF Value
<1>2. valueToWire(Value("int", d)) = [gengo_wire_int(d[1]) EXCEPT !.flags = FlagInteger]
  BY <1>1 DEF valueToWire
<1>3. valueToWire(Value("decimal", d)) = [gengo_wire_int(d[1]) EXCEPT !.flags = FlagDecimal]
  BY <1>1 DEF valueToWire
<1>4. valueToWire(Value("float", d)) = MakeWire(TagNumber, TRUE, d, 0)
  BY <1>1 DEF valueToWire
<1>5. valueToWire(Value("rune", d)) = [MakeWire(TagNumber, TRUE, d, 0) EXCEPT !.flags = FlagRune]
  BY <1>1 DEF valueToWire
<1>6. /\ valueToWire(Value("int", d)).tag = TagNumber
      /\ valueToWire(Value("int", d)).flags = FlagInteger
      /\ valueToWire(Value("int", d)).data = <<Bits(d[1])>>
  BY <1>2 DEF gengo_wire_int, gengo_wire_null
<1>7. /\ valueToWire(Value("decimal", d)).tag = TagNumber
      /\ valueToWire(Value("decimal", d)).flags = FlagDecimal
      /\ valueToWire(Value("decimal", d)).data = <<Bits(d[1])>>
  BY <1>3 DEF gengo_wire_int, gengo_wire_null
<1>8. /\ valueToWire(Value("float", d)).tag = TagNumber
      /\ valueToWire(Value("float", d)).flags = 0
      /\ valueToWire(Value("float", d)).data = d
  BY <1>4 DEF MakeWire, gengo_wire_null
<1>9. /\ valueToWire(Value("rune", d)).tag = TagNumber
      /\ valueToWire(Value("rune", d)).flags = FlagRune
      /\ valueToWire(Value("rune", d)).data = d
  BY <1>5 DEF MakeWire, gengo_wire_null
<1> QED
  BY <1>6, <1>7, <1>8, <1>9

\* The flags decide the kind of number.
LEMMA Kinds ==
  /\ NumberKind(FlagInteger) = "int" /\ NumberKind(FlagDecimal) = "decimal"
  /\ NumberKind(FlagRune) = "rune" /\ NumberKind(0) = "float"
  /\ FlagInteger % 2 = FlagInteger /\ 0 % 2 # FlagInteger
<1>1. /\ 1 \div 2 = 0 /\ 1 \div 4 = 0 /\ 1 % 2 = 1 /\ 0 % 2 = 0 /\ 2 \div 2 = 1
      /\ 4 \div 2 = 2 /\ 2 % 2 = 0 /\ 4 \div 4 = 1 /\ 0 \div 2 = 0 /\ 0 \div 4 = 0
  OBVIOUS
<1> QED
  BY <1>1 DEF NumberKind, FlagInteger, FlagDecimal, FlagRune

\* What the engine makes of a number.
LEMMA NumberValue ==
  ASSUME NEW w, w.tag = TagNumber
  PROVE  wireToValue(w) = LET k == NumberKind(w.flags)
                          IN  IF k = "rune" /\ w.data[1] >= 2^RuneWidth THEN Trap
                              ELSE Value(k, IF k \in {"int", "decimal"} THEN <<AsI64(w.data[1])>>
                                            ELSE w.data)
<1>1. TagNumber # TagBoolean
  BY DEF TagNumber, TagBoolean
<1>2. TagNumber # TagString /\ TagNumber # TagError
  BY DEF TagNumber, TagString, TagError
<1> QED
  BY <1>1, <1>2 DEF wireToValue

\* A number of a signed range, taken modulo the size of the range and read
\* back.
LEMMA SignedBits ==
  ASSUME NEW H \in Nat \ {0}, NEW n \in (-H) .. (H - 1)
  PROVE  LET b == n % (2 * H) IN (IF b >= H THEN b - 2 * H ELSE b) = n
  OBVIOUS

\* Two's complement is exact over the whole range.
LEMMA TwosComplement ==
  ASSUME PowersOfTwo
  PROVE  /\ \A n \in Integers64 : AsI64(Bits(n)) = n
         /\ \A b \in Words : AsI64(b) \in Integers64
<1> DEFINE H == 2^(Width - 1)
<1>1. H \in Nat \ {0} /\ 2^Width = 2 * H
  BY DEF PowersOfTwo
<1>2. /\ Integers64 = (-H) .. (H - 1) /\ Words = 0 .. (2 * H - 1)
      /\ \A n : Bits(n) = n % (2 * H)
      /\ \A b : AsI64(b) = IF b >= H THEN b - 2 * H ELSE b
  BY <1>1 DEF Integers64, Words, Bits, AsI64
<1> HIDE DEF H
<1>3. ASSUME NEW n \in Integers64 PROVE AsI64(Bits(n)) = n
  BY <1>1, <1>2, SignedBits
<1>4. ASSUME NEW b \in Words PROVE AsI64(b) \in Integers64
  BY <1>1, <1>2
<1> QED
  BY <1>3, <1>4

\* strlen stops at the first NUL: a C string is a beginning of its buffer.
LEMMA CStringFacts ==
  ASSUME NEW s \in Seq(Chars)
  PROVE  /\ Len(CString(s)) \in 0 .. Len(s)
         /\ CString(s) = SubSeq(s, 1, Len(CString(s)))
<1> DEFINE I == {i \in 1 .. Len(s) : s[i] = 0}
<1>0. Len(s) \in Nat /\ DOMAIN s = 1 .. Len(s)
  BY LenProperties
<1>1. CASE 0 \in Range(s)
  <2>1. I \in SUBSET Nat /\ I # {}
    BY <1>0, <1>1 DEF Range
  <2>2. \E x \in I : \A y \in I : x <= y
    BY <2>1, Smallest
  <2>3. Min(I) \in I
    BY <2>2 DEF Min
  <2>4. CString(s) = SubSeq(s, 1, Min(I) - 1)
    BY <1>1, <2>1 DEF CString, SelectInSeq
  <2> DEFINE m == Min(I) - 1
  <2>5. m \in 0 .. Len(s)
    BY <1>0, <2>3
  <2> HIDE DEF m
  <2>6. Len(SubSeq(s, 1, m)) = m
    BY <1>0, <2>5, SubSeqProperties
  <2> QED
    BY <2>4, <2>5, <2>6 DEF m
<1>2. CASE 0 \notin Range(s)
  <2>1. CString(s) = s
    BY <1>2 DEF CString
  <2>2. SubSeq(s, 1, Len(s)) = s
    BY <1>0, SubSeqProperties, SeqEqual
  <2> QED
    BY <1>0, <2>1, <2>2
<1> QED
  BY <1>1, <1>2

\* A number that goes out of the engine and comes back.
LEMMA NumberBack ==
  ASSUME NEW d
  PROVE  /\ wireToValue(valueToWire(Value("int", d))) = Value("int", <<AsI64(Bits(d[1]))>>)
         /\ wireToValue(valueToWire(Value("decimal", d))) = Value("decimal", <<AsI64(Bits(d[1]))>>)
         /\ wireToValue(valueToWire(Value("float", d))) = Value("float", d)
         /\ ~(d[1] >= 2^RuneWidth) =>
              wireToValue(valueToWire(Value("rune", d))) = Value("rune", d)
<1> DEFINE b == Bits(d[1])
<1>1. <<b>>[1] = b
  OBVIOUS
<1>2. wireToValue(valueToWire(Value("int", d))) = Value("int", <<AsI64(<<b>>[1])>>)
  <2> DEFINE w == valueToWire(Value("int", d))
  <2>1. w.tag = TagNumber /\ w.flags = FlagInteger /\ w.data = <<b>>
    BY NumberWires
  <2> HIDE DEF w, b
  <2>2. wireToValue(w) = LET k == NumberKind(FlagInteger)
                         IN  IF k = "rune" /\ w.data[1] >= 2^RuneWidth THEN Trap
                             ELSE Value(k, IF k \in {"int", "decimal"} THEN <<AsI64(w.data[1])>>
                                           ELSE w.data)
    BY <2>1, NumberValue
  <2>3. wireToValue(w) = Value("int", <<AsI64(<<b>>[1])>>)
    BY <2>1, <2>2, Kinds
  <2> QED
    BY <2>3 DEF w
<1>3. wireToValue(valueToWire(Value("decimal", d))) = Value("decimal", <<AsI64(<<b>>[1])>>)
  <2> DEFINE w == valueToWire(Value("decimal", d))
  <2>1. w.tag = TagNumber /\ w.flags = FlagDecimal /\ w.data = <<b>>
    BY NumberWires
  <2> HIDE DEF w, b
  <2>2. wireToValue(w) = LET k == NumberKind(FlagDecimal)
                         IN  IF k = "rune" /\ w.data[1] >= 2^RuneWidth THEN Trap
                             ELSE Value(k, IF k \in {"int", "decimal"} THEN <<AsI64(w.data[1])>>
                                           ELSE w.data)
    BY <2>1, NumberValue
  <2>3. wireToValue(w) = Value("decimal", <<AsI64(<<b>>[1])>>)
    BY <2>1, <2>2, Kinds
  <2> QED
    BY <2>3 DEF w
<1>4. wireToValue(valueToWire(Value("float", d))) = Value("float", d)
  <2> DEFINE w == valueToWire(Value("float", d))
  <2>1. w.tag = TagNumber /\ w.flags = 0 /\ w.data = d
    BY NumberWires
  <2> HIDE DEF w, b
  <2>2. wireToValue(w) = LET k == NumberKind(0)
                         IN  IF k = "rune" /\ w.data[1] >= 2^RuneWidth THEN Trap
                             ELSE Value(k, IF k \in {"int", "decimal"} THEN <<AsI64(w.data[1])>>
                                           ELSE w.data)
    BY <2>1, NumberValue
  <2>3. wireToValue(w) = Value("float", d)
    BY <2>1, <2>2, Kinds
  <2> QED
    BY <2>3 DEF w
<1>5. ASSUME ~(d[1] >= 2^RuneWidth)
      PROVE  wireToValue(valueToWire(Value("rune", d))) = Value("rune", d)
  <2> DEFINE w == valueToWire(Value("rune", d))
  <2>1. w.tag = TagNumber /\ w.flags = FlagRune /\ w.data = d
    BY NumberWires
  <2> HIDE DEF w, b
  <2>2. wireToValue(w) = LET k == NumberKind(FlagRune)
                         IN  IF k = "rune" /\ w.data[1] >= 2^RuneWidth THEN Trap
                             ELSE Value(k, IF k \in {"int", "decimal"} THEN <<AsI64(w.data[1])>>
                                           ELSE w.data)
    BY <2>1, NumberValue
  <2>3. wireToValue(w) = Value("rune", d)
    BY <1>5, <2>1, <2>2, Kinds
  <2> QED
    BY <2>3 DEF w
<1> QED
  BY <1>1, <1>2, <1>3, <1>4, <1>5

\* Numbers and booleans cross unchanged.
LEMMA NumbersDoCross ==
  ASSUME PowersOfTwo
  PROVE  NumbersCross
<1>1. ASSUME NEW n \in Integers64
      PROVE  /\ wireToValue(gengo_wire_int(n)) = IntValue(n)
             /\ gengo_wire_as_int(valueToWire(IntValue(n))) = n
             /\ gengo_wire_as_float(valueToWire(IntValue(n))) = ToDouble(n)
  <2>1. AsI64(Bits(n)) = n
    BY <1>1, TwosComplement
  <2>2. wireToValue(gengo_wire_int(n)) = Value("int", <<AsI64(<<Bits(n)>>[1])>>)
    BY IntWire, Kinds, NumberValue
  <2>3. <<Bits(n)>>[1] = Bits(n) /\ <<n>>[1] = n
    OBVIOUS
  <2>4. /\ valueToWire(IntValue(n)).tag = TagNumber
        /\ valueToWire(IntValue(n)).flags = FlagInteger
        /\ valueToWire(IntValue(n)).data = <<Bits(n)>>
    BY <2>3, NumberWires DEF IntValue
  <2>5. /\ gengo_wire_as_int(valueToWire(IntValue(n))) = AsI64(Bits(n))
        /\ gengo_wire_as_float(valueToWire(IntValue(n))) = ToDouble(AsI64(Bits(n)))
    BY <2>3, <2>4, Kinds DEF gengo_wire_as_int, gengo_wire_as_float
  <2> QED
    BY <2>1, <2>2, <2>3, <2>5 DEF IntValue
<1>2. ASSUME NEW b \in Words
      PROVE  /\ wireToValue(gengo_wire_float(b)) = Value("float", <<b>>)
             /\ gengo_wire_as_float(valueToWire(Value("float", <<b>>))) = b
  <2>1. /\ gengo_wire_float(b).tag = TagNumber /\ gengo_wire_float(b).flags = 0
        /\ gengo_wire_float(b).data = <<b>>
    BY DEF gengo_wire_float, gengo_wire_null
  <2>2. wireToValue(gengo_wire_float(b)) = Value("float", <<b>>)
    BY <2>1, Kinds, NumberValue
  <2>3. gengo_wire_as_float(valueToWire(Value("float", <<b>>))) = <<b>>[1]
    BY NumberWires, Kinds DEF gengo_wire_as_float
  <2> QED
    BY <2>2, <2>3
<1>3. ASSUME NEW k \in {"int", "float", "decimal"}, NEW b \in Words
      PROVE  LET v == Value(k, <<IF k = "float" THEN b ELSE AsI64(b)>>)
             IN  wireToValue(valueToWire(v)) = v
  <2>1. AsI64(b) \in Integers64
    BY TwosComplement
  <2> DEFINE n == AsI64(b)
  <2> HIDE DEF n
  <2>2. AsI64(Bits(n)) = n
    BY <2>1, TwosComplement DEF n
  <2>3. <<Bits(n)>>[1] = Bits(n) /\ <<n>>[1] = n
    OBVIOUS
  <2>4. CASE k = "int"
    <3>1. wireToValue(valueToWire(Value("int", <<n>>))) = Value("int", <<AsI64(Bits(<<n>>[1]))>>)
      BY NumberBack
    <3>2. <<IF k = "float" THEN b ELSE AsI64(b)>> = <<n>>
      BY <2>4 DEF n
    <3>3. wireToValue(valueToWire(Value("int", <<n>>))) = Value("int", <<n>>)
      BY <2>2, <2>3, <3>1
    <3> QED
      BY <2>4, <3>2, <3>3
  <2>5. CASE k = "decimal"
    <3>1. wireToValue(valueToWire(Value("decimal", <<n>>))) = Value("decimal", <<AsI64(Bits(<<n>>[1]))>>)
      BY NumberBack
    <3>2. <<IF k = "float" THEN b ELSE AsI64(b)>> = <<n>>
      BY <2>5 DEF n
    <3>3. wireToValue(valueToWire(Value("decimal", <<n>>))) = Value("decimal", <<n>>)
      BY <2>2, <2>3, <3>1
    <3> QED
      BY <2>5, <3>2, <3>3
  <2>6. CASE k = "float"
    <3>1. wireToValue(valueToWire(Value("float", <<b>>))) = Value("float", <<b>>)
      BY NumberBack
    <3>2. <<IF k = "float" THEN b ELSE AsI64(b)>> = <<b>>
      BY <2>6
    <3> QED
      BY <2>6, <3>1, <3>2
  <2> QED
    BY <2>4, <2>5, <2>6
<1>5. ASSUME NEW b \in Runes
      PROVE  wireToValue(valueToWire(Value("rune", <<b>>))) = Value("rune", <<b>>)
  <2>1. <<b>>[1] = b
    OBVIOUS
  <2>2. ~(b >= 2^RuneWidth)
    BY DEF PowersOfTwo, Runes
  <2> QED
    BY <2>1, <2>2, NumberBack
<1>4. ASSUME NEW b \in BOOLEAN
      PROVE  /\ wireToValue(gengo_wire_bool(b)) = BoolValue(b)
             /\ gengo_wire_as_bool(valueToWire(BoolValue(b))) = b
  <2> DEFINE w == gengo_wire_bool(b)
             x == valueToWire(BoolValue(b))
  <2>1. w.tag = TagBoolean /\ w.data = <<IF b THEN 1 ELSE 0>>
    BY DEF gengo_wire_bool, gengo_wire_null
  <2>3. <<1>> # <<0>>
    OBVIOUS
  <2>4. wireToValue(w) = Value("boolean", <<IF w.data # <<0>> THEN 1 ELSE 0>>)
    <3>1. TagBoolean # TagNumber /\ TagBoolean # TagString /\ TagBoolean # TagError
      BY DEF TagBoolean, TagNumber, TagString, TagError
    <3> HIDE DEF w
    <3> QED
      BY <2>1, <3>1 DEF wireToValue, BoolValue
  <2>5. <<IF w.data # <<0>> THEN 1 ELSE 0>> = <<IF b THEN 1 ELSE 0>>
    BY <2>1, <2>3
  <2>6. BoolValue(b) = Value("boolean", <<IF b THEN 1 ELSE 0>>)
    BY DEF BoolValue
  <2>7. x.tag = TagBoolean /\ x.data = <<IF b THEN 1 ELSE 0>>
    <3> DEFINE d == <<IF b THEN 1 ELSE 0>>
    <3> HIDE DEF d
    <3>1. Value("boolean", d).kind = "boolean" /\ Value("boolean", d).data = d
      BY DEF Value
    <3>2. valueToWire(Value("boolean", d)) = MakeWire(TagBoolean, d = <<1>>, d, 0)
      BY <3>1 DEF valueToWire
    <3> QED
      BY <2>6, <3>2 DEF d, MakeWire, gengo_wire_null
  <2>8. gengo_wire_as_bool(x) = b
    BY <2>3, <2>7 DEF gengo_wire_as_bool
  <2> QED
    BY <2>4, <2>5, <2>6, <2>8
<1> QED
  BY <1>1, <1>2, <1>3, <1>4, <1>5 DEF NumbersCross

\* The engine takes from a string's wire the len characters it points to.
LEMMA StringBack ==
  ASSUME NEW w, NEW s, NEW n, w.data = s, w.len = n
  PROVE  /\ w.tag = TagString => wireToValue(w) = StringValue(SubSeq(s, 1, n))
         /\ w.tag = TagError => wireToValue(w) = Value("error", SubSeq(s, 1, n))
<1>1. /\ TagString # TagBoolean /\ TagString # TagNumber /\ TagString # TagError
      /\ TagError # TagBoolean /\ TagError # TagNumber
  BY DEF TagBoolean, TagNumber, TagString, TagError
<1> QED
  BY <1>1 DEF wireToValue

\* A beginning of a beginning.
LEMMA Beginnings ==
  ASSUME NEW s \in Seq(Chars), NEW n \in Nat, n <= Len(s)
  PROVE  /\ Len(SubSeq(s, 1, n)) = n
         /\ SubSeq(SubSeq(s, 1, n), 1, n) = SubSeq(s, 1, n)
         /\ n = Len(s) => SubSeq(s, 1, n) = s
<1>0. Len(s) \in Nat /\ DOMAIN s = 1 .. Len(s)
  BY LenProperties
<1> DEFINE t == SubSeq(s, 1, n)
<1>1. t \in Seq(Chars) /\ Len(t) = n /\ \A i \in 1 .. n : t[i] = s[i]
  BY <1>0, SubSeqProperties
<1>2. n = Len(s) => t = s
  <2> HIDE DEF t
  <2> QED
    BY <1>0, <1>1, SeqEqual
<1>3. SubSeq(t, 1, n) = t
  <2> HIDE DEF t
  <2>1. /\ SubSeq(t, 1, n) \in Seq(Chars) /\ Len(SubSeq(t, 1, n)) = n
        /\ \A i \in 1 .. n : SubSeq(t, 1, n)[i] = t[i]
    BY <1>1, SubSeqProperties
  <2> QED
    BY <1>1, <2>1, SeqEqual
<1> QED
  BY <1>1, <1>2, <1>3

\* A beginning of a beginning is one.
LEMMA ShorterBeginnings ==
  ASSUME NEW s \in Seq(Chars), NEW m \in Nat, m <= Len(s), NEW n \in Nat, n <= m
  PROVE  SubSeq(SubSeq(s, 1, m), 1, n) = SubSeq(s, 1, n)
<1>0. Len(s) \in Nat /\ n <= Len(s)
  BY LenProperties
<1> DEFINE t == SubSeq(s, 1, m)
<1>1. t \in Seq(Chars) /\ Len(t) = m /\ \A i \in 1 .. m : t[i] = s[i]
  BY <1>0, SubSeqProperties
<1> HIDE DEF t
<1>2. /\ SubSeq(t, 1, n) \in Seq(Chars) /\ Len(SubSeq(t, 1, n)) = n
      /\ \A i \in 1 .. n : SubSeq(t, 1, n)[i] = t[i]
  BY <1>1, SubSeqProperties
<1>3. /\ SubSeq(s, 1, n) \in Seq(Chars) /\ Len(SubSeq(s, 1, n)) = n
      /\ \A i \in 1 .. n : SubSeq(s, 1, n)[i] = s[i]
  BY <1>0, SubSeqProperties
<1>4. \A i \in 1 .. n : SubSeq(t, 1, n)[i] = SubSeq(s, 1, n)[i]
  BY <1>1, <1>2, <1>3
<1>5. SubSeq(t, 1, n) = SubSeq(s, 1, n)
  BY <1>2, <1>3, <1>4, SeqEqual
<1> QED
  BY <1>5 DEF t

\* What the scratch buffer leaves of a string.
LEMMA ScratchFacts ==
  ASSUME NEW s \in Seq(Chars), NEW t \in setStringScratch(s)
  PROVE  /\ t \in Seq(Chars) /\ Len(t) \in Nat /\ Len(t) <= Len(s)
         /\ t = SubSeq(s, 1, Len(t))
         /\ t = s \/ (Len(s) > MaxStringScratch /\ Len(t) = MaxStringScratch)
<1>0. Len(s) \in Nat /\ MaxStringScratch \in Nat
  BY LenProperties, WireAssumption
<1>1. CASE t = s
  BY <1>0, <1>1, Beginnings
<1>2. CASE t # s
  <2>1. Len(s) > MaxStringScratch /\ t = SubSeq(s, 1, MaxStringScratch)
    BY <1>0, <1>2 DEF setStringScratch
  <2>2. \A i \in 1 .. MaxStringScratch : s[i] \in Chars
    BY <1>0, <2>1, ElementOfSeq
  <2>3. t \in Seq(Chars) /\ Len(t) = MaxStringScratch
    BY <1>0, <2>1, <2>2, SubSeqProperties
  <2> QED
    BY <1>0, <2>1, <2>3
<1> QED
  BY <1>1, <1>2

\* Strings of any length cross whole, but for what the scratch buffer and
\* the reader's leave of them.
LEMMA StringsDoCross == StringsCross(Seq(Chars))
<1> SUFFICES ASSUME NEW s \in Seq(Chars)
             PROVE  /\ wireToValue(gengo_wire_str_n(s, Len(s))) = StringValue(s)
                    /\ wireToValue(gengo_wire_str(s)) = StringValue(CString(s))
                    /\ \A k \in {"string", "error"} :
                          LET w == valueToWire(Value(k, s))
                          IN  IF Len(s) < 2^LenWidth THEN wireToValue(w) = Value(k, s)
                              ELSE w = WireError
                    /\ \A w \in valueToWireWithScratch(StringValue(s)) :
                          /\ wireToValue(w).kind = "string"
                          /\ IsPrefix(wireToValue(w).data, s)
                          /\ wireToValue(w).data # s =>
                                /\ Len(s) > MaxStringScratch
                                /\ Len(wireToValue(w).data) = MaxStringScratch
                          /\ \A size \in 1 .. MaxStringScratch :
                                LET got == gengo_wire_read_str(w, size)
                                IN  /\ IsPrefix(got, s)
                                    /\ Len(got) = IF Len(s) < size THEN Len(s) ELSE size - 1
  BY DEF StringsCross
<1>0. Len(s) \in Nat /\ MaxStringScratch \in Nat
  BY LenProperties, WireAssumption
<1>1. ASSUME NEW n \in Nat, n <= Len(s)
      PROVE  wireToValue(gengo_wire_str_n(s, n)) = StringValue(SubSeq(s, 1, n))
  <2> DEFINE w == gengo_wire_str_n(s, n)
  <2>1. w.tag = TagString /\ w.data = SubSeq(s, 1, n) /\ w.len = n
    BY DEF gengo_wire_str_n, gengo_wire_null
  <2> HIDE DEF w
  <2>2. wireToValue(w) = StringValue(SubSeq(SubSeq(s, 1, n), 1, n))
    BY <2>1, StringBack
  <2> QED
    BY <1>1, <2>2, Beginnings DEF w
<1>2. wireToValue(gengo_wire_str_n(s, Len(s))) = StringValue(s)
  <2>1. SubSeq(s, 1, Len(s)) = s
    BY <1>0, Beginnings
  <2>2. wireToValue(gengo_wire_str_n(s, Len(s))) = StringValue(SubSeq(s, 1, Len(s)))
    BY <1>0, <1>1
  <2> QED
    BY <2>1, <2>2
<1>3. wireToValue(gengo_wire_str(s)) = StringValue(CString(s))
  <2>1. Len(CString(s)) \in Nat /\ Len(CString(s)) <= Len(s)
    BY <1>0, CStringFacts
  <2> QED
    BY <1>1, <2>1, CStringFacts DEF gengo_wire_str
<1>4. ASSUME NEW k \in {"string", "error"}
      PROVE  LET w == valueToWire(Value(k, s))
             IN  IF Len(s) < 2^LenWidth THEN wireToValue(w) = Value(k, s) ELSE w = WireError
  <2> DEFINE w == valueToWire(Value(k, s))
             tag == IF k = "string" THEN TagString ELSE TagError
  <2>1. SubSeq(s, 1, Len(s)) = s
    BY <1>0, Beginnings
  <2>2. w = LongWire(tag, s)
    <3>1. Value(k, s).kind = k /\ Value(k, s).data = s
      BY DEF Value
    <3>2. CASE k = "string"
      BY <3>1, <3>2 DEF valueToWire
    <3>3. CASE k = "error"
      BY <3>1, <3>3 DEF valueToWire
    <3> QED
      BY <3>2, <3>3
  <2> HIDE DEF w
  <2>3. CASE Len(s) < 2^LenWidth
    <3>1. w.tag = tag /\ w.data = s /\ w.len = Len(s)
      BY <2>2, <2>3 DEF LongWire, MakeWire, gengo_wire_null
    <3>2. CASE k = "string"
      <4>1. w.tag = TagString
        BY <3>1, <3>2
      <4>2. wireToValue(w) = StringValue(SubSeq(s, 1, Len(s)))
        BY <3>1, <4>1, StringBack
      <4>3. wireToValue(w) = Value(k, s)
        BY <2>1, <3>2, <4>2 DEF StringValue
      <4> QED
        BY <2>3, <4>3 DEF w
    <3>3. CASE k = "error"
      <4>1. w.tag = TagError
        BY <3>1, <3>3
      <4>2. wireToValue(w) = Value("error", SubSeq(s, 1, Len(s)))
        BY <3>1, <4>1, StringBack
      <4>3. wireToValue(w) = Value(k, s)
        BY <2>1, <3>3, <4>2
      <4> QED
        BY <2>3, <4>3 DEF w
    <3> QED
      BY <3>2, <3>3
  <2>4. CASE ~(Len(s) < 2^LenWidth)
    BY <2>2, <2>4 DEF LongWire, w
  <2> QED
    BY <2>3, <2>4
<1>5. ASSUME NEW w \in valueToWireWithScratch(StringValue(s))
      PROVE  /\ wireToValue(w).kind = "string"
             /\ IsPrefix(wireToValue(w).data, s)
             /\ wireToValue(w).data # s =>
                   Len(s) > MaxStringScratch /\ Len(wireToValue(w).data) = MaxStringScratch
             /\ \A size \in 1 .. MaxStringScratch :
                   LET got == gengo_wire_read_str(w, size)
                   IN  /\ IsPrefix(got, s)
                       /\ Len(got) = IF Len(s) < size THEN Len(s) ELSE size - 1
  <2>1. PICK t \in setStringScratch(s) : w = MakeWire(TagString, TRUE, t, Len(t))
    BY DEF valueToWireWithScratch, StringValue, Value
  <2> DEFINE m == Len(t)
  <2>2. /\ t \in Seq(Chars) /\ m \in Nat /\ m <= Len(s) /\ t = SubSeq(s, 1, m)
        /\ t = s \/ (Len(s) > MaxStringScratch /\ m = MaxStringScratch)
    BY ScratchFacts
  <2>3. wireToValue(w) = StringValue(t)
    <3>1. w.tag = TagString /\ w.data = t /\ w.len = m
      BY <2>1 DEF MakeWire, gengo_wire_null
    <3>2. SubSeq(t, 1, m) = t
      BY <2>2, Beginnings
    <3> HIDE DEF m
    <3>3. wireToValue(w) = StringValue(SubSeq(t, 1, m))
      BY <3>1, StringBack
    <3> QED
      BY <3>2, <3>3, Zenon
  <2>4. wireToValue(w).kind = "string" /\ wireToValue(w).data = t
    BY <2>3 DEF StringValue, Value
  <2>5. IsPrefix(t, s)
    <3>1. m <= Len(s) /\ t = SubSeq(s, 1, m) /\ SubSeq(t, 1, m) = t
      BY <2>2, Beginnings
    <3> QED
      BY <3>1 DEF IsPrefix
  <2>6. m = Len(s) \/ (Len(s) > MaxStringScratch /\ m = MaxStringScratch)
    BY <2>2
  <2>7. ASSUME NEW size \in 1 .. MaxStringScratch
        PROVE  LET got == gengo_wire_read_str(w, size)
               IN  /\ IsPrefix(got, s)
                   /\ Len(got) = IF Len(s) < size THEN Len(s) ELSE size - 1
    <3> DEFINE got == gengo_wire_read_str(w, size)
               n == IF m < size THEN m ELSE size - 1
    <3>1. n \in Nat /\ n <= m /\ n <= Len(s)
      <4>1. m \in Nat /\ m <= Len(s)
        BY <2>2
      <4> HIDE DEF m
      <4> QED
        BY <1>0, <4>1
    <3>2. w = Handed(StringValue(t))
      BY <2>1 DEF Handed, StringValue, Value
    <3>3. got = IF m = 0 THEN << >> ELSE SubSeq(t, 1, n)
      BY <3>2, ReadString
    <3>4. n = IF Len(s) < size THEN Len(s) ELSE size - 1
      <4> HIDE DEF m
      <4> QED
        BY <1>0, <2>6
    <3>5. m = 0 => t = << >> /\ n = 0
      BY <2>2, EmptySeq
    <3> HIDE DEF got, n, m
    <3>6. got = SubSeq(t, 1, n)
      BY <2>2, <3>1, <3>3, <3>5, Beginnings DEF m
    <3>7. got = SubSeq(s, 1, n)
      BY <2>2, <3>1, <3>6, ShorterBeginnings
    <3>8. Len(got) = n /\ SubSeq(got, 1, n) = SubSeq(s, 1, n)
      BY <3>1, <3>7, Beginnings
    <3>9. IsPrefix(got, s)
      BY <3>1, <3>8 DEF IsPrefix
    <3> QED
      BY <3>4, <3>8, <3>9 DEF got
  <2> QED
    BY <2>2, <2>4, <2>5, <2>7
<1> QED
  BY <1>2, <1>3, <1>4, <1>5

\* The readers of containers stay inside them.
LEMMA ContainersDoCross ==
  ASSUME PowersOfTwo
  PROVE  ContainersCross
<1> DEFINE H == 2^(LenWidth - 1)
<1>1. H \in Nat \ {0} /\ 2^LenWidth = 2 * H
  BY DEF PowersOfTwo
<1> SUFFICES
      ASSUME NEW n \in 0 .. (H - 1)
      PROVE  LET wires == [i \in 1..(2 * n) |-> gengo_wire_int(i)]
                 a     == gengo_wire_array(wires, 2 * n)
                 m     == gengo_wire_map(wires, n)
             IN  /\ \A i \in 0..(2^LenWidth - 1) :
                     /\ gengo_wire_array_at(a, i) = IF i < 2 * n THEN <<wires[i + 1]>> ELSE << >>
                     /\ gengo_wire_map_key_at(m, i) = IF i < n THEN <<wires[2 * i + 1]>> ELSE << >>
                     /\ gengo_wire_map_value_at(m, i) = IF i < n THEN <<wires[2 * i + 2]>> ELSE << >>
                     /\ gengo_wire_array_at(m, i) = << >> /\ gengo_wire_map_key_at(a, i) = << >>
                 /\ gengo_wire_array_len(a) = 2 * n /\ gengo_wire_map_len(m) = n
                 /\ gengo_wire_array_len(m) = 0 /\ gengo_wire_map_len(a) = 0
  BY DEF ContainersCross
<1> DEFINE wires == [i \in 1..(2 * n) |-> gengo_wire_int(i)]
           a     == gengo_wire_array(wires, 2 * n)
           m     == gengo_wire_map(wires, n)
<1>2. /\ a.tag = TagArray /\ a.len = 2 * n /\ a.data = wires
      /\ m.tag = TagMap /\ m.len = n /\ m.data = wires
  BY DEF gengo_wire_array, gengo_wire_map, gengo_wire_null
<1>3. TagArray # TagMap
  BY DEF TagArray, TagMap
<1> HIDE DEF a, m, wires
<1>4. ASSUME NEW i \in 0 .. (2 * H - 1)
      PROVE  /\ gengo_wire_array_at(a, i) = IF i < 2 * n THEN <<wires[i + 1]>> ELSE << >>
             /\ gengo_wire_map_key_at(m, i) = IF i < n THEN <<wires[2 * i + 1]>> ELSE << >>
             /\ gengo_wire_map_value_at(m, i) = IF i < n THEN <<wires[2 * i + 2]>> ELSE << >>
             /\ gengo_wire_array_at(m, i) = << >> /\ gengo_wire_map_key_at(a, i) = << >>
  <2> HIDE DEF H
  <2>0. n \in Nat /\ n <= H - 1 /\ i \in Nat
    BY <1>1
  <2>1. gengo_wire_array_at(a, i) = IF i < 2 * n THEN <<wires[i + 1]>> ELSE << >>
    BY <1>2, <2>0 DEF gengo_wire_array_at
  <2>2. ASSUME i < n
        PROVE  /\ (i * 2) % (2 * H) = 2 * i /\ (i * 2 + 1) % (2 * H) = 2 * i + 1
               /\ 2 * i + 1 + 1 = 2 * i + 2
    BY <1>1, <2>0, <2>2
  <2>3. 2^LenWidth = 2 * H
    BY <1>1
  <2>4. /\ gengo_wire_map_key_at(m, i) =
             IF i >= n THEN << >> ELSE <<wires[((i * 2) % (2 * H)) + 1]>>
        /\ gengo_wire_map_value_at(m, i) =
             IF i >= n THEN << >> ELSE <<wires[((i * 2 + 1) % (2 * H)) + 1]>>
    BY <1>2, <2>3 DEF gengo_wire_map_key_at, gengo_wire_map_value_at
  <2>5. (i >= n) = ~(i < n)
    BY <2>0
  <2>6. /\ gengo_wire_map_key_at(m, i) = IF i < n THEN <<wires[2 * i + 1]>> ELSE << >>
        /\ gengo_wire_map_value_at(m, i) = IF i < n THEN <<wires[2 * i + 2]>> ELSE << >>
    BY <2>2, <2>4, <2>5
  <2>7. gengo_wire_array_at(m, i) = << >> /\ gengo_wire_map_key_at(a, i) = << >>
    BY <1>2, <1>3 DEF gengo_wire_array_at, gengo_wire_map_key_at
  <2> QED
    BY <2>1, <2>6, <2>7
<1>5. /\ gengo_wire_array_len(a) = 2 * n /\ gengo_wire_map_len(m) = n
      /\ gengo_wire_array_len(m) = 0 /\ gengo_wire_map_len(a) = 0
  BY <1>2, <1>3 DEF gengo_wire_array_len, gengo_wire_map_len
<1> QED
  BY <1>1, <1>4, <1>5 DEF a, m, wires
----------------------------------------------------------------------------
(* The theorems.                                                           *)

\* One step of the process.
LEMMA InvariantStep == HInv /\ [Next]_vars => HInv'
<1> SUFFICES ASSUME HInv, [Next]_vars PROVE HInv'
  OBVIOUS
<1>1. CASE UNCHANGED vars
  <2>1. UNCHANGED <<program, eng, logged>> /\ UNCHANGED aclVars /\ UNCHANGED policyVars
    BY <1>1 DEF vars
  <2>2. PolicyPart'
    BY <2>1, PolicyPartStays DEF HInv
  <2> QED
    BY <2>1, <2>2 DEF HInv, EnginePart, PluginPart, OneHost, AclFailsClosed, aclVars, policyVars
<1>2. CASE program = "acl" /\ AclNext /\ UNCHANGED policyVars /\ UNCHANGED program
  BY <1>2, PluginStep
<1>3. CASE program # "acl" /\ PolicyNext /\ UNCHANGED aclVars /\ UNCHANGED program
  BY <1>3, SetupSteps, CaseSteps, CaseDoneKeeps DEF PolicyNext
<1> QED
  BY <1>1, <1>2, <1>3 DEF Next

\* The invariant: what the engine, the plugin's and the policy hosts'
\* variables have to do with each other.
THEOREM InvariantHolds == Spec => []HInv
<1>1. Init => HInv
  BY InvariantInit
<1> QED
  BY <1>1, InvariantStep, PTL DEF Spec

\* The hosts' states are well typed, and every way out of main() and of
\* the plugin but exit() gives the engine up, for any scripts, clients and
\* number of cases.
THEOREM TypeCorrect == Spec => []TypeOK
  BY InvariantHolds, InvariantGivesType, PTL

\* Every example host fails closed: whatever is loaded, reloaded, lost or
\* answered, nothing is granted, stored or allowed but by the answer true
\* of a program to that very question.
THEOREM HostsFailClosed == Spec => []FailsClosed
<1>1. HInv => FailsClosed
  BY DEF HInv, PluginPart, PolicyPart, FailsClosed
<1> QED
  BY <1>1, InvariantHolds, PTL

\* If the reports fit the buffers, what a host prints about a case is a
\* reason of that case, whatever was noted for the ones before.
THEOREM ReasonsAreOfTheirCases ==
  ASSUME TextSizesFit
  PROVE  Spec => []ReasonIsOfThisCase
<1>1. Init => ReasonIsOfThisCase
  BY DEF Init, PolicyInit, ReasonIsOfThisCase
<1>2. HInv /\ ReasonIsOfThisCase /\ [Next]_vars => ReasonIsOfThisCase'
  <2> SUFFICES ASSUME HInv, ReasonIsOfThisCase, [Next]_vars PROVE ReasonIsOfThisCase'
    OBVIOUS
  <2>1. CASE UNCHANGED <<shown, verdicts, program>>
    BY <2>1 DEF ReasonIsOfThisCase
  <2>2. ASSUME NEW said \in Said, NEW text \in Shows, CaseDone(said, text), UNCHANGED program
        PROVE  ReasonIsOfThisCase'
    <3>1. /\ verdicts'[index] = said /\ shown'[index] = text
          /\ \A i \in 1 .. (index - 1) : verdicts'[i] = verdicts[i] /\ shown'[i] = shown[i]
          /\ DOMAIN shown' = 1 .. index /\ DOMAIN shown = 1 .. (index - 1)
          /\ index \in Nat \ {0}
      BY <2>2, DoneFacts DEF CaseDone
    <3>2. ReasonOf(index, said, text.text)
      BY <2>2 DEF CaseDone
    <3>3. \A i \in DOMAIN shown : ReasonOf(i, verdicts[i], shown[i].text)
      BY DEF ReasonIsOfThisCase, ReasonOf
    <3>4. ASSUME NEW i \in 1 .. index
          PROVE  ReasonOf(i, verdicts'[i], shown'[i].text)
      <4>1. CASE i = index
        BY <3>1, <3>2, <4>1
      <4>2. CASE i \in 1 .. (index - 1)
        BY <3>1, <3>3, <4>2
      <4> QED
        BY <3>1, <4>1, <4>2
    <3> QED
      BY <2>2, <3>1, <3>4 DEF ReasonIsOfThisCase, ReasonOf
  <2>3. CASE UNCHANGED vars
    BY <2>1, <2>3 DEF vars, policyVars
  <2>4. CASE Next
    <3>1. CASE AclNext /\ UNCHANGED policyVars
      BY <2>1, <2>4, <3>1 DEF Next, policyVars
    <3>2. CASE CreateEngine \/ LoadBundle \/ ReadScript \/ RunScript \/ OpenDatabase \/ Finish
      <4>1. Setup
        BY <3>2 DEF CreateEngine, LoadBundle, ReadScript, RunScript, OpenDatabase, Finish
      <4> QED
        BY <2>1, <2>4, <4>1 DEF Next, Setup
    <3>3. CASE InsertOrder \/ InsertFails \/ CheckDevice \/ EvaluateStudent
      BY <2>2, <2>4, <3>3, CaseSteps DEF Next
    <3> QED
      BY <2>4, <3>1, <3>2, <3>3 DEF Next, PolicyNext
  <2> QED
    BY <2>3, <2>4
<1> QED
  BY <1>1, <1>2, InvariantHolds, PTL DEF Spec

\* What a step does to the last log, and to the errors of bundle-c.
LEMMA LogStep ==
  ASSUME MaxErrorLen <= HostBuf, HInv, LogStaysInBuffer, ReportsFit, [Next]_vars
  PROVE  LogStaysInBuffer' /\ ReportsFit'
<1>0. /\ eng \in Engines /\ (~eng.live => eng = NoEngine)
      /\ file \in Scripts \cup {Missing} /\ accepted \in ProgramStates
  BY DEF HInv, EnginePart, PluginPart
<1>1. program' = program
  BY DEF Next, vars
<1>2. logged' = logged => LogStaysInBuffer'
  BY DEF LogStaysInBuffer
<1>3. ASSUME NEW e \in Engines, logged' = LogClamped(e) PROVE LogStaysInBuffer'
  BY <1>3, ClampedLog DEF LogStaysInBuffer
<1>4. ASSUME NEW e \in Engines, logged' = LogError(e),
             program = "bundle" /\ e.live => Len(e.err) <= MaxErrorLen
      PROVE  LogStaysInBuffer'
  <2>1. Len(e.err) \in Nat /\ MaxErrorLen \in Nat /\ HostBuf \in Nat
    BY LenProperties, HostEngineAssumption DEF Engines
  <2>2. program = "bundle" /\ e.live => Len(e.err) <= HostBuf
    BY <1>4, <2>1
  <2> QED
    BY <1>4, <2>2, LogFits DEF LogStaysInBuffer
<1>5. CASE UNCHANGED vars
  BY <1>2, <1>5 DEF vars, ReportsFit
<1>6. CASE program = "acl" /\ AclNext
  <2>1. ReportsFit'
    BY <1>1, <1>6 DEF ReportsFit
  <2>2. ASSUME NEW e \in Engines, NEW r \in load_script(e), logged' = r.log
        PROVE  LogStaysInBuffer'
    BY <1>0, <1>2, <1>3, <2>2, LoadOutcomes
  <2>3. ASSUME NEW h \in InitResults, InitWithEngine(h) PROVE LogStaysInBuffer'
    <3>1. engine_init_with_config(h) \in Engines
      BY CreateOutcomes
    <3> QED
      BY <2>2, <2>3, <3>1 DEF InitWithEngine
  <2>4. CASE PluginInit
    BY <1>2, <2>1, <2>3, <2>4 DEF PluginInit, InitWithoutScript, InitWithoutEngine
  <2>5. ASSUME NEW q \in Clients, Decide(q) PROVE LogStaysInBuffer'
    <3>1. q \in Nat /\ Decisions \in SUBSET Answers
      BY AclAssumption DEF Answers
    <3>2. PICK r \in engine_call(eng, q, Decisions) :
            logged' = IF r.rc = 0 THEN logged ELSE LogClamped(r.eng)
      BY <2>5 DEF Decide
    <3>3. r.eng \in Engines
      BY <1>0, <3>1, <3>2, CallOutcomes DEF CallOutcome
    <3> QED
      BY <1>2, <1>3, <3>2, <3>3
  <2>6. CASE OnReload
    BY <1>0, <2>1, <2>2, <2>6 DEF OnReload
  <2>7. CASE EditFile \/ OnUnknownAccess \/ PluginCleanup
    BY <1>2, <2>1, <2>7 DEF EditFile, OnUnknownAccess, PluginCleanup
  <2> QED
    BY <1>6, <2>1, <2>4, <2>5, <2>6, <2>7 DEF AclNext, OnAclCheck, OnBasicAuth
<1>7. ASSUME Leave PROVE ReportsFit'
  BY <1>7, NoEngineFacts, EmptySeq, HostEngineAssumption DEF Leave, engine_destroy, ReportsFit
<1>8. UNCHANGED eng => ReportsFit'
  BY <1>1 DEF ReportsFit
<1>9. CASE CreateEngine
  <2>1. eng'.err = << >> /\ logged' = logged
    BY <1>9, CreateOutcomes DEF CreateEngine
  <2> QED
    BY <1>2, <2>1, EmptySeq, HostEngineAssumption DEF ReportsFit
<1>10. CASE LoadBundle \/ ReadScript \/ OpenDatabase \/ Finish
  BY <1>2, <1>7, <1>8, <1>10 DEF LoadBundle, ReadScript, OpenDatabase, Finish
<1>11. CASE RunScript
  <2>1. PICK f \in Scripts :
          \/ logged' = LogError(engine_run(eng, f).eng) /\ Leave
          \/ eng' = engine_run(eng, f).eng /\ logged' = logged
    BY <1>11 DEF RunScript
  <2>2. PICK x : x = engine_run(eng, f).eng
    OBVIOUS
  <2>3. x \in Engines /\ (program = "bundle" => Len(x.err) <= MaxErrorLen)
    BY <1>0, <2>1, <2>2, RunOutcomes DEF ReportsFit
  <2>4. CASE logged' = LogError(x) /\ Leave
    BY <1>4, <1>7, <2>3, <2>4
  <2>5. CASE eng' = x /\ logged' = logged
    BY <1>1, <1>2, <2>3, <2>5 DEF ReportsFit
  <2> QED
    BY <2>1, <2>2, <2>4, <2>5
<1>12. CASE InsertOrder \/ InsertFails
  BY <1>1, <1>2, <1>12 DEF InsertOrder, InsertFails, AtCase, ReportsFit
<1>13. CASE CheckDevice
  <2>1. program = "firmware" /\ index \in Nat
    BY <1>13, CaseFacts DEF CheckDevice, AtCase
  <2>2. Decisions \in SUBSET Answers /\ Explanations \in SUBSET Answers
    BY DEF Answers
  <2>3. PICK r \in engine_call(eng, index, Decisions) :
          \/ logged' = LogError(r.eng)
          \/ logged' = logged
          \/ \E x \in engine_call(r.eng, index, Explanations) :
                logged' = IF x.rc = 0 THEN logged ELSE LogError(x.eng)
    BY <1>13 DEF CheckDevice
  <2>4. r.eng \in Engines
    BY <1>0, <2>1, <2>2, CallOutcomes DEF CallOutcome
  <2>5. ASSUME NEW x \in engine_call(r.eng, index, Explanations) PROVE x.eng \in Engines
    BY <2>1, <2>2, <2>4, CallOutcomes DEF CallOutcome
  <2>6. LogStaysInBuffer'
    BY <1>2, <1>4, <2>1, <2>3, <2>4, <2>5
  <2> QED
    BY <1>1, <2>1, <2>6 DEF ReportsFit
<1>14. CASE EvaluateStudent
  <2>1. program = "bundle" /\ index \in Nat /\ Evaluations \in SUBSET Answers
    BY <1>14, CaseFacts DEF EvaluateStudent, AtCase, Answers
  <2>2. PICK r \in engine_call(eng, index, Evaluations) :
          eng' = r.eng /\ logged' = IF r.rc = 0 THEN logged ELSE LogError(r.eng)
    BY <1>14 DEF EvaluateStudent
  <2>3. CallOutcome(eng, index, r) /\ r.said \in Evaluations \cup {"missing"}
    BY <1>0, <2>1, <2>2, CallOutcomes, CallAnswers
  <2>4. r.said # "args"
    BY <2>3 DEF Evaluations
  <2>5. MaxErrorLen \in Nat /\ Len(<< >>) = 0
    BY HostEngineAssumption, EmptySeq
  <2>6. r.eng \in Engines /\ Len(r.eng.err) <= MaxErrorLen
    BY <2>1, <2>3, <2>4, <2>5 DEF CallOutcome, ReportsFit
  <2> QED
    BY <1>2, <1>4, <2>2, <2>6 DEF ReportsFit
<1> QED
  BY <1>5, <1>6, <1>9, <1>10, <1>11, <1>12, <1>13, <1>14 DEF Next, PolicyNext

\* As long as the engine's error buffer is no larger than the hosts', no
\* host prints past what was written into its buffer: log_error of
\* bundle-c, which does not cut the length it is told, included.
THEOREM LogsStayInBuffers ==
  ASSUME MaxErrorLen <= HostBuf
  PROVE  Spec => []LogStaysInBuffer
<1>1. Init => LogStaysInBuffer /\ ReportsFit
  BY InvariantInit
<1>2. HInv /\ (LogStaysInBuffer /\ ReportsFit) /\ [Next]_vars => LogStaysInBuffer' /\ ReportsFit'
  BY LogStep
<1> QED
  BY <1>1, <1>2, InvariantHolds, PTL DEF Spec

\* Whatever the widths, the characters and the size of the scratch buffer,
\* what is not a container crosses the boundary in both directions:
\* integers over the whole signed range and runes, the four kinds of number
\* told apart by their flags, strings of any length, cut only by the
\* scratch buffer and the reader's; and a container's wires are found at
\* their indices (gengo-wire.h against wireToValueDepth, valueToWireDepth,
\* setStringScratch and valueToWireWithScratch).  The conversion of
\* containers recurses and is checked, in Marshal.
THEOREM ScalarsCross ==
  ASSUME PowersOfTwo
  PROVE  Spec => []WireRoundTrip
<1> DEFINE n == MaxStringScratch + 1
<1>0. n \in Nat
  BY WireAssumption
<1>1. BoundedSeq(Chars, n) \subseteq Seq(Chars)
  <2> HIDE DEF n
  <2>1. ASSUME NEW m \in 0 .. n, NEW s \in [1 .. m -> Chars]
        PROVE  s \in Seq(Chars)
    BY <1>0, SeqDef
  <2> QED
    BY <2>1 DEF BoundedSeq, SeqOf
<1>2. AllStringsCross
  BY <1>1, StringsDoCross DEF StringsCross, AllStringsCross
<1>3. WireRoundTrip
  BY <1>2, NumbersDoCross, ContainersDoCross DEF WireRoundTrip
<1> QED
  BY <1>3, PTL
=============================================================================
