----------------------------- MODULE PolicyHosts -----------------------------
(***************************************************************************)
(* The example hosts that ask a script about a list of cases, one after    *)
(* the other: sqlite-policy (orders inserted through a trigger that calls  *)
(* the script), firmware-gate-c (devices) and bundle-c (students).  Their  *)
(* main() functions have the same course: create the engine, load a bundle *)
(* (bundle-c), read the script and run it, open the database               *)
(* (sqlite-policy), go through the cases, destroy the engine.              *)
(***************************************************************************)
EXTENDS HostEngine

CONSTANTS
    Cases       \* how many cases there are

ASSUME PolicyHostsAssumption == Cases \in Nat

VARIABLES
    pc,             \* where main() is
    index,          \* the case it is at
    last_reason,    \* policy_ctx_t.last_reason
    rows,           \* the orders in the database
    verdicts,       \* history: what the script said about each case
    shown           \* history: what was printed about each case

policyVars == <<pc, index, last_reason, rows, verdicts, shown>>

\* The texts of the hosts' own.
EngineErrorText == <<301>>
NullText        == <<302>>
FailedText      == <<303>>
SqliteText      == <<304>>
NoReasonText    == <<305>>

PolicyInit ==
    /\ pc = "init"
    /\ index = 1
    /\ last_reason = << >>
    /\ rows = {}
    /\ verdicts = << >>
    /\ shown = << >>

\* log_engine_error of firmware-gate-c and the report of a failed load in
\* sqlite-policy cut the length to the buffer's; log_error of bundle-c does
\* not.
LogError(e) ==
    LET m == engine_last_error(e, HostBuf)
    IN  [n |-> IF program = "bundle" THEN m.len ELSE AtMost(m.len, HostBuf),
         filled |-> Len(m.buf)]

\* Faulty: the engine is not given up.
LeaveKeepsEngine ==
    /\ pc' = "exited"
    /\ UNCHANGED eng

\* The ways out of main() after the engine was created.
Leave ==
    /\ pc' = "exited"
    /\ eng' = engine_destroy(eng)

Setup == UNCHANGED <<index, last_reason, rows, verdicts, shown>>

CreateEngine ==
    /\ pc = "init"
    /\ \E h \in InitResults :
        /\ eng' = engine_init_with_config(h)
        /\ pc' = IF h <= 0 THEN "exited" ELSE IF program = "bundle" THEN "bundle" ELSE "read"
    /\ Setup /\ UNCHANGED logged

\* The zip file cannot be read, or the bundle does not load.
LoadBundle ==
    /\ pc = "bundle"
    /\ Leave \/ (pc' = "read" /\ UNCHANGED eng)
    /\ Setup /\ UNCHANGED logged

ReadScript ==
    /\ pc = "read"
    /\ Leave \/ (pc' = "run" /\ UNCHANGED eng)
    /\ Setup /\ UNCHANGED logged

RunScript ==
    /\ pc = "run"
    /\ \E s \in Scripts :
        LET r == engine_run(eng, s)
        IN  IF r.rc # 0
            THEN /\ logged' = LogError(r.eng)
                 /\ Leave
            ELSE /\ eng' = r.eng
                 /\ pc' = IF program = "sqlite" THEN "open" ELSE "cases"
                 /\ UNCHANGED logged
    /\ Setup

\* sqlite-policy: the database, its functions, its table and triggers.  A
\* failing statement ends the process at once (exec_or_die).
OpenDatabase ==
    /\ pc = "open"
    /\ \/ Leave
       \/ pc' = "died" /\ UNCHANGED eng
       \/ pc' = "cases" /\ UNCHANGED eng
    /\ Setup /\ UNCHANGED logged

AtCase(host) == pc = "cases" /\ program = host /\ index <= Cases

\* One case is done: its verdict and what was printed.
Done(said, text) ==
    /\ verdicts' = Append(verdicts, said)
    /\ shown' = Append(shown, text)
    /\ index' = index + 1
    /\ UNCHANGED pc

----------------------------------------------------------------------------
(* sqlite-policy.                                                          *)

FirstColon(m) == SelectInSeq(m, LAMBDA x : x = Colon)

\* store_engine_error: "panic: " and the kind after it are taken off.
store_engine_error(e) ==
    LET m   == engine_last_error(e, HostBuf - 1)
        raw == SubSeq(m.buf, 1, AtMost(m.len, HostBuf - 1))
        msg == IF raw[1] = Panic THEN Tail(raw) ELSE raw
    IN  IF m.len <= 0 THEN EngineErrorText
        ELSE IF raw[1] # Panic \/ FirstColon(msg) = 0 THEN msg
        ELSE SubSeq(msg, FirstColon(msg) + 1, Len(msg))

Verdict(ok, text, e, a) == [ok |-> ok, reason |-> text, eng |-> e, said |-> a]

\* Faulty: a reason that cannot be fetched leaves the old one.
FetchReasonKeeps(r, q) ==
    {Verdict(FALSE, IF x.rc = 0 THEN gengo_wire_read_str(x.out, HostBuf) ELSE last_reason,
             x.eng, r.said) : x \in engine_call(r.eng, q, Explanations)}

\* The script said no: its reason, or a general one.
FetchReason(r, q) ==
    {Verdict(FALSE, IF x.rc = 0 THEN gengo_wire_read_str(x.out, HostBuf) ELSE FailedText,
             x.eng, r.said) : x \in engine_call(r.eng, q, Explanations)}

\* sql_gengo_validate, once the script has answered with r.
ValidateAnswer(r, q) ==
    IF r.rc = -2 THEN {Verdict(FALSE, store_engine_error(r.eng), r.eng, r.said)}
    ELSE IF r.rc # 0 THEN {Verdict(FALSE, EngineErrorText, r.eng, r.said)}
    ELSE IF gengo_wire_as_bool(r.out) THEN {Verdict(TRUE, << >>, r.eng, r.said)}
    ELSE FetchReason(r, q)

sql_gengo_validate(q) ==
    {Verdict(FALSE, NullText, eng, "unasked")}
    \cup UNION {ValidateAnswer(r, q) : r \in engine_call(eng, q, Decisions)}

Rejected(text) == [kind |-> "rejected", text |-> IF text # << >> THEN text ELSE SqliteText]

\* INSERT: the trigger validates, and the row is stored if it is accepted
\* and the database can.
InsertOrder ==
    /\ AtCase("sqlite")
    /\ \E v \in sql_gengo_validate(index) :
        /\ eng' = v.eng
        /\ last_reason' = v.reason
        /\ \/ /\ v.ok
              /\ rows' = rows \cup {index}
              /\ Done(v.said, [kind |-> "ok", text |-> << >>])
           \/ /\ UNCHANGED rows
              /\ Done(v.said, Rejected(v.reason))
    /\ UNCHANGED logged

\* The statement fails before the trigger is reached: what last_reason
\* holds is printed.
InsertFails ==
    /\ AtCase("sqlite")
    /\ Done("unreached", Rejected(last_reason))
    /\ UNCHANGED <<eng, last_reason, rows, logged>>

----------------------------------------------------------------------------
(* firmware-gate-c and bundle-c.                                           *)

Show(k, text) == [kind |-> k, text |-> text]

\* One device: call_bool_fn, and call_string_fn for the reason.
CheckDevice ==
    /\ AtCase("firmware")
    /\ \E r \in engine_call(eng, index, Decisions) :
        \/ /\ r.rc # 0
           /\ eng' = r.eng
           /\ logged' = LogError(r.eng)
           /\ Done(r.said, Show("fail closed", << >>))
        \/ /\ r.rc = 0 /\ gengo_wire_as_bool(r.out)
           /\ eng' = r.eng
           /\ Done(r.said, Show("allow", << >>))
           /\ UNCHANGED logged
        \/ /\ r.rc = 0 /\ ~gengo_wire_as_bool(r.out)
           /\ \E x \in engine_call(r.eng, index, Explanations) :
                LET reason == gengo_wire_read_str(x.out, HostBuf)
                IN  /\ eng' = x.eng
                    /\ logged' = IF x.rc = 0 THEN logged ELSE LogError(x.eng)
                    /\ Done(r.said, Show("deny",
                            IF x.rc # 0 THEN << >>
                            ELSE IF reason # << >> THEN reason ELSE NoReasonText))
    /\ UNCHANGED <<last_reason, rows>>

\* One student: evaluate() returns the line to print, or the error is
\* logged and nothing printed.
EvaluateStudent ==
    /\ AtCase("bundle")
    /\ \E r \in engine_call(eng, index, Evaluations) :
        /\ eng' = r.eng
        /\ logged' = IF r.rc = 0 THEN logged ELSE LogError(r.eng)
        /\ Done(r.said, IF r.rc = 0 THEN Show("line", gengo_wire_read_str(r.out, HostBuf))
                                    ELSE Show("none", << >>))
    /\ UNCHANGED <<last_reason, rows>>

Finish ==
    /\ pc = "cases" /\ index > Cases
    /\ Leave
    /\ Setup /\ UNCHANGED logged

PolicyNext ==
    \/ CreateEngine
    \/ LoadBundle
    \/ ReadScript
    \/ RunScript
    \/ OpenDatabase
    \/ InsertOrder
    \/ InsertFails
    \/ CheckDevice
    \/ EvaluateStudent
    \/ Finish

----------------------------------------------------------------------------
\* A row is stored, and a device allowed, only if the script answered the
\* boolean true for that very case (sql_gengo_validate with its trigger,
\* main() of firmware-gate-c).
PolicyFailsClosed ==
    /\ \A i \in rows : verdicts[i] = "true"
    /\ \A i \in DOMAIN shown : shown[i].kind \in {"ok", "allow"} => verdicts[i] = "true"

\* The texts that can be said of case i.
TextsOf(i) == {Text(i), Note(i), NullText, FailedText, EngineErrorText, SqliteText,
               NoReasonText, <<Heap>>, <<Args, Colon, Heap>>, << >>}

\* The reason printed for a case is a reason of this case: no rejection by
\* the policy and no storage failure after an acceptance shows what was
\* noted for an earlier one (store_engine_error, last_reason and
\* last_reject_reason in sqlite-policy, call_string_fn in firmware-gate-c).
\* A statement that fails before the trigger is not covered.
ReasonIsOfThisCase ==
    \A i \in DOMAIN shown :
        /\ verdicts[i] # "unreached" => shown[i].text \in TextsOf(i)
        /\ verdicts[i] = "true" => shown[i].text \in {<< >>, SqliteText}
        /\ verdicts[i] = "unasked" => shown[i].text = NullText
        /\ program = "sqlite" /\ verdicts[i] = "panic" => shown[i].text = Text(i)
=============================================================================
