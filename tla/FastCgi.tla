------------------------------- MODULE FastCgi -------------------------------
(***************************************************************************)
(* The FastCGI host, examples/fastcgi-host/main.c: a process that reads    *)
(* records from its standard input, gathers the parameters and the body of *)
(* one request at a time, calls the script's handle() and writes the       *)
(* records of the answer.  The web server at the other end is the          *)
(* environment: it may have several requests under way, cut their streams  *)
(* into records as it likes, interleave the records of different requests, *)
(* abort a request, end the connection between or within records, and stop *)
(* reading.  One action is one round of the loop of main().                *)
(*                                                                         *)
(* Bytes are numbers below 256.  Names of parameters are one byte long,    *)
(* and the handler is a function that returns its arguments, so that an    *)
(* answer shows what it was computed from.                                 *)
(***************************************************************************)
EXTENDS Wire, FiniteSets

CONSTANTS
    Requests,       \* the requests the server sends
    Ids,            \* request ids
    Workloads,      \* set of functions from Requests to what they contain
    Fragments,      \* sizes of records, besides all that is left
    MaxParams,      \* sizeof request.params
    MaxBody,        \* max_body
    MaxField,       \* sizeof request.method, path and query
    MaxRecord,      \* UINT16_MAX, the largest content of an output record
    NoRequest

ASSUME FastCgiAssumption ==
    /\ MaxParams \in Nat /\ MaxBody \in Nat
    /\ MaxField \in Nat \ {0} /\ MaxRecord \in Nat \ {0}
    /\ Fragments \subseteq Nat \ {0}
    /\ NoRequest \notin Requests

Byte == 0..255

REQUEST_METHOD == <<1>>
SCRIPT_NAME    == <<2>>
PATH_INFO      == <<3>>
QUERY_STRING   == <<4>>

VARIABLES
    work,       \* what the requests contain
    sent,       \* what the server has sent of each request: stage and position
    opener,     \* the request for which the server last opened an id
    reply,      \* the records the server has received for each request
    reading,    \* the server still reads
    pc,         \* "start", "serving", "exited"
    engine,     \* "none", "live", "destroyed"
    request     \* request_t

server == <<work, sent, opener, reading>>
vars   == <<work, sent, opener, reply, reading, pc, engine, request>>
----------------------------------------------------------------------------
(* The server's encoding of parameters.                                    *)

EncodeLength(n, long) ==
    IF long THEN LET high == (n \div 256) \div 256
                 IN  <<128 + high \div 256, high % 256, (n \div 256) % 256, n % 256>>
    ELSE <<n>>

EncodePair(p) == EncodeLength(Len(p.name), p.long) \o EncodeLength(Len(p.value), p.long)
                    \o p.name \o p.value

\* A request may be sent cut short, a client's error.
EncodeParams(w) ==
    LET whole == FlattenSeq([i \in DOMAIN w.pairs |-> EncodePair(w.pairs[i])])
    IN  SubSeq(whole, 1, Len(whole) - w.cut)
----------------------------------------------------------------------------
(* Output.                                                                 *)

Padding(len) == (8 - (len % 8)) % 8

OutRecord(type, data, status) ==
    [type |-> type, data |-> data, pad |-> Padding(Len(data)), status |-> status]

\* write_record with a buffer: as many records as it takes, none if it is
\* empty.
write_record(type, data) ==
    [i \in 1..((Len(data) + MaxRecord - 1) \div MaxRecord) |->
        OutRecord(type, SubSeq(data, (i - 1) * MaxRecord + 1,
                               IF i * MaxRecord < Len(data) THEN i * MaxRecord ELSE Len(data)), 0)]

\* write_record without a buffer: the empty record that ends a stream.
write_record_null(type) == <<OutRecord(type, << >>, 0)>>

send_end(status) ==
    write_record_null("stdout") \o <<[OutRecord("end", << >>, status) EXCEPT !.pad = Padding(8)]>>

\* The texts, each standing for its characters.
PrefixText == <<500>>
NewlineText == <<10>>
Messages == [busy |-> <<901>>, params |-> <<902>>, paramsLimit |-> <<903>>,
             order |-> <<904>>, bodyLimit |-> <<905>>, failed |-> <<906>>,
             notString |-> <<907>>]

send_error(message) ==
    write_record("stderr", message) \o write_record("stdout", PrefixText)
        \o write_record("stdout", message) \o write_record("stdout", NewlineText)
        \o send_end(1)
----------------------------------------------------------------------------
(* Parameters.                                                             *)

\* decode_length at an offset (a number of bytes already read).
NoLength == [ok |-> FALSE, value |-> 0, next |-> 0]

decode_length(data, offset) ==
    IF offset >= Len(data) THEN NoLength
    ELSE IF data[offset + 1] < 128
    THEN [ok |-> TRUE, value |-> data[offset + 1], next |-> offset + 1]
    ELSE IF Len(data) - (offset + 1) < 3 THEN NoLength
    ELSE [ok |-> TRUE,
          value |-> (((data[offset + 1] - 128) * 256 + data[offset + 2]) * 256
                        + data[offset + 3]) * 256 + data[offset + 4],
          next |-> offset + 4]

\* One round of the loop of parse_params, up to its assignments.
NoPair == [ok |-> FALSE, name |-> << >>, value |-> << >>, next |-> 0]

DecodePair(data, offset) ==
    LET n  == Len(data)
        nl == decode_length(data, offset)
        vl == decode_length(data, nl.next)
        v  == vl.next + nl.value
    IN  IF \/ ~nl.ok \/ ~vl.ok
           \/ nl.value > n - vl.next
           \/ vl.value > n - vl.next - nl.value
        THEN NoPair
        ELSE [ok |-> TRUE, name |-> SubSeq(data, vl.next + 1, v),
              value |-> SubSeq(data, v + 1, v + vl.value), next |-> v + vl.value]

\* The loop: the pairs it decodes from an offset on, and whether it gets to
\* the end.
DecodePairs(data) ==
    LET from[o \in 0..Len(data)] ==
            IF o = Len(data) THEN [ok |-> TRUE, pairs |-> << >>]
            ELSE LET p == DecodePair(data, o)
                 IN  IF ~p.ok THEN [ok |-> FALSE, pairs |-> << >>]
                     ELSE [ok |-> from[p.next].ok,
                           pairs |-> <<[name |-> p.name, value |-> p.value]>> \o from[p.next].pairs]
    IN  from[0]

copy_param(value) ==
    SubSeq(value, 1, IF Len(value) < MaxField - 1 THEN Len(value) ELSE MaxField - 1)

\* The first character is the NUL.
Empty(s) == s = << >> \/ s[1] = 0

NoFields == [method |-> << >>, path |-> << >>, query |-> << >>]

\* The assignments of one round of the loop.
Assign(fields, p) ==
    CASE p.name = REQUEST_METHOD -> [fields EXCEPT !.method = copy_param(p.value)]
      [] p.name = SCRIPT_NAME -> [fields EXCEPT !.path = copy_param(p.value)]
      [] p.name = PATH_INFO /\ Empty(fields.path) -> [fields EXCEPT !.path = copy_param(p.value)]
      [] p.name = QUERY_STRING -> [fields EXCEPT !.query = copy_param(p.value)]
      [] OTHER -> fields

parse_params(data) ==
    LET decoded == DecodePairs(data)
        fields  == FoldLeft(Assign, NoFields, decoded.pairs)
    IN  [ok |-> decoded.ok /\ ~Empty(fields.method), fields |-> fields]
----------------------------------------------------------------------------
(* The request.                                                            *)

IdleRequest == [id |-> CHOOSE i \in Ids : TRUE, active |-> FALSE,
                complete |-> FALSE, params |-> << >>, body |-> << >>]

Separator == <<0>>

\* What the script returns for its four arguments.
Handler(a) == a[1].data \o Separator \o a[2].data \o Separator
                \o a[3].data \o Separator \o a[4].data

\* The arguments as the engine converts them.
HandleArgs(f, body) ==
    LET args == <<gengo_wire_str(f.method), gengo_wire_str(f.path),
                  gengo_wire_str(f.query), gengo_wire_str_n(body, Len(body))>>
    IN  [i \in DOMAIN args |-> wireToValue(args[i])]

\* What the server sends are bytes, under ids it has, the lengths in a form that
\* can express them.  A cut is within the last pair: one that takes all of a
\* pair is the request without the pair.
Pairs == [name : Seq(Byte), value : Seq(Byte), long : BOOLEAN]

Encodable(p) ==
    \A n \in {Len(p.name), Len(p.value)} :
        (IF p.long THEN ((n \div 256) \div 256) \div 256 ELSE n) < 128

WellFormed(w) ==
    /\ w.id \in Ids /\ w.skip \in BOOLEAN
    /\ w.body \in Seq(Byte) /\ w.pairs \in Seq(Pairs)
    /\ \A i \in DOMAIN w.pairs : Encodable(w.pairs[i])
    /\ w.cut \in Nat
    /\ w.cut > 0 => w.pairs # << >> /\ w.cut < Len(EncodePair(w.pairs[Len(w.pairs)]))

ASSUME WorkloadAssumption ==
    Ids # {} /\ \A w \in Workloads, r \in Requests : WellFormed(w[r])

\* What a call of handle() can come to: it fails, or returns a value.
CallOutcomes(a) ==
    {[rc |-> -2, out |-> gengo_wire_null]}
    \cup {[rc |-> 0, out |-> w] :
            w \in UNION {valueToWireWithScratch(v) :
                            v \in {StringValue(Handler(a)), StringValue(<< >>), NullValue}}}

\* run_request: the answers it may write.
run_request(rq) ==
    LET parsed == parse_params(rq.params)
        Answer(c) ==
            IF c.rc # 0 THEN send_error(Messages.failed)
            ELSE IF c.out.tag # TagString \/ ~c.out.ptr THEN send_error(Messages.notString)
            ELSE write_record("stdout", SubSeq(c.out.data, 1, c.out.len)) \o send_end(0)
    IN  IF ~parsed.ok THEN {send_error(Messages.params)}
        ELSE {Answer(c) : c \in CallOutcomes(HandleArgs(parsed.fields, rq.body))}

\* A failed write is not noticed; the server gets nothing any more.
Emit(r, records) ==
    reply' = IF reading THEN [reply EXCEPT ![r] = @ \o records] ELSE reply

EmitNothing == UNCHANGED reply
----------------------------------------------------------------------------
Init ==
    /\ work \in Workloads
    /\ sent = [r \in Requests |-> [stage |-> "new", at |-> 0]]
    /\ opener = [i \in Ids |-> NoRequest]
    /\ reply = [r \in Requests |-> << >>]
    /\ reading = TRUE
    /\ pc = "start"
    /\ engine = "none"
    /\ request = IdleRequest

\* main() before the loop: the script cannot be read, the engine cannot be
\* created, the script does not load, or the host serves.
StartUnreadable == pc' = "exited" /\ engine' = "none"
StartNoEngine   == pc' = "exited" /\ engine' = "none"
StartLoadFails  == pc' = "exited" /\ engine' = "destroyed"
StartServes     == pc' = "serving" /\ engine' = "live"

Start ==
    /\ pc = "start"
    /\ StartUnreadable \/ StartNoEngine \/ StartLoadFails \/ StartServes
    /\ UNCHANGED <<server, reply, request>>

Serving == pc = "serving"

Advance(r, stage, at) == sent' = [sent EXCEPT ![r] = [stage |-> stage, at |-> at]]

\* The server uses an id again when it is done with the request that had it.
MayOpen(r) ==
    /\ sent[r].stage = "new"
    /\ opener[work[r].id] # NoRequest => sent[opener[work[r].id]].stage = "closed"

\* A definition marked "Faulty" is a plausible mistake in the one after it.
\* No specification uses it; it shows that the properties would notice.

\* Faulty: what the last request left is kept.
BeginKeepsOld(r) == [request EXCEPT !.id = work[r].id, !.active = TRUE, !.complete = FALSE]

\* memset and the assignments after it.
BeginRequest(r) == [IdleRequest EXCEPT !.id = work[r].id, !.active = TRUE]

\* Faulty: the request under way is given up for the new one.
BeginAlways(r) ==
    /\ request' = BeginRequest(r)
    /\ EmitNothing

\* The branch of the loop for a BEGIN_REQUEST record.  A record too short
\* to hold a role is one whose role is not the responder's.
HandleBegin(r) ==
    \/ /\ work[r].role # "responder" \/ request.active
       /\ Emit(r, send_error(Messages.busy))
       /\ UNCHANGED request
    \/ /\ work[r].role = "responder" /\ ~request.active
       /\ request' = BeginRequest(r)
       /\ EmitNothing

RecvBegin(r) ==
    /\ Serving
    /\ MayOpen(r)
    /\ opener' = [opener EXCEPT ![work[r].id] = r]
    /\ Advance(r, "params", 0)
    /\ HandleBegin(r)
    /\ UNCHANGED <<work, reading, pc, engine>>

\* Records other than BEGIN_REQUEST are for the request under way, or
\* dropped.
Addressed(r) == request.active /\ request.id = work[r].id

Ignore == UNCHANGED <<request, reply>>

HandleParams(r, data) ==
    IF Len(request.params) + Len(data) > MaxParams
    THEN /\ Emit(r, send_error(Messages.paramsLimit))
         /\ request' = [request EXCEPT !.active = FALSE]
    ELSE /\ request' = [request EXCEPT !.params = @ \o data]
         /\ EmitNothing

\* Faulty: only what came before is compared with the limit.
HandleStdinLoose(r, data) ==
    IF Len(request.body) > MaxBody
    THEN /\ Emit(r, send_error(Messages.bodyLimit))
         /\ request' = [request EXCEPT !.active = FALSE]
    ELSE /\ request' = [request EXCEPT !.body = @ \o data]
         /\ EmitNothing

HandleStdin(r, data) ==
    IF Len(request.body) + Len(data) > MaxBody
    THEN /\ Emit(r, send_error(Messages.bodyLimit))
         /\ request' = [request EXCEPT !.active = FALSE]
    ELSE /\ request' = [request EXCEPT !.body = @ \o data]
         /\ EmitNothing

\* The empty STDIN record: the request is complete.
HandleStdinEnd(r) ==
    /\ \/ /\ ~request.complete
          /\ Emit(r, send_error(Messages.order))
       \/ /\ request.complete
          /\ \E answer \in run_request(request) : Emit(r, answer)
    /\ request' = [request EXCEPT !.active = FALSE]

\* A record with the next bytes of a stream.
NextBytes(r, stream) ==
    {SubSeq(stream, sent[r].at + 1, sent[r].at + n) :
        n \in {k \in Fragments \cup {Len(stream) - sent[r].at} :
                  k > 0 /\ k <= Len(stream) - sent[r].at}}

RecvParams(r) ==
    /\ Serving /\ sent[r].stage = "params"
    /\ \E data \in NextBytes(r, EncodeParams(work[r])) :
        /\ Advance(r, "params", sent[r].at + Len(data))
        /\ IF Addressed(r) THEN HandleParams(r, data) ELSE Ignore
    /\ UNCHANGED <<work, opener, reading, pc, engine>>

ParamsSent(r) == sent[r].stage = "params" /\ sent[r].at = Len(EncodeParams(work[r]))

RecvParamsEnd(r) ==
    /\ Serving /\ ParamsSent(r) /\ ~work[r].skip
    /\ Advance(r, "stdin", 0)
    /\ request' = IF Addressed(r) THEN [request EXCEPT !.complete = TRUE] ELSE request
    /\ UNCHANGED <<work, opener, reply, reading, pc, engine>>

\* A server's error: it does not end the PARAMS stream.
SkipParamsEnd(r) ==
    /\ Serving /\ ParamsSent(r) /\ work[r].skip
    /\ Advance(r, "stdin", 0)
    /\ UNCHANGED <<work, opener, reading, pc, engine, request, reply>>

RecvStdin(r) ==
    /\ Serving /\ sent[r].stage = "stdin"
    /\ \E data \in NextBytes(r, work[r].body) :
        /\ Advance(r, "stdin", sent[r].at + Len(data))
        /\ IF Addressed(r) THEN HandleStdin(r, data) ELSE Ignore
    /\ UNCHANGED <<work, opener, reading, pc, engine>>

RecvStdinEnd(r) ==
    /\ Serving /\ sent[r].stage = "stdin" /\ sent[r].at = Len(work[r].body)
    /\ Advance(r, "closed", 0)
    /\ IF Addressed(r) THEN HandleStdinEnd(r) ELSE Ignore
    /\ UNCHANGED <<work, opener, reading, pc, engine>>

Open(r) == sent[r].stage \in {"params", "stdin"}

\* ABORT_REQUEST, which the loop has no branch for: the server sends
\* nothing more of the request and waits for its end.
RecvAbort(r) ==
    /\ Serving /\ Open(r)
    /\ Advance(r, "aborted", 0)
    /\ Ignore
    /\ UNCHANGED <<work, opener, reading, pc, engine>>

IsEnd(m)  == m.type = "end"
Ended(r)  == \E i \in DOMAIN reply[r] : IsEnd(reply[r][i])

\* The server has the answer before it has sent everything, and stops.
ServerStops(r) ==
    /\ Serving /\ Open(r) /\ Ended(r)
    /\ Advance(r, "closed", 0)
    /\ UNCHANGED <<work, opener, reading, pc, engine, request, reply>>

ServerStopsReading ==
    /\ Serving /\ reading
    /\ reading' = FALSE
    /\ UNCHANGED <<work, sent, opener, reply, pc, engine, request>>

\* The end of the input, or a record that is cut off or has another
\* version: the loop ends.
EndOfInput ==
    /\ Serving
    /\ pc' = "exited"
    /\ engine' = "destroyed"
    /\ UNCHANGED <<server, reply, request>>

Next ==
    \/ Start
    \/ \E r \in Requests :
          \/ RecvBegin(r)
          \/ RecvParams(r)
          \/ RecvParamsEnd(r)
          \/ SkipParamsEnd(r)
          \/ RecvStdin(r)
          \/ RecvStdinEnd(r)
          \/ RecvAbort(r)
          \/ ServerStops(r)
    \/ ServerStopsReading
    \/ EndOfInput

Spec == Init /\ [][Next]_vars
----------------------------------------------------------------------------
(* Properties.                                                             *)

Stages == {"new", "params", "stdin", "closed", "aborted"}

\* request_t stays inside its arrays: params_len and body_len never exceed
\* the sizes of the buffers they index (main.c:303, 318); and the engine
\* exists exactly as long as requests are served.
TypeOK ==
    /\ work \in Workloads
    /\ sent \in [Requests -> [stage : Stages, at : Nat]]
    /\ opener \in [Ids -> Requests \cup {NoRequest}]
    /\ DOMAIN reply = Requests
    /\ reading \in BOOLEAN
    /\ pc \in {"start", "serving", "exited"}
    /\ engine \in {"none", "live", "destroyed"} /\ (engine = "live" <=> pc = "serving")
    /\ request.id \in Ids
    /\ request.active \in BOOLEAN /\ request.complete \in BOOLEAN
    /\ request.params \in Seq(Byte) /\ Len(request.params) <= MaxParams
    /\ request.body \in Seq(Byte) /\ Len(request.body) <= MaxBody

\* Whatever is interleaved with it, a request gets at most one
\* END_REQUEST, as the last of its records, directly after the one empty
\* record that ends its STDOUT stream; and once the server has sent it
\* completely it has got one: served, failed, too large or rejected because
\* another one is under way.  No record is larger than its length field
\* (write_record, send_end, send_error and the loop of main()).
EndedExactlyOnce ==
    \A r \in Requests :
        /\ \A i \in DOMAIN reply[r] :
            LET m == reply[r][i]
            IN  /\ IsEnd(m) => i = Len(reply[r])
                /\ (m.type = "stdout" /\ m.data = << >>)
                      <=> (i < Len(reply[r]) /\ IsEnd(reply[r][i + 1]))
                /\ Len(m.data) <= MaxRecord
                /\ m.pad < 8 /\ (~IsEnd(m) => (Len(m.data) + m.pad) % 8 = 0)
        /\ reading /\ sent[r].stage = "closed" => Ended(r)

Named(w, names) == {i \in DOMAIN w.pairs : w.pairs[i].name \in names}
LastOf(S) == CHOOSE i \in S : \A j \in S : j <= i
FirstOf(S) == CHOOSE i \in S : \A j \in S : i <= j

\* As much of a value as the field holds, up to a NUL in it.
Limited(v) == CString(SubSeq(v, 1, IF Len(v) < MaxField THEN Len(v) ELSE MaxField - 1))

\* The value of the last parameter with this name.
ValueOf(w, name) ==
    LET S == Named(w, {name}) IN IF S = {} THEN << >> ELSE Limited(w.pairs[LastOf(S)].value)

\* The last SCRIPT_NAME; if there is none or it is empty, the first
\* PATH_INFO after it that is not.
PathOf(w) ==
    LET s == Named(w, {SCRIPT_NAME})
        p == {i \in Named(w, {PATH_INFO}) :
                Limited(w.pairs[i].value) # << >> /\ (s # {} => i > LastOf(s))}
    IN  IF ValueOf(w, SCRIPT_NAME) # << >> THEN ValueOf(w, SCRIPT_NAME)
        ELSE IF p = {} THEN << >> ELSE Limited(w.pairs[FirstOf(p)].value)

Expected(w) == Handler(<<StringValue(ValueOf(w, REQUEST_METHOD)), StringValue(PathOf(w)),
                         StringValue(ValueOf(w, QUERY_STRING)), StringValue(w.body)>>)

ValidParams(w) == w.cut = 0 /\ ValueOf(w, REQUEST_METHOD) # << >>

Output(r, type) ==
    FlattenSeq([i \in DOMAIN reply[r] |-> IF reply[r][i].type = type THEN reply[r][i].data ELSE << >>])

\* An answer is computed from the parameters and the body of its own
\* request, however their streams were cut into records, whichever form
\* their lengths had, and whatever the requests before it left in the
\* buffers: all of it, or its beginning when the engine has no memory for
\* the rest.  And a request is refused only for the reason the answer gives
\* (parse_params, run_request, the limits in main(), setStringScratch).
AnswerIsOfThisRequest ==
    \A r \in Requests : Ended(r) =>
        LET w   == work[r]
            err == Output(r, "stderr")
        IN  /\ Last(reply[r]).status = 0 =>
                  /\ ValidParams(w)
                  /\ Output(r, "stdout") \in {<< >>} \cup setStringScratch(Expected(w))
            /\ err = Messages.params => ~ValidParams(w)
            /\ err = Messages.paramsLimit => Len(EncodeParams(w)) > MaxParams
            /\ err = Messages.bodyLimit => Len(w.body) > MaxBody
            /\ err = Messages.order => w.skip

=============================================================================
