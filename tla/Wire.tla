-------------------------------- MODULE Wire --------------------------------
(***************************************************************************)
(* gengo_value_wire_t, the record in which values cross the C boundary:    *)
(* the constructors and readers of gengo-wire.h on the host's side, and    *)
(* wireToValue and valueToWireWithScratch of engine.zig on the engine's.   *)
(* A wire's payload word is either bits or a pointer: data is the bits (as *)
(* a one-element sequence) or what the pointer points to, and ptr says     *)
(* that the word is not zero as a pointer.  Characters are numbers, 0 is   *)
(* NUL.  Words have Width bits and lengths LenWidth bits.  A double is a   *)
(* word read as a fixed-point number with one binary fraction digit, which *)
(* is enough to tell a bit copy from a conversion.                         *)
(***************************************************************************)
EXTENDS Integers, Sequences, SequencesExt

CONSTANTS
    Width,      \* bits of a payload word (64)
    LenWidth,   \* bits of len and of an index (32)
    RuneWidth,  \* bits of a rune (21)
    MaxStringScratch    \* characters of an engine's scratch buffer (4096)

ASSUME WireAssumption ==
    /\ {Width, LenWidth, RuneWidth} \subseteq Nat \ {0}
    /\ MaxStringScratch \in Nat \ {0}

TagNull    == 0
TagBoolean == 1
TagNumber  == 2
TagString  == 3
TagArray   == 4
TagMap     == 5
TagError   == 6

FlagInteger == 1
FlagDecimal == 2
FlagRune    == 4

\* Two's complement.
Bits(n)  == n % 2^Width
AsI64(b) == IF b >= 2^(Width - 1) THEN b - 2^Width ELSE b

\* (int64_t)d and (double)n.
Trunc(b)    == LET v == AsI64(b) IN IF v < 0 THEN -((-v) \div 2) ELSE v \div 2
ToDouble(n) == Bits(2 * n)

\* strlen: the characters before the first NUL.
CString(s) ==
    IF 0 \in Range(s)
    THEN SubSeq(s, 1, SelectInSeq(s, LAMBDA c : c = 0) - 1)
    ELSE s
----------------------------------------------------------------------------
(* Constructors.                                                           *)

gengo_wire_null ==
    [tag |-> TagNull, flags |-> 0, ptr |-> FALSE, data |-> << >>, len |-> 0]

gengo_wire_bool(value) ==
    [gengo_wire_null EXCEPT !.tag = TagBoolean,
                            !.data = <<IF value THEN 1 ELSE 0>>]

gengo_wire_int(value) ==
    [gengo_wire_null EXCEPT !.tag = TagNumber, !.flags = FlagInteger,
                            !.data = <<Bits(value)>>]

gengo_wire_float(value) ==
    [gengo_wire_null EXCEPT !.tag = TagNumber, !.data = <<value>>]

gengo_wire_str_n(s, len) ==
    [gengo_wire_null EXCEPT !.tag = TagString, !.ptr = TRUE,
                            !.data = SubSeq(s, 1, len), !.len = len]

gengo_wire_str(s) == gengo_wire_str_n(s, Len(CString(s)))

\* A null pointer: both forms leave the null wire.
gengo_wire_str_null == gengo_wire_null

gengo_wire_array(elems, count) ==
    [gengo_wire_null EXCEPT !.tag = TagArray, !.ptr = TRUE,
                            !.data = elems, !.len = count]

gengo_wire_map(kvPairs, entryCount) ==
    [gengo_wire_null EXCEPT !.tag = TagMap, !.ptr = TRUE,
                            !.data = kvPairs, !.len = entryCount]
----------------------------------------------------------------------------
(* Readers.                                                                *)

gengo_wire_as_bool(v) == v.tag = TagBoolean /\ v.data = <<1>>

\* A definition marked "Faulty" is a plausible mistake in the one after it.
\* No specification uses it; it shows that the properties would notice.

\* Faulty: the bits of an integer are taken for a double's.
AsIntIgnoresFlag(v) == IF v.tag # TagNumber THEN 0 ELSE Trunc(v.data[1])

gengo_wire_as_int(v) ==
    IF v.tag # TagNumber THEN 0
    ELSE IF v.flags % 2 = FlagInteger THEN AsI64(v.data[1])
    ELSE Trunc(v.data[1])

gengo_wire_as_float(v) ==
    IF v.tag # TagNumber THEN 0
    ELSE IF v.flags % 2 = FlagInteger THEN ToDouble(AsI64(v.data[1]))
    ELSE v.data[1]

\* What buf holds before the NUL that is put after it.
gengo_wire_read_str(v, bufSize) ==
    IF v.tag # TagString \/ ~v.ptr \/ v.len = 0 THEN << >>
    ELSE SubSeq(v.data, 1, IF v.len < bufSize THEN v.len ELSE bufSize - 1)

gengo_wire_array_len(v) == IF v.tag = TagArray THEN v.len ELSE 0

\* The element, or << >> for NULL.
gengo_wire_array_at(v, index) ==
    IF v.tag # TagArray \/ index >= v.len THEN << >>
    ELSE <<v.data[index + 1]>>

gengo_wire_map_len(v) == IF v.tag = TagMap THEN v.len ELSE 0

gengo_wire_map_key_at(v, index) ==
    IF v.tag # TagMap \/ index >= v.len THEN << >>
    ELSE <<v.data[((index * 2) % 2^LenWidth) + 1]>>

gengo_wire_map_value_at(v, index) ==
    IF v.tag # TagMap \/ index >= v.len THEN << >>
    ELSE <<v.data[((index * 2 + 1) % 2^LenWidth) + 1]>>
----------------------------------------------------------------------------
(* The engine's side.  A script value is a kind and its contents, again as *)
(* a sequence.                                                             *)

Value(k, d) == [kind |-> k, data |-> d]
NullValue   == Value("null", << >>)
IntValue(n) == Value("int", <<n>>)
StringValue(s)  == Value("string", s)
BoolValue(b)    == Value("boolean", <<IF b THEN 1 ELSE 0>>)

\* The kind of number is decided by the flags, decimal before rune before
\* integer.
NumberKind(flags) ==
    IF (flags \div FlagDecimal) % 2 = 1 THEN "decimal"
    ELSE IF (flags \div FlagRune) % 2 = 1 THEN "rune"
    ELSE IF flags % 2 = 1 THEN "int"
    ELSE "float"

\* A word that does not fit a rune is not converted: the cast traps.
Trap == Value("trap", << >>)

\* wireToValue, for wires that are not containers.
wireToValue(w) ==
    CASE w.tag = TagBoolean -> BoolValue(w.data # <<0>>)
      [] w.tag = TagNumber ->
            LET k == NumberKind(w.flags)
            IN  IF k = "rune" /\ w.data[1] >= 2^RuneWidth THEN Trap
                ELSE Value(k, IF k \in {"int", "decimal"} THEN <<AsI64(w.data[1])>> ELSE w.data)
      [] w.tag = TagString -> StringValue(SubSeq(w.data, 1, w.len))
      [] w.tag = TagError -> Value("error", SubSeq(w.data, 1, w.len))
      [] OTHER -> NullValue

MakeWire(tag, ptr, data, len) ==
    [gengo_wire_null EXCEPT !.tag = tag, !.ptr = ptr, !.data = data, !.len = len]

\* What a conversion comes to that returns an error.
WireError == MakeWire(-1, FALSE, << >>, 0)

\* A wire with a length, if the length fits.
LongWire(tag, s) ==
    IF Len(s) < 2^LenWidth THEN MakeWire(tag, TRUE, s, Len(s)) ELSE WireError

\* valueToWireDepth, for values that are not containers.  Strings point to
\* the value's own characters, also empty ones; functions, actors and the
\* like have no wire.
valueToWire(v) ==
    CASE v.kind = "null" -> gengo_wire_null
      [] v.kind = "boolean" -> MakeWire(TagBoolean, v.data = <<1>>, v.data, 0)
      [] v.kind = "int" -> [gengo_wire_int(v.data[1]) EXCEPT !.flags = FlagInteger]
      [] v.kind = "float" -> MakeWire(TagNumber, TRUE, v.data, 0)
      [] v.kind = "decimal" -> [gengo_wire_int(v.data[1]) EXCEPT !.flags = FlagDecimal]
      [] v.kind = "rune" -> [MakeWire(TagNumber, TRUE, v.data, 0) EXCEPT !.flags = FlagRune]
      [] v.kind \in {"string", "enum"} -> LongWire(TagString, v.data)
      [] v.kind = "error" -> LongWire(TagError, v.data)
      [] OTHER -> WireError

\* What the engine keeps of a string it returns: a string longer than the
\* scratch buffer is copied to memory of its own, or cut to the buffer if
\* there is none.
setStringScratch(s) ==
    IF Len(s) <= MaxStringScratch THEN {s} ELSE {s, SubSeq(s, 1, MaxStringScratch)}

\* valueToWireWithScratch: the wires that a returned value may come to.
valueToWireWithScratch(v) ==
    IF v.kind = "string"
    THEN {MakeWire(TagString, TRUE, t, Len(t)) : t \in setStringScratch(v.data)}
    ELSE {valueToWire(v)}
----------------------------------------------------------------------------
(* What the two sides owe each other, for a set of strings.                *)

Integers64 == -(2^(Width - 1))..(2^(Width - 1) - 1)
Words      == 0..(2^Width - 1)
Runes      == 0..(2^RuneWidth - 1)

NumbersCross ==
    /\ \A n \in Integers64 :
        /\ wireToValue(gengo_wire_int(n)) = IntValue(n)
        /\ gengo_wire_as_int(valueToWire(IntValue(n))) = n
        /\ gengo_wire_as_float(valueToWire(IntValue(n))) = ToDouble(n)
    /\ \A b \in Words :
        /\ wireToValue(gengo_wire_float(b)) = Value("float", <<b>>)
        /\ gengo_wire_as_float(valueToWire(Value("float", <<b>>))) = b
    /\ \A k \in {"int", "float", "decimal"}, b \in Words :
        LET v == Value(k, <<IF k = "float" THEN b ELSE AsI64(b)>>)
        IN  wireToValue(valueToWire(v)) = v
    /\ \A b \in Runes :
        wireToValue(valueToWire(Value("rune", <<b>>))) = Value("rune", <<b>>)
    /\ \A b \in BOOLEAN :
        /\ wireToValue(gengo_wire_bool(b)) = BoolValue(b)
        /\ gengo_wire_as_bool(valueToWire(BoolValue(b))) = b

\* A string that the host passes, and one inside a container or an error
\* that the engine returns, arrive whole.  A string that the engine returns
\* is whole or cut to the scratch buffer, and a reader whose buffer is no
\* larger than that one reads the same of both.
StringsCross(strings) ==
    \A s \in strings :
        /\ wireToValue(gengo_wire_str_n(s, Len(s))) = StringValue(s)
        /\ wireToValue(gengo_wire_str(s)) = StringValue(CString(s))
        /\ \A k \in {"string", "error"} :
            LET w == valueToWire(Value(k, s))
            IN  IF Len(s) < 2^LenWidth THEN wireToValue(w) = Value(k, s) ELSE w = WireError
        /\ \A w \in valueToWireWithScratch(StringValue(s)) :
            /\ wireToValue(w).kind = "string"
            /\ IsPrefix(wireToValue(w).data, s)
            /\ wireToValue(w).data # s =>
                  Len(s) > MaxStringScratch /\ Len(wireToValue(w).data) = MaxStringScratch
            /\ \A size \in 1..MaxStringScratch :
                LET got == gengo_wire_read_str(w, size)
                IN  /\ IsPrefix(got, s)
                    /\ Len(got) = IF Len(s) < size THEN Len(s) ELSE size - 1

\* Arrays and maps of up to half the indices: a map of n entries has 2 * n
\* wires.
ContainersCross ==
    \A n \in 0..(2^(LenWidth - 1) - 1) :
        LET wires == [i \in 1..(2 * n) |-> gengo_wire_int(i)]
            a     == gengo_wire_array(wires, 2 * n)
            m     == gengo_wire_map(wires, n)
        IN  /\ \A i \in 0..(2^LenWidth - 1) :
                /\ gengo_wire_array_at(a, i) = IF i < 2 * n THEN <<wires[i + 1]>> ELSE << >>
                /\ gengo_wire_map_key_at(m, i) = IF i < n THEN <<wires[2 * i + 1]>> ELSE << >>
                /\ gengo_wire_map_value_at(m, i) = IF i < n THEN <<wires[2 * i + 2]>> ELSE << >>
                /\ gengo_wire_array_at(m, i) = << >> /\ gengo_wire_map_key_at(a, i) = << >>
            /\ gengo_wire_array_len(a) = 2 * n /\ gengo_wire_map_len(m) = n
            /\ gengo_wire_array_len(m) = 0 /\ gengo_wire_map_len(a) = 0
=============================================================================
