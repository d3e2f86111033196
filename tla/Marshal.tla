------------------------------- MODULE Marshal -------------------------------
(***************************************************************************)
(* Values that hold values, on the wire: valueToWireWithScratch and        *)
(* valueToWireDepth of engine.zig for what engine_call and                 *)
(* engine_get_global hand out, and wireToValueDepth for what a host passes *)
(* in.  A container's data are its elements, or its keys and values in     *)
(* turn; a cyclic one is one that is nested deeper than the limit.  The    *)
(* wires of the outermost container are in the engine's wire_elem_buf.     *)
(* Those of the ones inside it are taken from the permanent end of the     *)
(* heap, whose room is measured in wires here and is not given back before *)
(* the next reset.                                                         *)
(*                                                                         *)
(* The conversions are recursive operators: this module is checked, and    *)
(* what does not recurse is proved of Wire.                                *)
(***************************************************************************)
EXTENDS HostEngine

CONSTANTS
    WireElems,      \* wires of an engine's wire_elem_buf (256)
    MaxWireDepth,   \* MaxWireDepth (64)
    HeapRoom,       \* the most room explored between the ends of the heap
    Values          \* what functions return and globals have

ASSUME MarshalAssumption == {WireElems, MaxWireDepth, HeapRoom} \subseteq Nat

\* A struct and a variant go out as a map.
Containers == {"array", "map", "struct", "variant"}

TagOf(v) == IF v.kind = "array" THEN TagArray ELSE TagMap
Count(v) == IF v.kind = "array" THEN Len(v.data) ELSE Len(v.data) \div 2

Came(wire, room) == [wire |-> wire, room |-> room]

\* heap.bump
Bump(n, room) == n <= room

\* A definition marked "Faulty" is a plausible mistake in the one after it.
\* No specification uses it; it shows that the properties would notice.

\* Faulty: the container ends with the element that has no wire.
TryIgnored(v, filled) ==
    LET n == Len(filled.wires)
    IN  Came(MakeWire(TagOf(v), TRUE, filled.wires, IF v.kind = "array" THEN n ELSE n \div 2),
             filled.room)

\* The wires of the elements, or the error that one of them came to.
Try(v, filled) ==
    Came(IF WireError \in Range(filled.wires) THEN WireError
         ELSE MakeWire(TagOf(v), TRUE, filled.wires, Count(v)),
         filled.room)

RECURSIVE valueToWireDepth(_, _, _)

\* fillArrayWires, fillMapWires and the loops like them, which stop at an
\* error.
FillWires(v, depth, room) ==
    LET Next1(filled, e) ==
            LET c == valueToWireDepth(e, depth, filled.room)
            IN  IF WireError \in Range(filled.wires) THEN filled
                ELSE [wires |-> Append(filled.wires, c.wire), room |-> c.room]
    IN  Try(v, FoldLeft(Next1, [wires |-> << >>, room |-> room], v.data))

\* A container that finds no room for its wires is null.
valueToWireDepth(v, depth, room) ==
    IF depth >= MaxWireDepth THEN Came(WireError, room)
    ELSE CASE v.kind \in Containers ->
                IF Bump(Len(v.data), room) THEN FillWires(v, depth + 1, room - Len(v.data))
                ELSE Came(gengo_wire_null, room)
           [] v.kind = "named" -> valueToWireDepth(v.data[1], depth + 1, room)
           [] OTHER -> Came(valueToWire(v), room)

\* valueToWireWithScratch: variants are not given the engine's buffer.
TooWide(v) ==
    /\ v.kind \in Containers \ {"variant"}
    /\ Count(v) > IF v.kind = "array" THEN WireElems ELSE WireElems \div 2

Marshalled(v, room) ==
    CASE TooWide(v) -> {Came(WireError, room)}
      [] v.kind \in Containers \ {"variant"} /\ ~TooWide(v) -> {FillWires(v, 1, room)}
      [] v.kind \in {"variant", "named"} -> {valueToWireDepth(v, 0, room)}
      [] OTHER -> {Came(w, room) : w \in valueToWireWithScratch(v)}

RECURSIVE wireToValueDepth(_, _)

\* An argument of engine_call, or the error that ends its conversion.
TooDeep == Value("too deep", << >>)

wireToValueDepth(w, depth) ==
    LET Converted(kind, n) ==
            LET vs == [i \in 1..n |-> wireToValueDepth(w.data[i], depth + 1)]
            IN  IF TooDeep \in Range(vs) THEN TooDeep ELSE Value(kind, vs)
    IN  CASE depth >= MaxWireDepth -> TooDeep
          [] depth < MaxWireDepth /\ w.tag = TagArray -> Converted("array", w.len)
          [] depth < MaxWireDepth /\ w.tag = TagMap -> Converted("map", 2 * w.len)
          [] OTHER -> wireToValue(w)
----------------------------------------------------------------------------
RECURSIVE Agrees(_, _, _), Depth(_), Wires(_), Unserializable(_)

\* got is what is left of v without the names of types and constants; if nulls,
\* a container may be missing.
Agrees(got, v, nulls) ==
    \/ v.kind = "named" /\ Agrees(got, v.data[1], nulls)
    \/ v.kind \in Containers /\ nulls /\ got = NullValue
    \/ /\ v.kind \in Containers
       /\ got.kind = IF v.kind = "array" THEN "array" ELSE "map"
       /\ Len(got.data) = Len(v.data)
       /\ \A i \in DOMAIN v.data : Agrees(got.data[i], v.data[i], nulls)
    \/ got = IF v.kind = "enum" THEN StringValue(v.data) ELSE v

Nested(v) == IF v.kind \in Containers \cup {"named"} THEN v.data ELSE << >>

Depth(v) == 1 + FoldLeft(LAMBDA m, e : IF Depth(e) > m THEN Depth(e) ELSE m, 0, Nested(v))

\* The wires that a value takes from the heap as part of another one.
Wires(v) ==
    FoldLeft(LAMBDA n, e : n + Wires(e),
             IF v.kind \in Containers THEN Len(v.data) ELSE 0, Nested(v))

\* The same of a value that is itself handed out.
WiresNeeded(v) ==
    IF v.kind \in Containers \ {"variant"} THEN Wires(v) - Len(v.data) ELSE Wires(v)

Unserializable(v) ==
    \/ v.kind \notin Containers \cup {"named"} /\ valueToWire(v) = WireError
    \/ \E i \in DOMAIN Nested(v) : Unserializable(Nested(v)[i])

Refused(v) == TooWide(v) \/ Depth(v) > MaxWireDepth \/ Unserializable(v)

\* What is handed out, against what the host gets back when it passes it in.
AllArrive ==
    \A v \in Values, room \in 0..HeapRoom : \A c \in Marshalled(v, room) :
        LET got == wireToValueDepth(c.wire, 0)
        IN  /\ c.room \in 0..room
            /\ c.wire = WireError => Refused(v)
            /\ c.wire # WireError =>
                /\ ~TooWide(v)
                /\ Agrees(got, v, TRUE)
                /\ v.kind \in Containers \ {"variant"} => got # NullValue
            /\ WiresNeeded(v) <= room /\ c.wire # WireError =>
                /\ Agrees(got, v, FALSE)
                /\ c.room = room - WiresNeeded(v)
            /\ WiresNeeded(v) <= room /\ Refused(v) => c.wire = WireError

\* What a call or a global of a live engine hands out arrives in its place
\* when the host passes it back, however deep and however little room there
\* is: what is inside a container is there or is null, never something else
\* or in another's place, and if there is room for all of it nothing is
\* missing; an array, a map or a struct itself never is.  The conversion
\* fails only for a value that is too large for the engine's buffer, nested
\* too deep, or with something in it that has no wire, and with room for all
\* its wires for each of these (valueToWireDepth, valueToWireWithScratch,
\* wireToValueDepth).
ContainersArrive == eng.live => AllArrive
=============================================================================
