------------------------------- MODULE MCHosts -------------------------------
(* Scripts of every kind, and values of every kind, nested up to and past  *)
(* the limits.                                                             *)
EXTENDS Hosts, Marshal

CONSTANTS Good, Better, Broken, Verbose, Panics, Huge

MCLoadOutcome == [s \in Scripts |->
    CASE s \in {Good, Better} -> "ok"
      [] s = Broken -> "compile"
      [] s = Verbose -> "verbose"
      [] s = Panics -> "runtime"
      [] s = Huge -> "long"]

I(n)     == IntValue(n)
Str      == StringValue(<<1, 0>>)
Array(s) == Value("array", s)
Key(n)   == StringValue(<<n>>)

\* Arrays in arrays.
Chain[n \in Nat] == IF n = 0 THEN I(1) ELSE Array(<<Chain[n - 1]>>)

MCValues == {
    I(1), Value("rune", <<7>>), Str, Value("enum", <<1>>), Value("error", <<1, 1>>),
    Value("actor", << >>),
    Value("named", <<Value("named", <<Str>>)>>),
    Value("named", <<Array(<<I(1), I(2)>>)>>),
    Chain[1], Chain[2], Chain[MaxWireDepth - 1], Chain[MaxWireDepth],
    Array(<< >>), Array(<<I(1), Str, I(3), I(4)>>),
    Array(<<I(1), I(2), I(3), I(4), I(5)>>),
    Array(<<Array(<<I(1), I(2)>>), Array(<<I(3)>>), Value("enum", <<1>>)>>),
    Array(<<Array(<<Str>>), Value("function", << >>), Array(<<I(1)>>)>>),
    Value("map", <<Key(1), Array(<<I(1)>>), Key(2), I(2)>>),
    Value("map", <<Key(1), I(1), Key(2), I(2), Key(3), I(3)>>),
    Value("struct", <<Key(1), Value("named", <<Array(<<I(1), I(2)>>)>>)>>),
    Value("variant", <<Key(1), Str, Key(2), Array(<<I(1)>>)>>) }
=============================================================================
