-------------------------------- MODULE Hosts --------------------------------
(* One process running one of the example hosts on one engine.             *)
EXTENDS AclPlugin, PolicyHosts

CONSTANTS
    Programs,   \* the hosts to run
    Chars       \* characters of the strings that cross the boundary

vars == <<program, eng, logged, aclVars, policyVars>>

Init ==
    /\ program \in Programs
    /\ eng = NoEngine
    /\ logged = [n |-> 0, filled |-> 0]
    /\ AclInit
    /\ program # "acl" => file = Missing /\ ~g_basic_auth
    /\ PolicyInit

Next ==
    /\ UNCHANGED program
    /\ \/ program = "acl" /\ AclNext /\ UNCHANGED policyVars
       \/ program # "acl" /\ PolicyNext /\ UNCHANGED aclVars

Spec == Init /\ [][Next]_vars
----------------------------------------------------------------------------
ProgramStates == [script : Scripts, whole : BOOLEAN] \cup {NoProgram}

\* Besides the types: an engine that was given up keeps nothing, and every
\* way out of main() and of the plugin but exit() has given it up.
TypeOK ==
    /\ program \in Programs
    /\ eng.live \in BOOLEAN /\ eng.prog \in ProgramStates
    /\ eng.err \in Seq(Nat) /\ eng.note \in Seq(Nat)
    /\ ~eng.live => eng = NoEngine
    /\ pc = "exited" \/ stage \in {"failed", "cleaned"} => ~eng.live
    /\ file \in Scripts \cup {Missing}
    /\ g_engine \in InitResults /\ g_basic_auth \in BOOLEAN
    /\ registered \subseteq {"acl", "reload", "auth"}
    /\ stage \in {"start", "serving", "failed", "cleaned"}
    /\ accepted \in ProgramStates
    /\ pc \in {"init", "bundle", "read", "run", "open", "cases", "exited", "died"}
    /\ index \in 1..(Cases + 1)
    /\ last_reason \in Seq(Nat)
    /\ rows \subseteq 1..Cases
    /\ Len(verdicts) = index - 1 /\ Len(shown) = index - 1

\* Every example host fails closed: nothing is granted, stored or allowed
\* without the script's answer true for it, and none of them is asked
\* without an engine (call_bool, sql_gengo_validate, call_bool_fn).
FailsClosed == AclFailsClosed /\ PolicyFailsClosed

\* A host prints no more of an engine's error than engine_last_error wrote
\* into its buffer, also bundle-c, which relies on the engine never to
\* report more than the 512 bytes both buffers have, whatever the script's
\* error was (log_engine_error, log_error; setCompileError).
LogStaysInBuffer == logged.n <= logged.filled

\* Strings that fit the scratch buffer, and ones that do not.
AllStringsCross == StringsCross(BoundedSeq(Chars, MaxStringScratch + 1))

\* Values cross the boundary in both directions: every integer keeps its
\* 64 bits and every rune its 21, a double is not taken for an integer nor
\* the reverse, strings keep their lengths, or, from the engine to the host
\* and without memory for a copy, their first MaxStringScratch characters,
\* which no reader with a smaller buffer notices; and the readers of
\* containers stay inside them (gengo-wire.h against wireToValueDepth,
\* valueToWireDepth, setStringScratch and valueToWireWithScratch of
\* engine.zig).
WireRoundTrip == NumbersCross /\ AllStringsCross /\ ContainersCross
=============================================================================
