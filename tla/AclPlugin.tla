------------------------------ MODULE AclPlugin ------------------------------
(***************************************************************************)
(* The Mosquitto plugin, examples/mosquitto-acl/plugin.c.  The broker      *)
(* calls it from one thread: once to initialise it, then for checks and    *)
(* reloads in any order, and once to clean up.  The administrator changes  *)
(* the policy file at any time.                                            *)
(***************************************************************************)
EXTENDS HostEngine

CONSTANTS
    Clients,    \* numbers of the checks' subjects
    Missing     \* no file at g_script_path

ASSUME AclAssumption == Clients \subseteq Nat

VARIABLES
    file,           \* the contents of the policy file
    g_engine,       \* the handle
    g_basic_auth,   \* the option
    registered,     \* callbacks registered with the broker
    stage,          \* "start", "serving", "failed", "cleaned"
    accepted,       \* history: the last script that loaded
    check           \* history: the last check: who decided, what was said, the result

aclVars == <<file, g_engine, g_basic_auth, registered, stage, accepted, check>>

NoCheck == [by |-> NoProgram, wanted |-> NoProgram, said |-> "none", granted |-> FALSE]

AclInit ==
    /\ file \in Scripts \cup {Missing}
    /\ g_engine = 0
    /\ g_basic_auth \in BOOLEAN
    /\ registered = {}
    /\ stage = "start"
    /\ accepted = NoProgram
    /\ check = NoCheck

\* log_engine_error of the plugin: the length is cut to the buffer's.
LogClamped(e) ==
    LET m == engine_last_error(e, HostBuf)
    IN  [n |-> AtMost(m.len, HostBuf), filled |-> Len(m.buf)]

EditFile ==
    /\ stage = "serving"
    /\ file' \in (Scripts \cup {Missing}) \ {file}
    /\ UNCHANGED <<g_engine, g_basic_auth, registered, stage, accepted, check, eng, logged>>

\* load_script: fopen or malloc fails, or the engine is reset and the
\* script run.
load_script(e) ==
    {[ok |-> FALSE, eng |-> e, log |-> logged]}
    \cup (IF file = Missing THEN {}
          ELSE LET r == engine_run(engine_reset(e), file)
               IN  {[ok |-> r.rc = 0, eng |-> r.eng,
                     log |-> IF r.rc = 0 THEN logged ELSE LogClamped(r.eng)]})

Accepted(r) == IF r.ok THEN r.eng.prog ELSE accepted

\* mosquitto_plugin_init.  A negative handle is not noticed here: the load
\* that follows fails.
InitWithoutScript ==
    /\ stage' = "failed"
    /\ UNCHANGED <<g_engine, registered, accepted, eng, logged>>

InitWithoutEngine(h) ==
    /\ h = 0
    /\ g_engine' = 0 /\ stage' = "failed"
    /\ UNCHANGED <<registered, accepted, eng, logged>>

InitWithEngine(h) ==
    /\ h # 0
    /\ \E r \in load_script(engine_init_with_config(h)) :
        /\ logged' = r.log
        /\ accepted' = Accepted(r)
        /\ IF r.ok
           THEN /\ g_engine' = h /\ eng' = r.eng /\ stage' = "serving"
                /\ registered' = {"acl", "reload"} \cup IF g_basic_auth THEN {"auth"} ELSE {}
           ELSE /\ g_engine' = 0 /\ eng' = engine_destroy(r.eng) /\ stage' = "failed"
                /\ UNCHANGED registered

PluginInit ==
    /\ stage = "start"
    /\ \/ InitWithoutScript
       \/ \E h \in InitResults : InitWithoutEngine(h) \/ InitWithEngine(h)
    /\ UNCHANGED <<file, g_basic_auth, check>>

\* Faulty: any result that is not false grants.
CallBoolTruthy(r) == r.rc = 0 /\ r.out.data # <<0>>

\* call_bool: anything but the boolean true denies.
call_bool(r) == r.rc = 0 /\ gengo_wire_as_bool(r.out)

\* A call of the policy for one check.
Decide(q) ==
    \E r \in engine_call(eng, q, Decisions) :
        /\ eng' = r.eng
        /\ logged' = IF r.rc = 0 THEN logged ELSE LogClamped(r.eng)
        /\ check' = [by |-> eng.prog, wanted |-> accepted, said |-> r.said,
                     granted |-> call_bool(r)]

Serves(event) == stage = "serving" /\ event \in registered

Unchanged == UNCHANGED <<file, g_engine, g_basic_auth, registered, stage, accepted>>

OnAclCheck(q) ==
    /\ Serves("acl")
    /\ Decide(q)
    /\ Unchanged

\* An access that is none of the four is denied without asking.
OnUnknownAccess ==
    /\ Serves("acl")
    /\ check' = [by |-> eng.prog, wanted |-> accepted, said |-> "unasked", granted |-> FALSE]
    /\ UNCHANGED <<eng, logged>>
    /\ Unchanged

OnBasicAuth(q) ==
    /\ Serves("auth")
    /\ Decide(q)
    /\ Unchanged

OnReload ==
    /\ Serves("reload")
    /\ \E r \in load_script(eng) :
        /\ eng' = r.eng /\ logged' = r.log
        /\ accepted' = Accepted(r)
    /\ UNCHANGED <<file, g_engine, g_basic_auth, registered, stage, check>>

PluginCleanup ==
    /\ stage = "serving"
    /\ registered' = {}
    /\ g_engine' = 0
    /\ eng' = IF g_engine # 0 THEN engine_destroy(eng) ELSE eng
    /\ stage' = "cleaned"
    /\ UNCHANGED <<file, g_basic_auth, accepted, check, logged>>

AclNext ==
    \/ EditFile
    \/ PluginInit
    \/ \E q \in Clients : OnAclCheck(q) \/ OnBasicAuth(q)
    \/ OnUnknownAccess
    \/ OnReload
    \/ PluginCleanup

\* A check is granted only if a program that is in the engine was asked and
\* its answer was the boolean true: compile errors, panics, missing
\* functions, exhausted budgets, other results and unknown accesses deny,
\* whatever was loaded, reloaded or lost before (plugin.c:15-16, call_bool).
AclFailsClosed ==
    /\ check.granted => check.said = "true" /\ check.by # NoProgram
    /\ stage = "serving" => eng.live /\ g_engine > 0

\* The plugin's promise for reloads, "Keep serving the old policy if the
\* new one fails to load" (plugin.c:145): every check is decided by the
\* last script that loaded.
KeepsServingTheOldPolicy == check.by = check.wanted
=============================================================================
