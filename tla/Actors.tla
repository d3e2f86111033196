------------------------------- MODULE Actors -------------------------------
(***************************************************************************)
(* What the task system promises to a script, without slots, generations,  *)
(* a ready queue or a scheduler: an actor reference names one actor, from  *)
(* its birth to its death and never another one; a message sent to a live  *)
(* actor is appended to that actor's mailbox; a message sent to anything   *)
(* else disappears; an actor takes its messages in the order in which they *)
(* were appended, each one once.                                           *)
(***************************************************************************)
EXTENDS Sequences

CONSTANTS Ids,        \* every actor reference that can ever be minted
          Payloads    \* message contents

VARIABLES life,       \* life[i]: "unborn", "alive" or "gone"
          inbox       \* inbox[i]: what has been sent to i and not yet taken

actorVars == <<life, inbox>>

Init ==
    /\ life = [i \in Ids |-> "unborn"]
    /\ inbox = [i \in Ids |-> << >>]

Born(i) ==
    /\ life[i] = "unborn"
    /\ life' = [life EXCEPT ![i] = "alive"]
    /\ UNCHANGED inbox

\* A spawn that failed after it had used up the reference.
Stillborn(i) ==
    /\ life[i] = "unborn"
    /\ life' = [life EXCEPT ![i] = "gone"]
    /\ UNCHANGED inbox

Deliver(i, m) ==
    /\ life[i] = "alive"
    /\ inbox' = [inbox EXCEPT ![i] = Append(@, m)]
    /\ UNCHANGED life

Take(i) ==
    /\ life[i] = "alive"
    /\ inbox[i] # << >>
    /\ inbox' = [inbox EXCEPT ![i] = Tail(@)]
    /\ UNCHANGED life

Die(i) ==
    /\ life[i] = "alive"
    /\ life' = [life EXCEPT ![i] = "gone"]
    /\ inbox' = [inbox EXCEPT ![i] = << >>]

\* The host starts over: every actor is gone at once, and at most one new one
\* (the program's own top level) is born in the same step.
Restart(new) ==
    /\ \A i \in new : life[i] = "unborn"
    /\ life' = [i \in Ids |-> IF i \in new THEN "alive"
                               ELSE IF life[i] = "unborn" THEN "unborn" ELSE "gone"]
    /\ inbox' = [i \in Ids |-> << >>]

Next ==
    \/ \E i \in Ids : Born(i) \/ Stillborn(i) \/ Take(i) \/ Die(i)
    \/ \E i \in Ids, m \in Payloads : Deliver(i, m)
    \/ Restart({})
    \/ \E i \in Ids : Restart({i})

Spec == Init /\ [][Next]_actorVars
=============================================================================
