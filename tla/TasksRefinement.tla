-------------------------- MODULE TasksRefinement --------------------------
(***************************************************************************)
(* The task table implements Actors. An abstract actor is a pair of a slot *)
(* and a generation: it is unborn while the slot has not reached that      *)
(* generation, alive while the slot has it and is in use, and gone after   *)
(* that. Its inbox is the slot's mailbox while it is alive.                *)
(*                                                                         *)
(* The generation counter must not wrap (MaxGen < GenMod): a reference     *)
(* kept while its slot is claimed another 2^32 - 1 times names a second    *)
(* actor. And one Runtime either runs programs or is a REPL: runIncremental *)
(* after a run works on whatever slot that run left current.               *)
(***************************************************************************)
EXTENDS Tasks

ASSUME NoWrapAssumption == MaxGen < GenMod
ASSUME ProgramsOnly == "incremental" \notin HostOps

ActorIds == [index : TaskSlots, generation : 1 .. MaxGen]

LifeOf(i) ==
    CASE i.generation > generation[i.index] -> "unborn"
      [] i.generation = generation[i.index] /\ IsAlive(i.index) -> "alive"
      [] OTHER -> "gone"

InboxOf(i) == IF LifeOf(i) = "alive" THEN mailbox[i.index] ELSE << >>

actors == INSTANCE Actors WITH
    Ids      <- ActorIds,
    Payloads <- Sendable,
    life     <- [i \in ActorIds |-> LifeOf(i)],
    inbox    <- [i \in ActorIds |-> InboxOf(i)]

\* Slots, generations, the ready queue and the scheduler give scripts what
\* Actors promises: a reference never comes to name another task, however the
\* slot is recycled; messages reach the task they were sent to or nobody, once
\* and in order.
ImplementsActors == actors!Spec
----------------------------------------------------------------------------
(* Addressed messages. A step does not show through which reference a      *)
(* message was sent, so let every script put the addressee and a serial    *)
(* number into the message: it then says for whom it was meant.            *)

Addressed == ActorIds \X {1, 2}

AddressedNext ==
    \/ HostStep
    \/ OwnStep
    \/ \E r \in HeldRefs, m \in Sendable :
          m[1] = r /\ (Send(r, m) \/ SendStrands(r, m))

AddressedSpec == Init /\ [][AddressedNext]_vars

\* A message waits only in the mailbox of the very task it was sent to: not in
\* that of a later task in the same slot, whether the reference was stale when
\* it was used or the addressee died with the message unread.
DeliveredAsAddressed ==
    \A s \in TaskSlots : \A i \in DOMAIN mailbox[s] :
        LET to == mailbox[s][i][1] IN
        to.index = s /\ (IsAlive(s) => to.generation = generation[s])
=============================================================================
