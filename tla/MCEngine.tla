------------------------------ MODULE MCEngine ------------------------------
(* Two threads share two slots; calls nest twice, so that a callback of one *)
(* engine's script runs the other engine.                                   *)
EXTENDS Engine, TLC

Symmetry == Permutations(Threads)
=============================================================================
