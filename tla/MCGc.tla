-------------------------------- MODULE MCGc --------------------------------
(* A pool of interchangeable objects.                                      *)
EXTENDS Gc, TLC

CONSTANTS o1, o2, o3

PoolSymmetry == Permutations(Objs)
=============================================================================
