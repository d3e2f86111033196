------------------------- MODULE MCTasksRefinement -------------------------
(* An instance of TasksRefinement for TLC: a message is a reference to its  *)
(* addressee and one of two numbers.                                        *)
EXTENDS TasksRefinement

AllMessages == Addressed
=============================================================================
