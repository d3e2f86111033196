------------------------------ MODULE MCUnwind ------------------------------
(* Instances of Unwind for TLC.                                             *)
EXTENDS Unwind
=============================================================================
