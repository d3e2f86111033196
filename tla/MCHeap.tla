------------------------------- MODULE MCHeap -------------------------------
(* Small heaps: one string or array (text) and the entries and the buckets *)
(* of a map.                                                               *)
EXTENDS Heap

CONSTANTS text, entries, buckets
=============================================================================
