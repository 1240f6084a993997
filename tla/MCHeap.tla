------------------------------- MODULE MCHeap -------------------------------
(* Model-checking instance of Heap: an area of 208 bytes holds up to eight *)
(* nodes.  The requests make malloc take a node whole, split it, leave a   *)
(* remainder too small to split off, need rounding, never fit, and wrap.   *)
EXTENDS Heap

MCRequests == {0, 1, 40, 96, 184, WordSize - 3}
=============================================================================
