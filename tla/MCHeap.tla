------------------------------- MODULE MCHeap -------------------------------
(* A heap of a few blocks for TLC. *)
EXTENDS Heap
=============================================================================
