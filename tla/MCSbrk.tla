------------------------------- MODULE MCSbrk -------------------------------
(***************************************************************************)
(* A heap of eight bytes and requests of one, two, three and five: several *)
(* regions fit, and the end of the heap is met exactly and passed.         *)
(***************************************************************************)
EXTENDS Sbrk

MCIncrements == {1, 2, 3, 5}
=============================================================================
