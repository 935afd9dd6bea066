------------------------------- MODULE MCKmalloc -------------------------------
(* A heap of a few nodes; one byte, a size that is not a multiple of the   *)
(* header's alignment, and a block aligned to 64 as Align64 of the tests.  *)
EXTENDS Kmalloc

CONSTANT none

MCLayouts == {[size |-> 1, align |-> 1], [size |-> 20, align |-> 8], [size |-> 4, align |-> 64]}
===============================================================================
