---------------------------- MODULE MCAddressSpace ----------------------------
(* Pages 0 to 2: a text and a data segment that meet in page 0, the heap,  *)
(* and the stack at the top; all pages of a space are below one table.     *)
EXTENDS AddressSpace

CONSTANTS s1, s2, new, zero, loaded, stale, none

TwoSpaces == {s1, s2}
MCStores == {new}
MCWalk(p) == {"l0"}
MCTableOrder == <<"l0">>
SharedPageImage == <<[page |-> 0, flags |-> {"R", "X"}], [page |-> 0, flags |-> {"R", "W"}]>>
MCStackPages == <<2>>
Symmetry == Permutations(Spaces)
===============================================================================
