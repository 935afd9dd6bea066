----------------------------- MODULE MCSchedHarts -----------------------------
(* Two harts and three user tasks; two of them are interchangeable.        *)
EXTENDS SchedHarts, TLC

CONSTANTS sh, ua, ub

MCUsers == {sh, ua, ub}

Symmetry == Permutations({ua, ub})
=============================================================================
