------------------------------- MODULE MCSched -------------------------------
(* Sched for TLC: the shell and two more user tasks.  The latter two are   *)
(* interchangeable.                                                        *)
EXTENDS Sched, TLC

CONSTANTS sh, a, b

MCUsers == {sh, a, b}

Symmetry == Permutations({a, b})
=============================================================================
