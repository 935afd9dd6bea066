-------------------------------- MODULE Queues --------------------------------
(* The VecDeques of the kernel as sequences: their elements, the absence   *)
(* of duplicates, and the orders in which a set of tasks can be queued.    *)
EXTENDS Integers, Sequences, FiniteSets

Elems(s) == {s[i] : i \in 1..Len(s)}

NoDup(s) == \A i, j \in 1..Len(s) : s[i] = s[j] => i = j

Orders(S) ==
  {s \in [1..Cardinality(S) -> S] : s \in Seq(S) /\ NoDup(s) /\ Elems(s) = S}
=============================================================================
