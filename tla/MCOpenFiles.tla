------------------------------ MODULE MCOpenFiles -----------------------------
(* Two processes that share and reopen a file of two bytes; every path of  *)
(* at most five bytes over a slash and two letters.                        *)
EXTENDS OpenFiles, TLC

CONSTANTS p1, p2, f1, f2

MCProcs == {p1, p2}
MCFiles == {f1, f2}
Symmetry == Permutations(MCFiles)
MCMountPaths == {<<"/">>, <<"/", "a">>, <<"/", "a", "b">>, <<"/", "a", "/", "b">>}
MCPaths ==
  {s \in UNION {[1..n -> {"/", "a", "b"}] : n \in 0..5} :
     \A i \in 1..(Len(s) - 1) : ~(s[i] = "/" /\ s[i + 1] = "/")}
MCOnDisk == {<<"/", "a">>}
MCUserPaths == {<<>>, <<"a">>, <<"/", "a">>, <<"/", "b">>, <<"/", "b", "b", "b">>}
MCVectors == {<<1, 1>>, <<0, 2>>}
===============================================================================
