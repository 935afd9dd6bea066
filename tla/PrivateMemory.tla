----------------------------- MODULE PrivateMemory -----------------------------
(***************************************************************************)
(* What address spaces promise their processes: a private array of pages.  *)
(* A store changes one page of one process; fork gives the child a copy of *)
(* what the parent has; pages that appear later are zero.                  *)
(***************************************************************************)
CONSTANTS Spaces, Pages, Zero, Loaded, Values, NoValue

VARIABLE view   \* view[s][p]: what process s reads at page p

NoPages == [p \in Pages |-> NoValue]

PMInit == view = [s \in Spaces |-> NoPages]

Create(s) ==
  /\ view[s] = NoPages
  /\ \E image \in [Pages -> {Zero, Loaded, NoValue}] : view' = [view EXCEPT ![s] = image]

Clone(s, t) ==
  /\ view[t] = NoPages
  /\ view' = [view EXCEPT ![t] = view[s]]

Write(s, p, v) ==
  /\ view[s][p] # NoValue
  /\ view' = [view EXCEPT ![s][p] = v]

Grow(s) ==
  \E D \in SUBSET {p \in Pages : view[s][p] = NoValue} :
    view' = [view EXCEPT ![s] = [p \in Pages |-> IF p \in D THEN Zero ELSE @[p]]]

Destroy(s) == view' = [view EXCEPT ![s] = NoPages]

PMNext ==
  \E s \in Spaces :
    \/ Create(s)
    \/ \E t \in Spaces : Clone(s, t)
    \/ \E p \in Pages, v \in Values : Write(s, p, v)
    \/ Grow(s)
    \/ Destroy(s)

PMSpec == PMInit /\ [][PMNext]_view
===============================================================================
