------------------------------ MODULE MCVirtioBlk -----------------------------
(* Two harts, two sectors; indices wrap after four, twice around the ring. *)
EXTENDS VirtioBlk

CONSTANTS h1, h2, d1, d2

MCHarts == {h1, h2}
MCSectors == {0, 1}
MCData == {d1, d2}
===============================================================================
