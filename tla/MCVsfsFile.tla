------------------------------ MODULE MCVsfsFile ------------------------------
(* Sectors of two cells, blocks of two sectors, one direct pointer and an  *)
(* indirect block of four: a file of 14 bytes ends in the middle of its    *)
(* fourth block, whose pointer is in the second sector of the indirect     *)
(* block.  The second image lacks that pointer and the direct one, the     *)
(* third has no indirect block, the fourth is a directory.                 *)
EXTENDS VsfsFile

CONSTANTS idle, written

(* Pointers are counted from 0.                                            *)
FromZero(s) == [k \in 0..(Len(s) - 1) |-> s[k + 1]]

Image(ty, direct, indirect, ptrs) ==
  [ty |-> ty, direct |-> FromZero(direct), indirect |-> indirect, ptrs |-> FromZero(ptrs)]

MCByte == {written}

MCImages ==
  {Image("File", <<3>>, 1, <<4, 2, 5, 0>>), Image("File", <<0>>, 1, <<4, 2, 0, 0>>),
   Image("File", <<3>>, 0, <<0, 0, 0, 0>>), Image("Directory", <<3>>, 0, <<0, 0, 0, 0>>)}
===============================================================================
