------------------------------- MODULE ByteFile -------------------------------
(***************************************************************************)
(* What an open file (vfs::File over a VNode) promises: a sequence of      *)
(* bytes of fixed size and an offset.  A read returns bytes of the file    *)
(* from the offset on, a write replaces them, both possibly fewer than     *)
(* asked for; the offset moves by exactly the number of bytes reported,    *)
(* and an error leaves it alone.  A write that fails may have replaced a   *)
(* prefix of its range.  Nothing outside the file changes.                 *)
(***************************************************************************)
EXTENDS Integers, Sequences

CONSTANTS Size, Byte, Idle

VARIABLES
  data,   \* the bytes
  rest,   \* everything else on the disk
  off,    \* File.offset
  req,    \* the operation in progress
  out     \* the bytes read so far

fileVars == <<data, rest, off, req, out>>

ByteInit ==
  /\ off = 0
  /\ req = Idle
  /\ out = <<>>

Begin ==
  /\ req = Idle
  /\ off < Size
  /\ \E kind \in {"read", "write"}, left \in 1..(Size - off), v \in Byte :
       req' = [kind |-> kind, pos |-> off, left |-> left, total |-> 0, val |-> v]
  /\ UNCHANGED <<data, rest, off, out>>

(* The next bytes, at least one, are transferred.                          *)
Move ==
  /\ req # Idle
  /\ \E k \in 1..req.left :
       /\ req' = [req EXCEPT !.pos = @ + k, !.left = @ - k, !.total = @ + k]
       /\ IF req.kind = "read"
          THEN /\ out' = out \o [i \in 1..k |-> data[req.pos + i - 1]]
               /\ UNCHANGED data
          ELSE /\ data' = [i \in DOMAIN data |->
                             IF i \in req.pos..(req.pos + k - 1) THEN req.val ELSE data[i]]
               /\ UNCHANGED out
  /\ UNCHANGED <<rest, off>>

Finish ==
  /\ req # Idle
  /\ req.total > 0
  /\ off' = off + req.total
  /\ req' = Idle
  /\ out' = <<>>
  /\ UNCHANGED <<data, rest>>

(* An error; a failed write may still have landed.                         *)
Error ==
  /\ req # Idle
  /\ \E k \in 0..req.left :
       /\ req.kind = "read" => k = 0
       /\ data' = [i \in DOMAIN data |->
                     IF i \in req.pos..(req.pos + k - 1) THEN req.val ELSE data[i]]
  /\ req' = Idle
  /\ out' = <<>>
  /\ UNCHANGED <<rest, off>>

Reposition ==
  /\ req = Idle
  /\ off' \in 0..Size
  /\ UNCHANGED <<data, rest, req, out>>

ByteNext == Begin \/ Move \/ Finish \/ Error \/ Reposition

ByteSpec == ByteInit /\ [][ByteNext]_fileVars
===============================================================================
