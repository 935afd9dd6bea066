-------------------------------- MODULE MCVsfs --------------------------------
(* Small instances of Vsfs.  A block holds three entries, so the           *)
(* directories of the layout, which is the default one with a file that    *)
(* needs an indirect block, are full.  The other layout needs more blocks  *)
(* than there are, so there is no image of it.                             *)
EXTENDS Vsfs, VsfsImage, TLC

CONSTANTS nx, ny, foo, bar, h1, h2

MCNames == {nx, ny}
OneHart == {h1}
TwoHarts == {h1, h2}
NameSymmetry == Permutations(MCNames)
Symmetry == Permutations(MCNames) \cup Permutations(TwoHarts)

Dir(name, children) == [name |-> name, kind |-> "dir", size |-> 0, children |-> children]
File(name, size) == [name |-> name, kind |-> "file", size |-> size, children |-> <<>>]

MCLayout == Dir(NoName, <<Dir(foo, <<File(bar, 7)>>)>>)
TooLarge == Dir(NoName, <<Dir(foo, <<File(bar, 7), File(nx, 7)>>)>>)

MCImages == ImagesOf({MCLayout, TooLarge})
=============================================================================
