--------------------------- MODULE MCScallocArena ---------------------------
(* Instances of ScallocArena for TLC.                                      *)
EXTENDS ScallocArena

Symmetry == Permutations(Threads)
NoAlign == {}
OneAlign == {<<4, 2>>}
AlignPairs == {<<2, 2>>, <<4, 2>>}
=============================================================================
