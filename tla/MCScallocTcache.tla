-------------------------- MODULE MCScallocTcache --------------------------
EXTENDS ScallocTcache

(* In bytes: a small request, an aligned one of which the padded size is   *)
(* small too, and a large one.                                             *)
MCRequests == {[bytes |-> 24, al |-> 16], [bytes |-> 24, al |-> 32], [bytes |-> 140, al |-> 16]}
Symmetry == Permutations(Threads)
=============================================================================
