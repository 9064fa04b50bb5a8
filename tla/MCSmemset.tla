------------------------------ MODULE MCSmemset ------------------------------
(* An instance of Smemset for TLC: room behind the longest buffer, so that *)
(* a store beyond it is seen.                                              *)
EXTENDS Smemset

MCMemory == 0 .. 200
MCDsts == 0 .. 17
MCLengths == 0 .. 155
=============================================================================
