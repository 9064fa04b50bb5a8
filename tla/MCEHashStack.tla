---------------------------- MODULE MCEHashStack ----------------------------
(* Instances of EHashStack for TLC.                                        *)
EXTENDS EHashStack, TLC

Symmetry == Permutations(Threads) \cup Permutations(Nodes)
              \cup Permutations(Hashes \ {NoHash})

(* The properties of the run "ehash" say nothing of what follows the first *)
(* head that comes back, and TLC does not go on from there.                *)
UpToRecurrence == ~recurred
=============================================================================
