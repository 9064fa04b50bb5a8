--------------------------- MODULE MCScallocMmap ---------------------------
(* Instances of ScallocMmap for TLC.                                       *)
EXTENDS ScallocMmap, TLC

Symmetry == Permutations(Threads) \cup Permutations(Blocks)

(* Behaviours with a mremap or with a mapping made because an arena cannot *)
(* grow; with both they are followed up to the second.                     *)
OneDeparture == remaps + fallbacks <= 1

(* No action and no property reads trim_threshold, so that states which    *)
(* differ in it only have the same future.                                 *)
Trimless ==
  <<maps, hdr, mine, [mp EXCEPT !.trim_threshold = 0], th, remaps, fallbacks, manual, lost>>
=============================================================================
