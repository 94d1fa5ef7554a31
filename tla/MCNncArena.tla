---------------------------- MODULE MCNncArena ----------------------------
(***************************************************************************)
(* NncArena for TLC.  The capacity and the zip rate are scaled down        *)
(* together (2 slots, rate 1/2) so that four addresses reach all three     *)
(* ways of pushing into a full array: compacting, growing a full array,    *)
(* and growing an array that has fewer holes than the rate.                *)
(***************************************************************************)
EXTENDS NncArena, TLC

Symmetry == Permutations(Ptrs)


=============================================================================
