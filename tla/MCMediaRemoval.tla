--------------------------- MODULE MCMediaRemoval ---------------------------
(* MediaRemoval for TLC: two interchangeable handles on the device. *)
EXTENDS MediaRemoval, TLC

Symmetry == Permutations(Mmcs)
=============================================================================
