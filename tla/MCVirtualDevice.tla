--------------------------- MODULE MCVirtualDevice ---------------------------
(***************************************************************************)
(* Small instances of VirtualDevice for TLC.  Topics are model values; they *)
(* are interchangeable, so safety runs use the symmetry set.               *)
(***************************************************************************)
EXTENDS VirtualDevice, TLC

TopicSymmetry == Permutations(Topics)
=============================================================================
