---------------------------- MODULE MCVirtualUser ----------------------------
(***************************************************************************)
(* Small instances of VirtualUser for TLC.                                 *)
(***************************************************************************)
EXTENDS VirtualUser, TLC

\* A cfg cannot write a negative number: m_fetch as the constructor leaves it.
NoFetch == -1

UserSymmetry == Permutations(Topics) \cup Permutations(Sources)
=============================================================================
