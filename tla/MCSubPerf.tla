------------------------------ MODULE MCSubPerf ------------------------------
(***************************************************************************)
(* Small instances of SubPerf for TLC.                                     *)
(***************************************************************************)
EXTENDS SubPerf, TLC

\* A cfg cannot write a negative number: m_fetch as the constructor leaves it.
NoFetch == -1
=============================================================================
