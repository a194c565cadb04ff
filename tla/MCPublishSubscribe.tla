------------------------- MODULE MCPublishSubscribe -------------------------
(***************************************************************************)
(* Small instances of PublishSubscribe for TLC.                            *)
(***************************************************************************)
EXTENDS PublishSubscribe, TLC

\* A cfg cannot write a negative number: m_fetch as the constructor leaves it.
NoFetch == -1
=============================================================================
