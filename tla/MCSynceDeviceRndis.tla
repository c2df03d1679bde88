------------------------- MODULE MCSynceDeviceRndis -------------------------
(* Small instances of SynceDeviceRndis for TLC.                            *)
EXTENDS SynceDeviceRndis, TLC

\* Calls of a kind and connections are interchangeable.
Symmetry ==
    Permutations(PwCalls) \cup Permutations(ReqCalls) \cup Permutations(Conns)
=============================================================================
