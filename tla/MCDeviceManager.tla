--------------------------- MODULE MCDeviceManager ---------------------------
(* Small instances of DeviceManager for TLC.                               *)
EXTENDS DeviceManager, TLC

\* Entries are interchangeable, and so are paths and addresses.
Symmetry == Permutations(Entries) \cup Permutations(Paths) \cup Permutations(Ips)
=============================================================================
