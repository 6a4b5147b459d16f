--------------------------- MODULE MCPortRecords ---------------------------
(* PortRecords for TLC.  Ports and devices are interchangeable. *)
EXTENDS PortRecords, TLC

Symmetric == Permutations(Ports) \cup Permutations(Devices)
=============================================================================
