---------------------------- MODULE MCFleetPage ----------------------------
(* FleetPage for TLC: two machines that move between a port and the setup port. *)
EXTENDS FleetPage

CONSTANTS p1, p9, b1

MCHosts == {p1, p9}
MCSetupHosts == {p9}
MCBoots == {b1}
MCDocs == {[serial |-> 1, hostname |-> p1, content |-> "a"],
           [serial |-> 1, hostname |-> p9, content |-> "a"],
           [serial |-> 2, hostname |-> p1, content |-> "a"]}
MCStatuses == {[online |-> TRUE, boot_id |-> b1, uptime |-> Absent]}
MCChecks == {[boot |-> b1, stage |-> "fpga-verified", result |-> "pass"]}
=============================================================================
