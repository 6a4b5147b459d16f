-------------------------- MODULE MCFleetRegistry --------------------------
(* FleetRegistry for TLC: machine 1 moves between a port and the setup port and changes *)
(* hardware; machine 2 takes its port and dies.                                *)
EXTENDS FleetRegistry

CONSTANTS p1, p9, b1, b2

MCHosts == {p1, p9}
MCSetupHosts == {p9}
MCBoots == {b1, b2}

MCDocs == {[serial |-> 1, hostname |-> p1, content |-> "a"],
           [serial |-> 1, hostname |-> p9, content |-> "b"],
           [serial |-> 2, hostname |-> p1, content |-> "a"]}

Beat(b) == [online |-> TRUE, boot_id |-> b, uptime |-> Absent]
Will == [online |-> FALSE, boot_id |-> Absent, uptime |-> Absent]

MCStatuses == {Beat(b1), Will}

MCChecks == {[boot |-> b1, stage |-> "fpga-verifying", result |-> Absent],
             [boot |-> b1, stage |-> "fpga-verified", result |-> "pass"],
             [boot |-> b2, stage |-> "fpga-verified", result |-> "pass"]}
=============================================================================
