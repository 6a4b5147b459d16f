---------------------------- MODULE MCFleetSite ----------------------------
(* FleetSite for TLC: one Pi that moves between two ports, or two Pis on one port. *)
EXTENDS FleetSite

CONSTANTS p1, p2

MCBoots == 1 .. MaxBoots
MCDocs == [serial : Serials, hostname : Hosts, content : {"a"}]
MCStatuses == [online : {TRUE}, boot_id : MCBoots, uptime : 0 .. MaxTime] \cup {Will}
MCChecks == [boot : MCBoots, stage : {"fpga-verifying"}, result : {Absent}]
              \cup [boot : MCBoots, stage : {"fpga-verified"}, result : Results]
=============================================================================
