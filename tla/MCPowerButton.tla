--------------------------- MODULE MCPowerButton ---------------------------
(* PowerButton for TLC: a hold after "on" is longer than one after "off". *)
EXTENDS PowerButton

MCHold == [s \in States |-> IF s = "on" THEN 2 ELSE 1]
=============================================================================
