---------------------------- MODULE MCControlPlane ----------------------------
(* Three admin requests at once over a scenario that seeds one fault.      *)
EXTENDS ControlPlane, TLC

CONSTANTS seeded

MCSeededFaults == <<seeded>>
=============================================================================
