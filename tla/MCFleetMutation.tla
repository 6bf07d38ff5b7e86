--------------------------- MODULE MCFleetMutation ---------------------------
(* FleetMutation for TLC: the constants are given in the configurations.    *)
EXTENDS FleetMutation
=============================================================================
