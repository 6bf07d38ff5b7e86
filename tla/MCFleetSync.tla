----------------------------- MODULE MCFleetSync -----------------------------
(* Instances of FleetSync for TLC.                                         *)
EXTENDS FleetSync

CONSTANTS home, s1

OneSuitcase == {s1}
=============================================================================
