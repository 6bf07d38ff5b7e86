---------------------------- MODULE MCEdgeRouting ----------------------------
(* EdgeRouting for TLC: the constants are given in the configurations.      *)
EXTENDS EdgeRouting
=============================================================================
