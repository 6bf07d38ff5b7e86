---------------------------- MODULE MCDataLineage ----------------------------
(* DataLineage with one suitcase.                                          *)
EXTENDS DataLineage

CONSTANT s1

OneSuitcase == {s1}
=============================================================================
