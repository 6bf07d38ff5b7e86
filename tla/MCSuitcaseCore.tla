--------------------------- MODULE MCSuitcaseCore ---------------------------
(* Small instances of SuitcaseCore: one slot for commands.                *)
EXTENDS SuitcaseCore

OneSlot == {"c1"}
=============================================================================
