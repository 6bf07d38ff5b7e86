------------------------- MODULE MCRevisionAdmission -------------------------
(* RevisionAdmission with interchangeable callers and digests. *)
EXTENDS RevisionAdmission, TLC

Interchangeable == Permutations(Callers) \cup Permutations(Digests)
=============================================================================
