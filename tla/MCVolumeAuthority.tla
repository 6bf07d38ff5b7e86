------------------------ MODULE MCVolumeAuthority -------------------------
EXTENDS VolumeAuthority, TLC

CONSTANTS s1, exchange, request, pass

OneSuitcase == {s1}

(* Two handlers at Home, one pass of the suitcase. *)
TwoAtHome == (exchange :> Home) @@ (request :> Home) @@ (pass :> s1)
=============================================================================
