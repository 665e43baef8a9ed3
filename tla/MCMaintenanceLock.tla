------------------------- MODULE MCMaintenanceLock -------------------------
(* Instances of the maintenance locks for TLC.                              *)
EXTENDS MaintenanceLock, TLC

CONSTANTS w1, w2, w3, w4, A, B, C

FourCallers == {w1, w2, w3, w4}
ThreeTokens == {A, B, C}

\* w3 and w4 are two processes configured with one worker id.
SharedToken == (w1 :> A) @@ (w2 :> B) @@ (w3 :> C) @@ (w4 :> C)
=============================================================================
