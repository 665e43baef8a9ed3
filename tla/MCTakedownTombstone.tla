------------------------ MODULE MCTakedownTombstone ------------------------
(* Instances of the bytes plane's tombstones for TLC: two manifests share a *)
(* chunk and n1 takes one of them down at once.  In the first instance n2   *)
(* is a steward purge of both manifests, in the second a counter-notice     *)
(* takedown of the other one.                                               *)
EXTENDS TakedownTombstone, TLC

CONSTANTS x, y, shared, n1, n2

Share == x :> {shared} @@ y :> {shared}

PurgeBasis == n1 :> "destroy_on_receipt" @@ n2 :> "steward_purge"
PurgeRecords == n1 :> {x} @@ n2 :> {x, y}

CounterBasis == n1 :> "destroy_on_receipt" @@ n2 :> "withhold_then_delete"
CounterRecords == n1 :> {x} @@ n2 :> {y}

\* n1 has expired before a call that failed can be run again.
Until == n1 :> 1 @@ n2 :> 2
=============================================================================
