-------------------------- MODULE MCOutboundQueue --------------------------
(* Instances of the outbound queue for TLC.                                 *)
EXTENDS OutboundQueue

CONSTANTS q1, w1, w2

MCOneId    == {q1}
MCWorkers   == {w1, w2}
MCSharedBody == [q \in QueueIds |-> "body"]   \* a fan-out of one body
MCDelays == {0, 1}
=============================================================================
