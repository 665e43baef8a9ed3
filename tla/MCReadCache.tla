---------------------------- MODULE MCReadCache ----------------------------
\* The windows and the traces of the instances.  A shared trace has events in
\* hours 0 and 1; one window holds the first of them, one begins at the second
\* and goes on past it.  A trace of scope self has an event in hour 2, counted
\* only by its owner, who looks at that hour alone.
EXTENDS ReadCache, TLC

CONSTANTS short, long, own, shared, private

MCFirst == [k \in Keys |-> CASE k = short -> 0 [] k = long -> 1 [] k = own -> 2]
MCLast == [k \in Keys |-> IF k = short THEN 0 ELSE 2]
MCSeen == [k \in Keys |-> [t \in Traces |-> CASE t = shared -> {0, 1}
                                              [] t = private /\ k = own -> {2}
                                              [] OTHER -> {}]]
MCRolled == [t \in Traces |-> IF t = shared THEN {0, 1} ELSE {}]
=============================================================================
