-------------------------- MODULE OutboundPromise --------------------------
(***************************************************************************)
(* What send_durable() is promised of a row it has enqueued, with no        *)
(* attempts, claims, clocks or workers: an accepted row is live until it is *)
(* settled, a delivered row stays delivered, an abandoned row comes back    *)
(* only as a live row, and a row that asked for an ACK is delivered only    *)
(* once a destination has its body.                                         *)
(***************************************************************************)
CONSTANTS QueueIds, BodyOf

VARIABLES
    state,      \* of each row: absent, live, delivered or abandoned
    acked,      \* rows that asked for an ACK
    received    \* rows whose bytes their destination accepted

pvars == <<state, acked, received>>

PInit ==
    /\ state = [q \in QueueIds |-> "absent"]
    /\ acked = {}
    /\ received = {}

Accept(q) ==
    /\ state[q] = "absent"
    /\ state' = [state EXCEPT ![q] = "live"]
    /\ acked' = acked \/ acked' = acked \cup {q}
    /\ UNCHANGED received

Receive(q) ==
    /\ received' = received \cup {q}
    /\ UNCHANGED <<state, acked>>

MayDeliver(q) == q \in acked => \E p \in received : BodyOf[p] = BodyOf[q]

Deliver(q) ==
    /\ state[q] = "live"
    /\ MayDeliver(q)
    /\ state' = [state EXCEPT ![q] = "delivered"]
    /\ UNCHANGED <<acked, received>>

\* A sweep abandons several rows at once.
Abandon(S) ==
    /\ \A q \in S : state[q] = "live"
    /\ state' = [q \in QueueIds |-> IF q \in S THEN "abandoned" ELSE state[q]]
    /\ UNCHANGED <<acked, received>>

Reopen(q) ==
    /\ state[q] = "abandoned"
    /\ state' = [state EXCEPT ![q] = "live"]
    /\ UNCHANGED <<acked, received>>

PNext ==
    \/ \E q \in QueueIds : Accept(q) \/ Receive(q) \/ Deliver(q) \/ Reopen(q)
    \/ \E S \in SUBSET QueueIds : Abandon(S)

PSpec == PInit /\ [][PNext]_pvars
=============================================================================
