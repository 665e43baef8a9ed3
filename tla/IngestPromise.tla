--------------------------- MODULE IngestPromise ---------------------------
(***************************************************************************)
(* What "queued" promises the producer of a batch, with no channel, task,   *)
(* sequence numbers or transactions.  A batch is stored in the end or waits; *)
(* it is dropped only when the gates refuse it or an outage makes them, and *)
(* an outage does that to one batch at most; it is lost only with a mishap  *)
(* (the process dies, or the journal fails), only while nothing of it is on *)
(* disk, and a mishap takes at most what the channel and the task hold.     *)
(* What is journaled waits until it is stored.                              *)
(***************************************************************************)
EXTENDS Naturals

CONSTANTS Batches, NoBatch, QueueDepth

VARIABLES
    state,      \* of each batch
    refused,    \* batches the gates refuse
    mishaps,    \* crashes and failed journal transactions so far
    outages,    \* outages of the backend so far
    misread     \* the batch an outage made the gates refuse, for some outages

avars == <<refused, mishaps, outages, misread>>
pvars == <<state, avars>>

PInit ==
    /\ state = [b \in Batches |-> "offered"]
    /\ refused \in SUBSET Batches
    /\ mishaps = 0 /\ outages = 0 /\ misread = {}

\* The only moves of a batch.
Move(b, from, to) == state[b] = from /\ state' = [state EXCEPT ![b] = to]

Submit(b)  == Move(b, "offered", "queued") /\ UNCHANGED avars

Journal(b) == Move(b, "queued", "journaled") /\ UNCHANGED avars

Store(b) ==
    /\ Move(b, "queued", "stored") \/ Move(b, "journaled", "stored")
    /\ UNCHANGED avars

Drop(b) ==
    /\ b \in refused \/ \E m \in misread : m.batch = b
    /\ Move(b, "queued", "dropped")
    /\ UNCHANGED avars

\* What the channel and the task can hold: queue_depth batches and one.
Slots == 1 .. QueueDepth + 1

Mishap(held) ==
    LET S == {b \in Batches : \E i \in Slots : held[i] = b}
    IN  /\ \A b \in S : state[b] = "queued"
        /\ state' = [b \in Batches |-> IF b \in S THEN "lost" ELSE state[b]]
        /\ mishaps' = mishaps + 1
        /\ UNCHANGED <<refused, outages, misread>>

Refuse(b) == refused' = refused \cup {b} /\ UNCHANGED <<state, mishaps, outages, misread>>

Outage == outages' = outages + 1 /\ UNCHANGED <<state, refused, mishaps, misread>>

\* The outage of the moment has made the gates refuse no batch yet.
Misread(b) ==
    /\ outages > 0
    /\ \A m \in misread : m.outage # outages
    /\ misread' = misread \cup {[outage |-> outages, batch |-> b]}
    /\ UNCHANGED <<state, refused, mishaps, outages>>

PNext ==
    \/ \E b \in Batches : Submit(b) \/ Journal(b) \/ Store(b) \/ Drop(b)
    \/ \E b \in Batches : Refuse(b) \/ Misread(b)
    \/ Outage
    \/ \E held \in [Slots -> Batches \cup {NoBatch}] : Mishap(held)

PSpec == PInit /\ [][PNext]_pvars
=============================================================================
