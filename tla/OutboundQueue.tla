--------------------------- MODULE OutboundQueue ---------------------------
(***************************************************************************)
(* The edge outbound queue (src/outbound, implemented in                    *)
(* src/store/sqlite.rs and src/store/postgres.rs): the durable table that   *)
(* CIRISEdge's send_durable() rests on.                                     *)
(*                                                                          *)
(* One action per door of the OutboundQueue trait.  Every door is one       *)
(* database transaction, so each is one step.  What is not persist's code   *)
(* is marked external: the dispatcher workers that claim rows and report    *)
(* what the transport did, the receiver, and the clock.                     *)
(***************************************************************************)
EXTENDS Integers, FiniteSets

CONSTANTS
    QueueIds,       \* the rows that may be enqueued
    Workers,        \* dispatcher workers (claimed_by)
    NoWorker,       \* SQL NULL of claimed_by
    BodyOf,         \* body_sha256 of each row; a fan-out shares one body
    MaxAttempts,    \* max_attempts of every row
    Ttl,            \* ttl_seconds of every row
    AckTimeout,     \* ack_timeout_seconds of a row that requires an ACK
    ClaimDuration,  \* claim_duration_seconds the workers pass
    BatchSize,      \* batch_size the workers pass
    Backoffs,       \* delays a caller may add to now for next_attempt_after
    AckRetryDelay,  \* the 60 s of sweep_ack_timeouts
    MaxTime,        \* bound on the clock
    LastEnqueue,    \* bound on the time of the last enqueue
    MaxReplays      \* bound on the operator replays of one row

ASSUME QueueAssumption ==
    /\ NoWorker \notin Workers
    /\ MaxAttempts \in Nat \ {0}
    /\ Ttl \in Nat \ {0}
    /\ AckTimeout \in Nat \ {0}
    /\ ClaimDuration \in Nat
    /\ BatchSize \in Nat \ {0}
    /\ Backoffs \subseteq Nat
    /\ AckRetryDelay \in Nat
    /\ MaxTime \in Nat
    /\ LastEnqueue \in Nat
    /\ MaxReplays \in Nat

VARIABLES
    now,        \* the wall clock, in ticks
    rows,       \* edge_outbound_queue: the row of each queue id
    hand,       \* what each worker knows of each row it claimed
    received,   \* rows whose bytes their destination accepted
    matched,    \* <<p, q>>: the ACK of p's destination matched row q
    replays,    \* replay_abandoned calls per row
    reclaims    \* sweep_expired_claims reverts per row since attempt_count = 0

vars == <<now, rows, hand, received, matched, replays, reclaims>>

-----------------------------------------------------------------------------
(* The row.                                                                 *)

NULL == -1      \* SQL NULL of a timestamp column
Time == Nat \cup {NULL}

OutboundStatus == {"pending", "sending", "awaiting_ack", "delivered", "abandoned"}
AbandonedReason == {"none", "max_attempts", "ttl_expired", "operator_cancel"}

\* A queue id with no row has status "absent".
Row == [status                 : OutboundStatus \cup {"absent"},
        requires_ack           : BOOLEAN,
        enqueued_at            : Nat,
        next_attempt_after     : Nat,
        transport_delivered_at : Time,
        delivered_at           : Time,
        abandoned_at           : Time,
        abandoned_reason       : AbandonedReason,
        ack_received_at        : Time,
        attempt_count          : Nat,
        claimed_until          : Time,
        claimed_by             : Workers \cup {NoWorker}]

NewRow(status, ack, next) ==
    [status                 |-> status,
     requires_ack           |-> ack,
     enqueued_at            |-> now,
     next_attempt_after     |-> next,
     transport_delivered_at |-> NULL,
     delivered_at           |-> NULL,
     abandoned_at           |-> NULL,
     abandoned_reason       |-> "none",
     ack_received_at        |-> NULL,
     attempt_count          |-> 0,
     claimed_until          |-> NULL,
     claimed_by             |-> NoWorker]

is_terminal(r) == r.status \in {"delivered", "abandoned"}
Working(q)     == rows[q].status \in {"pending", "sending", "awaiting_ack"}

\* Worker w's view of a row: nothing, transmitting under a claim that ends at
\* `until', or holding a transport outcome it has yet to report.
NotHeld == [phase |-> "none", until |-> 0]
Hand    == [phase : {"none", "sending", "ok", "failed", "replay"}, until : Nat]

TypeOK ==
    /\ now \in Nat
    /\ rows \in [QueueIds -> Row]
    /\ hand \in [Workers -> [QueueIds -> Hand]]
    /\ received \subseteq QueueIds
    /\ matched \subseteq QueueIds \X QueueIds
    /\ replays \in [QueueIds -> Nat]
    /\ reclaims \in [QueueIds -> Nat]

Init ==
    /\ now = 0
    /\ rows = [q \in QueueIds |-> NewRow("absent", FALSE, 0)]
    /\ hand = [w \in Workers |-> [q \in QueueIds |-> NotHeld]]
    /\ received = {}
    /\ matched = {}
    /\ replays = [q \in QueueIds |-> 0]
    /\ reclaims = [q \in QueueIds |-> 0]

-----------------------------------------------------------------------------
(* What the doors decide and write, one row at a time.                      *)

ttl_expired(r) == now - r.enqueued_at > Ttl

\* Fault: the budget is one attempt too large.
attempts_exhausted_late(r) == r.attempt_count > MaxAttempts

attempts_exhausted(r) == r.attempt_count >= MaxAttempts

unclaimed(r) == [r EXCEPT !.claimed_until = NULL, !.claimed_by = NoWorker]

abandoned(r, reason) ==
    [r EXCEPT !.status = "abandoned",
              !.abandoned_at = now,
              !.abandoned_reason = reason]

retrying(r, next) == [r EXCEPT !.status = "pending", !.next_attempt_after = next]

\* The decision mark_transport_failed and sweep_ack_timeouts share: the TTL
\* is looked at first, so it names the reason when both have run out.
retry_or_abandon(r, next) ==
    IF ttl_expired(r) THEN abandoned(r, "ttl_expired")
    ELSE IF attempts_exhausted(r) THEN abandoned(r, "max_attempts")
    ELSE retrying(r, next)

claimed(r, w) ==
    [r EXCEPT !.status = "sending",
              !.attempt_count = @ + 1,
              !.claimed_until = now + ClaimDuration,
              !.claimed_by = w]

\* Fault: the ACK contract is ignored.
transport_delivered_no_ack(r) ==
    [unclaimed(r) EXCEPT !.status = "delivered",
                         !.transport_delivered_at = now,
                         !.delivered_at = now]

transport_delivered(r) ==
    [unclaimed(r) EXCEPT !.status = IF r.requires_ack THEN "awaiting_ack" ELSE "delivered",
                         !.transport_delivered_at = now,
                         !.delivered_at = IF r.requires_ack THEN NULL ELSE now]

ack_received(r) ==
    [r EXCEPT !.status = "delivered", !.ack_received_at = now, !.delivered_at = now]

replay_resolved(r) ==
    [unclaimed(r) EXCEPT !.status = "delivered", !.delivered_at = now]

\* Fault: the abandonment columns survive the replay.
replayed_keeps_reason(r) ==
    [r EXCEPT !.status = "pending", !.attempt_count = 0, !.next_attempt_after = now]

replayed(r) ==
    [r EXCEPT !.status = "pending",
              !.attempt_count = 0,
              !.next_attempt_after = now,
              !.abandoned_at = NULL,
              !.abandoned_reason = "none"]

ack_timed_out(r) ==
    r.status = "awaiting_ack" /\ now - r.transport_delivered_at > AckTimeout

\* Fault: the sweep looks at rows the dispatcher has not claimed yet only.
ttl_lapsed_pending(r) == r.status = "pending" /\ ttl_expired(r)

ttl_lapsed(r) == r.status \notin {"absent", "delivered", "abandoned"} /\ ttl_expired(r)

claim_lapsed(r) == r.status = "sending" /\ r.claimed_until < now

-----------------------------------------------------------------------------
(* Sender side.                                                             *)

enqueue_outbound(q) ==
    /\ rows[q].status = "absent"
    /\ now <= LastEnqueue
    /\ \E ack \in BOOLEAN, delay \in Backoffs :
           rows' = [rows EXCEPT ![q] = NewRow("pending", ack, now + delay)]
    /\ UNCHANGED <<now, hand, received, matched, replays, reclaims>>

-----------------------------------------------------------------------------
(* Dispatch loop.                                                           *)

Due == {q \in QueueIds : /\ rows[q].status = "pending"
                         /\ rows[q].next_attempt_after <= now}

\* ORDER BY next_attempt_after ASC LIMIT batch_size; ties in any order.
IsBatch(S) ==
    /\ S # {}
    /\ Cardinality(S) <= BatchSize
    /\ Cardinality(S) < BatchSize => S = Due
    /\ \A q \in S : \A p \in Due \ S :
           rows[q].next_attempt_after <= rows[p].next_attempt_after

\* A worker claims its next batch once it has reported the one in hand.
claim_pending_outbound(w) ==
    /\ \A q \in QueueIds : hand[w][q] = NotHeld
    /\ \E S \in SUBSET Due :
         /\ IsBatch(S)
         /\ rows' = [q \in QueueIds |-> IF q \in S THEN claimed(rows[q], w) ELSE rows[q]]
         /\ hand' = [hand EXCEPT ![w] =
                [q \in QueueIds |-> IF q \in S
                                    THEN [phase |-> "sending", until |-> now + ClaimDuration]
                                    ELSE NotHeld]]
    /\ UNCHANGED <<now, received, matched, replays, reclaims>>

\* External: the transport attempt.  Its outcome and what reaches the
\* receiver are independent, except that only a receiver that has the body
\* rejects it as a replay.
transmit(w, q) ==
    /\ hand[w][q].phase = "sending"
    /\ \E outcome \in {"ok", "failed", "replay"} :
         /\ outcome = "replay" => q \in received
         /\ hand' = [hand EXCEPT ![w][q].phase = outcome]
    /\ \/ received' = received \cup {q}
       \/ UNCHANGED received
    /\ UNCHANGED <<now, rows, matched, replays, reclaims>>

\* A report is made once: afterwards the worker has nothing in hand.
Report(w, q, outcome) ==
    /\ hand[w][q].phase = outcome
    /\ hand' = [hand EXCEPT ![w][q] = NotHeld]
    /\ UNCHANGED <<now, received, matched, replays, reclaims>>

\* A row that is not `sending' makes both reports fail with InvalidTransition.
mark_transport_delivered(w, q) ==
    /\ Report(w, q, "ok")
    /\ rows' = IF rows[q].status = "sending"
               THEN [rows EXCEPT ![q] = transport_delivered(@)]
               ELSE rows

mark_transport_failed(w, q) ==
    /\ Report(w, q, "failed")
    /\ \E delay \in Backoffs :
           rows' = IF rows[q].status = "sending"
                   THEN [rows EXCEPT ![q] = unclaimed(retry_or_abandon(@, now + delay))]
                   ELSE rows

\* Fault: a receiver's reject settles rows that are already terminal.
mark_replay_resolved_any(w, q) ==
    /\ Report(w, q, "replay")
    /\ rows' = [rows EXCEPT ![q] = replay_resolved(@)]

mark_replay_resolved(w, q) ==
    /\ Report(w, q, "replay")
    /\ rows' = IF Working(q) THEN [rows EXCEPT ![q] = replay_resolved(@)] ELSE rows

\* External: a worker dies with its claims.
worker_crash(w) ==
    /\ \E q \in QueueIds : hand[w][q] # NotHeld
    /\ hand' = [hand EXCEPT ![w] = [q \in QueueIds |-> NotHeld]]
    /\ UNCHANGED <<now, rows, received, matched, replays, reclaims>>

-----------------------------------------------------------------------------
(* ACK side.  The lookup and the write are two calls; the table may change  *)
(* between them.  A destination that has the body may send its ACK at any   *)
(* time and any number of times.                                            *)

match_ack_to_outbound(p, q) ==
    /\ p \in received
    /\ BodyOf[q] = BodyOf[p]
    /\ rows[q].status = "awaiting_ack"
    /\ matched' = matched \cup {<<p, q>>}
    /\ UNCHANGED <<now, rows, hand, received, replays, reclaims>>

mark_ack_received(p, q) ==
    /\ <<p, q>> \in matched
    /\ matched' = matched \ {<<p, q>>}
    /\ rows' = IF rows[q].status = "awaiting_ack"
               THEN [rows EXCEPT ![q] = ack_received(@)]
               ELSE rows
    /\ UNCHANGED <<now, hand, received, replays, reclaims>>

-----------------------------------------------------------------------------
(* Background sweeps: each walks the whole table in one transaction.        *)

sweep_ack_timeouts ==
    /\ rows' = [q \in QueueIds |->
                  IF ack_timed_out(rows[q])
                  THEN retry_or_abandon(rows[q], now + AckRetryDelay)
                  ELSE rows[q]]
    /\ UNCHANGED <<now, hand, received, matched, replays, reclaims>>

sweep_ttl_expired ==
    /\ rows' = [q \in QueueIds |->
                  IF ttl_lapsed(rows[q])
                  THEN unclaimed(abandoned(rows[q], "ttl_expired"))
                  ELSE rows[q]]
    /\ UNCHANGED <<now, hand, received, matched, replays, reclaims>>

sweep_expired_claims ==
    /\ rows' = [q \in QueueIds |-> IF claim_lapsed(rows[q])
                                   THEN [unclaimed(rows[q]) EXCEPT !.status = "pending"]
                                   ELSE rows[q]]
    /\ reclaims' = [q \in QueueIds |-> IF claim_lapsed(rows[q])
                                       THEN reclaims[q] + 1 ELSE reclaims[q]]
    /\ UNCHANGED <<now, hand, received, matched, replays>>

-----------------------------------------------------------------------------
(* Operator surface.                                                        *)

cancel_outbound(q) ==
    /\ Working(q)
    /\ rows' = [rows EXCEPT ![q] = unclaimed(abandoned(@, "operator_cancel"))]
    /\ UNCHANGED <<now, hand, received, matched, replays, reclaims>>

replay_abandoned(q) ==
    /\ rows[q].status = "abandoned"
    /\ replays[q] < MaxReplays
    /\ rows' = [rows EXCEPT ![q] = replayed(@)]
    /\ replays' = [replays EXCEPT ![q] = @ + 1]
    /\ reclaims' = [reclaims EXCEPT ![q] = 0]
    /\ UNCHANGED <<now, hand, received, matched>>

\* External: the clock.
tick ==
    /\ now < MaxTime
    /\ now' = now + 1
    /\ UNCHANGED <<rows, hand, received, matched, replays, reclaims>>

-----------------------------------------------------------------------------
Next ==
    \/ \E q \in QueueIds : enqueue_outbound(q) \/ cancel_outbound(q) \/ replay_abandoned(q)
    \/ \E w \in Workers : claim_pending_outbound(w) \/ worker_crash(w)
    \/ \E w \in Workers, q \in QueueIds :
           \/ transmit(w, q)
           \/ mark_transport_delivered(w, q)
           \/ mark_transport_failed(w, q)
           \/ mark_replay_resolved(w, q)
    \/ \E p, q \in QueueIds : match_ack_to_outbound(p, q) \/ mark_ack_received(p, q)
    \/ sweep_ack_timeouts
    \/ sweep_ttl_expired
    \/ sweep_expired_claims
    \/ tick

Spec == Init /\ [][Next]_vars

\* Time passes and the edge's sweep loop keeps calling sweep_ttl_expired; no
\* fairness is assumed of workers, receivers, ACKs or operators.
FairSpec == Spec /\ WF_vars(tick) /\ WF_vars(sweep_ttl_expired)

-----------------------------------------------------------------------------
(* What the runs and the proofs establish.                                  *)

\* The CHECK constraints of V007__edge_outbound_queue.sql, which the doors
\* must keep on every path through the state machine: a row is delivered
\* exactly when it has delivered_at, abandoned exactly when it has both
\* abandonment columns, and only a row that requires an ACK holds one.
RowChecks ==
    \A q \in QueueIds :
        LET r == rows[q] IN
        /\ (r.status = "delivered") = (r.delivered_at # NULL)
        /\ (r.status = "abandoned") = (r.abandoned_at # NULL /\ r.abandoned_reason # "none")
        /\ r.ack_received_at # NULL => r.requires_ack

\* A claim exists exactly while the row is `sending': no door leaves a claim
\* behind (sweep_expired_claims and the reports clear it, and
\* sweep_ack_timeouts need not) and no `sending' row is out of the claim
\* sweep's reach, where a crashed worker would strand it.
ClaimShape ==
    \A q \in QueueIds :
        LET r == rows[q] IN
        /\ (r.status = "sending") = (r.claimed_until # NULL)
        /\ (r.status = "sending") = (r.claimed_by # NoWorker)

\* A row that requires an ACK is delivered only if a destination accepted
\* its body, whatever the order of reports, late ACKs, timeouts, retries and
\* replay rejects (match_ack_to_outbound, mark_ack_received and
\* mark_replay_resolved are the doors to `delivered' for such a row).
DeliveredWasReceived ==
    \A q \in QueueIds :
        rows[q].status = "delivered" /\ rows[q].requires_ack
            => \E p \in received : BodyOf[p] = BodyOf[q]

\* The attempt budget: a row is claimed at most max_attempts times plus once
\* for each claim that sweep_expired_claims reverted, the one path back to
\* `pending' that looks at no budget.
AttemptBudget ==
    \A q \in QueueIds : rows[q].attempt_count <= MaxAttempts + reclaims[q]

\* The promise sees a row as live while it is worked on, and which rows asked
\* for an ACK.
abstract_state ==
    [q \in QueueIds |-> IF Working(q) THEN "live" ELSE rows[q].status]

abstract_acked ==
    {q \in QueueIds : rows[q].status # "absent" /\ rows[q].requires_ack}

Promise == INSTANCE OutboundPromise WITH state <- abstract_state, acked <- abstract_acked

\* The queue keeps the promise made to send_durable(): every step of every
\* door, worker, sweep and operator is an abstract step or changes nothing.
KeepsPromise == Promise!PSpec

\* Every row that is accepted is settled in the end: whatever workers,
\* receivers and operators do or fail to do, sweep_ttl_expired abandons a row
\* that nothing else has settled.
EventuallySettled ==
    \A q \in QueueIds : Working(q) ~> is_terminal(rows[q])
=============================================================================
