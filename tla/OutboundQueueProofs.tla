------------------------ MODULE OutboundQueueProofs ------------------------
(***************************************************************************)
(* Theorems about the outbound queue, for any number of rows and workers    *)
(* and any policy: type correctness, the schema CHECKs, the claim columns,  *)
(* the attempt budget and delivery.                                         *)
(*                                                                          *)
(* The argument is row by row.  GoodRow is what every door keeps of a row;  *)
(* one lemma per kind of write says so, and the step lemma only has to say  *)
(* which rows an action writes.                                             *)
(***************************************************************************)
EXTENDS OutboundQueue, TLAPS

\* A good row with n reverted claims.  Two parts strengthen the properties:
\* a pending row still has an attempt left, and only a row that requires an
\* ACK waits for one.
GoodRow(r, n) ==
    /\ r \in Row
    /\ n \in Nat
    /\ (r.status = "delivered") <=> (r.delivered_at # NULL)
    /\ (r.status = "abandoned") <=> (r.abandoned_at # NULL /\ r.abandoned_reason # "none")
    /\ r.ack_received_at # NULL => r.requires_ack
    /\ (r.status = "sending") <=> (r.claimed_until # NULL)
    /\ (r.status = "sending") <=> (r.claimed_by # NoWorker)
    /\ r.attempt_count <= MaxAttempts + n
    /\ r.status = "pending" => r.attempt_count < MaxAttempts + n
    /\ r.status = "awaiting_ack" => r.requires_ack

RowsInv == \A q \in QueueIds : GoodRow(rows[q], reclaims[q])

\* What is known outside the table of a body: a matched ACK and a replay
\* reject come from a destination that has it.
AckInv ==
    /\ \A p, q \in QueueIds : <<p, q>> \in matched => p \in received /\ BodyOf[p] = BodyOf[q]
    /\ \A w \in Workers, q \in QueueIds : hand[w][q].phase = "replay" => q \in received

-----------------------------------------------------------------------------
(* Every write a door makes keeps a row good.                               *)

\* The INSERT of enqueue_outbound makes a good row, and so is the row of an
\* id that was never enqueued.
LEMMA NewRowGood ==
    ASSUME now \in Nat, NEW s \in {"absent", "pending"}, NEW ack \in BOOLEAN, NEW d \in Nat
    PROVE  GoodRow(NewRow(s, ack, d), 0)
BY QueueAssumption DEF GoodRow, NewRow, Row, Time, NULL, OutboundStatus, AbandonedReason

\* The INSERT makes a row that is good whatever its id's revert counter is.
LEMMA NewRowGoodN ==
    ASSUME now \in Nat, NEW ack \in BOOLEAN, NEW d \in Nat, NEW n \in Nat
    PROVE  GoodRow(NewRow("pending", ack, d), n)
BY QueueAssumption DEF GoodRow, NewRow, Row, Time, NULL, OutboundStatus, AbandonedReason

\* The UPDATE of claim_pending_outbound.
LEMMA ClaimedGood ==
    ASSUME now \in Nat, NEW r, NEW n, NEW w \in Workers,
           GoodRow(r, n), r.status = "pending"
    PROVE  GoodRow(claimed(r, w), n)
<1> DEFINE s == claimed(r, w)
<1>1. s \in Row
  <2>1. r \in Row /\ r.attempt_count \in Nat
    BY DEF GoodRow, Row
  <2>2. /\ "sending" \in OutboundStatus \cup {"absent"} /\ r.attempt_count + 1 \in Nat
        /\ now + ClaimDuration \in Time /\ w \in Workers \cup {NoWorker}
    BY <2>1, QueueAssumption DEF Time, NULL, OutboundStatus, AbandonedReason
  <2> QED BY <2>1, <2>2 DEF claimed, Row
<1>2. /\ s.status = "sending" /\ s.requires_ack = r.requires_ack
      /\ s.delivered_at = r.delivered_at /\ s.abandoned_at = r.abandoned_at
      /\ s.abandoned_reason = r.abandoned_reason /\ s.ack_received_at = r.ack_received_at
      /\ s.attempt_count = r.attempt_count + 1 /\ s.claimed_until = now + ClaimDuration
      /\ s.claimed_by = w
  BY DEF GoodRow, claimed, Row
<1> HIDE DEF s
<1>3. GoodRow(s, n)
  BY <1>1, <1>2, QueueAssumption DEF GoodRow, NULL, Row
<1> QED BY <1>3 DEF s

\* The UPDATE of mark_transport_delivered.
LEMMA TransportDeliveredGood ==
    ASSUME now \in Nat, NEW r, NEW n, GoodRow(r, n), r.status = "sending"
    PROVE  GoodRow(transport_delivered(r), n)
<1> DEFINE s == transport_delivered(r)
<1>1. s \in Row
  <2>1. r \in Row /\ r.attempt_count \in Nat
    BY DEF GoodRow, Row
  <2>2. /\ {"awaiting_ack", "delivered"} \subseteq OutboundStatus \cup {"absent"}
        /\ now \in Time /\ NULL \in Time /\ NoWorker \in Workers \cup {NoWorker}
    BY <2>1, QueueAssumption DEF Time, NULL, OutboundStatus, AbandonedReason
  <2> QED BY <2>1, <2>2 DEF transport_delivered, unclaimed, Row
<1>2. /\ s.requires_ack = r.requires_ack /\ s.abandoned_at = r.abandoned_at
      /\ s.abandoned_reason = r.abandoned_reason /\ s.ack_received_at = r.ack_received_at
      /\ s.attempt_count = r.attempt_count
      /\ s.claimed_until = NULL /\ s.claimed_by = NoWorker
  BY DEF GoodRow, transport_delivered, unclaimed, Row
<1>3. CASE r.requires_ack
  <2>1. s.status = "awaiting_ack" /\ s.delivered_at = NULL
    BY <1>3 DEF GoodRow, transport_delivered, unclaimed, Row
  <2> HIDE DEF s
  <2>2. GoodRow(s, n)
    BY <1>1, <1>2, <1>3, <2>1, QueueAssumption DEF GoodRow, NULL, Row
  <2> QED BY <2>2 DEF s
<1>4. CASE ~r.requires_ack
  <2>1. s.status = "delivered" /\ s.delivered_at = now
    BY <1>4 DEF GoodRow, transport_delivered, unclaimed, Row
  <2> HIDE DEF s
  <2>2. GoodRow(s, n)
    BY <1>1, <1>2, <1>4, <2>1, QueueAssumption DEF GoodRow, NULL, Row
  <2> QED BY <2>2 DEF s
<1> QED BY <1>3, <1>4

\* The UPDATEs that abandon a row and clear its claim.
LEMMA AbandonedGood ==
    ASSUME now \in Nat, NEW r, NEW n, NEW why \in AbandonedReason \ {"none"},
           GoodRow(r, n), r.status \in {"pending", "sending", "awaiting_ack"}
    PROVE  GoodRow(unclaimed(abandoned(r, why)), n)
<1> DEFINE s == unclaimed(abandoned(r, why))
<1>1. s \in Row
  <2>1. r \in Row /\ r.attempt_count \in Nat
    BY DEF GoodRow, Row
  <2>2. /\ "abandoned" \in OutboundStatus \cup {"absent"} /\ why \in AbandonedReason
        /\ now \in Time /\ NULL \in Time /\ NoWorker \in Workers \cup {NoWorker}
    BY <2>1, QueueAssumption DEF Time, NULL, OutboundStatus, AbandonedReason
  <2> QED BY <2>1, <2>2 DEF abandoned, unclaimed, Row
<1>2. /\ s.status = "abandoned" /\ s.requires_ack = r.requires_ack
      /\ s.delivered_at = r.delivered_at /\ s.abandoned_at = now
      /\ s.abandoned_reason = why /\ s.ack_received_at = r.ack_received_at
      /\ s.attempt_count = r.attempt_count /\ s.claimed_until = NULL
      /\ s.claimed_by = NoWorker
  BY DEF GoodRow, abandoned, unclaimed, Row
<1> HIDE DEF s
<1>3. GoodRow(s, n)
  BY <1>1, <1>2, QueueAssumption DEF GoodRow, NULL, Row
<1> QED BY <1>3 DEF s

\* The UPDATE of mark_transport_failed that retries a row.
LEMMA RetryingGood ==
    ASSUME now \in Nat, NEW r, NEW n, NEW d \in Nat,
           GoodRow(r, n), r.status = "sending", r.attempt_count < MaxAttempts
    PROVE  GoodRow(unclaimed(retrying(r, d)), n)
<1> DEFINE s == unclaimed(retrying(r, d))
<1>1. s \in Row
  <2>1. r \in Row /\ r.attempt_count \in Nat
    BY DEF GoodRow, Row
  <2>2. /\ "pending" \in OutboundStatus \cup {"absent"} /\ d \in Nat
        /\ NULL \in Time /\ NoWorker \in Workers \cup {NoWorker}
    BY <2>1, QueueAssumption DEF Time, NULL, OutboundStatus, AbandonedReason
  <2> QED BY <2>1, <2>2 DEF retrying, unclaimed, Row
<1>2. /\ s.status = "pending" /\ s.requires_ack = r.requires_ack
      /\ s.delivered_at = r.delivered_at /\ s.abandoned_at = r.abandoned_at
      /\ s.abandoned_reason = r.abandoned_reason /\ s.ack_received_at = r.ack_received_at
      /\ s.attempt_count = r.attempt_count /\ s.claimed_until = NULL
      /\ s.claimed_by = NoWorker
  BY DEF GoodRow, retrying, unclaimed, Row
<1> HIDE DEF s
<1>3. GoodRow(s, n)
  BY <1>1, <1>2, QueueAssumption DEF GoodRow, NULL, Row
<1> QED BY <1>3 DEF s

\* The UPDATE of sweep_ack_timeouts that abandons a row: there is no claim to clear.
LEMMA AckAbandonedGood ==
    ASSUME now \in Nat, NEW r, NEW n, NEW why \in AbandonedReason \ {"none"},
           GoodRow(r, n), r.status = "awaiting_ack"
    PROVE  GoodRow(abandoned(r, why), n)
<1> DEFINE s == abandoned(r, why)
<1>1. s \in Row
  <2>1. r \in Row /\ r.attempt_count \in Nat
    BY DEF GoodRow, Row
  <2>2. /\ "abandoned" \in OutboundStatus \cup {"absent"} /\ why \in AbandonedReason
        /\ now \in Time
    BY <2>1, QueueAssumption DEF Time, NULL, OutboundStatus, AbandonedReason
  <2> QED BY <2>1, <2>2 DEF abandoned, Row
<1>2. /\ s.status = "abandoned" /\ s.requires_ack = r.requires_ack
      /\ s.delivered_at = r.delivered_at /\ s.abandoned_at = now
      /\ s.abandoned_reason = why /\ s.ack_received_at = r.ack_received_at
      /\ s.attempt_count = r.attempt_count /\ s.claimed_until = r.claimed_until
      /\ s.claimed_by = r.claimed_by
  BY DEF GoodRow, abandoned, Row
<1> HIDE DEF s
<1>3. GoodRow(s, n)
  BY <1>1, <1>2, QueueAssumption DEF GoodRow, NULL, Row
<1> QED BY <1>3 DEF s

\* The UPDATE of sweep_ack_timeouts that retries a row.
LEMMA AckRetryingGood ==
    ASSUME now \in Nat, NEW r, NEW n, NEW d \in Nat,
           GoodRow(r, n), r.status = "awaiting_ack", r.attempt_count < MaxAttempts
    PROVE  GoodRow(retrying(r, d), n)
<1> DEFINE s == retrying(r, d)
<1>1. s \in Row
  <2>1. r \in Row /\ r.attempt_count \in Nat
    BY DEF GoodRow, Row
  <2>2. "pending" \in OutboundStatus \cup {"absent"} /\ d \in Nat
    BY <2>1, QueueAssumption DEF Time, NULL, OutboundStatus, AbandonedReason
  <2> QED BY <2>1, <2>2 DEF retrying, Row
<1>2. /\ s.status = "pending" /\ s.requires_ack = r.requires_ack
      /\ s.delivered_at = r.delivered_at /\ s.abandoned_at = r.abandoned_at
      /\ s.abandoned_reason = r.abandoned_reason /\ s.ack_received_at = r.ack_received_at
      /\ s.attempt_count = r.attempt_count /\ s.claimed_until = r.claimed_until
      /\ s.claimed_by = r.claimed_by
  BY DEF GoodRow, retrying, Row
<1> HIDE DEF s
<1>3. GoodRow(s, n)
  BY <1>1, <1>2, QueueAssumption DEF GoodRow, NULL, Row
<1> QED BY <1>3 DEF s

\* The UPDATE of mark_replay_resolved.
LEMMA ReplayResolvedGood ==
    ASSUME now \in Nat, NEW r, NEW n, 
           GoodRow(r, n), r.status \in {"pending", "sending", "awaiting_ack"}
    PROVE  GoodRow(replay_resolved(r), n)
<1> DEFINE s == replay_resolved(r)
<1>1. s \in Row
  <2>1. r \in Row /\ r.attempt_count \in Nat
    BY DEF GoodRow, Row
  <2>2. /\ "delivered" \in OutboundStatus \cup {"absent"} /\ now \in Time
        /\ NULL \in Time /\ NoWorker \in Workers \cup {NoWorker}
    BY <2>1, QueueAssumption DEF Time, NULL, OutboundStatus, AbandonedReason
  <2> QED BY <2>1, <2>2 DEF replay_resolved, unclaimed, Row
<1>2. /\ s.status = "delivered" /\ s.requires_ack = r.requires_ack
      /\ s.delivered_at = now /\ s.abandoned_at = r.abandoned_at
      /\ s.abandoned_reason = r.abandoned_reason /\ s.ack_received_at = r.ack_received_at
      /\ s.attempt_count = r.attempt_count /\ s.claimed_until = NULL
      /\ s.claimed_by = NoWorker
  BY DEF GoodRow, replay_resolved, unclaimed, Row
<1> HIDE DEF s
<1>3. GoodRow(s, n)
  BY <1>1, <1>2, QueueAssumption DEF GoodRow, NULL, Row
<1> QED BY <1>3 DEF s

\* The UPDATE of mark_ack_received.
LEMMA AckReceivedGood ==
    ASSUME now \in Nat, NEW r, NEW n, GoodRow(r, n), r.status = "awaiting_ack"
    PROVE  GoodRow(ack_received(r), n)
<1> DEFINE s == ack_received(r)
<1>1. s \in Row
  <2>1. r \in Row /\ r.attempt_count \in Nat
    BY DEF GoodRow, Row
  <2>2. "delivered" \in OutboundStatus \cup {"absent"} /\ now \in Time
    BY <2>1, QueueAssumption DEF Time, NULL, OutboundStatus, AbandonedReason
  <2> QED BY <2>1, <2>2 DEF ack_received, Row
<1>2. /\ s.status = "delivered" /\ s.requires_ack = r.requires_ack
      /\ s.delivered_at = now /\ s.abandoned_at = r.abandoned_at
      /\ s.abandoned_reason = r.abandoned_reason /\ s.ack_received_at = now
      /\ s.attempt_count = r.attempt_count /\ s.claimed_until = r.claimed_until
      /\ s.claimed_by = r.claimed_by
  BY DEF GoodRow, ack_received, Row
<1> HIDE DEF s
<1>3. GoodRow(s, n)
  BY <1>1, <1>2, QueueAssumption DEF GoodRow, NULL, Row
<1> QED BY <1>3 DEF s

\* The UPDATE of sweep_expired_claims, which counts one more reverted claim.
LEMMA RevertedGood ==
    ASSUME now \in Nat, NEW r, NEW n, GoodRow(r, n), r.status = "sending"
    PROVE  GoodRow([unclaimed(r) EXCEPT !.status = "pending"], n + 1)
<1> DEFINE s == [unclaimed(r) EXCEPT !.status = "pending"]
<1>1. s \in Row
  <2>1. r \in Row /\ r.attempt_count \in Nat
    BY DEF GoodRow, Row
  <2>2. /\ "pending" \in OutboundStatus \cup {"absent"}
        /\ NULL \in Time /\ NoWorker \in Workers \cup {NoWorker}
    BY <2>1, QueueAssumption DEF Time, NULL, OutboundStatus, AbandonedReason
  <2> QED BY <2>1, <2>2 DEF unclaimed, Row
<1>2. /\ s.status = "pending" /\ s.requires_ack = r.requires_ack
      /\ s.delivered_at = r.delivered_at /\ s.abandoned_at = r.abandoned_at
      /\ s.abandoned_reason = r.abandoned_reason /\ s.ack_received_at = r.ack_received_at
      /\ s.attempt_count = r.attempt_count /\ s.claimed_until = NULL
      /\ s.claimed_by = NoWorker
  BY DEF GoodRow, unclaimed, Row
<1> HIDE DEF s
<1>3. GoodRow(s, n + 1)
  BY <1>1, <1>2, QueueAssumption DEF GoodRow, NULL, Row
<1> QED BY <1>3 DEF s

\* The UPDATE of replay_abandoned, which starts the budget afresh.
LEMMA ReplayedGood ==
    ASSUME now \in Nat, NEW r, NEW n, GoodRow(r, n), r.status = "abandoned"
    PROVE  GoodRow(replayed(r), 0)
<1> DEFINE s == replayed(r)
<1>1. s \in Row
  <2>1. r \in Row /\ r.attempt_count \in Nat
    BY DEF GoodRow, Row
  <2>2. /\ "pending" \in OutboundStatus \cup {"absent"} /\ 0 \in Nat
        /\ NULL \in Time /\ "none" \in AbandonedReason
    BY <2>1, QueueAssumption DEF Time, NULL, OutboundStatus, AbandonedReason
  <2> QED BY <2>1, <2>2 DEF replayed, Row
<1>2. /\ s.status = "pending" /\ s.requires_ack = r.requires_ack
      /\ s.delivered_at = r.delivered_at /\ s.abandoned_at = NULL
      /\ s.abandoned_reason = "none" /\ s.ack_received_at = r.ack_received_at
      /\ s.attempt_count = 0 /\ s.claimed_until = r.claimed_until
      /\ s.claimed_by = r.claimed_by
  BY DEF GoodRow, replayed, Row
<1> HIDE DEF s
<1>3. GoodRow(s, 0)
  BY <1>1, <1>2, QueueAssumption DEF GoodRow, NULL, Row
<1> QED BY <1>3 DEF s

\* The retry-or-abandon decision keeps a row good on both of its uses.
LEMMA FailedGood ==
    ASSUME now \in Nat, NEW r, NEW n, NEW d \in Nat, GoodRow(r, n), r.status = "sending"
    PROVE  GoodRow(unclaimed(retry_or_abandon(r, d)), n)
<1>1. CASE ttl_expired(r)
  BY <1>1, AbandonedGood DEF retry_or_abandon, AbandonedReason
<1>2. CASE ~ttl_expired(r) /\ attempts_exhausted(r)
  BY <1>2, AbandonedGood DEF retry_or_abandon, AbandonedReason
<1>3. CASE ~ttl_expired(r) /\ ~attempts_exhausted(r)
  <2>1. r.attempt_count < MaxAttempts
    BY <1>3, QueueAssumption DEF attempts_exhausted, GoodRow, Row
  <2> QED BY <1>3, <2>1, RetryingGood DEF retry_or_abandon
<1> QED BY <1>1, <1>2, <1>3

\* The same decision in sweep_ack_timeouts, where there is no claim to clear.
LEMMA AckTimedOutGood ==
    ASSUME now \in Nat, NEW r, NEW n, NEW d \in Nat, GoodRow(r, n), r.status = "awaiting_ack"
    PROVE  GoodRow(retry_or_abandon(r, d), n)
<1>1. CASE ttl_expired(r)
  BY <1>1, AckAbandonedGood DEF retry_or_abandon, AbandonedReason
<1>2. CASE ~ttl_expired(r) /\ attempts_exhausted(r)
  BY <1>2, AckAbandonedGood DEF retry_or_abandon, AbandonedReason
<1>3. CASE ~ttl_expired(r) /\ ~attempts_exhausted(r)
  <2>1. r.attempt_count < MaxAttempts
    BY <1>3, QueueAssumption DEF attempts_exhausted, GoodRow, Row
  <2> QED BY <1>3, <2>1, AckRetryingGood DEF retry_or_abandon
<1> QED BY <1>1, <1>2, <1>3

-----------------------------------------------------------------------------
(* The table: every step keeps every row good.                              *)

TableInv == TypeOK /\ RowsInv

\* A good table is a table of rows, so what is left of the typing is about
\* the other variables.
LEMMA RowsTyped ==
    ASSUME NEW q \in QueueIds, TableInv
    PROVE  /\ rows[q] \in Row /\ GoodRow(rows[q], reclaims[q])
           /\ now \in Nat /\ reclaims[q] \in Nat
BY DEF TableInv, TypeOK, RowsInv

\* The empty table is good.
LEMMA TableInit == Init => TableInv
<1> SUFFICES ASSUME Init PROVE TableInv
  OBVIOUS
<1>1. \A q \in QueueIds : GoodRow(rows[q], reclaims[q])
  BY NewRowGood DEF Init
<1>2. \A q \in QueueIds : rows[q] \in Row
  BY <1>1 DEF GoodRow
<1>3. TypeOK
  BY <1>2 DEF Init, TypeOK, Hand, NotHeld
<1> QED BY <1>1, <1>3 DEF TableInv, RowsInv

\* One row written, one counter at most: the frame of most doors.
LEMMA OneRow ==
    ASSUME TableInv, NEW q \in QueueIds, NEW r, NEW n,
           GoodRow(r, n),
           rows' = [rows EXCEPT ![q] = r],
           reclaims' = [reclaims EXCEPT ![q] = n]
    PROVE  /\ RowsInv'
           /\ rows' \in [QueueIds -> Row]
           /\ reclaims' \in [QueueIds -> Nat]
<1>1. \A p \in QueueIds : GoodRow(rows'[p], reclaims'[p])
  BY DEF TableInv, TypeOK, RowsInv
<1>2. rows' = [p \in QueueIds |-> rows'[p]] /\ reclaims' = [p \in QueueIds |-> reclaims'[p]]
  BY DEF TableInv, TypeOK
<1> QED BY <1>1, <1>2 DEF RowsInv, GoodRow

\* The whole table rewritten row by row: the frame of the claim and sweeps.
LEMMA AllRows ==
    ASSUME TableInv,
           \A p \in QueueIds : GoodRow(rows'[p], reclaims'[p]),
           rows' = [p \in QueueIds |-> rows'[p]],
           reclaims' = [p \in QueueIds |-> reclaims'[p]]
    PROVE  /\ RowsInv'
           /\ rows' \in [QueueIds -> Row]
           /\ reclaims' \in [QueueIds -> Nat]
BY DEF RowsInv, GoodRow

\* No door, worker, crash, sweep or operator step spoils a row.
LEMMA TableStep == TableInv /\ [Next]_vars => TableInv'
<1> SUFFICES ASSUME TableInv, [Next]_vars PROVE TableInv'
  OBVIOUS
<1> USE QueueAssumption
<1>0. TypeOK /\ RowsInv /\ now \in Nat
  BY DEF TableInv, TypeOK
<1>1. ASSUME NEW q \in QueueIds, enqueue_outbound(q) PROVE TableInv'
  <2>1. PICK ack \in BOOLEAN, delay \in Backoffs :
            rows' = [rows EXCEPT ![q] = NewRow("pending", ack, now + delay)]
    BY <1>1 DEF enqueue_outbound
  <2>2. GoodRow(NewRow("pending", ack, now + delay), reclaims[q])
    BY <1>0, NewRowGoodN, RowsTyped
  <2>3. reclaims' = [reclaims EXCEPT ![q] = reclaims[q]]
    BY <1>0, <1>1 DEF enqueue_outbound, TypeOK
  <2>4. RowsInv' /\ rows' \in [QueueIds -> Row] /\ reclaims' \in [QueueIds -> Nat]
    BY <2>1, <2>2, <2>3, OneRow
  <2> QED BY <1>0, <1>1, <2>4 DEF enqueue_outbound, TableInv, TypeOK
<1>2. ASSUME NEW q \in QueueIds, cancel_outbound(q) PROVE TableInv'
  <2>1. GoodRow(unclaimed(abandoned(rows[q], "operator_cancel")), reclaims[q])
    BY <1>0, <1>2, RowsTyped, AbandonedGood DEF cancel_outbound, Working, AbandonedReason
  <2>2. reclaims' = [reclaims EXCEPT ![q] = reclaims[q]]
    BY <1>0, <1>2 DEF cancel_outbound, TypeOK
  <2>3. RowsInv' /\ rows' \in [QueueIds -> Row] /\ reclaims' \in [QueueIds -> Nat]
    BY <1>2, <2>1, <2>2, OneRow DEF cancel_outbound
  <2> QED BY <1>0, <1>2, <2>3 DEF cancel_outbound, TableInv, TypeOK
<1>3. ASSUME NEW q \in QueueIds, replay_abandoned(q) PROVE TableInv'
  <2>1. GoodRow(replayed(rows[q]), 0)
    BY <1>0, <1>3, RowsTyped, ReplayedGood DEF replay_abandoned
  <2>2. RowsInv' /\ rows' \in [QueueIds -> Row] /\ reclaims' \in [QueueIds -> Nat]
    BY <1>3, <2>1, OneRow DEF replay_abandoned
  <2> QED BY <1>0, <1>3, <2>2 DEF replay_abandoned, TableInv, TypeOK
<1>4. ASSUME NEW w \in Workers, claim_pending_outbound(w) PROVE TableInv'
  <2>1. PICK S \in SUBSET Due :
          /\ rows' = [q \in QueueIds |-> IF q \in S THEN claimed(rows[q], w) ELSE rows[q]]
          /\ hand' = [hand EXCEPT ![w] =
                 [q \in QueueIds |-> IF q \in S
                                     THEN [phase |-> "sending", until |-> now + ClaimDuration]
                                     ELSE NotHeld]]
    BY <1>4 DEF claim_pending_outbound
  <2>2. ASSUME NEW q \in QueueIds PROVE GoodRow(rows'[q], reclaims'[q])
    <3>1. reclaims'[q] = reclaims[q]
      BY <1>4 DEF claim_pending_outbound
    <3>2. CASE q \in S
      BY <1>0, <2>1, <3>1, <3>2, RowsTyped, ClaimedGood DEF Due
    <3>3. CASE q \notin S
      BY <2>1, <3>1, <3>3, RowsTyped
    <3> QED BY <3>2, <3>3
  <2>3. rows' = [q \in QueueIds |-> rows'[q]] /\ reclaims' = [q \in QueueIds |-> reclaims'[q]]
    BY <1>0, <1>4, <2>1 DEF claim_pending_outbound, TypeOK
  <2>4. RowsInv' /\ rows' \in [QueueIds -> Row] /\ reclaims' \in [QueueIds -> Nat]
    BY <2>2, <2>3, AllRows
  <2>5. hand' \in [Workers -> [QueueIds -> Hand]]
    BY <1>0, <2>1 DEF TypeOK, Hand, NotHeld
  <2> QED BY <1>0, <1>4, <2>4, <2>5 DEF claim_pending_outbound, TableInv, TypeOK
<1>5. ASSUME NEW w \in Workers, worker_crash(w) PROVE TableInv'
  BY <1>0, <1>5 DEF worker_crash, TableInv, TypeOK, RowsInv, Hand, NotHeld
<1>6. ASSUME NEW w \in Workers, NEW q \in QueueIds, transmit(w, q) PROVE TableInv'
  <2>1. PICK outcome \in {"ok", "failed", "replay"} :
            hand' = [hand EXCEPT ![w][q].phase = outcome]
    BY <1>6 DEF transmit
  <2>2. hand' \in [Workers -> [QueueIds -> Hand]]
    <3>1. hand \in [Workers -> [QueueIds -> Hand]] /\ hand[w][q] \in Hand
      BY <1>0 DEF TypeOK
    <3>2. [hand[w][q] EXCEPT !.phase = outcome] \in Hand
      BY <3>1 DEF Hand
    <3> QED BY <2>1, <3>1, <3>2
  <2> QED BY <1>0, <1>6, <2>2 DEF transmit, TableInv, TypeOK, RowsInv
<1>7. ASSUME NEW w \in Workers, NEW q \in QueueIds, NEW o, Report(w, q, o)
      PROVE  /\ hand' \in [Workers -> [QueueIds -> Hand]]
             /\ UNCHANGED <<now, received, matched, replays, reclaims>>
  BY <1>0, <1>7 DEF Report, TypeOK, Hand, NotHeld
<1>8. ASSUME NEW w \in Workers, NEW q \in QueueIds, NEW o, Report(w, q, o), NEW r,
             GoodRow(r, reclaims[q]), rows' = [rows EXCEPT ![q] = r] \/ rows' = rows
      PROVE  TableInv'
  <2>1. CASE rows' = rows
    BY <1>0, <1>7, <1>8, <2>1 DEF TableInv, TypeOK, RowsInv
  <2>2. CASE rows' = [rows EXCEPT ![q] = r]
    <3>1. reclaims' = [reclaims EXCEPT ![q] = reclaims[q]]
      BY <1>0, <1>7, <1>8 DEF TypeOK
    <3>2. RowsInv' /\ rows' \in [QueueIds -> Row] /\ reclaims' \in [QueueIds -> Nat]
      BY <1>8, <2>2, <3>1, OneRow
    <3> QED BY <1>0, <1>7, <1>8, <3>2 DEF TableInv, TypeOK
  <2> QED BY <1>8, <2>1, <2>2
<1>9. ASSUME NEW w \in Workers, NEW q \in QueueIds, mark_transport_delivered(w, q)
      PROVE  TableInv'
  <2>1. CASE rows[q].status = "sending"
    <3>1. GoodRow(transport_delivered(rows[q]), reclaims[q])
      BY <1>0, <2>1, RowsTyped, TransportDeliveredGood
    <3> QED BY <1>8, <1>9, <2>1, <3>1 DEF mark_transport_delivered
  <2>2. CASE rows[q].status # "sending"
    BY <1>8, <1>9, <2>2, RowsTyped DEF mark_transport_delivered
  <2> QED BY <2>1, <2>2
<1>10. ASSUME NEW w \in Workers, NEW q \in QueueIds, mark_transport_failed(w, q)
       PROVE  TableInv'
  <2>1. CASE rows[q].status = "sending"
    <3>1. PICK delay \in Backoffs :
              rows' = [rows EXCEPT ![q] = unclaimed(retry_or_abandon(rows[q], now + delay))]
      BY <1>10, <2>1 DEF mark_transport_failed
    <3>2. GoodRow(unclaimed(retry_or_abandon(rows[q], now + delay)), reclaims[q])
      BY <1>0, <2>1, RowsTyped, FailedGood
    <3> QED BY <1>8, <1>10, <3>1, <3>2 DEF mark_transport_failed
  <2>2. CASE rows[q].status # "sending"
    BY <1>8, <1>10, <2>2, RowsTyped DEF mark_transport_failed
  <2> QED BY <2>1, <2>2
<1>11. ASSUME NEW w \in Workers, NEW q \in QueueIds, mark_replay_resolved(w, q)
       PROVE  TableInv'
  <2>1. CASE Working(q)
    <3>1. GoodRow(replay_resolved(rows[q]), reclaims[q])
      BY <1>0, <2>1, RowsTyped, ReplayResolvedGood DEF Working
    <3> QED BY <1>8, <1>11, <2>1, <3>1 DEF mark_replay_resolved
  <2>2. CASE ~Working(q)
    BY <1>8, <1>11, <2>2, RowsTyped DEF mark_replay_resolved
  <2> QED BY <2>1, <2>2
<1>12. ASSUME NEW p \in QueueIds, NEW q \in QueueIds, match_ack_to_outbound(p, q)
       PROVE  TableInv'
  BY <1>0, <1>12 DEF match_ack_to_outbound, TableInv, TypeOK, RowsInv
<1>13. ASSUME NEW p \in QueueIds, NEW q \in QueueIds, mark_ack_received(p, q)
       PROVE  TableInv'
  <2>1. CASE rows[q].status = "awaiting_ack"
    <3>1. GoodRow(ack_received(rows[q]), reclaims[q])
      BY <1>0, <2>1, RowsTyped, AckReceivedGood
    <3>2. reclaims' = [reclaims EXCEPT ![q] = reclaims[q]]
      BY <1>0, <1>13 DEF mark_ack_received, TypeOK
    <3>3. RowsInv' /\ rows' \in [QueueIds -> Row] /\ reclaims' \in [QueueIds -> Nat]
      BY <1>13, <2>1, <3>1, <3>2, OneRow DEF mark_ack_received
    <3> QED BY <1>0, <1>13, <3>3 DEF mark_ack_received, TableInv, TypeOK
  <2>2. CASE rows[q].status # "awaiting_ack"
    BY <1>0, <1>13, <2>2 DEF mark_ack_received, TableInv, TypeOK, RowsInv
  <2> QED BY <2>1, <2>2
<1>14. CASE sweep_ack_timeouts
  <2>1. ASSUME NEW q \in QueueIds PROVE GoodRow(rows'[q], reclaims'[q])
    <3>1. reclaims'[q] = reclaims[q]
      BY <1>14 DEF sweep_ack_timeouts
    <3>2. CASE ack_timed_out(rows[q])
      <4>1. GoodRow(retry_or_abandon(rows[q], now + AckRetryDelay), reclaims[q])
        BY <1>0, <3>2, RowsTyped, AckTimedOutGood DEF ack_timed_out
      <4> QED BY <1>14, <3>1, <3>2, <4>1 DEF sweep_ack_timeouts
    <3>3. CASE ~ack_timed_out(rows[q])
      BY <1>14, <3>1, <3>3, RowsTyped DEF sweep_ack_timeouts
    <3> QED BY <3>2, <3>3
  <2>2. rows' = [q \in QueueIds |-> rows'[q]] /\ reclaims' = [q \in QueueIds |-> reclaims'[q]]
    BY <1>0, <1>14 DEF sweep_ack_timeouts, TypeOK
  <2>3. RowsInv' /\ rows' \in [QueueIds -> Row] /\ reclaims' \in [QueueIds -> Nat]
    BY <2>1, <2>2, AllRows
  <2> QED BY <1>0, <1>14, <2>3 DEF sweep_ack_timeouts, TableInv, TypeOK
<1>15. CASE sweep_ttl_expired
  <2>1. ASSUME NEW q \in QueueIds PROVE GoodRow(rows'[q], reclaims'[q])
    <3>1. reclaims'[q] = reclaims[q]
      BY <1>15 DEF sweep_ttl_expired
    <3>2. CASE ttl_lapsed(rows[q])
      <4>1. rows[q].status \in {"pending", "sending", "awaiting_ack"}
        BY <3>2, RowsTyped DEF ttl_lapsed, Row, OutboundStatus
      <4>2. GoodRow(unclaimed(abandoned(rows[q], "ttl_expired")), reclaims[q])
        BY <1>0, <4>1, RowsTyped, AbandonedGood DEF AbandonedReason
      <4> QED BY <1>15, <3>1, <3>2, <4>2 DEF sweep_ttl_expired
    <3>3. CASE ~ttl_lapsed(rows[q])
      BY <1>15, <3>1, <3>3, RowsTyped DEF sweep_ttl_expired
    <3> QED BY <3>2, <3>3
  <2>2. rows' = [q \in QueueIds |-> rows'[q]] /\ reclaims' = [q \in QueueIds |-> reclaims'[q]]
    BY <1>0, <1>15 DEF sweep_ttl_expired, TypeOK
  <2>3. RowsInv' /\ rows' \in [QueueIds -> Row] /\ reclaims' \in [QueueIds -> Nat]
    BY <2>1, <2>2, AllRows
  <2> QED BY <1>0, <1>15, <2>3 DEF sweep_ttl_expired, TableInv, TypeOK
<1>16. CASE sweep_expired_claims
  <2>1. ASSUME NEW q \in QueueIds PROVE GoodRow(rows'[q], reclaims'[q])
    <3>1. CASE claim_lapsed(rows[q])
      <4>1. GoodRow([unclaimed(rows[q]) EXCEPT !.status = "pending"], reclaims[q] + 1)
        BY <1>0, <3>1, RowsTyped, RevertedGood DEF claim_lapsed
      <4> QED BY <1>16, <3>1, <4>1 DEF sweep_expired_claims
    <3>2. CASE ~claim_lapsed(rows[q])
      BY <1>16, <3>2, RowsTyped DEF sweep_expired_claims
    <3> QED BY <3>1, <3>2
  <2>2. rows' = [q \in QueueIds |-> rows'[q]] /\ reclaims' = [q \in QueueIds |-> reclaims'[q]]
    BY <1>16 DEF sweep_expired_claims
  <2>3. RowsInv' /\ rows' \in [QueueIds -> Row] /\ reclaims' \in [QueueIds -> Nat]
    BY <2>1, <2>2, AllRows
  <2> QED BY <1>0, <1>16, <2>3 DEF sweep_expired_claims, TableInv, TypeOK
<1>17. CASE tick
  BY <1>0, <1>17 DEF tick, TableInv, TypeOK, RowsInv
<1>18. CASE UNCHANGED vars
  BY <1>0, <1>18 DEF vars, TableInv, TypeOK, RowsInv
<1> QED
  BY <1>1, <1>2, <1>3, <1>4, <1>5, <1>6, <1>9, <1>10, <1>11, <1>12, <1>13, <1>14, <1>15,
     <1>16, <1>17, <1>18 DEF Next

-----------------------------------------------------------------------------
(* The theorems about the table.                                            *)

\* Every reachable state is typed, whatever the doors are called with.
THEOREM TypeCorrect == Spec => []TypeOK
<1>1. TableInv => TypeOK
  BY DEF TableInv
<1> QED BY <1>1, TableInit, TableStep, PTL DEF Spec

\* The doors keep the CHECK constraints of V007__edge_outbound_queue.sql, so
\* no UPDATE of the state machine is ever refused by the schema.
THEOREM SchemaChecksHold == Spec => []RowChecks
<1>1. TableInv => RowChecks
  BY DEF TableInv, RowsInv, GoodRow, RowChecks
<1> QED BY <1>1, TableInit, TableStep, PTL DEF Spec

\* A row has a claim exactly while it is being sent.
THEOREM ClaimsMatchStatus == Spec => []ClaimShape
<1>1. TableInv => ClaimShape
  BY DEF TableInv, RowsInv, GoodRow, ClaimShape
<1> QED BY <1>1, TableInit, TableStep, PTL DEF Spec

\* The attempt budget holds with one extra attempt per reverted claim.
THEOREM AttemptsBudgeted == Spec => []AttemptBudget
<1>1. TableInv => AttemptBudget
  BY DEF TableInv, RowsInv, GoodRow, AttemptBudget
<1> QED BY <1>1, TableInit, TableStep, PTL DEF Spec

-----------------------------------------------------------------------------
(* The refinement of the promise.                                           *)

\* Initially no ACK is matched and no worker holds a reject.
LEMMA AckInit == Init => AckInv
BY DEF Init, AckInv, NotHeld

\* Matches and rejects keep coming from destinations that have the body:
\* `received' only grows and a pair is matched only on equal bodies.
LEMMA AckStep == TableInv /\ AckInv /\ [Next]_vars => AckInv'
<1> SUFFICES ASSUME TableInv, AckInv, [Next]_vars PROVE AckInv'
  OBVIOUS
<1>0. TypeOK
  BY DEF TableInv
<1>1. ASSUME NEW q \in QueueIds,
             enqueue_outbound(q) \/ cancel_outbound(q) \/ replay_abandoned(q)
      PROVE  AckInv'
  BY <1>1 DEF enqueue_outbound, cancel_outbound, replay_abandoned, AckInv
<1>2. ASSUME NEW w \in Workers, claim_pending_outbound(w) PROVE AckInv'
  BY <1>0, <1>2 DEF claim_pending_outbound, AckInv, TypeOK, NotHeld
<1>3. ASSUME NEW w \in Workers, worker_crash(w) PROVE AckInv'
  BY <1>0, <1>3 DEF worker_crash, AckInv, TypeOK, NotHeld
<1>4. ASSUME NEW w \in Workers, NEW q \in QueueIds, transmit(w, q) PROVE AckInv'
  <2>1. PICK outcome \in {"ok", "failed", "replay"} :
            /\ outcome = "replay" => q \in received
            /\ hand' = [hand EXCEPT ![w][q].phase = outcome]
    BY <1>4 DEF transmit
  <2>2. received \subseteq received' /\ matched' = matched
    BY <1>4 DEF transmit
  <2>3. ASSUME NEW v \in Workers, NEW p \in QueueIds, hand'[v][p].phase = "replay"
        PROVE  p \in received'
    <3>1. CASE v = w /\ p = q
      BY <1>0, <2>1, <2>2, <2>3, <3>1 DEF TypeOK, Hand
    <3>2. CASE ~(v = w /\ p = q)
      <4>1. hand'[v][p] = hand[v][p]
        BY <1>0, <2>1, <3>2 DEF TypeOK
      <4> QED BY <2>2, <2>3, <4>1 DEF AckInv
    <3> QED BY <3>1, <3>2
  <2> QED BY <2>2, <2>3 DEF AckInv
<1>5. ASSUME NEW w \in Workers, NEW q \in QueueIds, NEW o, Report(w, q, o) PROVE AckInv'
  BY <1>0, <1>5 DEF Report, AckInv, TypeOK, NotHeld
<1>6. ASSUME NEW p \in QueueIds, NEW q \in QueueIds, match_ack_to_outbound(p, q)
      PROVE  AckInv'
  BY <1>6 DEF match_ack_to_outbound, AckInv
<1>7. ASSUME NEW p \in QueueIds, NEW q \in QueueIds, mark_ack_received(p, q)
      PROVE  AckInv'
  BY <1>7 DEF mark_ack_received, AckInv
<1>8. CASE sweep_ack_timeouts \/ sweep_ttl_expired \/ sweep_expired_claims \/ tick
  BY <1>8 DEF sweep_ack_timeouts, sweep_ttl_expired, sweep_expired_claims, tick, AckInv
<1>9. CASE UNCHANGED vars
  BY <1>9 DEF vars, AckInv
<1> QED
  BY <1>1, <1>2, <1>3, <1>4, <1>5, <1>6, <1>7, <1>8, <1>9
     DEF Next, mark_transport_delivered, mark_transport_failed, mark_replay_resolved

\* What the promise sees of one status.
seen(s) == IF s \in {"pending", "sending", "awaiting_ack"} THEN "live" ELSE s

\* A door that writes one accepted row and keeps its ACK contract shows the
\* promise that row's new status and nothing else.
LEMMA OneRowSeen ==
    ASSUME TypeOK, NEW q \in QueueIds, NEW r, rows' = [rows EXCEPT ![q] = r],
           rows[q].status # "absent", r.status # "absent",
           r.requires_ack = rows[q].requires_ack
    PROVE  /\ abstract_state' = [abstract_state EXCEPT ![q] = seen(r.status)]
           /\ abstract_acked' = abstract_acked
<1>1. \A p \in QueueIds : rows'[p] = IF p = q THEN r ELSE rows[p]
  BY DEF TypeOK
<1>2. abstract_acked' = abstract_acked
  BY <1>1 DEF abstract_acked
<1>3. abstract_state' = [abstract_state EXCEPT ![q] = seen(r.status)]
  <2>1. abstract_state' =
            [p \in QueueIds |-> IF p = q THEN seen(r.status) ELSE seen(rows[p].status)]
    BY <1>1 DEF abstract_state, Working, seen
  <2>2. abstract_state = [p \in QueueIds |-> seen(rows[p].status)]
    BY DEF abstract_state, Working, seen
  <2> HIDE DEF seen
  <2> QED BY <2>1, <2>2
<1> QED BY <1>2, <1>3

\* A step that rewrites rows without settling one as delivered, creating one
\* or touching an ACK contract only abandons live rows.
LEMMA SweepSeen ==
    ASSUME UNCHANGED received,
           \A q \in QueueIds :
               /\ rows'[q].requires_ack = rows[q].requires_ack
               /\ \/ rows'[q].status = rows[q].status
                  \/ /\ rows[q].status \in {"pending", "sending", "awaiting_ack"}
                     /\ rows'[q].status \in {"pending", "sending", "awaiting_ack", "abandoned"}
    PROVE  [Promise!PNext]_(Promise!pvars)
<1> DEFINE S == {q \in QueueIds : /\ Working(q)
                                  /\ rows'[q].status = "abandoned"}
<1>1. abstract_acked' = abstract_acked
  BY DEF abstract_acked
<1>2. abstract_state' =
          [q \in QueueIds |-> IF q \in S THEN "abandoned" ELSE abstract_state[q]]
  BY DEF abstract_state, Working
<1>3. \A q \in S : abstract_state[q] = "live"
  BY DEF abstract_state
<1>4. S \in SUBSET QueueIds
  OBVIOUS
<1>5. Promise!Abandon(S)
  BY <1>1, <1>2, <1>3 DEF Promise!Abandon
<1> QED BY <1>4, <1>5 DEF Promise!PNext

\* What each write of a door does to the two columns the promise sees.
LEMMA WriteSeen ==
    ASSUME NEW r \in Row, NEW w, NEW d, NEW why
    PROVE  /\ claimed(r, w).status = "sending"
           /\ claimed(r, w).requires_ack = r.requires_ack
           /\ abandoned(r, why).status = "abandoned"
           /\ abandoned(r, why).requires_ack = r.requires_ack
           /\ retrying(r, d).status = "pending"
           /\ retrying(r, d).requires_ack = r.requires_ack
           /\ replayed(r).status = "pending"
           /\ replayed(r).requires_ack = r.requires_ack
           /\ ack_received(r).status = "delivered"
           /\ ack_received(r).requires_ack = r.requires_ack
           /\ replay_resolved(r).status = "delivered"
           /\ replay_resolved(r).requires_ack = r.requires_ack
           /\ transport_delivered(r).requires_ack = r.requires_ack
           /\ r.requires_ack => transport_delivered(r).status = "awaiting_ack"
           /\ ~r.requires_ack => transport_delivered(r).status = "delivered"
           /\ unclaimed(abandoned(r, why)).status = "abandoned"
           /\ unclaimed(abandoned(r, why)).requires_ack = r.requires_ack
           /\ unclaimed(retrying(r, d)).status = "pending"
           /\ unclaimed(retrying(r, d)).requires_ack = r.requires_ack
           /\ [unclaimed(r) EXCEPT !.status = "pending"].status = "pending"
           /\ [unclaimed(r) EXCEPT !.status = "pending"].requires_ack = r.requires_ack
BY DEF claimed, abandoned, retrying, replayed, ack_received, replay_resolved,
       transport_delivered, unclaimed, Row

\* Every step of the queue is a step of the promise, or changes nothing the
\* promise sees.
LEMMA StepKeepsPromise ==
    TableInv /\ AckInv /\ [Next]_vars => [Promise!PNext]_(Promise!pvars)
<1> SUFFICES ASSUME TableInv, AckInv, [Next]_vars PROVE [Promise!PNext]_(Promise!pvars)
  OBVIOUS
<1>0. TypeOK /\ \A q \in QueueIds : rows[q] \in Row
  BY DEF TableInv, TypeOK
<1>s. ASSUME UNCHANGED <<rows, received>> PROVE [Promise!PNext]_(Promise!pvars)
  BY <1>s DEF Promise!pvars, abstract_state, abstract_acked, Working
<1>d. ASSUME NEW q \in QueueIds, NEW r, rows' = [rows EXCEPT ![q] = r], UNCHANGED received,
             r.requires_ack = rows[q].requires_ack, Working(q), r.status = "delivered",
             rows[q].requires_ack => \E p \in received : BodyOf[p] = BodyOf[q]
      PROVE  [Promise!PNext]_(Promise!pvars)
  <2>1. /\ abstract_state' = [abstract_state EXCEPT ![q] = "delivered"]
        /\ abstract_acked' = abstract_acked
    <3>1. rows[q].status # "absent" /\ r.status # "absent"
      BY <1>d DEF Working
    <3>2. seen(r.status) = "delivered"
      BY <1>d DEF seen
    <3>3. /\ abstract_state' = [abstract_state EXCEPT ![q] = seen(r.status)]
          /\ abstract_acked' = abstract_acked
      BY <1>0, <1>d, <3>1, OneRowSeen
    <3> QED BY <3>2, <3>3
  <2>2. abstract_state[q] = "live"
    BY <1>d DEF abstract_state
  <2>3. Promise!MayDeliver(q)
    BY <1>d DEF Promise!MayDeliver, abstract_acked
  <2>4. Promise!Deliver(q)
    BY <1>d, <2>1, <2>2, <2>3 DEF Promise!Deliver
  <2> QED BY <2>4 DEF Promise!PNext
<1>w. ASSUME NEW q \in QueueIds, NEW r, rows' = [rows EXCEPT ![q] = r], UNCHANGED received,
             r.requires_ack = rows[q].requires_ack, Working(q),
             r.status \in {"pending", "sending", "awaiting_ack", "abandoned"}
      PROVE  [Promise!PNext]_(Promise!pvars)
  BY <1>0, <1>w, SweepSeen DEF TypeOK, Working
<1>1. ASSUME NEW q \in QueueIds, enqueue_outbound(q) PROVE [Promise!PNext]_(Promise!pvars)
  <2>1. PICK ack \in BOOLEAN, delay \in Backoffs :
            rows' = [rows EXCEPT ![q] = NewRow("pending", ack, now + delay)]
    BY <1>1 DEF enqueue_outbound
  <2>2. \A p \in QueueIds :
            rows'[p] = IF p = q THEN NewRow("pending", ack, now + delay) ELSE rows[p]
    BY <1>0, <2>1 DEF TypeOK
  <2>3. /\ NewRow("pending", ack, now + delay).status = "pending"
        /\ NewRow("pending", ack, now + delay).requires_ack = ack
    BY DEF NewRow
  <2>4. abstract_state' = [abstract_state EXCEPT ![q] = "live"] /\ abstract_state[q] = "absent"
    BY <1>1, <2>2, <2>3 DEF abstract_state, Working, enqueue_outbound
  <2>5. CASE ack
    <3>1. abstract_acked' = abstract_acked \cup {q}
      BY <1>1, <2>2, <2>3, <2>5 DEF abstract_acked, enqueue_outbound
    <3> QED BY <1>1, <2>4, <3>1 DEF Promise!PNext, Promise!Accept, enqueue_outbound
  <2>6. CASE ~ack
    <3>1. abstract_acked' = abstract_acked
      BY <1>1, <2>2, <2>3, <2>6 DEF abstract_acked, enqueue_outbound
    <3> QED BY <1>1, <2>4, <3>1 DEF Promise!PNext, Promise!Accept, enqueue_outbound
  <2> QED BY <2>5, <2>6
<1>2. ASSUME NEW q \in QueueIds, cancel_outbound(q) PROVE [Promise!PNext]_(Promise!pvars)
  <2> DEFINE r == unclaimed(abandoned(rows[q], "operator_cancel"))
  <2>1. r.status = "abandoned" /\ r.requires_ack = rows[q].requires_ack
    BY <1>0, WriteSeen
  <2>2. rows' = [rows EXCEPT ![q] = r] /\ UNCHANGED received /\ Working(q)
    BY <1>2 DEF cancel_outbound
  <2> HIDE DEF r
  <2> QED BY <1>w, <2>1, <2>2
<1>3. ASSUME NEW q \in QueueIds, replay_abandoned(q) PROVE [Promise!PNext]_(Promise!pvars)
  <2>1. /\ abstract_state' = [abstract_state EXCEPT ![q] = "live"]
        /\ abstract_acked' = abstract_acked
    <3> DEFINE r == replayed(rows[q])
    <3>1. r.status = "pending" /\ r.requires_ack = rows[q].requires_ack
      BY <1>0, WriteSeen
    <3>2. rows' = [rows EXCEPT ![q] = r] /\ rows[q].status = "abandoned"
      BY <1>3 DEF replay_abandoned
    <3> HIDE DEF r
    <3>3. seen(r.status) = "live"
      BY <3>1 DEF seen
    <3> QED BY <1>0, <3>1, <3>2, <3>3, OneRowSeen
  <2>2. abstract_state[q] = "abandoned"
    BY <1>3 DEF replay_abandoned, abstract_state, Working
  <2> QED BY <1>3, <2>1, <2>2 DEF Promise!PNext, Promise!Reopen, replay_abandoned
<1>4. ASSUME NEW w \in Workers, claim_pending_outbound(w)
      PROVE  [Promise!PNext]_(Promise!pvars)
  <2>1. PICK S \in SUBSET Due :
            rows' = [q \in QueueIds |-> IF q \in S THEN claimed(rows[q], w) ELSE rows[q]]
    BY <1>4 DEF claim_pending_outbound
  <2>2. UNCHANGED received
    BY <1>4 DEF claim_pending_outbound
  <2> QED BY <1>0, <2>1, <2>2, WriteSeen, SweepSeen DEF Due
<1>5. ASSUME NEW w \in Workers, worker_crash(w) PROVE [Promise!PNext]_(Promise!pvars)
  BY <1>5, <1>s DEF worker_crash
<1>6. ASSUME NEW w \in Workers, NEW q \in QueueIds, transmit(w, q)
      PROVE  [Promise!PNext]_(Promise!pvars)
  <2>1. CASE UNCHANGED received
    BY <1>6, <1>s, <2>1 DEF transmit
  <2>2. CASE received' = received \cup {q}
    <3>1. Promise!Receive(q)
      BY <1>6, <2>2 DEF transmit, Promise!Receive, abstract_state, abstract_acked, Working
    <3> QED BY <3>1 DEF Promise!PNext
  <2> QED BY <1>6, <2>1, <2>2 DEF transmit
<1>7. ASSUME NEW w \in Workers, NEW q \in QueueIds, mark_transport_delivered(w, q)
      PROVE  [Promise!PNext]_(Promise!pvars)
  <2>0. UNCHANGED received
    BY <1>7 DEF mark_transport_delivered, Report
  <2>1. CASE rows[q].status = "sending" /\ rows[q].requires_ack
    BY <1>0, <1>7, <1>w, <2>0, <2>1, WriteSeen DEF mark_transport_delivered, Working
  <2>2. CASE rows[q].status = "sending" /\ ~rows[q].requires_ack
    BY <1>0, <1>7, <1>d, <2>0, <2>2, WriteSeen DEF mark_transport_delivered, Working
  <2>3. CASE rows[q].status # "sending"
    BY <1>7, <1>s, <2>0, <2>3 DEF mark_transport_delivered
  <2> QED BY <2>1, <2>2, <2>3
<1>8. ASSUME NEW w \in Workers, NEW q \in QueueIds, mark_transport_failed(w, q)
      PROVE  [Promise!PNext]_(Promise!pvars)
  <2>0. UNCHANGED received
    BY <1>8 DEF mark_transport_failed, Report
  <2>1. CASE rows[q].status = "sending"
    <3>1. PICK delay \in Backoffs :
              rows' = [rows EXCEPT ![q] = unclaimed(retry_or_abandon(rows[q], now + delay))]
      BY <1>8, <2>1 DEF mark_transport_failed
    <3>2. /\ unclaimed(retry_or_abandon(rows[q], now + delay)).status
                \in {"pending", "abandoned"}
          /\ unclaimed(retry_or_abandon(rows[q], now + delay)).requires_ack
                = rows[q].requires_ack
      BY <1>0, WriteSeen DEF retry_or_abandon
    <3> QED BY <1>w, <2>0, <2>1, <3>1, <3>2 DEF Working
  <2>2. CASE rows[q].status # "sending"
    BY <1>8, <1>s, <2>0, <2>2 DEF mark_transport_failed
  <2> QED BY <2>1, <2>2
<1>9. ASSUME NEW w \in Workers, NEW q \in QueueIds, mark_replay_resolved(w, q)
      PROVE  [Promise!PNext]_(Promise!pvars)
  <2>0. UNCHANGED received /\ q \in received
    BY <1>9 DEF mark_replay_resolved, Report, AckInv
  <2>1. CASE Working(q)
    BY <1>0, <1>9, <1>d, <2>0, <2>1, WriteSeen DEF mark_replay_resolved
  <2>2. CASE ~Working(q)
    BY <1>9, <1>s, <2>0, <2>2 DEF mark_replay_resolved
  <2> QED BY <2>1, <2>2
<1>10. ASSUME NEW p \in QueueIds, NEW q \in QueueIds, match_ack_to_outbound(p, q)
       PROVE  [Promise!PNext]_(Promise!pvars)
  BY <1>10, <1>s DEF match_ack_to_outbound
<1>11. ASSUME NEW p \in QueueIds, NEW q \in QueueIds, mark_ack_received(p, q)
       PROVE  [Promise!PNext]_(Promise!pvars)
  <2>0. UNCHANGED received /\ p \in received /\ BodyOf[p] = BodyOf[q]
    BY <1>11 DEF mark_ack_received, AckInv
  <2>1. CASE rows[q].status = "awaiting_ack"
    BY <1>0, <1>11, <1>d, <2>0, <2>1, WriteSeen DEF mark_ack_received, Working
  <2>2. CASE rows[q].status # "awaiting_ack"
    BY <1>11, <1>s, <2>0, <2>2 DEF mark_ack_received
  <2> QED BY <2>1, <2>2
<1>12. CASE sweep_ack_timeouts
  <2>1. ASSUME NEW q \in QueueIds, ack_timed_out(rows[q])
        PROVE  /\ rows'[q].requires_ack = rows[q].requires_ack
               /\ rows[q].status = "awaiting_ack"
               /\ rows'[q].status \in {"pending", "abandoned"}
    <3>1. rows'[q] = retry_or_abandon(rows[q], now + AckRetryDelay)
      BY <1>12, <2>1 DEF sweep_ack_timeouts
    <3>2. \/ rows'[q] = abandoned(rows[q], "ttl_expired")
          \/ rows'[q] = abandoned(rows[q], "max_attempts")
          \/ rows'[q] = retrying(rows[q], now + AckRetryDelay)
      BY <3>1 DEF retry_or_abandon
    <3>3. rows[q].status = "awaiting_ack"
      BY <2>1 DEF ack_timed_out
    <3> QED BY <1>0, <3>2, <3>3, WriteSeen
  <2>2. \A q \in QueueIds : ~ack_timed_out(rows[q]) => rows'[q] = rows[q]
    BY <1>12 DEF sweep_ack_timeouts
  <2>3. UNCHANGED received
    BY <1>12 DEF sweep_ack_timeouts
  <2> QED BY <2>1, <2>2, <2>3, SweepSeen
<1>13. CASE sweep_ttl_expired
  <2>1. ASSUME NEW q \in QueueIds, ttl_lapsed(rows[q])
        PROVE  /\ rows'[q].requires_ack = rows[q].requires_ack
               /\ rows[q].status \in {"pending", "sending", "awaiting_ack"}
               /\ rows'[q].status = "abandoned"
    BY <1>0, <1>13, <2>1, WriteSeen DEF sweep_ttl_expired, ttl_lapsed, Row, OutboundStatus
  <2>2. \A q \in QueueIds : ~ttl_lapsed(rows[q]) => rows'[q] = rows[q]
    BY <1>13 DEF sweep_ttl_expired
  <2>3. UNCHANGED received
    BY <1>13 DEF sweep_ttl_expired
  <2> QED BY <2>1, <2>2, <2>3, SweepSeen
<1>14. CASE sweep_expired_claims
  <2>1. ASSUME NEW q \in QueueIds, claim_lapsed(rows[q])
        PROVE  /\ rows'[q].requires_ack = rows[q].requires_ack
               /\ rows[q].status = "sending" /\ rows'[q].status = "pending"
    BY <1>0, <1>14, <2>1, WriteSeen DEF sweep_expired_claims, claim_lapsed
  <2>2. \A q \in QueueIds : ~claim_lapsed(rows[q]) => rows'[q] = rows[q]
    BY <1>14 DEF sweep_expired_claims
  <2>3. UNCHANGED received
    BY <1>14 DEF sweep_expired_claims
  <2> QED BY <2>1, <2>2, <2>3, SweepSeen
<1>15. CASE tick
  BY <1>15, <1>s DEF tick
<1>16. CASE UNCHANGED vars
  BY <1>16, <1>s DEF vars
<1> QED
  BY <1>1, <1>2, <1>3, <1>4, <1>5, <1>6, <1>7, <1>8, <1>9, <1>10, <1>11, <1>12, <1>13,
     <1>14, <1>15, <1>16 DEF Next

-----------------------------------------------------------------------------
(* The theorems about delivery.                                             *)

QueueInv == TableInv /\ AckInv

\* The empty queue makes no promise.
LEMMA InitKeepsPromise == Init => Promise!PInit
<1> SUFFICES ASSUME Init PROVE Promise!PInit
  OBVIOUS
<1>1. \A q \in QueueIds : rows[q].status = "absent"
  BY DEF Init, NewRow
<1> QED BY <1>1 DEF Init, Promise!PInit, abstract_state, abstract_acked, Working

\* The queue implements the promise: a delivered row stays delivered, an
\* abandoned row only reopens, and an ACK row is delivered only on a receipt.
THEOREM QueueKeepsPromise == Spec => KeepsPromise
<1>1. Init => QueueInv
  BY TableInit, AckInit DEF QueueInv
<1>2. QueueInv /\ [Next]_vars => QueueInv'
  BY TableStep, AckStep DEF QueueInv
<1>3. QueueInv /\ [Next]_vars => [Promise!PNext]_(Promise!pvars)
  BY StepKeepsPromise DEF QueueInv
<1> QED BY <1>1, <1>2, <1>3, InitKeepsPromise, PTL DEF Spec, KeepsPromise, Promise!PSpec

\* No abstract step delivers an ACK row without a receipt, or takes one back.
LEMMA DeliveryStep ==
    TypeOK /\ DeliveredWasReceived /\ [Promise!PNext]_(Promise!pvars)
        => DeliveredWasReceived'
<1> SUFFICES ASSUME TypeOK, DeliveredWasReceived, [Promise!PNext]_(Promise!pvars)
             PROVE  DeliveredWasReceived'
  OBVIOUS
<1> DEFINE Got(q) == \E p \in received : BodyOf[p] = BodyOf[q]
<1>1. \A q \in QueueIds : abstract_state[q] = "delivered" /\ q \in abstract_acked => Got(q)
  BY DEF DeliveredWasReceived, abstract_state, abstract_acked, Working
<1>2. received \subseteq received'
  BY DEF Promise!PNext, Promise!pvars, Promise!Accept, Promise!Receive, Promise!Deliver,
         Promise!Reopen, Promise!Abandon
<1>3. abstract_state \in [QueueIds -> OutboundStatus \cup {"absent", "live"}]
  BY DEF TypeOK, abstract_state, Working, Row, OutboundStatus
<1>4. ASSUME NEW q \in QueueIds, abstract_state'[q] = "delivered", q \in abstract_acked'
      PROVE  Got(q)
  <2> HIDE DEF Got
  <2>1. CASE UNCHANGED Promise!pvars
    BY <1>1, <1>4, <2>1 DEF Promise!pvars
  <2>2. ASSUME NEW p \in QueueIds, Promise!Accept(p) PROVE Got(q)
    BY <1>1, <1>3, <1>4, <2>2 DEF Promise!Accept
  <2>3. ASSUME NEW p \in QueueIds, Promise!Receive(p) PROVE Got(q)
    BY <1>1, <1>4, <2>3 DEF Promise!Receive
  <2>4. ASSUME NEW p \in QueueIds, Promise!Deliver(p) PROVE Got(q)
    BY <1>1, <1>3, <1>4, <2>4 DEF Promise!Deliver, Promise!MayDeliver, Got
  <2>5. ASSUME NEW p \in QueueIds, Promise!Reopen(p) PROVE Got(q)
    BY <1>1, <1>3, <1>4, <2>5 DEF Promise!Reopen
  <2>6. ASSUME NEW S \in SUBSET QueueIds, Promise!Abandon(S) PROVE Got(q)
    BY <1>1, <1>4, <2>6 DEF Promise!Abandon
  <2> QED BY <2>1, <2>2, <2>3, <2>4, <2>5, <2>6 DEF Promise!PNext
<1>5. ASSUME NEW q \in QueueIds, rows'[q].status = "delivered", rows'[q].requires_ack
      PROVE  abstract_state'[q] = "delivered" /\ q \in abstract_acked'
  BY <1>5 DEF abstract_state, abstract_acked, Working
<1> QED BY <1>2, <1>4, <1>5 DEF DeliveredWasReceived

\* A row that asked for an ACK is delivered only after a destination has
\* accepted its body.
THEOREM DeliveryIsReal == Spec => []DeliveredWasReceived
<1>1. Init => QueueInv
  BY TableInit, AckInit DEF QueueInv
<1>2. QueueInv /\ [Next]_vars => QueueInv'
  BY TableStep, AckStep DEF QueueInv
<1>3. Init => DeliveredWasReceived
  BY DEF Init, NewRow, DeliveredWasReceived
<1>4. QueueInv /\ DeliveredWasReceived /\ [Next]_vars => DeliveredWasReceived'
  BY StepKeepsPromise, DeliveryStep DEF QueueInv, TableInv
<1> QED BY <1>1, <1>2, <1>3, <1>4, PTL DEF Spec
=============================================================================
