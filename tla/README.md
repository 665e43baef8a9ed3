# TLA+ models of CIRISPersist

CIRISPersist is the storage substrate of a CIRIS federation node: one Rust crate
(`src/src`) with a SQLite and a Postgres backend behind service traits, used in
process by an agent, a lens server and an edge. This directory models the parts
whose correctness depends on an *order* of steps: of concurrent callers, of
transactions that are separate although one call makes them, of crashes,
restarts, late reports and clocks.

- [Inventory](#inventory)
- [Plan](#plan)
- [Conventions](#conventions)
- [Outbound queue](#outbound-queue)
- [Ingest journal](#ingest-journal)
- [Maintenance locks](#maintenance-locks)
- [Audit plane](#audit-plane)
- [Community keys](#community-keys)
- [Secrets](#secrets)
- [Read cache](#read-cache)
- [Takedown tombstones](#takedown-tombstones)
- [What is proved](#what-is-proved)
- [What is only model-checked](#what-is-only-model-checked)
- [Disagreements between the code and its
  documents](#disagreements-between-the-code-and-its-documents)
- [What is not modelled](#what-is-not-modelled)

## Inventory

| component | state | operations | what is hard | what makes it correct |
|---|---|---|---|---|
| Edge outbound queue (`outbound/`, `store/{sqlite,postgres}.rs`) | a row per message: status, attempt count, claim, three timestamps of its fate | enqueue, claim, the reports of a transport, ACK match, three sweeps, cancel, replay | workers that die or report late; ACKs that come after a timeout; two rows with one body | a delivered row stays delivered, an ACK row is delivered only when a destination has the body, attempts stay in budget, every row is settled |
| Ingest queue and journal (`queue.rs`, `journal.rs`, `ingest.rs`) | a bounded channel, one persister task, a redb journal with its sequence counter | submit, receive, append, replay, purge, shutdown | a crash between any two awaits, outages, a failed journal transaction | nothing accepted vanishes unaccounted, replay keeps order and keeps an entry until it is stored |
| Maintenance locks (`maintenance_locks/`) | a row per lock key | try-acquire, release | lease expiry against a late release, shared worker ids | leases exclude, a lock is lost only by expiry or by its own release |
| Audit chain, Merkle log, trust grants, archive (`audit/`, `federation/emit.rs`, `retention/`) | a hash chain per tenant, leaves, signed tree heads, a grant projection, archives | record_entry, try_claim_event, grant_trust, revoke, archive_audit_range, verify_chain | the chain commit is one transaction and its hooks are not; probes go stale; the archive removes rows others point at | the live rows stay linked, a head covers its leaves, a receipt proves its entry, nothing the chain took is lost |
| Community DEK epochs (`federation/community_dek.rs`) | an epoch pointer and key state per minter, wraps, blobs bound to an epoch | ensure_epoch_dek, seal, bind, rotate, sweep, destroy | a removal admitted between the roster read and the seal | no content sealed after a removal opens with the removed member's wraps |
| Reverse quorum, quarantine, consent folds (`federation/reverse_quorum.rs`, `quarantine.rs`, `consent*.rs`) | signed rows only; the standing is a read-time fold | raise, object, dismiss, rule, vote | rows that arrive in different orders on different nodes, rosters that change | folds converge; one member protects, a majority undoes |
| Rosters (`federation/self_roster.rs`, `two_path.rs`, `membership_acceptance.rs`, `roster_head.rs`) | members, proposals, votes, windows on a node's clock | propose, answer, land, accept, decline | votes of keys that left, windows against late objections | no key joins or leaves without the path the policy names |
| Tombstones and custody (`federation/takedown_tombstone.rs`, `steward_purge.rs`, `holding_claim.rs`, `custody_ack.rs`) | a tombstone per record, holding claims, dwell windows | take down, reverse, finalize, acknowledge | a reversal racing finalization, replicated notices | bytes are destroyed only after their window, and never served after it |
| Secrets (`secrets/`) | encrypted rows, master keys, an in-process key cache | store, claim, rotate, re-encrypt | first-use race, restart without the cached key | one active key, every row decrypts with a key the node has |
| Read cache (`cache/`) | an LRU with TTL and window buckets | get_or_compute, store, invalidate | a value computed before a write and stored after its invalidation | staleness ends with the TTL |
| Backends (`store/`) | the database | one method per row operation | pools, the SQLite connection mutex | a method's statement or transaction is atomic |
| Agent tables (`tasks/`, `thoughts/`, `tickets/`, `scheduled_tasks/`, `occurrence/`, `sequence/`, ...) | keyed rows | upserts, counters, TTL rows | little: one statement each | - |
| Admission, key plane, replication, accord, fountain, pipeline, FFI, server | - | checks and transformations of one row or one message | little order in them | - |

How they interact: the server's (or the FFI's) submit enters the ingest queue,
whose persister calls the pipeline and the backend; the edge works the outbound
queue through its trait; `engine.rs` composes all services over one backend, so
they share its database but, in the modelled parts, no tables, with one
exception: `grant_trust` records an audit entry, whose hooks write the Merkle log
and the projection, and the retention archive deletes rows of the same chain.
That is why those four are one module. The maintenance locks are taken by the
host's workers around calls into retention and telemetry; persist's own code
checks no lock, so the lock module stands alone.

`PROJECT.json` lists every component with its status, and under `hazards` where in
the code each difficulty bites and which property is about it.

## Plan

Order: durability of what was accepted first (outbound, ingest), then exclusion
(locks), then the integrity of the record (audit), then the planes in which
something must be destroyed or kept from being read (community keys, secrets,
cache, tombstones).

1. Done, each with its proofs: `OutboundQueue`, which implements
   `OutboundPromise`; `IngestJournal`, which implements `IngestPromise`;
   `MaintenanceLock`; `AuditChain`, which implements `TransparencyLog`;
   `CommunityDek`, which implements `EpochKeys`; `SecretsRotation`; `ReadCache`;
   `TakedownTombstone`.
2. Left, in this order: `ReverseQuorum` (rows delivered to two nodes in any order,
   the fold as an operator checked against a reference, convergence); `SelfRoster`
   over `TwoPath`; `MembershipAcceptance`, whose roster `CommunityDek` now takes
   as an input; the holding claims and the rows planes of a steward purge beside
   `TakedownTombstone`.

## Conventions

One module per component; an `MC` module gives it small sets; a `.cfg` is one
question; a `Proofs` module holds the theorems of a component; `OutboundPromise`,
`IngestPromise`, `TransparencyLog` and `EpochKeys` are abstract specifications, each
with no calls, clocks, crashes or races in it, that the component named with them is
shown to implement. Definitions carry
the names of the Rust functions, columns and enum values. A door that is one SQL
statement or one transaction is one step; a call that makes several is split at
every statement boundary where another caller can run. A definition marked
`Fault:` is a wrong variant of the one below it: replacing the latter by it must
violate the property that `PROJECT.json` names, which shows that the property can
fail. Environment steps (workers of other processes, clocks, receivers, crashes)
are marked external. History variables record what a property needs to name an
exception.

## Outbound queue

`OutboundQueue.tla` has the table row by row (`rows`), a clock, and for each
dispatcher worker what it knows of each row it claimed (`hand`), because reports
arrive from that knowledge and not from the table: a worker whose claim has expired
reports all the same. Actions: `enqueue_outbound`, `claim_pending_outbound` (a
batch, in one transaction), `mark_transport_delivered`, `mark_transport_failed`,
`mark_replay_resolved`, `match_ack_to_outbound`, `mark_ack_received`,
`sweep_ack_timeouts`, `sweep_ttl_expired`, `sweep_expired_claims`,
`cancel_outbound`, `replay_abandoned`; external: the transport's outcome, the
receiver, a worker's death, the clock. `received`, `matched`, `replays` and
`reclaims` are history.

`OutboundPromise.tla` is what `send_durable()` is promised, without attempts,
claims or clocks; `KeepsPromise` maps the table to it.

| run | shows | bounds |
|---|---|---|
| `outbound_table` | the schema's CHECKs (`RowChecks`), the attempt budget (`AttemptBudget`: at most one attempt over per reverted claim), delivery only on receipt, the refinement, and that every accepted row is settled in the end | 1 row, 2 workers, 4 ticks, 2 attempts, 1 replay |

Rows interact only through the body an ACK matches and through the batch of a claim;
the run has one row, and what several rows of one body add is covered by the proofs,
which hold for every table. The clock reaches past TTL, ACK timeout, claim and
back-off. Fairness: the clock runs and the host runs `sweep_ttl_expired`
periodically; no worker, receiver or other sweep is assumed to do anything.

## Ingest journal

`IngestJournal.tla` has the producer's side of the channel, the persister task with
its await points as steps (take; the gates up to the Ed25519 lookup; the PQC lookup
with the gates after it and the mint; `trace_events`; `trace_llm_calls`; journal
transaction), the journal on disk and its counter in memory and on disk. The two
lookups are apart because the code classes their failures differently: a failed
Ed25519 lookup is a store error, and the batch is journaled; a failed PQC lookup is
a verification error, and the batch is dropped (`verify_and_mint` at `pqc`). The
history variable `misread` records these, with the outage that did it.
External: crash, a restart after a crash or a clean exit, an outage of the backend, a
journal transaction that fails (`append`, `purge`, or the read that begins a replay,
`replay_read_fails`), a gate that starts to refuse a batch (its key is revoked, its
trace purged). Abstractions: a write that fails has no effect; one submission per
batch; a trace stands for its batch, since the lookups of several traces alternate
and meet an outage in the same two ways; a signer that fails in the scrub is a
refusal; the best-effort feature extraction after the inserts, which affects no row
of a batch, is left out.

`IngestPromise.tla` is what the answer *queued* means to a producer. A batch is
offered, queued, journaled, stored, dropped or lost, and only moves forward: it is
dropped only when the gates refuse it or an outage hits its PQC lookup, which an
outage does to one batch at most, a journaled one leaves the journal only for
the store, and a mishap (a crash, a failed journal transaction) loses only batches
of which nothing is on disk, at most the `queue_depth` in the channel and the one in
hand. `place` maps the channel, the task, the journal and the tables to it.

| run | shows | bounds |
|---|---|---|
| `ingest_journal` | `NothingVanishes`, `CallsRepeatOnlyByMishap` (the LLM-call rows of a batch, which no key dedups, are written again only after a crash or a failed purge), `JournalInOrder`, the refinement (`HonoursQueued`), and `DrainsAndExits`: once the last handle is gone the persister drains and exits | 2 batches, channel of 1, 1 crash, 2 outages, 1 fault; clean restarts are not bounded |

Two batches let one be journaled or in hand while the other fills the channel, and
give the journal an order to keep. A restart may follow a clean exit as well as a
crash, so one crash is enough to interrupt a replay of what an earlier process
journaled and to repeat it. Two outages let one batch be journaled and the other be
misread. `CHECK_DEADLOCK FALSE` because the process really stops.
Fairness: the task is scheduled by tokio and an outage ends.

## Maintenance locks

`MaintenanceLock.tla`: the row of a key, the lease each worker believes it has, the
workers that live, and the database's clock, which only moves forward. Postgres
compares with `NOW()`, the start of the transaction, which is never later than the
statement: the model's clock is the one the comparison uses. Two workers may share
a `locked_by`, which is what the same-holder refresh cannot tell apart.

| run | shows | bounds |
|---|---|---|
| `locks` | leases of workers with ids of their own exclude each other; a row leaves its holder only by expiry or own release; the lock of a dead worker is taken over | 1 key, 4 workers, 2 of one id, timeouts 1 and 2, 6 ticks |

No statement touches two keys, so one key shows what there is to see.

Fairness: the clock runs, and while a lock is available some live worker asks for it.

## Audit plane

`AuditChain.tla` models a call from its probe to its receipt. The commit of
`record_entry` or `try_claim_event` is one transaction, guarded by the gates on
sequence number and `prev_hash`; behind it come the leaf append (one transaction
on SQLite, a count and an insert on Postgres), `tree_size`, `merkle_root`,
`store_sth`, the projection's UPSERT, and for a grant the two reads of the
receipt. Calls interleave at every one of these. `fail` ends a call anywhere with
an error, a death or a dropped future; `resubmit` is a caller that sends a signed
entry again; `archive_audit_range` moves a range of rows into an archive in one
transaction. Hashes are ideal: an `entry_hash` is the entry, a root is the leaf
sequence. `recorded_at` is the order in which entries are built, one clock for all
callers. Two Postgres commits that read one tail end in the UNIQUE violation of
the second, which to its caller is a refusal, so the commit is one step there too.
Bridge entries (a genesis with a foreign `prev_hash`) and grants with an expiry in
the future are not built.

| run | shows | bounds |
|---|---|---|
| `audit_chain` | `LiveLinked`, `AnchorLinks`, `NothingErased`, `ClaimedOnce` | 3 entries, 2 tenants, SQLite with a signer, 2 archives, 1 resubmission |
| `audit_merkle` | `HeadsCoverTheirLeaves`, `SuccessMeansCovered`, `GrantsAreProvable`, the refinement (`LogIsTransparent`), and `CallsReturn`: every call returns | 2 entries, Postgres, 1 failure, 1 archive, 1 resubmission |
| `audit_latest` | a counterexample: an older grant covers a later revocation | 2 entries, SQLite |

Three entries let two archives cut a chain twice with a tail beyond, and let an
entry be built on a tail that is gone when it is resubmitted; two calls let each be
stale against the other in every hook. Deadlock is off because a log in which every
call has ended may stop. Fairness: a call that can go on does.

`TransparencyLog.tla` is what an auditor is promised: a log per tenant that is only
appended to and holds a recorded entry once, heads that are only added, one for a
size, each over a beginning of the log, and receipts that are final and whose head
has the entry under its root. It has no chain, archive or call; `LogIsTransparent`
maps the leaf and head tables and the receipts of the calls to it.

`HeadsCoverTheirLeaves` is weaker than what one would like, and as strong as the
code is: a head's root may cover *more* leaves than its size says, never fewer, and
all roots are prefixes of one log.

## Community keys

`CommunityDek.tla` is `encrypt_and_cascade_community` for one community with this
node as its minter: the epoch counter (`pointer`), a key row per epoch (`dek`), the
wraps per epoch and member (`grants`), the ciphertext rows with the epoch they are
bound to (`blobs`), and each call's locals. A call reads the epoch, resolves the
roster, rotates for a removal or for a recipient that has left, recovers or mints
the key, reads it back, wraps it to the roster, stores and binds; each await is a
step boundary. Beside it run the removal with its bump of the counter, a return of
the member, a change of an allow list, the operator's door on key states, and
`sweep_rotated_epochs` with its disable, evict and destroy phases. A call may die
anywhere; a bind may be refused because the epoch moved on, and the row is then
deleted and the call retried. Abstractions: a member is one recipient device;
resolving the roster is one step; a read whose only use is the bump after it is
part of the bump's step; the sweep's eviction of an epoch's rows is one step, which
works or fails.

| run | shows | bounds |
|---|---|---|
| `community_dek` | `BoundReadable`, `OneKeyPerEpoch`, `PointerUsable`, `NoOrphan`, `RemovalRotatesOut`, `KeyWrittenOnce` | 1 member, 2 calls of 1 attempt, epochs 0 to 2, 1 tick, retention of no past epoch, the operator on epoch 0 |
| `dek_exposure` | a counterexample: a call that resolved the roster before a removal and rotates after it wraps the new key to the removed member | 2 members, 2 calls |

Two calls race for one epoch's mint, and three epochs let each of them and a
removal bump the counter between any two steps of the other. A retry (two attempts
or more), a removal that takes effect in the future and one that arrives late are
not in the runs' bounds; the proofs cover them.

`EpochKeys.tla` is what a community is promised of its keys: an epoch gets one key,
drawn for it alone; every wrap is of that key; content is bound once, to the epoch
that is current and enabled, under its key; and a key is given up only when the epoch
is over and nothing bound to it can be read any more. `KeepsEpochKeys` maps the
tables to it (a wrap of a destroyed epoch, which opens nothing, is not seen there).
It is proved for every instance; TLC finds it to hold within the run's bounds as
well (`PROPERTY KeepsEpochKeys` in `CommunityDek.cfg`), but evaluating the mapping on
each of 14 million steps triples the run's time, so the run itself has
`KeyWrittenOnce`, which is part of it.

Deadlock is off because a node
whose calls are over may stop. No fairness: nothing here is promised to happen.

`RemovalRotatesOut` names its exception by the history variable `own`: the wraps
put by a call that had itself rotated after it resolved the roster. That exception
is what `dek_exposure` shows.

## Secrets

`SecretsRotation.tla` is one process with its software-key cache, the master-key
table and the rows. A store reads the active key, seals, and inserts later;
`rotate_master_key` caches bytes before its transaction and loses the race of a
first use inside it; `migrate_to_hardware_key` and `reencrypt_all` take a snapshot
of the rows, move them chunk by chunk by an UPDATE that looks only at the uuid, and
flip the active key when no row failed. `restart` ends the calls under way and
empties the cache of the process.

| run | shows | bounds |
|---|---|---|
| `secrets_rotation` | `OneActive`, `RecordedKeysLoaded`, `ForgottenStaysGone`, `OnlyOverlapStrands`, `ReadableStaysReadable` | 2 secrets, 2 software and 2 hardware keys, 2 passes, chunks of 1 row, 2 restarts |

Two passes let each be stale against the other at every chunk, two secrets let one
be behind and one ahead of a chunk, two software keys let first uses race. Deadlock
is off: a process with nothing to do may stop.

A commit that fails is taken to have rolled back: `RecordedKeysLoaded` does not cover
a commit that took effect and whose answer was lost.

`OnlyOverlapStrands` names its exception (`overlap`): a row sealed under the old
key and inserted while a pass runs is not in its snapshot, and stays under a
retired key although the pass returns Ok.

## Read cache

`ReadCache.tla` is the LRU with its byte count, entry bound, byte bound and TTL, as
the repository statistics use it. A reader looks up, queries the traces without the
lock on a miss and stores; a trace is ingested without touching the cache, and
purged with one `invalidate_write` per hour bucket of its rollup groups after its
delete committed. The rollup has no self or family events, while the statistics
count those the caller may see: `Seen` gives, of each key and trace, the buckets a
query of the key counts, `Rolled` the buckets the purge evicts. A
value is the set of traces it counted, an instant is an age that stops at the TTL,
so the state is finite without a bound on time.

| run | shows | bounds |
|---|---|---|
| `read_cache` | `WithinBounds`, `PurgedOnlyLate`, `PurgedLeaves` | 3 windows, a shared trace in 2 buckets, a trace of scope self in 1, 2 readers (one stamps the lookup, one the store), 2 entries, 3 bytes, values of 1, 3 and 4 bytes, TTL of 2 |

The sizes hold a value that fits beside another, one that fills the cache and one
that never fits. One window holds the first bucket of the shared trace, one its
second and more, and one only the bucket of the self trace, which its owner sees.
Fairness: only that time passes.

`PurgedOnlyLate` names its exceptions: a value queried before the purge and stored
after the eviction of its window (`late`), and a value that counts only self and
family events of the trace (`Unrolled`), which the eviction passes by. What remains
is that every other entry resident at the purge goes. `PurgedLeaves` has no
exception: the TTL ends both.

## Takedown tombstones

`TakedownTombstone.tla` is the bytes plane of one node: `federation_blobs`, the
manifests' chunk rows, the notices' headers (`headers`) and tombstones (`tombs`),
the rulings in force (`reversals`), the purge clock, and the calls between two of
their statements. A write door pre-reads the tombstones, then re-checks them inside
the transaction that inserts. `execute_notice` records a notice (header and
tombstones are one transaction) and, for an immediate basis, goes on to finalize;
`finalize_begin` to `purge_mark_finalized` are `purge_finalize`: it reads clock and
reversal once, evicts each record, and for a manifest judges each of its chunks
(`judge_chunk`) and deletes it in a later statement (`evict_chunk`). `call_fails`
ends a call anywhere; the same notice is then run again, which finds its header and
resumes also when the notice has expired meanwhile. The clock and the authority
check are read in the step of the record transaction.

| run | shows | bounds |
|---|---|---|
| `takedown_tombstone` | `FinalizedBytesGone`, `OrphanChunksGone`, `DestroyedAfterWindow`, `ReceiptDestroys` | 2 manifests that share a chunk, an immediate takedown of one, a steward purge of both, 2 hosts, 1 door, 1 tick, dwell 1, 1 failure |
| `takedown_live_dag` | a counterexample: the takedown of one manifest deletes the chunk of another that serves again after a reversal | 1 host, no failure |

Two manifests over one chunk are the least in which a chunk outlives a manifest; two
hosts let two finalizes walk at once; an expiry of 1 lets a call fail before it and
be resumed after it. Deadlock is off: a node without a notice may stop. Fairness: a
host's call that can go on does, and a takedown that ended halfway is run again
(the replication or the host re-delivers the notice, and `already_recorded`
resumes it).

Three history variables name the exceptions: `lifted` (notices somebody read as
reversed: their bytes may be back), `late` (a chunk put without its manifests after
all those that link it were taken down; a chunk that no manifest links yet is not
late) and `raced` (a manifest linked, or a notice recorded, between
the verdict on a chunk and its delete).

## What is proved

All theorems hold for every value of the constants that satisfies the modules'
`ASSUME`s: counts, times and bounds are natural numbers, NULLs are not values,
timeouts, TTL and chunk size are positive, the set of entries is finite, software
and hardware key names differ, manifests and chunks are disjoint. The type
invariants (`TypeOK` of every module) and `ClaimShape` (a claim exists exactly while
a row is `sending`) are proved for every instance, so the runs do not repeat them.
The bound of the ingest channel is part of its `TypeOK`.

- `OutboundQueueProofs`. The inductive invariant is `TableInv`: the types and
  `GoodRow` of every row. `GoodRow` ties the status to the timestamps, the claim and
  the attempt budget in one conjunction, because each of `RowChecks`, `ClaimShape`
  and `AttemptBudget` needs the others to be preserved by the next door. One lemma
  per UPDATE shows that it keeps a row good, two frame lemmas lift that to the
  table, `TableStep` goes through the doors. For the refinement `AckInv` adds that
  what a worker or an ACK reports was received by a destination with that body;
  `StepKeepsPromise` shows each door to be an abstract step or a stutter.
  `DeliveryIsReal` follows from the refinement.
- `MaintenanceLockProofs`. Exclusion is not inductive: nothing in it speaks of the
  row. `RowRecordsLease` says that a live lease of a worker with an id of its own is
  the one the row records; two leases on one row are then one.
- `IngestJournalProofs`. `NothingVanishes` needs to know of the job in hand how far
  the store is (`JobInv`: at `ok` both tables have the batch), of the journal that a
  number it gives out is on no entry (`SeqInv`: the counter on disk is above every
  entry and never ahead of the one in memory), and `ReplayKeepsEntry`.
  `JournalInOrder` needs the order of arrival from the journal over the job to the
  channel (`OrderInv`). `PipelineMoves` says once what the three stages of
  `receive_and_persist` do to a job. For the refinement `PlaceInv` adds that no
  batch is accepted twice, that what is stored was accepted and that a dropped batch
  is nowhere else, and `MisreadInv` that the current outage has made the gates refuse
  one batch at most (the job in hand must have passed its first lookup while the
  backend was up); with the order of arrival a batch is then in one place at a time
  (`OnePlace`). `PlaceStep` carries it through the steps and `StepHonours` maps each
  step to its abstract one. `CallsRepeatOnlyByMishap` rests on `CallsInv`: what may
  still be stored without a further mishap (`Pending`) has used up none of the
  repetitions.
- `AuditChainProofs`. For the chain, every step is a `ChainStep` (rows leave, or one
  row that passes the gates enters), and the gates keep the rows linked since the
  tail is the unique maximum. `AnchorLinks` needs in addition that time and number
  agree along the live chain (`InTime`), because an archive takes a range of time
  and its anchor is the last row by number; that holds because an entry is stamped
  after the entry it is built on (`BuiltInv`), also when it is resubmitted after an
  archive. It rests on the one clock of the model: callers on hosts whose clocks
  disagree can stamp an entry before its predecessor. For the Merkle log,
  `MerkleInv` says of each call what it has secured at its place (`CallInv`), of
  each head what it covers (`HeadInv`) and of each projection row what it was made
  from (`GrantInv`); all three survive other calls' steps because the log only grows
  (`Grows`). The delicate step is `store_sth` when its size is taken already: the
  head that is there covers the call's leaf as well, because a size counts every
  leaf below it. For the refinement `LogInv` adds that a leaf is of its own tenant and
  was recorded, that a call past its commit has a recorded entry and that the head it
  carries to its receipt is a stored one; `StepTransparent` maps each step of a call
  to an append, a publication, a receipt or nothing.
- `CommunityDekProofs`. None of the properties is inductive. `PointerInv`: epochs
  ahead of the counter are untouched, an epoch never minted has no wraps. `CallInv`:
  what a call knows at each await, above all that a call which has not rotated since
  it resolved the roster works on an epoch older than any later removal's. `KeyInv`:
  everybody who holds the key of an epoch (row, wraps, calls about to wrap or bind)
  holds the same one, also after a destroy has emptied the row. `RowInv`: the row an
  attempt will store is untouched before. `KeyWrittenOnce` is an action property
  that follows from the mint's guard and `CallInv`. For the refinement of `EpochKeys`
  three facts are missing from that: the key an attempt has yet to draw is nowhere
  (`FreshInv`; keys pass only from a row to a call and from a call to its ciphertext),
  the sweep works on epochs that are over whatever bumps overtake it (`SweepInv`), and
  an evicted row keeps no key (`EvictedInv`). A wrap put after a destroy maps to
  nothing, which is what makes that disorder harmless.
- `SecretsRotationProofs`. `RefInv`: what rows, stores and passes refer to is on
  record, so a rotation that rolls back never drops bytes in use, and a pass holds
  its target's bytes. `StoreInv`: a secret is inserted once, so a forgotten one does
  not come back from a store. `PassInv`: a pass that has not failed has every row
  under another key still ahead of it, unless the row was written beside it; that is
  what makes the final flip safe.
- `ReadCacheProofs`. `CacheInv` covers `PurgedOnlyLate` from the purge on: an entry
  that counts a deleted trace was stored late, or a bucket of its window is still to
  be evicted, or none ever was to be. That holds at the purge because an entry counts
  only traces with a bucket in its window (`CountInv`), so it rests on the overlap
  test; with a test on the window's last bucket it fails.
  `WithinBounds` counts bytes as a set: `Units` has
  one element for each byte of each resident entry, so that the sum over the entries
  is a cardinality and no induction over data is needed. An eviction drops the least
  recently used entries until the rest fits; `OrderInv` (the recency order is total
  on the resident keys) makes the sets it can stop at a chain, so that it stops at one
  that fits, and `BoundInv` adds that everything counted is finite.
- `TakedownTombstoneProofs`. `TombstoneInv`: a header has exactly its tombstones; a
  door's list holds only notices that were read as reversed; a finalize has only
  such bytes behind it (`BehindGone`), its window is over and the verdict on a
  condemned chunk stays true but for what is in `raced` (`WindowOver`). For shared
  chunks `ChunkInv` adds `OrphanInv`, which says who will take a chunk: of all the
  notices on its manifests, one that settles last still has it ahead. That a last
  one exists is the well-foundedness of < on the naturals (`LeastNumber`).

Action properties are proved like invariants, step by step:
`LostOnlyByExpiryOrRelease`, `KeyWrittenOnce`, `ReadableStaysReadable`,
`DestroyedAfterWindow`; so are the refinements `KeepsPromise`, `HonoursQueued`,
`LogIsTransparent` and `KeepsEpochKeys`. `ReplayIsRepeatable` (an entry stays in the
journal until it is stored) and `ReceiptsProve` (a receipt's head covers its entry)
are proved beside the refinements that contain them.

## What is only model-checked

Liveness is out of the prover's reach and stays with TLC: `EventuallySettled`,
`DrainsAndExits`, `Reclaimed`, `CallsReturn`, `PurgedLeaves`, `ReceiptDestroys`. Every
invariant, action property and refinement of a passing run is proved for every value
of the constants. The three disagreements below are counterexamples, which one
instance settles.

## Disagreements between the code and its documents

Three are kept as runs whose property states what a document or a comment says and
whose counterexample is what the code does; `PROJECT.json` quotes the line each one
contradicts.

- `audit_latest`: an older grant can cover a later revocation.
- `dek_exposure`: content bound after a removal can open for the removed member.
- `takedown_live_dag`: a chunk of a manifest that serves again is deleted with the
  takedown of another.

Others were met while modelling, follow from the models as they stand and are not
kept as runs:

- Outbound: a late failure report sets the row pending and clears the claim of the
  worker that has it by then (`store/sqlite.rs:13707`; `outbound/types.rs:218`:
  "Earliest time another dispatcher worker may re-claim this row").
  An expired claim reverts without a look at the budget, so `max_attempts`
  ("Maximum attempts before abandon", `outbound/types.rs`) is not the maximum;
  `AttemptBudget` says by how much it is exceeded. A replayed row keeps its
  `enqueued_at` and can be abandoned by the TTL sweep before any attempt. The V007
  comment and the trait's doc count an attempt on failure, the code on claim. The
  Postgres `sweep_ack_timeouts` returns the row count of a SELECT.
- Ingest: an outage between the two key lookups of one verification drops an accepted
  batch and journals nothing, because a failed PQC lookup is classed as a
  verification error (`ingest.rs:1579-1586`, dropped at `queue.rs:358-363`;
  `queue.rs:346-348`: "outage tolerance is non-negotiable"); `HonoursQueued` bounds
  it to one batch per outage. A replay interrupted before its purge stores the LLM calls of a batch
  again, since their table has no key to conflict on (`store/sqlite.rs:1475`;
  `FSD/CIRIS_PERSIST.md:133` calls the replay "trivially safe"). What is in the
  channel does not survive a crash (`docs/SECURITY_AUDIT_v0.1.2.md` says it is
  replayed from the journal; the `lost` disjunct of `NothingVanishes` is exactly
  this). Nothing is rescheduled before a restart (`FSD/CIRIS_PERSIST.md` 3.4 says
  the persister reschedules). An entry that the gates have come to refuse halts
  every replay at itself. The timed shutdown drops the task's handle, which detaches
  the task and aborts nothing.
- Locks: no fencing token, so a pass that overruns its lease runs beside its
  successor; at the deadline itself the lock is still held, while `mod.rs` says
  `now >= locked_at + timeout`.
- Audit: a tenant whose whole chain is archived starts again at the first number
  (`audit/sqlite.rs:404`; `retention/mod.rs:42`: "Either way the chain stays
  cryptographically intact"). A head pairs size n with a root of n + 1 leaves when
  another append falls between its two reads (`audit/sqlite.rs:132`;
  `FSD/FEDERATION_TRUST_INTERFACE.md:524` says that record, leaf and head are
  atomic). `verify_chain` does not walk into an archive and reports a gap when live
  rows remain on both sides of one; a row refreshed by a concurrent re-issuance is
  reported as a missing projection; a leaf lost to a failed hook is never recomputed
  (`audit/mod.rs` names a backfill that does something else).
- Community keys: an epoch that is destroyed while a call is wrapping may get a wrap
  after it (`store/sqlite.rs:9487`; invariant I5 of `FSD/BLOB_ENCRYPTION_AT_REST.md`
  says a destroyed epoch has none); the bind then fails, so no content is under it.
- Secrets: a row inserted beside a migration is left under the retired key although
  the migration returns Ok (`secrets/sqlite.rs:1516`). After a restart a secret
  opens only once its key is loaded again, since the readers ask only the cache
  (`secrets/sqlite.rs:497`, `584`), and an active software key then blocks stores.
  Re-encrypting to one and then to the other of two staged keys leaves no active key,
  since the first flip retires the second key. A failed
  rotation on SQLite leaves its bytes in the cache; Postgres drops them, also when the
  error of the commit leaves open whether it took effect (`secrets/postgres.rs:1091`).
- Read cache: a read that overlaps a purge stores the purged trace after the
  eviction and may overwrite a fresher entry (`cache/mod.rs:234`: "both computed
  fresh"); the TTL, counted from the store, ends it. A value over the
  byte bound empties the cache before it is dropped. Ingest evicts nothing. The purge
  of a trace with self or family events does not evict their buckets
  (`store/sqlite.rs:3424`), so a resident value goes on serving it to its owner until
  the TTL (`store/sqlite.rs:3480`: "evict every window holding one of its buckets").
- Tombstones: a ruling that lands after a finalize has read that there was none does
  not stop it. A finalize that skipped reversed bytes marks its notice finalized, so
  bytes whose ruling lapses later are withheld for ever and never destroyed. A
  manifest linked between the verdict on its chunk and the delete loses the chunk.
  A chunk put alone after its manifests were taken down is judged by the pre-read
  only (`steward_purge.rs` documents that scope).

## What is not modelled

The crate is some 670 000 lines with its tests; most of it is the SQL of each row
type twice, admission checks of one signed row at a time, bindings and tests. The
modules stand for the protocols in it: what several calls do to the same rows.

Cryptography, canonical bytes, schema validation and scoring: they are functions of
one message. The folds over consent, key, roster and governance rows: they are
re-evaluated at every read over rows that only accumulate, so their question is
whether two orders of the same rows agree, which is the next module of the plan. Of
the tombstones: the trace and attestation planes (their doors check the tombstone
before the insert, with no second look inside the transaction), holding claims,
evictions for space, manifests of manifests, erasures. Of the community keys: a
re-key's second bump, stream chunks. Of the secrets: the dedup of claims by content.
Of the cache: `AdmissionCache`, which no production code calls. Replication
transport: another repository. Read-only queries. The tables of the agent whose
operations are one statement without a protocol between them. `PROJECT.json` gives
the reason for each.
