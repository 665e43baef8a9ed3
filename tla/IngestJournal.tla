--------------------------- MODULE IngestJournal ---------------------------
(***************************************************************************)
(* The bounded ingest queue and its outage journal: the producer handle and *)
(* the single persister task of src/queue.rs, the redb journal of           *)
(* src/journal.rs, and the writes of IngestPipeline::receive_and_persist    *)
(* (src/ingest.rs).                                                         *)
(*                                                                          *)
(* The persister's await points are steps of their own, since a crash, an   *)
(* outage or a producer may come between them: taking a job or a journal    *)
(* entry, the two key lookups of the verification, the trace_events and the *)
(* trace_llm_calls transactions, and the journal transaction.               *)
(***************************************************************************)
EXTENDS Naturals, Sequences, FiniteSets

CONSTANTS
    Batches,        \* the batches agents submit, once each
    NoBatch,        \* no batch in the persister's hands
    QueueDepth,     \* queue_depth of the channel
    MaxCrashes,     \* bound on process crashes
    MaxOutages,     \* bound on backend outages
    MaxFaults       \* bound on journal transactions that fail

ASSUME JournalAssumption ==
    /\ NoBatch \notin Batches
    /\ QueueDepth \in Nat \ {0}
    /\ MaxCrashes \in Nat
    /\ MaxOutages \in Nat
    /\ MaxFaults \in Nat

VARIABLES
    proc,       \* the persister: stopped, replay, loop or exited
    job,        \* the batch the persister works on, and how far it is
    channel,    \* the mpsc channel
    senders,    \* whether an IngestHandle is alive
    gave_up,    \* shutdown_with_timeout has timed out
    journal,    \* queued_batches, on disk
    meta_next,  \* META next_seq, on disk
    next_seq,   \* Journal::next_seq, in memory
    up,         \* whether the backend takes writes
    refused,    \* batches the gates of the pipeline refuse
    misread,    \* accepted batches an outage made a gate refuse, and which outage
    minted,     \* batches whose trace attestations are minted
    events,     \* batches whose trace_events rows are stored
    llm,        \* how many times a batch's trace_llm_calls rows are stored
    accepted,   \* batches a producer was told are queued, in that order
    dropped,    \* accepted batches dropped as non-retriable
    lost,       \* accepted batches lost to a crash or a failed append
    crashes, outages, faults

pvars == <<proc, job, channel, senders, gave_up>>
jvars == <<journal, meta_next, next_seq>>
dvars == <<minted, events, llm>>
hvars == <<accepted, dropped, lost, misread>>
evars == <<up, refused, crashes, outages, faults>>
vars  == <<pvars, jvars, dvars, hvars, evars>>

-----------------------------------------------------------------------------
Entry == [seq : Nat, batch : Batches]

\* A job comes from the channel or from the journal, and is at the gates (up to
\* the Ed25519 lookup, or from the PQC lookup on), at one of the two writes, or
\* has an outcome the persister must act on.
Job == [from  : {"none", "channel", "journal"},
        batch : Batches \cup {NoBatch},
        seq   : Nat,
        at    : {"gates", "pqc", "events", "llm", "ok", "store_error", "rejected"}]

Misreading == [outage : Nat, batch : Batches]

Idle == [from |-> "none", batch |-> NoBatch, seq |-> 0, at |-> "gates"]

Range(s)  == {s[i] : i \in DOMAIN s}
Running   == proc \in {"replay", "loop"}
Journaled == {e.batch : e \in journal}
Stored(b) == b \in events /\ llm[b] > 0

TypeOK ==
    /\ proc \in {"stopped", "replay", "loop", "exited"}
    /\ job \in Job
    /\ channel \in Seq(Batches) /\ Len(channel) <= QueueDepth
    /\ senders \in BOOLEAN /\ gave_up \in BOOLEAN
    /\ journal \subseteq Entry
    /\ meta_next \in Nat /\ next_seq \in Nat
    /\ minted \subseteq Batches /\ events \subseteq Batches
    /\ llm \in [Batches -> Nat]
    /\ accepted \in Seq(Batches)
    /\ dropped \subseteq Batches /\ lost \subseteq Batches /\ misread \subseteq Misreading
    /\ up \in BOOLEAN /\ refused \subseteq Batches
    /\ crashes \in Nat /\ outages \in Nat /\ faults \in Nat

\* A new deployment: an empty journal and a persister that is about to replay.
Init ==
    /\ proc = "replay" /\ job = Idle
    /\ channel = <<>> /\ senders = TRUE /\ gave_up = FALSE
    /\ journal = {} /\ meta_next = 1 /\ next_seq = 1
    /\ minted = {} /\ events = {} /\ llm = [b \in Batches |-> 0]
    /\ accepted = <<>> /\ dropped = {} /\ lost = {} /\ misread = {}
    /\ up = TRUE /\ refused \in SUBSET Batches
    /\ crashes = 0 /\ outages = 0 /\ faults = 0

-----------------------------------------------------------------------------
(* Producers.  try_submit, its sidecar variant and submit_with_timeout put  *)
(* a job in a channel with room; a full or closed channel changes nothing   *)
(* and the agent retries.  The channel accepts while the replay still runs. *)

try_submit(b) ==
    /\ senders /\ Running
    /\ b \notin Range(accepted)
    /\ Len(channel) < QueueDepth
    /\ channel' = Append(channel, b)
    /\ accepted' = Append(accepted, b)
    /\ UNCHANGED <<proc, job, senders, gave_up, jvars, dvars, dropped, lost, misread, evars>>

\* External: the host drops the last IngestHandle, the start of a shutdown.
drop_handles ==
    /\ senders /\ Running
    /\ senders' = FALSE
    /\ UNCHANGED <<proc, job, channel, gave_up, jvars, dvars, hvars, evars>>

\* The deadline of shutdown_with_timeout passes: the JoinHandle is dropped
\* and the caller returns, while the task goes on.
shutdown_with_timeout ==
    /\ ~senders /\ Running /\ ~gave_up
    /\ gave_up' = TRUE
    /\ UNCHANGED <<proc, job, channel, senders, jvars, dvars, hvars, evars>>

-----------------------------------------------------------------------------
(* Journal transactions.  A failed one leaves the disk as it was; append    *)
(* has already taken its sequence number from the counter in memory.        *)

journal_fault ==
    /\ faults < MaxFaults
    /\ faults' = faults + 1
    /\ UNCHANGED <<journal, meta_next>>

insert_entry(b) ==
    /\ journal' = {e \in journal : e.seq # next_seq} \cup {[seq |-> next_seq, batch |-> b]}
    /\ meta_next' = next_seq + 1
    /\ UNCHANGED faults

\* Fault: the entry outlives its purge.
remove_nothing(seq) == UNCHANGED <<journal, meta_next, faults>>

remove_entry(seq) ==
    /\ journal' = {e \in journal : e.seq # seq}
    /\ UNCHANGED <<meta_next, faults>>

-----------------------------------------------------------------------------
(* The persister: replay first, then the main loop.                         *)

Start(from, b, seq) ==
    job' = [from |-> from, batch |-> b, seq |-> seq, at |-> "gates"]

\* Fault: the entry is purged as it is taken.
replay_first_purges ==
    /\ proc = "replay" /\ job = Idle
    /\ \E e \in journal :
         /\ \A f \in journal : e.seq <= f.seq
         /\ Start("journal", e.batch, e.seq)
         /\ journal' = journal \ {e}
    /\ UNCHANGED <<proc, channel, senders, gave_up, meta_next, next_seq, dvars, hvars, evars>>

\* The first entry by sequence number, read again after every purge.
replay_first ==
    /\ proc = "replay" /\ job = Idle
    /\ \E e \in journal :
         /\ \A f \in journal : e.seq <= f.seq
         /\ Start("journal", e.batch, e.seq)
    /\ UNCHANGED <<proc, channel, senders, gave_up, jvars, dvars, hvars, evars>>

\* A read of the journal fails and ends the replay; the entries stay.
replay_read_fails ==
    /\ proc = "replay" /\ job = Idle
    /\ journal_fault
    /\ proc' = "loop"
    /\ UNCHANGED <<job, channel, senders, gave_up, next_seq, dvars, hvars,
                   up, refused, crashes, outages>>

\* The journal is drained and the main loop begins.
replay_done ==
    /\ proc = "replay" /\ job = Idle
    /\ journal = {}
    /\ proc' = "loop"
    /\ UNCHANGED <<job, channel, senders, gave_up, jvars, dvars, hvars, evars>>

recv ==
    /\ proc = "loop" /\ job = Idle
    /\ channel # <<>>
    /\ Start("channel", Head(channel), 0)
    /\ channel' = Tail(channel)
    /\ UNCHANGED <<proc, senders, gave_up, jvars, dvars, hvars, evars>>

\* Fault: the task ends with the senders, not with the queue.
exit_at_close ==
    /\ proc = "loop" /\ job = Idle
    /\ ~senders
    /\ proc' = "exited"
    /\ UNCHANGED <<job, channel, senders, gave_up, jvars, dvars, hvars, evars>>

\* The channel is closed and empty: rx.recv() is None.
exit ==
    /\ proc = "loop" /\ job = Idle
    /\ ~senders /\ channel = <<>>
    /\ proc' = "exited"
    /\ UNCHANGED <<job, channel, senders, gave_up, jvars, dvars, hvars, evars>>

-----------------------------------------------------------------------------
(* receive_and_persist, one step per await point an outage can tell apart.  *)

At(stage) == Running /\ job # Idle /\ job.at = stage

\* The gates before the first read refuse or pass; a failed Ed25519 lookup is a
\* store error.
lookup_public_key ==
    /\ At("gates")
    /\ \/ ~up /\ job' = [job EXCEPT !.at = "store_error"]
       \/ job.batch \in refused /\ job' = [job EXCEPT !.at = "rejected"]
       \/ up /\ job.batch \notin refused /\ job' = [job EXCEPT !.at = "pqc"]
    /\ UNCHANGED <<proc, channel, senders, gave_up, jvars, dvars, hvars, evars>>

\* A failed PQC lookup is a verification error, not a store error.  After it,
\* signatures, purge tombstones, scrub (a signer that fails included) and scope
\* refuse or pass; their failed reads are store errors, like those of the write
\* that follows.  Then the attestation mint, which is idempotent and whose
\* failure only skips it.
verify_and_mint ==
    /\ At("pqc")
    /\ \/ /\ ~up
          /\ job' = [job EXCEPT !.at = "rejected"]
          /\ misread' = IF job.from = "channel"
                        THEN misread \cup {[outage |-> outages, batch |-> job.batch]}
                        ELSE misread
          /\ UNCHANGED minted
       \/ /\ job.batch \in refused
          /\ job' = [job EXCEPT !.at = "rejected"]
          /\ UNCHANGED <<minted, misread>>
       \/ /\ up /\ job.batch \notin refused
          /\ job' = [job EXCEPT !.at = "events"]
          /\ minted' \in {minted, minted \cup {job.batch}}
          /\ UNCHANGED misread
    /\ UNCHANGED <<proc, channel, senders, gave_up, jvars, events, llm,
                   accepted, dropped, lost, evars>>

\* ON CONFLICT DO NOTHING on the dedup key.
insert_trace_events_batch ==
    /\ At("events")
    /\ events' = IF up THEN events \cup {job.batch} ELSE events
    /\ job' = [job EXCEPT !.at = IF up THEN "llm" ELSE "store_error"]
    /\ UNCHANGED <<proc, channel, senders, gave_up, jvars, minted, llm, hvars, evars>>

\* A plain INSERT: the table has no key but call_id.
insert_trace_llm_calls_batch ==
    /\ At("llm")
    /\ llm' = IF up THEN [llm EXCEPT ![job.batch] = @ + 1] ELSE llm
    /\ job' = [job EXCEPT !.at = IF up THEN "ok" ELSE "store_error"]
    /\ UNCHANGED <<proc, channel, senders, gave_up, jvars, minted, events, hvars, evars>>

-----------------------------------------------------------------------------
(* What the persister does with the outcome.                                *)

\* The main loop: done, or dropped as non-retriable.
loop_settle ==
    /\ proc = "loop" /\ job.from = "channel"
    /\ job.at \in {"ok", "rejected"}
    /\ job' = Idle
    /\ dropped' = IF job.at = "rejected" THEN dropped \cup {job.batch} ELSE dropped
    /\ UNCHANGED <<proc, channel, senders, gave_up, jvars, dvars, accepted, lost, misread, evars>>

\* Fault: a store error is treated like any other.
loop_append_never ==
    /\ proc = "loop" /\ job.from = "channel" /\ job.at = "store_error"
    /\ job' = Idle
    /\ UNCHANGED <<proc, channel, senders, gave_up, jvars, dvars, hvars, evars>>

\* A store error: append to the journal; the batch is lost if that fails.
append ==
    /\ proc = "loop" /\ job.from = "channel" /\ job.at = "store_error"
    /\ job' = Idle
    /\ next_seq' = next_seq + 1
    /\ \/ insert_entry(job.batch) /\ UNCHANGED lost
       \/ journal_fault /\ lost' = lost \cup {job.batch}
    /\ UNCHANGED <<proc, channel, senders, gave_up, dvars, accepted, dropped, misread,
                   up, refused, crashes, outages>>

\* A failed purge ends the replay as a handler error does.
purge ==
    /\ proc = "replay" /\ job.from = "journal" /\ job.at = "ok"
    /\ job' = Idle
    /\ \/ remove_entry(job.seq) /\ UNCHANGED proc
       \/ journal_fault /\ proc' = "loop"
    /\ UNCHANGED <<channel, senders, gave_up, next_seq, dvars, hvars,
                   up, refused, crashes, outages>>

\* Fault: the entry that halts the replay moves to the back of the journal.
replay_halt_requeues ==
    /\ proc = "replay" /\ job.from = "journal"
    /\ job.at \in {"store_error", "rejected"}
    /\ job' = Idle
    /\ proc' = "loop"
    /\ journal' = {e \in journal : e.seq # job.seq}
                    \cup {[seq |-> next_seq, batch |-> job.batch]}
    /\ meta_next' = next_seq + 1 /\ next_seq' = next_seq + 1
    /\ UNCHANGED <<channel, senders, gave_up, dvars, hvars, evars>>

\* Any error of the pipeline ends the replay; the entries stay.
replay_halt ==
    /\ proc = "replay" /\ job.from = "journal"
    /\ job.at \in {"store_error", "rejected"}
    /\ job' = Idle
    /\ proc' = "loop"
    /\ UNCHANGED <<channel, senders, gave_up, jvars, dvars, hvars, evars>>

-----------------------------------------------------------------------------
(* The process and its surroundings.                                        *)

\* External: the process dies; the channel and the job in hand are gone,
\* what is on disk stays.
crash ==
    /\ Running /\ crashes < MaxCrashes
    /\ crashes' = crashes + 1
    /\ proc' = "stopped" /\ job' = Idle /\ channel' = <<>>
    /\ lost' = lost \cup Range(channel)
                    \cup {b \in Batches : /\ job.from = "channel" /\ job.batch = b
                                          /\ ~Stored(b)}
    /\ UNCHANGED <<senders, gave_up, jvars, dvars, accepted, dropped, misread,
                   up, refused, outages, faults>>

\* Journal::open reads next_seq back.
open == next_seq' = meta_next

\* A new process, after a crash or a clean exit: Journal::open, then
\* spawn_persister.
spawn_persister ==
    /\ proc \in {"stopped", "exited"}
    /\ open
    /\ proc' = "replay" /\ senders' = TRUE /\ gave_up' = FALSE
    /\ UNCHANGED <<job, channel, journal, meta_next, dvars, hvars, evars>>

\* External: the backend goes away and comes back.
outage ==
    /\ up /\ outages < MaxOutages
    /\ up' = FALSE /\ outages' = outages + 1
    /\ UNCHANGED <<pvars, jvars, dvars, hvars, refused, crashes, faults>>

recover ==
    /\ ~up
    /\ up' = TRUE
    /\ UNCHANGED <<pvars, jvars, dvars, hvars, refused, crashes, outages, faults>>

\* External: a key is revoked or a trace purged, and the gates refuse what
\* they took before.
refuse(b) ==
    /\ b \notin refused
    /\ refused' = refused \cup {b}
    /\ UNCHANGED <<pvars, jvars, dvars, hvars, up, crashes, outages, faults>>

-----------------------------------------------------------------------------
PersisterStep ==
    \/ replay_first \/ replay_read_fails \/ replay_done \/ replay_halt \/ purge
    \/ recv \/ exit \/ loop_settle \/ append
    \/ lookup_public_key \/ verify_and_mint
    \/ insert_trace_events_batch \/ insert_trace_llm_calls_batch

Next ==
    \/ \E b \in Batches : try_submit(b) \/ refuse(b)
    \/ drop_handles \/ shutdown_with_timeout
    \/ PersisterStep
    \/ crash \/ spawn_persister
    \/ outage \/ recover

Spec == Init /\ [][Next]_vars

\* The runtime keeps polling the task, and an outage ends.
FairSpec == Spec /\ WF_vars(PersisterStep) /\ WF_vars(recover)

-----------------------------------------------------------------------------
(* What the runs establish.                                                 *)

\* Why a batch may be dropped: the gates refuse it, or an outage made them.
Excused(b) == b \in refused \/ \E m \in misread : m.batch = b

\* Where an accepted batch can be: queued, in the persister's hands, journaled,
\* stored whole, dropped because the gates refuse it, dropped because an outage
\* between the two key lookups made them refuse it, or lost in one of the two
\* ways the code concedes (the process died before it was journaled, or the
\* append itself failed).
Accounted(b) ==
    \/ b \in Range(channel)
    \/ job.batch = b
    \/ b \in Journaled
    \/ Stored(b)
    \/ b \in dropped /\ Excused(b)
    \/ b \in lost /\ crashes + faults > 0

\* Nothing a producer was told is queued vanishes: try_submit's "queued" stands
\* through halted replays, half-stored batches, restarts and outages, but for the
\* batch whose PQC lookup an outage hits.
NothingVanishes == \A b \in Range(accepted) : Accounted(b)

\* The trace_llm_calls rows of a batch, which no key protects, are written again
\* only after a crash or a failed purge kept the entry of a batch that was
\* stored: each of these repeats them at most once.
CallsRepeatOnlyByMishap == \A b \in Batches : llm[b] <= 1 + crashes + faults

\* The journal keeps the order of arrival across outages, halted replays,
\* failed appends and restarts: sequence numbers are never reused and grow
\* with the order in which producers were told "queued".
JournalInOrder ==
    \A e, f \in journal : e.seq < f.seq =>
        \E i, j \in DOMAIN accepted : i < j /\ accepted[i] = e.batch /\ accepted[j] = f.batch

\* The entry being replayed stays on disk until its batch is stored, so a
\* crash in the middle of the replay repeats it and loses nothing.
ReplayKeepsEntry ==
    job.from = "journal" => [seq |-> job.seq, batch |-> job.batch] \in journal

\* Where the promise sees a batch: what is on disk first, then what the task
\* and the channel hold, and lost when it is nowhere.
Held(b) == b \in Range(channel) \/ job.batch = b

place(b) ==
    IF b \notin Range(accepted) THEN "offered"
    ELSE IF Stored(b) THEN "stored"
    ELSE IF b \in Journaled THEN "journaled"
    ELSE IF Held(b) THEN "queued"
    ELSE IF b \in dropped THEN "dropped" ELSE "lost"

abstract_state == [b \in Batches |-> place(b)]

Promise == INSTANCE IngestPromise WITH state <- abstract_state, mishaps <- crashes + faults

\* The queue keeps what try_submit's "queued" promises: every step of the
\* producers, the persister, the journal and the process is a step of the
\* promise, or changes nothing it sees.
HonoursQueued == Promise!PSpec

\* Once the last handle is dropped the persister drains the channel and
\* exits with nothing in hand, unless the process dies.
DrainsAndExits ==
    (~senders /\ Running) ~> (proc = "stopped" \/ (proc = "exited" /\ channel = <<>>))
=============================================================================
