-------------------------- MODULE SecretsRotation --------------------------
(***************************************************************************)
(* The master keys of src/secrets: one process with its key cache, the      *)
(* master-key table and the secrets it seals.  Storing a secret reads the   *)
(* active key and inserts the row later; rotate_master_key and              *)
(* migrate_to_hardware_key put a new key on record, reencrypt_all moves the *)
(* rows to it in chunks, without a lock between them, and then makes it the *)
(* active one.  Nothing serialises these calls.                             *)
(*                                                                          *)
(* A row is known by its encryption_key_ref, which every statement writes   *)
(* together with the ciphertext.  The dedup of claims by content (a claim   *)
(* whose content is on record inserts nothing), the access log and the      *)
(* encryption itself are left out.                                          *)
(***************************************************************************)
EXTENDS Naturals, FiniteSets

CONSTANTS
    Secrets,      \* secret_uuids, one call of a store door each
    SoftKeys,     \* key_refs rotate_master_key draws
    HardKeys,     \* key_refs migrate_to_hardware_key draws
    Jobs,         \* calls of reencrypt_all, through a migration or not
    Chunk,        \* REENCRYPT_CHUNK_SIZE
    MaxRestarts,  \* bound on restarts of the process
    None

Keys == SoftKeys \cup HardKeys

ASSUME SecretsAssumption ==
    /\ Chunk \in Nat \ {0}
    /\ MaxRestarts \in Nat
    /\ SoftKeys \cap HardKeys = {}
    /\ None \notin Keys

VARIABLES
    cache,     \* software_keys: the key_refs whose bytes the process holds
    meta,      \* master_key_meta, a key's row by its two timestamps
    tx,        \* the open transaction of rotate_master_key
    rows,      \* secrets, the key_ref of each row
    store,     \* the locals of a store door's call
    job,       \* the locals of a reencrypt_all call
    forgotten, \* history: secrets forget_secret deleted
    minted,    \* history: software keys put on record since the process started
    overlap,   \* history: secrets written beside a running job, or under a retired key
    restarts

vars == <<cache, meta, tx, rows, store, job, forgotten, minted, overlap, restarts>>

-----------------------------------------------------------------------------
\* staged: activated_at NULL; active: activated, deactivated_at NULL;
\* retired: deactivated_at set.
KeyState == {"none", "staged", "active", "retired"}

Store == [pc : {"new", "sealed", "done"}, key : Keys \cup {None}]

\* old: the snapshot; ready: the chunk's prepared rows; failed: a row failed.
Job == [pc : {"idle", "put", "load", "chunk", "update", "done"}, key : Keys \cup {None},
        old : [Secrets -> Keys \cup {None}], todo : SUBSET Secrets,
        ready : SUBSET Secrets, failed : BOOLEAN]

\* Typing, and a key in the middle of its first transaction is not on record.
TypeOK ==
    /\ cache \subseteq Keys
    /\ meta \in [Keys -> KeyState]
    /\ tx \in [SoftKeys -> {"none", "first_use", "staged"}]
    /\ \A k \in SoftKeys : tx[k] # "none" => meta[k] = "none"
    /\ rows \in [Secrets -> Keys \cup {None}]
    /\ store \in [Secrets -> Store]
    /\ job \in [Jobs -> Job]
    /\ forgotten \subseteq Secrets
    /\ minted \subseteq SoftKeys
    /\ overlap \subseteq Secrets
    /\ restarts \in 0..MaxRestarts

NoRows == [s \in Secrets |-> None]

Ended ==
    [pc |-> "done", key |-> None, old |-> NoRows, todo |-> {}, ready |-> {}, failed |-> FALSE]

Init ==
    /\ cache = {}
    /\ meta = [k \in Keys |-> "none"]
    /\ tx = [k \in SoftKeys |-> "none"]
    /\ rows = NoRows
    /\ store = [s \in Secrets |-> [pc |-> "new", key |-> None]]
    /\ job = [j \in Jobs |-> [Ended EXCEPT !.pc = "idle"]]
    /\ forgotten = {}
    /\ minted = {}
    /\ overlap = {}
    /\ restarts = 0

-----------------------------------------------------------------------------
(* Master keys.                                                             *)

Active == {k \in Keys : meta[k] = "active"}

\* Fault: the bytes are not cached before the row is visible.
uncached(k) == cache

cached(k) == cache \cup {k}

\* rotate_master_key: the bytes are cached, the staged row is inserted and
\* the active rows are counted, in a transaction not committed yet.
rotate_begin(k) ==
    /\ meta[k] = "none" /\ tx[k] = "none" /\ k \notin cache
    /\ cache' = cached(k)
    /\ tx' = [tx EXCEPT ![k] = IF Active = {} THEN "first_use" ELSE "staged"]
    /\ UNCHANGED <<meta, rows, store, job, forgotten, minted, overlap, restarts>>

\* Fault: the index is not there.
never_lost(k) == FALSE

\* The V043 index refuses the activation: another key is active by now.
lost_race(k) == tx[k] = "first_use" /\ Active # {}

rotate_commit(k) ==
    /\ tx[k] # "none" /\ ~lost_race(k)
    /\ meta' = [meta EXCEPT ![k] = IF tx[k] = "first_use" THEN "active" ELSE "staged"]
    /\ tx' = [tx EXCEPT ![k] = "none"]
    /\ minted' = minted \cup {k}
    /\ UNCHANGED <<cache, rows, store, job, forgotten, overlap, restarts>>

evicted(k) == cache \ {k}

\* The transaction is rolled back, because the race is lost or on an error,
\* and the bytes are dropped; the loser of the race converges on the active
\* key, whose bytes active_master_key derives again if it is a hardware key.
\* An error of the commit is taken to mean that nothing was committed.
rotate_rollback(k) ==
    /\ tx[k] # "none"
    /\ tx' = [tx EXCEPT ![k] = "none"]
    /\ cache' = evicted(k) \cup (IF lost_race(k) THEN Active \cap HardKeys ELSE {})
    /\ UNCHANGED <<meta, rows, store, job, forgotten, minted, overlap, restarts>>

-----------------------------------------------------------------------------
(* The store doors: store_secret, try_claim_secret, store_detected_secret.  *)

\* active_master_key: the active key, its bytes from the cache or, for a
\* hardware key, derived again and cached.
Usable(k) == k \in Active /\ (k \in cache \/ k \in HardKeys)

seal_secret(s, k) ==
    /\ store[s].pc = "new" /\ Usable(k)
    /\ store' = [store EXCEPT ![s] = [pc |-> "sealed", key |-> k]]
    /\ cache' = cached(k)
    /\ UNCHANGED <<meta, tx, rows, job, forgotten, minted, overlap, restarts>>

\* A job that has read the table and will still decide on the flip.
Running(j) == job[j].pc \in {"chunk", "update"}

insert_secret(s) ==
    /\ store[s].pc = "sealed"
    /\ rows' = [rows EXCEPT ![s] = store[s].key]
    /\ store' = [store EXCEPT ![s] = [pc |-> "done", key |-> None]]
    /\ overlap' = IF (\E j \in Jobs : Running(j)) \/ meta[store[s].key] = "retired"
                  THEN overlap \cup {s} ELSE overlap
    /\ UNCHANGED <<cache, meta, tx, job, forgotten, minted, restarts>>

forget_secret(s) ==
    /\ rows[s] # None
    /\ rows' = [rows EXCEPT ![s] = None]
    /\ forgotten' = forgotten \cup {s}
    /\ UNCHANGED <<cache, meta, tx, store, job, minted, overlap, restarts>>

-----------------------------------------------------------------------------
(* reencrypt_all and migrate_to_hardware_key.                               *)

Becomes(j, locals) == job' = [job EXCEPT ![j] = locals]

Return(j) == Becomes(j, Ended)

\* migrate_to_hardware_key: the row first, staged, then its bytes.
migrate_begin(j, k) ==
    /\ job[j].pc = "idle" /\ meta[k] = "none"
    /\ meta' = [meta EXCEPT ![k] = "staged"]
    /\ Becomes(j, [job[j] EXCEPT !.pc = "put", !.key = k])
    /\ UNCHANGED <<cache, tx, rows, store, forgotten, minted, overlap, restarts>>

migrate_cache(j) ==
    /\ job[j].pc = "put"
    /\ cache' = cached(job[j].key)
    /\ Becomes(j, [job[j] EXCEPT !.pc = "load"])
    /\ UNCHANGED <<meta, tx, rows, store, forgotten, minted, overlap, restarts>>

\* Fault: the target is taken on its word.
loaded_always(k) == TRUE

loaded(k) == k \in cache

\* A caller names a key it was given; one whose bytes are gone is refused.
reencrypt_all(j, k) ==
    /\ job[j].pc = "idle" /\ meta[k] # "none" /\ loaded(k)
    /\ Becomes(j, [job[j] EXCEPT !.pc = "load", !.key = k])
    /\ UNCHANGED <<cache, meta, tx, rows, store, forgotten, minted, overlap, restarts>>

load(j) ==
    /\ job[j].pc = "load"
    /\ Becomes(j, [job[j] EXCEPT !.pc = "chunk", !.old = rows,
                                 !.todo = {s \in Secrets : rows[s] # None}])
    /\ UNCHANGED <<cache, meta, tx, rows, store, forgotten, minted, overlap, restarts>>

IsChunk(C, todo) ==
    /\ C # {} /\ C \subseteq todo
    /\ Cardinality(C) = Chunk \/ (C = todo /\ Cardinality(C) < Chunk)

\* Phase A: a row whose old key is not in the cache is a failure.
prepare(j, C) ==
    LET ready == {s \in C : job[j].old[s] \in cache} IN
    /\ job[j].pc = "chunk" /\ IsChunk(C, job[j].todo)
    /\ Becomes(j, [job[j] EXCEPT !.pc = IF ready = {} THEN "chunk" ELSE "update",
                                 !.todo = @ \ C, !.ready = ready,
                                 !.failed = @ \/ ready # C])
    /\ UNCHANGED <<cache, meta, tx, rows, store, forgotten, minted, overlap, restarts>>

\* Fault: the prepared rows are written whether or not they are still there.
rows_replaced(j) ==
    [s \in Secrets |-> IF s \in job[j].ready THEN job[j].key ELSE rows[s]]

\* UPDATE ... WHERE secret_uuid: a row that is gone stays gone.
rows_updated(j) ==
    [s \in Secrets |-> IF s \in job[j].ready /\ rows[s] # None THEN job[j].key ELSE rows[s]]

\* Phase B.
update(j) ==
    /\ job[j].pc = "update"
    /\ rows' = rows_updated(j)
    /\ Becomes(j, [job[j] EXCEPT !.pc = "chunk", !.ready = {}])
    /\ overlap' = IF (\E i \in Jobs \ {j} : Running(i)) \/ meta[job[j].key] = "retired"
                  THEN overlap \cup job[j].ready ELSE overlap
    /\ UNCHANGED <<cache, meta, tx, store, forgotten, minted, restarts>>

\* Every other row on record is deactivated, staged ones too; the new one is
\* activated unless it carries a deactivation already.
flipped(k) ==
    [x \in Keys |-> IF x = k
                    THEN IF meta[x] = "staged" THEN "active" ELSE meta[x]
                    ELSE IF meta[x] = "none" THEN "none" ELSE "retired"]

\* Fault: failed rows do not hold the flip back.
clean_always(j) == TRUE

\* Only a fully clean pass flips.
clean(j) == ~job[j].failed

finish(j) ==
    /\ job[j].pc = "chunk" /\ job[j].todo = {}
    /\ meta' = IF clean(j) THEN flipped(job[j].key) ELSE meta
    /\ Return(j)
    /\ UNCHANGED <<cache, tx, rows, store, forgotten, minted, overlap, restarts>>

\* An error of one of its statements, or a dropped future, ends the call.
job_fails(j) ==
    /\ job[j].pc \notin {"idle", "done"}
    /\ Return(j)
    /\ UNCHANGED <<cache, meta, tx, rows, store, forgotten, minted, overlap, restarts>>

\* The process starts again: the cache is empty and the calls are gone.
restart ==
    /\ restarts < MaxRestarts
    /\ restarts' = restarts + 1
    /\ cache' = {}
    /\ minted' = {}
    /\ tx' = [k \in SoftKeys |-> "none"]
    /\ store' = [s \in Secrets |-> IF store[s].pc = "sealed"
                                   THEN [pc |-> "done", key |-> None] ELSE store[s]]
    /\ job' = [j \in Jobs |-> IF job[j].pc \in {"idle", "done"} THEN job[j]
                              ELSE Ended]
    /\ UNCHANGED <<meta, rows, forgotten, overlap>>

-----------------------------------------------------------------------------
JobStep(j) ==
    \/ \E k \in HardKeys : migrate_begin(j, k)
    \/ migrate_cache(j)
    \/ \E k \in Keys : reencrypt_all(j, k)
    \/ load(j)
    \/ \E C \in SUBSET Secrets : prepare(j, C)
    \/ update(j)
    \/ finish(j)
    \/ job_fails(j)

Next ==
    \/ \E k \in SoftKeys : rotate_begin(k) \/ rotate_commit(k) \/ rotate_rollback(k)
    \/ \E s \in Secrets : \/ \E k \in Keys : seal_secret(s, k)
                          \/ insert_secret(s)
                          \/ forget_secret(s)
    \/ \E j \in Jobs : JobStep(j)
    \/ restart

Spec == Init /\ [][Next]_vars

-----------------------------------------------------------------------------
(* Properties.                                                              *)

\* recall_secret and retrieve_secret look the row's key up in the cache only.
Opens(s) == rows[s] \in cache

\* The comment of V043: at most one master key is active, whatever first uses
\* race and whichever passes flip beside them.
OneActive == \A k, x \in Active : k = x

\* A software key put on record since the process started has its bytes, also
\* when another rotation lost its race and dropped the ones it had cached.
RecordedKeysLoaded == minted \subseteq cache

\* Only a restart makes a secret unreadable: whatever rotations, migrations and
\* passes do, a row that opens keeps opening until it is forgotten.
ReadableStaysReadable ==
    [][restarts' = restarts =>
          \A s \in Secrets : Opens(s) /\ rows'[s] # None => Opens(s)']_vars

\* A pass that read a secret before it was forgotten does not bring it back.
ForgottenStaysGone == \A s \in forgotten : rows[s] = None

\* A row is left under a retired key only if it was written while a pass was
\* running beside its writer, or under a key retired before: a pass never
\* retires the key of a row it read and could not move.
OnlyOverlapStrands ==
    \A s \in Secrets : rows[s] # None /\ meta[rows[s]] = "retired" => s \in overlap
=============================================================================
