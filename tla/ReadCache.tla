----------------------------- MODULE ReadCache -----------------------------
(***************************************************************************)
(* The read cache of src/cache as the repository statistics use it: readers *)
(* look a window up, query the traces on a miss with no lock held and store *)
(* the result; a trace is ingested without touching the cache, and purged   *)
(* with one eviction per hour bucket of its rollup groups after the delete  *)
(* committed.                                                               *)
(*                                                                          *)
(* A cached aggregate is the set of traces it counted.  Instants are kept   *)
(* as ages that stop at the TTL, the access ticks as the order they give.   *)
(* The hit, miss and eviction counters are left out.                        *)
(***************************************************************************)
EXTENDS Integers, FiniteSets

CONSTANTS
    Keys,        \* CacheKeys
    First, Last, \* first_bucket and last_bucket of a key
    Traces,
    Seen,        \* of each key and trace, the buckets of the events that the
                 \* scope and the filter of the key let a query count
    Rolled,      \* of each trace, the buckets of its events that are not of
                 \* cohort_scope self or family: the groups of the rollup
    Readers,     \* concurrent reads
    Pinned,      \* those through get_or_compute, whose inserted_at is the
                 \* instant of the lookup; try_get and store stamp the store
    Sizes,       \* byte_size of a value
    MaxEntries,  \* max_entries
    MaxBytes,    \* max_bytes
    TTL,         \* ttl, in ticks
    None

ASSUME CacheAssumption ==
    /\ First \in [Keys -> Int] /\ Last \in [Keys -> Int]
    /\ Sizes \subseteq Nat
    /\ MaxEntries \in Nat /\ MaxBytes \in Nat
    /\ TTL \in Nat \ {0}
    /\ Pinned \subseteq Readers
    /\ None \notin Keys

ASSUME SeenAssumption ==
    /\ Seen \in [Keys -> [Traces -> SUBSET Int]]
    /\ Rolled \in [Traces -> SUBSET Int]

VARIABLES
    trace,  \* where each trace is
    evict,  \* purge_delete_tombstoned_trace: the buckets still to be evicted
    cache,  \* the map of the LruCache
    newer,  \* the order of last_tick: <<x, y>> when y was used after x
    bytes,  \* bytes_resident
    reader, \* the locals of a read
    late    \* history: <<k, t>>, t counted in k stored after t's eviction of k,
            \* which is at once when it has no bucket to evict there

vars == <<trace, evict, cache, newer, bytes, reader, late>>

-----------------------------------------------------------------------------
Ages == 0..TTL

Entry == [val : SUBSET Traces, size : Sizes, age : Ages]

ASSUME EntryAssumption == None \notin Entry

Reader == [pc : {"idle", "query", "store"}, key : Keys \cup {None}, age : Ages,
           val : SUBSET Traces]

Idle == [pc |-> "idle", key |-> None, age |-> 0, val |-> {}]

Resident == {k \in Keys : cache[k] # None}

\* Typing (but for bytes, which WithinBounds fixes), and the order is one of
\* the resident keys.
TypeOK ==
    /\ trace \in [Traces -> {"absent", "live", "deleted"}]
    /\ evict \in [Traces -> SUBSET Int]
    /\ cache \in [Keys -> Entry \cup {None}]
    /\ newer \subseteq Resident \X Resident
    /\ reader \in [Readers -> Reader]
    /\ late \subseteq Keys \X Traces

Init ==
    /\ trace = [t \in Traces |-> "absent"]
    /\ evict = [t \in Traces |-> {}]
    /\ cache = [k \in Keys |-> None]
    /\ newer = {}
    /\ bytes = 0
    /\ reader = [r \in Readers |-> Idle]
    /\ late = {}

-----------------------------------------------------------------------------
(* The LRU.                                                                 *)

Window(k) == First[k]..Last[k]

is_expired(k) == cache[k].age = TTL

\* get serves an entry that is there and not expired.
Live(k) == k \in Resident /\ ~is_expired(k)

\* Fault: the key carries only the bucket of its window's end.
ends_in_bucket(k, b) == b = Last[k]

overlaps_bucket(k, b) == First[k] <= b /\ b <= Last[k]

\* The bytes of the entries of K, each counted once.
Units(f, K) == UNION {{k} \X (1..f[k].size) : k \in K}

Weight(f, K) == Cardinality(Units(f, K))

unranked(K) == {p \in newer : p[1] \notin K /\ p[2] \notin K}

\* remove, of a set of keys at once.
remove(K) ==
    /\ cache' = [k \in Keys |-> IF k \in K THEN None ELSE cache[k]]
    /\ newer' = unranked(K)
    /\ bytes' = bytes - Weight(cache, K)
    /\ late' = {p \in late : p[1] \notin K}

\* Fault: a hit renews the entry.
touched_renewed(k) == [cache EXCEPT ![k].age = 0]

\* A hit stamps the entry with the next tick and leaves inserted_at alone.
touched(k) == cache

\* Fault: the replaced value's bytes stay counted.
bytes_added(k, e) == bytes + e.size

\* Replace semantics: the old resident bytes are dropped first.
bytes_replaced(k, e) == bytes - Weight(cache, Resident \cap {k}) + e.size

\* The order once k has the next tick.
Stamped(k) == {p \in newer : p[1] # k /\ p[2] # k} \cup ((Resident \ {k}) \X {k})

Fits(f, total, K, R) ==
    Cardinality(K) <= MaxEntries /\ total - Weight(f, R \ K) <= MaxBytes

\* What eviction of the smallest tick, until both bounds hold, leaves of R:
\* the most keys that fit, where a key stays only with all used after it.
Kept(f, order, total, R) ==
    UNION {K \in SUBSET R : /\ \A p \in order : p[1] \in K => p[2] \in K
                           /\ Fits(f, total, K, R)}

\* insert, and the eviction that brings the cache back within its bounds.
insert(k, e) ==
    LET f == [cache EXCEPT ![k] = e]
        R == Resident \cup {k}
        total == bytes_replaced(k, e)
        K == Kept(f, Stamped(k), total, R)
    IN  /\ cache' = [x \in Keys |-> IF x \in K THEN f[x] ELSE None]
        /\ newer' = {p \in Stamped(k) : p[1] \in K /\ p[2] \in K}
        /\ bytes' = total - Weight(f, R \ K)
        /\ late' = {p \in late : p[1] \in K \ {k}} \cup
                   {<<k, t>> : t \in {u \in e.val : /\ k \in K /\ trace[u] = "deleted"
                                                    /\ evict[u] \cap Window(k) = {}}}

-----------------------------------------------------------------------------
(* Readers.                                                                 *)

\* try_get, or the first half of get_or_compute.
hit(r, k) ==
    /\ reader[r].pc = "idle" /\ Live(k)
    /\ cache' = touched(k)
    /\ newer' = Stamped(k)
    /\ UNCHANGED <<trace, evict, bytes, reader, late>>

miss(r, k) ==
    /\ reader[r].pc = "idle" /\ ~Live(k)
    /\ remove(Resident \cap {k})
    /\ reader' = [reader EXCEPT ![r] = [Idle EXCEPT !.pc = "query", !.key = k]]
    /\ UNCHANGED <<trace, evict>>

\* What a query over the window of k counts, self and family events of the
\* caller included.
Counted(k) ==
    {t \in Traces : trace[t] = "live" /\ Seen[k][t] \cap Window(k) # {}}

query(r) ==
    /\ reader[r].pc = "query"
    /\ reader' = [reader EXCEPT ![r].pc = "store", ![r].val = Counted(reader[r].key)]
    /\ UNCHANGED <<trace, evict, cache, newer, bytes, late>>

\* The error goes to the caller and nothing is stored or served.
query_fails(r) ==
    /\ reader[r].pc = "query"
    /\ reader' = [reader EXCEPT ![r] = Idle]
    /\ UNCHANGED <<trace, evict, cache, newer, bytes, late>>

store(r) ==
    /\ reader[r].pc = "store"
    /\ \E size \in Sizes :
          insert(reader[r].key, [val |-> reader[r].val, size |-> size,
                                 age |-> reader[r].age])
    /\ reader' = [reader EXCEPT ![r] = Idle]
    /\ UNCHANGED <<trace, evict>>

-----------------------------------------------------------------------------
(* Writers, the sweep and time.                                             *)

\* Ingest does not call invalidate_write.
ingest(t) ==
    /\ trace[t] = "absent"
    /\ trace' = [trace EXCEPT ![t] = "live"]
    /\ UNCHANGED <<evict, cache, newer, bytes, reader, late>>

\* purge_delete_tombstoned_trace: the delete commits, and returns the buckets of
\* the rollup groups it recomputed, ...
purge(t) ==
    /\ trace[t] = "live"
    /\ trace' = [trace EXCEPT ![t] = "deleted"]
    /\ evict' = [evict EXCEPT ![t] = Rolled[t]]
    /\ UNCHANGED <<cache, newer, bytes, reader, late>>

\* ... then each of these is evicted, one lock at a time.
invalidate_write(t, b) ==
    /\ b \in evict[t]
    /\ evict' = [evict EXCEPT ![t] = @ \ {b}]
    /\ remove({k \in Resident : overlaps_bucket(k, b)})
    /\ UNCHANGED <<trace, reader>>

sweep_expired ==
    /\ \E k \in Resident : is_expired(k)
    /\ remove({k \in Resident : is_expired(k)})
    /\ UNCHANGED <<trace, evict, reader>>

Older(age) == IF age < TTL THEN age + 1 ELSE age

tick ==
    /\ cache' = [k \in Keys |-> IF cache[k] = None THEN None
                                ELSE [cache[k] EXCEPT !.age = Older(@)]]
    /\ reader' = [r \in Readers |-> IF r \in Pinned /\ reader[r].pc # "idle"
                                    THEN [reader[r] EXCEPT !.age = Older(@)]
                                    ELSE reader[r]]
    /\ UNCHANGED <<trace, evict, newer, bytes, late>>

-----------------------------------------------------------------------------
Next ==
    \/ \E r \in Readers : \/ \E k \in Keys : hit(r, k) \/ miss(r, k)
                          \/ query(r) \/ query_fails(r) \/ store(r)
    \/ \E t \in Traces : \/ ingest(t) \/ purge(t)
                         \/ \E b \in evict[t] : invalidate_write(t, b)
    \/ sweep_expired
    \/ tick

Spec == Init /\ [][Next]_vars

\* Time passes; no read, eviction or sweep need ever end.
FairSpec == Spec /\ WF_vars(tick)

-----------------------------------------------------------------------------
(* Properties.                                                              *)

\* What a lookup of k would be served from the cache.
Served(k) == IF Live(k) THEN cache[k].val ELSE {}

Purged(t) == trace[t] = "deleted" /\ evict[t] = {}

\* bytes_resident is the sum of the resident sizes through replacements,
\* evictions and expiries, and both bounds hold whenever the lock is free.
WithinBounds ==
    /\ bytes = Weight(cache, Resident)
    /\ Cardinality(Resident) <= MaxEntries /\ bytes <= MaxBytes

\* All that k counts of t is self or family events: the eviction passes it by.
Unrolled(k, t) == Seen[k][t] \cap Window(k) # {} /\ Rolled[t] \cap Window(k) = {}

\* Once the eviction of a purged trace is over, an entry counts it only if a
\* read that queried before the purge stored it after the eviction of its
\* window, or if the events it counts are self or family events: any other entry
\* resident at the purge is gone, whichever of the window's buckets the trace
\* was in.
PurgedOnlyLate ==
    \A k \in Keys, t \in Traces :
        Purged(t) /\ t \in Served(k) => <<k, t>> \in late \/ Unrolled(k, t)

\* The TTL ends even these: a purged trace is eventually served no more, also
\* from an entry that is looked up all the time.
PurgedLeaves ==
    <>[](\A k \in Keys, t \in Traces : Purged(t) => t \notin Served(k))
=============================================================================
