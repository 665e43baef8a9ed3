-------------------------- MODULE ReadCacheProofs --------------------------
(***************************************************************************)
(* Proofs about ReadCache, for any windows, traces, readers, bounds and TTL. *)
(*                                                                          *)
(* PurgedOnlyLate speaks of the time after an eviction; CacheInv covers it   *)
(* from the purge on: an entry that counts a deleted trace was stored late,  *)
(* or a bucket of its window is still to be evicted, or no bucket of it ever *)
(* was to be.  That holds when the purge commits because an entry, and a     *)
(* value a reader holds, counts only traces with a bucket in its window.    *)
(*                                                                          *)
(* WithinBounds needs the recency order to be total on the resident keys    *)
(* (OrderInv): then the sets of keys an eviction may stop at form a chain,  *)
(* and what it leaves is the largest of them that fits.                     *)
(***************************************************************************)
EXTENDS ReadCache, TLAPS, FiniteSetTheorems, NaturalsInduction

\* Values count traces of their window only.
CountInv ==
    /\ \A k \in Resident : \A t \in cache[k].val : Seen[k][t] \cap Window(k) # {}
    /\ \A r \in Readers : reader[r].pc # "idle" => reader[r].key \in Keys
    /\ \A r \in Readers : \A t \in reader[r].val :
          reader[r].key \in Keys /\ Seen[reader[r].key][t] \cap Window(reader[r].key) # {}

\* A deleted trace is counted by late stores, by windows still to be evicted and
\* by those its eviction passes by.
LateInv ==
    \A k \in Resident : \A t \in cache[k].val :
        trace[t] = "deleted" => \/ <<k, t>> \in late \/ evict[t] \cap Window(k) # {}
                                \/ Rolled[t] \cap Window(k) = {}

CacheInv == TypeOK /\ CountInv /\ LateInv

USE CacheAssumption, EntryAssumption

-----------------------------------------------------------------------------
\* The empty cache satisfies the invariant.
LEMMA InitInv == Init => CacheInv
<1> SUFFICES ASSUME Init PROVE CacheInv
  OBVIOUS
<1> USE DEF Init
<1>1. Resident = {}
  BY DEF Resident
<1>2. reader \in [Readers -> Reader]
  BY DEF Idle, Reader, Ages
<1>3. TypeOK
  BY <1>1, <1>2 DEF TypeOK
<1>4. CountInv /\ LateInv
  BY <1>1 DEF CountInv, LateInv, Idle
<1> QED BY <1>3, <1>4 DEF CacheInv

\* Removing entries keeps every part of the invariant that speaks of entries.
LEMMA RemoveKeeps ==
    ASSUME CacheInv, NEW K \in SUBSET Keys, remove(K)
    PROVE  /\ cache' \in [Keys -> Entry \cup {None}]
           /\ newer' \subseteq Resident' \X Resident'
           /\ late' \subseteq Keys \X Traces
           /\ Resident' = Resident \ K
           /\ \A k \in Resident' : cache'[k] = cache[k]
           /\ \A k \in Resident' : \A t \in Traces : <<k, t>> \in late => <<k, t>> \in late'
<1> USE DEF CacheInv, TypeOK
<1>1. /\ cache' = [k \in Keys |-> IF k \in K THEN None ELSE cache[k]]
      /\ newer' = {p \in newer : p[1] \notin K /\ p[2] \notin K}
      /\ late' = {p \in late : p[1] \notin K}
  BY DEF remove, unranked
<1>2. cache' \in [Keys -> Entry \cup {None}]
  BY <1>1
<1>3. Resident' = Resident \ K /\ \A k \in Resident' : cache'[k] = cache[k]
  BY <1>1 DEF Resident
<1>4. newer' \subseteq Resident' \X Resident'
  BY <1>1, <1>3
<1> QED BY <1>1, <1>2, <1>3, <1>4

\* A hit changes the order only.
LEMMA HitStep ==
    ASSUME NEW r \in Readers, NEW k \in Keys, CacheInv, hit(r, k)
    PROVE  CacheInv'
<1> USE DEF CacheInv
<1>1. /\ k \in Resident /\ cache' = cache /\ newer' = Stamped(k)
      /\ UNCHANGED <<trace, evict, reader, late>>
  BY DEF hit, Live, touched
<1>2. Resident' = Resident
  BY <1>1 DEF Resident
<1>3. newer' \subseteq Resident \X Resident
  BY <1>1 DEF Stamped, TypeOK
<1>4. TypeOK'
  BY <1>1, <1>2, <1>3 DEF TypeOK
<1>5. CountInv' /\ LateInv'
  BY <1>1, <1>2 DEF CountInv, LateInv, Window
<1> QED BY <1>4, <1>5

\* A miss drops an expired entry and starts a query.
LEMMA MissStep ==
    ASSUME NEW r \in Readers, NEW k \in Keys, CacheInv, miss(r, k)
    PROVE  CacheInv'
<1> USE DEF CacheInv
<1>1. /\ remove(Resident \cap {k})
      /\ reader' = [reader EXCEPT ![r] = [Idle EXCEPT !.pc = "query", !.key = k]]
      /\ trace' = trace /\ evict' = evict
  BY DEF miss
<1>2. Resident \cap {k} \in SUBSET Keys
  BY DEF Resident
<1>3. reader'[r] \in Reader /\ reader'[r].val = {} /\ reader'[r].key = k
  <2>1. reader'[r] = [pc |-> "query", key |-> k, age |-> 0, val |-> {}]
    BY <1>1 DEF TypeOK, Idle
  <2>2. 0 \in Ages
    BY DEF Ages
  <2> QED BY <2>1, <2>2 DEF Reader
<1>4. reader' \in [Readers -> Reader] /\ \A x \in Readers : x # r => reader'[x] = reader[x]
  BY <1>1, <1>3 DEF TypeOK
<1>5. TypeOK'
  BY <1>1, <1>2, <1>4, RemoveKeeps DEF TypeOK
<1>6. CountInv'
  BY <1>1, <1>2, <1>3, <1>4, RemoveKeeps DEF CountInv, Window
<1>7. LateInv'
  <2>1. \A x \in Resident' : cache'[x] \in Entry
    BY <1>5 DEF TypeOK, Resident
  <2> QED BY <1>1, <1>2, <2>1, RemoveKeeps DEF LateInv, Window, Entry
<1> QED BY <1>5, <1>6, <1>7

\* A query counts live traces of the reader's window, or fails.
LEMMA QueryStep ==
    ASSUME NEW r \in Readers, CacheInv, query(r) \/ query_fails(r)
    PROVE  CacheInv'
<1> USE DEF CacheInv
<1>1. UNCHANGED <<trace, evict, cache, newer, late>> /\ Resident' = Resident
  BY DEF query, query_fails, Resident
<1>2. reader[r] \in Reader /\ reader[r].key \in Keys
  BY DEF query, query_fails, TypeOK, CountInv
<1>3. /\ reader' \in [Readers -> Reader]
      /\ \A x \in Readers : x # r => reader'[x] = reader[x]
      /\ \/ reader'[r].key = reader[r].key /\ reader'[r].val = Counted(reader[r].key)
         \/ reader'[r].pc = "idle" /\ reader'[r].val = {}
  <2>1. CASE query(r)
    <3>1. Counted(reader[r].key) \subseteq Traces
      BY DEF Counted
    <3> QED BY <2>1, <3>1, <1>2 DEF query, TypeOK, Reader
  <2>2. CASE query_fails(r)
    BY <2>2 DEF query_fails, TypeOK, Idle, Reader, Ages
  <2> QED BY <2>1, <2>2
<1>4. TypeOK'
  BY <1>1, <1>3 DEF TypeOK
<1>5. CountInv'
  BY <1>1, <1>2, <1>3 DEF CountInv, Counted, Window
<1>6. LateInv'
  BY <1>1 DEF LateInv, Window
<1> QED BY <1>4, <1>5, <1>6

\* A store puts the reader's value in and evicts to the bounds.
LEMMA StoreStep ==
    ASSUME NEW r \in Readers, CacheInv, store(r)
    PROVE  CacheInv'
<1> USE DEF CacheInv
<1> DEFINE k == reader[r].key
<1>1. /\ reader[r] \in Reader /\ k \in Keys /\ trace' = trace /\ evict' = evict
      /\ reader' = [reader EXCEPT ![r] = Idle]
  BY DEF store, TypeOK, CountInv
<1>2. PICK size \in Sizes :
        insert(k, [val |-> reader[r].val, size |-> size, age |-> reader[r].age])
  BY DEF store
<1> DEFINE e == [val |-> reader[r].val, size |-> size, age |-> reader[r].age]
           f == [cache EXCEPT ![k] = e]
           R == Resident \cup {k}
           K == Kept(f, Stamped(k), bytes_replaced(k, e), R)
<1>3. e \in Entry /\ e # None /\ e.val = reader[r].val
  BY <1>1 DEF Reader, Entry
<1>4. K \subseteq R
  BY DEF Kept
<1>5. /\ cache' = [x \in Keys |-> IF x \in K THEN f[x] ELSE None]
      /\ newer' = {p \in Stamped(k) : p[1] \in K /\ p[2] \in K}
      /\ late' = {p \in late : p[1] \in K \ {k}} \cup
                 {<<k, t>> : t \in {u \in e.val : /\ k \in K /\ trace[u] = "deleted"
                                                  /\ evict[u] \cap Window(k) = {}}}
  BY <1>2 DEF insert
<1> HIDE DEF K, e, k
<1>6. /\ f \in [Keys -> Entry \cup {None}] /\ f[k] = e
      /\ \A x \in Keys : x # k => f[x] = cache[x]
  BY <1>1, <1>3 DEF TypeOK
<1>7. Resident' = K /\ K \subseteq Keys
  BY <1>1, <1>3, <1>4, <1>5, <1>6 DEF Resident
<1>8. \A x \in K : x # k => x \in Resident /\ cache'[x] = cache[x]
  BY <1>4, <1>5, <1>6, <1>7
<1>9. k \in K => cache'[k] = e
  BY <1>1, <1>5, <1>6
<1>10. reader' \in [Readers -> Reader] /\ reader'[r].val = {} /\ reader'[r].pc = "idle"
       /\ \A x \in Readers : x # r => reader'[x] = reader[x]
  BY <1>1 DEF TypeOK, Idle, Reader, Ages
<1>11. TypeOK'
  <2>1. cache' \in [Keys -> Entry \cup {None}]
    BY <1>5, <1>6
  <2>2. newer' \subseteq Resident' \X Resident'
    <3>1. \A p \in Stamped(k) : p = <<p[1], p[2]>>
      BY <1>1 DEF Stamped, TypeOK
    <3> QED BY <1>5, <1>7, <3>1
  <2>3. late' \subseteq Keys \X Traces
    <3>1. e.val \subseteq Traces
      BY <1>3 DEF Entry
    <3> QED BY <1>1, <1>5, <3>1 DEF TypeOK
  <2> QED BY <1>1, <1>10, <2>1, <2>2, <2>3 DEF TypeOK
<1>12. CountInv'
  <2>1. \A t \in e.val : Seen[k][t] \cap Window(k) # {}
    BY <1>1, <1>3 DEF CountInv, k
  <2>2. \A x \in Resident' : \A t \in cache'[x].val : Seen[x][t] \cap Window(x) # {}
    BY <1>7, <1>8, <1>9, <2>1 DEF CountInv
  <2>3. \A x \in Readers : reader'[x].pc # "idle" => reader'[x].key \in Keys
    BY <1>10 DEF CountInv
  <2>4. \A x \in Readers : \A t \in reader'[x].val :
          reader'[x].key \in Keys /\ Seen[reader'[x].key][t] \cap Window(reader'[x].key) # {}
    BY <1>10 DEF CountInv
  <2> QED BY <2>2, <2>3, <2>4 DEF CountInv, Window
<1>13. LateInv'
  <2> SUFFICES ASSUME NEW x \in K, NEW t \in cache'[x].val, trace[t] = "deleted"
               PROVE  \/ <<x, t>> \in late' \/ evict[t] \cap Window(x) # {}
                      \/ Rolled[t] \cap Window(x) = {}
    BY <1>1, <1>7 DEF LateInv, Window
  <2>1. CASE x = k
    BY <1>5, <1>9, <2>1
  <2>2. CASE x # k
    BY <1>5, <1>8, <2>2 DEF LateInv
  <2> QED BY <2>1, <2>2
<1> QED BY <1>11, <1>12, <1>13

\* Ingest and purge change the traces, not the cache.
LEMMA WriteStep ==
    ASSUME NEW t \in Traces, CacheInv, ingest(t) \/ purge(t)
    PROVE  CacheInv'
<1> USE DEF CacheInv
<1>1. UNCHANGED <<cache, newer, reader, late>> /\ Resident' = Resident
  BY DEF ingest, purge, Resident
<1>2. TypeOK'
  BY <1>1, SeenAssumption DEF ingest, purge, TypeOK
<1>3. CountInv'
  BY <1>1 DEF CountInv, Window
<1>4. LateInv'
  <2>1. \A k \in Resident : cache[k].val \subseteq Traces
    BY DEF TypeOK, Resident, Entry
  <2>2. CASE ingest(t)
    BY <1>1, <2>1, <2>2 DEF ingest, TypeOK, LateInv, Window
  <2>3. CASE purge(t)
    <3>1. evict'[t] = Rolled[t] /\ \A u \in Traces : u # t => evict'[u] = evict[u] /\ trace'[u] = trace[u]
      BY <2>3 DEF purge, TypeOK
    <3> QED BY <1>1, <2>1, <3>1 DEF LateInv, CountInv, Window
  <2> QED BY <2>2, <2>3
<1> QED BY <1>2, <1>3, <1>4

\* An eviction takes every entry whose window holds the bucket.
LEMMA EvictStep ==
    ASSUME NEW t \in Traces, NEW b \in evict[t], CacheInv, invalidate_write(t, b)
    PROVE  CacheInv'
<1> USE DEF CacheInv
<1> DEFINE V == {k \in Resident : overlaps_bucket(k, b)}
<1>1. /\ remove(V) /\ V \in SUBSET Keys /\ trace' = trace /\ reader' = reader
      /\ evict' = [evict EXCEPT ![t] = evict[t] \ {b}] /\ b \in Int
  BY DEF invalidate_write, Resident, TypeOK
<1>2. \A k \in Resident \ V : b \notin Window(k)
  BY <1>1 DEF overlaps_bucket, Window, Resident
<1> HIDE DEF V
<1>3. TypeOK'
  BY <1>1, RemoveKeeps DEF TypeOK
<1>4. CountInv'
  BY <1>1, RemoveKeeps DEF CountInv, Window
<1>5. LateInv'
  <2> SUFFICES ASSUME NEW k \in Resident', NEW u \in cache'[k].val, trace'[u] = "deleted"
               PROVE  \/ <<k, u>> \in late' \/ evict'[u] \cap Window(k) # {}
                      \/ Rolled[u] \cap Window(k) = {}
    BY DEF LateInv, Window
  <2>1. k \in Resident \ V /\ cache'[k] = cache[k] /\ u \in Traces
    BY <1>1, RemoveKeeps DEF TypeOK, Resident, Entry
  <2>2. <<k, u>> \in late \/ evict[u] \cap Window(k) # {} \/ Rolled[u] \cap Window(k) = {}
    BY <1>1, <2>1 DEF LateInv
  <2>3. CASE <<k, u>> \in late
    BY <1>1, <2>1, <2>3, RemoveKeeps
  <2>4. CASE evict[u] \cap Window(k) # {}
    <3>1. evict[u] \cap Window(k) \subseteq evict'[u]
      BY <1>1, <1>2, <2>1 DEF TypeOK
    <3> QED BY <2>4, <3>1
  <2> QED BY <2>2, <2>3, <2>4
<1> QED BY <1>3, <1>4, <1>5

\* The sweep removes entries; time changes ages only.
LEMMA TimeStep ==
    ASSUME CacheInv, sweep_expired \/ tick
    PROVE  CacheInv'
<1> USE DEF CacheInv
<1>1. CASE sweep_expired
  <2> DEFINE V == {k \in Resident : is_expired(k)}
  <2>1. remove(V) /\ V \in SUBSET Keys /\ trace' = trace /\ reader' = reader /\ evict' = evict
    BY <1>1 DEF sweep_expired, Resident
  <2> HIDE DEF V
  <2>2. TypeOK'
    BY <2>1, RemoveKeeps DEF TypeOK
  <2>3. CountInv'
    BY <2>1, RemoveKeeps DEF CountInv, Window
  <2>4. \A k \in Resident' : cache'[k].val \subseteq Traces
    BY <2>2 DEF TypeOK, Resident, Entry
  <2>5. LateInv'
    BY <2>1, <2>4, RemoveKeeps DEF LateInv, Window
  <2> QED BY <2>2, <2>3, <2>5
<1>2. CASE tick
  <2>1. UNCHANGED <<trace, evict, newer, late>>
    BY <1>2 DEF tick
  <2>2. \A k \in Keys : cache[k] # None =>
          /\ cache'[k] = [cache[k] EXCEPT !.age = Older(cache[k].age)]
          /\ cache'[k] \in Entry /\ cache'[k].val = cache[k].val
    BY <1>2 DEF tick, TypeOK, Entry, Ages, Older
  <2>3. \A k \in Keys : cache[k] = None => cache'[k] = None
    BY <1>2 DEF tick
  <2>4. Resident' = Resident
    BY <2>2, <2>3 DEF Resident
  <2>5. cache' \in [Keys -> Entry \cup {None}]
    <3>1. cache' = [k \in Keys |-> cache'[k]]
      BY <1>2 DEF tick
    <3> QED BY <2>2, <2>3, <3>1
  <2>6. \A r \in Readers : /\ reader'[r] \in Reader /\ reader'[r].val = reader[r].val
                           /\ reader'[r].pc = reader[r].pc /\ reader'[r].key = reader[r].key
    BY <1>2 DEF tick, TypeOK, Reader, Ages, Older
  <2>7. reader' \in [Readers -> Reader]
    BY <1>2, <2>6 DEF tick
  <2>8. TypeOK'
    BY <2>1, <2>4, <2>5, <2>7 DEF TypeOK
  <2>9. \A k \in Resident : cache'[k].val = cache[k].val
    BY <2>2 DEF Resident
  <2>10. CountInv'
    BY <2>4, <2>6, <2>9 DEF CountInv, Window
  <2>11. LateInv'
    BY <2>1, <2>4, <2>9 DEF LateInv, Window
  <2> QED BY <2>8, <2>10, <2>11
<1> QED BY <1>1, <1>2

\* A stuttering step changes nothing the invariant reads.
LEMMA StutterStep == CacheInv /\ UNCHANGED vars => CacheInv'
BY DEF CacheInv, vars, TypeOK, CountInv, LateInv, Resident, Window

\* Every step keeps the invariant.
LEMMA NextInv == CacheInv /\ [Next]_vars => CacheInv'
<1> SUFFICES ASSUME CacheInv, Next PROVE CacheInv'
  BY StutterStep
<1>1. CASE \E r \in Readers : \/ \E k \in Keys : hit(r, k) \/ miss(r, k)
                              \/ query(r) \/ query_fails(r) \/ store(r)
  BY <1>1, HitStep, MissStep, QueryStep, StoreStep
<1>2. CASE \E t \in Traces : \/ ingest(t) \/ purge(t)
                             \/ \E b \in evict[t] : invalidate_write(t, b)
  BY <1>2, WriteStep, EvictStep
<1>3. CASE sweep_expired \/ tick
  BY <1>3, TimeStep
<1> QED BY <1>1, <1>2, <1>3 DEF Next

-----------------------------------------------------------------------------
\* The inductive invariant holds in every reachable state.
THEOREM CacheInvariant == Spec => []CacheInv
BY InitInv, NextInv, PTL DEF Spec

\* Entries, readers and the recency order of the cache are typed.
THEOREM CacheTypeCorrect == Spec => []TypeOK
BY CacheInvariant, PTL DEF CacheInv

\* After invalidate_write went through the buckets of a purged trace, an entry
\* counts it only if a read that queried before the purge stored it after the
\* eviction of its window, or if all it counts of it are self or family events.
THEOREM PurgedServedOnlyLate == Spec => []PurgedOnlyLate
<1>1. CacheInv => PurgedOnlyLate
  BY DEF CacheInv, CountInv, LateInv, PurgedOnlyLate, Unrolled, Purged, Served, Live
<1> QED BY <1>1, CacheInvariant, PTL

-----------------------------------------------------------------------------
(* The two bounds.                                                          *)

\* Of two resident keys one was used after the other.
OrderInv == \A x, y \in Resident : x # y => <<x, y>> \in newer \/ <<y, x>> \in newer

BoundInv ==
    /\ IsFiniteSet(Resident) /\ IsFiniteSet(Units(cache, Resident))
    /\ OrderInv /\ WithinBounds

\* The units of two sets of keys, taken together and apart.
LEMMA UnitsSplit ==
    ASSUME NEW f, NEW R, NEW K \in SUBSET R
    PROVE  /\ Units(f, R) = Units(f, K) \cup Units(f, R \ K)
           /\ Units(f, K) \cap Units(f, R \ K) = {}
<1>1. \A S, u : u \in Units(f, S) <=> \E k \in S : u \in {k} \X (1..f[k].size)
  BY DEF Units
<1>2. \A k, j, u : u \in {k} \X (1..f[k].size) /\ u \in {j} \X (1..f[j].size) => k = j
  OBVIOUS
<1>3. \A u : u \in Units(f, R) => u \in Units(f, K) \cup Units(f, R \ K)
  <2> SUFFICES ASSUME NEW u, u \in Units(f, R)
               PROVE  u \in Units(f, K) \cup Units(f, R \ K)
    OBVIOUS
  <2>1. PICK k \in R : u \in {k} \X (1..f[k].size)
    BY <1>1
  <2>2. CASE k \in K
    <3>1. u \in Units(f, K)
      BY <1>1, <2>1, <2>2, Zenon
    <3> QED BY <3>1
  <2>3. CASE k \in R \ K
    <3>1. u \in Units(f, R \ K)
      BY <1>1, <2>1, <2>3, Zenon
    <3> QED BY <3>1
  <2> QED BY <2>2, <2>3
<1>4. \A S : S \subseteq R => Units(f, S) \subseteq Units(f, R)
  <2> SUFFICES ASSUME NEW S, S \subseteq R, NEW u \in Units(f, S)
               PROVE  u \in Units(f, R)
    OBVIOUS
  <2>1. PICK k \in S : u \in {k} \X (1..f[k].size)
    BY <1>1
  <2>2. k \in R
    BY <2>1
  <2> QED BY <1>1, <2>1, <2>2, Zenon
<1>5. \A u : u \in Units(f, K) => u \notin Units(f, R \ K)
  <2> SUFFICES ASSUME NEW u, u \in Units(f, K), u \in Units(f, R \ K) PROVE FALSE
    OBVIOUS
  <2>1. PICK k \in K : u \in {k} \X (1..f[k].size)
    BY <1>1
  <2>2. PICK j \in R \ K : u \in {j} \X (1..f[j].size)
    BY <1>1
  <2> QED BY <1>2, <2>1, <2>2
<1>6. Units(f, K) \subseteq Units(f, R) /\ Units(f, R \ K) \subseteq Units(f, R)
  <2>1. R \ K \subseteq R /\ K \subseteq R
    OBVIOUS
  <2> QED BY <1>4, <2>1, Zenon
<1> HIDE DEF Units
<1>7. Units(f, R) = Units(f, K) \cup Units(f, R \ K)
  BY <1>3, <1>6
<1> QED BY <1>5, <1>7

\* A key and the others.
LEMMA UnitsAdd ==
    ASSUME NEW f, NEW R, NEW k, {k} \in SUBSET R, NEW N, R \ {k} = N
    PROVE  Units(f, R) = Units(f, {k}) \cup Units(f, N)
<1> DEFINE S == {k}
           A == Units(f, S)
           B == Units(f, R \ S)
<1>1. S \in SUBSET R
  OBVIOUS
<1> HIDE DEF S
<1>2. Units(f, R) = A \cup B /\ A \cap B = {}
  BY <1>1, UnitsSplit
<1> QED BY <1>2 DEF S

\* A weight is the sum of the weights of its parts.
LEMMA WeightSplit ==
    ASSUME NEW f, NEW R, NEW K \in SUBSET R, IsFiniteSet(Units(f, R))
    PROVE  /\ IsFiniteSet(Units(f, K)) /\ IsFiniteSet(Units(f, R \ K))
           /\ Weight(f, K) \in Nat /\ Weight(f, R \ K) \in Nat /\ Weight(f, R) \in Nat
           /\ Weight(f, R) = Weight(f, K) + Weight(f, R \ K)
<1> DEFINE A == Units(f, K)
           B == Units(f, R \ K)
<1>1. Units(f, R) = A \cup B /\ A \cap B = {}
  BY UnitsSplit
<1> HIDE DEF A, B
<1>2. A \in SUBSET Units(f, R) /\ B \in SUBSET Units(f, R)
  BY <1>1
<1>3. IsFiniteSet(A) /\ IsFiniteSet(B)
  BY <1>2, FS_Subset
<1>4. Cardinality(A) \in Nat /\ Cardinality(B) \in Nat /\ Cardinality(Units(f, R)) \in Nat
  BY <1>3, FS_CardinalityType
<1>5. Cardinality(A \cup B) = Cardinality(A) + Cardinality(B) - Cardinality(A \cap B)
  BY <1>3, FS_Union
<1>6. Cardinality(A \cap B) = 0
  BY <1>1, FS_EmptySet
<1>7. Cardinality(Units(f, R)) = Cardinality(A) + Cardinality(B)
  BY <1>1, <1>4, <1>5, <1>6
<1>8. Weight(f, K) = Cardinality(A) /\ Weight(f, R \ K) = Cardinality(B)
  BY DEF Weight, A, B
<1>9. Weight(f, R) = Cardinality(Units(f, R))
  BY DEF Weight
<1>10. IsFiniteSet(Units(f, K)) /\ IsFiniteSet(Units(f, R \ K))
  BY <1>3 DEF A, B
<1> QED BY <1>4, <1>7, <1>8, <1>9, <1>10

\* Of a single key.
LEMMA WeightOne ==
    ASSUME NEW f, NEW k, f[k].size \in Nat
    PROVE  IsFiniteSet(Units(f, {k})) /\ Weight(f, {k}) = f[k].size
<1> DEFINE n == f[k].size
<1>1. Units(f, {k}) = {k} \X (1..n)
  BY DEF Units
<1>2. IsFiniteSet({k}) /\ Cardinality({k}) = 1
  BY FS_Singleton
<1>3. n \in Nat
  OBVIOUS
<1> HIDE DEF n
<1>4. IsFiniteSet(1..n) /\ Cardinality(1..n) = n
  <2>1. IsFiniteSet(1..n) /\ Cardinality(1..n) = IF 1 > n THEN 0 ELSE n - 1 + 1
    BY <1>3, FS_Interval
  <2> QED BY <1>3, <2>1
<1> DEFINE J == 1..n
<1>j. IsFiniteSet(J) /\ Cardinality(J) = n
  BY <1>4
<1> HIDE DEF J
<1>p. IsFiniteSet({k} \X J) /\ Cardinality({k} \X J) = Cardinality({k}) * Cardinality(J)
  BY <1>2, <1>j, FS_Product
<1>5. IsFiniteSet({k} \X (1..n)) /\ Cardinality({k} \X (1..n)) = 1 * n
  BY <1>2, <1>j, <1>p DEF J
<1>6. 1 * n = n
  BY <1>3
<1>7. Weight(f, {k}) = n /\ IsFiniteSet(Units(f, {k}))
  BY <1>1, <1>5, <1>6 DEF Weight
<1> QED BY <1>7 DEF n

\* Functions that agree on the sizes of K weigh K alike.
LEMMA UnitsSame ==
    ASSUME NEW f, NEW g, NEW K, \A k \in K : f[k].size = g[k].size
    PROVE  Units(f, K) = Units(g, K) /\ Weight(f, K) = Weight(g, K)
<1>1. \A k \in K : {k} \X (1..f[k].size) = {k} \X (1..g[k].size)
  OBVIOUS
<1>2. Units(f, K) = Units(g, K)
  BY <1>1 DEF Units
<1> QED BY <1>2 DEF Weight

\* No units, no weight.
LEMMA UnitsNone == ASSUME NEW f PROVE Units(f, {}) = {} /\ Weight(f, {}) = 0
<1>1. Units(f, {}) = {}
  BY DEF Units
<1> QED BY <1>1, FS_EmptySet DEF Weight

\* Taking resident keys out keeps count and order.
LEMMA RemoveBounds ==
    ASSUME CacheInv, BoundInv, NEW K \in SUBSET Resident, remove(K)
    PROVE  BoundInv'
<1>1. /\ Resident' = Resident \ K
      /\ \A k \in Resident' : cache'[k] = cache[k]
  <2>1. K \in SUBSET Keys
    BY DEF Resident
  <2> QED BY <2>1, RemoveKeeps
<1>2. /\ newer' = {p \in newer : p[1] \notin K /\ p[2] \notin K}
      /\ bytes' = bytes - Weight(cache, K)
  BY DEF remove, unranked
<1>3. /\ IsFiniteSet(Units(cache, Resident \ K))
      /\ Weight(cache, K) \in Nat /\ Weight(cache, Resident \ K) \in Nat
      /\ Weight(cache, Resident) = Weight(cache, K) + Weight(cache, Resident \ K)
      /\ Weight(cache, Resident) \in Nat
  <2>1. IsFiniteSet(Units(cache, Resident))
    BY DEF BoundInv
  <2> QED BY <2>1, WeightSplit
<1>4. Units(cache', Resident') = Units(cache, Resident \ K)
      /\ Weight(cache', Resident') = Weight(cache, Resident \ K)
  <2>1. \A k \in Resident' : cache'[k].size = cache[k].size
    BY <1>1
  <2> QED BY <1>1, <2>1, UnitsSame
<1>5. IsFiniteSet(Resident') /\ Cardinality(Resident') <= Cardinality(Resident)
      /\ Cardinality(Resident') \in Nat /\ Cardinality(Resident) \in Nat
  BY <1>1, FS_Subset, FS_CardinalityType DEF BoundInv
<1>6. OrderInv'
  BY <1>1, <1>2 DEF BoundInv, OrderInv
<1>7. WithinBounds'
  BY <1>2, <1>3, <1>4, <1>5 DEF BoundInv, WithinBounds
<1> QED BY <1>3, <1>4, <1>5, <1>6, <1>7 DEF BoundInv

\* A hit keeps the order total: the key moves to its end.
LEMMA StampedTotal ==
    ASSUME OrderInv, NEW k
    PROVE  \A x, y \in Resident \cup {k} :
              x # y => <<x, y>> \in Stamped(k) \/ <<y, x>> \in Stamped(k)
<1> SUFFICES ASSUME NEW x \in Resident \cup {k}, NEW y \in Resident \cup {k}, x # y
             PROVE  <<x, y>> \in Stamped(k) \/ <<y, x>> \in Stamped(k)
  OBVIOUS
<1>1. CASE x = k
  BY <1>1 DEF Stamped
<1>2. CASE y = k
  BY <1>2 DEF Stamped
<1>3. CASE x # k /\ y # k
  BY <1>3 DEF Stamped, OrderInv
<1> QED BY <1>1, <1>2, <1>3

LEMMA HitBounds ==
    ASSUME NEW r \in Readers, NEW k \in Keys, BoundInv, hit(r, k)
    PROVE  BoundInv'
<1>1. /\ k \in Resident /\ cache' = cache /\ newer' = Stamped(k) /\ bytes' = bytes
  BY DEF hit, Live, touched
<1>2. Resident' = Resident /\ Resident \cup {k} = Resident
  BY <1>1 DEF Resident
<1>3. OrderInv'
  <2>1. OrderInv
    BY DEF BoundInv
  <2> QED BY <1>1, <1>2, <2>1, StampedTotal DEF OrderInv
<1>4. Units(cache', Resident') = Units(cache, Resident)
  BY <1>1, <1>2
<1> QED BY <1>1, <1>2, <1>3, <1>4 DEF BoundInv, WithinBounds, Weight

\* A nonempty set of numbers has a least element.
LEMMA LeastOf ==
    ASSUME NEW T, T \subseteq Nat, T # {}
    PROVE  \E x \in T : \A y \in T : x <= y
<1> DEFINE R == OpToRel(<, Nat)
<1>1. IsWellFoundedOn(R, Nat)
  BY NatLessThanWellFounded, Zenon
<1>2. \A x, y \in Nat : <<y, x>> \in R <=> y < x
  BY DEF OpToRel
<1> HIDE DEF R
<1>3. PICK x \in T : \A y \in T : ~(<<y, x>> \in R)
  BY <1>1, WFMin, Zenon
<1>4. \A y \in T : ~(y < x)
  BY <1>2, <1>3
<1>5. \A y \in T : x <= y
  BY <1>4
<1> QED BY <1>5

\* A nonempty family of subsets of a finite set has a member of most elements.
LEMMA LargestMember ==
    ASSUME NEW R, IsFiniteSet(R), NEW F, F \subseteq SUBSET R, F # {}
    PROVE  \E K \in F : \A L \in F : Cardinality(L) <= Cardinality(K)
<1> DEFINE n == Cardinality(R)
           T == {n - Cardinality(K) : K \in F}
<1>1. \A K \in F : Cardinality(K) \in Nat /\ n - Cardinality(K) \in Nat
  <2> SUFFICES ASSUME NEW K \in F
               PROVE  Cardinality(K) \in Nat /\ n - Cardinality(K) \in Nat
    OBVIOUS
  <2>1. K \in SUBSET R
    OBVIOUS
  <2>2. IsFiniteSet(K) /\ Cardinality(K) <= n
    BY <2>1, FS_Subset
  <2>3. Cardinality(K) \in Nat /\ n \in Nat
    BY <2>2, FS_CardinalityType
  <2> QED BY <2>2, <2>3
<1>2. n \in Nat
  BY FS_CardinalityType
<1> HIDE DEF n
<1>3. T \subseteq Nat /\ T # {}
  BY <1>1
<1>4. PICK x \in T : \A y \in T : x <= y
  BY <1>3, LeastOf
<1>5. PICK K \in F : x = n - Cardinality(K)
  BY <1>4
<1>6. \A L \in F : Cardinality(L) <= Cardinality(K)
  <2> SUFFICES ASSUME NEW L \in F PROVE Cardinality(L) <= Cardinality(K)
    OBVIOUS
  <2>1. n - Cardinality(K) <= n - Cardinality(L)
    BY <1>4, <1>5
  <2> QED BY <1>1, <1>2, <2>1
<1> QED BY <1>6

\* What eviction leaves fits: the sets it may stop at are totally ordered by
\* inclusion, the empty one fits, and the largest that does is their union.
LEMMA KeptFits ==
    ASSUME NEW f, NEW order, NEW R, IsFiniteSet(R), IsFiniteSet(Units(f, R)),
           \A x, y \in R : x # y => <<x, y>> \in order \/ <<y, x>> \in order
    PROVE  /\ Kept(f, order, Weight(f, R), R) \in SUBSET R
           /\ Fits(f, Weight(f, R), Kept(f, order, Weight(f, R), R), R)
<1> DEFINE total == Weight(f, R)
           Closed(K) == \A p \in order : p[1] \in K => p[2] \in K
           F == {K \in SUBSET R : Closed(K) /\ Fits(f, total, K, R)}
<1>1. Kept(f, order, total, R) = UNION F
  BY DEF Kept
<1>2. {} \in F
  <2>1. R \ {} = R /\ Closed({}) /\ {} \in SUBSET R
    OBVIOUS
  <2>2. Weight(f, R) \in Nat
    BY FS_CardinalityType DEF Weight
  <2>3. Cardinality({}) = 0
    BY FS_EmptySet
  <2>4. Weight(f, R) - Weight(f, R) <= MaxBytes
    BY <2>2
  <2>5. Fits(f, total, {}, R)
    BY <2>1, <2>3, <2>4 DEF Fits
  <2> QED BY <2>1, <2>5
<1>3. \A K, L \in F : K \subseteq L \/ L \subseteq K
  <2> SUFFICES ASSUME NEW K \in F, NEW L \in F,
                      NEW x \in K, x \notin L, NEW y \in L, y \notin K
               PROVE  FALSE
    OBVIOUS
  <2>1. x \in R /\ y \in R /\ x # y /\ Closed(K) /\ Closed(L)
    OBVIOUS
  <2>2. CASE <<x, y>> \in order
    BY <2>1, <2>2
  <2>3. CASE <<y, x>> \in order
    BY <2>1, <2>3
  <2> QED BY <2>1, <2>2, <2>3
<1>4. F \subseteq SUBSET R /\ F # {}
  BY <1>2
<1>5. \A K \in F : Fits(f, total, K, R)
  OBVIOUS
<1> HIDE DEF F
<1>6. PICK K \in F : \A L \in F : Cardinality(L) <= Cardinality(K)
  BY <1>4, LargestMember
<1>7. \A L \in F : L \subseteq K
  <2> SUFFICES ASSUME NEW L \in F, K \subseteq L PROVE L \subseteq K
    BY <1>3, <1>6
  <2>1. IsFiniteSet(L)
    BY <1>4, FS_Subset
  <2>2. K \in SUBSET L
    OBVIOUS
  <2>3. /\ IsFiniteSet(K) /\ Cardinality(K) <= Cardinality(L)
        /\ (Cardinality(K) = Cardinality(L) => K = L)
    BY <2>1, <2>2, FS_Subset
  <2>4. Cardinality(K) \in Nat /\ Cardinality(L) \in Nat
    BY <2>1, <2>3, FS_CardinalityType
  <2> QED BY <1>6, <2>3, <2>4
<1>8. UNION F = K
  BY <1>6, <1>7
<1> QED BY <1>1, <1>4, <1>5, <1>6, <1>8

\* The bytes counted when a value is stored are those of the keys then held.
LEMMA ReplacedTotal ==
    ASSUME CacheInv, BoundInv, NEW k \in Keys, NEW e \in Entry
    PROVE  LET f == [cache EXCEPT ![k] = e]
               R == Resident \cup {k}
           IN  /\ IsFiniteSet(R) /\ IsFiniteSet(Units(f, R))
               /\ bytes_replaced(k, e) = Weight(f, R)
<1> DEFINE f == [cache EXCEPT ![k] = e]
           R == Resident \cup {k}
           O == Resident \cap {k}
           N == Resident \ {k}
<1>1. IsFiniteSet(Resident) /\ IsFiniteSet(Units(cache, Resident)) /\ bytes = Weight(cache, Resident)
  BY DEF BoundInv, WithinBounds
<1>2. f[k] = e /\ \A x \in N : f[x] = cache[x]
  BY DEF CacheInv, TypeOK, Resident
<1>3. /\ IsFiniteSet(Units(cache, N))
      /\ Weight(cache, O) \in Nat /\ Weight(cache, N) \in Nat
      /\ Weight(cache, Resident) = Weight(cache, O) + Weight(cache, N)
  <2>1. O \in SUBSET Resident /\ Resident \ O = N
    OBVIOUS
  <2> HIDE DEF O, N
  <2> QED BY <1>1, <2>1, WeightSplit
<1>4. Units(f, N) = Units(cache, N) /\ Weight(f, N) = Weight(cache, N)
  <2>1. \A x \in N : f[x].size = cache[x].size
    BY <1>2
  <2> HIDE DEF f, N
  <2> QED BY <2>1, UnitsSame
<1>5. IsFiniteSet(Units(f, {k})) /\ Weight(f, {k}) = e.size /\ e.size \in Nat
  <2>1. e.size \in Nat /\ f[k].size = e.size
    BY <1>2 DEF Entry
  <2> HIDE DEF f
  <2> QED BY <2>1, WeightOne
<1>6. {k} \in SUBSET R /\ R \ {k} = N
  OBVIOUS
<1>7. Units(f, R) = Units(f, {k}) \cup Units(f, N)
  <2> HIDE DEF f, R, N
  <2> QED BY <1>6, UnitsAdd
<1>8. IsFiniteSet(Units(f, R))
  <2> HIDE DEF f, R, N
  <2>1. IsFiniteSet(Units(f, N))
    BY <1>3, <1>4
  <2>2. IsFiniteSet(Units(f, {k}) \cup Units(f, N))
    BY <1>5, <2>1, FS_Union
  <2> QED BY <1>7, <2>2
<1>9. Weight(f, R) = e.size + Weight(f, N)
  <2> HIDE DEF f, R, N
  <2>1. Weight(f, R) = Weight(f, {k}) + Weight(f, R \ {k})
    BY <1>6, <1>8, WeightSplit
  <2> QED BY <1>5, <1>6, <2>1
<1>10. IsFiniteSet(R)
  BY <1>1, FS_AddElement
<1>11. bytes_replaced(k, e) = Weight(f, R)
  <2> HIDE DEF f, R, N
  <2>1. bytes_replaced(k, e) = Weight(cache, Resident) - Weight(cache, O) + e.size
    BY <1>1 DEF bytes_replaced
  <2> HIDE DEF O
  <2> QED BY <1>3, <1>4, <1>5, <1>9, <2>1
<1> QED BY <1>8, <1>10, <1>11

\* A store counts what it replaces and evicts down to both bounds.
LEMMA StoreBounds ==
    ASSUME NEW r \in Readers, CacheInv, BoundInv, store(r)
    PROVE  BoundInv'
<1> DEFINE k == reader[r].key
<1>1. reader[r] \in Reader /\ k \in Keys
  BY DEF CacheInv, store, TypeOK, CountInv
<1>2. PICK size \in Sizes :
        insert(k, [val |-> reader[r].val, size |-> size, age |-> reader[r].age])
  BY DEF store
<1> DEFINE e == [val |-> reader[r].val, size |-> size, age |-> reader[r].age]
           f == [cache EXCEPT ![k] = e]
           R == Resident \cup {k}
           K == Kept(f, Stamped(k), bytes_replaced(k, e), R)
<1>3. e \in Entry /\ e # None
  BY <1>1 DEF Reader, Entry
<1>4. /\ cache' = [x \in Keys |-> IF x \in K THEN f[x] ELSE None]
      /\ newer' = {p \in Stamped(k) : p[1] \in K /\ p[2] \in K}
      /\ bytes' = bytes_replaced(k, e) - Weight(f, R \ K)
  BY <1>2 DEF insert
<1>5. IsFiniteSet(R) /\ IsFiniteSet(Units(f, R)) /\ bytes_replaced(k, e) = Weight(f, R)
  <2> HIDE DEF k, e
  <2> QED BY <1>1, <1>3, ReplacedTotal
<1>6. \A x, y \in R : x # y => <<x, y>> \in Stamped(k) \/ <<y, x>> \in Stamped(k)
  <2> HIDE DEF k
  <2> QED BY StampedTotal DEF BoundInv
<1>7. K \in SUBSET R /\ Fits(f, Weight(f, R), K, R)
  <2>1. K = Kept(f, Stamped(k), Weight(f, R), R)
    BY <1>5
  <2> HIDE DEF f, R, k, K
  <2> QED BY <1>5, <1>6, <2>1, KeptFits
<1> HIDE DEF K, e, k
<1>8. \A x \in R : f[x] # None
  BY <1>1, <1>3 DEF CacheInv, TypeOK, Resident
<1>9. Resident' = K /\ R \subseteq Keys
  BY <1>1, <1>4, <1>7, <1>8 DEF Resident
<1>10. Units(cache', K) = Units(f, K) /\ Weight(cache', K) = Weight(f, K)
  <2>1. \A x \in K : cache'[x].size = f[x].size
    BY <1>4, <1>7, <1>9
  <2> HIDE DEF f
  <2> QED BY <2>1, UnitsSame
<1> HIDE DEF f
<1>11. /\ IsFiniteSet(Units(f, K)) /\ Weight(f, K) \in Nat /\ Weight(f, R \ K) \in Nat
       /\ Weight(f, R) = Weight(f, K) + Weight(f, R \ K)
  <2> HIDE DEF R
  <2> QED BY <1>5, <1>7, WeightSplit
<1>12. IsFiniteSet(K)
  BY <1>5, <1>7, FS_Subset
<1>13. OrderInv'
  BY <1>4, <1>6, <1>7, <1>9 DEF OrderInv
<1>14. WithinBounds'
  <2>1. bytes' = Weight(cache', K)
    BY <1>4, <1>5, <1>10, <1>11
  <2>2. bytes' = Weight(f, R) - Weight(f, R \ K)
    BY <1>4, <1>5
  <2>3. Cardinality(K) <= MaxEntries /\ bytes' <= MaxBytes
    BY <1>7, <2>2 DEF Fits
  <2>4. Weight(cache', K) = Weight(cache, Resident)'
    BY <1>9 DEF Weight, Units
  <2> QED BY <1>9, <2>1, <2>3, <2>4 DEF WithinBounds
<1>15. IsFiniteSet(Units(cache, Resident))'
  BY <1>9, <1>10, <1>11
<1> QED BY <1>9, <1>12, <1>13, <1>14, <1>15 DEF BoundInv

\* A step that leaves the sizes of the resident entries alone.
LEMMA SameBounds ==
    ASSUME BoundInv, Resident' = Resident, UNCHANGED <<newer, bytes>>,
           \A k \in Resident : cache'[k].size = cache[k].size
    PROVE  BoundInv'
<1>1. Units(cache', Resident) = Units(cache, Resident)
      /\ Weight(cache', Resident) = Weight(cache, Resident)
  BY UnitsSame
<1>2. OrderInv' /\ WithinBounds'
  BY <1>1 DEF BoundInv, OrderInv, WithinBounds
<1> QED BY <1>1, <1>2 DEF BoundInv

\* Every step keeps both bounds.
LEMMA NextBounds == CacheInv /\ BoundInv /\ [Next]_vars => BoundInv'
<1> SUFFICES ASSUME CacheInv, BoundInv, [Next]_vars PROVE BoundInv'
  OBVIOUS
<1>1. ASSUME UNCHANGED <<cache, newer, bytes>> PROVE BoundInv'
  <2>1. Resident' = Resident
    BY <1>1 DEF Resident
  <2> QED BY <1>1, <2>1, SameBounds
<1>2. CASE UNCHANGED vars
  BY <1>1, <1>2 DEF vars
<1>3. ASSUME NEW r \in Readers, NEW k \in Keys, hit(r, k) \/ miss(r, k) PROVE BoundInv'
  <2>1. CASE hit(r, k)
    BY <2>1, HitBounds
  <2>2. CASE miss(r, k)
    <3>1. remove(Resident \cap {k}) /\ Resident \cap {k} \in SUBSET Resident
      BY <2>2 DEF miss
    <3> QED BY <3>1, RemoveBounds
  <2> QED BY <1>3, <2>1, <2>2
<1>4. ASSUME NEW r \in Readers, query(r) \/ query_fails(r) PROVE BoundInv'
  BY <1>1, <1>4 DEF query, query_fails
<1>5. ASSUME NEW r \in Readers, store(r) PROVE BoundInv'
  BY <1>5, StoreBounds
<1>6. ASSUME NEW t \in Traces, ingest(t) \/ purge(t) PROVE BoundInv'
  BY <1>1, <1>6 DEF ingest, purge
<1>7. ASSUME NEW t \in Traces, NEW b \in evict[t], invalidate_write(t, b) PROVE BoundInv'
  <2> DEFINE V == {k \in Resident : overlaps_bucket(k, b)}
  <2>1. remove(V) /\ V \in SUBSET Resident
    BY <1>7 DEF invalidate_write
  <2> HIDE DEF V
  <2> QED BY <2>1, RemoveBounds
<1>8. CASE sweep_expired
  <2> DEFINE V == {k \in Resident : is_expired(k)}
  <2>1. remove(V) /\ V \in SUBSET Resident
    BY <1>8 DEF sweep_expired
  <2> HIDE DEF V
  <2> QED BY <2>1, RemoveBounds
<1>9. CASE tick
  <2>1. \A k \in Keys : cache[k] # None =>
          /\ cache'[k] = [cache[k] EXCEPT !.age = Older(cache[k].age)]
          /\ cache'[k] \in Entry /\ cache'[k].size = cache[k].size
    BY <1>9 DEF CacheInv, tick, TypeOK, Entry, Ages, Older
  <2>2. \A k \in Keys : cache[k] = None => cache'[k] = None
    BY <1>9 DEF tick
  <2>3. Resident' = Resident
    BY <2>1, <2>2 DEF Resident
  <2>4. UNCHANGED <<newer, bytes>>
    BY <1>9 DEF tick
  <2>5. \A k \in Resident : cache'[k].size = cache[k].size
    BY <2>1 DEF Resident
  <2> QED BY <2>3, <2>4, <2>5, SameBounds
<1> QED BY <1>2, <1>3, <1>4, <1>5, <1>6, <1>7, <1>8, <1>9 DEF Next

\* The empty cache is within its bounds.
LEMMA InitBounds == Init => BoundInv
<1> SUFFICES ASSUME Init PROVE BoundInv
  OBVIOUS
<1>1. Resident = {} /\ bytes = 0
  BY DEF Init, Resident
<1>2. Units(cache, Resident) = {} /\ Weight(cache, Resident) = 0
  BY <1>1, UnitsNone
<1>3. IsFiniteSet({}) /\ Cardinality({}) = 0
  BY FS_EmptySet
<1> QED BY <1>1, <1>2, <1>3 DEF BoundInv, OrderInv, WithinBounds

\* bytes_resident is the sum of the resident sizes, and insert, with the
\* eviction it ends in, leaves the cache within max_entries and max_bytes.
THEOREM BoundsKept == Spec => []WithinBounds
<1>1. BoundInv => WithinBounds
  BY DEF BoundInv
<1> QED BY <1>1, InitBounds, NextBounds, CacheInvariant, PTL DEF Spec
=============================================================================
