----------------------- MODULE SecretsRotationProofs -----------------------
(***************************************************************************)
(* Proofs about SecretsRotation, for any secrets, keys, concurrent passes   *)
(* and restarts.                                                            *)
(*                                                                          *)
(* SecretsInv adds to the properties what they rest on: a key that a row, a *)
(* call or a pass refers to is on record, so a rotation that rolls back     *)
(* never drops its bytes; a pass holds the bytes of its target; and a pass  *)
(* that has not failed has every row under another key still ahead of it,   *)
(* unless the row was written beside it.                                    *)
(***************************************************************************)
EXTENDS SecretsRotation, TLAPS

\* What rows, calls and passes refer to is on record and, in use, loaded.
RefInv ==
    /\ \A s \in Secrets : rows[s] # None => meta[rows[s]] # "none"
    /\ \A s \in Secrets : store[s].pc = "sealed" =>
          /\ store[s].key \in Keys /\ meta[store[s].key] # "none"
          /\ store[s].key \in cache
    /\ \A j \in Jobs : job[j].pc \notin {"idle", "done"} =>
          job[j].key \in Keys /\ meta[job[j].key] # "none"
    /\ \A j \in Jobs : job[j].pc \in {"load", "chunk", "update"} => job[j].key \in cache
    /\ \A k \in minted : meta[k] # "none" /\ k \in cache
    /\ \A k \in SoftKeys : tx[k] # "none" => k \in cache

\* A secret is stored once: a row, or a row forgotten, has a finished call.
StoreInv ==
    \A s \in Secrets :
        /\ rows[s] # None \/ s \in forgotten => store[s].pc = "done"
        /\ s \in forgotten => rows[s] = None

\* A pass that has not failed: rows under another key are ahead of it, or were
\* written beside it.
PassInv ==
    \A j \in Jobs :
        /\ job[j].pc # "update" => job[j].ready = {}
        /\ Running(j) /\ ~job[j].failed =>
              \A s \in Secrets :
                  rows[s] # None /\ rows[s] # job[j].key =>
                      s \in overlap \cup job[j].todo \cup job[j].ready

SecretsInv ==
    TypeOK /\ OneActive /\ RefInv /\ StoreInv /\ PassInv /\ OnlyOverlapStrands

USE SecretsAssumption

-----------------------------------------------------------------------------
\* The empty start satisfies the invariant.
LEMMA InitInv == Init => SecretsInv
<1> SUFFICES ASSUME Init PROVE SecretsInv
  OBVIOUS
<1> USE DEF Init, Ended, NoRows
<1>1. TypeOK
  <2>1. job \in [Jobs -> Job]
    BY DEF Job
  <2>2. 0 \in 0..MaxRestarts
    OBVIOUS
  <2>3. store \in [Secrets -> Store]
    BY DEF Store
  <2>4. meta \in [Keys -> KeyState]
    BY DEF KeyState
  <2> QED BY <2>1, <2>2, <2>3, <2>4 DEF TypeOK, Keys
<1>2. OneActive
  BY DEF OneActive, Active
<1>3. RefInv /\ StoreInv /\ OnlyOverlapStrands
  BY DEF RefInv, StoreInv, OnlyOverlapStrands
<1>4. PassInv
  BY DEF PassInv, Running
<1> QED BY <1>1, <1>2, <1>3, <1>4 DEF SecretsInv

-----------------------------------------------------------------------------
\* The steps of a rotation touch one key that nothing refers to yet.
LEMMA RotateStep ==
    ASSUME NEW k \in SoftKeys, SecretsInv,
           rotate_begin(k) \/ rotate_commit(k) \/ rotate_rollback(k)
    PROVE  SecretsInv'
<1> USE DEF SecretsInv, Keys
<1>1. TypeOK'
  <2>1. CASE rotate_begin(k)
    BY <2>1 DEF rotate_begin, cached, TypeOK
  <2>2. CASE rotate_commit(k)
    BY <2>2 DEF rotate_commit, TypeOK, KeyState
  <2>3. CASE rotate_rollback(k)
    BY <2>3 DEF rotate_rollback, evicted, Active, TypeOK
  <2> QED BY <2>1, <2>2, <2>3
<1>2. OneActive'
  <2>1. CASE rotate_commit(k)
    <3>1. meta' = [meta EXCEPT ![k] = IF tx[k] = "first_use" THEN "active" ELSE "staged"]
      BY <2>1 DEF rotate_commit
    <3>2. tx[k] = "first_use" => Active = {}
      BY <2>1 DEF rotate_commit, lost_race
    <3> QED BY <3>1, <3>2 DEF TypeOK, OneActive, Active
  <2>2. CASE meta' = meta
    BY <2>2 DEF OneActive, Active
  <2> QED BY <2>1, <2>2 DEF rotate_begin, rotate_rollback
<1>3. RefInv'
  <2>1. CASE rotate_begin(k)
    BY <2>1 DEF rotate_begin, cached, TypeOK, RefInv
  <2>2. CASE rotate_commit(k)
    BY <2>2 DEF rotate_commit, TypeOK, RefInv
  <2>3. CASE rotate_rollback(k)
    <3>1. meta[k] = "none"
      BY <2>3 DEF rotate_rollback, TypeOK
    <3> QED BY <2>3, <3>1 DEF rotate_rollback, evicted, TypeOK, RefInv
  <2> QED BY <2>1, <2>2, <2>3
<1>4. StoreInv' /\ PassInv'
  BY DEF rotate_begin, rotate_commit, rotate_rollback, StoreInv, PassInv, Running
<1>5. OnlyOverlapStrands'
  <2>1. CASE rotate_commit(k)
    <3>1. meta'[k] # "retired" /\ \A x \in Keys : x # k => meta'[x] = meta[x]
      BY <2>1 DEF rotate_commit, TypeOK
    <3> QED BY <2>1, <3>1 DEF rotate_commit, OnlyOverlapStrands, TypeOK
  <2>2. CASE meta' = meta /\ rows' = rows /\ overlap' = overlap
    BY <2>2 DEF OnlyOverlapStrands
  <2> QED BY <2>1, <2>2 DEF rotate_begin, rotate_rollback
<1> QED BY <1>1, <1>2, <1>3, <1>4, <1>5

\* A store door takes the active key, and inserts under it whatever happened
\* in between.
LEMMA StoreStep ==
    ASSUME NEW s \in Secrets, SecretsInv,
           (\E k \in Keys : seal_secret(s, k)) \/ insert_secret(s) \/ forget_secret(s)
    PROVE  SecretsInv'
<1> USE DEF SecretsInv
<1>1. CASE \E k \in Keys : seal_secret(s, k)
  <2> PICK k \in Keys : seal_secret(s, k)
    BY <1>1
  <2> USE DEF seal_secret, cached
  <2>1. TypeOK' /\ OneActive' /\ OnlyOverlapStrands'
    BY DEF TypeOK, Store, OneActive, Active, OnlyOverlapStrands
  <2>2. RefInv'
    <3>1. meta[k] # "none"
      BY DEF Usable, Active
    <3> QED BY <3>1 DEF TypeOK, RefInv, Store
  <2>3. StoreInv' /\ PassInv'
    BY DEF TypeOK, Store, StoreInv, PassInv, Running
  <2> QED BY <2>1, <2>2, <2>3
<1>2. CASE insert_secret(s)
  <2> USE <1>2 DEF insert_secret
  <2>1. store[s].key \in Keys /\ meta[store[s].key] # "none"
    BY DEF RefInv
  <2>2. TypeOK' /\ OneActive'
    BY <2>1 DEF TypeOK, Store, OneActive, Active
  <2>3. RefInv' /\ StoreInv'
    BY <2>1 DEF TypeOK, Store, RefInv, StoreInv
  <2>4. PassInv'
    BY DEF TypeOK, PassInv, Running
  <2>5. OnlyOverlapStrands'
    BY DEF TypeOK, OnlyOverlapStrands
  <2> QED BY <2>2, <2>3, <2>4, <2>5
<1>3. CASE forget_secret(s)
  <2> USE <1>3 DEF forget_secret
  <2>1. TypeOK' /\ OneActive'
    BY DEF TypeOK, OneActive, Active
  <2>2. RefInv' /\ StoreInv' /\ OnlyOverlapStrands'
    BY DEF TypeOK, RefInv, StoreInv, OnlyOverlapStrands
  <2>3. PassInv'
    BY DEF TypeOK, PassInv, Running
  <2> QED BY <2>1, <2>2, <2>3
<1> QED BY <1>1, <1>2, <1>3

-----------------------------------------------------------------------------
\* A pass begins, through a migration or not, and reads the table.
LEMMA BeginStep ==
    ASSUME NEW j \in Jobs, SecretsInv,
           \/ \E k \in HardKeys : migrate_begin(j, k)
           \/ migrate_cache(j)
           \/ \E k \in Keys : reencrypt_all(j, k)
           \/ load(j)
    PROVE  SecretsInv'
<1> USE DEF SecretsInv, Becomes
<1>0. job[j] \in Job /\ job \in [Jobs -> Job]
  BY DEF TypeOK
<1>1. CASE \E k \in HardKeys : migrate_begin(j, k)
  <2> PICK k \in HardKeys : migrate_begin(j, k)
    BY <1>1
  <2>u. /\ job[j].pc = "idle" /\ meta[k] = "none"
        /\ meta' = [meta EXCEPT ![k] = "staged"]
        /\ job' = [job EXCEPT ![j] =
              [job[j] EXCEPT !.pc = "put", !.key = k]]
        /\ UNCHANGED <<cache, tx, rows, store, forgotten, minted, overlap, restarts>>
    BY DEF migrate_begin
  <2>0. k \in Keys /\ k \notin SoftKeys
    BY DEF Keys
  <2>1. job'[j] \in Job
    BY <1>0, <2>0, <2>u DEF Job
  <2>2. TypeOK'
    <3>1. job' \in [Jobs -> Job]
      BY <1>0, <2>1, <2>u
    <3>2. meta' \in [Keys -> KeyState] /\ \A x \in SoftKeys : meta'[x] = meta[x]
      BY <2>0, <2>u DEF TypeOK, KeyState, Keys
    <3> QED BY <2>u, <3>1, <3>2 DEF TypeOK
  <2>3. OneActive' /\ OnlyOverlapStrands' /\ StoreInv'
    BY <2>0, <2>u DEF TypeOK, OneActive, Active, OnlyOverlapStrands, StoreInv
  <2>4. job'[j].pc = "put" /\ job'[j].key = k /\ job'[j].ready = {}
    BY <1>0, <2>u DEF Job, PassInv
  <2>7. \A i \in Jobs : i # j => job'[i] = job[i]
    BY <1>0, <2>u
  <2>5. RefInv'
    <3>2. \A x \in Keys : meta[x] # "none" => meta'[x] # "none"
      BY <2>0, <2>u DEF TypeOK
    <3>3. meta'[k] # "none"
      BY <2>0, <2>u DEF TypeOK
    <3>4. minted \subseteq Keys /\ rows \in [Secrets -> Keys \cup {None}]
      BY DEF TypeOK, Keys
    <3>5. /\ cache' = cache /\ rows' = rows /\ store' = store /\ minted' = minted
          /\ tx' = tx
      BY <2>u
    <3>6. \A i \in Jobs : job'[i].pc \notin {"idle", "done"} =>
            job'[i].key \in Keys /\ meta'[job'[i].key] # "none"
      BY <2>0, <2>4, <2>7, <3>2, <3>3 DEF RefInv
    <3>7. \A i \in Jobs : job'[i].pc \in {"load", "chunk", "update"} =>
            job'[i].key \in cache
      BY <2>4, <2>7 DEF RefInv
    <3> QED BY <3>2, <3>4, <3>5, <3>6, <3>7 DEF RefInv
  <2>6. PassInv'
    BY <2>4, <2>7, <2>u DEF PassInv, Running
  <2> QED BY <2>2, <2>3, <2>5, <2>6
<1>2. CASE migrate_cache(j)
  <2> USE <1>2 DEF migrate_cache, cached
  <2>1. job'[j] \in Job /\ job'[j].pc = "load" /\ job'[j].key = job[j].key
    BY <1>0 DEF Job
  <2>2. job[j].key \in Keys /\ meta[job[j].key] # "none"
    BY DEF RefInv
  <2>3. TypeOK' /\ OneActive' /\ OnlyOverlapStrands' /\ StoreInv'
    BY <2>1, <2>2 DEF TypeOK, OneActive, Active, OnlyOverlapStrands, StoreInv
  <2>4. RefInv'
    BY <1>0, <2>1, <2>2 DEF RefInv
  <2>5. PassInv'
    BY <1>0, <2>1 DEF PassInv, Running
  <2> QED BY <2>3, <2>4, <2>5
<1>3. CASE \E k \in Keys : reencrypt_all(j, k)
  <2> PICK k \in Keys : reencrypt_all(j, k)
    BY <1>3
  <2>u. /\ job[j].pc = "idle" /\ meta[k] # "none" /\ k \in cache
        /\ job' = [job EXCEPT ![j] = [job[j] EXCEPT !.pc = "load", !.key = k]]
        /\ UNCHANGED <<cache, meta, tx, rows, store, forgotten, minted, overlap, restarts>>
    BY DEF reencrypt_all, loaded
  <2>1. job'[j] \in Job /\ job'[j].pc = "load" /\ job'[j].key = k /\ job'[j].ready = {}
    BY <1>0, <2>u DEF Job, PassInv
  <2>2. TypeOK' /\ OneActive' /\ OnlyOverlapStrands' /\ StoreInv'
    BY <2>1, <2>u DEF TypeOK, OneActive, Active, OnlyOverlapStrands, StoreInv
  <2>5. \A i \in Jobs : i # j => job'[i] = job[i]
    BY <1>0, <2>u
  <2>3. RefInv'
    <3>1. \A i \in Jobs : job'[i].pc \notin {"idle", "done"} =>
            job'[i].key \in Keys /\ meta[job'[i].key] # "none"
      BY <2>1, <2>5, <2>u DEF RefInv
    <3>2. \A i \in Jobs : job'[i].pc \in {"load", "chunk", "update"} =>
            job'[i].key \in cache
      BY <2>1, <2>5, <2>u DEF RefInv
    <3>3. /\ cache' = cache /\ meta' = meta /\ rows' = rows /\ store' = store
          /\ minted' = minted /\ tx' = tx
      BY <2>u
    <3> QED BY <3>1, <3>2, <3>3 DEF RefInv
  <2>4. PassInv'
    BY <2>1, <2>5, <2>u DEF PassInv, Running
  <2> QED BY <2>2, <2>3, <2>4
<1>4. CASE load(j)
  <2> USE <1>4 DEF load
  <2>1. job'[j] \in Job
    <3>1. rows \in [Secrets -> Keys \cup {None}]
      BY DEF TypeOK
    <3> QED BY <1>0, <3>1 DEF Job
  <2>2. /\ job'[j].pc = "chunk" /\ job'[j].key = job[j].key
        /\ job'[j].todo = {s \in Secrets : rows[s] # None}
    BY <1>0 DEF Job
  <2>3. TypeOK' /\ OneActive' /\ OnlyOverlapStrands' /\ StoreInv'
    BY <2>1 DEF TypeOK, OneActive, Active, OnlyOverlapStrands, StoreInv
  <2>4. RefInv'
    BY <1>0, <2>2 DEF RefInv
  <2>5. job'[j].ready = {}
    BY <1>0 DEF Job, PassInv
  <2>6. PassInv'
    BY <1>0, <2>2, <2>5 DEF PassInv, Running
  <2> QED BY <2>3, <2>4, <2>6
<1> QED BY <1>1, <1>2, <1>3, <1>4

-----------------------------------------------------------------------------
\* A chunk is prepared: its rows are ready or the pass has failed.
LEMMA PrepareStep ==
    ASSUME NEW j \in Jobs, NEW C \in SUBSET Secrets, SecretsInv, prepare(j, C)
    PROVE  SecretsInv'
<1> USE DEF SecretsInv, Becomes
<1> DEFINE ready == {s \in C : job[j].old[s] \in cache}
<1>0. job[j] \in Job /\ job \in [Jobs -> Job]
  BY DEF TypeOK
<1>1. /\ job[j].pc = "chunk" /\ C \subseteq job[j].todo
      /\ UNCHANGED <<cache, meta, tx, rows, store, forgotten, minted, overlap, restarts>>
      /\ job' = [job EXCEPT ![j] =
            [job[j] EXCEPT !.pc = IF ready = {} THEN "chunk" ELSE "update",
                           !.todo = @ \ C, !.ready = ready, !.failed = @ \/ ready # C]]
  BY DEF prepare, IsChunk
<1> HIDE DEF ready
<1>2. ready \subseteq Secrets /\ ready \subseteq C
  BY DEF ready
<1>3. /\ job'[j].pc = IF ready = {} THEN "chunk" ELSE "update"
      /\ job'[j].todo = job[j].todo \ C /\ job'[j].ready = ready
      /\ job'[j].failed = (job[j].failed \/ ready # C)
      /\ job'[j].key = job[j].key
  BY <1>0, <1>1 DEF Job
<1>4. job'[j] \in Job
  <2>1. (job[j].failed \/ ready # C) \in BOOLEAN
    OBVIOUS
  <2> QED BY <1>0, <1>1, <1>2, <2>1 DEF Job
<1>5. \A i \in Jobs : i # j => job'[i] = job[i]
  BY <1>0, <1>1
<1>6. TypeOK' /\ OneActive' /\ OnlyOverlapStrands' /\ StoreInv'
  <2>1. job' \in [Jobs -> Job]
    BY <1>0, <1>1, <1>4
  <2> QED BY <1>1, <2>1 DEF TypeOK, OneActive, Active, OnlyOverlapStrands, StoreInv
<1>7. RefInv'
  BY <1>1, <1>3, <1>5 DEF RefInv
<1>8. PassInv'
  <2>1. ASSUME ~job'[j].failed, NEW s \in Secrets, rows[s] # None, rows[s] # job[j].key
        PROVE  s \in overlap \cup job'[j].todo \cup job'[j].ready
    <3>1. ~job[j].failed /\ ready = C
      BY <1>3, <2>1
    <3>2. s \in overlap \cup job[j].todo \cup job[j].ready /\ job[j].ready = {}
      BY <1>1, <2>1, <3>1 DEF PassInv, Running
    <3> QED BY <1>3, <3>1, <3>2
  <2>2. job'[j].pc # "update" => job'[j].ready = {}
    BY <1>3
  <2> QED BY <1>1, <1>3, <1>5, <2>1, <2>2 DEF PassInv, Running
<1> QED BY <1>6, <1>7, <1>8

\* A chunk is written: rows still there move to the target.
LEMMA UpdateStep ==
    ASSUME NEW j \in Jobs, SecretsInv, update(j)
    PROVE  SecretsInv'
<1> USE DEF SecretsInv, Becomes
<1>0. job[j] \in Job /\ job \in [Jobs -> Job]
  BY DEF TypeOK
<1>1. /\ job[j].pc = "update"
      /\ UNCHANGED <<cache, meta, tx, store, forgotten, minted, restarts>>
      /\ job' = [job EXCEPT ![j] = [job[j] EXCEPT !.pc = "chunk", !.ready = {}]]
      /\ overlap \subseteq overlap' /\ overlap' \subseteq overlap \cup job[j].ready
      /\ (\E i \in Jobs : i # j /\ Running(i)) \/ meta[job[j].key] = "retired"
            => job[j].ready \subseteq overlap'
  BY DEF update
<1>2. job[j].key \in Keys /\ meta[job[j].key] # "none" /\ job[j].key \in cache
  BY <1>1 DEF RefInv
<1>3. /\ job'[j].pc = "chunk" /\ job'[j].ready = {} /\ job'[j].todo = job[j].todo
      /\ job'[j].failed = job[j].failed /\ job'[j].key = job[j].key /\ job'[j] \in Job
  BY <1>0, <1>1 DEF Job
<1>4. \A i \in Jobs : i # j => job'[i] = job[i]
  BY <1>0, <1>1
<1>5. \A s \in Secrets :
        \/ s \in job[j].ready /\ rows[s] # None /\ rows'[s] = job[j].key
        \/ (s \notin job[j].ready \/ rows[s] = None) /\ rows'[s] = rows[s]
  BY DEF update, rows_updated
<1>6. TypeOK' /\ OneActive'
  <2>1. job' \in [Jobs -> Job]
    BY <1>0, <1>1, <1>3
  <2>2. rows' \in [Secrets -> Keys \cup {None}]
    BY <1>2 DEF update, rows_updated, TypeOK
  <2>3. overlap' \subseteq Secrets
    BY <1>0, <1>1 DEF TypeOK, Job
  <2> QED BY <1>1, <2>1, <2>2, <2>3 DEF TypeOK, OneActive, Active
<1>7. RefInv'
  BY <1>1, <1>2, <1>3, <1>4, <1>5 DEF RefInv
<1>8. StoreInv'
  BY <1>1, <1>5 DEF StoreInv
<1>9. PassInv'
  <2>1. ASSUME NEW i \in Jobs, i # j, Running(i), ~job[i].failed,
               NEW s \in Secrets, rows'[s] # None, rows'[s] # job[i].key
        PROVE  s \in overlap' \cup job[i].todo \cup job[i].ready
    BY <1>1, <1>5, <2>1 DEF PassInv
  <2>2. ASSUME ~job[j].failed, NEW s \in Secrets, rows'[s] # None, rows'[s] # job[j].key
        PROVE  s \in overlap' \cup job[j].todo
    <3>1. s \notin job[j].ready /\ rows'[s] = rows[s]
      BY <1>5, <2>2
    <3> QED BY <1>1, <2>2, <3>1 DEF PassInv, Running
  <2> QED BY <1>3, <1>4, <2>1, <2>2 DEF PassInv, Running
<1>10. OnlyOverlapStrands'
  BY <1>1, <1>5 DEF OnlyOverlapStrands
<1> QED BY <1>6, <1>7, <1>8, <1>9, <1>10

\* A pass ends; a clean one retires the other keys, and what is left under
\* them was written beside it.
LEMMA FinishStep ==
    ASSUME NEW j \in Jobs, SecretsInv, finish(j) \/ job_fails(j)
    PROVE  SecretsInv'
<1> USE DEF SecretsInv, Becomes, Return
<1>0. job[j] \in Job /\ job \in [Jobs -> Job]
  BY DEF TypeOK
<1>1. /\ UNCHANGED <<cache, tx, rows, store, forgotten, minted, overlap, restarts>>
      /\ job' = [job EXCEPT ![j] = Ended]
  BY DEF finish, job_fails
<1>2. /\ job'[j].pc = "done" /\ job'[j].ready = {} /\ job'[j] \in Job
      /\ job' \in [Jobs -> Job] /\ \A i \in Jobs : i # j => job'[i] = job[i]
  BY <1>0, <1>1 DEF Ended, NoRows, Job
<1>3. PassInv' /\ StoreInv'
  BY <1>1, <1>2 DEF PassInv, Running, StoreInv
<1>4. CASE meta' = meta
  BY <1>1, <1>2, <1>3, <1>4 DEF TypeOK, OneActive, Active, RefInv, OnlyOverlapStrands
<1>5. CASE finish(j) /\ clean(j)
  <2>1. /\ job[j].pc = "chunk" /\ job[j].todo = {} /\ job[j].ready = {} /\ ~job[j].failed
        /\ meta' = flipped(job[j].key)
    BY <1>5 DEF finish, clean, PassInv
  <2>2. \A x \in Keys :
          /\ meta'[x] = "none" <=> meta[x] = "none"
          /\ meta'[x] = "active" => x = job[j].key
          /\ meta'[x] = "retired" => x # job[j].key \/ meta[x] = "retired"
    BY <2>1 DEF flipped, TypeOK, KeyState
  <2>3. meta' \in [Keys -> KeyState]
    BY <2>1 DEF flipped, TypeOK, KeyState
  <2>4. TypeOK'
    BY <1>1, <1>2, <2>2, <2>3 DEF TypeOK, Keys
  <2>5. OneActive'
    BY <2>2 DEF OneActive, Active
  <2>6. RefInv'
    BY <1>1, <1>2, <2>2 DEF RefInv, TypeOK, Keys
  <2>7. OnlyOverlapStrands'
    <3>1. ASSUME NEW s \in Secrets, rows[s] # None, meta'[rows[s]] = "retired"
          PROVE  s \in overlap
      <4>1. rows[s] \in Keys
        BY <3>1 DEF TypeOK
      <4>2. CASE rows[s] # job[j].key
        BY <2>1, <3>1, <4>2 DEF PassInv, Running
      <4>3. CASE meta[rows[s]] = "retired"
        BY <3>1, <4>3 DEF OnlyOverlapStrands
      <4> QED BY <2>2, <3>1, <4>1, <4>2, <4>3
    <3> QED BY <1>1, <3>1 DEF OnlyOverlapStrands
  <2> QED BY <1>3, <2>4, <2>5, <2>6, <2>7
<1> QED BY <1>4, <1>5 DEF finish, job_fails

\* A restart forgets the bytes and the calls, never a row.
LEMMA RestartStep == SecretsInv /\ restart => SecretsInv'
<1> SUFFICES ASSUME SecretsInv, restart PROVE SecretsInv'
  OBVIOUS
<1> USE DEF SecretsInv, restart
<1>1. \A j \in Jobs : /\ job'[j] \in Job /\ job'[j].pc \in {"idle", "done"}
                     /\ job'[j].ready = {}
  <2> TAKE j \in Jobs
  <2>1. job[j] \in Job
    BY DEF TypeOK
  <2>2. CASE job[j].pc \in {"idle", "done"}
    BY <2>1, <2>2 DEF PassInv
  <2>3. CASE job[j].pc \notin {"idle", "done"}
    <3>1. job'[j] = Ended
      BY <2>3
    <3> QED BY <2>1, <3>1 DEF Ended, NoRows, Job
  <2> QED BY <2>2, <2>3
<1>2. job' \in [Jobs -> Job]
  BY <1>1
<1>3. store' \in [Secrets -> Store] /\ \A s \in Secrets : store'[s].pc # "sealed"
  BY DEF TypeOK, Store
<1>4. TypeOK'
  <2>1. restarts' \in 0..MaxRestarts
    <3>1. restarts \in Nat /\ restarts < MaxRestarts /\ restarts' = restarts + 1
      BY DEF TypeOK
    <3> QED BY <3>1
  <2>2. tx' \in [SoftKeys -> {"none", "first_use", "staged"}]
    OBVIOUS
  <2>3. \A k \in SoftKeys : tx'[k] = "none"
    OBVIOUS
  <2>4. /\ cache' = {} /\ minted' = {} /\ meta' = meta /\ rows' = rows
        /\ forgotten' = forgotten /\ overlap' = overlap
    OBVIOUS
  <2> HIDE DEF restart
  <2> QED BY <1>2, <1>3, <2>1, <2>2, <2>3, <2>4 DEF TypeOK
<1>5. OneActive' /\ OnlyOverlapStrands'
  BY DEF OneActive, Active, OnlyOverlapStrands
<1>6. RefInv'
  BY <1>1, <1>3 DEF RefInv
<1>7. StoreInv'
  BY DEF StoreInv, TypeOK, Store
<1>8. PassInv'
  BY <1>1 DEF PassInv, Running
<1> QED BY <1>4, <1>5, <1>6, <1>7, <1>8

\* A stuttering step changes nothing the invariant reads.
LEMMA StutterStep == SecretsInv /\ UNCHANGED vars => SecretsInv'
BY DEF SecretsInv, vars, TypeOK, OneActive, Active, RefInv, StoreInv, PassInv, Running,
       OnlyOverlapStrands

\* Every step keeps the invariant.
LEMMA NextInv == SecretsInv /\ [Next]_vars => SecretsInv'
<1> SUFFICES ASSUME SecretsInv, Next PROVE SecretsInv'
  BY StutterStep
<1>1. CASE \E k \in SoftKeys : rotate_begin(k) \/ rotate_commit(k) \/ rotate_rollback(k)
  BY <1>1, RotateStep
<1>2. CASE \E s \in Secrets : \/ \E k \in Keys : seal_secret(s, k)
                              \/ insert_secret(s)
                              \/ forget_secret(s)
  BY <1>2, StoreStep
<1>3. CASE \E j \in Jobs : JobStep(j)
  BY <1>3, BeginStep, PrepareStep, UpdateStep, FinishStep DEF JobStep
<1>4. CASE restart
  BY <1>4, RestartStep
<1> QED BY <1>1, <1>2, <1>3, <1>4 DEF Next

-----------------------------------------------------------------------------
\* The inductive invariant holds in every reachable state.
THEOREM SecretsInvariant == Spec => []SecretsInv
BY InitInv, NextInv, PTL DEF Spec

\* Every table and local of the secrets service is typed, and a key is not on
\* record while its first transaction is open.
THEOREM SecretsTypeCorrect == Spec => []TypeOK
BY SecretsInvariant, PTL DEF SecretsInv

\* rotate_master_key and reencrypt_all keep at most one master key active,
\* for any number of first uses and passes at once.
THEOREM AtMostOneActive == Spec => []OneActive
BY SecretsInvariant, PTL DEF SecretsInv

\* A software key on record since the start has its bytes in the cache, even
\* when rotations lose their race and evict.
THEOREM RecordedKeysStayLoaded == Spec => []RecordedKeysLoaded
<1>1. SecretsInv => RecordedKeysLoaded
  BY DEF SecretsInv, RefInv, RecordedKeysLoaded
<1> QED BY <1>1, SecretsInvariant, PTL

\* A secret forget_secret deleted never returns, whatever pass had read it.
THEOREM ForgottenNeverReturns == Spec => []ForgottenStaysGone
<1>1. SecretsInv => ForgottenStaysGone
  BY DEF SecretsInv, TypeOK, StoreInv, ForgottenStaysGone
<1> QED BY <1>1, SecretsInvariant, PTL

\* reencrypt_all leaves a row under a retired key only when the row was written
\* beside a running pass or under a key retired before.
THEOREM StrandedOnlyByOverlap == Spec => []OnlyOverlapStrands
BY SecretsInvariant, PTL DEF SecretsInv

\* Within one life of the process a secret that can be read stays readable
\* until it is forgotten.
THEOREM ReadableUntilRestart == Spec => ReadableStaysReadable
<1>1. SecretsInv /\ [Next]_vars =>
        [restarts' = restarts =>
            \A s \in Secrets : Opens(s) /\ rows'[s] # None => Opens(s)']_vars
  <2> SUFFICES ASSUME SecretsInv, Next, restarts' = restarts,
                      NEW s \in Secrets, rows[s] \in cache, rows'[s] # None
               PROVE  rows'[s] \in cache'
    BY DEF Opens
  <2> USE DEF SecretsInv
  <2>0. rows[s] \in Keys /\ rows[s] # None /\ meta[rows[s]] # "none"
    BY DEF TypeOK, RefInv
  <2>1. CASE \E k \in SoftKeys : rotate_begin(k) \/ rotate_commit(k) \/ rotate_rollback(k)
    BY <2>0, <2>1 DEF rotate_begin, rotate_commit, rotate_rollback, cached, evicted, TypeOK
  <2>2. CASE \E x \in Secrets : \/ \E k \in Keys : seal_secret(x, k)
                                \/ insert_secret(x)
                                \/ forget_secret(x)
    BY <2>2 DEF seal_secret, insert_secret, forget_secret, cached, TypeOK, RefInv
  <2>3. CASE \E j \in Jobs : JobStep(j)
    <3> PICK j \in Jobs : JobStep(j)
      BY <2>3
    <3>1. CASE update(j)
      BY <3>1 DEF update, rows_updated, RefInv
    <3>2. CASE ~update(j)
      <4>1. rows' = rows /\ cache \subseteq cache'
        <5>1. CASE \E k \in HardKeys : migrate_begin(j, k)
          BY <5>1 DEF migrate_begin
        <5>2. CASE migrate_cache(j)
          BY <5>2 DEF migrate_cache, cached
        <5>3. CASE \E k \in Keys : reencrypt_all(j, k)
          BY <5>3 DEF reencrypt_all
        <5>4. CASE load(j) \/ finish(j) \/ job_fails(j)
          BY <5>4 DEF load, finish, job_fails
        <5>5. CASE \E C \in SUBSET Secrets : prepare(j, C)
          BY <5>5 DEF prepare
        <5> QED BY <3>2, <5>1, <5>2, <5>3, <5>4, <5>5 DEF JobStep
      <4> QED BY <4>1
    <3> QED BY <3>1, <3>2
  <2>4. CASE restart
    BY <2>4 DEF restart, TypeOK
  <2> QED BY <2>1, <2>2, <2>3, <2>4 DEF Next
<1> QED BY <1>1, SecretsInvariant, PTL DEF Spec, ReadableStaysReadable
=============================================================================
