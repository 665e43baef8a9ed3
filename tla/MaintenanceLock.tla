-------------------------- MODULE MaintenanceLock --------------------------
(***************************************************************************)
(* The maintenance locks of src/maintenance_locks: one row per lock_key,    *)
(* taken by a single UPSERT whose WHERE clause admits a free row, a row of  *)
(* the same locked_by and an expired row, and given back by an UPDATE that  *)
(* matches locked_by.  Every door is one statement (or one IMMEDIATE        *)
(* transaction), so every door is one step.                                 *)
(*                                                                          *)
(* The callers (maintenance workers of the host) are external: a caller     *)
(* that was given the lock works until it releases it or dies, whether or   *)
(* not its lease has expired.                                               *)
(***************************************************************************)
EXTENDS Naturals

CONSTANTS
    Keys,       \* lock_key values
    Callers,    \* maintenance workers
    Tokens,     \* locked_by values
    TokenOf,    \* the locked_by a worker uses; two workers may share one
    NoOne,      \* locked_by IS NULL
    Timeouts,   \* timeout_seconds a caller may ask for
    MaxTime     \* bound on the clock

ASSUME LockAssumption ==
    /\ NoOne \notin Tokens
    /\ TokenOf \in [Callers -> Tokens]
    /\ Timeouts \subseteq Nat \ {0}
    /\ MaxTime \in Nat \ {0}

VARIABLES
    locks,      \* the table cirislens_maintenance_locks
    lease,      \* when the lease a worker was last given ends; 0 for none
    alive,      \* the workers that run
    now         \* the database's clock

vars == <<locks, lease, alive, now>>

-----------------------------------------------------------------------------
\* locked_at 0 is NULL; a key with lock_timeout_seconds 0 has no row yet (the
\* schema's CHECK keeps a stored one above 0).
Lock == [locked_by : Tokens \cup {NoOne}, locked_at : Nat, lock_timeout_seconds : Nat]

NoLock == [locked_by |-> NoOne, locked_at |-> 0, lock_timeout_seconds |-> 0]

\* The two nullable columns move in lockstep.
TypeOK ==
    /\ locks \in [Keys -> Lock]
    /\ \A k \in Keys : locks[k].locked_by = NoOne <=> locks[k].locked_at = 0
    /\ lease \in [Callers -> [Keys -> Nat]]
    /\ alive \subseteq Callers
    /\ now \in Nat \ {0}

Init ==
    /\ locks = [k \in Keys |-> NoLock]
    /\ lease = [c \in Callers |-> [k \in Keys |-> 0]]
    /\ alive = Callers
    /\ now = 1

-----------------------------------------------------------------------------
\* MaintenanceLock::is_expired; the WHERE clause says the same in SQL.
is_expired(l) ==
    \/ l.locked_by = NoOne
    \/ l.locked_at = 0
    \/ now > l.locked_at + l.lock_timeout_seconds

\* Fault: no lock is ever taken from its holder.
available_if_free(l, token) == l.locked_by = NoOne \/ l.locked_by = token

\* Fault: a lock can be taken at the last instant of its lease.
available_early(l, token) ==
    \/ is_expired(l)
    \/ l.locked_by = token
    \/ now >= l.locked_at + l.lock_timeout_seconds

available(l, token) == is_expired(l) \/ l.locked_by = token

stamped(token, timeout) ==
    [locked_by |-> token, locked_at |-> now, lock_timeout_seconds |-> timeout]

\* A refused attempt (no row changed, None returned) changes nothing.
try_acquire_lock(c, k, timeout) ==
    /\ c \in alive
    /\ available(locks[k], TokenOf[c])
    /\ locks' = [locks EXCEPT ![k] = stamped(TokenOf[c], timeout)]
    /\ lease' = [lease EXCEPT ![c][k] = now + timeout]
    /\ UNCHANGED <<alive, now>>

\* Fault: the UPDATE matches the key alone.
released_any(l, token) == [l EXCEPT !.locked_by = NoOne, !.locked_at = 0]

released(l, token) ==
    IF l.locked_by = token
    THEN [l EXCEPT !.locked_by = NoOne, !.locked_at = 0]
    ELSE l

\* The worker is done; a lock it has lost in the meantime is left alone.
release_lock(c, k) ==
    /\ lease[c][k] # 0
    /\ locks' = [locks EXCEPT ![k] = released(locks[k], TokenOf[c])]
    /\ lease' = [lease EXCEPT ![c][k] = 0]
    /\ UNCHANGED <<alive, now>>

\* External: a worker dies without releasing anything, and may come back
\* with no memory of what it held.
crash(c) ==
    /\ c \in alive
    /\ alive' = alive \ {c}
    /\ lease' = [lease EXCEPT ![c] = [k \in Keys |-> 0]]
    /\ UNCHANGED <<locks, now>>

restart(c) ==
    /\ c \notin alive
    /\ alive' = alive \cup {c}
    /\ UNCHANGED <<locks, lease, now>>

\* External: the clock of the database, which does not go back.
tick ==
    /\ now < MaxTime
    /\ now' = now + 1
    /\ UNCHANGED <<locks, lease, alive>>

Acquire(k) == \E c \in Callers, t \in Timeouts : try_acquire_lock(c, k, t)

Next ==
    \/ \E c \in Callers, k \in Keys, t \in Timeouts : try_acquire_lock(c, k, t)
    \/ \E c \in Callers, k \in Keys : release_lock(c, k)
    \/ \E c \in Callers : crash(c) \/ restart(c)
    \/ tick

Spec == Init /\ [][Next]_vars

\* Time passes, and as long as some worker runs a key is tried again.  No
\* worker that died need come back.
FairSpec == Spec /\ WF_vars(tick) /\ \A k \in Keys : WF_vars(Acquire(k))

-----------------------------------------------------------------------------
(* What the runs establish.                                                 *)

\* A worker whose token nobody else uses.
Sole(c) == \A d \in Callers : TokenOf[d] = TokenOf[c] => d = c

\* A lease the worker may still rely on by the database's clock.
Live(c, k) == lease[c][k] # 0 /\ now <= lease[c][k]

\* Two workers with tokens of their own never both rely on a lease of one
\* key, whatever refreshes, steals, late releases, deaths, and workers that
\* share a token come in between.
LeaseExclusive ==
    \A k \in Keys, c, d \in Callers :
        Live(c, k) /\ Live(d, k) /\ Sole(c) /\ Sole(d) => c = d

\* A lock leaves its token only by expiry or by a worker of that token that
\* releases: a late release after a steal takes nothing from the new holder.
LostOnlyByExpiryOrRelease ==
    [][\A k \in Keys :
         locks[k].locked_by \notin {NoOne, locks'[k].locked_by} =>
            \/ now > locks[k].locked_at + locks[k].lock_timeout_seconds
            \/ \E c \in Callers : /\ TokenOf[c] = locks[k].locked_by
                                  /\ lease[c][k] # 0 /\ lease'[c][k] = 0]_vars

\* A lock no running worker knows of, whose lease ends within the bound of
\* the clock.
Orphaned(k) ==
    /\ locks[k].locked_by # NoOne
    /\ locks[k].locked_at + locks[k].lock_timeout_seconds < MaxTime
    /\ \A c \in Callers : lease[c][k] = 0

\* maintenance_locks/mod.rs: "A crashed holder's lock is reclaimed
\* automatically once lock_timeout_seconds elapses": with no sweep of the
\* table, an orphaned lock still finds a new holder while a worker runs.
Reclaimed ==
    \A k \in Keys :
        Orphaned(k) ~> (alive = {} \/ \E c \in Callers : lease[c][k] # 0)
=============================================================================
