----------------------- MODULE MaintenanceLockProofs -----------------------
(***************************************************************************)
(* Proofs about the maintenance locks, for every set of keys, callers and   *)
(* tokens, every way workers share tokens, and every timeout.               *)
(***************************************************************************)
EXTENDS MaintenanceLock, TLAPS

\* The row of a key records the live lease of a worker with a token of its
\* own.  LeaseExclusive alone is not inductive: it does not say that the row
\* an acquisition looks at knows of the lease.
RowRecordsLease ==
    \A k \in Keys, c \in Callers :
        Sole(c) /\ Live(c, k) =>
            /\ locks[k].locked_by = TokenOf[c]
            /\ lease[c][k] = locks[k].locked_at + locks[k].lock_timeout_seconds

LockInv == TypeOK /\ RowRecordsLease

-----------------------------------------------------------------------------
(* What the doors do to a row.                                              *)

\* An acquisition leaves a row that is typed and names its holder.
LEMMA StampedRow ==
    ASSUME NEW token \in Tokens, NEW timeout \in Timeouts, now \in Nat \ {0}
    PROVE  /\ stamped(token, timeout) \in Lock
           /\ stamped(token, timeout).locked_by = token
           /\ stamped(token, timeout).locked_at = now
           /\ stamped(token, timeout).lock_timeout_seconds = timeout
BY LockAssumption DEF stamped, Lock

\* A release leaves a typed row, and leaves the row of another token alone.
LEMMA ReleasedRow ==
    ASSUME NEW token \in Tokens, NEW l \in Lock,
           l.locked_by = NoOne <=> l.locked_at = 0
    PROVE  /\ released(l, token) \in Lock
           /\ released(l, token).locked_by = NoOne <=> released(l, token).locked_at = 0
           /\ l.locked_by # token => released(l, token) = l
BY LockAssumption DEF released, Lock

-----------------------------------------------------------------------------
\* The empty table satisfies the invariant.
LEMMA InitHolds == Init => LockInv
<1> SUFFICES ASSUME Init PROVE LockInv
    OBVIOUS
<1>1. NoLock \in Lock
    BY DEF NoLock, Lock
<1>2. TypeOK
    BY <1>1 DEF Init, TypeOK, NoLock
<1>3. RowRecordsLease
    BY DEF Init, RowRecordsLease, Live
<1> QED BY <1>2, <1>3 DEF LockInv

\* Every step keeps the types and the columns in lockstep.
LEMMA TypeStep == TypeOK /\ [Next]_vars => TypeOK'
<1> SUFFICES ASSUME TypeOK, [Next]_vars PROVE TypeOK'
    OBVIOUS
<1> USE DEF TypeOK
<1>1. ASSUME NEW c \in Callers, NEW k \in Keys, NEW t \in Timeouts, try_acquire_lock(c, k, t)
      PROVE  TypeOK'
  <2> DEFINE row == stamped(TokenOf[c], t)
  <2>1. TokenOf[c] \in Tokens /\ TokenOf[c] # NoOne /\ t \in Nat
      BY LockAssumption
  <2>2. row \in Lock /\ row.locked_by # NoOne /\ row.locked_at # 0
      BY <2>1, StampedRow
  <2> HIDE DEF row
  <2>3. locks' = [locks EXCEPT ![k] = row]
      BY <1>1 DEF try_acquire_lock, row
  <2>4. lease' \in [Callers -> [Keys -> Nat]]
      BY <1>1, <2>1 DEF try_acquire_lock
  <2> QED BY <1>1, <2>2, <2>3, <2>4 DEF try_acquire_lock
<1>2. ASSUME NEW c \in Callers, NEW k \in Keys, release_lock(c, k)
      PROVE  TypeOK'
  <2> DEFINE row == released(locks[k], TokenOf[c])
  <2>1. TokenOf[c] \in Tokens
      BY LockAssumption
  <2>2. row \in Lock /\ (row.locked_by = NoOne <=> row.locked_at = 0)
      BY <2>1, ReleasedRow
  <2> HIDE DEF row
  <2>3. locks' = [locks EXCEPT ![k] = row]
      BY <1>2 DEF release_lock, row
  <2>4. lease' \in [Callers -> [Keys -> Nat]]
      BY <1>2 DEF release_lock
  <2> QED BY <1>2, <2>2, <2>3, <2>4 DEF release_lock
<1>3. ASSUME NEW c \in Callers, crash(c) \/ restart(c) PROVE TypeOK'
    BY <1>3 DEF crash, restart
<1>4. CASE tick
    BY <1>4 DEF tick
<1>5. CASE UNCHANGED vars
    BY <1>5 DEF vars
<1> QED BY <1>1, <1>2, <1>3, <1>4, <1>5 DEF Next

\* Every step keeps the row of a key in agreement with a live lease.
LEMMA LeaseStep == LockInv /\ [Next]_vars => RowRecordsLease'
<1> SUFFICES ASSUME LockInv, [Next]_vars,
                    NEW q \in Keys, NEW w \in Callers, Sole(w), Live(w, q)'
             PROVE  /\ locks'[q].locked_by = TokenOf[w]
                    /\ lease'[w][q] = locks'[q].locked_at + locks'[q].lock_timeout_seconds
    BY DEF RowRecordsLease, Sole
<1>0. TypeOK /\ TokenOf[w] \in Tokens /\ TokenOf[w] # NoOne
    BY LockAssumption DEF LockInv
<1>1. ASSUME NEW c \in Callers, NEW k \in Keys, NEW t \in Timeouts, try_acquire_lock(c, k, t)
      PROVE  /\ locks'[q].locked_by = TokenOf[w]
             /\ lease'[w][q] = locks'[q].locked_at + locks'[q].lock_timeout_seconds
  <2>1. CASE k # q
    <3>1. locks'[q] = locks[q] /\ lease'[w][q] = lease[w][q] /\ now' = now
        BY <1>0, <1>1, <2>1 DEF try_acquire_lock, TypeOK
    <3> QED BY <3>1 DEF LockInv, RowRecordsLease, Live
  <2>2. CASE k = q /\ c = w
    <3>1. TokenOf[c] \in Tokens /\ t \in Nat /\ now \in Nat \ {0}
        BY <1>0, LockAssumption DEF TypeOK
    <3>2. locks'[q] = stamped(TokenOf[w], t) /\ lease'[w][q] = now + t
        BY <1>0, <1>1, <2>2 DEF try_acquire_lock, TypeOK
    <3> QED BY <2>2, <3>1, <3>2, StampedRow
  <2>3. CASE k = q /\ c # w
    \* The lease of w is live, so the row is w's and not available to c.
    <3>1. lease'[w][q] = lease[w][q] /\ now' = now
        BY <1>0, <1>1, <2>3 DEF try_acquire_lock, TypeOK
    <3>2. Live(w, q)
        BY <3>1 DEF Live
    <3>3. /\ locks[q].locked_by = TokenOf[w]
          /\ lease[w][q] = locks[q].locked_at + locks[q].lock_timeout_seconds
        BY <3>2 DEF LockInv, RowRecordsLease
    <3>4. TokenOf[c] # TokenOf[w]
        BY <2>3 DEF Sole
    <3>5. locks[q] \in Lock /\ lease[w][q] \in Nat /\ now \in Nat
        BY <1>0 DEF TypeOK
    <3>6. ~ (now > locks[q].locked_at + locks[q].lock_timeout_seconds)
        BY <3>2, <3>3, <3>5 DEF Live, Lock
    <3>7. locks[q].locked_at # 0
        BY <1>0, <3>3 DEF TypeOK
    <3>8. ~ available(locks[q], TokenOf[c])
        BY <1>0, <3>3, <3>4, <3>6, <3>7 DEF available, is_expired
    <3> QED BY <1>1, <2>3, <3>8 DEF try_acquire_lock
  <2> QED BY <2>1, <2>2, <2>3
<1>2. ASSUME NEW c \in Callers, NEW k \in Keys, release_lock(c, k)
      PROVE  /\ locks'[q].locked_by = TokenOf[w]
             /\ lease'[w][q] = locks'[q].locked_at + locks'[q].lock_timeout_seconds
  <2>1. CASE k # q
    <3>1. locks'[q] = locks[q] /\ lease'[w][q] = lease[w][q] /\ now' = now
        BY <1>0, <1>2, <2>1 DEF release_lock, TypeOK
    <3> QED BY <3>1 DEF LockInv, RowRecordsLease, Live
  <2>2. CASE k = q /\ c = w
      BY <1>0, <1>2, <2>2 DEF release_lock, Live, TypeOK
  <2>3. CASE k = q /\ c # w
    <3>1. lease'[w][q] = lease[w][q] /\ now' = now
        BY <1>0, <1>2, <2>3 DEF release_lock, TypeOK
    <3>2. /\ locks[q].locked_by = TokenOf[w]
          /\ lease[w][q] = locks[q].locked_at + locks[q].lock_timeout_seconds
        BY <3>1 DEF LockInv, RowRecordsLease, Live
    <3>3. TokenOf[c] # TokenOf[w] /\ TokenOf[c] \in Tokens
        BY <2>3, LockAssumption DEF Sole
    <3>4. released(locks[q], TokenOf[c]) = locks[q]
        BY <3>2, <3>3 DEF released
    <3>5. locks'[q] = locks[q]
        BY <1>0, <1>2, <2>3, <3>4 DEF release_lock, TypeOK
    <3> QED BY <3>1, <3>2, <3>5
  <2> QED BY <2>1, <2>2, <2>3
<1>3. ASSUME NEW c \in Callers, crash(c)
      PROVE  /\ locks'[q].locked_by = TokenOf[w]
             /\ lease'[w][q] = locks'[q].locked_at + locks'[q].lock_timeout_seconds
  <2>1. c # w
      BY <1>0, <1>3 DEF crash, Live, TypeOK
  <2>2. locks' = locks /\ lease'[w][q] = lease[w][q] /\ now' = now
      BY <1>0, <1>3, <2>1 DEF crash, TypeOK
  <2> QED BY <2>2 DEF LockInv, RowRecordsLease, Live
<1>4. CASE tick
  \* The clock only shortens what is left of a lease.
  <2>1. locks' = locks /\ lease' = lease /\ now' = now + 1
      BY <1>4 DEF tick
  <2>2. lease[w][q] \in Nat /\ now \in Nat
      BY <1>0 DEF TypeOK
  <2>3. Live(w, q)
      BY <2>1, <2>2 DEF Live
  <2> QED BY <2>1, <2>3 DEF LockInv, RowRecordsLease
<1>5. ASSUME NEW c \in Callers, restart(c)
      PROVE  /\ locks'[q].locked_by = TokenOf[w]
             /\ lease'[w][q] = locks'[q].locked_at + locks'[q].lock_timeout_seconds
    BY <1>5 DEF restart, LockInv, RowRecordsLease, Live
<1>6. CASE UNCHANGED vars
    BY <1>6 DEF vars, LockInv, RowRecordsLease, Live
<1> QED BY <1>1, <1>2, <1>3, <1>4, <1>5, <1>6 DEF Next

-----------------------------------------------------------------------------
(* The theorems.                                                            *)

\* The locks keep LockInv.
THEOREM LockInvariant == Spec => []LockInv
<1>1. LockInv /\ [Next]_vars => LockInv'
    BY TypeStep, LeaseStep DEF LockInv
<1> QED BY <1>1, InitHolds, PTL DEF Spec

\* Every reachable lock row is typed, with its nullable columns in lockstep.
THEOREM LockTypeCorrect == Spec => []TypeOK
BY LockInvariant, PTL DEF LockInv

\* No two workers with tokens of their own rely on one key's lease at once.
THEOREM LeasesExclude == Spec => []LeaseExclusive
<1>1. LockInv => LeaseExclusive
  <2> SUFFICES ASSUME LockInv, NEW k \in Keys, NEW c \in Callers, NEW d \in Callers,
                      Live(c, k), Live(d, k), Sole(c), Sole(d)
               PROVE  c = d
      BY DEF LeaseExclusive
  <2>1. locks[k].locked_by = TokenOf[c] /\ locks[k].locked_by = TokenOf[d]
      BY DEF LockInv, RowRecordsLease
  <2> QED BY <2>1 DEF Sole
<1> QED BY <1>1, LockInvariant, PTL

\* A lock leaves its token only by expiry or by a release of that token's
\* own workers: neither a steal of a live lock nor a late release of another
\* worker can do it.
THEOREM LocksLostRightly == Spec => LostOnlyByExpiryOrRelease
<1> DEFINE Right ==
      \A k \in Keys :
         locks[k].locked_by \notin {NoOne, locks'[k].locked_by} =>
            \/ now > locks[k].locked_at + locks[k].lock_timeout_seconds
            \/ \E c \in Callers : /\ TokenOf[c] = locks[k].locked_by
                                  /\ lease[c][k] # 0 /\ lease'[c][k] = 0
<1>1. ASSUME TypeOK, [Next]_vars PROVE Right
  <2> SUFFICES ASSUME NEW q \in Keys,
                      locks[q].locked_by # NoOne, locks[q].locked_by # locks'[q].locked_by
               PROVE  \/ now > locks[q].locked_at + locks[q].lock_timeout_seconds
                      \/ \E c \in Callers : /\ TokenOf[c] = locks[q].locked_by
                                            /\ lease[c][q] # 0 /\ lease'[c][q] = 0
      OBVIOUS
  <2>1. ASSUME NEW c \in Callers, NEW k \in Keys, NEW t \in Timeouts, try_acquire_lock(c, k, t)
        PROVE  now > locks[q].locked_at + locks[q].lock_timeout_seconds
    <3>1. k = q
        BY <1>1, <2>1 DEF try_acquire_lock, TypeOK
    <3>2. locks'[q].locked_by = TokenOf[c]
        BY <1>1, <2>1, <3>1 DEF try_acquire_lock, TypeOK, stamped
    <3>3. locks[q].locked_at # 0
        BY <1>1 DEF TypeOK
    <3> QED BY <2>1, <3>1, <3>2, <3>3 DEF try_acquire_lock, available, is_expired
  <2>2. ASSUME NEW c \in Callers, NEW k \in Keys, release_lock(c, k)
        PROVE  TokenOf[c] = locks[q].locked_by /\ lease[c][q] # 0 /\ lease'[c][q] = 0
    <3>1. k = q
        BY <1>1, <2>2 DEF release_lock, TypeOK
    <3>2. locks'[q] = released(locks[q], TokenOf[c])
        BY <1>1, <2>2, <3>1 DEF release_lock, TypeOK
    <3>3. TokenOf[c] = locks[q].locked_by
        BY <3>2 DEF released
    <3> QED BY <1>1, <2>2, <3>1, <3>3 DEF release_lock, TypeOK
  <2>3. ASSUME NEW c \in Callers, crash(c) \/ restart(c) PROVE FALSE
      BY <2>3 DEF crash, restart
  <2>4. CASE tick
      BY <2>4 DEF tick
  <2>5. CASE UNCHANGED vars
      BY <2>5 DEF vars
  <2> QED BY <1>1, <2>1, <2>2, <2>3, <2>4, <2>5 DEF Next
<1>2. TypeOK /\ [Next]_vars => [Right]_vars
    BY <1>1
<1> HIDE DEF Right
<1>3. Spec => [][Right]_vars
    BY <1>2, LockTypeCorrect, PTL DEF Spec
<1> QED BY <1>3 DEF LostOnlyByExpiryOrRelease, Right
=============================================================================
