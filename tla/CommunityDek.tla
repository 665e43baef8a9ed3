---------------------------- MODULE CommunityDek ----------------------------
(***************************************************************************)
(* The community DEK cascade of src/federation/community_dek.rs over the    *)
(* SQLite tables it writes: one community, this node its only minter.  A    *)
(* call of encrypt_and_cascade_community reads the current epoch, resolves  *)
(* the roster, rotates when somebody has left, recovers or mints the        *)
(* epoch's key, wraps it to the roster, seals, stores and binds; every      *)
(* await between two of these is a point where another call, a removal, an  *)
(* operator or the retention sweep may run, and where the call may die.     *)
(*                                                                          *)
(* A member stands for one recipient device.  The roster fold, the crypto   *)
(* and the holding claims are external: a member's latest event decides,    *)
(* a key is known by the call that drew it, a retraction works or fails.    *)
(***************************************************************************)
EXTENDS Naturals

CONSTANTS
    Members,    \* recipient devices
    Calls,      \* calls of encrypt_and_cascade_community
    Attempts,   \* ATTEMPTS of its retry loop
    Skew,       \* COMMUNITY_REVOCATION_MAX_FUTURE_SKEW_SECS
    Lag,        \* bound: how late a removal reaches this node
    Retains,    \* retain_past_epochs values an operator sets; None retains all
    Movers,     \* bound: the members whose allow list changes
    Rejoiners,  \* bound: the members that may be widened back in
    Operated,   \* bound: the epochs an operator works on by hand
    MaxEpoch,   \* bound on the epoch counter
    MaxTime,    \* bound on the clock
    None

ASSUME DekAssumption ==
    /\ Attempts \in Nat \ {0}
    /\ Skew \in Nat
    /\ Lag \in Nat
    /\ MaxEpoch \in Nat
    /\ MaxTime \in Nat
    /\ Retains \subseteq Nat \cup {None}
    /\ None \notin Nat
    /\ None \notin Calls \X (1..Attempts)

VARIABLES
    now,        \* the node's clock
    left,       \* effective_at of the removal in force for a member, or None
    removals,   \* the removals on record, <<member, effective_at>>
    kept_off,   \* members whose allow list keeps this room off the device
    pointer,    \* federation_community_dek_epoch.epoch
    dek,        \* federation_community_dek, a row per epoch
    grants,     \* federation_community_dek_member_grants, per epoch and member
    blobs,      \* federation_blobs with federation_community_blob_epoch
    call,       \* the locals of a call
    sweep,      \* the locals of sweep_rotated_epochs
    cut,        \* history: the epoch a removal effective at once rotated to
    own         \* history: grants put by a call that had itself rotated

vars == <<now, left, removals, kept_off, pointer, dek, grants, blobs, call, sweep, cut, own>>

roster_vars == <<now, left, removals, kept_off, cut>>

-----------------------------------------------------------------------------
Epochs == 0..MaxEpoch

\* A fresh DEK and the ciphertext row it seals are both named by the attempt
\* that makes them.
Seals == Calls \X (1..Attempts)

Steps == {"read", "resolve", "rotate", "retire_removal", "past", "disable", "retire_leaver",
          "state", "get", "put", "reread", "already", "wrap", "bind", "delete", "cleanup"}

\* done: returned, or gone with nothing stored; dead: gone with a row stored.
Ends == {"done", "dead"}

States == {"absent", "enabled", "disabled", "destroyed"}

Dek == [state : States, key : Seals \cup {None}, minted_at : Nat]

\* epoch None: no binding.
Blob == [stored : BOOLEAN, key : Seals \cup {None}, epoch : Epochs \cup {None},
         evicted : BOOLEAN]

Call == [pc : Steps \cup Ends, attempt : 1..Attempts, epoch : Epochs, next : Epochs,
         members : SUBSET Members, removed_at : Nat \cup {None}, past : SUBSET Epochs,
         targets : SUBSET Members, key : Seals \cup {None}, rotated : BOOLEAN]

Sweep == [pc : {"idle", "disable", "evict", "count", "destroy"}, current : Epochs,
          retain : Nat \cup {None}, todo : SUBSET Epochs, enabled : SUBSET Epochs]

\* A key is on record exactly between the mint and the destroy.
TypeOK ==
    /\ now \in Nat
    /\ left \in [Members -> Nat \cup {None}]
    /\ removals \subseteq Members \X Nat
    /\ kept_off \subseteq Members
    /\ pointer \in Epochs
    /\ dek \in [Epochs -> Dek]
    /\ \A e \in Epochs : dek[e].key = None <=> dek[e].state \in {"absent", "destroyed"}
    /\ grants \in [Epochs -> [Members -> Seals \cup {None}]]
    /\ blobs \in [Seals -> Blob]
    /\ call \in [Calls -> Call]
    /\ sweep \in Sweep
    /\ cut \in [Members -> Nat \cup {None}]
    /\ own \subseteq Epochs \X Members

\* A call that holds nothing yet, or nothing any more: locals no step reads
\* again are given their first value.
Locals(pc, attempt) ==
    [pc |-> pc, attempt |-> attempt, epoch |-> 0, next |-> 0, members |-> {},
     removed_at |-> None, past |-> {}, targets |-> {}, key |-> None, rotated |-> FALSE]

Idle == [pc |-> "idle", current |-> 0, retain |-> None, todo |-> {}, enabled |-> {}]

Init ==
    /\ now = 0
    /\ left = [m \in Members |-> None]
    /\ removals = {}
    /\ kept_off = {}
    /\ pointer = 0
    /\ dek = [e \in Epochs |-> [state |-> "absent", key |-> None, minted_at |-> 0]]
    /\ grants = [e \in Epochs |-> [m \in Members |-> None]]
    /\ blobs = [b \in Seals |-> [stored |-> FALSE, key |-> None, epoch |-> None,
                                 evicted |-> FALSE]]
    /\ call = [c \in Calls |-> Locals("read", 1)]
    /\ sweep = Idle
    /\ cut = [m \in Members |-> None]
    /\ own = {}

-----------------------------------------------------------------------------
(* The roster.                                                              *)

Removed(m) == left[m] # None /\ left[m] <= now

\* resolve_community_members with partition_roster: the devices of members on
\* the roster that the owner's allow list lets hold the room's key.
Recipients == {m \in Members : ~Removed(m) /\ m \notin kept_off}

InEffect == {r[2] : r \in {q \in removals : q[2] <= now}}

\* latest_removed_at: the newest removal already in effect, None for none.
IsLatest(t) ==
    IF t = None THEN InEffect = {} ELSE t \in InEffect /\ \A u \in InEffect : u <= t

tick ==
    /\ now < MaxTime
    /\ now' = now + 1
    /\ UNCHANGED <<left, removals, kept_off, pointer, dek, grants, blobs, call, sweep, cut, own>>

\* Fault: the removal is recorded and the counter stays.
unrotated == pointer

\* The counter after the bump that is part of the revocation's transaction.
rotated_pointer == pointer + 1

\* store_planned_community_revocation: the row and the bump in one
\* transaction; a repeat of a removal on record changes nothing.
revoke_member(m, effective_at) ==
    /\ left[m] = None /\ <<m, effective_at>> \notin removals
    /\ pointer < MaxEpoch
    /\ now <= effective_at + Lag
    /\ effective_at <= now + Skew
    /\ left' = [left EXCEPT ![m] = effective_at]
    /\ removals' = removals \cup {<<m, effective_at>>}
    /\ pointer' = rotated_pointer
    /\ cut' = [cut EXCEPT ![m] = IF effective_at <= now THEN pointer' ELSE None]
    /\ UNCHANGED <<now, kept_off, dek, grants, blobs, call, sweep, own>>

\* store_planned_community_widening: the member is on the roster again.
widen_member(m) ==
    /\ m \in Rejoiners /\ Removed(m)
    /\ left' = [left EXCEPT ![m] = None]
    /\ cut' = [cut EXCEPT ![m] = None]
    /\ UNCHANGED <<now, removals, kept_off, pointer, dek, grants, blobs, call, sweep, own>>

\* External: the owner's allow list for the device changes.
set_allow_list(m) ==
    /\ m \in Movers
    /\ kept_off' = IF m \in kept_off THEN kept_off \ {m} ELSE kept_off \cup {m}
    /\ UNCHANGED <<now, left, removals, pointer, dek, grants, blobs, call, sweep, cut, own>>

-----------------------------------------------------------------------------
(* The key-state door.  Its reads only choose the message: the conditional  *)
(* UPDATE behind them refuses in the same cases.                            *)

Held(e) == {m \in Members : grants[e][m] # None}

Live(e) == {b \in Seals : blobs[b].epoch = e /\ ~blobs[b].evicted}

\* Fault: the pointer's epoch can be retired too.
can_retire_any(e) == dek[e].state \in {"enabled", "disabled"}

can_retire(e) == dek[e].state \in {"enabled", "disabled"} /\ e # pointer

\* Fault: the statement trusts the count read before it.
can_destroy_any(e) == can_retire(e)

can_destroy(e) == can_retire(e) /\ Live(e) = {}

with_state(e, s) == [dek EXCEPT ![e].state = s]

\* The wrap goes with the state; minted_at stays.
without_key(e) == [dek EXCEPT ![e] = [@ EXCEPT !.state = "destroyed", !.key = None]]

no_grants(e) == [grants EXCEPT ![e] = [m \in Members |-> None]]

\* Engine::community_dek_set_key_state, the operator's way to the door.
enable_epoch(e) ==
    /\ dek[e].state = "disabled"
    /\ dek' = with_state(e, "enabled")
    /\ UNCHANGED <<pointer, grants, blobs, call, sweep, own, roster_vars>>

disable_epoch(e) ==
    /\ dek[e].state = "enabled" /\ can_retire(e)
    /\ dek' = with_state(e, "disabled")
    /\ UNCHANGED <<pointer, grants, blobs, call, sweep, own, roster_vars>>

destroy_epoch(e) ==
    /\ can_destroy(e)
    /\ dek' = without_key(e)
    /\ grants' = no_grants(e)
    /\ UNCHANGED <<pointer, blobs, call, sweep, own, roster_vars>>

-----------------------------------------------------------------------------
(* encrypt_and_cascade_community, one action per await.                     *)

At(c, pc) == call[c].pc = pc

Becomes(c, locals) == call' = [call EXCEPT ![c] = locals]

Goto(c, pc) == Becomes(c, [call[c] EXCEPT !.pc = pc])

\* The call returns, with a result or an error.
Return(c) == Becomes(c, Locals("done", 1))

\* community_dek_current_epoch at the head of the retry loop.
read_epoch(c) ==
    /\ At(c, "read")
    /\ Becomes(c, [call[c] EXCEPT !.pc = "resolve", !.epoch = pointer])
    /\ UNCHANGED <<pointer, dek, grants, blobs, sweep, own, roster_vars>>

resolve_community_members(c) ==
    /\ At(c, "resolve")
    /\ \E t \in InEffect \cup {None} :
          /\ IsLatest(t)
          /\ Becomes(c, [call[c] EXCEPT !.pc = "rotate", !.members = Recipients,
                                        !.removed_at = t])
    /\ UNCHANGED <<pointer, dek, grants, blobs, sweep, own, roster_vars>>

\* community_dek_bump_epoch on behalf of a call; pc names the caller's next step.
bump_epoch(c, pc) ==
    /\ pointer < MaxEpoch
    /\ pointer' = pointer + 1
    /\ Becomes(c, [call[c] EXCEPT !.pc = pc, !.next = pointer', !.rotated = TRUE])

\* A removal newer than the mint of the epoch this call read.
MintedBeforeRemoval(c, e) ==
    /\ call[c].removed_at # None
    /\ dek[e].state # "absent"
    /\ call[c].removed_at > dek[e].minted_at

rotate_on_removal(c) ==
    /\ At(c, "rotate")
    /\ IF MintedBeforeRemoval(c, call[c].epoch)
       THEN bump_epoch(c, "retire_removal")
       ELSE Goto(c, "past") /\ UNCHANGED pointer
    /\ UNCHANGED <<dek, grants, blobs, sweep, own, roster_vars>>

\* set_key_state(epoch, Disabled) after the bump; a refusal ends the call.
retire_epoch(c, from, to) ==
    LET e == call[c].epoch IN
    /\ At(c, from)
    /\ IF can_retire(e)
       THEN /\ dek' = with_state(e, "disabled")
            /\ Becomes(c, [call[c] EXCEPT !.pc = to, !.epoch = call[c].next, !.next = 0])
       ELSE Return(c) /\ UNCHANGED dek
    /\ UNCHANGED <<pointer, grants, blobs, sweep, own, roster_vars>>

\* The enabled epochs already rotated past and minted before the removal.
PastToDisable(c) ==
    {p \in Epochs : p < call[c].epoch /\ dek[p].state = "enabled" /\ MintedBeforeRemoval(c, p)}

list_past_epochs(c) ==
    /\ At(c, "past")
    /\ Becomes(c, [call[c] EXCEPT !.pc = "disable", !.removed_at = None,
                                  !.past = PastToDisable(c)])
    /\ UNCHANGED <<pointer, dek, grants, blobs, sweep, own, roster_vars>>

\* community_dek_epochs lists in ascending order.
IsOldest(e, S) == e \in S /\ \A q \in S : e <= q

disable_past_epoch(c, p) ==
    /\ At(c, "disable") /\ IsOldest(p, call[c].past)
    /\ IF can_retire(p)
       THEN /\ dek' = with_state(p, "disabled")
            /\ Becomes(c, [call[c] EXCEPT !.past = @ \ {p}])
       ELSE Return(c) /\ UNCHANGED dek
    /\ UNCHANGED <<pointer, grants, blobs, sweep, own, roster_vars>>

\* A recipient that left the fan-out holds this epoch's key: rotate.
rotate_on_leaver(c) ==
    /\ At(c, "disable") /\ call[c].past = {}
    /\ IF Held(call[c].epoch) \subseteq call[c].members
       THEN Goto(c, "state") /\ UNCHANGED pointer
       ELSE bump_epoch(c, "retire_leaver")
    /\ UNCHANGED <<dek, grants, blobs, sweep, own, roster_vars>>

\* Never seal under a non-enabled epoch; an absent one is a first mint.
check_key_state(c) ==
    /\ At(c, "state")
    /\ IF dek[call[c].epoch].state \in {"absent", "enabled"}
       THEN Goto(c, "get") ELSE Return(c)
    /\ UNCHANGED <<pointer, dek, grants, blobs, sweep, own, roster_vars>>

get_self_retention(c) ==
    LET key == dek[call[c].epoch].key IN
    /\ At(c, "get")
    /\ IF key = None
       THEN Goto(c, "put")
       ELSE Becomes(c, [call[c] EXCEPT !.pc = "already", !.key = key])
    /\ UNCHANGED <<pointer, dek, grants, blobs, sweep, own, roster_vars>>

Minted(c) == [state |-> "enabled", key |-> <<c, call[c].attempt>>, minted_at |-> now]

\* Fault: the row is replaced instead of left alone.
retention_overwritten(c, e) == [dek EXCEPT ![e] = Minted(c)]

\* ON CONFLICT DO NOTHING: a row on record, destroyed ones too, is left alone.
retention_put(c, e) ==
    IF dek[e].state = "absent" THEN [dek EXCEPT ![e] = Minted(c)] ELSE dek

put_self_retention(c) ==
    /\ At(c, "put")
    /\ dek' = retention_put(c, call[c].epoch)
    /\ Goto(c, "reread")
    /\ UNCHANGED <<pointer, grants, blobs, sweep, own, roster_vars>>

\* Fault: the call keeps the key it drew.
converged_own(c) == <<c, call[c].attempt>>

\* The key on record after the put, the loser's own is discarded.
converged(c) == dek[call[c].epoch].key

reread_self_retention(c) ==
    /\ At(c, "reread")
    /\ IF dek[call[c].epoch].key = None
       THEN Return(c)
       ELSE Becomes(c, [call[c] EXCEPT !.pc = "already", !.key = converged(c)])
    /\ UNCHANGED <<pointer, dek, grants, blobs, sweep, own, roster_vars>>

list_recipients(c) ==
    /\ At(c, "already")
    /\ Becomes(c, [call[c] EXCEPT !.pc = "wrap", !.members = {},
                                  !.targets = call[c].members \ Held(call[c].epoch)])
    /\ UNCHANGED <<pointer, dek, grants, blobs, sweep, own, roster_vars>>

\* community_dek_put_member_grant: no condition on the epoch's key state.
put_member_grant(c, m) ==
    LET e == call[c].epoch IN
    /\ At(c, "wrap") /\ m \in call[c].targets
    /\ Becomes(c, [call[c] EXCEPT !.targets = @ \ {m}])
    /\ IF grants[e][m] = None
       THEN /\ grants' = [grants EXCEPT ![e][m] = call[c].key]
            /\ own' = IF call[c].rotated THEN own \cup {<<e, m>>} ELSE own \ {<<e, m>>}
       ELSE UNCHANGED <<grants, own>>
    /\ UNCHANGED <<pointer, dek, blobs, sweep, roster_vars>>

Seal(c) == <<c, call[c].attempt>>

\* seal and store_blob_local.
store_blob(c) ==
    /\ At(c, "wrap") /\ call[c].targets = {}
    /\ blobs' = [blobs EXCEPT ![Seal(c)] = [@ EXCEPT !.stored = TRUE, !.key = call[c].key]]
    /\ Becomes(c, [call[c] EXCEPT !.pc = "bind", !.key = None, !.rotated = FALSE])
    /\ UNCHANGED <<pointer, dek, grants, sweep, own, roster_vars>>

bindable(e) == dek[e].state = "enabled" /\ e = pointer

bind_blob_epoch(c) ==
    LET e == call[c].epoch IN
    /\ At(c, "bind")
    /\ IF bindable(e)
       THEN blobs' = [blobs EXCEPT ![Seal(c)].epoch = e] /\ Return(c)
       ELSE Goto(c, "delete") /\ UNCHANGED blobs
    /\ UNCHANGED <<pointer, dek, grants, sweep, own, roster_vars>>

\* A storage error of the bind: the row goes too, the error is returned.
bind_fails(c) ==
    /\ At(c, "bind")
    /\ Goto(c, "cleanup")
    /\ UNCHANGED <<pointer, dek, grants, blobs, sweep, own, roster_vars>>

\* Fault: a refused bind retries at once.
Kept(c) == blobs

Unstored(c) == [blobs EXCEPT ![Seal(c)] = [@ EXCEPT !.stored = FALSE, !.key = None]]

\* EpochMoved: the orphan is removed and the loop goes round.
delete_and_retry(c) ==
    /\ At(c, "delete")
    /\ blobs' = Unstored(c)
    /\ IF call[c].attempt < Attempts
       THEN Becomes(c, Locals("read", call[c].attempt + 1))
       ELSE Return(c)
    /\ UNCHANGED <<pointer, dek, grants, sweep, own, roster_vars>>

delete_and_fail(c) ==
    /\ At(c, "cleanup")
    /\ blobs' = Unstored(c)
    /\ Return(c)
    /\ UNCHANGED <<pointer, dek, grants, sweep, own, roster_vars>>

\* The process dies, the future is dropped, or a storage error is returned
\* by ? between two awaits.
abandon(c) ==
    /\ call[c].pc \in Steps
    /\ IF call[c].pc \in {"bind", "delete", "cleanup"}
       THEN Becomes(c, Locals("dead", call[c].attempt))
       ELSE Return(c)
    /\ UNCHANGED <<pointer, dek, grants, blobs, sweep, own, roster_vars>>

-----------------------------------------------------------------------------
(* sweep_rotated_epochs.                                                    *)

sweep_begin(retain) ==
    LET listed == {e \in Epochs : e < pointer /\ dek[e].state \in {"enabled", "disabled"}} IN
    /\ sweep.pc = "idle" /\ listed # {}
    /\ sweep' = [pc |-> "disable", current |-> pointer, retain |-> retain, todo |-> listed,
                 enabled |-> {e \in listed : dek[e].state = "enabled"}]
    /\ UNCHANGED <<pointer, dek, grants, blobs, call, own, roster_vars>>

\* The epoch the loop is at.
SweepAt(pc, e) == sweep.pc = pc /\ IsOldest(e, sweep.todo)

NextAfter(e) ==
    IF sweep.todo = {e} THEN Idle ELSE [sweep EXCEPT !.pc = "disable", !.todo = @ \ {e}]

\* The raw setter; its refusal ends the sweep.
sweep_disable(e) ==
    /\ SweepAt("disable", e)
    /\ IF e \notin sweep.enabled THEN
            sweep' = [sweep EXCEPT !.pc = "evict"] /\ UNCHANGED dek
       ELSE IF can_retire(e) THEN
            /\ dek' = with_state(e, "disabled")
            /\ sweep' = [sweep EXCEPT !.pc = "evict"]
       ELSE sweep' = Idle /\ UNCHANGED dek
    /\ UNCHANGED <<pointer, grants, blobs, call, own, roster_vars>>

Deletable(e) == sweep.retain # None /\ sweep.current > e + sweep.retain

Evicted(e) ==
    [b \in Seals |-> IF b \in Live(e)
                     THEN [blobs[b] EXCEPT !.stored = FALSE, !.key = None, !.evicted = TRUE]
                     ELSE blobs[b]]

\* community_dek_evict_epoch_objects: bytes gone, binding kept and stamped.
sweep_evict(e) ==
    /\ SweepAt("evict", e)
    /\ blobs' = IF Deletable(e) THEN Evicted(e) ELSE blobs
    /\ sweep' = [sweep EXCEPT !.pc = "count"]
    /\ UNCHANGED <<pointer, dek, grants, call, own, roster_vars>>

\* A holding claim could not be retracted: nothing is deleted, on to the next.
sweep_evict_fails(e) ==
    /\ SweepAt("evict", e) /\ Deletable(e) /\ Live(e) # {}
    /\ sweep' = NextAfter(e)
    /\ UNCHANGED <<pointer, dek, grants, blobs, call, own, roster_vars>>

sweep_count(e) ==
    /\ SweepAt("count", e)
    /\ sweep' = IF Live(e) = {} THEN [sweep EXCEPT !.pc = "destroy"] ELSE NextAfter(e)
    /\ UNCHANGED <<pointer, dek, grants, blobs, call, own, roster_vars>>

sweep_destroy(e) ==
    /\ SweepAt("destroy", e)
    /\ IF can_destroy(e)
       THEN /\ dek' = without_key(e)
            /\ grants' = no_grants(e)
            /\ sweep' = NextAfter(e)
       ELSE sweep' = Idle /\ UNCHANGED <<dek, grants>>
    /\ UNCHANGED <<pointer, blobs, call, own, roster_vars>>

-----------------------------------------------------------------------------
CallStep(c) ==
    \/ read_epoch(c)
    \/ resolve_community_members(c)
    \/ rotate_on_removal(c)
    \/ retire_epoch(c, "retire_removal", "past")
    \/ list_past_epochs(c)
    \/ \E p \in Epochs : disable_past_epoch(c, p)
    \/ rotate_on_leaver(c)
    \/ retire_epoch(c, "retire_leaver", "state")
    \/ check_key_state(c)
    \/ get_self_retention(c)
    \/ put_self_retention(c)
    \/ reread_self_retention(c)
    \/ list_recipients(c)
    \/ \E m \in Members : put_member_grant(c, m)
    \/ store_blob(c)
    \/ bind_blob_epoch(c)
    \/ bind_fails(c)
    \/ delete_and_retry(c)
    \/ delete_and_fail(c)
    \/ abandon(c)

SweepStep ==
    \/ \E r \in Retains : sweep_begin(r)
    \/ \E e \in Epochs : \/ sweep_disable(e)
                         \/ sweep_evict(e)
                         \/ sweep_evict_fails(e)
                         \/ sweep_count(e)
                         \/ sweep_destroy(e)

RosterStep ==
    \/ tick
    \/ \E m \in Members : \E t \in 0..(MaxTime + Skew) : revoke_member(m, t)
    \/ \E m \in Members : widen_member(m)
    \/ \E m \in Members : set_allow_list(m)

OperatorStep == \E e \in Epochs \cap Operated : enable_epoch(e) \/ disable_epoch(e) \/ destroy_epoch(e)

Next ==
    \/ \E c \in Calls : CallStep(c)
    \/ SweepStep
    \/ RosterStep
    \/ OperatorStep

Spec == Init /\ [][Next]_vars

-----------------------------------------------------------------------------
(* What a member or an auditor sees of the tables.                          *)

phase_of(e) == dek[e].state

key_of(e) == dek[e].key

\* A wrap of a destroyed epoch opens nothing and is not seen.
wrap_of(e, m) == IF dek[e].key = None THEN None ELSE grants[e][m]

content_of(b) == IF blobs[b].epoch = None THEN {} ELSE {<<blobs[b].epoch, blobs[b].key>>}

Promise == INSTANCE EpochKeys
                WITH Rows    <- Seals,
                     Keys    <- Seals,
                     current <- pointer,
                     phase   <- [e \in Epochs |-> phase_of(e)],
                     key     <- [e \in Epochs |-> key_of(e)],
                     wrap    <- [e \in Epochs |-> [m \in Members |-> wrap_of(e, m)]],
                     content <- [b \in Seals |-> content_of(b)]

-----------------------------------------------------------------------------
(* Properties.                                                              *)

\* What was bound stays readable: as long as the ciphertext row is there, its
\* epoch's key is on record and is the key that sealed it, whatever mints raced
\* for the epoch and whoever tried to destroy it.
BoundReadable ==
    \A b \in Seals : blobs[b].stored /\ blobs[b].epoch # None =>
        /\ dek[blobs[b].epoch].state \in {"enabled", "disabled"}
        /\ dek[blobs[b].epoch].key = blobs[b].key

\* Every wrap of an epoch on record opens with the key the epoch's content is
\* sealed with: two first emissions that race hand out one key.
OneKeyPerEpoch ==
    \A e \in Epochs : \A m, n \in Members :
        /\ grants[e][m] # None /\ grants[e][n] # None => grants[e][m] = grants[e][n]
        /\ grants[e][m] # None /\ dek[e].key # None => grants[e][m] = dek[e].key

\* The epoch the pointer names can always be sealed under or minted: no
\* rotation, sweep, operator or race retires it.
PointerUsable == dek[pointer].state \in {"absent", "enabled"}

\* A ciphertext row with no binding belongs to a call still on its way to bind
\* or delete it, or to one that died there: no finished call leaves one.
NoOrphan ==
    \A c \in Calls : \A a \in 1..Attempts :
        LET b == blobs[<<c, a>>] IN
        b.stored /\ b.epoch = None =>
            /\ call[c].attempt = a
            /\ call[c].pc \in {"bind", "delete", "cleanup", "dead"}

\* A removal that takes effect at once shuts the member out of every epoch
\* from the one it rotated to, against calls that resolved the roster before
\* it as well, unless such a call rotated itself afterwards.
RemovalRotatesOut ==
    \A m \in Members : \A e \in Epochs :
        cut[m] # None /\ e >= cut[m] /\ grants[e][m] # None => <<e, m>> \in own

\* Key material is written once: the key of an epoch changes only from absent
\* to minted and from minted to destroyed, and nothing follows a destroy.
KeyWrittenOnce ==
    [][\A e \in Epochs :
          dek'[e].key # dek[e].key =>
              \/ dek[e].state = "absent"
              \/ dek'[e].key = None /\ dek'[e].state = "destroyed"]_vars

\* The cascade, the door and the sweep keep the promise of EpochKeys: at every
\* await of every interleaving a step rotates, mints a fresh key for an epoch that
\* has none, wraps or binds under the epoch's one key, retires or evicts an epoch
\* that is over, destroys one with nothing readable left, or changes none of it.
KeepsEpochKeys == Promise!KSpec

\* The module documentation of community_dek.rs: the exposure window of
\* content emitted after a member's effective removal is zero.
NoExposure ==
    \A b \in Seals : \A m \in Members :
        /\ blobs[b].stored /\ blobs[b].epoch # None
        /\ cut[m] # None /\ blobs[b].epoch >= cut[m]
        => grants[blobs[b].epoch][m] = None
=============================================================================
