------------------------- MODULE TakedownTombstone -------------------------
(***************************************************************************)
(* The bytes plane of the tombstones on one node: takedown notices and      *)
(* steward purges recorded by federation/takedown_tombstone.rs and          *)
(* federation/steward_purge.rs, the byte write doors of                     *)
(* federation/blob_admit.rs that must keep taken-down bytes out, the        *)
(* rulings that reverse a takedown, and purge_finalize, which destroys the  *)
(* bytes after the notice's window together with the chunks no other        *)
(* manifest keeps (engine.rs).  None of these calls holds a lock across its *)
(* statements.                                                              *)
(*                                                                          *)
(* A blob is a manifest, with the chunks it relates (none for a blob of one *)
(* row), or a chunk.  Left out: the rows planes of a steward purge, the     *)
(* node's own holding claims, bindings retired by a withdraws, evictions    *)
(* for space, and manifests of manifests.  The reads of one decision (a     *)
(* pre-read, a chunk's judgement) are one step.                             *)
(***************************************************************************)
EXTENDS Naturals, FiniteSets

CONSTANTS
    Manifests, Chunks, \* addresses in federation_blobs
    Of,                \* the chunks a manifest relates
    Notices,           \* notice_ids
    Basis,             \* a notice's legal_basis, by what it does to the bytes
    Records,           \* the addresses a notice names
    Expires,           \* the instant from which a notice authorises nothing
    Reviewed,          \* takedowns of content some review-holder answers for
    PurgeDwell,        \* PURGE_SETTLE_DWELL_SECS
    CounterWindow,     \* window_days of a counter-notice basis
    Doors,             \* callers of the byte write doors
    Hosts,             \* callers of takedown_tombstone, purge_rows and purge_finalize
    MaxTime,           \* bound on the purge clock
    MaxFaults,         \* bound on calls that end halfway
    None

Blobs == Manifests \cup Chunks

Bases == {"destroy_on_receipt", "withhold_then_delete", "steward_purge"}

ASSUME TombstoneAssumption ==
    /\ Manifests \cap Chunks = {}
    /\ Of \in [Manifests -> SUBSET Chunks]
    /\ Basis \in [Notices -> Bases]
    /\ Records \in [Notices -> SUBSET Blobs]
    /\ Expires \in [Notices -> Nat]
    /\ Reviewed \subseteq {n \in Notices : Basis[n] # "steward_purge"}
    /\ PurgeDwell \in Nat /\ CounterWindow \in Nat
    /\ MaxTime \in Nat /\ MaxFaults \in Nat
    /\ None \notin Blobs /\ None \notin Notices

VARIABLES
    blobs,     \* federation_blobs
    links,     \* manifests whose rows are in federation_dag_chunks
    headers,   \* purge_executions
    tombs,     \* purge_tombstones of the bytes plane
    reversals, \* takedowns with a live reversal by a review-holder
    now,       \* purge_clock
    door,      \* a write door's call between its pre-read and its transaction
    call,      \* a host's call
    lifted,    \* history: notices some door or finalize read as reversed
    late,      \* history: chunks inserted after all their manifests were taken down
    raced,     \* history: manifests linked, notices recorded, beside a condemned chunk
    faults

vars == <<blobs, links, headers, tombs, reversals, now, door, call, lifted,
          late, raced, faults>>

-----------------------------------------------------------------------------
Header == [pc : {"none", "executed", "finalized"}, at : Nat]

\* put: the addresses of the batch; floor: TombstoneFloor's reversed takedowns.
Door == [put : SUBSET Blobs, floor : SUBSET Notices]

\* reversed and clock: what purge_finalize read; todo: records not yet
\* evicted; root and left: the manifest evicted last and its chunks not yet
\* judged; condemned: the chunk judged orphaned and not yet deleted.
Call == [pc : {"idle", "recorded", "finalize"}, notice : Notices \cup {None},
         reversed : BOOLEAN, clock : Nat, todo : SUBSET Blobs,
         root : Blobs \cup {None}, left : SUBSET Chunks, condemned : Chunks \cup {None}]

IdleDoor == [put |-> {}, floor |-> {}]

IdleCall ==
    [pc |-> "idle", notice |-> None, reversed |-> FALSE, clock |-> 0, todo |-> {},
     root |-> None, left |-> {}, condemned |-> None]

\* Typing, a call is for a notice, and a condemned chunk is one still to be walked.
TypeOK ==
    /\ blobs \subseteq Blobs
    /\ links \subseteq Manifests
    /\ headers \in [Notices -> Header]
    /\ tombs \subseteq Notices \X Blobs
    /\ reversals \subseteq Notices
    /\ now \in 0..MaxTime
    /\ door \in [Doors -> Door]
    /\ call \in [Hosts -> Call]
    /\ lifted \subseteq Notices
    /\ late \subseteq Chunks
    /\ raced \subseteq Manifests \cup Notices
    /\ faults \in 0..MaxFaults
    /\ \A h \in Hosts :
          /\ call[h].pc # "idle" => call[h].notice # None
          /\ call[h].condemned # None => call[h].condemned \in call[h].left

Init ==
    /\ blobs = {}
    /\ links = {}
    /\ headers = [n \in Notices |-> [pc |-> "none", at |-> 0]]
    /\ tombs = {}
    /\ reversals = {}
    /\ now = 0
    /\ door = [d \in Doors |-> IdleDoor]
    /\ call = [h \in Hosts |-> IdleCall]
    /\ lifted = {}
    /\ late = {}
    /\ raced = {}
    /\ faults = 0

-----------------------------------------------------------------------------
(* What withholds an address.                                               *)

Held(n) == headers[n].pc # "none"

\* purge_tombstone_notices.
NoticesOf(b) == {n \in Notices : <<n, b>> \in tombs}

\* standing_notice: some notice no reversal lifts.
Standing(b) == ~(NoticesOf(b) \subseteq reversals)

\* dag_manifests_of_chunk, over the relation l.
Parents(b, l) == {m \in l : b \in Of[m]}

\* purge_withheld: its own notice, or every manifest it belongs to.
Withheld(b, l) ==
    \/ Standing(b)
    \/ Parents(b, l) # {} /\ \A m \in Parents(b, l) : Standing(m)

\* settles_at, counted from executed_at.
Dwell(n) ==
    CASE Basis[n] = "destroy_on_receipt" -> 0
      [] Basis[n] = "withhold_then_delete" -> CounterWindow
      [] OTHER -> PurgeDwell

SettledAt(n, t) == Held(n) /\ t >= headers[n].at + Dwell(n)

-----------------------------------------------------------------------------
(* The byte write doors.                                                    *)

\* A DAG with its chunks, or a chunk by itself.
Batches == {{m} \cup Of[m] : m \in Manifests} \cup {{c} : c \in Chunks}

\* Reversed notices on the addresses of a batch and on their manifests.
ReversedOn(s) ==
    {n \in reversals : \E b \in s : n \in NoticesOf(b) \/
                          \E m \in Parents(b, links) : n \in NoticesOf(m)}

\* tombstone_floor: the pre-read of every address of the batch.
put_begin(d, s) ==
    /\ door[d] = IdleDoor
    /\ \A b \in s : ~Withheld(b, links)
    /\ LET floor == UNION {NoticesOf(b) : b \in s}
       IN  /\ door' = [door EXCEPT ![d] = [put |-> s, floor |-> floor]]
           /\ lifted' = lifted \cup ReversedOn(s)
    /\ UNCHANGED <<blobs, links, headers, tombs, reversals, now, call, late, raced, faults>>

\* Fault: the transaction does not ask again.
admitted_before(s, floor) == TRUE

\* refuse_tombstoned_at_write, inside the transaction.
admitted_at_write(s, floor) == \A b \in s : NoticesOf(b) \subseteq floor

linked(s) == links \cup (s \cap Manifests)

\* store_planned_blob, store_planned_dag: the rows and the relation.
put_commit(d) ==
    /\ door[d] # IdleDoor
    /\ admitted_at_write(door[d].put, door[d].floor)
    /\ LET s == door[d].put
       IN  /\ blobs' = blobs \cup s
           /\ links' = linked(s)
           /\ late' = late \cup {c \in (s \cap Chunks) \ blobs :
                                   /\ Parents(c, linked(s)) # {}
                                   /\ \A m \in Parents(c, linked(s)) : ~(NoticesOf(m) \subseteq lifted)}
           /\ raced' = raced \cup {m \in (s \cap Manifests) \ links :
                                     \E h \in Hosts : call[h].condemned \in Of[m]}
    /\ door' = [door EXCEPT ![d] = IdleDoor]
    /\ UNCHANGED <<headers, tombs, reversals, now, call, lifted, faults>>

\* The refusal, or a caller that is gone.
put_end(d) ==
    /\ door[d] # IdleDoor
    /\ door' = [door EXCEPT ![d] = IdleDoor]
    /\ UNCHANGED <<blobs, links, headers, tombs, reversals, now, call, lifted, late,
                   raced, faults>>

-----------------------------------------------------------------------------
(* Recording a notice.                                                      *)

\* store_purge_execution: the header, once, and every tombstone, in one
\* transaction.
purge_put_execution(n) ==
    /\ headers' = [headers EXCEPT ![n] =
                     IF Held(n) THEN @ ELSE [pc |-> "executed", at |-> now]]
    /\ tombs' = tombs \cup {<<n, b>> : b \in Records[n]}
    /\ raced' = IF ~Held(n) /\ \E h \in Hosts, m \in Records[n] \cap Manifests :
                                   call[h].condemned \in Of[m]
                THEN raced \cup {n} ELSE raced

\* verify_takedown_authority, authorise_at: a notice out of its window or
\* whose signers lost their standing; both are the notice's expiry here.
Authorised(n) == now < Expires[n]

\* Fault: a notice on record is asked for its authority again.
recorded_or_authorised_now(n) == Authorised(n)

\* already_recorded, or verify_takedown_authority.
recorded_or_authorised(n) == Held(n) \/ Authorised(n)

\* takedown_tombstone, apply_replicated_takedown, and purge_rows and
\* apply_replicated_purge as far as the bytes plane goes.  An immediate
\* removal goes on to purge_finalize and, run again, resumes; run again, the
\* others change nothing.
execute_notice(h, n) ==
    /\ call[h].pc = "idle" /\ headers[n].pc # "finalized"
    /\ Held(n) => Basis[n] = "destroy_on_receipt"
    /\ recorded_or_authorised(n)
    /\ purge_put_execution(n)
    /\ call' = IF Basis[n] = "destroy_on_receipt"
               THEN [call EXCEPT ![h] = [IdleCall EXCEPT !.pc = "recorded", !.notice = n]]
               ELSE call
    /\ UNCHANGED <<blobs, links, reversals, now, door, lifted, late, faults>>

-----------------------------------------------------------------------------
(* purge_finalize.                                                          *)

\* Fault: the hard delete does not wait for the window.
settled_any(n) == Held(n)

settled(n) == SettledAt(n, now)

\* complete_tombstone_records: the notice's tombstones are all there.
Complete(n) ==
    Cardinality({b \in Blobs : <<n, b>> \in tombs}) = Cardinality(Records[n])

\* The header, the settle, the tombstones and, once, the reversal.
finalize_begin(h, n) ==
    /\ \/ call[h].pc = "idle"
       \/ call[h].pc = "recorded" /\ call[h].notice = n
    /\ headers[n].pc = "executed"
    /\ settled(n) /\ Complete(n)
    /\ call' = [call EXCEPT ![h] =
                  [IdleCall EXCEPT !.pc = "finalize", !.notice = n,
                                   !.reversed = n \in reversals, !.clock = now,
                                   !.todo = {b \in Blobs : <<n, b>> \in tombs}]]
    /\ lifted' = IF n \in reversals THEN lifted \cup {n} ELSE lifted
    /\ UNCHANGED <<blobs, links, headers, tombs, reversals, now, door, late, raced, faults>>

\* Another call finalized the notice meanwhile: already_finalized.
finalize_already(h) ==
    /\ call[h].pc = "recorded"
    /\ headers[call[h].notice].pc = "finalized"
    /\ call' = [call EXCEPT ![h] = IdleCall]
    /\ UNCHANGED <<blobs, links, headers, tombs, reversals, now, door, lifted, late,
                   raced, faults>>

Walking(h) == call[h].pc = "finalize" /\ call[h].left # {}

Between(h) ==
    call[h].pc = "finalize" /\ call[h].left = {} /\ call[h].condemned = None

\* A reversed takedown's bytes are skipped.
void_record(h, b) ==
    /\ Between(h) /\ b \in call[h].todo /\ call[h].reversed
    /\ call' = [call EXCEPT ![h].todo = @ \ {b}]
    /\ UNCHANGED <<blobs, links, headers, tombs, reversals, now, door, lifted, late,
                   raced, faults>>

\* evict_one_on of a record: its bytes go, its relation stays, and the walk
\* over its chunks begins.
evict_record(h, b) ==
    /\ Between(h) /\ b \in call[h].todo /\ ~call[h].reversed
    /\ blobs' = blobs \ {b}
    /\ late' = late \ {b}
    /\ call' = [call EXCEPT ![h].todo = @ \ {b}, ![h].root = b,
                            ![h].left = IF b \in links THEN Of[b] ELSE {}]
    /\ UNCHANGED <<links, headers, tombs, reversals, now, door, lifted, raced, faults>>

\* Fault: a manifest counts as gone only once its purge has finalized.
blob_purge_finalized(m, t) ==
    NoticesOf(m) # {} /\ \A n \in NoticesOf(m) : headers[n].pc = "finalized"

\* blob_purge_settled: every notice on the manifest has settled or finalized.
blob_purge_settled(m, t) ==
    /\ NoticesOf(m) # {}
    /\ \A n \in NoticesOf(m) : headers[n].pc = "finalized" \/ SettledAt(n, t)

Orphaned(c, root, t) ==
    \A m \in Parents(c, links) : m = root \/ blob_purge_settled(m, t)

\* purge_evict_blob_on: one chunk of the manifest is judged.
judge_chunk(h, c) ==
    /\ Walking(h) /\ call[h].condemned = None /\ c \in call[h].left
    /\ call' = IF Orphaned(c, call[h].root, call[h].clock) /\ c \in blobs
               THEN [call EXCEPT ![h].condemned = c]
               ELSE [call EXCEPT ![h].left = @ \ {c}]
    /\ UNCHANGED <<blobs, links, headers, tombs, reversals, now, door, lifted, late,
                   raced, faults>>

\* evict_one_on of the chunk.
evict_chunk(h) ==
    /\ Walking(h) /\ call[h].condemned # None
    /\ LET c == call[h].condemned
       IN  /\ blobs' = blobs \ {c}
           /\ late' = late \ {c}
           /\ call' = [call EXCEPT ![h].condemned = None, ![h].left = @ \ {c}]
    /\ UNCHANGED <<links, headers, tombs, reversals, now, door, lifted, raced, faults>>

purge_mark_finalized(h) ==
    /\ Between(h) /\ call[h].todo = {}
    /\ headers' = [headers EXCEPT ![call[h].notice].pc = "finalized"]
    /\ call' = [call EXCEPT ![h] = IdleCall]
    /\ UNCHANGED <<blobs, links, tombs, reversals, now, door, lifted, late, raced, faults>>

\* A refused retraction, a failed statement or a dead process.
call_fails(h) ==
    /\ call[h].pc # "idle" /\ faults < MaxFaults
    /\ call' = [call EXCEPT ![h] = IdleCall]
    /\ faults' = faults + 1
    /\ UNCHANGED <<blobs, links, headers, tombs, reversals, now, door, lifted, late, raced>>

-----------------------------------------------------------------------------
(* Rulings and time (external).                                             *)

\* A review-holder's reversal of a takedown is admitted.
reverse(n) ==
    /\ n \in Reviewed /\ Held(n)
    /\ reversals' = reversals \cup {n}
    /\ UNCHANGED <<blobs, links, headers, tombs, now, door, call, lifted, late, raced, faults>>

\* The ruling expires, is withdrawn, or its signer is no review-holder now.
reversal_lapses(n) ==
    /\ n \in reversals
    /\ reversals' = reversals \ {n}
    /\ UNCHANGED <<blobs, links, headers, tombs, now, door, call, lifted, late, raced, faults>>

tick ==
    /\ now < MaxTime
    /\ now' = now + 1
    /\ UNCHANGED <<blobs, links, headers, tombs, reversals, door, call, lifted, late,
                   raced, faults>>

-----------------------------------------------------------------------------
Step(h) ==
    \/ \E n \in Notices : call[h].pc = "recorded" /\ finalize_begin(h, n)
    \/ finalize_already(h)
    \/ \E b \in Blobs : void_record(h, b) \/ evict_record(h, b) \/ judge_chunk(h, b)
    \/ evict_chunk(h)
    \/ purge_mark_finalized(h)

Next ==
    \/ \E d \in Doors : (\E s \in Batches : put_begin(d, s)) \/ put_commit(d) \/ put_end(d)
    \/ \E h \in Hosts :
          \/ \E n \in Notices : execute_notice(h, n) \/ finalize_begin(h, n)
          \/ Step(h)
          \/ call_fails(h)
    \/ \E n \in Notices : reverse(n) \/ reversal_lapses(n)
    \/ tick

Spec == Init /\ [][Next]_vars

\* A call that can go on does, and a takedown that ended halfway is run again.
FairSpec ==
    /\ Spec
    /\ \A h \in Hosts : WF_vars(Step(h))
    /\ \A n \in Notices : WF_vars(\E h \in Hosts : execute_notice(h, n))

-----------------------------------------------------------------------------
\* Bytes a finalized notice names are gone, whatever writes overlapped it,
\* unless a door or the finalize itself read the notice as reversed.
FinalizedBytesGone ==
    \A n \in Notices : headers[n].pc = "finalized" =>
        \A b \in Records[n] \cap blobs : n \in lifted

\* A chunk does not outlive its manifests: when every notice on every manifest
\* it belongs to has been finalized, none of them lifted, it is gone with
\* them, however their finalizes overlapped.  The exception is a write that
\* had read its manifests as serving before they were taken down.
OrphanChunksGone ==
    \A c \in Chunks \cap blobs :
        /\ Parents(c, links) # {}
        /\ \A m \in Parents(c, links) :
              /\ NoticesOf(m) # {}
              /\ \A n \in NoticesOf(m) : headers[n].pc = "finalized" /\ n \notin lifted
        => c \in late

\* What the plane destroys has waited out its window: the record its own
\* notice's, a chunk also those on the other manifests that relate it, but for
\* what was linked or recorded after the chunk was judged.
DestroyedAfterWindow ==
    [][\A b \in blobs \ blobs' : \E h \in Hosts :
          /\ call[h].pc = "finalize" /\ SettledAt(call[h].notice, now)
          /\ \/ b \in call[h].todo
             \/ /\ b = call[h].condemned
                /\ \A m \in Parents(b, links) \ (raced \cup {call[h].root}) :
                      NoticesOf(m) # {} /\ \A n \in NoticesOf(m) \ raced : SettledAt(n, now)]_vars

\* An immediate-removal takedown on record is finalized in the end, although
\* calls end halfway and the notice has expired since.
ReceiptDestroys ==
    \A n \in Notices : Basis[n] = "destroy_on_receipt" =>
        (Held(n) ~> headers[n].pc = "finalized")

\* "A chunk another live manifest relates stays" (Engine::purge_evict_blob):
\* a chunk is condemned only when no manifest other than the one taken down is
\* served.
LiveDagKeepsChunk ==
    [][\A h \in Hosts :
          call[h].condemned = None /\ call'[h].condemned # None =>
              \A m \in Parents(call'[h].condemned, links) \ {call[h].root} : Standing(m)]_vars
=============================================================================
