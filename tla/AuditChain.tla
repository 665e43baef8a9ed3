----------------------------- MODULE AuditChain -----------------------------
(***************************************************************************)
(* The audit plane: the per-tenant hash chain of src/audit, the Merkle log  *)
(* and the trust-grant projection its post-commit hooks keep, the emission  *)
(* of src/federation/emit.rs that drives it, and the chain-anchored archive *)
(* of src/retention.                                                        *)
(*                                                                          *)
(* The chain commit is one transaction.  Everything after it is not: the    *)
(* leaf append, the two reads the tree head is made of, the write of the    *)
(* head and the projection's UPSERT are statements of their own, so the     *)
(* hooks of concurrent calls interleave, and a call can end in an error or  *)
(* with its process between any two of them.                                *)
(*                                                                          *)
(* Hashes are ideal.  An entry_hash stands for the one signed entry it was  *)
(* derived from, so it is that entry; a Merkle root stands for the leaf     *)
(* sequence it was computed over, so it is that sequence.                   *)
(***************************************************************************)
EXTENDS Integers, Sequences, FiniteSets

CONSTANTS
    Entries,        \* signed audit entries (an entry_id each)
    Tenants,        \* tenant_id values
    GrantKeys,      \* (grantee_key, granter_key, purpose, scope) quads
    Contents,       \* content_hash values callers claim
    Requests,       \* what callers ask to have recorded
    Genesis,        \* GENESIS_PREV_HASH
    None,           \* NULL: no content_hash, no projection row, no grant
    Postgres,       \* the backend: Postgres or SQLite
    Signer,         \* whether a merkle_signer is installed
    MaxFaults,      \* calls that fail or die on their way
    MaxArchives,    \* calls of archive_audit_range
    MaxResubmits    \* entries submitted again by their caller

Kinds == {"other", "grant", "revoke"}

\* The subject_kind and payload of an entry.  A request with a content_hash
\* goes through try_claim_event, one without through record_entry.  "grant" has
\* no expires_at; "revoke" is grant_trust with expires_at = now.
Request ==
    {r \in [tenant : Tenants, kind : Kinds, key : GrantKeys \cup {None}, content : Contents \cup {None}] :
        r.kind = "other" <=> r.key = None}

Entry == [req : Request, seq : Nat \ {0}, prev : Entries \cup {Genesis}, recorded_at : Nat]

ASSUME AuditAssumption ==
    /\ IsFiniteSet(Entries)
    /\ Genesis \notin Entries
    /\ None \notin Contents \cup GrantKeys \cup Entries \cup Entry
    /\ Requests \subseteq Request
    /\ Postgres \in BOOLEAN
    /\ Signer \in BOOLEAN
    /\ {MaxFaults, MaxArchives, MaxResubmits} \subseteq Nat

VARIABLES
    entry,          \* the signed entries their callers have built
    audit_log,      \* rows of cirislens_audit_log
    archives,       \* rows of cirislens_audit_archives
    leaves,         \* merkle_leaves of a tenant, by leaf_index
    sth_log,        \* merkle_sth_log of a tenant
    trust_grants,   \* rows of federation_trust_grants
    call,           \* where the call that records an entry is, and its locals
    accepted,       \* history: every entry the chain ever took
    spent           \* how much of each bound has been used

tables == <<audit_log, archives, leaves, sth_log, trust_grants>>
vars == <<entry, tables, call, accepted, spent>>

-----------------------------------------------------------------------------
Built == {e \in Entries : entry[e] # None}

TreeHead == [size : Nat, root : Seq(Entries)]

Archive == [rows : SUBSET Entries, anchor : Entries]

\* The states of a call: from "stored" to "projecting" it is in a hook of
\* record_entry, then it reads its receipt.
Running == {"built", "stored", "counted", "appended", "sized", "rooted", "projecting", "recorded", "has_sth"}
Ended   == {"done", "already_claimed", "refused", "error", "sth_missing", "projection_missing"}

Call == [at : Running \cup Ended \cup {"idle"}, size : Nat, root : Seq(Entries)]

\* A call with nothing to remember.
At(place) == [at |-> place, size |-> 0, root |-> <<>>]

TypeOK ==
    /\ entry \in [Entries -> Entry \cup {None}]
    /\ audit_log \subseteq Built
    /\ archives \subseteq Archive
    /\ leaves \in [Tenants -> Seq(Entries)]
    /\ sth_log \in [Tenants -> SUBSET TreeHead]
    /\ trust_grants \in [GrantKeys -> Entries \cup {None}]
    /\ call \in [Entries -> Call]
    /\ \A e \in Entries : call[e].at # "idle" => e \in Built
    /\ accepted \subseteq Entries
    /\ spent \in [{"faults", "archives", "resubmits"} -> Nat]

Init ==
    /\ entry = [e \in Entries |-> None]
    /\ audit_log = {}
    /\ archives = {}
    /\ leaves = [t \in Tenants |-> <<>>]
    /\ sth_log = [t \in Tenants |-> {}]
    /\ trust_grants = [k \in GrantKeys |-> None]
    /\ call = [e \in Entries |-> At("idle")]
    /\ accepted = {}
    /\ spent = [b \in {"faults", "archives", "resubmits"} |-> 0]

-----------------------------------------------------------------------------
\* A call goes on with nothing to remember, or returns.
Goto(e, place) == call' = [call EXCEPT ![e] = At(place)]

-----------------------------------------------------------------------------
\* The chain.

TenantOf(e) == entry[e].req.tenant

Rows(t) == {e \in audit_log : TenantOf(e) = t}

\* ORDER BY sequence_number DESC LIMIT 1.
ChainTail(t) == {e \in Rows(t) : \A f \in Rows(t) : entry[f].seq <= entry[e].seq}

\* The set of the one position the probe returns.
next_chain_position(t) ==
    IF Rows(t) = {} THEN {[seq |-> 1, prev |-> Genesis]}
                    ELSE {[seq |-> entry[f].seq + 1, prev |-> f] : f \in ChainTail(t)}

\* A caller probes the chain head, stamps the entry with the time and signs it.
build(e, r) ==
    /\ entry[e] = None
    /\ \E p \in next_chain_position(r.tenant) :
          entry' = [entry EXCEPT ![e] = [req |-> r, seq |-> p.seq, prev |-> p.prev,
                                         recorded_at |-> Cardinality(Built)]]
    /\ Goto(e, "built")
    /\ UNCHANGED <<tables, accepted, spent>>

\* Fault: only the number is compared.
chain_gates_no_prev(e) ==
    IF Rows(TenantOf(e)) = {}
    THEN entry[e].seq = 1
    ELSE \E f \in ChainTail(TenantOf(e)) : entry[e].seq = entry[f].seq + 1

\* The two gates of AV-49, on the tail as the transaction reads it.
chain_gates(e) ==
    IF Rows(TenantOf(e)) = {}
    THEN entry[e].seq = 1
    ELSE \E f \in ChainTail(TenantOf(e)) : entry[e].seq = entry[f].seq + 1 /\ entry[e].prev = f

\* Fault: claims are looked up in the tenant's own rows.
claimed_by_tenant(e) ==
    /\ entry[e].req.content # None
    /\ \E f \in Rows(TenantOf(e)) : entry[f].req.content = entry[e].req.content

claimed(e) ==
    /\ entry[e].req.content # None
    /\ \E f \in audit_log : entry[f].req.content = entry[e].req.content

\* Where record_entry goes from the Merkle hook.
after_merkle(e) == IF entry[e].req.kind = "other" THEN "done" ELSE "projecting"

\* The transaction of record_entry and of try_claim_event; without a signer the
\* Merkle hook that follows is a no-op.
commit(e) ==
    /\ call[e].at = "built"
    /\ LET stored == ~claimed(e) /\ chain_gates(e)
       IN  /\ audit_log' = IF stored THEN audit_log \cup {e} ELSE audit_log
           /\ accepted'  = IF stored THEN accepted \cup {e} ELSE accepted
           /\ Goto(e, IF claimed(e) THEN "already_claimed"
                      ELSE IF ~stored THEN "refused"
                      ELSE IF Signer THEN "stored" ELSE after_merkle(e))
    /\ UNCHANGED <<entry, archives, leaves, sth_log, trust_grants, spent>>

-----------------------------------------------------------------------------
\* The Merkle hook.

\* UNIQUE (tenant_id, chain_event_id), and PRIMARY KEY (tenant_id, leaf_index) for
\* a leaf whose index was counted as n.
leaf_fits(e, n) ==
    /\ n = Len(leaves[TenantOf(e)])
    /\ \A i \in DOMAIN leaves[TenantOf(e)] : entry[leaves[TenantOf(e)][i]].seq # entry[e].seq

insert_leaf(e, n) ==
    /\ IF leaf_fits(e, n)
       THEN /\ leaves' = [leaves EXCEPT ![TenantOf(e)] = Append(@, e)]
            /\ Goto(e, "appended")
       ELSE /\ Goto(e, "error")
            /\ UNCHANGED leaves
    /\ UNCHANGED <<entry, audit_log, archives, sth_log, trust_grants, accepted, spent>>

\* SQLite counts and inserts in one IMMEDIATE transaction.
append_sqlite(e) ==
    /\ ~Postgres /\ call[e].at = "stored"
    /\ insert_leaf(e, Len(leaves[TenantOf(e)]))

\* Postgres counts without a lock and inserts afterwards.
append_pg_count(e) ==
    /\ Postgres /\ call[e].at = "stored"
    /\ call' = [call EXCEPT ![e].at = "counted", ![e].size = Len(leaves[TenantOf(e)])]
    /\ UNCHANGED <<entry, tables, accepted, spent>>

append_pg_insert(e) ==
    /\ call[e].at = "counted"
    /\ insert_leaf(e, call[e].size)

tree_size(e) ==
    /\ call[e].at = "appended"
    /\ call' = [call EXCEPT ![e].at = "sized", ![e].size = Len(leaves[TenantOf(e)])]
    /\ UNCHANGED <<entry, tables, accepted, spent>>

\* Fault: the root is computed over the leaves below the last index.
merkle_root_short(e) ==
    /\ call[e].at = "sized"
    /\ LET l == leaves[TenantOf(e)]
       IN  call' = [call EXCEPT ![e].at = "rooted", ![e].root = SubSeq(l, 1, Len(l) - 1)]
    /\ UNCHANGED <<entry, tables, accepted, spent>>

merkle_root(e) ==
    /\ call[e].at = "sized"
    /\ call' = [call EXCEPT ![e].at = "rooted", ![e].root = leaves[TenantOf(e)]]
    /\ UNCHANGED <<entry, tables, accepted, spent>>

\* Fault: ON CONFLICT (tenant_id) DO NOTHING.
sth_inserted_once(e) ==
    IF sth_log[TenantOf(e)] # {}
    THEN sth_log
    ELSE [sth_log EXCEPT ![TenantOf(e)] = {[size |-> call[e].size, root |-> call[e].root]}]

\* ON CONFLICT (tenant_id, tree_size) DO NOTHING.
sth_inserted(e) ==
    IF \E h \in sth_log[TenantOf(e)] : h.size = call[e].size
    THEN sth_log
    ELSE [sth_log EXCEPT ![TenantOf(e)] = @ \cup {[size |-> call[e].size, root |-> call[e].root]}]

store_sth(e) ==
    /\ call[e].at = "rooted"
    /\ sth_log' = sth_inserted(e)
    /\ Goto(e, after_merkle(e))
    /\ UNCHANGED <<entry, audit_log, archives, leaves, trust_grants, accepted, spent>>

-----------------------------------------------------------------------------
\* The trust-grant projection, and what grant_trust reads back.

\* Fault: the row is stamped with the tail of the chain.
project_trust_grant_at_tail(e) ==
    /\ call[e].at = "projecting"
    /\ \E f \in ChainTail(TenantOf(e)) :
          trust_grants' = [trust_grants EXCEPT ![entry[e].req.key] = f]
    /\ Goto(e, "recorded")
    /\ UNCHANGED <<entry, audit_log, archives, leaves, sth_log, accepted, spent>>

\* The UPSERT; it does not look at what the row it replaces was made from.
project_trust_grant(e) ==
    /\ call[e].at = "projecting"
    /\ trust_grants' = [trust_grants EXCEPT ![entry[e].req.key] = e]
    /\ Goto(e, "recorded")
    /\ UNCHANGED <<entry, audit_log, archives, leaves, sth_log, accepted, spent>>

\* Fault: ORDER BY tree_size ASC.
current_sth_oldest(e) ==
    /\ call[e].at = "recorded"
    /\ \E h \in sth_log[TenantOf(e)] :
          /\ \A g \in sth_log[TenantOf(e)] : h.size <= g.size
          /\ call' = [call EXCEPT ![e] = [at |-> "has_sth", size |-> h.size, root |-> h.root]]
    /\ UNCHANGED <<entry, tables, accepted, spent>>

\* ORDER BY tree_size DESC LIMIT 1.
current_sth(e) ==
    /\ call[e].at = "recorded"
    /\ \/ /\ sth_log[TenantOf(e)] = {}
          /\ Goto(e, "sth_missing")
       \/ \E h \in sth_log[TenantOf(e)] :
             /\ \A g \in sth_log[TenantOf(e)] : g.size <= h.size
             /\ call' = [call EXCEPT ![e] = [at |-> "has_sth", size |-> h.size, root |-> h.root]]
    /\ UNCHANGED <<entry, tables, accepted, spent>>

\* WHERE tenant_id = ? AND chain_event_id = ?.
grant_of_event(e) ==
    {k \in GrantKeys : /\ trust_grants[k] # None
                       /\ TenantOf(trust_grants[k]) = TenantOf(e)
                       /\ entry[trust_grants[k]].seq = entry[e].seq}

\* Fault: the caller waits for the projection to appear.
lookup_waits(e) ==
    /\ call[e].at = "has_sth"
    /\ grant_of_event(e) # {}
    /\ call' = [call EXCEPT ![e].at = "done"]
    /\ UNCHANGED <<entry, tables, accepted, spent>>

lookup_grant_id_by_chain_event(e) ==
    /\ call[e].at = "has_sth"
    /\ IF grant_of_event(e) # {}
       THEN call' = [call EXCEPT ![e].at = "done"]
       ELSE Goto(e, "projection_missing")
    /\ UNCHANGED <<entry, tables, accepted, spent>>

-----------------------------------------------------------------------------
\* Failures, retries, retention.

\* A statement or the signature fails and the call returns the error; or the call
\* is gone, with its process or because its future was dropped.
fail(e) ==
    /\ spent["faults"] < MaxFaults
    /\ call[e].at \in Running
    /\ Goto(e, "error")
    /\ spent' = [spent EXCEPT !["faults"] = @ + 1]
    /\ UNCHANGED <<entry, tables, accepted>>

\* The caller submits the very entry again.
resubmit(e) ==
    /\ spent["resubmits"] < MaxResubmits
    /\ call[e].at \in {"refused", "error"}
    /\ Goto(e, "built")
    /\ spent' = [spent EXCEPT !["resubmits"] = @ + 1]
    /\ UNCHANGED <<entry, tables, accepted>>

\* WHERE recorded_at >= from_ts AND recorded_at < to_ts.
in_range(from_ts, to_ts) ==
    {e \in audit_log : from_ts <= entry[e].recorded_at /\ entry[e].recorded_at < to_ts}

\* Fault: the anchor is the oldest archived row.
is_anchor_oldest(last, rows) == \A e \in rows : entry[last].seq <= entry[e].seq

\* The rows come ORDER BY tenant_id, sequence_number; the last one is the anchor.
is_anchor(last, rows) == \A e \in rows : entry[e].seq <= entry[last].seq

\* Fault: DELETE by sequence_number, in every tenant.
rows_kept_by_number(rows) == {e \in audit_log : \A f \in rows : entry[e].seq # entry[f].seq}

\* DELETE by entry_id.
rows_kept(rows) == audit_log \ rows

\* archive_audit_range, one transaction: nothing to take, two tenants in the range
\* and an archive_id (the hash of the rows) already stored leave everything alone.
archive_audit_range(from_ts, to_ts) ==
    LET rows == in_range(from_ts, to_ts)
    IN  /\ spent["archives"] < MaxArchives
        /\ \A a \in archives : a.rows # rows
        /\ \E t \in Tenants, last \in rows :
              /\ \A e \in rows : TenantOf(e) = t
              /\ is_anchor(last, rows)
              /\ archives' = archives \cup {[rows |-> rows, anchor |-> last]}
        /\ audit_log' = rows_kept(rows)
        /\ spent' = [spent EXCEPT !["archives"] = @ + 1]
        /\ UNCHANGED <<entry, leaves, sth_log, trust_grants, call, accepted>>

-----------------------------------------------------------------------------
\* What the server does by itself once a call has been made.
Proceed(e) ==
    \/ commit(e)
    \/ append_sqlite(e) \/ append_pg_count(e) \/ append_pg_insert(e)
    \/ tree_size(e) \/ merkle_root(e) \/ store_sth(e)
    \/ project_trust_grant(e) \/ current_sth(e) \/ lookup_grant_id_by_chain_event(e)

Times == 0..Cardinality(Entries)

Next ==
    \/ \E e \in Entries : \/ \E r \in Requests : build(e, r)
                          \/ Proceed(e)
                          \/ fail(e)
                          \/ resubmit(e)
    \/ \E from_ts, to_ts \in Times : archive_audit_range(from_ts, to_ts)

Spec == Init /\ [][Next]_vars

\* The runtime polls every call it has accepted.
FairSpec == Spec /\ \A e \in Entries : WF_vars(Proceed(e))

-----------------------------------------------------------------------------
\* Properties of the chain and its archives.

\* Of two live rows of a tenant at consecutive sequence numbers the later one's
\* prev_hash is the earlier one's entry_hash, and no number is taken twice: what
\* the two gates of record_entry buy, whichever probes were stale when they were
\* used, whatever was submitted twice and whatever was archived in between.
LiveLinked ==
    \A e, f \in audit_log : TenantOf(e) = TenantOf(f) =>
        /\ entry[e].seq = entry[f].seq => e = f
        /\ entry[f].seq = entry[e].seq + 1 => entry[f].prev = e

\* A live row whose predecessor is not live points at the chain_anchor of an
\* archive, so a verifier can walk from it into the archived rows.
AnchorLinks ==
    \A f \in audit_log :
        \/ entry[f].prev \in audit_log \cup {Genesis}
        \/ \E a \in archives : a.anchor = entry[f].prev

\* What the chain once took is in the live log or in an archive: archiving and the
\* concurrent commits never lose a row.
NothingErased == \A e \in accepted : e \in audit_log \/ \E a \in archives : e \in a.rows

\* Of the live rows no two carry one content_hash: try_claim_event's look-up and
\* its insert leave no room for a second claim.
ClaimedOnce ==
    \A e, f \in audit_log :
        entry[e].req.content = entry[f].req.content /\ entry[e].req.content # None => e = f

-----------------------------------------------------------------------------
\* Properties of the Merkle log and the projection.

In(e, s) == \E i \in DOMAIN s : s[i] = e

Covered(e) == \E h \in sth_log[TenantOf(e)] : In(e, h.root)

\* A signed tree head never claims more leaves than its root was computed over,
\* and every root is a prefix of the log as it stands: the heads of a tenant never
\* contradict each other about a leaf.
HeadsCoverTheirLeaves ==
    \A t \in Tenants : \A h \in sth_log[t] :
        /\ h.size <= Len(h.root)
        /\ Len(h.root) <= Len(leaves[t])
        /\ \A i \in DOMAIN h.root : h.root[i] = leaves[t][i]

\* A call that recorded its entry without an error left a stored tree head that
\* covers it, even when its own head lost the race for its tree_size and was dropped
\* by ON CONFLICT DO NOTHING.
SuccessMeansCovered ==
    Signer => \A e \in Entries :
        call[e].at \in {"projecting", "recorded", "has_sth", "done"} => Covered(e)

\* The tree head on the receipt grant_trust returns covers the granted entry,
\* although it is read after the hook and may be another call's.
ReceiptProvesEntry ==
    \A e \in Entries :
        call[e].at = "done" /\ entry[e].req.kind # "other" => In(e, call[e].root)

\* A row of the projection is never ahead of the transparency log: the entry it was
\* made from is covered by a stored tree head.
GrantsAreProvable ==
    Signer => \A k \in GrantKeys : trust_grants[k] # None => Covered(trust_grants[k])

\* What an auditor sees of a call: its receipt, once grant_trust has returned.
receipt_of(e) ==
    IF call[e].at = "done" /\ entry[e].req.kind # "other"
    THEN {[size |-> call[e].size, root |-> call[e].root]} ELSE {}

Transparency == INSTANCE TransparencyLog
                WITH recorded <- accepted, log <- leaves, heads <- sth_log,
                     receipt <- [e \in Entries |-> receipt_of(e)]

\* The hooks of concurrent calls, their failures and retries, and the archiving
\* of the chain below them keep a transparency log: every step appends a recorded
\* entry once, publishes a head over a beginning of the log, gives a receipt that
\* proves its entry, or changes nothing an auditor sees.
LogIsTransparent == Transparency!TSpec

\* Every call returns.
CallsReturn == \A e \in Entries : call[e].at = "built" ~> call[e].at \in Ended

-----------------------------------------------------------------------------
\* What the documentation says of this code and the code does not do.

\* Once every call has returned, the projection shows the latest entry of each
\* quad.  False: the UPSERTs run after the commits, in any order.
LatestGrantWins ==
    (\A e \in Entries : call[e].at \notin Running) =>
        \A e \in accepted : LET k == entry[e].req.key IN
            entry[e].req.kind # "other" /\ trust_grants[k] # None
                => entry[e].recorded_at <= entry[trust_grants[k]].recorded_at
=============================================================================
