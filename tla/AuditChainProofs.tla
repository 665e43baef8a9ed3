-------------------------- MODULE AuditChainProofs --------------------------
(***************************************************************************)
(* Theorems about the audit plane, for any entries, tenants and requests    *)
(* and for both backends: type correctness, the linkage of the live chain,  *)
(* the claim of a content_hash, the anchors of the archives, and what a     *)
(* recorded entry's caller may rely on in the transparency log.             *)
(*                                                                          *)
(* Chain and Merkle log are argued apart.  The chain needs only the gates.  *)
(* For the log, CallInv says of each call what it has secured so far: the   *)
(* leaves and the heads only grow, so a call that does not move keeps it    *)
(* (lemma OthersKeep), and each action has to be looked at for the call it  *)
(* moves alone.                                                             *)
(***************************************************************************)
EXTENDS AuditChain, FiniteSetTheorems, TLAPS

-----------------------------------------------------------------------------
(* Type correctness.                                                        *)

\* A call at any place is a call.
LEMMA AtType == \A place \in Running \cup Ended \cup {"idle"} : At(place) \in Call
<1>1. <<>> \in Seq(Entries)
  OBVIOUS
<1> QED BY <1>1 DEF At, Call

\* Moving a call of a built entry to a place keeps the table of calls typed.
LEMMA GotoType ==
    ASSUME TypeOK, NEW e \in Built, NEW place \in Running \cup Ended, Goto(e, place),
           Built \subseteq Built'
    PROVE  /\ call' \in [Entries -> Call]
           /\ \A f \in Entries : call'[f].at # "idle" => f \in Built'
<1> DEFINE c == At(place)
<1>1. c \in Call
  BY AtType
<1>2. call' = [call EXCEPT ![e] = c] /\ e \in Entries
  BY DEF Goto, Built
<1> HIDE DEF c
<1> QED BY <1>1, <1>2 DEF TypeOK

\* The probe returns a position an entry can be built at.
LEMMA PositionType ==
    ASSUME TypeOK, NEW t \in Tenants, NEW p \in next_chain_position(t)
    PROVE  p.seq \in Nat \ {0} /\ p.prev \in Entries \cup {Genesis}
BY DEF TypeOK, next_chain_position, ChainTail, Rows, Built, Entry

\* build() writes an entry of the right shape and marks it built.
LEMMA BuildType ==
    ASSUME TypeOK, NEW e \in Entries, NEW r \in Requests, build(e, r)
    PROVE  TypeOK'
<1>1. PICK p \in next_chain_position(r.tenant) :
         entry' = [entry EXCEPT ![e] = [req |-> r, seq |-> p.seq, prev |-> p.prev,
                                        recorded_at |-> Cardinality(Built)]]
  BY DEF build
<1> DEFINE n == [req |-> r, seq |-> p.seq, prev |-> p.prev, recorded_at |-> Cardinality(Built)]
<1>2. Cardinality(Built) \in Nat
  BY AuditAssumption, FS_Subset, FS_CardinalityType DEF Built
<1>3. r \in Request /\ r.tenant \in Tenants
  BY AuditAssumption DEF Request
<1>4. n \in Entry
  BY <1>1, <1>2, <1>3, PositionType DEF Entry
<1>5. n # None
  BY <1>4, AuditAssumption
<1>6. entry' = [entry EXCEPT ![e] = n]
  BY <1>1
<1> HIDE DEF n
<1>7. entry' \in [Entries -> Entry \cup {None}]
  BY <1>4, <1>6 DEF TypeOK
<1>8. Built' = Built \cup {e}
  BY <1>5, <1>6 DEF Built, TypeOK
<1>9. call' \in [Entries -> Call] /\ \A f \in Entries : call'[f].at # "idle" => f \in Built'
  <2> DEFINE c == At("built")
  <2>1. c \in Call
    BY AtType DEF Running
  <2>2. call' = [call EXCEPT ![e] = c]
    BY DEF build, Goto
  <2> HIDE DEF c
  <2> QED BY <2>1, <2>2, <1>8 DEF TypeOK
<1> QED BY <1>7, <1>8, <1>9 DEF TypeOK, build, tables

\* A typed entry's parts.
LEMMA EntryParts ==
    ASSUME TypeOK, NEW e \in Built
    PROVE  /\ e \in Entries /\ entry[e] \in Entry
           /\ TenantOf(e) \in Tenants
           /\ entry[e].seq \in Nat \ {0}
           /\ entry[e].prev \in Entries \cup {Genesis}
           /\ entry[e].req.kind # "other" => entry[e].req.key \in GrantKeys
<1>1. e \in Entries /\ entry[e] \in Entry
  BY DEF TypeOK, Built
<1>2. entry[e].req \in Request
  BY <1>1 DEF Entry
<1> QED BY <1>1, <1>2 DEF Entry, Request, TenantOf

\* A call that moves is the call of a built entry.
LEMMA BuiltWhenCalled ==
    ASSUME TypeOK, NEW e \in Entries, Proceed(e)
    PROVE  e \in Built
BY DEF TypeOK, Proceed, commit, append_sqlite, append_pg_count, append_pg_insert, tree_size,
       merkle_root, store_sth, project_trust_grant, current_sth, lookup_grant_id_by_chain_event

\* One step of a call changes no entry and only its own place, so the type of the
\* tables it writes is all there is to show.
LEMMA ProceedType ==
    ASSUME TypeOK, NEW e \in Entries, Proceed(e)
    PROVE  TypeOK'
<1>1. e \in Built
  BY BuiltWhenCalled
<1>2. UNCHANGED <<entry, spent, archives>> /\ Built' = Built
  BY DEF Proceed, commit, append_sqlite, append_pg_count, append_pg_insert, insert_leaf, tree_size,
         merkle_root, store_sth, project_trust_grant, current_sth, lookup_grant_id_by_chain_event,
         tables, Built
<1> DEFINE t == TenantOf(e)
<1>3. t \in Tenants /\ leaves[t] \in Seq(Entries) /\ Len(leaves[t]) \in Nat
  BY <1>1, EntryParts DEF TypeOK
<1>4. call[e] \in Call /\ call[e].size \in Nat /\ call[e].root \in Seq(Entries)
  BY DEF TypeOK, Call
<1>5. after_merkle(e) \in Running \cup Ended
  BY DEF after_merkle, Running, Ended
<1>6. ASSUME NEW c \in Call, call' = [call EXCEPT ![e] = c]
      PROVE  call' \in [Entries -> Call] /\ \A f \in Entries : call'[f].at # "idle" => f \in Built'
  BY <1>1, <1>2, <1>6 DEF TypeOK
<1>7. ASSUME NEW place \in Running \cup Ended, Goto(e, place)
      PROVE  call' \in [Entries -> Call] /\ \A f \in Entries : call'[f].at # "idle" => f \in Built'
  BY <1>1, <1>2, <1>7, GotoType
<1> HIDE DEF t
<1>8. CASE commit(e)
  <2>1. PICK place \in Running \cup Ended : Goto(e, place)
    BY <1>5, <1>8 DEF commit, Running, Ended
  <2> QED BY <1>1, <1>2, <1>7, <1>8, <2>1 DEF TypeOK, commit, Built
<1>9. ASSUME NEW n \in Nat, insert_leaf(e, n) PROVE TypeOK'
  <2>1. \E place \in Running \cup Ended : Goto(e, place)
    BY <1>9 DEF insert_leaf, Running, Ended
  <2>2. leaves' \in [Tenants -> Seq(Entries)]
    <3>1. Append(leaves[t], e) \in Seq(Entries)
      BY <1>3
    <3>2. leaves' = [leaves EXCEPT ![t] = Append(leaves[t], e)] \/ leaves' = leaves
      BY <1>9 DEF insert_leaf, t
    <3> QED BY <1>3, <3>1, <3>2 DEF TypeOK
  <2> QED BY <1>2, <1>7, <1>9, <2>1, <2>2 DEF TypeOK, insert_leaf
<1>10. CASE append_sqlite(e)
  BY <1>3, <1>9, <1>10 DEF append_sqlite, t
<1>11. CASE append_pg_insert(e)
  BY <1>4, <1>9, <1>11 DEF append_pg_insert
<1>12. CASE append_pg_count(e)
  <2> DEFINE c == [call[e] EXCEPT !.at = "counted", !.size = Len(leaves[t])]
  <2>1. c \in Call
    BY <1>3, <1>4 DEF Call, Running
  <2>2. call' = [call EXCEPT ![e] = c]
    BY <1>4, <1>12 DEF append_pg_count, t, TypeOK
  <2> HIDE DEF c
  <2> QED BY <1>2, <1>6, <1>12, <2>1, <2>2 DEF TypeOK, append_pg_count, tables
<1>13. CASE tree_size(e)
  <2> DEFINE c == [call[e] EXCEPT !.at = "sized", !.size = Len(leaves[t])]
  <2>1. c \in Call
    BY <1>3, <1>4 DEF Call, Running
  <2>2. call' = [call EXCEPT ![e] = c]
    BY <1>4, <1>13 DEF tree_size, t, TypeOK
  <2> HIDE DEF c
  <2> QED BY <1>2, <1>6, <1>13, <2>1, <2>2 DEF TypeOK, tree_size, tables
<1>14. CASE merkle_root(e)
  <2> DEFINE c == [call[e] EXCEPT !.at = "rooted", !.root = leaves[t]]
  <2>1. c \in Call
    BY <1>3, <1>4 DEF Call, Running
  <2>2. call' = [call EXCEPT ![e] = c]
    BY <1>4, <1>14 DEF merkle_root, t, TypeOK
  <2> HIDE DEF c
  <2> QED BY <1>2, <1>6, <1>14, <2>1, <2>2 DEF TypeOK, merkle_root, tables
<1>15. CASE store_sth(e)
  <2> DEFINE h == [size |-> call[e].size, root |-> call[e].root]
  <2>1. h \in TreeHead
    BY <1>4 DEF TreeHead
  <2>2. sth_log' = sth_log \/ sth_log' = [sth_log EXCEPT ![t] = sth_log[t] \cup {h}]
    BY <1>15 DEF store_sth, sth_inserted, t
  <2> HIDE DEF h
  <2>3. sth_log' \in [Tenants -> SUBSET TreeHead]
    BY <1>3, <2>1, <2>2 DEF TypeOK
  <2> QED BY <1>2, <1>5, <1>7, <1>15, <2>3 DEF TypeOK, store_sth
<1>16. CASE project_trust_grant(e)
  <2>1. Goto(e, "recorded") /\ "recorded" \in Running \cup Ended
    BY <1>16 DEF project_trust_grant, Running
  <2>2. trust_grants' \in [GrantKeys -> Entries \cup {None}]
    BY <1>16 DEF TypeOK, project_trust_grant
  <2> QED BY <1>2, <1>7, <1>16, <2>1, <2>2 DEF TypeOK, project_trust_grant
<1>17. CASE current_sth(e)
  <2>1. CASE Goto(e, "sth_missing")
    BY <1>2, <1>7, <1>17, <2>1 DEF TypeOK, current_sth, tables, Ended
  <2>2. CASE \E h \in sth_log[t] :
               call' = [call EXCEPT ![e] = [at |-> "has_sth", size |-> h.size, root |-> h.root]]
    <3>1. PICK h \in sth_log[t] :
               call' = [call EXCEPT ![e] = [at |-> "has_sth", size |-> h.size, root |-> h.root]]
      BY <2>2
    <3> DEFINE c == [at |-> "has_sth", size |-> h.size, root |-> h.root]
    <3>2. h \in TreeHead
      BY <1>3 DEF TypeOK
    <3>3. c \in Call
      BY <3>2 DEF TreeHead, Call, Running
    <3>4. call' = [call EXCEPT ![e] = c]
      BY <3>1
    <3> HIDE DEF c
    <3> QED BY <1>2, <1>6, <1>17, <3>3, <3>4 DEF TypeOK, current_sth, tables
  <2> QED BY <1>17, <2>1, <2>2 DEF current_sth, t
<1>18. CASE lookup_grant_id_by_chain_event(e)
  <2>1. CASE Goto(e, "projection_missing")
    BY <1>2, <1>7, <1>18, <2>1 DEF TypeOK, lookup_grant_id_by_chain_event, tables, Ended
  <2>2. CASE call' = [call EXCEPT ![e].at = "done"]
    <3> DEFINE c == [call[e] EXCEPT !.at = "done"]
    <3>1. c \in Call
      BY <1>4 DEF Call, Ended
    <3>2. call' = [call EXCEPT ![e] = c]
      BY <1>4, <2>2 DEF TypeOK
    <3> HIDE DEF c
    <3> QED BY <1>2, <1>6, <1>18, <3>1, <3>2 DEF TypeOK, lookup_grant_id_by_chain_event, tables
  <2> QED BY <1>18, <2>1, <2>2 DEF lookup_grant_id_by_chain_event
<1> QED BY <1>8, <1>10, <1>11, <1>12, <1>13, <1>14, <1>15, <1>16, <1>17, <1>18 DEF Proceed

\* Every step keeps the types.
LEMMA StepType ==
    ASSUME TypeOK, [Next]_vars
    PROVE  TypeOK'
<1>1. ASSUME NEW e \in Entries, NEW r \in Requests, build(e, r) PROVE TypeOK'
  BY <1>1, BuildType
<1>2. ASSUME NEW e \in Entries, Proceed(e) PROVE TypeOK'
  BY <1>2, ProceedType
<1>3. ASSUME NEW e \in Entries, NEW place \in Running \cup Ended, Goto(e, place),
             UNCHANGED <<entry, tables, accepted>>,
             call[e].at # "idle", spent' \in [{"faults", "archives", "resubmits"} -> Nat]
      PROVE  TypeOK'
  <2>1. e \in Built /\ Built' = Built
    BY <1>3 DEF TypeOK, Built
  <2> QED BY <1>3, <2>1, GotoType DEF TypeOK, tables
<1>4. ASSUME NEW e \in Entries, fail(e) PROVE TypeOK'
  <2>1. spent' \in [{"faults", "archives", "resubmits"} -> Nat]
    BY <1>4 DEF fail, TypeOK
  <2> QED BY <1>3, <1>4, <2>1 DEF fail, Running, Ended
<1>5. ASSUME NEW e \in Entries, resubmit(e) PROVE TypeOK'
  <2>1. spent' \in [{"faults", "archives", "resubmits"} -> Nat]
    BY <1>5 DEF resubmit, TypeOK
  <2> QED BY <1>3, <1>5, <2>1 DEF resubmit, Running, Ended
<1>6. ASSUME NEW a \in Times, NEW b \in Times, archive_audit_range(a, b) PROVE TypeOK'
  <2> DEFINE rows == in_range(a, b)
  <2>1. rows \subseteq Entries /\ audit_log' \subseteq audit_log
    BY <1>6 DEF in_range, archive_audit_range, rows_kept, TypeOK, Built
  <2>2. PICK last \in rows : archives' = archives \cup {[rows |-> rows, anchor |-> last]}
    BY <1>6 DEF archive_audit_range
  <2>3. [rows |-> rows, anchor |-> last] \in Archive
    BY <2>1 DEF Archive
  <2>4. archives' \subseteq Archive
    BY <2>2, <2>3 DEF TypeOK
  <2>5. spent' \in [{"faults", "archives", "resubmits"} -> Nat]
    BY <1>6 DEF archive_audit_range, TypeOK
  <2>6. Built' = Built
    BY <1>6 DEF archive_audit_range, Built
  <2> QED BY <1>6, <2>1, <2>4, <2>5, <2>6 DEF archive_audit_range, TypeOK
<1>7. CASE UNCHANGED vars
  BY <1>7 DEF vars, tables, TypeOK, Built
<1> QED BY <1>1, <1>2, <1>4, <1>5, <1>6, <1>7 DEF Next

\* Initially everything is empty and typed.
LEMMA InitType == Init => TypeOK
<1> SUFFICES ASSUME Init PROVE TypeOK
  OBVIOUS
<1>1. At("idle") \in Call /\ At("idle").at = "idle"
  BY AtType DEF At
<1>2. call = [e \in Entries |-> At("idle")]
  BY DEF Init
<1>3. call \in [Entries -> Call] /\ \A e \in Entries : call[e].at = "idle"
  BY <1>1, <1>2
<1> QED BY <1>3 DEF Init, TypeOK, Built

\* The types of every table, local and bound hold throughout.
THEOREM AuditTypeCorrect == Spec => []TypeOK
<1> QED BY InitType, StepType, PTL DEF Spec

-----------------------------------------------------------------------------
(* The chain.                                                               *)

\* What a step does to the live rows: it takes none, or the one entry that
\* passed the gates and carries no claimed content, or it removes some.  The
\* signed entries that exist are never rewritten.
ChainStep ==
    /\ \A e \in Built : entry'[e] = entry[e]
    /\ \/ audit_log' \subseteq audit_log
       \/ \E e \in Built : audit_log' = audit_log \cup {e} /\ chain_gates(e) /\ ~claimed(e)

\* Every step is a chain step.
LEMMA StepIsChainStep ==
    ASSUME TypeOK, [Next]_vars
    PROVE  ChainStep
<1>1. ASSUME NEW e \in Entries, NEW r \in Requests, build(e, r) PROVE ChainStep
  BY <1>1 DEF ChainStep, build, tables, Built, TypeOK
<1>2. ASSUME NEW e \in Entries, Proceed(e) PROVE ChainStep
  <2>1. CASE commit(e)
    <3>1. e \in Built /\ entry' = entry
      BY <2>1 DEF commit, TypeOK
    <3> QED BY <2>1, <3>1 DEF commit, ChainStep
  <2>2. CASE ~commit(e)
    BY <1>2, <2>2 DEF Proceed, ChainStep, append_sqlite, append_pg_count, append_pg_insert, insert_leaf,
         tree_size, merkle_root, store_sth, project_trust_grant, current_sth,
         lookup_grant_id_by_chain_event, tables
  <2> QED BY <2>1, <2>2
<1>3. ASSUME NEW e \in Entries, fail(e) \/ resubmit(e) PROVE ChainStep
  BY <1>3 DEF fail, resubmit, ChainStep, tables
<1>4. ASSUME NEW a \in Times, NEW b \in Times, archive_audit_range(a, b) PROVE ChainStep
  BY <1>4 DEF archive_audit_range, rows_kept, ChainStep
<1>5. CASE UNCHANGED vars
  BY <1>5 DEF vars, tables, ChainStep
<1> QED BY <1>1, <1>2, <1>3, <1>4, <1>5 DEF Next

\* The gates keep the live rows linked: the new row follows the tail, every row
\* at the tail's number is the tail, and no row is above it.
LEMMA StepLinked ==
    ASSUME TypeOK, LiveLinked, ChainStep
    PROVE  LiveLinked'
<1>1. audit_log \subseteq Built
  BY DEF TypeOK
<1>2. CASE audit_log' \subseteq audit_log
  BY <1>1, <1>2 DEF LiveLinked, ChainStep, TenantOf
<1>3. ASSUME NEW n \in Built, audit_log' = audit_log \cup {n}, chain_gates(n) PROVE LiveLinked'
  <2> SUFFICES ASSUME NEW e \in audit_log', NEW f \in audit_log', TenantOf(e) = TenantOf(f)
               PROVE  /\ entry[e].seq = entry[f].seq => e = f
                      /\ entry[f].seq = entry[e].seq + 1 => entry[f].prev = e
    BY <1>1, <1>3 DEF LiveLinked, ChainStep, TenantOf
  <2>1. \A x \in audit_log \cup {n} : entry[x].seq \in Nat \ {0}
    BY <1>1, EntryParts
  <2>2. CASE e \in audit_log /\ f \in audit_log
    BY <2>2 DEF LiveLinked
  <2>3. CASE e = n /\ f = n
    BY <2>1, <2>3
  <2>4. CASE Rows(TenantOf(n)) = {}
    BY <1>3, <2>2, <2>3, <2>4 DEF Rows
  <2>5. CASE Rows(TenantOf(n)) # {}
    <3>1. PICK t \in ChainTail(TenantOf(n)) : entry[n].seq = entry[t].seq + 1 /\ entry[n].prev = t
      BY <1>3, <2>5 DEF chain_gates
    <3>2. /\ t \in audit_log /\ TenantOf(t) = TenantOf(n)
          /\ \A x \in audit_log : TenantOf(x) = TenantOf(n) => entry[x].seq <= entry[t].seq
      BY <3>1 DEF ChainTail, Rows
    <3>3. CASE e = n /\ f \in audit_log
      BY <2>1, <3>1, <3>2, <3>3
    <3>4. CASE e \in audit_log /\ f = n
      <4>1. entry[e].seq <= entry[t].seq
        BY <3>2, <3>4
      <4>2. entry[e].seq = entry[t].seq => e = t
        BY <3>2, <3>4 DEF LiveLinked
      <4> QED BY <2>1, <3>1, <3>2, <3>4, <4>1, <4>2
    <3> QED BY <1>3, <2>2, <2>3, <3>3, <3>4
  <2> QED BY <2>4, <2>5
<1> QED BY <1>2, <1>3 DEF ChainStep

\* Live rows of consecutive numbers are linked and no number is taken twice, for
\* any interleaving of stale probes, resubmissions and archives.
THEOREM ChainStaysLinked == Spec => []LiveLinked
<1>1. Init => TypeOK /\ LiveLinked
  BY InitType DEF Init, LiveLinked
<1>2. TypeOK /\ LiveLinked /\ [Next]_vars => (TypeOK /\ LiveLinked)'
  BY StepType, StepIsChainStep, StepLinked
<1> QED BY <1>1, <1>2, PTL DEF Spec

\* A content_hash is on at most one live row.
THEOREM ContentClaimedOnce == Spec => []ClaimedOnce
<1>1. Init => TypeOK /\ ClaimedOnce
  BY InitType DEF Init, ClaimedOnce
<1>2. ASSUME TypeOK, ClaimedOnce, ChainStep PROVE ClaimedOnce'
  <2>1. audit_log \subseteq Built
    BY <1>2 DEF TypeOK
  <2> QED BY <1>2, <2>1 DEF ClaimedOnce, ChainStep, claimed
<1>3. TypeOK /\ ClaimedOnce /\ [Next]_vars => (TypeOK /\ ClaimedOnce)'
  BY <1>2, StepType, StepIsChainStep
<1> QED BY <1>1, <1>3, PTL DEF Spec

\* What the chain took is live or archived, for any archives and commits.
THEOREM NothingIsErased == Spec => []NothingErased
<1>1. Init => NothingErased
  BY DEF Init, NothingErased
<1>2. NothingErased /\ [Next]_vars => NothingErased'
  <2> SUFFICES ASSUME NothingErased, [Next]_vars PROVE NothingErased'
    OBVIOUS
  <2>1. ASSUME NEW e \in Entries, commit(e) PROVE NothingErased'
    BY <2>1 DEF commit, NothingErased
  <2>2. ASSUME NEW a \in Times, NEW b \in Times, archive_audit_range(a, b) PROVE NothingErased'
    <3>1. PICK last \in in_range(a, b) :
             archives' = archives \cup {[rows |-> in_range(a, b), anchor |-> last]}
      BY <2>2 DEF archive_audit_range
    <3>2. audit_log' = audit_log \ in_range(a, b) /\ accepted' = accepted
      BY <2>2 DEF archive_audit_range, rows_kept
    <3> QED BY <3>1, <3>2 DEF NothingErased
  <2>3. CASE UNCHANGED <<audit_log, archives, accepted>>
    BY <2>3 DEF NothingErased
  <2> QED BY <2>1, <2>2, <2>3 DEF Next, Proceed, build, append_sqlite, append_pg_count,
        append_pg_insert, insert_leaf, tree_size, merkle_root, store_sth, project_trust_grant,
        current_sth, lookup_grant_id_by_chain_event, fail, resubmit, tables, vars
<1> QED BY <1>1, <1>2, PTL DEF Spec

-----------------------------------------------------------------------------
(* The archives.  An archive takes a range of time and the anchor is its    *)
(* last row by number, so time and number must agree along the live chain.  *)

\* What an entry was built on: nothing, or an earlier entry of its tenant.
BuiltInv ==
    \A e \in Built :
        /\ entry[e].recorded_at < Cardinality(Built)
        /\ \/ entry[e].prev = Genesis /\ entry[e].seq = 1
           \/ /\ entry[e].prev \in Built
              /\ TenantOf(entry[e].prev) = TenantOf(e)
              /\ entry[e].seq = entry[entry[e].prev].seq + 1
              /\ entry[entry[e].prev].recorded_at < entry[e].recorded_at

\* Along the live chain of a tenant time and number agree.
InTime ==
    \A e, f \in audit_log :
        TenantOf(e) = TenantOf(f) /\ entry[e].seq < entry[f].seq
            => entry[e].recorded_at < entry[f].recorded_at

AnchorInv == TypeOK /\ LiveLinked /\ BuiltInv /\ InTime /\ AnchorLinks

\* Only build() adds an entry.
LEMMA BuiltOrSame ==
    ASSUME [Next]_vars
    PROVE  entry' = entry \/ \E e \in Entries, r \in Requests : build(e, r)
BY DEF Next, Proceed, commit, append_sqlite, append_pg_count, append_pg_insert, insert_leaf,
       tree_size, merkle_root, store_sth, project_trust_grant, current_sth,
       lookup_grant_id_by_chain_event, fail, resubmit, archive_audit_range, vars

\* The time of a new entry is later than that of every entry before it, the tail
\* it names among them.
LEMMA BuiltStep ==
    ASSUME TypeOK, BuiltInv, [Next]_vars
    PROVE  BuiltInv'
<1>1. CASE entry' = entry
  BY <1>1 DEF BuiltInv, Built, TenantOf
<1>2. ASSUME NEW e \in Entries, NEW r \in Requests, build(e, r) PROVE BuiltInv'
  <2>1. PICK p \in next_chain_position(r.tenant) :
           entry' = [entry EXCEPT ![e] = [req |-> r, seq |-> p.seq, prev |-> p.prev,
                                          recorded_at |-> Cardinality(Built)]]
    BY <1>2 DEF build
  <2> DEFINE n == [req |-> r, seq |-> p.seq, prev |-> p.prev, recorded_at |-> Cardinality(Built)]
  <2>2. IsFiniteSet(Built) /\ Cardinality(Built) \in Nat /\ e \notin Built
    BY <1>2, AuditAssumption, FS_Subset, FS_CardinalityType DEF Built, build
  <2>3. n \in Entry /\ n # None
    <3>1. r \in Request /\ r.tenant \in Tenants
      BY AuditAssumption DEF Request
    <3>2. n \in Entry
      BY <2>1, <2>2, <3>1, PositionType DEF Entry
    <3> QED BY <3>2, AuditAssumption
  <2>4. n.req = r /\ n.seq = p.seq /\ n.prev = p.prev /\ n.recorded_at = Cardinality(Built)
    OBVIOUS
  <2>5. entry' = [entry EXCEPT ![e] = n]
    BY <2>1
  <2> HIDE DEF n
  <2>6. Built' = Built \cup {e} /\ entry'[e] = n /\ \A f \in Built : entry'[f] = entry[f]
    BY <2>2, <2>3, <2>5 DEF Built, TypeOK
  <2>7. Cardinality(Built') = Cardinality(Built) + 1
    BY <2>2, <2>6, FS_AddElement
  <2>8. \/ p.prev = Genesis /\ p.seq = 1
        \/ p.prev \in Built /\ TenantOf(p.prev) = r.tenant /\ p.seq = entry[p.prev].seq + 1
    BY <2>1 DEF next_chain_position, ChainTail, Rows, TypeOK
  <2>9. \A f \in Built : entry[f].recorded_at \in Nat /\ entry[f].prev # e
    <3>1. \A f \in Built : entry[f].recorded_at \in Nat
      BY EntryParts DEF Entry
    <3> QED BY <2>2, <3>1, AuditAssumption DEF BuiltInv
  <2>10. ASSUME NEW f \in Built
         PROVE  /\ entry'[f].recorded_at < Cardinality(Built')
                /\ \/ entry'[f].prev = Genesis /\ entry'[f].seq = 1
                   \/ /\ entry'[f].prev \in Built'
                      /\ entry'[entry'[f].prev].req.tenant = entry'[f].req.tenant
                      /\ entry'[f].seq = entry'[entry'[f].prev].seq + 1
                      /\ entry'[entry'[f].prev].recorded_at < entry'[f].recorded_at
    BY <2>2, <2>6, <2>7, <2>9 DEF BuiltInv, TenantOf
  <2>11. /\ entry'[e].recorded_at < Cardinality(Built')
         /\ \/ entry'[e].prev = Genesis /\ entry'[e].seq = 1
            \/ /\ entry'[e].prev \in Built'
               /\ entry'[entry'[e].prev].req.tenant = entry'[e].req.tenant
               /\ entry'[e].seq = entry'[entry'[e].prev].seq + 1
               /\ entry'[entry'[e].prev].recorded_at < entry'[e].recorded_at
    BY <2>2, <2>4, <2>6, <2>7, <2>8 DEF BuiltInv, TenantOf
  <2> QED BY <2>6, <2>10, <2>11 DEF BuiltInv, TenantOf
<1> QED BY <1>1, <1>2, BuiltOrSame

\* A row that passes the gates comes after the tail in time too, because it was
\* built on the tail; a refused entry that fits again after an archive does as well.
LEMMA StepInTime ==
    ASSUME TypeOK, LiveLinked, BuiltInv, InTime, ChainStep
    PROVE  InTime'
<1>1. audit_log \subseteq Built
  BY DEF TypeOK
<1>2. CASE audit_log' \subseteq audit_log
  BY <1>1, <1>2 DEF InTime, ChainStep, TenantOf
<1>3. ASSUME NEW n \in Built, audit_log' = audit_log \cup {n}, chain_gates(n) PROVE InTime'
  <2> SUFFICES ASSUME NEW e \in audit_log', NEW f \in audit_log', TenantOf(e) = TenantOf(f),
                      entry[e].seq < entry[f].seq
               PROVE  entry[e].recorded_at < entry[f].recorded_at
    BY <1>1, <1>3 DEF InTime, ChainStep, TenantOf
  <2>1. \A x \in audit_log \cup {n} : entry[x].seq \in Nat \ {0} /\ entry[x].recorded_at \in Nat
    BY <1>1, EntryParts DEF Entry
  <2>2. CASE e \in audit_log /\ f \in audit_log
    BY <2>2 DEF InTime
  <2>3. CASE Rows(TenantOf(n)) = {}
    BY <1>3, <2>1, <2>2, <2>3 DEF Rows
  <2>4. CASE Rows(TenantOf(n)) # {}
    <3>1. PICK last \in ChainTail(TenantOf(n)) : entry[n].seq = entry[last].seq + 1 /\ entry[n].prev = last
      BY <1>3, <2>4 DEF chain_gates
    <3>2. last \in audit_log /\ TenantOf(last) = TenantOf(n)
      BY <3>1 DEF ChainTail, Rows
    <3>3. entry[last].recorded_at < entry[n].recorded_at
      <4>1. last # Genesis
        BY <1>1, <3>2, AuditAssumption DEF Built
      <4> QED BY <3>1, <4>1 DEF BuiltInv
    <3>4. \A x \in audit_log : TenantOf(x) = TenantOf(n) => entry[x].seq <= entry[last].seq
      BY <3>1 DEF ChainTail, Rows
    <3>5. \A x \in audit_log : TenantOf(x) = TenantOf(n) => entry[x].recorded_at < entry[n].recorded_at
      <4> SUFFICES ASSUME NEW x \in audit_log, TenantOf(x) = TenantOf(n)
                   PROVE  entry[x].recorded_at < entry[n].recorded_at
        OBVIOUS
      <4>1. CASE x = last
        BY <3>3, <4>1
      <4>2. CASE x # last
        <5>1. entry[x].seq < entry[last].seq
          BY <2>1, <3>2, <3>4, <4>2 DEF LiveLinked
        <5>2. entry[x].recorded_at < entry[last].recorded_at
          BY <3>2, <5>1 DEF InTime
        <5> QED BY <2>1, <3>2, <3>3, <5>2
      <4> QED BY <4>1, <4>2
    <3>6. CASE f = n
      BY <1>3, <2>1, <3>5, <3>6
    <3>7. CASE e = n /\ f # n
      BY <1>3, <2>1, <3>1, <3>2, <3>4, <3>7
    <3> QED BY <1>3, <2>2, <3>6, <3>7
  <2> QED BY <2>3, <2>4
<1> QED BY <1>2, <1>3 DEF ChainStep

\* The row before the cut is the anchor: were a later row archived with it, the
\* row that points at it would lie between them in number, so in time, so in the
\* archived range.
LEMMA ArchiveAnchors ==
    ASSUME TypeOK, LiveLinked, BuiltInv, InTime, AnchorLinks,
           NEW a \in Times, NEW b \in Times, archive_audit_range(a, b)
    PROVE  AnchorLinks'
<1> DEFINE rows == in_range(a, b)
<1>1. PICK t \in Tenants, last \in rows :
         /\ \A e \in rows : TenantOf(e) = t
         /\ is_anchor(last, rows)
         /\ archives' = archives \cup {[rows |-> rows, anchor |-> last]}
  BY DEF archive_audit_range
<1>2. audit_log' = audit_log \ rows /\ entry' = entry
  BY DEF archive_audit_range, rows_kept
<1>3. rows \subseteq audit_log /\ audit_log \subseteq Built
  BY DEF in_range, TypeOK
<1>4. \A x \in audit_log : entry[x].seq \in Nat \ {0} /\ entry[x].recorded_at \in Nat
  BY <1>3, EntryParts DEF Entry
<1>5. a \in Nat /\ b \in Nat
  BY AuditAssumption, FS_CardinalityType DEF Times
<1>6. ASSUME NEW f \in audit_log, f \notin rows, entry[f].prev \in rows PROVE entry[f].prev = last
  <2> DEFINE e == entry[f].prev
  <2>1. e \in audit_log /\ last \in audit_log /\ e # Genesis
    BY <1>3, <1>6, AuditAssumption DEF Built
  <2>2. TenantOf(e) = TenantOf(f) /\ TenantOf(last) = TenantOf(f)
        /\ entry[f].seq = entry[e].seq + 1 /\ entry[e].recorded_at < entry[f].recorded_at
    BY <1>1, <1>3, <1>6, <2>1 DEF BuiltInv
  <2>3. entry[e].seq <= entry[last].seq
    BY <1>1, <1>6 DEF is_anchor
  <2>4. CASE entry[e].seq = entry[last].seq
    BY <2>1, <2>2, <2>4 DEF LiveLinked
  <2>5. CASE entry[last].seq = entry[f].seq
    BY <1>6, <2>1, <2>2, <2>5 DEF LiveLinked
  <2>6. CASE entry[f].seq < entry[last].seq
    <3>1. entry[f].recorded_at < entry[last].recorded_at
      BY <2>1, <2>2, <2>6 DEF InTime
    <3>2. a <= entry[e].recorded_at /\ entry[last].recorded_at < b
      BY <1>1, <1>6 DEF in_range
    <3>3. f \in rows
      BY <1>4, <1>5, <2>1, <2>2, <3>1, <3>2 DEF in_range
    <3> QED BY <1>6, <3>3
  <2> QED BY <1>4, <2>1, <2>2, <2>3, <2>4, <2>5, <2>6
<1> HIDE DEF rows
<1> SUFFICES ASSUME NEW f \in audit_log', entry[f].prev \notin audit_log' \cup {Genesis}
             PROVE  \E c \in archives' : c.anchor = entry[f].prev
  BY <1>2 DEF AnchorLinks
<1>7. CASE entry[f].prev \in audit_log
  <2>1. entry[f].prev = last
    BY <1>2, <1>6, <1>7
  <2>2. [rows |-> rows, anchor |-> last] \in archives' /\ [rows |-> rows, anchor |-> last].anchor = last
    BY <1>1
  <2> QED BY <2>1, <2>2
<1>8. CASE entry[f].prev \notin audit_log
  BY <1>1, <1>2, <1>8 DEF AnchorLinks
<1> QED BY <1>7, <1>8

\* Every live row whose predecessor is not live points at the anchor of an archive,
\* for any number of archives and entries, resubmitted ones included.
THEOREM CutsAreAnchored == Spec => []AnchorLinks
<1>1. Init => AnchorInv
  BY InitType DEF Init, AnchorInv, LiveLinked, BuiltInv, Built, InTime, AnchorLinks
<1>2. AnchorInv /\ [Next]_vars => AnchorInv'
  <2> SUFFICES ASSUME AnchorInv, [Next]_vars PROVE AnchorInv'
    OBVIOUS
  <2> USE DEF AnchorInv
  <2>1. TypeOK' /\ LiveLinked' /\ BuiltInv' /\ InTime'
    BY StepType, StepIsChainStep, StepLinked, BuiltStep, StepInTime
  <2>2. ASSUME NEW a \in Times, NEW b \in Times, archive_audit_range(a, b) PROVE AnchorLinks'
    BY <2>2, ArchiveAnchors
  <2>3. ASSUME NEW e \in Entries, commit(e) PROVE AnchorLinks'
    <3>1. e \in Built /\ entry' = entry /\ archives' = archives
      BY <2>3 DEF commit, TypeOK
    <3>2. CASE audit_log' = audit_log
      BY <3>1, <3>2 DEF AnchorLinks
    <3>3. CASE audit_log' = audit_log \cup {e} /\ chain_gates(e)
      <4>1. entry[e].prev \in audit_log \cup {Genesis}
        BY <3>1, <3>3, EntryParts DEF chain_gates, ChainTail, Rows, BuiltInv
      <4> QED BY <3>1, <3>3, <4>1 DEF AnchorLinks
    <3> QED BY <2>3, <3>2, <3>3 DEF commit
  <2>4. ASSUME audit_log' = audit_log, archives' = archives, \A e \in Built : entry'[e] = entry[e]
        PROVE  AnchorLinks'
    <3>1. \A f \in audit_log : entry'[f].prev = entry[f].prev
      BY <2>4 DEF TypeOK
    <3> QED BY <2>4, <3>1 DEF AnchorLinks
  <2>5. \/ \E a, b \in Times : archive_audit_range(a, b)
        \/ \E e \in Entries : commit(e)
        \/ audit_log' = audit_log /\ archives' = archives
    BY DEF Next, Proceed, build, append_sqlite, append_pg_count, append_pg_insert, insert_leaf,
           tree_size, merkle_root, store_sth, project_trust_grant, current_sth,
           lookup_grant_id_by_chain_event, fail, resubmit, tables, vars
  <2>6. \A e \in Built : entry'[e] = entry[e]
    BY StepIsChainStep DEF ChainStep
  <2> QED BY <2>1, <2>2, <2>3, <2>4, <2>5, <2>6
<1>3. AnchorInv => AnchorLinks
  BY DEF AnchorInv
<1> QED BY <1>1, <1>2, <1>3, PTL DEF Spec

-----------------------------------------------------------------------------
(* The Merkle log.                                                          *)

\* s is t, cut off somewhere.
Prefix(s, t) == Len(s) <= Len(t) /\ \A i \in DOMAIN s : s[i] = t[i]

\* e has a leaf among the first n.
LeafBelow(e, n) == \E i \in DOMAIN leaves[TenantOf(e)] : leaves[TenantOf(e)][i] = e /\ i <= n

\* What a call has secured of its entry when it is at a place of the code.
CallInv(e) ==
    /\ call[e].at \in {"stored", "counted", "appended", "sized", "rooted"} => Signer
    /\ call[e].at = "appended" => LeafBelow(e, Len(leaves[TenantOf(e)]))
    /\ call[e].at \in {"sized", "rooted"} => LeafBelow(e, call[e].size)
    /\ call[e].at = "rooted" => /\ call[e].size <= Len(call[e].root)
                                /\ Prefix(call[e].root, leaves[TenantOf(e)])
    /\ call[e].at = "sized" => call[e].size <= Len(leaves[TenantOf(e)])
    /\ Signer /\ call[e].at \in {"projecting", "recorded", "has_sth", "done"} =>
          \E h \in sth_log[TenantOf(e)] : LeafBelow(e, h.size)
    /\ call[e].at = "has_sth" => In(e, call[e].root)
    /\ call[e].at = "done" /\ entry[e].req.kind # "other" => In(e, call[e].root)

\* Heads and projection rows.
HeadInv(t) == \A h \in sth_log[t] : Signer /\ h.size <= Len(h.root) /\ Prefix(h.root, leaves[t])

GrantInv(k) ==
    trust_grants[k] # None =>
        /\ trust_grants[k] \in Built
        /\ Signer => \E h \in sth_log[TenantOf(trust_grants[k])] : LeafBelow(trust_grants[k], h.size)

MerkleInv ==
    /\ TypeOK
    /\ \A e \in Built : CallInv(e)
    /\ \A t \in Tenants : HeadInv(t)
    /\ \A k \in GrantKeys : GrantInv(k)

\* The log only grows, and no signed entry is rewritten.
Grows ==
    /\ \A e \in Built : entry'[e] = entry[e]
    /\ \A t \in Tenants : Prefix(leaves[t], leaves'[t]) /\ sth_log[t] \subseteq sth_log'[t]

\* A prefix of a prefix is a prefix.
LEMMA PrefixTransitive ==
    ASSUME NEW a \in Seq(Entries), NEW b \in Seq(Entries), NEW c \in Seq(Entries),
           Prefix(a, b), Prefix(b, c)
    PROVE  Prefix(a, c)
BY DEF Prefix

\* A leaf stays where it is.
LEMMA LeafStays ==
    ASSUME TypeOK, TypeOK', Grows, NEW e \in Built, NEW n \in Nat, LeafBelow(e, n)
    PROVE  LeafBelow(e, n)'
<1> DEFINE t == TenantOf(e)
<1>1. t \in Tenants /\ TenantOf(e)' = t
  BY EntryParts DEF Grows, TenantOf
<1>2. leaves[t] \in Seq(Entries) /\ leaves'[t] \in Seq(Entries) /\ Prefix(leaves[t], leaves'[t])
  BY <1>1 DEF TypeOK, Grows
<1>3. PICK i \in DOMAIN leaves[t] : leaves[t][i] = e /\ i <= n
  BY DEF LeafBelow
<1>4. i \in DOMAIN leaves'[t] /\ leaves'[t][i] = e
  BY <1>2, <1>3 DEF Prefix
<1> QED BY <1>1, <1>3, <1>4 DEF LeafBelow

\* A head that covers a leaf goes on covering it.
LEMMA CoverStays ==
    ASSUME TypeOK, TypeOK', Grows, NEW e \in Built,
           \E h \in sth_log[TenantOf(e)] : LeafBelow(e, h.size)
    PROVE  (\E h \in sth_log[TenantOf(e)] : LeafBelow(e, h.size))'
<1>1. TenantOf(e) \in Tenants /\ TenantOf(e)' = TenantOf(e)
  BY EntryParts DEF Grows, TenantOf
<1>2. PICK h \in sth_log[TenantOf(e)] : LeafBelow(e, h.size)
  OBVIOUS
<1>3. h.size \in Nat /\ h \in sth_log'[TenantOf(e)]
  BY <1>1 DEF TypeOK, TreeHead, Grows
<1>4. LeafBelow(e, h.size)'
  BY <1>2, <1>3, LeafStays
<1> QED BY <1>1, <1>3, <1>4

\* A call that does not move keeps what it has secured.
LEMMA OthersKeep ==
    ASSUME TypeOK, TypeOK', Grows, NEW e \in Built, CallInv(e), call'[e] = call[e]
    PROVE  CallInv(e)'
<1> DEFINE t == TenantOf(e)
<1>1. t \in Tenants /\ TenantOf(e)' = t /\ entry'[e] = entry[e] /\ e \in Entries
  BY EntryParts DEF Grows, TenantOf
<1>2. /\ leaves[t] \in Seq(Entries) /\ leaves'[t] \in Seq(Entries)
      /\ Prefix(leaves[t], leaves'[t]) /\ Len(leaves[t]) <= Len(leaves'[t])
  BY <1>1 DEF TypeOK, Grows, Prefix
<1>3. call[e].size \in Nat /\ call[e].root \in Seq(Entries)
  BY <1>1 DEF TypeOK, Call
<1>4. call[e].at = "appended" => LeafBelow(e, Len(leaves[t]))'
  <2> SUFFICES ASSUME call[e].at = "appended" PROVE LeafBelow(e, Len(leaves[t]))'
    OBVIOUS
  <2>1. PICK i \in DOMAIN leaves[t] : leaves[t][i] = e
    BY DEF CallInv, LeafBelow
  <2>2. i \in DOMAIN leaves'[t] /\ leaves'[t][i] = e /\ i <= Len(leaves'[t])
    BY <1>2, <2>1 DEF Prefix
  <2> QED BY <1>1, <2>2 DEF LeafBelow
<1>5. call[e].at \in {"sized", "rooted"} => LeafBelow(e, call[e].size)'
  <2> SUFFICES ASSUME call[e].at \in {"sized", "rooted"} PROVE LeafBelow(e, call[e].size)'
    OBVIOUS
  <2>1. PICK i \in DOMAIN leaves[t] : leaves[t][i] = e /\ i <= call[e].size
    BY DEF CallInv, LeafBelow
  <2>2. i \in DOMAIN leaves'[t] /\ leaves'[t][i] = e
    BY <1>2, <2>1 DEF Prefix
  <2> QED BY <1>1, <2>1, <2>2 DEF LeafBelow
<1>6. call[e].at = "rooted" => Prefix(call[e].root, leaves'[t])
  BY <1>2, <1>3, PrefixTransitive DEF CallInv
<1>7. Signer /\ call[e].at \in {"projecting", "recorded", "has_sth", "done"} =>
         (\E h \in sth_log[TenantOf(e)] : LeafBelow(e, h.size))'
  BY CoverStays DEF CallInv
<1>8. call[e].at = "sized" => call[e].size <= Len(leaves'[t])
  BY <1>2, <1>3 DEF CallInv
<1> QED BY <1>1, <1>4, <1>5, <1>6, <1>7, <1>8 DEF CallInv, In

\* The heads that are there stay right.
LEMMA HeadsKeep ==
    ASSUME TypeOK, TypeOK', Grows, NEW t \in Tenants, HeadInv(t), sth_log'[t] = sth_log[t]
    PROVE  HeadInv(t)'
<1> SUFFICES ASSUME NEW h \in sth_log[t]
             PROVE  Signer /\ h.size <= Len(h.root) /\ Prefix(h.root, leaves'[t])
  BY DEF HeadInv
<1>1. h.root \in Seq(Entries)
  BY DEF TypeOK, TreeHead
<1>2. leaves[t] \in Seq(Entries) /\ leaves'[t] \in Seq(Entries) /\ Prefix(leaves[t], leaves'[t])
  BY DEF TypeOK, Grows
<1> QED BY <1>1, <1>2, PrefixTransitive DEF HeadInv

\* The projection rows that are there stay provable.
LEMMA GrantsKeep ==
    ASSUME TypeOK, TypeOK', Grows, Built \subseteq Built', NEW k \in GrantKeys, GrantInv(k),
           trust_grants'[k] = trust_grants[k]
    PROVE  GrantInv(k)'
<1> SUFFICES ASSUME trust_grants[k] # None PROVE GrantInv(k)'
  BY DEF GrantInv
<1>1. PICK e \in Built : e = trust_grants[k]
  BY DEF GrantInv
<1>2. Signer => \E h \in sth_log[TenantOf(e)] : LeafBelow(e, h.size)
  BY <1>1 DEF GrantInv
<1>3. Signer => (\E h \in sth_log[TenantOf(e)] : LeafBelow(e, h.size))'
  BY <1>2, CoverStays
<1>4. trust_grants'[k] = e /\ e \in Built'
  BY <1>1
<1> QED BY <1>3, <1>4 DEF GrantInv

\* Where a call has nothing to show for itself.
Quiet == {"idle", "built", "already_claimed", "refused", "error", "sth_missing", "projection_missing"}

\* A step that moves one call, or none, and writes neither heads nor projection
\* has to keep the invariant for that call alone.
LEMMA MoveOne ==
    ASSUME MerkleInv, TypeOK', Grows, NEW e \in Entries, Built' = Built \/ Built' = Built \cup {e},
           \A f \in Entries \ {e} : call'[f] = call[f],
           e \in Built' => CallInv(e)',
           UNCHANGED <<sth_log, trust_grants>>
    PROVE  MerkleInv'
<1>1. ASSUME NEW f \in Built' PROVE CallInv(f)'
  BY <1>1, OthersKeep DEF MerkleInv, Built
<1>2. ASSUME NEW t \in Tenants PROVE HeadInv(t)'
  BY <1>2, HeadsKeep DEF MerkleInv
<1>3. ASSUME NEW k \in GrantKeys PROVE GrantInv(k)'
  BY <1>3, GrantsKeep DEF MerkleInv
<1> QED BY <1>1, <1>2, <1>3 DEF MerkleInv

\* A call that goes to a quiet place.
LEMMA MoveQuiet ==
    ASSUME MerkleInv, TypeOK', NEW e \in Entries, NEW place \in Quiet, Goto(e, place),
           \A f \in Built : entry'[f] = entry[f],
           Built' = Built \/ Built' = Built \cup {e},
           UNCHANGED <<leaves, sth_log, trust_grants>>
    PROVE  MerkleInv'
<1>1. call'[e] = At(place) /\ \A f \in Entries \ {e} : call'[f] = call[f]
  BY DEF Goto, MerkleInv, TypeOK
<1>2. call'[e].at \in Quiet
  BY <1>1 DEF At
<1>3. CallInv(e)'
  BY <1>2 DEF CallInv, Quiet
<1>4. Grows
  BY DEF Grows, Prefix, MerkleInv, TypeOK
<1> QED BY <1>1, <1>3, <1>4, MoveOne

\* The post-commit move of record_entry: to the Merkle hook, or past it when there
\* is no signer.
LEMMA CommitKeeps ==
    ASSUME MerkleInv, TypeOK', NEW e \in Entries, commit(e)
    PROVE  MerkleInv'
<1>1. UNCHANGED <<entry, leaves, sth_log, trust_grants>> /\ Built' = Built
  BY DEF commit, Built
<1>2. PICK place : /\ Goto(e, place)
                   /\ \/ place \in Quiet
                      \/ place = "stored" /\ Signer
                      \/ place = after_merkle(e) /\ ~Signer
  <2>1. \/ Goto(e, "already_claimed")
        \/ Goto(e, "refused")
        \/ Goto(e, "stored") /\ Signer
        \/ Goto(e, after_merkle(e)) /\ ~Signer
    BY DEF commit
  <2> QED BY <2>1 DEF Quiet
<1>3. CASE place \in Quiet
  BY <1>1, <1>2, <1>3, MoveQuiet
<1>4. CASE place \notin Quiet
  <2>1. call'[e] = At(place) /\ \A f \in Entries \ {e} : call'[f] = call[f]
    BY <1>2 DEF Goto, MerkleInv, TypeOK
  <2>2. call'[e].at = place
    BY <2>1 DEF At
  <2>3. CallInv(e)'
    BY <1>1, <1>2, <1>4, <2>2 DEF CallInv, after_merkle
  <2>4. Grows
    BY <1>1 DEF Grows, Prefix, MerkleInv, TypeOK
  <2> QED BY <1>1, <2>1, <2>3, <2>4, MoveOne
<1> QED BY <1>3, <1>4

\* The leaf of an entry is the last of the log it was appended to.
LEMMA InsertKeeps ==
    ASSUME MerkleInv, TypeOK', NEW e \in Built, NEW n, insert_leaf(e, n), Signer
    PROVE  MerkleInv'
<1> DEFINE t == TenantOf(e)
<1>1. t \in Tenants /\ e \in Entries /\ leaves[t] \in Seq(Entries)
  BY EntryParts DEF MerkleInv, TypeOK
<1>2. UNCHANGED <<entry, sth_log, trust_grants>> /\ Built' = Built /\ TenantOf(e)' = t
  BY DEF insert_leaf, Built, TenantOf
<1>3. CASE ~leaf_fits(e, n)
  BY <1>1, <1>2, <1>3, MoveQuiet DEF insert_leaf, Quiet
<1>4. CASE leaf_fits(e, n)
  <2>1. leaves' = [leaves EXCEPT ![t] = Append(leaves[t], e)] /\ Goto(e, "appended")
    BY <1>4 DEF insert_leaf
  <2>2. leaves'[t] = Append(leaves[t], e) /\ \A u \in Tenants \ {t} : leaves'[u] = leaves[u]
    BY <1>1, <2>1 DEF MerkleInv, TypeOK
  <2>3. \A u \in Tenants : Prefix(leaves[u], leaves'[u])
    <3> TAKE u \in Tenants
    <3>1. CASE u = t
      BY <1>1, <2>2, <3>1 DEF Prefix
    <3>2. CASE u # t
      BY <2>2, <3>2 DEF Prefix, MerkleInv, TypeOK
    <3> QED BY <3>1, <3>2
  <2>4. Grows
    BY <1>2, <2>3 DEF Grows
  <2>5. call'[e] = At("appended") /\ \A f \in Entries \ {e} : call'[f] = call[f]
    BY <1>1, <2>1 DEF Goto, MerkleInv, TypeOK
  <2>6. call'[e].at = "appended"
    BY <2>5 DEF At
  <2>7. LeafBelow(e, Len(leaves[t]))'
    <3> DEFINE i == Len(leaves[t]) + 1
    <3>1. i \in DOMAIN leaves'[t] /\ leaves'[t][i] = e /\ i <= Len(leaves'[t])
      BY <1>1, <2>2
    <3> QED BY <1>2, <3>1 DEF LeafBelow
  <2>8. CallInv(e)'
    BY <1>2, <2>6, <2>7 DEF CallInv
  <2> QED BY <1>1, <1>2, <2>4, <2>5, <2>8, MoveOne
<1> QED BY <1>3, <1>4

\* The two reads: the size and the root are taken after the own leaf, the root
\* after the size.
LEMMA ReadsKeep ==
    ASSUME MerkleInv, TypeOK', NEW e \in Built, append_pg_count(e) \/ tree_size(e) \/ merkle_root(e)
    PROVE  MerkleInv'
<1> DEFINE t == TenantOf(e)
<1>1. /\ t \in Tenants /\ e \in Entries /\ leaves[t] \in Seq(Entries) /\ Len(leaves[t]) \in Nat
      /\ call[e] \in Call
  BY EntryParts DEF MerkleInv, TypeOK
<1>2. UNCHANGED <<entry, leaves, sth_log, trust_grants>> /\ Built' = Built /\ TenantOf(e)' = t
  BY DEF append_pg_count, tree_size, merkle_root, tables, Built, TenantOf
<1>3. \A f \in Entries \ {e} : call'[f] = call[f]
  BY <1>1 DEF append_pg_count, tree_size, merkle_root, MerkleInv, TypeOK
<1>4. Grows
  BY <1>2 DEF Grows, Prefix, MerkleInv, TypeOK
<1>5. CallInv(e)
  BY DEF MerkleInv
<1>6. CASE append_pg_count(e)
  <2>1. call'[e].at = "counted" /\ call[e].at = "stored"
    BY <1>1, <1>6 DEF append_pg_count, MerkleInv, TypeOK, Call
  <2>2. CallInv(e)'
    BY <1>5, <2>1 DEF CallInv
  <2> QED BY <1>1, <1>2, <1>3, <1>4, <2>2, MoveOne
<1>7. CASE tree_size(e)
  <2>1. call'[e].at = "sized" /\ call'[e].size = Len(leaves[t]) /\ call[e].at = "appended"
    BY <1>1, <1>7 DEF tree_size, MerkleInv, TypeOK, Call
  <2>2. LeafBelow(e, call[e].size)' /\ call'[e].size <= Len(leaves'[t])
    BY <1>1, <1>2, <1>5, <2>1 DEF CallInv, LeafBelow
  <2>3. Signer
    BY <1>5, <2>1 DEF CallInv
  <2>4. CallInv(e)'
    BY <1>2, <2>1, <2>2, <2>3 DEF CallInv
  <2> QED BY <1>1, <1>2, <1>3, <1>4, <2>4, MoveOne
<1>8. CASE merkle_root(e)
  <2>1. /\ call'[e].at = "rooted" /\ call'[e].root = leaves[t] /\ call'[e].size = call[e].size
        /\ call[e].at = "sized"
    BY <1>1, <1>8 DEF merkle_root, MerkleInv, TypeOK, Call
  <2>2. LeafBelow(e, call[e].size)' /\ call'[e].size <= Len(leaves[t])
    BY <1>1, <1>2, <1>5, <2>1 DEF CallInv, LeafBelow
  <2>3. Prefix(call'[e].root, leaves'[t])
    BY <1>1, <1>2, <2>1 DEF Prefix
  <2>4. Signer
    BY <1>5, <2>1 DEF CallInv
  <2>5. CallInv(e)'
    BY <1>2, <2>1, <2>2, <2>3, <2>4 DEF CallInv
  <2> QED BY <1>1, <1>2, <1>3, <1>4, <2>5, MoveOne
<1> QED BY <1>6, <1>7, <1>8

\* The head a call stores is right; and when its tree_size is taken, the head that
\* has it covers the call's leaf as well, because a size counts every leaf below.
LEMMA StoreKeeps ==
    ASSUME MerkleInv, TypeOK', NEW e \in Built, store_sth(e)
    PROVE  MerkleInv'
<1> DEFINE t == TenantOf(e)
           h == [size |-> call[e].size, root |-> call[e].root]
<1>1. t \in Tenants /\ e \in Entries /\ CallInv(e) /\ call[e].at = "rooted"
  BY EntryParts DEF MerkleInv, store_sth
<1>2. UNCHANGED <<entry, leaves, trust_grants>> /\ Built' = Built /\ \A f : TenantOf(f)' = TenantOf(f)
  BY DEF store_sth, Built, TenantOf
<1>3. Signer /\ LeafBelow(e, h.size) /\ h.size <= Len(h.root) /\ Prefix(h.root, leaves[t])
  BY <1>1 DEF CallInv
<1>4. \/ sth_log' = sth_log /\ \E g \in sth_log[t] : g.size = h.size
      \/ sth_log' = [sth_log EXCEPT ![t] = sth_log[t] \cup {h}]
  BY DEF store_sth, sth_inserted
<1> HIDE DEF h
<1>5. \A u \in Tenants : sth_log[u] \subseteq sth_log'[u] /\ sth_log'[u] \subseteq sth_log[u] \cup (IF u = t THEN {h} ELSE {})
  BY <1>1, <1>4 DEF MerkleInv, TypeOK
<1>6. Grows
  BY <1>2, <1>5 DEF Grows, Prefix, MerkleInv, TypeOK
<1>7. \E g \in sth_log'[t] : g.size = h.size
  BY <1>1, <1>4 DEF MerkleInv, TypeOK
<1>8. (\E g \in sth_log[TenantOf(e)] : LeafBelow(e, g.size))'
  <2>1. PICK g \in sth_log'[t] : g.size = h.size
    BY <1>7
  <2>2. LeafBelow(e, g.size)'
    BY <1>2, <1>3, <2>1 DEF LeafBelow
  <2> QED BY <1>2, <2>2
<1>9. call'[e] = At(after_merkle(e)) /\ \A f \in Entries \ {e} : call'[f] = call[f]
  BY <1>1 DEF store_sth, Goto, MerkleInv, TypeOK
<1>10. call'[e].at = after_merkle(e)
  BY <1>9 DEF At
<1>11. CallInv(e)'
  BY <1>2, <1>8, <1>10 DEF CallInv, after_merkle
<1>12. ASSUME NEW f \in Built' PROVE CallInv(f)'
  BY <1>2, <1>6, <1>9, <1>11, <1>12, OthersKeep DEF MerkleInv, Built
<1>13. ASSUME NEW u \in Tenants PROVE HeadInv(u)'
  BY <1>2, <1>3, <1>5, <1>13 DEF HeadInv, MerkleInv
<1>14. ASSUME NEW k \in GrantKeys PROVE GrantInv(k)'
  BY <1>2, <1>6, <1>14, GrantsKeep DEF MerkleInv
<1> QED BY <1>12, <1>13, <1>14 DEF MerkleInv

\* The projection is written from an entry whose call is past the Merkle hook.
LEMMA ProjectKeeps ==
    ASSUME MerkleInv, TypeOK', NEW e \in Built, project_trust_grant(e)
    PROVE  MerkleInv'
<1>1. e \in Entries /\ CallInv(e) /\ call[e].at = "projecting"
  BY EntryParts DEF MerkleInv, project_trust_grant
<1>2. /\ UNCHANGED <<entry, leaves, sth_log>> /\ Built' = Built /\ TenantOf(e)' = TenantOf(e)
      /\ trust_grants' = [trust_grants EXCEPT ![entry[e].req.key] = e]
  BY DEF project_trust_grant, Built, TenantOf
<1>3. Grows
  BY <1>2 DEF Grows, Prefix, MerkleInv, TypeOK
<1>4. Signer => (\E h \in sth_log[TenantOf(e)] : LeafBelow(e, h.size))'
  BY <1>1, <1>3, CoverStays DEF CallInv, MerkleInv
<1>5. call'[e] = At("recorded") /\ \A f \in Entries \ {e} : call'[f] = call[f]
  BY <1>1 DEF project_trust_grant, Goto, MerkleInv, TypeOK
<1>6. call'[e].at = "recorded"
  BY <1>5 DEF At
<1>7. CallInv(e)'
  BY <1>4, <1>6 DEF CallInv
<1>8. ASSUME NEW f \in Built' PROVE CallInv(f)'
  BY <1>2, <1>3, <1>5, <1>7, <1>8, OthersKeep DEF MerkleInv, Built
<1>9. ASSUME NEW t \in Tenants PROVE HeadInv(t)'
  BY <1>2, <1>3, <1>9, HeadsKeep DEF MerkleInv
<1>10. ASSUME NEW k \in GrantKeys PROVE GrantInv(k)'
  <2>1. CASE trust_grants'[k] = trust_grants[k]
    BY <1>2, <1>3, <2>1, GrantsKeep DEF MerkleInv
  <2>2. CASE trust_grants'[k] # trust_grants[k]
    <3>1. trust_grants'[k] = e
      BY <1>2, <2>2 DEF MerkleInv, TypeOK
    <3> QED BY <1>2, <1>4, <3>1 DEF GrantInv
  <2> QED BY <2>1, <2>2
<1> QED BY <1>8, <1>9, <1>10 DEF MerkleInv

\* The latest head is at least as large as the one that covers the entry, so its
\* root holds the entry too.
LEMMA ReceiptKeeps ==
    ASSUME MerkleInv, TypeOK', NEW e \in Built,
           current_sth(e) \/ lookup_grant_id_by_chain_event(e)
    PROVE  MerkleInv'
<1> DEFINE t == TenantOf(e)
<1>1. /\ t \in Tenants /\ e \in Entries /\ CallInv(e) /\ call[e] \in Call
      /\ leaves[t] \in Seq(Entries) /\ sth_log[t] \subseteq TreeHead /\ HeadInv(t)
  BY EntryParts DEF MerkleInv, TypeOK
<1>2. UNCHANGED <<entry, leaves, sth_log, trust_grants>> /\ Built' = Built /\ TenantOf(e)' = t
  BY DEF current_sth, lookup_grant_id_by_chain_event, tables, Built, TenantOf
<1>3. Grows
  BY <1>2 DEF Grows, Prefix, MerkleInv, TypeOK
<1>4. Signer /\ call[e].at \in {"recorded", "has_sth"} =>
         (\E h \in sth_log[TenantOf(e)] : LeafBelow(e, h.size))'
  BY <1>1, <1>3, CoverStays DEF CallInv, MerkleInv
<1>5. CASE Goto(e, "sth_missing") \/ Goto(e, "projection_missing")
  BY <1>1, <1>2, <1>5, MoveQuiet DEF Quiet
<1>6. CASE current_sth(e) /\ ~Goto(e, "sth_missing")
  <2>1. PICK h \in sth_log[t] :
           /\ \A g \in sth_log[t] : g.size <= h.size
           /\ call' = [call EXCEPT ![e] = [at |-> "has_sth", size |-> h.size, root |-> h.root]]
    BY <1>6 DEF current_sth
  <2>2. call[e].at = "recorded"
    BY <1>6 DEF current_sth
  <2>3. /\ call'[e].at = "has_sth" /\ call'[e].root = h.root
        /\ \A f \in Entries \ {e} : call'[f] = call[f]
    BY <1>1, <2>1 DEF MerkleInv, TypeOK
  <2>4. h.size \in Nat /\ h.root \in Seq(Entries) /\ Signer /\ h.size <= Len(h.root) /\ Prefix(h.root, leaves[t])
    BY <1>1, <2>1 DEF HeadInv, TreeHead
  <2>5. PICK g \in sth_log[t] : LeafBelow(e, g.size)
    BY <1>1, <2>2, <2>4 DEF CallInv
  <2>6. PICK i \in DOMAIN leaves[t] : leaves[t][i] = e /\ i <= g.size
    BY <2>5 DEF LeafBelow
  <2>7. g.size <= h.size /\ g.size \in Nat
    BY <1>1, <2>1, <2>5 DEF TreeHead
  <2>8. i \in DOMAIN h.root /\ h.root[i] = e
    BY <1>1, <2>4, <2>6, <2>7 DEF Prefix
  <2>9. In(e, call'[e].root)
    BY <2>3, <2>8 DEF In
  <2>10. CallInv(e)'
    BY <1>2, <1>4, <2>2, <2>3, <2>9 DEF CallInv, In
  <2> QED BY <1>1, <1>2, <1>3, <2>3, <2>10, MoveOne
<1>7. CASE lookup_grant_id_by_chain_event(e) /\ ~Goto(e, "projection_missing")
  <2>1. call' = [call EXCEPT ![e].at = "done"] /\ call[e].at = "has_sth"
    BY <1>7 DEF lookup_grant_id_by_chain_event
  <2>2. /\ call'[e].at = "done" /\ call'[e].root = call[e].root
        /\ \A f \in Entries \ {e} : call'[f] = call[f]
    BY <1>1, <2>1 DEF MerkleInv, TypeOK, Call
  <2>3. CallInv(e)'
    BY <1>1, <1>2, <1>4, <2>1, <2>2 DEF CallInv, In
  <2> QED BY <1>1, <1>2, <1>3, <2>2, <2>3, MoveOne
<1> QED BY <1>5, <1>6, <1>7

\* Every step keeps the invariant.
LEMMA StepMerkle ==
    ASSUME MerkleInv, [Next]_vars
    PROVE  MerkleInv'
<1>1. TypeOK /\ TypeOK'
  BY StepType DEF MerkleInv
<1>2. ASSUME NEW e \in Entries, NEW r \in Requests, build(e, r) PROVE MerkleInv'
  <2>1. Built' = Built \/ Built' = Built \cup {e}
    <3>1. entry[e] = None /\ \A f \in Entries \ {e} : entry'[f] = entry[f]
      BY <1>1, <1>2 DEF build, TypeOK
    <3>2. CASE entry'[e] = None
      BY <3>1, <3>2 DEF Built
    <3>3. CASE entry'[e] # None
      BY <3>1, <3>3 DEF Built
    <3> QED BY <3>2, <3>3
  <2>2. \A f \in Built : entry'[f] = entry[f]
    BY <1>1, <1>2 DEF build, Built, TypeOK
  <2> QED BY <1>1, <1>2, <2>1, <2>2, MoveQuiet DEF build, Quiet, tables
<1>3. ASSUME NEW e \in Entries, Proceed(e) PROVE MerkleInv'
  <2>1. e \in Built /\ CallInv(e)
    BY <1>3, BuiltWhenCalled DEF MerkleInv
  <2>2. CASE append_sqlite(e) \/ append_pg_insert(e)
    <3>1. Signer
      BY <2>1, <2>2 DEF CallInv, append_sqlite, append_pg_insert
    <3>2. \E n : insert_leaf(e, n)
      BY <2>2 DEF append_sqlite, append_pg_insert
    <3> QED BY <1>1, <2>1, <3>1, <3>2, InsertKeeps
  <2> QED BY <1>1, <1>3, <2>1, <2>2, CommitKeeps, ReadsKeep, StoreKeeps, ProjectKeeps, ReceiptKeeps DEF Proceed
<1>4. ASSUME NEW e \in Entries, fail(e) \/ resubmit(e) PROVE MerkleInv'
  <2>1. Built' = Built
    BY <1>4 DEF fail, resubmit, Built
  <2>2. \E place \in Quiet : Goto(e, place)
    BY <1>4 DEF fail, resubmit, Quiet
  <2> QED BY <1>1, <1>4, <2>1, <2>2, MoveQuiet DEF fail, resubmit, tables
<1>5. CASE UNCHANGED <<entry, leaves, sth_log, trust_grants, call>>
  <2>1. Built' = Built
    BY <1>5 DEF Built
  <2>2. Grows
    BY <1>1, <1>5 DEF Grows, Prefix, TypeOK
  <2>3. ASSUME NEW e \in Built' PROVE CallInv(e)'
    BY <1>1, <1>5, <2>1, <2>2, <2>3, OthersKeep DEF MerkleInv
  <2>4. ASSUME NEW t \in Tenants PROVE HeadInv(t)'
    BY <1>1, <1>5, <2>2, <2>4, HeadsKeep DEF MerkleInv
  <2>5. ASSUME NEW k \in GrantKeys PROVE GrantInv(k)'
    BY <1>1, <1>5, <2>1, <2>2, <2>5, GrantsKeep DEF MerkleInv
  <2> QED BY <1>1, <2>3, <2>4, <2>5 DEF MerkleInv
<1>6. ASSUME NEW a \in Times, NEW b \in Times, archive_audit_range(a, b) PROVE MerkleInv'
  BY <1>5, <1>6 DEF archive_audit_range
<1>7. CASE UNCHANGED vars
  BY <1>5, <1>7 DEF vars, tables
<1> QED BY <1>2, <1>3, <1>4, <1>6, <1>7 DEF Next

\* What every call has secured, what every head covers and what every projection
\* row was made from, as one inductive invariant.
THEOREM MerkleInvariant == Spec => []MerkleInv
<1>1. Init => MerkleInv
  <2> SUFFICES ASSUME Init PROVE MerkleInv
    OBVIOUS
  <2>1. Built = {}
    BY DEF Init, Built
  <2> QED BY <2>1, InitType DEF Init, MerkleInv, HeadInv, GrantInv
<1> QED BY <1>1, StepMerkle, PTL DEF Spec

\* A head that covers e's leaf has e in its root.
LEMMA BelowIsCovered ==
    ASSUME MerkleInv, NEW e \in Built, NEW h \in sth_log[TenantOf(e)], LeafBelow(e, h.size)
    PROVE  Covered(e)
<1> DEFINE t == TenantOf(e)
<1>1. t \in Tenants /\ leaves[t] \in Seq(Entries) /\ h \in TreeHead
  BY EntryParts DEF MerkleInv, TypeOK
<1>2. h.size <= Len(h.root) /\ Prefix(h.root, leaves[t])
  BY <1>1 DEF MerkleInv, HeadInv
<1>3. PICK i \in DOMAIN leaves[t] : leaves[t][i] = e /\ i <= h.size
  BY DEF LeafBelow
<1>4. i \in DOMAIN h.root /\ h.root[i] = e
  BY <1>1, <1>2, <1>3 DEF Prefix, TreeHead
<1> QED BY <1>4 DEF Covered, In

\* Signed heads never claim more than their root covers, and roots are prefixes.
THEOREM HeadsCover == Spec => []HeadsCoverTheirLeaves
<1>1. MerkleInv => HeadsCoverTheirLeaves
  BY DEF MerkleInv, HeadInv, Prefix, HeadsCoverTheirLeaves
<1> QED BY <1>1, MerkleInvariant, PTL

\* A call that recorded its entry left a stored head that covers it.
THEOREM SuccessIsCovered == Spec => []SuccessMeansCovered
<1>1. MerkleInv => SuccessMeansCovered
  <2> SUFFICES ASSUME MerkleInv, Signer, NEW e \in Entries,
                      call[e].at \in {"projecting", "recorded", "has_sth", "done"}
               PROVE  Covered(e)
    BY DEF SuccessMeansCovered
  <2>1. e \in Built
    BY DEF MerkleInv, TypeOK
  <2>2. PICK h \in sth_log[TenantOf(e)] : LeafBelow(e, h.size)
    BY <2>1 DEF MerkleInv, CallInv
  <2> QED BY <2>1, <2>2, BelowIsCovered
<1> QED BY <1>1, MerkleInvariant, PTL

\* The head on a receipt covers the granted entry.
THEOREM ReceiptsProve == Spec => []ReceiptProvesEntry
<1>1. MerkleInv => ReceiptProvesEntry
  BY DEF MerkleInv, TypeOK, CallInv, ReceiptProvesEntry
<1> QED BY <1>1, MerkleInvariant, PTL

\* A projection row is never ahead of the transparency log.
THEOREM GrantsProvable == Spec => []GrantsAreProvable
<1>1. MerkleInv => GrantsAreProvable
  <2> SUFFICES ASSUME MerkleInv, Signer, NEW k \in GrantKeys, trust_grants[k] # None
               PROVE  Covered(trust_grants[k])
    BY DEF GrantsAreProvable
  <2>1. PICK e \in Built : e = trust_grants[k]
    BY DEF MerkleInv, GrantInv
  <2>2. PICK h \in sth_log[TenantOf(e)] : LeafBelow(e, h.size)
    BY <2>1 DEF MerkleInv, GrantInv
  <2>3. Covered(e)
    BY <2>2, BelowIsCovered
  <2> QED BY <2>1, <2>3
<1> QED BY <1>1, MerkleInvariant, PTL

-----------------------------------------------------------------------------
(* The refinement of TransparencyLog.  A leaf is of its own tenant and was  *)
(* recorded, a call past its commit has a recorded entry, and the head a     *)
(* call carries to its receipt is a stored one.                             *)

Committed == {"stored", "counted", "appended", "sized", "rooted", "projecting", "recorded", "has_sth", "done"}

\* A call that has its receipt, or the head for it.
Receipted(e) == call[e].at = "has_sth" \/ (call[e].at = "done" /\ entry[e].req.kind # "other")

HeadOf(e) == [size |-> call[e].size, root |-> call[e].root]

LeafInv(t) ==
    \A i \in DOMAIN leaves[t] :
        leaves[t][i] \in accepted /\ leaves[t][i] \in Built /\ TenantOf(leaves[t][i]) = t

RecordInv(e) ==
    /\ call[e].at \in Committed => e \in accepted
    /\ Receipted(e) => HeadOf(e) \in sth_log[TenantOf(e)]

LogInv == (\A t \in Tenants : LeafInv(t)) /\ \A e \in Built : RecordInv(e)

\* What no step takes back.
LEMMA Accumulates ==
    ASSUME TypeOK, [Next]_vars
    PROVE  /\ accepted \subseteq accepted' /\ Built \subseteq Built'
           /\ \A e \in Built : entry'[e] = entry[e] /\ TenantOf(e)' = TenantOf(e)
<1>1. \A e \in Built : entry'[e] = entry[e]
  BY StepIsChainStep DEF ChainStep
<1>2. accepted \subseteq accepted'
  BY DEF Next, Proceed, build, commit, append_sqlite, append_pg_count, append_pg_insert, insert_leaf,
         tree_size, merkle_root, store_sth, project_trust_grant, current_sth,
         lookup_grant_id_by_chain_event, fail, resubmit, archive_audit_range, tables, vars
<1>3. Built \subseteq Built'
  BY <1>1 DEF Built
<1> QED BY <1>1, <1>2, <1>3 DEF TenantOf

\* A step that moves the call of e, and writes no leaf.
LEMMA LogMove ==
    ASSUME TypeOK, LogInv, [Next]_vars, NEW e \in Entries, leaves' = leaves,
           \A t \in Tenants : sth_log[t] \subseteq sth_log'[t],
           Built' = Built \/ Built' = Built \cup {e},
           \A f \in Entries \ {e} : call'[f] = call[f],
           e \in Built' => RecordInv(e)'
    PROVE  LogInv'
<1>1. ASSUME NEW t \in Tenants PROVE LeafInv(t)'
  BY Accumulates DEF LogInv, LeafInv
<1>2. ASSUME NEW f \in Built', f # e PROVE RecordInv(f)'
  <2>1. f \in Built /\ f \in Entries /\ RecordInv(f) /\ call'[f] = call[f] /\ TenantOf(f) \in Tenants
    BY <1>2, EntryParts DEF LogInv, Built
  <2>2. entry'[f] = entry[f] /\ TenantOf(f)' = TenantOf(f) /\ accepted \subseteq accepted'
    BY <2>1, Accumulates
  <2> QED BY <2>1, <2>2 DEF RecordInv, Receipted, HeadOf
<1> QED BY <1>1, <1>2 DEF LogInv

\* A call that is not past its commit, or has lost its way, claims nothing.
LEMMA LogQuiet ==
    ASSUME TypeOK, LogInv, [Next]_vars, NEW e \in Entries, NEW place \in Quiet, Goto(e, place),
           UNCHANGED <<leaves, sth_log>>, Built' = Built \/ Built' = Built \cup {e}
    PROVE  LogInv'
<1>1. call'[e] = At(place) /\ \A f \in Entries \ {e} : call'[f] = call[f]
  BY DEF Goto, TypeOK
<1>2. call'[e].at = place
  BY <1>1 DEF At
<1>3. RecordInv(e)'
  BY <1>2 DEF RecordInv, Receipted, Committed, Quiet
<1> QED BY <1>1, <1>3, LogMove

\* Every step keeps the invariant.
LEMMA LogStep == ASSUME MerkleInv, LogInv, [Next]_vars PROVE LogInv'
<1>0. TypeOK
  BY DEF MerkleInv
<1>1. ASSUME NEW e \in Entries, NEW r \in Requests, build(e, r) PROVE LogInv'
  <2>1. Built' = Built \/ Built' = Built \cup {e}
    <3>1. \A f \in Entries \ {e} : entry'[f] = entry[f]
      BY <1>0, <1>1 DEF build, TypeOK
    <3>2. CASE entry'[e] = None
      BY <1>1, <3>1, <3>2 DEF Built, build
    <3>3. CASE entry'[e] # None
      BY <3>1, <3>3 DEF Built
    <3> QED BY <3>2, <3>3
  <2> QED BY <1>0, <1>1, <2>1, LogQuiet DEF build, Quiet, tables
<1>2. ASSUME NEW e \in Entries, fail(e) \/ resubmit(e) PROVE LogInv'
  <2>1. Built' = Built
    BY <1>2 DEF fail, resubmit, Built
  <2>2. \E place \in Quiet : Goto(e, place)
    BY <1>2 DEF fail, resubmit, Quiet
  <2> QED BY <1>0, <1>2, <2>1, <2>2, LogQuiet DEF fail, resubmit, tables
<1>3. ASSUME NEW e \in Entries, Proceed(e) PROVE LogInv'
  <2> DEFINE t == TenantOf(e)
  <2>1. /\ e \in Built /\ t \in Tenants /\ RecordInv(e) /\ call[e] \in Call
        /\ leaves[t] \in Seq(Entries)
    BY <1>0, <1>3, BuiltWhenCalled, EntryParts DEF LogInv, TypeOK
  <2>2. UNCHANGED entry /\ Built' = Built /\ TenantOf(e)' = t
    BY <1>3 DEF Proceed, commit, append_sqlite, append_pg_count, append_pg_insert, insert_leaf,
         tree_size, merkle_root, store_sth, project_trust_grant, current_sth,
         lookup_grant_id_by_chain_event, tables, Built, TenantOf
  <2>3. \A f \in Entries \ {e} : call'[f] = call[f]
    BY <1>0, <1>3 DEF Proceed, commit, append_sqlite, append_pg_count, append_pg_insert, insert_leaf,
         tree_size, merkle_root, store_sth, project_trust_grant, current_sth,
         lookup_grant_id_by_chain_event, Goto, TypeOK
  <2>4. accepted \subseteq accepted'
    BY <1>0, Accumulates
  <2>5. CASE commit(e)
    <3>1. PICK place : /\ Goto(e, place)
                       /\ \/ place \in Quiet
                          \/ place \in {"stored", after_merkle(e)} /\ e \in accepted'
      BY <2>5 DEF commit, Quiet
    <3>2. CASE place \in Quiet
      BY <1>0, <2>2, <2>5, <3>1, <3>2, LogQuiet DEF commit
    <3>3. CASE place \notin Quiet
      <4>1. call'[e] = At(place)
        BY <1>0, <3>1 DEF Goto, TypeOK
      <4>2. call'[e].at = place
        BY <4>1 DEF At
      <4>3. RecordInv(e)'
        BY <2>2, <3>1, <3>3, <4>2 DEF RecordInv, Receipted, after_merkle
      <4> QED BY <1>0, <2>2, <2>3, <2>5, <4>3, LogMove DEF commit
    <3> QED BY <3>2, <3>3
  <2>6. ASSUME NEW n, insert_leaf(e, n), e \in accepted PROVE LogInv'
    <3>1. CASE ~leaf_fits(e, n)
      BY <1>0, <2>2, <2>6, <3>1, LogQuiet DEF insert_leaf, Quiet
    <3>2. CASE leaf_fits(e, n)
      <4>1. leaves'[t] = Append(leaves[t], e) /\ \A u \in Tenants \ {t} : leaves'[u] = leaves[u]
        BY <1>0, <2>1, <2>6, <3>2 DEF insert_leaf, TypeOK
      <4>2. UNCHANGED <<accepted, sth_log>> /\ \A f : TenantOf(f)' = TenantOf(f)
        BY <2>6 DEF insert_leaf, TenantOf
      <4>3. call'[e] = At("appended")
        BY <1>0, <2>6, <3>2 DEF insert_leaf, Goto, TypeOK
      <4>4. call'[e].at = "appended"
        BY <4>3 DEF At
      <4>5. ASSUME NEW u \in Tenants PROVE LeafInv(u)'
        <5>1. CASE u = t
          <6> DEFINE s == leaves[t]
          <6>0. s \in Seq(Entries) /\ e \in Entries /\ leaves'[t] = Append(s, e)
            BY <2>1, <4>1
          <6> HIDE DEF s
          <6>1. \A i \in DOMAIN Append(s, e) : Append(s, e)[i] = e \/ (i \in DOMAIN s /\ Append(s, e)[i] = s[i])
            BY <6>0
          <6> QED BY <2>1, <2>2, <2>6, <4>2, <5>1, <6>0, <6>1 DEF LogInv, LeafInv, s
        <5>2. CASE u # t
          BY <2>2, <4>1, <4>2, <5>2 DEF LogInv, LeafInv
        <5> QED BY <5>1, <5>2
      <4>6. ASSUME NEW f \in Built' PROVE RecordInv(f)'
        <5>1. CASE f = e
          BY <2>6, <4>2, <4>4, <5>1 DEF RecordInv, Receipted
        <5>2. CASE f # e
          BY <2>2, <2>3, <4>2, <5>2 DEF LogInv, RecordInv, Receipted, HeadOf, Built
        <5> QED BY <5>1, <5>2
      <4> QED BY <4>5, <4>6 DEF LogInv
    <3> QED BY <3>1, <3>2
  <2>7. CASE append_sqlite(e) \/ append_pg_insert(e)
    <3>1. e \in accepted
      BY <2>1, <2>7 DEF append_sqlite, append_pg_insert, RecordInv, Committed
    <3> QED BY <2>6, <2>7, <3>1 DEF append_sqlite, append_pg_insert
  <2>8. CASE append_pg_count(e) \/ tree_size(e) \/ merkle_root(e)
    <3>1. UNCHANGED <<leaves, sth_log, accepted>>
      BY <2>8 DEF append_pg_count, tree_size, merkle_root, tables
    <3>2. call'[e].at \in {"counted", "sized", "rooted"} /\ call[e].at \in Committed
      BY <1>0, <2>1, <2>8 DEF append_pg_count, tree_size, merkle_root, Committed, TypeOK, Call
    <3>3. RecordInv(e)'
      BY <2>1, <3>1, <3>2 DEF RecordInv, Receipted
    <3> QED BY <1>0, <2>2, <2>3, <3>1, <3>3, LogMove
  <2>9. CASE store_sth(e) \/ project_trust_grant(e)
    <3>1. UNCHANGED <<leaves, accepted>> /\ \A u \in Tenants : sth_log[u] \subseteq sth_log'[u]
      BY <1>0, <2>1, <2>9 DEF store_sth, project_trust_grant, sth_inserted, TypeOK
    <3>2. PICK place : Goto(e, place) /\ place \in {after_merkle(e), "recorded"}
      BY <2>9 DEF store_sth, project_trust_grant
    <3>3. call'[e] = At(place)
      BY <1>0, <3>2 DEF Goto, TypeOK
    <3>4. call'[e].at = place /\ call[e].at \in Committed
      BY <2>9, <3>3 DEF At, store_sth, project_trust_grant, Committed
    <3>5. RecordInv(e)'
      BY <2>1, <2>2, <3>1, <3>2, <3>4 DEF RecordInv, Receipted, after_merkle
    <3> QED BY <1>0, <2>2, <2>3, <3>1, <3>5, LogMove
  <2>10. CASE current_sth(e) \/ lookup_grant_id_by_chain_event(e)
    <3>1. UNCHANGED <<leaves, sth_log, accepted>> /\ call[e].at \in {"recorded", "has_sth"}
      BY <2>10 DEF current_sth, lookup_grant_id_by_chain_event, tables
    <3>2. CASE Goto(e, "sth_missing") \/ Goto(e, "projection_missing")
      BY <1>0, <2>2, <3>1, <3>2, LogQuiet DEF Quiet
    <3>3. CASE \E h \in sth_log[t] : call' = [call EXCEPT ![e] = [at |-> "has_sth", size |-> h.size, root |-> h.root]]
      <4>1. PICK h \in sth_log[t] : call' = [call EXCEPT ![e] = [at |-> "has_sth", size |-> h.size, root |-> h.root]]
        BY <3>3
      <4>2. h = [size |-> h.size, root |-> h.root]
        BY <1>0, <2>1 DEF TypeOK, TreeHead
      <4>3. call'[e].at = "has_sth" /\ call'[e].size = h.size /\ call'[e].root = h.root
        BY <1>0, <4>1 DEF TypeOK
      <4>4. RecordInv(e)'
        BY <2>1, <2>2, <3>1, <4>2, <4>3 DEF RecordInv, Receipted, HeadOf, Committed
      <4> QED BY <1>0, <2>2, <2>3, <3>1, <4>4, LogMove
    <3>4. CASE call' = [call EXCEPT ![e].at = "done"] /\ call[e].at = "has_sth"
      <4>1. call'[e].at = "done" /\ call'[e].size = call[e].size /\ call'[e].root = call[e].root
        BY <1>0, <2>1, <3>4 DEF TypeOK, Call
      <4>2. RecordInv(e)'
        BY <2>1, <2>2, <3>1, <3>4, <4>1 DEF RecordInv, Receipted, HeadOf, Committed
      <4> QED BY <1>0, <2>2, <2>3, <3>1, <4>2, LogMove
    <3> QED BY <2>10, <3>2, <3>3, <3>4 DEF current_sth, lookup_grant_id_by_chain_event
  <2> QED BY <1>3, <2>5, <2>7, <2>8, <2>9, <2>10 DEF Proceed
<1>4. CASE UNCHANGED <<entry, leaves, sth_log, call, accepted>>
  BY <1>4 DEF LogInv, LeafInv, RecordInv, Receipted, HeadOf, Built, TenantOf
<1>5. ASSUME NEW a \in Times, NEW b \in Times, archive_audit_range(a, b) PROVE LogInv'
  BY <1>4, <1>5 DEF archive_audit_range
<1>6. CASE UNCHANGED vars
  BY <1>4, <1>6 DEF vars, tables
<1> QED BY <1>1, <1>2, <1>3, <1>5, <1>6 DEF Next

-----------------------------------------------------------------------------
\* A prefix is a beginning.
LEMMA PrefixIsBeginning ==
    ASSUME NEW s \in Seq(Entries), NEW r \in Seq(Entries), Prefix(r, s)
    PROVE  SubSeq(s, 1, Len(r)) = r
BY DEF Prefix

\* A call that stays where it is keeps its receipt, and one without a receipt
\* before and after has none.
LEMMA ReceiptsSame ==
    ASSUME TypeOK, NEW e \in Entries, \A f \in Entries \ {e} : call'[f] = call[f],
           \A f \in Built : entry'[f] = entry[f],
           receipt_of(e) = {}, receipt_of(e)' = {}
    PROVE  \A f \in Entries : receipt_of(f)' = receipt_of(f)
<1> SUFFICES ASSUME NEW f \in Entries, f # e PROVE receipt_of(f)' = receipt_of(f)
  OBVIOUS
<1>1. CASE call[f].at = "done"
  BY <1>1 DEF receipt_of, TypeOK
<1>2. CASE call[f].at # "done"
  BY <1>2 DEF receipt_of
<1> QED BY <1>1, <1>2

\* Every step of the audit plane is a step of the transparency log, or changes
\* nothing an auditor sees.
LEMMA StepTransparent ==
    ASSUME MerkleInv, LogInv, [Next]_vars
    PROVE  [Transparency!TNext]_(Transparency!tvars)
<1>0. TypeOK
  BY DEF MerkleInv
<1>s. ASSUME UNCHANGED <<accepted, leaves, sth_log>>, \A f \in Entries : receipt_of(f)' = receipt_of(f)
      PROVE  [Transparency!TNext]_(Transparency!tvars)
  BY <1>s DEF Transparency!tvars
<1>q. ASSUME NEW e \in Entries, UNCHANGED <<accepted, leaves, sth_log>>,
             \A f \in Entries \ {e} : call'[f] = call[f],
             call[e].at # "done", call'[e].at # "done"
      PROVE  [Transparency!TNext]_(Transparency!tvars)
  <2>1. receipt_of(e) = {} /\ receipt_of(e)' = {}
    BY <1>q DEF receipt_of
  <2>2. \A f \in Built : entry'[f] = entry[f]
    BY <1>0, Accumulates
  <2> QED BY <1>0, <1>q, <1>s, <2>1, <2>2, ReceiptsSame
<1>g. ASSUME NEW e \in Entries, NEW place, Goto(e, place)
      PROVE  call'[e].at = place /\ \A f \in Entries \ {e} : call'[f] = call[f]
  <2>1. call'[e] = At(place) /\ \A f \in Entries \ {e} : call'[f] = call[f]
    BY <1>0, <1>g DEF Goto, TypeOK
  <2> QED BY <2>1 DEF At
<1>1. ASSUME NEW e \in Entries, NEW r \in Requests, build(e, r)
      PROVE  [Transparency!TNext]_(Transparency!tvars)
  <2>1. call[e].at = "idle"
    BY <1>0, <1>1 DEF build, TypeOK, Built
  <2>2. call'[e].at = "built" /\ \A f \in Entries \ {e} : call'[f] = call[f]
    BY <1>1, <1>g DEF build
  <2> QED BY <1>1, <1>q, <2>1, <2>2 DEF build, tables
<1>2. ASSUME NEW e \in Entries, fail(e) \/ resubmit(e)
      PROVE  [Transparency!TNext]_(Transparency!tvars)
  <2>1. call[e].at # "done" /\ UNCHANGED <<accepted, leaves, sth_log>>
    BY <1>2 DEF fail, resubmit, Running, tables
  <2>2. call'[e].at \in {"error", "built"} /\ \A f \in Entries \ {e} : call'[f] = call[f]
    BY <1>2, <1>g DEF fail, resubmit
  <2> QED BY <1>q, <2>1, <2>2
<1>3. ASSUME NEW e \in Entries, Proceed(e)
      PROVE  [Transparency!TNext]_(Transparency!tvars)
  <2> DEFINE t == TenantOf(e)
  <2>1. /\ e \in Built /\ t \in Tenants /\ RecordInv(e) /\ CallInv(e) /\ call[e] \in Call
        /\ leaves[t] \in Seq(Entries)
    BY <1>0, <1>3, BuiltWhenCalled, EntryParts DEF LogInv, MerkleInv, TypeOK
  <2>2. entry' = entry
    BY <1>3 DEF Proceed, commit, append_sqlite, append_pg_count, append_pg_insert, insert_leaf,
         tree_size, merkle_root, store_sth, project_trust_grant, current_sth,
         lookup_grant_id_by_chain_event, tables
  <2>3. ASSUME \A f \in Entries \ {e} : call'[f] = call[f], call[e].at # "done",
               call'[e].at # "done" \/ entry[e].req.kind = "other"
        PROVE  \A f \in Entries : receipt_of(f)' = receipt_of(f)
    <3>1. receipt_of(e) = {} /\ receipt_of(e)' = {}
      BY <2>2, <2>3 DEF receipt_of
    <3> QED BY <1>0, <2>2, <2>3, <3>1, ReceiptsSame
  <2>4. CASE commit(e)
    <3>1. /\ UNCHANGED <<leaves, sth_log>> /\ call[e].at = "built"
          /\ accepted' = accepted \/ accepted' = accepted \cup {e}
      BY <2>4 DEF commit
    <3>2. PICK place : /\ Goto(e, place)
                       /\ place \in {"already_claimed", "refused", "stored", after_merkle(e)}
      BY <2>4 DEF commit
    <3>3. call'[e].at = place /\ \A f \in Entries \ {e} : call'[f] = call[f]
      BY <1>g, <3>2
    <3>4. call'[e].at # "done" \/ entry[e].req.kind = "other"
      BY <3>2, <3>3 DEF after_merkle
    <3>5. \A f \in Entries : receipt_of(f)' = receipt_of(f)
      BY <2>3, <3>1, <3>3, <3>4
    <3>6. CASE accepted' = accepted
      BY <1>s, <3>1, <3>5, <3>6
    <3>7. CASE accepted' = accepted \cup {e}
      <4>1. Transparency!Record(e)
        BY <3>1, <3>5, <3>7 DEF Transparency!Record
      <4> QED BY <4>1 DEF Transparency!TNext
    <3> QED BY <3>1, <3>6, <3>7
  <2>5. ASSUME NEW n, insert_leaf(e, n), call[e].at \in {"stored", "counted"}
        PROVE  [Transparency!TNext]_(Transparency!tvars)
    <3>1. CASE ~leaf_fits(e, n)
      BY <1>q, <1>g, <2>5, <3>1 DEF insert_leaf
    <3>2. CASE leaf_fits(e, n)
      <4>1. /\ leaves' = [leaves EXCEPT ![t] = Append(leaves[t], e)] /\ Goto(e, "appended")
            /\ UNCHANGED <<accepted, sth_log>>
        BY <2>5, <3>2 DEF insert_leaf
      <4>2. \A f \in Entries : receipt_of(f)' = receipt_of(f)
        BY <1>g, <2>3, <2>5, <4>1
      <4>3. e \in accepted
        BY <2>1, <2>5 DEF RecordInv, Committed
      <4>4. \A u \in Tenants : ~Transparency!Occurs(e, leaves[u])
        <5> SUFFICES ASSUME NEW u \in Tenants, NEW i \in DOMAIN leaves[u], leaves[u][i] = e
                     PROVE  FALSE
          BY DEF Transparency!Occurs
        <5>1. u = t
          BY DEF LogInv, LeafInv
        <5> QED BY <3>2, <5>1 DEF leaf_fits
      <4>5. Transparency!Log(t, e)
        BY <4>1, <4>2, <4>3, <4>4 DEF Transparency!Log
      <4> QED BY <2>1, <4>5 DEF Transparency!TNext
    <3> QED BY <3>1, <3>2
  <2>6. CASE append_sqlite(e) \/ append_pg_insert(e)
    BY <2>5, <2>6 DEF append_sqlite, append_pg_insert
  <2>7. CASE append_pg_count(e) \/ tree_size(e) \/ merkle_root(e)
    <3>1. UNCHANGED <<accepted, leaves, sth_log>> /\ call[e].at # "done"
      BY <2>7 DEF append_pg_count, tree_size, merkle_root, tables
    <3>2. call'[e].at \in {"counted", "sized", "rooted"} /\ \A f \in Entries \ {e} : call'[f] = call[f]
      BY <1>0, <2>1, <2>7 DEF append_pg_count, tree_size, merkle_root, TypeOK, Call
    <3> QED BY <1>q, <3>1, <3>2
  <2>8. CASE project_trust_grant(e)
    BY <1>q, <1>g, <2>8 DEF project_trust_grant
  <2>9. CASE store_sth(e)
    <3>1. UNCHANGED <<accepted, leaves>> /\ call[e].at = "rooted" /\ Goto(e, after_merkle(e))
      BY <2>9 DEF store_sth
    <3>2. call'[e].at = after_merkle(e) /\ \A f \in Entries \ {e} : call'[f] = call[f]
      BY <1>g, <3>1
    <3>3. call'[e].at # "done" \/ entry[e].req.kind = "other"
      BY <3>2 DEF after_merkle
    <3>4. \A f \in Entries : receipt_of(f)' = receipt_of(f)
      BY <2>3, <3>1, <3>2, <3>3
    <3>5. CASE \E h \in sth_log[t] : h.size = call[e].size
      BY <1>s, <2>9, <3>1, <3>4, <3>5 DEF store_sth, sth_inserted
    <3>6. CASE ~\E h \in sth_log[t] : h.size = call[e].size
      <4> DEFINE n == call[e].size
                 m == Len(call[e].root)
      <4>1. sth_log' = [sth_log EXCEPT ![t] = sth_log[t] \cup {[size |-> n, root |-> call[e].root]}]
        BY <2>9, <3>6 DEF store_sth, sth_inserted
      <4>2. /\ call[e].root \in Seq(Entries) /\ n \in Nat /\ m \in Nat
            /\ n <= m /\ Prefix(call[e].root, leaves[t])
        BY <2>1, <3>1 DEF Call, CallInv
      <4>3. m <= Len(leaves[t]) /\ SubSeq(leaves[t], 1, m) = call[e].root
        BY <2>1, <4>2, PrefixIsBeginning DEF Prefix
      <4>4. Transparency!Publish(t, n, m)
        BY <3>1, <3>4, <3>6, <4>1, <4>2, <4>3 DEF Transparency!Publish
      <4>5. m \in 0..Len(leaves[t]) /\ n \in 0..m
        BY <2>1, <4>2, <4>3
      <4> QED BY <2>1, <4>4, <4>5 DEF Transparency!TNext
    <3> QED BY <3>5, <3>6
  <2>10. CASE current_sth(e)
    <3>1. UNCHANGED <<accepted, leaves, sth_log>> /\ call[e].at = "recorded"
      BY <2>10 DEF current_sth, tables
    <3>2. call'[e].at \in {"sth_missing", "has_sth"} /\ \A f \in Entries \ {e} : call'[f] = call[f]
      <4>1. CASE Goto(e, "sth_missing")
        BY <1>g, <4>1
      <4>2. CASE ~Goto(e, "sth_missing")
        BY <1>0, <2>10, <4>2 DEF current_sth, TypeOK
      <4> QED BY <4>1, <4>2
    <3> QED BY <1>q, <3>1, <3>2
  <2>11. CASE lookup_grant_id_by_chain_event(e)
    <3>1. UNCHANGED <<accepted, leaves, sth_log>> /\ call[e].at = "has_sth"
      BY <2>11 DEF lookup_grant_id_by_chain_event, tables
    <3>2. CASE Goto(e, "projection_missing")
      BY <1>q, <1>g, <3>1, <3>2
    <3>3. CASE call' = [call EXCEPT ![e].at = "done"]
      <4>1. /\ call'[e].at = "done" /\ call'[e].size = call[e].size /\ call'[e].root = call[e].root
            /\ \A f \in Entries \ {e} : call'[f] = call[f]
        BY <1>0, <2>1, <3>3 DEF TypeOK, Call
      <4>2. CASE entry[e].req.kind = "other"
        BY <1>s, <2>3, <3>1, <4>1, <4>2
      <4>3. CASE entry[e].req.kind # "other"
        <5> DEFINE h == HeadOf(e)
        <5>1. h \in sth_log[t] /\ e \in accepted /\ In(e, h.root)
          BY <2>1, <3>1 DEF RecordInv, Receipted, HeadOf, Committed, CallInv
        <5>2. receipt_of(e) = {} /\ receipt_of(e)' = {h}
          BY <2>2, <3>1, <4>1, <4>3 DEF receipt_of, HeadOf
        <5>3. \A f \in Entries \ {e} : receipt_of(f)' = receipt_of(f)
          BY <2>2, <4>1 DEF receipt_of
        <5> HIDE DEF h
        <5>4. Transparency!Receipt(e, t, h)
          BY <3>1, <5>1, <5>2, <5>3 DEF Transparency!Receipt, Transparency!Occurs, In
        <5> QED BY <2>1, <5>1, <5>4 DEF Transparency!TNext
      <4> QED BY <4>2, <4>3
    <3> QED BY <2>11, <3>2, <3>3 DEF lookup_grant_id_by_chain_event
  <2> QED BY <1>3, <2>4, <2>6, <2>7, <2>8, <2>9, <2>10, <2>11 DEF Proceed
<1>4. CASE UNCHANGED <<entry, leaves, sth_log, call, accepted>>
  BY <1>s, <1>4 DEF receipt_of
<1>5. ASSUME NEW a \in Times, NEW b \in Times, archive_audit_range(a, b)
      PROVE  [Transparency!TNext]_(Transparency!tvars)
  BY <1>4, <1>5 DEF archive_audit_range
<1>6. CASE UNCHANGED vars
  BY <1>4, <1>6 DEF vars, tables
<1> QED BY <1>1, <1>2, <1>3, <1>5, <1>6 DEF Next

\* The audit plane implements TransparencyLog, on both backends and whatever calls
\* fail, are repeated or race and whatever is archived.
THEOREM AuditIsTransparent == Spec => LogIsTransparent
<1>1. Init => LogInv /\ Transparency!TInit
  <2> SUFFICES ASSUME Init PROVE LogInv /\ Transparency!TInit
    OBVIOUS
  <2>1. Built = {}
    BY DEF Init, Built
  <2>2. \A t \in Tenants : leaves[t] = <<>>
    BY DEF Init
  <2>3. LogInv
    BY <2>1, <2>2 DEF LogInv, LeafInv
  <2>4. \A e \in Entries : receipt_of(e) = {}
    BY DEF Init, At, receipt_of
  <2> QED BY <2>3, <2>4 DEF Init, Transparency!TInit
<1>2. MerkleInv /\ LogInv /\ [Next]_vars => LogInv' /\ [Transparency!TNext]_(Transparency!tvars)
  BY LogStep, StepTransparent
<1> QED BY <1>1, <1>2, MerkleInvariant, PTL DEF Spec, LogIsTransparent, Transparency!TSpec
=============================================================================
