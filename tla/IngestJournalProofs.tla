------------------------ MODULE IngestJournalProofs ------------------------
(***************************************************************************)
(* Proofs about the ingest queue and its journal, for every set of batches, *)
(* every queue depth and every number of crashes, outages and faults.       *)
(*                                                                          *)
(* NothingVanishes and JournalInOrder are not inductive.  The first needs   *)
(* what the persister knows of the job in its hands (JobInv), that a number *)
(* the journal gives out is fresh (SeqInv), and that a replayed entry is    *)
(* still on disk (ReplayKeepsEntry).  The second needs the order of arrival *)
(* all along the way of a batch: journal, job, channel (OrderInv).  That an *)
(* outage costs one batch at most needs to know that it came after the      *)
(* first lookup of the job whose second one it hits (MisreadInv).           *)
(***************************************************************************)
EXTENDS IngestJournal, TLAPS

\* How far the pipeline is with a job, and what that says of the store.
JobInv ==
    /\ job.from = "none" <=> job.batch = NoBatch
    /\ job.from = "none" => job = Idle
    /\ job.at \in {"llm", "ok"} => job.batch \in events
    /\ job.at = "ok" => llm[job.batch] > 0
    /\ job.at = "rejected" /\ job.from = "channel" => Excused(job.batch)

\* Every number on disk is below the counter on disk, which is never ahead of
\* the one in memory.
SeqInv ==
    /\ meta_next <= next_seq
    /\ \A e \in journal : e.seq < meta_next
    /\ \A e, f \in journal : e.seq = f.seq => e = f

\* a comes before b in s.
Before(s, a, b) == \E i, j \in DOMAIN s : i < j /\ s[i] = a /\ s[j] = b

\* What waits in the journal came before the job taken from the channel, and
\* that came before what is still in the channel.
OrderInv ==
    /\ \A e \in journal : e.batch \in Range(accepted)
    /\ job.from = "channel" => job.batch \in Range(accepted)
    /\ \A k \in DOMAIN channel : channel[k] \in Range(accepted)
    /\ \A e, f \in journal : e.seq < f.seq => Before(accepted, e.batch, f.batch)
    /\ \A e \in journal : job.from = "channel" => Before(accepted, e.batch, job.batch)
    /\ \A e \in journal : \A k \in DOMAIN channel : Before(accepted, e.batch, channel[k])
    /\ \A k \in DOMAIN channel : job.from = "channel" => Before(accepted, job.batch, channel[k])
    /\ \A k, l \in DOMAIN channel : k < l => Before(accepted, channel[k], channel[l])

\* An outage that comes between the two lookups of the job in hand has made the
\* gates refuse nothing yet.
MisreadInv ==
    /\ ~up => outages > 0
    /\ \A m \in misread : m.outage <= outages
    /\ job.at = "pqc" /\ ~up => \A m \in misread : m.outage # outages

JournalInv == TypeOK /\ JobInv /\ SeqInv /\ ReplayKeepsEntry /\ NothingVanishes /\ OrderInv /\ MisreadInv

-----------------------------------------------------------------------------
\* The job in the persister's hands.

Stages == {"gates", "pqc", "events", "llm", "ok", "store_error", "rejected"}

\* A job that moves to another stage is otherwise the same job.
LEMMA StageMove ==
    ASSUME job \in Job, NEW s \in Stages, job' = [job EXCEPT !.at = s]
    PROVE  /\ job' \in Job
           /\ job'.from = job.from /\ job'.batch = job.batch /\ job'.seq = job.seq
           /\ job'.at = s
BY DEF Job, Stages

\* A job that came from somewhere is a batch.
LEMMA InHand ==
    ASSUME TypeOK, JobInv, job.from # "none"
    PROVE  job.batch \in Batches
BY DEF TypeOK, JobInv, Job

\* What the stages of receive_and_persist do with the job.
Pipeline ==
    \/ lookup_public_key \/ verify_and_mint
    \/ insert_trace_events_batch \/ insert_trace_llm_calls_batch

LEMMA PipelineMoves ==
    ASSUME TypeOK, JobInv, Pipeline
    PROVE  /\ job' \in Job
           /\ job'.from = job.from /\ job'.batch = job.batch /\ job'.seq = job.seq
           /\ job.from # "none" /\ job.batch \in Batches
           /\ minted' \subseteq Batches
           /\ events' \subseteq Batches /\ events \subseteq events'
           /\ llm' \in [Batches -> Nat] /\ \A b \in Batches : llm'[b] >= llm[b]
           /\ job'.at \in {"llm", "ok"} => job.batch \in events'
           /\ job'.at = "ok" => llm'[job.batch] > 0
           /\ misread \subseteq misread' /\ misread' \subseteq Misreading
           /\ job'.at = "rejected" /\ job.from = "channel" => Excused(job.batch)'
           /\ UNCHANGED <<proc, channel, senders, gave_up, jvars, accepted, dropped, lost, evars>>
<1> USE DEF TypeOK, Stages
<1>1. job \in Job
  OBVIOUS
<1>2. job.from # "none" /\ job.batch \in Batches
  BY InHand DEF Pipeline, lookup_public_key, verify_and_mint, insert_trace_events_batch, insert_trace_llm_calls_batch, At, JobInv
<1>3. CASE verify_and_mint
  <2>frame. UNCHANGED <<proc, channel, senders, gave_up, jvars, accepted, dropped, lost, evars, events, llm>>
    BY <1>3 DEF verify_and_mint
  <2>1. CASE /\ job' = [job EXCEPT !.at = "rejected"]
             /\ misread' = IF job.from = "channel"
                           THEN misread \cup {[outage |-> outages, batch |-> job.batch]}
                           ELSE misread
             /\ UNCHANGED minted
    <3>1. job' \in Job /\ job'.from = job.from /\ job'.batch = job.batch /\ job'.seq = job.seq /\ job'.at = "rejected"
      BY <1>1, <2>1, StageMove
    <3>2. misread \subseteq misread' /\ misread' \subseteq Misreading
      BY <1>2, <2>1 DEF Misreading
    <3> DEFINE m == [outage |-> outages, batch |-> job.batch]
    <3>3. job.from = "channel" => m \in misread' /\ m.batch = job.batch
      BY <2>1
    <3>4. job.from = "channel" => Excused(job.batch)'
      BY <3>1, <3>3 DEF Excused
    <3> HIDE DEF m
    <3>5. QED
      BY <1>2, <2>frame, <2>1, <3>1, <3>2, <3>4
  <2>2. CASE job.batch \in refused /\ job' = [job EXCEPT !.at = "rejected"] /\ UNCHANGED <<minted, misread>>
    <3>1. job' \in Job /\ job'.from = job.from /\ job'.batch = job.batch /\ job'.seq = job.seq /\ job'.at = "rejected"
      BY <1>1, <2>2, StageMove
    <3>2. Excused(job.batch)'
      BY <2>frame, <2>2, <3>1 DEF Excused, evars
    <3>3. QED
      BY <1>2, <2>frame, <2>2, <3>1, <3>2
  <2>3. CASE /\ job' = [job EXCEPT !.at = "events"]
             /\ minted' \in {minted, minted \cup {job.batch}}
             /\ UNCHANGED misread
    <3>1. job' \in Job /\ job'.from = job.from /\ job'.batch = job.batch /\ job'.seq = job.seq /\ job'.at = "events"
      BY <1>1, <2>3, StageMove
    <3>2. QED
      BY <1>2, <2>frame, <2>3, <3>1
  <2>4. QED
    BY <1>3, <2>1, <2>2, <2>3 DEF verify_and_mint
<1>a. CASE lookup_public_key
  <2>frame. UNCHANGED <<proc, channel, senders, gave_up, jvars, dvars, hvars, evars>>
    BY <1>a DEF lookup_public_key
  <2>1. PICK s \in {"store_error", "rejected", "pqc"} :
            job' = [job EXCEPT !.at = s] /\ (s = "rejected" => job.batch \in refused)
    BY <1>a DEF lookup_public_key
  <2>2. job' \in Job /\ job'.from = job.from /\ job'.batch = job.batch /\ job'.seq = job.seq /\ job'.at = s
    BY <1>1, <2>1, StageMove
  <2>3. job'.at = "rejected" => Excused(job.batch)'
    BY <2>frame, <2>1, <2>2 DEF Excused, evars
  <2>4. QED
    BY <1>2, <2>frame, <2>2, <2>3 DEF dvars, hvars
<1>4. CASE insert_trace_events_batch
  <2>frame. UNCHANGED <<proc, channel, senders, gave_up, jvars, hvars, evars, minted, llm>>
    BY <1>4 DEF insert_trace_events_batch
  <2>1. CASE up
    <3>1. job' = [job EXCEPT !.at = "llm"] /\ events' = events \cup {job.batch}
      BY <1>4, <2>1 DEF insert_trace_events_batch
    <3>2. job' \in Job /\ job'.from = job.from /\ job'.batch = job.batch /\ job'.seq = job.seq /\ job'.at = "llm"
      BY <1>1, <3>1, StageMove
    <3>3. QED
      BY <1>2, <2>frame, <3>1, <3>2 DEF hvars, evars
  <2>2. CASE ~up
    <3>1. job' = [job EXCEPT !.at = "store_error"] /\ events' = events
      BY <1>4, <2>2 DEF insert_trace_events_batch
    <3>2. job' \in Job /\ job'.from = job.from /\ job'.batch = job.batch /\ job'.seq = job.seq /\ job'.at = "store_error"
      BY <1>1, <3>1, StageMove
    <3>3. QED
      BY <1>2, <2>frame, <3>1, <3>2 DEF hvars, evars
  <2>3. QED
    BY <2>1, <2>2
<1>5. CASE insert_trace_llm_calls_batch
  <2>frame. UNCHANGED <<proc, channel, senders, gave_up, jvars, hvars, evars, minted, events>>
    BY <1>5 DEF insert_trace_llm_calls_batch
  <2>0. job.batch \in events
    BY <1>5 DEF insert_trace_llm_calls_batch, At, JobInv
  <2>1. CASE up
    <3>1. job' = [job EXCEPT !.at = "ok"] /\ llm' = [llm EXCEPT ![job.batch] = @ + 1]
      BY <1>5, <2>1 DEF insert_trace_llm_calls_batch
    <3>2. job' \in Job /\ job'.from = job.from /\ job'.batch = job.batch /\ job'.seq = job.seq /\ job'.at = "ok"
      BY <1>1, <3>1, StageMove
    <3>3. /\ llm' \in [Batches -> Nat] /\ llm'[job.batch] > 0
          /\ \A b \in Batches : llm'[b] >= llm[b]
      BY <1>2, <3>1
    <3>4. QED
      BY <1>2, <2>frame, <3>2, <3>3, <2>0 DEF hvars, evars
  <2>2. CASE ~up
    <3>1. job' = [job EXCEPT !.at = "store_error"] /\ llm' = llm
      BY <1>5, <2>2 DEF insert_trace_llm_calls_batch
    <3>2. job' \in Job /\ job'.from = job.from /\ job'.batch = job.batch /\ job'.seq = job.seq /\ job'.at = "store_error"
      BY <1>1, <3>1, StageMove
    <3>3. QED
      BY <1>2, <2>frame, <3>1, <3>2 DEF hvars, evars
  <2>3. QED
    BY <2>1, <2>2
<1>6. QED
  BY <1>3, <1>a, <1>4, <1>5 DEF Pipeline

-----------------------------------------------------------------------------
\* Types, and what is known of the job.

\* Every step of the queue keeps its state typed.
LEMMA TypeStep == ASSUME TypeOK, JobInv, [Next]_vars PROVE TypeOK'
<1> USE JournalAssumption
<1>1. ASSUME NEW b \in Batches, try_submit(b) PROVE TypeOK'
  BY <1>1 DEF try_submit, TypeOK, pvars, jvars, dvars, hvars, evars
<1>2. ASSUME NEW b \in Batches, refuse(b) PROVE TypeOK'
  BY <1>2 DEF refuse, TypeOK, pvars, jvars, dvars, hvars, evars
<1>3. CASE drop_handles
  BY <1>3 DEF drop_handles, TypeOK, pvars, jvars, dvars, hvars, evars
<1>4. CASE shutdown_with_timeout
  BY <1>4 DEF shutdown_with_timeout, TypeOK, pvars, jvars, dvars, hvars, evars
<1>5. CASE replay_first
  BY <1>5 DEF replay_first, TypeOK, Start, Job, Entry, pvars, jvars, dvars, hvars, evars
<1>6. CASE replay_done \/ replay_read_fails
  BY <1>6 DEF replay_done, replay_read_fails, journal_fault, TypeOK, pvars, jvars, dvars, hvars, evars
<1>7. CASE replay_halt
  BY <1>7 DEF replay_halt, TypeOK, Idle, Job, pvars, jvars, dvars, hvars, evars
<1>8. CASE purge
  BY <1>8 DEF purge, TypeOK, Idle, Job, remove_entry, journal_fault, Entry, pvars, jvars, dvars, hvars, evars
<1>9. CASE recv
  BY <1>9 DEF recv, TypeOK, Start, Job, pvars, jvars, dvars, hvars, evars
<1>10. CASE exit
  BY <1>10 DEF exit, TypeOK, pvars, jvars, dvars, hvars, evars
<1>11. CASE loop_settle
  <2>1. dropped' \subseteq Batches
    BY <1>11, InHand DEF loop_settle, TypeOK
  <2>2. QED
    BY <1>11, <2>1 DEF loop_settle, TypeOK, Idle, Job, pvars, jvars, dvars, evars
<1>12. CASE append
  <2>1. job.batch \in Batches
    BY <1>12, InHand DEF append
  <2>2. QED
    BY <1>12, <2>1 DEF append, insert_entry, journal_fault, TypeOK, Idle, Job, Entry, pvars, dvars
<1>13. CASE crash
  BY <1>13 DEF crash, TypeOK, Idle, Job, Range, Running, pvars, jvars, dvars, hvars, evars
<1>14. CASE spawn_persister
  BY <1>14 DEF spawn_persister, TypeOK, open, pvars, jvars, dvars, hvars, evars
<1>15. CASE outage
  <2>1. up' \in BOOLEAN
    BY <1>15 DEF outage
  <2>2. QED
    BY <1>15, <2>1 DEF outage, TypeOK, pvars, jvars, dvars, hvars
<1>16. CASE recover
  BY <1>16 DEF recover, TypeOK, pvars, jvars, dvars, hvars, evars
<1>17. CASE Pipeline
  BY <1>17, PipelineMoves DEF TypeOK, jvars, hvars, evars
<1>18. CASE UNCHANGED vars
  BY <1>18 DEF vars, TypeOK, pvars, jvars, dvars, hvars, evars
<1>19. QED
  BY <1>1, <1>2, <1>3, <1>4, <1>5, <1>6, <1>7, <1>8, <1>9, <1>10, <1>11, <1>12, <1>13, <1>14, <1>15, <1>16, <1>17, <1>18 DEF Next, PersisterStep, Pipeline

\* Every step keeps what is known of the job.
LEMMA JobStep == ASSUME TypeOK, JobInv, [Next]_vars PROVE JobInv'
<1> USE JournalAssumption
<1>1. ASSUME NEW b \in Batches, try_submit(b) PROVE JobInv'
  BY <1>1 DEF try_submit, JobInv, Excused, TypeOK, Idle, pvars, jvars, dvars, hvars, evars
<1>2. ASSUME NEW b \in Batches, refuse(b) PROVE JobInv'
  BY <1>2 DEF refuse, JobInv, Excused, TypeOK, Idle, pvars, jvars, dvars, hvars, evars
<1>3. CASE drop_handles
  BY <1>3 DEF drop_handles, JobInv, Excused, TypeOK, Idle, pvars, jvars, dvars, hvars, evars
<1>4. CASE shutdown_with_timeout
  BY <1>4 DEF shutdown_with_timeout, JobInv, Excused, TypeOK, Idle, pvars, jvars, dvars, hvars, evars
<1>5. CASE replay_first
  BY <1>5 DEF replay_first, JobInv, Excused, TypeOK, Start, Entry, Job, Idle, pvars, jvars, dvars, hvars, evars
<1>6. CASE replay_done \/ replay_read_fails
  BY <1>6 DEF replay_done, replay_read_fails, JobInv, Excused, dvars, hvars, evars
<1>7. CASE replay_halt
  BY <1>7 DEF replay_halt, JobInv, Excused, TypeOK, Idle, pvars, jvars, dvars, hvars, evars
<1>8. CASE purge
  BY <1>8 DEF purge, JobInv, Excused, TypeOK, Idle, pvars, jvars, dvars, hvars, evars
<1>9. CASE recv
  BY <1>9 DEF recv, JobInv, Excused, TypeOK, Start, Job, Idle, pvars, jvars, dvars, hvars, evars
<1>10. CASE exit
  BY <1>10 DEF exit, JobInv, Excused, TypeOK, Idle, pvars, jvars, dvars, hvars, evars
<1>11. CASE loop_settle
  BY <1>11 DEF loop_settle, JobInv, Excused, TypeOK, Idle, pvars, jvars, dvars, hvars, evars
<1>12. CASE append
  BY <1>12 DEF append, JobInv, Excused, TypeOK, Idle, pvars, jvars, dvars, hvars, evars
<1>13. CASE crash
  BY <1>13 DEF crash, JobInv, Excused, TypeOK, Idle, pvars, jvars, dvars, hvars, evars
<1>14. CASE spawn_persister
  BY <1>14 DEF spawn_persister, JobInv, Excused, TypeOK, Idle, pvars, jvars, dvars, hvars, evars
<1>15. CASE outage
  BY <1>15 DEF outage, JobInv, Excused, TypeOK, Idle, pvars, jvars, dvars, hvars, evars
<1>16. CASE recover
  BY <1>16 DEF recover, JobInv, Excused, TypeOK, Idle, pvars, jvars, dvars, hvars, evars
<1>17. CASE Pipeline
  BY <1>17, PipelineMoves DEF JobInv, Excused, Idle, evars
<1>18. CASE UNCHANGED vars
  BY <1>18 DEF vars, JobInv, Excused, TypeOK, Idle, pvars, jvars, dvars, hvars, evars
<1>19. QED
  BY <1>1, <1>2, <1>3, <1>4, <1>5, <1>6, <1>7, <1>8, <1>9, <1>10, <1>11, <1>12, <1>13, <1>14, <1>15, <1>16, <1>17, <1>18 DEF Next, PersisterStep, Pipeline

-----------------------------------------------------------------------------
\* The journal.

\* Three actions write the journal or its counters.
LEMMA JournalTouched ==
    ASSUME [Next]_vars
    PROVE  append \/ purge \/ spawn_persister \/ UNCHANGED jvars
BY DEF Next, PersisterStep, vars, try_submit, refuse, drop_handles, shutdown_with_timeout,
       replay_first, replay_read_fails, journal_fault, replay_done, replay_halt, recv, exit,
       loop_settle, lookup_public_key, verify_and_mint, jvars,
       insert_trace_events_batch, insert_trace_llm_calls_batch, crash, outage, recover

\* Numbers stay fresh: append uses up its number even when it fails, and a new
\* process starts from the counter on disk.
LEMMA SeqStep == ASSUME TypeOK, SeqInv, [Next]_vars PROVE SeqInv'
<1>1. CASE append
  <2>1. next_seq' = next_seq + 1
    BY <1>1 DEF append
  <2>2. CASE insert_entry(job.batch)
    BY <2>1, <2>2 DEF insert_entry, SeqInv, TypeOK, Entry
  <2>3. CASE journal_fault
    BY <2>1, <2>3 DEF journal_fault, SeqInv, TypeOK
  <2>4. QED
    BY <1>1, <2>2, <2>3 DEF append
<1>2. CASE purge
  BY <1>2 DEF purge, remove_entry, journal_fault, SeqInv
<1>3. CASE spawn_persister
  BY <1>3 DEF spawn_persister, open, SeqInv, TypeOK
<1>4. CASE UNCHANGED jvars
  BY <1>4 DEF jvars, SeqInv
<1>5. QED
  BY <1>1, <1>2, <1>3, <1>4, JournalTouched

\* The two actions that write entries leave no job in hand, and a job taken from
\* the journal is taken with its entry left there.
LEMMA KeepStep ==
    ASSUME TypeOK, JobInv, ReplayKeepsEntry, [Next]_vars
    PROVE  ReplayKeepsEntry'
<1>1. CASE append \/ purge \/ replay_halt \/ loop_settle \/ crash
  BY <1>1 DEF append, purge, replay_halt, loop_settle, crash, Idle, ReplayKeepsEntry
<1>2. CASE replay_first
  <2>1. PICK e \in journal : Start("journal", e.batch, e.seq)
    BY <1>2 DEF replay_first
  <2>2. e = [seq |-> e.seq, batch |-> e.batch]
    BY DEF TypeOK, Entry
  <2>3. journal' = journal
    BY <1>2 DEF replay_first, jvars
  <2>4. QED
    BY <2>1, <2>2, <2>3 DEF Start, ReplayKeepsEntry
<1>3. CASE recv
  BY <1>3 DEF recv, Start, ReplayKeepsEntry
<1>4. CASE Pipeline
  BY <1>4, PipelineMoves DEF ReplayKeepsEntry, jvars
<1>5. CASE job' = job /\ journal' = journal
  BY <1>5 DEF ReplayKeepsEntry
<1>6. append \/ purge \/ replay_halt \/ loop_settle \/ crash \/ replay_first \/ recv
        \/ Pipeline \/ (job' = job /\ journal' = journal)
  BY DEF Next, PersisterStep, Pipeline, vars, pvars, jvars, try_submit, refuse, drop_handles,
         shutdown_with_timeout, replay_read_fails, journal_fault, replay_done, exit, spawn_persister, outage, recover
<1>7. QED
  BY <1>1, <1>2, <1>3, <1>4, <1>5, <1>6

-----------------------------------------------------------------------------
\* Nothing vanishes.

\* The elements of a sequence that grew at its end, and of one that lost its head.
LEMMA RangeAppend ==
    ASSUME NEW S, NEW s \in Seq(S), NEW x \in S
    PROVE  Range(Append(s, x)) = Range(s) \cup {x}
<1>1. \A i \in DOMAIN s : Append(s, x)[i] = s[i]
  OBVIOUS
<1>2. Append(s, x)[Len(s) + 1] = x
  OBVIOUS
<1>3. DOMAIN Append(s, x) = DOMAIN s \cup {Len(s) + 1}
  OBVIOUS
<1>4. QED
  BY <1>1, <1>2, <1>3 DEF Range

LEMMA RangeTail ==
    ASSUME NEW S, NEW s \in Seq(S), s # <<>>
    PROVE  Range(s) = Range(Tail(s)) \cup {Head(s)}
<1>1. Len(s) >= 1 /\ DOMAIN s = 1 .. Len(s) /\ DOMAIN Tail(s) = 1 .. Len(s) - 1
  OBVIOUS
<1>2. \A i \in DOMAIN Tail(s) : Tail(s)[i] = s[i + 1] /\ i + 1 \in DOMAIN s
  BY <1>1
<1>3. Head(s) = s[1] /\ 1 \in DOMAIN s
  BY <1>1
<1>4. \A i \in DOMAIN s : i = 1 \/ (i - 1 \in DOMAIN Tail(s) /\ s[i] = Tail(s)[i - 1])
  BY <1>1, <1>2
<1>5. ASSUME NEW x \in Range(s) PROVE x \in Range(Tail(s)) \cup {Head(s)}
  <2>1. PICK i \in DOMAIN s : x = s[i]
    BY <1>5 DEF Range
  <2>2. QED
    BY <1>3, <1>4, <2>1 DEF Range
<1>6. ASSUME NEW x \in Range(Tail(s)) PROVE x \in Range(s)
  <2>1. PICK i \in DOMAIN Tail(s) : x = Tail(s)[i]
    BY <1>6 DEF Range
  <2>2. QED
    BY <1>2, <2>1 DEF Range
<1>7. QED
  BY <1>3, <1>5, <1>6 DEF Range

\* An excuse stands.
LEMMA ExcuseStands ==
    ASSUME TypeOK, JobInv, [Next]_vars
    PROVE  /\ refused \subseteq refused' /\ misread \subseteq misread'
           /\ \A b : Excused(b) => Excused(b)'
<1>1. CASE Pipeline
  BY <1>1, PipelineMoves DEF evars, Excused
<1>2. CASE refused \subseteq refused' /\ misread' = misread
  BY <1>2 DEF Excused
<1>3. Pipeline \/ (refused \subseteq refused' /\ misread' = misread)
  BY DEF Next, PersisterStep, Pipeline, vars, hvars, evars, try_submit, refuse, drop_handles,
         shutdown_with_timeout, replay_first, replay_read_fails, journal_fault, replay_done,
         replay_halt, purge, recv, exit, loop_settle, append, crash, spawn_persister, outage, recover
<1>4. QED
  BY <1>1, <1>2, <1>3

\* A batch in some place stays accounted for when the place does not change.
LEMMA AccountedFrame ==
    ASSUME NEW b, Accounted(b),
           channel' = channel, job'.batch = job.batch, Journaled \subseteq Journaled',
           Stored(b) => Stored(b)', dropped \subseteq dropped', Excused(b) => Excused(b)',
           lost \subseteq lost', crashes + faults > 0 => crashes' + faults' > 0
    PROVE  Accounted(b)'
BY DEF Accounted

\* No step loses an accepted batch.
LEMMA VanishStep ==
    ASSUME TypeOK, JobInv, SeqInv, ReplayKeepsEntry, NothingVanishes, [Next]_vars
    PROVE  NothingVanishes'
<1> USE JournalAssumption
<1>a. Range(accepted) \subseteq Batches /\ Range(channel) \subseteq Batches
  BY DEF Range, TypeOK
<1>b. \A b \in Range(accepted) : Accounted(b) /\ b # NoBatch
  BY <1>a DEF NothingVanishes
<1>c. Idle.batch = NoBatch
  BY DEF Idle
<1>x. \A b : Excused(b) => Excused(b)'
  BY ExcuseStands
<1>1. ASSUME NEW c \in Batches, try_submit(c) PROVE NothingVanishes'
  <2>1. Range(accepted)' = Range(accepted) \cup {c} /\ Range(channel)' = Range(channel) \cup {c}
    BY <1>1, RangeAppend DEF try_submit, TypeOK
  <2>2. QED
    BY <1>1, <1>b, <1>x, <2>1 DEF try_submit, NothingVanishes, Accounted, Journaled, Stored, jvars, dvars, evars
<1>2. CASE recv
  <2>1. Range(channel) = Range(channel') \cup {job'.batch}
    BY <1>2, RangeTail DEF recv, Start, TypeOK
  <2>2. QED
    BY <1>2, <1>b, <1>x, <1>c, <2>1 DEF recv, NothingVanishes, Accounted, Journaled, Stored, jvars, dvars, hvars, evars
<1>3. CASE replay_first
  BY <1>3, <1>b, <1>x, <1>c DEF replay_first, NothingVanishes, Accounted, Journaled, Stored, jvars, dvars, hvars, evars
<1>4. CASE replay_halt
  <2>1. job.batch \in Journaled
    BY <1>4 DEF replay_halt, ReplayKeepsEntry, Journaled
  <2>2. QED
    BY <1>4, <1>b, <1>x, <2>1 DEF replay_halt, NothingVanishes, Accounted, Journaled, Stored, jvars, dvars, hvars, evars
<1>5. CASE purge
  <2>1. Stored(job.batch)
    BY <1>5 DEF purge, JobInv, Stored
  <2>2. \A b \in Journaled : b \in Journaled' \/ b = job.batch
    <3>1. CASE remove_entry(job.seq)
      <4>1. [seq |-> job.seq, batch |-> job.batch] \in journal
        BY <1>5 DEF purge, ReplayKeepsEntry
      <4>2. \A e \in journal : e \in journal' \/ e = [seq |-> job.seq, batch |-> job.batch]
        BY <3>1, <4>1 DEF remove_entry, SeqInv
      <4>3. QED
        BY <4>2 DEF Journaled
    <3>2. CASE journal_fault
      BY <3>2 DEF journal_fault, Journaled
    <3>3. QED
      BY <1>5, <3>1, <3>2 DEF purge
  <2>3. crashes + faults > 0 => crashes' + faults' > 0
    BY <1>5 DEF purge, remove_entry, journal_fault, TypeOK
  <2>4. UNCHANGED <<channel, dvars, hvars, refused>>
    BY <1>5 DEF purge
  <2>5. QED
    BY <1>b, <1>x, <2>1, <2>2, <2>3, <2>4 DEF NothingVanishes, Accounted, Stored, dvars, hvars
<1>6. CASE append
  <2>1. CASE insert_entry(job.batch) /\ UNCHANGED lost
    <3>1. Journaled \cup {job.batch} \subseteq Journaled'
      <4>1. journal \subseteq journal'
        BY <2>1 DEF insert_entry, SeqInv, TypeOK, Entry
      <4>2. [seq |-> next_seq, batch |-> job.batch] \in journal'
        BY <2>1 DEF insert_entry
      <4>3. QED
        BY <4>1, <4>2 DEF Journaled
    <3>2. UNCHANGED <<channel, dvars, accepted, dropped, lost, refused, crashes, faults>>
      BY <1>6, <2>1 DEF append, insert_entry
    <3>3. QED
      BY <1>b, <1>x, <3>1, <3>2 DEF NothingVanishes, Accounted, Stored, dvars
  <2>2. CASE journal_fault /\ lost' = lost \cup {job.batch}
    <3>1. crashes' + faults' > 0
      BY <1>6, <2>2 DEF append, journal_fault, TypeOK
    <3>2. UNCHANGED <<channel, journal, dvars, accepted, dropped, refused>>
      BY <1>6, <2>2 DEF append, journal_fault
    <3>3. QED
      BY <1>b, <1>x, <2>2, <3>1, <3>2 DEF NothingVanishes, Accounted, Journaled, Stored, dvars
  <2>3. QED
    BY <1>6, <2>1, <2>2 DEF append
<1>7. CASE loop_settle
  <2>1. Stored(job.batch) \/ (job.batch \in dropped' /\ Excused(job.batch))
    BY <1>7 DEF loop_settle, JobInv, Stored
  <2>2. dropped \subseteq dropped'
    BY <1>7 DEF loop_settle
  <2>3. UNCHANGED <<channel, jvars, dvars, accepted, lost, evars>>
    BY <1>7 DEF loop_settle
  <2>4. QED
    BY <1>b, <1>x, <2>1, <2>2, <2>3 DEF NothingVanishes, Accounted, Journaled, Stored, jvars, dvars, evars
<1>8. CASE crash
  <2>1. ASSUME NEW b \in Range(accepted) PROVE Accounted(b)'
    <3>1. UNCHANGED <<jvars, dvars, dropped, refused>> /\ crashes' + faults' > 0 /\ lost \subseteq lost'
      BY <1>8 DEF crash, TypeOK
    <3>2. CASE b \in Range(channel)
      BY <1>8, <3>1, <3>2 DEF crash, Accounted
    <3>3. CASE job.batch = b
      <4>1. b \in Batches /\ job.from \in {"channel", "journal"}
        BY <1>a, <3>3 DEF JobInv, TypeOK, Job
      <4>2. CASE job.from = "journal"
        <5>1. b \in Journaled
          BY <3>3, <4>2 DEF ReplayKeepsEntry, Journaled
        <5>2. QED
          BY <3>1, <5>1 DEF Accounted, Journaled, jvars
      <4>3. CASE job.from = "channel"
        BY <1>8, <3>1, <3>3, <4>1, <4>3 DEF crash, Accounted, Stored, dvars
      <4>4. QED
        BY <4>1, <4>2, <4>3
    <3>4. CASE b \notin Range(channel) /\ job.batch # b
      BY <1>b, <1>x, <3>1, <3>4 DEF Accounted, Journaled, Stored, jvars, dvars
    <3>5. QED
      BY <3>2, <3>3, <3>4
  <2>2. QED
    BY <1>8, <2>1 DEF crash, NothingVanishes
<1>9. CASE Pipeline
  <2>1. ASSUME NEW b \in Range(accepted), Stored(b) PROVE Stored(b)'
    BY <1>9, <1>a, <2>1, PipelineMoves DEF Stored, TypeOK
  <2>2. QED
    BY <1>9, <1>b, <1>x, <2>1, PipelineMoves, AccountedFrame DEF NothingVanishes, Journaled, jvars, hvars, evars
<1>10. CASE UNCHANGED <<channel, job, journal, dvars, accepted, dropped, lost>> /\ (crashes + faults > 0 => crashes' + faults' > 0)
  BY <1>10, <1>b, <1>x DEF NothingVanishes, Accounted, Journaled, Stored, dvars
<1>11. \/ \E c \in Batches : try_submit(c)
       \/ recv \/ replay_first \/ replay_halt \/ purge \/ append \/ loop_settle \/ crash \/ Pipeline
       \/ UNCHANGED <<channel, job, journal, dvars, accepted, dropped, lost>> /\ (crashes + faults > 0 => crashes' + faults' > 0)
  BY DEF Next, PersisterStep, Pipeline, TypeOK, vars, pvars, jvars, hvars, evars, refuse, drop_handles,
         shutdown_with_timeout, replay_read_fails, journal_fault, replay_done, exit, spawn_persister, outage, recover
<1>12. QED
  BY <1>1, <1>2, <1>3, <1>4, <1>5, <1>6, <1>7, <1>8, <1>9, <1>10, <1>11

-----------------------------------------------------------------------------
\* What an outage costs.

\* A job passes the first lookup only while the backend is up, so the outage
\* that hits the second one is new.
LEMMA MisreadStep ==
    ASSUME TypeOK, JobInv, MisreadInv, [Next]_vars
    PROVE  MisreadInv'
<1>1. CASE lookup_public_key
  <2>1. UNCHANGED <<up, outages, misread>>
    BY <1>1 DEF lookup_public_key, hvars, evars
  <2>2. job'.at = "pqc" => up
    BY <1>1 DEF lookup_public_key, TypeOK, Job
  <2>3. QED
    BY <2>1, <2>2 DEF MisreadInv
<1>2. CASE verify_and_mint
  <2>1. UNCHANGED <<up, outages>>
    BY <1>2 DEF verify_and_mint, evars
  <2>2. job'.at # "pqc"
    BY <1>2 DEF verify_and_mint, TypeOK, Job
  <2>3. \A m \in misread' : m \in misread \/ m = [outage |-> outages, batch |-> job.batch]
    BY <1>2 DEF verify_and_mint
  <2>4. \A m \in misread' : m.outage <= outages
    BY <2>3 DEF MisreadInv, TypeOK
  <2>5. QED
    BY <2>1, <2>2, <2>4 DEF MisreadInv
<1>3. CASE insert_trace_events_batch \/ insert_trace_llm_calls_batch
  <2>1. UNCHANGED <<up, outages, misread>>
    BY <1>3 DEF insert_trace_events_batch, insert_trace_llm_calls_batch, hvars, evars
  <2>2. job'.at # "pqc"
    BY <1>3 DEF insert_trace_events_batch, insert_trace_llm_calls_batch, TypeOK, Job
  <2>3. QED
    BY <2>1, <2>2 DEF MisreadInv
<1>4. CASE outage
  <2>1. outages' = outages + 1 /\ outages \in Nat /\ UNCHANGED misread
    BY <1>4 DEF outage, hvars, TypeOK
  <2>2. \A m \in misread : m.outage \in Nat /\ m.outage <= outages
    BY DEF MisreadInv, TypeOK, Misreading
  <2>3. QED
    BY <2>1, <2>2 DEF MisreadInv
<1>5. CASE recover
  <2>1. up' /\ UNCHANGED <<outages, misread>>
    BY <1>5 DEF recover, hvars
  <2>2. QED
    BY <2>1 DEF MisreadInv
<1>6. CASE UNCHANGED <<up, outages, misread>> /\ (job' = job \/ job'.at = "gates")
  BY <1>6 DEF MisreadInv
<1>7. \/ lookup_public_key \/ verify_and_mint
      \/ insert_trace_events_batch \/ insert_trace_llm_calls_batch \/ outage \/ recover
      \/ UNCHANGED <<up, outages, misread>> /\ (job' = job \/ job'.at = "gates")
  BY DEF Next, PersisterStep, vars, pvars, hvars, evars, try_submit, refuse, drop_handles,
         shutdown_with_timeout, replay_first, Start, Idle, replay_read_fails, journal_fault,
         replay_done, replay_halt, purge, recv, exit, loop_settle, append, crash, spawn_persister
<1>8. QED
  BY <1>1, <1>2, <1>3, <1>4, <1>5, <1>6, <1>7

-----------------------------------------------------------------------------
\* The order of arrival.

\* Acceptance only adds to the order, and what was accepted comes before what
\* is accepted now.
LEMMA BeforeGrows ==
    ASSUME TypeOK, NEW c \in Batches, accepted' = Append(accepted, c)
    PROVE  /\ \A a, b : Before(accepted, a, b) => Before(accepted', a, b)
           /\ \A a \in Range(accepted) : Before(accepted', a, c)
<1>1. /\ accepted \in Seq(Batches)
      /\ \A i \in DOMAIN accepted : i \in DOMAIN accepted' /\ accepted'[i] = accepted[i]
      /\ Len(accepted) + 1 \in DOMAIN accepted' /\ accepted'[Len(accepted) + 1] = c
      /\ \A i \in DOMAIN accepted : i < Len(accepted) + 1
  BY DEF TypeOK
<1>2. QED
  BY <1>1 DEF Before, Range

\* Every step keeps the order from the journal over the job to the channel.
LEMMA OrderStep ==
    ASSUME TypeOK, JobInv, SeqInv, OrderInv, [Next]_vars
    PROVE  OrderInv'
<1>1. ASSUME NEW c \in Batches, try_submit(c) PROVE OrderInv'
  <2>1. /\ \A a, b : Before(accepted, a, b) => Before(accepted', a, b)
        /\ \A a \in Range(accepted) : Before(accepted', a, c)
        /\ Range(accepted)' = Range(accepted) \cup {c}
    BY <1>1, BeforeGrows, RangeAppend DEF try_submit, TypeOK
  <2>2. /\ DOMAIN channel' = DOMAIN channel \cup {Len(channel) + 1}
        /\ \A k \in DOMAIN channel : channel'[k] = channel[k] /\ k < Len(channel) + 1
        /\ channel'[Len(channel) + 1] = c
        /\ DOMAIN channel \subseteq Nat /\ Len(channel) \in Nat
    BY <1>1 DEF try_submit, TypeOK
  <2>3. UNCHANGED <<job, journal>>
    BY <1>1 DEF try_submit, jvars
  <2>4. \A k \in DOMAIN channel' : channel'[k] \in Range(accepted)'
    BY <2>1, <2>2 DEF OrderInv
  <2>5. \A e \in journal, k \in DOMAIN channel' : Before(accepted', e.batch, channel'[k])
    BY <2>1, <2>2 DEF OrderInv
  <2>6. \A k \in DOMAIN channel' : job.from = "channel" => Before(accepted', job.batch, channel'[k])
    BY <2>1, <2>2 DEF OrderInv
  <2>7. \A k, l \in DOMAIN channel' : k < l => Before(accepted', channel'[k], channel'[l])
    <3>1. SUFFICES ASSUME NEW k \in DOMAIN channel', NEW l \in DOMAIN channel', k < l
                   PROVE  Before(accepted', channel'[k], channel'[l])
      OBVIOUS
    <3>2. k \in DOMAIN channel
      BY <2>2, <3>1
    <3>3. QED
      BY <2>1, <2>2, <3>1, <3>2 DEF OrderInv
  <2>8. QED
    BY <2>1, <2>3, <2>4, <2>5, <2>6, <2>7 DEF OrderInv
<1>2. CASE recv
  <2>1. /\ job'.batch = channel[1] /\ 1 \in DOMAIN channel
        /\ \A k \in DOMAIN channel' : /\ channel'[k] = channel[k + 1]
                                      /\ k + 1 \in DOMAIN channel /\ 1 < k + 1
        /\ \A k, l \in DOMAIN channel' : k < l => k + 1 < l + 1
    BY <1>2 DEF recv, Start, TypeOK
  <2>2. UNCHANGED <<journal, accepted>>
    BY <1>2 DEF recv, jvars, hvars
  <2>3. QED
    BY <2>1, <2>2 DEF OrderInv, Before
<1>3. CASE append
  <2>1. UNCHANGED <<channel, accepted>> /\ job'.from # "channel" /\ job.from = "channel"
    BY <1>3 DEF append, Idle
  <2>2. CASE insert_entry(job.batch)
    <3>1. \A e \in journal' : e \in journal \/ e = [seq |-> next_seq, batch |-> job.batch]
      BY <2>2 DEF insert_entry
    <3>2. \A e \in journal : e.seq < next_seq /\ ~(next_seq < e.seq)
      BY DEF SeqInv, TypeOK, Entry
    <3>3. \A e, f \in journal' : e.seq < f.seq => Before(accepted, e.batch, f.batch)
      <4>1. SUFFICES ASSUME NEW e \in journal', NEW f \in journal', e.seq < f.seq
                     PROVE  Before(accepted, e.batch, f.batch)
        OBVIOUS
      <4>2. e \in journal
        BY <3>1, <3>2, <4>1 DEF TypeOK
      <4>3. QED
        BY <2>1, <3>1, <4>1, <4>2 DEF OrderInv
    <3>4. QED
      BY <2>1, <3>1, <3>3 DEF OrderInv, Before
  <2>3. CASE journal_fault
    BY <2>1, <2>3 DEF journal_fault, OrderInv, Before
  <2>4. QED
    BY <1>3, <2>2, <2>3 DEF append
<1>4. CASE purge \/ replay_halt \/ loop_settle \/ replay_first
  <2>1. UNCHANGED <<channel, accepted>> /\ job'.from # "channel" /\ journal' \subseteq journal
    BY <1>4 DEF purge, remove_entry, journal_fault, replay_halt, loop_settle, replay_first,
                Start, Idle, jvars, hvars
  <2>2. QED
    BY <2>1 DEF OrderInv, Before
<1>5. CASE crash
  <2>1. UNCHANGED <<journal, accepted>> /\ job'.from # "channel" /\ DOMAIN channel' = {}
    BY <1>5 DEF crash, Idle, jvars
  <2>2. QED
    BY <2>1 DEF OrderInv, Before
<1>6. CASE Pipeline
  <2>1. UNCHANGED <<channel, journal, accepted>> /\ job'.from = job.from /\ job'.batch = job.batch
    BY <1>6, PipelineMoves DEF jvars, hvars
  <2>2. QED
    BY <2>1 DEF OrderInv, Before
<1>7. CASE UNCHANGED <<channel, job, journal, accepted>>
  BY <1>7 DEF OrderInv, Before
<1>8. \/ \E c \in Batches : try_submit(c)
      \/ recv \/ append \/ purge \/ replay_halt \/ loop_settle \/ replay_first \/ crash \/ Pipeline
      \/ UNCHANGED <<channel, job, journal, accepted>>
  BY DEF Next, PersisterStep, Pipeline, vars, pvars, jvars, hvars, refuse, drop_handles,
         shutdown_with_timeout, replay_read_fails, journal_fault, replay_done, exit, spawn_persister, outage, recover
<1>9. QED
  BY <1>1, <1>2, <1>3, <1>4, <1>5, <1>6, <1>7, <1>8

-----------------------------------------------------------------------------
\* The theorems.

\* A new deployment satisfies the invariant.
LEMMA InitInv == Init => JournalInv
<1> SUFFICES ASSUME Init PROVE JournalInv
  OBVIOUS
<1> USE JournalAssumption DEF Init
<1>1. TypeOK
  <2>1. senders \in BOOLEAN /\ gave_up \in BOOLEAN /\ up \in BOOLEAN
    OBVIOUS
  <2>2. job \in Job
    BY DEF Job, Idle
  <2>3. channel \in Seq(Batches) /\ Len(channel) <= QueueDepth /\ accepted \in Seq(Batches)
    OBVIOUS
  <2>4. QED
    BY <2>1, <2>2, <2>3 DEF TypeOK
<1>2. JobInv /\ SeqInv /\ ReplayKeepsEntry
  BY DEF JobInv, SeqInv, ReplayKeepsEntry, Idle
<1>3. NothingVanishes
  BY DEF NothingVanishes, Range
<1>4. OrderInv /\ MisreadInv
  BY DEF OrderInv, MisreadInv, Idle
<1>5. QED
  BY <1>1, <1>2, <1>3, <1>4 DEF JournalInv

\* JournalInv is an invariant of the queue.
THEOREM JournalInvariant == Spec => []JournalInv
<1>1. JournalInv /\ [Next]_vars => JournalInv'
  BY TypeStep, JobStep, SeqStep, KeepStep, VanishStep, OrderStep, MisreadStep DEF JournalInv
<1>2. QED
  BY <1>1, InitInv, PTL DEF Spec

\* The channel never holds more than queue_depth batches, and every other part
\* of the queue's state is typed.
THEOREM IngestTypeCorrect == Spec => []TypeOK
<1>1. JournalInv => TypeOK
  BY DEF JournalInv
<1>2. QED
  BY <1>1, JournalInvariant, PTL

\* A batch a producer was told is queued is accounted for at every moment.
THEOREM AcceptedIsAccountedFor == Spec => []NothingVanishes
<1>1. JournalInv => NothingVanishes
  BY DEF JournalInv
<1>2. QED
  BY <1>1, JournalInvariant, PTL

\* A crash during a replay finds the replayed entry still on disk.
THEOREM ReplayIsRepeatable == Spec => []ReplayKeepsEntry
<1>1. JournalInv => ReplayKeepsEntry
  BY DEF JournalInv
<1>2. QED
  BY <1>1, JournalInvariant, PTL

\* The journal's numbers follow the order in which batches were accepted.
THEOREM JournalKeepsOrder == Spec => []JournalInOrder
<1>1. JournalInv => JournalInOrder
  BY DEF JournalInv, OrderInv, Before, JournalInOrder
<1>2. QED
  BY <1>1, JournalInvariant, PTL

-----------------------------------------------------------------------------
(* The refinement of IngestPromise.  The promise has no "lost" of its own:  *)
(* a batch that is in no place is lost.  What keeps it from being there     *)
(* without a mishap is that it is in one place at a time, which follows     *)
(* from the order of arrival once no batch is accepted twice (PlaceInv).    *)

PlaceInv ==
    /\ \A i, j \in DOMAIN accepted : accepted[i] = accepted[j] => i = j
    /\ \A b \in Batches : Stored(b) => b \in Range(accepted)
    /\ events \subseteq Range(accepted)
    /\ \A b \in dropped : b \in Range(accepted) /\ b \notin Journaled /\ ~Held(b)

\* Nothing comes before itself.
LEMMA NotBeforeItself ==
    ASSUME TypeOK, PlaceInv, NEW b PROVE ~Before(accepted, b, b)
BY DEF TypeOK, PlaceInv, Before

\* What the task took from the channel is in no other place.
LEMMA OnePlace ==
    ASSUME TypeOK, OrderInv, PlaceInv
    PROVE  /\ job.from = "channel" => job.batch \notin Journaled /\ job.batch \notin Range(channel)
           /\ \A b \in Range(channel) : b \notin Journaled
BY NotBeforeItself DEF OrderInv, Journaled, Range

\* A batch in hand was accepted.
LEMMA HandAccepted ==
    ASSUME TypeOK, JobInv, ReplayKeepsEntry, OrderInv, job.from # "none"
    PROVE  job.batch \in Range(accepted)
<1>1. job.from \in {"channel", "journal"}
  BY DEF TypeOK, Job
<1>2. QED
  BY <1>1 DEF ReplayKeepsEntry, OrderInv

\* Every step keeps a batch in one place.
LEMMA PlaceStep == ASSUME JournalInv, PlaceInv, [Next]_vars PROVE PlaceInv'
<1> USE JournalAssumption DEF JournalInv
<1>a. Range(channel) \subseteq Range(accepted) /\ Journaled \subseteq Range(accepted)
  BY DEF OrderInv, Range, Journaled
<1>b. dropped \subseteq Batches /\ NoBatch \notin Batches
  BY DEF TypeOK
<1>1. ASSUME NEW c \in Batches, try_submit(c) PROVE PlaceInv'
  <2>1. Range(accepted)' = Range(accepted) \cup {c} /\ Range(channel)' = Range(channel) \cup {c}
    BY <1>1, RangeAppend DEF try_submit, TypeOK
  <2>2. c \notin Range(accepted) /\ UNCHANGED <<job, journal, events, llm, dropped>>
    BY <1>1 DEF try_submit, jvars, dvars
  <2>3. \A i, j \in DOMAIN accepted' : accepted'[i] = accepted'[j] => i = j
    <3>1. accepted' = Append(accepted, c) /\ accepted \in Seq(Batches)
      BY <1>1 DEF try_submit, TypeOK
    <3>2. \A i \in DOMAIN accepted : accepted[i] # c
      BY <2>2 DEF Range
    <3>3. QED
      BY <3>1, <3>2 DEF PlaceInv
  <2>4. QED
    BY <2>1, <2>2, <2>3 DEF PlaceInv, Stored, Journaled, Held
<1>2. CASE recv
  <2>1. Range(channel) = Range(channel') \cup {job'.batch}
    BY <1>2, RangeTail DEF recv, Start, TypeOK
  <2>2. UNCHANGED <<journal, events, llm, accepted, dropped>>
    BY <1>2 DEF recv, jvars, dvars, hvars
  <2>3. QED
    BY <2>1, <2>2 DEF PlaceInv, Stored, Journaled, Held, Range
<1>3. CASE append
  <2>1. /\ UNCHANGED <<channel, accepted, events, llm, dropped>>
        /\ job'.batch = NoBatch /\ Journaled' \subseteq Journaled \cup {job.batch}
    BY <1>3 DEF append, insert_entry, journal_fault, Idle, Journaled, dvars
  <2>2. job.batch \notin dropped
    BY DEF PlaceInv, Held
  <2>3. QED
    BY <1>b, <2>1, <2>2 DEF PlaceInv, Stored, Held, Range
<1>4. CASE purge \/ replay_halt \/ crash
  <2>1. /\ UNCHANGED <<accepted, events, llm, dropped>>
        /\ job'.batch = NoBatch /\ journal' \subseteq journal
        /\ channel' = channel \/ channel' = <<>>
    BY <1>4 DEF purge, replay_halt, crash, remove_entry, journal_fault, Idle, jvars, dvars, hvars
  <2>2. Range(channel') \subseteq Range(channel) /\ Journaled' \subseteq Journaled
    BY <2>1 DEF Range, Journaled
  <2>3. QED
    BY <1>b, <2>1, <2>2 DEF PlaceInv, Stored, Held, Range
<1>5. CASE loop_settle
  <2>1. /\ UNCHANGED <<channel, journal, accepted, events, llm>>
        /\ job'.batch = NoBatch /\ dropped' \subseteq dropped \cup {job.batch}
        /\ job.from = "channel"
    BY <1>5 DEF loop_settle, Idle, jvars, dvars
  <2>2. /\ job.batch \in Range(accepted) /\ job.batch \notin Journaled
        /\ job.batch \notin Range(channel) /\ job.batch \in Batches
    BY <2>1, OnePlace, InHand DEF OrderInv
  <2>3. QED
    BY <1>b, <2>1, <2>2 DEF PlaceInv, Stored, Journaled, Held, Range
<1>6. CASE replay_first
  <2>1. /\ UNCHANGED <<channel, journal, accepted, events, llm, dropped>>
        /\ job'.batch \in Journaled
    BY <1>6 DEF replay_first, Start, Journaled, jvars, dvars, hvars
  <2>2. QED
    BY <2>1 DEF PlaceInv, Stored, Journaled, Held, Range
<1>7. CASE Pipeline
  <2>1. /\ UNCHANGED <<channel, journal, accepted, dropped>> /\ job'.batch = job.batch
        /\ job.from # "none"
    BY <1>7, PipelineMoves DEF jvars, hvars
  <2>2. job.batch \in Range(accepted)
    BY <2>1, HandAccepted
  <2>3. events' \subseteq events \cup {job.batch}
    BY <1>7 DEF Pipeline, lookup_public_key, verify_and_mint, insert_trace_events_batch, insert_trace_llm_calls_batch, dvars
  <2>4. QED
    BY <2>1, <2>2, <2>3 DEF PlaceInv, Stored, Journaled, Held, Range
<1>8. CASE UNCHANGED <<channel, job, journal, events, llm, accepted, dropped>>
  BY <1>8 DEF PlaceInv, Stored, Journaled, Held, Range
<1>9. \/ \E c \in Batches : try_submit(c)
      \/ recv \/ append \/ purge \/ replay_halt \/ loop_settle \/ replay_first \/ crash \/ Pipeline
      \/ UNCHANGED <<channel, job, journal, events, llm, accepted, dropped>>
  BY DEF Next, PersisterStep, Pipeline, vars, pvars, jvars, dvars, hvars, refuse, drop_handles,
         shutdown_with_timeout, replay_read_fails, journal_fault, replay_done, exit, spawn_persister, outage, recover
<1>10. QED
  BY <1>1, <1>2, <1>3, <1>4, <1>5, <1>6, <1>7, <1>8, <1>9

-----------------------------------------------------------------------------
(* How often the LLM-call rows of a batch are written.  What the persister  *)
(* may still store has used up none of the repetitions that a crash or a    *)
(* failed purge allows (CallsInv).                                          *)

\* The batches the persister may still store without a further mishap.
Pending(b) ==
    \/ b \in Range(channel)
    \/ job.batch = b /\ job.at # "ok"
    \/ b \in Journaled /\ job.batch # b

CallsInv ==
    /\ \A b \in Batches : llm[b] > 0 => b \in Range(accepted)
    /\ \A b \in Batches : llm[b] <= 1 + (crashes + faults)
    /\ \A b \in Batches : Pending(b) => llm[b] <= crashes + faults

\* A step that writes no rows and makes nothing pending keeps the count.
LEMMA CallsFrame ==
    ASSUME TypeOK, TypeOK', CallsInv, llm' = llm, Range(accepted) \subseteq Range(accepted)',
           crashes + faults <= crashes' + faults',
           \A b \in Batches : Pending(b)' => Pending(b) \/ llm[b] <= crashes' + faults'
    PROVE  CallsInv'
<1>1. crashes \in Nat /\ faults \in Nat /\ \A b \in Batches : llm[b] \in Nat
  BY DEF TypeOK
<1>2. crashes' \in Nat /\ faults' \in Nat
  BY DEF TypeOK
<1>3. \A b \in Batches : llm'[b] > 0 => b \in Range(accepted)'
  BY DEF CallsInv
<1>m. PICK m \in Nat : m = crashes + faults
  BY <1>1
<1>c. PICK x \in Nat, y \in Nat : x = crashes' /\ y = faults'
  BY <1>2
<1>k. PICK n \in Nat : n = x + y
  OBVIOUS
<1>g. crashes + faults <= crashes' + faults'
  OBVIOUS
<1>n. n \in Nat /\ n = crashes' + faults' /\ m <= n
  BY <1>c, <1>g, <1>k, <1>m
<1>4. \A b \in Batches : llm'[b] <= 1 + (crashes' + faults')
  <2>1. \A b \in Batches : llm[b] \in Nat /\ llm[b] <= 1 + m
    BY <1>1, <1>m DEF CallsInv
  <2>2. \A b \in Batches : llm'[b] <= 1 + n
    BY <1>n, <2>1
  <2>3. QED
    BY <1>n, <2>2
<1>5. \A b \in Batches : Pending(b)' => llm'[b] <= crashes' + faults'
  <2>1. \A b \in Batches : Pending(b) => llm[b] \in Nat /\ llm[b] <= m
    BY <1>1, <1>m DEF CallsInv
  <2>2. \A b \in Batches : Pending(b)' => llm'[b] <= n
    BY <1>n, <2>1
  <2>3. QED
    BY <1>n, <2>2
<1>6. QED
  BY <1>3, <1>4, <1>5 DEF CallsInv

\* Every step keeps the count.
LEMMA CallsStep ==
    ASSUME JournalInv, PlaceInv, CallsInv, [Next]_vars
    PROVE  CallsInv'
<1> USE JournalAssumption DEF JournalInv
<1>t. TypeOK'
  BY TypeStep
<1>n. /\ crashes \in Nat /\ faults \in Nat /\ \A b \in Batches : llm[b] \in Nat /\ b # NoBatch
  BY DEF TypeOK
<1>i. Idle.batch = NoBatch
  BY DEF Idle
<1>1. ASSUME NEW c \in Batches, try_submit(c) PROVE CallsInv'
  <2>1. Range(accepted)' = Range(accepted) \cup {c} /\ Range(channel)' = Range(channel) \cup {c}
    BY <1>1, RangeAppend DEF try_submit, TypeOK
  <2>2. c \notin Range(accepted) /\ UNCHANGED <<job, journal, llm, crashes, faults>>
    BY <1>1 DEF try_submit, jvars, dvars, evars
  <2>3. llm[c] <= crashes + faults
    BY <1>n, <2>2 DEF CallsInv
  <2>4. \A b \in Batches : Pending(b)' => Pending(b) \/ b = c
    BY <2>1, <2>2 DEF Pending, Journaled
  <2>5. QED
    BY <1>t, <1>n, <2>1, <2>2, <2>3, <2>4, CallsFrame
<1>2. CASE insert_trace_llm_calls_batch
  <2>1. /\ UNCHANGED <<channel, journal, accepted, crashes, faults>> /\ job'.batch = job.batch
        /\ job.from # "none" /\ job.batch \in Batches
    BY <1>2, PipelineMoves DEF Pipeline, jvars, evars
  <2>2. job.batch \in Range(accepted) /\ Pending(job.batch)
    BY <1>2, <2>1, HandAccepted DEF insert_trace_llm_calls_batch, At, Pending
  <2>c. PICK c \in Batches : c = job.batch
    BY <2>1
  <2>3. CASE up
    <3>1. llm' = [llm EXCEPT ![c] = @ + 1] /\ job'.at = "ok"
      BY <1>2, <2>c, <2>3 DEF insert_trace_llm_calls_batch, TypeOK, Job
    <3>2. llm'[c] = llm[c] + 1 /\ \A b \in Batches : b # c => llm'[b] = llm[b]
      BY <3>1 DEF TypeOK
    <3>3. c \notin Range(channel)
      <4>1. CASE job.from = "channel"
        BY <2>c, <4>1, OnePlace
      <4>2. CASE job.from = "journal"
        BY <2>c, <4>2, OnePlace DEF ReplayKeepsEntry, Journaled
      <4>3. QED
        BY <2>1, <4>1, <4>2 DEF TypeOK, Job
    <3>4. ~Pending(c)'
      BY <2>1, <2>c, <3>1, <3>3 DEF Pending, Range
    <3>5. \A b \in Batches : b # c => (Pending(b)' <=> Pending(b))
      BY <2>1, <2>c DEF Pending, Range, Journaled
    <3>6. llm[c] <= crashes + faults
      BY <2>2, <2>c DEF CallsInv
    <3>7. \A b \in Batches : llm'[b] > 0 => b \in Range(accepted)'
      BY <2>1, <2>2, <2>c, <3>2 DEF CallsInv, Range
    <3>8. \A b \in Batches : llm'[b] <= 1 + (crashes' + faults')
      BY <1>n, <2>1, <3>2, <3>6 DEF CallsInv
    <3>9. \A b \in Batches : Pending(b)' => llm'[b] <= crashes' + faults'
      BY <2>1, <3>2, <3>4, <3>5 DEF CallsInv
    <3>10. QED
      BY <3>7, <3>8, <3>9 DEF CallsInv
  <2>4. CASE ~up
    <3>1. llm' = llm
      BY <1>2, <2>4 DEF insert_trace_llm_calls_batch
    <3>2. \A b \in Batches : Pending(b)' => Pending(b)
      BY <1>2, <2>1 DEF Pending, Range, Journaled, insert_trace_llm_calls_batch, At
    <3>3. QED
      BY <1>t, <1>n, <2>1, <3>1, <3>2, CallsFrame DEF Range
  <2>5. QED
    BY <2>3, <2>4
<1>3. CASE lookup_public_key \/ verify_and_mint \/ insert_trace_events_batch
  <2>1. UNCHANGED <<channel, journal, accepted, crashes, faults>> /\ job'.batch = job.batch
    BY <1>3, PipelineMoves DEF Pipeline, jvars, evars
  <2>2. llm' = llm /\ job.at # "ok"
    BY <1>3 DEF lookup_public_key, verify_and_mint, insert_trace_events_batch, At, dvars
  <2>3. \A b \in Batches : Pending(b)' => Pending(b)
    BY <2>1, <2>2 DEF Pending, Range, Journaled
  <2>4. QED
    BY <1>t, <1>n, <2>1, <2>2, <2>3, CallsFrame DEF Range
<1>4. CASE recv
  <2>1. Range(channel) = Range(channel') \cup {job'.batch}
    BY <1>4, RangeTail DEF recv, Start, TypeOK
  <2>2. UNCHANGED <<journal, llm, accepted, crashes, faults>> /\ job.batch = NoBatch
    BY <1>4, <1>i DEF recv, jvars, dvars, hvars, evars
  <2>3. \A b \in Batches : Pending(b)' => Pending(b)
    BY <1>n, <2>1, <2>2 DEF Pending, Range, Journaled
  <2>4. QED
    BY <1>t, <1>n, <2>2, <2>3, CallsFrame DEF Range
<1>5. CASE replay_first
  <2>1. /\ UNCHANGED <<channel, journal, llm, accepted, crashes, faults>>
        /\ job.batch = NoBatch /\ job'.batch \in Journaled
    BY <1>5, <1>i DEF replay_first, Start, Journaled, jvars, dvars, hvars, evars
  <2>2. \A b \in Batches : Pending(b)' => Pending(b)
    BY <1>n, <2>1 DEF Pending, Range, Journaled
  <2>3. QED
    BY <1>t, <1>n, <2>1, <2>2, CallsFrame DEF Range
<1>6. CASE loop_settle
  <2>1. /\ UNCHANGED <<channel, journal, llm, accepted, crashes, faults>>
        /\ job'.batch = NoBatch /\ job.from = "channel"
    BY <1>6, <1>i DEF loop_settle, jvars, dvars, evars
  <2>2. job.batch \notin Journaled
    BY <2>1, OnePlace
  <2>3. \A b \in Batches : Pending(b)' => Pending(b)
    BY <1>n, <2>1, <2>2 DEF Pending, Range, Journaled
  <2>4. QED
    BY <1>t, <1>n, <2>1, <2>3, CallsFrame DEF Range
<1>7. CASE append
  <2>1. /\ UNCHANGED <<channel, llm, accepted, crashes>> /\ job'.batch = NoBatch
        /\ job.at = "store_error" /\ faults' >= faults
        /\ \A e \in journal' : e \in journal \/ e.batch = job.batch
    BY <1>7, <1>i, <1>n DEF append, insert_entry, journal_fault, dvars
  <2>2. \A b \in Batches : Pending(b)' => Pending(b)
    BY <1>n, <2>1 DEF Pending, Range, Journaled
  <2>3. crashes' + faults' >= crashes + faults
    BY <1>n, <1>t, <2>1 DEF TypeOK
  <2>4. QED
    BY <1>t, <2>1, <2>2, <2>3, CallsFrame DEF Range
<1>8. CASE purge
  <2>1. /\ UNCHANGED <<channel, llm, accepted, crashes>> /\ job'.batch = NoBatch
        /\ job.from = "journal"
    BY <1>8, <1>i DEF purge, dvars, hvars
  <2>2. CASE remove_entry(job.seq)
    <3>1. journal' \subseteq journal /\ faults' = faults
      BY <2>2 DEF remove_entry
    <3>2. \A e \in journal' : e.batch # job.batch
      <4>1. PICK d \in journal : d.seq = job.seq /\ d.batch = job.batch
        BY <2>1 DEF ReplayKeepsEntry
      <4>2. SUFFICES ASSUME NEW e \in journal' PROVE e.batch # job.batch
        OBVIOUS
      <4>3. e \in journal /\ e.seq \in Nat /\ d.seq \in Nat /\ e.seq # d.seq
        BY <2>2, <4>1 DEF remove_entry, TypeOK, Entry
      <4>4. e.seq < d.seq \/ d.seq < e.seq
        BY <4>3
      <4>5. Before(accepted, e.batch, d.batch) \/ Before(accepted, d.batch, e.batch)
        BY <4>3, <4>4 DEF OrderInv
      <4>6. QED
        BY <4>1, <4>5, NotBeforeItself
    <3>3. \A b \in Batches : Pending(b)' => Pending(b)
      BY <1>n, <2>1, <3>1, <3>2 DEF Pending, Range, Journaled
    <3>4. QED
      BY <1>t, <1>n, <2>1, <3>1, <3>3, CallsFrame DEF Range
  <2>3. CASE journal_fault
    <3>1. faults' = faults + 1
      BY <2>3 DEF journal_fault
    <3>2. \A b \in Batches : llm[b] <= crashes' + faults'
      BY <1>n, <2>1, <3>1 DEF CallsInv
    <3>3. QED
      BY <1>t, <1>n, <2>1, <3>1, <3>2, CallsFrame DEF Range
  <2>4. QED
    BY <1>8, <2>2, <2>3 DEF purge
<1>9. CASE replay_halt
  <2>1. /\ UNCHANGED <<channel, journal, llm, accepted, crashes, faults>>
        /\ job'.batch = NoBatch /\ job.at # "ok"
    BY <1>9, <1>i DEF replay_halt, jvars, dvars, hvars, evars
  <2>2. \A b \in Batches : Pending(b)' => Pending(b)
    BY <1>n, <2>1 DEF Pending, Range, Journaled
  <2>3. QED
    BY <1>t, <1>n, <2>1, <2>2, CallsFrame DEF Range
<1>10. CASE crash
  <2>1. UNCHANGED <<llm, accepted, faults>> /\ crashes' = crashes + 1
    BY <1>10 DEF crash, dvars
  <2>2. \A b \in Batches : llm[b] <= crashes' + faults'
    BY <1>n, <2>1 DEF CallsInv
  <2>3. QED
    BY <1>t, <1>n, <2>1, <2>2, CallsFrame DEF Range
<1>11. CASE UNCHANGED <<channel, job, journal, llm, accepted, crashes>> /\ faults' \in {faults, faults + 1}
  <2>1. \A b \in Batches : Pending(b)' => Pending(b)
    BY <1>11 DEF Pending, Range, Journaled
  <2>a. crashes' = crashes /\ (faults' = faults \/ faults' = faults + 1)
    BY <1>11
  <2>2. crashes' + faults' >= crashes + faults
    BY <1>n, <2>a
  <2>3. llm' = llm /\ accepted' = accepted
    BY <1>11
  <2>4. QED
    BY <1>t, <2>1, <2>2, <2>3, CallsFrame DEF Range
<1>12. \/ \E c \in Batches : try_submit(c)
       \/ insert_trace_llm_calls_batch
       \/ lookup_public_key \/ verify_and_mint \/ insert_trace_events_batch
       \/ recv \/ append \/ purge \/ replay_halt \/ loop_settle \/ replay_first \/ crash
       \/ UNCHANGED <<channel, job, journal, llm, accepted, crashes>> /\ faults' \in {faults, faults + 1}
  BY DEF Next, PersisterStep, vars, pvars, jvars, dvars, hvars, evars, refuse, drop_handles,
         shutdown_with_timeout, replay_read_fails, journal_fault, replay_done, exit,
         spawn_persister, outage, recover
<1>13. QED
  BY <1>1, <1>2, <1>3, <1>4, <1>5, <1>6, <1>7, <1>8, <1>9, <1>10, <1>11, <1>12

-----------------------------------------------------------------------------
\* A batch none of whose places changed is where it was.
LEMMA SamePlace ==
    ASSUME NEW b,
           b \in Range(accepted)' <=> b \in Range(accepted), Stored(b)' <=> Stored(b),
           b \in Journaled' <=> b \in Journaled, Held(b)' <=> Held(b),
           b \in dropped' <=> b \in dropped
    PROVE  place(b)' = place(b)
BY DEF place

\* A step that changes none of what the promise sees.
LEMMA PromiseStutter ==
    ASSUME \A b \in Batches : place(b)' = place(b),
           UNCHANGED <<refused, crashes, faults, outages, misread>>
    PROVE  UNCHANGED Promise!pvars
BY DEF Promise!pvars, Promise!avars, abstract_state

\* A step that moves one batch.
LEMMA PromiseMove ==
    ASSUME NEW c \in Batches, \A b \in Batches : b # c => place(b)' = place(b)
    PROVE  /\ abstract_state' = [abstract_state EXCEPT ![c] = place(c)']
           /\ abstract_state[c] = place(c)
BY DEF abstract_state

\* A mishap that takes exactly the batches of S, which fit in the channel and
\* the task's hand.
LEMMA PromiseMishap ==
    ASSUME TypeOK, NEW S \in SUBSET Batches, S \subseteq Range(channel) \cup {job.batch},
           \A b \in S : place(b) = "queued" /\ place(b)' = "lost",
           \A b \in Batches \ S : place(b)' = place(b),
           crashes' + faults' = crashes + faults + 1, UNCHANGED <<refused, outages, misread>>
    PROVE  Promise!PNext
<1> USE JournalAssumption
<1> DEFINE Slots == 1 .. QueueDepth + 1
           InSlot(i) == IF i \in DOMAIN channel THEN channel[i]
                        ELSE IF i = QueueDepth + 1 THEN job.batch ELSE NoBatch
           held == [i \in Slots |-> IF InSlot(i) \in S THEN InSlot(i) ELSE NoBatch]
<1>1. channel \in Seq(Batches) /\ DOMAIN channel \subseteq 1 .. QueueDepth
  BY DEF TypeOK
<1>2. held \in [Slots -> Batches \cup {NoBatch}]
  OBVIOUS
<1>3. {b \in Batches : \E i \in Slots : held[i] = b} = S
  <2>1. ASSUME NEW b \in S PROVE \E i \in Slots : held[i] = b
    <3>1. CASE b \in Range(channel)
      <4>1. PICK i \in DOMAIN channel : channel[i] = b
        BY <3>1 DEF Range
      <4>2. i \in Slots /\ InSlot(i) = b
        BY <1>1, <4>1
      <4>3. QED
        BY <4>2
    <3>2. CASE b = job.batch
      <4>1. QueueDepth + 1 \in Slots /\ QueueDepth + 1 \notin DOMAIN channel
        BY <1>1
      <4>2. InSlot(QueueDepth + 1) = b
        BY <3>2, <4>1
      <4>3. QED
        BY <4>1, <4>2
    <3>3. QED
      BY <3>1, <3>2
  <2>2. ASSUME NEW i \in Slots, held[i] \in Batches PROVE held[i] \in S
    BY <2>2
  <2>3. QED
    BY <2>1, <2>2
<1> HIDE DEF held
<1>4. \A b \in S : abstract_state[b] = "queued"
  BY DEF abstract_state
<1>5. abstract_state' = [b \in Batches |-> IF b \in S THEN "lost" ELSE abstract_state[b]]
  BY DEF abstract_state
<1>6. Promise!Mishap(held)
  BY <1>3, <1>4, <1>5 DEF Promise!Mishap, Promise!Slots
<1>7. QED
  BY <1>2, <1>6 DEF Promise!PNext, Promise!Slots

\* Every step of the queue is a step of the promise, or changes nothing it sees.
LEMMA StepHonours ==
    ASSUME JournalInv, PlaceInv, [Next]_vars PROVE [Promise!PNext]_(Promise!pvars)
<1> USE JournalAssumption DEF JournalInv
<1>a. \A b \in Batches : b # NoBatch
  OBVIOUS
<1>b. Idle.batch = NoBatch
  BY DEF Idle
<1>s. ASSUME \A b \in Batches : place(b)' = place(b), UNCHANGED <<refused, crashes, faults, outages, misread>>
      PROVE  [Promise!PNext]_(Promise!pvars)
  BY <1>s, PromiseStutter
<1>1. ASSUME NEW c \in Batches, try_submit(c) PROVE [Promise!PNext]_(Promise!pvars)
  <2>1. Range(accepted)' = Range(accepted) \cup {c} /\ Range(channel)' = Range(channel) \cup {c}
    BY <1>1, RangeAppend DEF try_submit, TypeOK
  <2>2. /\ c \notin Range(accepted)
        /\ UNCHANGED <<job, journal, events, llm, dropped, refused, crashes, faults, outages, misread>>
    BY <1>1 DEF try_submit, jvars, dvars, evars
  <2>3. \A b \in Batches : b # c => place(b)' = place(b)
    BY <2>1, <2>2, SamePlace DEF Stored, Journaled, Held
  <2>4. place(c) = "offered"
    BY <2>2 DEF place
  <2>5. ~Stored(c)' /\ c \notin Journaled' /\ Held(c)'
    BY <2>1, <2>2 DEF PlaceInv, OrderInv, Stored, Journaled, Held
  <2>6. place(c)' = "queued"
    BY <2>1, <2>5 DEF place
  <2>7. Promise!Submit(c)
    BY <2>2, <2>3, <2>4, <2>6, PromiseMove DEF Promise!Submit, Promise!Move, Promise!avars
  <2>8. QED
    BY <2>7 DEF Promise!PNext
<1>2. ASSUME NEW c \in Batches, refuse(c) PROVE [Promise!PNext]_(Promise!pvars)
  <2>1. \A b \in Batches : place(b)' = place(b)
    BY <1>2 DEF refuse, place, Stored, Journaled, Held, Range, pvars, jvars, dvars, hvars
  <2>2. Promise!Refuse(c)
    BY <1>2, <2>1 DEF refuse, hvars, Promise!Refuse, abstract_state
  <2>3. QED
    BY <2>2 DEF Promise!PNext
<1>3. CASE recv
  <2>1. Range(channel) = Range(channel') \cup {job'.batch}
    BY <1>3, RangeTail DEF recv, Start, TypeOK
  <2>2. /\ UNCHANGED <<journal, events, llm, accepted, dropped, refused, crashes, faults, outages, misread>>
        /\ job.batch = NoBatch
    BY <1>3, <1>b DEF recv, jvars, dvars, hvars, evars
  <2>3. \A b \in Batches : place(b)' = place(b)
    BY <1>a, <2>1, <2>2, SamePlace DEF Stored, Journaled, Held, Range
  <2>4. QED
    BY <1>s, <2>2, <2>3
<1>4. CASE replay_first
  <2>1. /\ UNCHANGED <<channel, journal, events, llm, accepted, dropped, refused, crashes, faults, outages, misread>>
        /\ job.batch = NoBatch /\ job'.batch \in Journaled
    BY <1>4, <1>b DEF replay_first, Start, Journaled, jvars, dvars, hvars, evars
  <2>2. ASSUME NEW b \in Batches PROVE place(b)' = place(b)
    <3>1. CASE b \in Journaled
      BY <2>1, <3>1 DEF place, Stored, Journaled, Range
    <3>2. CASE b \notin Journaled
      BY <1>a, <2>1, <3>2, SamePlace DEF Stored, Journaled, Held, Range
    <3>3. QED
      BY <3>1, <3>2
  <2>3. QED
    BY <1>s, <2>1, <2>2
<1>5. CASE replay_halt
  <2>1. /\ UNCHANGED <<channel, journal, events, llm, accepted, dropped, refused, crashes, faults, outages, misread>>
        /\ job'.batch = NoBatch
    BY <1>5, <1>b DEF replay_halt, jvars, dvars, hvars, evars
  <2>2. job.batch \in Journaled
    BY <1>5 DEF replay_halt, ReplayKeepsEntry, Journaled
  <2>3. ASSUME NEW b \in Batches PROVE place(b)' = place(b)
    <3>1. CASE b \in Journaled
      BY <2>1, <3>1 DEF place, Stored, Journaled, Range
    <3>2. CASE b \notin Journaled
      BY <1>a, <2>1, <2>2, <3>2, SamePlace DEF Stored, Journaled, Held, Range
    <3>3. QED
      BY <3>1, <3>2
  <2>4. QED
    BY <1>s, <2>1, <2>3
<1>6. CASE purge
  <2>1. /\ UNCHANGED <<channel, events, llm, accepted, dropped, refused, crashes, outages, misread>>
        /\ job'.batch = NoBatch /\ job.from = "journal" /\ Stored(job.batch)
    BY <1>6, <1>b DEF purge, dvars, hvars, JobInv, Stored
  <2>2. \A b \in Batches : b # job.batch => (b \in Journaled' <=> b \in Journaled)
    <3>1. CASE remove_entry(job.seq)
      <4>1. [seq |-> job.seq, batch |-> job.batch] \in journal
        BY <2>1 DEF ReplayKeepsEntry
      <4>2. \A e \in journal : e \in journal' \/ e.batch = job.batch
        BY <3>1, <4>1 DEF remove_entry, SeqInv
      <4>3. journal' \subseteq journal
        BY <3>1 DEF remove_entry
      <4>4. QED
        BY <4>2, <4>3 DEF Journaled
    <3>2. CASE journal_fault
      BY <3>2 DEF journal_fault, Journaled
    <3>3. QED
      BY <1>6, <3>1, <3>2 DEF purge
  <2>3. ASSUME NEW b \in Batches PROVE place(b)' = place(b)
    <3>1. CASE b = job.batch
      BY <2>1, <3>1 DEF place, Stored, Range
    <3>2. CASE b # job.batch
      BY <1>a, <2>1, <2>2, <3>2, SamePlace DEF Stored, Held, Range
    <3>3. QED
      BY <3>1, <3>2
  <2>4. CASE faults' = faults
    BY <1>s, <2>1, <2>3, <2>4
  <2>5. CASE journal_fault
    <3>1. crashes' + faults' = crashes + faults + 1
      BY <2>1, <2>5 DEF journal_fault, TypeOK
    <3>2. {} \in SUBSET Batches /\ {} \subseteq Range(channel) \cup {job.batch}
      OBVIOUS
    <3>3. QED
      BY <2>1, <2>3, <3>1, <3>2, PromiseMishap
  <2>6. QED
    BY <1>6, <2>4, <2>5 DEF purge, remove_entry
<1>7. CASE append
  <2>1. /\ UNCHANGED <<channel, events, llm, accepted, dropped, refused, crashes, outages, misread>>
        /\ job'.batch = NoBatch /\ job.from = "channel"
    BY <1>7, <1>b DEF append, dvars
  <2>2. /\ job.batch \in Batches /\ job.batch \notin Journaled /\ job.batch \notin Range(channel)
        /\ job.batch \in Range(accepted) /\ job.batch \notin dropped
    BY <2>1, OnePlace, InHand DEF OrderInv, PlaceInv, Held
  <2>c. PICK c \in Batches : c = job.batch
    BY <2>2
  <2>3. CASE insert_entry(c)
    <3>1. /\ journal \subseteq journal' /\ [seq |-> next_seq, batch |-> c] \in journal'
          /\ \A e \in journal' : e \in journal \/ e.batch = c
      BY <2>3 DEF insert_entry, SeqInv, TypeOK, Entry
    <3>2. Journaled' = Journaled \cup {c} /\ faults' = faults
      BY <2>3, <3>1 DEF Journaled, insert_entry
    <3>3. \A b \in Batches : b # c => place(b)' = place(b)
      BY <1>a, <2>1, <2>c, <3>2, SamePlace DEF Stored, Held, Range
    <3>4. CASE Stored(c)
      <4>1. place(c)' = place(c)
        BY <2>1, <2>2, <2>c, <3>4 DEF place, Stored, Range
      <4>2. QED
        BY <1>s, <2>1, <2>c, <3>2, <3>3, <4>1
    <3>5. CASE ~Stored(c)
      <4>1. place(c) = "queued"
        BY <2>2, <2>c, <3>5 DEF place, Held
      <4>2. place(c)' = "journaled"
        BY <2>1, <2>2, <2>c, <3>2, <3>5 DEF place, Stored, Range
      <4>3. Promise!Journal(c)
        BY <2>1, <2>2, <2>c, <3>2, <3>3, <4>1, <4>2, PromiseMove DEF Promise!Journal, Promise!Move, Promise!avars
      <4>4. QED
        BY <2>2, <2>c, <4>3 DEF Promise!PNext
    <3>6. QED
      BY <3>4, <3>5
  <2>4. CASE journal_fault
    <3>1. /\ Journaled' = Journaled
          /\ crashes' + faults' = crashes + faults + 1
      BY <2>1, <2>c, <2>4 DEF journal_fault, Journaled, TypeOK
    <3>2. \A b \in Batches : b # c => place(b)' = place(b)
      BY <1>a, <2>1, <2>c, <3>1, SamePlace DEF Stored, Held, Range
    <3>3. CASE Stored(c)
      <4>1. place(c)' = place(c)
        BY <2>1, <2>2, <2>c, <3>3 DEF place, Stored, Range
      <4>2. {} \in SUBSET Batches /\ {} \subseteq Range(channel) \cup {c}
        OBVIOUS
      <4>3. QED
        BY <2>1, <2>c, <3>1, <3>2, <4>1, <4>2, PromiseMishap
    <3>4. CASE ~Stored(c)
      <4>1. place(c) = "queued"
        BY <2>2, <2>c, <3>4 DEF place, Held
      <4>2. place(c)' = "lost"
        BY <1>a, <2>1, <2>2, <2>c, <3>1, <3>4 DEF place, Stored, Held, Range
      <4>3. {c} \in SUBSET Batches /\ {c} \subseteq Range(channel) \cup {c}
        BY <2>2, <2>c
      <4>4. QED
        BY <2>1, <2>c, <3>1, <3>2, <4>1, <4>2, <4>3, PromiseMishap
    <3>5. QED
      BY <3>3, <3>4
  <2>5. QED
    BY <1>7, <2>c, <2>3, <2>4 DEF append
<1>8. CASE loop_settle
  <2>1. /\ UNCHANGED <<channel, journal, events, llm, accepted, refused, crashes, faults, outages, misread>>
        /\ job'.batch = NoBatch /\ job.from = "channel"
        /\ dropped' = IF job.at = "rejected" THEN dropped \cup {job.batch} ELSE dropped
        /\ job.at \in {"ok", "rejected"}
    BY <1>8, <1>b DEF loop_settle, jvars, dvars, evars
  <2>2. /\ job.batch \in Batches /\ job.batch \notin Journaled /\ job.batch \notin Range(channel)
        /\ job.batch \in Range(accepted)
    BY <2>1, OnePlace, InHand DEF OrderInv
  <2>c. PICK c \in Batches : c = job.batch
    BY <2>2
  <2>3. \A b \in Batches : b # c => place(b)' = place(b)
    BY <1>a, <2>1, <2>c, SamePlace DEF Stored, Journaled, Held, Range
  <2>4. CASE Stored(c)
    <3>1. place(c)' = place(c)
      BY <2>1, <2>2, <2>c, <2>4 DEF place, Stored, Range
    <3>2. QED
      BY <1>s, <2>1, <2>c, <2>3, <3>1
  <2>5. CASE ~Stored(c)
    <3>1. job.at = "rejected" /\ (c \in refused \/ \E m \in misread : m.batch = c) /\ c \in dropped'
      BY <2>1, <2>c, <2>5 DEF JobInv, Excused, Stored
    <3>2. place(c) = "queued"
      BY <2>2, <2>c, <2>5 DEF place, Held
    <3>3. place(c)' = "dropped"
      BY <1>a, <2>1, <2>2, <2>c, <2>5, <3>1 DEF place, Stored, Journaled, Held, Range
    <3>4. Promise!Drop(c)
      BY <2>1, <2>2, <2>c, <2>3, <3>1, <3>2, <3>3, PromiseMove DEF Promise!Drop, Promise!Move, Promise!avars
    <3>5. QED
      BY <2>2, <2>c, <3>4 DEF Promise!PNext
  <2>6. QED
    BY <2>4, <2>5
<1>9. CASE crash
  <2>1. /\ UNCHANGED <<journal, events, llm, accepted, dropped, refused, faults, outages, misread>>
        /\ job'.batch = NoBatch /\ channel' = <<>> /\ crashes' = crashes + 1
    BY <1>9, <1>b DEF crash, jvars, dvars
  <2> DEFINE S == {b \in Batches : place(b) = "queued"}
  <2>2. /\ S \in SUBSET Batches /\ S \subseteq Range(channel) \cup {job.batch}
    BY DEF place, Held
  <2>3. \A b \in Batches : ~Held(b)'
    BY <1>a, <2>1 DEF Held, Range
  <2>4. \A b \in S : place(b)' = "lost"
    BY <2>1, <2>3 DEF place, Stored, Journaled, Range, PlaceInv
  <2>5. \A b \in Batches \ S : place(b)' = place(b)
    BY <2>1, <2>3 DEF place, Stored, Journaled, Range
  <2>6. crashes' + faults' = crashes + faults + 1
    BY <2>1 DEF TypeOK
  <2>7. \A b \in S : place(b) = "queued"
    OBVIOUS
  <2> HIDE DEF S
  <2>8. Promise!PNext
    BY <2>1, <2>2, <2>4, <2>5, <2>6, <2>7, PromiseMishap
  <2>9. QED
    BY <2>8
<1>10. CASE Pipeline
  <2>1. /\ UNCHANGED <<channel, journal, accepted, dropped, refused, crashes, faults, outages>>
        /\ job'.batch = job.batch /\ job.from # "none" /\ job.batch \in Batches
        /\ events \subseteq events' /\ \A b \in Batches : llm'[b] >= llm[b]
        /\ llm \in [Batches -> Nat] /\ llm' \in [Batches -> Nat]
    BY <1>10, PipelineMoves DEF jvars, evars, TypeOK
  <2>2. \A b \in Batches : b # job.batch => (Stored(b)' <=> Stored(b))
    BY <1>10, <2>1 DEF Pipeline, lookup_public_key, verify_and_mint, insert_trace_events_batch,
                       insert_trace_llm_calls_batch, Stored, dvars
  <2>3. \A b \in Batches : b # job.batch => place(b)' = place(b)
    BY <2>1, <2>2, SamePlace DEF Journaled, Held, Range
  <2>4. Stored(job.batch) => Stored(job.batch)'
    BY <2>1 DEF Stored
  <2>5. CASE Stored(job.batch)' <=> Stored(job.batch)
    <3>1. place(job.batch)' = place(job.batch)
      BY <2>1, <2>5 DEF place, Journaled, Held, Range
    <3>2. CASE misread' = misread
      BY <1>s, <2>1, <2>3, <3>1, <3>2
    <3>3. CASE misread' # misread
      <4>1. /\ job.at = "pqc" /\ ~up
            /\ misread' = misread \cup {[outage |-> outages, batch |-> job.batch]}
        BY <1>10, <3>3 DEF Pipeline, lookup_public_key, verify_and_mint, At,
                           insert_trace_events_batch, insert_trace_llm_calls_batch, hvars
      <4>2. outages > 0 /\ \A m \in misread : m.outage # outages
        BY <4>1 DEF MisreadInv
      <4>3. \A b \in Batches : place(b)' = place(b)
        BY <2>1, <2>3, <3>1
      <4>4. abstract_state' = abstract_state /\ crashes' + faults' = crashes + faults
        BY <2>1, <4>3 DEF abstract_state
      <4>5. PICK c \in Batches : c = job.batch
        BY <2>1
      <4>6. Promise!Misread(c)
        BY <2>1, <4>1, <4>2, <4>4, <4>5 DEF Promise!Misread
      <4>7. QED
        BY <4>5, <4>6 DEF Promise!PNext
    <3>4. QED
      BY <3>2, <3>3
  <2>6. CASE ~Stored(job.batch) /\ Stored(job.batch)'
    <3>0. misread' = misread
      <4>1. ~verify_and_mint
        BY <2>1, <2>6 DEF verify_and_mint, Stored
      <4>2. QED
        BY <1>10, <4>1 DEF Pipeline, lookup_public_key, insert_trace_events_batch,
                           insert_trace_llm_calls_batch, hvars
    <3>1. job.batch \in Range(accepted)
      BY <2>1, HandAccepted
    <3>2. place(job.batch) \in {"queued", "journaled"}
      BY <2>6, <3>1 DEF place, Held
    <3>3. place(job.batch)' = "stored"
      BY <2>1, <2>6, <3>1 DEF place, Range
    <3>4. Promise!Store(job.batch)
      BY <2>1, <2>3, <3>0, <3>2, <3>3, PromiseMove DEF Promise!Store, Promise!Move, Promise!avars
    <3>5. QED
      BY <2>1, <3>4 DEF Promise!PNext
  <2>7. QED
    BY <2>4, <2>5, <2>6
<1>11. CASE UNCHANGED <<channel, job, journal, events, llm, accepted, dropped, refused, crashes, faults, outages, misread>>
  <2>1. \A b \in Batches : place(b)' = place(b)
    BY <1>11 DEF place, Stored, Journaled, Held, Range
  <2>2. QED
    BY <1>s, <1>11, <2>1
<1>o. CASE outage
  <2>1. /\ UNCHANGED <<channel, job, journal, events, llm, accepted, dropped, refused, crashes, faults, misread>>
        /\ outages' = outages + 1
    BY <1>o DEF outage, pvars, jvars, dvars, hvars
  <2>2. \A b \in Batches : place(b)' = place(b)
    BY <2>1 DEF place, Stored, Journaled, Held, Range
  <2>3. Promise!Outage
    BY <2>1, <2>2 DEF Promise!Outage, abstract_state
  <2>4. QED
    BY <2>3 DEF Promise!PNext
<1>r. CASE replay_read_fails
  <2>1. /\ UNCHANGED <<channel, job, journal, events, llm, accepted, dropped, refused, crashes, outages, misread>>
        /\ faults' = faults + 1
    BY <1>r DEF replay_read_fails, journal_fault, dvars, hvars
  <2>2. \A b \in Batches : place(b)' = place(b)
    BY <2>1 DEF place, Stored, Journaled, Held, Range
  <2>3. crashes' + faults' = crashes + faults + 1
    BY <2>1 DEF TypeOK
  <2>4. {} \in SUBSET Batches /\ {} \subseteq Range(channel) \cup {job.batch}
    OBVIOUS
  <2>5. QED
    BY <2>1, <2>2, <2>3, <2>4, PromiseMishap
<1>12. \/ \E c \in Batches : try_submit(c) \/ refuse(c)
       \/ recv \/ append \/ purge \/ replay_halt \/ loop_settle \/ replay_first \/ crash \/ Pipeline \/ outage \/ replay_read_fails
       \/ UNCHANGED <<channel, job, journal, events, llm, accepted, dropped, refused, crashes, faults, outages, misread>>
  BY DEF Next, PersisterStep, Pipeline, vars, pvars, jvars, dvars, hvars, evars, drop_handles,
         shutdown_with_timeout, replay_done, exit, spawn_persister, recover
<1>13. QED
  BY <1>1, <1>2, <1>3, <1>4, <1>5, <1>6, <1>7, <1>8, <1>9, <1>10, <1>11, <1>o, <1>r, <1>12

\* A new deployment has promised nothing.
LEMMA InitHonours == Init => PlaceInv /\ Promise!PInit
<1> SUFFICES ASSUME Init PROVE PlaceInv /\ Promise!PInit
  OBVIOUS
<1>1. accepted = <<>> /\ Range(accepted) = {}
  BY DEF Init, Range
<1>2. PlaceInv
  BY <1>1 DEF Init, PlaceInv, Stored
<1>3. \A b \in Batches : place(b) = "offered"
  BY <1>1 DEF place
<1>4. crashes + faults = 0 /\ outages = 0 /\ misread = {} /\ refused \in SUBSET Batches
  BY DEF Init
<1>5. Promise!PInit
  BY <1>3, <1>4 DEF Promise!PInit, abstract_state
<1>6. QED
  BY <1>2, <1>5

\* The LLM-call rows of a batch are written at most once more than there were
\* crashes and failed journal transactions, however often the process restarts.
THEOREM CallsAreBounded == Spec => []CallsRepeatOnlyByMishap
<1>1. Init => CallsInv
  <2>1. SUFFICES ASSUME Init PROVE CallsInv
    OBVIOUS
  <2>2. \A b \in Batches : llm[b] = 0
    BY <2>1 DEF Init
  <2>3. crashes + faults = 0
    BY <2>1 DEF Init
  <2>4. QED
    BY <2>2, <2>3 DEF CallsInv
<1>2. JournalInv /\ PlaceInv /\ [Next]_vars => PlaceInv'
  BY PlaceStep
<1>3. JournalInv /\ PlaceInv /\ CallsInv /\ [Next]_vars => CallsInv'
  BY CallsStep
<1>4. JournalInv /\ CallsInv => CallsRepeatOnlyByMishap
  <2>1. SUFFICES ASSUME TypeOK, CallsInv, NEW b \in Batches PROVE llm[b] <= 1 + crashes + faults
    BY DEF JournalInv, CallsRepeatOnlyByMishap
  <2>2. llm[b] \in Nat /\ crashes \in Nat /\ faults \in Nat
    BY <2>1 DEF TypeOK
  <2>3. QED
    BY <2>1, <2>2 DEF CallsInv
<1>5. QED
  BY <1>1, <1>2, <1>3, <1>4, InitHonours, JournalInvariant, PTL DEF Spec

\* The ingest queue implements IngestPromise: what was accepted is stored, waits,
\* was refused by the gates, was dropped because an outage hit its PQC lookup (one
\* batch an outage at most), or was lost in a mishap that took no more than the
\* channel and the task held; what was journaled is never lost.
THEOREM QueuedIsHonoured == Spec => HonoursQueued
<1>1. JournalInv /\ PlaceInv /\ [Next]_vars => PlaceInv'
  BY PlaceStep
<1>2. JournalInv /\ PlaceInv /\ [Next]_vars => [Promise!PNext]_(Promise!pvars)
  BY StepHonours
<1>3. QED
  BY <1>1, <1>2, InitHonours, JournalInvariant, PTL DEF Spec, HonoursQueued, Promise!PSpec
=============================================================================
