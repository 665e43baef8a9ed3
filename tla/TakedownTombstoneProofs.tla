---------------------- MODULE TakedownTombstoneProofs ----------------------
(***************************************************************************)
(* Proofs about TakedownTombstone, for any blobs, notices, windows, doors,  *)
(* hosts and failures.                                                      *)
(*                                                                          *)
(* TombstoneInv adds to the properties what they rest on: a header on       *)
(* record has its tombstones and nobody else's; a door carries only notices *)
(* that were read as reversed; a finalize has only such bytes behind it;    *)
(* and the verdict on a condemned chunk stays true but for what was linked  *)
(* or recorded since.  For the chunks manifests share, OrphanInv names who  *)
(* will take the chunk: of all the notices on its manifests, one that       *)
(* settles last and whose finalize has not passed the chunk.                *)
(***************************************************************************)
EXTENDS TakedownTombstone, TLAPS, WellFoundedInduction

\* The header and the tombstones of a notice are one transaction.
TombInv ==
    \A n \in Notices, b \in Blobs :
        <<n, b>> \in tombs <=> headers[n].pc # "none" /\ b \in Records[n]

DoorInv == \A d \in Doors : door[d].floor \subseteq lifted

\* A finalize under way: what it has passed is gone, or was read as reversed.
BehindGone(k) ==
    k.pc = "finalize" =>
        /\ headers[k.notice].pc # "none"
        /\ k.reversed => k.notice \in lifted
        /\ \A b \in Records[k.notice] \ k.todo : b \in blobs => k.notice \in lifted

\* A finalize under way: its window is over, and so are those that keep the
\* condemned chunk.
WindowOver(k) ==
    /\ k.pc = "finalize" => k.clock <= now /\ SettledAt(k.notice, now)
    /\ k.condemned # None =>
          \A m \in Parents(k.condemned, links) \ (raced \cup {k.root}) :
              NoticesOf(m) # {} /\ \A n \in NoticesOf(m) \ raced : SettledAt(n, now)

CallInv == \A h \in Hosts : BehindGone(call[h]) /\ WindowOver(call[h])

\* A finalized notice has waited out its window.
FinalizedSettled ==
    \A n \in Notices : headers[n].pc = "finalized" => SettledAt(n, now)

TombstoneInv ==
    TypeOK /\ TombInv /\ DoorInv /\ CallInv /\ FinalizedSettled /\ FinalizedBytesGone

USE TombstoneAssumption

-----------------------------------------------------------------------------
\* A dwell is a number of seconds.
LEMMA DwellType == \A n \in Notices : Dwell(n) \in Nat
BY DEF Dwell, Bases

\* The idle call is a call.
LEMMA IdleCallType == IdleCall \in Call
BY DEF IdleCall, Call

\* A window that is over stays over while the header is kept and time passes.
LEMMA SettledMono ==
    ASSUME TypeOK, NEW n \in Notices, SettledAt(n, now),
           headers'[n].at = headers[n].at, headers'[n].pc # "none",
           now' \in Nat, now <= now'
    PROVE  SettledAt(n, now)'
<1>1. headers[n].at \in Nat /\ Dwell(n) \in Nat /\ now \in Nat
  BY DwellType DEF TypeOK, Header
<1>2. Dwell(n)' = Dwell(n)
  BY DEF Dwell
<1> QED BY <1>1, <1>2 DEF SettledAt, Held

\* The empty start satisfies the invariant.
LEMMA InitInv == Init => TombstoneInv
<1> SUFFICES ASSUME Init PROVE TombstoneInv
  OBVIOUS
<1> USE DEF Init
<1>1. TypeOK
  <2>1. headers \in [Notices -> Header]
    BY DEF Header
  <2>2. door \in [Doors -> Door]
    BY DEF IdleDoor, Door
  <2>3. call \in [Hosts -> Call]
    BY IdleCallType
  <2>4. 0 \in 0..MaxTime /\ 0 \in 0..MaxFaults
    OBVIOUS
  <2>5. \A h \in Hosts : call[h].pc = "idle" /\ call[h].condemned = None
    BY DEF IdleCall
  <2> QED BY <2>1, <2>2, <2>3, <2>4, <2>5 DEF TypeOK
<1>2. TombInv /\ FinalizedSettled /\ FinalizedBytesGone
  BY DEF TombInv, FinalizedSettled, FinalizedBytesGone
<1>3. DoorInv
  BY DEF DoorInv, IdleDoor
<1>4. CallInv
  BY DEF CallInv, BehindGone, WindowOver, IdleCall
<1> QED BY <1>1, <1>2, <1>3, <1>4 DEF TombstoneInv

-----------------------------------------------------------------------------
\* The pre-read of a byte write carries only reversed notices.
LEMMA PutBegin ==
    ASSUME NEW d \in Doors, NEW s \in Batches, TombstoneInv, put_begin(d, s)
    PROVE  TombstoneInv'
<1> USE DEF TombstoneInv
<1>0. s \subseteq Blobs
  BY DEF Batches, Blobs
<1> DEFINE floor == UNION {NoticesOf(b) : b \in s}
<1>1. floor \subseteq Notices /\ ReversedOn(s) \subseteq Notices
  <2>1. \A b : NoticesOf(b) \subseteq Notices
    BY DEF NoticesOf
  <2>2. ReversedOn(s) \subseteq reversals /\ reversals \subseteq Notices
    BY DEF ReversedOn, TypeOK
  <2> QED BY <2>1, <2>2
<1>2. door' = [door EXCEPT ![d] = [put |-> s, floor |-> floor]] /\ lifted' = lifted \cup ReversedOn(s)
  BY DEF put_begin
<1>3. UNCHANGED <<blobs, links, headers, tombs, reversals, now, call, late, raced, faults>>
  BY DEF put_begin
<1>4. TypeOK'
  <2>1. [put |-> s, floor |-> floor] \in Door
    BY <1>0, <1>1 DEF Door
  <2>2. door' \in [Doors -> Door]
    BY <2>1, <1>2 DEF TypeOK
  <2> QED BY <2>2, <1>1, <1>2, <1>3 DEF TypeOK
<1>5. DoorInv'
  <2>1. \A b \in s : NoticesOf(b) \subseteq reversals
    BY DEF put_begin, Withheld, Standing
  <2>2. floor \subseteq ReversedOn(s)
    BY <2>1 DEF ReversedOn
  <2>3. \A e \in Doors : door'[e].floor = IF e = d THEN floor ELSE door[e].floor
    BY <1>2 DEF TypeOK
  <2> QED BY <2>2, <2>3, <1>2 DEF DoorInv
<1>6. TombInv' /\ FinalizedSettled' /\ FinalizedBytesGone'
  BY <1>2, <1>3 DEF TombInv, FinalizedSettled, FinalizedBytesGone, SettledAt, Held, Dwell
<1>7. CallInv'
  BY <1>2, <1>3 DEF CallInv, BehindGone, WindowOver, SettledAt, Held, Dwell, Parents, NoticesOf
<1> QED BY <1>4, <1>5, <1>6, <1>7

-----------------------------------------------------------------------------
\* The transaction of a byte write asks again, so what it adds is named by no
\* notice but reversed ones; a manifest it links beside a condemned chunk is
\* noted.
LEMMA PutCommit ==
    ASSUME NEW d \in Doors, TombstoneInv, put_commit(d)
    PROVE  TombstoneInv'
<1> USE DEF TombstoneInv
<1> DEFINE s == door[d].put
           added == {m \in (s \cap Manifests) \ links :
                        \E h \in Hosts : call[h].condemned \in Of[m]}
<1>0. s \subseteq Blobs /\ door[d].floor \subseteq lifted
  BY DEF TypeOK, Door, DoorInv
<1>1. /\ blobs' = blobs \cup s /\ links' = links \cup (s \cap Manifests)
      /\ late' \subseteq late \cup (s \cap Chunks)
      /\ raced' = raced \cup added
      /\ door' = [door EXCEPT ![d] = IdleDoor]
      /\ \A b \in s : NoticesOf(b) \subseteq door[d].floor
  BY DEF put_commit, linked, admitted_at_write
<1>2. UNCHANGED <<headers, tombs, reversals, now, call, lifted, faults>>
  BY DEF put_commit
<1>3. TypeOK'
  <2>1. IdleDoor \in Door
    BY DEF IdleDoor, Door
  <2>2. door' \in [Doors -> Door]
    BY <2>1, <1>1 DEF TypeOK
  <2>3. late' \subseteq Chunks /\ raced' \subseteq Manifests \cup Notices
    BY <1>1 DEF TypeOK
  <2> QED BY <2>2, <2>3, <1>0, <1>1, <1>2 DEF TypeOK
<1>4. DoorInv'
  <2>1. \A e \in Doors : door'[e].floor = IF e = d THEN {} ELSE door[e].floor
    BY <1>1 DEF TypeOK, IdleDoor
  <2> QED BY <2>1, <1>2 DEF DoorInv
<1>5. TombInv' /\ FinalizedSettled'
  BY <1>2 DEF TombInv, FinalizedSettled, SettledAt, Held, Dwell
<1>6. \A n \in Notices : headers[n].pc # "none" => \A b \in Records[n] \cap s : n \in lifted
  BY <1>0, <1>1 DEF TombInv, NoticesOf
<1>7. FinalizedBytesGone'
  BY <1>1, <1>2, <1>6 DEF FinalizedBytesGone
<1>8. CallInv'
  <2> SUFFICES ASSUME NEW h \in Hosts PROVE BehindGone(call[h])' /\ WindowOver(call[h])'
    BY DEF CallInv
  <2>1. BehindGone(call[h]) /\ WindowOver(call[h]) /\ call'[h] = call[h]
    BY <1>2 DEF CallInv
  <2>2. call[h].pc = "finalize" => call[h].notice \in Notices
    BY DEF TypeOK, Call
  <2>3. BehindGone(call[h])'
    BY <2>1, <2>2, <1>1, <1>2, <1>6 DEF BehindGone
  <2>4. WindowOver(call[h])'
    <3>1. ASSUME call[h].condemned # None,
                 NEW m \in Parents(call[h].condemned, links)', m \notin raced'
          PROVE  m \in Parents(call[h].condemned, links) /\ m \notin raced
      <4>1. call[h].condemned \in Of[m] /\ m \in links'
        BY <3>1, <1>2 DEF Parents
      <4>2. m \in links
        BY <4>1, <3>1, <1>1
      <4> QED BY <4>1, <4>2, <3>1, <1>1 DEF Parents
    <3>2. raced \subseteq raced'
      BY <1>1
    <3>3. \A m : NoticesOf(m)' = NoticesOf(m)
      BY <1>2 DEF NoticesOf
    <3>4. \A n \in Notices : SettledAt(n, now)' <=> SettledAt(n, now)
      BY <1>2 DEF SettledAt, Held, Dwell
    <3>5. \A m : NoticesOf(m) \subseteq Notices
      BY DEF NoticesOf
    <3> QED BY <2>1, <2>2, <3>1, <3>2, <3>3, <3>4, <3>5, <1>2 DEF WindowOver
  <2> QED BY <2>3, <2>4
<1> QED BY <1>3, <1>4, <1>5, <1>7, <1>8

\* A refused or abandoned write changes nothing but the door.
LEMMA PutEnd ==
    ASSUME NEW d \in Doors, TombstoneInv, put_end(d)
    PROVE  TombstoneInv'
<1> USE DEF TombstoneInv
<1>1. door' = [door EXCEPT ![d] = IdleDoor] /\ IdleDoor \in Door
  BY DEF put_end, IdleDoor, Door
<1>2. UNCHANGED <<blobs, links, headers, tombs, reversals, now, call, lifted, late, raced, faults>>
  BY DEF put_end
<1>3. TypeOK'
  <2>1. door' \in [Doors -> Door]
    BY <1>1 DEF TypeOK
  <2> QED BY <2>1, <1>2 DEF TypeOK
<1>4. DoorInv'
  <2>1. \A e \in Doors : door'[e].floor = IF e = d THEN {} ELSE door[e].floor
    BY <1>1 DEF TypeOK, IdleDoor
  <2> QED BY <2>1, <1>2 DEF DoorInv
<1>5. TombInv' /\ FinalizedSettled' /\ FinalizedBytesGone'
  BY <1>2 DEF TombInv, FinalizedSettled, FinalizedBytesGone, SettledAt, Held, Dwell
<1>6. CallInv'
  <2>1. \A h \in Hosts : BehindGone(call[h])' <=> BehindGone(call[h])
    BY <1>2 DEF BehindGone
  <2>2. \A h \in Hosts : WindowOver(call[h])' <=> WindowOver(call[h])
    BY <1>2 DEF WindowOver, SettledAt, Held, Dwell, Parents, NoticesOf
  <2> QED BY <2>1, <2>2, <1>2 DEF CallInv
<1> QED BY <1>3, <1>4, <1>5, <1>6

-----------------------------------------------------------------------------
\* Recording a notice writes its header and tombstones together; recorded
\* beside a condemned chunk of one of its manifests, it is noted.
LEMMA ExecuteNotice ==
    ASSUME NEW h \in Hosts, NEW n \in Notices, TombstoneInv, execute_notice(h, n)
    PROVE  TombstoneInv'
<1> USE DEF TombstoneInv
<1>1. /\ headers' = [headers EXCEPT ![n] =
                       IF headers[n].pc # "none" THEN @ ELSE [pc |-> "executed", at |-> now]]
      /\ tombs' = tombs \cup {<<n, b>> : b \in Records[n]}
      /\ raced' = IF headers[n].pc = "none" /\ \E g \in Hosts, m \in Records[n] \cap Manifests :
                                                  call[g].condemned \in Of[m]
                  THEN raced \cup {n} ELSE raced
      /\ headers[n].pc # "finalized"
  BY DEF execute_notice, purge_put_execution, Held
<1>2. UNCHANGED <<blobs, links, reversals, now, door, lifted, late, faults>>
  BY DEF execute_notice
<1> DEFINE v == [IdleCall EXCEPT !.pc = "recorded", !.notice = n]
<1>3. call' = call \/ call' = [call EXCEPT ![h] = v]
  BY DEF execute_notice
<1>4. v \in Call /\ v.pc = "recorded" /\ v.notice = n /\ v.condemned = None
  BY DEF IdleCall, Call
<1>5. \A g \in Hosts : call'[g] = call[g] \/ call'[g] = v
  BY <1>3 DEF TypeOK
<1>6. \A k \in Notices : /\ headers[k].pc # "none" => headers'[k] = headers[k]
                         /\ headers'[k].pc # "none" <=> headers[k].pc # "none" \/ k = n
                         /\ headers'[k].pc = "finalized" <=> headers[k].pc = "finalized"
  BY <1>1 DEF TypeOK, Header
<1>7. TypeOK'
  <2>1. headers' \in [Notices -> Header]
    <3>1. [pc |-> "executed", at |-> now] \in Header
      BY DEF Header, TypeOK
    <3> QED BY <3>1, <1>1 DEF TypeOK
  <2>2. tombs' \subseteq Notices \X Blobs
    BY <1>1 DEF TypeOK
  <2>3. call' \in [Hosts -> Call]
    BY <1>3, <1>4 DEF TypeOK
  <2>4. \A g \in Hosts : /\ call'[g].pc # "idle" => call'[g].notice # None
                         /\ call'[g].condemned # None => call'[g].condemned \in call'[g].left
    BY <1>4, <1>5 DEF TypeOK
  <2>5. raced' \subseteq Manifests \cup Notices
    BY <1>1 DEF TypeOK
  <2> QED BY <2>1, <2>2, <2>3, <2>4, <2>5, <1>2 DEF TypeOK
<1>8. TombInv'
  BY <1>1, <1>6 DEF TombInv
<1>9. DoorInv' /\ FinalizedBytesGone'
  BY <1>2, <1>6 DEF DoorInv, FinalizedBytesGone
<1>10. \A k \in Notices : SettledAt(k, now) => SettledAt(k, now)'
  BY <1>2, <1>6 DEF SettledAt, Held, Dwell
<1>11. FinalizedSettled'
  BY <1>6, <1>10 DEF FinalizedSettled
<1>12. CallInv'
  <2> SUFFICES ASSUME NEW g \in Hosts PROVE BehindGone(call[g])' /\ WindowOver(call[g])'
    BY DEF CallInv
  <2>1. CASE call'[g] = v
    BY <2>1, <1>4 DEF BehindGone, WindowOver
  <2>2. CASE call'[g] = call[g]
    <3>1. BehindGone(call[g]) /\ WindowOver(call[g])
      BY DEF CallInv
    <3>2. call[g].pc = "finalize" => call[g].notice \in Notices
      BY DEF TypeOK, Call
    <3>3. BehindGone(call[g])'
      BY <2>2, <3>1, <3>2, <1>2, <1>6 DEF BehindGone
    <3>4. ASSUME call[g].condemned # None,
                 NEW m \in Parents(call[g].condemned, links), m \notin raced', m # call[g].root
          PROVE  NoticesOf(m)' # {} /\ \A k \in NoticesOf(m)' \ raced' : SettledAt(k, now)'
      <4>1. m \in Manifests /\ call[g].condemned \in Of[m]
        BY DEF Parents, TypeOK
      <4>2. raced \subseteq raced' /\ NoticesOf(m) \subseteq NoticesOf(m)'
        BY <1>1 DEF NoticesOf
      <4>3. NoticesOf(m)' \ raced' \subseteq NoticesOf(m) \ raced
        <5> SUFFICES ASSUME NEW k \in NoticesOf(m)', k \notin raced' PROVE k \in NoticesOf(m)
          BY <4>2
        <5>1. k \in Notices /\ <<k, m>> \in tombs'
          BY DEF NoticesOf
        <5>2. CASE <<k, m>> \in tombs
          BY <5>1, <5>2 DEF NoticesOf
        <5>3. CASE <<k, m>> \notin tombs
          <6>1. k = n /\ m \in Records[n]
            BY <5>1, <5>3, <1>1
          <6>2. headers[n].pc = "none"
            BY <6>1, <5>3, <4>1 DEF TombInv, Blobs
          <6> QED BY <6>1, <6>2, <4>1, <1>1
        <5> QED BY <5>2, <5>3
      <4>4. NoticesOf(m) # {} /\ \A k \in NoticesOf(m) \ raced : SettledAt(k, now)
        BY <3>1, <3>4, <4>2 DEF WindowOver
      <4> QED BY <4>2, <4>3, <4>4, <1>10 DEF NoticesOf
    <3>5. WindowOver(call[g])'
      BY <2>2, <3>1, <3>2, <3>4, <1>2, <1>10 DEF WindowOver, Parents
    <3> QED BY <3>3, <3>5
  <2> QED BY <2>1, <2>2, <1>5
<1> QED BY <1>7, <1>8, <1>9, <1>11, <1>12
-----------------------------------------------------------------------------
\* A host's step that writes no tombstone and adds no bytes: only its own call
\* has to be looked at.
LEMMA HostStep ==
    ASSUME TombstoneInv, NEW h \in Hosts,
           call'[h] \in Call, call' = [call EXCEPT ![h] = call'[h]],
           call'[h].pc # "idle" => call'[h].notice # None,
           call'[h].condemned # None => call'[h].condemned \in call'[h].left,
           BehindGone(call[h])', WindowOver(call[h])',
           blobs' \subseteq blobs, late' \subseteq late,
           lifted \subseteq lifted', lifted' \subseteq Notices, faults' \in 0..MaxFaults,
           UNCHANGED <<links, headers, tombs, reversals, now, door, raced>>
    PROVE  TombstoneInv'
<1> USE DEF TombstoneInv
<1>1. \A g \in Hosts : g # h => call'[g] = call[g]
  BY DEF TypeOK
<1>2. TypeOK'
  <2>1. call' \in [Hosts -> Call]
    BY DEF TypeOK
  <2>2. \A g \in Hosts : /\ call'[g].pc # "idle" => call'[g].notice # None
                         /\ call'[g].condemned # None => call'[g].condemned \in call'[g].left
    BY <1>1 DEF TypeOK
  <2> QED BY <2>1, <2>2 DEF TypeOK
<1>3. TombInv' /\ DoorInv' /\ FinalizedSettled' /\ FinalizedBytesGone'
  BY DEF TombInv, DoorInv, FinalizedSettled, FinalizedBytesGone, SettledAt, Held, Dwell
<1>4. CallInv'
  <2> SUFFICES ASSUME NEW g \in Hosts, g # h PROVE BehindGone(call[g])' /\ WindowOver(call[g])'
    BY DEF CallInv
  <2>1. BehindGone(call[g]) /\ WindowOver(call[g]) /\ call'[g] = call[g]
    BY <1>1 DEF CallInv
  <2>2. BehindGone(call[g])'
    BY <2>1 DEF BehindGone
  <2>3. WindowOver(call[g])'
    <3>1. \A n : SettledAt(n, now)' <=> SettledAt(n, now)
      BY DEF SettledAt, Held, Dwell
    <3>2. \A m : NoticesOf(m)' = NoticesOf(m)
      BY DEF NoticesOf
    <3>3. Parents(call[g].condemned, links)' = Parents(call[g].condemned, links)
      BY <2>1 DEF Parents
    <3> QED BY <2>1, <3>1, <3>2, <3>3 DEF WindowOver
  <2> QED BY <2>2, <2>3
<1> QED BY <1>2, <1>3, <1>4

\* A call that ends, by a failure or because the notice is finalized already.
LEMMA CallEnds ==
    ASSUME NEW h \in Hosts, TombstoneInv, finalize_already(h) \/ call_fails(h)
    PROVE  TombstoneInv'
<1>1. call' = [call EXCEPT ![h] = IdleCall] /\ call'[h] = IdleCall
  BY DEF finalize_already, call_fails, TombstoneInv, TypeOK
<1>2. UNCHANGED <<blobs, links, headers, tombs, reversals, now, door, lifted, late, raced>>
  BY DEF finalize_already, call_fails
<1>3. faults' \in 0..MaxFaults /\ lifted \subseteq Notices
  BY DEF finalize_already, call_fails, TombstoneInv, TypeOK
<1>4. IdleCall.pc = "idle" /\ IdleCall.condemned = None
  BY DEF IdleCall
<1>5. BehindGone(call[h])' /\ WindowOver(call[h])'
  BY <1>1, <1>4 DEF BehindGone, WindowOver
<1> QED BY <1>1, <1>2, <1>3, <1>4, <1>5, IdleCallType, HostStep

\* A finalize starts with every record ahead of it and its window over.
LEMMA FinalizeBegin ==
    ASSUME NEW h \in Hosts, NEW n \in Notices, TombstoneInv, finalize_begin(h, n)
    PROVE  TombstoneInv'
<1> USE DEF TombstoneInv
<1> DEFINE v == [IdleCall EXCEPT !.pc = "finalize", !.notice = n,
                                 !.reversed = n \in reversals, !.clock = now,
                                 !.todo = {b \in Blobs : <<n, b>> \in tombs}]
<1>1. call' = [call EXCEPT ![h] = v] /\ call'[h] = v
  BY DEF finalize_begin, TypeOK
<1>2. /\ v \in Call /\ v.pc = "finalize" /\ v.notice = n /\ v.condemned = None /\ v.clock = now
      /\ n \notin reversals => v.reversed = FALSE
      /\ v.todo = {b \in Blobs : <<n, b>> \in tombs}
  <2> DEFINE T == {b \in Blobs : <<n, b>> \in tombs}
  <2>0. now \in Nat /\ T \subseteq Blobs
    BY DEF TypeOK
  <2> HIDE DEF T
  <2>1. CASE n \in reversals
    <3>1. v = [IdleCall EXCEPT !.pc = "finalize", !.notice = n, !.reversed = TRUE,
                               !.clock = now, !.todo = T]
      BY <2>1, Zenon DEF T
    <3> HIDE DEF v
    <3> QED BY <2>0, <2>1, <3>1 DEF IdleCall, Call, T
  <2>2. CASE n \notin reversals
    <3>1. v = [IdleCall EXCEPT !.pc = "finalize", !.notice = n, !.reversed = FALSE,
                               !.clock = now, !.todo = T]
      <4>1. (n \in reversals) = FALSE
        BY <2>2
      <4> QED BY <4>1, Zenon DEF T
    <3> HIDE DEF v
    <3> QED BY <2>0, <2>2, <3>1 DEF IdleCall, Call, T
  <2> QED BY <2>1, <2>2
<1> HIDE DEF v
<1>3. /\ lifted' = IF n \in reversals THEN lifted \cup {n} ELSE lifted
      /\ headers[n].pc = "executed" /\ SettledAt(n, now)
      /\ UNCHANGED <<blobs, links, headers, tombs, reversals, now, door, late, raced, faults>>
  BY DEF finalize_begin, settled
<1>4. Records[n] \subseteq v.todo
  BY <1>2, <1>3 DEF TombInv
<1>5. BehindGone(call[h])'
  <2>1. headers'[n].pc # "none" /\ call'[h].notice = n /\ Records[n] \ call'[h].todo = {}
    BY <1>1, <1>2, <1>3, <1>4
  <2>2. CASE n \in reversals
    <3>1. n \in lifted'
      BY <2>2, <1>3
    <3> QED BY <2>1, <3>1 DEF BehindGone
  <2>3. CASE n \notin reversals
    <3>1. call'[h].reversed = FALSE
      BY <2>3, <1>1, <1>2
    <3> QED BY <2>1, <3>1 DEF BehindGone
  <2> QED BY <2>2, <2>3
<1>6. now \in Nat /\ (SettledAt(n, now))'
  BY <1>3 DEF SettledAt, Held, Dwell, TypeOK
<1>7. WindowOver(call[h])'
  BY <1>1, <1>2, <1>3, <1>6 DEF WindowOver
<1>8. lifted \subseteq lifted' /\ lifted' \subseteq Notices /\ faults' \in 0..MaxFaults /\ n # None
  BY <1>3 DEF TypeOK
<1> QED BY <1>1, <1>2, <1>3, <1>5, <1>7, <1>8, HostStep

\* A record is passed over, evicted, or its chunks are walked: what a finalize
\* leaves behind is gone or was read as reversed.
LEMMA RecordStep ==
    ASSUME NEW h \in Hosts, NEW b \in Blobs, TombstoneInv,
           void_record(h, b) \/ evict_record(h, b)
    PROVE  TombstoneInv'
<1> USE DEF TombstoneInv
<1>0. /\ call[h] \in Call /\ call[h].pc = "finalize" /\ call[h].condemned = None
      /\ call[h].notice \in Notices /\ BehindGone(call[h]) /\ WindowOver(call[h])
  BY DEF TypeOK, Call, CallInv, void_record, evict_record, Between
<1>1. /\ UNCHANGED <<links, headers, tombs, reversals, now, door, lifted, raced, faults>>
      /\ blobs' \subseteq blobs /\ late' \subseteq late
  BY DEF void_record, evict_record
<1>2. /\ call'[h] \in Call /\ call' = [call EXCEPT ![h] = call'[h]]
      /\ call'[h].pc = "finalize" /\ call'[h].notice = call[h].notice
      /\ call'[h].clock = call[h].clock /\ call'[h].reversed = call[h].reversed
      /\ call'[h].todo = call[h].todo \ {b} /\ call'[h].condemned = None
  <2>1. CASE void_record(h, b)
    <3>1. call' = [call EXCEPT ![h].todo = @ \ {b}]
      BY <2>1 DEF void_record
    <3>2. call'[h] = [call[h] EXCEPT !.todo = @ \ {b}]
      BY <3>1 DEF TypeOK
    <3>3. call' = [call EXCEPT ![h] = call'[h]]
      BY <3>1, <3>2 DEF TypeOK
    <3> QED BY <3>2, <3>3, <1>0 DEF Call
  <2>2. CASE evict_record(h, b)
    <3> DEFINE L == IF b \in links THEN Of[b] ELSE {}
    <3>0. L \subseteq Chunks
      BY DEF TypeOK
    <3>1. call' = [call EXCEPT ![h].todo = @ \ {b}, ![h].root = b, ![h].left = L]
      BY <2>2 DEF evict_record
    <3> HIDE DEF L
    <3>2. call'[h] = [call[h] EXCEPT !.todo = @ \ {b}, !.root = b, !.left = L]
      BY <3>1, <1>0 DEF TypeOK
    <3>3. call' = [call EXCEPT ![h] = call'[h]]
      BY <3>1, <3>2 DEF TypeOK
    <3>4. call'[h] \in Call
      <4>1. [call[h] EXCEPT !.todo = @ \ {b}] \in Call
        BY <1>0 DEF Call
      <4>2. \A k \in Call : [k EXCEPT !.root = b, !.left = L] \in Call
        BY <3>0 DEF Call
      <4>3. call'[h] = [[call[h] EXCEPT !.todo = @ \ {b}] EXCEPT !.root = b, !.left = L]
        BY <3>2
      <4> QED BY <4>1, <4>2, <4>3
    <3>5. /\ call'[h].pc = call[h].pc /\ call'[h].notice = call[h].notice
          /\ call'[h].clock = call[h].clock /\ call'[h].condemned = call[h].condemned
          /\ call'[h].todo = call[h].todo \ {b}
      BY <3>2, <1>0 DEF Call
    <3>6. call'[h].reversed = call[h].reversed
      BY <3>2, <1>0 DEF Call
    <3> QED BY <3>3, <3>4, <3>5, <3>6, <1>0
  <2> QED BY <2>1, <2>2
<1>3. b \in blobs' => call[h].notice \in lifted
  BY <1>0 DEF void_record, evict_record, BehindGone
<1>4. BehindGone(call[h])'
  BY <1>0, <1>1, <1>2, <1>3 DEF BehindGone
<1>5. WindowOver(call[h])'
  BY <1>0, <1>1, <1>2 DEF WindowOver, SettledAt, Held, Dwell
<1>6. lifted \subseteq Notices /\ faults' \in 0..MaxFaults /\ call'[h].notice # None
  BY <1>0, <1>1, <1>2 DEF TypeOK
<1> QED BY <1>1, <1>2, <1>4, <1>5, <1>6, HostStep

\* A manifest blob_purge_settled counts as gone has notices, all settled.
LEMMA SettledParent ==
    ASSUME TombstoneInv, NEW t \in Nat, t <= now, NEW m, blob_purge_settled(m, t)
    PROVE  NoticesOf(m) # {} /\ \A n \in NoticesOf(m) : SettledAt(n, now)
<1> USE DEF TombstoneInv
<1> SUFFICES ASSUME NEW n \in NoticesOf(m) PROVE SettledAt(n, now)
  BY DEF blob_purge_settled
<1>1. n \in Notices /\ (headers[n].pc = "finalized" \/ SettledAt(n, t))
  BY DEF blob_purge_settled, NoticesOf
<1>2. CASE headers[n].pc = "finalized"
  BY <1>1, <1>2 DEF FinalizedSettled
<1>3. CASE SettledAt(n, t)
  <2>1. headers[n].at \in Nat /\ Dwell(n) \in Nat /\ now \in Nat
    BY <1>1, DwellType DEF TypeOK, Header
  <2> QED BY <1>3, <2>1 DEF SettledAt
<1> QED BY <1>1, <1>2, <1>3

\* A chunk is condemned when every other manifest of it has settled.
LEMMA JudgeChunk ==
    ASSUME NEW h \in Hosts, NEW c \in Blobs, TombstoneInv, judge_chunk(h, c)
    PROVE  TombstoneInv'
<1> USE DEF TombstoneInv
<1>0. /\ call[h] \in Call /\ call[h].pc = "finalize" /\ call[h].condemned = None
      /\ call[h].notice \in Notices /\ BehindGone(call[h]) /\ WindowOver(call[h])
      /\ c \in call[h].left /\ c \in Chunks /\ c # None
  BY DEF TypeOK, Call, CallInv, judge_chunk, Walking
<1>1. UNCHANGED <<blobs, links, headers, tombs, reversals, now, door, lifted, late, raced, faults>>
  BY DEF judge_chunk
<1>2. /\ call'[h] \in Call /\ call' = [call EXCEPT ![h] = call'[h]]
      /\ call'[h].pc = "finalize" /\ call'[h].notice = call[h].notice
      /\ call'[h].clock = call[h].clock /\ call'[h].reversed = call[h].reversed
      /\ call'[h].todo = call[h].todo /\ call'[h].root = call[h].root
      /\ \/ call'[h].condemned = None
         \/ /\ call'[h].condemned = c /\ call'[h].left = call[h].left
            /\ Orphaned(c, call[h].root, call[h].clock)
  <2>1. CASE Orphaned(c, call[h].root, call[h].clock) /\ c \in blobs
    <3>1. call' = [call EXCEPT ![h].condemned = c]
      BY <2>1 DEF judge_chunk
    <3>2. call'[h] = [call[h] EXCEPT !.condemned = c]
      BY <3>1 DEF TypeOK
    <3>3. call' = [call EXCEPT ![h] = call'[h]]
      BY <3>1, <3>2 DEF TypeOK
    <3> QED BY <2>1, <3>2, <3>3, <1>0 DEF Call
  <2>2. CASE ~(Orphaned(c, call[h].root, call[h].clock) /\ c \in blobs)
    <3>1. call' = [call EXCEPT ![h].left = @ \ {c}]
      BY <2>2 DEF judge_chunk
    <3>2. call'[h] = [call[h] EXCEPT !.left = @ \ {c}]
      BY <3>1 DEF TypeOK
    <3>3. call' = [call EXCEPT ![h] = call'[h]]
      BY <3>1, <3>2 DEF TypeOK
    <3> QED BY <3>2, <3>3, <1>0 DEF Call
  <2> QED BY <2>1, <2>2
<1>3. BehindGone(call[h])'
  BY <1>0, <1>1, <1>2 DEF BehindGone
<1>4. WindowOver(call[h])'
  <2>1. \A n : SettledAt(n, now)' <=> SettledAt(n, now)
    BY <1>1 DEF SettledAt, Held, Dwell
  <2>2. \A m : NoticesOf(m)' = NoticesOf(m)
    BY <1>1 DEF NoticesOf
  <2>3. call[h].clock \in Nat /\ call[h].clock <= now /\ SettledAt(call[h].notice, now)
    BY <1>0 DEF WindowOver, Call
  <2>4. CASE call'[h].condemned = None
    BY <2>1, <2>3, <2>4, <1>1, <1>2 DEF WindowOver
  <2>5. CASE call'[h].condemned = c /\ Orphaned(c, call[h].root, call[h].clock)
    <3>1. Parents(call[h].condemned, links)' = Parents(c, links)
      BY <2>5, <1>1 DEF Parents
    <3>2. \A m \in Parents(c, links) \ {call[h].root} :
             NoticesOf(m) # {} /\ \A n \in NoticesOf(m) : SettledAt(n, now)
      BY <2>3, <2>5, SettledParent DEF Orphaned
    <3> QED BY <2>1, <2>2, <2>3, <3>1, <3>2, <1>1, <1>2 DEF WindowOver
  <2> QED BY <2>4, <2>5, <1>2
<1>5. /\ lifted \subseteq Notices /\ faults' \in 0..MaxFaults /\ call'[h].notice # None
      /\ call'[h].condemned # None => call'[h].condemned \in call'[h].left
  BY <1>0, <1>1, <1>2 DEF TypeOK
<1> QED BY <1>1, <1>2, <1>3, <1>4, <1>5, HostStep

\* The condemned chunk goes.
LEMMA EvictChunk ==
    ASSUME NEW h \in Hosts, TombstoneInv, evict_chunk(h)
    PROVE  TombstoneInv'
<1> USE DEF TombstoneInv
<1> DEFINE c == call[h].condemned
<1>0. /\ call[h] \in Call /\ call[h].pc = "finalize"
      /\ call[h].notice \in Notices /\ BehindGone(call[h]) /\ WindowOver(call[h])
  BY DEF TypeOK, Call, CallInv, evict_chunk, Walking
<1>1. /\ UNCHANGED <<links, headers, tombs, reversals, now, door, lifted, raced, faults>>
      /\ blobs' \subseteq blobs /\ late' \subseteq late
      /\ call' = [call EXCEPT ![h].condemned = None, ![h].left = @ \ {c}]
  BY DEF evict_chunk
<1>2. call'[h] = [call[h] EXCEPT !.condemned = None, !.left = @ \ {c}]
  BY <1>0, <1>1 DEF TypeOK
<1>3. call' = [call EXCEPT ![h] = call'[h]]
  BY <1>1, <1>2 DEF TypeOK
<1>4. /\ call'[h] \in Call
      /\ call'[h].pc = "finalize" /\ call'[h].notice = call[h].notice
      /\ call'[h].clock = call[h].clock /\ call'[h].reversed = call[h].reversed
      /\ call'[h].todo = call[h].todo /\ call'[h].condemned = None
  BY <1>0, <1>2 DEF Call
<1>5. BehindGone(call[h])'
  <2>1. call[h].reversed => call[h].notice \in lifted
    BY <1>0 DEF BehindGone
  <2>2. headers'[call[h].notice].pc # "none"
    BY <1>0, <1>1 DEF BehindGone
  <2>3. \A b \in Records[call[h].notice] \ call[h].todo : b \in blobs' => call[h].notice \in lifted
    BY <1>0, <1>1 DEF BehindGone
  <2>4. lifted' = lifted
    BY <1>1
  <2> QED BY <2>1, <2>2, <2>3, <2>4, <1>4 DEF BehindGone
<1>6. WindowOver(call[h])'
  BY <1>0, <1>1, <1>4 DEF WindowOver, SettledAt, Held, Dwell
<1>7. lifted \subseteq Notices /\ faults' \in 0..MaxFaults /\ call'[h].notice # None
  BY <1>0, <1>1, <1>4 DEF TypeOK
<1> QED BY <1>1, <1>3, <1>4, <1>5, <1>6, <1>7, HostStep

\* A finalize marks its notice when every record is behind it.
LEMMA MarkFinalized ==
    ASSUME NEW h \in Hosts, TombstoneInv, purge_mark_finalized(h)
    PROVE  TombstoneInv'
<1> USE DEF TombstoneInv
<1> DEFINE n == call[h].notice
<1>0. /\ call[h] \in Call /\ call[h].pc = "finalize" /\ call[h].todo = {}
      /\ n \in Notices /\ BehindGone(call[h]) /\ WindowOver(call[h])
  BY DEF TypeOK, Call, CallInv, purge_mark_finalized, Between
<1>1. /\ UNCHANGED <<blobs, links, tombs, reversals, now, door, lifted, late, raced, faults>>
      /\ headers' = [headers EXCEPT ![n].pc = "finalized"]
      /\ call' = [call EXCEPT ![h] = IdleCall]
  BY DEF purge_mark_finalized
<1>2. \A k \in Notices : /\ headers'[k].at = headers[k].at
                         /\ headers'[k].pc = IF k = n THEN "finalized" ELSE headers[k].pc
  BY <1>0, <1>1 DEF TypeOK, Header
<1>3. headers[n].pc # "none" /\ SettledAt(n, now) /\ \A b \in Records[n] \cap blobs : n \in lifted
  BY <1>0 DEF BehindGone, WindowOver
<1> HIDE DEF n
<1>4. \A g \in Hosts : call'[g] = call[g] \/ call'[g] = IdleCall
  BY <1>1 DEF TypeOK
<1>5. IdleCall.pc = "idle" /\ IdleCall.condemned = None
  BY DEF IdleCall
<1>6. TypeOK'
  <2>1. headers' \in [Notices -> Header]
    BY <1>0, <1>1 DEF TypeOK, Header
  <2>2. call' \in [Hosts -> Call]
    BY <1>1, IdleCallType DEF TypeOK
  <2>3. \A g \in Hosts : /\ call'[g].pc # "idle" => call'[g].notice # None
                         /\ call'[g].condemned # None => call'[g].condemned \in call'[g].left
    BY <1>4, <1>5 DEF TypeOK
  <2> QED BY <2>1, <2>2, <2>3, <1>1 DEF TypeOK
<1>7. TombInv' /\ DoorInv'
  BY <1>1, <1>2, <1>3 DEF TombInv, DoorInv
<1>8. \A k \in Notices : headers[k].pc # "none" => headers'[k].pc # "none"
  BY <1>2
<1>9. \A k \in Notices : SettledAt(k, now) => SettledAt(k, now)'
  BY <1>1, <1>2, <1>8 DEF SettledAt, Held, Dwell
<1>10. FinalizedSettled' /\ FinalizedBytesGone'
  BY <1>1, <1>2, <1>3, <1>9 DEF FinalizedSettled, FinalizedBytesGone
<1>11. CallInv'
  <2> SUFFICES ASSUME NEW g \in Hosts PROVE BehindGone(call[g])' /\ WindowOver(call[g])'
    BY DEF CallInv
  <2>1. CASE call'[g] = IdleCall
    BY <2>1, <1>5 DEF BehindGone, WindowOver
  <2>2. CASE call'[g] = call[g]
    <3>1. BehindGone(call[g]) /\ WindowOver(call[g])
      BY DEF CallInv
    <3>2. call[g].pc = "finalize" => call[g].notice \in Notices
      BY DEF TypeOK, Call
    <3>3. BehindGone(call[g])'
      BY <2>2, <3>1, <3>2, <1>1, <1>8 DEF BehindGone
    <3>4. \A m : NoticesOf(m)' = NoticesOf(m) /\ NoticesOf(m) \subseteq Notices
      BY <1>1 DEF NoticesOf
    <3>5. Parents(call[g].condemned, links)' = Parents(call[g].condemned, links)
      BY <2>2, <1>1 DEF Parents
    <3>6. WindowOver(call[g])'
      BY <2>2, <3>1, <3>2, <3>4, <3>5, <1>1, <1>9 DEF WindowOver
    <3> QED BY <3>3, <3>6
  <2> QED BY <2>1, <2>2, <1>4
<1> QED BY <1>6, <1>7, <1>10, <1>11

\* Rulings come and go, and time passes.
LEMMA Environment ==
    ASSUME TombstoneInv, tick \/ \E n \in Notices : reverse(n) \/ reversal_lapses(n)
    PROVE  TombstoneInv'
<1> USE DEF TombstoneInv
<1>1. /\ UNCHANGED <<blobs, links, headers, tombs, door, call, lifted, late, raced, faults>>
      /\ reversals' \subseteq Notices /\ now' \in 0..MaxTime /\ now <= now'
  BY DEF tick, reverse, reversal_lapses, TypeOK
<1>2. TypeOK' /\ TombInv' /\ DoorInv' /\ FinalizedBytesGone'
  BY <1>1 DEF TypeOK, TombInv, DoorInv, FinalizedBytesGone
<1>3. \A n \in Notices : SettledAt(n, now) => SettledAt(n, now)'
  <2> SUFFICES ASSUME NEW n \in Notices, SettledAt(n, now) PROVE SettledAt(n, now)'
    OBVIOUS
  <2>1. headers'[n].at = headers[n].at /\ headers'[n].pc # "none" /\ now' \in Nat
    BY <1>1 DEF SettledAt, Held
  <2> QED BY <2>1, <1>1, SettledMono
<1>4. FinalizedSettled'
  BY <1>1, <1>3 DEF FinalizedSettled
<1>5. CallInv'
  <2> SUFFICES ASSUME NEW g \in Hosts PROVE BehindGone(call[g])' /\ WindowOver(call[g])'
    BY DEF CallInv
  <2>1. BehindGone(call[g]) /\ WindowOver(call[g]) /\ call'[g] = call[g]
    BY <1>1 DEF CallInv
  <2>2. call[g].pc = "finalize" => call[g].notice \in Notices
    BY DEF TypeOK, Call
  <2>3. BehindGone(call[g])'
    BY <2>1, <1>1 DEF BehindGone
  <2>4. \A m : NoticesOf(m)' = NoticesOf(m) /\ NoticesOf(m) \subseteq Notices
    BY <1>1 DEF NoticesOf
  <2>5. Parents(call[g].condemned, links)' = Parents(call[g].condemned, links)
    BY <2>1, <1>1 DEF Parents
  <2>6. call[g].clock <= now => call[g].clock <= now'
    BY <1>1 DEF TypeOK, Call
  <2>7. WindowOver(call[g])'
    BY <2>1, <2>2, <2>4, <2>5, <2>6, <1>1, <1>3 DEF WindowOver
  <2> QED BY <2>3, <2>7
<1> QED BY <1>2, <1>4, <1>5

-----------------------------------------------------------------------------
\* Every step keeps the invariant.
LEMMA StepInv == TombstoneInv /\ [Next]_vars => TombstoneInv'
<1> SUFFICES ASSUME TombstoneInv, [Next]_vars PROVE TombstoneInv'
  OBVIOUS
<1>1. CASE \E d \in Doors : (\E s \in Batches : put_begin(d, s)) \/ put_commit(d) \/ put_end(d)
  BY <1>1, PutBegin, PutCommit, PutEnd
<1>2. CASE \E h \in Hosts, n \in Notices : execute_notice(h, n) \/ finalize_begin(h, n)
  BY <1>2, ExecuteNotice, FinalizeBegin
<1>3. CASE \E h \in Hosts : Step(h)
  BY <1>3, FinalizeBegin, CallEnds, RecordStep, JudgeChunk, EvictChunk, MarkFinalized DEF Step
<1>4. CASE \E h \in Hosts : call_fails(h)
  BY <1>4, CallEnds
<1>5. CASE tick \/ \E n \in Notices : reverse(n) \/ reversal_lapses(n)
  BY <1>5, Environment
<1>6. CASE UNCHANGED vars
  <2>1. UNCHANGED <<blobs, links, headers, tombs, reversals, now, door, call, lifted, late, raced, faults>>
    BY <1>6 DEF vars
  <2>2. TypeOK' /\ TombInv' /\ DoorInv' /\ FinalizedSettled' /\ FinalizedBytesGone'
    BY <2>1 DEF TombstoneInv, TypeOK, TombInv, DoorInv, FinalizedSettled, FinalizedBytesGone,
                SettledAt, Held, Dwell
  <2>3. \A h \in Hosts : BehindGone(call[h])' <=> BehindGone(call[h])
    BY <2>1 DEF BehindGone
  <2>4. \A h \in Hosts : WindowOver(call[h])' <=> WindowOver(call[h])
    BY <2>1 DEF WindowOver, SettledAt, Held, Dwell, Parents, NoticesOf
  <2> QED BY <2>2, <2>3, <2>4 DEF TombstoneInv, CallInv
<1> QED BY <1>1, <1>2, <1>3, <1>4, <1>5, <1>6 DEF Next

\* The inductive invariant holds of every behaviour.
LEMMA TombstoneInvariant == Spec => []TombstoneInv
BY InitInv, StepInv, PTL DEF Spec

\* The tables and the calls are typed, and a condemned chunk is one the walk
\* of purge_evict_blob_on has still to pass.
THEOREM TombstoneTypeCorrect == Spec => []TypeOK
BY TombstoneInvariant, PTL DEF TombstoneInv

\* refuse_tombstoned_at_write keeps finalized bytes out: nothing a finalized
\* notice names is held, unless the notice was read as reversed.
THEOREM FinalizedStaysGone == Spec => []FinalizedBytesGone
BY TombstoneInvariant, PTL DEF TombstoneInv

\* purge_finalize and its walk over the chunks destroy nothing before the
\* windows of settles_at are over.
THEOREM WindowIsKept == Spec => DestroyedAfterWindow
<1>1. TombstoneInv /\ [Next]_vars =>
        [\A b \in blobs \ blobs' : \E h \in Hosts :
            /\ call[h].pc = "finalize" /\ SettledAt(call[h].notice, now)
            /\ \/ b \in call[h].todo
               \/ /\ b = call[h].condemned
                  /\ \A m \in Parents(b, links) \ (raced \cup {call[h].root}) :
                        NoticesOf(m) # {} /\ \A n \in NoticesOf(m) \ raced : SettledAt(n, now)]_vars
  <2> SUFFICES ASSUME TombstoneInv, Next, NEW b \in blobs \ blobs'
               PROVE  \E h \in Hosts :
                        /\ call[h].pc = "finalize" /\ SettledAt(call[h].notice, now)
                        /\ \/ b \in call[h].todo
                           \/ /\ b = call[h].condemned
                              /\ \A m \in Parents(b, links) \ (raced \cup {call[h].root}) :
                                    NoticesOf(m) # {} /\ \A n \in NoticesOf(m) \ raced : SettledAt(n, now)
    OBVIOUS
  <2>1. \E h \in Hosts : (\E r \in Blobs : evict_record(h, r)) \/ evict_chunk(h)
    BY DEF Next, Step, put_begin, put_commit, put_end, execute_notice, finalize_begin,
           finalize_already, void_record, judge_chunk, purge_mark_finalized, call_fails,
           reverse, reversal_lapses, tick
  <2> PICK h \in Hosts : (\E r \in Blobs : evict_record(h, r)) \/ evict_chunk(h)
    BY <2>1
  <2>2. call[h].pc = "finalize" /\ WindowOver(call[h])
    BY DEF evict_record, evict_chunk, Walking, Between, TombstoneInv, CallInv
  <2>3. CASE \E r \in Blobs : evict_record(h, r)
    <3>1. b \in call[h].todo
      BY <2>3 DEF evict_record
    <3> QED BY <2>2, <3>1 DEF WindowOver
  <2>4. CASE evict_chunk(h)
    <3>1. b = call[h].condemned /\ call[h].condemned # None
      BY <2>4 DEF evict_chunk
    <3> QED BY <2>2, <3>1 DEF WindowOver
  <2> QED BY <2>3, <2>4
<1> QED BY <1>1, TombstoneInvariant, PTL DEF Spec, DestroyedAfterWindow

-----------------------------------------------------------------------------
(* The chunks that manifests share.                                         *)

\* The instant settles_at gives.
Settles(n) == headers[n].at + Dwell(n)

\* A finalize of n is over, or has left c behind in its walk of m.
Passed(n, m, c) ==
    \/ headers[n].pc = "finalized"
    \/ \E h \in Hosts : /\ call[h].pc = "finalize" /\ call[h].notice = n
                        /\ m \notin call[h].todo
                        /\ ~(call[h].root = m /\ c \in call[h].left)

\* A manifest keeps the chunk, or kept it when someone read a reversal.
Kept(c) ==
    \E m \in Parents(c, links) : NoticesOf(m) = {} \/ \E n \in NoticesOf(m) : n \in lifted

\* A notice that settles last has the chunk still ahead of it.
Awaited(c) ==
    \E m \in Parents(c, links) : \E n \in NoticesOf(m) :
        /\ ~Passed(n, m, c)
        /\ \A m2 \in Parents(c, links) : \A k \in NoticesOf(m2) : Settles(k) <= Settles(n)

OrphanInv ==
    \A c \in (Chunks \cap blobs) \ late : Parents(c, links) # {} => Kept(c) \/ Awaited(c)

\* A notice was recorded at some instant in the past.
RecordedPast == \A n \in Notices : headers[n].at <= now

\* A finalize read the clock when its notice had settled.
StartedSettled ==
    \A h \in Hosts : call[h].pc = "finalize" => SettledAt(call[h].notice, call[h].clock)

ChunkInv == TombstoneInv /\ RecordedPast /\ StartedSettled /\ OrphanInv

\* A nonempty set of numbers has a least element.
LEMMA LeastNumber ==
    ASSUME NEW T, T \subseteq Nat, T # {}
    PROVE  \E x \in T : \A y \in T : x <= y
<1> DEFINE R == OpToRel(<, Nat)
<1>1. IsWellFoundedOn(R, Nat)
  BY NatLessThanWellFounded, Zenon
<1>2. \A x, y \in Nat : <<y, x>> \in R <=> y < x
  BY DEF OpToRel
<1> HIDE DEF R
<1>3. PICK x \in T : \A y \in T : ~(<<y, x>> \in R)
  BY <1>1, WFMin, Zenon
<1>4. \A y \in T : ~(y < x)
  BY <1>2, <1>3
<1>5. \A y \in T : x <= y
  BY <1>4
<1> QED BY <1>5

\* A bounded function has a greatest value.
LEMMA GreatestValue ==
    ASSUME NEW B \in Nat, NEW N, N # {}, NEW f, \A n \in N : f[n] \in 0..B
    PROVE  \E n \in N : \A k \in N : f[k] <= f[n]
<1> DEFINE T == {B - f[n] : n \in N}
<1>1. \A n \in N : B - f[n] \in Nat /\ f[n] \in Nat
  OBVIOUS
<1>2. T \subseteq Nat /\ T # {}
  BY <1>1
<1>3. PICK x \in T : \A y \in T : x <= y
  BY <1>2, LeastNumber
<1>4. PICK n \in N : x = B - f[n]
  BY <1>3
<1>5. \A k \in N : f[k] <= f[n]
  <2> SUFFICES ASSUME NEW k \in N PROVE f[k] <= f[n]
    OBVIOUS
  <2>1. B - f[n] <= B - f[k]
    BY <1>3, <1>4
  <2> QED BY <2>1, <1>1
<1> QED BY <1>5

\* A step that writes no tombstone and no link, and leaves a chunk behind only
\* where another manifest keeps it or another notice settles later.
LEMMA ChunkFrame ==
    ASSUME TypeOK, OrphanInv, UNCHANGED <<links, tombs>>,
           \A n \in Notices : headers'[n].at = headers[n].at,
           (Chunks \cap blobs') \ late' \subseteq blobs \ late,
           lifted \subseteq lifted',
           \A c \in (Chunks \cap blobs') \ late' : \A m \in Parents(c, links) :
              \A n \in NoticesOf(m) :
                 ~Passed(n, m, c) /\ Passed(n, m, c)' =>
                    \/ Kept(c)'
                    \/ \E m2 \in Parents(c, links) : \E k \in NoticesOf(m2) :
                          ~(Settles(k) <= Settles(n))
    PROVE  OrphanInv'
<1>1. \A m : NoticesOf(m)' = NoticesOf(m) /\ NoticesOf(m) \subseteq Notices
  BY DEF NoticesOf
<1>2. \A c : Parents(c, links)' = Parents(c, links)
  BY DEF Parents
<1>3. \A n \in Notices : Settles(n)' = Settles(n)
  BY DEF Settles, Dwell
<1>4. \A c : Kept(c) => Kept(c)'
  BY <1>1, <1>2 DEF Kept
<1> SUFFICES ASSUME NEW c \in (Chunks \cap blobs') \ late', Parents(c, links) # {}, ~Kept(c)'
             PROVE  Awaited(c)'
  BY <1>2 DEF OrphanInv
<1>5. Awaited(c)
  BY <1>4 DEF OrphanInv
<1>6. PICK m \in Parents(c, links) : \E n \in NoticesOf(m) :
        /\ ~Passed(n, m, c)
        /\ \A m2 \in Parents(c, links) : \A k \in NoticesOf(m2) : Settles(k) <= Settles(n)
  BY <1>5 DEF Awaited
<1>7. PICK n \in NoticesOf(m) :
        /\ ~Passed(n, m, c)
        /\ \A m2 \in Parents(c, links) : \A k \in NoticesOf(m2) : Settles(k) <= Settles(n)
  BY <1>6
<1>8. ~Passed(n, m, c)'
  BY <1>7
<1>9. \A m2 \in Parents(c, links)' : \A k \in NoticesOf(m2)' : Settles(k)' <= Settles(n)'
  BY <1>1, <1>2, <1>3, <1>7
<1> QED BY <1>1, <1>2, <1>8, <1>9 DEF Awaited

\* The doors' pre-reads and refusals, a new finalize, a call that ends, a
\* ruling and time leave no chunk behind.
LEMMA ChunkQuiet ==
    ASSUME ChunkInv,
           \/ \E d \in Doors : (\E s \in Batches : put_begin(d, s)) \/ put_end(d)
           \/ \E h \in Hosts, n \in Notices : finalize_begin(h, n)
           \/ \E h \in Hosts : finalize_already(h) \/ call_fails(h)
           \/ tick \/ \E n \in Notices : reverse(n) \/ reversal_lapses(n)
    PROVE  OrphanInv'
<1> USE DEF ChunkInv, TombstoneInv
<1>1. /\ UNCHANGED <<blobs, links, headers, tombs, late>>
      /\ lifted \subseteq lifted'
  BY DEF put_begin, put_end, finalize_begin, finalize_already, call_fails, tick, reverse,
         reversal_lapses
<1>2. ASSUME NEW c \in Chunks, NEW m \in Parents(c, links), NEW n \in NoticesOf(m),
             Passed(n, m, c)'
      PROVE  Passed(n, m, c)
  <2>0. n \in Notices /\ <<n, m>> \in tombs /\ m \in Blobs
    BY DEF NoticesOf, Parents, TypeOK, Blobs
  <2>1. CASE headers'[n].pc = "finalized"
    BY <2>1, <1>1 DEF Passed
  <2>2. CASE headers'[n].pc # "finalized"
    <3>1. PICK h \in Hosts : /\ call'[h].pc = "finalize" /\ call'[h].notice = n
                             /\ m \notin call'[h].todo
                             /\ ~(call'[h].root = m /\ c \in call'[h].left)
      BY <2>2, <1>2 DEF Passed
    <3>2. call'[h] = call[h]
      <4>1. CASE \E g \in Hosts, k \in Notices : finalize_begin(g, k)
        <5> PICK g \in Hosts, k \in Notices : finalize_begin(g, k)
          BY <4>1
        <5>1. CASE g # h
          BY <5>1 DEF finalize_begin, TypeOK
        <5>2. CASE g = h
          <6>1. call'[h].notice = k /\ call'[h].todo = {b \in Blobs : <<k, b>> \in tombs}
            BY <5>2 DEF finalize_begin, TypeOK, IdleCall
          <6> QED BY <6>1, <3>1, <2>0
        <5> QED BY <5>1, <5>2
      <4>2. CASE \E g \in Hosts : finalize_already(g) \/ call_fails(g)
        <5> PICK g \in Hosts : finalize_already(g) \/ call_fails(g)
          BY <4>2
        <5>1. call' = [call EXCEPT ![g] = IdleCall]
          BY DEF finalize_already, call_fails
        <5>2. IdleCall.pc = "idle"
          BY DEF IdleCall
        <5> QED BY <5>1, <5>2, <3>1 DEF TypeOK
      <4>3. CASE call' = call
        BY <4>3
      <4> QED BY <4>1, <4>2, <4>3 DEF put_begin, put_end, tick, reverse, reversal_lapses
    <3> QED BY <3>1, <3>2 DEF Passed
  <2> QED BY <2>1, <2>2
<1>3. (Chunks \cap blobs') \ late' \subseteq Chunks
  OBVIOUS
<1> QED BY <1>1, <1>2, <1>3, ChunkFrame

\* Passing over a record is for a reversed notice; evicting one starts the walk
\* over all its chunks.
LEMMA ChunkRecord ==
    ASSUME NEW h \in Hosts, NEW b \in Blobs, ChunkInv, void_record(h, b) \/ evict_record(h, b)
    PROVE  OrphanInv'
<1> USE DEF ChunkInv, TombstoneInv
<1>1. /\ UNCHANGED <<links, headers, tombs, lifted>>
      /\ call[h] \in Call /\ call[h].left = {} /\ call[h].pc = "finalize"
      /\ \A g \in Hosts \ {h} : call'[g] = call[g]
  BY DEF void_record, evict_record, Between, TypeOK
<1>2. call'[h].notice = call[h].notice /\ call'[h].todo = call[h].todo \ {b}
  BY <1>1 DEF void_record, evict_record, TypeOK, Call
<1>3. (Chunks \cap blobs') \ late' \subseteq blobs \ late
  BY DEF void_record, evict_record
<1>4. ASSUME NEW c \in (Chunks \cap blobs') \ late', NEW m \in Parents(c, links),
             NEW n \in NoticesOf(m), ~Passed(n, m, c), Passed(n, m, c)'
      PROVE  Kept(c)'
  <2>1. PICK g \in Hosts : /\ call'[g].pc = "finalize" /\ call'[g].notice = n
                           /\ m \notin call'[g].todo
                           /\ ~(call'[g].root = m /\ c \in call'[g].left)
    BY <1>1, <1>4 DEF Passed
  <2>2. g = h
    BY <2>1, <1>1, <1>4 DEF Passed
  <2>3. call[h].notice = n /\ m = b
    BY <2>1, <2>2, <1>1, <1>2, <1>4 DEF Passed
  <2>4. m \in links /\ c \in Of[m]
    BY DEF Parents
  <2>5. CASE void_record(h, b)
    <3>1. n \in lifted
      BY <2>3, <2>5, <1>1 DEF void_record, CallInv, BehindGone
    <3> QED BY <3>1, <1>1 DEF Kept, Parents, NoticesOf
  <2>6. CASE evict_record(h, b)
    <3>1. call'[h].root = b /\ call'[h].left = Of[b]
      BY <2>3, <2>4, <2>6, <1>1 DEF evict_record, TypeOK, Call
    <3> QED BY <3>1, <2>1, <2>2, <2>3, <2>4
  <2> QED BY <2>5, <2>6
<1>5. lifted \subseteq lifted' /\ \A n \in Notices : headers'[n].at = headers[n].at
  BY <1>1
<1> QED BY <1>1, <1>3, <1>4, <1>5, ChunkFrame

\* A chunk a finalize leaves behind is kept by a manifest without notices, or
\* one of the notices on its manifests settles later.
LEMMA ChunkJudged ==
    ASSUME NEW h \in Hosts, NEW x \in Blobs, ChunkInv, judge_chunk(h, x)
    PROVE  OrphanInv'
<1> USE DEF ChunkInv, TombstoneInv
<1>1. /\ UNCHANGED <<blobs, links, headers, tombs, late, lifted>>
      /\ call[h] \in Call /\ call[h].pc = "finalize"
      /\ \A g \in Hosts \ {h} : call'[g] = call[g]
  BY DEF judge_chunk, Walking, TypeOK
<1>2. /\ call'[h].notice = call[h].notice /\ call'[h].todo = call[h].todo
      /\ call'[h].root = call[h].root
      /\ call[h].left \ {x} \subseteq call'[h].left
      /\ Orphaned(x, call[h].root, call[h].clock) /\ x \in blobs => call'[h].left = call[h].left
  BY <1>1 DEF judge_chunk, TypeOK, Call
<1>4. ASSUME NEW c \in (Chunks \cap blobs') \ late', NEW m \in Parents(c, links),
             NEW n \in NoticesOf(m), ~Passed(n, m, c), Passed(n, m, c)'
      PROVE  \/ Kept(c)'
             \/ \E m2 \in Parents(c, links) : \E k \in NoticesOf(m2) : ~(Settles(k) <= Settles(n))
  <2>1. PICK g \in Hosts : /\ call'[g].pc = "finalize" /\ call'[g].notice = n
                           /\ m \notin call'[g].todo
                           /\ ~(call'[g].root = m /\ c \in call'[g].left)
    BY <1>1, <1>4 DEF Passed
  <2>2. g = h
    BY <2>1, <1>1, <1>4 DEF Passed
  <2>3. call[h].notice = n /\ call[h].root = m /\ c \in call[h].left /\ c \notin call'[h].left
    BY <2>1, <2>2, <1>1, <1>2, <1>4 DEF Passed
  <2>4. x = c /\ ~Orphaned(c, m, call[h].clock)
    BY <2>3, <1>1, <1>2, <1>4
  <2>5. PICK m2 \in Parents(c, links) : m2 # m /\ ~blob_purge_settled(m2, call[h].clock)
    BY <2>4 DEF Orphaned
  <2>6. CASE NoticesOf(m2) = {}
    BY <2>6, <1>1 DEF Kept, Parents, NoticesOf
  <2>7. CASE NoticesOf(m2) # {}
    <3>1. PICK k \in NoticesOf(m2) : ~SettledAt(k, call[h].clock)
      BY <2>5, <2>7 DEF blob_purge_settled
    <3>2. k \in Notices /\ n \in Notices /\ headers[k].pc # "none"
      <4>1. k \in Notices /\ <<k, m2>> \in tombs /\ m2 \in Blobs /\ n \in Notices
        BY DEF NoticesOf, Parents, TypeOK, Blobs
      <4> QED BY <4>1 DEF TombInv
    <3>3. /\ headers[k].at \in Nat /\ Dwell(k) \in Nat /\ headers[n].at \in Nat
          /\ Dwell(n) \in Nat /\ call[h].clock \in Nat
      BY <3>2, <1>1, DwellType DEF TypeOK, Header, Call
    <3>4. call[h].clock >= headers[n].at + Dwell(n)
      BY <2>3, <1>1 DEF StartedSettled, SettledAt
    <3>5. ~(call[h].clock >= headers[k].at + Dwell(k))
      BY <3>1, <3>2 DEF SettledAt, Held
    <3> QED BY <3>3, <3>4, <3>5 DEF Settles
  <2> QED BY <2>6, <2>7
<1>5. /\ lifted \subseteq lifted' /\ \A n \in Notices : headers'[n].at = headers[n].at
      /\ (Chunks \cap blobs') \ late' \subseteq blobs \ late
  BY <1>1
<1> QED BY <1>1, <1>4, <1>5, ChunkFrame

\* The chunk a finalize deletes is the only one it leaves behind.
LEMMA ChunkEvicted ==
    ASSUME NEW h \in Hosts, ChunkInv, evict_chunk(h)
    PROVE  OrphanInv'
<1> USE DEF ChunkInv, TombstoneInv
<1> DEFINE x == call[h].condemned
<1>1. /\ UNCHANGED <<links, headers, tombs, lifted>>
      /\ call[h] \in Call /\ call[h].pc = "finalize"
      /\ \A g \in Hosts \ {h} : call'[g] = call[g]
      /\ blobs' = blobs \ {x} /\ late' = late \ {x}
  BY DEF evict_chunk, Walking, TypeOK
<1>2. /\ call'[h].notice = call[h].notice /\ call'[h].todo = call[h].todo
      /\ call'[h].root = call[h].root /\ call'[h].left = call[h].left \ {x}
  BY <1>1 DEF evict_chunk, TypeOK, Call
<1>3. ASSUME NEW c \in (Chunks \cap blobs') \ late', NEW m \in Parents(c, links),
             NEW n \in NoticesOf(m), ~Passed(n, m, c), Passed(n, m, c)'
      PROVE  FALSE
  <2>1. PICK g \in Hosts : /\ call'[g].pc = "finalize" /\ call'[g].notice = n
                           /\ m \notin call'[g].todo
                           /\ ~(call'[g].root = m /\ c \in call'[g].left)
    BY <1>1, <1>3 DEF Passed
  <2>2. g = h
    BY <2>1, <1>1, <1>3 DEF Passed
  <2>3. c \in call[h].left /\ c \notin call'[h].left
    BY <2>1, <2>2, <1>1, <1>2, <1>3 DEF Passed
  <2> QED BY <2>3, <1>1, <1>2, <1>3
<1>4. /\ lifted \subseteq lifted' /\ \A n \in Notices : headers'[n].at = headers[n].at
      /\ (Chunks \cap blobs') \ late' \subseteq blobs \ late
  BY <1>1
<1> QED BY <1>1, <1>3, <1>4, ChunkFrame

\* A finalize that ends had left everything behind already.
LEMMA ChunkMarked ==
    ASSUME NEW h \in Hosts, ChunkInv, purge_mark_finalized(h)
    PROVE  OrphanInv'
<1> USE DEF ChunkInv, TombstoneInv
<1>1. /\ UNCHANGED <<blobs, links, tombs, lifted, late>>
      /\ call[h].pc = "finalize" /\ call[h].todo = {} /\ call[h].left = {}
      /\ call[h].notice \in Notices
      /\ headers' = [headers EXCEPT ![call[h].notice].pc = "finalized"]
      /\ call' = [call EXCEPT ![h] = IdleCall]
  BY DEF purge_mark_finalized, Between, TypeOK, Call
<1>2. \A n \in Notices : /\ headers'[n].at = headers[n].at
                         /\ n # call[h].notice => headers'[n].pc = headers[n].pc
  BY <1>1 DEF TypeOK, Header
<1>3. \A g \in Hosts : call'[g].pc = "finalize" => call'[g] = call[g]
  BY <1>1 DEF TypeOK, IdleCall
<1>4. ASSUME NEW c \in Chunks, NEW m \in Parents(c, links),
             NEW n \in NoticesOf(m), Passed(n, m, c)'
      PROVE  Passed(n, m, c)
  <2>0. n \in Notices
    BY DEF NoticesOf
  <2>1. CASE n = call[h].notice
    BY <2>1, <1>1 DEF Passed
  <2>2. CASE n # call[h].notice
    BY <2>0, <2>2, <1>2, <1>3, <1>4 DEF Passed
  <2> QED BY <2>1, <2>2
<1>5. lifted \subseteq lifted' /\ (Chunks \cap blobs') \ late' \subseteq blobs \ late
  BY <1>1
<1>6. (Chunks \cap blobs') \ late' \subseteq Chunks
  OBVIOUS
<1> QED BY <1>1, <1>2, <1>4, <1>5, <1>6, ChunkFrame

\* A write that lands beside taken-down manifests is late, and a manifest it
\* links keeps its chunks.
LEMMA ChunkPut ==
    ASSUME NEW d \in Doors, ChunkInv, put_commit(d)
    PROVE  OrphanInv'
<1> USE DEF ChunkInv, TombstoneInv
<1> DEFINE s == door[d].put
           l2 == links \cup (s \cap Manifests)
<1>1. /\ blobs' = blobs \cup s /\ links' = l2
      /\ late' = late \cup {c \in (s \cap Chunks) \ blobs :
                              /\ Parents(c, l2) # {}
                              /\ \A m \in Parents(c, l2) : ~(NoticesOf(m) \subseteq lifted)}
      /\ \A b \in s : NoticesOf(b) \subseteq lifted
      /\ UNCHANGED <<headers, tombs, call, lifted>>
  BY DEF put_commit, linked, admitted_at_write, DoorInv
<1>2. \A m : NoticesOf(m)' = NoticesOf(m) /\ NoticesOf(m) \subseteq Notices
  BY <1>1 DEF NoticesOf
<1>3. \A c : Parents(c, links)' = Parents(c, l2)
  BY <1>1 DEF Parents
<1> SUFFICES ASSUME NEW c \in (Chunks \cap blobs') \ late', Parents(c, l2) # {}
             PROVE  Kept(c)' \/ Awaited(c)'
  BY <1>3 DEF OrphanInv
<1>4. ASSUME NEW m \in Parents(c, l2), NoticesOf(m) \subseteq lifted
      PROVE  Kept(c)'
  BY <1>1, <1>2, <1>3, <1>4 DEF Kept
<1>5. CASE c \notin blobs
  <2>1. \E m \in Parents(c, l2) : NoticesOf(m) \subseteq lifted
    BY <1>1, <1>5
  <2> QED BY <2>1, <1>4
<1>6. CASE Parents(c, l2) # Parents(c, links)
  <2>1. \E m \in Parents(c, l2) : m \in s
    BY <1>6 DEF Parents
  <2> QED BY <2>1, <1>1, <1>4
<1>7. CASE c \in blobs /\ Parents(c, l2) = Parents(c, links)
  <2>1. Kept(c) \/ Awaited(c)
    BY <1>1, <1>7 DEF OrphanInv
  <2>2. Kept(c) => Kept(c)'
    BY <1>1, <1>2, <1>3, <1>7 DEF Kept
  <2>3. \A n, m : Passed(n, m, c)' <=> Passed(n, m, c)
    BY <1>1 DEF Passed
  <2>4. \A n : Settles(n)' = Settles(n)
    BY <1>1 DEF Settles, Dwell
  <2>5. Awaited(c) => Awaited(c)'
    BY <2>3, <2>4, <1>2, <1>3, <1>7 DEF Awaited
  <2> QED BY <2>1, <2>2, <2>5
<1> QED BY <1>5, <1>6, <1>7

\* What a finalize has passed has settled, and no finalize has passed a notice
\* that is only now recorded: one of the notices that settle last is ahead.
LEMMA ChunkRecorded ==
    ASSUME NEW h \in Hosts, NEW n \in Notices, ChunkInv, execute_notice(h, n)
    PROVE  OrphanInv'
<1> USE DEF ChunkInv, TombstoneInv
<1>1. /\ headers' = [headers EXCEPT ![n] =
                       IF headers[n].pc # "none" THEN @ ELSE [pc |-> "executed", at |-> now]]
      /\ tombs' = tombs \cup {<<n, b>> : b \in Records[n]}
      /\ UNCHANGED <<blobs, links, now, lifted, late>>
  BY DEF execute_notice, purge_put_execution, Held
<1>2. \A g \in Hosts : call'[g].pc = "finalize" => call'[g] = call[g]
  BY DEF execute_notice, TypeOK, IdleCall
<1>3. \A k \in Notices : /\ headers[k].pc # "none" => headers'[k] = headers[k]
                         /\ headers'[k].pc = "finalized" => headers'[k] = headers[k]
  BY <1>1 DEF TypeOK, Header
<1>4. CASE headers[n].pc # "none"
  <2>1. headers' = headers /\ tombs' = tombs
    BY <1>1, <1>4 DEF TombInv, TypeOK
  <2>2. \A m, k, c : Passed(k, m, c)' => Passed(k, m, c)
    BY <1>2, <2>1 DEF Passed
  <2>3. /\ lifted \subseteq lifted' /\ \A k \in Notices : headers'[k].at = headers[k].at
        /\ (Chunks \cap blobs') \ late' \subseteq blobs \ late
    BY <1>1, <2>1
  <2> QED BY <1>1, <2>1, <2>2, <2>3, ChunkFrame
<1>5. CASE headers[n].pc = "none"
  <2> SUFFICES ASSUME NEW c \in (Chunks \cap blobs) \ late, Parents(c, links) # {}, ~Kept(c)'
               PROVE  Awaited(c)'
    BY <1>1 DEF OrphanInv, Parents
  <2>1. Parents(c, links)' = Parents(c, links) /\ Parents(c, links) \subseteq Blobs
    BY <1>1 DEF Parents, TypeOK, Blobs
  <2>2. \A m : \A k \in Notices : Passed(k, m, c)' =>
           /\ Passed(k, m, c) /\ headers[k].pc # "none" /\ SettledAt(k, now)
    <3> SUFFICES ASSUME NEW m, NEW k \in Notices, Passed(k, m, c)'
                 PROVE  Passed(k, m, c) /\ headers[k].pc # "none" /\ SettledAt(k, now)
      OBVIOUS
    <3>1. CASE headers'[k].pc = "finalized"
      BY <3>1, <1>3 DEF Passed, FinalizedSettled
    <3>2. CASE headers'[k].pc # "finalized"
      BY <3>2, <1>2 DEF Passed, CallInv, BehindGone, WindowOver
    <3> QED BY <3>1, <3>2
  <2>3. \A m : NoticesOf(m)' \subseteq Notices
    BY DEF NoticesOf
  <2>4. headers'[n] = [pc |-> "executed", at |-> now] /\ now \in Nat /\ now <= MaxTime
    BY <1>1, <1>5 DEF TypeOK
  <2>5. \A k \in Notices : /\ headers'[k].at = headers[k].at \/ headers'[k].at = now
                           /\ headers'[k].at \in Nat
    BY <1>1 DEF TypeOK, Header
  <2> DEFINE B == MaxTime + CounterWindow + PurgeDwell
             f == [k \in Notices |-> headers'[k].at + Dwell(k)]
  <2>6. \A k \in Notices : Settles(k)' = f[k] /\ f[k] \in 0..B
    <3> SUFFICES ASSUME NEW k \in Notices PROVE Settles(k)' = f[k] /\ f[k] \in 0..B
      OBVIOUS
    <3>1. Dwell(k) \in Nat /\ Dwell(k) <= CounterWindow + PurgeDwell
      BY DEF Dwell, Bases
    <3>2. headers'[k].at \in Nat /\ headers'[k].at <= MaxTime
      <4>1. headers[k].at <= now /\ headers[k].at \in Nat
        BY DEF RecordedPast, TypeOK, Header
      <4> QED BY <4>1, <2>4, <2>5
    <3>3. Settles(k)' = f[k]
      BY DEF Settles, Dwell
    <3>4. headers'[k].at + Dwell(k) \in 0..B
      BY <3>1, <3>2
    <3> QED BY <3>3, <3>4
  <2>7. B \in Nat
    OBVIOUS
  <2> HIDE DEF B, f
  <2>8. \A k \in Notices : headers[k].pc # "none" => Settles(k)' = Settles(k)
    BY <1>3 DEF Settles, Dwell
  <2> DEFINE N == UNION {NoticesOf(m)' : m \in Parents(c, links)}
  <2>9. N \subseteq Notices /\ N # {}
    <3>1. \A m \in Parents(c, links) : NoticesOf(m)' # {}
      BY <2>1 DEF Kept
    <3> QED BY <3>1, <2>3
  <2>10. CASE n \notin N
    <3>1. \A m \in Parents(c, links) : NoticesOf(m)' = NoticesOf(m)
      BY <2>10, <1>1 DEF NoticesOf
    <3>2. ~Kept(c)
      BY <3>1, <2>1, <1>1 DEF Kept
    <3>3. Awaited(c)
      BY <3>2 DEF OrphanInv
    <3>4. \A m \in Parents(c, links) : \A k \in NoticesOf(m) : Settles(k)' = Settles(k)
      BY <2>1, <2>8 DEF NoticesOf, TombInv
    <3>5. \A m : \A k \in NoticesOf(m) : Passed(k, m, c)' => Passed(k, m, c)
      BY <2>2 DEF NoticesOf
    <3> QED BY <3>1, <3>3, <3>4, <3>5, <2>1 DEF Awaited
  <2>11. CASE n \in N
    <3>1. PICK k \in N : \A j \in N : f[j] <= f[k]
      <4>1. \A j \in N : f[j] \in 0..B
        BY <2>6, <2>9
      <4> HIDE DEF N
      <4> QED BY <4>1, <2>7, <2>9, GreatestValue
    <3>2. PICK m \in Parents(c, links) : k \in NoticesOf(m)'
      OBVIOUS
    <3>3. k \in Notices /\ \A j \in N : j \in Notices /\ Settles(j)' <= Settles(k)'
      BY <3>1, <2>6, <2>9
    <3>4. CASE ~Passed(k, m, c)'
      BY <3>2, <3>3, <3>4, <2>1 DEF Awaited
    <3>5. CASE Passed(k, m, c)'
      <4>1. PICK m1 \in Parents(c, links) : n \in NoticesOf(m1)'
        BY <2>11
      <4>2. ~Passed(n, m1, c)'
        BY <2>2, <1>5
      <4>3. Settles(k)' <= now
        <5>1. headers[k].pc # "none" /\ SettledAt(k, now)
          BY <3>3, <3>5, <2>2
        <5>2. headers[k].at \in Nat /\ Dwell(k) \in Nat
          BY <3>3, DwellType DEF TypeOK, Header
        <5>3. Settles(k)' = headers[k].at + Dwell(k)
          BY <3>3, <5>1, <2>8 DEF Settles
        <5> QED BY <5>1, <5>2, <5>3, <2>4 DEF SettledAt
      <4>4. now <= Settles(n)'
        <5>1. headers'[n].at = now /\ Dwell(n) \in Nat
          BY <2>4, DwellType
        <5>2. Settles(n)' = headers'[n].at + Dwell(n)
          BY DEF Settles, Dwell
        <5> QED BY <5>1, <5>2, <2>4
      <4>5. \A j \in N : Settles(j)' <= Settles(n)'
        <5> SUFFICES ASSUME NEW j \in N PROVE Settles(j)' <= Settles(n)'
          OBVIOUS
        <5>1. Settles(j)' \in Nat /\ Settles(k)' \in Nat /\ Settles(n)' \in Nat
          BY <3>3, <2>6, <2>7
        <5> QED BY <5>1, <3>3, <4>3, <4>4, <2>4
      <4> QED BY <4>1, <4>2, <4>5, <2>1 DEF Awaited
    <3> QED BY <3>4, <3>5
  <2> QED BY <2>10, <2>11
<1> QED BY <1>4, <1>5

\* Headers are stamped with the present, and a finalize starts when its notice
\* has settled.
LEMMA ClockStep ==
    ASSUME ChunkInv, Next
    PROVE  RecordedPast' /\ StartedSettled'
<1> USE DEF ChunkInv, TombstoneInv
<1>0. now \in Nat /\ \A n \in Notices : headers[n] \in Header /\ headers[n].at \in Nat
  BY DEF TypeOK, Header
<1>1. CASE \E h \in Hosts, n \in Notices : execute_notice(h, n)
  <2> PICK h \in Hosts, n \in Notices : execute_notice(h, n)
    BY <1>1
  <2>1. /\ headers' = [headers EXCEPT ![n] =
                         IF headers[n].pc # "none" THEN @ ELSE [pc |-> "executed", at |-> now]]
        /\ now' = now
    BY DEF execute_notice, purge_put_execution, Held
  <2>2. \A k \in Notices : /\ headers[k].pc # "none" => headers'[k] = headers[k]
                           /\ headers'[k].at = headers[k].at \/ headers'[k].at = now
    BY <2>1 DEF TypeOK
  <2>3. RecordedPast'
    BY <2>1, <2>2, <1>0 DEF RecordedPast
  <2>4. \A g \in Hosts : call'[g].pc = "finalize" => call'[g] = call[g]
    BY DEF execute_notice, TypeOK, IdleCall
  <2>5. \A g \in Hosts : call[g].pc = "finalize" => call[g].notice \in Notices
    BY DEF TypeOK, Call
  <2> QED BY <2>2, <2>3, <2>4, <2>5 DEF StartedSettled, SettledAt, Held, Dwell
<1>2. CASE \E h \in Hosts, n \in Notices : finalize_begin(h, n)
  <2> PICK h \in Hosts, n \in Notices : finalize_begin(h, n)
    BY <1>2
  <2>1. UNCHANGED <<headers, now>> /\ SettledAt(n, now)
    BY DEF finalize_begin, settled
  <2>2. \A g \in Hosts : call'[g] = call[g] \/ (call'[g].notice = n /\ call'[g].clock = now)
    BY DEF finalize_begin, TypeOK, IdleCall
  <2> QED BY <2>1, <2>2 DEF RecordedPast, StartedSettled, SettledAt, Held, Dwell
<1>3. CASE \E h \in Hosts : purge_mark_finalized(h)
  <2> PICK h \in Hosts : purge_mark_finalized(h)
    BY <1>3
  <2>1. /\ now' = now /\ call[h].notice \in Notices
        /\ headers' = [headers EXCEPT ![call[h].notice].pc = "finalized"]
        /\ call' = [call EXCEPT ![h] = IdleCall]
    BY DEF purge_mark_finalized, Between, TypeOK, Call
  <2>2. \A n \in Notices : /\ headers'[n].at = headers[n].at
                           /\ headers[n].pc # "none" => headers'[n].pc # "none"
    BY <2>1 DEF TypeOK, Header
  <2>3. \A g \in Hosts : call'[g].pc = "finalize" => call'[g] = call[g]
    BY <2>1 DEF TypeOK, IdleCall
  <2>4. \A g \in Hosts : call[g].pc = "finalize" => call[g].notice \in Notices
    BY DEF TypeOK, Call
  <2>5. RecordedPast'
    BY <2>1, <2>2 DEF RecordedPast
  <2> QED BY <2>2, <2>3, <2>4, <2>5 DEF StartedSettled, SettledAt, Held, Dwell
<1>4. CASE \E h \in Hosts : \/ finalize_already(h) \/ call_fails(h) \/ evict_chunk(h)
                            \/ \E b \in Blobs : void_record(h, b) \/ evict_record(h, b) \/ judge_chunk(h, b)
  <2> PICK h \in Hosts : \/ finalize_already(h) \/ call_fails(h) \/ evict_chunk(h)
                         \/ \E b \in Blobs : void_record(h, b) \/ evict_record(h, b) \/ judge_chunk(h, b)
    BY <1>4
  <2>1. UNCHANGED <<headers, now>>
    BY DEF finalize_already, call_fails, evict_chunk, void_record, evict_record, judge_chunk
  <2>2. \A g \in Hosts : call'[g].pc = "finalize" =>
          /\ call[g].pc = "finalize" /\ call'[g].notice = call[g].notice
          /\ call'[g].clock = call[g].clock
    <3> SUFFICES ASSUME NEW g \in Hosts, call'[g].pc = "finalize"
                 PROVE  /\ call[g].pc = "finalize" /\ call'[g].notice = call[g].notice
                        /\ call'[g].clock = call[g].clock
      OBVIOUS
    <3>0. call[g] \in Call /\ call[h] \in Call /\ IdleCall.pc = "idle"
      BY DEF TypeOK, IdleCall
    <3>1. CASE finalize_already(h) \/ call_fails(h)
      BY <3>0, <3>1 DEF finalize_already, call_fails, TypeOK
    <3>2. CASE evict_chunk(h)
      BY <3>0, <3>2 DEF evict_chunk, Walking, TypeOK, Call
    <3>3. CASE \E b \in Blobs : void_record(h, b)
      BY <3>0, <3>3 DEF void_record, Between, TypeOK, Call
    <3>4. CASE \E b \in Blobs : evict_record(h, b)
      <4> PICK b \in Blobs : evict_record(h, b)
        BY <3>4
      <4> DEFINE L == IF b \in links THEN Of[b] ELSE {}
      <4>1. call' = [call EXCEPT ![h].todo = @ \ {b}, ![h].root = b, ![h].left = L]
        BY DEF evict_record
      <4> HIDE DEF L
      <4>2. call'[h] = [call[h] EXCEPT !.todo = @ \ {b}, !.root = b, !.left = L]
        BY <3>0, <4>1 DEF TypeOK
      <4>3. g # h => call'[g] = call[g]
        BY <4>1 DEF TypeOK
      <4>4. call'[h].notice = call[h].notice /\ call'[h].clock = call[h].clock
        BY <3>0, <4>2 DEF Call
      <4>5. call[h].pc = "finalize"
        BY DEF evict_record, Between
      <4> QED BY <4>3, <4>4, <4>5
    <3>5. CASE \E b \in Blobs : judge_chunk(h, b)
      BY <3>0, <3>5 DEF judge_chunk, Walking, TypeOK, Call
    <3> QED BY <3>1, <3>2, <3>3, <3>4, <3>5
  <2> QED BY <2>1, <2>2 DEF RecordedPast, StartedSettled, SettledAt, Held, Dwell
<1>5. CASE UNCHANGED <<headers, call>> /\ now' \in Nat /\ now <= now'
  <2>1. RecordedPast'
    BY <1>0, <1>5 DEF RecordedPast
  <2> QED BY <2>1, <1>5 DEF StartedSettled, SettledAt, Held, Dwell
<1>6. CASE \/ \E d \in Doors : (\E s \in Batches : put_begin(d, s)) \/ put_commit(d) \/ put_end(d)
           \/ tick \/ \E n \in Notices : reverse(n) \/ reversal_lapses(n)
  BY <1>0, <1>5, <1>6 DEF put_begin, put_commit, put_end, tick, reverse, reversal_lapses
<1> QED BY <1>1, <1>2, <1>3, <1>4, <1>6 DEF Next, Step

\* The inductive invariant of the shared chunks.
LEMMA ChunkInvariant == Spec => []ChunkInv
<1>1. Init => ChunkInv
  <2> SUFFICES ASSUME Init PROVE RecordedPast /\ StartedSettled /\ OrphanInv
    BY InitInv DEF ChunkInv
  <2> QED BY DEF Init, RecordedPast, StartedSettled, OrphanInv, IdleCall
<1>2. ChunkInv /\ [Next]_vars => ChunkInv'
  <2> SUFFICES ASSUME ChunkInv, [Next]_vars PROVE ChunkInv'
    OBVIOUS
  <2>1. TombstoneInv'
    BY StepInv DEF ChunkInv
  <2>2. CASE Next
    <3>1. OrphanInv'
      <4>1. CASE \E d \in Doors : (\E s \in Batches : put_begin(d, s)) \/ put_commit(d) \/ put_end(d)
        BY <4>1, ChunkQuiet, ChunkPut
      <4>2. CASE \E h \in Hosts, n \in Notices : execute_notice(h, n) \/ finalize_begin(h, n)
        BY <4>2, ChunkQuiet, ChunkRecorded
      <4>3. CASE \E h \in Hosts : Step(h)
        BY <4>3, ChunkQuiet, ChunkRecord, ChunkJudged, ChunkEvicted, ChunkMarked DEF Step
      <4>4. CASE \E h \in Hosts : call_fails(h)
        BY <4>4, ChunkQuiet
      <4>5. CASE tick \/ \E n \in Notices : reverse(n) \/ reversal_lapses(n)
        BY <4>5, ChunkQuiet
      <4> QED BY <2>2, <4>1, <4>2, <4>3, <4>4, <4>5 DEF Next
    <3> QED BY <2>1, <2>2, <3>1, ClockStep DEF ChunkInv
  <2>3. CASE UNCHANGED vars
    <3>1. UNCHANGED <<blobs, links, headers, tombs, now, call, lifted, late>>
      BY <2>3 DEF vars
    <3>2. RecordedPast' /\ StartedSettled'
      BY <3>1 DEF ChunkInv, RecordedPast, StartedSettled, SettledAt, Held, Dwell
    <3>3. OrphanInv'
      <4>1. \A n, m, c : Passed(n, m, c)' <=> Passed(n, m, c)
        BY <3>1 DEF Passed
      <4>2. /\ lifted \subseteq lifted' /\ \A n \in Notices : headers'[n].at = headers[n].at
            /\ (Chunks \cap blobs') \ late' \subseteq blobs \ late
        BY <3>1
      <4> QED BY <3>1, <4>1, <4>2, ChunkFrame DEF ChunkInv, TombstoneInv
    <3> QED BY <2>1, <3>2, <3>3 DEF ChunkInv
  <2> QED BY <2>2, <2>3
<1> QED BY <1>1, <1>2, PTL DEF Spec

\* However the finalizes of its manifests overlap, the chunk the walk of
\* purge_evict_blob_on leaves to another finalize goes with the last of them.
THEOREM SharedChunksGo == Spec => []OrphanChunksGone
<1>1. ChunkInv => OrphanChunksGone
  <2> SUFFICES ASSUME ChunkInv, NEW c \in Chunks \cap blobs, Parents(c, links) # {},
                      \A m \in Parents(c, links) :
                         /\ NoticesOf(m) # {}
                         /\ \A n \in NoticesOf(m) : headers[n].pc = "finalized" /\ n \notin lifted
               PROVE  c \in late
    BY DEF OrphanChunksGone
  <2>1. ~Kept(c)
    BY DEF Kept
  <2>2. ~Awaited(c)
    BY DEF Awaited, Passed
  <2> QED BY <2>1, <2>2 DEF ChunkInv, OrphanInv
<1> QED BY <1>1, ChunkInvariant, PTL

=============================================================================
