------------------------- MODULE CommunityDekProofs -------------------------
(***************************************************************************)
(* Proofs about the community DEK cascade, for every roster, every number   *)
(* of calls and attempts, every skew, retention and clock.                  *)
(*                                                                          *)
(* None of the properties is inductive.  PointerInv says that epochs ahead  *)
(* of the pointer are untouched and that an epoch never minted has no       *)
(* wraps; CallInv what a call knows when it stands at one of its awaits;    *)
(* KeyInv that everybody who holds the key of an epoch - the row, the       *)
(* wraps, the calls about to wrap or bind - holds the same one, also after  *)
(* the row has lost it to a destroy; RowInv that the row an attempt is to   *)
(* store is untouched until it stores it.                                   *)
(***************************************************************************)
EXTENDS CommunityDek, TLAPS

PointerInv ==
    /\ \A e \in Epochs : e > pointer => dek[e].state = "absent"
    /\ \A e \in Epochs : dek[e].state = "absent" => \A m \in Members : grants[e][m] = None
    /\ \A m \in Members : cut[m] # None =>
          cut[m] <= pointer /\ left[m] # None /\ left[m] <= now

Storing == {"bind", "delete", "cleanup"}

Holding == {"already", "wrap"}

\* A call that has not rotated since it resolved the roster works on an epoch
\* older than the one the removal of any of its recipients rotated to.
CallOk(c) ==
    /\ call[c].epoch <= pointer
    /\ call[c].pc \in {"retire_removal", "retire_leaver"} =>
          call[c].next <= pointer /\ call[c].rotated
    /\ call[c].pc \in {"read", "resolve"} \cup Storing \cup Ends =>
          call[c].members = {} /\ call[c].targets = {}
    /\ call[c].pc = "wrap" => call[c].members = {}
    /\ \A m \in call[c].members \cup call[c].targets :
          cut[m] # None /\ ~call[c].rotated => call[c].epoch < cut[m]

CallInv == \A c \in Calls : CallOk(c)

KeyInv ==
    /\ \A c \in Calls : call[c].pc \in Holding =>
          /\ call[c].key # None
          /\ dek[call[c].epoch].state # "absent"
          /\ dek[call[c].epoch].key # None => dek[call[c].epoch].key = call[c].key
          /\ \A m \in Members : grants[call[c].epoch][m] # None =>
                grants[call[c].epoch][m] = call[c].key
    /\ \A c, d \in Calls :
          call[c].pc \in Holding /\ call[d].pc \in Holding /\ call[c].epoch = call[d].epoch =>
              call[c].key = call[d].key
    /\ \A c \in Calls : call[c].pc = "bind" =>
          /\ dek[call[c].epoch].state # "absent"
          /\ dek[call[c].epoch].key # None => blobs[Seal(c)].key = dek[call[c].epoch].key

RowInv ==
    /\ \A c \in Calls : \A a \in 1..Attempts :
          call[c].pc \in Steps /\ a >= call[c].attempt =>
              /\ blobs[<<c, a>>].epoch = None /\ ~blobs[<<c, a>>].evicted
              /\ (a > call[c].attempt \/ call[c].pc \notin Storing) => ~blobs[<<c, a>>].stored
    /\ \A b \in Seals : blobs[b].evicted => ~blobs[b].stored

DekInv ==
    /\ TypeOK /\ PointerInv /\ CallInv /\ KeyInv /\ RowInv
    /\ BoundReadable /\ OneKeyPerEpoch /\ PointerUsable /\ NoOrphan /\ RemovalRotatesOut

-----------------------------------------------------------------------------
(* Most steps mint nothing, wrap nothing and leave the rows alone: they     *)
(* move a call, the pointer or a key state, or destroy an epoch.            *)

\* What such a step may do to the key plane.
KeysShrink ==
    /\ dek' \in [Epochs -> Dek] /\ grants' \in [Epochs -> [Members -> Seals \cup {None}]]
    /\ \A e \in Epochs :
          /\ dek'[e].key = None <=> dek'[e].state \in {"absent", "destroyed"}
          /\ dek'[e].state = "absent" <=> dek[e].state = "absent"
          /\ dek'[e].key = dek[e].key \/ (dek'[e].key = None /\ Live(e) = {})
          /\ \A m \in Members : grants'[e][m] \in {grants[e][m], None}
    /\ pointer' \in Epochs /\ pointer' \in {pointer, pointer + 1}
    /\ dek'[pointer'].state \in {"absent", "enabled"}

\* What such a step may do to the locals of a call.
Moves(d) ==
    /\ call'[d].epoch <= pointer'
    /\ call'[d].pc \in {"retire_removal", "retire_leaver"} =>
          call'[d].next <= pointer' /\ call'[d].rotated
    /\ call'[d].pc \in {"read", "resolve"} \cup Storing \cup Ends =>
          call'[d].members = {} /\ call'[d].targets = {}
    /\ call'[d].pc = "wrap" => call'[d].members = {}
    /\ \A m \in call'[d].members \cup call'[d].targets :
          cut[m] # None /\ ~call'[d].rotated => call'[d].epoch < cut[m]
    /\ call'[d].pc \in Holding =>
          \/ call[d].pc \in Holding /\ call'[d].epoch = call[d].epoch /\ call'[d].key = call[d].key
          \/ call'[d].key # None /\ call'[d].key = dek[call'[d].epoch].key /\ dek' = dek
    /\ call'[d].pc # "bind"
    /\ call'[d].pc \in Steps =>
          /\ call[d].pc \in Steps /\ call'[d].attempt = call[d].attempt
          /\ call'[d].pc \in Storing <=> call[d].pc \in Storing
    /\ call[d].pc \in Storing =>
          call'[d].attempt = call[d].attempt /\ call'[d].pc \in {"delete", "cleanup", "dead"}

LEMMA QuietStep ==
    ASSUME DekInv, KeysShrink, call' \in [Calls -> Call], sweep' \in Sweep,
           \A d \in Calls : call'[d] = call[d] \/ (call[d].pc \in Steps /\ Moves(d)),
           UNCHANGED <<blobs, own, roster_vars>>
    PROVE  DekInv'
<1> USE DEF DekInv
<1>1. UNCHANGED <<blobs, own, now, left, removals, kept_off, cut>>
  BY DEF roster_vars
<1>2. TypeOK'
  BY <1>1 DEF TypeOK, KeysShrink
<1>3. PointerInv'
  <2>1. ASSUME NEW e \in Epochs, e > pointer' PROVE dek'[e].state = "absent"
    BY <2>1 DEF PointerInv, KeysShrink, TypeOK, Epochs
  <2>2. ASSUME NEW e \in Epochs, dek'[e].state = "absent", NEW m \in Members
        PROVE  grants'[e][m] = None
    BY <2>2 DEF PointerInv, KeysShrink
  <2>3. ASSUME NEW m \in Members, cut'[m] # None
        PROVE  cut'[m] <= pointer' /\ left'[m] # None /\ left'[m] <= now'
    BY <1>1, <2>3, DekAssumption DEF PointerInv, KeysShrink, TypeOK, Epochs
  <2> QED BY <2>1, <2>2, <2>3 DEF PointerInv
<1>4. CallInv'
  <2> SUFFICES ASSUME NEW c \in Calls, call'[c] = call[c]
               PROVE  /\ call'[c].epoch <= pointer'
                      /\ call'[c].pc \in {"retire_removal", "retire_leaver"} =>
                            call'[c].next <= pointer' /\ call'[c].rotated
    BY <1>1 DEF CallInv, CallOk, Moves
  <2> QED BY DEF CallInv, CallOk, KeysShrink, TypeOK, Call, Epochs
<1>5. KeyInv'
  <2>1. ASSUME NEW c \in Calls, call'[c].pc \in Holding
        PROVE  /\ call'[c].key # None
               /\ dek'[call'[c].epoch].state # "absent"
               /\ dek'[call'[c].epoch].key # None => dek'[call'[c].epoch].key = call'[c].key
               /\ \A m \in Members : grants'[call'[c].epoch][m] # None =>
                     grants'[call'[c].epoch][m] = call'[c].key
    <3> call'[c].epoch \in Epochs
      BY DEF Call
    <3>1. CASE call[c].pc \in Holding /\ call'[c].epoch = call[c].epoch /\ call'[c].key = call[c].key
      <4>1. /\ dek[call[c].epoch].state # "absent" /\ call[c].key # None
            /\ dek[call[c].epoch].key # None => dek[call[c].epoch].key = call[c].key
            /\ \A m \in Members : grants[call[c].epoch][m] # None =>
                  grants[call[c].epoch][m] = call[c].key
        BY <3>1 DEF KeyInv
      <4>2. dek'[call[c].epoch].state # "absent" /\ dek'[call[c].epoch].key \in {dek[call[c].epoch].key, None}
        BY <3>1, <4>1 DEF KeysShrink
      <4>3. \A m \in Members : grants'[call[c].epoch][m] \in {grants[call[c].epoch][m], None}
        BY <3>1 DEF KeysShrink
      <4> QED BY <3>1, <4>1, <4>2, <4>3
    <3>2. CASE call'[c].key # None /\ call'[c].key = dek[call'[c].epoch].key /\ dek' = dek
      BY <3>2 DEF OneKeyPerEpoch, KeysShrink, TypeOK
    <3> QED BY <2>1, <3>1, <3>2 DEF Moves
  <2>2. ASSUME NEW c \in Calls, NEW d \in Calls, call'[c].pc \in Holding,
               call'[d].pc \in Holding, call'[c].epoch = call'[d].epoch
        PROVE  call'[c].key = call'[d].key
    <3> call'[c].epoch \in Epochs /\ call'[d].epoch \in Epochs
      BY DEF Call
    <3>1. CASE dek[call'[c].epoch].key = None
      BY <2>2, <3>1 DEF Moves, KeyInv
    <3>2. CASE dek[call'[c].epoch].key # None
      BY <2>2, <3>2 DEF Moves, KeyInv
    <3> QED BY <3>1, <3>2
  <2>3. ASSUME NEW c \in Calls, call'[c].pc = "bind"
        PROVE  /\ dek'[call'[c].epoch].state # "absent"
               /\ dek'[call'[c].epoch].key # None =>
                     blobs'[Seal(c)'].key = dek'[call'[c].epoch].key
    <3>1. call'[c] = call[c]
      BY <2>3 DEF Moves
    <3>2. call[c].epoch \in Epochs
      BY DEF TypeOK, Call
    <3>3. /\ dek[call[c].epoch].state # "absent"
          /\ dek[call[c].epoch].key # None => blobs[Seal(c)].key = dek[call[c].epoch].key
      BY <2>3, <3>1 DEF KeyInv
    <3>4. dek'[call[c].epoch].state # "absent" /\ dek'[call[c].epoch].key \in {dek[call[c].epoch].key, None}
      BY <3>2, <3>3 DEF KeysShrink
    <3> QED BY <1>1, <3>1, <3>3, <3>4 DEF Seal
  <2> QED BY <2>1, <2>2, <2>3 DEF KeyInv
<1>6. RowInv'
  BY <1>1 DEF RowInv, Moves
<1>7. BoundReadable'
  <2> SUFFICES ASSUME NEW b \in Seals, blobs[b].stored, blobs[b].epoch # None
               PROVE  /\ dek'[blobs[b].epoch].state \in {"enabled", "disabled"}
                      /\ dek'[blobs[b].epoch].key = blobs[b].key
    BY <1>1 DEF BoundReadable
  <2>1. blobs[b].epoch \in Epochs /\ ~blobs[b].evicted
    BY DEF TypeOK, Blob, RowInv
  <2>2. b \in Live(blobs[b].epoch)
    BY <2>1 DEF Live
  <2>3. dek'[blobs[b].epoch].key = dek[blobs[b].epoch].key
    BY <2>1, <2>2 DEF KeysShrink
  <2>4. dek'[blobs[b].epoch].key # None
    BY <2>1, <2>3 DEF BoundReadable, TypeOK
  <2>5. dek'[blobs[b].epoch] \in Dek
    BY <2>1 DEF KeysShrink
  <2> QED BY <2>1, <2>3, <2>4, <2>5 DEF KeysShrink, BoundReadable, Dek, States
<1>8. OneKeyPerEpoch'
  BY DEF OneKeyPerEpoch, KeysShrink
<1>9. PointerUsable'
  BY DEF PointerUsable, KeysShrink
<1>10. NoOrphan'
  <2> SUFFICES ASSUME NEW c \in Calls, NEW a \in 1..Attempts,
                      blobs[<<c, a>>].stored, blobs[<<c, a>>].epoch = None
               PROVE  /\ call'[c].attempt = a
                      /\ call'[c].pc \in {"bind", "delete", "cleanup", "dead"}
    BY <1>1 DEF NoOrphan
  <2>1. call[c].attempt = a /\ call[c].pc \in Storing \cup {"dead"}
    BY DEF NoOrphan, Storing
  <2>2. CASE call'[c] = call[c]
    BY <2>1, <2>2 DEF Storing
  <2>3. CASE call[c].pc \in Steps /\ Moves(c)
    <3>1. call[c].pc \in Storing
      BY <2>1, <2>3 DEF Steps, Storing
    <3> QED BY <2>1, <2>3, <3>1 DEF Moves
  <2> QED BY <2>2, <2>3
<1>11. RemovalRotatesOut'
  BY <1>1 DEF RemovalRotatesOut, KeysShrink
<1> QED BY <1>2, <1>3, <1>4, <1>5, <1>6, <1>7, <1>8, <1>9, <1>10, <1>11

-----------------------------------------------------------------------------
(* The key plane of the quiet steps.                                        *)

LEMMA SameKeys ==
    ASSUME DekInv, UNCHANGED <<dek, grants, pointer>> PROVE KeysShrink
BY DEF DekInv, TypeOK, PointerUsable, KeysShrink

LEMMA Bumped ==
    ASSUME DekInv, pointer < MaxEpoch, pointer' = pointer + 1, UNCHANGED <<dek, grants>>
    PROVE  KeysShrink /\ pointer' \in Epochs
<1>1. pointer' \in Epochs /\ pointer' > pointer
  BY DekAssumption DEF DekInv, TypeOK, Epochs
<1>2. dek[pointer'].state = "absent"
  BY <1>1 DEF DekInv, PointerInv
<1> QED BY <1>1, <1>2 DEF DekInv, TypeOK, KeysShrink

LEMMA Relabelled ==
    ASSUME DekInv, NEW e \in Epochs, NEW s \in {"enabled", "disabled"},
           dek[e].state \in {"enabled", "disabled"}, s = "disabled" => e # pointer,
           dek' = with_state(e, s), UNCHANGED <<grants, pointer>>
    PROVE  KeysShrink
<1>1. /\ dek' \in [Epochs -> Dek]
      /\ dek'[e].state = s /\ dek'[e].key = dek[e].key
      /\ \A f \in Epochs : f # e => dek'[f] = dek[f]
  BY DEF DekInv, TypeOK, with_state, Dek, States
<1>2. dek'[pointer].state \in {"absent", "enabled"}
  BY <1>1 DEF DekInv, TypeOK, PointerUsable
<1> QED BY <1>1, <1>2 DEF DekInv, TypeOK, KeysShrink

LEMMA DestroyedKeys ==
    ASSUME DekInv, NEW e \in Epochs, can_destroy(e), dek' = without_key(e),
           grants' = no_grants(e), UNCHANGED pointer
    PROVE  KeysShrink
<1>1. /\ dek' \in [Epochs -> Dek]
      /\ dek'[e].state = "destroyed" /\ dek'[e].key = None
      /\ \A f \in Epochs : f # e => dek'[f] = dek[f]
  <2>1. [dek[e] EXCEPT !.state = "destroyed", !.key = None] \in Dek
    BY DEF DekInv, TypeOK, Dek, States
  <2> QED BY <2>1 DEF DekInv, TypeOK, without_key, Dek
<1>2. /\ grants' \in [Epochs -> [Members -> Seals \cup {None}]]
      /\ \A f \in Epochs : \A m \in Members : grants'[f][m] \in {grants[f][m], None}
  BY DEF DekInv, TypeOK, no_grants
<1>3. e # pointer /\ dek[e].state # "absent" /\ Live(e) = {}
  BY DEF can_destroy, can_retire
<1>4. dek'[pointer].state \in {"absent", "enabled"}
  BY <1>1, <1>3 DEF DekInv, TypeOK, PointerUsable
<1> QED BY <1>1, <1>2, <1>3, <1>4 DEF DekInv, TypeOK, KeysShrink

-----------------------------------------------------------------------------
(* The steps of a call.                                                     *)

LEMMA BecomesOnly ==
    ASSUME call \in [Calls -> Call], NEW c \in Calls, NEW r \in Call, Becomes(c, r)
    PROVE  call' \in [Calls -> Call] /\ call'[c] = r /\ \A d \in Calls : d # c => call'[d] = call[d]
BY DEF Becomes

\* Locals of a call that starts over or has ended.
LEMMA LocalsTyped ==
    ASSUME NEW pc \in Steps \cup Ends, NEW a \in 1..Attempts
    PROVE  Locals(pc, a) \in Call
BY DekAssumption DEF Locals, Call, Epochs

\* A call that returns an error, and stores nothing.
LEMMA Returns ==
    ASSUME DekInv, NEW c \in Calls, Return(c), call[c].pc \in Steps \ Storing,
           KeysShrink, UNCHANGED <<blobs, sweep, own, roster_vars>>
    PROVE  DekInv'
<1>1. 1 \in 1..Attempts
  BY DekAssumption
<1>2. Locals("done", 1) \in Call
  BY <1>1, LocalsTyped DEF Ends
<1>3. /\ call' \in [Calls -> Call] /\ call'[c] = Locals("done", 1)
      /\ \A d \in Calls : d # c => call'[d] = call[d]
  BY <1>2, BecomesOnly DEF Return, DekInv, TypeOK
<1>4. Moves(c)
  BY <1>3, DekAssumption DEF Moves, Locals, KeysShrink, Epochs, Steps, Storing, Holding
<1>5. sweep' \in Sweep
  BY DEF DekInv, TypeOK
<1> QED BY <1>3, <1>4, <1>5, QuietStep

\* A call whose locals become r, without new key material.
LEMMA MovesTo ==
    ASSUME DekInv, NEW c \in Calls, NEW r \in Call, Becomes(c, r),
           call[c].pc \in Steps, KeysShrink, call'[c] = r => Moves(c),
           UNCHANGED <<blobs, sweep, own, roster_vars>>
    PROVE  DekInv'
<1>1. /\ call' \in [Calls -> Call] /\ call'[c] = r
      /\ \A d \in Calls : d # c => call'[d] = call[d]
  BY BecomesOnly DEF DekInv, TypeOK
<1>2. sweep' \in Sweep
  BY DEF DekInv, TypeOK
<1> QED BY <1>1, <1>2, QuietStep

LEMMA ReadEpochStep == ASSUME DekInv, NEW c \in Calls, read_epoch(c) PROVE DekInv'
<1> DEFINE r == [call[c] EXCEPT !.pc = "resolve", !.epoch = pointer]
<1>1. call[c] \in Call /\ pointer \in Epochs
  BY DEF DekInv, TypeOK
<1>2. r \in Call
  BY <1>1 DEF Call, Steps
<1>3. /\ r.pc = "resolve" /\ r.epoch = pointer /\ r.members = call[c].members
      /\ r.targets = call[c].targets /\ r.attempt = call[c].attempt
  BY <1>1 DEF Call
<1>4. call[c].pc = "read" /\ call[c].members = {} /\ call[c].targets = {}
  BY DEF read_epoch, At, DekInv, CallInv, CallOk
<1>5. UNCHANGED <<dek, grants, pointer, blobs, sweep, own, roster_vars>> /\ Becomes(c, r)
  BY DEF read_epoch
<1>6. ASSUME call'[c] = r PROVE Moves(c)
  BY <1>1, <1>3, <1>4, <1>5, <1>6 DEF Moves, Steps, Storing, Holding, Ends, Epochs
<1> QED BY <1>2, <1>4, <1>5, <1>6, SameKeys, MovesTo DEF Steps

LEMMA ResolveStep ==
    ASSUME DekInv, NEW c \in Calls, resolve_community_members(c) PROVE DekInv'
<1>1. call[c] \in Call /\ removals \subseteq Members \X Nat
  BY DEF DekInv, TypeOK
<1>2. PICK t \in InEffect \cup {None} :
         Becomes(c, [call[c] EXCEPT !.pc = "rotate", !.members = Recipients, !.removed_at = t])
  BY DEF resolve_community_members
<1> DEFINE r == [call[c] EXCEPT !.pc = "rotate", !.members = Recipients, !.removed_at = t]
<1>3. r \in Call
  BY <1>1 DEF Call, Steps, Recipients, InEffect
<1>4. /\ r.pc = "rotate" /\ r.epoch = call[c].epoch /\ r.members = Recipients
      /\ r.targets = call[c].targets /\ r.attempt = call[c].attempt
  BY <1>1 DEF Call
<1>5. call[c].pc = "resolve" /\ call[c].targets = {} /\ call[c].epoch <= pointer
  BY DEF resolve_community_members, At, DekInv, CallInv, CallOk
<1>6. UNCHANGED <<dek, grants, pointer, blobs, sweep, own, roster_vars>>
  BY DEF resolve_community_members
<1>7. \A m \in Recipients : cut[m] = None
  BY DEF Recipients, Removed, DekInv, PointerInv
<1>8. ASSUME call'[c] = r PROVE Moves(c)
  BY <1>4, <1>5, <1>6, <1>7, <1>8 DEF Moves, Steps, Storing, Holding, Ends
<1> QED BY <1>2, <1>3, <1>5, <1>6, <1>8, SameKeys, MovesTo DEF Steps

\* A bump on behalf of a call that already holds its roster.
LEMMA BumpStep ==
    ASSUME DekInv, NEW c \in Calls, NEW pc \in {"retire_removal", "retire_leaver"},
           bump_epoch(c, pc), call[c].pc \in Steps \ Storing,
           UNCHANGED <<dek, grants, blobs, sweep, own, roster_vars>>
    PROVE  DekInv'
<1> DEFINE r == [call[c] EXCEPT !.pc = pc, !.next = pointer', !.rotated = TRUE]
<1>1. KeysShrink /\ pointer' \in Epochs /\ pointer' = pointer + 1 /\ Becomes(c, r)
  BY Bumped DEF bump_epoch
<1>2. call[c] \in Call
  BY DEF DekInv, TypeOK
<1>3. r \in Call
  BY <1>1, <1>2 DEF Call, Steps
<1>4. /\ r.pc = pc /\ r.next = pointer' /\ r.rotated /\ r.attempt = call[c].attempt
      /\ r.epoch = call[c].epoch
  BY <1>2 DEF Call
<1>5. call[c].epoch <= pointer' /\ pointer' <= pointer'
  BY <1>1, <1>2 DEF DekInv, CallInv, CallOk, TypeOK, Epochs, Call
<1>6. ASSUME call'[c] = r PROVE Moves(c)
  BY <1>1, <1>4, <1>5, <1>6 DEF Moves, Steps, Storing, Holding, Ends
<1> QED BY <1>1, <1>3, <1>6, MovesTo

\* A step that only moves the program counter, to a place that promises nothing.
LEMMA GotoStep ==
    ASSUME DekInv, NEW c \in Calls, NEW pc \in {"past", "state", "get", "put"},
           Goto(c, pc), call[c].pc \in {"rotate", "disable", "state", "get"},
           UNCHANGED <<dek, grants, pointer, blobs, sweep, own, roster_vars>>
    PROVE  DekInv'
<1> DEFINE r == [call[c] EXCEPT !.pc = pc]
<1>1. call[c] \in Call
  BY DEF DekInv, TypeOK
<1>2. r \in Call /\ Becomes(c, r)
  BY <1>1 DEF Call, Steps, Goto
<1>3. /\ r.pc = pc /\ r.epoch = call[c].epoch /\ r.members = call[c].members
      /\ r.targets = call[c].targets /\ r.rotated = call[c].rotated
      /\ r.attempt = call[c].attempt
  BY <1>1 DEF Call
<1>4. ASSUME call'[c] = r PROVE Moves(c)
  BY <1>3, <1>4 DEF Moves, DekInv, CallInv, CallOk, Steps, Storing, Holding, Ends
<1> QED BY <1>2, <1>4, SameKeys, MovesTo DEF Steps

LEMMA RotateStep == ASSUME DekInv, NEW c \in Calls, rotate_on_removal(c) PROVE DekInv'
<1>1. CASE MintedBeforeRemoval(c, call[c].epoch)
  BY <1>1, BumpStep DEF rotate_on_removal, At, Steps, Storing
<1>2. CASE ~MintedBeforeRemoval(c, call[c].epoch)
  BY <1>2, GotoStep DEF rotate_on_removal, At
<1> QED BY <1>1, <1>2

LEMMA LeaverStep == ASSUME DekInv, NEW c \in Calls, rotate_on_leaver(c) PROVE DekInv'
<1>1. CASE Held(call[c].epoch) \subseteq call[c].members
  BY <1>1, GotoStep DEF rotate_on_leaver, At
<1>2. CASE ~(Held(call[c].epoch) \subseteq call[c].members)
  BY <1>2, BumpStep DEF rotate_on_leaver, At, Steps, Storing
<1> QED BY <1>1, <1>2

LEMMA RetireStep ==
    ASSUME DekInv, NEW c \in Calls, NEW from \in {"retire_removal", "retire_leaver"},
           NEW to \in {"past", "state"}, retire_epoch(c, from, to)
    PROVE  DekInv'
<1>1. /\ call[c] \in Call /\ call[c].epoch \in Epochs /\ call[c].pc = from
      /\ UNCHANGED <<pointer, grants, blobs, sweep, own, roster_vars>>
  BY DEF DekInv, TypeOK, Call, retire_epoch, At
<1>2. CASE can_retire(call[c].epoch)
  <2> DEFINE r == [call[c] EXCEPT !.pc = to, !.epoch = call[c].next, !.next = 0]
  <2>1. KeysShrink
    BY <1>1, <1>2, Relabelled DEF retire_epoch, can_retire
  <2>2. r \in Call /\ Becomes(c, r)
    <3>1. 0 \in Epochs /\ to \in Steps
      BY DekAssumption DEF Epochs, Steps
    <3>2. r \in Call
      BY <1>1, <3>1 DEF Call
    <3> QED BY <1>2, <3>2 DEF retire_epoch
  <2>3. /\ r.pc = to /\ r.epoch = call[c].next /\ r.members = call[c].members
        /\ r.targets = call[c].targets /\ r.rotated = call[c].rotated
        /\ r.attempt = call[c].attempt
    BY <1>1 DEF Call
  <2>4. call[c].next <= pointer /\ call[c].rotated
    BY <1>1 DEF DekInv, CallInv, CallOk
  <2>5. ASSUME call'[c] = r PROVE Moves(c)
    BY <1>1, <2>3, <2>4, <2>5 DEF Moves, Steps, Storing, Holding, Ends
  <2> QED BY <1>1, <2>1, <2>2, <2>5, MovesTo DEF Steps
<1>3. CASE ~can_retire(call[c].epoch)
  BY <1>1, <1>3, SameKeys, Returns DEF retire_epoch, Steps, Storing
<1> QED BY <1>2, <1>3

LEMMA ListPastStep == ASSUME DekInv, NEW c \in Calls, list_past_epochs(c) PROVE DekInv'
<1> DEFINE r == [call[c] EXCEPT !.pc = "disable", !.removed_at = None, !.past = PastToDisable(c)]
<1>1. call[c] \in Call
  BY DEF DekInv, TypeOK
<1>2. r \in Call /\ Becomes(c, r)
  BY <1>1 DEF Call, Steps, list_past_epochs, PastToDisable
<1>3. /\ r.pc = "disable" /\ r.epoch = call[c].epoch /\ r.members = call[c].members
      /\ r.targets = call[c].targets /\ r.rotated = call[c].rotated
      /\ r.attempt = call[c].attempt
  BY <1>1 DEF Call
<1>4. call[c].pc = "past" /\ UNCHANGED <<dek, grants, pointer, blobs, sweep, own, roster_vars>>
  BY DEF list_past_epochs, At
<1>5. ASSUME call'[c] = r PROVE Moves(c)
  BY <1>3, <1>4, <1>5 DEF Moves, DekInv, CallInv, CallOk, Steps, Storing, Holding, Ends
<1> QED BY <1>2, <1>4, <1>5, SameKeys, MovesTo DEF Steps

LEMMA DisablePastStep ==
    ASSUME DekInv, NEW c \in Calls, NEW p \in Epochs, disable_past_epoch(c, p) PROVE DekInv'
<1>1. /\ call[c] \in Call /\ call[c].pc = "disable"
      /\ UNCHANGED <<pointer, grants, blobs, sweep, own, roster_vars>>
  BY DEF DekInv, TypeOK, disable_past_epoch, At
<1>2. CASE can_retire(p)
  <2> DEFINE r == [call[c] EXCEPT !.past = @ \ {p}]
  <2>1. KeysShrink
    BY <1>1, <1>2, Relabelled DEF disable_past_epoch, can_retire
  <2>2. r \in Call /\ Becomes(c, r)
    BY <1>1, <1>2 DEF Call, disable_past_epoch
  <2>3. /\ r.pc = call[c].pc /\ r.epoch = call[c].epoch /\ r.members = call[c].members
        /\ r.targets = call[c].targets /\ r.rotated = call[c].rotated
        /\ r.attempt = call[c].attempt
    BY <1>1 DEF Call
  <2>4. ASSUME call'[c] = r PROVE Moves(c)
    BY <1>1, <2>3, <2>4 DEF Moves, DekInv, CallInv, CallOk, Steps, Storing, Holding, Ends
  <2> QED BY <1>1, <2>1, <2>2, <2>4, MovesTo DEF Steps
<1>3. CASE ~can_retire(p)
  BY <1>1, <1>3, SameKeys, Returns DEF disable_past_epoch, Steps, Storing
<1> QED BY <1>2, <1>3

LEMMA CheckStep == ASSUME DekInv, NEW c \in Calls, check_key_state(c) PROVE DekInv'
<1>1. CASE dek[call[c].epoch].state \in {"absent", "enabled"}
  BY <1>1, GotoStep DEF check_key_state, At
<1>2. CASE dek[call[c].epoch].state \notin {"absent", "enabled"}
  BY <1>2, SameKeys, Returns DEF check_key_state, At, Steps, Storing
<1> QED BY <1>1, <1>2

\* A call takes the key on record.
LEMMA TakeKeyStep ==
    ASSUME DekInv, NEW c \in Calls, call[c].pc \in {"get", "reread"},
           dek[call[c].epoch].key # None,
           Becomes(c, [call[c] EXCEPT !.pc = "already", !.key = dek[call[c].epoch].key]),
           UNCHANGED <<dek, grants, pointer, blobs, sweep, own, roster_vars>>
    PROVE  DekInv'
<1> DEFINE r == [call[c] EXCEPT !.pc = "already", !.key = dek[call[c].epoch].key]
<1>1. call[c] \in Call /\ call[c].epoch \in Epochs /\ dek[call[c].epoch] \in Dek
  BY DEF DekInv, TypeOK, Call
<1>2. r \in Call
  BY <1>1 DEF Call, Steps, Dek
<1>3. /\ r.pc = "already" /\ r.epoch = call[c].epoch /\ r.members = call[c].members
      /\ r.targets = call[c].targets /\ r.rotated = call[c].rotated
      /\ r.attempt = call[c].attempt /\ r.key = dek[call[c].epoch].key
  BY <1>1 DEF Call
<1>4. ASSUME call'[c] = r PROVE Moves(c)
  BY <1>3, <1>4 DEF Moves, DekInv, CallInv, CallOk, Steps, Storing, Holding, Ends
<1> QED BY <1>2, <1>4, SameKeys, MovesTo DEF Steps

LEMMA GetStep == ASSUME DekInv, NEW c \in Calls, get_self_retention(c) PROVE DekInv'
<1>1. CASE dek[call[c].epoch].key = None
  BY <1>1, GotoStep DEF get_self_retention, At
<1>2. CASE dek[call[c].epoch].key # None
  BY <1>2, TakeKeyStep DEF get_self_retention, At
<1> QED BY <1>1, <1>2

LEMMA RereadStep == ASSUME DekInv, NEW c \in Calls, reread_self_retention(c) PROVE DekInv'
<1>1. CASE dek[call[c].epoch].key = None
  BY <1>1, SameKeys, Returns DEF reread_self_retention, At, Steps, Storing
<1>2. CASE dek[call[c].epoch].key # None
  BY <1>2, TakeKeyStep DEF reread_self_retention, converged, At
<1> QED BY <1>1, <1>2

LEMMA ListRecipientsStep == ASSUME DekInv, NEW c \in Calls, list_recipients(c) PROVE DekInv'
<1> DEFINE r == [call[c] EXCEPT !.pc = "wrap", !.members = {},
                                !.targets = call[c].members \ Held(call[c].epoch)]
<1>1. call[c] \in Call
  BY DEF DekInv, TypeOK
<1>2. r \in Call /\ Becomes(c, r)
  BY <1>1 DEF Call, Steps, list_recipients
<1>3. /\ r.pc = "wrap" /\ r.epoch = call[c].epoch /\ r.members = {}
      /\ r.targets \subseteq call[c].members /\ r.rotated = call[c].rotated
      /\ r.attempt = call[c].attempt /\ r.key = call[c].key
  BY <1>1 DEF Call
<1>4. call[c].pc = "already" /\ UNCHANGED <<dek, grants, pointer, blobs, sweep, own, roster_vars>>
  BY DEF list_recipients, At
<1>5. ASSUME call'[c] = r PROVE Moves(c)
  BY <1>3, <1>4, <1>5 DEF Moves, DekInv, CallInv, CallOk, Steps, Storing, Holding, Ends
<1> QED BY <1>2, <1>4, <1>5, SameKeys, MovesTo DEF Steps

\* A bind that is refused or fails.
LEMMA UnboundStep ==
    ASSUME DekInv, NEW c \in Calls, call[c].pc = "bind", NEW pc \in {"delete", "cleanup"},
           Goto(c, pc), UNCHANGED <<dek, grants, pointer, blobs, sweep, own, roster_vars>>
    PROVE  DekInv'
<1> DEFINE r == [call[c] EXCEPT !.pc = pc]
<1>1. call[c] \in Call
  BY DEF DekInv, TypeOK
<1>2. r \in Call /\ Becomes(c, r)
  BY <1>1 DEF Call, Steps, Goto
<1>3. /\ r.pc = pc /\ r.epoch = call[c].epoch /\ r.members = call[c].members
      /\ r.targets = call[c].targets /\ r.rotated = call[c].rotated
      /\ r.attempt = call[c].attempt
  BY <1>1 DEF Call
<1>4. call[c].members = {} /\ call[c].targets = {} /\ call[c].epoch <= pointer
  BY DEF DekInv, CallInv, CallOk, Storing
<1>5. ASSUME call'[c] = r PROVE Moves(c)
  BY <1>3, <1>4, <1>5 DEF Moves, Steps, Storing, Holding, Ends
<1> QED BY <1>2, <1>5, SameKeys, MovesTo DEF Steps

LEMMA AbandonStep == ASSUME DekInv, NEW c \in Calls, abandon(c) PROVE DekInv'
<1>1. call[c] \in Call /\ call[c].pc \in Steps
      /\ UNCHANGED <<dek, grants, pointer, blobs, sweep, own, roster_vars>>
  BY DEF abandon, DekInv, TypeOK
<1>2. CASE call[c].pc \in Storing
  <2> DEFINE r == Locals("dead", call[c].attempt)
  <2>1. r \in Call /\ Becomes(c, r)
    BY <1>1, <1>2, LocalsTyped DEF Ends, Call, abandon, Storing
  <2>2. ASSUME call'[c] = r PROVE Moves(c)
    BY <1>1, <2>2, DekAssumption
       DEF Moves, Locals, DekInv, TypeOK, Epochs, Steps, Storing, Holding, Ends
  <2> QED BY <1>1, <2>1, <2>2, SameKeys, MovesTo
<1>3. CASE call[c].pc \notin Storing
  BY <1>1, <1>3, SameKeys, Returns DEF abandon, Storing
<1> QED BY <1>2, <1>3

-----------------------------------------------------------------------------
(* The steps that mint, wrap, store, bind and delete.                       *)

\* ON CONFLICT DO NOTHING: the row is minted, or everything stays.
LEMMA PutStep == ASSUME DekInv, NEW c \in Calls, put_self_retention(c) PROVE DekInv'
<1> DEFINE e == call[c].epoch
           r == [call[c] EXCEPT !.pc = "reread"]
<1> USE DEF DekInv
<1>1. /\ call[c] \in Call /\ e \in Epochs /\ call[c].pc = "put" /\ e <= pointer
      /\ UNCHANGED <<pointer, grants, blobs, sweep, own, roster_vars>>
  BY DEF put_self_retention, At, TypeOK, Call, CallInv, CallOk
<1>2. r \in Call /\ Becomes(c, r)
  BY <1>1 DEF Call, Steps, put_self_retention, Goto
<1>3. /\ r.pc = "reread" /\ r.epoch = e /\ r.members = call[c].members
      /\ r.targets = call[c].targets /\ r.rotated = call[c].rotated
      /\ r.attempt = call[c].attempt
  BY <1>1 DEF Call
<1>4. CASE dek[e].state # "absent"
  <2>1. UNCHANGED dek
    BY <1>4 DEF put_self_retention, retention_put
  <2>2. ASSUME call'[c] = r PROVE Moves(c)
    BY <1>1, <1>3, <2>2 DEF Moves, CallInv, CallOk, Steps, Storing, Holding, Ends
  <2> QED BY <1>1, <1>2, <2>1, <2>2, SameKeys, MovesTo DEF Steps
<1>5. CASE dek[e].state = "absent"
  <2>1. /\ call' \in [Calls -> Call] /\ call'[c] = r
        /\ \A d \in Calls : d # c => call'[d] = call[d]
    BY <1>2, BecomesOnly DEF TypeOK
  <2>2. UNCHANGED <<now, left, removals, kept_off, cut>>
    BY <1>1 DEF roster_vars
  <2>3. Minted(c) \in Dek /\ Minted(c).state = "enabled" /\ Minted(c).key # None
    BY <1>1, DekAssumption DEF Minted, Dek, States, TypeOK, Call, Seals
  <2>4. /\ dek' \in [Epochs -> Dek] /\ dek'[e] = Minted(c)
        /\ \A f \in Epochs : f # e => dek'[f] = dek[f]
    BY <1>1, <1>5, <2>3 DEF put_self_retention, retention_put, TypeOK
  <2>5. \A m \in Members : grants[e][m] = None
    BY <1>1, <1>5 DEF PointerInv
  <2>6. \A d \in Calls : call[d].epoch = e => call[d].pc \notin Holding \cup {"bind"}
    BY <1>5 DEF KeyInv
  <2>7. TypeOK'
    BY <1>1, <2>1, <2>2, <2>3, <2>4 DEF TypeOK
  <2>8. PointerInv'
    <3>1. \A f \in Epochs : f # e => dek'[f] = dek[f]
      BY <2>4
    <3>2. dek'[e].state = "enabled" /\ ~(e > pointer)
      BY <1>1, <2>3, <2>4 DEF TypeOK, Epochs
    <3> QED BY <1>1, <2>2, <3>1, <3>2 DEF PointerInv
  <2>9. CallInv'
    <3>1. CallOk(c)'
      BY <1>1, <1>3, <2>1, <2>2 DEF CallInv, CallOk, Storing, Ends
    <3>2. ASSUME NEW d \in Calls, d # c PROVE CallOk(d)'
      BY <1>1, <2>1, <2>2, <3>2 DEF CallInv, CallOk
    <3> QED BY <3>1, <3>2 DEF CallInv
  <2>10. KeyInv'
    <3>1. \A d \in Calls : call'[d].pc \in Holding \cup {"bind"} =>
             call'[d] = call[d] /\ call[d].epoch \in Epochs /\ call[d].epoch # e
      BY <1>3, <2>1, <2>6 DEF Holding, TypeOK, Call
    <3>2. \A d \in Calls : Seal(d)' = Seal(d)
      BY <1>3, <2>1 DEF Seal
    <3> QED BY <1>1, <2>4, <3>1, <3>2 DEF KeyInv
  <2>11. RowInv'
    BY <1>1, <1>3, <2>1 DEF RowInv, Steps, Storing
  <2>12. BoundReadable'
    BY <1>1, <1>5, <2>4 DEF BoundReadable, TypeOK, Blob
  <2>13. OneKeyPerEpoch'
    BY <1>1, <2>4, <2>5 DEF OneKeyPerEpoch
  <2>14. PointerUsable'
    BY <1>1, <2>3, <2>4 DEF PointerUsable, TypeOK
  <2>15. NoOrphan' /\ RemovalRotatesOut'
    BY <1>1, <1>3, <2>1, <2>2 DEF NoOrphan, RemovalRotatesOut
  <2> QED BY <2>7, <2>8, <2>9, <2>10, <2>11, <2>12, <2>13, <2>14, <2>15
<1> QED BY <1>4, <1>5

\* A wrap is put under the key its epoch has or had.
LEMMA GrantStep ==
    ASSUME DekInv, NEW c \in Calls, NEW m \in Members, put_member_grant(c, m) PROVE DekInv'
<1> DEFINE e == call[c].epoch
           r == [call[c] EXCEPT !.targets = @ \ {m}]
<1> USE DEF DekInv
<1>1. /\ call[c] \in Call /\ e \in Epochs /\ call[c].pc = "wrap" /\ m \in call[c].targets
      /\ UNCHANGED <<pointer, dek, blobs, sweep, now, left, removals, kept_off, cut>>
  BY DEF put_member_grant, At, TypeOK, Call, roster_vars
<1>2. r \in Call /\ Becomes(c, r)
  BY <1>1 DEF Call, Steps, put_member_grant
<1>3. /\ r.pc = "wrap" /\ r.epoch = e /\ r.members = call[c].members
      /\ r.targets = call[c].targets \ {m} /\ r.rotated = call[c].rotated
      /\ r.attempt = call[c].attempt /\ r.key = call[c].key
  BY <1>1 DEF Call
<1>4. /\ call' \in [Calls -> Call] /\ call'[c] = r
      /\ \A d \in Calls : d # c => call'[d] = call[d]
  BY <1>2, BecomesOnly DEF TypeOK
<1>5. /\ call[c].key # None /\ dek[e].state # "absent"
      /\ dek[e].key # None => dek[e].key = call[c].key
      /\ \A n \in Members : grants[e][n] # None => grants[e][n] = call[c].key
  BY <1>1 DEF KeyInv, Holding
<1>6. /\ grants' \in [Epochs -> [Members -> Seals \cup {None}]]
      /\ \A f \in Epochs : \A n \in Members :
            grants'[f][n] = IF f = e /\ n = m /\ grants[e][m] = None
                            THEN call[c].key ELSE grants[f][n]
  <2>1. CASE grants[e][m] = None
    <3>1. grants' = [grants EXCEPT ![e][m] = call[c].key] /\ call[c].key \in Seals \cup {None}
      BY <1>1, <2>1 DEF put_member_grant, Call
    <3> QED BY <1>1, <2>1, <3>1 DEF TypeOK
  <2>2. CASE grants[e][m] # None
    BY <1>1, <2>2 DEF put_member_grant, TypeOK
  <2> QED BY <2>1, <2>2
<1>7. own' \subseteq Epochs \X Members
  BY <1>1 DEF put_member_grant, TypeOK
<1>8. TypeOK'
  BY <1>1, <1>4, <1>6, <1>7 DEF TypeOK
<1>9. PointerInv'
  BY <1>1, <1>5, <1>6 DEF PointerInv
<1>10. CallInv'
  <2>1. CallOk(c)'
    BY <1>1, <1>3, <1>4 DEF CallInv, CallOk, Storing, Ends
  <2>2. ASSUME NEW d \in Calls, d # c PROVE CallOk(d)'
    BY <1>1, <1>4, <2>2 DEF CallInv, CallOk
  <2> QED BY <2>1, <2>2 DEF CallInv
<1>11. KeyInv'
  <2>1. \A d \in Calls : /\ call'[d].pc = call[d].pc /\ call'[d].epoch = call[d].epoch
                         /\ call'[d].key = call[d].key /\ Seal(d)' = Seal(d)
                         /\ call[d].epoch \in Epochs
    BY <1>1, <1>3, <1>4 DEF Seal, TypeOK, Call
  <2>2. \A d \in Calls : call[d].pc \in Holding /\ call[d].epoch = e => call[d].key = call[c].key
    BY <1>1 DEF KeyInv, Holding
  <2> QED BY <1>1, <1>6, <2>1, <2>2 DEF KeyInv
<1>12. RowInv' /\ NoOrphan'
  <2>1. \A d \in Calls : call'[d].pc = call[d].pc /\ call'[d].attempt = call[d].attempt
    BY <1>1, <1>3, <1>4
  <2> QED BY <1>1, <2>1 DEF RowInv, NoOrphan
<1>13. BoundReadable' /\ PointerUsable'
  BY <1>1 DEF BoundReadable, PointerUsable
<1>14. OneKeyPerEpoch'
  BY <1>1, <1>5, <1>6 DEF OneKeyPerEpoch
<1>15. RemovalRotatesOut'
  <2> SUFFICES ASSUME NEW n \in Members, NEW f \in Epochs,
                      cut[n] # None, f >= cut[n], grants'[f][n] # None
               PROVE  <<f, n>> \in own'
    BY <1>1 DEF RemovalRotatesOut
  <2>1. CASE f = e /\ n = m /\ grants[e][m] = None
    <3>1. call[c].rotated
      BY <1>1, <2>1 DEF CallInv, CallOk, TypeOK, Epochs
    <3> QED BY <2>1, <3>1 DEF put_member_grant
  <2>2. CASE ~(f = e /\ n = m /\ grants[e][m] = None)
    <3>1. <<f, n>> \in own
      BY <1>6, <2>2 DEF RemovalRotatesOut
    <3> QED BY <2>2, <3>1 DEF put_member_grant
  <2> QED BY <2>1, <2>2
<1> QED BY <1>8, <1>9, <1>10, <1>11, <1>12, <1>13, <1>14, <1>15

\* A step of a call that changes the row of its own attempt.
LEMMA RowStep ==
    ASSUME DekInv, NEW c \in Calls, NEW r \in Call, Becomes(c, r), call[c].pc \in Steps,
           NEW b \in Blob, blobs' = [blobs EXCEPT ![Seal(c)] = b], ~b.evicted,
           UNCHANGED <<pointer, dek, grants, sweep, own, roster_vars>>,
           r.epoch <= pointer, r.pc \in {"read", "bind", "done"},
           r.members = {}, r.targets = {},
           r.pc = "bind" =>
              /\ r.attempt = call[c].attempt /\ b.epoch = None
              /\ dek[r.epoch].state # "absent"
              /\ dek[r.epoch].key # None => b.key = dek[r.epoch].key,
           r.pc = "read" => r.attempt > call[c].attempt,
           b.stored /\ b.epoch = None => r.pc = "bind",
           b.stored /\ b.epoch # None =>
              /\ dek[b.epoch].state \in {"enabled", "disabled"}
              /\ dek[b.epoch].key = b.key
    PROVE  DekInv'
<1> USE DEF DekInv
<1>1. /\ call' \in [Calls -> Call] /\ call'[c] = r
      /\ \A d \in Calls : d # c => call'[d] = call[d]
  BY BecomesOnly DEF TypeOK
<1>2. UNCHANGED <<now, left, removals, kept_off, cut>>
  BY DEF roster_vars
<1>3. /\ call[c] \in Call /\ call[c].attempt \in 1..Attempts /\ Seal(c) = <<c, call[c].attempt>>
      /\ Seal(c) \in Seals
  BY DEF TypeOK, Call, Seal, Seals
<1>4. /\ blobs' \in [Seals -> Blob] /\ blobs'[Seal(c)] = b
      /\ \A x \in Seals : x # Seal(c) => blobs'[x] = blobs[x]
  BY <1>3 DEF TypeOK
<1>5. TypeOK'
  BY <1>1, <1>2, <1>4 DEF TypeOK
<1>6. PointerInv' /\ OneKeyPerEpoch' /\ PointerUsable' /\ RemovalRotatesOut'
  BY <1>2 DEF PointerInv, OneKeyPerEpoch, PointerUsable, RemovalRotatesOut
<1>7. CallInv'
  <2>1. CallOk(c)'
    BY <1>1, <1>2 DEF CallOk
  <2>2. ASSUME NEW d \in Calls, d # c PROVE CallOk(d)'
    BY <1>1, <1>2, <2>2 DEF CallInv, CallOk
  <2> QED BY <2>1, <2>2 DEF CallInv
<1>8. KeyInv'
  <2>1. \A d \in Calls : call'[d].pc \in Holding => d # c
    BY <1>1 DEF Holding
  <2>2. ASSUME NEW d \in Calls, d # c
        PROVE  Seal(d)' = Seal(d) /\ blobs'[Seal(d)] = blobs[Seal(d)]
    BY <1>1, <1>3, <1>4, <2>2 DEF Seal, Seals, TypeOK, Call
  <2>3. r.pc = "bind" => Seal(c)' = Seal(c)
    BY <1>1 DEF Seal
  <2> QED BY <1>1, <1>4, <2>1, <2>2, <2>3 DEF KeyInv
<1>9. RowInv'
  <2>1. ASSUME NEW d \in Calls, NEW a \in 1..Attempts, call'[d].pc \in Steps, a >= call'[d].attempt
        PROVE  /\ blobs'[<<d, a>>].epoch = None /\ ~blobs'[<<d, a>>].evicted
               /\ (a > call'[d].attempt \/ call'[d].pc \notin Storing) =>
                     ~blobs'[<<d, a>>].stored
    <3>1. CASE d # c
      <4>1. blobs'[<<d, a>>] = blobs[<<d, a>>] /\ call'[d] = call[d]
        BY <1>1, <1>3, <1>4, <3>1 DEF Seals
      <4> QED BY <2>1, <4>1 DEF RowInv
    <3>2. CASE d = c /\ a > call[c].attempt
      <4>1. blobs'[<<d, a>>] = blobs[<<d, a>>]
        BY <1>3, <1>4, <3>2 DEF Seals
      <4>2. blobs[<<c, a>>].epoch = None /\ ~blobs[<<c, a>>].evicted /\ ~blobs[<<c, a>>].stored
        BY <1>3, <3>2 DEF RowInv
      <4> QED BY <3>2, <4>1, <4>2
    <3>3. CASE d = c /\ ~(a > call[c].attempt)
      <4>1. r.pc = "bind" /\ a = call[c].attempt
        BY <1>1, <1>3, <2>1, <3>3 DEF Steps, Call
      <4> QED BY <1>1, <1>3, <1>4, <3>3, <4>1 DEF Storing
    <3> QED BY <3>1, <3>2, <3>3
  <2>2. \A x \in Seals : blobs'[x].evicted => ~blobs'[x].stored
    BY <1>4 DEF RowInv
  <2> QED BY <2>1, <2>2 DEF RowInv
<1>10. BoundReadable'
  BY <1>4 DEF BoundReadable
<1>11. NoOrphan'
  <2> SUFFICES ASSUME NEW d \in Calls, NEW a \in 1..Attempts,
                      blobs'[<<d, a>>].stored, blobs'[<<d, a>>].epoch = None
               PROVE  /\ call'[d].attempt = a
                      /\ call'[d].pc \in {"bind", "delete", "cleanup", "dead"}
    BY DEF NoOrphan
  <2>1. CASE <<d, a>> = Seal(c)
    BY <1>1, <1>3, <1>4, <2>1
  <2>2. CASE <<d, a>> # Seal(c)
    <3>1. blobs'[<<d, a>>] = blobs[<<d, a>>]
      BY <1>4, <2>2 DEF Seals
    <3>2. call[d].attempt = a /\ call[d].pc \in {"bind", "delete", "cleanup", "dead"}
      BY <3>1 DEF NoOrphan
    <3>3. d # c
      BY <1>3, <2>2, <3>2
    <3> QED BY <1>1, <3>2, <3>3
  <2> QED BY <2>1, <2>2
<1> QED BY <1>5, <1>6, <1>7, <1>8, <1>9, <1>10, <1>11

\* The row an attempt has stored, or is about to store, is nobody else's.
LEMMA OwnRow ==
    ASSUME DekInv, NEW c \in Calls, call[c].pc \in Steps
    PROVE  /\ blobs[Seal(c)] \in Blob
           /\ blobs[Seal(c)].epoch = None /\ ~blobs[Seal(c)].evicted
           /\ call[c] \in Call /\ call[c].epoch \in Epochs /\ call[c].epoch <= pointer
<1>1. /\ call[c] \in Call /\ call[c].attempt \in 1..Attempts /\ call[c].attempt >= call[c].attempt
      /\ call[c].epoch \in Epochs /\ call[c].epoch <= pointer
  BY DEF DekInv, TypeOK, Call, CallInv, CallOk
<1> QED BY <1>1 DEF DekInv, RowInv, TypeOK, Seal, Seals

LEMMA StoreStep == ASSUME DekInv, NEW c \in Calls, store_blob(c) PROVE DekInv'
<1> DEFINE r == [call[c] EXCEPT !.pc = "bind", !.key = None, !.rotated = FALSE]
           b == [blobs[Seal(c)] EXCEPT !.stored = TRUE, !.key = call[c].key]
<1>1. call[c].pc = "wrap" /\ call[c].targets = {}
      /\ UNCHANGED <<pointer, dek, grants, sweep, own, roster_vars>>
  BY DEF store_blob, At
<1>2. /\ call[c].key # None /\ dek[call[c].epoch].state # "absent"
      /\ dek[call[c].epoch].key # None => dek[call[c].epoch].key = call[c].key
  BY <1>1 DEF DekInv, KeyInv, Holding
<1> HIDE DEF Seal
<1>3. /\ blobs[Seal(c)] \in Blob /\ blobs[Seal(c)].epoch = None /\ ~blobs[Seal(c)].evicted
      /\ call[c] \in Call /\ call[c].epoch \in Epochs /\ call[c].epoch <= pointer
  BY <1>1, OwnRow DEF Steps
<1>4. /\ r \in Call /\ r.pc = "bind" /\ r.epoch = call[c].epoch /\ r.targets = call[c].targets
      /\ r.members = call[c].members /\ r.attempt = call[c].attempt
  BY <1>3 DEF Call, Steps
<1>5. b \in Blob /\ b.epoch = None /\ ~b.evicted /\ b.key = call[c].key
  BY <1>3 DEF Blob, Call
<1>6. call[c].members = {}
  BY <1>1 DEF DekInv, CallInv, CallOk
<1>7. Becomes(c, r) /\ blobs' = [blobs EXCEPT ![Seal(c)] = b]
  BY DEF store_blob
<1> HIDE DEF r, b
<1> QED BY <1>1, <1>2, <1>3, <1>4, <1>5, <1>6, <1>7, RowStep DEF Steps

LEMMA BindStep == ASSUME DekInv, NEW c \in Calls, bind_blob_epoch(c) PROVE DekInv'
<1>1. call[c].pc = "bind" /\ UNCHANGED <<pointer, dek, grants, sweep, own, roster_vars>>
  BY DEF bind_blob_epoch, At
<1>2. CASE ~bindable(call[c].epoch)
  BY <1>1, <1>2, UnboundStep DEF bind_blob_epoch
<1>3. CASE bindable(call[c].epoch)
  <2> DEFINE r == Locals("done", 1)
             b == [blobs[Seal(c)] EXCEPT !.epoch = call[c].epoch]
  <2>1. /\ blobs[Seal(c)] \in Blob /\ blobs[Seal(c)].epoch = None /\ ~blobs[Seal(c)].evicted
        /\ call[c] \in Call /\ call[c].epoch \in Epochs
    BY <1>1, OwnRow DEF Steps
  <2>2. /\ b \in Blob /\ ~b.evicted /\ b.epoch = call[c].epoch /\ b.key = blobs[Seal(c)].key
    BY <2>1 DEF Blob
  <2>3. r \in Call
    BY LocalsTyped, DekAssumption DEF Ends
  <2>4. r.epoch <= pointer /\ r.pc = "done" /\ r.members = {} /\ r.targets = {}
    BY DekAssumption DEF Locals, DekInv, TypeOK, Epochs
  <2>5. dek[call[c].epoch].state = "enabled" /\ dek[call[c].epoch].key = blobs[Seal(c)].key
    BY <1>1, <1>3, <2>1 DEF bindable, DekInv, KeyInv, TypeOK
  <2>6. Becomes(c, r) /\ blobs' = [blobs EXCEPT ![Seal(c)] = b]
    BY <1>3 DEF bind_blob_epoch, Return
  <2>7. b.epoch # None
    BY <2>1, <2>2, DekAssumption DEF Epochs
  <2> HIDE DEF r, b
  <2> QED BY <1>1, <2>2, <2>3, <2>4, <2>5, <2>6, <2>7, RowStep DEF Steps
<1> QED BY <1>2, <1>3

\* The row goes, and the call goes round or returns.
LEMMA DeleteStep ==
    ASSUME DekInv, NEW c \in Calls, call[c].pc \in {"delete", "cleanup"}, blobs' = Unstored(c),
           \/ call[c].attempt < Attempts /\ Becomes(c, Locals("read", call[c].attempt + 1))
           \/ Return(c),
           UNCHANGED <<pointer, dek, grants, sweep, own, roster_vars>>
    PROVE  DekInv'
<1> DEFINE b == [blobs[Seal(c)] EXCEPT !.stored = FALSE, !.key = None]
<1>1. /\ blobs[Seal(c)] \in Blob /\ blobs[Seal(c)].epoch = None /\ ~blobs[Seal(c)].evicted
      /\ call[c] \in Call
  BY OwnRow DEF Steps
<1>2. b \in Blob /\ ~b.evicted /\ ~b.stored
  BY <1>1 DEF Blob
<1>3. blobs' = [blobs EXCEPT ![Seal(c)] = b]
  BY DEF Unstored
<1>4. 0 <= pointer
  BY DEF DekInv, TypeOK, Epochs
<1> HIDE DEF b
<1>5. CASE call[c].attempt < Attempts /\ Becomes(c, Locals("read", call[c].attempt + 1))
  <2> DEFINE r == Locals("read", call[c].attempt + 1)
  <2>1. call[c].attempt + 1 \in 1..Attempts /\ call[c].attempt + 1 > call[c].attempt
    BY <1>1, <1>5, DekAssumption DEF Call
  <2>2. r \in Call
    BY <2>1, LocalsTyped DEF Steps
  <2>3. /\ r.epoch <= pointer /\ r.pc = "read" /\ r.members = {} /\ r.targets = {}
        /\ r.attempt > call[c].attempt
    BY <1>4, <2>1 DEF Locals
  <2> HIDE DEF r
  <2> QED BY <1>2, <1>3, <1>5, <2>2, <2>3, RowStep DEF r, Steps
<1>6. CASE Return(c)
  <2> DEFINE r == Locals("done", 1)
  <2>1. r \in Call
    BY LocalsTyped, DekAssumption DEF Ends
  <2>2. r.epoch <= pointer /\ r.pc = "done" /\ r.members = {} /\ r.targets = {}
    BY <1>4 DEF Locals
  <2>3. Becomes(c, r)
    BY <1>6 DEF Return
  <2> HIDE DEF r
  <2> QED BY <1>2, <1>3, <2>1, <2>2, <2>3, RowStep DEF Steps
<1> QED BY <1>5, <1>6

LEMMA CallStepInv == ASSUME DekInv, NEW c \in Calls, CallStep(c) PROVE DekInv'
<1>1. CASE delete_and_retry(c) \/ delete_and_fail(c)
  BY <1>1, DeleteStep DEF delete_and_retry, delete_and_fail, At
<1>2. CASE bind_fails(c)
  BY <1>2, UnboundStep DEF bind_fails, At
<1>3. CASE retire_epoch(c, "retire_removal", "past") \/ retire_epoch(c, "retire_leaver", "state")
  BY <1>3, RetireStep
<1> QED
  BY <1>1, <1>2, <1>3, ReadEpochStep, ResolveStep, RotateStep, ListPastStep, DisablePastStep,
     LeaverStep, CheckStep, GetStep, PutStep, RereadStep, ListRecipientsStep, GrantStep,
     StoreStep, BindStep, AbandonStep DEF CallStep

-----------------------------------------------------------------------------
(* The sweep, the operator and the roster.                                  *)

\* A step that moves no call.
LEMMA KeyStep ==
    ASSUME DekInv, KeysShrink, sweep' \in Sweep, UNCHANGED <<call, blobs, own, roster_vars>>
    PROVE  DekInv'
<1>1. call' \in [Calls -> Call] /\ \A d \in Calls : call'[d] = call[d]
  BY DEF DekInv, TypeOK
<1> QED BY <1>1, QuietStep

LEMMA SweepTyped ==
    ASSUME sweep \in Sweep
    PROVE  /\ Idle \in Sweep
           /\ \A e \in Epochs : NextAfter(e) \in Sweep
           /\ \A pc \in {"evict", "count", "destroy"} : [sweep EXCEPT !.pc = pc] \in Sweep
<1>1. Idle \in Sweep
  BY DekAssumption DEF Idle, Sweep, Epochs
<1> QED BY <1>1 DEF NextAfter, Sweep

\* Evicting an epoch takes the bytes of its bound rows and keeps the bindings.
LEMMA EvictStep == ASSUME DekInv, NEW e \in Epochs, sweep_evict(e) PROVE DekInv'
<1> USE DEF DekInv
<1>1. /\ UNCHANGED <<pointer, dek, grants, call, own, now, left, removals, kept_off, cut>>
      /\ sweep' \in Sweep
  BY SweepTyped DEF sweep_evict, roster_vars, TypeOK
<1>2. /\ blobs' \in [Seals -> Blob]
      /\ \A b \in Seals : \/ blobs'[b] = blobs[b]
                          \/ /\ blobs[b].epoch = e /\ blobs'[b].epoch = e
                             /\ ~blobs'[b].stored
  <2>1. CASE Deletable(e)
    <3>1. \A b \in Seals : [blobs[b] EXCEPT !.stored = FALSE, !.key = None, !.evicted = TRUE] \in Blob
      BY DEF TypeOK, Blob
    <3>2. blobs' = Evicted(e)
      BY <2>1 DEF sweep_evict
    <3> QED BY <3>1, <3>2 DEF Evicted, Live, TypeOK, Blob
  <2>2. CASE ~Deletable(e)
    BY <2>2 DEF sweep_evict, TypeOK
  <2> QED BY <2>1, <2>2
<1>3. e # None
  BY DekAssumption DEF Epochs
<1>4. TypeOK'
  BY <1>1, <1>2 DEF TypeOK
<1>5. PointerInv' /\ OneKeyPerEpoch' /\ PointerUsable' /\ RemovalRotatesOut'
  BY <1>1 DEF PointerInv, OneKeyPerEpoch, PointerUsable, RemovalRotatesOut
<1>6. CallInv'
  BY <1>1 DEF CallInv, CallOk
<1>7. KeyInv'
  <2>1. ASSUME NEW c \in Calls, call[c].pc = "bind"
        PROVE  Seal(c)' = Seal(c) /\ blobs'[Seal(c)] = blobs[Seal(c)]
    BY <1>1, <1>2, <1>3, <2>1, OwnRow DEF Seal, Seals, TypeOK, Call, Steps
  <2> QED BY <1>1, <2>1 DEF KeyInv
<1>8. RowInv'
  <2>1. ASSUME NEW c \in Calls, NEW a \in 1..Attempts, call[c].pc \in Steps, a >= call[c].attempt
        PROVE  blobs'[<<c, a>>] = blobs[<<c, a>>]
    BY <1>2, <1>3, <2>1 DEF RowInv, Seals
  <2> QED BY <1>1, <1>2, <2>1 DEF RowInv
<1>9. BoundReadable'
  BY <1>1, <1>2 DEF BoundReadable
<1>10. NoOrphan'
  BY <1>1, <1>2, <1>3 DEF NoOrphan, Seals
<1> QED BY <1>4, <1>5, <1>6, <1>7, <1>8, <1>9, <1>10

LEMMA SweepStepInv == ASSUME DekInv, SweepStep PROVE DekInv'
<1>1. sweep \in Sweep
  BY DEF DekInv, TypeOK
<1>2. ASSUME NEW t \in Retains, sweep_begin(t) PROVE DekInv'
  <2>1. pointer \in Epochs
    BY DEF DekInv, TypeOK
  <2>2. sweep' \in Sweep
    BY <1>2, <2>1, DekAssumption DEF sweep_begin, Sweep
  <2> QED BY <1>2, <2>2, SameKeys, KeyStep DEF sweep_begin
<1>3. ASSUME NEW e \in Epochs, sweep_disable(e) PROVE DekInv'
  <2>1. sweep' \in Sweep
    BY <1>1, <1>3, SweepTyped DEF sweep_disable
  <2>2. KeysShrink
    <3>1. CASE UNCHANGED dek
      BY <1>3, <3>1, SameKeys DEF sweep_disable
    <3>2. CASE can_retire(e) /\ dek' = with_state(e, "disabled")
      BY <1>3, <3>2, Relabelled DEF sweep_disable, can_retire
    <3> QED BY <1>3, <3>1, <3>2 DEF sweep_disable
  <2> QED BY <1>3, <2>1, <2>2, KeyStep DEF sweep_disable
<1>4. ASSUME NEW e \in Epochs, sweep_evict_fails(e) \/ sweep_count(e) PROVE DekInv'
  <2>1. sweep' \in Sweep
    BY <1>1, <1>4, SweepTyped DEF sweep_evict_fails, sweep_count
  <2> QED BY <1>4, <2>1, SameKeys, KeyStep DEF sweep_evict_fails, sweep_count
<1>5. ASSUME NEW e \in Epochs, sweep_destroy(e) PROVE DekInv'
  <2>1. sweep' \in Sweep
    BY <1>1, <1>5, SweepTyped DEF sweep_destroy
  <2>2. KeysShrink
    BY <1>5, SameKeys, DestroyedKeys DEF sweep_destroy
  <2> QED BY <1>5, <2>1, <2>2, KeyStep DEF sweep_destroy
<1> QED BY <1>2, <1>3, <1>4, <1>5, EvictStep DEF SweepStep

LEMMA OperatorStepInv == ASSUME DekInv, OperatorStep PROVE DekInv'
<1>1. sweep \in Sweep
  BY DEF DekInv, TypeOK
<1>2. PICK e \in Epochs : enable_epoch(e) \/ disable_epoch(e) \/ destroy_epoch(e)
  BY DEF OperatorStep
<1>3. CASE enable_epoch(e)
  BY <1>1, <1>3, Relabelled, KeyStep DEF enable_epoch
<1>4. CASE disable_epoch(e)
  BY <1>1, <1>4, Relabelled, KeyStep DEF disable_epoch, can_retire
<1>5. CASE destroy_epoch(e)
  BY <1>1, <1>5, DestroyedKeys, KeyStep DEF destroy_epoch
<1> QED BY <1>2, <1>3, <1>4, <1>5

\* A change of the roster, with or without the bump of a removal.
LEMMA RosterMove ==
    ASSUME DekInv, UNCHANGED <<dek, grants, blobs, call, sweep, own>>,
           now' \in Nat, now' >= now, left' \in [Members -> Nat \cup {None}],
           removals' \subseteq Members \X Nat, kept_off' \subseteq Members,
           pointer' \in Epochs, pointer' \in {pointer, pointer + 1},
           cut' \in [Members -> Nat \cup {None}],
           \A m \in Members : cut'[m] # None =>
              /\ left'[m] # None /\ left'[m] <= now'
              /\ cut'[m] = cut[m] \/ (cut'[m] = pointer + 1 /\ pointer' = pointer + 1)
    PROVE  DekInv'
<1> USE DEF DekInv
<1>1. pointer \in Nat /\ pointer' \in Nat /\ Epochs \subseteq Nat /\ None \notin Nat
  BY DekAssumption DEF TypeOK, Epochs
<1>2. \A e \in Epochs : e > pointer => dek[e].state = "absent" /\ \A m \in Members : grants[e][m] = None
  BY DEF PointerInv
<1>3. TypeOK'
  BY DEF TypeOK
<1>4. PointerInv'
  BY <1>1, <1>2 DEF PointerInv, TypeOK
<1>5. CallInv'
  <2> SUFFICES ASSUME NEW c \in Calls PROVE CallOk(c)'
    BY DEF CallInv
  <2>1. /\ CallOk(c) /\ call[c].epoch \in Nat /\ call[c].next \in Nat
        /\ call[c].members \subseteq Members /\ call[c].targets \subseteq Members
    BY <1>1 DEF CallInv, TypeOK, Call
  <2>2. call[c].epoch < pointer + 1
    BY <1>1, <2>1 DEF CallOk
  <2> QED BY <1>1, <2>1, <2>2 DEF CallOk
<1>6. KeyInv' /\ RowInv' /\ BoundReadable' /\ OneKeyPerEpoch' /\ NoOrphan'
  BY DEF KeyInv, RowInv, BoundReadable, OneKeyPerEpoch, NoOrphan, Seal
<1>7. PointerUsable'
  BY <1>1, <1>2 DEF PointerUsable
<1>8. RemovalRotatesOut'
  <2> SUFFICES ASSUME NEW m \in Members, NEW e \in Epochs, cut'[m] # None, e >= cut'[m],
                      grants[e][m] # None
               PROVE  <<e, m>> \in own
    BY DEF RemovalRotatesOut
  <2>1. cut'[m] = cut[m]
    BY <1>1, <1>2
  <2> QED BY <2>1 DEF RemovalRotatesOut
<1> QED BY <1>3, <1>4, <1>5, <1>6, <1>7, <1>8

LEMMA RosterStepInv == ASSUME DekInv, RosterStep PROVE DekInv'
<1>1. /\ now \in Nat /\ left \in [Members -> Nat \cup {None}] /\ removals \subseteq Members \X Nat
      /\ kept_off \subseteq Members /\ pointer \in Epochs /\ cut \in [Members -> Nat \cup {None}]
      /\ \A m \in Members : cut[m] # None => left[m] # None /\ left[m] <= now
      /\ MaxTime + Skew \in Nat /\ MaxEpoch \in Nat /\ None \notin Nat
  BY DekAssumption DEF DekInv, TypeOK, PointerInv
<1>2. CASE tick
  <2>1. \A m \in Members : cut[m] # None => left[m] <= now + 1
    BY <1>1
  <2> QED BY <1>1, <1>2, <2>1, RosterMove DEF tick
<1>3. ASSUME NEW m \in Members, NEW t \in 0..(MaxTime + Skew), revoke_member(m, t) PROVE DekInv'
  <2>1. /\ t \in Nat /\ pointer + 1 \in Epochs /\ pointer' = pointer + 1 /\ pointer \in Nat
        /\ left[m] = None
        /\ UNCHANGED <<now, kept_off, dek, grants, blobs, call, sweep, own>>
    BY <1>1, <1>3 DEF revoke_member, rotated_pointer, Epochs
  <2>2. /\ left' \in [Members -> Nat \cup {None}] /\ left'[m] = t
        /\ \A n \in Members : n # m => left'[n] = left[n]
    BY <1>1, <1>3, <2>1 DEF revoke_member
  <2>3. /\ cut' \in [Members -> Nat \cup {None}]
        /\ cut'[m] = IF t <= now THEN pointer + 1 ELSE None
        /\ \A n \in Members : n # m => cut'[n] = cut[n]
    BY <1>1, <1>3, <2>1 DEF revoke_member
  <2>4. removals' \subseteq Members \X Nat
    BY <1>1, <1>3, <2>1 DEF revoke_member
  <2>5. now' >= now
    BY <1>1, <2>1
  <2>6. \A n \in Members : cut'[n] # None =>
           /\ left'[n] # None /\ left'[n] <= now'
           /\ cut'[n] = cut[n] \/ (cut'[n] = pointer + 1 /\ pointer' = pointer + 1)
    BY <1>1, <2>1, <2>2, <2>3
  <2> QED BY <1>1, <2>1, <2>2, <2>3, <2>4, <2>5, <2>6, RosterMove
<1>4. ASSUME NEW m \in Members, widen_member(m) PROVE DekInv'
  <2>1. now' >= now
    BY <1>1, <1>4 DEF widen_member
  <2> QED BY <1>1, <1>4, <2>1, RosterMove DEF widen_member
<1>5. ASSUME NEW m \in Members, set_allow_list(m) PROVE DekInv'
  <2>1. now' >= now
    BY <1>1, <1>5 DEF set_allow_list
  <2> QED BY <1>1, <1>5, <2>1, RosterMove DEF set_allow_list
<1> QED BY <1>2, <1>3, <1>4, <1>5 DEF RosterStep

-----------------------------------------------------------------------------
LEMMA DekInit == Init => DekInv
<1> SUFFICES ASSUME Init PROVE DekInv
  OBVIOUS
<1> USE DekAssumption DEF Init
<1>1. 0 \in Epochs /\ 1 \in 1..Attempts /\ pointer = 0
  BY DEF Epochs
<1>2. \A c \in Calls : call[c] = Locals("read", 1) /\ Locals("read", 1) \in Call
  BY <1>1, LocalsTyped DEF Steps
<1>3. TypeOK
  BY <1>1, <1>2, SweepTyped DEF TypeOK, Dek, States, Blob, Idle, Sweep
<1>4. PointerInv
  BY DEF PointerInv
<1>5. CallInv
  BY <1>1, <1>2 DEF CallInv, CallOk, Locals
<1>6. KeyInv
  BY <1>2 DEF KeyInv, Locals, Holding
<1>7. RowInv
  BY <1>2 DEF RowInv, Locals, Seals
<1>8. BoundReadable /\ OneKeyPerEpoch /\ PointerUsable /\ NoOrphan /\ RemovalRotatesOut
  BY <1>1 DEF BoundReadable, OneKeyPerEpoch, PointerUsable, NoOrphan, RemovalRotatesOut, Seals
<1> QED BY <1>3, <1>4, <1>5, <1>6, <1>7, <1>8 DEF DekInv

LEMMA DekNext == DekInv /\ [Next]_vars => DekInv'
<1> SUFFICES ASSUME DekInv, [Next]_vars PROVE DekInv'
  OBVIOUS
<1>1. CASE Next
  BY <1>1, CallStepInv, SweepStepInv, RosterStepInv, OperatorStepInv DEF Next
<1>2. CASE UNCHANGED vars
  <2>1. sweep' \in Sweep
    BY <1>2 DEF vars, DekInv, TypeOK
  <2> QED BY <1>2, <2>1, SameKeys, KeyStep DEF vars, roster_vars
<1> QED BY <1>1, <1>2

\* DekInv is an invariant of the cascade.
THEOREM DekInvariant == Spec => []DekInv
BY DekInit, DekNext, PTL DEF Spec

\* The tables and the locals of every call are typed, and a key is on record
\* exactly between the mint of its epoch and the destroy.
THEOREM DekTypeCorrect == Spec => []TypeOK
<1>1. DekInv => TypeOK
  BY DEF DekInv
<1> QED BY <1>1, DekInvariant, PTL

\* No race of mints, rotations, sweeps and operators leaves a stored and bound
\* blob without the key that opens it.
THEOREM BoundStaysReadable == Spec => []BoundReadable
<1>1. DekInv => BoundReadable
  BY DEF DekInv
<1> QED BY <1>1, DekInvariant, PTL

\* All wraps of an epoch, and its own row, are of one key.
THEOREM EpochHasOneKey == Spec => []OneKeyPerEpoch
<1>1. DekInv => OneKeyPerEpoch
  BY DEF DekInv
<1> QED BY <1>1, DekInvariant, PTL

\* The current epoch is never disabled or destroyed.
THEOREM PointerStaysUsable == Spec => []PointerUsable
<1>1. DekInv => PointerUsable
  BY DEF DekInv
<1> QED BY <1>1, DekInvariant, PTL

\* A call that returns, with a result or an error, leaves no unbound row.
THEOREM ReturnsLeaveNoOrphan == Spec => []NoOrphan
<1>1. DekInv => NoOrphan
  BY DEF DekInv
<1> QED BY <1>1, DekInvariant, PTL

\* A removed member is wrapped no epoch from its removal on, but by a call
\* that resolved the roster before the removal and rotated after it.
THEOREM RemovalShutsOut == Spec => []RemovalRotatesOut
<1>1. DekInv => RemovalRotatesOut
  BY DEF DekInv
<1> QED BY <1>1, DekInvariant, PTL

\* The key of an epoch is written once and at most destroyed.
THEOREM EpochKeyWrittenOnce == Spec => KeyWrittenOnce
<1> DEFINE Once == \A e \in Epochs :
              dek'[e].key # dek[e].key =>
                  \/ dek[e].state = "absent"
                  \/ dek'[e].key = None /\ dek'[e].state = "destroyed"
<1>1. ASSUME TypeOK, Next PROVE Once
  <2>1. ASSUME NEW e \in Epochs, NEW s \in States, dek' = with_state(e, s) PROVE Once
    BY <1>1, <2>1 DEF with_state, TypeOK, Dek
  <2>2. ASSUME NEW e \in Epochs, dek' = without_key(e) PROVE Once
    BY <1>1, <2>2 DEF without_key, TypeOK, Dek
  <2>3. ASSUME NEW c \in Calls, put_self_retention(c) PROVE Once
    BY <1>1, <2>3 DEF put_self_retention, retention_put, TypeOK, Call
  <2>4. CASE UNCHANGED dek
    BY <2>4
  <2> HIDE DEF Once
  <2>5. ASSUME NEW c \in Calls, CallStep(c) PROVE Once
    <3>1. call[c].epoch \in Epochs
      BY <1>1 DEF TypeOK, Call
    <3>2. CASE retire_epoch(c, "retire_removal", "past") \/ retire_epoch(c, "retire_leaver", "state")
      BY <2>1, <2>4, <3>1, <3>2 DEF retire_epoch, States
    <3>3. CASE \E p \in Epochs : disable_past_epoch(c, p)
      BY <2>1, <2>4, <3>3 DEF disable_past_epoch, States
    <3>4. CASE put_self_retention(c)
      BY <2>3, <3>4
    <3> QED
      BY <2>4, <2>5, <3>2, <3>3, <3>4
         DEF CallStep, read_epoch, resolve_community_members, rotate_on_removal, list_past_epochs,
             rotate_on_leaver, check_key_state, get_self_retention, reread_self_retention,
             list_recipients, put_member_grant, store_blob, bind_blob_epoch, bind_fails,
             delete_and_retry, delete_and_fail, abandon
  <2>6. CASE SweepStep
    BY <2>1, <2>2, <2>4, <2>6
       DEF SweepStep, sweep_begin, sweep_disable, sweep_evict, sweep_evict_fails, sweep_count,
           sweep_destroy, States
  <2>7. CASE OperatorStep
    BY <2>1, <2>2, <2>7 DEF OperatorStep, enable_epoch, disable_epoch, destroy_epoch, States
  <2>8. CASE RosterStep
    BY <2>4, <2>8 DEF RosterStep, tick, revoke_member, widen_member, set_allow_list
  <2> QED BY <1>1, <2>5, <2>6, <2>7, <2>8 DEF Next
<1>2. TypeOK /\ [Next]_vars => [Once]_vars
  BY <1>1
<1> HIDE DEF Once
<1>3. Spec => [][Once]_vars
  BY <1>2, DekTypeCorrect, PTL DEF Spec
<1> QED BY <1>3 DEF KeyWrittenOnce, Once

-----------------------------------------------------------------------------
(* The refinement of EpochKeys.  DekInv does not tell a key just drawn from *)
(* one in use, nor does it follow the sweep: FreshInv says that the key an  *)
(* attempt has yet to draw is nowhere, SweepInv that the sweep works on     *)
(* epochs that are over, EvictedInv that evicted rows keep no key.          *)

\* The steps of an attempt that has not drawn its key.
Early == {"read", "resolve", "rotate", "retire_removal", "past", "disable", "retire_leaver",
          "state", "get", "put"}

Undrawn(c, a) ==
    /\ call[c].pc \in Steps
    /\ a > call[c].attempt \/ (a = call[c].attempt /\ call[c].pc \in Early)

FreshInv ==
    \A c \in Calls : \A a \in 1..Attempts : Undrawn(c, a) =>
        /\ \A e \in Epochs : dek[e].key # <<c, a>>
        /\ \A d \in Calls : call[d].key # <<c, a>>
        /\ \A b \in Seals : blobs[b].key # <<c, a>>

SweepInv == sweep.current <= pointer /\ \A e \in sweep.todo : e < sweep.current

EvictedInv == \A b \in Seals : blobs[b].evicted => blobs[b].key = None

EpochInv == DekInv /\ FreshInv /\ SweepInv /\ EvictedInv

\* What a step of a call may do to its attempt and to the key it holds.
Follows(c) ==
    /\ call'[c].pc \in Steps =>
          \/ call'[c].attempt = call[c].attempt /\ (call'[c].pc \in Early => call[c].pc \in Early)
          \/ call'[c].attempt = call[c].attempt + 1
    /\ call'[c].key \in {call[c].key, None} \/ \E e \in Epochs : call'[c].key = dek[e].key

\* A step of a call moves no other call.
LEMMA CallFollows ==
    ASSUME DekInv, NEW c \in Calls, CallStep(c)
    PROVE  call[c].pc \in Steps /\ Follows(c) /\ \A d \in Calls : d # c => call'[d] = call[d]
<1>1. /\ call \in [Calls -> Call] /\ call[c] \in Call /\ call[c].epoch \in Epochs
      /\ call[c].attempt \in Nat /\ dek \in [Epochs -> Dek]
  BY DEF DekInv, TypeOK, Call
<1> DEFINE F == call[c].pc \in Steps /\ Follows(c) /\ \A d \in Calls : d # c => call'[d] = call[d]
<1> SUFFICES F
  OBVIOUS
<1>2. ASSUME Return(c), call[c].pc \in Steps PROVE F
  BY <1>1, <1>2 DEF Return, Becomes, Locals, Follows, Steps, Early
<1>3. ASSUME NEW r, Becomes(c, r), call[c].pc \in Steps, r.attempt = call[c].attempt,
             r.pc \in Early => call[c].pc \in Early,
             r.key \in {call[c].key, None} \/ \E e \in Epochs : r.key = dek[e].key
      PROVE  F
  BY <1>1, <1>3 DEF Becomes, Follows
<1> HIDE DEF F
<1>4. ASSUME NEW pc, Goto(c, pc), call[c].pc \in Steps, pc \in Early => call[c].pc \in Early PROVE F
  <2> DEFINE r == [call[c] EXCEPT !.pc = pc]
  <2>1. r.attempt = call[c].attempt /\ r.key = call[c].key /\ r.pc = pc
    BY <1>1 DEF Call
  <2> HIDE DEF r
  <2> QED BY <1>3, <1>4, <2>1 DEF Goto, r
<1>5. ASSUME NEW pc, bump_epoch(c, pc), call[c].pc \in Early PROVE F
  <2> DEFINE r == [call[c] EXCEPT !.pc = pc, !.next = pointer', !.rotated = TRUE]
  <2>1. r.attempt = call[c].attempt /\ r.key = call[c].key /\ r.pc = pc
    BY <1>1 DEF Call
  <2>2. Becomes(c, r) /\ call[c].pc \in Steps
    BY <1>5 DEF bump_epoch, Early, Steps
  <2> HIDE DEF r
  <2> QED BY <1>3, <1>5, <2>1, <2>2
<1>6. CASE read_epoch(c)
  <2> DEFINE r == [call[c] EXCEPT !.pc = "resolve", !.epoch = pointer]
  <2>1. r.attempt = call[c].attempt /\ r.key = call[c].key
    BY <1>1 DEF Call
  <2>2. Becomes(c, r) /\ call[c].pc \in Steps /\ call[c].pc \in Early
    BY <1>6 DEF read_epoch, At, Early, Steps
  <2> HIDE DEF r
  <2> QED BY <1>3, <2>1, <2>2
<1>7. CASE resolve_community_members(c)
  <2>1. PICK t : Becomes(c, [call[c] EXCEPT !.pc = "rotate", !.members = Recipients, !.removed_at = t])
    BY <1>7 DEF resolve_community_members
  <2> DEFINE r == [call[c] EXCEPT !.pc = "rotate", !.members = Recipients, !.removed_at = t]
  <2>2. r.attempt = call[c].attempt /\ r.key = call[c].key
    BY <1>1 DEF Call
  <2>3. Becomes(c, r) /\ call[c].pc \in Steps /\ call[c].pc \in Early
    BY <1>7, <2>1 DEF resolve_community_members, At, Early, Steps
  <2> HIDE DEF r
  <2> QED BY <1>3, <2>2, <2>3
<1>8. CASE list_past_epochs(c)
  <2> DEFINE r == [call[c] EXCEPT !.pc = "disable", !.removed_at = None, !.past = PastToDisable(c)]
  <2>1. r.attempt = call[c].attempt /\ r.key = call[c].key
    BY <1>1 DEF Call
  <2>2. Becomes(c, r) /\ call[c].pc \in Steps /\ call[c].pc \in Early
    BY <1>8 DEF list_past_epochs, At, Early, Steps
  <2> HIDE DEF r
  <2> QED BY <1>3, <2>1, <2>2
<1>9. ASSUME NEW to, retire_epoch(c, call[c].pc, to), call[c].pc \in Early PROVE F
  <2> DEFINE r == [call[c] EXCEPT !.pc = to, !.epoch = call[c].next, !.next = 0]
  <2>1. r.attempt = call[c].attempt /\ r.key = call[c].key
    BY <1>1 DEF Call
  <2>2. (Becomes(c, r) \/ Return(c)) /\ call[c].pc \in Steps
    BY <1>9 DEF retire_epoch, Early, Steps
  <2> HIDE DEF r
  <2> QED BY <1>2, <1>3, <1>9, <2>1, <2>2
<1>10. CASE retire_epoch(c, "retire_removal", "past") \/ retire_epoch(c, "retire_leaver", "state")
  BY <1>9, <1>10 DEF retire_epoch, At, Early
<1>11. ASSUME NEW p \in Epochs, disable_past_epoch(c, p) PROVE F
  <2> DEFINE r == [call[c] EXCEPT !.past = @ \ {p}]
  <2>1. r.attempt = call[c].attempt /\ r.key = call[c].key
    BY <1>1 DEF Call
  <2>2. (Becomes(c, r) \/ Return(c)) /\ call[c].pc \in Steps /\ call[c].pc \in Early
    BY <1>11 DEF disable_past_epoch, At, Early, Steps
  <2> HIDE DEF r
  <2> QED BY <1>2, <1>3, <2>1, <2>2
<1>12. CASE get_self_retention(c) \/ reread_self_retention(c)
  <2> DEFINE r == [call[c] EXCEPT !.pc = "already", !.key = dek[call[c].epoch].key]
  <2>1. r.attempt = call[c].attempt /\ r.key = dek[call[c].epoch].key /\ r.pc \notin Early
    BY <1>1 DEF Call, Early
  <2>2. call[c].pc \in Steps /\ (Becomes(c, r) \/ Return(c) \/ (Goto(c, "put") /\ call[c].pc \in Early))
    BY <1>12 DEF get_self_retention, reread_self_retention, converged, At, Early, Steps
  <2> HIDE DEF r
  <2> QED BY <1>1, <1>2, <1>3, <1>4, <2>1, <2>2
<1>13. CASE list_recipients(c)
  <2> DEFINE r == [call[c] EXCEPT !.pc = "wrap", !.members = {},
                                  !.targets = call[c].members \ Held(call[c].epoch)]
  <2>1. r.attempt = call[c].attempt /\ r.key = call[c].key /\ r.pc \notin Early
    BY <1>1 DEF Call, Early
  <2>2. Becomes(c, r) /\ call[c].pc \in Steps
    BY <1>13 DEF list_recipients, At, Steps
  <2> HIDE DEF r
  <2> QED BY <1>3, <2>1, <2>2
<1>14. ASSUME NEW m \in Members, put_member_grant(c, m) PROVE F
  <2> DEFINE r == [call[c] EXCEPT !.targets = @ \ {m}]
  <2>1. r.attempt = call[c].attempt /\ r.key = call[c].key /\ r.pc = call[c].pc
    BY <1>1 DEF Call
  <2>2. Becomes(c, r) /\ call[c].pc \in Steps
    BY <1>14 DEF put_member_grant, At, Steps
  <2> HIDE DEF r
  <2> QED BY <1>3, <2>1, <2>2
<1>15. CASE store_blob(c)
  <2> DEFINE r == [call[c] EXCEPT !.pc = "bind", !.key = None, !.rotated = FALSE]
  <2>1. r.attempt = call[c].attempt /\ r.key = None /\ r.pc \notin Early
    BY <1>1 DEF Call, Early
  <2>2. Becomes(c, r) /\ call[c].pc \in Steps
    BY <1>15 DEF store_blob, At, Steps
  <2> HIDE DEF r
  <2> QED BY <1>3, <2>1, <2>2
<1>16. CASE delete_and_retry(c)
  <2>1. CASE Becomes(c, Locals("read", call[c].attempt + 1))
    BY <1>1, <1>16, <2>1 DEF delete_and_retry, At, Becomes, Locals, Follows, Steps, F
  <2> QED BY <1>2, <1>16, <2>1 DEF delete_and_retry, At, Steps
<1>17. CASE abandon(c)
  <2>1. CASE Becomes(c, Locals("dead", call[c].attempt))
    BY <1>1, <1>17, <2>1 DEF abandon, Becomes, Locals, Follows, Steps, F
  <2> QED BY <1>2, <1>17, <2>1 DEF abandon
<1>18. CASE rotate_on_removal(c) \/ rotate_on_leaver(c)
  BY <1>4, <1>5, <1>18 DEF rotate_on_removal, rotate_on_leaver, At, Steps, Early
<1>19. CASE check_key_state(c) \/ put_self_retention(c)
  BY <1>2, <1>4, <1>19 DEF check_key_state, put_self_retention, At, Steps, Early
<1>20. CASE bind_blob_epoch(c) \/ bind_fails(c) \/ delete_and_fail(c)
  BY <1>2, <1>4, <1>20 DEF bind_blob_epoch, bind_fails, delete_and_fail, At, Steps, Early
<1> QED
  BY <1>6, <1>7, <1>8, <1>10, <1>11, <1>12, <1>13, <1>14, <1>15, <1>16, <1>17, <1>18, <1>19, <1>20
     DEF CallStep

\* A step that draws no key: keys only pass from a row of dek to a call and from
\* a call to the row it stores.
LEMMA FreshKept ==
    ASSUME DekInv, FreshInv,
           \A c \in Calls : \A a \in 1..Attempts : Undrawn(c, a)' => Undrawn(c, a),
           \A e \in Epochs : dek'[e].key \in {dek[e].key, None},
           \A d \in Calls : call'[d].key \in {call[d].key, None} \/ \E e \in Epochs : call'[d].key = dek[e].key,
           \A b \in Seals : blobs'[b].key \in {blobs[b].key, None} \/ \E d \in Calls : blobs'[b].key = call[d].key
    PROVE  FreshInv'
<1> SUFFICES ASSUME NEW c \in Calls, NEW a \in 1..Attempts, Undrawn(c, a)
             PROVE  /\ \A e \in Epochs : dek'[e].key # <<c, a>>
                    /\ \A d \in Calls : call'[d].key # <<c, a>>
                    /\ \A b \in Seals : blobs'[b].key # <<c, a>>
  BY DEF FreshInv
<1>1. /\ \A e \in Epochs : dek[e].key # <<c, a>>
      /\ \A d \in Calls : call[d].key # <<c, a>>
      /\ \A b \in Seals : blobs[b].key # <<c, a>>
  BY DEF FreshInv
<1>2. None # <<c, a>>
  BY DekAssumption
<1>3. \A e \in Epochs : dek'[e].key # <<c, a>>
  BY <1>1, <1>2
<1>4. \A d \in Calls : call'[d].key # <<c, a>>
  BY <1>1, <1>2
<1>5. \A b \in Seals : blobs'[b].key # <<c, a>>
  BY <1>1, <1>2
<1> QED BY <1>3, <1>4, <1>5

\* What a step of a call may write to the rows.
LEMMA CallRows ==
    ASSUME EpochInv, NEW c \in Calls, CallStep(c)
    PROVE  /\ \A b \in Seals : \/ blobs'[b] = blobs[b]
                               \/ /\ b = Seal(c) /\ ~blobs[b].evicted /\ ~blobs'[b].evicted
                                  /\ blobs[b].epoch = None
                                  /\ blobs'[b].key \in {blobs[b].key, None, call[c].key}
                                  /\ blobs'[b].epoch = None \/ bind_blob_epoch(c)
           /\ sweep' = sweep
<1> DEFINE R == \A b \in Seals : \/ blobs'[b] = blobs[b]
                                 \/ /\ b = Seal(c) /\ ~blobs[b].evicted /\ ~blobs'[b].evicted
                                    /\ blobs[b].epoch = None
                                    /\ blobs'[b].key \in {blobs[b].key, None, call[c].key}
                                    /\ blobs'[b].epoch = None \/ bind_blob_epoch(c)
<1>1. /\ call[c] \in Call /\ call[c].attempt \in 1..Attempts /\ Seal(c) \in Seals
      /\ blobs \in [Seals -> Blob] /\ blobs[Seal(c)] \in Blob
  BY DEF EpochInv, DekInv, TypeOK, Call, Seal, Seals
<1>2. call[c].pc \in Steps => blobs[Seal(c)].epoch = None /\ ~blobs[Seal(c)].evicted
  BY <1>1 DEF EpochInv, DekInv, RowInv, Seal, Call
<1>3. CASE store_blob(c)
  <2>1. R
    BY <1>1, <1>2, <1>3 DEF store_blob, At, Steps, Blob
  <2> QED BY <1>3, <2>1 DEF store_blob
<1>4. CASE bind_blob_epoch(c)
  <2>1. R
    BY <1>1, <1>2, <1>4 DEF bind_blob_epoch, At, Steps, Blob
  <2> QED BY <1>4, <2>1 DEF bind_blob_epoch
<1>5. CASE delete_and_retry(c) \/ delete_and_fail(c)
  <2>1. R
    BY <1>1, <1>2, <1>5 DEF delete_and_retry, delete_and_fail, Unstored, At, Steps, Blob
  <2> QED BY <1>5, <2>1 DEF delete_and_retry, delete_and_fail
<1> QED
  BY <1>3, <1>4, <1>5
     DEF CallStep, read_epoch, resolve_community_members, rotate_on_removal, list_past_epochs,
         retire_epoch, disable_past_epoch, rotate_on_leaver, check_key_state, get_self_retention,
         put_self_retention, reread_self_retention, list_recipients, put_member_grant, bind_fails,
         abandon

\* What a step of a call may write to the row of an epoch, its mint apart.
LEMMA CallDek ==
    ASSUME DekInv, NEW c \in Calls, CallStep(c), ~put_self_retention(c)
    PROVE  \/ UNCHANGED dek
           \/ \E e \in Epochs : can_retire(e) /\ dek' = with_state(e, "disabled")
<1>1. call[c].epoch \in Epochs
  BY DEF DekInv, TypeOK, Call
<1>2. CASE retire_epoch(c, "retire_removal", "past") \/ retire_epoch(c, "retire_leaver", "state")
  BY <1>1, <1>2 DEF retire_epoch
<1>3. CASE \E p \in Epochs : disable_past_epoch(c, p)
  BY <1>3 DEF disable_past_epoch
<1> QED
  BY <1>2, <1>3
     DEF CallStep, read_epoch, resolve_community_members, rotate_on_removal, list_past_epochs,
         rotate_on_leaver, check_key_state, get_self_retention, reread_self_retention,
         list_recipients, put_member_grant, store_blob, bind_blob_epoch, bind_fails,
         delete_and_retry, delete_and_fail, abandon

LEMMA CallEpochInv ==
    ASSUME EpochInv, NEW c \in Calls, CallStep(c) PROVE FreshInv' /\ SweepInv' /\ EvictedInv'
<1> USE DEF EpochInv
<1>1. /\ call \in [Calls -> Call] /\ call[c] \in Call /\ call[c].epoch \in Epochs
      /\ call[c].attempt \in 1..Attempts /\ dek \in [Epochs -> Dek] /\ pointer \in Nat
      /\ sweep.current \in Nat
  BY DEF DekInv, TypeOK, Call, Sweep, Epochs
<1>2. call[c].pc \in Steps /\ Follows(c) /\ \A d \in Calls : d # c => call'[d] = call[d]
  BY CallFollows
<1>3. /\ \A b \in Seals : \/ blobs'[b] = blobs[b]
                          \/ ~blobs'[b].evicted /\ blobs'[b].key \in {blobs[b].key, None, call[c].key}
      /\ sweep' = sweep
  BY CallRows
<1>4. EvictedInv'
  BY <1>3 DEF EvictedInv
<1>5. SweepInv'
  <2>1. pointer' \in {pointer, pointer + 1}
    BY DEF CallStep, read_epoch, resolve_community_members, rotate_on_removal, list_past_epochs,
           retire_epoch, disable_past_epoch, rotate_on_leaver, check_key_state, get_self_retention,
           put_self_retention, reread_self_retention, list_recipients, put_member_grant, store_blob,
           bind_blob_epoch, bind_fails, delete_and_retry, delete_and_fail, abandon, bump_epoch
  <2>2. pointer' \in Nat
    BY DekNext DEF DekInv, TypeOK, Epochs, Next
  <2> QED BY <1>1, <1>3, <2>1, <2>2 DEF SweepInv
<1>6. \A d \in Calls : \A a \in 1..Attempts : Undrawn(d, a)' => Undrawn(d, a)
  BY <1>1, <1>2 DEF Undrawn, Follows
<1>7. \A d \in Calls : call'[d].key \in {call[d].key, None} \/ \E e \in Epochs : call'[d].key = dek[e].key
  BY <1>2 DEF Follows
<1>8. CASE ~put_self_retention(c)
  <2>1. \A e \in Epochs : dek'[e].key \in {dek[e].key, None}
    BY <1>1, <1>8, CallDek DEF with_state, Dek
  <2> QED BY <1>3, <1>4, <1>5, <1>6, <1>7, <2>1, FreshKept
<1>9. CASE put_self_retention(c)
  <2>1. \A e \in Epochs : dek'[e].key \in {dek[e].key, <<c, call[c].attempt>>}
    BY <1>1, <1>9 DEF put_self_retention, retention_put, Minted
  <2>2. /\ call'[c].pc = "reread" /\ call'[c].attempt = call[c].attempt /\ call'[c].key = call[c].key
        /\ UNCHANGED blobs
    BY <1>1, <1>9 DEF put_self_retention, Goto, Becomes, Call
  <2>3. PICK k \in 1..Attempts : k = call[c].attempt
    BY <1>1
  <2>4. ~Undrawn(c, k)'
    BY <2>2, <2>3 DEF Undrawn, Early
  <2> SUFFICES ASSUME NEW d \in Calls, NEW a \in 1..Attempts, Undrawn(d, a)'
               PROVE  /\ \A e \in Epochs : dek'[e].key # <<d, a>>
                      /\ \A f \in Calls : call'[f].key # <<d, a>>
                      /\ \A b \in Seals : blobs'[b].key # <<d, a>>
    BY <1>4, <1>5 DEF FreshInv
  <2>5. /\ \A e \in Epochs : dek[e].key # <<d, a>>
        /\ \A f \in Calls : call[f].key # <<d, a>>
        /\ \A b \in Seals : blobs[b].key # <<d, a>>
    BY <1>6 DEF FreshInv
  <2>6. <<d, a>> # <<c, call[c].attempt>>
    BY <2>3, <2>4
  <2>7. \A f \in Calls : call'[f].key = call[f].key
    BY <1>2, <2>2
  <2> QED BY <2>1, <2>2, <2>5, <2>6, <2>7
<1> QED BY <1>8, <1>9

\* The sweep and the others move no call.
LEMMA OtherEpochInv ==
    ASSUME EpochInv, SweepStep \/ RosterStep \/ OperatorStep \/ UNCHANGED vars
    PROVE  FreshInv' /\ SweepInv' /\ EvictedInv'
<1> USE DEF EpochInv
<1>1. /\ dek \in [Epochs -> Dek] /\ blobs \in [Seals -> Blob] /\ pointer \in Nat
      /\ sweep \in Sweep /\ sweep.current \in Nat /\ sweep.todo \subseteq Epochs /\ Epochs \subseteq Nat
  BY DEF DekInv, TypeOK, Sweep, Epochs
<1>2. UNCHANGED call
  BY DEF SweepStep, RosterStep, OperatorStep, vars, sweep_begin, sweep_disable, sweep_evict,
         sweep_evict_fails, sweep_count, sweep_destroy, tick, revoke_member, widen_member,
         set_allow_list, enable_epoch, disable_epoch, destroy_epoch
<1>3. \A e \in Epochs : dek'[e].key \in {dek[e].key, None}
  <2>1. \/ UNCHANGED dek
        \/ \E e \in Epochs : \/ \E s \in States : dek' = with_state(e, s)
                             \/ dek' = without_key(e)
    BY DEF SweepStep, RosterStep, OperatorStep, vars, sweep_begin, sweep_disable, sweep_evict,
           sweep_evict_fails, sweep_count, sweep_destroy, tick, revoke_member, widen_member,
           set_allow_list, enable_epoch, disable_epoch, destroy_epoch, States
  <2>2. ASSUME NEW e \in Epochs, NEW s \in States, dek' = with_state(e, s)
        PROVE  \A f \in Epochs : dek'[f].key = dek[f].key
    BY <1>1, <2>2 DEF with_state, Dek
  <2>3. ASSUME NEW e \in Epochs, dek' = without_key(e)
        PROVE  \A f \in Epochs : dek'[f].key \in {dek[f].key, None}
    BY <1>1, <2>3 DEF without_key, Dek
  <2> QED BY <2>1, <2>2, <2>3
<1>4. UNCHANGED blobs \/ \E e \in Epochs : blobs' = Evicted(e)
  BY DEF SweepStep, RosterStep, OperatorStep, vars, sweep_begin, sweep_disable, sweep_evict,
         sweep_evict_fails, sweep_count, sweep_destroy, tick, revoke_member, widen_member,
         set_allow_list, enable_epoch, disable_epoch, destroy_epoch
<1>5. \A b \in Seals : blobs'[b] = blobs[b] \/ blobs'[b].key = None
  BY <1>1, <1>4 DEF Evicted, Blob
<1>6. EvictedInv'
  BY <1>5 DEF EvictedInv
<1>7. FreshInv'
  <2>1. \A c \in Calls : \A a \in 1..Attempts : Undrawn(c, a)' => Undrawn(c, a)
    BY <1>2 DEF Undrawn
  <2>2. \A b \in Seals : blobs'[b].key \in {blobs[b].key, None}
    BY <1>5
  <2> QED BY <1>2, <1>3, <2>1, <2>2, FreshKept
<1>8. pointer' \in {pointer, pointer + 1}
  BY DEF SweepStep, RosterStep, OperatorStep, vars, sweep_begin, sweep_disable, sweep_evict,
         sweep_evict_fails, sweep_count, sweep_destroy, tick, revoke_member, widen_member,
         set_allow_list, enable_epoch, disable_epoch, destroy_epoch, rotated_pointer
<1>9. SweepInv'
  <2>1. CASE sweep' = sweep
    BY <1>1, <1>8, <2>1 DEF SweepInv
  <2>2. CASE sweep' = Idle
    BY <1>1, <1>8, <2>2 DEF SweepInv, Idle
  <2>3. CASE \E r \in Retains : sweep_begin(r)
    BY <1>1, <2>3 DEF SweepInv, sweep_begin
  <2>4. CASE sweep'.current = sweep.current /\ sweep'.todo \subseteq sweep.todo
    BY <1>1, <1>8, <2>4 DEF SweepInv
  <2>5. CASE SweepStep
    <3>1. ASSUME NEW e \in Epochs
          PROVE  NextAfter(e) = Idle \/ (NextAfter(e).current = sweep.current /\ NextAfter(e).todo \subseteq sweep.todo)
      BY <1>1 DEF NextAfter, Sweep
    <3>2. ASSUME NEW pc
          PROVE  /\ [sweep EXCEPT !.pc = pc].current = sweep.current
                 /\ [sweep EXCEPT !.pc = pc].todo = sweep.todo
      BY <1>1 DEF Sweep
    <3>3. ASSUME NEW e \in Epochs, sweep_disable(e) \/ sweep_evict(e) PROVE SweepInv'
      BY <2>2, <2>4, <3>2, <3>3 DEF sweep_disable, sweep_evict
    <3>4. ASSUME NEW e \in Epochs, sweep_evict_fails(e) PROVE SweepInv'
      BY <2>2, <2>4, <3>1, <3>4 DEF sweep_evict_fails
    <3>5. ASSUME NEW e \in Epochs, sweep_count(e) PROVE SweepInv'
      BY <2>2, <2>4, <3>1, <3>2, <3>5 DEF sweep_count
    <3>6. ASSUME NEW e \in Epochs, sweep_destroy(e) PROVE SweepInv'
      BY <2>2, <2>4, <3>1, <3>6 DEF sweep_destroy
    <3> QED BY <2>3, <2>5, <3>3, <3>4, <3>5, <3>6 DEF SweepStep
  <2> QED
    BY <2>1, <2>5
       DEF RosterStep, OperatorStep, vars, tick, revoke_member, widen_member, set_allow_list,
           enable_epoch, disable_epoch, destroy_epoch
<1> QED BY <1>6, <1>7, <1>9

LEMMA EpochNext == EpochInv /\ [Next]_vars => EpochInv'
<1> SUFFICES ASSUME EpochInv, [Next]_vars PROVE EpochInv'
  OBVIOUS
<1>1. DekInv'
  BY DekNext DEF EpochInv
<1>2. FreshInv' /\ SweepInv' /\ EvictedInv'
  BY CallEpochInv, OtherEpochInv DEF Next
<1> QED BY <1>1, <1>2 DEF EpochInv

LEMMA EpochInit == Init => EpochInv
<1> SUFFICES ASSUME Init PROVE EpochInv
  OBVIOUS
<1>1. \A c \in Calls : \A a \in 1..Attempts : None # <<c, a>>
  BY DekAssumption
<1>2. FreshInv
  BY <1>1 DEF Init, FreshInv, Locals
<1>3. SweepInv /\ EvictedInv
  BY DEF Init, SweepInv, EvictedInv, Idle
<1> QED BY <1>2, <1>3, DekInit DEF EpochInv

-----------------------------------------------------------------------------
(* Every step is a step of EpochKeys, or changes nothing it speaks of.      *)

\* Nothing a member sees has changed.
LEMMA Unseen ==
    ASSUME UNCHANGED pointer,
           \A e \in Epochs : dek'[e].state = dek[e].state /\ dek'[e].key = dek[e].key,
           \A e \in Epochs : \A m \in Members : dek[e].key # None => grants'[e][m] = grants[e][m],
           \A b \in Seals : content_of(b)' = content_of(b)
    PROVE  UNCHANGED Promise!kvars
<1>1. \A e \in Epochs : \A m \in Members : wrap_of(e, m)' = wrap_of(e, m)
  BY DEF wrap_of
<1>2. \A e \in Epochs : phase_of(e)' = phase_of(e) /\ key_of(e)' = key_of(e)
  BY DEF phase_of, key_of
<1>3. [e \in Epochs |-> phase_of(e)]' = [e \in Epochs |-> phase_of(e)]
  BY <1>2
<1>4. [e \in Epochs |-> key_of(e)]' = [e \in Epochs |-> key_of(e)]
  BY <1>2
<1>5. [e \in Epochs |-> [m \in Members |-> wrap_of(e, m)]]' = [e \in Epochs |-> [m \in Members |-> wrap_of(e, m)]]
  BY <1>1
<1>6. [b \in Seals |-> content_of(b)]' = [b \in Seals |-> content_of(b)]
  OBVIOUS
<1> QED BY <1>3, <1>4, <1>5, <1>6 DEF Promise!kvars

LEMMA SameTables == ASSUME UNCHANGED <<pointer, dek, grants, blobs>> PROVE UNCHANGED Promise!kvars
BY Unseen DEF content_of

LEMMA BumpRotates ==
    ASSUME pointer' = pointer + 1, UNCHANGED <<dek, grants, blobs>> PROVE Promise!KNext
<1>1. /\ [e \in Epochs |-> phase_of(e)]' = [e \in Epochs |-> phase_of(e)]
      /\ [e \in Epochs |-> key_of(e)]' = [e \in Epochs |-> key_of(e)]
      /\ [e \in Epochs |-> [m \in Members |-> wrap_of(e, m)]]' = [e \in Epochs |-> [m \in Members |-> wrap_of(e, m)]]
      /\ [b \in Seals |-> content_of(b)]' = [b \in Seals |-> content_of(b)]
  BY DEF phase_of, key_of, wrap_of, content_of
<1>2. Promise!Rotate
  BY <1>1 DEF Promise!Rotate
<1> QED BY <1>2 DEF Promise!KNext

\* An epoch with a key is the current one or over.
LEMMA Over ==
    ASSUME DekInv, NEW e \in Epochs, dek[e].state # "absent", e # pointer
    PROVE  e < pointer
BY DekAssumption DEF DekInv, PointerInv, TypeOK, Epochs

\* The door's UPDATE to enabled or disabled.
LEMMA RelabelRefines ==
    ASSUME DekInv, NEW e \in Epochs, NEW s \in {"enabled", "disabled"}, e # pointer,
           dek[e].state \in {"enabled", "disabled"}, dek' = with_state(e, s),
           UNCHANGED <<pointer, grants, blobs>>
    PROVE  Promise!KNext \/ UNCHANGED Promise!kvars
<1>1. e < pointer
  BY Over
<1>2. /\ \A f \in Epochs : dek'[f].key = dek[f].key
      /\ \A f \in Epochs : dek'[f].state = IF f = e THEN s ELSE dek[f].state
  BY DEF DekInv, TypeOK, with_state, Dek
<1>3. CASE dek[e].state = s
  BY <1>2, <1>3, Unseen DEF content_of
<1>4. CASE dek[e].state # s
  <2>1. [f \in Epochs |-> phase_of(f)]' = [[f \in Epochs |-> phase_of(f)] EXCEPT ![e] = s]
    BY <1>2 DEF phase_of
  <2>2. [f \in Epochs |-> key_of(f)]' = [f \in Epochs |-> key_of(f)]
    BY <1>2 DEF key_of
  <2>3. [f \in Epochs |-> [m \in Members |-> wrap_of(f, m)]]' = [f \in Epochs |-> [m \in Members |-> wrap_of(f, m)]]
    BY <1>2 DEF wrap_of
  <2>4. [b \in Seals |-> content_of(b)]' = [b \in Seals |-> content_of(b)]
    BY DEF content_of
  <2>5. [f \in Epochs |-> phase_of(f)][e] = dek[e].state
    BY DEF phase_of
  <2>6. CASE s = "disabled"
    <3>1. Promise!Disable(e)
      BY <1>1, <1>4, <2>1, <2>2, <2>3, <2>4, <2>5, <2>6 DEF Promise!Disable
    <3> QED BY <3>1 DEF Promise!KNext
  <2>7. CASE s = "enabled"
    <3>1. Promise!Enable(e)
      BY <1>1, <1>4, <2>1, <2>2, <2>3, <2>4, <2>5, <2>7 DEF Promise!Enable
    <3> QED BY <3>1 DEF Promise!KNext
  <2> QED BY <2>6, <2>7
<1> QED BY <1>3, <1>4

\* The rows of an epoch that can still be opened are among its live ones.
LEMMA ReadableIsLive ==
    ASSUME EpochInv, NEW e \in Epochs PROVE Promise!Readable(e) \subseteq Live(e)
<1> SUFFICES ASSUME NEW b \in Seals, NEW k \in Seals, <<e, k>> \in content_of(b)
             PROVE  b \in Live(e)
  BY DEF Promise!Readable
<1>1. blobs[b].epoch = e /\ blobs[b].key = k
  BY DEF content_of
<1>2. k # None /\ blobs[b].evicted \in BOOLEAN
  BY DekAssumption DEF Seals, EpochInv, DekInv, TypeOK, Blob
<1>3. ~blobs[b].evicted
  BY <1>1, <1>2 DEF EpochInv, EvictedInv
<1> QED BY <1>1, <1>3 DEF Live

LEMMA DestroyRefines ==
    ASSUME EpochInv, NEW e \in Epochs, can_destroy(e), dek' = without_key(e),
           grants' = no_grants(e), UNCHANGED <<pointer, blobs>>
    PROVE  Promise!KNext
<1>1. e < pointer /\ dek[e].state \in {"enabled", "disabled"} /\ Live(e) = {}
  BY Over DEF can_destroy, can_retire, EpochInv
<1>2. /\ dek'[e].key = None /\ dek'[e].state = "destroyed"
      /\ \A f \in Epochs : f # e => dek'[f] = dek[f] /\ grants'[f] = grants[f]
  BY DEF EpochInv, DekInv, TypeOK, without_key, no_grants, Dek
<1>3. [f \in Epochs |-> phase_of(f)]' = [[f \in Epochs |-> phase_of(f)] EXCEPT ![e] = "destroyed"]
  BY <1>2 DEF phase_of
<1>4. [f \in Epochs |-> key_of(f)]' = [[f \in Epochs |-> key_of(f)] EXCEPT ![e] = None]
  BY <1>2 DEF key_of
<1>5. [f \in Epochs |-> [m \in Members |-> wrap_of(f, m)]]'
         = [[f \in Epochs |-> [m \in Members |-> wrap_of(f, m)]] EXCEPT ![e] = [m \in Members |-> None]]
  BY <1>2 DEF wrap_of
<1>6. [b \in Seals |-> content_of(b)]' = [b \in Seals |-> content_of(b)]
  BY DEF content_of
<1>7. [f \in Epochs |-> phase_of(f)][e] = dek[e].state
  BY DEF phase_of
<1>8. Promise!Readable(e) = {}
  BY <1>1, ReadableIsLive
<1>9. Promise!Destroy(e)
  BY <1>1, <1>3, <1>4, <1>5, <1>6, <1>7, <1>8 DEF Promise!Destroy
<1> QED BY <1>9 DEF Promise!KNext

LEMMA PutRefines ==
    ASSUME EpochInv, NEW c \in Calls, put_self_retention(c)
    PROVE  Promise!KNext \/ UNCHANGED Promise!kvars
<1>1. /\ call[c] \in Call /\ call[c].pc = "put" /\ call[c].epoch <= pointer
      /\ UNCHANGED <<pointer, grants, blobs>>
  BY DEF put_self_retention, At, EpochInv, DekInv, TypeOK, CallInv, CallOk
<1>2. PICK e \in Epochs : e = call[c].epoch
  BY <1>1 DEF Call
<1>3. PICK k \in Seals : k = <<c, call[c].attempt>>
  BY <1>1 DEF Call, Seals
<1>4. CASE dek[e].state # "absent"
  BY <1>1, <1>2, <1>4, SameTables DEF put_self_retention, retention_put
<1>5. CASE dek[e].state = "absent"
  <2>1. /\ dek'[e].state = "enabled" /\ dek'[e].key = k
        /\ \A f \in Epochs : f # e => dek'[f] = dek[f]
    BY <1>1, <1>2, <1>3, <1>5
       DEF put_self_retention, retention_put, Minted, EpochInv, DekInv, TypeOK
  <2>2. dek[e].key = None /\ \A m \in Members : grants[e][m] = None
    BY <1>5 DEF EpochInv, DekInv, TypeOK, PointerInv
  <2>3. [f \in Epochs |-> phase_of(f)]' = [[f \in Epochs |-> phase_of(f)] EXCEPT ![e] = "enabled"]
    BY <2>1 DEF phase_of
  <2>4. [f \in Epochs |-> key_of(f)]' = [[f \in Epochs |-> key_of(f)] EXCEPT ![e] = k]
    BY <2>1 DEF key_of
  <2>5. \A f \in Epochs : \A m \in Members : wrap_of(f, m)' = wrap_of(f, m)
    BY <1>1, <2>1, <2>2 DEF wrap_of
  <2>6. [f \in Epochs |-> [m \in Members |-> wrap_of(f, m)]]' = [f \in Epochs |-> [m \in Members |-> wrap_of(f, m)]]
    BY <2>5
  <2>7. [b \in Seals |-> content_of(b)]' = [b \in Seals |-> content_of(b)]
    BY <1>1 DEF content_of
  <2>8. Promise!Fresh(k)
    <3>1. Undrawn(c, call[c].attempt) /\ call[c].attempt \in 1..Attempts
      BY <1>1 DEF Undrawn, Early, Steps, Call
    <3>2. (\A f \in Epochs : dek[f].key # k) /\ \A b \in Seals : blobs[b].key # k
      BY <1>3, <3>1 DEF EpochInv, FreshInv
    <3>3. \A f \in Epochs : [g \in Epochs |-> key_of(g)][f] # k
      BY <3>2 DEF key_of
    <3>4. \A f \in Epochs : \A b \in Seals : <<f, k>> \notin [d \in Seals |-> content_of(d)][b]
      BY <3>2 DEF content_of
    <3> QED BY <3>3, <3>4 DEF Promise!Fresh
  <2>9. [f \in Epochs |-> phase_of(f)][e] = "absent"
    BY <1>5 DEF phase_of
  <2>10. Promise!Mint(e)
    BY <1>1, <1>2, <2>3, <2>4, <2>6, <2>7, <2>8, <2>9 DEF Promise!Mint
  <2> QED BY <2>10 DEF Promise!KNext
<1> QED BY <1>4, <1>5

LEMMA GrantRefines ==
    ASSUME EpochInv, NEW c \in Calls, NEW m \in Members, put_member_grant(c, m)
    PROVE  Promise!KNext \/ UNCHANGED Promise!kvars
<1>1. /\ call[c] \in Call /\ call[c].pc \in Holding /\ UNCHANGED <<pointer, dek, blobs>>
      /\ grants \in [Epochs -> [Members -> Seals \cup {None}]]
  BY DEF put_member_grant, At, Holding, EpochInv, DekInv, TypeOK
<1>2. PICK e \in Epochs : e = call[c].epoch
  BY <1>1 DEF Call
<1>3. CASE grants' = grants
  BY <1>1, <1>3, SameTables
<1>4. CASE grants' # grants
  <2>1. grants[e][m] = None /\ grants' = [grants EXCEPT ![e][m] = call[c].key]
    BY <1>2, <1>4 DEF put_member_grant
  <2>2. /\ grants'[e][m] = call[c].key
        /\ \A f \in Epochs : \A n \in Members : f # e \/ n # m => grants'[f][n] = grants[f][n]
    BY <1>1, <2>1
  <2>3. CASE dek[e].key = None
    <3>1. \A f \in Epochs : \A n \in Members : dek[f].key # None => grants'[f][n] = grants[f][n]
      BY <2>2, <2>3
    <3> QED BY <1>1, <3>1, Unseen DEF content_of
  <2>4. CASE dek[e].key # None
    <3>1. call[c].key = dek[e].key
      BY <1>1, <1>2, <2>4 DEF EpochInv, DekInv, KeyInv
    <3>2. dek[e].state \in {"enabled", "disabled"}
      BY <2>4 DEF EpochInv, DekInv, TypeOK, Dek, States
    <3>3. /\ [f \in Epochs |-> phase_of(f)]' = [f \in Epochs |-> phase_of(f)]
          /\ [f \in Epochs |-> key_of(f)]' = [f \in Epochs |-> key_of(f)]
          /\ [b \in Seals |-> content_of(b)]' = [b \in Seals |-> content_of(b)]
      BY <1>1 DEF phase_of, key_of, content_of
    <3>4. /\ wrap_of(e, m)' = dek[e].key /\ wrap_of(e, m) = None
          /\ \A f \in Epochs : \A n \in Members : f # e \/ n # m => wrap_of(f, n)' = wrap_of(f, n)
      BY <1>1, <2>1, <2>2, <2>4, <3>1 DEF wrap_of
    <3>5. [f \in Epochs |-> [n \in Members |-> wrap_of(f, n)]]'
             = [[f \in Epochs |-> [n \in Members |-> wrap_of(f, n)]] EXCEPT ![e][m] = dek[e].key]
      BY <3>4
    <3>6. /\ [f \in Epochs |-> phase_of(f)][e] = dek[e].state
          /\ [f \in Epochs |-> key_of(f)][e] = dek[e].key
          /\ [f \in Epochs |-> [n \in Members |-> wrap_of(f, n)]][e][m] = None
      BY <3>4 DEF phase_of, key_of
    <3>7. Promise!Wrap(e, m)
      BY <1>1, <3>2, <3>3, <3>5, <3>6 DEF Promise!Wrap
    <3> QED BY <3>7 DEF Promise!KNext
  <2> QED BY <2>3, <2>4
<1> QED BY <1>3, <1>4

LEMMA BindRefines ==
    ASSUME EpochInv, NEW c \in Calls, bind_blob_epoch(c)
    PROVE  Promise!KNext \/ UNCHANGED Promise!kvars
<1>1. /\ call[c] \in Call /\ call[c].pc = "bind" /\ UNCHANGED <<pointer, dek, grants>>
      /\ blobs \in [Seals -> Blob] /\ pointer \in Epochs /\ pointer # None
  BY DekAssumption DEF bind_blob_epoch, At, EpochInv, DekInv, TypeOK, Epochs
<1>2. PICK b \in Seals : b = Seal(c)
  BY <1>1 DEF Call, Seal, Seals
<1>3. CASE blobs' = blobs
  BY <1>1, <1>3, SameTables
<1>4. CASE blobs' # blobs
  <2>1. /\ blobs' = [blobs EXCEPT ![b].epoch = pointer] /\ dek[pointer].state = "enabled"
        /\ call[c].epoch = pointer
    BY <1>2, <1>4 DEF bind_blob_epoch, bindable
  <2>2. blobs[b].epoch = None
    BY <1>1, <1>2 DEF EpochInv, DekInv, RowInv, Seal, Steps, Call
  <2>3. blobs[b].key = dek[pointer].key
    BY <1>1, <1>2, <2>1 DEF EpochInv, DekInv, KeyInv, TypeOK
  <2>4. /\ blobs'[b].epoch = pointer /\ blobs'[b].key = dek[pointer].key
        /\ \A d \in Seals : d # b => blobs'[d] = blobs[d]
    BY <1>1, <2>1, <2>3 DEF Blob
  <2>5. /\ content_of(b) = {} /\ content_of(b)' = {<<pointer, dek[pointer].key>>}
        /\ \A d \in Seals : d # b => content_of(d)' = content_of(d)
    BY <1>1, <2>2, <2>4 DEF content_of
  <2>6. [d \in Seals |-> content_of(d)]'
           = [[d \in Seals |-> content_of(d)] EXCEPT ![b] = {<<pointer, dek[pointer].key>>}]
    BY <2>5
  <2>7. /\ [f \in Epochs |-> phase_of(f)]' = [f \in Epochs |-> phase_of(f)]
        /\ [f \in Epochs |-> key_of(f)]' = [f \in Epochs |-> key_of(f)]
        /\ [f \in Epochs |-> [n \in Members |-> wrap_of(f, n)]]' = [f \in Epochs |-> [n \in Members |-> wrap_of(f, n)]]
    BY <1>1 DEF phase_of, key_of, wrap_of
  <2>8. /\ [f \in Epochs |-> phase_of(f)][pointer] = "enabled"
        /\ [f \in Epochs |-> key_of(f)][pointer] = dek[pointer].key
        /\ [d \in Seals |-> content_of(d)][b] = {}
    BY <1>1, <2>1, <2>5 DEF phase_of, key_of
  <2>9. Promise!Bind(b)
    BY <1>1, <2>6, <2>7, <2>8 DEF Promise!Bind
  <2> QED BY <2>9 DEF Promise!KNext
<1> QED BY <1>3, <1>4

LEMMA EvictRefines ==
    ASSUME EpochInv, NEW e \in Epochs, sweep_evict(e)
    PROVE  Promise!KNext \/ UNCHANGED Promise!kvars
<1>1. /\ UNCHANGED <<pointer, dek, grants>> /\ blobs \in [Seals -> Blob] /\ e # None
      /\ e \in Nat /\ pointer \in Nat /\ sweep.current \in Nat
  BY DekAssumption DEF sweep_evict, EpochInv, DekInv, TypeOK, Sweep, Epochs
<1>2. e < pointer
  BY <1>1 DEF sweep_evict, SweepAt, IsOldest, EpochInv, SweepInv
<1>3. CASE blobs' = blobs
  BY <1>1, <1>3, SameTables
<1>4. CASE blobs' = Evicted(e)
  <2>1. \A b \in Seals : b \in Live(e) => content_of(b)' = {<<e, None>>}
    BY <1>1, <1>4 DEF Evicted, Live, Blob, content_of
  <2>2. \A b \in Seals : b \notin Live(e) => content_of(b)' = content_of(b)
    BY <1>4 DEF Evicted, content_of
  <2>3. \A b \in Seals : b \in Live(e) /\ b \notin Promise!Readable(e) => content_of(b) = {<<e, None>>}
    BY <1>1 DEF Promise!Readable, Live, Blob, content_of
  <2>4. \A b \in Seals :
           content_of(b)' = IF b \in Promise!Readable(e) THEN {<<e, None>>} ELSE content_of(b)
    BY <2>1, <2>2, <2>3, ReadableIsLive
  <2>5. CASE Promise!Readable(e) = {}
    BY <1>1, <2>4, <2>5, Unseen
  <2>6. CASE Promise!Readable(e) # {}
    <3>1. [b \in Seals |-> content_of(b)]'
             = [b \in Seals |-> IF b \in Promise!Readable(e) THEN {<<e, None>>}
                                ELSE [d \in Seals |-> content_of(d)][b]]
      BY <2>4
    <3>2. /\ [f \in Epochs |-> phase_of(f)]' = [f \in Epochs |-> phase_of(f)]
          /\ [f \in Epochs |-> key_of(f)]' = [f \in Epochs |-> key_of(f)]
          /\ [f \in Epochs |-> [n \in Members |-> wrap_of(f, n)]]' = [f \in Epochs |-> [n \in Members |-> wrap_of(f, n)]]
      BY <1>1 DEF phase_of, key_of, wrap_of
    <3>3. Promise!Evict(e)
      BY <1>1, <1>2, <2>6, <3>1, <3>2 DEF Promise!Evict
    <3> QED BY <3>3 DEF Promise!KNext
  <2> QED BY <2>5, <2>6
<1> QED BY <1>3, <1>4 DEF sweep_evict

\* Storing a row and deleting an unbound one are not seen.
LEMMA RowsUnseen ==
    ASSUME EpochInv, NEW c \in Calls, CallStep(c), ~bind_blob_epoch(c),
           UNCHANGED <<pointer, dek, grants>>
    PROVE  UNCHANGED Promise!kvars
<1>1. \A b \in Seals : blobs'[b] = blobs[b] \/ (blobs[b].epoch = None /\ blobs'[b].epoch = None)
  BY CallRows
<1>2. \A b \in Seals : content_of(b)' = content_of(b)
  BY <1>1 DEF content_of
<1> QED BY <1>2, Unseen

LEMMA CallRefines ==
    ASSUME EpochInv, NEW c \in Calls, CallStep(c)
    PROVE  Promise!KNext \/ UNCHANGED Promise!kvars
<1>1. DekInv
  BY DEF EpochInv
<1>2. CASE put_self_retention(c) \/ bind_blob_epoch(c) \/ \E m \in Members : put_member_grant(c, m)
  BY <1>2, PutRefines, BindRefines, GrantRefines
<1>3. CASE rotate_on_removal(c) \/ rotate_on_leaver(c)
  BY <1>3, SameTables, BumpRotates DEF rotate_on_removal, rotate_on_leaver, bump_epoch
<1>4. CASE \/ retire_epoch(c, "retire_removal", "past") \/ retire_epoch(c, "retire_leaver", "state")
           \/ \E p \in Epochs : disable_past_epoch(c, p)
  <2>1. UNCHANGED <<pointer, grants, blobs>>
    BY <1>4 DEF retire_epoch, disable_past_epoch
  <2>2. CASE UNCHANGED dek
    BY <2>1, <2>2, SameTables
  <2>3. ASSUME NEW e \in Epochs, can_retire(e), dek' = with_state(e, "disabled")
        PROVE  Promise!KNext \/ UNCHANGED Promise!kvars
    BY <1>1, <2>1, <2>3, RelabelRefines DEF can_retire
  <2>4. call[c].epoch \in Epochs
    BY <1>1 DEF DekInv, TypeOK, Call
  <2>5. UNCHANGED dek \/ \E e \in Epochs : can_retire(e) /\ dek' = with_state(e, "disabled")
    BY <1>4, <2>4 DEF retire_epoch, disable_past_epoch
  <2> QED BY <2>2, <2>3, <2>5
<1>5. CASE ~bind_blob_epoch(c) /\ UNCHANGED <<pointer, dek, grants>>
  BY <1>5, RowsUnseen
<1> QED
  BY <1>2, <1>3, <1>4, <1>5
     DEF CallStep, read_epoch, resolve_community_members, list_past_epochs, check_key_state,
         get_self_retention, reread_self_retention, list_recipients, store_blob, bind_fails,
         delete_and_retry, delete_and_fail, abandon

LEMMA SweepRefines ==
    ASSUME EpochInv, SweepStep PROVE Promise!KNext \/ UNCHANGED Promise!kvars
<1>1. DekInv
  BY DEF EpochInv
<1>2. ASSUME NEW e \in Epochs, sweep_disable(e) PROVE Promise!KNext \/ UNCHANGED Promise!kvars
  <2>1. UNCHANGED <<pointer, grants, blobs>>
    BY <1>2 DEF sweep_disable
  <2>2. UNCHANGED dek \/ (can_retire(e) /\ dek' = with_state(e, "disabled"))
    BY <1>2 DEF sweep_disable
  <2> QED BY <1>1, <2>1, <2>2, SameTables, RelabelRefines DEF can_retire
<1>3. ASSUME NEW e \in Epochs, sweep_destroy(e) PROVE Promise!KNext \/ UNCHANGED Promise!kvars
  BY <1>3, SameTables, DestroyRefines DEF sweep_destroy
<1>4. CASE \/ \E r \in Retains : sweep_begin(r)
           \/ \E e \in Epochs : sweep_evict_fails(e) \/ sweep_count(e)
  BY <1>4, SameTables DEF sweep_begin, sweep_evict_fails, sweep_count
<1> QED BY <1>2, <1>3, <1>4, EvictRefines DEF SweepStep

LEMMA OtherRefines ==
    ASSUME EpochInv, RosterStep \/ OperatorStep PROVE Promise!KNext \/ UNCHANGED Promise!kvars
<1>1. DekInv
  BY DEF EpochInv
<1>2. CASE RosterStep
  BY <1>2, SameTables, BumpRotates
     DEF RosterStep, tick, revoke_member, widen_member, set_allow_list, rotated_pointer
<1>3. ASSUME NEW e \in Epochs, enable_epoch(e) PROVE Promise!KNext \/ UNCHANGED Promise!kvars
  <2>1. e # pointer
    BY <1>1, <1>3 DEF enable_epoch, DekInv, PointerUsable
  <2> QED BY <1>1, <1>3, <2>1, RelabelRefines DEF enable_epoch
<1>4. ASSUME NEW e \in Epochs, disable_epoch(e) PROVE Promise!KNext \/ UNCHANGED Promise!kvars
  BY <1>1, <1>4, RelabelRefines DEF disable_epoch, can_retire
<1>5. ASSUME NEW e \in Epochs, destroy_epoch(e) PROVE Promise!KNext \/ UNCHANGED Promise!kvars
  BY <1>5, DestroyRefines DEF destroy_epoch
<1> QED BY <1>2, <1>3, <1>4, <1>5 DEF OperatorStep

LEMMA EpochKeysInit == Init => Promise!KInit
BY DekAssumption DEF Init, Promise!KInit, phase_of, key_of, wrap_of, content_of

\* The cascade, the key-state door, the removals and the sweep implement the
\* promise of EpochKeys, for every number of calls, attempts, members and epochs.
THEOREM EpochKeysKept == Spec => KeepsEpochKeys
<1>1. EpochInv /\ [Next]_vars => [Promise!KNext]_(Promise!kvars)
  <2> SUFFICES ASSUME EpochInv, [Next]_vars PROVE Promise!KNext \/ UNCHANGED Promise!kvars
    OBVIOUS
  <2>1. CASE UNCHANGED vars
    BY <2>1, SameTables DEF vars
  <2> QED BY <2>1, CallRefines, SweepRefines, OtherRefines DEF Next
<1>2. Spec => []EpochInv
  BY EpochInit, EpochNext, PTL DEF Spec
<1> QED BY <1>1, <1>2, EpochKeysInit, PTL DEF Spec, KeepsEpochKeys, Promise!KSpec
=============================================================================
