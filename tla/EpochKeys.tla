----------------------------- MODULE EpochKeys -----------------------------
(***************************************************************************)
(* What a community is promised of the keys its content is sealed with,     *)
(* with no calls, awaits, retries, sweeps or races: an epoch gets one key,  *)
(* drawn for it alone; whoever is given a wrap is given that key; content   *)
(* is bound once, to the epoch that is current and enabled, under that      *)
(* epoch's key; and a key is given up only when the epoch is over and all   *)
(* that was bound to it has been evicted.                                   *)
(***************************************************************************)
EXTENDS Naturals

CONSTANTS Epochs, Members, Rows, Keys, None

VARIABLES
    current,    \* the epoch new content goes to
    phase,      \* of each epoch
    key,        \* of each epoch, None before the mint and after the destroy
    wrap,       \* of each epoch and member, while the epoch has a key
    content     \* of each row: none, or its epoch and key, None once evicted

kvars == <<current, phase, key, wrap, content>>

KInit ==
    /\ current = 0
    /\ phase = [e \in Epochs |-> "absent"]
    /\ key = [e \in Epochs |-> None]
    /\ wrap = [e \in Epochs |-> [m \in Members |-> None]]
    /\ content = [b \in Rows |-> {}]

\* The key of no epoch, and no content is sealed with it.
Fresh(k) == \A e \in Epochs : key[e] # k /\ \A b \in Rows : <<e, k>> \notin content[b]

Readable(e) == {b \in Rows : \E k \in Keys : <<e, k>> \in content[b]}

Rotate ==
    /\ current' = current + 1
    /\ UNCHANGED <<phase, key, wrap, content>>

Mint(e) ==
    /\ e <= current /\ phase[e] = "absent"
    /\ phase' = [phase EXCEPT ![e] = "enabled"]
    /\ \E k \in Keys : Fresh(k) /\ key' = [key EXCEPT ![e] = k]
    /\ UNCHANGED <<current, wrap, content>>

Wrap(e, m) ==
    /\ phase[e] \in {"enabled", "disabled"} /\ wrap[e][m] = None
    /\ wrap' = [wrap EXCEPT ![e][m] = key[e]]
    /\ UNCHANGED <<current, phase, key, content>>

Bind(b) ==
    /\ phase[current] = "enabled" /\ content[b] = {}
    /\ content' = [content EXCEPT ![b] = {<<current, key[current]>>}]
    /\ UNCHANGED <<current, phase, key, wrap>>

Disable(e) ==
    /\ e < current /\ phase[e] = "enabled"
    /\ phase' = [phase EXCEPT ![e] = "disabled"]
    /\ UNCHANGED <<current, key, wrap, content>>

Enable(e) ==
    /\ e < current /\ phase[e] = "disabled"
    /\ phase' = [phase EXCEPT ![e] = "enabled"]
    /\ UNCHANGED <<current, key, wrap, content>>

Evict(e) ==
    /\ e < current /\ Readable(e) # {}
    /\ content' = [b \in Rows |-> IF b \in Readable(e) THEN {<<e, None>>} ELSE content[b]]
    /\ UNCHANGED <<current, phase, key, wrap>>

Destroy(e) ==
    /\ e < current /\ phase[e] \in {"enabled", "disabled"} /\ Readable(e) = {}
    /\ phase' = [phase EXCEPT ![e] = "destroyed"]
    /\ key' = [key EXCEPT ![e] = None]
    /\ wrap' = [wrap EXCEPT ![e] = [m \in Members |-> None]]
    /\ UNCHANGED <<current, content>>

KNext ==
    \/ Rotate
    \/ \E b \in Rows : Bind(b)
    \/ \E e \in Epochs : \/ Mint(e)
                         \/ \E m \in Members : Wrap(e, m)
                         \/ Disable(e) \/ Enable(e) \/ Evict(e) \/ Destroy(e)

KSpec == KInit /\ [][KNext]_kvars
=============================================================================
