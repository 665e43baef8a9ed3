-------------------------- MODULE TransparencyLog --------------------------
(***************************************************************************)
(* What a tenant's auditors are promised of the audit plane, with no calls, *)
(* hooks, transactions, archives or races: a log per tenant that is only    *)
(* ever appended to and holds a recorded entry once; signed heads that are  *)
(* only ever added, one for a size, each over a beginning of the log that   *)
(* has at least that many leaves; and receipts that are final and name a    *)
(* published head whose root has the entry in it.                           *)
(***************************************************************************)
EXTENDS Naturals, Sequences

CONSTANTS Entries, Tenants

VARIABLES
    recorded,   \* entries the chain has taken
    log,        \* of each tenant
    heads,      \* of each tenant
    receipt     \* of each entry: none, or the head its caller was given

tvars == <<recorded, log, heads, receipt>>

TInit ==
    /\ recorded = {}
    /\ log = [t \in Tenants |-> <<>>]
    /\ heads = [t \in Tenants |-> {}]
    /\ receipt = [e \in Entries |-> {}]

Occurs(e, s) == \E i \in DOMAIN s : s[i] = e

Record(e) ==
    /\ recorded' = recorded \cup {e}
    /\ UNCHANGED <<log, heads, receipt>>

Log(t, e) ==
    /\ e \in recorded
    /\ \A u \in Tenants : ~Occurs(e, log[u])
    /\ log' = [log EXCEPT ![t] = Append(@, e)]
    /\ UNCHANGED <<recorded, heads, receipt>>

\* A head that claims n leaves, its root computed over the first m.
Publish(t, n, m) ==
    /\ n <= m /\ m <= Len(log[t])
    /\ \A h \in heads[t] : h.size # n
    /\ heads' = [heads EXCEPT ![t] = @ \cup {[size |-> n, root |-> SubSeq(log[t], 1, m)]}]
    /\ UNCHANGED <<recorded, log, receipt>>

Receipt(e, t, h) ==
    /\ receipt[e] = {} /\ e \in recorded
    /\ h \in heads[t] /\ Occurs(e, h.root)
    /\ receipt' = [receipt EXCEPT ![e] = {h}]
    /\ UNCHANGED <<recorded, log, heads>>

TNext ==
    \/ \E e \in Entries : Record(e)
    \/ \E e \in Entries, t \in Tenants : Log(t, e) \/ \E h \in heads[t] : Receipt(e, t, h)
    \/ \E t \in Tenants : \E m \in 0..Len(log[t]) : \E n \in 0..m : Publish(t, n, m)

TSpec == TInit /\ [][TNext]_tvars
=============================================================================
