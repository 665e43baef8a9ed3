---------------------------- MODULE MCAuditChain ----------------------------
(* Instances of the audit plane for TLC.                                    *)
EXTENDS AuditChain, TLC

CONSTANTS t1, t2, k1, c1

Ask(t, kind, key, content) == [tenant |-> t, kind |-> kind, key |-> key, content |-> content]

\* Claims of one content_hash by two tenants, and a grant.
ChainRequests ==
    {Ask(t1, "grant", k1, None), Ask(t1, "other", None, c1), Ask(t2, "other", None, c1)}

\* A grant, its re-issuance and its revocation.
GrantRequests == {Ask(t1, "grant", k1, None), Ask(t1, "revoke", k1, None)}

\* One plain entry beside grants of one quad.
MixedRequests == {Ask(t1, "other", None, None), Ask(t1, "grant", k1, None)}

PlainRequests == {Ask(t1, "other", None, None)}

Symmetry == Permutations(Entries)
=============================================================================
