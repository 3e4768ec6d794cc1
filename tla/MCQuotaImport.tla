---------------------------- MODULE MCQuotaImport -----------------------------
(***************************************************************************)
(* Every file of up to three entries about three tenants, among them files *)
(* with a missing parent, a cycle, a tenant that comes twice, a negative   *)
(* quota and an empty window.                                              *)
(***************************************************************************)
EXTENDS QuotaImport

\* A negative quota is refused, one of no GPUs is not.
MCQuotaSizes == {-1, 0}

Limit(window) == [max_submissions |-> 1, window_s |-> window, burst |-> 0]

\* An empty window is refused.
MCRateLimits == {Limit(1), Limit(0)}

\* An entry has a quota or a rate limit, not both.
MCEntries ==
    {e \in Entry : e.quota = Absent \/ e.rate_limit = Absent}

MCFiles ==
    UNION {[1..n -> MCEntries] : n \in 0..3}
=============================================================================
