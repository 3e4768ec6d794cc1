---------------------------- MODULE MCQuotaLedger -----------------------------
(***************************************************************************)
(* Tenants and quotas for TLC.                                             *)
(***************************************************************************)
EXTENDS QuotaWalks

\* A negative quota is refused.
MCQuotaSizes == {-1, 1, 2}

Symmetry == Permutations(Tenants)
=============================================================================
