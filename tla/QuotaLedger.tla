----------------------------- MODULE QuotaLedger ------------------------------
(***************************************************************************)
(* class QuotaLedger of engine/quotas.py: GPUs charged to tenants, each    *)
(* charge checked against the quota of every ancestor's whole subtree.     *)
(*                                                                         *)
(* The ledger keeps a reference to the policy, which stays open to         *)
(* add_tenant and add_quota while GPUs are charged: Spec lets both happen  *)
(* in any order.  CarefulSpec is the same program under an operator who    *)
(* registers each tenant once, before it is charged, and sets no quota     *)
(* below what is in use.  add_rate_limit is left to RateLimiter, whose     *)
(* limits nothing here reads.                                              *)
(***************************************************************************)
EXTENDS QuotaPolicy

CONSTANTS
    GpuCounts,    \* the gpu_count that reserve and release are called with
    MaxUsage      \* bound: the most that is ever charged to one tenant

ASSUME QuotaAssumption == GpuCounts \subseteq Nat /\ MaxUsage \in Nat

VARIABLE
    usage         \* _usage: the GPUs charged to each tenant itself

vars == <<policyVars, usage>>

QuotaTypeOK == PolicyTypeOK /\ usage \in [Tenants -> Nat]

-----------------------------------------------------------------------------

Subtree(t) == {t} \cup Descendants(t)

\* One pair for every GPU charged to a tenant of S; their number is the sum of
\* usage over S, written so that it can be reasoned about without recursion.
ChargedTo(S) == UNION {{d} \X (1..usage[d]) : d \in S}

SubtreeUsage(t) == Cardinality(ChargedTo(Subtree(t)))

\* Fault: only the tenant's own charge is compared with the quota.
WithinQuotaOfItself(a, n) == a \in DOMAIN max_gpus => usage[a] + n <= max_gpus[a]

\* Fault: the last GPU of the quota is refused.
WithinQuotaStrictly(a, n) == a \in DOMAIN max_gpus => SubtreeUsage(a) + n < max_gpus[a]

WithinQuota(a, n) == a \in DOMAIN max_gpus => SubtreeUsage(a) + n <= max_gpus[a]

HasCapacity(t, n) == \A a \in Ancestors(t) : WithinQuota(a, n)

\* False is returned, and nothing charged, when HasCapacity does not hold; the
\* call does not return at all when the chain does not end.
TryReserve(t, n) ==
    /\ usage[t] + n <= MaxUsage
    /\ ChainEnds(t)
    /\ HasCapacity(t, n)
    /\ usage' = [usage EXCEPT ![t] = @ + n]
    /\ UNCHANGED policyVars

\* Fault: the charge may fall below zero.
ReducedUnclamped(used, n) == used - n

Reduced(used, n) == IF used >= n THEN used - n ELSE 0

Release(t, n) ==
    /\ usage' = [usage EXCEPT ![t] = Reduced(@, n)]
    /\ UNCHANGED policyVars

Init == PolicyInit /\ usage = [t \in Tenants |-> 0]

LedgerNext ==
    \/ \E t \in Tenants, n \in GpuCounts : TryReserve(t, n)
    \/ \E t \in Tenants, n \in GpuCounts : Release(t, n)

PolicyNext ==
    /\ \/ \E t \in Tenants, p \in Tenants \cup {NoParent} : AddTenant(t, p)
       \/ \E t \in Tenants, m \in QuotaSizes : AddQuota(t, m)
    /\ UNCHANGED usage

Next == LedgerNext \/ PolicyNext

Spec == Init /\ [][Next]_vars

\* The operator's side of the bargain, which the code does not enforce.
NewTenant(t) == t \notin Registered /\ usage[t] = 0

CoversUsage(t, m) == SubtreeUsage(t) <= m

CarefulPolicyNext ==
    /\ \/ \E t \in Tenants, p \in Tenants \cup {NoParent} :
             NewTenant(t) /\ AddTenant(t, p)
       \/ \E t \in Tenants, m \in QuotaSizes : CoversUsage(t, m) /\ AddQuota(t, m)
    /\ UNCHANGED usage

CarefulNext == LedgerNext \/ CarefulPolicyNext

CarefulSpec == Init /\ [][CarefulNext]_vars

-----------------------------------------------------------------------------
(* Properties.                                                             *)

\* No registered tenant has a parent that is not registered, so a chain never
\* leaves the hierarchy on its way up (quota_policy.py:22-25).
ParentsRegistered ==
    \A t \in Registered : parent[t] # NoParent => parent[t] \in Registered

\* The two walks agree: a tenant's GPUs count towards the quota of a exactly when
\* a reservation for that tenant is checked against a's quota.  subtree_usage
\* walks down and has_capacity walks up (quotas.py:31-38, 40-50); if they
\* disagreed, a ceiling could be passed without ever being looked at.
WalksAgree == \A a, t \in Tenants : a \in Ancestors(t) <=> t \in Subtree(a)

\* models/quota.py:21-29: the quota is a hard ceiling on the whole subtree.
QuotaRespected == \A a \in DOMAIN max_gpus : SubtreeUsage(a) <= max_gpus[a]

\* Every chain ends, so that every check returns (quota_policy.py:67-75).  The
\* source asks for it: "parent_id is None for an org, the root of its own tree"
\* (models/quota.py:12-13), "a forest, not a single tree" (data/README.md:83).
PolicyIsForest == \A t \in Tenants : ChainEnds(t)

\* Whatever happened to the policy before, a step that charges more to a subtree
\* without changing the policy leaves it within its ceiling: a tenant that is
\* over, because its quota was lowered or a tenant moved under it, gets nothing
\* more until enough is released (quotas.py:52-59).
NoChargeAboveCeiling ==
    [][UNCHANGED policyVars =>
          \A a \in DOMAIN max_gpus :
              SubtreeUsage(a)' > SubtreeUsage(a) => SubtreeUsage(a)' <= max_gpus[a]]_vars

\* The quotas of the children of a, added up as in ChargedTo.
Shares(a) == UNION {{c} \X (1..max_gpus[c]) : c \in children_of(a)}

\* A strict partition, as scripts/generate_sample_quotas.py:56-66 builds it: on the
\* chain of t every tenant has a quota that covers those of its children, and no
\* GPU is charged above a user.
StrictlyPartitioned(t) ==
    \A a \in Ancestors(t) :
        /\ a \in DOMAIN max_gpus
        /\ children_of(a) # {} => usage[a] = 0
        /\ children_of(a) \subseteq DOMAIN max_gpus
        /\ Cardinality(Shares(a)) <= max_gpus[a]

\* "every user's share is guaranteed regardless of what teammates are doing"
\* (data/README.md:84-90): under a strict partition a user whose own quota has
\* room is never refused on account of a quota above (quotas.py:40-50).
SharesGuaranteed ==
    \A t \in Registered, n \in GpuCounts :
        /\ StrictlyPartitioned(t)
        /\ children_of(t) = {}
        /\ usage[t] + n <= max_gpus[t]
        => HasCapacity(t, n)

\* "the team quota is the real limiter, so any one user can borrow the team's full
\* idle quota" (scripts/generate_sample_quotas.py:31-36): of users whose quota is no
\* smaller than their team's, whoever asks is refused exactly when the team is full.
TeamIsTheLimiter ==
    \A t \in Registered : \A team \in {parent[t]} \ {NoParent} : \A n \in GpuCounts :
        /\ children_of(t) = {}
        /\ {t, team} \subseteq DOMAIN max_gpus
        /\ max_gpus[t] >= max_gpus[team]
        /\ parent[team] = NoParent \/ StrictlyPartitioned(parent[team])
        => (HasCapacity(t, n) <=> SubtreeUsage(team) + n <= max_gpus[team])
=============================================================================
