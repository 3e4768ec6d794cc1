----------------------------- MODULE QuotaPolicy ------------------------------
(***************************************************************************)
(* engine/quota_policy.py: who the tenants are, whose parent each is, and  *)
(* the quota and rate limit that each has.                                 *)
(*                                                                         *)
(* The source walks the hierarchy with loops: ancestor_chain follows       *)
(* parent_id upwards, descendants_of follows children_of downwards.  Here  *)
(* the two walks are given by what they reach, each as the least set       *)
(* closed under its own step, so that facts about them can be proved; the  *)
(* module QuotaWalks has the loops and compares them.  A tenant's scope    *)
(* is not kept: no operation reads it.                                     *)
(***************************************************************************)
EXTENDS Integers, FiniteSets

CONSTANTS
    Tenants,      \* tenant identifiers, registered or not
    NoParent,     \* parent_id is None
    QuotaSizes,   \* the max_gpus that add_quota is called with
    RateLimits    \* the limits that add_rate_limit is called with

RateLimit == [max_submissions: Nat, window_s: Int, burst: Nat]

ASSUME PolicyAssumption ==
    /\ NoParent \notin Tenants
    /\ IsFiniteSet(Tenants)
    /\ QuotaSizes \subseteq Int
    /\ RateLimits \subseteq RateLimit

VARIABLES
    parent,       \* _tenants: the parent of each registered tenant
    max_gpus,     \* _quotas: the quota of each tenant that has one
    rate_limit    \* _rate_limits: the limit of each tenant that has one

policyVars == <<parent, max_gpus, rate_limit>>

Registered == DOMAIN parent

PolicyTypeOK ==
    /\ Registered \subseteq Tenants
    /\ parent \in [Registered -> Tenants \cup {NoParent}]
    /\ DOMAIN max_gpus \subseteq Registered
    /\ max_gpus \in [DOMAIN max_gpus -> Nat]
    /\ DOMAIN rate_limit \subseteq Registered
    /\ rate_limit \in [DOMAIN rate_limit -> RateLimits]
    /\ \A t \in DOMAIN rate_limit : rate_limit[t].window_s > 0

PolicyInit ==
    /\ parent = <<>>
    /\ max_gpus = <<>>
    /\ rate_limit = <<>>

\* Fault: the parent need not be registered.
ParentKnownUnchecked(p) == p \in Tenants \cup {NoParent}

ParentKnown(p) == p = NoParent \/ p \in Registered

\* A tenant that is already registered may be added again, under any parent.
AddTenant(t, p) ==
    /\ ParentKnown(p)
    /\ parent' = [x \in Registered \cup {t} |-> IF x = t THEN p ELSE parent[x]]
    /\ UNCHANGED <<max_gpus, rate_limit>>

AddQuota(t, m) ==
    /\ t \in Registered
    /\ m >= 0
    /\ max_gpus' = [x \in DOMAIN max_gpus \cup {t} |-> IF x = t THEN m ELSE max_gpus[x]]
    /\ UNCHANGED <<parent, rate_limit>>

AddRateLimit(t, limit) ==
    /\ t \in Registered
    /\ limit.window_s > 0
    /\ rate_limit' = [x \in DOMAIN rate_limit \cup {t} |->
                        IF x = t THEN limit ELSE rate_limit[x]]
    /\ UNCHANGED <<parent, max_gpus>>

-----------------------------------------------------------------------------
(* The two walks.                                                          *)

children_of(t) == {x \in Registered : parent[x] = t}

ClosedUpwards(S) ==
    \A x \in S \cap Registered : parent[x] # NoParent => parent[x] \in S

ClosedDownwards(S) == \A x \in S : children_of(x) \subseteq S

\* Fault: the walk stops at the parent.
AncestorsUpToParent(t) ==
    {t} \cup (IF t \in Registered THEN {parent[t]} \ {NoParent} ELSE {})

\* The tenants on ancestor_chain(t): t itself, its parent, and so on up.  An
\* identifier that is not registered is a chain of its own.
Ancestors(t) ==
    {a \in Tenants : \A S \in SUBSET Tenants : t \in S /\ ClosedUpwards(S) => a \in S}

\* Fault: the walk stops at the children.
DescendantsUpToChildren(t) == children_of(t)

\* The tenants in descendants_of(t).
Descendants(t) ==
    {d \in Tenants : \A S \in SUBSET Tenants :
        children_of(t) \subseteq S /\ ClosedDownwards(S) => d \in S}

\* The chain of t ends: ancestor_chain returns on it, and so do the calls that
\* start with it.  On a cycle of parents it loops for ever.
ChainEnds(t) ==
    \E a \in Ancestors(t) : a \in Registered => parent[a] = NoParent
=============================================================================
