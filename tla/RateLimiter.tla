----------------------------- MODULE RateLimiter ------------------------------
(***************************************************************************)
(* class RateLimiter of engine/quotas.py: a token bucket for every tenant  *)
(* that has a rate limit.  A submission takes one token from every bucket  *)
(* on its tenant's chain, or none from any.                                *)
(*                                                                         *)
(* Tokens are counted in parts of 1/Unit, Unit a multiple of every window, *)
(* so that the refill of a second is a whole number of parts; the rounding *)
(* of floats is left out.                                                  *)
(*                                                                         *)
(* The time of a call is what its caller passes or what time.time() reads: *)
(* Spec takes any, and lets the policy change between calls.  SetOnceSpec  *)
(* is the same program when no rate limit is replaced, SteadySpec when the *)
(* clock does not go back.                                                 *)
(***************************************************************************)
EXTENDS QuotaPolicy, Sequences

CONSTANTS
    Unit,           \* parts of a token
    MaxTime,        \* bound: the latest time of a call
    MaxAdmitted     \* bound: how many submissions are ever admitted

ASSUME UnitAssumption ==
    /\ Unit \in Nat \ {0}
    /\ MaxTime \in Nat /\ MaxAdmitted \in Nat
    /\ \A limit \in RateLimits : limit.window_s > 0 => Unit % limit.window_s = 0

VARIABLES
    tokens,         \* _tokens
    last_refill,    \* _last_refill
    admitted        \* history of the model: the time and buckets of each admission

vars == <<policyVars, tokens, last_refill, admitted>>

Admission == [at: Int, buckets: SUBSET Tenants]

\* Every variable has its type, and every bucket belongs to a tenant with a limit
\* whose window is not empty, so that _refill never divides by zero.
BucketTypeOK ==
    /\ PolicyTypeOK
    /\ DOMAIN tokens \subseteq DOMAIN rate_limit
    /\ tokens \in [DOMAIN tokens -> Int]
    /\ last_refill \in [DOMAIN tokens -> Int]
    /\ admitted \in Seq(Admission)

-----------------------------------------------------------------------------

Capacity(a) == Unit * (rate_limit[a].max_submissions + rate_limit[a].burst)

\* What a bucket gains in a second.
RefillRate(a) == rate_limit[a].max_submissions * (Unit \div rate_limit[a].window_s)

\* A bucket that was never touched is full.
Level(a) == IF a \in DOMAIN tokens THEN tokens[a] ELSE Capacity(a)

SinceRefill(a, at) == IF a \in DOMAIN tokens THEN at - last_refill[a] ELSE 0

\* Fault: the capacity is forgotten.
RefilledUncapped(a, at) == Level(a) + SinceRefill(a, at) * RefillRate(a)

\* What _refill leaves in the bucket: less than before when the clock went back.
Refilled(a, at) ==
    LET level == Level(a) + SinceRefill(a, at) * RefillRate(a)
    IN  IF level <= Capacity(a) THEN level ELSE Capacity(a)

\* limited_ancestors
LimitedAncestors(t) == Ancestors(t) \cap DOMAIN rate_limit

\* Fault: a part of a token is enough.
SufficesInPart(a, at) == Refilled(a, at) > 0

Suffices(a, at) == Refilled(a, at) >= Unit

Admissible(t, at) == \A a \in LimitedAncestors(t) : Suffices(a, at)

\* Fault: every bucket that has a token gives one.
SpentWhereItSuffices(t, a, at) == IF Suffices(a, at) THEN Unit ELSE 0

\* What allow takes from bucket a of the chain of t.
Spent(t, a, at) == IF Admissible(t, at) THEN Unit ELSE 0

\* The buckets of the chain are refilled whatever the answer.
UseBuckets(t, at) ==
    LET limited == LimitedAncestors(t)
    IN  /\ ChainEnds(t)
        /\ tokens' = [a \in DOMAIN tokens \cup limited |->
              IF a \in limited THEN Refilled(a, at) - Spent(t, a, at) ELSE tokens[a]]
        /\ last_refill' = [a \in DOMAIN tokens \cup limited |->
              IF a \in limited THEN at ELSE last_refill[a]]
        /\ UNCHANGED policyVars

\* allow returns True.
Admit(t, at) ==
    /\ Len(admitted) < MaxAdmitted
    /\ Admissible(t, at)
    /\ UseBuckets(t, at)
    /\ admitted' = Append(admitted, [at |-> at, buckets |-> LimitedAncestors(t)])

\* allow returns False.
Reject(t, at) ==
    /\ ~Admissible(t, at)
    /\ UseBuckets(t, at)
    /\ UNCHANGED admitted

Init ==
    /\ PolicyInit
    /\ tokens = <<>>
    /\ last_refill = <<>>
    /\ admitted = <<>>

Allow(t, at) == Admit(t, at) \/ Reject(t, at)

EditTenants ==
    /\ \E t \in Tenants, p \in Tenants \cup {NoParent} : AddTenant(t, p)
    /\ UNCHANGED <<tokens, last_refill, admitted>>

EditLimit(t) ==
    /\ \E limit \in RateLimits : AddRateLimit(t, limit)
    /\ UNCHANGED <<tokens, last_refill, admitted>>

Next ==
    \/ \E t \in Tenants, at \in 0..MaxTime : Allow(t, at)
    \/ EditTenants
    \/ \E t \in Tenants : EditLimit(t)

Spec == Init /\ [][Next]_vars

SetOnceNext ==
    \/ \E t \in Tenants, at \in 0..MaxTime : Allow(t, at)
    \/ EditTenants
    \/ \E t \in Tenants \ DOMAIN rate_limit : EditLimit(t)

SetOnceSpec == Init /\ [][SetOnceNext]_vars

NotBefore(at) == \A a \in DOMAIN tokens : last_refill[a] <= at

SteadyNext ==
    \/ \E t \in Tenants, at \in 0..MaxTime : NotBefore(at) /\ Allow(t, at)
    \/ EditTenants
    \/ \E t \in Tenants : EditLimit(t)

SteadySpec == Init /\ [][SteadyNext]_vars

-----------------------------------------------------------------------------
(* Properties.                                                             *)

\* The admissions i..k that took a token from bucket a.
Charged(a, i, k) == {j \in i..k : a \in admitted[j].buckets}

\* The cap holds (models/quota.py:35-38): between any two admissions a tenant's
\* subtree was admitted no more often than a full bucket and the refill of the
\* time between them allow.  It holds of every run of calls, rejected ones in
\* between, tenants moving under and out of the bucket, and of any clock: stepping
\* it back and forth earns nothing (quotas.py:76-85).
RateConforms ==
    \A i, k \in 1..Len(admitted) : \A a \in admitted[i].buckets \cap admitted[k].buckets :
        i <= k =>
            Unit * Cardinality(Charged(a, i, k))
              <= Capacity(a) + (admitted[k].at - admitted[i].at) * RefillRate(a)

\* "a rejection at one level must not silently spend budget at another"
\* (quotas.py:89-91): a call that admits nothing lowers a bucket only when the
\* clock went back, or to the capacity of a limit that was lowered.
RejectionSpendsNothing ==
    [][UNCHANGED <<policyVars, admitted>> =>
          \A a \in DOMAIN tokens : tokens'[a] < tokens[a] =>
              \/ last_refill'[a] < last_refill[a]
              \/ tokens[a] > Capacity(a) /\ tokens'[a] = Capacity(a)]_vars

\* No bucket is drained for good: left alone for the length of its window, one
\* that refills at all has a token again, whatever the calls before took from it
\* and however its limit was replaced (quotas.py:80-84).
WindowRestoresToken ==
    \A a \in DOMAIN tokens :
        rate_limit[a].max_submissions > 0 =>
            Refilled(a, last_refill[a] + rate_limit[a].window_s) >= Unit
=============================================================================
