-------------------------- MODULE RateLimiterProofs ---------------------------
(***************************************************************************)
(* Proofs about RateLimiter: its types, that a rejected submission costs   *)
(* nothing, and that no bucket ever admits more than its rate, whatever    *)
(* the clock does.                                                         *)
(***************************************************************************)
EXTENDS RateLimiter, FiniteSetTheorems, TLAPS

-----------------------------------------------------------------------------
(* A bucket.                                                               *)

\* A bucket's capacity and rate are natural numbers, for its window is not empty
\* (quotas.py:80, 83).
LEMMA LimitIsNatural ==
    ASSUME PolicyTypeOK, NEW a \in DOMAIN rate_limit
    PROVE  /\ Capacity(a) \in Nat
           /\ RefillRate(a) \in Nat
<1>1. /\ rate_limit[a] \in RateLimit
      /\ rate_limit[a].window_s > 0
    BY PolicyAssumption DEF PolicyTypeOK, PolicyAssumption
<1>2. /\ rate_limit[a].max_submissions \in Nat
      /\ rate_limit[a].burst \in Nat
      /\ rate_limit[a].window_s \in Nat \ {0}
    BY <1>1 DEF RateLimit
<1>3. Unit \div rate_limit[a].window_s \in Nat
    BY <1>2, UnitAssumption DEF UnitAssumption
<1>. QED
    BY <1>2, <1>3, UnitAssumption DEF Capacity, RefillRate, UnitAssumption

\* A refill fills a bucket no higher than its capacity, and no faster than its
\* rate since it was last refilled (quotas.py:84).
LEMMA RefillIsBounded ==
    ASSUME BucketTypeOK, NEW a \in DOMAIN rate_limit, NEW at \in Int
    PROVE  /\ Refilled(a, at) \in Int
           /\ Refilled(a, at) <= Capacity(a)
           /\ a \in DOMAIN tokens =>
                Refilled(a, at) <= tokens[a] + (at - last_refill[a]) * RefillRate(a)
<1>1. Capacity(a) \in Nat /\ RefillRate(a) \in Nat
    BY LimitIsNatural DEF BucketTypeOK
<1>2. Level(a) \in Int /\ SinceRefill(a, at) \in Int
    BY <1>1 DEF Level, SinceRefill, BucketTypeOK
<1>3. SinceRefill(a, at) * RefillRate(a) \in Int
    BY <1>1, <1>2
<1>. QED
    BY <1>1, <1>2, <1>3 DEF Refilled, Level, SinceRefill

\* A bucket is spent from whole tokens only (quotas.py:99-103).
LEMMA SpentIsBounded ==
    ASSUME BucketTypeOK, NEW t \in Tenants, NEW a \in LimitedAncestors(t), NEW at \in Int
    PROVE  /\ Spent(t, a, at) \in Nat
           /\ Spent(t, a, at) > 0 => Refilled(a, at) >= Unit /\ Spent(t, a, at) = Unit
BY UnitAssumption DEF Spent, Admissible, Suffices, UnitAssumption

-----------------------------------------------------------------------------
(* Types.                                                                  *)

LEMMA UseKeepsTypes ==
    ASSUME BucketTypeOK, NEW t \in Tenants, NEW at \in Int, UseBuckets(t, at)
    PROVE  /\ PolicyTypeOK'
           /\ DOMAIN tokens' \subseteq (DOMAIN rate_limit)'
           /\ tokens' \in [DOMAIN tokens' -> Int]
           /\ last_refill' \in [DOMAIN tokens' -> Int]
<1>. DEFINE limited == LimitedAncestors(t)
<1>1. limited \subseteq DOMAIN rate_limit
    BY DEF LimitedAncestors
<1>2. PolicyTypeOK' /\ rate_limit' = rate_limit
    BY DEF UseBuckets, policyVars, BucketTypeOK, PolicyTypeOK, Registered
<1>3. \A a \in limited : Refilled(a, at) - Spent(t, a, at) \in Int
    <2>. TAKE a \in limited
    <2>1. Refilled(a, at) \in Int
        BY <1>1, RefillIsBounded
    <2>2. Spent(t, a, at) \in Nat
        BY SpentIsBounded
    <2>. QED
        BY <2>1, <2>2
<1>4. DOMAIN tokens' = DOMAIN tokens \cup limited
    BY DEF UseBuckets
<1>5. tokens' \in [DOMAIN tokens' -> Int]
    BY <1>3, <1>4 DEF UseBuckets, BucketTypeOK
<1>6. last_refill' \in [DOMAIN tokens' -> Int]
    BY <1>4 DEF UseBuckets, BucketTypeOK
<1>. QED
    BY <1>1, <1>2, <1>4, <1>5, <1>6 DEF BucketTypeOK

LEMMA StepKeepsTypes == BucketTypeOK /\ [Next]_vars => BucketTypeOK'
<1>. SUFFICES ASSUME BucketTypeOK, [Next]_vars
              PROVE  BucketTypeOK'
    OBVIOUS
<1>1. ASSUME NEW t \in Tenants, NEW at \in 0..MaxTime, Admit(t, at)
      PROVE  BucketTypeOK'
  <2>1. at \in Int /\ UseBuckets(t, at)
      BY <1>1, UnitAssumption DEF Admit, UnitAssumption
  <2>2. [at |-> at, buckets |-> LimitedAncestors(t)] \in Admission
      BY <2>1 DEF Admission, LimitedAncestors, Ancestors
  <2>3. admitted' \in Seq(Admission)
      BY <1>1, <2>2 DEF Admit, BucketTypeOK
  <2>. QED
      BY <2>1, <2>3, UseKeepsTypes DEF BucketTypeOK
<1>2. ASSUME NEW t \in Tenants, NEW at \in 0..MaxTime, Reject(t, at)
      PROVE  BucketTypeOK'
  <2>1. at \in Int /\ UseBuckets(t, at)
      BY <1>2, UnitAssumption DEF Reject, UnitAssumption
  <2>. QED
      BY <1>2, <2>1, UseKeepsTypes DEF Reject, BucketTypeOK
<1>3. CASE EditTenants
  <2>1. PICK t \in Tenants, p \in Tenants \cup {NoParent} : AddTenant(t, p)
      BY <1>3 DEF EditTenants
  <2>2. PolicyTypeOK' /\ rate_limit' = rate_limit
      BY <2>1 DEF AddTenant, BucketTypeOK, PolicyTypeOK, Registered
  <2>. QED
      BY <1>3, <2>2 DEF EditTenants, BucketTypeOK
<1>4. ASSUME NEW t \in Tenants, EditLimit(t)
      PROVE  BucketTypeOK'
  <2>1. PICK limit \in RateLimits : AddRateLimit(t, limit)
      BY <1>4 DEF EditLimit
  <2>2. PolicyTypeOK' /\ DOMAIN rate_limit \subseteq (DOMAIN rate_limit)'
      BY <2>1 DEF AddRateLimit, BucketTypeOK, PolicyTypeOK, Registered
  <2>. QED
      BY <1>4, <2>2 DEF EditLimit, BucketTypeOK
<1>5. CASE UNCHANGED vars
    BY <1>5 DEF vars, policyVars, BucketTypeOK, PolicyTypeOK, Registered
<1>. QED
    BY <1>1, <1>2, <1>3, <1>4, <1>5 DEF Next, Allow

LEMMA InitHasTypes == Init => BucketTypeOK
BY DEF Init, PolicyInit, BucketTypeOK, PolicyTypeOK, Registered

\* BucketTypeOK holds under any clock and however limits are replaced: a bucket
\* never loses the limit that _refill divides by the window of (quotas.py:76-85).
THEOREM BucketTypeCorrect == Spec => []BucketTypeOK
BY InitHasTypes, StepKeepsTypes, PTL DEF Spec

-----------------------------------------------------------------------------
(* A rejection costs nothing.                                              *)

\* A refill lowers a bucket only when the clock went back, or to its capacity
\* (quotas.py:84).
LEMMA RefillLowers ==
    ASSUME BucketTypeOK, NEW a \in DOMAIN tokens, NEW at \in Int,
           Refilled(a, at) < tokens[a], last_refill[a] <= at
    PROVE  tokens[a] > Capacity(a) /\ Refilled(a, at) = Capacity(a)
<1>1. a \in DOMAIN rate_limit /\ tokens[a] \in Int /\ last_refill[a] \in Int
    BY DEF BucketTypeOK
<1>2. Capacity(a) \in Nat /\ RefillRate(a) \in Nat
    BY <1>1, LimitIsNatural DEF BucketTypeOK
<1>3. at - last_refill[a] \in Nat
    BY <1>1
<1>4. (at - last_refill[a]) * RefillRate(a) \in Nat
    BY <1>2, <1>3
<1>. QED
    BY <1>1, <1>2, <1>4 DEF Refilled, Level, SinceRefill

\* RejectionSpendsNothing holds of every step of the program, whatever the clock
\* and the policy did before (quotas.py:98-103).
THEOREM RejectionsAreFree == Spec => RejectionSpendsNothing
<1>. DEFINE Free == UNCHANGED <<policyVars, admitted>> =>
                \A a \in DOMAIN tokens : tokens'[a] < tokens[a] =>
                    \/ last_refill'[a] < last_refill[a]
                    \/ tokens[a] > Capacity(a) /\ tokens'[a] = Capacity(a)
<1>1. ASSUME BucketTypeOK, [Next]_vars
      PROVE  Free
  <2>. SUFFICES ASSUME UNCHANGED <<policyVars, admitted>>,
                       NEW a \in DOMAIN tokens, tokens'[a] < tokens[a]
                PROVE  \/ last_refill'[a] < last_refill[a]
                       \/ tokens[a] > Capacity(a) /\ tokens'[a] = Capacity(a)
      OBVIOUS
  <2>1. tokens[a] \in Int /\ last_refill[a] \in Int /\ a \in DOMAIN rate_limit
      BY <1>1 DEF BucketTypeOK
  <2>2. tokens' # tokens
      BY <2>1
  <2>3. ASSUME NEW t \in Tenants, NEW at \in 0..MaxTime, Admit(t, at)
        PROVE  FALSE
    <3>1. Len(admitted') = Len(admitted) + 1
        BY <1>1, <2>3 DEF Admit, BucketTypeOK
    <3>. QED
        BY <1>1, <3>1 DEF BucketTypeOK
  <2>4. ASSUME NEW t \in Tenants, NEW at \in 0..MaxTime, Reject(t, at)
        PROVE  \/ last_refill'[a] < last_refill[a]
               \/ tokens[a] > Capacity(a) /\ tokens'[a] = Capacity(a)
    <3>1. at \in Int
        BY UnitAssumption DEF UnitAssumption
    <3>2. Refilled(a, at) \in Int
        BY <1>1, <2>1, <3>1, RefillIsBounded
    <3>3. a \in LimitedAncestors(t)
        BY <2>1, <2>4 DEF Reject, UseBuckets
    <3>4. tokens'[a] = Refilled(a, at) /\ last_refill'[a] = at
        BY <2>4, <3>2, <3>3 DEF Reject, UseBuckets, Spent
    <3>. QED
        BY <1>1, <2>1, <3>1, <3>4, RefillLowers
  <2>. QED
      BY <1>1, <2>2, <2>3, <2>4 DEF Next, Allow, EditTenants, EditLimit, vars
<1>. QED
    BY <1>1, BucketTypeCorrect, PTL DEF Spec, RejectionSpendsNothing

-----------------------------------------------------------------------------
(* The rate.                                                               *)

\* What was taken from a bucket since its i-th admission, and what is left in it,
\* are together no more than a full bucket and the refill of the time between.
\* This is inductive, and RateConforms is not: it says nothing of what a bucket
\* that is not empty may still admit.
Balanced ==
    \A i \in 1..Len(admitted) : \A a \in admitted[i].buckets :
        /\ a \in DOMAIN tokens
        /\ Unit * Cardinality(Charged(a, i, Len(admitted))) + tokens[a]
             <= Capacity(a) + (last_refill[a] - admitted[i].at) * RefillRate(a)

RateInv == BucketTypeOK /\ Balanced /\ RateConforms

\* The number of admissions that a bucket was charged for.
LEMMA ChargedIsFinite ==
    ASSUME NEW a, NEW i \in Nat, NEW k \in Nat
    PROVE  Cardinality(Charged(a, i, k)) \in Nat
<1>1. IsFiniteSet(i..k) /\ Charged(a, i, k) \subseteq i..k
    BY FS_Interval DEF Charged
<1>. QED
    BY <1>1, FS_Subset, FS_CardinalityType

LEMMA AdmissionsHaveTimes ==
    ASSUME BucketTypeOK, NEW i \in 1..Len(admitted)
    PROVE  admitted[i].at \in Int
<1>1. admitted[i] \in Admission
    BY DEF BucketTypeOK
<1>. QED
    BY <1>1 DEF Admission

\* An admission adds one to what is charged to the buckets of its chain, and leaves
\* the others alone (quotas.py:102-103).
LEMMA ChargedAfterAdmission ==
    ASSUME BucketTypeOK, NEW t \in Tenants, NEW at \in Int,
           admitted' = Append(admitted, [at |-> at, buckets |-> LimitedAncestors(t)]),
           NEW a, NEW n \in Nat, n = Len(admitted), NEW i \in 1..(n + 1)
    PROVE  Cardinality(Charged(a, i, n + 1)')
             = Cardinality(Charged(a, i, n)) + IF a \in LimitedAncestors(t) THEN 1 ELSE 0
<1>1. /\ \A j \in 1..n : admitted'[j] = admitted[j]
      /\ admitted'[n + 1].buckets = LimitedAncestors(t)
    BY DEF BucketTypeOK
<1>2. \A j \in i..n : admitted'[j] = admitted[j]
    BY <1>1
<1>3. i..(n + 1) = (i..n) \cup {n + 1} /\ n + 1 \notin i..n
    OBVIOUS
<1>4. IsFiniteSet(Charged(a, i, n)) /\ n + 1 \notin Charged(a, i, n)
    <2>1. IsFiniteSet(i..n) /\ Charged(a, i, n) \subseteq i..n
        BY FS_Interval DEF Charged
    <2>. QED
        BY <1>3, <2>1, FS_Subset
<1>5. CASE a \in LimitedAncestors(t)
  <2>1. Charged(a, i, n + 1)' = Charged(a, i, n) \cup {n + 1}
      BY <1>1, <1>2, <1>3, <1>5 DEF Charged
  <2>. QED
      BY <1>4, <1>5, <2>1, FS_AddElement
<1>6. CASE a \notin LimitedAncestors(t)
  <2>1. Charged(a, i, n + 1)' = Charged(a, i, n)
      BY <1>1, <1>2, <1>3, <1>6 DEF Charged
  <2>. QED
      BY <1>6, <2>1, ChargedIsFinite
<1>. QED
    BY <1>5, <1>6

LEMMA Distributes ==
    ASSUME NEW x \in Int, NEW y \in Int, NEW z \in Int
    PROVE  (x + y) * z = x * z + y * z
OBVIOUS

\* A call keeps the balance of a bucket since any time s: what it takes is charged,
\* what it adds is the refill of the time that passed (quotas.py:84, 102-103).
LEMMA UseKeepsBalance ==
    ASSUME BucketTypeOK, NEW t \in Tenants, NEW at \in Int, UseBuckets(t, at),
           NEW a \in DOMAIN tokens, NEW s \in Int, NEW c \in Nat, NEW d \in Nat,
           d = c + IF a \in LimitedAncestors(t) /\ Admissible(t, at) THEN 1 ELSE 0,
           Unit * c + tokens[a] <= Capacity(a) + (last_refill[a] - s) * RefillRate(a)
    PROVE  Unit * d + tokens'[a] <= Capacity(a) + (last_refill'[a] - s) * RefillRate(a)
<1>. DEFINE rate == RefillRate(a)
<1>1. /\ a \in DOMAIN rate_limit
      /\ tokens[a] \in Int /\ last_refill[a] \in Int
    BY DEF BucketTypeOK
<1>2. Capacity(a) \in Nat /\ rate \in Nat /\ Unit \in Nat
    BY <1>1, LimitIsNatural, UnitAssumption DEF BucketTypeOK, UnitAssumption
<1>3. CASE a \notin LimitedAncestors(t)
    BY <1>3 DEF UseBuckets
<1>4. CASE a \in LimitedAncestors(t)
  <2>1. tokens'[a] = Refilled(a, at) - Spent(t, a, at) /\ last_refill'[a] = at
      BY <1>4 DEF UseBuckets
  <2>2. Refilled(a, at) \in Int /\ Refilled(a, at) <= tokens[a] + (at - last_refill[a]) * rate
      BY <1>1, RefillIsBounded
  <2>3. Unit * d = Unit * c + Spent(t, a, at) /\ Spent(t, a, at) \in Nat
    <3>1. CASE Admissible(t, at)
      <4>1. d = c + 1 /\ Spent(t, a, at) = Unit
          BY <1>4, <3>1 DEF Spent
      <4>. QED
          BY <1>2, <4>1, Distributes
    <3>2. CASE ~Admissible(t, at)
      <4>1. d = c /\ Spent(t, a, at) = 0
          BY <1>4, <3>2 DEF Spent
      <4>. QED
          BY <1>2, <4>1
    <3>. QED
        BY <3>1, <3>2
  <2>4. (at - s) * rate = (last_refill[a] - s) * rate + (at - last_refill[a]) * rate
    <3>1. at - s = (last_refill[a] - s) + (at - last_refill[a])
        BY <1>1
    <3>2. last_refill[a] - s \in Int /\ at - last_refill[a] \in Int /\ rate \in Int
        BY <1>1, <1>2
    <3>3. ((last_refill[a] - s) + (at - last_refill[a])) * rate
            = (last_refill[a] - s) * rate + (at - last_refill[a]) * rate
        BY ONLY <3>2, Distributes, Zenon
    <3>. QED
        BY <3>1, <3>3, Zenon
  <2>5. /\ Unit * c \in Int
        /\ (last_refill[a] - s) * rate \in Int
        /\ (at - last_refill[a]) * rate \in Int
      BY <1>1, <1>2
  <2>. HIDE DEF rate
  <2>6. Unit * c + tokens[a] <= Capacity(a) + (last_refill[a] - s) * rate
      BY DEF rate
  <2>7. Unit * d + tokens'[a] <= Capacity(a) + (last_refill'[a] - s) * rate
      BY <1>1, <1>2, <2>1, <2>2, <2>3, <2>4, <2>5, <2>6
  <2>. QED
      BY <2>7 DEF rate
<1>. QED
    BY <1>3, <1>4

\* An admission leaves every bucket balanced, the new admission included.
LEMMA AdmitKeepsBalance ==
    ASSUME BucketTypeOK, Balanced, NEW t \in Tenants, NEW at \in Int, Admit(t, at)
    PROVE  Balanced'
<1>. DEFINE e == [at |-> at, buckets |-> LimitedAncestors(t)]
<1>1. PICK n \in Nat : n = Len(admitted)
    BY DEF BucketTypeOK
<1>2. /\ admitted' = Append(admitted, e)
      /\ Len(admitted') = n + 1
      /\ \A j \in 1..n : admitted'[j] = admitted[j]
      /\ admitted'[n + 1] = e
    BY <1>1 DEF Admit, BucketTypeOK
<1>3. UseBuckets(t, at) /\ Admissible(t, at) /\ rate_limit' = rate_limit
    BY DEF Admit, UseBuckets, policyVars
<1>4. SUFFICES ASSUME NEW i \in 1..(n + 1), NEW a \in admitted'[i].buckets
               PROVE  /\ a \in DOMAIN tokens'
                      /\ Unit * Cardinality(Charged(a, i, n + 1)') + tokens'[a]
                           <= Capacity(a)'
                                + (last_refill'[a] - admitted'[i].at) * RefillRate(a)'
    BY <1>2 DEF Balanced
<1>5. Capacity(a)' = Capacity(a) /\ RefillRate(a)' = RefillRate(a)
    BY <1>3 DEF Capacity, RefillRate
<1>6. Cardinality(Charged(a, i, n + 1)')
        = Cardinality(Charged(a, i, n)) + IF a \in LimitedAncestors(t) THEN 1 ELSE 0
    BY <1>1, <1>2, ChargedAfterAdmission
<1>7. CASE i \in 1..n
  <2>1. /\ a \in admitted[i].buckets
        /\ admitted'[i].at = admitted[i].at /\ admitted[i].at \in Int
      BY <1>1, <1>2, <1>7, AdmissionsHaveTimes
  <2>2. /\ a \in DOMAIN tokens
        /\ Unit * Cardinality(Charged(a, i, n)) + tokens[a]
             <= Capacity(a) + (last_refill[a] - admitted[i].at) * RefillRate(a)
      BY <1>1, <1>7, <2>1 DEF Balanced
  <2>3. /\ Cardinality(Charged(a, i, n)) \in Nat
        /\ Cardinality(Charged(a, i, n + 1)') \in Nat
      BY <1>6, <1>7, ChargedIsFinite
  <2>4. Unit * Cardinality(Charged(a, i, n + 1)') + tokens'[a]
          <= Capacity(a) + (last_refill'[a] - admitted[i].at) * RefillRate(a)
      BY <1>3, <1>6, <2>1, <2>2, <2>3, UseKeepsBalance
  <2>5. a \in DOMAIN tokens'
      BY <1>3, <2>2 DEF UseBuckets
  <2>. QED
      BY <1>5, <2>1, <2>4, <2>5
<1>8. CASE i = n + 1
  <2>1. a \in LimitedAncestors(t) /\ admitted'[i].at = at
      BY <1>2, <1>8
  <2>2. /\ a \in DOMAIN tokens'
        /\ tokens'[a] = Refilled(a, at) - Unit /\ last_refill'[a] = at
      BY <1>3, <2>1 DEF UseBuckets, Spent
  <2>3. Cardinality(Charged(a, i, n)) = 0
    <3>1. Charged(a, i, n) = {}
        BY <1>8 DEF Charged
    <3>. QED
        BY <3>1, FS_EmptySet
  <2>4. a \in DOMAIN rate_limit
      BY <2>1 DEF LimitedAncestors
  <2>5. Refilled(a, at) \in Int /\ Refilled(a, at) <= Capacity(a)
      BY <2>4, RefillIsBounded
  <2>6. Capacity(a) \in Nat /\ RefillRate(a) \in Nat /\ Unit \in Nat
      BY <2>4, LimitIsNatural, UnitAssumption DEF BucketTypeOK, UnitAssumption
  <2>7. (at - at) * RefillRate(a) = 0
      BY <2>6
  <2>. QED
      BY <1>5, <1>6, <2>1, <2>2, <2>3, <2>5, <2>6, <2>7
<1>. QED
    BY <1>7, <1>8

\* A rejection does too, for it charges nothing.
LEMMA RejectKeepsBalance ==
    ASSUME BucketTypeOK, Balanced, NEW t \in Tenants, NEW at \in Int, Reject(t, at)
    PROVE  Balanced'
<1>1. PICK n \in Nat : n = Len(admitted)
    BY DEF BucketTypeOK
<1>2. UseBuckets(t, at) /\ ~Admissible(t, at) /\ rate_limit' = rate_limit /\ admitted' = admitted
    BY DEF Reject, UseBuckets, policyVars
<1>3. SUFFICES ASSUME NEW i \in 1..n, NEW a \in admitted[i].buckets
               PROVE  /\ a \in DOMAIN tokens'
                      /\ Unit * Cardinality(Charged(a, i, n)) + tokens'[a]
                           <= Capacity(a) + (last_refill'[a] - admitted[i].at) * RefillRate(a)
    BY <1>1, <1>2 DEF Balanced, Charged, Capacity, RefillRate
<1>4. /\ a \in DOMAIN tokens
      /\ Unit * Cardinality(Charged(a, i, n)) + tokens[a]
           <= Capacity(a) + (last_refill[a] - admitted[i].at) * RefillRate(a)
    BY <1>1 DEF Balanced
<1>5. Cardinality(Charged(a, i, n)) \in Nat /\ admitted[i].at \in Int
    BY <1>1, ChargedIsFinite, AdmissionsHaveTimes
<1>6. Cardinality(Charged(a, i, n)) = Cardinality(Charged(a, i, n))
            + IF a \in LimitedAncestors(t) /\ Admissible(t, at) THEN 1 ELSE 0
    BY <1>2, <1>5
<1>7. a \in DOMAIN tokens'
    BY <1>2, <1>4 DEF UseBuckets
<1>. QED
    BY <1>2, <1>4, <1>5, <1>6, <1>7, UseKeepsBalance

\* What is left after an admission is no debt, so the balance bounds the rate.
LEMMA AdmitKeepsRate ==
    ASSUME BucketTypeOK, RateConforms, Balanced', NEW t \in Tenants, NEW at \in Int,
           Admit(t, at)
    PROVE  RateConforms'
<1>. DEFINE e == [at |-> at, buckets |-> LimitedAncestors(t)]
<1>1. PICK n \in Nat : n = Len(admitted)
    BY DEF BucketTypeOK
<1>2. /\ Len(admitted') = n + 1
      /\ \A j \in 1..n : admitted'[j] = admitted[j]
      /\ admitted'[n + 1] = e
    BY <1>1 DEF Admit, BucketTypeOK
<1>3. UseBuckets(t, at) /\ Admissible(t, at) /\ rate_limit' = rate_limit
    BY DEF Admit, UseBuckets, policyVars
<1>4. SUFFICES ASSUME NEW i \in 1..(n + 1), NEW k \in 1..(n + 1), i <= k,
                      NEW a \in admitted'[i].buckets \cap admitted'[k].buckets
               PROVE  Unit * Cardinality(Charged(a, i, k)')
                        <= Capacity(a)'
                             + (admitted'[k].at - admitted'[i].at) * RefillRate(a)'
    BY <1>2 DEF RateConforms
<1>5. Capacity(a)' = Capacity(a) /\ RefillRate(a)' = RefillRate(a)
    BY <1>3 DEF Capacity, RefillRate
<1>6. CASE k \in 1..n
  <2>1. i \in 1..n /\ \A j \in i..k : admitted'[j] = admitted[j]
      BY <1>2, <1>4, <1>6
  <2>2. Charged(a, i, k)' = Charged(a, i, k)
      BY <2>1 DEF Charged
  <2>. QED
      BY <1>1, <1>2, <1>4, <1>5, <1>6, <2>1, <2>2 DEF RateConforms
<1>7. CASE k = n + 1
  <2>1. a \in LimitedAncestors(t) /\ admitted'[k].at = at
      BY <1>2, <1>7
  <2>2. tokens'[a] = Refilled(a, at) - Unit /\ last_refill'[a] = at
      BY <1>3, <2>1 DEF UseBuckets, Spent
  <2>3. a \in DOMAIN rate_limit /\ Refilled(a, at) >= Unit
      BY <1>3, <2>1 DEF LimitedAncestors, Admissible, Suffices
  <2>4. Refilled(a, at) \in Int /\ Unit \in Nat
      BY <2>3, RefillIsBounded, UnitAssumption DEF UnitAssumption
  <2>5. tokens'[a] \in Nat
      BY <2>2, <2>3, <2>4
  <2>6. Unit * Cardinality(Charged(a, i, k)') + tokens'[a]
          <= Capacity(a)' + (last_refill'[a] - admitted'[i].at) * RefillRate(a)'
      BY <1>2, <1>7 DEF Balanced
  <2>7. /\ Unit * Cardinality(Charged(a, i, k)') \in Int
        /\ Capacity(a)' + (last_refill'[a] - admitted'[i].at) * RefillRate(a)' \in Int
    <3>1. Cardinality(Charged(a, i, k)') \in Nat
      <4>1. IsFiniteSet(i..k) /\ Charged(a, i, k)' \subseteq i..k
          BY FS_Interval DEF Charged
      <4>. QED
          BY <4>1, FS_Subset, FS_CardinalityType
    <3>2. admitted'[i].at \in Int
      <4>1. i \in 1..n => admitted'[i].at \in Int
          BY <1>1, <1>2, AdmissionsHaveTimes
      <4>2. i = n + 1 => admitted'[i].at \in Int
          BY <1>2
      <4>. QED
          BY <4>1, <4>2
    <3>3. Capacity(a) \in Nat /\ RefillRate(a) \in Nat
        BY <2>3, LimitIsNatural DEF BucketTypeOK
    <3>. QED
        BY <1>5, <2>2, <2>4, <3>1, <3>2, <3>3
  <2>. QED
      BY <2>1, <2>2, <2>5, <2>6, <2>7
<1>. QED
    BY <1>6, <1>7

LEMMA InitIsConformant == Init => RateInv
BY InitHasTypes DEF Init, RateInv, Balanced, RateConforms

LEMMA StepKeepsRate == RateInv /\ [SetOnceNext]_vars => RateInv'
<1>. SUFFICES ASSUME RateInv, [SetOnceNext]_vars
              PROVE  RateInv'
    OBVIOUS
<1>. USE DEF RateInv
<1>1. BucketTypeOK'
  <2>1. [Next]_vars
      BY DEF SetOnceNext, Next
  <2>. QED
      BY <2>1, StepKeepsTypes
<1>2. ASSUME NEW t \in Tenants, NEW at \in 0..MaxTime, Admit(t, at)
      PROVE  RateInv'
  <2>1. at \in Int
      BY UnitAssumption DEF UnitAssumption
  <2>2. Balanced'
      BY <1>2, <2>1, AdmitKeepsBalance
  <2>. QED
      BY <1>1, <1>2, <2>1, <2>2, AdmitKeepsRate
<1>3. ASSUME NEW t \in Tenants, NEW at \in 0..MaxTime, Reject(t, at)
      PROVE  RateInv'
  <2>1. at \in Int
      BY UnitAssumption DEF UnitAssumption
  <2>2. admitted' = admitted /\ rate_limit' = rate_limit
      BY <1>3 DEF Reject, UseBuckets, policyVars
  <2>3. Balanced'
      BY <1>3, <2>1, RejectKeepsBalance
  <2>4. \A a \in Tenants : Capacity(a)' = Capacity(a) /\ RefillRate(a)' = RefillRate(a)
      BY <2>2 DEF Capacity, RefillRate
  <2>5. RateConforms'
    <3>1. \A i \in 1..Len(admitted) : admitted[i].buckets \subseteq Tenants
        BY DEF Balanced, BucketTypeOK, PolicyTypeOK, Registered
    <3>. QED
        BY <2>2, <2>4, <3>1 DEF RateConforms, Charged
  <2>. QED
      BY <1>1, <2>3, <2>5
<1>4. ASSUME UNCHANGED <<tokens, last_refill, admitted>>,
             \A a \in DOMAIN rate_limit : rate_limit'[a] = rate_limit[a]
      PROVE  RateInv'
  <2>1. \A i \in 1..Len(admitted) : admitted[i].buckets \subseteq DOMAIN rate_limit
      BY DEF Balanced, BucketTypeOK
  <2>2. \A a \in DOMAIN rate_limit : Capacity(a)' = Capacity(a) /\ RefillRate(a)' = RefillRate(a)
      BY <1>4 DEF Capacity, RefillRate
  <2>3. Balanced'
      BY <1>4, <2>1, <2>2 DEF Balanced, Charged
  <2>4. RateConforms'
      BY <1>4, <2>1, <2>2 DEF RateConforms, Charged
  <2>. QED
      BY <1>1, <2>3, <2>4
<1>5. CASE EditTenants
    BY <1>4, <1>5 DEF EditTenants, AddTenant
<1>6. ASSUME NEW t \in Tenants \ DOMAIN rate_limit, EditLimit(t)
      PROVE  RateInv'
    BY <1>4, <1>6 DEF EditLimit, AddRateLimit
<1>7. CASE UNCHANGED vars
    BY <1>4, <1>7 DEF vars, policyVars
<1>. QED
    BY <1>2, <1>3, <1>5, <1>6, <1>7 DEF SetOnceNext, Allow

\* RateConforms holds of every program that replaces no limit: no order of calls,
\* no move of a tenant and no clock earns a submission more than the bucket and
\* its rate allow.
THEOREM RateIsRespected == SetOnceSpec => []RateConforms
<1>1. RateInv => RateConforms
    BY DEF RateInv
<1>. QED
    BY <1>1, InitIsConformant, StepKeepsRate, PTL DEF SetOnceSpec
-----------------------------------------------------------------------------
(* A window restores a token.                                              *)

\* No bucket is overdrawn.
NotOverdrawn == \A a \in DOMAIN tokens : tokens[a] >= 0

SteadyInv == BucketTypeOK /\ NotOverdrawn

\* What a refill leaves in a bucket while the clock does not go back
\* (quotas.py:80-84).
LEMMA RefillIsNoDebt ==
    ASSUME SteadyInv, NEW a \in DOMAIN rate_limit, NEW at \in Int, NotBefore(at)
    PROVE  Refilled(a, at) \in Nat
<1>1. Capacity(a) \in Nat /\ RefillRate(a) \in Nat
    BY LimitIsNatural DEF SteadyInv, BucketTypeOK
<1>2. Level(a) \in Nat
    BY <1>1 DEF Level, SteadyInv, NotOverdrawn, BucketTypeOK
<1>3. SinceRefill(a, at) \in Nat
    BY DEF SinceRefill, NotBefore, SteadyInv, BucketTypeOK
<1>4. SinceRefill(a, at) * RefillRate(a) \in Nat
    BY <1>1, <1>3
<1>. QED
    BY <1>1, <1>2, <1>4 DEF Refilled

\* No call overdraws a bucket: a token is taken where there is one
\* (quotas.py:99-103).
LEMMA UseKeepsCredit ==
    ASSUME SteadyInv, NEW t \in Tenants, NEW at \in Int, NotBefore(at), UseBuckets(t, at)
    PROVE  NotOverdrawn'
<1>. SUFFICES ASSUME NEW a \in DOMAIN tokens'
              PROVE  tokens'[a] >= 0
    BY DEF NotOverdrawn
<1>1. CASE a \in LimitedAncestors(t)
  <2>1. Refilled(a, at) \in Nat
      BY <1>1, RefillIsNoDebt DEF LimitedAncestors
  <2>2. /\ Spent(t, a, at) \in Nat
        /\ Spent(t, a, at) > 0 => Refilled(a, at) >= Unit /\ Spent(t, a, at) = Unit
      BY <1>1, SpentIsBounded DEF SteadyInv
  <2>3. Unit \in Nat
      BY UnitAssumption DEF UnitAssumption
  <2>4. tokens'[a] = Refilled(a, at) - Spent(t, a, at)
      BY <1>1 DEF UseBuckets
  <2>. QED
      BY <2>1, <2>2, <2>3, <2>4
<1>2. CASE a \notin LimitedAncestors(t)
    BY <1>2 DEF UseBuckets, SteadyInv, NotOverdrawn
<1>. QED
    BY <1>1, <1>2

LEMMA StepKeepsCredit == SteadyInv /\ [SteadyNext]_vars => SteadyInv'
<1>. SUFFICES ASSUME SteadyInv, [SteadyNext]_vars
              PROVE  SteadyInv'
    OBVIOUS
<1>1. BucketTypeOK'
  <2>1. [Next]_vars
      BY DEF SteadyNext, Next
  <2>. QED
      BY <2>1, StepKeepsTypes DEF SteadyInv
<1>2. ASSUME NEW t \in Tenants, NEW at \in 0..MaxTime, NotBefore(at), Allow(t, at)
      PROVE  NotOverdrawn'
  <2>1. at \in Int
      BY UnitAssumption DEF UnitAssumption
  <2>2. UseBuckets(t, at)
      BY <1>2 DEF Allow, Admit, Reject
  <2>. QED
      BY <1>2, <2>1, <2>2, UseKeepsCredit
<1>3. ASSUME UNCHANGED tokens
      PROVE  NotOverdrawn'
    BY <1>3 DEF SteadyInv, NotOverdrawn
<1>. QED
    BY <1>1, <1>2, <1>3 DEF SteadyNext, EditTenants, EditLimit, vars, SteadyInv

\* Unit divides evenly by every window in use: a window's refill is a whole number
\* of tokens (quotas.py:83-84).
LEMMA WindowRefills ==
    ASSUME PolicyTypeOK, NEW a \in DOMAIN rate_limit
    PROVE  rate_limit[a].window_s * RefillRate(a) = rate_limit[a].max_submissions * Unit
<1>. DEFINE w == rate_limit[a].window_s
            m == rate_limit[a].max_submissions
            q == Unit \div w
<1>1. /\ rate_limit[a] \in RateLimits
      /\ rate_limit[a] \in RateLimit
      /\ w > 0
    BY PolicyAssumption DEF PolicyTypeOK, PolicyAssumption
<1>2. m \in Nat /\ w \in Nat \ {0}
    BY <1>1 DEF RateLimit
<1>3. Unit \in Nat /\ Unit % w = 0
    BY <1>1, UnitAssumption DEF UnitAssumption
<1>4. RefillRate(a) = m * q
    BY DEF RefillRate
<1>. HIDE DEF w, m
<1>5. q \in Nat /\ w * q = Unit
    BY <1>2, <1>3
<1>. HIDE DEF q
<1>6. w * (m * q) = m * (w * q)
    BY <1>2, <1>5
<1>. QED
    BY <1>4, <1>5, <1>6 DEF w, m

\* WindowRestoresToken holds as long as the clock does not go back: a bucket is never
\* in debt, so a window later it holds a token, whatever was taken from it and
\* whichever limits it had before (quotas.py:80-84).
THEOREM WindowIsEnough == SteadySpec => []WindowRestoresToken
<1>1. SteadyInv => WindowRestoresToken
  <2>. SUFFICES ASSUME SteadyInv, NEW a \in DOMAIN tokens, rate_limit[a].max_submissions > 0
                PROVE  Refilled(a, last_refill[a] + rate_limit[a].window_s) >= Unit
      BY DEF WindowRestoresToken
  <2>. DEFINE m == rate_limit[a].max_submissions
              w == rate_limit[a].window_s
              b == rate_limit[a].burst
              at == last_refill[a] + w
  <2>1. /\ PolicyTypeOK /\ a \in DOMAIN rate_limit
        /\ tokens[a] \in Nat /\ last_refill[a] \in Int
      BY DEF SteadyInv, NotOverdrawn, BucketTypeOK
  <2>2. rate_limit[a] \in RateLimit
      BY <2>1, PolicyAssumption DEF PolicyTypeOK, PolicyAssumption
  <2>3. m \in Nat /\ m > 0 /\ w \in Int /\ b \in Nat /\ Unit \in Nat
      BY <2>2, UnitAssumption DEF RateLimit, UnitAssumption
  <2>4. w * RefillRate(a) = m * Unit
      BY <2>1, WindowRefills
  <2>5. Level(a) = tokens[a] /\ SinceRefill(a, at) = w
      BY <2>1, <2>3 DEF Level, SinceRefill
  <2>6. Capacity(a) = Unit * (m + b)
      BY DEF Capacity
  <2>. HIDE DEF m, w, b, at
  <2>7. m * Unit \in Nat /\ m * Unit >= Unit /\ Unit * (m + b) >= Unit /\ Unit * (m + b) \in Nat
    <3>1. \A x \in Nat : x > 0 => x * Unit >= Unit /\ Unit * x >= Unit /\ x * Unit \in Nat /\ Unit * x \in Nat
        BY <2>3
    <3>2. m + b \in Nat /\ m + b > 0
        BY <2>3
    <3>. QED
        BY <2>3, <3>1, <3>2
  <2>8. Refilled(a, at) >= Unit
      BY <2>1, <2>3, <2>4, <2>5, <2>6, <2>7 DEF Refilled
  <2>. QED
      BY <2>8 DEF at, w
<1>2. Init => SteadyInv
    BY InitHasTypes DEF Init, SteadyInv, NotOverdrawn
<1>. QED
    BY <1>1, <1>2, StepKeepsCredit, PTL DEF SteadySpec
=============================================================================
