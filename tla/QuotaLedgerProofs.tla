-------------------------- MODULE QuotaLedgerProofs ---------------------------
(***************************************************************************)
(* What holds of the quota ledger on every hierarchy of tenants.           *)
(***************************************************************************)
EXTENDS QuotaWalks, Induction

-----------------------------------------------------------------------------
(* The two walks.                                                          *)

\* What descendants_of reaches, with the tenant itself, is closed under taking
\* children, and is the least such set (quota_policy.py:56-65).
LEMMA SubtreeIsLeast ==
    ASSUME PolicyTypeOK, NEW a \in Tenants
    PROVE  /\ a \in Subtree(a) /\ Subtree(a) \subseteq Tenants
           /\ ClosedDownwards(Subtree(a))
           /\ \A S \in SUBSET Tenants :
                 a \in S /\ ClosedDownwards(S) => Subtree(a) \subseteq S
<1>1. \A t \in Tenants : children_of(t) \subseteq Tenants
    BY DEF children_of, PolicyTypeOK
<1>2. a \in Subtree(a) /\ Subtree(a) \subseteq Tenants
    BY DEF Subtree, Descendants
<1>3. ASSUME NEW x \in Subtree(a), NEW y \in children_of(x)
      PROVE  y \in Subtree(a)
  <2>1. y \in Tenants
      BY <1>1, <1>2, <1>3
  <2>2. ASSUME NEW S \in SUBSET Tenants, children_of(a) \subseteq S, ClosedDownwards(S)
        PROVE  y \in S
    <3>1. CASE x = a
        BY <1>3, <2>2, <3>1
    <3>2. CASE x \in Descendants(a)
      <4>1. x \in S
          BY <2>2, <3>2 DEF Descendants
      <4>. QED
          BY <1>3, <2>2, <4>1 DEF ClosedDownwards
    <3>. QED
        BY <3>1, <3>2 DEF Subtree
  <2>. QED
      BY <2>1, <2>2 DEF Subtree, Descendants
<1>4. ASSUME NEW S \in SUBSET Tenants, a \in S, ClosedDownwards(S)
      PROVE  Subtree(a) \subseteq S
  <2>1. children_of(a) \subseteq S
      BY <1>4 DEF ClosedDownwards
  <2>. QED
      BY <1>4, <2>1 DEF Subtree, Descendants
<1>. QED
    BY <1>2, <1>3, <1>4 DEF ClosedDownwards

\* What ancestor_chain reaches is closed under taking parents, and is the least
\* such set (quota_policy.py:67-75).
LEMMA AncestorsAreLeast ==
    ASSUME PolicyTypeOK, NEW t \in Tenants
    PROVE  /\ t \in Ancestors(t) /\ Ancestors(t) \subseteq Tenants
           /\ ClosedUpwards(Ancestors(t))
           /\ \A S \in SUBSET Tenants :
                 t \in S /\ ClosedUpwards(S) => Ancestors(t) \subseteq S
<1>1. t \in Ancestors(t) /\ Ancestors(t) \subseteq Tenants
    BY DEF Ancestors
<1>2. ASSUME NEW x \in Ancestors(t) \cap Registered, parent[x] # NoParent
      PROVE  parent[x] \in Ancestors(t)
  <2>1. parent[x] \in Tenants
      BY <1>2 DEF PolicyTypeOK
  <2>. QED
      BY <1>2, <2>1 DEF Ancestors, ClosedUpwards
<1>. QED
    BY <1>1, <1>2 DEF Ancestors, ClosedUpwards

\* Walking up from t meets a exactly when walking down from a meets t, on any
\* hierarchy, even one with a cycle: the complement of a set closed one way is
\* closed the other way.
LEMMA WalksAreDual ==
    ASSUME PolicyTypeOK
    PROVE  WalksAgree
<1>. SUFFICES ASSUME NEW a \in Tenants, NEW t \in Tenants
              PROVE  a \in Ancestors(t) <=> t \in Subtree(a)
    BY DEF WalksAgree
<1>1. ASSUME t \notin Subtree(a)
      PROVE  a \notin Ancestors(t)
  <2>. DEFINE S == Tenants \ Subtree(a)
  <2>1. ASSUME NEW x \in S \cap Registered, parent[x] # NoParent
        PROVE  parent[x] \in S
    <3>1. parent[x] \in Tenants
        BY <2>1 DEF PolicyTypeOK
    <3>2. parent[x] \in Subtree(a) => x \in Subtree(a)
        BY SubtreeIsLeast DEF ClosedDownwards, children_of
    <3>. QED
        BY <3>1, <3>2
  <2>2. ClosedUpwards(S) /\ t \in S
      BY <1>1, <2>1 DEF ClosedUpwards
  <2>. QED
      BY <2>2, AncestorsAreLeast, SubtreeIsLeast
<1>2. ASSUME a \notin Ancestors(t)
      PROVE  t \notin Subtree(a)
  <2>. DEFINE S == Tenants \ Ancestors(t)
  <2>1. ASSUME NEW x \in S, NEW y \in children_of(x)
        PROVE  y \in S
    <3>1. y \in Registered /\ y \in Tenants /\ parent[y] = x /\ x # NoParent
        BY PolicyAssumption DEF children_of, PolicyTypeOK, PolicyAssumption
    <3>2. y \in Ancestors(t) => x \in Ancestors(t)
        BY <3>1, AncestorsAreLeast DEF ClosedUpwards
    <3>. QED
        BY <3>1, <3>2
  <2>2. ClosedDownwards(S) /\ a \in S
      BY <1>2, <2>1 DEF ClosedDownwards
  <2>. QED
      BY <2>2, AncestorsAreLeast, SubtreeIsLeast
<1>. QED
    BY <1>1, <1>2

-----------------------------------------------------------------------------
(* Type correctness.                                                       *)

\* Everything a careful operator does, the program allows.
LEMMA CarefulIsAllowed == CarefulNext => Next
BY DEF CarefulNext, CarefulPolicyNext, Next, PolicyNext

\* Every step keeps the types: a release does not take the usage below zero
\* (quotas.py:61-62), and only registered tenants get a quota.
LEMMA QuotaTypeStep ==
    ASSUME QuotaTypeOK, [Next]_vars
    PROVE  QuotaTypeOK'
<1>1. ASSUME NEW t \in Tenants, NEW n \in GpuCounts, TryReserve(t, n)
      PROVE  QuotaTypeOK'
    BY <1>1, QuotaAssumption
       DEF TryReserve, QuotaTypeOK, PolicyTypeOK, policyVars, Registered, QuotaAssumption
<1>2. ASSUME NEW t \in Tenants, NEW n \in GpuCounts, Release(t, n)
      PROVE  QuotaTypeOK'
    BY <1>2, QuotaAssumption
       DEF Release, Reduced, QuotaTypeOK, PolicyTypeOK, policyVars, Registered, QuotaAssumption
<1>3. ASSUME NEW t \in Tenants, NEW p \in Tenants \cup {NoParent},
             AddTenant(t, p), UNCHANGED usage
      PROVE  QuotaTypeOK'
    BY <1>3 DEF AddTenant, QuotaTypeOK, PolicyTypeOK, Registered
<1>4. ASSUME NEW t \in Tenants, NEW m \in QuotaSizes, AddQuota(t, m), UNCHANGED usage
      PROVE  QuotaTypeOK'
  <2>1. m \in Nat
      BY <1>4, PolicyAssumption DEF AddQuota, PolicyAssumption
  <2>. QED
      BY <1>4, <2>1 DEF AddQuota, QuotaTypeOK, PolicyTypeOK, Registered
<1>5. ASSUME UNCHANGED vars
      PROVE  QuotaTypeOK'
    BY <1>5 DEF vars, policyVars, QuotaTypeOK, PolicyTypeOK, Registered
<1>. QED
    BY <1>1, <1>2, <1>3, <1>4, <1>5 DEF Next, LedgerNext, PolicyNext

\* The types hold initially.
LEMMA QuotaTypeInit == Init => QuotaTypeOK
BY DEF Init, PolicyInit, QuotaTypeOK, PolicyTypeOK, Registered

\* QuotaTypeOK holds in every reachable state, for every set of tenants.
THEOREM QuotaTypeCorrect == Spec => []QuotaTypeOK
BY QuotaTypeInit, QuotaTypeStep, PTL DEF Spec

\* The walk up and the walk down agree in every reachable state.
THEOREM WalksAlwaysAgree == Spec => []WalksAgree
<1>1. QuotaTypeOK => WalksAgree
    BY WalksAreDual DEF QuotaTypeOK
<1>. QED
    BY <1>1, QuotaTypeCorrect, PTL

\* A careful operator's behaviours are behaviours of the program.
LEMMA CarefulTypeCorrect == CarefulSpec => []QuotaTypeOK
<1>1. QuotaTypeOK /\ [CarefulNext]_vars => QuotaTypeOK'
    BY QuotaTypeStep, CarefulIsAllowed
<1>. QED
    BY <1>1, QuotaTypeInit, PTL DEF CarefulSpec

-----------------------------------------------------------------------------
(* Sums over a subtree.                                                    *)

\* The length of an interval.
LEMMA IntervalLength ==
    ASSUME NEW u \in Nat, NEW v \in Nat
    PROVE  /\ IsFiniteSet((u + 1)..(u + v))
           /\ Cardinality((u + 1)..(u + v)) = v
<1>1. u + 1 \in Int /\ u + v \in Int
    OBVIOUS
<1>. QED
    BY <1>1, FS_Interval

\* The size of a union of two finite sets with nothing in common.
LEMMA DisjointUnion ==
    ASSUME NEW S, IsFiniteSet(S), NEW T, IsFiniteSet(T), S \cap T = {}
    PROVE  Cardinality(S \cup T) = Cardinality(S) + Cardinality(T)
<1>1. Cardinality(S \cup T) = Cardinality(S) + Cardinality(T) - Cardinality(S \cap T)
    BY FS_Union
<1>2. Cardinality(S \cap T) = 0
    BY FS_EmptySet
<1>3. Cardinality(S) \in Nat /\ Cardinality(T) \in Nat
    BY FS_CardinalityType
<1>. QED
    BY <1>1, <1>2, <1>3

\* The GPUs charged to a set of tenants are finitely many.
LEMMA ChargedIsFinite ==
    ASSUME QuotaTypeOK, NEW S \in SUBSET Tenants
    PROVE  IsFiniteSet(ChargedTo(S)) /\ Cardinality(ChargedTo(S)) \in Nat
<1>. DEFINE parts == {{d} \X (1..usage[d]) : d \in S}
            part == [d \in S |-> {d} \X (1..usage[d])]
<1>1. IsFiniteSet(S)
    BY PolicyAssumption, FS_Subset DEF PolicyAssumption
<1>2. part \in Surjection(S, parts)
    BY DEF Surjection
<1>3. IsFiniteSet(parts)
    BY <1>1, <1>2, FS_Surjection
<1>4. \A d \in S : IsFiniteSet({d} \X (1..usage[d]))
  <2>. TAKE d \in S
  <2>1. IsFiniteSet({d})
      BY FS_Singleton
  <2>2. IsFiniteSet(1..usage[d])
    <3>1. usage[d] \in Nat
        BY DEF QuotaTypeOK
    <3>2. 1..usage[d] = (0 + 1)..(0 + usage[d])
        BY <3>1
    <3>. QED
        BY <3>1, <3>2, IntervalLength
  <2>. QED
      BY <2>1, <2>2, FS_Product
<1>5. \A P \in parts : IsFiniteSet(P)
    BY <1>4
<1>6. IsFiniteSet(UNION parts)
    BY <1>3, <1>5, FS_UNION
<1>. QED
    BY <1>6, FS_CardinalityType DEF ChargedTo

\* subtree_usage is a natural number (quotas.py:31-38).
LEMMA UsageIsNat == QuotaTypeOK => \A b \in Tenants : SubtreeUsage(b) \in Nat
BY SubtreeIsLeast, ChargedIsFinite DEF SubtreeUsage, QuotaTypeOK

\* Charging n GPUs to one of a set of tenants adds n to what is charged to the set
\* (quotas.py:58).
LEMMA ChargedAfterReserve ==
    ASSUME QuotaTypeOK, NEW S \in SUBSET Tenants, NEW t \in S, NEW n \in Nat,
           usage' = [usage EXCEPT ![t] = @ + n]
    PROVE  Cardinality(ChargedTo(S)') = Cardinality(ChargedTo(S)) + n
<1>. DEFINE new == {t} \X ((usage[t] + 1)..(usage[t] + n))
<1>1. usage[t] \in Nat /\ \A d \in S : usage[d] \in Nat
    BY DEF QuotaTypeOK
<1>2. ChargedTo(S)' = ChargedTo(S) \cup new
  <2>1. 1..(usage[t] + n) = (1..usage[t]) \cup ((usage[t] + 1)..(usage[t] + n))
      BY <1>1
  <2>2. \A d \in S : {d} \X (1..usage'[d])
                       = ({d} \X (1..usage[d])) \cup IF d = t THEN new ELSE {}
    <3>1. ASSUME NEW d \in S, d # t
          PROVE  usage'[d] = usage[d]
        BY <3>1 DEF QuotaTypeOK
    <3>2. usage'[t] = usage[t] + n
        BY DEF QuotaTypeOK
    <3>. QED
        BY <2>1, <3>1, <3>2
  <2>. QED
      BY <2>2 DEF ChargedTo
<1>3. ChargedTo(S) \cap new = {}
  <2>1. \A d \in S : ({d} \X (1..usage[d])) \cap new = {}
      BY <1>1
  <2>. QED
      BY <2>1 DEF ChargedTo
<1>4. IsFiniteSet(new) /\ Cardinality(new) = n
  <2>. DEFINE added == (usage[t] + 1)..(usage[t] + n)
  <2>1. IsFiniteSet({t}) /\ Cardinality({t}) = 1
      BY FS_Singleton
  <2>2. IsFiniteSet(added) /\ Cardinality(added) = n
      BY <1>1, IntervalLength
  <2>3. Cardinality({t} \X added) = 1 * n /\ IsFiniteSet({t} \X added)
    <3>. HIDE DEF added
    <3>. QED
        BY <2>1, <2>2, FS_Product
  <2>. QED
      BY <2>3
<1>5. IsFiniteSet(ChargedTo(S)) /\ Cardinality(ChargedTo(S)) \in Nat
    BY ChargedIsFinite
<1>6. Cardinality(ChargedTo(S) \cup new) = Cardinality(ChargedTo(S)) + n
  <2>. HIDE DEF new
  <2>. QED
      BY <1>3, <1>4, <1>5, DisjointUnion
<1>. QED
    BY <1>2, <1>5, <1>6

\* Charging less to every tenant, over a smaller set, never raises the sum.
LEMMA ChargedIsMonotone ==
    ASSUME QuotaTypeOK, NEW S \in SUBSET Tenants, NEW P,
           P \subseteq ChargedTo(S)
    PROVE  Cardinality(P) <= Cardinality(ChargedTo(S))
BY ChargedIsFinite, FS_Subset

-----------------------------------------------------------------------------
(* Ceilings.                                                               *)

\* A reservation leaves every ceiling it could pass respected: each ancestor was
\* checked, and a tenant that is no ancestor has a subtree that it does not touch.
LEMMA ReserveKeepsCeilings ==
    ASSUME QuotaTypeOK, NEW t \in Tenants, NEW n \in GpuCounts, TryReserve(t, n),
           NEW a \in DOMAIN max_gpus
    PROVE  \/ SubtreeUsage(a)' <= max_gpus'[a]
           \/ SubtreeUsage(a)' = SubtreeUsage(a)
<1>1. n \in Nat /\ a \in Tenants /\ Subtree(a) \in SUBSET Tenants
    BY QuotaAssumption, SubtreeIsLeast DEF QuotaAssumption, QuotaTypeOK, PolicyTypeOK
<1>2. /\ usage' = [usage EXCEPT ![t] = @ + n]
      /\ parent' = parent /\ max_gpus' = max_gpus
    BY DEF TryReserve, policyVars
<1>3. Subtree(a)' = Subtree(a)
    BY <1>2 DEF Subtree, Descendants, children_of, ClosedDownwards, Registered
<1>4. CASE t \in Subtree(a)
  <2>1. a \in Ancestors(t)
      BY <1>1, <1>4, WalksAreDual DEF WalksAgree, QuotaTypeOK
  <2>2. SubtreeUsage(a) + n <= max_gpus[a]
      BY <2>1 DEF TryReserve, HasCapacity, WithinQuota
  <2>3. Cardinality(ChargedTo(Subtree(a))') = Cardinality(ChargedTo(Subtree(a))) + n
    <3>. DEFINE S == Subtree(a)
    <3>1. S' = S
        BY <1>3
    <3>2. \A R \in SUBSET Tenants : t \in R =>
              Cardinality(UNION {{d} \X (1..usage'[d]) : d \in R})
                = Cardinality(ChargedTo(R)) + n
        BY <1>1, <1>2, ChargedAfterReserve DEF ChargedTo
    <3>. QED
        BY <1>1, <1>4, <3>1, <3>2 DEF ChargedTo
  <2>. QED
      BY <1>2, <2>2, <2>3 DEF SubtreeUsage
<1>5. CASE t \notin Subtree(a)
  <2>1. \A d \in Subtree(a) : usage'[d] = usage[d]
      BY <1>1, <1>2, <1>5 DEF QuotaTypeOK
  <2>. QED
      BY <1>3, <2>1 DEF SubtreeUsage, ChargedTo
<1>. QED
    BY <1>4, <1>5

\* A release raises the usage of no subtree.
LEMMA ReleaseLowersUsage ==
    ASSUME QuotaTypeOK, NEW t \in Tenants, NEW n \in GpuCounts, Release(t, n),
           NEW a \in Tenants
    PROVE  SubtreeUsage(a)' <= SubtreeUsage(a)
<1>1. /\ usage' = [usage EXCEPT ![t] = Reduced(@, n)]
      /\ parent' = parent
    BY DEF Release, policyVars
<1>2. Subtree(a)' = Subtree(a) /\ Subtree(a) \in SUBSET Tenants
    BY <1>1, SubtreeIsLeast
       DEF Subtree, Descendants, children_of, ClosedDownwards, Registered, QuotaTypeOK
<1>3. \A d \in Tenants : usage'[d] \in Nat /\ usage[d] \in Nat /\ usage'[d] <= usage[d]
    BY <1>1, QuotaAssumption DEF Reduced, QuotaTypeOK, QuotaAssumption
<1>4. \A d \in Subtree(a) : 1..usage'[d] \subseteq 1..usage[d]
    BY <1>2, <1>3
<1>5. ChargedTo(Subtree(a))' \subseteq ChargedTo(Subtree(a))
    BY <1>2, <1>4 DEF ChargedTo
<1>. QED
    BY <1>2, <1>5, ChargedIsMonotone DEF SubtreeUsage

\* NoChargeAboveCeiling holds of every step of the program, whatever was done to
\* the policy before: usage that already passes a ceiling is never added to.
THEOREM NeverChargedAbove == Spec => NoChargeAboveCeiling
<1>. DEFINE Kept == UNCHANGED policyVars =>
                \A a \in DOMAIN max_gpus :
                    SubtreeUsage(a)' > SubtreeUsage(a) => SubtreeUsage(a)' <= max_gpus[a]
<1>1. (QuotaTypeOK => \A b \in Tenants : SubtreeUsage(b) \in Nat)'
    BY UsageIsNat, PTL
<1>2. ASSUME QuotaTypeOK, QuotaTypeOK', [Next]_vars
      PROVE  Kept
  <2>. SUFFICES ASSUME UNCHANGED policyVars, NEW a \in DOMAIN max_gpus,
                       SubtreeUsage(a)' > SubtreeUsage(a)
                PROVE  SubtreeUsage(a)' <= max_gpus[a]
      OBVIOUS
  <2>1. a \in Tenants /\ Subtree(a) \in SUBSET Tenants
      BY <1>2, SubtreeIsLeast DEF QuotaTypeOK, PolicyTypeOK
  <2>2. Subtree(a)' = Subtree(a)
      BY DEF policyVars, Subtree, Descendants, children_of, ClosedDownwards, Registered
  <2>3. SubtreeUsage(a) \in Nat
      BY <1>2, <2>1, ChargedIsFinite DEF SubtreeUsage
  <2>4. usage' # usage
    <3>1. usage' = usage => SubtreeUsage(a)' = SubtreeUsage(a)
        BY <2>2 DEF SubtreeUsage, ChargedTo
    <3>. QED
        BY <2>3, <3>1
  <2>5. ASSUME NEW t \in Tenants, NEW n \in GpuCounts, TryReserve(t, n)
        PROVE  SubtreeUsage(a)' <= max_gpus[a]
    <3>1. SubtreeUsage(a)' # SubtreeUsage(a)
        BY <2>3
    <3>. QED
        BY <1>2, <2>5, <3>1, ReserveKeepsCeilings DEF policyVars
  <2>6. ASSUME NEW t \in Tenants, NEW n \in GpuCounts, Release(t, n)
        PROVE  FALSE
    <3>1. SubtreeUsage(a)' <= SubtreeUsage(a)
        BY <1>2, <2>1, <2>6, ReleaseLowersUsage
    <3>. QED
        BY <1>2, <1>1, <2>1, <2>3, <3>1
  <2>. QED
      BY <1>2, <2>4, <2>5, <2>6 DEF Next, LedgerNext, PolicyNext, vars
<1>. QED
    BY <1>2, QuotaTypeCorrect, PTL DEF Spec, NoChargeAboveCeiling

-----------------------------------------------------------------------------
(* A careful operator.                                                     *)

\* Registering a new tenant below a registered one moves no usage: its subtree is
\* itself, and it has been charged nothing.
LEMMA NewTenantAddsNothing ==
    ASSUME QuotaTypeOK, ParentsRegistered, NEW t \in Tenants,
           NEW p \in Tenants \cup {NoParent}, NewTenant(t), AddTenant(t, p),
           UNCHANGED usage, NEW a \in Tenants
    PROVE  SubtreeUsage(a)' <= SubtreeUsage(a)
<1>1. /\ parent' = [x \in Registered \cup {t} |-> IF x = t THEN p ELSE parent[x]]
      /\ t \notin Registered /\ usage[t] = 0 /\ usage' = usage
    BY DEF AddTenant, NewTenant
<1>. DEFINE S == Subtree(a) \cup {t}
<1>2. a \in Subtree(a) /\ Subtree(a) \subseteq Tenants /\ ClosedDownwards(Subtree(a))
    BY SubtreeIsLeast DEF QuotaTypeOK
<1>3. \A x \in S : \A y \in Registered' : parent'[y] = x => y \in S
  <2>1. ASSUME NEW x \in S, NEW y \in Registered', parent'[y] = x
        PROVE  y \in S
    <3>1. CASE y = t
        BY <3>1
    <3>2. CASE y # t
      <4>1. y \in Registered /\ parent[y] = x
          BY <1>1, <2>1, <3>2 DEF Registered
      <4>2. x # NoParent
          BY <1>2, <2>1, PolicyAssumption DEF PolicyAssumption
      <4>3. x \in Registered
          BY <4>1, <4>2 DEF ParentsRegistered
      <4>4. x \in Subtree(a)
          BY <1>1, <2>1, <4>3
      <4>. QED
          BY <1>2, <4>1, <4>4 DEF ClosedDownwards, children_of
    <3>. QED
        BY <3>1, <3>2
  <2>. QED
      BY <2>1
<1>4. Subtree(a)' \subseteq S
  <2>1. \A R \in SUBSET Tenants :
            a \in R /\ (\A x \in R : \A y \in Registered' : parent'[y] = x => y \in R)
            => Subtree(a)' \subseteq R
      BY DEF Subtree, Descendants, ClosedDownwards, children_of
  <2>2. S \in SUBSET Tenants /\ a \in S
      BY <1>2
  <2>. HIDE DEF S
  <2>. QED
      BY <1>3, <2>1, <2>2
<1>5. ChargedTo(Subtree(a))' \subseteq ChargedTo(Subtree(a))
  <2>1. \A d : {d} \X (1..0) = {}
      OBVIOUS
  <2>2. ASSUME NEW c \in ChargedTo(Subtree(a))'
        PROVE  c \in ChargedTo(Subtree(a))
    <3>1. PICK d \in Subtree(a)' : c \in {d} \X (1..usage[d])
        BY <1>1, <2>2 DEF ChargedTo
    <3>2. d # t
        BY <1>1, <2>1, <3>1
    <3>. QED
        BY <1>4, <3>1, <3>2 DEF ChargedTo
  <2>. QED
      BY <2>2
<1>. QED
    BY <1>2, <1>5, ChargedIsMonotone DEF SubtreeUsage

\* A parent is known when a tenant is added, and no tenant is ever taken out.
LEMMA ParentsStep ==
    ASSUME ParentsRegistered, [Next]_vars
    PROVE  ParentsRegistered'
<1>1. ASSUME NEW t \in Tenants, NEW p \in Tenants \cup {NoParent}, AddTenant(t, p)
      PROVE  ParentsRegistered'
    BY <1>1 DEF AddTenant, ParentKnown, ParentsRegistered, Registered
<1>2. ASSUME UNCHANGED parent
      PROVE  ParentsRegistered'
    BY <1>2 DEF ParentsRegistered, Registered
<1>3. ASSUME \/ LedgerNext
             \/ \E t \in Tenants, m \in QuotaSizes : AddQuota(t, m)
             \/ UNCHANGED vars
      PROVE  UNCHANGED parent
    BY <1>3 DEF LedgerNext, TryReserve, Release, AddQuota, vars, policyVars
<1>. QED
    BY <1>1, <1>2, <1>3 DEF Next, PolicyNext

\* ParentsRegistered holds in every reachable state of the program.
THEOREM ParentsAreRegistered == Spec => []ParentsRegistered
<1>1. Init => ParentsRegistered
    BY DEF Init, PolicyInit, ParentsRegistered, Registered
<1>. QED
    BY <1>1, ParentsStep, PTL DEF Spec

\* The walk up from a registered tenant meets registered tenants only.
LEMMA AncestorsRegistered ==
    ASSUME QuotaTypeOK, ParentsRegistered, NEW t \in Registered
    PROVE  Ancestors(t) \subseteq Registered
<1>1. Registered \in SUBSET Tenants /\ t \in Tenants
    BY DEF QuotaTypeOK, PolicyTypeOK
<1>2. ClosedUpwards(Registered)
    BY DEF ClosedUpwards, ParentsRegistered
<1>. QED
    BY <1>1, <1>2 DEF Ancestors

\* Under a careful operator no step makes a cycle: a new tenant is nobody's parent
\* yet, so it ends up above no chain, and its own goes on with its parent's.
LEMMA ForestStep ==
    ASSUME QuotaTypeOK, ParentsRegistered, PolicyIsForest, [CarefulNext]_vars
    PROVE  PolicyIsForest'
<1>1. ASSUME UNCHANGED parent
      PROVE  PolicyIsForest'
    BY <1>1 DEF PolicyIsForest, ChainEnds, Ancestors, ClosedUpwards, Registered
<1>2. ASSUME NEW t \in Tenants, NEW p \in Tenants \cup {NoParent},
             NewTenant(t), AddTenant(t, p)
      PROVE  PolicyIsForest'
  <2>1. /\ parent' = [x \in Registered \cup {t} |-> IF x = t THEN p ELSE parent[x]]
        /\ Registered' = Registered \cup {t}
        /\ t \notin Registered /\ ParentKnown(p)
      BY <1>2 DEF AddTenant, NewTenant, Registered
  <2>2. \A S \in SUBSET Tenants :
            (\A x \in S \cap Registered' : parent'[x] # NoParent => parent'[x] \in S)
            => ClosedUpwards(S) /\ (t \in S /\ p # NoParent => p \in S)
      BY <2>1 DEF ClosedUpwards
  <2>3. \A x \in Tenants : \A a \in Ancestors(x) : a \in Ancestors(x)'
      BY <2>2 DEF Ancestors, ClosedUpwards
  <2>4. ASSUME NEW x \in Tenants, x # t
        PROVE  ChainEnds(x)'
    <3>1. PICK a \in Ancestors(x) : a \in Registered => parent[a] = NoParent
        BY DEF PolicyIsForest, ChainEnds
    <3>2. a # t
      <4>1. CASE x \in Registered
          BY <2>1, <4>1, AncestorsRegistered
      <4>2. CASE x \notin Registered
        <5>1. ClosedUpwards({x}) /\ {x} \in SUBSET Tenants
            BY <4>2 DEF ClosedUpwards
        <5>2. a = x
            BY <5>1 DEF Ancestors
        <5>. QED
            BY <2>4, <5>2
      <4>. QED
          BY <4>1, <4>2
    <3>3. a \in Registered' => parent'[a] = NoParent
        BY <2>1, <3>1, <3>2
    <3>. QED
        BY <2>3, <3>1, <3>3 DEF ChainEnds
  <2>5. ChainEnds(t)'
    <3>1. CASE p = NoParent
      <4>1. t \in Ancestors(t)'
          BY DEF Ancestors
      <4>2. parent'[t] = NoParent
          BY <2>1, <3>1
      <4>. QED
          BY <4>1, <4>2 DEF ChainEnds
    <3>2. CASE p # NoParent
      <4>1. p \in Registered /\ p \in Tenants
          BY <2>1, <3>2 DEF ParentKnown
      <4>2. PICK a \in Ancestors(p) : a \in Registered => parent[a] = NoParent
          BY <4>1 DEF PolicyIsForest, ChainEnds
      <4>3. a \in Registered /\ a # t
          BY <2>1, <4>1, AncestorsRegistered
      <4>4. a \in Ancestors(t)'
        <5>1. a \in Tenants
            BY DEF Ancestors
        <5>2. ASSUME NEW S \in SUBSET Tenants, t \in S,
                     \A x \in S \cap Registered' : parent'[x] # NoParent => parent'[x] \in S
              PROVE  a \in S
            BY <2>2, <3>2, <5>2 DEF Ancestors
        <5>. QED
            BY <5>1, <5>2 DEF Ancestors, ClosedUpwards
      <4>5. parent'[a] = NoParent
          BY <2>1, <4>2, <4>3
      <4>. QED
          BY <4>4, <4>5 DEF ChainEnds
    <3>. QED
        BY <3>1, <3>2
  <2>. QED
      BY <2>4, <2>5 DEF PolicyIsForest
<1>3. ASSUME \/ LedgerNext
             \/ \E t \in Tenants, m \in QuotaSizes : AddQuota(t, m)
             \/ UNCHANGED vars
      PROVE  UNCHANGED parent
    BY <1>3 DEF LedgerNext, TryReserve, Release, AddQuota, vars, policyVars
<1>. QED
    BY <1>1, <1>2, <1>3 DEF CarefulNext, CarefulPolicyNext

\* Under a careful operator PolicyIsForest holds in every reachable state, so no
\* check of a quota or of a rate limit fails to return.
THEOREM CarefulPolicyIsForest == CarefulSpec => []PolicyIsForest
<1>. DEFINE Inv == QuotaTypeOK /\ ParentsRegistered /\ PolicyIsForest
<1>1. Init => Inv
  <2>. SUFFICES ASSUME Init
                PROVE  ParentsRegistered /\ PolicyIsForest
      BY QuotaTypeInit
  <2>1. Registered = {}
      BY DEF Init, PolicyInit, Registered
  <2>2. \A t \in Tenants : t \in Ancestors(t)
      BY DEF Ancestors
  <2>. QED
      BY <2>1, <2>2 DEF ParentsRegistered, PolicyIsForest, ChainEnds
<1>2. Inv /\ [CarefulNext]_vars => Inv'
    BY QuotaTypeStep, ParentsStep, ForestStep, CarefulIsAllowed
<1>. QED
    BY <1>1, <1>2, PTL DEF CarefulSpec

\* Under a careful operator QuotaRespected holds in every reachable state: for
\* every hierarchy and every sequence of reservations and releases, no subtree
\* ever holds more GPUs than its quota.
THEOREM CarefulQuotaRespected == CarefulSpec => []QuotaRespected
<1>. DEFINE Inv == QuotaTypeOK /\ ParentsRegistered /\ QuotaRespected
<1>1. Init => Inv
    BY QuotaTypeInit DEF Init, PolicyInit, ParentsRegistered, QuotaRespected, Registered
<1>2. ASSUME Inv, [CarefulNext]_vars
      PROVE  QuotaRespected'
  <2>1. DOMAIN max_gpus \subseteq Tenants /\ \A a \in DOMAIN max_gpus : max_gpus[a] \in Nat
      BY <1>2 DEF QuotaTypeOK, PolicyTypeOK
  <2>2. QuotaTypeOK'
      BY <1>2, QuotaTypeStep, CarefulIsAllowed
  <2>3. \A a \in Tenants : SubtreeUsage(a) \in Nat
      BY <1>2, UsageIsNat
  <2>4. \A a \in Tenants : SubtreeUsage(a)' \in Nat
    <3>1. (QuotaTypeOK => \A b \in Tenants : SubtreeUsage(b) \in Nat)'
        BY UsageIsNat, PTL
    <3>. QED
        BY <2>2, <3>1
  <2>5. ASSUME NEW t \in Tenants, NEW n \in GpuCounts, TryReserve(t, n)
        PROVE  QuotaRespected'
    <3>1. max_gpus' = max_gpus
        BY <2>5 DEF TryReserve, policyVars
    <3>2. \A a \in DOMAIN max_gpus : \/ SubtreeUsage(a)' <= max_gpus'[a]
                                     \/ SubtreeUsage(a)' = SubtreeUsage(a)
        BY <1>2, <2>5, ReserveKeepsCeilings
    <3>. QED
        BY <1>2, <3>1, <3>2 DEF QuotaRespected
  <2>6. ASSUME \A a \in Tenants : SubtreeUsage(a)' <= SubtreeUsage(a), UNCHANGED max_gpus
        PROVE  QuotaRespected'
      BY <1>2, <2>1, <2>3, <2>4, <2>6 DEF QuotaRespected
  <2>7. ASSUME NEW t \in Tenants, NEW n \in GpuCounts, Release(t, n)
        PROVE  QuotaRespected'
      BY <1>2, <2>6, <2>7, ReleaseLowersUsage DEF Release, policyVars
  <2>8. ASSUME NEW t \in Tenants, NEW p \in Tenants \cup {NoParent},
               NewTenant(t), AddTenant(t, p), UNCHANGED usage
        PROVE  QuotaRespected'
      BY <1>2, <2>6, <2>8, NewTenantAddsNothing DEF AddTenant
  <2>9. ASSUME UNCHANGED <<parent, usage>>
        PROVE  \A a \in Tenants : SubtreeUsage(a)' = SubtreeUsage(a)
      BY <2>9 DEF SubtreeUsage, ChargedTo, Subtree, Descendants, ClosedDownwards,
                  children_of, Registered
  <2>10. ASSUME NEW t \in Tenants, NEW m \in QuotaSizes, CoversUsage(t, m),
                AddQuota(t, m), UNCHANGED usage
         PROVE  QuotaRespected'
    <3>1. /\ max_gpus' = [x \in DOMAIN max_gpus \cup {t} |->
                              IF x = t THEN m ELSE max_gpus[x]]
          /\ \A a \in Tenants : SubtreeUsage(a)' = SubtreeUsage(a)
        BY <2>9, <2>10 DEF AddQuota
    <3>2. \A a \in DOMAIN max_gpus' : SubtreeUsage(a) <= max_gpus'[a] /\ a \in Tenants
        BY <1>2, <2>1, <2>10, <3>1 DEF QuotaRespected, CoversUsage
    <3>. QED
        BY <3>1, <3>2 DEF QuotaRespected
  <2>11. ASSUME UNCHANGED vars
         PROVE  QuotaRespected'
      BY <1>2, <2>1, <2>9, <2>11 DEF vars, policyVars, QuotaRespected
  <2>. QED
      BY <1>2, <2>5, <2>7, <2>8, <2>10, <2>11
         DEF CarefulNext, CarefulPolicyNext, LedgerNext
<1>3. Inv /\ [CarefulNext]_vars => Inv'
    BY <1>2, QuotaTypeStep, ParentsStep, CarefulIsAllowed
<1>. QED
    BY <1>1, <1>3, PTL DEF CarefulSpec

-----------------------------------------------------------------------------
(* Guaranteed shares.                                                      *)

\* The pairs of a tenant and a number up to its limit are finitely many.
LEMMA CellsAreFinite ==
    ASSUME NEW C, IsFiniteSet(C), NEW limit, \A c \in C : limit[c] \in Nat
    PROVE  IsFiniteSet(UNION {{c} \X (1..limit[c]) : c \in C})
<1>. DEFINE rows == {{c} \X (1..limit[c]) : c \in C}
            row == [c \in C |-> {c} \X (1..limit[c])]
<1>1. IsFiniteSet(rows)
  <2>1. row \in Surjection(C, rows)
      BY DEF Surjection
  <2>. QED
      BY <2>1, FS_Surjection
<1>2. ASSUME NEW c \in C
      PROVE  IsFiniteSet({c} \X (1..limit[c]))
  <2>. DEFINE numbers == 1..limit[c]
  <2>1. IsFiniteSet(numbers)
      BY FS_Interval, limit[c] \in Int
  <2>2. IsFiniteSet({c})
      BY FS_Singleton
  <2>. HIDE DEF numbers
  <2>3. IsFiniteSet({c} \X numbers)
      BY <2>1, <2>2, FS_Product
  <2>. QED
      BY <2>3 DEF numbers
<1>. QED
    BY <1>1, <1>2, FS_UNION

\* Parts that are each within a limit of their own, one with n to spare, are together
\* within the sum of the limits with n to spare.
LEMMA PartsFit ==
    ASSUME NEW C, IsFiniteSet(C), NEW limit, \A c \in C : limit[c] \in Nat,
           NEW part, \A c \in C : IsFiniteSet(part[c]) /\ Cardinality(part[c]) <= limit[c],
           NEW x \in C, NEW n \in Nat, Cardinality(part[x]) + n <= limit[x]
    PROVE  Cardinality(UNION {part[c] : c \in C}) + n
             <= Cardinality(UNION {{c} \X (1..limit[c]) : c \in C})
<1>. DEFINE size(c) == Cardinality(part[c])
            cells == UNION {{c} \X (1..limit[c]) : c \in C}
            taken == UNION {{c} \X (1..size(c)) : c \in C}
            spare == {x} \X ((size(x) + 1)..(size(x) + n))
            whole == UNION {part[c] : c \in C}
            number == [c \in C |-> CHOOSE f : f \in Bijection(1..size(c), part[c])]
            at == [e \in taken |-> number[e[1]][e[2]]]
<1>1. \A c \in C : size(c) \in Nat /\ number[c] \in Bijection(1..size(c), part[c])
  <2>. TAKE c \in C
  <2>1. size(c) \in Nat /\ \E f : f \in Bijection(1..size(c), part[c])
      BY FS_CardinalityType DEF ExistsBijection
  <2>. QED
      BY <2>1
<1>2. IsFiniteSet(cells)
    BY CellsAreFinite
<1>3. IsFiniteSet(taken) /\ taken \subseteq cells
  <2>1. ASSUME NEW c \in C
        PROVE  {c} \X (1..size(c)) \subseteq {c} \X (1..limit[c])
    <3>1. size(c) \in Nat /\ size(c) <= limit[c] /\ limit[c] \in Nat
        BY <1>1
    <3>. HIDE DEF size
    <3>2. 1..size(c) \subseteq 1..limit[c]
        BY <3>1
    <3>. QED
        BY <3>2
  <2>2. taken \subseteq cells
    <3>. HIDE DEF size
    <3>. QED
        BY <2>1
  <2>. QED
      BY <1>2, <2>2, FS_Subset
<1>4. Cardinality(whole) <= Cardinality(taken)
  <2>1. \A e \in taken : \E c \in C : \E i \in 1..size(c) : e = <<c, i>>
      OBVIOUS
  <2>2. \A c \in C : \A i \in 1..size(c) :
            <<c, i>> \in taken /\ at[<<c, i>>] = number[c][i] /\ number[c][i] \in part[c]
    <3>. SUFFICES ASSUME NEW c \in C, NEW i \in 1..size(c)
                  PROVE  /\ <<c, i>> \in taken /\ at[<<c, i>>] = number[c][i]
                         /\ number[c][i] \in part[c]
        OBVIOUS
    <3>1. <<c, i>> \in taken
        OBVIOUS
    <3>2. at[<<c, i>>] = number[c][i]
      <4>. HIDE DEF taken, number
      <4>. QED
          BY <3>1
    <3>3. number[c] \in [1..size(c) -> part[c]]
        BY <1>1 DEF Bijection, Injection
    <3>. QED
        BY <3>1, <3>2, <3>3
  <2>3. at \in [taken -> whole]
    <3>. SUFFICES ASSUME NEW e \in taken
                  PROVE  at[e] \in whole
        OBVIOUS
    <3>1. PICK c \in C : \E i \in 1..size(c) : e = <<c, i>>
        BY <2>1
    <3>2. PICK i \in 1..size(c) : e = <<c, i>>
        BY <3>1
    <3>3. at[e] \in part[c]
        BY <2>2, <3>2
    <3>. QED
        BY <3>3
  <2>4. ASSUME NEW y \in whole
        PROVE  \E e \in taken : at[e] = y
    <3>1. PICK c \in C : y \in part[c]
        OBVIOUS
    <3>2. PICK i \in 1..size(c) : number[c][i] = y
        BY <1>1, <3>1 DEF Bijection, Surjection
    <3>3. <<c, i>> \in taken /\ at[<<c, i>>] = y
        BY <2>2, <3>2
    <3>. HIDE DEF at, taken
    <3>. QED
        BY <3>3
  <2>5. at \in Surjection(taken, whole)
    <3>. HIDE DEF at, taken, whole
    <3>. QED
        BY <2>3, <2>4 DEF Surjection
  <2>. HIDE DEF at, taken, whole
  <2>. QED
      BY <1>3, <2>5, FS_Surjection
<1>5. IsFiniteSet(spare) /\ Cardinality(spare) = n
  <2>. DEFINE numbers == (size(x) + 1)..(size(x) + n)
  <2>1. IsFiniteSet({x}) /\ Cardinality({x}) = 1
      BY FS_Singleton
  <2>2. IsFiniteSet(numbers) /\ Cardinality(numbers) = n
    <3>1. size(x) \in Nat
        BY <1>1
    <3>. HIDE DEF size
    <3>. QED
        BY <3>1, IntervalLength
  <2>3. IsFiniteSet({x} \X numbers) /\ Cardinality({x} \X numbers) = 1 * n
    <3>. HIDE DEF numbers
    <3>. QED
        BY <2>1, <2>2, FS_Product
  <2>. QED
      BY <2>3
<1>6. taken \cap spare = {} /\ taken \cup spare \subseteq cells
  <2>1. spare \subseteq cells
    <3>1. size(x) \in Nat /\ size(x) + n <= limit[x] /\ limit[x] \in Nat
        BY <1>1
    <3>. HIDE DEF size
    <3>2. (size(x) + 1)..(size(x) + n) \subseteq 1..limit[x]
        BY <3>1
    <3>. QED
        BY <3>2
  <2>2. ASSUME NEW e \in taken, e \in spare
        PROVE  FALSE
    <3>1. PICK c \in C : e \in {c} \X (1..size(c))
        OBVIOUS
    <3>2. c = x /\ e[2] \in 1..size(x) /\ e[2] \in (size(x) + 1)..(size(x) + n)
        BY <2>2, <3>1
    <3>3. size(x) \in Nat /\ n \in Nat
        BY <1>1
    <3>. HIDE DEF size
    <3>. QED
        BY <3>2, <3>3
  <2>. QED
      BY <1>3, <2>1, <2>2
<1>7. Cardinality(taken) + n <= Cardinality(cells)
  <2>. HIDE DEF taken, spare, cells
  <2>1. Cardinality(taken \cup spare) = Cardinality(taken) + n
      BY <1>3, <1>5, <1>6, DisjointUnion
  <2>2. Cardinality(taken \cup spare) <= Cardinality(cells)
      BY <1>2, <1>6, FS_Subset
  <2>. QED
      BY <2>1, <2>2
<1>8. Cardinality(whole) \in Nat /\ Cardinality(taken) \in Nat /\ Cardinality(cells) \in Nat
  <2>1. IsFiniteSet(whole)
    <3>. DEFINE parts == {part[c] : c \in C}
                pick == [c \in C |-> part[c]]
    <3>1. pick \in Surjection(C, parts)
        BY DEF Surjection
    <3>2. IsFiniteSet(parts)
        BY <3>1, FS_Surjection
    <3>3. \A P \in parts : IsFiniteSet(P)
        OBVIOUS
    <3>. QED
        BY <3>2, <3>3, FS_UNION
  <2>. HIDE DEF whole, taken, cells
  <2>. QED
      BY <1>2, <1>3, <2>1, FS_CardinalityType
<1>. HIDE DEF whole, taken, cells
<1>. QED
    BY <1>4, <1>7, <1>8 DEF whole, cells

\* Where a tenant is charged nothing itself and its quota covers those of its
\* children, it has room for what a child has room for (quotas.py:40-50).
LEMMA ParentHasRoom ==
    ASSUME QuotaTypeOK, QuotaRespected, NEW p \in DOMAIN max_gpus, NEW x \in children_of(p),
           usage[p] = 0, children_of(p) \subseteq DOMAIN max_gpus,
           Cardinality(Shares(p)) <= max_gpus[p],
           NEW n \in Nat, WithinQuota(x, n)
    PROVE  WithinQuota(p, n)
<1>. DEFINE C == children_of(p)
            part == [c \in C |-> ChargedTo(Subtree(c))]
<1>1. PolicyTypeOK /\ p \in Tenants /\ C \in SUBSET Tenants /\ IsFiniteSet(C)
  <2>1. PolicyTypeOK /\ p \in Tenants /\ C \subseteq Tenants
      BY DEF QuotaTypeOK, PolicyTypeOK, children_of
  <2>. QED
      BY <2>1, PolicyAssumption, FS_Subset DEF PolicyAssumption
<1>2. \A c \in C : max_gpus[c] \in Nat
    BY DEF QuotaTypeOK, PolicyTypeOK
<1>3. \A c \in C : IsFiniteSet(part[c]) /\ Cardinality(part[c]) <= max_gpus[c]
    BY <1>1, SubtreeIsLeast, ChargedIsFinite DEF QuotaRespected, SubtreeUsage
<1>4. Cardinality(part[x]) + n <= max_gpus[x]
    BY DEF WithinQuota, SubtreeUsage
<1>5. Cardinality(UNION {part[c] : c \in C}) + n <= Cardinality(Shares(p))
  <2>1. Cardinality(UNION {part[c] : c \in C}) + n
          <= Cardinality(UNION {{c} \X (1..max_gpus[c]) : c \in C})
    <3>. HIDE DEF part, C
    <3>1. x \in C
        BY DEF C
    <3>. QED
        BY <1>1, <1>2, <1>3, <1>4, <3>1, PartsFit
  <2>. QED
      BY <2>1 DEF Shares
<1>6. Subtree(p) \subseteq {p} \cup UNION {Subtree(c) : c \in C}
  <2>. DEFINE S == {p} \cup UNION {Subtree(c) : c \in C}
  <2>1. \A c \in C : c \in Subtree(c) /\ Subtree(c) \subseteq Tenants /\ ClosedDownwards(Subtree(c))
      BY <1>1, SubtreeIsLeast
  <2>2. ClosedDownwards(S)
    <3>1. ASSUME NEW y \in S
          PROVE  children_of(y) \subseteq S
      <4>1. CASE y = p
          BY <2>1, <4>1
      <4>2. ASSUME NEW c \in C, y \in Subtree(c)
            PROVE  children_of(y) \subseteq S
          BY <2>1, <4>2 DEF ClosedDownwards
      <4>. QED
          BY <4>1, <4>2
    <3>. QED
        BY <3>1 DEF ClosedDownwards
  <2>3. S \in SUBSET Tenants /\ p \in S
      BY <1>1, <2>1
  <2>. HIDE DEF S
  <2>4. Subtree(p) \subseteq S
      BY <1>1, <2>2, <2>3, SubtreeIsLeast
  <2>. QED
      BY <2>4 DEF S
<1>7. ChargedTo(Subtree(p)) \subseteq UNION {part[c] : c \in C}
  <2>1. ASSUME NEW d \in Subtree(p), NEW i \in 1..usage[d]
        PROVE  \E c \in C : <<d, i>> \in part[c]
    <3>1. d # p
        BY <2>1
    <3>2. PICK c \in C : d \in Subtree(c)
        BY <1>6, <3>1
    <3>. QED
        BY <3>2 DEF ChargedTo
  <2>2. \A e \in ChargedTo(Subtree(p)) : \E d \in Subtree(p) : \E i \in 1..usage[d] : e = <<d, i>>
      BY DEF ChargedTo
  <2>. QED
      BY <2>1, <2>2
<1>8. /\ Cardinality(ChargedTo(Subtree(p))) <= Cardinality(UNION {part[c] : c \in C})
      /\ Cardinality(ChargedTo(Subtree(p))) \in Nat
      /\ Cardinality(UNION {part[c] : c \in C}) \in Nat
  <2>1. UNION {part[c] : c \in C} = ChargedTo(UNION {Subtree(c) : c \in C})
      BY DEF ChargedTo
  <2>2. UNION {Subtree(c) : c \in C} \in SUBSET Tenants /\ Subtree(p) \in SUBSET Tenants
      BY <1>1, SubtreeIsLeast
  <2>. QED
      BY <1>7, <2>1, <2>2, ChargedIsFinite, ChargedIsMonotone
<1>9. Cardinality(Shares(p)) \in Nat /\ max_gpus[p] \in Nat
  <2>1. IsFiniteSet(Shares(p))
      BY <1>1, <1>2, CellsAreFinite DEF Shares
  <2>. QED
      BY <2>1, FS_CardinalityType DEF QuotaTypeOK, PolicyTypeOK
<1>. QED
    BY <1>5, <1>8, <1>9 DEF WithinQuota, SubtreeUsage

\* Where a tenant has room, and a strict partition begins above it, every ancestor
\* has room.
LEMMA RoomAbove ==
    ASSUME QuotaTypeOK, QuotaRespected, NEW x \in Registered, NEW n \in Nat, WithinQuota(x, n),
           parent[x] = NoParent \/ StrictlyPartitioned(parent[x])
    PROVE  HasCapacity(x, n)
<1>1. PolicyTypeOK /\ x \in Tenants
    BY DEF QuotaTypeOK, PolicyTypeOK
<1>2. CASE parent[x] = NoParent
  <2>1. ClosedUpwards({x})
      BY <1>2 DEF ClosedUpwards
  <2>2. Ancestors(x) \subseteq {x}
      BY <1>1, <2>1, AncestorsAreLeast
  <2>. QED
      BY <2>2 DEF HasCapacity
<1>3. CASE parent[x] # NoParent
  <2>. DEFINE p == parent[x]
              S == {x} \cup {a \in Ancestors(p) : WithinQuota(a, n)}
  <2>1. p \in Tenants /\ StrictlyPartitioned(p)
      BY <1>1, <1>3 DEF PolicyTypeOK
  <2>2. p \in Ancestors(p) /\ Ancestors(p) \subseteq Tenants /\ ClosedUpwards(Ancestors(p))
      BY <1>1, <2>1, AncestorsAreLeast
  <2>3. ASSUME NEW y \in Registered, parent[y] \in Ancestors(p), WithinQuota(y, n)
        PROVE  parent[y] \in S
    <3>. DEFINE q == parent[y]
    <3>1. y \in children_of(q)
        BY DEF children_of
    <3>2. /\ q \in DOMAIN max_gpus /\ usage[q] = 0 /\ children_of(q) \subseteq DOMAIN max_gpus
          /\ Cardinality(Shares(q)) <= max_gpus[q]
        BY <2>1, <2>3, <3>1 DEF StrictlyPartitioned
    <3>3. WithinQuota(q, n)
      <4>. HIDE DEF q
      <4>. QED
          BY <2>3, <3>1, <3>2, ParentHasRoom
    <3>. QED
        BY <2>3, <3>3
  <2>4. ASSUME NEW y \in S \cap Registered, parent[y] # NoParent
        PROVE  parent[y] \in S
    <3>1. WithinQuota(y, n) /\ parent[y] \in Ancestors(p)
        BY <2>2, <2>4 DEF ClosedUpwards
    <3>. QED
        BY <2>3, <3>1
  <2>5. ClosedUpwards(S) /\ x \in S /\ S \in SUBSET Tenants
      BY <1>1, <2>2, <2>4 DEF ClosedUpwards
  <2>6. Ancestors(x) \subseteq S
    <3>. HIDE DEF S
    <3>. QED
        BY <1>1, <2>5, AncestorsAreLeast
  <2>. QED
      BY <2>6 DEF HasCapacity
<1>. QED
    BY <1>2, <1>3

\* The GPUs charged to one tenant.
LEMMA OneTenantCharged ==
    ASSUME QuotaTypeOK, NEW t \in Tenants
    PROVE  Cardinality(ChargedTo({t})) = usage[t]
<1>. DEFINE numbers == 1..usage[t]
<1>1. ChargedTo({t}) = {t} \X numbers
    BY DEF ChargedTo
<1>2. usage[t] \in Nat
    BY DEF QuotaTypeOK
<1>3. IsFiniteSet(numbers) /\ Cardinality(numbers) = usage[t]
    BY <1>2, FS_Interval
<1>4. IsFiniteSet({t}) /\ Cardinality({t}) = 1
    BY FS_Singleton
<1>. HIDE DEF numbers
<1>5. Cardinality({t} \X numbers) = 1 * usage[t]
    BY <1>3, <1>4, FS_Product
<1>6. 1 * usage[t] = usage[t]
    BY <1>2
<1>. QED
    BY <1>1, <1>5, <1>6

\* A tenant without children is charged what its subtree is charged.
LEMMA LeafUsage ==
    ASSUME QuotaTypeOK, NEW t \in Tenants, children_of(t) = {}
    PROVE  SubtreeUsage(t) = usage[t]
<1>1. Subtree(t) = {t}
  <2>1. ClosedDownwards({t})
      BY DEF ClosedDownwards
  <2>. QED
      BY <2>1, SubtreeIsLeast DEF QuotaTypeOK
<1>. QED
    BY <1>1, OneTenantCharged DEF SubtreeUsage

\* A child's subtree is charged no more than its parent's.
LEMMA ChildUsesLess ==
    ASSUME QuotaTypeOK, NEW p \in Tenants, NEW t \in children_of(p)
    PROVE  SubtreeUsage(t) <= SubtreeUsage(p)
<1>1. PolicyTypeOK /\ t \in Tenants
    BY DEF QuotaTypeOK, PolicyTypeOK, children_of
<1>2. Subtree(p) \in SUBSET Tenants /\ ClosedDownwards(Subtree(p)) /\ p \in Subtree(p)
    BY <1>1, SubtreeIsLeast
<1>3. Subtree(t) \subseteq Subtree(p)
  <2>1. t \in Subtree(p)
      BY <1>2 DEF ClosedDownwards
  <2>. QED
      BY <1>1, <1>2, <2>1, SubtreeIsLeast
<1>4. ChargedTo(Subtree(t)) \subseteq ChargedTo(Subtree(p))
    BY <1>3 DEF ChargedTo
<1>. QED
    BY <1>2, <1>4, ChargedIsMonotone DEF SubtreeUsage

\* SharesGuaranteed holds in every reachable state under a careful operator: in a
\* strict partition of any depth and width, a user whose own quota has room is never
\* refused because of what its siblings hold.
THEOREM SharesAreGuaranteed == CarefulSpec => []SharesGuaranteed
<1>1. ASSUME QuotaTypeOK, QuotaRespected
      PROVE  SharesGuaranteed
  <2>. SUFFICES ASSUME NEW t \in Registered, NEW n \in GpuCounts, StrictlyPartitioned(t),
                       children_of(t) = {}, usage[t] + n <= max_gpus[t]
                PROVE  HasCapacity(t, n)
      BY DEF SharesGuaranteed
  <2>1. PolicyTypeOK /\ t \in Tenants /\ n \in Nat
      BY <1>1, QuotaAssumption DEF QuotaTypeOK, PolicyTypeOK, QuotaAssumption
  <2>2. WithinQuota(t, n)
      BY <1>1, <2>1, LeafUsage DEF WithinQuota
  <2>3. ASSUME parent[t] # NoParent
        PROVE  StrictlyPartitioned(parent[t])
    <3>1. parent[t] \in Tenants
        BY <2>1, <2>3 DEF PolicyTypeOK
    <3>2. ClosedUpwards(Ancestors(t)) /\ parent[t] \in Ancestors(t) /\ Ancestors(t) \subseteq Tenants
        BY <2>1, <2>3, AncestorsAreLeast DEF ClosedUpwards
    <3>3. Ancestors(parent[t]) \subseteq Ancestors(t)
        BY <2>1, <3>1, <3>2, AncestorsAreLeast
    <3>. QED
        BY <3>3 DEF StrictlyPartitioned
  <2>. QED
      BY <1>1, <2>1, <2>2, <2>3, RoomAbove
<1>. QED
    BY <1>1, CarefulTypeCorrect, CarefulQuotaRespected, PTL

\* TeamIsTheLimiter holds in every reachable state under a careful operator: users
\* with ceilings as high as their team's are refused exactly when the team is full.
THEOREM TeamsLimit == CarefulSpec => []TeamIsTheLimiter
<1>1. ASSUME QuotaTypeOK, QuotaRespected
      PROVE  TeamIsTheLimiter
  <2>. SUFFICES ASSUME NEW t \in Registered, NEW team \in {parent[t]} \ {NoParent},
                       NEW n \in GpuCounts,
                       children_of(t) = {}, {t, team} \subseteq DOMAIN max_gpus,
                       max_gpus[t] >= max_gpus[team],
                       parent[team] = NoParent \/ StrictlyPartitioned(parent[team])
                PROVE  HasCapacity(t, n) <=> SubtreeUsage(team) + n <= max_gpus[team]
      BY DEF TeamIsTheLimiter
  <2>1. /\ PolicyTypeOK /\ t \in Tenants /\ n \in Nat /\ team \in Tenants /\ team \in Registered
        /\ t \in children_of(team)
        /\ max_gpus[t] \in Nat /\ max_gpus[team] \in Nat
      BY <1>1, QuotaAssumption DEF QuotaTypeOK, PolicyTypeOK, QuotaAssumption, children_of
  <2>2. /\ t \in Ancestors(t) /\ ClosedUpwards(Ancestors(t)) /\ Ancestors(t) \subseteq Tenants
        /\ team \in Ancestors(team) /\ ClosedUpwards(Ancestors(team))
        /\ Ancestors(team) \subseteq Tenants
      BY <2>1, AncestorsAreLeast
  <2>3. ASSUME HasCapacity(t, n)
        PROVE  SubtreeUsage(team) + n <= max_gpus[team]
    <3>1. team \in Ancestors(t)
        BY <2>2 DEF ClosedUpwards
    <3>. QED
        BY <2>3, <3>1 DEF HasCapacity, WithinQuota
  <2>4. ASSUME SubtreeUsage(team) + n <= max_gpus[team]
        PROVE  HasCapacity(t, n)
    <3>1. HasCapacity(team, n)
        BY <1>1, <2>1, <2>4, RoomAbove DEF WithinQuota
    <3>2. WithinQuota(t, n)
      <4>1. SubtreeUsage(t) <= SubtreeUsage(team)
          BY <1>1, <2>1, ChildUsesLess
      <4>2. SubtreeUsage(t) \in Nat /\ SubtreeUsage(team) \in Nat
          BY <1>1, <2>1, UsageIsNat
      <4>. QED
          BY <2>1, <2>4, <4>1, <4>2 DEF WithinQuota
    <3>3. Ancestors(t) \subseteq {t} \cup Ancestors(team)
      <4>. DEFINE S == {t} \cup Ancestors(team)
      <4>1. ClosedUpwards(S) /\ t \in S /\ S \in SUBSET Tenants
          BY <2>1, <2>2 DEF ClosedUpwards
      <4>. HIDE DEF S
      <4>2. Ancestors(t) \subseteq S
          BY <2>1, <4>1, AncestorsAreLeast
      <4>. QED
          BY <4>2 DEF S
    <3>. QED
        BY <3>1, <3>2, <3>3 DEF HasCapacity
  <2>. QED
      BY <2>3, <2>4
<1>. QED
    BY <1>1, CarefulTypeCorrect, CarefulQuotaRespected, PTL

-----------------------------------------------------------------------------
(* Lists without repetitions.                                              *)

\* The members of S, one after the other.
Lists(s, S) == s \in Seq(S) /\ IsInjective(s) /\ ToSet(s) = S

\* A list is as long as there are members.
LEMMA ListLength ==
    ASSUME NEW s, NEW S, Lists(s, S)
    PROVE  IsFiniteSet(S) /\ Len(s) = Cardinality(S)
<1>1. /\ Len(s) \in Nat /\ DOMAIN s = 1..Len(s) /\ s \in [1..Len(s) -> S]
    BY DEF Lists
<1>2. s \in Surjection(1..Len(s), S) /\ s \in Injection(1..Len(s), S)
    BY <1>1 DEF Lists, ToSet, Injection, Surjection
<1>3. IsFiniteSet(1..Len(s)) /\ Cardinality(1..Len(s)) = Len(s)
    BY <1>1, FS_Interval
<1>. QED
    BY <1>2, <1>3, FS_Surjection

\* A finite set has a list.
LEMMA SetIsListed ==
    ASSUME NEW S, IsFiniteSet(S)
    PROVE  Lists(SetToSeq(S), S)
<1>. DEFINE n == Cardinality(S)
<1>1. n \in Nat /\ ExistsBijection(1..n, S)
    BY FS_CardinalityType
<1>2. PICK f \in [1..n -> S] : IsInjective(f)
    BY <1>1 DEF ExistsBijection, Bijection, Injection
<1>. DEFINE s == SetToSeq(S)
<1>3. s \in [1..n -> S] /\ IsInjective(s)
    BY <1>2 DEF SetToSeq
<1>. HIDE DEF s
<1>4. s \in Injection(1..n, S) /\ IsFiniteSet(1..n) /\ Cardinality(1..n) = n
    BY <1>1, <1>3, FS_Interval DEF Injection
<1>5. s \in Surjection(1..n, S)
    BY <1>4, FS_Injection
<1>6. s \in Seq(S)
    BY <1>1, <1>3
<1>7. ToSet(s) = S
    BY <1>3, <1>5 DEF ToSet, Surjection
<1>. QED
    BY <1>3, <1>6, <1>7 DEF Lists, s

LEMMA JoinedLists ==
    ASSUME NEW S, NEW T, NEW s, NEW u, Lists(s, S), Lists(u, T), S \cap T = {}
    PROVE  Lists(s \o u, S \cup T)
<1>. DEFINE m == Len(s)
            n == Len(u)
            w == s \o u
<1>1. /\ m \in Nat /\ n \in Nat /\ s \in Seq(S \cup T) /\ u \in Seq(S \cup T)
      /\ DOMAIN s = 1..m /\ DOMAIN u = 1..n
    BY DEF Lists
<1>2. /\ w \in Seq(S \cup T) /\ DOMAIN w = 1..(m + n)
      /\ \A i \in 1..m : w[i] = s[i]
      /\ \A i \in (m + 1)..(m + n) : w[i] = u[i - m]
    BY <1>1
<1>. HIDE DEF w, m, n
<1>3. /\ \A i \in 1..m : s[i] \in S
      /\ \A i \in 1..n : u[i] \in T
    BY <1>1 DEF Lists, ToSet
<1>4. \A i \in 1..(m + n) : i \in 1..m \/ (i \in (m + 1)..(m + n) /\ i - m \in 1..n)
    BY <1>1
<1>5. IsInjective(w)
  <2>. SUFFICES ASSUME NEW i \in 1..(m + n), NEW k \in 1..(m + n), w[i] = w[k]
                PROVE  i = k
      BY <1>2 DEF IsInjective
  <2>1. CASE i \in 1..m /\ k \in 1..m
      BY <1>1, <1>2, <2>1 DEF Lists, IsInjective
  <2>2. CASE i \notin 1..m /\ k \notin 1..m
    <3>1. u[i - m] = u[k - m] /\ i - m \in 1..n /\ k - m \in 1..n
        BY <1>2, <1>4, <2>2
    <3>2. i - m = k - m
        BY <1>1, <3>1 DEF Lists, IsInjective
    <3>. QED
        BY <1>1, <3>2
  <2>3. CASE i \in 1..m /\ k \notin 1..m
      BY <1>2, <1>3, <1>4, <2>3
  <2>4. CASE i \notin 1..m /\ k \in 1..m
      BY <1>2, <1>3, <1>4, <2>4
  <2>. QED
      BY <2>1, <2>2, <2>3, <2>4
<1>6. \A x \in S \cup T : \E i \in 1..(m + n) : w[i] = x
  <2>. TAKE x \in S \cup T
  <2>1. CASE x \in S
    <3>1. PICK i \in 1..m : s[i] = x
        BY <1>1, <2>1 DEF Lists, ToSet
    <3>2. i \in 1..(m + n)
        BY <1>1
    <3>. QED
        BY <1>2, <3>1, <3>2
  <2>2. CASE x \in T
    <3>1. PICK i \in 1..n : u[i] = x
        BY <1>1, <2>2 DEF Lists, ToSet
    <3>2. /\ m + i \in (m + 1)..(m + n) /\ m + i \in 1..(m + n)
          /\ (m + i) - m = i
        BY <1>1
    <3>. QED
        BY <1>2, <3>1, <3>2
  <2>. QED
      BY <2>1, <2>2
<1>7. \A i \in 1..(m + n) : w[i] \in S \cup T
    BY <1>2, <1>3, <1>4
<1>8. ToSet(w) = S \cup T
    BY <1>2, <1>6, <1>7 DEF ToSet
<1>. QED
    BY <1>2, <1>5, <1>8 DEF Lists, w

\* Lists of sets with nothing in common, one after the other, are a list of them all.
LEMMA ListsOfLists ==
    ASSUME NEW m \in Nat, NEW T, NEW seqs \in [1..m -> Seq(T)], NEW sets,
           \A i \in 1..m : Lists(seqs[i], sets[i]),
           \A i, k \in 1..m : i < k => sets[i] \cap sets[k] = {}
    PROVE  Lists(FlattenSeq(seqs), UNION {sets[i] : i \in 1..m})
<1>1. CASE m = 0
  <2>1. seqs = <<>> /\ Len(seqs) = 0
      BY <1>1
  <2>2. FlattenSeq(seqs) = <<>>
      BY <2>1 DEF FlattenSeq
  <2>3. UNION {sets[i] : i \in 1..m} = {}
      BY <1>1
  <2>4. Lists(<<>>, {})
      BY DEF Lists, IsInjective, ToSet
  <2>. QED
      BY <2>2, <2>3, <2>4
<1>2. CASE m # 0
  <2>. DEFINE S == Seq(T)
              step == [i \in 1..m |-> [s \in S |-> s \o seqs[i]]]
              Solves(f) == f = [i \in 1..m |-> IF i = 1 THEN seqs[i] ELSE f[i - 1] \o seqs[i]]
  <2>0. 1 \in 1..m /\ \A i \in 1..m : i # 1 => i - 1 \in 1..m
      BY <1>2
  <2>1. PICK f \in [1..m -> S] : Iterates(f, 1, m, seqs[1], step)
    <3>1. step \in [1..m -> [S -> S]] /\ seqs[1] \in S /\ 1 \in Nat /\ 1 <= m
        BY <1>2, <2>0
    <3>. HIDE DEF step, S
    <3>. QED
        BY <3>1, IterationExists
  <2>2. Solves(f)
    <3>1. \A i \in 1..m : i # 1 => step[i][f[i - 1]] = f[i - 1] \o seqs[i]
        BY <2>0, <2>1
    <3>2. f = [i \in 1..m |-> IF i = 1 THEN seqs[1] ELSE step[i][f[i - 1]]]
      <4>. HIDE DEF step
      <4>. QED
          BY <2>1 DEF Iterates
    <3>. HIDE DEF step
    <3>. QED
        BY <3>1, <3>2
  <2>. DEFINE g == CHOOSE h : Solves(h)
  <2>3. Solves(g)
    <3>. HIDE DEF Solves
    <3>. QED
        BY <2>2
  <2>4. FlattenSeq(seqs) = g[m]
    <3>1. Len(seqs) = m
        OBVIOUS
    <3>. QED
        BY <1>2, <3>1 DEF FlattenSeq
  <2>. HIDE DEF g
  <2>5. g[1] = seqs[1] /\ \A i \in 1..m : i # 1 => g[i] = g[i - 1] \o seqs[i]
      BY <2>0, <2>3
  <2>. DEFINE upto(i) == UNION {sets[k] : k \in 1..i}
              good == {i \in Nat : i + 1 <= m => Lists(g[i + 1], upto(i + 1))}
  <2>6. 0 \in good
    <3>1. upto(0 + 1) = sets[1]
        OBVIOUS
    <3>. HIDE DEF upto
    <3>. QED
        BY <2>0, <2>5, <3>1
  <2>7. ASSUME NEW j \in Nat, j \in good
        PROVE  j + 1 \in good
    <3>. DEFINE i == j + 1
    <3>. SUFFICES ASSUME i + 1 <= m
                  PROVE  Lists(g[i + 1], upto(i + 1))
        OBVIOUS
    <3>1. i \in 1..m /\ i + 1 \in 1..m /\ i + 1 # 1 /\ (i + 1) - 1 = i
        OBVIOUS
    <3>2. Lists(g[i], upto(i))
        BY <2>7, <3>1
    <3>. HIDE DEF i
    <3>3. g[i + 1] = g[i] \o seqs[i + 1]
        BY <2>5, <3>1
    <3>4. upto(i) \cap sets[i + 1] = {}
      <4>1. \A k \in 1..i : k \in 1..m /\ k < i + 1
          BY <3>1
      <4>2. \A k \in 1..i : sets[k] \cap sets[i + 1] = {}
          BY <3>1, <4>1
      <4>. QED
          BY <4>2
    <3>5. upto(i + 1) = upto(i) \cup sets[i + 1]
      <4>1. 1..(i + 1) = (1..i) \cup {i + 1}
          BY <3>1
      <4>. QED
          BY <4>1
    <3>. HIDE DEF upto
    <3>6. Lists(g[i] \o seqs[i + 1], upto(i) \cup sets[i + 1])
        BY <3>1, <3>2, <3>4, JoinedLists
    <3>. QED
        BY <3>3, <3>5, <3>6
  <2>8. \A j \in Nat : j \in good
    <3>. HIDE DEF good
    <3>. QED
        BY <2>6, <2>7, Induct
  <2>9. Lists(g[m], upto(m))
    <3>1. m - 1 \in Nat /\ (m - 1) + 1 = m
        BY <1>2
    <3>2. m - 1 \in good
        BY <2>8, <3>1
    <3>. HIDE DEF upto
    <3>. QED
        BY <3>1, <3>2
  <2>. QED
      BY <2>4, <2>9
<1>. QED
    BY <1>1, <1>2

-----------------------------------------------------------------------------
(* The loops.                                                              *)

LEMMA TurnsAreNumbers == Cardinality(Tenants) \in Nat /\ Turns = 0..Cardinality(Tenants)
BY PolicyAssumption, FS_CardinalityType DEF PolicyAssumption, Turns

\* ancestor_chain is at t first, and then at the parent of where it was.
LEMMA CurrentTurnByTurn ==
    ASSUME PolicyTypeOK, NEW t \in Tenants
    PROVE  /\ Current(t) \in [Turns -> Tenants \cup {NoParent}]
           /\ Current(t)[0] = t
           /\ \A n \in Turns : n + 1 \in Turns => Current(t)[n + 1] = ParentOf(Current(t)[n])
<1>. DEFINE S == Tenants \cup {NoParent}
            N == Cardinality(Tenants)
            up == [s \in S |-> ParentOf(s)]
            Solves(f) == f = [n \in Turns |-> IF n = 0 THEN t ELSE ParentOf(f[n - 1])]
<1>1. up \in [S -> S]
    BY DEF ParentOf, PolicyTypeOK
<1>2. PICK f \in [0..N -> S] : Iterates(f, 0, N, t, [n \in 0..N |-> up])
  <2>. DEFINE step == [n \in 0..N |-> up]
  <2>1. step \in [0..N -> [S -> S]] /\ t \in S /\ 0 \in Nat /\ N \in Nat /\ 0 <= N
      BY <1>1, TurnsAreNumbers
  <2>. HIDE DEF step, S, N
  <2>. QED
      BY <2>1, IterationExists DEF step
<1>3. \A n \in Turns : n # 0 => n - 1 \in 0..N
    BY TurnsAreNumbers
<1>4. Solves(f)
  <2>1. \A n \in Turns : n # 0 => up[f[n - 1]] = ParentOf(f[n - 1])
      BY <1>2, <1>3
  <2>2. f = [n \in Turns |-> IF n = 0 THEN t ELSE up[f[n - 1]]]
    <3>. HIDE DEF up
    <3>. QED
        BY <1>2, TurnsAreNumbers DEF Iterates
  <2>. HIDE DEF up, N
  <2>. QED
      BY <2>1, <2>2
<1>. DEFINE g == CHOOSE h : Solves(h)
<1>5. Solves(g)
  <2>. HIDE DEF Solves
  <2>. QED
      BY <1>4
<1>6. Current(t) = g
    BY DEF Current
<1>. HIDE DEF g
<1>7. DOMAIN g = Turns /\ \A n \in Turns : g[n] = IF n = 0 THEN t ELSE ParentOf(g[n - 1])
    BY <1>5
<1>8. g[0] = t
    BY <1>7, TurnsAreNumbers
<1>9. \A n \in Turns : n + 1 \in Turns => g[n + 1] = ParentOf(g[n])
    BY <1>7, TurnsAreNumbers
<1>10. \A n \in Turns : g[n] \in S
    BY <1>7 DEF ParentOf, PolicyTypeOK
<1>. QED
    BY <1>5, <1>6, <1>8, <1>9, <1>10

\* On a chain that ends no tenant comes twice.
LEMMA NoTenantComesTwice ==
    ASSUME PolicyTypeOK, NEW t \in Tenants, ChainEnds(t),
           NEW i \in Turns, NEW k \in Turns, i < k,
           \A n \in 0..k : Current(t)[n] # NoParent
    PROVE  Current(t)[i] # Current(t)[k]
<1>. DEFINE c == Current(t)
            S == {c[n] : n \in 0..(k - 1)}
<1>. SUFFICES ASSUME c[i] = c[k]
              PROVE  FALSE
    OBVIOUS
<1>0. Cardinality(Tenants) \in Nat /\ Turns = 0..Cardinality(Tenants)
    BY TurnsAreNumbers
<1>1. /\ c \in [Turns -> Tenants \cup {NoParent}]
      /\ c[0] = t
      /\ \A n \in Turns : n + 1 \in Turns => c[n + 1] = ParentOf(c[n])
    BY CurrentTurnByTurn
<1>2. S \subseteq Tenants /\ t \in S
  <2>1. \A n \in 0..(k - 1) : n \in Turns /\ c[n] # NoParent
      BY <1>0
  <2>. HIDE DEF c
  <2>2. t = c[0] /\ 0 \in 0..(k - 1)
      BY <1>0, <1>1
  <2>. QED
      BY <1>1, <2>1, <2>2
<1>. HIDE DEF c
<1>3. \A x \in S : x \in Registered /\ parent[x] # NoParent /\ parent[x] \in S
  <2>. TAKE x \in S
  <2>. PICK n \in 0..(k - 1) : x = c[n]
      OBVIOUS
  <2>1. n \in Turns /\ n + 1 \in Turns /\ n + 1 \in 0..k
      BY <1>0
  <2>2. c[n + 1] = ParentOf(c[n]) /\ c[n + 1] # NoParent
      BY <1>1, <2>1 DEF c
  <2>3. c[n] \in Registered /\ parent[c[n]] = c[n + 1]
      BY <2>2 DEF ParentOf
  <2>4. c[n + 1] \in S
    <3>1. CASE n + 1 = k
        BY <1>0, <3>1
    <3>2. CASE n + 1 # k
      <4>1. n + 1 \in 0..(k - 1)
          BY <1>0, <3>2
      <4>. QED
          BY <4>1
    <3>. QED
        BY <3>1, <3>2
  <2>. QED
      BY <2>2, <2>3, <2>4
<1>4. ClosedUpwards(S)
    BY <1>3 DEF ClosedUpwards
<1>5. Ancestors(t) \subseteq S
  <2>. HIDE DEF S
  <2>. QED
      BY <1>2, <1>4, AncestorsAreLeast
<1>. QED
    BY <1>3, <1>5 DEF ChainEnds

\* There are more turns than tenants.
LEMMA SomeTurnsAgree ==
    ASSUME NEW f \in [Turns -> Tenants]
    PROVE  \E i, k \in Turns : i < k /\ f[i] = f[k]
<1>0. Cardinality(Tenants) \in Nat /\ Turns = 0..Cardinality(Tenants) /\ IsFiniteSet(Tenants)
    BY TurnsAreNumbers, PolicyAssumption DEF PolicyAssumption
<1>1. IsFiniteSet(Turns) /\ Cardinality(Turns) = Cardinality(Tenants) + 1
    BY <1>0, FS_Interval
<1>2. PICK i \in Turns, k \in Turns : i # k /\ f[i] = f[k]
    BY <1>0, <1>1, FS_PigeonHole
<1>. QED
    BY <1>0, <1>2

\* A loop whose last state is among the states ends at the first that is the last.
LEMMA LoopEnds ==
    ASSUME NEW states, NEW last, NEW n \in Turns, states[n] = last
    PROVE  /\ TurnsUntil(states, last) \in Turns
           /\ states[TurnsUntil(states, last)] = last
           /\ \A m \in 0..(TurnsUntil(states, last) - 1) : m \in Turns /\ states[m] # last
<1>. DEFINE ends == {m \in Turns : states[m] = last}
<1>0. Cardinality(Tenants) \in Nat /\ Turns = 0..Cardinality(Tenants)
    BY TurnsAreNumbers
<1>1. PICK k \in ends : \A m \in ends : k <= m
  <2>1. ends \in SUBSET Nat /\ ends # {}
      BY <1>0
  <2>. HIDE DEF ends
  <2>. QED
      BY <2>1, LeastNumber
<1>2. \A m \in 0..(k - 1) : m \in Turns /\ states[m] # last
    BY <1>0, <1>1
<1>3. /\ TurnsUntil(states, last) \in Turns
      /\ states[TurnsUntil(states, last)] = last
      /\ \A m \in 0..(TurnsUntil(states, last) - 1) : states[m] # last
    BY <1>1, <1>2 DEF TurnsUntil
<1>. QED
    BY <1>0, <1>3

\* ancestor_chain is the list of the ancestors, when it ends.
LEMMA ChainListsAncestors ==
    ASSUME PolicyTypeOK, NEW t \in Tenants, ChainEnds(t)
    PROVE  Lists(ancestor_chain(t), Ancestors(t))
<1>. DEFINE c == Current(t)
            L == TurnsUntil(c, NoParent)
            R == {c[n] : n \in 0..(L - 1)}
<1>0. Cardinality(Tenants) \in Nat /\ Turns = 0..Cardinality(Tenants)
    BY TurnsAreNumbers
<1>1. /\ c \in [Turns -> Tenants \cup {NoParent}]
      /\ c[0] = t
      /\ \A n \in Turns : n + 1 \in Turns => c[n + 1] = ParentOf(c[n])
    BY CurrentTurnByTurn
<1>2. \A i, k \in Turns : i < k /\ (\A n \in 0..k : c[n] # NoParent) => c[i] # c[k]
    BY NoTenantComesTwice
<1>3. ancestor_chain(t) = [i \in 1..L |-> c[i - 1]]
    BY DEF ancestor_chain
<1>4. t # NoParent
    BY PolicyAssumption DEF PolicyAssumption
<1>. HIDE DEF c
<1>5. PICK last \in Turns : c[last] = NoParent
  <2>. SUFFICES ASSUME \A n \in Turns : c[n] # NoParent
                PROVE  FALSE
      OBVIOUS
  <2>1. c \in [Turns -> Tenants]
      BY <1>1
  <2>2. PICK i \in Turns, k \in Turns : i < k /\ c[i] = c[k]
      BY <2>1, SomeTurnsAgree
  <2>3. \A n \in 0..k : n \in Turns
      BY <1>0
  <2>. QED
      BY <1>2, <2>2, <2>3
<1>6. /\ L \in Turns /\ c[L] = NoParent
      /\ \A m \in 0..(L - 1) : m \in Turns /\ c[m] # NoParent
    BY <1>5, LoopEnds
<1>. HIDE DEF L
<1>7. L \in Nat /\ L # 0
    BY <1>0, <1>1, <1>4, <1>6
<1>8. R \subseteq Tenants /\ t \in R
    BY <1>1, <1>6, <1>7
<1>9. ASSUME NEW x \in R \cap Registered, parent[x] # NoParent
      PROVE  parent[x] \in R
  <2>1. PICK n \in 0..(L - 1) : x = c[n]
      BY <1>9
  <2>2. n \in Turns /\ n + 1 \in Turns
      BY <1>0, <1>6, <1>7
  <2>3. c[n + 1] = parent[x]
      BY <1>1, <1>9, <2>1, <2>2 DEF ParentOf
  <2>4. n + 1 # L
      BY <1>6, <1>9, <2>3
  <2>5. n + 1 \in 0..(L - 1)
      BY <1>7, <2>4
  <2>. QED
      BY <2>3, <2>5
<1>10. Ancestors(t) \subseteq R
  <2>1. ClosedUpwards(R)
      BY <1>9 DEF ClosedUpwards
  <2>. HIDE DEF R
  <2>. QED
      BY <1>8, <2>1, AncestorsAreLeast
<1>11. \A n \in Nat : n < L => c[n] \in Ancestors(t)
  <2>. DEFINE good == {n \in Nat : n < L => c[n] \in Ancestors(t)}
  <2>1. 0 \in good
      BY <1>1, AncestorsAreLeast
  <2>2. ASSUME NEW n \in Nat, n \in good
        PROVE  n + 1 \in good
    <3>. SUFFICES ASSUME n + 1 < L
                  PROVE  c[n + 1] \in Ancestors(t)
        OBVIOUS
    <3>1. n \in Turns /\ n + 1 \in Turns /\ n < L /\ n + 1 \in 0..(L - 1)
        BY <1>0, <1>6, <1>7
    <3>2. c[n + 1] = ParentOf(c[n]) /\ c[n + 1] # NoParent
        BY <1>1, <1>6, <3>1
    <3>3. c[n] \in Registered /\ parent[c[n]] = c[n + 1]
        BY <3>2 DEF ParentOf
    <3>4. c[n] \in Ancestors(t)
        BY <2>2, <3>1
    <3>. QED
        BY <3>2, <3>3, <3>4, AncestorsAreLeast DEF ClosedUpwards
  <2>3. \A n \in Nat : n \in good
    <3>. HIDE DEF good
    <3>. QED
        BY <2>1, <2>2, Induct
  <2>. QED
      BY <2>3
<1>. DEFINE s == ancestor_chain(t)
<1>12. DOMAIN s = 1..L /\ \A i \in 1..L : s[i] = c[i - 1] /\ i - 1 \in 0..(L - 1)
    BY <1>3, <1>7
<1>. HIDE DEF s
<1>13. \A i \in 1..L : s[i] \in Ancestors(t)
    BY <1>7, <1>11, <1>12
<1>14. IsInjective(s)
  <2>1. ASSUME NEW i \in 1..L, NEW k \in 1..L, i < k
        PROVE  s[i] # s[k]
    <3>1. i - 1 \in Turns /\ k - 1 \in Turns /\ i - 1 < k - 1
        BY <1>6, <1>12, <2>1
    <3>2. \A n \in 0..(k - 1) : c[n] # NoParent
        BY <1>6, <1>7
    <3>. QED
        BY <1>2, <1>12, <3>1, <3>2
  <2>. QED
      BY <1>7, <1>12, <2>1 DEF IsInjective
<1>15. \A a \in Ancestors(t) : \E i \in 1..L : a = s[i]
  <2>. TAKE a \in Ancestors(t)
  <2>1. PICK n \in 0..(L - 1) : a = c[n]
      BY <1>10
  <2>2. n + 1 \in 1..L /\ (n + 1) - 1 = n
      BY <1>7
  <2>. QED
      BY <1>12, <2>1, <2>2
<1>16. s = [i \in 1..L |-> c[i - 1]]
    BY <1>3 DEF s
<1>17. s \in Seq(Ancestors(t))
    BY <1>7, <1>13, <1>12, <1>16
<1>18. ToSet(s) = Ancestors(t)
    BY <1>12, <1>13, <1>15 DEF ToSet
<1>. QED
    BY <1>14, <1>17, <1>18 DEF Lists, s

\* A descendant of t is registered, under t or under a descendant of t.
LEMMA DescendantsHaveParents ==
    ASSUME PolicyTypeOK, NEW t \in Tenants
    PROVE  \A d \in Descendants(t) : d \in Registered /\ parent[d] \in Subtree(t)
<1>. DEFINE S == {d \in Descendants(t) : d \in Registered /\ parent[d] \in Subtree(t)}
<1>1. Subtree(t) \subseteq Tenants /\ t \in Subtree(t) /\ ClosedDownwards(Subtree(t))
    BY SubtreeIsLeast
<1>2. children_of(t) \subseteq Descendants(t)
    BY DEF Descendants, children_of, PolicyTypeOK
<1>3. \A x \in Descendants(t) : children_of(x) \subseteq Descendants(t)
    BY DEF Descendants, children_of, PolicyTypeOK, ClosedDownwards
<1>4. S \in SUBSET Tenants
    BY DEF Descendants
<1>5. children_of(t) \subseteq S
    BY <1>1, <1>2 DEF children_of
<1>6. ClosedDownwards(S)
    BY <1>3 DEF ClosedDownwards, children_of, Subtree
<1>7. Descendants(t) \subseteq S
  <2>. HIDE DEF S
  <2>. QED
      BY <1>4, <1>5, <1>6 DEF Descendants
<1>. QED
    BY <1>7

\* On a chain that ends no tenant is its own descendant.
LEMMA NotItsOwnDescendant ==
    ASSUME PolicyTypeOK, NEW t \in Tenants, ChainEnds(t)
    PROVE  t \notin Descendants(t)
<1>. SUFFICES ASSUME t \in Descendants(t)
              PROVE  FALSE
    OBVIOUS
<1>1. \A d \in Descendants(t) : d \in Registered /\ parent[d] \in Descendants(t)
    BY DescendantsHaveParents DEF Subtree
<1>2. Descendants(t) \subseteq Tenants
    BY DEF Descendants
<1>3. ClosedUpwards(Descendants(t))
    BY <1>1 DEF ClosedUpwards
<1>4. Ancestors(t) \subseteq Descendants(t)
    BY <1>2, <1>3, AncestorsAreLeast
<1>. QED
    BY <1>1, <1>2, <1>4, PolicyAssumption DEF ChainEnds, PolicyAssumption

\* A frontier of tenants, none of them twice.
Frontiers == {s \in Seq(Tenants) : IsInjective(s)}

\* The next frontier lists the children of all tenants of a frontier.
LEMMA ChildrenAreListed ==
    ASSUME PolicyTypeOK, NEW s \in Frontiers
    PROVE  Lists(ChildrenOfAll(s), UNION {children_of(s[i]) : i \in 1..Len(s)})
<1>. DEFINE m == Len(s)
            sets == [i \in 1..m |-> children_of(s[i])]
            seqs == [i \in 1..m |-> SetToSeq(children_of(s[i]))]
<1>1. m \in Nat /\ DOMAIN s = 1..m /\ IsInjective(s)
    BY DEF Frontiers
<1>2. \A x : children_of(x) \subseteq Tenants /\ IsFiniteSet(children_of(x))
    BY PolicyAssumption, FS_Subset DEF PolicyAssumption, children_of, PolicyTypeOK
<1>3. \A i \in 1..m : Lists(seqs[i], sets[i])
    BY <1>2, SetIsListed
<1>4. \A i, k \in 1..m : i < k => sets[i] \cap sets[k] = {}
    BY <1>1 DEF IsInjective, children_of
<1>5. seqs \in [1..m -> Seq(Tenants)]
  <2>1. \A i \in 1..m : seqs[i] \in Seq(Tenants)
    <3>. TAKE i \in 1..m
    <3>1. seqs[i] \in Seq(sets[i]) /\ sets[i] \subseteq Tenants
        BY <1>2, <1>3 DEF Lists
    <3>. HIDE DEF seqs, sets
    <3>. QED
        BY <3>1
  <2>. QED
      BY <2>1
<1>6. ChildrenOfAll(s) = FlattenSeq(seqs)
    BY DEF ChildrenOfAll
<1>7. UNION {sets[i] : i \in 1..m} = UNION {children_of(s[i]) : i \in 1..m}
  <2>1. \A i \in 1..m : sets[i] = children_of(s[i])
      OBVIOUS
  <2>. HIDE DEF sets, m
  <2>2. {sets[i] : i \in 1..m} = {children_of(s[i]) : i \in 1..m}
      BY <2>1
  <2>. QED
      BY <2>2
<1>. HIDE DEF seqs, sets, m
<1>8. Lists(FlattenSeq(seqs), UNION {sets[i] : i \in 1..m})
  <2>1. m \in Nat
      BY <1>1
  <2>2. \A q \in [1..m -> Seq(Tenants)] : \A T :
           (\A i \in 1..m : Lists(q[i], T[i]))
           /\ (\A i, k \in 1..m : i < k => T[i] \cap T[k] = {})
           => Lists(FlattenSeq(q), UNION {T[i] : i \in 1..m})
      BY <2>1, ListsOfLists
  <2>. QED
      BY <2>2, <1>3, <1>4, <1>5, Zenon
<1>. QED
    BY <1>6, <1>7, <1>8 DEF m

LEMMA ListIsFrontier ==
    ASSUME NEW s, NEW S \in SUBSET Tenants, Lists(s, S)
    PROVE  s \in Frontiers
BY DEF Lists, Frontiers

\* The frontier is the children of t first, and then the children of all its tenants.
LEMMA FrontierTurnByTurn ==
    ASSUME PolicyTypeOK, NEW t \in Tenants
    PROVE  /\ Frontier(t) \in [Turns -> Frontiers]
           /\ Lists(Frontier(t)[0], children_of(t))
           /\ \A n \in Turns : n + 1 \in Turns =>
                 Frontier(t)[n + 1] = ChildrenOfAll(Frontier(t)[n])
<1>. DEFINE N == Cardinality(Tenants)
            first == SetToSeq(children_of(t))
            down == [s \in Frontiers |-> ChildrenOfAll(s)]
            Solves(f) == f = [n \in Turns |-> IF n = 0 THEN first ELSE ChildrenOfAll(f[n - 1])]
<1>1. \A x : children_of(x) \subseteq Tenants /\ IsFiniteSet(children_of(x))
    BY PolicyAssumption, FS_Subset DEF PolicyAssumption, children_of, PolicyTypeOK
<1>2. Lists(first, children_of(t)) /\ first \in Frontiers
    BY <1>1, SetIsListed, ListIsFrontier
<1>3. \A s \in Frontiers : ChildrenOfAll(s) \in Frontiers
  <2>. TAKE s \in Frontiers
  <2>. DEFINE S == UNION {children_of(s[i]) : i \in 1..Len(s)}
  <2>1. S \in SUBSET Tenants
      BY <1>1
  <2>2. Lists(ChildrenOfAll(s), S)
      BY ChildrenAreListed
  <2>. HIDE DEF S
  <2>. QED
      BY <2>1, <2>2, ListIsFrontier
<1>. HIDE DEF first
<1>4. PICK f \in [0..N -> Frontiers] : Iterates(f, 0, N, first, [n \in 0..N |-> down])
  <2>. DEFINE step == [n \in 0..N |-> down]
  <2>1. step \in [0..N -> [Frontiers -> Frontiers]] /\ 0 \in Nat /\ N \in Nat /\ 0 <= N
      BY <1>3, TurnsAreNumbers
  <2>. HIDE DEF step, N
  <2>. QED
      BY <1>2, <2>1, IterationExists DEF step
<1>5. \A n \in Turns : n # 0 => n - 1 \in 0..N
    BY TurnsAreNumbers
<1>6. Solves(f)
  <2>1. \A n \in Turns : n # 0 => down[f[n - 1]] = ChildrenOfAll(f[n - 1])
      BY <1>4, <1>5
  <2>2. f = [n \in Turns |-> IF n = 0 THEN first ELSE down[f[n - 1]]]
    <3>. HIDE DEF down
    <3>. QED
        BY <1>4, TurnsAreNumbers DEF Iterates
  <2>. HIDE DEF down, N
  <2>. QED
      BY <2>1, <2>2
<1>. DEFINE g == CHOOSE h : Solves(h)
<1>7. Solves(g)
  <2>. HIDE DEF Solves
  <2>. QED
      BY <1>6
<1>8. Frontier(t) = g
    BY DEF Frontier, first
<1>. HIDE DEF g
<1>9. DOMAIN g = Turns /\ \A n \in Turns : g[n] = IF n = 0 THEN first ELSE ChildrenOfAll(g[n - 1])
    BY <1>7
<1>10. g[0] = first
    BY <1>9, TurnsAreNumbers
<1>11. \A n \in Turns : n + 1 \in Turns => g[n + 1] = ChildrenOfAll(g[n])
    BY <1>9, TurnsAreNumbers
<1>12. \A n \in Turns : g[n] \in Frontiers
  <2>. DEFINE good == {n \in Nat : n \in Turns => g[n] \in Frontiers}
  <2>1. 0 \in good
      BY <1>2, <1>10
  <2>2. ASSUME NEW n \in Nat, n \in good
        PROVE  n + 1 \in good
    <3>. SUFFICES ASSUME n + 1 \in Turns
                  PROVE  g[n + 1] \in Frontiers
        OBVIOUS
    <3>1. n \in Turns
        BY TurnsAreNumbers
    <3>. QED
        BY <1>3, <1>11, <2>2, <3>1
  <2>3. \A n \in Nat : n \in good
    <3>. HIDE DEF good
    <3>. QED
        BY <2>1, <2>2, Induct
  <2>. QED
      BY <2>3, TurnsAreNumbers
<1>13. g \in [Turns -> Frontiers]
    BY <1>7, <1>12
<1>. QED
    BY <1>2, <1>8, <1>10, <1>11, <1>13

\* The tenants of the frontiers.
LEMMA LevelByLevel ==
    ASSUME PolicyTypeOK, NEW t \in Tenants
    PROVE  /\ \A n \in Turns : ToSet(Frontier(t)[n]) \subseteq Descendants(t)
           /\ ToSet(Frontier(t)[0]) = children_of(t)
           /\ \A n \in Turns : n + 1 \in Turns =>
                 \A d : d \in ToSet(Frontier(t)[n + 1])
                          <=> d \in Registered /\ parent[d] \in ToSet(Frontier(t)[n])
<1>. DEFINE F == Frontier(t)
<1>1. /\ F \in [Turns -> Frontiers]
      /\ Lists(F[0], children_of(t))
      /\ \A n \in Turns : n + 1 \in Turns => F[n + 1] = ChildrenOfAll(F[n])
    BY FrontierTurnByTurn
<1>. HIDE DEF F
<1>2. ToSet(F[0]) = children_of(t)
    BY <1>1 DEF Lists
<1>3. ASSUME NEW n \in Turns, n + 1 \in Turns
      PROVE  \A d : d \in ToSet(F[n + 1]) <=> d \in Registered /\ parent[d] \in ToSet(F[n])
  <2>. DEFINE s == F[n]
  <2>1. s \in Frontiers
      BY <1>1
  <2>2. F[n + 1] = ChildrenOfAll(s)
      BY <1>1, <1>3
  <2>. HIDE DEF s
  <2>3. ToSet(F[n + 1]) = UNION {children_of(s[i]) : i \in 1..Len(s)}
      BY <2>1, <2>2, ChildrenAreListed DEF Lists
  <2>4. ToSet(s) = {s[i] : i \in 1..Len(s)}
      BY <2>1 DEF Frontiers, ToSet
  <2>5. \A d : d \in ToSet(F[n + 1]) <=> d \in Registered /\ parent[d] \in ToSet(s)
      BY <2>3, <2>4 DEF children_of
  <2>. QED
      BY <2>5 DEF s
<1>4. \A n \in Nat : n \in Turns => ToSet(F[n]) \subseteq Descendants(t)
  <2>. DEFINE good == {n \in Nat : n \in Turns => ToSet(F[n]) \subseteq Descendants(t)}
  <2>0. ClosedDownwards(Subtree(t)) /\ children_of(t) \subseteq Descendants(t)
      BY SubtreeIsLeast DEF Descendants, children_of, PolicyTypeOK
  <2>1. 0 \in good
      BY <1>2, <2>0
  <2>2. ASSUME NEW n \in Nat, n \in good
        PROVE  n + 1 \in good
    <3>. SUFFICES ASSUME n + 1 \in Turns, NEW d \in ToSet(F[n + 1])
                  PROVE  d \in Descendants(t)
        OBVIOUS
    <3>1. n \in Turns
        BY TurnsAreNumbers
    <3>2. d \in children_of(parent[d]) /\ parent[d] \in Descendants(t)
        BY <1>3, <2>2, <3>1 DEF children_of
    <3>. QED
        BY <3>2 DEF Descendants, children_of, PolicyTypeOK, ClosedDownwards
  <2>3. \A n \in Nat : n \in good
    <3>. HIDE DEF good
    <3>. QED
        BY <2>1, <2>2, Induct
  <2>. QED
      BY <2>3
<1>5. \A n \in Turns : ToSet(F[n]) \subseteq Descendants(t)
    BY <1>4, TurnsAreNumbers
<1>. QED
    BY <1>2, <1>3, <1>5 DEF F

\* On a chain that ends no tenant is in two of the frontiers.
LEMMA LevelsDiffer ==
    ASSUME PolicyTypeOK, NEW t \in Tenants, ChainEnds(t),
           NEW i \in Turns, NEW k \in Turns, i < k
    PROVE  ToSet(Frontier(t)[i]) \cap ToSet(Frontier(t)[k]) = {}
<1>. DEFINE level(n) == ToSet(Frontier(t)[n])
            good == {n \in Nat : \A m \in Turns : n < m => level(n) \cap level(m) = {}}
<1>0. Cardinality(Tenants) \in Nat /\ Turns = 0..Cardinality(Tenants)
    BY TurnsAreNumbers
<1>1. /\ \A n \in Turns : level(n) \subseteq Descendants(t)
      /\ level(0) = children_of(t)
      /\ \A n \in Turns : n + 1 \in Turns =>
            \A d : d \in level(n + 1) <=> d \in Registered /\ parent[d] \in level(n)
    BY LevelByLevel
<1>. HIDE DEF level
<1>2. \A m \in Turns : m # 0 =>
          /\ m - 1 \in Turns
          /\ \A d \in level(m) : d \in Registered /\ parent[d] \in level(m - 1)
  <2>. TAKE m \in Turns
  <2>. HAVE m # 0
  <2>1. m - 1 \in Turns /\ (m - 1) + 1 = m
      BY <1>0
  <2>. QED
      BY <1>1, <2>1
<1>3. 0 \in good
  <2>. SUFFICES ASSUME NEW m \in Turns, 0 < m, NEW d, d \in level(0), d \in level(m)
                PROVE  FALSE
      OBVIOUS
  <2>1. parent[d] = t
      BY <1>1 DEF children_of
  <2>2. t \in level(m - 1) /\ m - 1 \in Turns
      BY <1>2, <2>1
  <2>. QED
      BY <1>1, <2>2, NotItsOwnDescendant
<1>4. ASSUME NEW n \in Nat, n \in good
      PROVE  n + 1 \in good
  <2>. SUFFICES ASSUME NEW m \in Turns, n + 1 < m, NEW d, d \in level(n + 1), d \in level(m)
                PROVE  FALSE
      OBVIOUS
  <2>1. n \in Turns /\ n + 1 \in Turns /\ n < m - 1
      BY <1>0
  <2>2. parent[d] \in level(n)
      BY <1>1, <2>1
  <2>3. parent[d] \in level(m - 1) /\ m - 1 \in Turns
      BY <1>2
  <2>. QED
      BY <1>4, <2>1, <2>2, <2>3
<1>5. i \in good
  <2>1. \A n \in Nat : n \in good
    <3>. HIDE DEF good
    <3>. QED
        BY <1>3, <1>4, Induct
  <2>. QED
      BY <1>0, <2>1
<1>. QED
    BY <1>5 DEF level

\* descendants_of is the list of the descendants, when the hierarchy is a forest.
LEMMA DescendantsAreListed ==
    ASSUME PolicyTypeOK, NEW t \in Tenants, ChainEnds(t)
    PROVE  Lists(descendants_of(t), Descendants(t))
<1>. DEFINE F == Frontier(t)
            L == TurnsUntil(F, <<>>)
            level(n) == ToSet(F[n])
<1>0. Cardinality(Tenants) \in Nat /\ Turns = 0..Cardinality(Tenants)
    BY TurnsAreNumbers
<1>1. F \in [Turns -> Frontiers]
    BY FrontierTurnByTurn
<1>2. /\ \A n \in Turns : level(n) \subseteq Descendants(t)
      /\ level(0) = children_of(t)
      /\ \A n \in Turns : n + 1 \in Turns =>
            \A d : d \in level(n + 1) <=> d \in Registered /\ parent[d] \in level(n)
    BY LevelByLevel
<1>3. \A i, k \in Turns : i < k => level(i) \cap level(k) = {}
    BY LevelsDiffer
<1>4. descendants_of(t) = FlattenSeq([i \in 1..L |-> F[i - 1]])
    BY DEF descendants_of
<1>. HIDE DEF F
<1>5. \A n \in Turns : F[n] \in Seq(Tenants) /\ IsInjective(F[n])
    BY <1>1 DEF Frontiers
<1>6. \A n \in Turns : Lists(F[n], level(n))
  <2>. TAKE n \in Turns
  <2>. DEFINE s == F[n]
  <2>1. s \in Seq(Tenants) /\ IsInjective(s)
      BY <1>5
  <2>. HIDE DEF s
  <2>2. s \in Seq(ToSet(s))
      BY <2>1 DEF ToSet
  <2>3. Lists(s, ToSet(s))
      BY <2>1, <2>2 DEF Lists
  <2>. QED
      BY <2>3 DEF s
<1>7. \A n \in Turns : F[n] # <<>> => F[n][1] \in level(n) /\ F[n][1] \in Tenants
  <2>. TAKE n \in Turns
  <2>. DEFINE s == F[n]
  <2>1. s \in Seq(Tenants)
      BY <1>5
  <2>. HIDE DEF s
  <2>2. s # <<>> => 1 \in DOMAIN s /\ s[1] \in Tenants
      BY <2>1
  <2>3. s # <<>> => s[1] \in ToSet(s) /\ s[1] \in Tenants
      BY <2>2 DEF ToSet
  <2>. QED
      BY <2>3 DEF s
<1>8. PICK last \in Turns : F[last] = <<>>
  <2>. SUFFICES ASSUME \A n \in Turns : F[n] # <<>>
                PROVE  FALSE
      OBVIOUS
  <2>. DEFINE f == [n \in Turns |-> F[n][1]]
  <2>1. f \in [Turns -> Tenants]
      BY <1>7
  <2>2. \A n \in Turns : f[n] \in level(n)
      BY <1>7
  <2>. HIDE DEF f
  <2>3. PICK i \in Turns, k \in Turns : i < k /\ f[i] = f[k]
      BY <2>1, SomeTurnsAgree
  <2>. HIDE DEF level
  <2>4. f[i] \in level(i) \cap level(k)
      BY <2>2, <2>3
  <2>. QED
      BY <1>3, <2>3, <2>4
<1>9. /\ L \in Turns /\ F[L] = <<>>
      /\ \A m \in 0..(L - 1) : m \in Turns
    BY <1>8, LoopEnds
<1>. HIDE DEF L
<1>10. level(L) = {} /\ L \in Nat
    BY <1>0, <1>9 DEF ToSet
<1>. DEFINE seqs == [i \in 1..L |-> F[i - 1]]
            sets == [i \in 1..L |-> level(i - 1)]
            U == UNION {sets[i] : i \in 1..L}
<1>11. \A i \in 1..L : i - 1 \in 0..(L - 1) /\ i - 1 \in Turns
    BY <1>9, <1>10
<1>12. Lists(FlattenSeq(seqs), U)
  <2>. HIDE DEF level
  <2>1. \A i \in 1..L : Lists(seqs[i], sets[i])
      BY <1>6, <1>11
  <2>2. \A i, k \in 1..L : i < k => sets[i] \cap sets[k] = {}
    <3>. SUFFICES ASSUME NEW i \in 1..L, NEW k \in 1..L, i < k
                  PROVE  level(i - 1) \cap level(k - 1) = {}
        OBVIOUS
    <3>1. i - 1 \in Turns /\ k - 1 \in Turns /\ i - 1 < k - 1
        BY <1>10, <1>11
    <3>. QED
        BY <1>3, <3>1
  <2>3. seqs \in [1..L -> Seq(Tenants)]
      BY <1>5, <1>11
  <2>. HIDE DEF seqs, sets
  <2>. QED
      BY <1>10, <2>1, <2>2, <2>3, ListsOfLists
<1>13. \A n \in Turns : n < L => level(n) \subseteq U
  <2>. TAKE n \in Turns
  <2>. HAVE n < L
  <2>1. n + 1 \in 1..L /\ (n + 1) - 1 = n
      BY <1>0, <1>10
  <2>2. sets[n + 1] = level(n)
    <3>. HIDE DEF level
    <3>. QED
        BY <2>1
  <2>. HIDE DEF sets, level
  <2>. QED
      BY <2>1, <2>2
<1>14. \A x \in U : \E n \in Turns : n < L /\ x \in level(n)
  <2>. HIDE DEF level
  <2>1. \A i \in 1..L : sets[i] = level(i - 1) /\ i - 1 < L /\ i - 1 \in Turns
      BY <1>10, <1>11
  <2>. HIDE DEF sets
  <2>. QED
      BY <2>1
<1>. HIDE DEF U, level
<1>15. U \subseteq Descendants(t)
    BY <1>2, <1>14
<1>16. children_of(t) \subseteq U
  <2>1. 0 \in Turns /\ (L = 0 \/ 0 < L)
      BY <1>0, <1>10
  <2>. QED
      BY <1>2, <1>10, <1>13, <2>1
<1>17. ClosedDownwards(U)
  <2>. SUFFICES ASSUME NEW x \in U, NEW y \in children_of(x)
                PROVE  y \in U
      BY DEF ClosedDownwards
  <2>1. PICK n \in Turns : n < L /\ x \in level(n)
      BY <1>14
  <2>2. n + 1 \in Turns
      BY <1>0, <1>9, <2>1
  <2>3. y \in level(n + 1)
      BY <1>2, <2>1, <2>2 DEF children_of
  <2>4. n + 1 < L
      BY <1>0, <1>10, <2>1, <2>2, <2>3
  <2>. QED
      BY <1>13, <2>2, <2>3, <2>4
<1>18. Descendants(t) \subseteq U
  <2>1. U \subseteq Tenants
      BY <1>15 DEF Descendants
  <2>. QED
      BY <1>16, <1>17, <2>1 DEF Descendants
<1>19. U = Descendants(t)
    BY <1>15, <1>18
<1>. HIDE DEF seqs
<1>20. descendants_of(t) = FlattenSeq(seqs)
    BY <1>4 DEF seqs
<1>. QED
    BY <1>12, <1>19, <1>20

\* The sum over a list of tenants is the number of GPUs charged to them.
LEMMA SumCountsCharges ==
    ASSUME QuotaTypeOK, NEW S \in SUBSET Tenants, NEW s, Lists(s, S)
    PROVE  SumFunction([i \in 1..Len(s) |-> usage[s[i]]]) = Cardinality(ChargedTo(S))
<1>. DEFINE n == Len(s)
            fun == [i \in 1..n |-> usage[s[i]]]
            some(k) == {s[i] : i \in 1..k}
<1>1. /\ n \in Nat /\ DOMAIN s = 1..n /\ \A i \in 1..n : s[i] \in S /\ s[i] \in Tenants
      /\ \A i, k \in 1..n : s[i] = s[k] => i = k
      /\ S = some(n)
  <2>1. n \in Nat /\ DOMAIN s = 1..n
      BY DEF Lists
  <2>. QED
      BY <2>1 DEF Lists, IsInjective, ToSet
<1>2. \A x \in Tenants : usage[x] \in Nat
    BY DEF QuotaTypeOK
<1>. HIDE DEF n
<1>3. fun \in [1..n -> Int]
    BY <1>1, <1>2
<1>. HIDE DEF fun
<1>4. PICK upto \in [0..n -> Int] :
          /\ upto[0] = 0
          /\ \A k \in 0..(n - 1) : upto[k + 1] = upto[k] + fun[k + 1]
          /\ SumFunction(fun) = upto[n]
    BY <1>1, <1>3, SumOfSequence
<1>. DEFINE good == {k \in Nat : k <= n => upto[k] = Cardinality(ChargedTo(some(k)))}
<1>5. 0 \in good
  <2>1. ChargedTo(some(0)) = {}
      BY DEF ChargedTo
  <2>. HIDE DEF some
  <2>. QED
      BY <1>4, <2>1, FS_EmptySet
<1>6. ASSUME NEW k \in Nat, k \in good
      PROVE  k + 1 \in good
  <2>. DEFINE m == k + 1
              d == s[m]
  <2>. SUFFICES ASSUME m <= n
                PROVE  upto[m] = Cardinality(ChargedTo(some(m)))
      OBVIOUS
  <2>1. m \in 1..n /\ k \in 0..(n - 1) /\ k <= n /\ d \in Tenants
      BY <1>1
  <2>2. upto[m] = upto[k] + usage[d]
      BY <1>4, <2>1 DEF fun
  <2>3. some(m) = some(k) \cup {d} /\ d \notin some(k) /\ some(k) \in SUBSET Tenants
    <3>1. 1..m = (1..k) \cup {m} /\ \A i \in 1..k : i \in 1..n /\ i # m
        BY <1>1, <2>1
    <3>. HIDE DEF m
    <3>2. some(m) = some(k) \cup {s[m]}
        BY <3>1
    <3>. QED
        BY <1>1, <2>1, <3>1, <3>2
  <2>. HIDE DEF some, d, m
  <2>4. /\ IsFiniteSet(ChargedTo(some(k))) /\ IsFiniteSet(ChargedTo({d}))
        /\ Cardinality(ChargedTo(some(k))) \in Nat
      BY <2>1, <2>3, ChargedIsFinite
  <2>5. ChargedTo(some(k)) \cap ChargedTo({d}) = {}
      BY <2>3 DEF ChargedTo
  <2>6. ChargedTo(some(m)) = ChargedTo(some(k)) \cup ChargedTo({d})
      BY <2>3 DEF ChargedTo
  <2>7. Cardinality(ChargedTo({d})) = usage[d]
      BY <2>1, OneTenantCharged
  <2>8. Cardinality(ChargedTo(some(m))) = Cardinality(ChargedTo(some(k))) + usage[d]
      BY <2>4, <2>5, <2>6, <2>7, DisjointUnion
  <2>. QED
      BY <1>6, <2>1, <2>2, <2>8
<1>7. n \in good
  <2>1. \A k \in Nat : k \in good
    <3>. HIDE DEF good
    <3>. QED
        BY <1>5, <1>6, Induct
  <2>. QED
      BY <1>1, <2>1
<1>8. upto[n] = Cardinality(ChargedTo(some(n)))
    BY <1>1, <1>7
<1>. HIDE DEF some
<1>. QED
    BY <1>1, <1>4, <1>8 DEF fun, n

\* LoopsComputeTheSets holds in every reachable state, whatever was done to the policy:
\* while the hierarchy is a forest the loops of quota_policy.py:56-75 return each
\* ancestor and each descendant once, and subtree_usage adds up every charge.
THEOREM LoopsReturnTheSets == Spec => []LoopsComputeTheSets
<1>1. ASSUME QuotaTypeOK
      PROVE  LoopsComputeTheSets
  <2>. SUFFICES ASSUME PolicyIsForest, NEW t \in Tenants
                PROVE  /\ ToSet(ancestor_chain(t)) = Ancestors(t)
                       /\ Len(ancestor_chain(t)) = Cardinality(Ancestors(t))
                       /\ ToSet(descendants_of(t)) = Descendants(t)
                       /\ Len(descendants_of(t)) = Cardinality(Descendants(t))
                       /\ subtree_usage(t) = SubtreeUsage(t)
      BY DEF LoopsComputeTheSets
  <2>1. PolicyTypeOK /\ ChainEnds(t) /\ usage[t] \in Nat
      BY <1>1 DEF QuotaTypeOK, PolicyIsForest
  <2>2. Lists(ancestor_chain(t), Ancestors(t))
      BY <2>1, ChainListsAncestors
  <2>3. Lists(descendants_of(t), Descendants(t))
      BY <2>1, DescendantsAreListed
  <2>4. Descendants(t) \in SUBSET Tenants
      BY DEF Descendants
  <2>5. subtree_usage(t) = usage[t] + Cardinality(ChargedTo(Descendants(t)))
    <3>. DEFINE s == descendants_of(t)
    <3>1. subtree_usage(t) = usage[t] + SumFunction([i \in 1..Len(s) |-> usage[s[i]]])
        BY DEF subtree_usage
    <3>. HIDE DEF s
    <3>2. SumFunction([i \in 1..Len(s) |-> usage[s[i]]]) = Cardinality(ChargedTo(Descendants(t)))
        BY <1>1, <2>3, <2>4, SumCountsCharges DEF s
    <3>. QED
        BY <3>1, <3>2
  <2>6. SubtreeUsage(t) = usage[t] + Cardinality(ChargedTo(Descendants(t)))
    <3>1. /\ IsFiniteSet(ChargedTo({t})) /\ IsFiniteSet(ChargedTo(Descendants(t)))
          /\ Cardinality(ChargedTo({t})) = usage[t]
        BY <1>1, <2>4, ChargedIsFinite, OneTenantCharged
    <3>2. ChargedTo(Subtree(t)) = ChargedTo({t}) \cup ChargedTo(Descendants(t))
        BY DEF ChargedTo, Subtree
    <3>3. ChargedTo({t}) \cap ChargedTo(Descendants(t)) = {}
        BY <2>1, NotItsOwnDescendant DEF ChargedTo
    <3>. QED
        BY <3>1, <3>2, <3>3, DisjointUnion DEF SubtreeUsage
  <2>. QED
      BY <2>2, <2>3, <2>5, <2>6, ListLength DEF Lists
<1>. QED
    BY <1>1, QuotaTypeCorrect, PTL
=============================================================================
