--------------------------- MODULE QuotaImportProofs ---------------------------
(***************************************************************************)
(* Proofs about QuotaImport: of any file, of any length, every entry is    *)
(* placed once and after its parent; the import refuses a file exactly for *)
(* what is wrong with it, and builds the policy that would be exported     *)
(* into the file again.                                                    *)
(***************************************************************************)
EXTENDS QuotaImport, Induction

-----------------------------------------------------------------------------
(* The order of the file.                                                  *)

\* One position more, before all others.
LEMMA OneBefore ==
    ASSUME NEW T \in SUBSET Nat, NEW n \in Nat, NEW s \in [1..n -> T], Ascends(s),
           NEW x \in Nat, \A y \in T : x < y
    PROVE  \E r \in [1..(n + 1) -> T \cup {x}] : Ascends(r)
<1>. DEFINE r == [i \in 1..(n + 1) |-> IF i = 1 THEN x ELSE s[i - 1]]
<1>1. \A i \in 1..(n + 1) : i # 1 => i - 1 \in 1..n
    OBVIOUS
<1>2. /\ DOMAIN r = 1..(n + 1) /\ r[1] = x
      /\ \A i \in 1..(n + 1) : i # 1 => r[i] = s[i - 1] /\ s[i - 1] \in T
    BY <1>1
<1>3. r \in [1..(n + 1) -> T \cup {x}]
    BY <1>1
<1>4. ASSUME NEW i \in 1..(n + 1), NEW k \in 1..(n + 1), i < k
      PROVE  r[i] < r[k]
  <2>1. k # 1 /\ k - 1 \in 1..n
      BY <1>4
  <2>2. CASE i = 1
      BY <1>2, <2>1, <2>2
  <2>3. CASE i # 1
    <3>1. i - 1 \in 1..n /\ i - 1 < k - 1
        BY <1>4, <2>3
    <3>2. s[i - 1] < s[k - 1]
        BY <2>1, <3>1 DEF Ascends
    <3>. HIDE DEF r
    <3>. QED
        BY <1>2, <2>1, <2>3, <3>2
  <2>. QED
      BY <2>2, <2>3
<1>5. Ascends(r)
  <2>. HIDE DEF r
  <2>. QED
      BY <1>2, <1>4 DEF Ascends
<1>. QED
    BY <1>3, <1>5

\* Any finite set of positions can be listed from the first to the last.
LEMMA ListingExists ==
    ASSUME NEW S \in SUBSET Nat, IsFiniteSet(S)
    PROVE  \E s \in [1..Cardinality(S) -> S] : Ascends(s)
<1>. DEFINE Listed(T) == \E s \in [1..Cardinality(T) -> T] : Ascends(s)
            good == {T \in SUBSET Nat : Listed(T)}
<1>1. {} \in good
  <2>1. Cardinality({}) = 0 /\ 1..0 = {}
      BY FS_EmptySet
  <2>. DEFINE none == [i \in 1..0 |-> 0]
  <2>2. none \in [1..0 -> {}] /\ Ascends(none)
      BY <2>1 DEF Ascends
  <2>3. Listed({})
      BY <2>1, <2>2
  <2>. QED
      BY <2>3
<1>2. ASSUME NEW T \in SUBSET Nat, IsFiniteSet(T), T # {}, \A x \in T : T \ {x} \in good
      PROVE  T \in good
  <2>1. PICK x \in T : \A y \in T : x <= y
      BY <1>2, LeastNumber
  <2>. DEFINE R == T \ {x}
              n == Cardinality(R)
  <2>2. n \in Nat /\ Cardinality(T) = n + 1 /\ R \cup {x} = T
    <3>1. IsFiniteSet(R) /\ n = Cardinality(T) - 1
        BY <1>2, <2>1, FS_RemoveElement
    <3>2. n \in Nat /\ Cardinality(T) \in Nat
        BY <1>2, <3>1, FS_CardinalityType
    <3>. QED
        BY <2>1, <3>1, <3>2
  <2>3. PICK s \in [1..n -> R] : Ascends(s)
      BY <1>2, <2>1
  <2>4. \A y \in R : x < y
      BY <2>1
  <2>5. \E r \in [1..(n + 1) -> R \cup {x}] : Ascends(r)
    <3>1. R \in SUBSET Nat /\ x \in Nat
        OBVIOUS
    <3>. HIDE DEF R, n
    <3>. QED
        BY <2>2, <2>3, <2>4, <3>1, OneBefore
  <2>6. Listed(T)
    <3>. HIDE DEF R, n
    <3>. QED
        BY <2>2, <2>5
  <2>. QED
      BY <2>6
<1>. HIDE DEF good
<1>3. S \in good
    BY <1>1, <1>2, InductOnSets
<1>. QED
    BY <1>3 DEF good

\* InFileOrder lists every position once.
Lists(s, n, S) ==
    /\ s \in [1..n -> S]
    /\ Ascends(s)
    /\ \A p \in S : \E i \in 1..n : s[i] = p

LEMMA InFileOrderLists ==
    ASSUME NEW S \in SUBSET Nat, IsFiniteSet(S)
    PROVE  /\ Cardinality(S) \in Nat
           /\ Lists(InFileOrder(S), Cardinality(S), S)
<1>. DEFINE n == Cardinality(S)
            s == InFileOrder(S)
<1>1. n \in Nat
    BY FS_CardinalityType
<1>2. s \in [1..n -> S] /\ Ascends(s)
    BY ListingExists DEF InFileOrder
<1>. HIDE DEF s
<1>3. \A i, k \in 1..n : s[i] = s[k] => i = k
  <2>. SUFFICES ASSUME NEW i \in 1..n, NEW k \in 1..n, i # k
                PROVE  s[i] # s[k]
      OBVIOUS
  <2>1. s[i] \in Nat /\ s[k] \in Nat
      BY <1>2
  <2>2. i < k \/ k < i
      BY <1>1
  <2>3. s[i] < s[k] \/ s[k] < s[i]
      BY <1>2, <2>2 DEF Ascends
  <2>. QED
      BY <2>1, <2>3
<1>4. s \in Injection(1..n, S)
    BY <1>2, <1>3 DEF Injection, IsInjective
<1>5. Cardinality(1..n) = Cardinality(S)
    BY <1>1, FS_Interval
<1>6. s \in Surjection(1..n, S)
    BY <1>4, <1>5, FS_Injection
<1>7. \A p \in S : \E i \in 1..n : s[i] = p
    BY <1>6 DEF Surjection
<1>8. Lists(s, n, S)
    BY <1>2, <1>7 DEF Lists
<1>. QED
    BY <1>1, <1>8 DEF s
-----------------------------------------------------------------------------
(* The order of the hierarchy.                                             *)

Positions == 1..Len(file)

ImportTypeOK ==
    /\ file \in Seq(Entry)
    /\ remaining \subseteq Positions
    /\ ordered \in Seq(Positions)
    /\ count \in 0..Len(ordered)
    /\ stage \in {"running", "done", "refused"}

\* A position is in remaining or in ordered, and there once.
PlacedOnce ==
    /\ \A i, k \in 1..Len(ordered) : ordered[i] = ordered[k] => i = k
    /\ \A i \in 1..Len(ordered) : ordered[i] \notin remaining

OrderInv == ImportTypeOK /\ PlacedOnce /\ OrderIsSound

\* The positions of a file.
LEMMA PositionsAreNumbers ==
    ASSUME ImportTypeOK
    PROVE  /\ Positions \subseteq Nat /\ IsFiniteSet(Positions)
           /\ Cardinality(Positions) = Len(file)
<1>1. Len(file) \in Nat
    BY DEF ImportTypeOK
<1>. QED
    BY <1>1, FS_Interval DEF Positions

\* Nothing is placed when the import starts (yaml_format.py:41-48, 74-76).
LEMMA InitIsOrdered == Init => OrderInv
<1>. SUFFICES ASSUME Init
              PROVE  OrderInv
    OBVIOUS
<1>1. ImportTypeOK
    BY FilesAssumption DEF Init, ImportTypeOK, Positions, FilesAssumption
<1>2. Cardinality(Positions) = Len(file) /\ Len(file) \in Nat
    BY <1>1, PositionsAreNumbers DEF ImportTypeOK
<1>3. PlacedOnce
    BY DEF Init, PlacedOnce
<1>4. OrderIsSound
    BY <1>2 DEF Init, OrderIsSound, Positions
<1>. QED
    BY <1>1, <1>3, <1>4 DEF OrderInv

\* What a round appends to ordered (yaml_format.py:86-88).
Appended(n, m, batch) ==
    /\ Len(ordered') = n + m
    /\ \A i \in 1..n : i \in 1..(n + m) /\ ordered'[i] = ordered[i]
    /\ \A i \in 1..m : n + i \in 1..(n + m) /\ ordered'[n + i] = batch[i]
    /\ \A i \in 1..(n + m) : i \notin 1..n => i - n \in 1..m /\ ordered'[i] = batch[i - n]

LEMMA BatchIsAppended ==
    ASSUME ImportTypeOK, NEW m \in Nat, NEW batch \in [1..m -> Positions],
           ordered' = ordered \o batch
    PROVE  Appended(Len(ordered), m, batch) /\ ordered' \in Seq(Positions)
<1>1. batch \in Seq(Positions) /\ Len(batch) = m
    OBVIOUS
<1>2. ordered \in Seq(Positions) /\ Len(ordered) \in Nat
    BY DEF ImportTypeOK
<1>. DEFINE n == Len(ordered)
<1>3. /\ ordered' \in Seq(Positions) /\ Len(ordered') = n + m
      /\ \A i \in 1..(n + m) : ordered'[i] = IF i <= n THEN ordered[i] ELSE batch[i - n]
  <2>1. \A s, r \in Seq(Positions) :
            /\ s \o r \in Seq(Positions) /\ Len(s \o r) = Len(s) + Len(r)
            /\ \A i \in 1..(Len(s) + Len(r)) :
                  (s \o r)[i] = IF i <= Len(s) THEN s[i] ELSE r[i - Len(s)]
      OBVIOUS
  <2>. QED
      BY <1>1, <1>2, <2>1, Zenon
<1>. HIDE DEF n
<1>4. n \in Nat
    BY <1>2 DEF n
<1>5. \A i \in 1..n : i \in 1..(n + m) /\ ordered'[i] = ordered[i]
  <2>1. \A i \in 1..n : i \in 1..(n + m) /\ i <= n
      BY <1>4
  <2>. QED
      BY <1>3, <2>1
<1>6. \A i \in 1..m : n + i \in 1..(n + m) /\ ordered'[n + i] = batch[i]
  <2>1. \A i \in 1..m : n + i \in 1..(n + m) /\ ~(n + i <= n) /\ (n + i) - n = i
      BY <1>4
  <2>. QED
      BY <1>3, <2>1
<1>7. \A i \in 1..(n + m) : i \notin 1..n => i - n \in 1..m /\ ordered'[i] = batch[i - n]
  <2>1. \A i \in 1..(n + m) : i \notin 1..n => i - n \in 1..m /\ ~(i <= n)
      BY <1>4
  <2>. QED
      BY <1>3, <2>1
<1>. QED
    BY <1>3, <1>5, <1>6, <1>7, Zenon DEF Appended, n

\* A round places the entries that are ready, after the parents of all of them
\* (yaml_format.py:77-88).
LEMMA RoundKeepsOrder ==
    ASSUME OrderInv, OrderRound
    PROVE  OrderInv'
<1>. DEFINE n == Len(ordered)
            m == Cardinality(Ready)
            batch == InFileOrder(Ready)
<1>1. ImportTypeOK /\ PlacedOnce /\ OrderIsSound
    BY DEF OrderInv
<1>2. /\ n \in Nat /\ ordered \in Seq(Positions)
      /\ \A i \in 1..n : ordered[i] \in Positions
    BY <1>1 DEF ImportTypeOK
<1>3. /\ file' = file /\ count' = count /\ stage' = stage
      /\ ordered' = ordered \o batch /\ remaining' = remaining \ Ready
      /\ Ready \subseteq remaining
    BY DEF OrderRound, NotReady, Ready
<1>4. /\ remaining \subseteq Positions /\ IsFiniteSet(remaining)
      /\ Ready \in SUBSET Nat /\ IsFiniteSet(Ready)
  <2>1. remaining \subseteq Positions /\ Positions \subseteq Nat /\ IsFiniteSet(Positions)
      BY <1>1, PositionsAreNumbers DEF ImportTypeOK
  <2>. QED
      BY <1>3, <2>1, FS_Subset
<1>5. m \in Nat /\ Lists(batch, m, Ready)
    BY <1>4, InFileOrderLists
<1>6. /\ batch \in [1..m -> Ready] /\ batch \in [1..m -> Positions]
      /\ \A p \in Ready : \E i \in 1..m : batch[i] = p
      /\ \A i, k \in 1..m : batch[i] = batch[k] => i = k
  <2>1. /\ batch \in [1..m -> Ready] /\ Ascends(batch)
        /\ \A p \in Ready : \E i \in 1..m : batch[i] = p
      BY <1>5 DEF Lists
  <2>. HIDE DEF batch, m
  <2>2. ASSUME NEW i \in 1..m, NEW k \in 1..m, i # k
        PROVE  batch[i] # batch[k]
    <3>1. batch[i] \in Nat /\ batch[k] \in Nat
        BY <1>4, <2>1
    <3>2. i < k \/ k < i
        BY <1>5, <2>2
    <3>3. batch[i] < batch[k] \/ batch[k] < batch[i]
        BY <2>1, <3>2 DEF Ascends
    <3>. QED
        BY <3>1, <3>3
  <2>3. Ready \subseteq Positions
      BY <1>3, <1>4
  <2>. QED
      BY <2>1, <2>2, <2>3
<1>. HIDE DEF batch, m
<1>7. Appended(n, m, batch) /\ ordered' \in Seq(Positions)
    BY <1>1, <1>3, <1>5, <1>6, BatchIsAppended
<1>. HIDE DEF n
<1>8. ImportTypeOK'
  <2>1. Len(ordered') = n + m /\ count \in 0..n
      BY <1>1, <1>7 DEF Appended, ImportTypeOK, n
  <2>2. count \in 0..(n + m)
      BY <1>2, <1>5, <2>1
  <2>. QED
      BY <1>1, <1>3, <1>4, <1>7, <2>1, <2>2 DEF ImportTypeOK, Positions
<1>9. PlacedOnce'
  <2>1. ASSUME NEW i \in 1..(n + m)
        PROVE  /\ i \in 1..n => ordered'[i] = ordered[i] /\ ordered'[i] \notin remaining
               /\ i \notin 1..n => ordered'[i] = batch[i - n] /\ i - n \in 1..m /\ ordered'[i] \in Ready
      BY <1>1, <1>6, <1>7 DEF Appended, PlacedOnce, n
  <2>2. ASSUME NEW i \in 1..(n + m), NEW k \in 1..(n + m), ordered'[i] = ordered'[k]
        PROVE  i = k
    <3>1. CASE i \in 1..n /\ k \in 1..n
        BY <1>1, <2>1, <2>2, <3>1 DEF PlacedOnce, n
    <3>2. CASE i \notin 1..n /\ k \notin 1..n
      <4>1. i - n = k - n
          BY <1>6, <2>1, <2>2, <3>2
      <4>. QED
          BY <1>2, <1>5, <4>1
    <3>. QED
        BY <1>3, <2>1, <2>2, <3>1, <3>2
  <2>3. \A i \in 1..(n + m) : ordered'[i] \notin remaining'
      BY <1>3, <2>1
  <2>. QED
      BY <1>7, <2>2, <2>3 DEF PlacedOnce, Appended
<1>10. OrderIsSound'
  <2>1. ASSUME NEW i \in 1..(n + m), Placed(i)'.parent_id # NoParent
        PROVE  \E k \in 1..(i - 1) : Placed(k)'.tenant_id = Placed(i)'.parent_id
    <3>1. CASE i \in 1..n
      <4>1. Placed(i)' = Placed(i)
          BY <1>3, <1>7, <3>1 DEF Placed, Appended
      <4>2. PICK k \in 1..(i - 1) : Placed(k).tenant_id = Placed(i).parent_id
          BY <1>1, <2>1, <3>1, <4>1 DEF OrderIsSound, n
      <4>3. k \in 1..n
          BY <1>2, <3>1
      <4>4. Placed(k)' = Placed(k)
          BY <1>3, <1>7, <4>3 DEF Placed, Appended
      <4>. QED
          BY <4>1, <4>2, <4>4
    <3>2. CASE i \notin 1..n
      <4>1. i - n \in 1..m /\ Placed(i)' = file[batch[i - n]]
          BY <1>3, <1>7, <3>2 DEF Placed, Appended
      <4>2. IsReady(file[batch[i - n]])
          BY <1>6, <4>1 DEF Ready
      <4>3. PICK k \in 1..n : Placed(k).tenant_id = Placed(i)'.parent_id
          BY <2>1, <4>1, <4>2 DEF IsReady, Added, n
      <4>4. k \in 1..(i - 1)
          BY <1>2, <1>5, <3>2
      <4>5. Placed(k)' = Placed(k)
          BY <1>3, <1>7 DEF Placed, Appended
      <4>. QED
          BY <4>3, <4>4, <4>5
    <3>. QED
        BY <3>1, <3>2
  <2>2. ASSUME NEW p \in Positions
        PROVE  p \in remaining' \/ \E i \in 1..(n + m) : ordered'[i] = p
    <3>1. CASE p \in Ready
      <4>1. PICK i \in 1..m : batch[i] = p
          BY <1>6, <3>1
      <4>. QED
          BY <1>7, <4>1 DEF Appended
    <3>2. CASE p \in remaining \ Ready
        BY <1>3, <3>2
    <3>3. CASE p \notin remaining
      <4>1. PICK i \in 1..n : ordered[i] = p
          BY <1>1, <3>3 DEF OrderIsSound, Positions, n
      <4>. QED
          BY <1>7, <4>1 DEF Appended
    <3>. QED
        BY <3>1, <3>2, <3>3
  <2>3. (n + m) + Cardinality(remaining') = Len(file)
    <3>1. Cardinality(remaining') = Cardinality(remaining) - m
      <4>1. remaining \cap Ready = Ready
          BY <1>3
      <4>2. Cardinality(remaining \ Ready)
              = Cardinality(remaining) - Cardinality(remaining \cap Ready)
          BY <1>4, FS_Difference
      <4>. QED
          BY <1>3, <4>1, <4>2 DEF m
    <3>2. Cardinality(remaining) \in Nat
        BY <1>4, FS_CardinalityType
    <3>3. n + Cardinality(remaining) = Len(file)
        BY <1>1 DEF OrderIsSound, n
    <3>. QED
        BY <1>2, <1>5, <3>1, <3>2, <3>3
  <2>4. Len(ordered') = n + m
      BY <1>7 DEF Appended
  <2>. QED
      BY <1>3, <2>1, <2>2, <2>3, <2>4 DEF OrderIsSound, Positions
<1>. QED
    BY <1>8, <1>9, <1>10 DEF OrderInv

LEMMA OrderStep == OrderInv /\ [Next]_vars => OrderInv'
<1>. SUFFICES ASSUME OrderInv, [Next]_vars
              PROVE  OrderInv'
    OBVIOUS
<1>1. ASSUME UNCHANGED <<file, remaining, ordered>>, count' \in 0..Len(ordered),
             stage' \in {"running", "done", "refused"}
      PROVE  OrderInv'
    BY <1>1 DEF OrderInv, ImportTypeOK, Positions, PlacedOnce, OrderIsSound, Placed
<1>2. count \in 0..Len(ordered) /\ Len(ordered) \in Nat /\ stage \in {"running", "done", "refused"}
    BY DEF OrderInv, ImportTypeOK
<1>3. CASE OrderRound
    BY <1>3, RoundKeepsOrder
<1>4. CASE Refuse \/ RefuseEntry \/ Finish
    BY <1>1, <1>2, <1>4 DEF Refuse, RefuseEntry, Finish
<1>5. CASE AddEntry
    BY <1>1, <1>2, <1>5 DEF AddEntry
<1>6. CASE UNCHANGED vars
    BY <1>1, <1>2, <1>6 DEF vars
<1>. QED
    BY <1>3, <1>4, <1>5, <1>6 DEF Next

\* OrderIsSound holds of every import of every file, of any length: no round loses an
\* entry, places one twice, or places one before its parent (yaml_format.py:71-89).
THEOREM OrderSound == Spec => []OrderIsSound
<1>1. OrderInv => OrderIsSound
    BY DEF OrderInv
<1>. QED
    BY <1>1, InitIsOrdered, OrderStep, PTL DEF Spec
-----------------------------------------------------------------------------
(* The policy that is built.                                               *)

\* The dict d has x for t, or nothing where there is nothing to set.
Has(d, t, x) == IF x = Absent THEN t \notin DOMAIN d ELSE t \in DOMAIN d /\ d[t] = x

Kept(e) ==
    /\ parent[e.tenant_id] = e.parent_id
    /\ Has(max_gpus, e.tenant_id, e.quota)
    /\ Has(rate_limit, e.tenant_id, e.rate_limit)

\* The policy consists of the first count entries.
Agrees ==
    /\ Registered = {Placed(i).tenant_id : i \in 1..count}
    /\ DOMAIN max_gpus \subseteq Registered /\ DOMAIN rate_limit \subseteq Registered
    /\ \A i \in 1..count : ~Malformed(Placed(i))
    /\ NoTenantTwice => \A i \in 1..count : Kept(Placed(i))

\* An entry is added when all are placed, and the import is done when all are added.
Staged ==
    /\ remaining # {} => count = 0
    /\ stage = "done" => remaining = {} /\ count = Len(ordered)

ImportInv == OrderInv /\ Agrees /\ Staged /\ RefusedForCause

LEMMA PlacedIsEntry ==
    ASSUME ImportTypeOK, NEW i \in 1..Len(ordered)
    PROVE  ordered[i] \in 1..Len(file) /\ Placed(i) \in Entry
<1>1. ordered[i] \in Positions
    BY DEF ImportTypeOK
<1>. QED
    BY <1>1 DEF ImportTypeOK, Positions, Placed

\* The tenants of the entries, where no tenant comes twice.
LEMMA PlacedDiffer ==
    ASSUME ImportTypeOK, PlacedOnce, NoTenantTwice,
           NEW i \in 1..Len(ordered), NEW k \in 1..Len(ordered),
           Placed(i).tenant_id = Placed(k).tenant_id
    PROVE  i = k
<1>1. ordered[i] \in 1..Len(file) /\ ordered[k] \in 1..Len(file)
    BY PlacedIsEntry
<1>2. ordered[i] = ordered[k]
    BY <1>1 DEF NoTenantTwice, Placed
<1>. QED
    BY <1>2 DEF PlacedOnce

LEMMA InitAgrees == Init => ImportInv
<1>. SUFFICES ASSUME Init
              PROVE  ImportInv
    OBVIOUS
<1>1. Agrees
    BY DEF Init, PolicyInit, Agrees, Registered
<1>. QED
    BY <1>1, InitIsOrdered DEF Init, ImportInv, Staged, RefusedForCause

\* What an entry sets is what the dict has afterwards, and no other tenant is touched
\* (yaml_format.py:54-66).
LEMMA WithSets ==
    ASSUME NEW d, NEW t, NEW x
    PROVE  /\ \A y, z : y # t /\ Has(d, y, z) => Has(With(d, t, x), y, z)
           /\ t \notin DOMAIN d => Has(With(d, t, x), t, x)
           /\ DOMAIN With(d, t, x) \subseteq DOMAIN d \cup {t}
BY DEF Has, With, Put

\* add_tenant, add_quota and add_rate_limit raise for a malformed entry, and for no
\* other whose parent is there (quota_policy.py:22-38).
LEMMA AcceptableEntries ==
    ASSUME NEW e \in Entry, ParentKnown(e.parent_id)
    PROVE  Acceptable(e) <=> ~Malformed(e)
<1>1. e.quota # Absent => e.quota \in Int
    BY PolicyAssumption DEF Entry, PolicyAssumption
<1>2. e.rate_limit # Absent => e.rate_limit.window_s \in Int
    BY PolicyAssumption DEF Entry, PolicyAssumption, RateLimit
<1>. QED
    BY <1>1, <1>2 DEF Acceptable, Malformed

\* The parent of the next entry is registered (yaml_format.py:71-73).
LEMMA ParentIsAdded ==
    ASSUME ImportInv, count < Len(ordered)
    PROVE  ParentKnown(Placed(count + 1).parent_id) /\ count + 1 \in 1..Len(ordered)
<1>. DEFINE e == Placed(count + 1)
<1>1. count \in Nat /\ count + 1 \in 1..Len(ordered) /\ (count + 1) - 1 = count
    BY DEF ImportInv, OrderInv, ImportTypeOK
<1>2. CASE e.parent_id = NoParent
    BY <1>1, <1>2 DEF ParentKnown
<1>3. CASE e.parent_id # NoParent
  <2>1. \E k \in 1..((count + 1) - 1) : Placed(k).tenant_id = e.parent_id
      BY <1>1, <1>3 DEF ImportInv, OrderInv, OrderIsSound
  <2>2. PICK k \in 1..count : Placed(k).tenant_id = e.parent_id
      BY <1>1, <2>1
  <2>. QED
      BY <1>1, <2>2 DEF ImportInv, Agrees, ParentKnown
<1>. QED
    BY <1>2, <1>3

LEMMA AddKeepsPolicy ==
    ASSUME ImportInv, AddEntry
    PROVE  Agrees'
<1>. DEFINE e == Placed(count + 1)
            t == e.tenant_id
            c == count + 1
<1>1. /\ Acceptable(e) /\ count' = c
      /\ parent' = Put(parent, t, e.parent_id)
      /\ max_gpus' = With(max_gpus, t, e.quota)
      /\ rate_limit' = With(rate_limit, t, e.rate_limit)
      /\ UNCHANGED <<file, ordered>>
    BY DEF AddEntry
<1>2. /\ c \in 1..Len(ordered) /\ count \in Nat /\ Len(ordered) \in Nat
      /\ e \in Entry /\ ~Malformed(e)
  <2>1. count \in Nat /\ ImportTypeOK /\ Len(ordered) \in Nat
      BY DEF ImportInv, OrderInv, ImportTypeOK
  <2>2. c \in 1..Len(ordered) /\ ParentKnown(e.parent_id)
      BY ParentIsAdded DEF AddEntry
  <2>3. e \in Entry
      BY <2>1, <2>2, PlacedIsEntry
  <2>. QED
      BY <1>1, <2>1, <2>2, <2>3, AcceptableEntries
<1>3. \A i : Placed(i)' = Placed(i)
    BY <1>1 DEF Placed
<1>4. 1..c = (1..count) \cup {c}
    BY <1>2
<1>. HIDE DEF c
<1>5. Registered' = Registered \cup {t}
    BY <1>1 DEF Put, Registered
<1>6. Registered = {Placed(i).tenant_id : i \in 1..count}
    BY DEF ImportInv, Agrees
<1>7. Registered' = {Placed(i).tenant_id : i \in 1..c}
    BY <1>4, <1>5, <1>6 DEF c
<1>8. (DOMAIN max_gpus)' \subseteq Registered' /\ (DOMAIN rate_limit)' \subseteq Registered'
  <2>1. /\ (DOMAIN max_gpus)' \subseteq DOMAIN max_gpus \cup {t}
        /\ (DOMAIN rate_limit)' \subseteq DOMAIN rate_limit \cup {t}
      BY <1>1, WithSets
  <2>. QED
      BY <1>5, <2>1 DEF ImportInv, Agrees
<1>9. \A i \in 1..c : ~Malformed(Placed(i))
    BY <1>2, <1>4 DEF ImportInv, Agrees, c
<1>10. /\ \A y, z : y # t /\ Has(max_gpus, y, z) => Has(max_gpus', y, z)
       /\ \A y, z : y # t /\ Has(rate_limit, y, z) => Has(rate_limit', y, z)
  <2>1. \A y, z : y # t /\ Has(max_gpus, y, z) => Has(With(max_gpus, t, e.quota), y, z)
      BY WithSets
  <2>2. \A y, z : y # t /\ Has(rate_limit, y, z) => Has(With(rate_limit, t, e.rate_limit), y, z)
      BY WithSets
  <2>. QED
      BY <1>1, <2>1, <2>2
<1>11. /\ t \notin DOMAIN max_gpus => Has(max_gpus', t, e.quota)
       /\ t \notin DOMAIN rate_limit => Has(rate_limit', t, e.rate_limit)
  <2>1. t \notin DOMAIN max_gpus => Has(With(max_gpus, t, e.quota), t, e.quota)
      BY WithSets
  <2>2. t \notin DOMAIN rate_limit => Has(With(rate_limit, t, e.rate_limit), t, e.rate_limit)
      BY WithSets
  <2>. QED
      BY <1>1, <2>1, <2>2
<1>12. ASSUME NoTenantTwice, NEW i \in 1..c
       PROVE  Kept(Placed(i))'
  <2>. DEFINE f == Placed(i)
  <2>1. \A k \in 1..count : k \in 1..Len(ordered) /\ k # c
      BY <1>2 DEF c
  <2>2. ASSUME NEW k \in 1..count
        PROVE  Placed(k).tenant_id # t
    <3>1. ImportTypeOK /\ PlacedOnce
        BY DEF ImportInv, OrderInv
    <3>. QED
        BY <1>2, <1>12, <2>1, <3>1, PlacedDiffer DEF c
  <2>3. t \notin Registered
      BY <1>6, <2>2
  <2>4. t \notin DOMAIN max_gpus /\ t \notin DOMAIN rate_limit
      BY <2>3 DEF ImportInv, Agrees
  <2>5. CASE i \in 1..count
    <3>1. f.tenant_id # t /\ f.tenant_id \in DOMAIN parent
        BY <1>6, <2>2, <2>5 DEF Registered
    <3>2. /\ parent[f.tenant_id] = f.parent_id
          /\ Has(max_gpus, f.tenant_id, f.quota)
          /\ Has(rate_limit, f.tenant_id, f.rate_limit)
        BY <1>12, <2>5 DEF ImportInv, Agrees, Kept
    <3>3. parent'[f.tenant_id] = f.parent_id
        BY <1>1, <3>1, <3>2 DEF Put
    <3>4. Has(max_gpus', f.tenant_id, f.quota) /\ Has(rate_limit', f.tenant_id, f.rate_limit)
        BY <1>10, <3>1, <3>2, Zenon
    <3>. QED
        BY <1>3, <3>3, <3>4, Zenon DEF Kept
  <2>6. CASE i = c
    <3>1. parent'[t] = e.parent_id
        BY <1>1 DEF Put
    <3>2. Has(max_gpus', t, e.quota) /\ Has(rate_limit', t, e.rate_limit)
        BY <1>11, <2>4, Zenon
    <3>3. f = e
        BY <2>6 DEF c
    <3>. QED
        BY <1>3, <3>1, <3>2, <3>3, Zenon DEF Kept
  <2>. QED
      BY <1>4, <2>5, <2>6
<1>13. NoTenantTwice' => NoTenantTwice
    BY <1>1 DEF NoTenantTwice
<1>. QED
    BY <1>1, <1>3, <1>7, <1>8, <1>9, <1>12, <1>13 DEF Agrees

-----------------------------------------------------------------------------
(* The verdict on the file.                                                *)

\* What is left when no entry is ready has its parents in itself, or nowhere
\* (yaml_format.py:81-85).
LEMMA StuckIsUnresolvable ==
    ASSUME OrderInv, remaining # {}, Ready = {}
    PROVE  FileIsAtFault
<1>1. remaining \in SUBSET (1..Len(file)) /\ ordered \in Seq(Positions)
    BY DEF OrderInv, ImportTypeOK, Positions
<1>2. ASSUME NEW i \in remaining
      PROVE  /\ file[i].parent_id # NoParent
             /\ \A j \in 1..Len(file) : file[j].tenant_id = file[i].parent_id => j \in remaining
  <2>1. ~IsReady(file[i])
      BY DEF Ready
  <2>2. file[i].parent_id # NoParent /\ file[i].parent_id \notin Added
      BY <2>1 DEF IsReady
  <2>3. ASSUME NEW j \in 1..Len(file), file[j].tenant_id = file[i].parent_id, j \notin remaining
        PROVE  FALSE
    <3>1. PICK k \in 1..Len(ordered) : ordered[k] = j
        BY <2>3 DEF OrderInv, OrderIsSound
    <3>. QED
        BY <2>2, <2>3, <3>1 DEF Added, Placed
  <2>. QED
      BY <2>2, <2>3
<1>. QED
    BY <1>1, <1>2 DEF FileIsAtFault, Unresolvable

\* When every entry is placed, the first that is in a set comes after a parent that
\* is not (yaml_format.py:71-73).
LEMMA OrderedIsResolvable ==
    ASSUME OrderInv, remaining = {}, NEW S \in SUBSET (1..Len(file))
    PROVE  ~Unresolvable(S)
<1>. SUFFICES ASSUME Unresolvable(S)
              PROVE  FALSE
    OBVIOUS
<1>. DEFINE places == {k \in 1..Len(ordered) : ordered[k] \in S}
<1>1. ImportTypeOK /\ OrderIsSound /\ Len(ordered) \in Nat
    BY DEF OrderInv, ImportTypeOK
<1>2. places # {} /\ places \in SUBSET Nat
  <2>1. PICK p \in S : TRUE
      BY DEF Unresolvable
  <2>2. PICK i \in 1..Len(ordered) : ordered[i] = p
      BY <1>1 DEF OrderIsSound
  <2>. QED
      BY <1>1, <2>1, <2>2
<1>3. PICK k \in places : \A h \in places : k <= h
    BY <1>2, LeastNumber
<1>4. ordered[k] \in S /\ k \in 1..Len(ordered)
    BY <1>3
<1>5. Placed(k).parent_id # NoParent
    BY <1>4 DEF Unresolvable, Placed
<1>6. PICK h \in 1..(k - 1) : Placed(h).tenant_id = Placed(k).parent_id
    BY <1>1, <1>4, <1>5 DEF OrderIsSound
<1>7. h \in 1..Len(ordered) /\ h < k /\ h \in Nat /\ k \in Nat
    BY <1>1, <1>4
<1>8. ordered[h] \in 1..Len(file)
    BY <1>1, <1>7, PlacedIsEntry
<1>9. ordered[h] \in S
    BY <1>4, <1>6, <1>8 DEF Unresolvable, Placed
<1>10. k <= h
    BY <1>3, <1>7, <1>9
<1>. QED
    BY <1>7, <1>10

LEMMA ImportStep == ImportInv /\ [Next]_vars => ImportInv'
<1>. SUFFICES ASSUME ImportInv, [Next]_vars
              PROVE  ImportInv'
    OBVIOUS
<1>1. OrderInv'
    BY OrderStep DEF ImportInv
<1>2. OrderInv /\ Agrees /\ Staged /\ RefusedForCause /\ ImportTypeOK
    BY DEF ImportInv, OrderInv
<1>3. file' = file /\ (FileIsAtFault' <=> FileIsAtFault)
  <2>1. file' = file
      BY DEF Next, OrderRound, Refuse, AddEntry, RefuseEntry, Finish, vars
  <2>. QED
      BY <2>1 DEF FileIsAtFault, Unresolvable
<1>4. ASSUME UNCHANGED <<policyVars, file, ordered, count>>
      PROVE  Agrees'
    BY <1>2, <1>4 DEF Agrees, policyVars, Registered, Placed, NoTenantTwice, Kept
<1>5. CASE OrderRound
  <2>1. remaining # {} /\ count = 0 /\ count' = 0 /\ stage' = "running" /\ UNCHANGED <<policyVars, file>>
      BY <1>2, <1>5 DEF OrderRound, Ready, Staged
  <2>2. 1..0 = {}
      OBVIOUS
  <2>3. Agrees'
      BY <1>2, <2>1, <2>2 DEF Agrees, policyVars, Registered
  <2>. QED
      BY <1>1, <2>1, <2>3 DEF ImportInv, Staged, RefusedForCause
<1>6. CASE Refuse
  <2>1. FileIsAtFault
      BY <1>2, <1>6, StuckIsUnresolvable DEF Refuse
  <2>. QED
      BY <1>1, <1>2, <1>3, <1>4, <1>6, <2>1 DEF Refuse, ImportInv, Staged, RefusedForCause
<1>7. CASE AddEntry
  <2>1. Agrees'
      BY <1>7, AddKeepsPolicy
  <2>. QED
      BY <1>1, <1>2, <1>7, <2>1 DEF AddEntry, Adding, ImportInv, Staged, RefusedForCause
<1>8. CASE RefuseEntry
  <2>. DEFINE e == Placed(count + 1)
  <2>1. ParentKnown(e.parent_id) /\ count + 1 \in 1..Len(ordered)
      BY <1>8, ParentIsAdded DEF RefuseEntry
  <2>2. e \in Entry /\ ordered[count + 1] \in 1..Len(file)
      BY <1>2, <2>1, PlacedIsEntry
  <2>3. Malformed(e)
      BY <1>8, <2>1, <2>2, AcceptableEntries DEF RefuseEntry
  <2>4. FileIsAtFault
      BY <2>2, <2>3 DEF FileIsAtFault, Placed
  <2>. QED
      BY <1>1, <1>2, <1>3, <1>4, <1>8, <2>4
         DEF RefuseEntry, ImportInv, Staged, RefusedForCause
<1>9. CASE Finish
  <2>1. remaining = {} /\ count = Len(ordered)
      BY <1>9 DEF Finish, Adding
  <2>2. ASSUME NEW p \in 1..Len(file)
        PROVE  ~Malformed(file[p])
    <3>1. PICK i \in 1..Len(ordered) : ordered[i] = p
        BY <1>2, <2>1 DEF OrderInv, OrderIsSound
    <3>. QED
        BY <1>2, <2>1, <3>1 DEF Agrees, Placed
  <2>3. ~FileIsAtFault
      BY <1>2, <2>1, <2>2, OrderedIsResolvable DEF FileIsAtFault
  <2>. QED
      BY <1>1, <1>2, <1>3, <1>4, <1>9, <2>1, <2>3
         DEF Finish, ImportInv, Staged, RefusedForCause
<1>10. CASE UNCHANGED vars
    BY <1>1, <1>2, <1>3, <1>4, <1>10 DEF vars, ImportInv, Staged, RefusedForCause
<1>. QED
    BY <1>5, <1>6, <1>7, <1>8, <1>9, <1>10 DEF Next

\* RefusedForCause holds of every file: an import is refused exactly for unresolvable
\* parents, a negative quota or an empty window (yaml_format.py:41-67, 81-85,
\* quota_policy.py:22-38).
THEOREM RefusesForCause == Spec => []RefusedForCause
<1>1. ImportInv => RefusedForCause
    BY DEF ImportInv
<1>. QED
    BY <1>1, InitAgrees, ImportStep, PTL DEF Spec

\* ImportIsFaithful holds of every file with one entry for each tenant: what is
\* exported from the policy are its entries (yaml_format.py:19-39, 41-67).
THEOREM ImportsFaithfully == Spec => []ImportIsFaithful
<1>1. ASSUME ImportInv, stage = "done", NoTenantTwice
      PROVE  Exported = {file[p] : p \in 1..Len(file)}
  <2>. DEFINE Out(t) ==
                [tenant_id |-> t, parent_id |-> parent[t],
                 quota |-> IF t \in DOMAIN max_gpus THEN max_gpus[t] ELSE Absent,
                 rate_limit |-> IF t \in DOMAIN rate_limit THEN rate_limit[t] ELSE Absent]
  <2>1. /\ remaining = {} /\ count = Len(ordered) /\ ImportTypeOK /\ OrderIsSound
        /\ Registered = {Placed(i).tenant_id : i \in 1..Len(ordered)}
      BY <1>1 DEF ImportInv, OrderInv, Staged, Agrees
  <2>2. ASSUME NEW i \in 1..Len(ordered)
        PROVE  Out(Placed(i).tenant_id) = Placed(i)
    <3>. DEFINE e == Placed(i)
                t == e.tenant_id
    <3>1. e \in Entry
        BY <2>1, PlacedIsEntry
    <3>2. Kept(e)
        BY <1>1, <2>1 DEF ImportInv, Agrees
    <3>. HIDE DEF e
    <3>3. /\ parent[t] = e.parent_id
          /\ (IF t \in DOMAIN max_gpus THEN max_gpus[t] ELSE Absent) = e.quota
          /\ (IF t \in DOMAIN rate_limit THEN rate_limit[t] ELSE Absent) = e.rate_limit
        BY <3>2 DEF Kept, Has
    <3>4. e = [tenant_id |-> t, parent_id |-> e.parent_id, quota |-> e.quota,
               rate_limit |-> e.rate_limit]
        BY <3>1 DEF Entry
    <3>5. Out(t) = e
        BY <3>3, <3>4, Zenon
    <3>. QED
        BY <3>5 DEF e
  <2>3. Exported = {Out(t) : t \in Registered}
      BY DEF Exported
  <2>. HIDE DEF Out
  <2>4. {Placed(i) : i \in 1..Len(ordered)} = {file[p] : p \in 1..Len(file)}
    <3>1. \A i \in 1..Len(ordered) : ordered[i] \in 1..Len(file)
        BY <2>1, PlacedIsEntry
    <3>2. \A p \in 1..Len(file) : \E i \in 1..Len(ordered) : ordered[i] = p
        BY <2>1 DEF OrderIsSound
    <3>. QED
        BY <3>1, <3>2 DEF Placed
  <2>5. Exported = {Placed(i) : i \in 1..Len(ordered)}
      BY <2>1, <2>2, <2>3
  <2>. QED
      BY <2>4, <2>5
<1>2. ImportInv => ImportIsFaithful
    BY <1>1 DEF ImportIsFaithful
<1>. QED
    BY <1>2, InitAgrees, ImportStep, PTL DEF Spec
=============================================================================
