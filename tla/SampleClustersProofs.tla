------------------------- MODULE SampleClustersProofs -------------------------
(***************************************************************************)
(* Proofs about SampleClusters and the path queries of its topologies: of  *)
(* pods of any shape and size and regions of any number of AZs, the links, *)
(* the containment and the shared spines are what placement takes them     *)
(* for, the queries report what the multigraph says, and a best path is    *)
(* what the tier of its ends asks for.                                     *)
(***************************************************************************)
EXTENDS SampleClusters, Induction

-----------------------------------------------------------------------------
(* Keys of links.                                                          *)

LEMMA ImageIsFinite ==
    ASSUME NEW f, IsFiniteSet(DOMAIN f)
    PROVE  IsFiniteSet({f[x] : x \in DOMAIN f})
<1>. DEFINE T == {f[x] : x \in DOMAIN f}
            g == [x \in DOMAIN f |-> f[x]]
<1>1. g \in Surjection(DOMAIN f, T)
    BY DEF Surjection
<1>. HIDE DEF T, g
<1>2. IsFiniteSet(T)
    BY <1>1, FS_Surjection
<1>. QED
    BY <1>2 DEF T

\* The links of a multigraph: each has two ends and a number for a key.
Multigraph(L) ==
    /\ IsFiniteSet(DOMAIN L)
    /\ \A x \in DOMAIN L : x = <<x[1], x[2], x[3]>> /\ x[3] \in Nat

LEMMA KeysAreFinite ==
    ASSUME NEW L, Multigraph(L), NEW u, NEW v
    PROVE  IsFiniteSet(Keys(L, u, v)) /\ Keys(L, u, v) \in SUBSET Nat
<1>. DEFINE D == {x \in DOMAIN L : x[1] = u /\ x[2] = v}
            f == [x \in D |-> x[3]]
<1>1. IsFiniteSet(D)
    BY FS_Subset DEF Multigraph
<1>2. DOMAIN f = D /\ {f[x] : x \in D} = Keys(L, u, v)
    BY DEF Keys
<1>3. IsFiniteSet({f[x] : x \in DOMAIN f})
    BY <1>1, <1>2, ImageIsFinite
<1>. QED
    BY <1>2, <1>3 DEF Keys, Multigraph

\* No more keys are tried than there are links.
LEMMA KeyIsNew ==
    ASSUME NEW L, Multigraph(L), NEW u, NEW v
    PROVE  NewKey(L, u, v) \in Nat /\ NewKey(L, u, v) \notin Keys(L, u, v)
<1>. DEFINE K == Keys(L, u, v)
            n == Cardinality(K)
            free == {k \in n..(2 * n) : k \notin K}
<1>1. IsFiniteSet(K) /\ K \in SUBSET Nat /\ n \in Nat
    BY KeysAreFinite, FS_CardinalityType
<1>. HIDE DEF K
<1>2. free # {}
  <2>. SUFFICES ASSUME free = {}
                PROVE  FALSE
      OBVIOUS
  <2>1. n..(2 * n) \in SUBSET K
      OBVIOUS
  <2>2. Cardinality(n..(2 * n)) <= n
      BY <1>1, <2>1, FS_Subset
  <2>3. Cardinality(n..(2 * n)) = n + 1
    <3>1. n \in Int /\ 2 * n \in Int /\ ~ (n > 2 * n) /\ 2 * n - n + 1 = n + 1
        BY <1>1
    <3>. QED
        BY <3>1, FS_Interval
  <2>. QED
      BY <1>1, <2>2, <2>3
<1>3. free \in SUBSET Nat
    BY <1>1
<1>4. PICK k \in free : \A h \in free : k <= h
    BY <1>2, <1>3, LeastNumber
<1>5. \A h \in n..(k - 1) : h \in K
    BY <1>1, <1>4
<1>6. \E i \in n..(2 * n) : i \notin K /\ \A h \in n..(i - 1) : h \in K
    BY <1>4, <1>5
<1>7. NewKey(L, u, v) \in n..(2 * n) /\ NewKey(L, u, v) \notin K
  <2>1. NewKey(L, u, v) = CHOOSE i \in n..(2 * n) : i \notin K /\ \A h \in n..(i - 1) : h \in K
      BY DEF NewKey, K
  <2>. QED
      BY <1>6, <2>1
<1>. QED
    BY <1>1, <1>7 DEF K

\* What AddAll makes of the links L: it keeps them, and adds each new one.
Keeps(L, M) == \A x \in DOMAIN L : x \in DOMAIN M /\ M[x] = L[x]

Pairs(D) == \A e \in D : e = <<e[1], e[2]>>

NewLink(L, e) == <<e[1], e[2], NewKey(L, e[1], e[2])>>

LEMMA AddAllAdds ==
    ASSUME NEW L, Multigraph(L), NEW new, Pairs(DOMAIN new)
    PROVE  LET M == AddAll(L, new)
           IN  /\ Keeps(L, M)
               /\ DOMAIN M = DOMAIN L \cup {NewLink(L, e) : e \in DOMAIN new}
               /\ \A e \in DOMAIN new : M[NewLink(L, e)] = new[e]
<1>. DEFINE ids == {NewLink(L, e) : e \in DOMAIN new}
            added == [x \in ids |-> new[<<x[1], x[2]>>]]
            M == Updated(L, added)
<1>1. AddAll(L, new) = M
    BY DEF AddAll, NewLink
<1>2. DOMAIN M = DOMAIN L \cup ids /\ DOMAIN added = ids
    BY DEF Updated
<1>3. \A e \in DOMAIN new : NewLink(L, e) \in ids /\ added[NewLink(L, e)] = new[e]
    BY DEF Pairs, NewLink
<1>4. \A e \in DOMAIN new : NewLink(L, e) \notin DOMAIN L
  <2>. SUFFICES ASSUME NEW e \in DOMAIN new, NewLink(L, e) \in DOMAIN L
                PROVE  FALSE
      OBVIOUS
  <2>1. NewKey(L, e[1], e[2]) \in Keys(L, e[1], e[2])
      BY DEF NewLink, Keys
  <2>. QED
      BY <2>1, KeyIsNew
<1>. HIDE DEF added
<1>5. \A x \in ids : x \notin DOMAIN L
    BY <1>4
<1>6. \A x \in DOMAIN L : M[x] = L[x]
    BY <1>2, <1>5 DEF Updated
<1>7. \A x \in ids : M[x] = added[x]
    BY <1>2 DEF Updated
<1>. QED
    BY <1>1, <1>2, <1>3, <1>6, <1>7 DEF Keeps

LEMMA AddAllIsMultigraph ==
    ASSUME NEW L, Multigraph(L), NEW new, Pairs(DOMAIN new), IsFiniteSet(DOMAIN new)
    PROVE  Multigraph(AddAll(L, new))
<1>. DEFINE M == AddAll(L, new)
            f == [e \in DOMAIN new |-> NewLink(L, e)]
            ids == {NewLink(L, e) : e \in DOMAIN new}
<1>1. DOMAIN M = DOMAIN L \cup ids
    BY AddAllAdds
<1>2. IsFiniteSet(ids)
  <2>1. DOMAIN f = DOMAIN new /\ {f[e] : e \in DOMAIN new} = ids
      OBVIOUS
  <2>2. IsFiniteSet({f[e] : e \in DOMAIN f})
      BY <2>1, ImageIsFinite
  <2>. QED
      BY <2>1, <2>2
<1>3. IsFiniteSet(DOMAIN M)
  <2>1. IsFiniteSet(DOMAIN L)
      BY DEF Multigraph
  <2>2. IsFiniteSet(DOMAIN L \cup ids)
      BY <1>2, <2>1, FS_Union
  <2>. QED
      BY <1>1, <2>2
<1>4. \A x \in ids : x = <<x[1], x[2], x[3]>> /\ x[3] \in Nat
    BY KeyIsNew DEF NewLink
<1>. HIDE DEF ids, M
<1>5. Multigraph(M)
    BY <1>1, <1>3, <1>4 DEF Multigraph
<1>. QED
    BY <1>5 DEF M
\* Every link has the one back under its own key.
Duplex(L) ==
    \A x \in DOMAIN L :
        /\ <<x[2], x[1], x[3]>> \in DOMAIN L
        /\ L[<<x[2], x[1], x[3]>>] = L[x]

LEMMA DuplexKeys ==
    ASSUME NEW L, Multigraph(L), Duplex(L), NEW u, NEW v
    PROVE  NewKey(L, u, v) = NewKey(L, v, u)
<1>1. ASSUME NEW a, NEW b, NEW k \in Keys(L, a, b)
      PROVE  k \in Keys(L, b, a)
  <2>1. PICK x \in DOMAIN L : x[1] = a /\ x[2] = b /\ x[3] = k
      BY DEF Keys
  <2>2. <<b, a, k>> \in DOMAIN L
      BY <2>1 DEF Duplex
  <2>. DEFINE y == <<b, a, k>>
  <2>3. y \in DOMAIN L /\ y[1] = b /\ y[2] = a /\ y[3] = k
      BY <2>2
  <2>. HIDE DEF y
  <2>. QED
      BY <2>3 DEF Keys
<1>2. Keys(L, u, v) = Keys(L, v, u)
    BY <1>1
<1>. QED
    BY <1>2 DEF NewKey

\* New links that come in both directions.
ComeBothWays(new) ==
    \A e \in DOMAIN new : <<e[2], e[1]>> \in DOMAIN new /\ new[<<e[2], e[1]>>] = new[e]

LEMMA AddAllKeepsDuplex ==
    ASSUME NEW L, Multigraph(L), Duplex(L), NEW new, Pairs(DOMAIN new), ComeBothWays(new)
    PROVE  Duplex(AddAll(L, new))
<1>. DEFINE M == AddAll(L, new)
            Back(x) == <<x[2], x[1], x[3]>>
<1>1. /\ Keeps(L, M)
      /\ DOMAIN M = DOMAIN L \cup {NewLink(L, e) : e \in DOMAIN new}
      /\ \A e \in DOMAIN new : M[NewLink(L, e)] = new[e]
    BY AddAllAdds
<1>. HIDE DEF M
<1>2. ASSUME NEW x \in DOMAIN L
      PROVE  Back(x) \in DOMAIN M /\ M[Back(x)] = M[x]
  <2>1. Back(x) \in DOMAIN L /\ L[Back(x)] = L[x]
      BY DEF Duplex
  <2>. QED
      BY <1>1, <2>1 DEF Keeps
<1>3. ASSUME NEW e \in DOMAIN new
      PROVE  /\ Back(NewLink(L, e)) \in DOMAIN M
             /\ M[Back(NewLink(L, e))] = M[NewLink(L, e)]
  <2>. DEFINE f == <<e[2], e[1]>>
  <2>1. f \in DOMAIN new /\ new[f] = new[e]
      BY DEF ComeBothWays
  <2>2. NewKey(L, e[1], e[2]) = NewKey(L, e[2], e[1])
      BY DuplexKeys
  <2>3. Back(NewLink(L, e)) = NewLink(L, f)
      BY <2>2 DEF NewLink
  <2>. HIDE DEF f, Back
  <2>. QED
      BY <1>1, <2>1, <2>3
<1>. HIDE DEF Back
<1>4. \A x \in DOMAIN M : Back(x) \in DOMAIN M /\ M[Back(x)] = M[x]
    BY <1>1, <1>2, <1>3
<1>. QED
    BY <1>4 DEF Duplex, M, Back
-----------------------------------------------------------------------------
(* What a group adds.                                                      *)

\* u hangs below v by a link of type T.
Hangs(u, v, T) ==
    \/ T = "spine_uplink" /\ u[1] = "leaf" /\ v[1] = "spine" /\ u[2] = v[2]
    \/ T = "leaf_uplink" /\ u[1] = "node" /\ v[1] = "leaf" /\ u[2] = v
    \/ T = "pcie" /\ u[1] = "gpu" /\ v[1] = "node" /\ u[2] = v

Beside(u, v, T) ==
    \/ T = "nvlink" /\ u[1] = "gpu" /\ v[1] = "gpu" /\ u[2] = v[2]
    \/ T = "inter_pod" /\ u[1] = "spine" /\ v[1] = "spine"

\* A link of type T has its place between u and v.
Shaped(u, v, T) == Hangs(u, v, T) \/ Hangs(v, u, T) \/ Beside(u, v, T)

LEMMA OneShape ==
    ASSUME NEW u, NEW v, NEW T, Shaped(u, v, T), NEW S, Shaped(u, v, S)
    PROVE  T = S
BY DEF Shaped, Hangs, Beside

LEMMA ShapedBack ==
    ASSUME NEW u, NEW v, NEW T, Shaped(u, v, T)
    PROVE  Shaped(v, u, T)
BY DEF Shaped, Hangs, Beside

GroupIds(c, group) == LeafIds(c, group) \cup NodeIds(c, group) \cup GroupGpus(c, group)

LEMMA GroupMembers ==
    ASSUME NEW c, NEW group
    PROVE  /\ \A e \in LeafIds(c, group) :
                 e[1] = "leaf" /\ e[2] = c.pod /\ e[3] = group.name
           /\ \A e \in NodeIds(c, group) :
                 /\ e[1] = "node" /\ e[2] \in LeafIds(c, group)
                 /\ \A i \in 1..group.gpus_per_node : <<"gpu", e, i>> \in GroupGpus(c, group)
           /\ \A e \in GroupGpus(c, group) :
                 /\ e[1] = "gpu" /\ e[2] \in NodeIds(c, group)
                 /\ e[3] \in 1..group.gpus_per_node /\ e = <<"gpu", e[2], e[3]>>
           /\ \A e \in SpineIds(c) : e[1] = "spine" /\ e[2] = c.pod
<1>1. \A e \in LeafIds(c, group) : e[1] = "leaf" /\ e[2] = c.pod /\ e[3] = group.name
    BY DEF LeafIds
<1>2. \A e \in NodeIds(c, group) : e[1] = "node" /\ e[2] \in LeafIds(c, group)
    BY DEF NodeIds
<1>3. \A n : Range(GpuIds(group, n)) = {<<"gpu", n, i>> : i \in 1..group.gpus_per_node}
    BY DEF Range, GpuIds
<1>4. ASSUME NEW e \in NodeIds(c, group), NEW i \in 1..group.gpus_per_node
      PROVE  <<"gpu", e, i>> \in GroupGpus(c, group)
  <2>1. <<"gpu", e, i>> \in Range(GpuIds(group, e))
      BY <1>3
  <2>. QED
      BY <2>1 DEF GroupGpus
<1>5. ASSUME NEW e \in GroupGpus(c, group)
      PROVE  /\ e[1] = "gpu" /\ e[2] \in NodeIds(c, group)
             /\ e[3] \in 1..group.gpus_per_node /\ e = <<"gpu", e[2], e[3]>>
  <2>1. PICK n \in NodeIds(c, group) : e \in Range(GpuIds(group, n))
      BY DEF GroupGpus
  <2>2. PICK i \in 1..group.gpus_per_node : e = <<"gpu", n, i>>
      BY <1>3, <2>1
  <2>. QED
      BY <2>2
<1>6. \A e \in SpineIds(c) : e[1] = "spine" /\ e[2] = c.pod
    BY DEF SpineIds, Spine
<1>. QED
    BY <1>1, <1>2, <1>4, <1>5, <1>6

LEMMA GroupIsFinite ==
    ASSUME NEW c \in PodCall, NEW group \in RackGroup
    PROVE  IsFiniteSet(GroupIds(c, group)) /\ IsFiniteSet(SpineIds(c))
<1>. DEFINE leaves == LeafIds(c, group)
            nodes == NodeIds(c, group)
            gpus == GroupGpus(c, group)
<1>0. /\ group.leaf_count \in Int /\ group.nodes_per_leaf \in Int
      /\ group.gpus_per_node \in Int /\ c.spine_count \in Int
    BY DEF RackGroup, PodCall
<1>1. IsFiniteSet(leaves)
  <2>. DEFINE f == [i \in 1..group.leaf_count |-> <<"leaf", c.pod, group.name, i>>]
  <2>1. DOMAIN f = 1..group.leaf_count /\ {f[i] : i \in 1..group.leaf_count} = leaves
      BY DEF LeafIds
  <2>2. IsFiniteSet(1..group.leaf_count)
      BY <1>0, FS_Interval
  <2>3. IsFiniteSet({f[i] : i \in DOMAIN f})
      BY <2>1, <2>2, ImageIsFinite
  <2>. QED
      BY <2>1, <2>3
<1>2. IsFiniteSet(nodes)
  <2>. DEFINE D == leaves \X (1..group.nodes_per_leaf)
              f == [d \in D |-> <<"node", d[1], d[2]>>]
  <2>1. nodes \subseteq {f[d] : d \in D}
    <3>1. ASSUME NEW n \in nodes
          PROVE  \E d \in D : n = f[d]
      <4>1. PICK leaf \in leaves, i \in 1..group.nodes_per_leaf : n = <<"node", leaf, i>>
          BY DEF NodeIds
      <4>2. <<leaf, i>> \in D /\ f[<<leaf, i>>] = n
          BY <4>1
      <4>. QED
          BY <4>2
    <3>. QED
        BY <3>1
  <2>2. IsFiniteSet(1..group.nodes_per_leaf)
      BY <1>0, FS_Interval
  <2>3. IsFiniteSet(D)
      BY <1>1, <2>2, FS_Product
  <2>4. IsFiniteSet({f[d] : d \in DOMAIN f})
      BY <2>3, ImageIsFinite
  <2>5. DOMAIN f = D
      OBVIOUS
  <2>. QED
      BY <2>1, <2>4, <2>5, FS_Subset
<1>3. IsFiniteSet(gpus)
  <2>. DEFINE D == nodes \X (1..group.gpus_per_node)
              f == [d \in D |-> <<"gpu", d[1], d[2]>>]
  <2>1. gpus \subseteq {f[d] : d \in D}
    <3>1. ASSUME NEW g \in gpus
          PROVE  \E d \in D : g = f[d]
      <4>1. /\ g[2] \in nodes /\ g[3] \in 1..group.gpus_per_node
            /\ g = <<"gpu", g[2], g[3]>>
          BY GroupMembers
      <4>2. <<g[2], g[3]>> \in D /\ f[<<g[2], g[3]>>] = g
          BY <4>1
      <4>. QED
          BY <4>2
    <3>. QED
        BY <3>1
  <2>2. IsFiniteSet(1..group.gpus_per_node)
      BY <1>0, FS_Interval
  <2>3. IsFiniteSet(D)
      BY <1>2, <2>2, FS_Product
  <2>4. IsFiniteSet({f[d] : d \in DOMAIN f})
      BY <2>3, ImageIsFinite
  <2>5. DOMAIN f = D
      OBVIOUS
  <2>. QED
      BY <2>1, <2>4, <2>5, FS_Subset
<1>4. IsFiniteSet(SpineIds(c))
  <2>. DEFINE f == [i \in 1..c.spine_count |-> Spine(c.pod, i)]
  <2>1. DOMAIN f = 1..c.spine_count /\ {f[i] : i \in 1..c.spine_count} = SpineIds(c)
      BY DEF SpineIds
  <2>2. IsFiniteSet(1..c.spine_count)
      BY <1>0, FS_Interval
  <2>3. IsFiniteSet({f[i] : i \in DOMAIN f})
      BY <2>1, <2>2, ImageIsFinite
  <2>. QED
      BY <2>1, <2>3
<1>5. IsFiniteSet(GroupIds(c, group))
  <2>1. IsFiniteSet(leaves \cup nodes)
      BY <1>1, <1>2, FS_Union
  <2>. HIDE DEF leaves, nodes, gpus
  <2>2. IsFiniteSet((leaves \cup nodes) \cup gpus)
      BY <1>3, <2>1, FS_Union
  <2>. QED
      BY <2>2 DEF GroupIds, leaves, nodes, gpus
<1>. QED
    BY <1>4, <1>5

GroupTypes == {"spine_uplink", "leaf_uplink", "pcie", "nvlink"}

\* A pair that is linked by type T, and back.
LinkedPair(c, group, pairs, T, e) ==
    /\ e = <<e[1], e[2]>> /\ <<e[2], e[1]>> \in pairs[T]
    /\ {e[1], e[2]} \subseteq GroupIds(c, group) \cup SpineIds(c)
    /\ Shaped(e[1], e[2], T)

LEMMA BothWaysBack ==
    ASSUME NEW pairs, NEW e \in BothWays(pairs), Pairs(pairs)
    PROVE  /\ e = <<e[1], e[2]>>
           /\ <<e[2], e[1]>> \in BothWays(pairs)
           /\ e \in pairs \/ <<e[2], e[1]>> \in pairs
<1>1. CASE e \in pairs
    BY <1>1 DEF BothWays, Pairs
<1>2. ASSUME NEW d \in pairs, e = <<d[2], d[1]>>
      PROVE  e = <<e[1], e[2]>> /\ <<e[2], e[1]>> = d /\ d \in BothWays(pairs)
    BY <1>2 DEF BothWays, Pairs
<1>. QED
    BY <1>1, <1>2 DEF BothWays

LEMMA GroupPairsAreShaped ==
    ASSUME NEW c, NEW group, NEW T \in GroupTypes, NEW e \in GroupPairs(c, group)[T]
    PROVE  LinkedPair(c, group, GroupPairs(c, group), T, e)
<1>. DEFINE leaves == LeafIds(c, group)
            nodes == NodeIds(c, group)
            gpus == GroupGpus(c, group)
            ids == GroupIds(c, group) \cup SpineIds(c)
            AllHang(pairs) == \A d \in pairs : {d[1], d[2]} \subseteq ids /\ Hangs(d[1], d[2], T)
<1>1. ASSUME NEW pairs, Pairs(pairs), AllHang(pairs), GroupPairs(c, group)[T] = BothWays(pairs)
      PROVE  LinkedPair(c, group, GroupPairs(c, group), T, e)
  <2>1. e \in BothWays(pairs)
      BY <1>1
  <2>2. /\ e = <<e[1], e[2]>>
        /\ <<e[2], e[1]>> \in BothWays(pairs)
        /\ e \in pairs \/ <<e[2], e[1]>> \in pairs
      BY <1>1, <2>1, BothWaysBack
  <2>3. CASE e \in pairs
    <3>1. {e[1], e[2]} \subseteq ids /\ Hangs(e[1], e[2], T)
        BY <1>1, <2>3
    <3>. QED
        BY <1>1, <2>2, <3>1 DEF LinkedPair, Shaped
  <2>4. CASE <<e[2], e[1]>> \in pairs
    <3>1. {e[1], e[2]} \subseteq ids /\ Hangs(e[2], e[1], T)
        BY <1>1, <2>4
    <3>. QED
        BY <1>1, <2>2, <3>1 DEF LinkedPair, Shaped
  <2>. QED
      BY <2>2, <2>3, <2>4
<1>2. CASE T = "spine_uplink"
  <2>. DEFINE pairs == leaves \X SpineIds(c)
  <2>1. Pairs(pairs) /\ GroupPairs(c, group)[T] = BothWays(pairs)
      BY <1>2 DEF GroupPairs, Pairs
  <2>2. ASSUME NEW d \in pairs
        PROVE  {d[1], d[2]} \subseteq ids /\ Hangs(d[1], d[2], T)
    <3>1. d[1] \in leaves /\ d[2] \in SpineIds(c)
        OBVIOUS
    <3>2. d[1][1] = "leaf" /\ d[1][2] = c.pod /\ d[2][1] = "spine" /\ d[2][2] = c.pod
        BY <3>1, GroupMembers
    <3>. QED
        BY <1>2, <3>1, <3>2 DEF Hangs, GroupIds
  <2>. QED
      BY <1>1, <2>1, <2>2
<1>3. CASE T = "leaf_uplink"
  <2>. DEFINE pairs == {<<n, n[2]>> : n \in nodes}
  <2>1. Pairs(pairs) /\ GroupPairs(c, group)[T] = BothWays(pairs)
      BY <1>3 DEF GroupPairs, Pairs
  <2>2. ASSUME NEW d \in pairs
        PROVE  {d[1], d[2]} \subseteq ids /\ Hangs(d[1], d[2], T)
    <3>1. PICK n \in nodes : d[1] = n /\ d[2] = n[2]
        OBVIOUS
    <3>2. n[1] = "node" /\ n[2] \in leaves /\ n[2][1] = "leaf"
        BY GroupMembers
    <3>. QED
        BY <1>3, <3>1, <3>2 DEF Hangs, GroupIds
  <2>. QED
      BY <1>1, <2>1, <2>2
<1>4. CASE T = "pcie"
  <2>. DEFINE pairs == {<<g, g[2]>> : g \in gpus}
  <2>1. Pairs(pairs) /\ GroupPairs(c, group)[T] = BothWays(pairs)
      BY <1>4 DEF GroupPairs, Pairs
  <2>2. ASSUME NEW d \in pairs
        PROVE  {d[1], d[2]} \subseteq ids /\ Hangs(d[1], d[2], T)
    <3>1. PICK g \in gpus : d[1] = g /\ d[2] = g[2]
        OBVIOUS
    <3>2. g[1] = "gpu" /\ g[2] \in nodes /\ g[2][1] = "node"
        BY GroupMembers
    <3>. QED
        BY <1>4, <3>1, <3>2 DEF Hangs, GroupIds
  <2>. QED
      BY <1>1, <2>1, <2>2
<1>5. CASE T = "nvlink"
  <2>1. GroupPairs(c, group)[T] = NvLinkPairs(c, group)
      BY <1>5 DEF GroupPairs
  <2>2. e \in gpus \X gpus /\ e[1][2] = e[2][2] /\ e[1] # e[2]
      BY <2>1 DEF NvLinkPairs
  <2>3. e = <<e[1], e[2]>> /\ e[1] \in gpus /\ e[2] \in gpus
      BY <2>2
  <2>4. <<e[2], e[1]>> \in NvLinkPairs(c, group)
      BY <2>2, <2>3 DEF NvLinkPairs
  <2>5. e[1][1] = "gpu" /\ e[2][1] = "gpu"
      BY <2>3, GroupMembers
  <2>. QED
      BY <1>5, <2>1, <2>2, <2>3, <2>4, <2>5 DEF LinkedPair, Shaped, Beside, GroupIds
<1>. QED
    BY <1>2, <1>3, <1>4, <1>5 DEF GroupTypes

LEMMA GroupLinksOfType ==
    ASSUME NEW c \in PodCall, NEW group, NEW T \in GroupTypes,
           NEW e \in GroupPairs(c, group)[T]
    PROVE  /\ e \in DOMAIN GroupLinks(c, group)
           /\ GroupLinks(c, group)[e] = c.metrics[T]
           /\ c.metrics[T] \in LinkMetrics /\ c.metrics[T].link_type = T
<1>. DEFINE pairs == GroupPairs(c, group)
            S == CHOOSE t \in GroupTypes : e \in pairs[t]
<1>1. DOMAIN pairs = GroupTypes
    BY DEF GroupPairs, GroupTypes
<1>2. S \in GroupTypes /\ e \in pairs[S]
    OBVIOUS
<1>3. S = T
  <2>1. Shaped(e[1], e[2], T)
      BY GroupPairsAreShaped DEF LinkedPair
  <2>2. Shaped(e[1], e[2], S)
    <3>. HIDE DEF S
    <3>. QED
        BY <1>2, GroupPairsAreShaped DEF LinkedPair
  <2>. QED
      BY <2>1, <2>2, OneShape
<1>4. e \in UNION {pairs[t] : t \in DOMAIN pairs}
    BY <1>1
<1>5. e \in DOMAIN GroupLinks(c, group) /\ GroupLinks(c, group)[e] = c.metrics[S]
    BY <1>1, <1>4 DEF GroupLinks
<1>6. c.metrics[T] \in LinkMetrics /\ c.metrics[T].link_type = T
    BY DEF PodCall, PerLinkType, LinkTypes, GroupTypes
<1>. HIDE DEF S
<1>. QED
    BY <1>3, <1>5, <1>6

LEMMA GroupLinksAreShaped ==
    ASSUME NEW c \in PodCall, NEW group \in RackGroup
    PROVE  LET new == GroupLinks(c, group)
           IN  /\ Pairs(DOMAIN new) /\ ComeBothWays(new) /\ IsFiniteSet(DOMAIN new)
               /\ \A e \in DOMAIN new :
                     /\ {e[1], e[2]} \subseteq GroupIds(c, group) \cup SpineIds(c)
                     /\ new[e] \in LinkMetrics
                     /\ Shaped(e[1], e[2], new[e].link_type)
<1>. DEFINE new == GroupLinks(c, group)
            pairs == GroupPairs(c, group)
            ids == GroupIds(c, group) \cup SpineIds(c)
<1>1. DOMAIN new = UNION {pairs[T] : T \in GroupTypes}
    BY DEF GroupLinks, GroupPairs, GroupTypes
<1>2. ASSUME NEW e \in DOMAIN new
      PROVE  /\ e = <<e[1], e[2]>> /\ {e[1], e[2]} \subseteq ids
             /\ <<e[2], e[1]>> \in DOMAIN new /\ new[<<e[2], e[1]>>] = new[e]
             /\ new[e] \in LinkMetrics
             /\ Shaped(e[1], e[2], new[e].link_type)
  <2>1. PICK T \in GroupTypes : e \in pairs[T]
      BY <1>1
  <2>2. LinkedPair(c, group, pairs, T, e)
      BY <2>1, GroupPairsAreShaped
  <2>3. new[e] = c.metrics[T] /\ c.metrics[T] \in LinkMetrics /\ c.metrics[T].link_type = T
      BY <2>1, GroupLinksOfType
  <2>4. <<e[2], e[1]>> \in DOMAIN new /\ new[<<e[2], e[1]>>] = c.metrics[T]
    <3>1. <<e[2], e[1]>> \in pairs[T]
        BY <2>2 DEF LinkedPair
    <3>. QED
        BY <3>1, GroupLinksOfType
  <2>. QED
      BY <2>2, <2>3, <2>4 DEF LinkedPair
<1>3. IsFiniteSet(ids)
    BY GroupIsFinite, FS_Union
<1>4. IsFiniteSet(ids \X ids)
  <2>. HIDE DEF ids
  <2>. QED
      BY <1>3, FS_Product
<1>5. DOMAIN new \subseteq ids \X ids
  <2>1. ASSUME NEW e \in DOMAIN new
        PROVE  e \in ids \X ids
    <3>1. e = <<e[1], e[2]>> /\ e[1] \in ids /\ e[2] \in ids
        BY <1>2
    <3>. HIDE DEF ids
    <3>. QED
        BY <3>1
  <2>. QED
      BY <2>1
<1>6. IsFiniteSet(DOMAIN new)
    BY <1>4, <1>5, FS_Subset
<1>7. Pairs(DOMAIN new) /\ ComeBothWays(new)
    BY <1>2 DEF Pairs, ComeBothWays
<1>. QED
    BY <1>2, <1>6, <1>7
-----------------------------------------------------------------------------
(* The fabric: what holds of a topology all along.                         *)

\* The links join vertices, in both directions and at their places.
Wired(V, L) ==
    /\ IsFiniteSet(DOMAIN V) /\ Multigraph(L) /\ Duplex(L)
    /\ \A x \in DOMAIN L :
          /\ {x[1], x[2]} \subseteq DOMAIN V
          /\ L[x] \in LinkMetrics
          /\ Shaped(x[1], x[2], L[x].link_type)

\* The data d of e are what the call c gave it.
MadeBy(c, e, d) ==
    \/ e \in SpineIds(c) /\ d = [kind |-> "spine", pod_id |-> c.pod]
    \/ \E i \in DOMAIN c.rack_groups :
          /\ e \in GroupIds(c, c.rack_groups[i])
          /\ d = EntityData(c, c.rack_groups[i], e)

Joined(L, u, v, T) == \E k \in Nat : <<u, v, k>> \in DOMAIN L /\ L[<<u, v, k>>].link_type = T

\* e is joined to what it is part of.
Contained(V, L, cs, e) ==
    /\ e[1] = "leaf" =>
          \E c \in cs : c.pod = e[2] /\ \A s \in SpineIds(c) : Joined(L, e, s, "spine_uplink")
    /\ e[1] = "node" =>
          /\ e[2] \in DOMAIN V /\ Joined(L, e, e[2], "leaf_uplink")
          /\ Range(V[e].gpu_ids) \subseteq DOMAIN V
    /\ e[1] = "gpu" => e[2] \in DOMAIN V /\ Joined(L, e, e[2], "pcie")

Fabric(V, L, cs) ==
    /\ Wired(V, L)
    /\ \A e \in DOMAIN V : (\E c \in cs : MadeBy(c, e, V[e])) /\ Contained(V, L, cs, e)

Grows(V, L, W, M) == DOMAIN V \subseteq DOMAIN W /\ Keeps(L, M)

LEMMA JoinedStays ==
    ASSUME NEW L, NEW M, Keeps(L, M), NEW u, NEW v, NEW T, Joined(L, u, v, T)
    PROVE  Joined(M, u, v, T)
BY DEF Joined, Keeps

\* New links join their ends.
LEMMA NewIsJoined ==
    ASSUME NEW L, Multigraph(L), NEW new, Pairs(DOMAIN new), NEW u, NEW v,
           <<u, v>> \in DOMAIN new
    PROVE  Joined(AddAll(L, new), u, v, new[<<u, v>>].link_type)
<1>. DEFINE e == <<u, v>>
            k == NewKey(L, u, v)
            M == AddAll(L, new)
<1>1. k \in Nat
    BY KeyIsNew
<1>2. NewLink(L, e) = <<u, v, k>>
    BY DEF NewLink
<1>3. NewLink(L, e) \in DOMAIN M /\ M[NewLink(L, e)] = new[e]
    BY AddAllAdds
<1>. HIDE DEF k, M
<1>. QED
    BY <1>1, <1>2, <1>3 DEF Joined, M

\* The links stay wired when more are added between vertices.
LEMMA AddAllKeepsWired ==
    ASSUME NEW V, NEW L, Wired(V, L), NEW W, IsFiniteSet(DOMAIN W), DOMAIN V \subseteq DOMAIN W,
           NEW new, Pairs(DOMAIN new), ComeBothWays(new), IsFiniteSet(DOMAIN new),
           \A e \in DOMAIN new :
              /\ {e[1], e[2]} \subseteq DOMAIN W
              /\ new[e] \in LinkMetrics
              /\ Shaped(e[1], e[2], new[e].link_type)
    PROVE  Wired(W, AddAll(L, new))
<1>. DEFINE M == AddAll(L, new)
<1>1. Multigraph(L) /\ Duplex(L)
    BY DEF Wired
<1>2. Multigraph(M) /\ Duplex(M)
    BY <1>1, AddAllIsMultigraph, AddAllKeepsDuplex
<1>3. /\ Keeps(L, M)
      /\ DOMAIN M = DOMAIN L \cup {NewLink(L, e) : e \in DOMAIN new}
      /\ \A e \in DOMAIN new : M[NewLink(L, e)] = new[e]
    BY <1>1, AddAllAdds
<1>. HIDE DEF M
<1>4. ASSUME NEW x \in DOMAIN L
      PROVE  {x[1], x[2]} \subseteq DOMAIN W /\ M[x] \in LinkMetrics /\ Shaped(x[1], x[2], M[x].link_type)
    BY <1>3 DEF Wired, Keeps
<1>5. ASSUME NEW e \in DOMAIN new, NEW x, x = NewLink(L, e)
      PROVE  {x[1], x[2]} \subseteq DOMAIN W /\ M[x] \in LinkMetrics /\ Shaped(x[1], x[2], M[x].link_type)
  <2>1. x[1] = e[1] /\ x[2] = e[2] /\ M[x] = new[e]
      BY <1>3, <1>5 DEF NewLink
  <2>. QED
      BY <2>1
<1>6. \A x \in DOMAIN M :
          {x[1], x[2]} \subseteq DOMAIN W /\ M[x] \in LinkMetrics /\ Shaped(x[1], x[2], M[x].link_type)
    BY <1>3, <1>4, <1>5
<1>. QED
    BY <1>2, <1>6 DEF Wired, M

LEMMA GroupKeepsFabric ==
    ASSUME NEW cs \in SUBSET PodCall, NEW c \in cs, NEW i \in DOMAIN c.rack_groups,
           NEW V, NEW L, Fabric(V, L, cs), SpineIds(c) \subseteq DOMAIN V
    PROVE  LET group == c.rack_groups[i]
               W == Updated(V, GroupData(c, group))
               M == AddAll(L, GroupLinks(c, group))
           IN  Fabric(W, M, cs) /\ Grows(V, L, W, M)
<1>. DEFINE group == c.rack_groups[i]
            new == GroupLinks(c, group)
            W == Updated(V, GroupData(c, group))
            M == AddAll(L, new)
<1>1. group \in RackGroup
    BY DEF PodCall
<1>2. /\ DOMAIN W = DOMAIN V \cup GroupIds(c, group)
      /\ \A e \in GroupIds(c, group) : W[e] = EntityData(c, group, e)
      /\ \A e \in DOMAIN V \ GroupIds(c, group) : W[e] = V[e]
    BY DEF Updated, GroupData, GroupIds
<1>3. /\ Pairs(DOMAIN new) /\ ComeBothWays(new) /\ IsFiniteSet(DOMAIN new)
      /\ \A e \in DOMAIN new :
            /\ {e[1], e[2]} \subseteq GroupIds(c, group) \cup SpineIds(c)
            /\ new[e] \in LinkMetrics
            /\ Shaped(e[1], e[2], new[e].link_type)
    BY <1>1, GroupLinksAreShaped
<1>4. Wired(V, L) /\ Multigraph(L)
    BY DEF Fabric, Wired
<1>. HIDE DEF new, W
<1>5. Wired(W, M)
  <2>1. IsFiniteSet(DOMAIN W)
    <3>1. IsFiniteSet(GroupIds(c, group))
        BY <1>1, GroupIsFinite
    <3>2. IsFiniteSet(DOMAIN V)
        BY <1>4 DEF Wired
    <3>. QED
        BY <1>2, <3>1, <3>2, FS_Union
  <2>2. \A e \in DOMAIN new : {e[1], e[2]} \subseteq DOMAIN W
      BY <1>2, <1>3
  <2>3. DOMAIN V \subseteq DOMAIN W
      BY <1>2
  <2>. QED
      BY <1>3, <1>4, <2>1, <2>2, <2>3, AddAllKeepsWired
<1>6. Keeps(L, M)
    BY <1>3, <1>4, AddAllAdds
<1>7. ASSUME NEW T \in GroupTypes, NEW e \in GroupPairs(c, group)[T]
      PROVE  Joined(M, e[1], e[2], T)
  <2>1. e \in DOMAIN new /\ new[e].link_type = T
      BY GroupLinksOfType DEF new
  <2>2. e = <<e[1], e[2]>>
      BY <1>3, <2>1 DEF Pairs
  <2>. DEFINE u == e[1]
              v == e[2]
  <2>3. Joined(M, u, v, new[<<u, v>>].link_type)
      BY <1>3, <1>4, <2>1, <2>2, NewIsJoined
  <2>. QED
      BY <2>1, <2>2, <2>3
<1>. HIDE DEF M
<1>8. ASSUME NEW e \in DOMAIN W
      PROVE  \E d \in cs : MadeBy(d, e, W[e])
  <2>1. CASE e \in GroupIds(c, group)
      BY <1>2, <2>1 DEF MadeBy
  <2>2. CASE e \notin GroupIds(c, group)
      BY <1>2, <2>2 DEF Fabric
  <2>. QED
      BY <2>1, <2>2
<1>9. ASSUME NEW e \in GroupIds(c, group)
      PROVE  Contained(W, M, cs, e)
  <2>1. CASE e \in LeafIds(c, group)
    <3>1. e[1] = "leaf" /\ e[2] = c.pod
        BY <2>1, GroupMembers
    <3>2. ASSUME NEW s \in SpineIds(c)
          PROVE  Joined(M, e, s, "spine_uplink")
      <4>. DEFINE p == <<e, s>>
      <4>1. p \in GroupPairs(c, group)["spine_uplink"] /\ p[1] = e /\ p[2] = s
          BY <2>1 DEF GroupPairs, BothWays
      <4>. HIDE DEF p
      <4>. QED
          BY <1>7, <4>1 DEF GroupTypes
    <3>. QED
        BY <3>1, <3>2 DEF Contained
  <2>2. CASE e \in NodeIds(c, group)
    <3>1. e[1] = "node" /\ e[2] \in LeafIds(c, group)
        BY <2>2, GroupMembers
    <3>. DEFINE p == <<e, e[2]>>
    <3>2. p \in GroupPairs(c, group)["leaf_uplink"] /\ p[1] = e /\ p[2] = e[2]
        BY <2>2 DEF GroupPairs, BothWays
    <3>. HIDE DEF p
    <3>3. Joined(M, e, e[2], "leaf_uplink")
        BY <1>7, <3>2 DEF GroupTypes
    <3>4. W[e].gpu_ids = GpuIds(group, e)
      <4>1. EntityData(c, group, e) = [kind |-> "node", leaf_id |-> e[2], gpu_ids |-> GpuIds(group, e)]
          BY <3>1 DEF EntityData
      <4>. QED
          BY <1>2, <4>1
    <3>5. Range(GpuIds(group, e)) \subseteq GroupIds(c, group)
        BY <2>2 DEF GroupIds, GroupGpus
    <3>. QED
        BY <1>2, <3>1, <3>3, <3>4, <3>5 DEF Contained, GroupIds
  <2>3. CASE e \in GroupGpus(c, group)
    <3>1. e[1] = "gpu" /\ e[2] \in NodeIds(c, group)
        BY <2>3, GroupMembers
    <3>. DEFINE p == <<e, e[2]>>
    <3>2. p \in GroupPairs(c, group)["pcie"] /\ p[1] = e /\ p[2] = e[2]
        BY <2>3 DEF GroupPairs, BothWays
    <3>. HIDE DEF p
    <3>3. Joined(M, e, e[2], "pcie")
        BY <1>7, <3>2 DEF GroupTypes
    <3>. QED
        BY <1>2, <3>1, <3>3 DEF Contained, GroupIds
  <2>. QED
      BY <2>1, <2>2, <2>3 DEF GroupIds
<1>10. ASSUME NEW e \in DOMAIN V, e \notin GroupIds(c, group)
       PROVE  Contained(W, M, cs, e)
  <2>1. Contained(V, L, cs, e)
      BY DEF Fabric
  <2>2. \A v, T : Joined(L, e, v, T) => Joined(M, e, v, T)
      BY <1>6, JoinedStays
  <2>3. W[e] = V[e] /\ DOMAIN V \subseteq DOMAIN W
      BY <1>2, <1>10
  <2>. QED
      BY <2>1, <2>2, <2>3 DEF Contained
<1>11. Fabric(W, M, cs)
    BY <1>2, <1>5, <1>8, <1>9, <1>10 DEF Fabric
<1>12. Grows(V, L, W, M)
    BY <1>2, <1>6 DEF Grows
<1>. QED
    BY <1>11, <1>12 DEF W, M, new

LEMMA SpinesKeepFabric ==
    ASSUME NEW cs \in SUBSET PodCall, NEW c \in PodCall, NEW V, NEW L, Fabric(V, L, cs)
    PROVE  LET W == Updated(V, SpineData(c))
           IN  Fabric(W, L, cs \cup {c}) /\ Grows(V, L, W, L) /\ SpineIds(c) \subseteq DOMAIN W
<1>. DEFINE W == Updated(V, SpineData(c))
<1>1. /\ DOMAIN W = DOMAIN V \cup SpineIds(c)
      /\ \A e \in SpineIds(c) : W[e] = [kind |-> "spine", pod_id |-> c.pod]
      /\ \A e \in DOMAIN V \ SpineIds(c) : W[e] = V[e]
    BY DEF Updated, SpineData
<1>. HIDE DEF W
<1>2. Wired(V, L)
    BY DEF Fabric
<1>3. IsFiniteSet(DOMAIN W)
  <2>1. IsFiniteSet(SpineIds(c))
    <3>. DEFINE f == [i \in 1..c.spine_count |-> Spine(c.pod, i)]
    <3>1. DOMAIN f = 1..c.spine_count /\ {f[i] : i \in 1..c.spine_count} = SpineIds(c)
        BY DEF SpineIds
    <3>2. c.spine_count \in Int
        BY DEF PodCall
    <3>3. IsFiniteSet(1..c.spine_count)
        BY <3>2, FS_Interval
    <3>4. IsFiniteSet({f[i] : i \in DOMAIN f})
        BY <3>1, <3>3, ImageIsFinite
    <3>. QED
        BY <3>1, <3>4
  <2>2. IsFiniteSet(DOMAIN V)
      BY <1>2 DEF Wired
  <2>. QED
      BY <1>1, <2>1, <2>2, FS_Union
<1>4. Wired(W, L)
    BY <1>1, <1>2, <1>3 DEF Wired
<1>5. ASSUME NEW e \in DOMAIN W
      PROVE  \E d \in cs \cup {c} : MadeBy(d, e, W[e])
    BY <1>1 DEF Fabric, MadeBy
<1>6. ASSUME NEW e \in DOMAIN W
      PROVE  Contained(W, L, cs \cup {c}, e)
  <2>1. CASE e \in SpineIds(c)
    <3>1. e[1] = "spine"
        BY <2>1 DEF SpineIds, Spine
    <3>. QED
        BY <3>1 DEF Contained
  <2>2. CASE e \notin SpineIds(c)
    <3>1. Contained(V, L, cs, e) /\ W[e] = V[e]
        BY <1>1, <2>2 DEF Fabric
    <3>. QED
        BY <1>1, <3>1 DEF Contained
  <2>. QED
      BY <2>1, <2>2
<1>7. Fabric(W, L, cs \cup {c})
    BY <1>4, <1>5, <1>6 DEF Fabric
<1>8. Grows(V, L, W, L) /\ SpineIds(c) \subseteq DOMAIN W
    BY <1>1 DEF Grows, Keeps
<1>. QED
    BY <1>7, <1>8 DEF W

\* populate_pod adds one group after the other.
StepByStep(topology, c, after) ==
    /\ after[0] = WithSpines(topology, c)
    /\ \A n \in Nat : n + 1 \in DOMAIN c.rack_groups =>
          after[n + 1] = WithGroup(after[n], c, c.rack_groups[n + 1])

LEMMA PopulatedStepByStep ==
    ASSUME NEW topology, NEW c \in PodCall
    PROVE  \E after : /\ StepByStep(topology, c, after)
                      /\ Populated(topology, c) = after[Len(c.rack_groups)]
<1>. DEFINE Item(after, n) == IF n = 0 THEN WithSpines(topology, c)
                              ELSE WithGroup(after[n - 1], c, c.rack_groups[n])
            Solves(after, m) == after = [n \in 0..m |-> Item(after, n)]
            solved == {m \in Nat : \E after : Solves(after, m)}
            size == Len(c.rack_groups)
<1>1. 0 \in solved
  <2>. DEFINE after == [n \in 0..0 |-> WithSpines(topology, c)]
  <2>1. Solves(after, 0)
      OBVIOUS
  <2>. HIDE DEF Solves
  <2>. QED
      BY <2>1
<1>2. ASSUME NEW m \in Nat, m \in solved
      PROVE  m + 1 \in solved
  <2>1. PICK after : Solves(after, m)
      BY <1>2
  <2>. DEFINE more == [n \in 0..(m + 1) |-> Item(after, n)]
  <2>2. \A n \in 0..m : after[n] = Item(after, n)
    <3>. HIDE DEF Item
    <3>. QED
        BY <2>1
  <2>3. \A n \in 0..m : n \in 0..(m + 1) /\ more[n] = after[n]
    <3>. HIDE DEF Item
    <3>. QED
        BY <2>2
  <2>4. \A n \in 0..(m + 1) : n # 0 => n - 1 \in 0..m
      OBVIOUS
  <2>5. \A n \in 0..(m + 1) : Item(more, n) = Item(after, n)
    <3>. HIDE DEF more
    <3>. QED
        BY <2>3, <2>4
  <2>6. Solves(more, m + 1)
    <3>. HIDE DEF Item
    <3>. QED
        BY <2>5
  <2>. HIDE DEF Solves
  <2>. QED
      BY <2>6
<1>3. size \in Nat /\ DOMAIN c.rack_groups = 1..size
    BY DEF PodCall
<1>4. size \in solved
  <2>1. \A m \in Nat : m \in solved
    <3>. HIDE DEF solved
    <3>. QED
        BY <1>1, <1>2, Induct
  <2>. HIDE DEF solved
  <2>. QED
      BY <1>3, <2>1
<1>. DEFINE after == CHOOSE f : Solves(f, size)
<1>5. Solves(after, size)
  <2>. HIDE DEF Solves
  <2>. QED
      BY <1>4
<1>6. Populated(topology, c) = after[size]
    BY DEF Populated
<1>. HIDE DEF after
<1>7. \A n \in 0..size : after[n] = Item(after, n)
  <2>. HIDE DEF Item
  <2>. QED
      BY <1>5
<1>8. after[0] = WithSpines(topology, c)
    BY <1>3, <1>7
<1>9. ASSUME NEW n \in Nat, n + 1 \in DOMAIN c.rack_groups
      PROVE  after[n + 1] = WithGroup(after[n], c, c.rack_groups[n + 1])
  <2>. DEFINE k == n + 1
  <2>1. k \in 0..size /\ k # 0 /\ k - 1 = n
      BY <1>3, <1>9
  <2>2. after[k] = Item(after, k)
      BY <1>7, <2>1
  <2>. HIDE DEF k
  <2>3. after[k] = WithGroup(after[n], c, c.rack_groups[k])
      BY <2>1, <2>2
  <2>. QED
      BY <2>3 DEF k
<1>. QED
    BY <1>6, <1>8, <1>9 DEF StepByStep

LEMMA PopulatedKeepsFabric ==
    ASSUME NEW cs \in SUBSET PodCall, NEW c \in PodCall, NEW t,
           Fabric(t.vertices, t.links, cs)
    PROVE  LET p == Populated(t, c)
           IN  /\ Fabric(p.vertices, p.links, cs \cup {c})
               /\ Grows(t.vertices, t.links, p.vertices, p.links)
               /\ SpineIds(c) \subseteq DOMAIN p.vertices
<1>. DEFINE Kept(p) == /\ Fabric(p.vertices, p.links, cs \cup {c})
                       /\ Grows(t.vertices, t.links, p.vertices, p.links)
                       /\ SpineIds(c) \subseteq DOMAIN p.vertices
            size == Len(c.rack_groups)
<1>1. PICK after : StepByStep(t, c, after) /\ Populated(t, c) = after[size]
    BY PopulatedStepByStep
<1>. DEFINE good == {n \in Nat : n <= size => Kept(after[n])}
<1>2. size \in Nat /\ DOMAIN c.rack_groups = 1..size
    BY DEF PodCall
<1>3. Kept(after[0])
  <2>. DEFINE V == t.vertices
              L == t.links
              W == Updated(V, SpineData(c))
  <2>1. after[0] = [vertices |-> W, links |-> L]
      BY <1>1 DEF StepByStep, WithSpines
  <2>2. Fabric(W, L, cs \cup {c}) /\ Grows(V, L, W, L) /\ SpineIds(c) \subseteq DOMAIN W
    <3>1. Fabric(V, L, cs)
        OBVIOUS
    <3>. HIDE DEF V, L
    <3>. QED
        BY <3>1, SpinesKeepFabric
  <2>. HIDE DEF W
  <2>. QED
      BY <2>1, <2>2
<1>4. ASSUME NEW n \in Nat, n \in good
      PROVE  n + 1 \in good
  <2>. SUFFICES ASSUME n + 1 <= size
                PROVE  Kept(after[n + 1])
      OBVIOUS
  <2>. DEFINE k == n + 1
              p == after[n]
              V == p.vertices
              L == p.links
              group == c.rack_groups[k]
              W == Updated(V, GroupData(c, group))
              M == AddAll(L, GroupLinks(c, group))
  <2>1. Kept(p) /\ k \in DOMAIN c.rack_groups
      BY <1>2, <1>4
  <2>2. after[k] = [vertices |-> W, links |-> M]
      BY <1>1, <2>1 DEF StepByStep, WithGroup
  <2>3. Fabric(W, M, cs \cup {c}) /\ Grows(V, L, W, M)
    <3>1. cs \cup {c} \in SUBSET PodCall /\ c \in cs \cup {c}
        OBVIOUS
    <3>2. Fabric(V, L, cs \cup {c}) /\ SpineIds(c) \subseteq DOMAIN V
        BY <2>1
    <3>. DEFINE ds == cs \cup {c}
    <3>. HIDE DEF k, p, V, L, ds
    <3>. QED
        BY <2>1, <3>1, <3>2, GroupKeepsFabric DEF ds
  <2>. HIDE DEF k, W, M
  <2>4. Grows(t.vertices, t.links, W, M) /\ SpineIds(c) \subseteq DOMAIN W
      BY <2>1, <2>3 DEF Grows, Keeps
  <2>5. Kept(after[k])
      BY <2>2, <2>3, <2>4
  <2>. QED
      BY <2>5 DEF k
<1>5. size \in good
  <2>1. 0 \in good
      BY <1>3
  <2>2. \A n \in Nat : n \in good
    <3>. HIDE DEF good
    <3>. QED
        BY <1>4, <2>1, Induct
  <2>. HIDE DEF good
  <2>. QED
      BY <1>2, <2>2
<1>. QED
    BY <1>1, <1>2, <1>5
-----------------------------------------------------------------------------
(* Every topology that the builders make.                                  *)

\* The calls of the first AZs.
FirstAzs(n) == {AzCall(i) : i \in 1..n}

LEMMA AzCallIsPodCall ==
    ASSUME NEW i \in Nat
    PROVE  AzCall(i) \in PodCall
BY SamplesAssumption DEF AzCall, PodCall

LEMMA PodsStepByStep ==
    ASSUME NEW az_count \in Nat
    PROVE  \E after : /\ after[0] = Empty
                      /\ \A n \in Nat : n < az_count =>
                            after[n + 1] = Populated(after[n], AzCall(n + 1))
                      /\ Pods(az_count) = after[az_count]
<1>. DEFINE Item(after, n) == IF n = 0 THEN Empty ELSE Populated(after[n - 1], AzCall(n))
            Solves(after, m) == after = [n \in 0..m |-> Item(after, n)]
            solved == {m \in Nat : \E after : Solves(after, m)}
<1>1. 0 \in solved
  <2>. DEFINE after == [n \in 0..0 |-> Empty]
  <2>1. Solves(after, 0)
      OBVIOUS
  <2>. HIDE DEF Solves
  <2>. QED
      BY <2>1
<1>2. ASSUME NEW m \in Nat, m \in solved
      PROVE  m + 1 \in solved
  <2>1. PICK after : Solves(after, m)
      BY <1>2
  <2>. DEFINE more == [n \in 0..(m + 1) |-> Item(after, n)]
  <2>2. \A n \in 0..m : after[n] = Item(after, n)
    <3>. HIDE DEF Item
    <3>. QED
        BY <2>1
  <2>3. \A n \in 0..m : n \in 0..(m + 1) /\ more[n] = after[n]
    <3>. HIDE DEF Item
    <3>. QED
        BY <2>2
  <2>4. \A n \in 0..(m + 1) : n # 0 => n - 1 \in 0..m
      OBVIOUS
  <2>5. \A n \in 0..(m + 1) : Item(more, n) = Item(after, n)
    <3>. HIDE DEF more
    <3>. QED
        BY <2>3, <2>4
  <2>6. Solves(more, m + 1)
    <3>. HIDE DEF Item
    <3>. QED
        BY <2>5
  <2>. HIDE DEF Solves
  <2>. QED
      BY <2>6
<1>3. az_count \in solved
  <2>1. \A m \in Nat : m \in solved
    <3>. HIDE DEF solved
    <3>. QED
        BY <1>1, <1>2, Induct
  <2>. HIDE DEF solved
  <2>. QED
      BY <2>1
<1>. DEFINE after == CHOOSE f : Solves(f, az_count)
<1>4. Solves(after, az_count)
  <2>. HIDE DEF Solves
  <2>. QED
      BY <1>3
<1>5. Pods(az_count) = after[az_count]
    BY DEF Pods
<1>. HIDE DEF after
<1>6. \A n \in 0..az_count : after[n] = Item(after, n)
  <2>. HIDE DEF Item
  <2>. QED
      BY <1>4
<1>7. after[0] = Empty
    BY <1>6
<1>8. ASSUME NEW n \in Nat, n < az_count
      PROVE  after[n + 1] = Populated(after[n], AzCall(n + 1))
  <2>. DEFINE k == n + 1
  <2>1. k \in 0..az_count /\ k # 0 /\ k - 1 = n
      BY <1>8
  <2>2. after[k] = Item(after, k)
      BY <1>6, <2>1
  <2>. HIDE DEF k
  <2>3. after[k] = Populated(after[n], AzCall(k))
      BY <2>1, <2>2
  <2>. QED
      BY <2>3 DEF k
<1>. QED
    BY <1>5, <1>7, <1>8

LEMMA EmptyIsFabric == Fabric(Empty.vertices, Empty.links, {})
<1>1. Empty.vertices = <<>> /\ Empty.links = <<>> /\ DOMAIN <<>> = {}
    BY DEF Empty
<1>2. IsFiniteSet({})
    BY FS_EmptySet
<1>. QED
    BY <1>1, <1>2 DEF Fabric, Wired, Multigraph, Duplex

LEMMA PodsAreFabric ==
    ASSUME NEW az_count \in Nat
    PROVE  LET p == Pods(az_count)
           IN  /\ Fabric(p.vertices, p.links, FirstAzs(az_count))
               /\ \A i \in 1..az_count : Spine(i, 1) \in DOMAIN p.vertices
<1>1. PICK after : /\ after[0] = Empty
                   /\ \A n \in Nat : n < az_count =>
                         after[n + 1] = Populated(after[n], AzCall(n + 1))
                   /\ Pods(az_count) = after[az_count]
    BY PodsStepByStep
<1>. DEFINE Sound(p, n) == /\ Fabric(p.vertices, p.links, FirstAzs(n))
                           /\ \A i \in 1..n : Spine(i, 1) \in DOMAIN p.vertices
            good == {n \in Nat : n <= az_count => Sound(after[n], n)}
<1>2. 0 \in good
  <2>1. FirstAzs(0) = {} /\ 1..0 = {}
      BY DEF FirstAzs
  <2>2. Sound(Empty, 0)
      BY <2>1, EmptyIsFabric
  <2>. QED
      BY <1>1, <2>2
<1>3. ASSUME NEW n \in Nat, n \in good
      PROVE  n + 1 \in good
  <2>. SUFFICES ASSUME n + 1 <= az_count
                PROVE  Sound(after[n + 1], n + 1)
      OBVIOUS
  <2>. DEFINE k == n + 1
              c == AzCall(k)
              t == after[n]
              p == Populated(t, c)
  <2>1. Sound(t, n) /\ after[k] = p /\ k \in Nat
      BY <1>1, <1>3
  <2>2. FirstAzs(n) \in SUBSET PodCall /\ c \in PodCall
      BY AzCallIsPodCall DEF FirstAzs
  <2>3. FirstAzs(k) = FirstAzs(n) \cup {c}
    <3>1. 1..k = (1..n) \cup {k}
        OBVIOUS
    <3>. HIDE DEF k
    <3>. QED
        BY <3>1 DEF FirstAzs
  <2>4. /\ Fabric(p.vertices, p.links, FirstAzs(n) \cup {c})
        /\ Grows(t.vertices, t.links, p.vertices, p.links)
        /\ SpineIds(c) \subseteq DOMAIN p.vertices
    <3>. HIDE DEF c, t
    <3>. QED
        BY <2>1, <2>2, PopulatedKeepsFabric
  <2>5. Spine(k, 1) \in SpineIds(c)
    <3>1. c.pod = k /\ c.spine_count \in Nat /\ c.spine_count > 0
        BY <2>2, SamplesAssumption DEF AzCall, PodCall
    <3>. QED
        BY <3>1 DEF SpineIds
  <2>6. ASSUME NEW i \in 1..k
        PROVE  Spine(i, 1) \in DOMAIN p.vertices
    <3>1. CASE i \in 1..n
        BY <2>1, <2>4, <3>1 DEF Grows
    <3>2. CASE i = k
        BY <2>4, <2>5, <3>2
    <3>. QED
        BY <3>1, <3>2
  <2>. HIDE DEF k, p
  <2>7. Sound(p, k)
      BY <2>3, <2>4, <2>6
  <2>. QED
      BY <2>1, <2>7 DEF k
<1>4. az_count \in good
  <2>1. \A n \in Nat : n \in good
    <3>. HIDE DEF good
    <3>. QED
        BY <1>2, <1>3, Induct
  <2>. HIDE DEF good
  <2>. QED
      BY <2>1
<1>. QED
    BY <1>1, <1>4

LEMMA BackboneJoinsAll ==
    ASSUME NEW n \in Nat
    PROVE  LET new == Backbone(n)
           IN  /\ Pairs(DOMAIN new) /\ ComeBothWays(new) /\ IsFiniteSet(DOMAIN new)
               /\ \A e \in DOMAIN new :
                     /\ {e[1], e[2]} \subseteq {Spine(i, 1) : i \in 1..n}
                     /\ new[e] = Default["inter_pod"]
                     /\ Shaped(e[1], e[2], "inter_pod")
               /\ \A i, j \in 1..n : i # j => <<Spine(i, 1), Spine(j, 1)>> \in DOMAIN new
<1>. DEFINE new == Backbone(n)
            ordered == {a \in (1..n) \X (1..n) : a[1] < a[2]}
            pairs == {<<Spine(a[1], 1), Spine(a[2], 1)>> : a \in ordered}
            spines == {Spine(i, 1) : i \in 1..n}
<1>1. new = [e \in BothWays(pairs) |-> Default["inter_pod"]] /\ DOMAIN new = BothWays(pairs)
    BY DEF Backbone
<1>2. ASSUME NEW d \in pairs
      PROVE  d = <<d[1], d[2]>> /\ d[1] \in spines /\ d[2] \in spines
    OBVIOUS
<1>3. Pairs(pairs)
    BY <1>2 DEF Pairs
<1>4. ASSUME NEW e \in DOMAIN new
      PROVE  /\ e = <<e[1], e[2]>> /\ e[1] \in spines /\ e[2] \in spines
             /\ <<e[2], e[1]>> \in DOMAIN new
  <2>1. e \in BothWays(pairs)
      BY <1>1
  <2>. HIDE DEF pairs, spines, new
  <2>2. /\ e = <<e[1], e[2]>> /\ <<e[2], e[1]>> \in BothWays(pairs)
        /\ e \in pairs \/ <<e[2], e[1]>> \in pairs
      BY <1>3, <2>1, BothWaysBack
  <2>. DEFINE f == <<e[2], e[1]>>
  <2>3. f[1] = e[2] /\ f[2] = e[1] /\ (e \in pairs \/ f \in pairs)
      BY <2>2
  <2>. HIDE DEF f
  <2>4. e[1] \in spines /\ e[2] \in spines
      BY <1>2, <2>3
  <2>. QED
      BY <1>1, <2>2, <2>4
<1>5. \A e \in DOMAIN new : new[e] = Default["inter_pod"]
    BY <1>1
<1>6. \A e \in DOMAIN new : Shaped(e[1], e[2], "inter_pod")
  <2>1. \A s \in spines : s[1] = "spine"
      BY DEF Spine
  <2>. QED
      BY <1>4, <2>1 DEF Shaped, Beside
<1>7. IsFiniteSet(DOMAIN new)
  <2>. DEFINE f == [i \in 1..n |-> Spine(i, 1)]
  <2>1. DOMAIN f = 1..n /\ {f[i] : i \in 1..n} = spines
      OBVIOUS
  <2>2. IsFiniteSet(1..n)
      BY FS_Interval
  <2>3. IsFiniteSet({f[i] : i \in DOMAIN f})
      BY <2>1, <2>2, ImageIsFinite
  <2>. HIDE DEF spines, new
  <2>4. IsFiniteSet(spines \X spines)
      BY <2>1, <2>3, FS_Product
  <2>5. DOMAIN new \subseteq spines \X spines
    <3>1. ASSUME NEW e \in DOMAIN new
          PROVE  e \in spines \X spines
      <4>1. e = <<e[1], e[2]>> /\ e[1] \in spines /\ e[2] \in spines
          BY <1>4 DEF spines, new
      <4>. QED
          BY <4>1
    <3>. QED
        BY <3>1
  <2>. QED
      BY <2>4, <2>5, FS_Subset
<1>8. ASSUME NEW i \in 1..n, NEW j \in 1..n, i # j
      PROVE  <<Spine(i, 1), Spine(j, 1)>> \in DOMAIN new
  <2>1. ASSUME NEW k \in 1..n, NEW m \in 1..n, k < m
        PROVE  <<Spine(k, 1), Spine(m, 1)>> \in pairs
    <3>. DEFINE a == <<k, m>>
    <3>1. a \in ordered /\ a[1] = k /\ a[2] = m
        BY <2>1
    <3>. HIDE DEF a, ordered
    <3>. QED
        BY <3>1
  <2>2. CASE i < j
      BY <1>1, <2>1, <2>2 DEF BothWays
  <2>3. CASE j < i
    <3>. DEFINE d == <<Spine(j, 1), Spine(i, 1)>>
    <3>1. d \in pairs /\ d[1] = Spine(j, 1) /\ d[2] = Spine(i, 1)
        BY <2>1, <2>3
    <3>. HIDE DEF d, pairs, new
    <3>2. <<d[2], d[1]>> \in BothWays(pairs)
        BY <3>1 DEF BothWays
    <3>. QED
        BY <1>1, <3>1, <3>2
  <2>4. i < j \/ j < i
      BY <1>8
  <2>. HIDE DEF new
  <2>. QED
      BY <2>2, <2>3, <2>4
<1>9. ComeBothWays(new)
    BY <1>4, <1>5 DEF ComeBothWays
<1>10. Pairs(DOMAIN new)
    BY <1>4 DEF Pairs
<1>. QED
    BY <1>4, <1>5, <1>6, <1>7, <1>8, <1>9, <1>10

Backboned(L, n) ==
    \A i, j \in 1..n : i # j => Joined(L, Spine(i, 1), Spine(j, 1), "inter_pod")

BuildInv ==
    /\ calls \in Seq(PodCall) /\ azs \in Nat
    /\ Fabric(vertices, links, Range(calls))
    /\ Backboned(links, azs)

LEMMA RegionIsFabric ==
    ASSUME NEW n \in Nat
    PROVE  LET p == Pods(n)
               M == AddAll(p.links, Backbone(n))
           IN  Fabric(p.vertices, M, FirstAzs(n)) /\ Backboned(M, n)
<1>. DEFINE V == Pods(n).vertices
            L == Pods(n).links
            new == Backbone(n)
            M == AddAll(L, new)
<1>1. Fabric(V, L, FirstAzs(n)) /\ \A i \in 1..n : Spine(i, 1) \in DOMAIN V
    BY PodsAreFabric
<1>2. /\ Pairs(DOMAIN new) /\ ComeBothWays(new) /\ IsFiniteSet(DOMAIN new)
      /\ \A e \in DOMAIN new :
            /\ {e[1], e[2]} \subseteq {Spine(i, 1) : i \in 1..n}
            /\ new[e] = Default["inter_pod"]
            /\ Shaped(e[1], e[2], "inter_pod")
      /\ \A i, j \in 1..n : i # j => <<Spine(i, 1), Spine(j, 1)>> \in DOMAIN new
    BY BackboneJoinsAll
<1>3. Default["inter_pod"] \in LinkMetrics /\ Default["inter_pod"].link_type = "inter_pod"
    BY SamplesAssumption DEF PerLinkType, LinkTypes
<1>. HIDE DEF V, L, new
<1>4. Wired(V, L) /\ Multigraph(L) /\ IsFiniteSet(DOMAIN V)
    BY <1>1 DEF Fabric, Wired
<1>5. \A e \in DOMAIN new :
          /\ {e[1], e[2]} \subseteq DOMAIN V
          /\ new[e] \in LinkMetrics
          /\ Shaped(e[1], e[2], new[e].link_type)
    BY <1>1, <1>2, <1>3
<1>6. Wired(V, M)
    BY <1>2, <1>4, <1>5, AddAllKeepsWired
<1>7. Keeps(L, M)
    BY <1>2, <1>4, AddAllAdds
<1>8. Backboned(M, n)
  <2>1. ASSUME NEW i \in 1..n, NEW j \in 1..n, i # j
        PROVE  Joined(M, Spine(i, 1), Spine(j, 1), "inter_pod")
    <3>. DEFINE u == Spine(i, 1)
                v == Spine(j, 1)
    <3>1. <<u, v>> \in DOMAIN new /\ new[<<u, v>>].link_type = "inter_pod"
        BY <1>2, <1>3, <2>1
    <3>. HIDE DEF u, v, M
    <3>2. Joined(M, u, v, new[<<u, v>>].link_type)
        BY <1>2, <1>4, <3>1, NewIsJoined DEF M
    <3>. QED
        BY <3>1, <3>2 DEF u, v
  <2>. QED
      BY <2>1 DEF Backboned
<1>. HIDE DEF M
<1>9. Fabric(V, M, FirstAzs(n))
  <2>1. \A e, v, T : Joined(L, e, v, T) => Joined(M, e, v, T)
      BY <1>7, JoinedStays
  <2>2. \A e \in DOMAIN V : Contained(V, M, FirstAzs(n), e)
      BY <1>1, <2>1 DEF Fabric, Contained
  <2>. QED
      BY <1>1, <1>6, <2>2 DEF Fabric
<1>. QED
    BY <1>8, <1>9 DEF V, L, M, new

LEMMA RangeOfAppend ==
    ASSUME NEW S, NEW s \in Seq(S), NEW x
    PROVE  Range(Append(s, x)) = Range(s) \cup {x}
<1>. DEFINE n == Len(s) + 1
            r == Append(s, x)
<1>1. n \in Nat /\ DOMAIN s = 1..Len(s) /\ DOMAIN r = 1..n /\ n \in 1..n /\ 1..n = (1..Len(s)) \cup {n}
    OBVIOUS
<1>2. r[n] = x /\ \A i \in 1..Len(s) : r[i] = s[i]
    OBVIOUS
<1>. HIDE DEF n, r
<1>3. Range(r) = Range(s) \cup {x}
    BY <1>1, <1>2 DEF Range
<1>. QED
    BY <1>3 DEF r

LEMMA BuildInit == Init => BuildInv
<1>. SUFFICES ASSUME Init
              PROVE  BuildInv
    OBVIOUS
<1>1. calls \in Seq(PodCall) /\ Range(calls) = {} /\ azs \in Nat
    BY DEF Init, Range
<1>2. Fabric(vertices, links, {})
    BY EmptyIsFabric DEF Init, Empty
<1>3. Backboned(links, azs)
    BY DEF Init, Backboned
<1>. QED
    BY <1>1, <1>2, <1>3 DEF BuildInv

LEMMA BuildStep == BuildInv /\ [Next]_vars => BuildInv'
<1>. SUFFICES ASSUME BuildInv, [Next]_vars
              PROVE  BuildInv'
    OBVIOUS
<1>1. ASSUME NEW c \in PodCalls, PopulatePod(c)
      PROVE  BuildInv'
  <2>. DEFINE p == Populated(Graph, c)
  <2>1. c \in PodCall /\ Range(calls) \in SUBSET PodCall
      BY SamplesAssumption DEF BuildInv, Range
  <2>2. /\ Fabric(p.vertices, p.links, Range(calls) \cup {c})
        /\ Grows(vertices, links, p.vertices, p.links)
    <3>1. Graph.vertices = vertices /\ Graph.links = links
        BY DEF Graph
    <3>2. Fabric(Graph.vertices, Graph.links, Range(calls))
        BY <3>1 DEF BuildInv
    <3>3. /\ Fabric(p.vertices, p.links, Range(calls) \cup {c})
          /\ Grows(Graph.vertices, Graph.links, p.vertices, p.links)
        BY <2>1, <3>2, PopulatedKeepsFabric
    <3>. QED
        BY <3>1, <3>3
  <2>3. vertices' = p.vertices /\ links' = p.links /\ calls' = Append(calls, c) /\ azs' = azs
      BY <1>1 DEF PopulatePod, Becomes
  <2>4. calls' \in Seq(PodCall) /\ Range(calls') = Range(calls) \cup {c}
      BY <2>1, <2>3, RangeOfAppend DEF BuildInv
  <2>. HIDE DEF p
  <2>5. Backboned(links', azs)
    <3>1. \A u, v, T : Joined(links, u, v, T) => Joined(links', u, v, T)
        BY <2>2, <2>3, JoinedStays DEF Grows
    <3>. QED
        BY <3>1 DEF BuildInv, Backboned
  <2>6. Fabric(vertices', links', Range(calls'))
      BY <2>2, <2>3, <2>4
  <2>. QED
      BY <2>3, <2>4, <2>5, <2>6 DEF BuildInv
<1>2. ASSUME NEW c \in Samples, BuildPod(c)
      PROVE  BuildInv'
  <2>. DEFINE p == Populated(Empty, c)
  <2>1. c \in PodCall
      BY SamplesAssumption
  <2>2. Fabric(p.vertices, p.links, {} \cup {c})
      BY <2>1, EmptyIsFabric, PopulatedKeepsFabric
  <2>3. vertices' = p.vertices /\ links' = p.links /\ calls' = <<c>> /\ azs' = 0
      BY <1>2 DEF BuildPod, Becomes
  <2>4. calls' \in Seq(PodCall) /\ Range(calls') = {} \cup {c}
      BY <2>1, <2>3 DEF Range
  <2>. HIDE DEF p
  <2>5. Backboned(links', 0)
      BY DEF Backboned
  <2>6. Fabric(vertices', links', Range(calls'))
      BY <2>2, <2>3, <2>4
  <2>. QED
      BY <2>3, <2>4, <2>5, <2>6 DEF BuildInv
<1>3. ASSUME NEW az_count \in 0..MaxAzs, BuildRegion(az_count)
      PROVE  BuildInv'
  <2>. DEFINE p == Pods(az_count)
              M == AddAll(p.links, Backbone(az_count))
  <2>1. az_count \in Nat
      BY SamplesAssumption
  <2>2. Fabric(p.vertices, M, FirstAzs(az_count)) /\ Backboned(M, az_count)
      BY <2>1, RegionIsFabric
  <2>3. vertices' = p.vertices /\ links' = M /\ calls' = AzCalls(az_count) /\ azs' = az_count
      BY <1>3 DEF BuildRegion, Becomes
  <2>4. calls' \in Seq(PodCall) /\ Range(calls') = FirstAzs(az_count)
    <3>1. \A i \in 1..az_count : AzCall(i) \in PodCall
        BY <2>1, AzCallIsPodCall
    <3>. QED
        BY <2>1, <2>3, <3>1 DEF AzCalls, Range, FirstAzs
  <2>. HIDE DEF p, M
  <2>5. Fabric(vertices', links', Range(calls')) /\ Backboned(links', azs')
      BY <2>2, <2>3, <2>4
  <2>. QED
      BY <2>1, <2>3, <2>4, <2>5 DEF BuildInv
<1>4. ASSUME UNCHANGED vars
      PROVE  BuildInv'
    BY <1>4 DEF vars, graphVars, BuildInv
<1>. QED
    BY <1>1, <1>2, <1>3, <1>4 DEF Next

LEMMA AlwaysBuilt == Spec => []BuildInv
BY BuildInit, BuildStep, PTL DEF Spec

\* Every link has the one back under its own key, whatever was populated over what
\* was there already (add_link and new_edge_key, topology.py:64-96).
THEOREM DuplexLinks == Spec => []LinksAreDuplex
<1>1. BuildInv => LinksAreDuplex
    BY DEF BuildInv, Fabric, Wired, Duplex, LinksAreDuplex
<1>. QED
    BY <1>1, AlwaysBuilt, PTL
-----------------------------------------------------------------------------
(* Containment and shared spines.                                          *)

\* What an identifier says of its entity is what the entity's data say.
DataAgree(e, d) ==
    /\ e[1] \in {"spine", "leaf", "node", "gpu"} /\ d.kind = e[1]
    /\ e[1] \in {"spine", "leaf"} => d.pod_id = e[2]
    /\ e[1] = "node" => d.leaf_id = e[2]
    /\ e[1] = "gpu" => d.node_id = e[2] /\ d.rail_index = e[3] - 1

LEMMA MadeDataAgree ==
    ASSUME NEW c, NEW e, NEW d, MadeBy(c, e, d)
    PROVE  DataAgree(e, d)
<1>1. CASE e \in SpineIds(c) /\ d = [kind |-> "spine", pod_id |-> c.pod]
  <2>1. e[1] = "spine" /\ e[2] = c.pod
      BY <1>1 DEF SpineIds, Spine
  <2>. QED
      BY <1>1, <2>1 DEF DataAgree
<1>2. ASSUME NEW i \in DOMAIN c.rack_groups, e \in GroupIds(c, c.rack_groups[i]),
             d = EntityData(c, c.rack_groups[i], e)
      PROVE  DataAgree(e, d)
  <2>. DEFINE group == c.rack_groups[i]
  <2>1. \/ e[1] = "leaf" /\ e[2] = c.pod
        \/ e[1] = "node"
        \/ e[1] = "gpu"
      BY <1>2, GroupMembers DEF GroupIds
  <2>2. CASE e[1] = "leaf"
    <3>1. d = [kind |-> "leaf", pod_id |-> c.pod]
        BY <1>2, <2>2 DEF EntityData
    <3>. QED
        BY <2>1, <2>2, <3>1 DEF DataAgree
  <2>3. CASE e[1] = "node"
    <3>1. d = [kind |-> "node", leaf_id |-> e[2], gpu_ids |-> GpuIds(group, e)]
        BY <1>2, <2>3 DEF EntityData
    <3>. QED
        BY <2>3, <3>1 DEF DataAgree
  <2>4. CASE e[1] = "gpu"
    <3>1. d = [kind |-> "gpu", node_id |-> e[2], rail_index |-> e[3] - 1]
        BY <1>2, <2>4 DEF EntityData
    <3>. QED
        BY <2>4, <3>1 DEF DataAgree
  <2>. QED
      BY <2>1, <2>2, <2>3, <2>4
<1>. QED
    BY <1>1, <1>2 DEF MadeBy

LEMMA VertexData ==
    ASSUME BuildInv, NEW e \in DOMAIN vertices
    PROVE  DataAgree(e, vertices[e]) /\ Contained(vertices, links, Range(calls), e)
<1>1. PICK c \in Range(calls) : MadeBy(c, e, vertices[e])
    BY DEF BuildInv, Fabric
<1>2. Contained(vertices, links, Range(calls), e)
    BY DEF BuildInv, Fabric
<1>. QED
    BY <1>1, <1>2, MadeDataAgree

LEMMA LinkedByJoined ==
    ASSUME Multigraph(links), NEW u, NEW v, NEW T
    PROVE  v \in LinkedBy(T, u) <=> Joined(links, u, v, T)
<1>1. ASSUME v \in LinkedBy(T, u)
      PROVE  Joined(links, u, v, T)
  <2>1. PICK x \in DOMAIN links : links[x].link_type = T /\ x[1] = u /\ x[2] = v
      BY <1>1 DEF LinkedBy, edges_of_type
  <2>2. x = <<x[1], x[2], x[3]>> /\ x[3] \in Nat
      BY DEF Multigraph
  <2>. QED
      BY <2>1, <2>2 DEF Joined
<1>2. ASSUME Joined(links, u, v, T)
      PROVE  v \in LinkedBy(T, u)
  <2>1. PICK k \in Nat : <<u, v, k>> \in DOMAIN links /\ links[<<u, v, k>>].link_type = T
      BY <1>2 DEF Joined
  <2>. DEFINE x == <<u, v, k>>
  <2>2. x \in DOMAIN links /\ links[x].link_type = T /\ x[1] = u /\ x[2] = v
      BY <2>1
  <2>. HIDE DEF x
  <2>. QED
      BY <2>2 DEF LinkedBy, edges_of_type
<1>. QED
    BY <1>1, <1>2

LEMMA JoinedBack ==
    ASSUME Wired(vertices, links), NEW u, NEW v, NEW T, Joined(links, u, v, T)
    PROVE  /\ Joined(links, v, u, T)
           /\ u \in DOMAIN vertices /\ v \in DOMAIN vertices
           /\ Shaped(u, v, T)
<1>1. PICK k \in Nat : <<u, v, k>> \in DOMAIN links /\ links[<<u, v, k>>].link_type = T
    BY DEF Joined
<1>. DEFINE x == <<u, v, k>>
<1>2. x \in DOMAIN links /\ links[x].link_type = T /\ x[1] = u /\ x[2] = v /\ x[3] = k
    BY <1>1
<1>. HIDE DEF x
<1>3. <<v, u, k>> \in DOMAIN links /\ links[<<v, u, k>>] = links[x]
    BY <1>2 DEF Wired, Duplex
<1>4. {x[1], x[2]} \subseteq DOMAIN vertices /\ Shaped(x[1], x[2], links[x].link_type)
    BY <1>2 DEF Wired
<1>5. Joined(links, v, u, T)
    BY <1>2, <1>3 DEF Joined
<1>. QED
    BY <1>2, <1>4, <1>5

\* A node's gpu_ids are those of its group.
LEMMA NodeData ==
    ASSUME BuildInv, NEW n \in OfKind("node")
    PROVE  /\ n \in DOMAIN vertices /\ n[1] = "node"
           /\ \E c \in Range(calls) : \E i \in DOMAIN c.rack_groups :
                 /\ n \in NodeIds(c, c.rack_groups[i])
                 /\ vertices[n].gpu_ids = GpuIds(c.rack_groups[i], n)
<1>1. n \in DOMAIN vertices /\ n[1] = "node"
    BY VertexData DEF OfKind, DataAgree
<1>2. PICK c \in Range(calls) : MadeBy(c, n, vertices[n])
    BY <1>1 DEF BuildInv, Fabric
<1>3. n \notin SpineIds(c)
    BY <1>1 DEF SpineIds, Spine
<1>4. PICK i \in DOMAIN c.rack_groups : /\ n \in GroupIds(c, c.rack_groups[i])
                                        /\ vertices[n] = EntityData(c, c.rack_groups[i], n)
    BY <1>2, <1>3 DEF MadeBy
<1>5. n \in NodeIds(c, c.rack_groups[i])
    BY <1>1, <1>4, GroupMembers DEF GroupIds
<1>6. vertices[n] = [kind |-> "node", leaf_id |-> n[2], gpu_ids |-> GpuIds(c.rack_groups[i], n)]
    BY <1>1, <1>4 DEF EntityData
<1>7. vertices[n].gpu_ids = GpuIds(c.rack_groups[i], n)
    BY <1>6
<1>. QED
    BY <1>1, <1>5, <1>7

LEMMA GpuData ==
    ASSUME BuildInv, NEW g \in OfKind("gpu")
    PROVE  /\ g \in DOMAIN vertices /\ g[1] = "gpu" /\ vertices[g].node_id = g[2]
           /\ \E c \in Range(calls) : \E i \in DOMAIN c.rack_groups :
                 g \in GroupGpus(c, c.rack_groups[i])
<1>1. g \in DOMAIN vertices /\ g[1] = "gpu" /\ vertices[g].node_id = g[2]
    BY VertexData DEF OfKind, DataAgree
<1>2. PICK c \in Range(calls) : MadeBy(c, g, vertices[g])
    BY <1>1 DEF BuildInv, Fabric
<1>3. g \notin SpineIds(c)
    BY <1>1 DEF SpineIds, Spine
<1>4. PICK i \in DOMAIN c.rack_groups : g \in GroupIds(c, c.rack_groups[i])
    BY <1>2, <1>3 DEF MadeBy
<1>5. g \in GroupGpus(c, c.rack_groups[i])
    BY <1>1, <1>4, GroupMembers DEF GroupIds
<1>. QED
    BY <1>1, <1>5

\* Groups of one name in one pod have nodes of one size, as SizesAgree has it.
LEMMA OneSize ==
    ASSUME SizesAgree, NEW n,
           NEW c \in Range(calls), NEW i \in DOMAIN c.rack_groups, n \in NodeIds(c, c.rack_groups[i]),
           NEW d \in Range(calls), NEW j \in DOMAIN d.rack_groups, n \in NodeIds(d, d.rack_groups[j])
    PROVE  c.rack_groups[i].gpus_per_node = d.rack_groups[j].gpus_per_node
<1>1. n[2] \in LeafIds(c, c.rack_groups[i]) /\ n[2] \in LeafIds(d, d.rack_groups[j])
    BY GroupMembers
<1>2. /\ n[2][2] = c.pod /\ n[2][3] = c.rack_groups[i].name
      /\ n[2][2] = d.pod /\ n[2][3] = d.rack_groups[j].name
    BY <1>1, GroupMembers
<1>. QED
    BY <1>2 DEF SizesAgree

\* Of the nodes of any pods, the fields that placement reads say what the links say,
\* and what a node does not list of its GPUs comes after what it does
\* (populate_pod, builders.py:91-137).
THEOREM BuiltToPlace == Spec => []BuiltForPlacement
<1>1. ASSUME BuildInv
      PROVE  BuiltForPlacement
  <2>. SUFFICES ASSUME NEW n \in OfKind("node")
                PROVE  LET ids == vertices[n].gpu_ids
                           own == {g \in OfKind("gpu") : vertices[g].node_id = n}
                       IN  /\ Range(ids) = {g \in own : vertices[g].rail_index < Len(ids)}
                           /\ \A i \in DOMAIN ids : vertices[ids[i]].rail_index = i - 1
                           /\ SizesAgree => Range(ids) = own
                           /\ LinkedBy("pcie", n) = own
                           /\ LinkedBy("leaf_uplink", n) = {vertices[n].leaf_id}
      BY DEF BuiltForPlacement
  <2>. DEFINE ids == vertices[n].gpu_ids
              own == {g \in OfKind("gpu") : vertices[g].node_id = n}
  <2>1. n \in DOMAIN vertices /\ n[1] = "node"
      BY <1>1, NodeData
  <2>. PICK c \in Range(calls) : \E i \in DOMAIN c.rack_groups :
          n \in NodeIds(c, c.rack_groups[i]) /\ ids = GpuIds(c.rack_groups[i], n)
      BY <1>1, NodeData
  <2>2. PICK i \in DOMAIN c.rack_groups :
            n \in NodeIds(c, c.rack_groups[i]) /\ ids = GpuIds(c.rack_groups[i], n)
      OBVIOUS
  <2>. DEFINE size == c.rack_groups[i].gpus_per_node
  <2>3. DOMAIN ids = 1..size /\ \A k \in 1..size : ids[k] = <<"gpu", n, k>>
      BY <2>2 DEF GpuIds
  <2>4. size \in Nat /\ Len(ids) = size
    <3>1. c \in PodCall
        BY <1>1 DEF BuildInv, Range
    <3>2. c.rack_groups[i] \in RackGroup
        BY <3>1 DEF PodCall
    <3>3. size \in Nat
        BY <3>2 DEF RackGroup
    <3>4. ids = [k \in 1..size |-> <<"gpu", n, k>>]
        BY <2>2 DEF GpuIds
    <3>. HIDE DEF ids, size
    <3>. QED
        BY <3>3, <3>4
  <2>5. Wired(vertices, links) /\ Multigraph(links)
      BY <1>1 DEF BuildInv, Fabric, Wired
  <2>6. Contained(vertices, links, Range(calls), n) /\ vertices[n].leaf_id = n[2]
      BY <1>1, <2>1, VertexData DEF DataAgree
  <2>7. Range(ids) \subseteq DOMAIN vertices
      BY <2>1, <2>6 DEF Contained
  <2>. HIDE DEF ids
  <2>8. ASSUME NEW k \in DOMAIN ids
        PROVE  ids[k] \in own /\ vertices[ids[k]].rail_index = k - 1
    <3>. DEFINE g == ids[k]
    <3>1. g \in DOMAIN vertices
        BY <2>7 DEF Range
    <3>2. g[1] = "gpu" /\ g[2] = n /\ g[3] = k
        BY <2>3
    <3>3. DataAgree(g, vertices[g])
        BY <1>1, <3>1, VertexData
    <3>. HIDE DEF g
    <3>4. vertices[g].kind = "gpu" /\ vertices[g].node_id = n /\ vertices[g].rail_index = k - 1
        BY <3>2, <3>3 DEF DataAgree
    <3>5. g \in own /\ vertices[g].rail_index = k - 1
        BY <3>1, <3>4 DEF OfKind
    <3>. QED
        BY <3>5 DEF g
  <2>9. ASSUME NEW g \in own
        PROVE  /\ vertices[g].rail_index < Len(ids) => g \in Range(ids)
               /\ SizesAgree => g \in Range(ids)
    <3>. PICK d \in Range(calls) : \E j \in DOMAIN d.rack_groups : g \in GroupGpus(d, d.rack_groups[j])
        BY <1>1, GpuData
    <3>1. PICK j \in DOMAIN d.rack_groups : g \in GroupGpus(d, d.rack_groups[j])
        OBVIOUS
    <3>2. g \in DOMAIN vertices /\ g[1] = "gpu" /\ g[2] = n
        BY <1>1, GpuData
    <3>3. /\ n \in NodeIds(d, d.rack_groups[j])
          /\ g[3] \in 1..d.rack_groups[j].gpus_per_node /\ g = <<"gpu", n, g[3]>>
        BY <3>1, <3>2, GroupMembers
    <3>4. vertices[g].rail_index = g[3] - 1
        BY <1>1, <3>2, VertexData DEF DataAgree
    <3>5. ASSUME vertices[g].rail_index < Len(ids)
          PROVE  g[3] \in DOMAIN ids
        BY <2>3, <2>4, <3>3, <3>4, <3>5
    <3>6. ASSUME SizesAgree
          PROVE  g[3] \in DOMAIN ids
      <4>1. size = d.rack_groups[j].gpus_per_node
          BY <2>2, <3>3, <3>6, OneSize
      <4>. QED
          BY <2>3, <3>3, <4>1
    <3>7. g[3] \in DOMAIN ids => g = ids[g[3]]
        BY <2>3, <3>3
    <3>. QED
        BY <3>5, <3>6, <3>7 DEF Range
  <2>10. ASSUME NEW g \in Range(ids)
         PROVE  g \in own /\ vertices[g].rail_index < Len(ids)
    <3>1. PICK k \in DOMAIN ids : g = ids[k]
        BY DEF Range
    <3>. QED
        BY <2>3, <2>4, <2>8, <3>1
  <2>11. LinkedBy("pcie", n) = own
    <3>1. ASSUME NEW g \in LinkedBy("pcie", n)
          PROVE  g \in own
      <4>1. Joined(links, n, g, "pcie")
          BY <2>5, LinkedByJoined
      <4>2. g \in DOMAIN vertices /\ Shaped(n, g, "pcie")
          BY <2>5, <4>1, JoinedBack
      <4>3. g[1] = "gpu" /\ g[2] = n
          BY <2>1, <4>2 DEF Shaped, Hangs, Beside
      <4>4. DataAgree(g, vertices[g])
          BY <1>1, <4>2, VertexData
      <4>. QED
          BY <4>2, <4>3, <4>4 DEF DataAgree, OfKind
    <3>2. ASSUME NEW g \in own
          PROVE  g \in LinkedBy("pcie", n)
      <4>1. g \in DOMAIN vertices /\ g[1] = "gpu" /\ g[2] = n
          BY <1>1, GpuData
      <4>2. Joined(links, g, n, "pcie")
          BY <1>1, <4>1, VertexData DEF Contained
      <4>3. Joined(links, n, g, "pcie")
          BY <2>5, <4>2, JoinedBack
      <4>. QED
          BY <2>5, <4>3, LinkedByJoined
    <3>. HIDE DEF own
    <3>. QED
        BY <3>1, <3>2
  <2>12. LinkedBy("leaf_uplink", n) = {vertices[n].leaf_id}
    <3>1. n[2] \in LinkedBy("leaf_uplink", n)
        BY <2>1, <2>5, <2>6, LinkedByJoined DEF Contained
    <3>2. ASSUME NEW l \in LinkedBy("leaf_uplink", n)
          PROVE  l = n[2]
      <4>1. Joined(links, n, l, "leaf_uplink")
          BY <2>5, LinkedByJoined
      <4>2. Shaped(n, l, "leaf_uplink")
          BY <2>5, <4>1, JoinedBack
      <4>. QED
          BY <2>1, <4>2 DEF Shaped, Hangs, Beside
    <3>. QED
        BY <2>6, <3>1, <3>2
  <2>13. Range(ids) = {g \in own : vertices[g].rail_index < Len(ids)}
      BY <2>9, <2>10
  <2>14. SizesAgree => Range(ids) = own
      BY <2>9, <2>10
  <2>. HIDE DEF own
  <2>. QED
      BY <2>8, <2>11, <2>12, <2>13, <2>14 DEF ids, own
<1>. QED
    BY <1>1, AlwaysBuilt, PTL
-----------------------------------------------------------------------------
(* What can be reached.                                                    *)

\* The links of a multigraph join its vertices, of which there are finitely many.
LinksJoinVertices ==
    /\ IsFiniteSet(DOMAIN vertices) /\ Multigraph(links)
    /\ \A x \in DOMAIN links :
          {x[1], x[2]} \subseteq DOMAIN vertices /\ links[x] \in LinkMetrics

LEMMA BuiltIsJoined ==
    ASSUME BuildInv
    PROVE  LinksJoinVertices
BY DEF BuildInv, Fabric, Wired, LinksJoinVertices

\* Where one more hop leads.
OneHop(S) == S \cup {x[2] : x \in {x \in DOMAIN links : x[1] \in S}}

Closed(S) == \A x \in DOMAIN links : x[1] \in S => x[2] \in S

LEMMA HopsOfClosed ==
    ASSUME NEW S
    PROVE  OneHop(S) = S <=> Closed(S)
<1>1. ASSUME Closed(S)
      PROVE  OneHop(S) = S
    BY <1>1 DEF OneHop, Closed
<1>2. ASSUME OneHop(S) = S, NEW x \in DOMAIN links, x[1] \in S
      PROVE  x[2] \in S
  <2>1. x[2] \in OneHop(S)
      BY <1>2 DEF OneHop
  <2>. QED
      BY <1>2, <2>1
<1>. QED
    BY <1>1, <1>2 DEF Closed

HopByHop(src, within) ==
    /\ within[0] = {src}
    /\ \A n \in Nat : n < NoCutoff => within[n + 1] = OneHop(within[n])

LEMMA ReachedHopByHop ==
    ASSUME NEW src, NoCutoff \in Nat
    PROVE  \E within : HopByHop(src, within) /\ ReachedFrom(src) = within[NoCutoff]
<1>. DEFINE Item(within, n) ==
                IF n = 0 THEN {src}
                ELSE LET nearer == within[n - 1]
                     IN  nearer \cup {x[2] : x \in {x \in DOMAIN links : x[1] \in nearer}}
            Solves(within, m) == within = [n \in 0..m |-> Item(within, n)]
            solved == {m \in Nat : \E within : Solves(within, m)}
<1>1. 0 \in solved
  <2>. DEFINE within == [n \in 0..0 |-> {src}]
  <2>1. Solves(within, 0)
      OBVIOUS
  <2>. HIDE DEF Solves
  <2>. QED
      BY <2>1
<1>2. ASSUME NEW m \in Nat, m \in solved
      PROVE  m + 1 \in solved
  <2>1. PICK within : Solves(within, m)
      BY <1>2
  <2>. DEFINE more == [n \in 0..(m + 1) |-> Item(within, n)]
  <2>2. \A n \in 0..m : within[n] = Item(within, n)
    <3>. HIDE DEF Item
    <3>. QED
        BY <2>1
  <2>3. \A n \in 0..m : n \in 0..(m + 1) /\ more[n] = within[n]
    <3>. HIDE DEF Item
    <3>. QED
        BY <2>2
  <2>4. \A n \in 0..(m + 1) : n # 0 => n - 1 \in 0..m
      OBVIOUS
  <2>5. \A n \in 0..(m + 1) : Item(more, n) = Item(within, n)
    <3>. HIDE DEF more
    <3>. QED
        BY <2>3, <2>4
  <2>6. Solves(more, m + 1)
    <3>. HIDE DEF Item
    <3>. QED
        BY <2>5
  <2>. HIDE DEF Solves
  <2>. QED
      BY <2>6
<1>3. NoCutoff \in solved
  <2>1. \A m \in Nat : m \in solved
    <3>. HIDE DEF solved
    <3>. QED
        BY <1>1, <1>2, Induct
  <2>. HIDE DEF solved
  <2>. QED
      BY <2>1
<1>. DEFINE within == CHOOSE f : Solves(f, NoCutoff)
<1>4. Solves(within, NoCutoff)
  <2>. HIDE DEF Solves
  <2>. QED
      BY <1>3
<1>5. ReachedFrom(src) = within[NoCutoff]
    BY DEF ReachedFrom
<1>. HIDE DEF within
<1>6. \A n \in 0..NoCutoff : within[n] = Item(within, n)
  <2>. HIDE DEF Item
  <2>. QED
      BY <1>4
<1>7. within[0] = {src}
  <2>1. within[0] = Item(within, 0)
    <3>. HIDE DEF Item
    <3>. QED
        BY <1>6
  <2>. QED
      BY <2>1
<1>8. ASSUME NEW n \in Nat, n < NoCutoff
      PROVE  within[n + 1] = OneHop(within[n])
  <2>. DEFINE k == n + 1
  <2>1. k \in 0..NoCutoff /\ k # 0 /\ k - 1 = n
      BY <1>8
  <2>2. within[k] = Item(within, k)
      BY <1>6, <2>1
  <2>. HIDE DEF k
  <2>3. within[k] = OneHop(within[n])
      BY <2>1, <2>2 DEF OneHop
  <2>. QED
      BY <2>3 DEF k
<1>. QED
    BY <1>5, <1>7, <1>8 DEF HopByHop

LEMMA CutoffIsNatural ==
    ASSUME LinksJoinVertices, NEW src \in DOMAIN vertices
    PROVE  NoCutoff \in Nat /\ Cardinality(DOMAIN vertices) = NoCutoff + 1
<1>1. Cardinality(DOMAIN vertices) \in Nat /\ Cardinality(DOMAIN vertices) # 0
    BY FS_CardinalityType, FS_EmptySet DEF LinksJoinVertices
<1>. QED
    BY <1>1 DEF NoCutoff

\* So many hops lead as far as any number of hops.
LEMMA ReachedIsClosed ==
    ASSUME LinksJoinVertices, NEW src \in DOMAIN vertices
    PROVE  /\ src \in ReachedFrom(src)
           /\ ReachedFrom(src) \subseteq DOMAIN vertices
           /\ Closed(ReachedFrom(src))
<1>. DEFINE V == DOMAIN vertices
<1>1. NoCutoff \in Nat /\ Cardinality(V) = NoCutoff + 1 /\ IsFiniteSet(V)
    BY CutoffIsNatural DEF LinksJoinVertices
<1>2. PICK within : HopByHop(src, within) /\ ReachedFrom(src) = within[NoCutoff]
    BY <1>1, ReachedHopByHop
<1>. DEFINE Wide(S, n) == /\ src \in S /\ S \subseteq V
                          /\ Closed(S) \/ Cardinality(S) > n
            good == {n \in Nat : n <= NoCutoff => Wide(within[n], n)}
<1>3. 0 \in good
  <2>1. Cardinality({src}) = 1
      BY FS_Singleton
  <2>2. Wide({src}, 0)
      BY <2>1
  <2>. QED
      BY <1>2, <2>2 DEF HopByHop
<1>4. ASSUME NEW n \in Nat, n \in good
      PROVE  n + 1 \in good
  <2>. SUFFICES ASSUME n + 1 <= NoCutoff
                PROVE  Wide(within[n + 1], n + 1)
      OBVIOUS
  <2>. DEFINE S == within[n]
              R == OneHop(S)
  <2>1. Wide(S, n) /\ within[n + 1] = R
      BY <1>1, <1>2, <1>4 DEF HopByHop
  <2>. HIDE DEF S
  <2>2. S \subseteq R /\ R \subseteq V
      BY <2>1 DEF OneHop, LinksJoinVertices
  <2>3. CASE Closed(S)
    <3>1. R = S
        BY <2>3, HopsOfClosed
    <3>. HIDE DEF R
    <3>. QED
        BY <2>1, <2>3, <3>1
  <2>4. CASE ~ Closed(S)
    <3>1. R # S
        BY <2>4, HopsOfClosed
    <3>. HIDE DEF R
    <3>2. IsFiniteSet(R) /\ IsFiniteSet(S)
        BY <1>1, <2>1, <2>2, FS_Subset
    <3>3. Cardinality(R) \in Nat /\ Cardinality(S) \in Nat
        BY <3>2, FS_CardinalityType
    <3>4. Cardinality(S) <= Cardinality(R) /\ Cardinality(S) # Cardinality(R)
        BY <2>2, <3>1, <3>2, FS_Subset
    <3>5. Cardinality(R) > n + 1
        BY <2>1, <2>4, <3>3, <3>4
    <3>. QED
        BY <2>1, <2>2, <3>5
  <2>. QED
      BY <2>3, <2>4
<1>5. Wide(ReachedFrom(src), NoCutoff)
  <2>1. \A n \in Nat : n \in good
    <3>. HIDE DEF good
    <3>. QED
        BY <1>3, <1>4, Induct
  <2>. QED
      BY <1>1, <1>2, <2>1
<1>. DEFINE R == ReachedFrom(src)
<1>6. CASE Cardinality(R) > NoCutoff
  <2>1. IsFiniteSet(R) /\ Cardinality(R) <= Cardinality(V)
      BY <1>1, <1>5, FS_Subset
  <2>2. Cardinality(R) \in Nat
      BY <2>1, FS_CardinalityType
  <2>3. Cardinality(R) = Cardinality(V)
      BY <1>1, <1>6, <2>1, <2>2
  <2>4. R = V
      BY <1>1, <1>5, <2>3, FS_Subset
  <2>5. Closed(V)
      BY DEF Closed, LinksJoinVertices
  <2>. QED
      BY <1>5, <2>4, <2>5
<1>. QED
    BY <1>5, <1>6

LEMMA JoinedIsReached ==
    ASSUME LinksJoinVertices, NEW src \in DOMAIN vertices, NEW u \in ReachedFrom(src),
           NEW v, NEW T, Joined(links, u, v, T)
    PROVE  v \in ReachedFrom(src)
<1>1. PICK k \in Nat : <<u, v, k>> \in DOMAIN links
    BY DEF Joined
<1>. DEFINE x == <<u, v, k>>
<1>2. x \in DOMAIN links /\ x[1] = u /\ x[2] = v
    BY <1>1
<1>. HIDE DEF x
<1>. QED
    BY <1>2, ReachedIsClosed DEF Closed

\* From a GPU up to its leaf, and from the leaf down to the GPU.
LEMMA UpAndDown ==
    ASSUME BuildInv, NEW g \in OfKind("gpu")
    PROVE  LET n == g[2]
               l == n[2]
           IN  /\ {g, n, l} \subseteq DOMAIN vertices
               /\ LeafOf(g) = l /\ PodOf(g) = l[2] /\ l \in OfKind("leaf")
               /\ Joined(links, g, n, "pcie") /\ Joined(links, n, g, "pcie")
               /\ Joined(links, n, l, "leaf_uplink") /\ Joined(links, l, n, "leaf_uplink")
<1>. DEFINE n == g[2]
            l == n[2]
<1>1. Wired(vertices, links)
    BY DEF BuildInv, Fabric
<1>2. g \in DOMAIN vertices /\ g[1] = "gpu" /\ vertices[g].node_id = n
    BY GpuData
<1>3. n \in DOMAIN vertices /\ Joined(links, g, n, "pcie")
    BY <1>2, VertexData DEF Contained
<1>4. n[1] = "node"
  <2>1. Shaped(g, n, "pcie")
      BY <1>1, <1>3, JoinedBack
  <2>. QED
      BY <1>2, <2>1 DEF Shaped, Hangs, Beside
<1>5. vertices[n].leaf_id = l /\ l \in DOMAIN vertices /\ Joined(links, n, l, "leaf_uplink")
    BY <1>3, <1>4, VertexData DEF Contained, DataAgree
<1>6. l[1] = "leaf"
  <2>1. Shaped(n, l, "leaf_uplink")
      BY <1>1, <1>5, JoinedBack
  <2>. QED
      BY <1>4, <2>1 DEF Shaped, Hangs, Beside
<1>7. vertices[l].pod_id = l[2] /\ vertices[l].kind = "leaf"
    BY <1>5, <1>6, VertexData DEF DataAgree
<1>8. Joined(links, n, g, "pcie") /\ Joined(links, l, n, "leaf_uplink")
    BY <1>1, <1>3, <1>5, JoinedBack
<1>9. LeafOf(g) = l /\ PodOf(g) = l[2] /\ l \in OfKind("leaf")
    BY <1>2, <1>5, <1>7 DEF LeafOf, PodOf, OfKind
<1>. QED
    BY <1>2, <1>3, <1>5, <1>8, <1>9
-----------------------------------------------------------------------------
(* Simple paths.                                                           *)

\* The pairs of vertices with a link.
Hops == {<<x[1], x[2]>> : x \in DOMAIN links}

IsSimplePath(src, p) ==
    /\ p \in Seq(DOMAIN vertices) /\ Len(p) >= 1 /\ p[1] = src
    /\ \A i \in 1..(Len(p) - 1) : <<p[i], p[i + 1]>> \in Hops
    /\ \A i, j \in 1..Len(p) : p[i] = p[j] => i = j

Successors(view) == [u \in DOMAIN vertices |-> {e[2] : e \in {e \in DOMAIN view : e[1] = u}}]

\* The paths found and those that go one vertex further.
Longer(view, found, n) ==
    found \cup UNION {{Append(p, v) : v \in Successors(view)[p[n]] \ Range(p)}
                        : p \in {p \in found : Len(p) = n}}

LEMMA PathsHopByHop ==
    ASSUME NEW view, NEW src, NEW cutoff \in Nat
    PROVE  \E paths : /\ paths[0] = {<<src>>}
                      /\ \A n \in Nat : n < cutoff =>
                            paths[n + 1] = Longer(view, paths[n], n + 1)
                      /\ SimplePathsFrom(view, src, cutoff) = paths[cutoff]
<1>. DEFINE Item(paths, n) ==
                IF n = 0 THEN {<<src>>}
                ELSE LET found == paths[n - 1]
                     IN  found \cup UNION {{Append(p, v) : v \in Successors(view)[p[n]] \ Range(p)}
                                             : p \in {p \in found : Len(p) = n}}
            Solves(paths, m) == paths = [n \in 0..m |-> Item(paths, n)]
            solved == {m \in Nat : \E paths : Solves(paths, m)}
<1>1. 0 \in solved
  <2>. DEFINE paths == [n \in 0..0 |-> {<<src>>}]
  <2>1. \A n \in 0..0 : Item(paths, n) = {<<src>>}
      OBVIOUS
  <2>2. Solves(paths, 0)
    <3>. HIDE DEF Item
    <3>. QED
        BY <2>1
  <2>. HIDE DEF Solves
  <2>. QED
      BY <2>2
<1>2. ASSUME NEW m \in Nat, m \in solved
      PROVE  m + 1 \in solved
  <2>1. PICK paths : Solves(paths, m)
      BY <1>2
  <2>. DEFINE more == [n \in 0..(m + 1) |-> Item(paths, n)]
  <2>2. \A n \in 0..m : paths[n] = Item(paths, n)
    <3>. HIDE DEF Item
    <3>. QED
        BY <2>1
  <2>3. \A n \in 0..m : n \in 0..(m + 1) /\ more[n] = paths[n]
    <3>. HIDE DEF Item
    <3>. QED
        BY <2>2
  <2>4. \A n \in 0..(m + 1) : n # 0 => n - 1 \in 0..m
      OBVIOUS
  <2>5. ASSUME NEW n \in 0..(m + 1)
        PROVE  Item(more, n) = Item(paths, n)
    <3>1. CASE n = 0
        BY <3>1
    <3>2. CASE n # 0
      <4>1. more[n - 1] = paths[n - 1]
        <5>. HIDE DEF more
        <5>. QED
            BY <2>3, <2>4, <3>2
      <4>. HIDE DEF more
      <4>. QED
          BY <3>2, <4>1
    <3>. QED
        BY <3>1, <3>2
  <2>6. Solves(more, m + 1)
    <3>. HIDE DEF Item
    <3>. QED
        BY <2>5
  <2>. HIDE DEF Solves
  <2>. QED
      BY <2>6
<1>3. cutoff \in solved
  <2>1. \A m \in Nat : m \in solved
    <3>. HIDE DEF solved
    <3>. QED
        BY <1>1, <1>2, Induct
  <2>. HIDE DEF solved
  <2>. QED
      BY <2>1
<1>. DEFINE paths == CHOOSE f : Solves(f, cutoff)
<1>4. Solves(paths, cutoff)
  <2>. HIDE DEF Solves
  <2>. QED
      BY <1>3
<1>5. SimplePathsFrom(view, src, cutoff) = paths[cutoff]
    BY DEF SimplePathsFrom, Successors
<1>. HIDE DEF paths
<1>6. \A n \in 0..cutoff : paths[n] = Item(paths, n)
  <2>. HIDE DEF Item
  <2>. QED
      BY <1>4
<1>7. paths[0] = {<<src>>}
  <2>1. paths[0] = Item(paths, 0)
    <3>. HIDE DEF Item
    <3>. QED
        BY <1>6
  <2>. QED
      BY <2>1
<1>8. ASSUME NEW n \in Nat, n < cutoff
      PROVE  paths[n + 1] = Longer(view, paths[n], n + 1)
  <2>. DEFINE k == n + 1
  <2>1. k \in 0..cutoff /\ k # 0 /\ k - 1 = n
      BY <1>8
  <2>2. paths[k] = Item(paths, k)
    <3>. HIDE DEF Item, k
    <3>. QED
        BY <1>6, <2>1
  <2>. HIDE DEF k
  <2>3. paths[k] = Longer(view, paths[n], k)
      BY <2>1, <2>2 DEF Longer
  <2>. QED
      BY <2>3 DEF k
<1>. QED
    BY <1>5, <1>7, <1>8

LEMMA LongerPath ==
    ASSUME NEW src, NEW p, IsSimplePath(src, p), NEW v \in DOMAIN vertices, v \notin Range(p),
           <<p[Len(p)], v>> \in Hops
    PROVE  LET q == Append(p, v)
           IN  IsSimplePath(src, q) /\ Len(q) = Len(p) + 1 /\ q[Len(q)] = v
<1>. DEFINE n == Len(p)
            m == n + 1
            q == Append(p, v)
<1>1. p \in Seq(DOMAIN vertices) /\ n \in Nat /\ n >= 1 /\ m \in Nat
    BY DEF IsSimplePath
<1>2. q \in Seq(DOMAIN vertices) /\ Len(q) = m /\ q[m] = v /\ \A i \in 1..n : q[i] = p[i]
    BY <1>1
<1>3. \A i \in 1..n : p[i] # v
    BY <1>1 DEF Range
<1>4. \A i, j \in 1..n : p[i] = p[j] => i = j
    BY DEF IsSimplePath
<1>5. \A i \in 1..(n - 1) : <<p[i], p[i + 1]>> \in Hops
    BY DEF IsSimplePath
<1>6. p[1] = src /\ <<p[n], v>> \in Hops
    BY DEF IsSimplePath
<1>. HIDE DEF q, n
<1>7. \A i, j \in 1..m : q[i] = q[j] => i = j
  <2>. SUFFICES ASSUME NEW i \in 1..m, NEW j \in 1..m, q[i] = q[j]
                PROVE  i = j
      OBVIOUS
  <2>1. (i \in 1..n \/ i = m) /\ (j \in 1..n \/ j = m)
      BY <1>1
  <2>. QED
      BY <1>2, <1>3, <1>4, <2>1
<1>8. \A i \in 1..(m - 1) : <<q[i], q[i + 1]>> \in Hops
  <2>. SUFFICES ASSUME NEW i \in 1..(m - 1)
                PROVE  <<q[i], q[i + 1]>> \in Hops
      OBVIOUS
  <2>1. CASE i = n
      BY <1>1, <1>2, <1>6, <2>1
  <2>2. CASE i # n
    <3>1. i \in 1..(n - 1) /\ i \in 1..n /\ i + 1 \in 1..n
        BY <1>1, <2>2
    <3>. QED
        BY <1>2, <1>5, <3>1
  <2>. QED
      BY <2>1, <2>2
<1>9. q[1] = src /\ m >= 1
    BY <1>1, <1>2, <1>6
<1>10. IsSimplePath(src, q)
    BY <1>2, <1>7, <1>8, <1>9 DEF IsSimplePath
<1>. QED
    BY <1>2, <1>10 DEF q, n

LEMMA ShorterPath ==
    ASSUME NEW src, NEW p, IsSimplePath(src, p), NEW n \in 1..Len(p)
    PROVE  LET q == [i \in 1..n |-> p[i]]
           IN  IsSimplePath(src, q) /\ Len(q) = n /\ \A i \in 1..n : q[i] = p[i]
<1>. DEFINE q == [i \in 1..n |-> p[i]]
<1>1. p \in Seq(DOMAIN vertices) /\ Len(p) \in Nat /\ \A i \in 1..n : i \in 1..Len(p)
    BY DEF IsSimplePath
<1>2. q \in Seq(DOMAIN vertices) /\ Len(q) = n /\ \A i \in 1..n : q[i] = p[i]
    BY <1>1
<1>. HIDE DEF q
<1>3. \A i \in 1..(n - 1) : <<q[i], q[i + 1]>> \in Hops
  <2>. SUFFICES ASSUME NEW i \in 1..(n - 1)
                PROVE  <<q[i], q[i + 1]>> \in Hops
      OBVIOUS
  <2>1. i \in 1..n /\ i + 1 \in 1..n /\ i \in 1..(Len(p) - 1)
      BY <1>1
  <2>. QED
      BY <1>2, <2>1 DEF IsSimplePath
<1>4. IsSimplePath(src, q)
    BY <1>1, <1>2, <1>3 DEF IsSimplePath
<1>. QED
    BY <1>2, <1>4 DEF q

\* A path has no more vertices than there are.
LEMMA PathIsShort ==
    ASSUME LinksJoinVertices, NEW src \in DOMAIN vertices, NEW p, IsSimplePath(src, p)
    PROVE  Len(p) <= NoCutoff + 1
<1>. DEFINE V == DOMAIN vertices
<1>1. p \in Injection(1..Len(p), V)
    BY DEF IsSimplePath, Injection, IsInjective
<1>2. IsFiniteSet(V) /\ Len(p) \in Nat
    BY DEF LinksJoinVertices, IsSimplePath
<1>3. Cardinality(1..Len(p)) <= Cardinality(V)
    BY <1>1, <1>2, FS_Injection
<1>4. Cardinality(1..Len(p)) = Len(p)
  <2>1. 1 \in Int /\ Len(p) \in Int /\ Len(p) >= 1
      BY <1>2 DEF IsSimplePath
  <2>. QED
      BY <2>1, FS_Interval
<1>. QED
    BY <1>3, <1>4, CutoffIsNatural

LEMMA SuccessorsAreHops ==
    ASSUME NEW view, DOMAIN view = Hops, NEW u \in DOMAIN vertices, NEW v
    PROVE  v \in Successors(view)[u] <=> <<u, v>> \in Hops
<1>1. Successors(view)[u] = {e[2] : e \in {e \in Hops : e[1] = u}}
    BY DEF Successors
<1>2. \A e \in Hops : e = <<e[1], e[2]>>
    BY DEF Hops
<1>. DEFINE d == <<u, v>>
<1>3. d[1] = u /\ d[2] = v
    OBVIOUS
<1>. HIDE DEF d
<1>4. ASSUME d \in Hops
      PROVE  v \in Successors(view)[u]
    BY <1>1, <1>3, <1>4
<1>5. ASSUME v \in Successors(view)[u]
      PROVE  d \in Hops
  <2>1. PICK e \in Hops : e[1] = u /\ e[2] = v
      BY <1>1, <1>5
  <2>. QED
      BY <1>2, <2>1 DEF d
<1>. QED
    BY <1>4, <1>5 DEF d

\* The search finds all simple paths of so many hops.
LEMMA PathsAreSimple ==
    ASSUME LinksJoinVertices, NEW src \in DOMAIN vertices, NEW view, DOMAIN view = Hops,
           NEW cutoff \in Nat
    PROVE  /\ IsFiniteSet(SimplePathsFrom(view, src, cutoff))
           /\ \A p : p \in SimplePathsFrom(view, src, cutoff)
                       <=> IsSimplePath(src, p) /\ Len(p) <= cutoff + 1
<1>. DEFINE V == DOMAIN vertices
<1>1. PICK paths : /\ paths[0] = {<<src>>}
                   /\ \A n \in Nat : n < cutoff =>
                         paths[n + 1] = Longer(view, paths[n], n + 1)
                   /\ SimplePathsFrom(view, src, cutoff) = paths[cutoff]
    BY PathsHopByHop
<1>. DEFINE All(S, n) == /\ IsFiniteSet(S)
                         /\ \A p : p \in S <=> IsSimplePath(src, p) /\ Len(p) <= n + 1
            good == {n \in Nat : n <= cutoff => All(paths[n], n)}
<1>2. 0 \in good
  <2>1. IsFiniteSet({<<src>>})
      BY FS_Singleton
  <2>2. IsSimplePath(src, <<src>>) /\ Len(<<src>>) = 1
      BY DEF IsSimplePath
  <2>3. ASSUME NEW p, IsSimplePath(src, p), Len(p) <= 1
        PROVE  p = <<src>>
    <3>1. p \in Seq(V) /\ p[1] = src /\ Len(p) >= 1
        BY <2>3 DEF IsSimplePath
    <3>2. Len(p) = 1
      <4>. DEFINE size == Len(p)
      <4>1. size \in Nat /\ size >= 1 /\ size <= 1
          BY <2>3, <3>1
      <4>. HIDE DEF size
      <4>2. size = 1
          BY <4>1
      <4>. QED
          BY <4>2 DEF size
    <3>. QED
        BY <3>1, <3>2
  <2>4. ASSUME NEW p
        PROVE  p \in {<<src>>} <=> IsSimplePath(src, p) /\ Len(p) <= 0 + 1
    <3>1. CASE p = <<src>>
        BY <2>2, <3>1
    <3>2. CASE p # <<src>>
        BY <2>3, <3>2
    <3>. QED
        BY <3>1, <3>2
  <2>5. All({<<src>>}, 0)
      BY <2>1, <2>4
  <2>. QED
      BY <1>1, <2>5
<1>3. ASSUME NEW n \in Nat, n \in good
      PROVE  n + 1 \in good
  <2>. SUFFICES ASSUME n + 1 <= cutoff
                PROVE  All(paths[n + 1], n + 1)
      OBVIOUS
  <2>. DEFINE k == n + 1
              S == paths[n]
              R == Longer(view, S, k)
  <2>1. All(S, n) /\ paths[k] = R /\ k \in Nat
      BY <1>1, <1>3
  <2>. HIDE DEF S
  <2>2. ASSUME NEW p \in S, Len(p) = k, NEW v
        PROVE  v \in Successors(view)[p[k]] \ Range(p)
                 <=> v \in V /\ v \notin Range(p) /\ <<p[k], v>> \in Hops
    <3>1. IsSimplePath(src, p) /\ p[k] \in V
      <4>1. IsSimplePath(src, p)
          BY <2>1
      <4>2. p \in Seq(V) /\ k \in 1..Len(p)
          BY <2>1, <2>2, <4>1 DEF IsSimplePath
      <4>. QED
          BY <4>1, <4>2
    <3>2. v \in Successors(view)[p[k]] <=> <<p[k], v>> \in Hops
        BY <3>1, SuccessorsAreHops
    <3>3. <<p[k], v>> \in Hops => v \in V
        BY DEF Hops, LinksJoinVertices
    <3>. QED
        BY <3>2, <3>3
  <2>3. \A p : p \in R <=> \/ p \in S
                           \/ \E q \in S : \E v \in Successors(view)[q[k]] \ Range(q) :
                                 Len(q) = k /\ p = Append(q, v)
      BY DEF Longer
  <2>4. ASSUME NEW p \in R
        PROVE  IsSimplePath(src, p) /\ Len(p) <= k + 1
    <3>1. CASE p \in S
        BY <2>1, <3>1 DEF IsSimplePath
    <3>2. CASE p \notin S
      <4>1. PICK q \in S : \E v \in Successors(view)[q[k]] \ Range(q) : Len(q) = k /\ p = Append(q, v)
          BY <2>3, <3>2
      <4>2. PICK v \in Successors(view)[q[k]] \ Range(q) : Len(q) = k /\ p = Append(q, v)
          BY <4>1
      <4>3. v \in V /\ v \notin Range(q) /\ <<q[k], v>> \in Hops
          BY <2>2, <4>2
      <4>4. IsSimplePath(src, q) /\ Len(q) = k
          BY <2>1, <4>2
      <4>5. IsSimplePath(src, Append(q, v)) /\ Len(Append(q, v)) = k + 1
        <5>1. <<q[Len(q)], v>> \in Hops
            BY <4>3, <4>4
        <5>. HIDE DEF k
        <5>2. IsSimplePath(src, Append(q, v)) /\ Len(Append(q, v)) = Len(q) + 1
            BY <4>3, <4>4, <5>1, LongerPath
        <5>. QED
            BY <4>4, <5>2
      <4>. QED
          BY <2>1, <4>2, <4>5
    <3>. QED
        BY <3>1, <3>2
  <2>5. ASSUME NEW p, IsSimplePath(src, p), Len(p) <= k + 1
        PROVE  p \in R
    <3>1. p \in Seq(V) /\ Len(p) \in Nat
        BY <2>5 DEF IsSimplePath
    <3>2. CASE Len(p) <= k
        BY <2>1, <2>3, <2>5, <3>2
    <3>3. CASE Len(p) = k + 1
      <4>. DEFINE q == [i \in 1..k |-> p[i]]
                  v == p[k + 1]
      <4>1. IsSimplePath(src, q) /\ Len(q) = k /\ \A i \in 1..k : q[i] = p[i]
        <5>1. k \in 1..Len(p)
            BY <3>3
        <5>. HIDE DEF k
        <5>. QED
            BY <2>5, <5>1, ShorterPath
      <4>2. v \in V /\ <<p[k], v>> \in Hops /\ q[k] = p[k]
        <5>1. k \in 1..k /\ k \in 1..(Len(p) - 1) /\ k + 1 \in 1..Len(p)
            BY <3>3
        <5>. QED
            BY <2>5, <3>1, <4>1, <5>1 DEF IsSimplePath
      <4>3. v \notin Range(q)
        <5>. SUFFICES ASSUME NEW i \in 1..k, p[i] = v
                      PROVE  FALSE
            BY <4>1 DEF Range
        <5>1. i \in 1..Len(p) /\ k + 1 \in 1..Len(p) /\ i # k + 1
            BY <3>3
        <5>. QED
            BY <2>5, <5>1 DEF IsSimplePath
      <4>4. p = Append(q, v)
        <5>1. q \in Seq(V)
            BY <4>1 DEF IsSimplePath
        <5>2. Len(Append(q, v)) = k + 1 /\ \A i \in 1..k : Append(q, v)[i] = q[i]
            BY <4>1, <5>1
        <5>3. Append(q, v)[k + 1] = v /\ Append(q, v) \in Seq(V)
            BY <4>1, <4>2, <5>1
        <5>4. \A i \in 1..(k + 1) : i \in 1..k \/ i = k + 1
            OBVIOUS
        <5>. DEFINE r == Append(q, v)
        <5>5. \A i \in 1..(k + 1) : p[i] = r[i]
          <6>. HIDE DEF q, r
          <6>. QED
              BY <4>1, <5>2, <5>3, <5>4 DEF r
        <5>. HIDE DEF r, q, v, k
        <5>. QED
            BY <3>1, <3>3, <5>2, <5>3, <5>5 DEF r
      <4>. HIDE DEF q, v, k
      <4>5. q \in S
        <5>1. Len(q) <= n + 1
            BY <4>1 DEF k
        <5>. QED
            BY <2>1, <4>1, <5>1
      <4>6. v \in Successors(view)[q[k]] \ Range(q)
          BY <2>2, <4>1, <4>2, <4>3, <4>5
      <4>. QED
          BY <2>3, <4>1, <4>4, <4>5, <4>6
    <3>4. Len(p) <= k \/ Len(p) = k + 1
        BY <2>5, <3>1
    <3>. QED
        BY <3>2, <3>3, <3>4
  <2>6. IsFiniteSet(R)
    <3>. DEFINE D == S \X V
                f == [d \in D |-> Append(d[1], d[2])]
    <3>1. R \subseteq S \cup {f[d] : d \in D}
      <4>1. ASSUME NEW q \in S, NEW v \in V
            PROVE  Append(q, v) \in {f[d] : d \in D}
        <5>1. <<q, v>> \in D /\ f[<<q, v>>] = Append(q, v)
            OBVIOUS
        <5>. QED
            BY <5>1
      <4>. HIDE DEF D, f
      <4>2. ASSUME NEW p \in R, p \notin S
            PROVE  p \in {f[d] : d \in D}
        <5>1. PICK q \in S : \E v \in Successors(view)[q[k]] \ Range(q) : Len(q) = k /\ p = Append(q, v)
            BY <2>3, <4>2
        <5>2. PICK v \in Successors(view)[q[k]] \ Range(q) : Len(q) = k /\ p = Append(q, v)
            BY <5>1
        <5>3. v \in V
            BY <2>2, <5>2
        <5>. QED
            BY <4>1, <5>2, <5>3
      <4>. QED
          BY <4>2
    <3>2. IsFiniteSet(D)
        BY <2>1, FS_Product DEF LinksJoinVertices
    <3>3. IsFiniteSet({f[d] : d \in DOMAIN f})
        BY <3>2, ImageIsFinite
    <3>4. DOMAIN f = D
        OBVIOUS
    <3>. HIDE DEF D, f, R
    <3>5. IsFiniteSet(S \cup {f[d] : d \in D})
        BY <2>1, <3>3, <3>4, FS_Union
    <3>. QED
        BY <3>1, <3>5, FS_Subset
  <2>. HIDE DEF R, k
  <2>7. All(R, k)
      BY <2>4, <2>5, <2>6
  <2>. QED
      BY <2>1, <2>7 DEF k
<1>4. All(paths[cutoff], cutoff)
  <2>1. \A n \in Nat : n \in good
    <3>. HIDE DEF good
    <3>. QED
        BY <1>2, <1>3, Induct
  <2>. QED
      BY <2>1
<1>. HIDE DEF All
<1>5. All(SimplePathsFrom(view, src, cutoff), cutoff)
    BY <1>1, <1>4
<1>. QED
    BY <1>5 DEF All

LEMMA ViewIsOfHops == DOMAIN SimpleView = Hops
BY DEF SimpleView, Hops

\* Hops lead nowhere else.
LEMMA ReachedIsLeast ==
    ASSUME LinksJoinVertices, NEW src \in DOMAIN vertices, NEW S, src \in S, Closed(S)
    PROVE  ReachedFrom(src) \subseteq S
<1>1. NoCutoff \in Nat
    BY CutoffIsNatural
<1>2. PICK within : HopByHop(src, within) /\ ReachedFrom(src) = within[NoCutoff]
    BY <1>1, ReachedHopByHop
<1>. DEFINE good == {n \in Nat : n <= NoCutoff => within[n] \subseteq S}
<1>3. 0 \in good
    BY <1>2 DEF HopByHop
<1>4. ASSUME NEW n \in Nat, n \in good
      PROVE  n + 1 \in good
  <2>. SUFFICES ASSUME n + 1 <= NoCutoff
                PROVE  within[n + 1] \subseteq S
      OBVIOUS
  <2>1. within[n] \subseteq S /\ within[n + 1] = OneHop(within[n])
      BY <1>1, <1>2, <1>4 DEF HopByHop
  <2>2. OneHop(within[n]) \subseteq S
      BY <2>1 DEF OneHop, Closed
  <2>. QED
      BY <2>1, <2>2
<1>5. \A n \in Nat : n \in good
  <2>. HIDE DEF good
  <2>. QED
      BY <1>3, <1>4, Induct
<1>. QED
    BY <1>1, <1>2, <1>5

\* What a path meets can be reached.
LEMMA PathIsReached ==
    ASSUME LinksJoinVertices, NEW src \in DOMAIN vertices, NEW p, IsSimplePath(src, p),
           NEW i \in 1..Len(p)
    PROVE  p[i] \in ReachedFrom(src)
<1>. DEFINE R == ReachedFrom(src)
            good == {n \in Nat : n + 1 <= Len(p) => p[n + 1] \in R}
<1>1. p \in Seq(DOMAIN vertices) /\ Len(p) \in Nat /\ p[1] = src
    BY DEF IsSimplePath
<1>2. src \in R /\ Closed(R)
    BY ReachedIsClosed
<1>3. 0 \in good
    BY <1>1, <1>2
<1>4. ASSUME NEW n \in Nat, n \in good
      PROVE  n + 1 \in good
  <2>. DEFINE k == n + 1
  <2>. SUFFICES ASSUME k + 1 <= Len(p)
                PROVE  p[k + 1] \in R
      OBVIOUS
  <2>1. p[k] \in R /\ k \in 1..(Len(p) - 1)
      BY <1>1, <1>4
  <2>. HIDE DEF k
  <2>2. <<p[k], p[k + 1]>> \in Hops
      BY <2>1 DEF IsSimplePath
  <2>3. PICK x \in DOMAIN links : x[1] = p[k] /\ x[2] = p[k + 1]
      BY <2>2 DEF Hops
  <2>. QED
      BY <1>2, <2>1, <2>3 DEF Closed
<1>5. i - 1 \in good
  <2>1. \A n \in Nat : n \in good
    <3>. HIDE DEF good
    <3>. QED
        BY <1>3, <1>4, Induct
  <2>2. i - 1 \in Nat
      BY <1>1
  <2>. HIDE DEF good
  <2>. QED
      BY <2>1, <2>2
<1>. QED
    BY <1>1, <1>5

\* What can be reached is reached without meeting a vertex twice.
LEMMA ReachedByPath ==
    ASSUME LinksJoinVertices, NEW src \in DOMAIN vertices, NEW dst \in ReachedFrom(src)
    PROVE  \E p : IsSimplePath(src, p) /\ p[Len(p)] = dst
<1>. DEFINE V == DOMAIN vertices
            Ends == {v \in V : \E p : IsSimplePath(src, p) /\ p[Len(p)] = v}
<1>1. src \in Ends
  <2>1. IsSimplePath(src, <<src>>) /\ <<src>>[Len(<<src>>)] = src
      BY DEF IsSimplePath
  <2>. DEFINE p == <<src>>
  <2>2. IsSimplePath(src, p) /\ p[Len(p)] = src
      BY <2>1
  <2>. HIDE DEF p
  <2>. QED
      BY <2>2
<1>2. ASSUME NEW x \in DOMAIN links, x[1] \in Ends
      PROVE  x[2] \in Ends
  <2>. DEFINE v == x[2]
  <2>1. v \in V /\ <<x[1], v>> \in Hops
      BY DEF LinksJoinVertices, Hops
  <2>2. PICK p : IsSimplePath(src, p) /\ p[Len(p)] = x[1]
      BY <1>2
  <2>. HIDE DEF v
  <2>3. CASE v \in Range(p)
    <3>1. PICK i \in 1..Len(p) : p[i] = v
      <4>1. DOMAIN p = 1..Len(p)
          BY <2>2 DEF IsSimplePath
      <4>. QED
          BY <2>3, <4>1 DEF Range
    <3>. DEFINE q == [j \in 1..i |-> p[j]]
    <3>2. IsSimplePath(src, q) /\ Len(q) = i /\ \A j \in 1..i : q[j] = p[j]
        BY <2>2, ShorterPath
    <3>. HIDE DEF q
    <3>3. q[Len(q)] = v
        BY <3>1, <3>2
    <3>. QED
        BY <2>1, <3>2, <3>3 DEF v
  <2>4. CASE v \notin Range(p)
    <3>. DEFINE q == Append(p, v)
    <3>1. IsSimplePath(src, q) /\ q[Len(q)] = v
      <4>1. <<p[Len(p)], v>> \in Hops
          BY <2>1, <2>2
      <4>. QED
          BY <2>1, <2>2, <2>4, <4>1, LongerPath
    <3>. HIDE DEF q
    <3>. QED
        BY <2>1, <3>1 DEF v
  <2>. QED
      BY <2>3, <2>4
<1>3. Closed(Ends)
    BY <1>2 DEF Closed
<1>4. ReachedFrom(src) \subseteq Ends
  <2>. HIDE DEF Ends
  <2>. QED
      BY <1>1, <1>3, ReachedIsLeast
<1>. QED
    BY <1>4

\* The search of the collapsed view and that of the multigraph agree, of topologies of
\* any size (has_path and all_paths, paths.py:84-85, 119-125).
THEOREM QueriesMatch == Spec => []QueriesAgree
<1>1. ASSUME BuildInv
      PROVE  QueriesAgree
  <2>. SUFFICES ASSUME NEW src \in DOMAIN vertices
                PROVE  {p[Len(p)] : p \in SimplePathsFrom(SimpleView, src, NoCutoff)}
                         = {dst \in DOMAIN vertices : HasPath(src, dst)}
      BY DEF QueriesAgree
  <2>. DEFINE found == SimplePathsFrom(SimpleView, src, NoCutoff)
  <2>1. LinksJoinVertices
      BY <1>1, BuiltIsJoined
  <2>2. NoCutoff \in Nat
      BY <2>1, CutoffIsNatural
  <2>3. \A p : p \in found <=> IsSimplePath(src, p) /\ Len(p) <= NoCutoff + 1
    <3>. DEFINE view == SimpleView
    <3>1. DOMAIN view = Hops
        BY ViewIsOfHops
    <3>. HIDE DEF view
    <3>2. \A p : p \in SimplePathsFrom(view, src, NoCutoff)
                   <=> IsSimplePath(src, p) /\ Len(p) <= NoCutoff + 1
        BY <2>1, <2>2, <3>1, PathsAreSimple
    <3>. QED
        BY <3>2 DEF view
  <2>. HIDE DEF found
  <2>4. ASSUME NEW p \in found
        PROVE  p[Len(p)] \in DOMAIN vertices /\ HasPath(src, p[Len(p)])
    <3>1. IsSimplePath(src, p) /\ Len(p) \in 1..Len(p)
      <4>1. IsSimplePath(src, p)
          BY <2>3
      <4>. QED
          BY <4>1 DEF IsSimplePath
    <3>2. p[Len(p)] \in ReachedFrom(src)
        BY <2>1, <3>1, PathIsReached
    <3>3. ReachedFrom(src) \subseteq DOMAIN vertices
        BY <2>1, ReachedIsClosed
    <3>. QED
        BY <3>2, <3>3 DEF HasPath
  <2>5. ASSUME NEW dst \in DOMAIN vertices, HasPath(src, dst)
        PROVE  \E p \in found : p[Len(p)] = dst
    <3>1. PICK p : IsSimplePath(src, p) /\ p[Len(p)] = dst
        BY <2>1, <2>5, ReachedByPath DEF HasPath
    <3>2. Len(p) <= NoCutoff + 1
        BY <2>1, <3>1, PathIsShort
    <3>. QED
        BY <2>3, <3>1, <3>2
  <2>. QED
      BY <2>4, <2>5 DEF found
<1>. QED
    BY <1>1, AlwaysBuilt, PTL
-----------------------------------------------------------------------------
(* The figures of a path.                                                  *)

LEMMA MinIsLeast ==
    ASSUME NEW S \in SUBSET Nat, S # {}
    PROVE  Min(S) \in S /\ \A y \in S : Min(S) <= y
BY LeastNumber DEF Min

\* Of finitely many links one is at least as good as all.
LEMMA BestExists ==
    ASSUME NEW S \in SUBSET LinkMetrics, IsFiniteSet(S), S # {}
    PROVE  \E m \in S : \A n \in S : IsBetter(m, n)
<1>. DEFINE HasBest(T) == \E m \in T : \A n \in T : IsBetter(m, n)
            Good == {T \in SUBSET S : T # {} => HasBest(T)}
<1>1. {} \in Good
    OBVIOUS
<1>2. ASSUME NEW T \in SUBSET S, T # {}, \A x \in T : T \ {x} \in Good
      PROVE  T \in Good
  <2>. PICK x \in T : TRUE
      BY <1>2
  <2>. DEFINE R == T \ {x}
  <2>1. R # {} => HasBest(R)
      BY <1>2
  <2>2. \A m, n \in LinkMetrics :
            /\ IsBetter(m, m) /\ (IsBetter(m, n) \/ IsBetter(n, m))
            /\ \A l \in LinkMetrics : IsBetter(m, n) /\ IsBetter(n, l) => IsBetter(m, l)
      BY DEF IsBetter, LinkMetrics
  <2>3. x \in LinkMetrics /\ R \subseteq LinkMetrics /\ T = R \cup {x}
      OBVIOUS
  <2>4. HasBest(T)
    <3>1. CASE R = {}
        BY <2>2, <2>3, <3>1
    <3>2. ASSUME NEW m \in R, \A n \in R : IsBetter(m, n)
          PROVE  HasBest(T)
      <4>1. CASE IsBetter(m, x)
          BY <2>3, <3>2, <4>1
      <4>2. CASE IsBetter(x, m)
        <5>1. \A n \in R : IsBetter(x, n)
            BY <2>2, <2>3, <3>2, <4>2
        <5>. HIDE DEF R
        <5>. QED
            BY <2>2, <2>3, <5>1
      <4>. QED
          BY <2>2, <2>3, <4>1, <4>2
    <3>. QED
        BY <2>1, <3>1, <3>2
  <2>. QED
      BY <2>4
<1>3. \A T \in SUBSET S : IsFiniteSet(T) => T \in Good
  <2>. HIDE DEF Good
  <2>. QED
      BY <1>1, <1>2, InductOnSets
<1>4. S \in Good
  <2>. HIDE DEF Good
  <2>. QED
      BY <1>3
<1>. QED
    BY <1>4

LEMMA BestEdgeIsBest ==
    ASSUME LinksJoinVertices, NEW u, NEW v, <<u, v>> \in Hops
    PROVE  /\ BestEdge(u, v) \in Parallel(u, v) /\ BestEdge(u, v) \in LinkMetrics
           /\ Parallel(u, v) \subseteq LinkMetrics
           /\ \A n \in Parallel(u, v) : IsBetter(BestEdge(u, v), n)
<1>. DEFINE K == Keys(links, u, v)
            S == Parallel(u, v)
            f == [k \in K |-> links[<<u, v, k>>]]
<1>1. IsFiniteSet(K)
    BY KeysAreFinite DEF LinksJoinVertices
<1>2. \A k \in K : <<u, v, k>> \in DOMAIN links
  <2>1. \A x \in DOMAIN links : x = <<x[1], x[2], x[3]>>
      BY DEF LinksJoinVertices, Multigraph
  <2>. QED
      BY <2>1 DEF Keys
<1>3. S = {f[k] : k \in DOMAIN f} /\ S = {links[<<u, v, k>>] : k \in K}
    BY DEF Parallel
<1>4. IsFiniteSet(S)
  <2>1. IsFiniteSet({f[k] : k \in DOMAIN f})
      BY <1>1, ImageIsFinite
  <2>. QED
      BY <1>3, <2>1
<1>5. S \subseteq LinkMetrics
    BY <1>2, <1>3 DEF LinksJoinVertices
<1>6. S # {}
  <2>1. PICK x \in DOMAIN links : <<x[1], x[2]>> = <<u, v>>
      BY DEF Hops
  <2>2. x[3] \in K
      BY <2>1 DEF Keys
  <2>. HIDE DEF K, S
  <2>. QED
      BY <1>3, <2>2
<1>7. \E m \in S : \A n \in S : IsBetter(m, n)
  <2>. HIDE DEF S
  <2>. QED
      BY <1>4, <1>5, <1>6, BestExists
<1>8. BestEdge(u, v) \in S /\ \A n \in S : IsBetter(BestEdge(u, v), n)
  <2>1. BestEdge(u, v) = CHOOSE m \in S : \A n \in S : IsBetter(m, n)
      BY DEF BestEdge
  <2>. HIDE DEF S
  <2>. QED
      BY <1>7, <2>1
<1>. QED
    BY <1>5, <1>8

\* A path that the search returns goes over links from one GPU to another.
LEMMA PathOfSearch ==
    ASSUME LinksJoinVertices, NEW src \in DOMAIN vertices, NEW dst, src # dst,
           NEW p \in AllPaths(SimpleView, src, dst, NoCutoff)
    PROVE  /\ p \in Seq(DOMAIN vertices) /\ Len(p) \in Nat /\ Len(p) > 1
           /\ \A i \in 1..(Len(p) - 1) : <<p[i], p[i + 1]>> \in Hops
<1>. DEFINE view == SimpleView
<1>1. DOMAIN view = Hops
    BY ViewIsOfHops
<1>2. NoCutoff \in Nat
    BY CutoffIsNatural
<1>3. p \in SimplePathsFrom(view, src, NoCutoff) /\ p[Len(p)] = dst
    BY DEF AllPaths
<1>. HIDE DEF view
<1>4. IsSimplePath(src, p)
    BY <1>1, <1>2, <1>3, PathsAreSimple
<1>5. Len(p) # 1
    BY <1>3, <1>4 DEF IsSimplePath
<1>6. p \in Seq(DOMAIN vertices) /\ Len(p) \in Nat /\ Len(p) >= 1
    BY <1>4 DEF IsSimplePath
<1>7. Len(p) > 1
  <2>. DEFINE n == Len(p)
  <2>1. n \in Nat /\ n >= 1 /\ n # 1
      BY <1>5, <1>6
  <2>. HIDE DEF n
  <2>2. n > 1
      BY <2>1
  <2>. QED
      BY <2>2 DEF n
<1>. QED
    BY <1>4, <1>6, <1>7 DEF IsSimplePath

\* The bottleneck of a path is the widest that its parallel links give (_best_edge and
\* _summarize, paths.py:47-50, 76).
THEOREM BottleneckIsReported == Spec => []BottleneckIsWidest
<1>1. ASSUME BuildInv
      PROVE  BottleneckIsWidest
  <2>. DEFINE view == SimpleView
              bandwidths == {links[x].bandwidth_gbps : x \in DOMAIN links}
              widest == [e \in DOMAIN view |->
                            {b \in bandwidths :
                                \E m \in Parallel(e[1], e[2]) : b <= m.bandwidth_gbps}]
  <2>. SUFFICES ASSUME NEW e \in GpuPairs, NEW p \in AllPaths(view, e[1], e[2], NoCutoff),
                       NEW b \in bandwidths
                PROVE  b <= Summary(p).bottleneck_bandwidth_gbps
                         <=> \A i \in 1..(Len(p) - 1) : b \in widest[<<p[i], p[i + 1]>>]
      BY DEF BottleneckIsWidest
  <2>. DEFINE n == Len(p) - 1
              hops == [i \in 1..n |-> BestEdge(p[i], p[i + 1])]
              widths == {hops[i].bandwidth_gbps : i \in 1..n}
  <2>1. LinksJoinVertices
      BY <1>1, BuiltIsJoined
  <2>2. /\ Len(p) \in Nat /\ Len(p) > 1
        /\ \A i \in 1..n : <<p[i], p[i + 1]>> \in Hops
    <3>1. e[1] \in DOMAIN vertices /\ e[1] # e[2]
        BY DEF GpuPairs, OfKind
    <3>. QED
        BY <2>1, <3>1, PathOfSearch
  <2>3. Summary(p).bottleneck_bandwidth_gbps = Min(widths)
      BY DEF Summary
  <2>4. b \in Nat
      BY <2>1 DEF LinksJoinVertices, LinkMetrics
  <2>5. ASSUME NEW i \in 1..n
        PROVE  /\ hops[i] \in LinkMetrics
               /\ b \in widest[<<p[i], p[i + 1]>>] <=> b <= hops[i].bandwidth_gbps
    <3>. DEFINE u == p[i]
                v == p[i + 1]
    <3>1. <<u, v>> \in Hops
        BY <2>2
    <3>2. hops[i] = BestEdge(u, v)
        OBVIOUS
    <3>3. widest[<<u, v>>] = {w \in bandwidths : \E m \in Parallel(u, v) : w <= m.bandwidth_gbps}
        BY <3>1, ViewIsOfHops
    <3>. HIDE DEF u, v, hops, widest
    <3>4. /\ hops[i] \in Parallel(u, v) /\ hops[i] \in LinkMetrics
          /\ Parallel(u, v) \subseteq LinkMetrics
          /\ \A m \in Parallel(u, v) : IsBetter(hops[i], m)
        BY <2>1, <3>1, <3>2, BestEdgeIsBest
    <3>5. \A m \in Parallel(u, v) : m.bandwidth_gbps <= hops[i].bandwidth_gbps
        BY <3>4 DEF IsBetter, LinkMetrics
    <3>6. (\E m \in Parallel(u, v) : b <= m.bandwidth_gbps) <=> b <= hops[i].bandwidth_gbps
        BY <2>4, <3>4, <3>5 DEF LinkMetrics
    <3>. QED
        BY <3>3, <3>4, <3>6 DEF u, v
  <2>. HIDE DEF hops, widest, view
  <2>6. widths \in SUBSET Nat /\ widths # {}
    <3>1. 1 \in 1..n
        BY <2>2
    <3>2. \A i \in 1..n : hops[i].bandwidth_gbps \in Nat
        BY <2>5 DEF LinkMetrics
    <3>. HIDE DEF n
    <3>. QED
        BY <3>1, <3>2
  <2>7. Min(widths) \in widths /\ \A w \in widths : Min(widths) <= w
    <3>. HIDE DEF widths
    <3>. QED
        BY <2>6, MinIsLeast
  <2>8. b <= Min(widths) <=> \A w \in widths : b <= w
    <3>. DEFINE least == Min(widths)
    <3>. HIDE DEF widths
    <3>1. least \in widths /\ widths \subseteq Nat /\ \A w \in widths : least <= w
        BY <2>6, <2>7
    <3>. HIDE DEF least
    <3>2. b <= least <=> \A w \in widths : b <= w
        BY <2>4, <3>1
    <3>. QED
        BY <3>2 DEF least
  <2>9. (\A w \in widths : b <= w) <=> \A i \in 1..n : b \in widest[<<p[i], p[i + 1]>>]
    <3>. HIDE DEF n
    <3>. QED
        BY <2>5
  <2>. HIDE DEF widths
  <2>. QED
      BY <2>3, <2>8, <2>9
<1>. QED
    BY <1>1, AlwaysBuilt, PTL

\* The weight that is searched for is the figure that is reported.
LEMMA WeightIsCost ==
    ASSUME LinksJoinVertices, NEW src \in DOMAIN vertices, NEW dst, src # dst,
           NEW p \in AllPaths(SimpleView, src, dst, NoCutoff), NEW weight \in {"latency", "hops"}
    PROVE  /\ PathWeight(SimpleView, p, weight) = Cost(p, weight)
           /\ Cost(p, weight) \in Nat
<1>. DEFINE view == SimpleView
            n == Len(p) - 1
            hops == [i \in 1..n |-> BestEdge(p[i], p[i + 1])]
            times == [i \in 1..n |-> hops[i].latency_us]
<1>1. /\ n \in Nat /\ n > 0
      /\ \A i \in 1..n : <<p[i], p[i + 1]>> \in Hops
    BY PathOfSearch
<1>2. Summary(p).hop_count = n /\ Summary(p).total_latency_us = SumFunction(times)
  <2>1. DOMAIN hops = 1..n
      OBVIOUS
  <2>. QED
      BY <2>1 DEF Summary
<1>3. ASSUME NEW i \in 1..n
      PROVE  view[<<p[i], p[i + 1]>>] = times[i] /\ times[i] \in Nat
  <2>. DEFINE u == p[i]
              v == p[i + 1]
  <2>1. <<u, v>> \in Hops /\ times[i] = BestEdge(u, v).latency_us
      BY <1>1
  <2>2. view[<<u, v>>] = BestEdge(u, v).latency_us
    <3>. DEFINE e == <<u, v>>
    <3>1. e \in {<<x[1], x[2]>> : x \in DOMAIN links} /\ e[1] = u /\ e[2] = v
        BY <2>1 DEF Hops
    <3>. HIDE DEF e
    <3>2. view[e] = BestEdge(e[1], e[2]).latency_us
        BY <3>1 DEF SimpleView
    <3>. QED
        BY <3>1, <3>2 DEF e
  <2>3. BestEdge(u, v) \in LinkMetrics
    <3>. HIDE DEF u, v
    <3>. QED
        BY <2>1, BestEdgeIsBest
  <2>. QED
      BY <2>1, <2>2, <2>3 DEF LinkMetrics
<1>4. [i \in 1..n |-> view[<<p[i], p[i + 1]>>]] = times
  <2>. HIDE DEF view, n, hops
  <2>. QED
      BY <1>3
<1>5. SumFunction(times) \in Nat
  <2>. DEFINE D == 1..n
  <2>1. IsFiniteSet(D) /\ DOMAIN times = D
      BY <1>1, FS_Interval
  <2>2. \A i \in D : times[i] \in Nat
      BY <1>3
  <2>. HIDE DEF times, D
  <2>3. PICK sum : AddsUp(times, D, sum) /\ SumFunction(times) = sum[D]
      BY <2>1, SumFunctionAddsUp
  <2>4. \A S \in SUBSET D : sum[S] \in Nat
      BY <2>1, <2>2, <2>3, SumIsTyped
  <2>. QED
      BY <2>3, <2>4
<1>6. PathWeight(view, p, weight) =
          IF weight = "hops" THEN n ELSE SumFunction([i \in 1..n |-> view[<<p[i], p[i + 1]>>]])
    BY DEF PathWeight
<1>7. Cost(p, weight) = IF weight = "hops" THEN n ELSE SumFunction(times)
  <2>. HIDE DEF n, times
  <2>. QED
      BY <1>2 DEF Cost
<1>. HIDE DEF view, n, times
<1>. QED
    BY <1>1, <1>4, <1>5, <1>6, <1>7 DEF view

\* The yield of one path more: a best one of those left.
OneBest(view, paths, weight, yields) ==
    UNION {{Append(s, p) : p \in Lightest(view, paths \ Range(s), weight)} : s \in yields}

OneByOne(view, src, dst, k, weight, paths, m, found) ==
    /\ found[0] = {<<>>}
    /\ \A n \in Nat : n < m => found[n + 1] = OneBest(view, paths, weight, found[n])
    /\ m = Min({k, Cardinality(paths)})
    /\ KShortestPaths(view, src, dst, k, weight) = IF paths = {} THEN {} ELSE found[m]

LEMMA KShortestOneByOne ==
    ASSUME NEW view, NEW src, NEW dst, NEW k \in Nat, NEW weight,
           NEW paths, paths = AllPaths(view, src, dst, NoCutoff), IsFiniteSet(paths)
    PROVE  \E m \in Nat : \E found : OneByOne(view, src, dst, k, weight, paths, m, found)
<1>. DEFINE Item(found, n) ==
                IF n = 0 THEN {<<>>}
                ELSE UNION {{Append(s, p) : p \in Lightest(view, paths \ Range(s), weight)}
                              : s \in found[n - 1]}
            Solves(found, m) == found = [n \in 0..m |-> Item(found, n)]
            solved == {m \in Nat : \E found : Solves(found, m)}
            m == Min({k, Cardinality(paths)})
<1>0. m \in Nat
  <2>1. Cardinality(paths) \in Nat
      BY FS_CardinalityType
  <2>. DEFINE S == {k, Cardinality(paths)}
  <2>2. S \in SUBSET Nat /\ S # {}
      BY <2>1
  <2>. HIDE DEF S
  <2>3. Min(S) \in S
      BY <2>2, MinIsLeast
  <2>. QED
      BY <2>2, <2>3 DEF S
<1>. HIDE DEF m
<1>1. 0 \in solved
  <2>. DEFINE found == [n \in 0..0 |-> {<<>>}]
  <2>1. \A n \in 0..0 : Item(found, n) = {<<>>}
      OBVIOUS
  <2>2. Solves(found, 0)
    <3>. HIDE DEF Item
    <3>. QED
        BY <2>1
  <2>. HIDE DEF Solves
  <2>. QED
      BY <2>2
<1>2. ASSUME NEW i \in Nat, i \in solved
      PROVE  i + 1 \in solved
  <2>1. PICK found : Solves(found, i)
      BY <1>2
  <2>. DEFINE more == [n \in 0..(i + 1) |-> Item(found, n)]
  <2>2. \A n \in 0..i : found[n] = Item(found, n)
    <3>. HIDE DEF Item
    <3>. QED
        BY <2>1
  <2>3. \A n \in 0..i : n \in 0..(i + 1) /\ more[n] = found[n]
    <3>. HIDE DEF Item
    <3>. QED
        BY <2>2
  <2>4. \A n \in 0..(i + 1) : n # 0 => n - 1 \in 0..i
      OBVIOUS
  <2>5. ASSUME NEW n \in 0..(i + 1)
        PROVE  Item(more, n) = Item(found, n)
    <3>1. CASE n = 0
        BY <3>1
    <3>2. CASE n # 0
      <4>1. more[n - 1] = found[n - 1]
        <5>. HIDE DEF more
        <5>. QED
            BY <2>3, <2>4, <3>2
      <4>. HIDE DEF more
      <4>. QED
          BY <3>2, <4>1
    <3>. QED
        BY <3>1, <3>2
  <2>6. Solves(more, i + 1)
    <3>. HIDE DEF Item
    <3>. QED
        BY <2>5
  <2>. HIDE DEF Solves
  <2>. QED
      BY <2>6
<1>3. m \in solved
  <2>1. \A i \in Nat : i \in solved
    <3>. HIDE DEF solved
    <3>. QED
        BY <1>1, <1>2, Induct
  <2>. HIDE DEF solved
  <2>. QED
      BY <1>0, <2>1
<1>. DEFINE found == CHOOSE f : Solves(f, m)
<1>4. Solves(found, m)
  <2>. HIDE DEF Solves
  <2>. QED
      BY <1>3
<1>5. KShortestPaths(view, src, dst, k, weight) = IF paths = {} THEN {} ELSE found[m]
    BY DEF KShortestPaths, m
<1>. HIDE DEF found
<1>6. \A n \in 0..m : found[n] = Item(found, n)
  <2>. HIDE DEF Item
  <2>. QED
      BY <1>4
<1>7. found[0] = {<<>>}
  <2>1. found[0] = Item(found, 0)
    <3>. HIDE DEF Item
    <3>. QED
        BY <1>0, <1>6
  <2>. QED
      BY <2>1
<1>8. ASSUME NEW n \in Nat, n < m
      PROVE  found[n + 1] = OneBest(view, paths, weight, found[n])
  <2>. DEFINE j == n + 1
  <2>1. j \in 0..m /\ j # 0 /\ j - 1 = n
      BY <1>0, <1>8
  <2>2. found[j] = Item(found, j)
    <3>. HIDE DEF Item, j
    <3>. QED
        BY <1>6, <2>1
  <2>. HIDE DEF j
  <2>3. found[j] = OneBest(view, paths, weight, found[n])
      BY <2>1, <2>2 DEF OneBest
  <2>. QED
      BY <2>3 DEF j
<1>. QED
    BY <1>0, <1>5, <1>7, <1>8 DEF OneByOne, m

\* Each path of s is a best one of those that are not before it.
BestFirst(view, paths, weight, s) ==
    /\ s \in Seq(paths)
    /\ \A i \in 1..Len(s) :
          s[i] \in Lightest(view, paths \ {s[j] : j \in 1..(i - 1)}, weight)

LEMMA OneMoreIsBest ==
    ASSUME NEW view, NEW paths, NEW weight, NEW s, BestFirst(view, paths, weight, s),
           NEW p \in Lightest(view, paths \ Range(s), weight)
    PROVE  BestFirst(view, paths, weight, Append(s, p))
<1>. DEFINE n == Len(s)
            m == n + 1
            r == Append(s, p)
            Before(t, i) == {t[j] : j \in 1..(i - 1)}
<1>1. s \in Seq(paths) /\ n \in Nat /\ DOMAIN s = 1..n
    BY DEF BestFirst
<1>2. p \in paths
    BY DEF Lightest
<1>3. r \in Seq(paths) /\ Len(r) = m /\ r[m] = p /\ \A i \in 1..n : r[i] = s[i]
    BY <1>1, <1>2
<1>4. \A i \in 1..n : s[i] \in Lightest(view, paths \ Before(s, i), weight)
    BY DEF BestFirst
<1>5. Range(s) = Before(s, m)
  <2>1. 1..(m - 1) = 1..n
      BY <1>1
  <2>. QED
      BY <1>1, <2>1 DEF Range
<1>. HIDE DEF r, n
<1>6. ASSUME NEW i \in 1..m
      PROVE  Before(r, i) = Before(s, i)
  <2>1. \A j \in 1..(i - 1) : r[j] = s[j]
      BY <1>1, <1>3
  <2>. QED
      BY <2>1
<1>. HIDE DEF Before
<1>7. ASSUME NEW i \in 1..m
      PROVE  r[i] \in Lightest(view, paths \ Before(r, i), weight)
  <2>1. CASE i = m
    <3>1. r[i] = p /\ Before(r, i) = Range(s)
        BY <1>3, <1>5, <1>6, <2>1
    <3>. QED
        BY <3>1
  <2>2. CASE i # m
    <3>1. i \in 1..n
        BY <1>1, <2>2
    <3>. QED
        BY <1>3, <1>4, <1>6, <3>1
  <2>. QED
      BY <2>1, <2>2
<1>. QED
    BY <1>3, <1>7 DEF BestFirst, r, Before

LEMMA KShortestAreBest ==
    ASSUME NEW view, NEW src, NEW dst, NEW k \in Nat, NEW weight,
           NEW paths, paths = AllPaths(view, src, dst, NoCutoff), IsFiniteSet(paths),
           NEW s \in KShortestPaths(view, src, dst, k, weight)
    PROVE  /\ BestFirst(view, paths, weight, s)
           /\ paths # {} /\ Len(s) = Min({k, Cardinality(paths)})
<1>. PICK m \in Nat : \E found : OneByOne(view, src, dst, k, weight, paths, m, found)
    BY KShortestOneByOne
<1>. PICK found : OneByOne(view, src, dst, k, weight, paths, m, found)
    OBVIOUS
<1>1. /\ found[0] = {<<>>}
      /\ \A n \in Nat : n < m => found[n + 1] = OneBest(view, paths, weight, found[n])
      /\ paths # {} /\ s \in found[m] /\ m = Min({k, Cardinality(paths)})
    BY DEF OneByOne
<1>. DEFINE Sound(S, n) == \A r \in S : BestFirst(view, paths, weight, r) /\ Len(r) = n
            good == {n \in Nat : n <= m => Sound(found[n], n)}
<1>2. 0 \in good
  <2>1. BestFirst(view, paths, weight, <<>>)
      BY DEF BestFirst
  <2>2. Sound(found[0], 0)
      BY <1>1, <2>1
  <2>. QED
      BY <2>2
<1>3. ASSUME NEW n \in Nat, n \in good
      PROVE  n + 1 \in good
  <2>. SUFFICES ASSUME n + 1 <= m
                PROVE  Sound(found[n + 1], n + 1)
      OBVIOUS
  <2>1. Sound(found[n], n) /\ found[n + 1] = OneBest(view, paths, weight, found[n])
    <3>1. n < m /\ n <= m
        OBVIOUS
    <3>. HIDE DEF Sound
    <3>. QED
        BY <1>1, <1>3, <3>1
  <2>2. ASSUME NEW r \in found[n + 1]
        PROVE  BestFirst(view, paths, weight, r) /\ Len(r) = n + 1
    <3>1. PICK q \in found[n] :
              \E p \in Lightest(view, paths \ Range(q), weight) : r = Append(q, p)
        BY <2>1 DEF OneBest
    <3>2. BestFirst(view, paths, weight, q) /\ Len(q) = n
        BY <2>1
    <3>3. q \in Seq(paths) /\ \A p : Len(Append(q, p)) = Len(q) + 1
        BY <3>2 DEF BestFirst
    <3>. QED
        BY <3>1, <3>2, <3>3, OneMoreIsBest
  <2>. QED
      BY <2>2
<1>4. \A n \in Nat : n \in good
  <2>. HIDE DEF good
  <2>. QED
      BY <1>2, <1>3, Induct
<1>5. Sound(found[m], m)
  <2>. HIDE DEF Sound
  <2>. QED
      BY <1>4
<1>. QED
    BY <1>1, <1>5

\* The paths come in the order of the figures that are reported of them, of topologies
\* of any size (k_shortest_paths, paths.py:101-126).
THEOREM BestPathsFirst == Spec => []BestComeFirst
<1>1. ASSUME BuildInv
      PROVE  BestComeFirst
  <2>. DEFINE view == SimpleView
  <2>1. ASSUME NEW e \in GpuPairs, NEW weight \in {"latency", "hops"},
               NEW s \in KShortestPaths(view, e[1], e[2], 2, weight),
               NEW i \in DOMAIN s,
               NEW p \in AllPaths(view, e[1], e[2], NoCutoff) \ {s[j] : j \in 1..(i - 1)}
        PROVE  /\ s[i] \in AllPaths(view, e[1], e[2], NoCutoff)
               /\ Cost(s[i], weight) <= Cost(p, weight)
    <3>. DEFINE src == e[1]
                dst == e[2]
                paths == AllPaths(view, src, dst, NoCutoff)
                left == paths \ {s[j] : j \in 1..(i - 1)}
                weights == {PathWeight(view, q, weight) : q \in left}
    <3>1. LinksJoinVertices /\ src \in DOMAIN vertices /\ src # dst
        BY <1>1, BuiltIsJoined DEF GpuPairs, OfKind
    <3>2. IsFiniteSet(paths)
      <4>1. DOMAIN view = Hops /\ NoCutoff \in Nat
          BY <3>1, ViewIsOfHops, CutoffIsNatural
      <4>. HIDE DEF view, src, dst
      <4>2. IsFiniteSet(SimplePathsFrom(view, src, NoCutoff))
          BY <3>1, <4>1, PathsAreSimple
      <4>3. paths \subseteq SimplePathsFrom(view, src, NoCutoff)
          BY DEF AllPaths
      <4>. QED
          BY <4>2, <4>3, FS_Subset
    <3>3. BestFirst(view, paths, weight, s)
      <4>1. 2 \in Nat /\ s \in KShortestPaths(view, src, dst, 2, weight)
          OBVIOUS
      <4>. HIDE DEF src, dst, view
      <4>. DEFINE all == paths
      <4>2. all = AllPaths(view, src, dst, NoCutoff) /\ IsFiniteSet(all)
          BY <3>2
      <4>. HIDE DEF all
      <4>3. BestFirst(view, all, weight, s)
          BY <4>1, <4>2, KShortestAreBest
      <4>. QED
          BY <4>3 DEF all
    <3>4. \A q \in paths : PathWeight(view, q, weight) = Cost(q, weight) /\ Cost(q, weight) \in Nat
        BY <3>1, WeightIsCost
    <3>. HIDE DEF paths, src, dst, view
    <3>5. s[i] \in left /\ PathWeight(view, s[i], weight) = Min(weights)
      <4>1. i \in 1..Len(s)
          BY <3>3 DEF BestFirst
      <4>2. s[i] \in Lightest(view, left, weight)
          BY <3>3, <4>1 DEF BestFirst
      <4>. HIDE DEF left
      <4>. QED
          BY <4>2 DEF Lightest
    <3>6. p \in left
        BY DEF paths, src, dst
    <3>7. weights \in SUBSET Nat /\ PathWeight(view, p, weight) \in weights
        BY <3>4, <3>6
    <3>8. Min(weights) <= PathWeight(view, p, weight)
      <4>. HIDE DEF weights
      <4>. QED
          BY <3>7, MinIsLeast
    <3>9. s[i] \in paths /\ p \in paths
        BY <3>5, <3>6
    <3>10. Cost(s[i], weight) <= Cost(p, weight)
        BY <3>4, <3>5, <3>8, <3>9
    <3>. QED
        BY <3>9, <3>10 DEF paths, src, dst
  <2>2. ASSUME NEW e \in GpuPairs, NEW weight \in {"latency", "hops"},
               NEW s \in KShortestPaths(view, e[1], e[2], 2, weight), NEW i \in DOMAIN s
        PROVE  LET costs == [q \in AllPaths(view, e[1], e[2], NoCutoff) |-> Cost(q, weight)]
               IN  \A p \in DOMAIN costs \ {s[j] : j \in 1..(i - 1)} : costs[s[i]] <= costs[p]
    <3>. HIDE DEF view
    <3>. QED
        BY <2>1
  <2>. HIDE DEF view
  <2>. QED
      BY <2>2 DEF BestComeFirst, view
<1>. QED
    BY <1>1, AlwaysBuilt, PTL
-----------------------------------------------------------------------------
(* Where the links come from.                                              *)

\* All that the group adds to the links is there.
Installed(L, c, group) ==
    \A T \in GroupTypes : \A e \in GroupPairs(c, group)[T] : Joined(L, e[1], e[2], T)

\* The link x was added with a group of one of the calls.
FromGroup(L, cs, x) ==
    \E c \in cs : \E i \in DOMAIN c.rack_groups :
        LET group == c.rack_groups[i]
            T     == L[x].link_type
        IN  /\ T \in GroupTypes /\ <<x[1], x[2]>> \in GroupPairs(c, group)[T]
            /\ L[x] = c.metrics[T]
            /\ Installed(L, c, group)

\* The link x is one of the backbone of n AZs.
FromBackbone(L, n, x) ==
    /\ L[x] = Default["inter_pod"]
    /\ \E i, j \in 1..n : x[1] = Spine(i, 1) /\ x[2] = Spine(j, 1)

Sourced(V, L, cs, n) ==
    /\ Multigraph(L)
    /\ \A x \in DOMAIN L : FromGroup(L, cs, x) \/ FromBackbone(L, n, x)
    /\ \A e \in DOMAIN V : e[1] = "gpu" =>
          \E c \in cs : \E i \in DOMAIN c.rack_groups :
              e \in GroupGpus(c, c.rack_groups[i]) /\ Installed(L, c, c.rack_groups[i])

LEMMA InstalledStays ==
    ASSUME NEW L, NEW M, Keeps(L, M), NEW c, NEW group, Installed(L, c, group)
    PROVE  Installed(M, c, group)
BY JoinedStays DEF Installed

LEMMA SourceStays ==
    ASSUME NEW L, NEW M, Keeps(L, M), NEW cs, NEW ds, cs \subseteq ds, NEW n,
           NEW x \in DOMAIN L, FromGroup(L, cs, x) \/ FromBackbone(L, n, x)
    PROVE  FromGroup(M, ds, x) \/ FromBackbone(M, n, x)
<1>1. M[x] = L[x]
    BY DEF Keeps
<1>2. ASSUME FromGroup(L, cs, x)
      PROVE  FromGroup(M, ds, x)
  <2>. DEFINE Source(c, i) ==
                /\ L[x].link_type \in GroupTypes
                /\ <<x[1], x[2]>> \in GroupPairs(c, c.rack_groups[i])[L[x].link_type]
                /\ L[x] = c.metrics[L[x].link_type]
                /\ Installed(L, c, c.rack_groups[i])
  <2>. PICK c \in cs : \E i \in DOMAIN c.rack_groups : Source(c, i)
      BY <1>2 DEF FromGroup
  <2>1. PICK i \in DOMAIN c.rack_groups : Source(c, i)
      OBVIOUS
  <2>2. Installed(M, c, c.rack_groups[i])
      BY <2>1, InstalledStays
  <2>. QED
      BY <1>1, <2>1, <2>2 DEF FromGroup
<1>3. FromBackbone(L, n, x) => FromBackbone(M, n, x)
    BY <1>1 DEF FromBackbone
<1>. QED
    BY <1>2, <1>3

LEMMA SpinesKeepSourced ==
    ASSUME NEW cs, NEW c \in PodCall, NEW n, NEW V, NEW L, Sourced(V, L, cs, n)
    PROVE  Sourced(Updated(V, SpineData(c)), L, cs \cup {c}, n)
<1>. DEFINE W == Updated(V, SpineData(c))
            ds == cs \cup {c}
<1>1. ASSUME NEW e \in DOMAIN W, e[1] = "gpu"
      PROVE  \E d \in ds : \E i \in DOMAIN d.rack_groups :
                e \in GroupGpus(d, d.rack_groups[i]) /\ Installed(L, d, d.rack_groups[i])
  <2>1. e \notin SpineIds(c)
      BY <1>1 DEF SpineIds, Spine
  <2>2. e \in DOMAIN V
      BY <2>1 DEF Updated, SpineData
  <2>. QED
      BY <1>1, <2>2 DEF Sourced
<1>2. \A x \in DOMAIN L : FromGroup(L, ds, x) \/ FromBackbone(L, n, x)
  <2>1. Keeps(L, L)
      BY DEF Keeps
  <2>2. cs \subseteq ds
      OBVIOUS
  <2>. HIDE DEF ds
  <2>. QED
      BY <2>1, <2>2, SourceStays DEF Sourced
<1>. QED
    BY <1>1, <1>2 DEF Sourced

LEMMA GroupInstalls ==
    ASSUME NEW c \in PodCall, NEW i \in DOMAIN c.rack_groups, NEW L, Multigraph(L)
    PROVE  LET group == c.rack_groups[i]
               new   == GroupLinks(c, group)
               M     == AddAll(L, new)
           IN  /\ Pairs(DOMAIN new)
               /\ Keeps(L, M) /\ Multigraph(M)
               /\ DOMAIN M = DOMAIN L \cup {NewLink(L, e) : e \in DOMAIN new}
               /\ \A e \in DOMAIN new : M[NewLink(L, e)] = new[e]
               /\ Installed(M, c, group)
<1>. DEFINE group == c.rack_groups[i]
            new == GroupLinks(c, group)
            M == AddAll(L, new)
<1>1. group \in RackGroup
    BY DEF PodCall
<1>2. Pairs(DOMAIN new) /\ IsFiniteSet(DOMAIN new)
    BY <1>1, GroupLinksAreShaped
<1>3. \A T \in GroupTypes : \A e \in GroupPairs(c, group)[T] :
          e \in DOMAIN new /\ new[e].link_type = T
    BY GroupLinksOfType
<1>. HIDE DEF new
<1>4. /\ Keeps(L, M) /\ Multigraph(M)
      /\ DOMAIN M = DOMAIN L \cup {NewLink(L, e) : e \in DOMAIN new}
      /\ \A e \in DOMAIN new : M[NewLink(L, e)] = new[e]
    BY <1>2, AddAllAdds, AddAllIsMultigraph
<1>5. Installed(M, c, group)
  <2>. SUFFICES ASSUME NEW T \in GroupTypes, NEW e \in GroupPairs(c, group)[T]
                PROVE  Joined(M, e[1], e[2], T)
      BY DEF Installed
  <2>1. e \in DOMAIN new /\ new[e].link_type = T
      BY <1>3
  <2>2. e = <<e[1], e[2]>>
      BY <1>2, <2>1 DEF Pairs
  <2>. DEFINE u == e[1]
              v == e[2]
  <2>3. Joined(M, u, v, new[<<u, v>>].link_type)
      BY <1>2, <2>1, <2>2, NewIsJoined
  <2>. QED
      BY <2>1, <2>2, <2>3
<1>. HIDE DEF M
<1>. QED
    BY <1>2, <1>4, <1>5 DEF M, new

LEMMA GroupKeepsSourced ==
    ASSUME NEW cs \in SUBSET PodCall, NEW c \in cs, NEW i \in DOMAIN c.rack_groups, NEW n,
           NEW V, NEW L, Sourced(V, L, cs, n)
    PROVE  LET group == c.rack_groups[i]
           IN  Sourced(Updated(V, GroupData(c, group)), AddAll(L, GroupLinks(c, group)), cs, n)
<1>. DEFINE group == c.rack_groups[i]
            new == GroupLinks(c, group)
            W == Updated(V, GroupData(c, group))
            M == AddAll(L, new)
<1>1. DOMAIN new = UNION {GroupPairs(c, group)[T] : T \in GroupTypes}
    BY DEF GroupLinks, GroupPairs, GroupTypes
<1>2. \A T \in GroupTypes : \A e \in GroupPairs(c, group)[T] :
          new[e] = c.metrics[T] /\ c.metrics[T].link_type = T
    BY GroupLinksOfType
<1>3. DOMAIN W = DOMAIN V \cup GroupIds(c, group)
    BY DEF Updated, GroupData, GroupIds
<1>4. c \in PodCall /\ Multigraph(L)
    BY DEF Sourced
<1>5. /\ Pairs(DOMAIN new)
      /\ Keeps(L, M) /\ Multigraph(M)
      /\ DOMAIN M = DOMAIN L \cup {NewLink(L, e) : e \in DOMAIN new}
      /\ \A e \in DOMAIN new : M[NewLink(L, e)] = new[e]
      /\ Installed(M, c, group)
    BY <1>4, GroupInstalls
<1>. HIDE DEF new, W, M
<1>6. ASSUME NEW x \in DOMAIN M
      PROVE  FromGroup(M, cs, x) \/ FromBackbone(M, n, x)
  <2>1. CASE x \in DOMAIN L
      BY <1>5, <2>1, SourceStays DEF Sourced
  <2>2. ASSUME NEW e \in DOMAIN new, x = NewLink(L, e)
        PROVE  FromGroup(M, cs, x)
    <3>1. PICK T \in GroupTypes : e \in GroupPairs(c, group)[T]
        BY <1>1
    <3>2. M[x] = c.metrics[T] /\ c.metrics[T].link_type = T
        BY <1>2, <1>5, <2>2, <3>1
    <3>3. <<x[1], x[2]>> = e
        BY <1>5, <2>2 DEF NewLink, Pairs
    <3>. QED
        BY <1>5, <3>1, <3>2, <3>3 DEF FromGroup
  <2>. QED
      BY <1>5, <2>1, <2>2
<1>7. ASSUME NEW e \in DOMAIN W, e[1] = "gpu"
      PROVE  \E d \in cs : \E k \in DOMAIN d.rack_groups :
                e \in GroupGpus(d, d.rack_groups[k]) /\ Installed(M, d, d.rack_groups[k])
  <2>1. CASE e \in GroupIds(c, group)
    <3>1. e \in GroupGpus(c, group)
        BY <1>7, <2>1, GroupMembers DEF GroupIds
    <3>. QED
        BY <1>5, <3>1
  <2>2. CASE e \in DOMAIN V
    <3>. PICK d \in cs : \E k \in DOMAIN d.rack_groups :
              e \in GroupGpus(d, d.rack_groups[k]) /\ Installed(L, d, d.rack_groups[k])
        BY <1>7, <2>2 DEF Sourced
    <3>1. PICK k \in DOMAIN d.rack_groups :
              e \in GroupGpus(d, d.rack_groups[k]) /\ Installed(L, d, d.rack_groups[k])
        OBVIOUS
    <3>2. Installed(M, d, d.rack_groups[k])
        BY <1>5, <3>1, InstalledStays
    <3>. QED
        BY <3>1, <3>2
  <2>. QED
      BY <1>3, <2>1, <2>2
<1>. QED
    BY <1>5, <1>6, <1>7 DEF Sourced, W, M, new

LEMMA PopulatedKeepsSourced ==
    ASSUME NEW cs \in SUBSET PodCall, NEW c \in PodCall, NEW t, NEW n,
           Sourced(t.vertices, t.links, cs, n)
    PROVE  LET p == Populated(t, c)
           IN  Sourced(p.vertices, p.links, cs \cup {c}, n)
<1>. DEFINE ds == cs \cup {c}
            size == Len(c.rack_groups)
            Kept(p) == Sourced(p.vertices, p.links, ds, n)
<1>1. PICK after : StepByStep(t, c, after) /\ Populated(t, c) = after[size]
    BY PopulatedStepByStep
<1>. DEFINE good == {k \in Nat : k <= size => Kept(after[k])}
<1>2. size \in Nat /\ DOMAIN c.rack_groups = 1..size
    BY DEF PodCall
<1>3. Kept(after[0])
  <2>. DEFINE V == t.vertices
              W == Updated(V, SpineData(c))
  <2>1. after[0] = [vertices |-> W, links |-> t.links]
      BY <1>1 DEF StepByStep, WithSpines
  <2>2. Sourced(W, t.links, ds, n)
      BY SpinesKeepSourced
  <2>. HIDE DEF W, ds
  <2>. QED
      BY <2>1, <2>2
<1>4. ASSUME NEW k \in Nat, k \in good
      PROVE  k + 1 \in good
  <2>. SUFFICES ASSUME k + 1 <= size
                PROVE  Kept(after[k + 1])
      OBVIOUS
  <2>. DEFINE i == k + 1
              V == after[k].vertices
              L == after[k].links
              group == c.rack_groups[i]
              W == Updated(V, GroupData(c, group))
              M == AddAll(L, GroupLinks(c, group))
  <2>1. Sourced(V, L, ds, n) /\ i \in DOMAIN c.rack_groups
      BY <1>2, <1>4
  <2>2. after[i] = [vertices |-> W, links |-> M]
      BY <1>1, <2>1 DEF StepByStep, WithGroup
  <2>3. Sourced(W, M, ds, n)
    <3>1. ds \in SUBSET PodCall /\ c \in ds
        OBVIOUS
    <3>. HIDE DEF i, V, L, ds
    <3>. QED
        BY <2>1, <3>1, GroupKeepsSourced
  <2>. HIDE DEF i, W, M, ds
  <2>. QED
      BY <2>2, <2>3 DEF i
<1>5. size \in good
  <2>1. 0 \in good
      BY <1>3
  <2>2. \A k \in Nat : k \in good
    <3>. HIDE DEF good
    <3>. QED
        BY <1>4, <2>1, Induct
  <2>. HIDE DEF good
  <2>. QED
      BY <1>2, <2>2
<1>. QED
    BY <1>1, <1>2, <1>5

LEMMA EmptyIsSourced == \A n : Sourced(Empty.vertices, Empty.links, {}, n)
<1>1. Empty.vertices = <<>> /\ Empty.links = <<>> /\ DOMAIN <<>> = {}
    BY DEF Empty
<1>2. IsFiniteSet({})
    BY FS_EmptySet
<1>. QED
    BY <1>1, <1>2 DEF Sourced, Multigraph

LEMMA PodsAreSourced ==
    ASSUME NEW az_count \in Nat, NEW m
    PROVE  LET p == Pods(az_count) IN Sourced(p.vertices, p.links, FirstAzs(az_count), m)
<1>1. PICK after : /\ after[0] = Empty
                   /\ \A n \in Nat : n < az_count =>
                         after[n + 1] = Populated(after[n], AzCall(n + 1))
                   /\ Pods(az_count) = after[az_count]
    BY PodsStepByStep
<1>. DEFINE Sound(p, n) == Sourced(p.vertices, p.links, FirstAzs(n), m)
            good == {n \in Nat : n <= az_count => Sound(after[n], n)}
<1>2. 0 \in good
  <2>1. FirstAzs(0) = {}
      BY DEF FirstAzs
  <2>2. Sound(Empty, 0)
      BY <2>1, EmptyIsSourced
  <2>. QED
      BY <1>1, <2>2
<1>3. ASSUME NEW n \in Nat, n \in good
      PROVE  n + 1 \in good
  <2>. SUFFICES ASSUME n + 1 <= az_count
                PROVE  Sound(after[n + 1], n + 1)
      OBVIOUS
  <2>. DEFINE k == n + 1
              c == AzCall(k)
              t == after[n]
              p == Populated(t, c)
  <2>1. Sound(t, n) /\ after[k] = p /\ k \in Nat
      BY <1>1, <1>3
  <2>2. FirstAzs(n) \in SUBSET PodCall /\ c \in PodCall
      BY AzCallIsPodCall DEF FirstAzs
  <2>3. FirstAzs(k) = FirstAzs(n) \cup {c}
    <3>1. 1..k = (1..n) \cup {k}
        OBVIOUS
    <3>. HIDE DEF k
    <3>. QED
        BY <3>1 DEF FirstAzs
  <2>4. Sourced(p.vertices, p.links, FirstAzs(n) \cup {c}, m)
    <3>. HIDE DEF c, t
    <3>. QED
        BY <2>1, <2>2, PopulatedKeepsSourced
  <2>. HIDE DEF k, p, c
  <2>. QED
      BY <2>1, <2>3, <2>4 DEF k
<1>4. az_count \in good
  <2>1. \A n \in Nat : n \in good
    <3>. HIDE DEF good
    <3>. QED
        BY <1>2, <1>3, Induct
  <2>. HIDE DEF good
  <2>. QED
      BY <2>1
<1>. QED
    BY <1>1, <1>4

LEMMA RegionIsSourced ==
    ASSUME NEW n \in Nat
    PROVE  LET p == Pods(n)
           IN  Sourced(p.vertices, AddAll(p.links, Backbone(n)), FirstAzs(n), n)
<1>. DEFINE V == Pods(n).vertices
            L == Pods(n).links
            cs == FirstAzs(n)
            new == Backbone(n)
            M == AddAll(L, new)
<1>1. Sourced(V, L, cs, n)
    BY PodsAreSourced
<1>2. /\ Pairs(DOMAIN new) /\ IsFiniteSet(DOMAIN new)
      /\ \A e \in DOMAIN new :
            {e[1], e[2]} \subseteq {Spine(i, 1) : i \in 1..n} /\ new[e] = Default["inter_pod"]
    BY BackboneJoinsAll
<1>. HIDE DEF V, L, cs, new
<1>3. Multigraph(L)
    BY <1>1 DEF Sourced
<1>4. /\ Keeps(L, M) /\ Multigraph(M)
      /\ DOMAIN M = DOMAIN L \cup {NewLink(L, e) : e \in DOMAIN new}
      /\ \A e \in DOMAIN new : M[NewLink(L, e)] = new[e]
    BY <1>2, <1>3, AddAllAdds, AddAllIsMultigraph
<1>. HIDE DEF M
<1>5. ASSUME NEW x \in DOMAIN M
      PROVE  FromGroup(M, cs, x) \/ FromBackbone(M, n, x)
  <2>1. CASE x \in DOMAIN L
      BY <1>1, <1>4, <2>1, SourceStays DEF Sourced
  <2>2. ASSUME NEW e \in DOMAIN new, x = NewLink(L, e)
        PROVE  FromBackbone(M, n, x)
    <3>1. x[1] = e[1] /\ x[2] = e[2] /\ M[x] = Default["inter_pod"]
        BY <1>2, <1>4, <2>2 DEF NewLink
    <3>. QED
        BY <1>2, <3>1 DEF FromBackbone
  <2>. QED
      BY <1>4, <2>1, <2>2
<1>6. ASSUME NEW e \in DOMAIN V, e[1] = "gpu"
      PROVE  \E d \in cs : \E k \in DOMAIN d.rack_groups :
                e \in GroupGpus(d, d.rack_groups[k]) /\ Installed(M, d, d.rack_groups[k])
  <2>. PICK d \in cs : \E k \in DOMAIN d.rack_groups :
            e \in GroupGpus(d, d.rack_groups[k]) /\ Installed(L, d, d.rack_groups[k])
      BY <1>1, <1>6 DEF Sourced
  <2>1. PICK k \in DOMAIN d.rack_groups :
            e \in GroupGpus(d, d.rack_groups[k]) /\ Installed(L, d, d.rack_groups[k])
      OBVIOUS
  <2>2. Installed(M, d, d.rack_groups[k])
      BY <1>4, <2>1, InstalledStays
  <2>. QED
      BY <2>1, <2>2
<1>. QED
    BY <1>4, <1>5, <1>6 DEF Sourced, V, L, M, cs, new

\* All that the groups of the calls add to the links is there.
AllInstalled(L, cs) ==
    /\ Multigraph(L)
    /\ \A c \in cs : \A i \in DOMAIN c.rack_groups : Installed(L, c, c.rack_groups[i])

LEMMA AllStay ==
    ASSUME NEW L, NEW M, Keeps(L, M), Multigraph(M), NEW cs, AllInstalled(L, cs)
    PROVE  AllInstalled(M, cs)
BY InstalledStays DEF AllInstalled

LEMMA PopulatedInstalls ==
    ASSUME NEW cs, NEW c \in PodCall, NEW t, AllInstalled(t.links, cs)
    PROVE  AllInstalled(Populated(t, c).links, cs \cup {c})
<1>. DEFINE size == Len(c.rack_groups)
            Upto(L, k) == /\ AllInstalled(L, cs)
                          /\ \A i \in 1..k : Installed(L, c, c.rack_groups[i])
<1>1. PICK after : StepByStep(t, c, after) /\ Populated(t, c) = after[size]
    BY PopulatedStepByStep
<1>. DEFINE good == {k \in Nat : k <= size => Upto(after[k].links, k)}
<1>2. size \in Nat /\ DOMAIN c.rack_groups = 1..size
    BY DEF PodCall
<1>3. 0 \in good
  <2>1. after[0].links = t.links
      BY <1>1 DEF StepByStep, WithSpines
  <2>. QED
      BY <2>1
<1>4. ASSUME NEW k \in Nat, k \in good
      PROVE  k + 1 \in good
  <2>. SUFFICES ASSUME k + 1 <= size
                PROVE  Upto(after[k + 1].links, k + 1)
      OBVIOUS
  <2>. DEFINE i == k + 1
              L == after[k].links
              M == after[i].links
  <2>1. Upto(L, k) /\ i \in DOMAIN c.rack_groups
      BY <1>2, <1>4
  <2>2. M = AddAll(L, GroupLinks(c, c.rack_groups[i]))
    <3>1. after[i] = WithGroup(after[k], c, c.rack_groups[i])
        BY <1>1, <2>1 DEF StepByStep
    <3>. HIDE DEF i
    <3>. QED
        BY <3>1 DEF WithGroup
  <2>3. \A j \in 1..i : j \in 1..k \/ j = i
      OBVIOUS
  <2>. HIDE DEF L, M, i
  <2>4. Keeps(L, M) /\ Multigraph(M) /\ Installed(M, c, c.rack_groups[i])
      BY <2>1, <2>2, GroupInstalls DEF AllInstalled
  <2>5. AllInstalled(M, cs)
      BY <2>1, <2>4, AllStay
  <2>6. \A j \in 1..i : Installed(M, c, c.rack_groups[j])
      BY <2>1, <2>3, <2>4, InstalledStays
  <2>. QED
      BY <2>5, <2>6 DEF M, i
<1>5. size \in good
  <2>1. \A k \in Nat : k \in good
    <3>. HIDE DEF good
    <3>. QED
        BY <1>3, <1>4, Induct
  <2>. HIDE DEF good
  <2>. QED
      BY <1>2, <2>1
<1>6. Upto(after[size].links, size)
    BY <1>2, <1>5
<1>. HIDE DEF size
<1>. QED
    BY <1>1, <1>2, <1>6 DEF AllInstalled

LEMMA EmptyIsInstalled == AllInstalled(Empty.links, {})
BY EmptyIsSourced DEF Sourced, AllInstalled

LEMMA PodsAreInstalled ==
    ASSUME NEW az_count \in Nat
    PROVE  AllInstalled(Pods(az_count).links, FirstAzs(az_count))
<1>1. PICK after : /\ after[0] = Empty
                   /\ \A n \in Nat : n < az_count =>
                         after[n + 1] = Populated(after[n], AzCall(n + 1))
                   /\ Pods(az_count) = after[az_count]
    BY PodsStepByStep
<1>. DEFINE Sound(t, n) == AllInstalled(t.links, FirstAzs(n))
            good == {n \in Nat : n <= az_count => Sound(after[n], n)}
<1>2. 0 \in good
  <2>1. FirstAzs(0) = {}
      BY DEF FirstAzs
  <2>2. Sound(Empty, 0)
      BY <2>1, EmptyIsInstalled
  <2>. QED
      BY <1>1, <2>2
<1>3. ASSUME NEW n \in Nat, n \in good
      PROVE  n + 1 \in good
  <2>. SUFFICES ASSUME n + 1 <= az_count
                PROVE  Sound(after[n + 1], n + 1)
      OBVIOUS
  <2>. DEFINE k == n + 1
              c == AzCall(k)
              t == after[n]
              p == Populated(t, c)
  <2>1. Sound(t, n) /\ after[k] = p /\ k \in Nat
      BY <1>1, <1>3
  <2>2. c \in PodCall
      BY AzCallIsPodCall
  <2>3. FirstAzs(k) = FirstAzs(n) \cup {c}
    <3>1. 1..k = (1..n) \cup {k}
        OBVIOUS
    <3>. HIDE DEF k
    <3>. QED
        BY <3>1 DEF FirstAzs
  <2>4. AllInstalled(p.links, FirstAzs(n) \cup {c})
    <3>. HIDE DEF c, t
    <3>. QED
        BY <2>1, <2>2, PopulatedInstalls
  <2>. HIDE DEF k, p, c
  <2>. QED
      BY <2>1, <2>3, <2>4 DEF k
<1>4. az_count \in good
  <2>1. \A n \in Nat : n \in good
    <3>. HIDE DEF good
    <3>. QED
        BY <1>2, <1>3, Induct
  <2>. HIDE DEF good
  <2>. QED
      BY <2>1
<1>. QED
    BY <1>1, <1>4

LEMMA RegionIsInstalled ==
    ASSUME NEW n \in Nat
    PROVE  AllInstalled(AddAll(Pods(n).links, Backbone(n)), FirstAzs(n))
<1>. DEFINE L == Pods(n).links
            new == Backbone(n)
            M == AddAll(L, new)
<1>1. AllInstalled(L, FirstAzs(n))
    BY PodsAreInstalled
<1>2. Pairs(DOMAIN new) /\ IsFiniteSet(DOMAIN new)
    BY BackboneJoinsAll
<1>. HIDE DEF L, new
<1>3. Keeps(L, M) /\ Multigraph(M)
    BY <1>1, <1>2, AddAllAdds, AddAllIsMultigraph DEF AllInstalled
<1>. HIDE DEF M
<1>4. AllInstalled(M, FirstAzs(n))
    BY <1>1, <1>3, AllStay
<1>. QED
    BY <1>4 DEF L, new, M

\* The links are those of the calls, and the backbone of the AZs.
TierInv ==
    /\ BuildInv
    /\ Sourced(vertices, links, Range(calls), azs)
    /\ AllInstalled(links, Range(calls))

LEMMA TierInit == Init => TierInv
<1>. SUFFICES ASSUME Init
              PROVE  TierInv
    OBVIOUS
<1>1. Range(calls) = {}
    BY DEF Init, Range
<1>. QED
    BY <1>1, BuildInit, EmptyIsSourced, EmptyIsInstalled DEF TierInv, Init, Empty

LEMMA TierStep == TierInv /\ [Next]_vars => TierInv'
<1>. SUFFICES ASSUME TierInv, [Next]_vars
              PROVE  /\ Sourced(vertices, links, Range(calls), azs)'
                     /\ AllInstalled(links, Range(calls))'
    BY BuildStep DEF TierInv
<1>1. ASSUME NEW c \in PodCalls, PopulatePod(c)
      PROVE  /\ Sourced(vertices', links', Range(calls'), azs')
             /\ AllInstalled(links', Range(calls'))
  <2>. DEFINE p == Populated(Graph, c)
  <2>1. c \in PodCall /\ Range(calls) \in SUBSET PodCall
      BY SamplesAssumption DEF TierInv, BuildInv, Range
  <2>2. /\ Sourced(p.vertices, p.links, Range(calls) \cup {c}, azs)
        /\ AllInstalled(p.links, Range(calls) \cup {c})
    <3>1. Graph.vertices = vertices /\ Graph.links = links
        BY DEF Graph
    <3>2. /\ Sourced(Graph.vertices, Graph.links, Range(calls), azs)
          /\ AllInstalled(Graph.links, Range(calls))
        BY <3>1 DEF TierInv
    <3>. QED
        BY <2>1, <3>2, PopulatedKeepsSourced, PopulatedInstalls
  <2>3. vertices' = p.vertices /\ links' = p.links /\ calls' = Append(calls, c) /\ azs' = azs
      BY <1>1 DEF PopulatePod, Becomes
  <2>4. Range(calls') = Range(calls) \cup {c}
      BY <2>1, <2>3, RangeOfAppend DEF TierInv, BuildInv
  <2>. HIDE DEF p
  <2>. QED
      BY <2>2, <2>3, <2>4
<1>2. ASSUME NEW c \in Samples, BuildPod(c)
      PROVE  /\ Sourced(vertices', links', Range(calls'), azs')
             /\ AllInstalled(links', Range(calls'))
  <2>. DEFINE p == Populated(Empty, c)
  <2>1. c \in PodCall
      BY SamplesAssumption
  <2>2. Sourced(p.vertices, p.links, {} \cup {c}, 0) /\ AllInstalled(p.links, {} \cup {c})
      BY <2>1, EmptyIsSourced, EmptyIsInstalled, PopulatedKeepsSourced, PopulatedInstalls
  <2>3. vertices' = p.vertices /\ links' = p.links /\ calls' = <<c>> /\ azs' = 0
      BY <1>2 DEF BuildPod, Becomes
  <2>4. Range(calls') = {} \cup {c}
      BY <2>1, <2>3 DEF Range
  <2>. HIDE DEF p
  <2>. QED
      BY <2>2, <2>3, <2>4
<1>3. ASSUME NEW az_count \in 0..MaxAzs, BuildRegion(az_count)
      PROVE  /\ Sourced(vertices', links', Range(calls'), azs')
             /\ AllInstalled(links', Range(calls'))
  <2>. DEFINE p == Pods(az_count)
              M == AddAll(p.links, Backbone(az_count))
  <2>1. az_count \in Nat
      BY SamplesAssumption
  <2>2. /\ Sourced(p.vertices, M, FirstAzs(az_count), az_count)
        /\ AllInstalled(M, FirstAzs(az_count))
      BY <2>1, RegionIsSourced, RegionIsInstalled
  <2>3. vertices' = p.vertices /\ links' = M /\ calls' = AzCalls(az_count) /\ azs' = az_count
      BY <1>3 DEF BuildRegion, Becomes
  <2>4. Range(calls') = FirstAzs(az_count)
      BY <2>1, <2>3 DEF AzCalls, Range, FirstAzs
  <2>. HIDE DEF p, M
  <2>. QED
      BY <2>2, <2>3, <2>4
<1>4. ASSUME UNCHANGED vars
      PROVE  /\ Sourced(vertices, links, Range(calls), azs)'
             /\ AllInstalled(links, Range(calls))'
    BY <1>4 DEF vars, graphVars, TierInv
<1>. QED
    BY <1>1, <1>2, <1>3, <1>4 DEF Next

LEMMA AlwaysTiered == Spec => []TierInv
BY TierInit, TierStep, PTL DEF Spec
-----------------------------------------------------------------------------
(* How far it is to a GPU.                                                 *)

Weighs(weight, T) == IF weight = "hops" THEN 1 ELSE Default[T].latency_us

\* The types of the links that the builders add.
UsedTypes == GroupTypes \cup {"inter_pod"}

LEMMA HopsHaveWeight ==
    ASSUME NEW weight
    PROVE  /\ \A T \in UsedTypes : Weighs(weight, T) \in Nat /\ Weighs(weight, T) > 0
           /\ Weighs(weight, "nvlink") < 2 * Weighs(weight, "pcie")
<1>1. ASSUME NEW T \in UsedTypes
      PROVE  /\ Default[T].latency_us \in Nat /\ Default[T].latency_us > 0
    BY SamplesAssumption, LatenciesAssumption
    DEF UsedTypes, GroupTypes, PerLinkType, LinkTypes, LinkMetrics
<1>2. \A T \in UsedTypes : Weighs(weight, T) \in Nat /\ Weighs(weight, T) > 0
    BY <1>1 DEF Weighs
<1>3. Weighs(weight, "nvlink") < 2 * Weighs(weight, "pcie")
    BY LatenciesAssumption DEF Weighs
<1>. QED
    BY <1>2, <1>3

\* What is left of the way to the GPU h, from each kind of vertex.
SpineAway(h, weight, pod) ==
    Weighs(weight, "pcie") + Weighs(weight, "leaf_uplink") + Weighs(weight, "spine_uplink")
      + (IF pod = h[2][2][2] THEN 0 ELSE Weighs(weight, "inter_pod"))

LeafAway(h, weight, leaf) ==
    IF leaf = h[2][2] THEN Weighs(weight, "pcie") + Weighs(weight, "leaf_uplink")
    ELSE Weighs(weight, "spine_uplink") + SpineAway(h, weight, leaf[2])

NodeAway(h, weight, node) ==
    IF node = h[2] THEN Weighs(weight, "pcie")
    ELSE Weighs(weight, "leaf_uplink") + LeafAway(h, weight, node[2])

GpuAway(h, weight, g) ==
    IF g = h THEN 0
    ELSE IF g[2] = h[2] THEN Weighs(weight, "nvlink")
    ELSE Weighs(weight, "pcie") + NodeAway(h, weight, g[2])

Away(h, weight, v) ==
    IF v[1] = "gpu" THEN GpuAway(h, weight, v)
    ELSE IF v[1] = "node" THEN NodeAway(h, weight, v)
    ELSE IF v[1] = "leaf" THEN LeafAway(h, weight, v)
    ELSE SpineAway(h, weight, v[2])

\* A hop from u to v is on the way to h.
Onward(h, u, v) ==
    \/ u[1] = "gpu" /\ u[2] = h[2] /\ v = h
    \/ u[1] = "gpu" /\ u[2] # h[2] /\ v[1] = "node" /\ v = u[2]
    \/ u[1] = "node" /\ u = h[2] /\ v = h
    \/ u[1] = "node" /\ u # h[2] /\ v[1] = "leaf" /\ v = u[2]
    \/ u[1] = "leaf" /\ u = h[2][2] /\ v = h[2]
    \/ u[1] = "leaf" /\ u # h[2][2] /\ v[1] = "spine" /\ v[2] = u[2]
    \/ u[1] = "spine" /\ u[2] = h[2][2][2] /\ v = h[2][2]
    \/ u[1] = "spine" /\ u[2] # h[2][2][2] /\ v[1] = "spine" /\ v[2] = h[2][2][2]

\* A GPU as the builders name it.
NamedGpu(h) == h[1] = "gpu" /\ h[2][1] = "node" /\ h[2][2][1] = "leaf"

LEMMA AwayIsNatural ==
    ASSUME NEW h, NEW weight, NEW v
    PROVE  Away(h, weight, v) \in Nat
<1>. DEFINE W(T) == Weighs(weight, T)
<1>1. \A T \in UsedTypes : W(T) \in Nat
    BY HopsHaveWeight
<1>2. {"pcie", "leaf_uplink", "spine_uplink", "nvlink", "inter_pod"} \subseteq UsedTypes
    BY DEF UsedTypes, GroupTypes
<1>. HIDE DEF W
<1>3. \A pod : SpineAway(h, weight, pod) \in Nat
    BY <1>1, <1>2 DEF SpineAway, W
<1>4. \A leaf : LeafAway(h, weight, leaf) \in Nat
    BY <1>1, <1>2, <1>3 DEF LeafAway, W
<1>5. \A node : NodeAway(h, weight, node) \in Nat
    BY <1>1, <1>2, <1>4 DEF NodeAway, W
<1>6. \A g : GpuAway(h, weight, g) \in Nat
    BY <1>1, <1>2, <1>5 DEF GpuAway, W
<1>. QED
    BY <1>3, <1>4, <1>5, <1>6 DEF Away

\* No hop brings h nearer than it weighs, and those on the way do by as much.
LEMMA HopsAreFair ==
    ASSUME NEW h, NamedGpu(h), NEW weight, NEW u, NEW v, u # v,
           NEW T \in UsedTypes, Shaped(u, v, T)
    PROVE  LET near == Away(h, weight, u) - Away(h, weight, v)
           IN  near <= Weighs(weight, T) /\ (near = Weighs(weight, T) <=> Onward(h, u, v))
<1>. DEFINE N == Weighs(weight, "nvlink")
            P == Weighs(weight, "pcie")
            U == Weighs(weight, "leaf_uplink")
            S == Weighs(weight, "spine_uplink")
            I == Weighs(weight, "inter_pod")
<1>1. /\ N \in Nat /\ P \in Nat /\ U \in Nat /\ S \in Nat /\ I \in Nat
      /\ N > 0 /\ P > 0 /\ U > 0 /\ S > 0 /\ I > 0 /\ N < 2 * P
    BY HopsHaveWeight DEF UsedTypes, GroupTypes
<1>. DEFINE a == Away(h, weight, u)
            b == Away(h, weight, v)
<1>0. a \in Nat /\ b \in Nat
    BY AwayIsNatural
<1>. HIDE DEF N, P, U, S, I
<1>2. \A pod : SpineAway(h, weight, pod) = P + U + S + (IF pod = h[2][2][2] THEN 0 ELSE I)
    BY DEF SpineAway, N, P, U, S, I
<1>3. \A leaf : LeafAway(h, weight, leaf) =
                    IF leaf = h[2][2] THEN P + U ELSE S + SpineAway(h, weight, leaf[2])
    BY DEF LeafAway, N, P, U, S, I
<1>4. \A node : NodeAway(h, weight, node) =
                    IF node = h[2] THEN P ELSE U + LeafAway(h, weight, node[2])
    BY DEF NodeAway, N, P, U, S, I
<1>5. \A g : GpuAway(h, weight, g) =
                 IF g = h THEN 0
                 ELSE IF g[2] = h[2] THEN N ELSE P + NodeAway(h, weight, g[2])
    BY DEF GpuAway, N, P, U, S, I
<1>6. \A x : /\ x[1] = "spine" => Away(h, weight, x) = SpineAway(h, weight, x[2])
             /\ x[1] = "leaf" => Away(h, weight, x) = LeafAway(h, weight, x)
             /\ x[1] = "node" => Away(h, weight, x) = NodeAway(h, weight, x)
             /\ x[1] = "gpu" => Away(h, weight, x) = GpuAway(h, weight, x)
    BY DEF Away
<1>. DEFINE Fair(w) == a - b <= w /\ (a - b = w <=> Onward(h, u, v))
<1>7. CASE T = "inter_pod"
  <2>1. u[1] = "spine" /\ v[1] = "spine"
      BY <1>7 DEF Shaped, Hangs, Beside
  <2>2. /\ a = P + U + S + (IF u[2] = h[2][2][2] THEN 0 ELSE I)
        /\ b = P + U + S + (IF v[2] = h[2][2][2] THEN 0 ELSE I)
      BY <1>2, <1>6, <2>1
  <2>3. Onward(h, u, v) <=> u[2] # h[2][2][2] /\ v[2] = h[2][2][2]
      BY <2>1 DEF Onward, NamedGpu
  <2>4. Fair(I)
    <3>. HIDE DEF a, b
    <3>. QED
        BY <1>1, <2>2, <2>3
  <2>. QED
      BY <1>7, <2>4 DEF I
<1>8. CASE T = "spine_uplink"
  <2>. DEFINE far == IF u[2] = h[2][2][2] THEN 0 ELSE I
  <2>0. far \in Nat
      BY <1>1
  <2>1. /\ u[2] = v[2]
        /\ \/ u[1] = "leaf" /\ v[1] = "spine"
           \/ v[1] = "leaf" /\ u[1] = "spine"
      BY <1>8 DEF Shaped, Hangs, Beside
  <2>2. CASE u[1] = "leaf" /\ v[1] = "spine"
    <3>1. b = P + U + S + far
        BY <1>2, <1>6, <2>1, <2>2
    <3>2. u # h[2][2] => a = S + b
        BY <1>2, <1>3, <1>6, <2>1, <2>2
    <3>3. u = h[2][2] => a = P + U
        BY <1>3, <1>6, <2>2
    <3>4. Onward(h, u, v) <=> u # h[2][2]
        BY <2>1, <2>2 DEF Onward, NamedGpu
    <3>. HIDE DEF a, b, far
    <3>. QED
        BY <1>1, <1>0, <1>8, <2>0, <3>1, <3>2, <3>3, <3>4 DEF S, a, b
  <2>3. CASE v[1] = "leaf" /\ u[1] = "spine"
    <3>1. a = P + U + S + far
        BY <1>2, <1>6, <2>1, <2>3
    <3>2. v # h[2][2] => b = S + a
        BY <1>2, <1>3, <1>6, <2>1, <2>3
    <3>3. v = h[2][2] => b = P + U /\ far = 0
        BY <1>3, <1>6, <2>1, <2>3
    <3>4. Onward(h, u, v) <=> v = h[2][2]
        BY <2>1, <2>3 DEF Onward, NamedGpu
    <3>. HIDE DEF a, b, far
    <3>. QED
        BY <1>1, <1>0, <1>8, <2>0, <3>1, <3>2, <3>3, <3>4 DEF S, a, b
  <2>. QED
      BY <2>1, <2>2, <2>3
<1>9. CASE T = "leaf_uplink"
  <2>1. \/ u[1] = "node" /\ v[1] = "leaf" /\ u[2] = v
        \/ v[1] = "node" /\ u[1] = "leaf" /\ v[2] = u
      BY <1>9 DEF Shaped, Hangs, Beside
  <2>2. CASE u[1] = "node" /\ v[1] = "leaf" /\ u[2] = v
    <3>1. u # h[2] => a = U + b
        BY <1>4, <1>6, <2>2
    <3>2. u = h[2] => a = P /\ b = P + U
        BY <1>3, <1>4, <1>6, <2>2
    <3>3. Onward(h, u, v) <=> u # h[2]
        BY <2>2 DEF Onward, NamedGpu
    <3>. HIDE DEF a, b
    <3>. QED
        BY <1>1, <1>0, <1>9, <3>1, <3>2, <3>3 DEF U, a, b
  <2>3. CASE v[1] = "node" /\ u[1] = "leaf" /\ v[2] = u
    <3>1. v # h[2] => b = U + a
        BY <1>4, <1>6, <2>3
    <3>2. v = h[2] => b = P /\ a = P + U
        BY <1>3, <1>4, <1>6, <2>3
    <3>3. Onward(h, u, v) <=> v = h[2]
        BY <2>3 DEF Onward, NamedGpu
    <3>. HIDE DEF a, b
    <3>. QED
        BY <1>1, <1>0, <1>9, <3>1, <3>2, <3>3 DEF U, a, b
  <2>. QED
      BY <2>1, <2>2, <2>3
<1>10. CASE T = "pcie"
  <2>1. \/ u[1] = "gpu" /\ v[1] = "node" /\ u[2] = v
        \/ v[1] = "gpu" /\ u[1] = "node" /\ v[2] = u
      BY <1>10 DEF Shaped, Hangs, Beside
  <2>2. CASE u[1] = "gpu" /\ v[1] = "node" /\ u[2] = v
    <3>1. v # h[2] => a = P + b
        BY <1>5, <1>6, <2>2
    <3>2. v = h[2] => b = P /\ (a = 0 \/ a = N)
        BY <1>4, <1>5, <1>6, <2>2
    <3>3. Onward(h, u, v) <=> v # h[2]
        BY <2>2 DEF Onward, NamedGpu
    <3>. HIDE DEF a, b
    <3>. QED
        BY <1>1, <1>0, <1>10, <3>1, <3>2, <3>3 DEF P, a, b
  <2>3. CASE v[1] = "gpu" /\ u[1] = "node" /\ v[2] = u
    <3>1. u # h[2] => b = P + a
        BY <1>5, <1>6, <2>3
    <3>2. u = h[2] => a = P /\ b = IF v = h THEN 0 ELSE N
        BY <1>4, <1>5, <1>6, <2>3
    <3>3. Onward(h, u, v) <=> v = h
        BY <2>3 DEF Onward, NamedGpu
    <3>. HIDE DEF a, b
    <3>. QED
        BY <1>1, <1>0, <1>10, <2>3, <3>1, <3>2, <3>3 DEF P, a, b
  <2>. QED
      BY <2>1, <2>2, <2>3
<1>11. CASE T = "nvlink"
  <2>1. u[1] = "gpu" /\ v[1] = "gpu" /\ u[2] = v[2]
      BY <1>11 DEF Shaped, Hangs, Beside
  <2>2. /\ a = IF u = h THEN 0 ELSE IF u[2] = h[2] THEN N ELSE P + NodeAway(h, weight, u[2])
        /\ b = IF v = h THEN 0 ELSE IF u[2] = h[2] THEN N ELSE P + NodeAway(h, weight, u[2])
      BY <1>5, <1>6, <2>1
  <2>. HIDE DEF a, b
  <2>3. u[2] # h[2] => a = b
      BY <2>1, <2>2
  <2>4. u[2] = h[2] => (a = IF u = h THEN 0 ELSE N) /\ (b = IF v = h THEN 0 ELSE N)
      BY <2>2
  <2>5. Onward(h, u, v) <=> v = h
      BY <2>1 DEF Onward, NamedGpu
  <2>. QED
      BY <1>0, <1>1, <1>11, <2>1, <2>3, <2>4, <2>5 DEF N, a, b
<1>. QED
    BY <1>7, <1>8, <1>9, <1>10, <1>11 DEF UsedTypes, GroupTypes

LEMMA JoinedIsHop ==
    ASSUME NEW u, NEW v, NEW T, Joined(links, u, v, T)
    PROVE  <<u, v>> \in Hops
<1>1. PICK k \in Nat : <<u, v, k>> \in DOMAIN links
    BY DEF Joined
<1>. DEFINE x == <<u, v, k>>
<1>2. x \in DOMAIN links /\ <<x[1], x[2]>> = <<u, v>>
    BY <1>1
<1>. HIDE DEF x
<1>. QED
    BY <1>2 DEF Hops

\* With default metrics a hop has those of the one type of link that has its place there.
LEMMA HopIsDefault ==
    ASSUME TierInv, AllDefault, NEW u, NEW v, <<u, v>> \in Hops
    PROVE  LET T == BestEdge(u, v).link_type
           IN  /\ T \in UsedTypes /\ Shaped(u, v, T)
               /\ BestEdge(u, v) = Default[T]
               /\ SimpleView[<<u, v>>] = Default[T].latency_us
<1>. DEFINE best == BestEdge(u, v)
            T == best.link_type
<1>1. LinksJoinVertices /\ Wired(vertices, links)
    BY BuiltIsJoined DEF TierInv, BuildInv, Fabric
<1>2. best \in Parallel(u, v)
    BY <1>1, BestEdgeIsBest
<1>. HIDE DEF best
<1>3. PICK k \in Keys(links, u, v) : best = links[<<u, v, k>>]
    BY <1>2 DEF Parallel
<1>4. PICK x \in DOMAIN links : x[1] = u /\ x[2] = v /\ x[3] = k
    BY <1>3 DEF Keys
<1>5. best = links[x]
  <2>1. x = <<x[1], x[2], x[3]>>
      BY <1>1, <1>4 DEF Wired, Multigraph
  <2>2. x = <<u, v, k>>
      BY <1>4, <2>1
  <2>. QED
      BY <1>3, <2>2
<1>6. Shaped(u, v, T)
    BY <1>1, <1>4, <1>5 DEF Wired
<1>7. T \in UsedTypes /\ best = Default[T]
  <2>1. FromGroup(links, Range(calls), x) \/ FromBackbone(links, azs, x)
      BY DEF TierInv, Sourced
  <2>2. CASE FromGroup(links, Range(calls), x)
    <3>1. PICK c \in Range(calls) : T \in GroupTypes /\ best = c.metrics[T]
        BY <1>5, <2>2 DEF FromGroup
    <3>. QED
        BY <3>1 DEF AllDefault, UsedTypes
  <2>3. CASE FromBackbone(links, azs, x)
    <3>1. best = Default["inter_pod"]
        BY <1>5, <2>3 DEF FromBackbone
    <3>2. Default["inter_pod"].link_type = "inter_pod"
        BY SamplesAssumption DEF PerLinkType, LinkTypes
    <3>. QED
        BY <3>1, <3>2 DEF UsedTypes
  <2>. QED
      BY <2>1, <2>2, <2>3
<1>8. SimpleView[<<u, v>>] = best.latency_us
  <2>. DEFINE e == <<u, v>>
  <2>1. e \in {<<y[1], y[2]>> : y \in DOMAIN links} /\ e[1] = u /\ e[2] = v
      BY DEF Hops
  <2>. HIDE DEF e
  <2>2. SimpleView[e] = BestEdge(e[1], e[2]).latency_us
      BY <2>1 DEF SimpleView
  <2>. QED
      BY <2>1, <2>2 DEF e, best
<1>9. SimpleView[<<u, v>>] = Default[T].latency_us
    BY <1>7, <1>8
<1>. HIDE DEF T
<1>10. T \in UsedTypes /\ Shaped(u, v, T) /\ best = Default[T] /\ SimpleView[<<u, v>>] = Default[T].latency_us
    BY <1>6, <1>7, <1>9
<1>. QED
    BY <1>10 DEF T, best

LEMMA PathsOfSearch ==
    ASSUME LinksJoinVertices, NEW src \in DOMAIN vertices, NEW dst, NEW p
    PROVE  p \in AllPaths(SimpleView, src, dst, NoCutoff)
             <=> IsSimplePath(src, p) /\ p[Len(p)] = dst
<1>. DEFINE view == SimpleView
<1>1. DOMAIN view = Hops
    BY ViewIsOfHops
<1>2. NoCutoff \in Nat
    BY CutoffIsNatural
<1>. HIDE DEF view
<1>3. p \in SimplePathsFrom(view, src, NoCutoff)
        <=> IsSimplePath(src, p) /\ Len(p) <= NoCutoff + 1
    BY <1>1, <1>2, PathsAreSimple
<1>4. IsSimplePath(src, p) => Len(p) <= NoCutoff + 1
    BY PathIsShort
<1>. QED
    BY <1>3, <1>4 DEF AllPaths, view

Costs(away, sum, n) == \A i \in 1..n : away[i] - away[i + 1] <= sum[i] - sum[i - 1]

Exact(away, sum, n) == \A i \in 1..n : away[i] - away[i + 1] = sum[i] - sum[i - 1]

\* What is added up hop by hop is at least the way that the hops bring nearer, and is
\* as much exactly when each hop brings nearer by what it adds.
LEMMA WayByHops ==
    ASSUME NEW n \in Nat, NEW away \in [1..(n + 1) -> Int], NEW sum \in [0..n -> Int],
           sum[0] = 0, Costs(away, sum, n)
    PROVE  /\ away[1] - away[n + 1] <= sum[n]
           /\ sum[n] = away[1] - away[n + 1] <=> Exact(away, sum, n)
<1>. DEFINE over(k) == sum[k] - (away[1] - away[k + 1])
            exact(k) == Exact(away, sum, k)
            good == {k \in Nat : k <= n => over(k) >= 0 /\ (over(k) = 0 <=> exact(k))}
<1>1. 0 \in good
  <2>1. over(0) = 0
      OBVIOUS
  <2>2. exact(0)
      BY DEF Exact
  <2>. QED
      BY <2>1, <2>2
<1>2. ASSUME NEW k \in Nat, k \in good
      PROVE  k + 1 \in good
  <2>. DEFINE m == k + 1
              gain == away[m] - away[m + 1]
              cost == sum[m] - sum[k]
  <2>. SUFFICES ASSUME m <= n
                PROVE  over(m) >= 0 /\ (over(m) = 0 <=> exact(m))
      OBVIOUS
  <2>1. /\ m \in 1..n /\ m - 1 = k /\ k \in 0..n /\ m \in 0..n
        /\ 1 \in 1..(n + 1) /\ m \in 1..(n + 1) /\ m + 1 \in 1..(n + 1)
    <3>1. m \in Nat /\ m >= 1 /\ m - 1 = k /\ m <= n /\ k <= n
        OBVIOUS
    <3>. HIDE DEF m
    <3>. QED
        BY <3>1
  <2>2. 1..m = (1..k) \cup {m}
      OBVIOUS
  <2>3. over(k) >= 0 /\ (over(k) = 0 <=> exact(k))
      BY <1>2, <2>1
  <2>4. over(k) = sum[k] - (away[1] - away[m]) /\ over(m) = sum[m] - (away[1] - away[m + 1])
      OBVIOUS
  <2>. HIDE DEF m, over
  <2>5. /\ away[1] \in Int /\ away[m] \in Int /\ away[m + 1] \in Int
        /\ sum[m] \in Int /\ sum[k] \in Int
      BY <2>1
  <2>6. gain <= cost
      BY <2>1 DEF Costs
  <2>7. gain \in Int /\ cost \in Int
      BY <2>5
  <2>8. over(m) = over(k) + (cost - gain) /\ over(k) \in Int
    <3>. DEFINE a == away[1]
                b == away[m]
                c == away[m + 1]
                d == sum[m]
                e == sum[k]
    <3>1. a \in Int /\ b \in Int /\ c \in Int /\ d \in Int /\ e \in Int
        BY <2>5
    <3>2. over(k) = e - (a - b) /\ over(m) = d - (a - c) /\ cost = d - e /\ gain = b - c
        BY <2>4
    <3>. HIDE DEF a, b, c, d, e, cost, gain
    <3>. QED
        BY <3>1, <3>2
  <2>9. exact(m) <=> exact(k) /\ gain = cost
      BY <2>1, <2>2 DEF Exact
  <2>. HIDE DEF gain, cost, exact
  <2>. QED
      BY <2>3, <2>6, <2>7, <2>8, <2>9
<1>3. n \in good
  <2>1. \A k \in Nat : k \in good
    <3>. HIDE DEF good
    <3>. QED
        BY <1>1, <1>2, Induct
  <2>. QED
      BY <2>1
<1>4. sum[n] \in Int /\ away[1] \in Int /\ away[n + 1] \in Int
    OBVIOUS
<1>5. over(n) >= 0 /\ (over(n) = 0 <=> exact(n))
    BY <1>3
<1>6. over(n) = sum[n] - (away[1] - away[n + 1])
    OBVIOUS
<1>7. over(n) \in Int
    BY <1>4, <1>6
<1>. HIDE DEF over, exact
<1>8. away[1] - away[n + 1] <= sum[n] /\ (sum[n] = away[1] - away[n + 1] <=> exact(n))
    BY <1>4, <1>5, <1>6, <1>7
<1>. QED
    BY <1>8 DEF exact

\* A path weighs at least as much as the way, and as much when all its hops are on it.
LEMMA PathsAreFair ==
    ASSUME TierInv, AllDefault, NEW weight \in {"latency", "hops"},
           NEW h, NamedGpu(h), NEW src, NEW p, IsSimplePath(src, p), p[Len(p)] = h
    PROVE  LET w == PathWeight(SimpleView, p, weight)
           IN  /\ w \in Int /\ Away(h, weight, src) <= w
               /\ w = Away(h, weight, src)
                    <=> \A i \in 1..(Len(p) - 1) : Onward(h, p[i], p[i + 1])
<1>. DEFINE n == Len(p) - 1
            adds == [i \in 1..n |-> IF weight = "hops" THEN 1
                                    ELSE SimpleView[<<p[i], p[i + 1]>>]]
            away == [i \in 1..(n + 1) |-> Away(h, weight, p[i])]
<1>1. /\ n \in Nat /\ n + 1 = Len(p) /\ p[1] = src
      /\ \A i \in 1..n : <<p[i], p[i + 1]>> \in Hops
      /\ \A i \in 1..n : p[i] # p[i + 1]
  <2>. DEFINE size == Len(p)
  <2>1. /\ size \in Nat /\ size >= 1 /\ p[1] = src
        /\ \A i \in 1..(size - 1) : <<p[i], p[i + 1]>> \in Hops
        /\ \A i, j \in 1..size : p[i] = p[j] => i = j
      BY DEF IsSimplePath
  <2>2. \A i \in 1..(size - 1) : i \in 1..size /\ i + 1 \in 1..size /\ i # i + 1
      BY <2>1
  <2>3. \A i \in 1..(size - 1) : p[i] # p[i + 1]
      BY <2>1, <2>2
  <2>4. size - 1 \in Nat /\ (size - 1) + 1 = size
      BY <2>1
  <2>. HIDE DEF size
  <2>. QED
      BY <2>1, <2>3, <2>4 DEF size
<1>. HIDE DEF n
<1>2. ASSUME NEW i \in 1..n
      PROVE  /\ adds[i] \in Int
             /\ away[i] - away[i + 1] <= adds[i]
             /\ away[i] - away[i + 1] = adds[i] <=> Onward(h, p[i], p[i + 1])
  <2>. DEFINE u == p[i]
              v == p[i + 1]
              T == BestEdge(u, v).link_type
  <2>1. /\ T \in UsedTypes /\ Shaped(u, v, T)
        /\ SimpleView[<<u, v>>] = Default[T].latency_us
    <3>1. <<u, v>> \in Hops
        BY <1>1
    <3>. HIDE DEF u, v
    <3>. QED
        BY <3>1, HopIsDefault
  <2>2. adds[i] = Weighs(weight, T)
      BY <2>1 DEF Weighs
  <2>3. away[i] = Away(h, weight, u) /\ away[i + 1] = Away(h, weight, v)
      BY <1>1
  <2>4. u # v
      BY <1>1
  <2>. HIDE DEF u, v, T, adds, away
  <2>5. LET near == Away(h, weight, u) - Away(h, weight, v)
        IN  near <= Weighs(weight, T) /\ (near = Weighs(weight, T) <=> Onward(h, u, v))
      BY <2>1, <2>4, HopsAreFair
  <2>6. Weighs(weight, T) \in Int
      BY <2>1, HopsHaveWeight
  <2>. QED
      BY <2>2, <2>3, <2>5, <2>6 DEF u, v
<1>3. adds \in [1..n -> Int] /\ away \in [1..(n + 1) -> Int]
  <2>1. \A i \in 1..(n + 1) : Away(h, weight, p[i]) \in Int
      BY AwayIsNatural
  <2>2. away \in [1..(n + 1) -> Int]
      BY <2>1
  <2>3. \A i \in 1..n : adds[i] \in Int
      BY <1>2
  <2>4. DOMAIN adds = 1..n /\ adds = [i \in 1..n |-> adds[i]]
      OBVIOUS
  <2>. HIDE DEF adds, away
  <2>. QED
      BY <2>2, <2>3, <2>4
<1>4. away[1] = Away(h, weight, src) /\ away[n + 1] = 0
  <2>1. 1 \in 1..(n + 1) /\ n + 1 \in 1..(n + 1) /\ p[n + 1] = h
      BY <1>1
  <2>2. Away(h, weight, h) = 0
      BY DEF Away, GpuAway, NamedGpu
  <2>. QED
      BY <1>1, <2>1, <2>2
<1>5. PICK sum \in [0..n -> Int] :
          /\ sum[0] = 0
          /\ \A i \in 1..n : sum[i] - sum[i - 1] = adds[i]
          /\ PathWeight(SimpleView, p, weight) = sum[n]
  <2>1. CASE weight = "hops"
    <3>. DEFINE sum == [i \in 0..n |-> i]
    <3>1. sum \in [0..n -> Int] /\ sum[0] = 0 /\ sum[n] = n
        BY <1>1
    <3>2. \A i \in 1..n : sum[i] - sum[i - 1] = adds[i]
        BY <1>1, <2>1
    <3>3. PathWeight(SimpleView, p, weight) = sum[n]
        BY <2>1, <3>1 DEF PathWeight, n
    <3>. HIDE DEF sum
    <3>. QED
        BY <3>1, <3>2, <3>3
  <2>2. CASE weight = "latency"
    <3>1. adds = [i \in 1..n |-> SimpleView[<<p[i], p[i + 1]>>]]
        BY <2>2
    <3>2. PathWeight(SimpleView, p, weight) = SumFunction(adds)
        BY <2>2, <3>1 DEF PathWeight, n
    <3>. HIDE DEF adds
    <3>3. PICK sum \in [0..n -> Int] :
              /\ sum[0] = 0
              /\ \A k \in 0..(n - 1) : sum[k + 1] = sum[k] + adds[k + 1]
              /\ SumFunction(adds) = sum[n]
        BY <1>1, <1>3, SumOfSequence
    <3>4. ASSUME NEW i \in 1..n
          PROVE  sum[i] - sum[i - 1] = adds[i]
      <4>. DEFINE k == i - 1
      <4>1. k \in 0..(n - 1) /\ k + 1 = i /\ k \in 0..n /\ i \in 0..n
          BY <1>1
      <4>2. sum[k] \in Int /\ sum[i] \in Int /\ adds[i] \in Int
          BY <1>3, <4>1
      <4>. HIDE DEF k
      <4>3. sum[i] = sum[k] + adds[i]
          BY <3>3, <4>1
      <4>4. sum[i] - sum[k] = adds[i]
          BY <4>2, <4>3
      <4>. QED
          BY <4>4 DEF k
    <3>. QED
        BY <3>2, <3>3, <3>4
  <2>. QED
      BY <2>1, <2>2
<1>. HIDE DEF adds, away
<1>6. Costs(away, sum, n)
    BY <1>2, <1>5 DEF Costs
<1>7. /\ away[1] - away[n + 1] <= sum[n]
      /\ sum[n] = away[1] - away[n + 1] <=> Exact(away, sum, n)
    BY <1>1, <1>3, <1>5, <1>6, WayByHops
<1>8. Away(h, weight, src) \in Int /\ sum[n] \in Int
    BY <1>1, <1>5, AwayIsNatural
<1>9. sum[n] = Away(h, weight, src) <=> \A i \in 1..n : Onward(h, p[i], p[i + 1])
    BY <1>2, <1>4, <1>5, <1>7, <1>8 DEF Exact
<1>. QED
    BY <1>4, <1>5, <1>7, <1>8, <1>9 DEF n
-----------------------------------------------------------------------------
(* The quickest paths.                                                     *)

\* GPUs are as the builders name them, and containment is in the names.
LEMMA GpusAreNamed ==
    ASSUME TierInv, NEW g \in OfKind("gpu")
    PROVE  /\ NamedGpu(g) /\ {g, g[2], g[2][2]} \subseteq DOMAIN vertices
           /\ vertices[g].node_id = g[2] /\ LeafOf(g) = g[2][2] /\ PodOf(g) = g[2][2][2]
           /\ Joined(links, g, g[2], "pcie") /\ Joined(links, g[2], g, "pcie")
           /\ Joined(links, g[2], g[2][2], "leaf_uplink")
           /\ Joined(links, g[2][2], g[2], "leaf_uplink")
<1>1. BuildInv /\ Wired(vertices, links)
    BY DEF TierInv, BuildInv, Fabric
<1>2. /\ {g, g[2], g[2][2]} \subseteq DOMAIN vertices
      /\ LeafOf(g) = g[2][2] /\ PodOf(g) = g[2][2][2]
      /\ Joined(links, g, g[2], "pcie") /\ Joined(links, g[2], g, "pcie")
      /\ Joined(links, g[2], g[2][2], "leaf_uplink")
      /\ Joined(links, g[2][2], g[2], "leaf_uplink")
    BY <1>1, UpAndDown
<1>3. g[1] = "gpu" /\ vertices[g].node_id = g[2]
    BY <1>1, GpuData
<1>4. Shaped(g, g[2], "pcie") /\ Shaped(g[2], g[2][2], "leaf_uplink")
    BY <1>1, <1>2, JoinedBack
<1>5. g[2][1] = "node"
    BY <1>3, <1>4 DEF Shaped, Hangs, Beside
<1>6. g[2][2][1] = "leaf"
    BY <1>4, <1>5 DEF Shaped, Hangs, Beside
<1>. QED
    BY <1>2, <1>3, <1>5, <1>6 DEF NamedGpu

TierOf(g, h) ==
    IF g[2] = h[2] THEN 1
    ELSE IF g[2][2] = h[2][2] THEN 2
    ELSE IF g[2][2][2] = h[2][2][2] THEN 3
    ELSE 4

LEMMA TiersAreNamed ==
    ASSUME TierInv, NEW g \in OfKind("gpu"), NEW h \in OfKind("gpu")
    PROVE  Tier(g, h) = TierOf(g, h)
BY GpusAreNamed DEF Tier, TierOf

\* What a quickest path passes.
KindsOnWay ==
    << <<"gpu", "gpu">>,
       <<"gpu", "node", "leaf", "node", "gpu">>,
       <<"gpu", "node", "leaf", "spine", "leaf", "node", "gpu">>,
       <<"gpu", "node", "leaf", "spine", "spine", "leaf", "node", "gpu">> >>

\* A path whose hops are all on the way passes what its tier asks for.
LEMMA WayPasses ==
    ASSUME NEW g, NamedGpu(g), NEW h, NamedGpu(h), g # h,
           NEW p, IsSimplePath(g, p), p[Len(p)] = h,
           \A i \in 1..(Len(p) - 1) : Onward(h, p[i], p[i + 1])
    PROVE  LET kinds == KindsOnWay[TierOf(g, h)]
           IN  Len(p) = Len(kinds) /\ \A i \in 1..Len(p) : p[i][1] = kinds[i]
<1>. DEFINE n == Len(p)
            At(k, v) == k \in 1..n /\ p[k] = v
<1>1. n \in Nat /\ At(1, g) /\ p[n] = h
    BY DEF IsSimplePath
<1>2. ASSUME NEW k \in 1..n
      PROVE  /\ p[k] = h <=> k = n
             /\ k # n => k + 1 \in 1..n /\ Onward(h, p[k], p[k + 1])
  <2>1. p[k] = h <=> k = n
      BY <1>1 DEF IsSimplePath
  <2>2. k # n => k + 1 \in 1..n /\ k \in 1..(n - 1)
      BY <1>1
  <2>. QED
      BY <2>1, <2>2
<1>. HIDE DEF n
<1>3. h[1] = "gpu" /\ h[2][1] = "node" /\ h[2][2][1] = "leaf"
    BY DEF NamedGpu
<1>4. g[1] = "gpu" /\ g[2][1] = "node" /\ g[2][2][1] = "leaf"
    BY DEF NamedGpu
<1>5. ASSUME NEW k, At(k, h[2][2])
      PROVE  At(k + 1, h[2]) /\ At(k + 2, h) /\ n = k + 2
  <2>1. k \in Nat /\ p[k] # h
      BY <1>1, <1>3, <1>5
  <2>2. k + 1 \in 1..n /\ p[k + 1] = h[2]
      BY <1>2, <1>3, <1>5, <2>1 DEF Onward
  <2>. DEFINE i == k + 1
  <2>3. i \in 1..n /\ p[i] = h[2] /\ p[i] # h
      BY <1>3, <2>2
  <2>4. i + 1 \in 1..n /\ p[i + 1] = h
    <3>. HIDE DEF i
    <3>. QED
        BY <1>2, <1>3, <2>3 DEF Onward
  <2>5. i + 1 = k + 2
      BY <2>1
  <2>6. k + 2 \in 1..n /\ p[k + 2] = h
    <3>. HIDE DEF i
    <3>. QED
        BY <2>4, <2>5
  <2>7. k + 2 = n
      BY <1>2, <2>6
  <2>. QED
      BY <2>2, <2>6, <2>7
<1>6. ASSUME g[2] # h[2]
      PROVE  At(2, g[2]) /\ At(3, g[2][2])
  <2>1. 1 \in 1..n /\ p[1] = g /\ 1 # n
      BY <1>1, <1>2
  <2>2. 2 \in 1..n /\ Onward(h, g, p[2])
      BY <1>2, <2>1
  <2>3. p[2] = g[2]
      BY <1>3, <1>4, <1>6, <2>2 DEF Onward
  <2>4. 2 # n
      BY <1>1, <1>3, <1>4, <2>3
  <2>5. 3 \in 1..n /\ Onward(h, g[2], p[3])
      BY <1>2, <2>2, <2>3, <2>4
  <2>6. p[3] = g[2][2]
      BY <1>3, <1>4, <1>6, <2>5 DEF Onward
  <2>. QED
      BY <2>2, <2>3, <2>5, <2>6
<1>7. ASSUME g[2] # h[2], g[2][2] # h[2][2]
      PROVE  4 \in 1..n /\ p[4][1] = "spine" /\ p[4][2] = g[2][2][2]
  <2>1. 3 \in 1..n /\ p[3] = g[2][2] /\ 3 # n
      BY <1>1, <1>3, <1>4, <1>6, <1>7
  <2>2. 4 \in 1..n /\ Onward(h, g[2][2], p[4])
      BY <1>2, <2>1
  <2>. QED
      BY <1>3, <1>4, <1>7, <2>2 DEF Onward
<1>8. ASSUME NEW k \in 1..n, p[k][1] = "spine"
      PROVE  k + 1 \in 1..n /\ Onward(h, p[k], p[k + 1])
    BY <1>2, <1>3, <1>8
<1>. DEFINE Passes(m, kinds) == n = m /\ \A i \in 1..m : p[i][1] = kinds[i]
<1>9. CASE g[2] = h[2]
  <2>1. 1 \in 1..n /\ p[1] = g /\ 1 # n
      BY <1>1, <1>2
  <2>2. 2 \in 1..n /\ Onward(h, g, p[2])
      BY <1>2, <2>1
  <2>3. p[2] = h
      BY <1>3, <1>4, <1>9, <2>2 DEF Onward
  <2>4. n = 2
      BY <1>2, <2>2, <2>3
  <2>5. Passes(2, KindsOnWay[1])
      BY <1>3, <1>4, <2>1, <2>3, <2>4 DEF KindsOnWay
  <2>6. TierOf(g, h) = 1 /\ Len(KindsOnWay[1]) = 2
      BY <1>9 DEF TierOf, KindsOnWay
  <2>. QED
      BY <2>5, <2>6 DEF n
<1>10. CASE g[2] # h[2] /\ g[2][2] = h[2][2]
  <2>1. At(1, g) /\ At(2, g[2]) /\ At(3, h[2][2])
      BY <1>1, <1>6, <1>10
  <2>2. At(4, h[2]) /\ At(5, h) /\ n = 5
    <3>1. 3 + 1 = 4 /\ 3 + 2 = 5
        OBVIOUS
    <3>. HIDE DEF At
    <3>2. At(3 + 1, h[2]) /\ At(3 + 2, h) /\ n = 3 + 2
        BY <1>5, <2>1, Zenon
    <3>. QED
        BY <3>1, <3>2
  <2>3. Passes(5, KindsOnWay[2])
      BY <1>3, <1>4, <2>1, <2>2 DEF KindsOnWay
  <2>4. TierOf(g, h) = 2 /\ Len(KindsOnWay[2]) = 5
      BY <1>10 DEF TierOf, KindsOnWay
  <2>. QED
      BY <2>3, <2>4 DEF n
<1>11. CASE g[2] # h[2] /\ g[2][2] # h[2][2] /\ g[2][2][2] = h[2][2][2]
  <2>1. At(1, g) /\ At(2, g[2]) /\ At(3, g[2][2])
      BY <1>1, <1>6, <1>11
  <2>2. 4 \in 1..n /\ p[4][1] = "spine" /\ p[4][2] = h[2][2][2]
      BY <1>7, <1>11
  <2>3. At(5, h[2][2])
    <3>1. 5 \in 1..n /\ Onward(h, p[4], p[5])
        BY <1>8, <2>2
    <3>. QED
        BY <2>2, <3>1 DEF Onward
  <2>4. At(6, h[2]) /\ At(7, h) /\ n = 7
    <3>1. 5 + 1 = 6 /\ 5 + 2 = 7
        OBVIOUS
    <3>. HIDE DEF At
    <3>2. At(5 + 1, h[2]) /\ At(5 + 2, h) /\ n = 5 + 2
        BY <1>5, <2>3, Zenon
    <3>. QED
        BY <3>1, <3>2
  <2>5. Passes(7, KindsOnWay[3])
      BY <1>3, <1>4, <2>1, <2>2, <2>3, <2>4 DEF KindsOnWay
  <2>6. TierOf(g, h) = 3 /\ Len(KindsOnWay[3]) = 7
      BY <1>11 DEF TierOf, KindsOnWay
  <2>. QED
      BY <2>5, <2>6 DEF n
<1>12. CASE g[2] # h[2] /\ g[2][2] # h[2][2] /\ g[2][2][2] # h[2][2][2]
  <2>1. At(1, g) /\ At(2, g[2]) /\ At(3, g[2][2])
      BY <1>1, <1>6, <1>12
  <2>2. 4 \in 1..n /\ p[4][1] = "spine" /\ p[4][2] # h[2][2][2]
      BY <1>7, <1>12
  <2>3. 5 \in 1..n /\ p[5][1] = "spine" /\ p[5][2] = h[2][2][2]
    <3>1. 5 \in 1..n /\ Onward(h, p[4], p[5])
        BY <1>8, <2>2
    <3>. QED
        BY <2>2, <3>1 DEF Onward
  <2>4. At(6, h[2][2])
    <3>1. 6 \in 1..n /\ Onward(h, p[5], p[6])
        BY <1>8, <2>3
    <3>. QED
        BY <2>3, <3>1 DEF Onward
  <2>5. At(7, h[2]) /\ At(8, h) /\ n = 8
    <3>1. 6 + 1 = 7 /\ 6 + 2 = 8
        OBVIOUS
    <3>. HIDE DEF At
    <3>2. At(6 + 1, h[2]) /\ At(6 + 2, h) /\ n = 6 + 2
        BY <1>5, <2>4, Zenon
    <3>. QED
        BY <3>1, <3>2
  <2>6. Passes(8, KindsOnWay[4])
      BY <1>3, <1>4, <2>1, <2>2, <2>3, <2>4, <2>5 DEF KindsOnWay
  <2>7. TierOf(g, h) = 4 /\ Len(KindsOnWay[4]) = 8
      BY <1>12 DEF TierOf, KindsOnWay
  <2>. QED
      BY <2>6, <2>7 DEF n
<1>. QED
    BY <1>9, <1>10, <1>11, <1>12

\* Where a path passes a kind, goes over a spine uplink and over a backbone link.
Meets(kinds, n, K) == {i \in 1..n : kinds[i] = K}

Climbs(kinds, n) == {i \in 1..(n - 1) : {kinds[i], kinds[i + 1]} = {"leaf", "spine"}}

Crosses(kinds, n) == {i \in 1..(n - 1) : kinds[i] = "spine" /\ kinds[i + 1] = "spine"}

\* The figures of a path follow from the kinds of what it passes.
LEMMA SummaryOfKinds ==
    ASSUME TierInv, AllDefault, NEW src, NEW p, IsSimplePath(src, p),
           NEW n, n = Len(p), NEW kinds, \A i \in 1..n : p[i][1] = kinds[i]
    PROVE  LET s == Summary(p)
           IN  /\ s.hop_count = n - 1
               /\ s.distinct_leaf_switches = Cardinality(Meets(kinds, n, "leaf"))
               /\ s.distinct_spine_switches = Cardinality(Meets(kinds, n, "spine"))
               /\ s.spine_uplink_hops = Cardinality(Climbs(kinds, n))
               /\ s.inter_pod_hops = Cardinality(Crosses(kinds, n))
<1>. DEFINE m == n - 1
            hops == [i \in 1..m |-> BestEdge(p[i], p[i + 1])]
<1>1. /\ p \in Seq(DOMAIN vertices) /\ n \in Nat /\ DOMAIN p = 1..n
      /\ \A i \in 1..m : <<p[i], p[i + 1]>> \in Hops
    BY DEF IsSimplePath
<1>2. ASSUME NEW K
      PROVE  {i \in DOMAIN p : vertices[p[i]].kind = K} = Meets(kinds, n, K)
  <2>1. ASSUME NEW i \in 1..n
        PROVE  vertices[p[i]].kind = kinds[i]
    <3>1. p[i] \in DOMAIN vertices
        BY <1>1
    <3>. QED
        BY <3>1, VertexData DEF DataAgree, TierInv
  <2>. QED
      BY <1>1, <2>1 DEF Meets
<1>3. ASSUME NEW i \in 1..m
      PROVE  /\ hops[i].link_type = "spine_uplink"
                  <=> {kinds[i], kinds[i + 1]} = {"leaf", "spine"}
             /\ hops[i].link_type = "inter_pod"
                  <=> kinds[i] = "spine" /\ kinds[i + 1] = "spine"
  <2>. DEFINE u == p[i]
              v == p[i + 1]
              T == BestEdge(u, v).link_type
  <2>1. i \in 1..n /\ i + 1 \in 1..n
      BY <1>1
  <2>2. u[1] = kinds[i] /\ v[1] = kinds[i + 1]
      BY <2>1
  <2>3. hops[i].link_type = T
      OBVIOUS
  <2>4. <<u, v>> \in Hops
      BY <1>1
  <2>. HIDE DEF u, v
  <2>5. T \in UsedTypes /\ Shaped(u, v, T)
      BY <2>4, HopIsDefault
  <2>. HIDE DEF T, hops
  <2>6. /\ T = "spine_uplink" <=> {u[1], v[1]} = {"leaf", "spine"}
        /\ T = "inter_pod" <=> u[1] = "spine" /\ v[1] = "spine"
      BY <2>5 DEF Shaped, Hangs, Beside
  <2>. QED
      BY <2>2, <2>3, <2>6
<1>4. DOMAIN hops = 1..m
    OBVIOUS
<1>5. /\ Summary(p).hop_count = m
      /\ Summary(p).distinct_leaf_switches
            = Cardinality({i \in DOMAIN p : vertices[p[i]].kind = "leaf"})
      /\ Summary(p).distinct_spine_switches
            = Cardinality({i \in DOMAIN p : vertices[p[i]].kind = "spine"})
      /\ Summary(p).spine_uplink_hops
            = Cardinality({i \in 1..m : hops[i].link_type = "spine_uplink"})
      /\ Summary(p).inter_pod_hops
            = Cardinality({i \in 1..m : hops[i].link_type = "inter_pod"})
    BY <1>4 DEF Summary
<1>. HIDE DEF hops
<1>6. /\ {i \in 1..m : hops[i].link_type = "spine_uplink"} = Climbs(kinds, n)
      /\ {i \in 1..m : hops[i].link_type = "inter_pod"} = Crosses(kinds, n)
    BY <1>3 DEF Climbs, Crosses
<1>7. /\ {i \in DOMAIN p : vertices[p[i]].kind = "leaf"} = Meets(kinds, n, "leaf")
      /\ {i \in DOMAIN p : vertices[p[i]].kind = "spine"} = Meets(kinds, n, "spine")
    BY <1>2
<1>. HIDE DEF m
<1>. QED
    BY <1>5, <1>6, <1>7 DEF m

\* The figures that the tiers have.
FiguresOfTier ==
    << <<1, 0, 0, 0, 0>>, <<4, 1, 0, 0, 0>>, <<6, 2, 1, 2, 0>>, <<7, 2, 2, 2, 1>> >>

LEMMA PlacesOnWay ==
    ASSUME NEW tier \in {1, 2, 3, 4}
    PROVE  LET kinds == KindsOnWay[tier]
               n     == <<2, 5, 7, 8>>[tier]
           IN  /\ Len(kinds) = n
               /\ Meets(kinds, n, "leaf") = <<{}, {3}, {3, 5}, {3, 6}>>[tier]
               /\ Meets(kinds, n, "spine") = <<{}, {}, {4}, {4, 5}>>[tier]
               /\ Climbs(kinds, n) = <<{}, {}, {3, 4}, {3, 5}>>[tier]
               /\ Crosses(kinds, n) = <<{}, {}, {}, {4}>>[tier]
<1>1. CASE tier = 1
  <2>. DEFINE kinds == KindsOnWay[1]
  <2>1. Len(kinds) = 2 /\ kinds[1] = "gpu" /\ kinds[2] = "gpu"
      BY DEF KindsOnWay
  <2>. HIDE DEF kinds
  <2>2. /\ \A i \in 1..2 : kinds[i] \notin {"leaf", "spine"}
        /\ \A i \in 1..1 : kinds[i] \notin {"leaf", "spine"}
      BY <2>1
  <2>3. Meets(kinds, 2, "leaf") = {} /\ Meets(kinds, 2, "spine") = {}
      BY <2>2 DEF Meets
  <2>4. Climbs(kinds, 2) = {} /\ Crosses(kinds, 2) = {}
      BY <2>1 DEF Climbs, Crosses
  <2>. QED
      BY <1>1, <2>1, <2>3, <2>4 DEF kinds
<1>2. CASE tier = 2
  <2>. DEFINE kinds == KindsOnWay[2]
  <2>1. /\ Len(kinds) = 5
        /\ kinds[1] = "gpu" /\ kinds[2] = "node" /\ kinds[3] = "leaf" /\ kinds[4] = "node"
        /\ kinds[5] = "gpu"
      BY DEF KindsOnWay
  <2>. HIDE DEF kinds
  <2>2. Meets(kinds, 5, "leaf") = {3}
      BY <2>1 DEF Meets
  <2>3. Meets(kinds, 5, "spine") = {}
      BY <2>1 DEF Meets
  <2>4. Climbs(kinds, 5) = {}
      BY <2>1 DEF Climbs
  <2>5. Crosses(kinds, 5) = {}
      BY <2>1 DEF Crosses
  <2>. QED
      BY <1>2, <2>1, <2>2, <2>3, <2>4, <2>5 DEF kinds
<1>3. CASE tier = 3
  <2>. DEFINE kinds == KindsOnWay[3]
  <2>1. /\ Len(kinds) = 7
        /\ kinds[1] = "gpu" /\ kinds[2] = "node" /\ kinds[3] = "leaf" /\ kinds[4] = "spine"
        /\ kinds[5] = "leaf" /\ kinds[6] = "node" /\ kinds[7] = "gpu"
      BY DEF KindsOnWay
  <2>. HIDE DEF kinds
  <2>2. Meets(kinds, 7, "leaf") = {3, 5}
      BY <2>1 DEF Meets
  <2>3. Meets(kinds, 7, "spine") = {4}
      BY <2>1 DEF Meets
  <2>4. Climbs(kinds, 7) = {3, 4}
      BY <2>1 DEF Climbs
  <2>5. Crosses(kinds, 7) = {}
      BY <2>1 DEF Crosses
  <2>. QED
      BY <1>3, <2>1, <2>2, <2>3, <2>4, <2>5 DEF kinds
<1>4. CASE tier = 4
  <2>. DEFINE kinds == KindsOnWay[4]
  <2>1. /\ Len(kinds) = 8
        /\ kinds[1] = "gpu" /\ kinds[2] = "node" /\ kinds[3] = "leaf" /\ kinds[4] = "spine"
        /\ kinds[5] = "spine" /\ kinds[6] = "leaf" /\ kinds[7] = "node" /\ kinds[8] = "gpu"
      BY DEF KindsOnWay
  <2>. HIDE DEF kinds
  <2>2. Meets(kinds, 8, "leaf") = {3, 6}
      BY <2>1 DEF Meets
  <2>3. Meets(kinds, 8, "spine") = {4, 5}
      BY <2>1 DEF Meets
  <2>4. Climbs(kinds, 8) = {3, 5}
      BY <2>1 DEF Climbs
  <2>5. Crosses(kinds, 8) = {4}
      BY <2>1 DEF Crosses
  <2>. QED
      BY <1>4, <2>1, <2>2, <2>3, <2>4, <2>5 DEF kinds
<1>. QED
    BY <1>1, <1>2, <1>3, <1>4

LEMMA SmallSets ==
    /\ Cardinality({}) = 0
    /\ \A a : Cardinality({a}) = 1
    /\ \A a, b : a # b => Cardinality({a, b}) = 2
<1>1. ASSUME NEW a, NEW b, a # b
      PROVE  Cardinality({a, b}) = 2
  <2>1. Cardinality({a}) = 1 /\ IsFiniteSet({a}) /\ b \notin {a}
      BY <1>1, FS_Singleton
  <2>2. Cardinality({a} \cup {b}) = Cardinality({a}) + 1
      BY <2>1, FS_AddElement
  <2>3. {a, b} = {a} \cup {b}
      OBVIOUS
  <2>. QED
      BY <2>1, <2>2, <2>3
<1>. QED
    BY <1>1, FS_EmptySet, FS_Singleton

LEMMA FiguresOfWay ==
    ASSUME TierInv, AllDefault, NEW g, NamedGpu(g), NEW h, NamedGpu(h), g # h,
           NEW p, IsSimplePath(g, p), p[Len(p)] = h,
           \A i \in 1..(Len(p) - 1) : Onward(h, p[i], p[i + 1])
    PROVE  LET s == Summary(p)
           IN  <<s.hop_count, s.distinct_leaf_switches, s.distinct_spine_switches,
                 s.spine_uplink_hops, s.inter_pod_hops>> = FiguresOfTier[TierOf(g, h)]
<1>. DEFINE tier == TierOf(g, h)
            kinds == KindsOnWay[tier]
            n == Len(p)
            s == Summary(p)
<1>1. n = Len(kinds) /\ \A i \in 1..n : p[i][1] = kinds[i]
    BY WayPasses
<1>2. tier \in {1, 2, 3, 4}
    BY DEF TierOf
<1>. HIDE DEF tier
<1>3. /\ n = <<2, 5, 7, 8>>[tier]
      /\ Meets(kinds, n, "leaf") = <<{}, {3}, {3, 5}, {3, 6}>>[tier]
      /\ Meets(kinds, n, "spine") = <<{}, {}, {4}, {4, 5}>>[tier]
      /\ Climbs(kinds, n) = <<{}, {}, {3, 4}, {3, 5}>>[tier]
      /\ Crosses(kinds, n) = <<{}, {}, {}, {4}>>[tier]
    BY <1>1, <1>2, PlacesOnWay
<1>. HIDE DEF kinds
<1>4. /\ s.hop_count = n - 1
      /\ s.distinct_leaf_switches = Cardinality(Meets(kinds, n, "leaf"))
      /\ s.distinct_spine_switches = Cardinality(Meets(kinds, n, "spine"))
      /\ s.spine_uplink_hops = Cardinality(Climbs(kinds, n))
      /\ s.inter_pod_hops = Cardinality(Crosses(kinds, n))
  <2>1. n = Len(p)
      OBVIOUS
  <2>. HIDE DEF n
  <2>. QED
      BY <1>1, <2>1, SummaryOfKinds
<1>. DEFINE leaves == Meets(kinds, n, "leaf")
            spines == Meets(kinds, n, "spine")
            climbs == Climbs(kinds, n)
            crosses == Crosses(kinds, n)
            Figures == <<n - 1, Cardinality(leaves), Cardinality(spines),
                         Cardinality(climbs), Cardinality(crosses)>>
<1>5. <<s.hop_count, s.distinct_leaf_switches, s.distinct_spine_switches,
        s.spine_uplink_hops, s.inter_pod_hops>> = Figures
    BY <1>4
<1>. HIDE DEF n, s, leaves, spines, climbs, crosses
<1>6. Figures = FiguresOfTier[tier]
  <2>1. CASE tier = 1
    <3>1. n = 2 /\ leaves = {} /\ spines = {} /\ climbs = {} /\ crosses = {}
        BY <1>3, <2>1 DEF leaves, spines, climbs, crosses
    <3>. QED
        BY <2>1, <3>1, SmallSets DEF FiguresOfTier
  <2>2. CASE tier = 2
    <3>1. n = 5 /\ leaves = {3} /\ spines = {} /\ climbs = {} /\ crosses = {}
        BY <1>3, <2>2 DEF leaves, spines, climbs, crosses
    <3>2. Cardinality({}) = 0 /\ Cardinality({3}) = 1
        BY SmallSets
    <3>. QED
        BY <2>2, <3>1, <3>2 DEF FiguresOfTier
  <2>3. CASE tier = 3
    <3>1. n = 7 /\ leaves = {3, 5} /\ spines = {4} /\ climbs = {3, 4} /\ crosses = {}
        BY <1>3, <2>3 DEF leaves, spines, climbs, crosses
    <3>2. Cardinality({}) = 0 /\ Cardinality({4}) = 1
        BY SmallSets
    <3>3. Cardinality({3, 5}) = 2 /\ Cardinality({3, 4}) = 2
        BY SmallSets, 3 # 5, 3 # 4
    <3>. QED
        BY <2>3, <3>1, <3>2, <3>3 DEF FiguresOfTier
  <2>4. CASE tier = 4
    <3>1. n = 8 /\ leaves = {3, 6} /\ spines = {4, 5} /\ climbs = {3, 5} /\ crosses = {4}
        BY <1>3, <2>4 DEF leaves, spines, climbs, crosses
    <3>2. Cardinality({4}) = 1
        BY SmallSets
    <3>3. Cardinality({3, 6}) = 2 /\ Cardinality({4, 5}) = 2 /\ Cardinality({3, 5}) = 2
        BY SmallSets, 3 # 6, 4 # 5, 3 # 5
    <3>. QED
        BY <2>4, <3>1, <3>2, <3>3 DEF FiguresOfTier
  <2>. QED
      BY <1>2, <2>1, <2>2, <2>3, <2>4
<1>. QED
    BY <1>5, <1>6 DEF s, tier
-----------------------------------------------------------------------------
(* That there is a way at all.                                             *)

\* What is reached from a set is reached by a link that leaves the set.
LEMMA LeavingLink ==
    ASSUME LinksJoinVertices, NEW src \in DOMAIN vertices, NEW dst \in ReachedFrom(src),
           NEW S, src \in S, dst \notin S
    PROVE  \E x \in DOMAIN links : x[1] \in S /\ x[2] \notin S
<1>. SUFFICES ASSUME Closed(S)
              PROVE  FALSE
    BY DEF Closed
<1>1. ReachedFrom(src) \subseteq S
    BY ReachedIsLeast
<1>. QED
    BY <1>1

\* The leaf and what hangs below it; a pod with all its leaves.
UnderLeaf(l, v) ==
    \/ v[1] = "leaf" /\ v = l
    \/ v[1] = "node" /\ v[2] = l
    \/ v[1] = "gpu" /\ v[2][2] = l

InPod(i, v) ==
    \/ v[1] \in {"spine", "leaf"} /\ v[2] = i
    \/ v[1] = "node" /\ v[2][2] = i
    \/ v[1] = "gpu" /\ v[2][2][2] = i

LEMMA LinkTypeOfSource ==
    ASSUME TierInv, NEW x \in DOMAIN links
    PROVE  LET T == links[x].link_type
           IN  /\ Shaped(x[1], x[2], T)
               /\ T # "inter_pod" =>
                     \E c \in Range(calls) : \E i \in DOMAIN c.rack_groups :
                        /\ T \in GroupTypes
                        /\ <<x[1], x[2]>> \in GroupPairs(c, c.rack_groups[i])[T]
                        /\ Installed(links, c, c.rack_groups[i])
               /\ T = "inter_pod" =>
                     \E i, j \in 1..azs : x[1] = Spine(i, 1) /\ x[2] = Spine(j, 1)
<1>. DEFINE T == links[x].link_type
<1>1. Shaped(x[1], x[2], T)
    BY DEF TierInv, BuildInv, Fabric, Wired
<1>2. FromGroup(links, Range(calls), x) \/ FromBackbone(links, azs, x)
    BY DEF TierInv, Sourced
<1>3. FromBackbone(links, azs, x) => T = "inter_pod"
    BY SamplesAssumption DEF FromBackbone, PerLinkType, LinkTypes
<1>4. FromGroup(links, Range(calls), x) => T # "inter_pod"
    BY DEF FromGroup, GroupTypes
<1>5. ASSUME FromGroup(links, Range(calls), x)
      PROVE  \E c \in Range(calls) : \E i \in DOMAIN c.rack_groups :
                /\ T \in GroupTypes
                /\ <<x[1], x[2]>> \in GroupPairs(c, c.rack_groups[i])[T]
                /\ Installed(links, c, c.rack_groups[i])
    BY <1>5 DEF FromGroup
<1>6. ASSUME FromBackbone(links, azs, x)
      PROVE  \E i, j \in 1..azs : x[1] = Spine(i, 1) /\ x[2] = Spine(j, 1)
    BY <1>6 DEF FromBackbone
<1>. HIDE DEF T
<1>7. T # "inter_pod" => FromGroup(links, Range(calls), x)
    BY <1>2, <1>3
<1>8. T = "inter_pod" => FromBackbone(links, azs, x)
    BY <1>2, <1>4
<1>. QED
    BY <1>1, <1>5, <1>6, <1>7, <1>8 DEF T

\* The first spine of its pod is over a leaf that has a spine.
LEMMA SpineIsOver ==
    ASSUME TierInv, NEW l, HasSpine(l)
    PROVE  LET s == Spine(l[2], 1)
           IN  Joined(links, l, s, "spine_uplink") /\ Joined(links, s, l, "spine_uplink")
<1>. PICK c \in Range(calls) : \E i \in DOMAIN c.rack_groups :
        l \in LeafIds(c, c.rack_groups[i]) /\ c.spine_count > 0
    BY DEF HasSpine
<1>1. PICK i \in DOMAIN c.rack_groups : l \in LeafIds(c, c.rack_groups[i]) /\ c.spine_count > 0
    OBVIOUS
<1>. DEFINE group == c.rack_groups[i]
            pairs == GroupPairs(c, group)["spine_uplink"]
            s == Spine(l[2], 1)
<1>2. l[2] = c.pod
    BY <1>1, GroupMembers
<1>3. s \in SpineIds(c)
  <2>1. c \in PodCall
      BY DEF TierInv, BuildInv, Range
  <2>2. 1 \in 1..c.spine_count
      BY <1>1, <2>1 DEF PodCall
  <2>. QED
      BY <1>2, <2>2 DEF SpineIds
<1>4. pairs = BothWays(LeafIds(c, group) \X SpineIds(c))
    BY DEF GroupPairs
<1>5. \A e \in pairs : Joined(links, e[1], e[2], "spine_uplink")
    BY DEF TierInv, AllInstalled, Installed, GroupTypes
<1>. HIDE DEF s, pairs
<1>6. <<l, s>> \in pairs /\ <<s, l>> \in pairs
    BY <1>1, <1>3, <1>4 DEF BothWays
<1>7. Joined(links, l, s, "spine_uplink") /\ Joined(links, s, l, "spine_uplink")
    BY <1>5, <1>6
<1>. QED
    BY <1>7 DEF s

\* A leaf that anything leaves has a spine.
LEMMA LeafIsUp ==
    ASSUME TierInv, NEW l, NEW x \in DOMAIN links, UnderLeaf(l, x[1]) # UnderLeaf(l, x[2])
    PROVE  HasSpine(l)
<1>. DEFINE T == links[x].link_type
            u == x[1]
            v == x[2]
<1>1. Shaped(u, v, T)
    BY LinkTypeOfSource
<1>2. T = "spine_uplink" /\ (u = l \/ v = l) /\ l[1] = "leaf"
    BY <1>1 DEF Shaped, Hangs, Beside, UnderLeaf
<1>3. PICK c \in Range(calls) : \E i \in DOMAIN c.rack_groups :
          <<u, v>> \in GroupPairs(c, c.rack_groups[i])[T]
    BY <1>2, LinkTypeOfSource
<1>4. PICK i \in DOMAIN c.rack_groups : <<u, v>> \in GroupPairs(c, c.rack_groups[i])[T]
    BY <1>3
<1>. DEFINE group == c.rack_groups[i]
            pairs == GroupPairs(c, group)["spine_uplink"]
<1>5. pairs = BothWays(LeafIds(c, group) \X SpineIds(c))
    BY DEF GroupPairs
<1>6. <<u, v>> \in pairs
    BY <1>2, <1>4
<1>. HIDE DEF u, v, group, pairs, T
<1>7. \/ u \in LeafIds(c, group) /\ v \in SpineIds(c)
      \/ v \in LeafIds(c, group) /\ u \in SpineIds(c)
    BY <1>5, <1>6 DEF BothWays
<1>8. l \in LeafIds(c, group) /\ SpineIds(c) # {}
  <2>1. \A y \in SpineIds(c) : y[1] = "spine"
      BY GroupMembers
  <2>. QED
      BY <1>2, <1>7, <2>1
<1>9. c.spine_count > 0
  <2>1. c \in PodCall
      BY DEF TierInv, BuildInv, Range
  <2>2. c.spine_count \in Nat
      BY <2>1 DEF PodCall
  <2>3. PICK j \in 1..c.spine_count : TRUE
      BY <1>8 DEF SpineIds
  <2>. QED
      BY <2>2, <2>3
<1>. QED
    BY <1>8, <1>9 DEF HasSpine, group

\* To share a spine is to be leaves of one pod that have one, of any number of pods and
\* of AZs (populate_pod, builders.py:53-88).
THEOREM SpinesArePods == Spec => []SharedSpineIsPod
<1>1. ASSUME TierInv
      PROVE  SharedSpineIsPod
  <2>. SUFFICES ASSUME NEW l \in OfKind("leaf"), NEW m \in OfKind("leaf")
                PROVE  SpinesOver(l) \cap SpinesOver(m) # {}
                          <=> vertices[l].pod_id = vertices[m].pod_id /\ HasSpine(l) /\ HasSpine(m)
      BY DEF SharedSpineIsPod
  <2>1. Wired(vertices, links) /\ Multigraph(links)
      BY <1>1 DEF TierInv, BuildInv, Fabric, Wired
  <2>2. ASSUME NEW e \in OfKind("leaf")
        PROVE  e[1] = "leaf" /\ vertices[e].pod_id = e[2]
      BY <1>1, VertexData DEF TierInv, OfKind, DataAgree
  <2>3. ASSUME NEW e \in OfKind("leaf"), NEW s \in SpinesOver(e)
        PROVE  s[2] = e[2] /\ HasSpine(e)
    <3>1. Joined(links, e, s, "spine_uplink")
        BY <2>1, <2>3, LinkedByJoined DEF SpinesOver
    <3>2. Shaped(e, s, "spine_uplink")
        BY <2>1, <3>1, JoinedBack
    <3>3. s[1] = "spine" /\ s[2] = e[2]
        BY <2>2, <3>2 DEF Shaped, Hangs, Beside
    <3>4. PICK i : <<e, s, i>> \in DOMAIN links
        BY <3>1 DEF Joined
    <3>. DEFINE x == <<e, s, i>>
    <3>5. x \in DOMAIN links /\ x[1] = e /\ x[2] = s
        BY <3>4
    <3>. HIDE DEF x
    <3>6. UnderLeaf(e, x[1]) # UnderLeaf(e, x[2])
        BY <2>2, <3>3, <3>5 DEF UnderLeaf
    <3>. QED
        BY <1>1, <3>3, <3>5, <3>6, LeafIsUp
  <2>4. ASSUME NEW e \in OfKind("leaf"), HasSpine(e)
        PROVE  Spine(e[2], 1) \in SpinesOver(e)
    <3>1. Joined(links, e, Spine(e[2], 1), "spine_uplink")
        BY <1>1, <2>4, SpineIsOver
    <3>. QED
        BY <2>1, <3>1, LinkedByJoined DEF SpinesOver
  <2>. QED
      BY <2>2, <2>3, <2>4
<1>. QED
    BY <1>1, AlwaysTiered, PTL

\* A pod that anything leaves is one of the AZs.
LEMMA PodIsAz ==
    ASSUME TierInv, NEW i, NEW x \in DOMAIN links, InPod(i, x[1]) # InPod(i, x[2])
    PROVE  i \in 1..azs
<1>. DEFINE T == links[x].link_type
            u == x[1]
            v == x[2]
<1>1. Shaped(u, v, T)
    BY LinkTypeOfSource
<1>2. T = "inter_pod"
    BY <1>1 DEF Shaped, Hangs, Beside, InPod
<1>3. PICK j, k \in 1..azs : u = Spine(j, 1) /\ v = Spine(k, 1)
    BY <1>2, LinkTypeOfSource
<1>. HIDE DEF u, v
<1>4. u[2] = j /\ v[2] = k /\ u[1] = "spine" /\ v[1] = "spine"
    BY <1>3 DEF Spine
<1>5. i = j \/ i = k
    BY <1>4 DEF InPod, u, v
<1>. QED
    BY <1>3, <1>5

\* A path from one leaf to another leaves both, and from one pod to another both pods.
LEMMA PathLeaves ==
    ASSUME TierInv, NEW g \in OfKind("gpu"), NEW h \in OfKind("gpu"), h \in ReachedFrom(g)
    PROVE  LET l == g[2][2]
               k == h[2][2]
           IN  /\ l # k => HasSpine(l) /\ HasSpine(k)
               /\ l[2] # k[2] => l[2] \in 1..azs /\ k[2] \in 1..azs
<1>. DEFINE l == g[2][2]
            k == h[2][2]
            V == DOMAIN vertices
<1>1. LinksJoinVertices
    BY BuiltIsJoined DEF TierInv
<1>2. g \in V /\ h \in V /\ g[1] = "gpu" /\ h[1] = "gpu"
    BY GpusAreNamed DEF NamedGpu
<1>3. ASSUME l # k
      PROVE  HasSpine(l) /\ HasSpine(k)
  <2>. DEFINE near == {v \in V : UnderLeaf(l, v)}
              far == {v \in V : ~ UnderLeaf(k, v)}
  <2>1. g \in near /\ h \notin near /\ g \in far /\ h \notin far
      BY <1>2, <1>3 DEF UnderLeaf
  <2>2. PICK x \in DOMAIN links : x[1] \in near /\ x[2] \notin near
      BY <1>1, <1>2, <2>1, LeavingLink
  <2>3. PICK y \in DOMAIN links : y[1] \in far /\ y[2] \notin far
      BY <1>1, <1>2, <2>1, LeavingLink
  <2>4. UnderLeaf(l, x[1]) # UnderLeaf(l, x[2]) /\ UnderLeaf(k, y[1]) # UnderLeaf(k, y[2])
      BY <1>1, <2>2, <2>3 DEF LinksJoinVertices
  <2>. HIDE DEF l, k
  <2>. QED
      BY <2>4, LeafIsUp
<1>4. ASSUME l[2] # k[2]
      PROVE  l[2] \in 1..azs /\ k[2] \in 1..azs
  <2>. DEFINE near == {v \in V : InPod(l[2], v)}
              far == {v \in V : ~ InPod(k[2], v)}
  <2>1. g \in near /\ h \notin near /\ g \in far /\ h \notin far
      BY <1>2, <1>4 DEF InPod
  <2>2. PICK x \in DOMAIN links : x[1] \in near /\ x[2] \notin near
      BY <1>1, <1>2, <2>1, LeavingLink
  <2>3. PICK y \in DOMAIN links : y[1] \in far /\ y[2] \notin far
      BY <1>1, <1>2, <2>1, LeavingLink
  <2>4. InPod(l[2], x[1]) # InPod(l[2], x[2]) /\ InPod(k[2], y[1]) # InPod(k[2], y[2])
      BY <1>1, <2>2, <2>3 DEF LinksJoinVertices
  <2>. HIDE DEF l, k
  <2>. QED
      BY <2>4, PodIsAz
<1>. QED
    BY <1>3, <1>4

\* GPUs reach each other on one leaf, and over the spines that their leaves have in one
\* pod and in one region (populate_pod and build_multi_az_region, builders.py:53-137,
\* 250-261).
THEOREM GpusAreJoined == Spec => []AllAreJoined
<1>1. ASSUME TierInv
      PROVE  AllAreJoined
  <2>. SUFFICES ASSUME NEW g \in OfKind("gpu"), NEW h \in OfKind("gpu")
                PROVE  HasPath(g, h)
                         <=> \/ LeafOf(g) = LeafOf(h)
                             \/ /\ HasSpine(LeafOf(g)) /\ HasSpine(LeafOf(h))
                                /\ PodOf(g) = PodOf(h) \/ {PodOf(g), PodOf(h)} \subseteq 1..azs
      BY DEF AllAreJoined
  <2>. DEFINE n == g[2]
              l == n[2]
              s == Spine(l[2], 1)
              m == h[2]
              k == m[2]
              t == Spine(k[2], 1)
              R == ReachedFrom(g)
  <2>0. BuildInv /\ LinksJoinVertices
      BY <1>1, BuiltIsJoined DEF TierInv
  <2>1. /\ g \in DOMAIN vertices /\ LeafOf(g) = l /\ PodOf(g) = l[2]
        /\ Joined(links, g, n, "pcie") /\ Joined(links, n, l, "leaf_uplink")
      BY <2>0, UpAndDown
  <2>2. /\ LeafOf(h) = k /\ PodOf(h) = k[2]
        /\ Joined(links, m, h, "pcie") /\ Joined(links, k, m, "leaf_uplink")
      BY <2>0, UpAndDown
  <2>3. ASSUME HasSpine(l), HasSpine(k), l[2] = k[2] \/ {l[2], k[2]} \subseteq 1..azs
        PROVE  /\ Joined(links, l, s, "spine_uplink") /\ Joined(links, t, k, "spine_uplink")
               /\ s = t \/ Joined(links, s, t, "inter_pod")
    <3>1. Joined(links, l, s, "spine_uplink") /\ Joined(links, t, k, "spine_uplink")
        BY <1>1, <2>3, SpineIsOver
    <3>2. CASE l[2] = k[2]
        BY <3>1, <3>2
    <3>3. CASE l[2] # k[2]
      <4>1. l[2] \in 1..azs /\ k[2] \in 1..azs
          BY <2>3, <3>3
      <4>. QED
          BY <2>0, <3>1, <3>3, <4>1 DEF BuildInv, Backboned
    <3>. QED
        BY <3>2, <3>3
  <2>4. HasPath(g, h) <=> h \in R
      BY DEF HasPath
  <2>5. h \in R => /\ l # k => HasSpine(l) /\ HasSpine(k)
                   /\ l[2] # k[2] => {l[2], k[2]} \subseteq 1..azs
      BY <1>1, PathLeaves
  <2>. HIDE DEF n, l, s, m, k, t
  <2>6. l \in R
    <3>1. g \in R
        BY <2>0, <2>1, ReachedIsClosed
    <3>2. n \in R
        BY <2>0, <2>1, <3>1, JoinedIsReached
    <3>. QED
        BY <2>0, <2>1, <3>2, JoinedIsReached
  <2>7. ASSUME k \in R
        PROVE  h \in R
    <3>1. m \in R
        BY <2>0, <2>1, <2>2, <2>7, JoinedIsReached
    <3>. QED
        BY <2>0, <2>1, <2>2, <3>1, JoinedIsReached
  <2>8. ASSUME HasSpine(l), HasSpine(k), l[2] = k[2] \/ {l[2], k[2]} \subseteq 1..azs
        PROVE  k \in R
    <3>1. s \in R
        BY <2>0, <2>1, <2>3, <2>6, <2>8, JoinedIsReached
    <3>2. t \in R
        BY <2>0, <2>1, <2>3, <2>8, <3>1, JoinedIsReached
    <3>. QED
        BY <2>0, <2>1, <2>3, <2>8, <3>2, JoinedIsReached
  <2>. HIDE DEF R
  <2>. QED
      BY <2>1, <2>2, <2>4, <2>5, <2>6, <2>7, <2>8
<1>. QED
    BY <1>1, AlwaysTiered, PTL

\* GPUs of one node are in a mesh.
LEMMA SiblingsAreMeshed ==
    ASSUME TierInv, NEW g \in OfKind("gpu"), NEW h \in OfKind("gpu"), g # h, g[2] = h[2]
    PROVE  Joined(links, g, h, "nvlink")
<1>1. ASSUME NEW e \in OfKind("gpu")
      PROVE  \E c \in Range(calls) : \E i \in DOMAIN c.rack_groups :
                /\ e \in GroupGpus(c, c.rack_groups[i]) /\ Installed(links, c, c.rack_groups[i])
                /\ c.rack_groups[i].gpus_per_node \in Nat
  <2>1. e \in DOMAIN vertices /\ e[1] = "gpu"
      BY GpuData DEF TierInv
  <2>2. PICK c \in Range(calls) : \E i \in DOMAIN c.rack_groups :
            e \in GroupGpus(c, c.rack_groups[i]) /\ Installed(links, c, c.rack_groups[i])
      BY <2>1 DEF TierInv, Sourced
  <2>3. PICK i \in DOMAIN c.rack_groups :
            e \in GroupGpus(c, c.rack_groups[i]) /\ Installed(links, c, c.rack_groups[i])
      BY <2>2
  <2>4. c.rack_groups[i].gpus_per_node \in Nat
    <3>1. c \in PodCall
        BY DEF TierInv, BuildInv, Range
    <3>2. c.rack_groups[i] \in RackGroup
        BY <3>1 DEF PodCall
    <3>. QED
        BY <3>2 DEF RackGroup
  <2>. QED
      BY <2>3, <2>4
<1>2. ASSUME NEW a \in OfKind("gpu"), NEW b \in OfKind("gpu"), a[2] = b[2], a # b, a[3] <= b[3]
      PROVE  Joined(links, a, b, "nvlink") /\ Joined(links, b, a, "nvlink")
  <2>1. PICK c \in Range(calls) : \E i \in DOMAIN c.rack_groups :
            /\ b \in GroupGpus(c, c.rack_groups[i]) /\ Installed(links, c, c.rack_groups[i])
            /\ c.rack_groups[i].gpus_per_node \in Nat
      BY <1>1
  <2>2. PICK i \in DOMAIN c.rack_groups :
            /\ b \in GroupGpus(c, c.rack_groups[i]) /\ Installed(links, c, c.rack_groups[i])
            /\ c.rack_groups[i].gpus_per_node \in Nat
      BY <2>1
  <2>. DEFINE group == c.rack_groups[i]
              pairs == GroupPairs(c, group)["nvlink"]
  <2>3. pairs = NvLinkPairs(c, group)
      BY DEF GroupPairs
  <2>. HIDE DEF group, pairs
  <2>4. /\ b[2] \in NodeIds(c, group) /\ b[3] \in 1..group.gpus_per_node
        /\ \A k \in 1..group.gpus_per_node : <<"gpu", b[2], k>> \in GroupGpus(c, group)
      BY <2>2, GroupMembers DEF group
  <2>5. a[3] \in Nat \ {0} /\ a = <<"gpu", a[2], a[3]>>
    <3>1. PICK d \in Range(calls) : \E j \in DOMAIN d.rack_groups :
              /\ a \in GroupGpus(d, d.rack_groups[j])
              /\ d.rack_groups[j].gpus_per_node \in Nat
        BY <1>1
    <3>. QED
        BY <3>1, GroupMembers
  <2>6. a[3] \in 1..group.gpus_per_node
    <3>1. group.gpus_per_node \in Nat
        BY <2>2 DEF group
    <3>. QED
        BY <1>2, <2>4, <2>5, <3>1
  <2>7. a \in GroupGpus(c, group) /\ b \in GroupGpus(c, group)
      BY <1>2, <2>2, <2>4, <2>5, <2>6 DEF group
  <2>8. <<a, b>> \in pairs /\ <<b, a>> \in pairs
      BY <1>2, <2>3, <2>7 DEF NvLinkPairs
  <2>9. \A e \in pairs : Joined(links, e[1], e[2], "nvlink")
      BY <2>2 DEF Installed, GroupTypes, pairs, group
  <2>. QED
      BY <2>8, <2>9
<1>3. ASSUME NEW a \in OfKind("gpu")
      PROVE  a[3] \in Nat
  <2>1. PICK d \in Range(calls) : \E j \in DOMAIN d.rack_groups :
            /\ a \in GroupGpus(d, d.rack_groups[j])
            /\ d.rack_groups[j].gpus_per_node \in Nat
      BY <1>1
  <2>. QED
      BY <2>1, GroupMembers
<1>4. g[3] <= h[3] \/ h[3] <= g[3]
    BY <1>3
<1>. QED
    BY <1>2, <1>4

\* A way to h, hop by hop.
IsWay(h, p) ==
    /\ \A i \in 1..(Len(p) - 1) :
          Onward(h, p[i], p[i + 1]) /\ \E T : Joined(links, p[i], p[i + 1], T)
    /\ Len(p) >= 1 /\ p[Len(p)] = h
    /\ \A i, j \in 1..Len(p) : p[i] = p[j] => i = j

LEMMA WayIsPath ==
    ASSUME TierInv, NEW g, NEW h, NEW p \in Seq(DOMAIN vertices), IsWay(h, p), p[1] = g
    PROVE  /\ IsSimplePath(g, p) /\ p[Len(p)] = h
           /\ \A i \in 1..(Len(p) - 1) : Onward(h, p[i], p[i + 1])
BY JoinedIsHop DEF IsWay, IsSimplePath

\* Where there is a path from one GPU to another there is one that is all the way onward.
LEMMA WayExists ==
    ASSUME TierInv, NEW g \in OfKind("gpu"), NEW h \in OfKind("gpu"), g # h,
           h \in ReachedFrom(g)
    PROVE  \E p : /\ IsSimplePath(g, p) /\ p[Len(p)] = h
                  /\ \A i \in 1..(Len(p) - 1) : Onward(h, p[i], p[i + 1])
<1>. DEFINE n == g[2]
            l == n[2]
            s == Spine(l[2], 1)
            m == h[2]
            k == m[2]
            t == Spine(k[2], 1)
            V == DOMAIN vertices
<1>0. LinksJoinVertices /\ Wired(vertices, links)
    BY BuiltIsJoined DEF TierInv, BuildInv, Fabric
<1>1. /\ {g, n, l} \subseteq V /\ {h, m, k} \subseteq V
      /\ g[1] = "gpu" /\ n[1] = "node" /\ l[1] = "leaf"
      /\ h[1] = "gpu" /\ m[1] = "node" /\ k[1] = "leaf"
      /\ Joined(links, g, n, "pcie") /\ Joined(links, n, l, "leaf_uplink")
      /\ Joined(links, m, h, "pcie") /\ Joined(links, k, m, "leaf_uplink")
    BY GpusAreNamed DEF NamedGpu
<1>2. s[1] = "spine" /\ s[2] = l[2] /\ t[1] = "spine" /\ t[2] = k[2]
    BY DEF Spine
<1>3. ASSUME l # k
      PROVE  Joined(links, l, s, "spine_uplink") /\ Joined(links, t, k, "spine_uplink")
  <2>1. HasSpine(l) /\ HasSpine(k)
      BY <1>3, PathLeaves
  <2>. QED
      BY <2>1, SpineIsOver
<1>4. ASSUME l[2] # k[2]
      PROVE  Joined(links, s, t, "inter_pod")
  <2>1. l[2] \in 1..azs /\ k[2] \in 1..azs
      BY <1>4, PathLeaves
  <2>. QED
      BY <1>4, <2>1 DEF TierInv, BuildInv, Backboned
<1>5. /\ Joined(links, l, s, "spine_uplink") => s \in V
      /\ Joined(links, t, k, "spine_uplink") => t \in V
    BY <1>0, JoinedBack
<1>6. n = m => Joined(links, g, h, "nvlink")
    BY SiblingsAreMeshed
<1>. HIDE DEF n, l, s, m, k, t, V
<1>7. ASSUME NEW p \in Seq(V), IsWay(h, p), p[1] = g
      PROVE  \E q : /\ IsSimplePath(g, q) /\ q[Len(q)] = h
                    /\ \A i \in 1..(Len(q) - 1) : Onward(h, q[i], q[i + 1])
    BY <1>7, WayIsPath DEF V
<1>8. CASE n = m
  <2>. DEFINE p == <<g, h>>
  <2>1. p \in Seq(V) /\ Len(p) = 2 /\ p[1] = g /\ p[2] = h
      BY <1>1
  <2>2. Onward(h, g, h)
      BY <1>1, <1>8 DEF Onward, n, m
  <2>. HIDE DEF p
  <2>3. IsWay(h, p)
      BY <1>6, <1>8, <2>1, <2>2 DEF IsWay
  <2>. QED
      BY <1>7, <2>1, <2>3
<1>9. CASE n # m /\ l = k
  <2>. DEFINE p == <<g, n, l, m, h>>
  <2>1. /\ p \in Seq(V) /\ Len(p) = 5
        /\ p[1] = g /\ p[2] = n /\ p[3] = l /\ p[4] = m /\ p[5] = h
      BY <1>1
  <2>2. Onward(h, g, n) /\ Onward(h, n, l) /\ Onward(h, l, m) /\ Onward(h, m, h)
      BY <1>1, <1>9 DEF Onward, n, l, m, k
  <2>. HIDE DEF p
  <2>3. ASSUME NEW i \in 1..4
        PROVE  Onward(h, p[i], p[i + 1]) /\ \E T : Joined(links, p[i], p[i + 1], T)
    <3>1. i \in {1, 2, 3, 4}
        OBVIOUS
    <3>. QED
        BY <1>1, <1>9, <2>1, <2>2, <3>1
  <2>4. \A i, j \in 1..5 : p[i] = p[j] => i = j
      BY <1>1, <1>9, <2>1
  <2>5. IsWay(h, p)
      BY <2>1, <2>3, <2>4 DEF IsWay
  <2>. QED
      BY <1>7, <2>1, <2>5
<1>10. CASE n # m /\ l # k /\ l[2] = k[2]
  <2>. DEFINE p == <<g, n, l, s, k, m, h>>
  <2>0. s = t /\ s \in V
      BY <1>3, <1>5, <1>10 DEF s, t
  <2>1. /\ p \in Seq(V) /\ Len(p) = 7
        /\ p[1] = g /\ p[2] = n /\ p[3] = l /\ p[4] = s /\ p[5] = k /\ p[6] = m /\ p[7] = h
      BY <1>1, <2>0
  <2>2. /\ Onward(h, g, n) /\ Onward(h, n, l) /\ Onward(h, l, s) /\ Onward(h, s, k)
        /\ Onward(h, k, m) /\ Onward(h, m, h)
      BY <1>1, <1>2, <1>10 DEF Onward, n, l, m, k
  <2>. HIDE DEF p
  <2>3. ASSUME NEW i \in 1..6
        PROVE  Onward(h, p[i], p[i + 1]) /\ \E T : Joined(links, p[i], p[i + 1], T)
    <3>1. i \in {1, 2, 3, 4, 5, 6}
        OBVIOUS
    <3>. QED
        BY <1>1, <1>3, <1>10, <2>0, <2>1, <2>2, <3>1
  <2>4. \A i, j \in 1..7 : p[i] = p[j] => i = j
      BY <1>1, <1>2, <1>10, <2>1
  <2>5. IsWay(h, p)
      BY <2>1, <2>3, <2>4 DEF IsWay
  <2>. QED
      BY <1>7, <2>1, <2>5
<1>11. CASE n # m /\ l # k /\ l[2] # k[2]
  <2>. DEFINE p == <<g, n, l, s, t, k, m, h>>
  <2>0. s \in V /\ t \in V
      BY <1>3, <1>5, <1>11
  <2>1. /\ p \in Seq(V) /\ Len(p) = 8
        /\ p[1] = g /\ p[2] = n /\ p[3] = l /\ p[4] = s
        /\ p[5] = t /\ p[6] = k /\ p[7] = m /\ p[8] = h
      BY <1>1, <2>0
  <2>2. /\ Onward(h, g, n) /\ Onward(h, n, l) /\ Onward(h, l, s) /\ Onward(h, s, t)
        /\ Onward(h, t, k) /\ Onward(h, k, m) /\ Onward(h, m, h)
      BY <1>1, <1>2, <1>11 DEF Onward, n, l, m, k
  <2>. HIDE DEF p
  <2>3. ASSUME NEW i \in 1..7
        PROVE  Onward(h, p[i], p[i + 1]) /\ \E T : Joined(links, p[i], p[i + 1], T)
    <3>1. i \in {1, 2, 3, 4, 5, 6, 7}
        OBVIOUS
    <3>. QED
        BY <1>1, <1>3, <1>4, <1>11, <2>1, <2>2, <3>1
  <2>4. \A i, j \in 1..8 : p[i] = p[j] => i = j
      BY <1>1, <1>2, <1>11, <2>1
  <2>5. IsWay(h, p)
      BY <2>1, <2>3, <2>4 DEF IsWay
  <2>. QED
      BY <1>7, <2>1, <2>5
<1>12. l # k => n # m
    BY DEF l, k
<1>. QED
    BY <1>8, <1>9, <1>10, <1>11, <1>12

\* shortest_path yields a path that no other is lighter than.
LEMMA ShortestIsLightest ==
    ASSUME LinksJoinVertices, NEW src \in DOMAIN vertices, NEW dst, src # dst,
           NEW weight \in {"latency", "hops"},
           NEW paths, paths = AllPaths(SimpleView, src, dst, NoCutoff),
           NEW p \in ShortestPaths(SimpleView, src, dst, weight)
    PROVE  /\ p \in paths
           /\ \A q \in paths : PathWeight(SimpleView, p, weight) <= PathWeight(SimpleView, q, weight)
<1>. DEFINE view == SimpleView
            weights == {PathWeight(view, q, weight) : q \in paths}
<1>1. IsFiniteSet(paths)
  <2>1. DOMAIN view = Hops /\ NoCutoff \in Nat
      BY ViewIsOfHops, CutoffIsNatural
  <2>. HIDE DEF view
  <2>2. IsFiniteSet(SimplePathsFrom(view, src, NoCutoff))
      BY <2>1, PathsAreSimple
  <2>3. paths \subseteq SimplePathsFrom(view, src, NoCutoff)
      BY DEF AllPaths, view
  <2>. QED
      BY <2>2, <2>3, FS_Subset
<1>2. \A q \in paths : PathWeight(view, q, weight) \in Nat
    BY WeightIsCost
<1>3. paths = AllPaths(view, src, dst, NoCutoff)
    OBVIOUS
<1>4. PICK s \in KShortestPaths(view, src, dst, 1, weight) : p = s[1]
    BY DEF ShortestPaths
<1>. HIDE DEF view
<1>5. /\ BestFirst(view, paths, weight, s)
      /\ paths # {} /\ Len(s) = Min({1, Cardinality(paths)})
    BY <1>1, <1>3, <1>4, KShortestAreBest
<1>6. 1 \in 1..Len(s)
  <2>. DEFINE S == {1, Cardinality(paths)}
  <2>1. Cardinality(paths) \in Nat /\ Cardinality(paths) # 0
      BY <1>1, <1>5, FS_CardinalityType, FS_EmptySet
  <2>2. S \in SUBSET Nat /\ S # {} /\ 0 \notin S
      BY <2>1
  <2>. HIDE DEF S
  <2>3. Min(S) \in S
      BY <2>2, MinIsLeast
  <2>4. Len(s) \in Nat /\ Len(s) # 0
      BY <1>5, <2>2, <2>3 DEF S
  <2>. QED
      BY <2>4
<1>7. {s[j] : j \in 1..(1 - 1)} = {}
    OBVIOUS
<1>8. p \in Lightest(view, paths, weight)
  <2>1. p \in Lightest(view, paths \ {s[j] : j \in 1..(1 - 1)}, weight)
      BY <1>4, <1>5, <1>6 DEF BestFirst
  <2>2. paths \ {s[j] : j \in 1..(1 - 1)} = paths
      BY <1>7
  <2>. QED
      BY <2>1, <2>2
<1>9. p \in paths /\ PathWeight(view, p, weight) = Min(weights)
    BY <1>8 DEF Lightest
<1>10. weights \in SUBSET Nat /\ weights # {}
    BY <1>2, <1>9
<1>11. \A q \in paths : PathWeight(view, q, weight) \in weights
    OBVIOUS
<1>12. \A w \in weights : Min(weights) <= w
  <2>. HIDE DEF weights
  <2>. QED
      BY <1>10, MinIsLeast
<1>. HIDE DEF weights
<1>. QED
    BY <1>9, <1>11, <1>12 DEF view

\* A best path goes onward all the way, and weighs what the way is.
LEMMA ShortestIsWay ==
    ASSUME TierInv, AllDefault, NEW g \in OfKind("gpu"), NEW h \in OfKind("gpu"), g # h,
           NEW weight \in {"latency", "hops"}, NEW p \in ShortestPaths(SimpleView, g, h, weight)
    PROVE  /\ IsSimplePath(g, p) /\ p[Len(p)] = h
           /\ \A i \in 1..(Len(p) - 1) : Onward(h, p[i], p[i + 1])
           /\ PathWeight(SimpleView, p, weight) = Away(h, weight, g)
<1>. DEFINE w(q) == PathWeight(SimpleView, q, weight)
            paths == AllPaths(SimpleView, g, h, NoCutoff)
            Goes(q) == \A i \in 1..(Len(q) - 1) : Onward(h, q[i], q[i + 1])
            a == Away(h, weight, g)
<1>1. LinksJoinVertices /\ g \in DOMAIN vertices /\ NamedGpu(h)
    BY BuiltIsJoined, GpusAreNamed DEF TierInv
<1>2. p \in paths /\ \A q \in paths : w(p) <= w(q)
    BY <1>1, ShortestIsLightest
<1>3. \A q : q \in paths <=> IsSimplePath(g, q) /\ q[Len(q)] = h
    BY <1>1, PathsOfSearch
<1>4. ASSUME NEW q \in paths
      PROVE  w(q) \in Int /\ a <= w(q) /\ (w(q) = a <=> Goes(q))
    BY <1>1, <1>3, PathsAreFair
<1>5. IsSimplePath(g, p) /\ p[Len(p)] = h
    BY <1>2, <1>3
<1>6. h \in ReachedFrom(g)
  <2>1. Len(p) \in 1..Len(p)
      BY <1>5 DEF IsSimplePath
  <2>. QED
      BY <1>1, <1>5, <2>1, PathIsReached
<1>7. PICK q : IsSimplePath(g, q) /\ q[Len(q)] = h /\ Goes(q)
    BY <1>6, WayExists
<1>8. a \in Int
    BY AwayIsNatural
<1>. HIDE DEF w, paths, Goes, a
<1>9. q \in paths
    BY <1>3, <1>7
<1>10. w(q) = a /\ w(p) <= w(q) /\ a <= w(p) /\ w(p) \in Int
    BY <1>2, <1>4, <1>7, <1>9
<1>11. w(p) = a /\ Goes(p)
  <2>1. w(p) = a
      BY <1>8, <1>10
  <2>. QED
      BY <1>2, <1>4, <2>1
<1>. QED
    BY <1>5, <1>11 DEF w, Goes, a

\* Best paths have the figures of their tier, in clusters of any size (shortest_path and
\* _summarize, paths.py:63-81; populate_pod and build_multi_az_region, builders.py).
THEOREM TiersAreSpanned == Spec => []SpansItsTier
<1>1. ASSUME TierInv
      PROVE  SpansItsTier
  <2>. SUFFICES ASSUME AllDefault, NEW g \in OfKind("gpu"), NEW h \in OfKind("gpu"),
                       NEW weight \in {"latency", "hops"}, g # h,
                       NEW p \in ShortestPaths(SimpleView, g, h, weight)
                PROVE  LET s == Summary(p)
                       IN  <<s.hop_count, s.distinct_leaf_switches, s.distinct_spine_switches,
                             s.spine_uplink_hops, s.inter_pod_hops>> = FiguresOfTier[Tier(g, h)]
      BY DEF SpansItsTier, FiguresOfTier
  <2>1. NamedGpu(g) /\ NamedGpu(h)
      BY <1>1, GpusAreNamed
  <2>2. /\ IsSimplePath(g, p) /\ p[Len(p)] = h
        /\ \A i \in 1..(Len(p) - 1) : Onward(h, p[i], p[i + 1])
      BY <1>1, ShortestIsWay
  <2>3. Tier(g, h) = TierOf(g, h)
      BY <1>1, TiersAreNamed
  <2>. QED
      BY <1>1, <2>1, <2>2, <2>3, FiguresOfWay
<1>. QED
    BY <1>1, AlwaysTiered, PTL

\* How far it is between GPUs of a tier.
LEMMA AwayByTier ==
    ASSUME NEW weight, NEW g, NamedGpu(g), NEW h, NamedGpu(h), g # h
    PROVE  LET W(T) == Weighs(weight, T)
               up   == W("pcie") + W("leaf_uplink")
           IN  /\ TierOf(g, h) = 1 => Away(h, weight, g) = W("nvlink")
               /\ TierOf(g, h) = 2 => Away(h, weight, g) = up + up
               /\ TierOf(g, h) = 3 =>
                     Away(h, weight, g) = up + up + W("spine_uplink") + W("spine_uplink")
               /\ TierOf(g, h) = 4 =>
                     Away(h, weight, g)
                        = up + up + W("spine_uplink") + W("spine_uplink") + W("inter_pod")
<1>. DEFINE N == Weighs(weight, "nvlink")
            P == Weighs(weight, "pcie")
            U == Weighs(weight, "leaf_uplink")
            S == Weighs(weight, "spine_uplink")
            I == Weighs(weight, "inter_pod")
            a == Away(h, weight, g)
<1>1. N \in Nat /\ P \in Nat /\ U \in Nat /\ S \in Nat /\ I \in Nat
    BY HopsHaveWeight DEF UsedTypes, GroupTypes
<1>2. a = IF g[2] = h[2] THEN N ELSE P + NodeAway(h, weight, g[2])
    BY DEF Away, GpuAway, NamedGpu
<1>3. g[2] # h[2] => NodeAway(h, weight, g[2]) = U + LeafAway(h, weight, g[2][2])
    BY DEF NodeAway
<1>4. LeafAway(h, weight, g[2][2]) = IF g[2][2] = h[2][2] THEN P + U
                                     ELSE S + SpineAway(h, weight, g[2][2][2])
    BY DEF LeafAway
<1>5. SpineAway(h, weight, g[2][2][2]) = P + U + S + (IF g[2][2][2] = h[2][2][2] THEN 0 ELSE I)
    BY DEF SpineAway
<1>. HIDE DEF N, P, U, S, I, a
<1>6. /\ TierOf(g, h) = 1 => a = N
      /\ TierOf(g, h) = 2 => a = (P + U) + (P + U)
      /\ TierOf(g, h) = 3 => a = (P + U) + (P + U) + S + S
      /\ TierOf(g, h) = 4 => a = (P + U) + (P + U) + S + S + I
    BY <1>1, <1>2, <1>3, <1>4, <1>5 DEF TierOf
<1>. QED
    BY <1>6 DEF N, P, U, S, I, a

LEMMA NearerIsLess ==
    ASSUME NEW weight, NEW g, NamedGpu(g), NEW h, NamedGpu(h), g # h,
           NEW u, NamedGpu(u), NEW v, NamedGpu(v), u # v, TierOf(g, h) < TierOf(u, v)
    PROVE  Away(h, weight, g) < Away(v, weight, u)
<1>. DEFINE N == Weighs(weight, "nvlink")
            P == Weighs(weight, "pcie")
            U == Weighs(weight, "leaf_uplink")
            S == Weighs(weight, "spine_uplink")
            I == Weighs(weight, "inter_pod")
            Way(tier) == CASE tier = 1 -> N
                           [] tier = 2 -> (P + U) + (P + U)
                           [] tier = 3 -> (P + U) + (P + U) + S + S
                           [] tier = 4 -> (P + U) + (P + U) + S + S + I
            i == TierOf(g, h)
            j == TierOf(u, v)
<1>1. /\ N \in Nat /\ P \in Nat /\ U \in Nat /\ S \in Nat /\ I \in Nat
      /\ N > 0 /\ P > 0 /\ U > 0 /\ S > 0 /\ I > 0 /\ N < 2 * P
    BY HopsHaveWeight DEF UsedTypes, GroupTypes
<1>2. i \in {1, 2, 3, 4} /\ j \in {1, 2, 3, 4}
    BY DEF TierOf
<1>3. Away(h, weight, g) = Way(i) /\ Away(v, weight, u) = Way(j)
    BY <1>2, AwayByTier
<1>. HIDE DEF N, P, U, S, I, i, j
<1>4. i < j
    BY DEF i, j
<1>5. Way(i) < Way(j)
    BY <1>1, <1>2, <1>4
<1>. QED
    BY <1>3, <1>5

\* GPUs that containment puts nearer have the lower latency, in clusters of any size and
\* with any default latencies of which a hop over NVLink takes less than one over the
\* node (builders.py:39-46, 250-261).
THEOREM NearerAreQuicker == Spec => []NearerIsQuicker
<1>1. ASSUME TierInv
      PROVE  NearerIsQuicker
  <2>. DEFINE view == SimpleView
              Times(e) == {PathWeight(view, p, "latency") :
                              p \in ShortestPaths(view, e[1], e[2], "latency")}
              times == [e \in GpuPairs |-> Times(e)]
  <2>. SUFFICES ASSUME AllDefault, NEW e \in GpuPairs, NEW d \in GpuPairs,
                       Tier(e[1], e[2]) < Tier(d[1], d[2]),
                       NEW t \in times[e], NEW u \in times[d]
                PROVE  t < u
      BY DEF NearerIsQuicker
  <2>1. \A x \in GpuPairs : x[1] \in OfKind("gpu") /\ x[2] \in OfKind("gpu") /\ x[1] # x[2]
      BY DEF GpuPairs
  <2>2. ASSUME NEW x \in GpuPairs, NEW w \in Times(x)
        PROVE  w = Away(x[2], "latency", x[1])
      BY <1>1, <2>1, ShortestIsWay
  <2>3. t \in Times(e) /\ u \in Times(d)
      OBVIOUS
  <2>4. \A x \in GpuPairs : /\ NamedGpu(x[1]) /\ NamedGpu(x[2])
                            /\ Tier(x[1], x[2]) = TierOf(x[1], x[2])
      BY <1>1, <2>1, GpusAreNamed, TiersAreNamed
  <2>. HIDE DEF Times
  <2>5. t = Away(e[2], "latency", e[1]) /\ u = Away(d[2], "latency", d[1])
      BY <2>2, <2>3
  <2>. QED
      BY <2>1, <2>4, <2>5, NearerIsLess
<1>. QED
    BY <1>1, AlwaysTiered, PTL
=============================================================================
