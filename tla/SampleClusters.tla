---------------------------- MODULE SampleClusters ----------------------------
(***************************************************************************)
(* samples/builders.py: the clusters that the samples are made of, and     *)
(* what path queries and placement find in them.                           *)
(*                                                                         *)
(* A pod is a leaf-spine fabric with the nodes and the GPUs that hang off  *)
(* it; a region is several pods and a backbone.  populate_pod works on the *)
(* topology it is given, and what it adds may be there already.            *)
(*                                                                         *)
(* An identifier, which the source formats from the identifier of what it  *)
(* is part of and a number, is a tuple of these; numbers start at 1.  The  *)
(* AZs of a region are the pods 1, 2 and so on.  Models and sizes of the   *)
(* hardware, and oversubscription, are left out: nothing here reads them.  *)
(***************************************************************************)
EXTENDS PathQueries

CONSTANTS
    PodCalls,       \* the arguments that populate_pod may be called with
    Samples,        \* those of build_single_az and build_datacenter_mixed_gpus
    Az,             \* those of build_multi_az_region, but for the pod and the metrics
    Default,        \* the metrics of the links, as the keyword defaults give them
    MaxAzs,         \* bound: the AZs of a region
    MaxPods         \* bound: how many pods are populated in one topology

PerLinkType == {m \in [LinkTypes -> LinkMetrics] : \A t \in LinkTypes : m[t].link_type = t}

RackGroup == [name: STRING, leaf_count: Nat, nodes_per_leaf: Nat, gpus_per_node: Nat]

PodCall == [pod: Nat, spine_count: Nat, rack_groups: Seq(RackGroup), metrics: PerLinkType]

AzCall(i) ==
    [pod |-> i, spine_count |-> Az.spine_count, rack_groups |-> Az.rack_groups,
     metrics |-> Default]

ASSUME SamplesAssumption ==
    /\ PodCalls \subseteq PodCall /\ Samples \subseteq PodCall
    /\ Default \in PerLinkType
    /\ AzCall(1) \in PodCall /\ Az.spine_count > 0
    /\ MaxAzs \in Nat /\ MaxPods \in Nat

\* A hop takes time by default, and one over NVLink less than the two over the node:
\* 0.5 against twice 1.0 (builders.py:39-46, 258).
ASSUME LatenciesAssumption ==
    /\ \A t \in LinkTypes \ {"rail"} : Default[t].latency_us > 0
    /\ Default["nvlink"].latency_us < 2 * Default["pcie"].latency_us

VARIABLES
    calls,      \* the calls of populate_pod that this topology comes from
    azs         \* how many of the pods are the AZs of a region

vars == <<graphVars, calls, azs>>

Init ==
    /\ vertices = <<>>
    /\ links = <<>>
    /\ calls = <<>>
    /\ azs = 0

-----------------------------------------------------------------------------
(* populate_pod.                                                           *)

\* Fault: the pod is not part of the identifier.
SpineOfNoPod(pod, i) == <<"spine", 0, i>>

Spine(pod, i) == <<"spine", pod, i>>

SpineIds(c) == {Spine(c.pod, i) : i \in 1..c.spine_count}

\* Fault: the group is not part of the identifier.
LeafIdsWithoutGroup(c, group) == {<<"leaf", c.pod, "rack", i>> : i \in 1..group.leaf_count}

LeafIds(c, group) == {<<"leaf", c.pod, group.name, i>> : i \in 1..group.leaf_count}

NodeIds(c, group) ==
    {<<"node", leaf, i>> : leaf \in LeafIds(c, group), i \in 1..group.nodes_per_leaf}

\* In the order of their rails.
GpuIds(group, node) == [i \in 1..group.gpus_per_node |-> <<"gpu", node, i>>]

GroupGpus(c, group) == UNION {Range(GpuIds(group, n)) : n \in NodeIds(c, group)}

SpineData(c) == [s \in SpineIds(c) |-> [kind |-> "spine", pod_id |-> c.pod]]

\* The data of one of the entities of a group.
EntityData(c, group, e) ==
    CASE e[1] = "leaf" -> [kind |-> "leaf", pod_id |-> c.pod]
      [] e[1] = "node" -> [kind |-> "node", leaf_id |-> e[2], gpu_ids |-> GpuIds(group, e)]
      [] e[1] = "gpu"  -> [kind |-> "gpu", node_id |-> e[2], rail_index |-> e[3] - 1]

GroupData(c, group) ==
    [e \in LeafIds(c, group) \cup NodeIds(c, group) \cup GroupGpus(c, group) |->
        EntityData(c, group, e)]

\* What add_link makes of a pair by default: a link in both directions.
BothWays(pairs) == pairs \cup {<<e[2], e[1]>> : e \in pairs}

\* Fault: a pair of GPUs is linked once.
NvLinkPairsOnce(c, group) ==
    {e \in GroupGpus(c, group) \X GroupGpus(c, group) :
        e[1][2] = e[2][2] /\ e[1][3] < e[2][3]}

\* The mesh has a link of one direction for every ordered pair.
NvLinkPairs(c, group) ==
    {e \in GroupGpus(c, group) \X GroupGpus(c, group) : e[1][2] = e[2][2] /\ e[1] # e[2]}

\* Fault: a GPU is not linked to its node.
GroupPairsWithoutPcie(c, group) ==
    [spine_uplink |-> BothWays(LeafIds(c, group) \X SpineIds(c)),
     leaf_uplink  |-> BothWays({<<n, n[2]>> : n \in NodeIds(c, group)}),
     pcie         |-> {},
     nvlink       |-> NvLinkPairs(c, group)]

\* The pairs that are linked, for each type of link.
GroupPairs(c, group) ==
    [spine_uplink |-> BothWays(LeafIds(c, group) \X SpineIds(c)),
     leaf_uplink  |-> BothWays({<<n, n[2]>> : n \in NodeIds(c, group)}),
     pcie         |-> BothWays({<<g, g[2]>> : g \in GroupGpus(c, group)}),
     nvlink       |-> NvLinkPairs(c, group)]

GroupLinks(c, group) ==
    LET pairs == GroupPairs(c, group)
    IN  [e \in UNION {pairs[T] : T \in DOMAIN pairs} |->
            c.metrics[CHOOSE T \in DOMAIN pairs : e \in pairs[T]]]

\* The links L and new ones, each with a key of its own.
AddAll(L, new) ==
    Updated(L, [x \in {<<e[1], e[2], NewKey(L, e[1], e[2])>> : e \in DOMAIN new} |->
                    new[<<x[1], x[2]>>]])

WithSpines(topology, c) ==
    [vertices |-> Updated(topology.vertices, SpineData(c)), links |-> topology.links]

WithGroup(topology, c, group) ==
    [vertices |-> Updated(topology.vertices, GroupData(c, group)),
     links    |-> AddAll(topology.links, GroupLinks(c, group))]

\* Two groups of one name add the same racks, the later one over the earlier.
Populated(topology, c) ==
    LET after[n \in 0..Len(c.rack_groups)] ==
            IF n = 0 THEN WithSpines(topology, c)
            ELSE WithGroup(after[n - 1], c, c.rack_groups[n])
    IN  after[Len(c.rack_groups)]

Becomes(topology) == vertices' = topology.vertices /\ links' = topology.links

PopulatePod(c) ==
    /\ Len(calls) < MaxPods
    /\ Becomes(Populated(Graph, c))
    /\ calls' = Append(calls, c)
    /\ UNCHANGED azs

\* build_single_az and build_datacenter_mixed_gpus: a topology of one pod.
BuildPod(c) ==
    /\ Becomes(Populated(Empty, c))
    /\ calls' = <<c>>
    /\ azs' = 0

AzCalls(az_count) == [i \in 1..az_count |-> AzCall(i)]

\* Fault: every AZ is linked to the next.
BackboneChain(az_count) ==
    [e \in BothWays({<<Spine(i, 1), Spine(i + 1, 1)>> : i \in 1..(az_count - 1)}) |->
        Default["inter_pod"]]

\* The first spine of every AZ is linked to that of every other.
Backbone(az_count) ==
    [e \in BothWays({<<Spine(a[1], 1), Spine(a[2], 1)>> :
                        a \in {a \in (1..az_count) \X (1..az_count) : a[1] < a[2]}}) |->
        Default["inter_pod"]]

Pods(az_count) ==
    LET after[n \in 0..az_count] ==
            IF n = 0 THEN Empty ELSE Populated(after[n - 1], AzCall(n))
    IN  after[az_count]

BuildRegion(az_count) ==
    /\ LET pods == Pods(az_count)
       IN  Becomes([vertices |-> pods.vertices,
                    links    |-> AddAll(pods.links, Backbone(az_count))])
    /\ calls' = AzCalls(az_count)
    /\ azs' = az_count

Next ==
    \/ \E c \in PodCalls : PopulatePod(c)
    \/ \E c \in Samples : BuildPod(c)
    \/ \E az_count \in 0..MaxAzs : BuildRegion(az_count)

Spec == Init /\ [][Next]_vars

-----------------------------------------------------------------------------
(* Properties.                                                             *)

\* Every link has the one back under its own key, however often what it joins was
\* linked before: "Physical links are duplex by default" (topology.py:64-72).
LinksAreDuplex ==
    \A x \in DOMAIN links :
        /\ <<x[2], x[1], x[3]>> \in DOMAIN links
        /\ links[<<x[2], x[1], x[3]>>] = links[x]

\* Groups of one name in one pod have nodes of one size.
SizesAgree ==
    \A c, d \in Range(calls) : \A i \in DOMAIN c.rack_groups, j \in DOMAIN d.rack_groups :
        c.pod = d.pod /\ c.rack_groups[i].name = d.rack_groups[j].name
          => c.rack_groups[i].gpus_per_node = d.rack_groups[j].gpus_per_node

LinkedBy(link_type, e) == {x[2] : x \in {x \in edges_of_type(link_type) : x[1] = e}}

\* Containment, which placement reads from fields, is what the links say: a node is on
\* the PCIe link of every GPU that names it, and its leaf_id is the one leaf that it is
\* linked to.  Its gpu_ids are these GPUs in the order of their rails; of a node that was
\* added again with fewer, those that come after are left behind (builders.py:91-137).
BuiltForPlacement ==
    \A n \in OfKind("node") :
        LET ids == vertices[n].gpu_ids
            own == {g \in OfKind("gpu") : vertices[g].node_id = n}
        IN  /\ Range(ids) = {g \in own : vertices[g].rail_index < Len(ids)}
            /\ \A i \in DOMAIN ids : vertices[ids[i]].rail_index = i - 1
            /\ SizesAgree => Range(ids) = own
            /\ LinkedBy("pcie", n) = own
            /\ LinkedBy("leaf_uplink", n) = {vertices[n].leaf_id}

SpinesOver(leaf) == LinkedBy("spine_uplink", leaf)

\* One of the calls that the leaf comes from has a spine.
HasSpine(leaf) ==
    \E c \in Range(calls) : \E i \in DOMAIN c.rack_groups :
        leaf \in LeafIds(c, c.rack_groups[i]) /\ c.spine_count > 0

\* To share a spine, which placement takes for a shared pod, is to have one pod_id and
\* to have been added with a spine, each leaf by whatever call: never across pods, and
\* not within one whose call for a leaf had none (builders.py:53-88, allocation.py:197-217).
SharedSpineIsPod ==
    \A l, m \in OfKind("leaf") :
        SpinesOver(l) \cap SpinesOver(m) # {}
            <=> vertices[l].pod_id = vertices[m].pod_id /\ HasSpine(l) /\ HasSpine(m)

LeafOf(g) == vertices[vertices[g].node_id].leaf_id

PodOf(g) == vertices[LeafOf(g)].pod_id

\* How far containment puts two GPUs apart.
Tier(g, h) ==
    IF vertices[g].node_id = vertices[h].node_id THEN 1
    ELSE IF LeafOf(g) = LeafOf(h) THEN 2
    ELSE IF PodOf(g) = PodOf(h) THEN 3
    ELSE 4

AllDefault == \A c \in Range(calls) : c.metrics = Default

\* The figures of a best path are those of the tier: a NVLink hop on one node, only
\* the leaf on one leaf, "exactly one spine" in one pod, one backbone link between
\* AZs (tests/test_paths.py:22-54, tests/test_builders.py:63-71).
SpansItsTier ==
    LET view == SimpleView
    IN  AllDefault =>
            \A g, h \in OfKind("gpu") : \A weight \in {"latency", "hops"} :
                g # h =>
                    \A p \in ShortestPaths(view, g, h, weight) :
                        LET s == Summary(p)
                        IN  <<s.hop_count, s.distinct_leaf_switches, s.distinct_spine_switches,
                              s.spine_uplink_hops, s.inter_pod_hops>>
                              = <<<<1, 0, 0, 0, 0>>, <<4, 1, 0, 0, 0>>,
                                  <<6, 2, 1, 2, 0>>, <<7, 2, 2, 2, 1>>>>[Tier(g, h)]

\* GPUs that containment puts nearer have the lower latency: the preference for one
\* node, then one leaf, then one pod, that placement has, is what the paths of a
\* sample justify (builders.py:38-46, 250-261).
NearerIsQuicker ==
    LET view  == SimpleView
        times == [e \in GpuPairs |-> {PathWeight(view, p, "latency") :
                                        p \in ShortestPaths(view, e[1], e[2], "latency")}]
    IN  AllDefault =>
            \A e, d \in GpuPairs :
                Tier(e[1], e[2]) < Tier(d[1], d[2]) =>
                    \A t \in times[e], u \in times[d] : t < u

\* A GPU reaches the others of its leaf, over the link to its node "without which it
\* could only ever reach its NVLink siblings"; those of its pod and of its region as
\* well where both leaves have a spine; and no other (builders.py:53-137, 250-261).
AllAreJoined ==
    \A g, h \in OfKind("gpu") :
        HasPath(g, h)
            <=> \/ LeafOf(g) = LeafOf(h)
                \/ /\ HasSpine(LeafOf(g)) /\ HasSpine(LeafOf(h))
                   /\ PodOf(g) = PodOf(h) \/ {PodOf(g), PodOf(h)} \subseteq 1..azs
=============================================================================
