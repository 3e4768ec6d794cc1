--------------------------- MODULE MCSampleClusters ---------------------------
(***************************************************************************)
(* Two pods that are populated again and again, with groups of one name    *)
(* and of two sizes, with no spine and with two, and with links that are   *)
(* narrower and quicker than the default; regions of up to three AZs.      *)
(* Latencies are in halves of a microsecond.                               *)
(***************************************************************************)
EXTENDS SampleClusters, TLC

Metrics(bandwidth, latency) ==
    [t \in LinkTypes |-> [link_type |-> t, bandwidth_gbps |-> bandwidth[t], latency_us |-> latency[t]]]

Bandwidth == "nvlink" :> 900 @@ "inter_pod" :> 100 @@ [t \in LinkTypes |-> 400]

Latency ==
    "nvlink" :> 1 @@ "pcie" :> 2 @@ "spine_uplink" :> 2 @@ "leaf_uplink" :> 4
      @@ "inter_pod" :> 1000 @@ [t \in LinkTypes |-> 1]

MCDefault == Metrics(Bandwidth, Latency)

\* The keywords that lower the bandwidth and the latency of a node's links.
NarrowAndQuick == Metrics("leaf_uplink" :> 200 @@ "pcie" :> 200 @@ Bandwidth,
                       "leaf_uplink" :> 1 @@ "pcie" :> 1 @@ Latency)

Group(name, leaf_count, nodes_per_leaf, gpus_per_node) ==
    [name |-> name, leaf_count |-> leaf_count, nodes_per_leaf |-> nodes_per_leaf,
     gpus_per_node |-> gpus_per_node]

Small == [spine_count |-> 1, rack_groups |-> <<Group("b", 1, 2, 1)>>, metrics |-> MCDefault]

Mixed == [spine_count |-> 2, rack_groups |-> <<Group("a", 1, 1, 2), Group("b", 2, 1, 1)>>,
          metrics |-> MCDefault]

Quick == [spine_count |-> 0, rack_groups |-> <<Group("a", 1, 1, 1), Group("a", 1, 1, 1)>>,
         metrics |-> NarrowAndQuick]

MCPodCalls == {[pod |-> pod] @@ shape : pod \in {1, 2}, shape \in {Small, Mixed, Quick}}

MCSamples == {[pod |-> 1] @@ Small, [pod |-> 1] @@ Mixed}

MCAz == [spine_count |-> 2, rack_groups |-> <<Group("a", 1, 1, 1)>>]
=============================================================================
