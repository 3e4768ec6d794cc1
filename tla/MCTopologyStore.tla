--------------------------- MODULE MCTopologyStore ---------------------------
(***************************************************************************)
(* A GPU, its node and a rail switch, joined by links of which some are    *)
(* parallel: one has more bandwidth, the other less latency.  The GPU      *)
(* reaches the switch by its node and by a link of its own.                *)
(***************************************************************************)
EXTENDS TopologyStore

\* A node may be added before it has GPUs, and again with them.
MCData ==
    <<{[kind |-> "gpu", rail_index |-> 0]},
      {[kind |-> "node", gpu_ids |-> <<>>], [kind |-> "node", gpu_ids |-> <<1>>]},
      {[kind |-> "rail", pod_id |-> "p"]}>>

Metrics(link_type, bandwidth, latency) ==
    [link_type |-> link_type, bandwidth_gbps |-> bandwidth, latency_us |-> latency]

Call(u, v, metrics, back, key) ==
    [u |-> u, v |-> v, metrics |-> metrics, back |-> back, key |-> key]

\* The narrow link is quick and the wide one slow.  The narrow one has the key that
\* the wide one is given when it comes first, and replaces it then.
MCLinkCalls ==
    LET narrow == Metrics("pcie", 1, 1)
        wide   == Metrics("rail", 2, 4)
        down   == Metrics("rail", 2, 1)
        up     == Metrics("rail", 1, 2)
    IN  {Call(1, 2, narrow, NoLink, 0), Call(1, 2, wide, NoLink, NoKey),
         Call(2, 3, down, up, 0), Call(1, 3, wide, NoLink, 0)}
=============================================================================
