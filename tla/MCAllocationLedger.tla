------------------------- MODULE MCAllocationLedger --------------------------
(***************************************************************************)
(* Four nodes under three leaves and two spines: nodes 1 and 4 under leaf  *)
(* "a", node 2 under "b" and node 3, of one GPU, under "c".  Node 2 was    *)
(* added first, so the group that is met first under same_leaf is too      *)
(* small for a gang of two nodes, and insertion order differs from the     *)
(* order of identifiers.  Leaf "a" reaches both spines, "b" and "c" one    *)
(* each: a same-spine gang may be drawn from two groups, and nodes 2 and 3 *)
(* share no spine though both share one with node 4.  GPU 31 has less      *)
(* memory, node 4 fewer CPUs.  GPU 32 was left behind: it names node 3,    *)
(* which does not list it.                                                 *)
(***************************************************************************)
EXTENDS PlacementClaims

MCGpus == {11, 12, 21, 22, 31, 32, 41, 42}

MCNodeData ==
    [n \in 1..4 |->
        [leaf_id |-> CASE n = 2 -> "b" [] n = 3 -> "c" [] OTHER -> "a",
         gpu_ids |-> {g \in MCGpus : g \div 10 = n /\ g # 32},
         cpu_count |-> IF n = 4 THEN 2 ELSE 4,
         host_ram_gb |-> 2, local_nvme_gb |-> 2]]

MCGpuData ==
    [g \in MCGpus |->
        [node_id |-> g \div 10, rail_index |-> g % 10, model |-> "H100",
         memory_gb |-> IF g = 31 THEN 1 ELSE 2]]

MCSpineUplinks == {<<"a", "s1">>, <<"a", "s2">>, <<"b", "s2">>, <<"c", "s1">>}

MCAddedAt == [n \in 1..4 |-> IF n = 2 THEN 0 ELSE n]

Request(j, nodes, gpn, mem, cpu, locality) ==
    [job_id |-> j, gpu_count |-> nodes * gpn,
     shape_hint |-> [nodes |-> nodes, gpus_per_node |-> gpn],
     gpu_model |-> "H100", memory_per_gpu_gb |-> mem, cpu_per_gpu |-> cpu,
     host_ram_gb |-> 1, local_nvme_gb |-> 1,
     locality_constraint |-> locality, qos_class |-> "batch"]

\* One request for each job, so that a held gang tells which request it serves:
\* two whole nodes of one leaf, a pair of GPUs under one spine, a pair anywhere
\* that needs most of a node's CPUs, and a single GPU that fragments a node.
MCLeaf  == Request("leaf", 2, 2, 1, 1, "same_leaf")
MCSpine == Request("spine", 2, 1, 1, 1, "same_spine")
MCAny   == Request("any", 2, 1, 2, 3, "best_effort")
MCOne   == Request("one", 1, 1, 1, 1, "best_effort")

\* A shape_hint that does not multiply out to gpu_count is refused.
MCBadShape == [MCAny EXCEPT !.gpu_count = 3]

\* Gangs of no GPUs: of no nodes, and of nodes that give none.
MCNone == {Request("none", 0, 2, 1, 1, "same_spine"), Request("none", 1, 0, 1, 1, "best_effort")}

MCPlacementRequests == {MCLeaf, MCSpine, MCAny, MCOne, MCBadShape} \cup MCNone

\* Two pairs that each need three of a node's four CPUs.
MCPairRequests == {[MCSpine EXCEPT !.cpu_per_gpu = 3], MCAny}

\* What the actions and the properties of placement depend on: of the records
\* only how many there are, of the times only the clock.
MCPlacementView ==
    <<health, gpu_to_job,
      [j \in Held |-> <<allocations[j].gpu_ids, allocations[j].qos_class>>],
      Len(history), now>>
=============================================================================
