------------------------------ MODULE MCJobRisk ------------------------------
(***************************************************************************)
(* Two nodes with three GPUs, under one spine, for two jobs over time.     *)
(***************************************************************************)
EXTENDS JobRisk

MCGpus == {11, 12, 21}

MCNodeData ==
    [n \in 1..2 |->
        [leaf_id |-> IF n = 1 THEN "a" ELSE "b",
         gpu_ids |-> {g \in MCGpus : g \div 10 = n}, cpu_count |-> 2,
         host_ram_gb |-> 1, local_nvme_gb |-> 1]]

MCGpuData ==
    [g \in MCGpus |->
        [node_id |-> g \div 10, rail_index |-> g % 10, model |-> "H100", memory_gb |-> 1]]

MCAddedAt == [n \in 1..2 |-> n]

MCSpineUplinks == {<<"a", "s">>, <<"b", "s">>}

Request(j, nodes, gpn, locality, qos_class) ==
    [job_id |-> j, gpu_count |-> nodes * gpn,
     shape_hint |-> [nodes |-> nodes, gpus_per_node |-> gpn],
     gpu_model |-> "H100", memory_per_gpu_gb |-> 1, cpu_per_gpu |-> 1,
     host_ram_gb |-> 1, local_nvme_gb |-> 1,
     locality_constraint |-> locality, qos_class |-> qos_class]

\* A pair across the nodes, a single GPU, and a gang of none that is of another
\* class.
MCRequests ==
    {Request("pair", 2, 1, "same_spine", "batch"),
     Request("single", 1, 1, "best_effort", "batch"),
     Request("single", 0, 2, "best_effort", "production")}

\* Everything but which of the other reasons a gang was released for that was not
\* preempted: no action and no property looks further.
MCRiskView ==
    <<health, gpu_to_job, allocations, now, checkpoints, checkpoint_history,
      [i \in 1..Len(history) |-> [history[i] EXCEPT !.reason = @ = "preempted"]]>>
=============================================================================
