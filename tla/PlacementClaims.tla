--------------------------- MODULE PlacementClaims ---------------------------
(***************************************************************************)
(* What comments of engine/allocation.py say of the placement it chooses,  *)
(* where the search does something else.                                   *)
(***************************************************************************)
EXTENDS AllocationLedger, FiniteSetsExt

CpuPerGpu(j) == (CHOOSE req \in Requests : req.job_id = j).cpu_per_gpu

\* "on nodes healthy enough and roomy enough for the job" (allocation.py:143-144):
\* the jobs on a node together ask for no more CPUs than the node has.
NodesAreRoomy ==
    \A n \in Nodes :
        MapThenSumSet(LAMBDA g : CpuPerGpu(gpu_to_job[g]),
                      {g \in GpusOf(n) : ~is_free(g)}) <= NodeData[n].cpu_count
=============================================================================
