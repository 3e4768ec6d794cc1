-------------------------- MODULE AllocationLedger ---------------------------
(***************************************************************************)
(* engine/allocation.py and engine/deallocation.py: the ledger that grants *)
(* a whole gang of GPUs to a job or nothing, and takes it back.            *)
(*                                                                         *)
(* Every public call is one action: the library is single-threaded, and a  *)
(* call either returns with the ledger as the action leaves it or raises   *)
(* before its first assignment.  A call that returns None or raises leaves *)
(* every variable alone, which [Next]_vars allows; its condition is the    *)
(* negation of the guard of the action.                                    *)
(*                                                                         *)
(* gpu_ids, a tuple without repetition, is the function that maps every    *)
(* GPU of the gang to its index in the tuple: its collective rank.         *)
(* node_ids is the set of the gang's nodes and is not kept.                *)
(*                                                                         *)
(* A definition whose comment starts with "Fault:" is never used here: it  *)
(* is a plausible error in the definition that follows it, which the       *)
(* properties are tested against.                                          *)
(***************************************************************************)
EXTENDS ClusterTopology, Sequences

CONSTANTS
    Jobs,           \* job identifiers
    Requests,       \* the JobRequests a caller may submit
    QoSClasses,
    GracePeriods,   \* the grace periods a preemption may be given
    MaxTime,        \* bound: the last reading of the clock
    MaxGrants       \* bound: how many gangs are ever granted

Localities == {"same_leaf", "same_spine", "best_effort"}

Reasons == {"completed", "cancelled", "preempted", "manual"}

ShapeHint == [nodes: Nat, gpus_per_node: Nat]

JobRequest ==
    [job_id: Jobs, gpu_count: Nat, shape_hint: ShapeHint, gpu_model: Models,
     memory_per_gpu_gb: Nat, cpu_per_gpu: Nat, host_ram_gb: Nat,
     local_nvme_gb: Nat, locality_constraint: Localities, qos_class: QoSClasses]

IsRanking(ranks) == DOMAIN ranks \subseteq Gpus /\ ranks \in [DOMAIN ranks -> Nat]

IsAllocation(a) ==
    /\ a \in [gpu_ids: {a.gpu_ids}, allocated_at: Nat, qos_class: QoSClasses]
    /\ IsRanking(a.gpu_ids)

IsDeallocationRecord(r) ==
    /\ r \in [job_id: Jobs, gpu_ids: {r.gpu_ids}, reason: Reasons,
              qos_class: QoSClasses, allocated_at: Nat, released_at: Nat,
              held_duration_s: Nat, grace_period_s: GracePeriods]
    /\ IsRanking(r.gpu_ids)

ASSUME LedgerAssumption ==
    /\ IsFiniteSet(Jobs)
    /\ Requests \subseteq JobRequest
    /\ 0 \in GracePeriods
    /\ MaxTime \in Nat /\ MaxGrants \in Nat

VARIABLES
    gpu_to_job,     \* _gpu_to_job: the job of each GPU that is not free
    allocations,    \* _allocations: the allocation of each job that holds one
    history,        \* _history: the records of the gangs released so far
    now             \* what time.time() reads

ledgerVars == <<gpu_to_job, allocations, history>>
vars == <<health, gpu_to_job, allocations, history, now>>

\* Fault: a GPU is taken for free though a job holds it.
IsFreeUnchecked(g) == g \in Gpus

is_free(g) == g \notin DOMAIN gpu_to_job

Held == DOMAIN allocations

Gang(j) == DOMAIN allocations[j].gpu_ids

-----------------------------------------------------------------------------
(* The search of try_allocate.                                             *)

\* Fault: only a node that is down is avoided.
NodeMeetsJobUnlessDown(n, req) ==
    /\ health[n] # "down"
    /\ NodeData[n].host_ram_gb >= req.host_ram_gb
    /\ NodeData[n].local_nvme_gb >= req.local_nvme_gb
    /\ NodeData[n].cpu_count >= req.cpu_per_gpu * req.shape_hint.gpus_per_node

\* The node's totals, whatever other jobs already hold there.
NodeMeetsJob(n, req) ==
    /\ health[n] = "healthy"
    /\ NodeData[n].host_ram_gb >= req.host_ram_gb
    /\ NodeData[n].local_nvme_gb >= req.local_nvme_gb
    /\ NodeData[n].cpu_count >= req.cpu_per_gpu * req.shape_hint.gpus_per_node

FreeGpusOn(n, req) ==
    {g \in NodeData[n].gpu_ids :
        /\ NodeMeetsJob(n, req)
        /\ GpuData[g].model = req.gpu_model
        /\ GpuData[g].memory_gb >= req.memory_per_gpu_gb
        /\ is_free(g)}

\* Fault: any node with a free GPU is a candidate.
CandidateNodesWithAny(req) == {n \in Nodes : FreeGpusOn(n, req) # {}}

\* A node without a matching free GPU has no entry in free_by_node, so it is
\* no candidate even for a gang of no GPUs.
CandidateNodes(req) ==
    {n \in Nodes :
        /\ FreeGpusOn(n, req) # {}
        /\ Cardinality(FreeGpusOn(n, req)) >= req.shape_hint.gpus_per_node}

\* Fault: two nodes belong together when they have some spine in common.
NodeGroupsByAnySpine(candidates, locality) ==
    CASE locality = "same_leaf" ->
            {{m \in candidates : LeafOf(m) = LeafOf(n)} : n \in candidates}
      [] locality = "same_spine" ->
            {{m \in candidates : SpinesAbove(m) \cap SpinesAbove(n) # {}} : n \in candidates}
      [] OTHER -> {candidates}

\* The sets of nodes that the locality constraint lets a gang be drawn from.
NodeGroups(candidates, locality) ==
    CASE locality = "same_leaf" ->
            {{m \in candidates : LeafOf(m) = LeafOf(n)} : n \in candidates}
      [] locality = "same_spine" ->
            UNION {{{m \in candidates : s \in SpinesAbove(m)} : s \in SpinesAbove(n)}
                     : n \in candidates}
      [] OTHER -> {candidates}

\* A group enters its dict when its first member is met, in insertion order.
SeenNoLater(G, H) == \A m \in H : \E n \in G : AddedAt[n] <= AddedAt[m]

\* Fault: only the first group met is tried.
ChooseNodesInFirstGroup(candidates, k, locality) ==
    LET groups == NodeGroups(candidates, locality)
        first  == {G \in groups : \A H \in groups : SeenNoLater(G, H)}
    IN  {Smallest(k, G, IdOrder) : G \in {G \in first : Cardinality(G) >= k}}

\* Every outcome of _choose_nodes, none when no group is large enough.  There
\* are several where a node meets several spines at once: the iteration order
\* of a set of strings changes from one process to the next.
ChooseNodes(candidates, k, locality) ==
    LET enough == {G \in NodeGroups(candidates, locality) : Cardinality(G) >= k}
        first  == {G \in enough : \A H \in enough : SeenNoLater(G, H)}
    IN  {Smallest(k, G, IdOrder) : G \in first}

\* free_by_node[n][:gpus_per_node]
TakenOn(n, req) ==
    Smallest(req.shape_hint.gpus_per_node, FreeGpusOn(n, req), RailOrder)

\* Fault: ranks go round the nodes, one rail after another.
RankedGangByRail(chosen, req) ==
    [g \in UNION {TakenOn(n, req) : n \in chosen} |->
        Cardinality(chosen) * Position(g, TakenOn(NodeOf(g), req), RailOrder)
          + Position(NodeOf(g), chosen, IdOrder)]

\* The tuple gpu_ids: node after node in the order chosen, on each by rail.
RankedGang(chosen, req) ==
    [g \in UNION {TakenOn(n, req) : n \in chosen} |->
        req.shape_hint.gpus_per_node * Position(NodeOf(g), chosen, IdOrder)
          + Position(g, TakenOn(NodeOf(g), req), RailOrder)]

ShapeMultipliesOut(req) ==
    req.shape_hint.nodes * req.shape_hint.gpus_per_node = req.gpu_count

\* Every outcome of _select_gpus, none when it returns None or raises.
SelectGpus(req) ==
    IF ShapeMultipliesOut(req)
    THEN {RankedGang(chosen, req) :
            chosen \in ChooseNodes(CandidateNodes(req), req.shape_hint.nodes,
                                   req.locality_constraint)}
    ELSE {}

-----------------------------------------------------------------------------
(* The operations.                                                         *)

Init ==
    /\ TopologyInit
    /\ gpu_to_job = <<>>
    /\ allocations = <<>>
    /\ history = <<>>
    /\ now = 0

GrantsSoFar == Len(history) + Cardinality(Held)

\* Fault: a job that holds a gang may be granted another.
HoldsNothingUnchecked(j) == j \in Jobs

HoldsNothing(j) == j \notin Held

TryAllocate(req) ==
    /\ GrantsSoFar < MaxGrants
    /\ HoldsNothing(req.job_id)
    /\ \E gpu_ids \in SelectGpus(req) :
          /\ gpu_to_job' = [g \in DOMAIN gpu_to_job \cup DOMAIN gpu_ids |->
                IF g \in DOMAIN gpu_ids THEN req.job_id ELSE gpu_to_job[g]]
          /\ allocations' = [j \in Held \cup {req.job_id} |->
                IF j = req.job_id
                THEN [gpu_ids |-> gpu_ids, allocated_at |-> now,
                      qos_class |-> req.qos_class]
                ELSE allocations[j]]
    /\ UNCHANGED <<health, history, now>>

\* Fault: the last rank of the gang is never unmarked.
MarkedAfterReleaseOfAllButLast(j) ==
    DOMAIN gpu_to_job
      \ {g \in Gang(j) : allocations[j].gpu_ids[g] + 1 < Cardinality(Gang(j))}

MarkedAfterRelease(j) == DOMAIN gpu_to_job \ Gang(j)

\* Fault: the operands are swapped.
HeldDurationSwapped(j) == allocations[j].allocated_at - now

HeldDuration(j) == now - allocations[j].allocated_at

Release(j, reason, grace) ==
    /\ j \in Held
    /\ gpu_to_job' = [g \in MarkedAfterRelease(j) |-> gpu_to_job[g]]
    /\ allocations' = [k \in Held \ {j} |-> allocations[k]]
    /\ history' = Append(history,
          [job_id |-> j,
           gpu_ids |-> allocations[j].gpu_ids,
           reason |-> reason,
           qos_class |-> allocations[j].qos_class,
           allocated_at |-> allocations[j].allocated_at,
           released_at |-> now,
           held_duration_s |-> HeldDuration(j),
           grace_period_s |-> grace])
    /\ UNCHANGED <<health, now>>

CompleteJob(j) == Release(j, "completed", 0)

CancelJob(j) == Release(j, "cancelled", 0)

PreemptJob(j, grace) == Release(j, "preempted", grace)

ReleaseOnDemand(j) == Release(j, "manual", 0)

\* A node is re-added with another health, whatever the ledger holds there.
SetHealth(n, h) ==
    /\ h # health[n]
    /\ AddNode(n, h)
    /\ UNCHANGED <<ledgerVars, now>>

\* Timestamps come from one clock: time.time(), or a caller that passes the
\* readings of one of its own.
Tick ==
    /\ now < MaxTime
    /\ now' = now + 1
    /\ UNCHANGED <<health, ledgerVars>>

Next ==
    \/ \E req \in Requests : TryAllocate(req)
    \/ \E j \in Jobs : CompleteJob(j)
    \/ \E j \in Jobs : CancelJob(j)
    \/ \E j \in Jobs, grace \in GracePeriods : PreemptJob(j, grace)
    \/ \E j \in Jobs : ReleaseOnDemand(j)
    \/ \E n \in Nodes, h \in NodeHealth : SetHealth(n, h)
    \/ Tick

Spec == Init /\ [][Next]_vars

-----------------------------------------------------------------------------
(* Properties.                                                             *)

Records == {history[i] : i \in 1..Len(history)}

\* Every variable has its type; no held gang was granted in the future, which
\* is what keeps a record's held_duration_s from being negative.
TypeOK ==
    /\ TopologyTypeOK
    /\ DOMAIN gpu_to_job \subseteq Gpus
    /\ gpu_to_job \in [DOMAIN gpu_to_job -> Jobs]
    /\ Held \subseteq Jobs
    /\ \A j \in Held : IsAllocation(allocations[j]) /\ allocations[j].allocated_at <= now
    /\ history \in Seq(Records) /\ \A r \in Records : IsDeallocationRecord(r)
    /\ now \in Nat

\* The two dicts of the ledger agree: a GPU is marked with a job exactly when
\* that job holds an allocation whose tuple names the GPU.  So no GPU serves
\* two gangs, no gang is held in part, none leaks when its job is gone, and the
\* del of release never meets a missing key (allocation.py:69-71, 88-92).
LedgerConsistent ==
    \A g \in Gpus, j \in Jobs :
        (~is_free(g) /\ gpu_to_job[g] = j) <=> (j \in Held /\ g \in Gang(j))

NodesOf(S) == {NodeOf(g) : g \in S}

HasShape(S, req) ==
    /\ Cardinality(S) = req.gpu_count
    /\ Cardinality(NodesOf(S)) = IF S = {} THEN 0 ELSE req.shape_hint.nodes
    /\ \A n \in NodesOf(S) :
          Cardinality(S \cap GpusOf(n)) = req.shape_hint.gpus_per_node

HasLocality(S, req) ==
    /\ req.locality_constraint = "same_leaf" =>
          \A n, m \in NodesOf(S) : LeafOf(n) = LeafOf(m)
    /\ req.locality_constraint = "same_spine" =>
          S = {} \/ \E s \in Spines : \A n \in NodesOf(S) : s \in SpinesAbove(n)

FitsHardware(S, req) ==
    \A g \in S :
        /\ GpuData[g].model = req.gpu_model
        /\ GpuData[g].memory_gb >= req.memory_per_gpu_gb

\* All or nothing (allocation.py:1-3): whatever other jobs came and went and
\* whichever group of nodes was met first, a held gang has every GPU that one
\* request of its job asked for, of the kind and in the shape it asked for.
GangServesRequest ==
    \A j \in Held : \E req \in Requests :
        /\ req.job_id = j /\ req.qos_class = allocations[j].qos_class
        /\ HasShape(Gang(j), req)
        /\ FitsHardware(Gang(j), req)

\* The nodes of a gang meet the locality constraint of the job's request, under
\* a common leaf or a common spine (allocation.py:187-206).
LocalityHonoured ==
    \A j \in Held : \E req \in Requests :
        req.job_id = j /\ HasLocality(Gang(j), req)

\* models/allocation.py:7-16: ranks number the gang from 0 so that a ring over
\* them stays on a node as long as possible.  The ring leaves a node only as
\* often as the gang has nodes, and on a node it follows the rails.
RingStaysOnNode ==
    \A j \in Held :
        LET rank  == allocations[j].gpu_ids
            n     == Cardinality(Gang(j))
            hops  == {g \in Gang(j) : \E h \in Gang(j) :
                        /\ rank[h] = (rank[g] + 1) % n
                        /\ NodeOf(h) # NodeOf(g)}
        IN  /\ {rank[g] : g \in Gang(j)} = 0..(n - 1)
            /\ Cardinality(hops) <= Cardinality(NodesOf(Gang(j)))
            /\ \A g, h \in Gang(j) :
                  NodeOf(g) = NodeOf(h) =>
                    (rank[g] < rank[h] <=> RailOrder[g] < RailOrder[h])

\* The GPUs that may serve req now.
Eligible(req) == UNION {FreeGpusOn(n, req) : n \in Nodes}

Feasible(req) ==
    \E S \in SUBSET Eligible(req) : HasShape(S, req) /\ HasLocality(S, req)

\* The greedy search answers "can the gang fit" (allocation.py:12-13) exactly:
\* try_allocate finds a gang when, and only when, some set of free GPUs on
\* healthy nodes has the shape and the locality asked for.  The walk over the
\* groups never stops at one that is too small when a later one would do.
SearchIsComplete ==
    \A req \in Requests :
        req.gpu_count > 0 => (SelectGpus(req) # {} <=> Feasible(req))

\* A node that is not healthy drains: the jobs on it may go, but no step gives
\* one of its GPUs to a job (allocation.py:170), so it becomes empty once its
\* jobs are released and is not filled again behind the operator's back.
DrainOnlyShrinks ==
    [][\A n \in Nodes : health[n] # "healthy" =>
          \A g \in GpusOf(n) : ~is_free(g)' =>
              ~is_free(g) /\ gpu_to_job'[g] = gpu_to_job[g]]_vars

\* No GPU is billed twice for the same time.  Two tenures of a GPU, both in the
\* history or one of them still running, never overlap: the earlier was released
\* no later than the other was granted (allocation.py:60, 95-106).
TenuresDisjoint ==
    /\ \A i, k \in 1..Len(history) :
          /\ i < k
          /\ DOMAIN history[i].gpu_ids \cap DOMAIN history[k].gpu_ids # {}
          => history[i].released_at <= history[k].allocated_at
    /\ \A r \in Records, j \in Held :
          DOMAIN r.gpu_ids \cap Gang(j) # {}
          => r.released_at <= allocations[j].allocated_at

Reservation == INSTANCE GangReservation WITH
    offered <- {g \in Gpus : health[NodeOf(g)] = "healthy"},
    running <- Held,
    gang    <- [j \in Jobs |-> {g \in Gpus : ~is_free(g) /\ gpu_to_job[g] = j}]

\* Read through its two dicts, the ledger does what GangReservation promises:
\* each call grants or gives back one whole gang in one step, out of GPUs that
\* are in service and free.
ImplementsReservation == Reservation!Spec
=============================================================================
