------------------------ MODULE AllocationLedgerProofs ------------------------
(***************************************************************************)
(* What holds of the allocation ledger on every cluster and for every set  *)
(* of requests.                                                            *)
(***************************************************************************)
EXTENDS AllocationLedger, FiniteSetTheorems, TLAPS

-----------------------------------------------------------------------------
(* The search.                                                             *)

\* The rank of an element in a finite set is a natural number (the index that
\* sorted() and list.sort give it).
LEMMA PositionIsNat ==
    ASSUME NEW S, IsFiniteSet(S), NEW x, NEW key
    PROVE  Position(x, S, key) \in Nat
<1>. DEFINE before == {y \in S : key[y] < key[x]}
<1>1. IsFiniteSet(before)
    BY FS_Subset
<1>. QED
    BY <1>1, FS_CardinalityType DEF Position

\* Whatever the locality, the nodes chosen are candidates of the request
\* (allocation.py:181-210).
LEMMA ChosenAreCandidates ==
    ASSUME NEW candidates, NEW k, NEW locality,
           NEW chosen \in ChooseNodes(candidates, k, locality)
    PROVE  chosen \subseteq candidates
<1>1. \A G \in NodeGroups(candidates, locality) : G \subseteq candidates
  <2>1. CASE locality = "same_leaf"
      BY <2>1 DEF NodeGroups
  <2>2. CASE locality = "same_spine"
      BY <2>2 DEF NodeGroups
  <2>3. CASE locality \notin {"same_leaf", "same_spine"}
      BY <2>3 DEF NodeGroups
  <2>. QED
      BY <2>1, <2>2, <2>3
<1>2. PICK G \in NodeGroups(candidates, locality) : chosen = Smallest(k, G, IdOrder)
    BY DEF ChooseNodes
<1>. QED
    BY <1>1, <1>2 DEF Smallest

\* A GPU that may serve a request names the node that listed it (allocation.py:153-155).
LEMMA FreeNameTheNode ==
    ASSUME NEW n \in Nodes, NEW req
    PROVE  FreeGpusOn(n, req) \subseteq GpusOf(n)
<1>1. NodeData[n].gpu_ids \subseteq Gpus
    BY DataAssumption DEF DataAssumption, Node
<1>. QED
    BY <1>1, ListingAssumption DEF ListingAssumption, FreeGpusOn, GpusOf, NodeOf

\* Every GPU that the search selects is free, on a healthy node, and has a rank
\* (allocation.py:121-165).
LEMMA SelectedAreFree ==
    ASSUME NEW req \in Requests, NEW gpu_ids \in SelectGpus(req)
    PROVE  /\ IsRanking(gpu_ids)
           /\ \A g \in DOMAIN gpu_ids : is_free(g) /\ health[NodeOf(g)] = "healthy"
<1>. DEFINE k == req.shape_hint.gpus_per_node
<1>1. req \in JobRequest /\ k \in Nat
    BY LedgerAssumption DEF LedgerAssumption, JobRequest, ShapeHint
<1>2. PICK chosen \in ChooseNodes(CandidateNodes(req), req.shape_hint.nodes,
                                  req.locality_constraint) :
          gpu_ids = RankedGang(chosen, req)
    BY DEF SelectGpus
<1>3. chosen \subseteq Nodes /\ IsFiniteSet(chosen)
  <2>1. chosen \subseteq Nodes
      BY <1>2, ChosenAreCandidates DEF CandidateNodes
  <2>. QED
      BY <2>1, IdsAssumption, FS_Subset DEF IdsAssumption
<1>4. DOMAIN gpu_ids = UNION {TakenOn(n, req) : n \in chosen}
    BY <1>2 DEF RankedGang
<1>5. \A n \in chosen : TakenOn(n, req) \subseteq FreeGpusOn(n, req)
    BY DEF TakenOn, Smallest
<1>6. \A n \in chosen : \A g \in FreeGpusOn(n, req) :
          g \in Gpus /\ NodeOf(g) = n /\ is_free(g) /\ health[n] = "healthy"
  <2>1. \A n \in chosen : FreeGpusOn(n, req) \subseteq GpusOf(n)
      BY <1>3, FreeNameTheNode
  <2>. QED
      BY <2>1 DEF FreeGpusOn, GpusOf, NodeMeetsJob
<1>7. ASSUME NEW g \in DOMAIN gpu_ids
      PROVE  gpu_ids[g] \in Nat
  <2>1. Position(NodeOf(g), chosen, IdOrder) \in Nat
      BY <1>3, PositionIsNat
  <2>2. IsFiniteSet(TakenOn(NodeOf(g), req))
    <3>1. TakenOn(NodeOf(g), req) \subseteq Gpus
        BY <1>4, <1>5, <1>6
    <3>. QED
        BY <3>1, IdsAssumption, FS_Subset DEF IdsAssumption
  <2>3. Position(g, TakenOn(NodeOf(g), req), RailOrder) \in Nat
      BY <2>2, PositionIsNat
  <2>4. gpu_ids[g] = k * Position(NodeOf(g), chosen, IdOrder)
                       + Position(g, TakenOn(NodeOf(g), req), RailOrder)
      BY <1>2 DEF RankedGang
  <2>. QED
      BY <1>1, <2>1, <2>3, <2>4
<1>8. gpu_ids = [g \in DOMAIN gpu_ids |-> gpu_ids[g]]
    BY <1>2 DEF RankedGang
<1>. QED
    BY <1>4, <1>5, <1>6, <1>7, <1>8 DEF IsRanking

-----------------------------------------------------------------------------
(* Type correctness.                                                       *)

\* Next, seen as three kinds of step on the ledger: a grant, a release, and
\* whatever leaves the ledger alone.
LEMMA StepKinds ==
    ASSUME [Next]_vars
    PROVE  \/ \E req \in Requests : TryAllocate(req)
           \/ \E j \in Jobs, reason \in Reasons, grace \in GracePeriods :
                 Release(j, reason, grace)
           \/ \E n \in Nodes, h \in NodeHealth : SetHealth(n, h)
           \/ Tick
           \/ UNCHANGED vars
<1>1. ASSUME NEW j \in Jobs, CompleteJob(j) \/ CancelJob(j) \/ ReleaseOnDemand(j)
      PROVE  \E reason \in Reasons, grace \in GracePeriods : Release(j, reason, grace)
    BY <1>1, LedgerAssumption
       DEF CompleteJob, CancelJob, ReleaseOnDemand, Reasons, LedgerAssumption
<1>2. ASSUME NEW j \in Jobs, NEW grace \in GracePeriods, PreemptJob(j, grace)
      PROVE  \E reason \in Reasons : Release(j, reason, grace)
    BY <1>2 DEF PreemptJob, Reasons
<1>. QED
    BY <1>1, <1>2 DEF Next

\* A grant keeps the types (allocation.py:47-72).
LEMMA TryAllocateType ==
    ASSUME TypeOK, NEW req \in Requests, TryAllocate(req)
    PROVE  TypeOK'
<1>1. PICK gpu_ids \in SelectGpus(req) :
        /\ gpu_to_job' = [g \in DOMAIN gpu_to_job \cup DOMAIN gpu_ids |->
              IF g \in DOMAIN gpu_ids THEN req.job_id ELSE gpu_to_job[g]]
        /\ allocations' = [j \in Held \cup {req.job_id} |->
              IF j = req.job_id
              THEN [gpu_ids |-> gpu_ids, allocated_at |-> now,
                    qos_class |-> req.qos_class]
              ELSE allocations[j]]
    BY DEF TryAllocate
<1>2. IsRanking(gpu_ids)
    BY SelectedAreFree
<1>3. req.job_id \in Jobs /\ req.qos_class \in QoSClasses
    BY LedgerAssumption DEF LedgerAssumption, JobRequest
<1>4. UNCHANGED <<health, history, now>>
    BY DEF TryAllocate
<1>5. /\ DOMAIN gpu_to_job' \subseteq Gpus
      /\ gpu_to_job' \in [DOMAIN gpu_to_job' -> Jobs]
    BY <1>1, <1>2, <1>3 DEF TypeOK, IsRanking
<1>6. Held' = Held \cup {req.job_id}
    BY <1>1 DEF Held
<1>7. ASSUME NEW j \in Held'
      PROVE  IsAllocation(allocations'[j]) /\ allocations'[j].allocated_at <= now'
  <2>1. CASE j = req.job_id
      BY <1>1, <1>2, <1>3, <1>4, <1>6, <2>1 DEF IsAllocation, TypeOK
  <2>2. CASE j # req.job_id
      BY <1>1, <1>4, <1>6, <1>7, <2>2 DEF TypeOK
  <2>. QED
      BY <2>1, <2>2
<1>8. TopologyTypeOK'
    BY <1>4 DEF TypeOK, TopologyTypeOK
<1>. QED
    BY <1>3, <1>4, <1>5, <1>6, <1>7, <1>8 DEF TypeOK, Records

\* A release keeps the types: the time held is not negative (allocation.py:103).
LEMMA ReleaseType ==
    ASSUME TypeOK, NEW j \in Jobs, NEW reason \in Reasons,
           NEW grace \in GracePeriods, Release(j, reason, grace)
    PROVE  TypeOK'
<1>. DEFINE a == allocations[j]
            record == [job_id |-> j, gpu_ids |-> a.gpu_ids, reason |-> reason,
                       qos_class |-> a.qos_class, allocated_at |-> a.allocated_at,
                       released_at |-> now, held_duration_s |-> now - a.allocated_at,
                       grace_period_s |-> grace]
<1>1. /\ j \in Held
      /\ gpu_to_job' = [g \in DOMAIN gpu_to_job \ Gang(j) |-> gpu_to_job[g]]
      /\ allocations' = [k \in Held \ {j} |-> allocations[k]]
      /\ history' = Append(history, record)
      /\ UNCHANGED <<health, now>>
    BY DEF Release, MarkedAfterRelease, HeldDuration
<1>2. /\ IsRanking(a.gpu_ids)
      /\ a.qos_class \in QoSClasses
      /\ a.allocated_at \in Nat
      /\ now - a.allocated_at \in Nat
    BY <1>1 DEF TypeOK, IsAllocation
<1>3. IsDeallocationRecord(record)
    BY <1>1, <1>2 DEF IsDeallocationRecord, TypeOK
<1>4. history' \in Seq(Records') /\ \A r \in Records' : IsDeallocationRecord(r)
  <2>1. history \in Seq(Records \cup {record})
      BY DEF TypeOK
  <2>2. /\ Len(history') = Len(history) + 1
        /\ \A i \in 1..Len(history) : history'[i] = history[i]
        /\ history'[Len(history) + 1] = record
      BY <1>1, <2>1
  <2>3. Len(history) \in Nat
      BY <2>1
  <2>4. Records' = Records \cup {record}
      BY <2>2, <2>3 DEF Records
  <2>5. history' \in Seq(Records \cup {record})
      BY <1>1, <2>1
  <2>. QED
      BY <1>3, <2>4, <2>5 DEF TypeOK
<1>. QED
    BY <1>1, <1>4 DEF TypeOK, TopologyTypeOK, Held

\* TypeOK holds in every reachable state, for every cluster and set of requests.
THEOREM TypeCorrect == Spec => []TypeOK
<1>1. Init => TypeOK
  <2>. SUFFICES ASSUME Init
                PROVE  TypeOK
      OBVIOUS
  <2>1. history \in Seq(Records) /\ Records = {}
      BY DEF Init, Records
  <2>. QED
      BY <2>1 DEF Init, TypeOK, TopologyInit, TopologyTypeOK, Held
<1>2. TypeOK /\ [Next]_vars => TypeOK'
  <2>. SUFFICES ASSUME TypeOK, [Next]_vars
                PROVE  TypeOK'
      OBVIOUS
  <2>1. ASSUME NEW req \in Requests, TryAllocate(req)
        PROVE  TypeOK'
      BY <2>1, TryAllocateType
  <2>2. ASSUME NEW j \in Jobs, NEW reason \in Reasons, NEW grace \in GracePeriods,
               Release(j, reason, grace)
        PROVE  TypeOK'
      BY <2>2, ReleaseType
  <2>3. ASSUME NEW n \in Nodes, NEW h \in NodeHealth, SetHealth(n, h)
        PROVE  TypeOK'
      BY <2>3 DEF SetHealth, AddNode, ledgerVars, TypeOK, TopologyTypeOK, Held, Records
  <2>4. ASSUME Tick
        PROVE  TypeOK'
    <3>1. \A j \in Held : allocations[j].allocated_at \in Nat
        BY DEF TypeOK, IsAllocation
    <3>. QED
        BY <2>4, <3>1 DEF Tick, ledgerVars, TypeOK, TopologyTypeOK, Held, Records
  <2>5. ASSUME UNCHANGED vars
        PROVE  TypeOK'
      BY <2>5 DEF vars, TypeOK, TopologyTypeOK, Held, Records
  <2>. QED
      BY <2>1, <2>2, <2>3, <2>4, <2>5, StepKinds
<1>. QED
    BY <1>1, <1>2, PTL DEF Spec

-----------------------------------------------------------------------------
(* The two dicts agree.                                                    *)

\* A step of the ledger keeps its two dicts in agreement.  A grant only marks
\* GPUs that were free, so it takes none from another gang; a release unmarks
\* the gang's GPUs, and no other gang has any of them.
LEMMA ConsistencyStep ==
    ASSUME TypeOK, LedgerConsistent, [Next]_vars
    PROVE  LedgerConsistent'
<1>1. ASSUME NEW req \in Requests, TryAllocate(req)
      PROVE  LedgerConsistent'
  <2>1. PICK gpu_ids \in SelectGpus(req) :
          /\ gpu_to_job' = [g \in DOMAIN gpu_to_job \cup DOMAIN gpu_ids |->
                IF g \in DOMAIN gpu_ids THEN req.job_id ELSE gpu_to_job[g]]
          /\ allocations' = [j \in Held \cup {req.job_id} |->
                IF j = req.job_id
                THEN [gpu_ids |-> gpu_ids, allocated_at |-> now,
                      qos_class |-> req.qos_class]
                ELSE allocations[j]]
      BY <1>1 DEF TryAllocate
  <2>2. \A g \in DOMAIN gpu_ids : is_free(g)
      BY SelectedAreFree
  <2>3. req.job_id \notin Held
      BY <1>1 DEF TryAllocate, HoldsNothing
  <2>4. /\ Held' = Held \cup {req.job_id}
        /\ \A j \in Held' : Gang(j)' = IF j = req.job_id THEN DOMAIN gpu_ids ELSE Gang(j)
        /\ \A g : ~is_free(g)' <=> ~is_free(g) \/ g \in DOMAIN gpu_ids
      BY <2>1 DEF Held, Gang, is_free
  <2>5. ASSUME NEW g \in Gpus, NEW j \in Jobs
        PROVE  (~is_free(g)' /\ gpu_to_job'[g] = j) <=> (j \in Held' /\ g \in Gang(j)')
    <3>1. CASE g \in DOMAIN gpu_ids
      <4>1. ~is_free(g)' /\ gpu_to_job'[g] = req.job_id
          BY <2>1, <2>4, <3>1
      <4>2. \A k \in Held : g \notin Gang(k)
          BY <2>2, <3>1 DEF LedgerConsistent, TypeOK
      <4>. QED
          BY <2>4, <3>1, <4>1, <4>2
    <3>2. CASE g \notin DOMAIN gpu_ids
      <4>1. ~is_free(g)' /\ gpu_to_job'[g] = j <=> ~is_free(g) /\ gpu_to_job[g] = j
          BY <2>1, <2>4, <3>2 DEF is_free
      <4>2. j \in Held' /\ g \in Gang(j)' <=> j \in Held /\ g \in Gang(j)
          BY <2>3, <2>4, <3>2
      <4>. QED
          BY <4>1, <4>2 DEF LedgerConsistent
    <3>. QED
        BY <3>1, <3>2
  <2>. QED
      BY <2>5 DEF LedgerConsistent
<1>2. ASSUME NEW j \in Jobs, NEW reason \in Reasons, NEW grace \in GracePeriods,
             Release(j, reason, grace)
      PROVE  LedgerConsistent'
  <2>1. /\ j \in Held
        /\ gpu_to_job' = [g \in DOMAIN gpu_to_job \ Gang(j) |-> gpu_to_job[g]]
        /\ allocations' = [k \in Held \ {j} |-> allocations[k]]
      BY <1>2 DEF Release, MarkedAfterRelease
  <2>2. /\ Held' = Held \ {j}
        /\ \A k \in Held' : Gang(k)' = Gang(k)
        /\ \A g : ~is_free(g)' <=> ~is_free(g) /\ g \notin Gang(j)
      BY <2>1 DEF Held, Gang, is_free
  <2>3. ASSUME NEW g \in Gpus, NEW k \in Jobs
        PROVE  (~is_free(g)' /\ gpu_to_job'[g] = k) <=> (k \in Held' /\ g \in Gang(k)')
    <3>1. g \in Gang(j) => ~is_free(g) /\ gpu_to_job[g] = j
        BY <2>1 DEF LedgerConsistent
    <3>2. g \notin Gang(j) => (~is_free(g)' <=> ~is_free(g))
                              /\ (~is_free(g) => gpu_to_job'[g] = gpu_to_job[g])
        BY <2>1, <2>2 DEF is_free
    <3>3. (~is_free(g) /\ gpu_to_job[g] = k) <=> (k \in Held /\ g \in Gang(k))
        BY DEF LedgerConsistent
    <3>. QED
        BY <2>1, <2>2, <3>1, <3>2, <3>3
  <2>. QED
      BY <2>3 DEF LedgerConsistent
<1>3. ASSUME UNCHANGED ledgerVars
      PROVE  LedgerConsistent'
    BY <1>3 DEF ledgerVars, LedgerConsistent, is_free, Held, Gang
<1>4. ASSUME \/ \E n \in Nodes, h \in NodeHealth : SetHealth(n, h)
             \/ Tick
             \/ UNCHANGED vars
      PROVE  UNCHANGED ledgerVars
    BY <1>4 DEF SetHealth, Tick, vars, ledgerVars
<1>. QED
    BY <1>1, <1>2, <1>3, <1>4, StepKinds

\* LedgerConsistent holds in every reachable state: no GPU serves two gangs and
\* none leaks, whatever the cluster and the requests.
THEOREM Consistent == Spec => []LedgerConsistent
<1>1. Init => LedgerConsistent
    BY DEF Init, LedgerConsistent, is_free, Held
<1>2. TypeOK /\ LedgerConsistent /\ [Next]_vars => LedgerConsistent'
    BY ConsistencyStep
<1>. QED
    BY <1>1, <1>2, TypeCorrect, PTL DEF Spec

\* Only a grant marks a GPU, and it marks GPUs of healthy nodes: DrainOnlyShrinks
\* holds of every step, for every cluster.
THEOREM Drains == Spec => DrainOnlyShrinks
<1>. DEFINE Keeps == \A n \in Nodes : health[n] # "healthy" =>
                        \A g \in GpusOf(n) : ~is_free(g)' =>
                            ~is_free(g) /\ gpu_to_job'[g] = gpu_to_job[g]
<1>1. ASSUME NEW req \in Requests, TryAllocate(req)
      PROVE  Keeps
  <2>1. PICK gpu_ids \in SelectGpus(req) :
          gpu_to_job' = [g \in DOMAIN gpu_to_job \cup DOMAIN gpu_ids |->
              IF g \in DOMAIN gpu_ids THEN req.job_id ELSE gpu_to_job[g]]
      BY <1>1 DEF TryAllocate
  <2>2. \A g \in DOMAIN gpu_ids : health[NodeOf(g)] = "healthy"
      BY SelectedAreFree
  <2>. QED
      BY <2>1, <2>2 DEF is_free, GpusOf
<1>2. ASSUME NEW j \in Jobs, NEW reason \in Reasons, NEW grace \in GracePeriods,
             Release(j, reason, grace)
      PROVE  Keeps
    BY <1>2 DEF Release, MarkedAfterRelease, is_free
<1>3. ASSUME \/ \E n \in Nodes, h \in NodeHealth : SetHealth(n, h)
             \/ Tick
             \/ UNCHANGED vars
      PROVE  Keeps
    BY <1>3 DEF SetHealth, Tick, vars, ledgerVars, is_free
<1>4. [Next]_vars => Keeps
    BY <1>1, <1>2, <1>3, StepKinds
<1>. QED
    BY <1>4, PTL DEF Spec, DrainOnlyShrinks

-----------------------------------------------------------------------------
(* The ledger implements GangReservation.                                  *)

GangMap == [j \in Jobs |-> {g \in Gpus : ~is_free(g) /\ gpu_to_job[g] = j}]

\* A grant of the ledger is one Grant of the whole gang.
LEMMA GrantImplements ==
    ASSUME TypeOK, LedgerConsistent, NEW req \in Requests, TryAllocate(req)
    PROVE  \E j \in Jobs, S \in SUBSET Gpus : Reservation!Grant(j, S)
<1>1. PICK gpu_ids \in SelectGpus(req) :
        /\ gpu_to_job' = [g \in DOMAIN gpu_to_job \cup DOMAIN gpu_ids |->
              IF g \in DOMAIN gpu_ids THEN req.job_id ELSE gpu_to_job[g]]
        /\ Held' = Held \cup {req.job_id}
    BY DEF TryAllocate, Held
<1>. DEFINE j == req.job_id
            S == DOMAIN gpu_ids
<1>2. j \in Jobs /\ S \subseteq Gpus
    BY LedgerAssumption, SelectedAreFree DEF LedgerAssumption, JobRequest, IsRanking
<1>3. j \notin Held /\ UNCHANGED health
    BY DEF TryAllocate, HoldsNothing
<1>4. \A g \in S : is_free(g) /\ health[NodeOf(g)] = "healthy"
    BY SelectedAreFree
<1>5. S \subseteq {g \in Gpus : health[NodeOf(g)] = "healthy"}
                    \cap {g \in Gpus : \A k \in Jobs : g \notin GangMap[k]}
    BY <1>2, <1>4 DEF GangMap
<1>6. GangMap' = [GangMap EXCEPT ![j] = S]
  <2>1. ASSUME NEW k \in Jobs
        PROVE  {g \in Gpus : ~is_free(g)' /\ gpu_to_job'[g] = k}
                 = IF k = j THEN S ELSE {g \in Gpus : ~is_free(g) /\ gpu_to_job[g] = k}
    <3>1. {g \in Gpus : ~is_free(g) /\ gpu_to_job[g] = j} = {}
        BY <1>2, <1>3 DEF LedgerConsistent
    <3>2. \A g \in Gpus : ~is_free(g)' <=> ~is_free(g) \/ g \in S
        BY <1>1 DEF is_free
    <3>3. \A g \in S : gpu_to_job'[g] = j
        BY <1>1
    <3>4. \A g \in Gpus \ S : ~is_free(g) => gpu_to_job'[g] = gpu_to_job[g]
        BY <1>1 DEF is_free
    <3>. QED
        BY <1>2, <1>4, <3>1, <3>2, <3>3, <3>4
  <2>. QED
      BY <1>2, <2>1 DEF GangMap
<1>7. Reservation!Grant(j, S)
    BY <1>1, <1>3, <1>5, <1>6 DEF Reservation!Grant, Reservation!Unheld, GangMap
<1>. QED
    BY <1>2, <1>7

\* A release of the ledger is one GiveBack of the whole gang.
LEMMA ReleaseImplements ==
    ASSUME LedgerConsistent, NEW j \in Jobs, NEW reason \in Reasons,
           NEW grace \in GracePeriods, Release(j, reason, grace)
    PROVE  Reservation!GiveBack(j)
<1>1. /\ j \in Held
      /\ gpu_to_job' = [g \in DOMAIN gpu_to_job \ Gang(j) |-> gpu_to_job[g]]
      /\ Held' = Held \ {j}
      /\ UNCHANGED health
    BY DEF Release, MarkedAfterRelease, Held
<1>2. GangMap' = [GangMap EXCEPT ![j] = {}]
  <2>1. ASSUME NEW k \in Jobs
        PROVE  {g \in Gpus : ~is_free(g)' /\ gpu_to_job'[g] = k}
                 = IF k = j THEN {} ELSE {g \in Gpus : ~is_free(g) /\ gpu_to_job[g] = k}
    <3>1. \A g \in Gpus : ~is_free(g)' <=> ~is_free(g) /\ g \notin Gang(j)
        BY <1>1 DEF is_free
    <3>2. \A g \in Gpus : ~is_free(g)' => gpu_to_job'[g] = gpu_to_job[g]
        BY <1>1 DEF is_free
    <3>3. \A g \in Gpus : g \in Gang(j) <=> ~is_free(g) /\ gpu_to_job[g] = j
        BY <1>1 DEF LedgerConsistent
    <3>. QED
        BY <3>1, <3>2, <3>3
  <2>. QED
      BY <2>1 DEF GangMap
<1>. QED
    BY <1>1, <1>2 DEF Reservation!GiveBack, GangMap

\* Seen through the refinement mapping, every behaviour of the ledger is one of
\* GangReservation: whole gangs, granted and given back in one step each.
THEOREM Implements == Spec => ImplementsReservation
<1>1. Init => Reservation!Init
    BY DEF Init, Reservation!Init, Held, is_free
<1>2. ASSUME TypeOK, LedgerConsistent, [Next]_vars
      PROVE  [Reservation!Next]_Reservation!vars
  <2>1. ASSUME NEW req \in Requests, TryAllocate(req)
        PROVE  Reservation!Next
      BY <1>2, <2>1, GrantImplements DEF Reservation!Next
  <2>2. ASSUME NEW j \in Jobs, NEW reason \in Reasons, NEW grace \in GracePeriods,
               Release(j, reason, grace)
        PROVE  Reservation!Next
      BY <1>2, <2>2, ReleaseImplements DEF Reservation!Next
  <2>3. ASSUME NEW n \in Nodes, NEW h \in NodeHealth, SetHealth(n, h)
        PROVE  Reservation!Next
    <3>1. Reservation!Offer({g \in Gpus : health'[NodeOf(g)] = "healthy"})
        BY <2>3 DEF SetHealth, ledgerVars, Reservation!Offer, Held, is_free
    <3>. QED
        BY <3>1 DEF Reservation!Next
  <2>4. ASSUME Tick \/ UNCHANGED vars
        PROVE  UNCHANGED Reservation!vars
      BY <2>4 DEF Tick, vars, ledgerVars, Reservation!vars, Held, is_free
  <2>. QED
      BY <1>2, <2>1, <2>2, <2>3, <2>4, StepKinds
<1>. QED
    BY <1>1, <1>2, TypeCorrect, Consistent, PTL
       DEF Spec, ImplementsReservation, Reservation!Spec

-----------------------------------------------------------------------------
(* A gang is whole.                                                        *)

\* Sorting numbers the elements of a finite set without gaps or repetition: when
\* no two have the same key, their positions are 0, 1, ..., Cardinality(S) - 1.
LEMMA PositionsAreABijection ==
    ASSUME NEW S, IsFiniteSet(S), NEW key,
           \A x \in S : key[x] \in Nat,
           \A x, y \in S : key[x] = key[y] => x = y
    PROVE  [x \in S |-> Position(x, S, key)] \in Bijection(S, 0..(Cardinality(S) - 1))
<1>. DEFINE before(x) == {y \in S : key[y] < key[x]}
            numbers == 0..(Cardinality(S) - 1)
            position == [x \in S |-> Position(x, S, key)]
<1>1. Cardinality(S) \in Nat
    BY FS_CardinalityType
<1>2. \A x \in S : IsFiniteSet(before(x)) /\ Cardinality(before(x)) \in Nat
  <2>1. \A x \in S : IsFiniteSet(before(x))
      BY FS_Subset
  <2>. QED
      BY <2>1, FS_CardinalityType
<1>3. \A x \in S : position[x] \in numbers
  <2>. TAKE x \in S
  <2>1. before(x) \in SUBSET S /\ x \notin before(x)
      OBVIOUS
  <2>2. Cardinality(before(x)) <= Cardinality(S) /\ Cardinality(before(x)) # Cardinality(S)
      BY <2>1, FS_Subset
  <2>. QED
      BY <1>1, <1>2, <2>2 DEF Position
<1>4. ASSUME NEW x \in S, NEW y \in S, key[x] < key[y]
      PROVE  position[x] < position[y]
  <2>1. before(x) \in SUBSET before(y) /\ x \in before(y) /\ x \notin before(x)
      BY <1>4
  <2>2. /\ Cardinality(before(x)) <= Cardinality(before(y))
        /\ Cardinality(before(x)) # Cardinality(before(y))
      BY <1>2, <2>1, FS_Subset
  <2>. QED
      BY <1>2, <2>2 DEF Position
<1>5. position \in Injection(S, numbers)
  <2>1. ASSUME NEW x \in S, NEW y \in S, position[x] = position[y]
        PROVE  x = y
    <3>1. position[x] \in Nat /\ position[y] \in Nat
        BY <1>1, <1>3
    <3>2. ~(key[x] < key[y]) /\ ~(key[y] < key[x])
        BY <1>4, <2>1, <3>1
    <3>. QED
        BY <3>2
  <2>. QED
      BY <1>3, <2>1 DEF Injection, IsInjective
<1>6. IsFiniteSet(numbers) /\ Cardinality(numbers) = Cardinality(S)
    BY <1>1, FS_Interval
<1>7. position \in Surjection(S, numbers)
    BY <1>5, <1>6, FS_Injection
<1>. QED
    BY <1>5, <1>7 DEF Bijection

\* There are k indices below k.
LEMMA IndicesCardinality ==
    ASSUME NEW k \in Nat
    PROVE  IsFiniteSet(0..(k - 1)) /\ Cardinality(0..(k - 1)) = k
BY FS_Interval

\* A slice [:k] of a sorted list that is long enough has k elements.
LEMMA SmallestCardinality ==
    ASSUME NEW S, IsFiniteSet(S), NEW key,
           \A x \in S : key[x] \in Nat,
           \A x, y \in S : key[x] = key[y] => x = y,
           NEW k \in Nat, k <= Cardinality(S)
    PROVE  /\ IsFiniteSet(Smallest(k, S, key))
           /\ Cardinality(Smallest(k, S, key)) = k
<1>. DEFINE T == Smallest(k, S, key)
            position == [x \in S |-> Position(x, S, key)]
            restricted == [x \in T |-> position[x]]
<1>1. position \in Bijection(S, 0..(Cardinality(S) - 1)) /\ Cardinality(S) \in Nat
    BY PositionsAreABijection, FS_CardinalityType
<1>2. T \subseteq S /\ \A x \in S : x \in T <=> position[x] < k
    BY DEF Smallest
<1>3. \A x \in S : position[x] \in 0..(Cardinality(S) - 1)
    BY <1>1 DEF Bijection, Injection
<1>4. restricted \in Injection(T, 0..(k - 1))
  <2>1. \A x \in T : restricted[x] \in 0..(k - 1)
      BY <1>1, <1>2, <1>3
  <2>2. \A x, y \in S : position[x] = position[y] => x = y
      BY <1>1 DEF Bijection, Injection, IsInjective
  <2>3. \A x, y \in T : restricted[x] = restricted[y] => x = y
      BY <1>2, <2>2
  <2>. HIDE DEF T, position
  <2>. QED
      BY <2>1, <2>3 DEF Injection, IsInjective
<1>5. restricted \in Surjection(T, 0..(k - 1))
  <2>1. ASSUME NEW i \in 0..(k - 1)
        PROVE  \E x \in T : restricted[x] = i
    <3>1. PICK x \in S : position[x] = i
        BY <1>1 DEF Bijection, Surjection
    <3>. QED
        BY <1>2, <3>1
  <2>. QED
      BY <1>4, <2>1 DEF Injection, Surjection
<1>6. IsFiniteSet(T)
    BY <1>2, FS_Subset
<1>7. IsFiniteSet(0..(k - 1)) /\ Cardinality(0..(k - 1)) = k
    BY FS_Interval
<1>. QED
    BY <1>4, <1>5, <1>6, <1>7, FS_Bijection DEF Bijection, ExistsBijection

\* What _choose_nodes returns: as many nodes as asked for, of one group
\* (allocation.py:187-210).
LEMMA ChosenAreOfAGroup ==
    ASSUME NEW candidates \in SUBSET Nodes, NEW k \in Nat, NEW locality,
           NEW chosen \in ChooseNodes(candidates, k, locality)
    PROVE  /\ IsFiniteSet(chosen) /\ Cardinality(chosen) = k
           /\ \E G \in NodeGroups(candidates, locality) : chosen \subseteq G
<1>1. PICK G \in NodeGroups(candidates, locality) :
          chosen = Smallest(k, G, IdOrder) /\ Cardinality(G) >= k
    BY DEF ChooseNodes
<1>2. G \subseteq Nodes
  <2>1. CASE locality = "same_leaf"
      BY <1>1, <2>1 DEF NodeGroups
  <2>2. CASE locality = "same_spine"
      BY <1>1, <2>2 DEF NodeGroups
  <2>3. CASE locality \notin {"same_leaf", "same_spine"}
      BY <1>1, <2>3 DEF NodeGroups
  <2>. QED
      BY <2>1, <2>2, <2>3
<1>3. IsFiniteSet(G) /\ Cardinality(G) \in Nat
    BY <1>2, IdsAssumption, FS_Subset, FS_CardinalityType DEF IdsAssumption
<1>4. \A n \in G : IdOrder[n] = n /\ n \in Nat
    BY <1>2, IdsAssumption DEF IdOrder, IdsAssumption
<1>5. IsFiniteSet(Smallest(k, G, IdOrder)) /\ Cardinality(Smallest(k, G, IdOrder)) = k
    BY <1>1, <1>3, <1>4, SmallestCardinality
<1>. QED
    BY <1>1, <1>5 DEF Smallest

\* On each of its nodes a gang takes gpus_per_node GPUs that fit the request
\* (allocation.py:129, 137).
LEMMA TakenIsWhole ==
    ASSUME NEW req \in Requests, NEW n \in CandidateNodes(req)
    PROVE  /\ TakenOn(n, req) \subseteq FreeGpusOn(n, req)
           /\ IsFiniteSet(TakenOn(n, req))
           /\ Cardinality(TakenOn(n, req)) = req.shape_hint.gpus_per_node
<1>. DEFINE F == FreeGpusOn(n, req)
            k == req.shape_hint.gpus_per_node
<1>1. F \subseteq GpusOf(n) /\ F \subseteq Gpus
    BY FreeNameTheNode DEF CandidateNodes, GpusOf
<1>2. IsFiniteSet(F) /\ Cardinality(F) \in Nat
    BY <1>1, IdsAssumption, FS_Subset, FS_CardinalityType DEF IdsAssumption
<1>3. k \in Nat /\ k <= Cardinality(F)
    BY <1>2, LedgerAssumption DEF CandidateNodes, LedgerAssumption, JobRequest, ShapeHint
<1>4. \A g \in F : RailOrder[g] = GpuData[g].rail_index /\ RailOrder[g] \in Nat
    BY <1>1, DataAssumption DEF RailOrder, DataAssumption, GPU
<1>5. \A g, h \in F : RailOrder[g] = RailOrder[h] => g = h
    BY <1>1, <1>4, PositionsAssumption DEF PositionsAssumption, GpusOf, NodeOf
<1>6. IsFiniteSet(Smallest(k, F, RailOrder)) /\ Cardinality(Smallest(k, F, RailOrder)) = k
    BY <1>2, <1>3, <1>4, <1>5, SmallestCardinality
<1>. QED
    BY <1>6 DEF TakenOn, Smallest

\* GPUs that lie k to a node are k times as many as their nodes.
LEMMA GridCardinality ==
    ASSUME NEW S \in SUBSET Gpus, NEW k \in Nat,
           \A n \in NodesOf(S) : Cardinality(S \cap GpusOf(n)) = k
    PROVE  Cardinality(S) = Cardinality(NodesOf(S)) * k
<1>. DEFINE T(n) == S \cap GpusOf(n)
            index == [g \in S |-> <<NodeOf(g), Position(g, T(NodeOf(g)), RailOrder)>>]
            cells == NodesOf(S) \X (0..(k - 1))
<1>1. /\ IsFiniteSet(S) /\ \A n \in NodesOf(S) : IsFiniteSet(T(n))
      /\ NodesOf(S) \subseteq Nodes /\ IsFiniteSet(NodesOf(S))
  <2>1. NodesOf(S) \subseteq Nodes
      BY DataAssumption DEF DataAssumption, GPU, NodesOf, NodeOf
  <2>. QED
      BY <2>1, IdsAssumption, FS_Subset DEF IdsAssumption
<1>2. \A g \in S : NodeOf(g) \in NodesOf(S) /\ g \in T(NodeOf(g))
    BY DEF NodesOf, GpusOf
<1>3. \A n \in NodesOf(S) : [g \in T(n) |-> Position(g, T(n), RailOrder)]
                               \in Bijection(T(n), 0..(k - 1))
  <2>. TAKE n \in NodesOf(S)
  <2>1. \A g \in T(n) : RailOrder[g] = GpuData[g].rail_index /\ RailOrder[g] \in Nat
      BY DataAssumption DEF RailOrder, DataAssumption, GPU
  <2>2. \A g, h \in T(n) : RailOrder[g] = RailOrder[h] => g = h
      BY <2>1, PositionsAssumption DEF PositionsAssumption, GpusOf, NodeOf
  <2>. QED
      BY <1>1, <2>1, <2>2, PositionsAreABijection
<1>4. index \in [S -> cells]
  <2>1. ASSUME NEW g \in S
        PROVE  Position(g, T(NodeOf(g)), RailOrder) \in 0..(k - 1)
      BY <1>2, <1>3 DEF Bijection, Injection
  <2>. QED
      BY <1>2, <2>1
<1>5. \A g, h \in S : index[g] = index[h] => g = h
  <2>1. ASSUME NEW g \in S, NEW h \in S, index[g] = index[h]
        PROVE  g = h
    <3>1. /\ NodeOf(g) = NodeOf(h)
          /\ Position(g, T(NodeOf(g)), RailOrder) = Position(h, T(NodeOf(g)), RailOrder)
        BY <2>1
    <3>. QED
        BY <1>2, <1>3, <3>1 DEF Bijection, Injection, IsInjective
  <2>. QED
      BY <2>1
<1>6. \A c \in cells : \E g \in S : index[g] = c
  <2>1. ASSUME NEW n \in NodesOf(S), NEW i \in 0..(k - 1)
        PROVE  \E g \in S : index[g] = <<n, i>>
    <3>1. PICK g \in T(n) : Position(g, T(n), RailOrder) = i
        BY <1>3 DEF Bijection, Surjection
    <3>2. g \in S /\ NodeOf(g) = n
        BY DEF GpusOf
    <3>. QED
        BY <3>1, <3>2
  <2>2. \A c \in cells : \E n \in NodesOf(S), i \in 0..(k - 1) : c = <<n, i>>
      OBVIOUS
  <2>. HIDE DEF index, cells
  <2>. QED
      BY <2>1, <2>2
<1>7. index \in Bijection(S, cells)
  <2>. HIDE DEF index, cells
  <2>. QED
      BY <1>4, <1>5, <1>6 DEF Bijection, Injection, Surjection, IsInjective
<1>8. Cardinality(cells) = Cardinality(NodesOf(S)) * k
  <2>1. IsFiniteSet(0..(k - 1)) /\ Cardinality(0..(k - 1)) = k
      BY IndicesCardinality
  <2>. QED
      BY <1>1, <2>1, FS_Product
<1>9. Cardinality(cells) = Cardinality(S)
    BY <1>1, <1>7, FS_Bijection DEF ExistsBijection
<1>. QED
    BY <1>8, <1>9

\* The search returns the gang asked for: gpus_per_node GPUs on each of the
\* nodes asked for, gpu_count of them in all, of one group (allocation.py:121-138).
LEMMA SelectedAreWhole ==
    ASSUME NEW req \in Requests, NEW gpu_ids \in SelectGpus(req)
    PROVE  HasShape(DOMAIN gpu_ids, req) /\ FitsHardware(DOMAIN gpu_ids, req)
<1>. DEFINE S == DOMAIN gpu_ids
            k == req.shape_hint.gpus_per_node
<1>1. /\ k \in Nat /\ req.shape_hint.nodes \in Nat
      /\ req.shape_hint.nodes * k = req.gpu_count
    BY LedgerAssumption
       DEF LedgerAssumption, JobRequest, ShapeHint, SelectGpus, ShapeMultipliesOut
<1>2. PICK chosen \in ChooseNodes(CandidateNodes(req), req.shape_hint.nodes,
                                  req.locality_constraint) :
          S = UNION {TakenOn(n, req) : n \in chosen}
    BY DEF SelectGpus, RankedGang
<1>3. /\ chosen \subseteq CandidateNodes(req)
      /\ IsFiniteSet(chosen) /\ Cardinality(chosen) = req.shape_hint.nodes
  <2>1. CandidateNodes(req) \in SUBSET Nodes
      BY DEF CandidateNodes
  <2>2. chosen \subseteq CandidateNodes(req)
      BY ChosenAreCandidates
  <2>3. req.shape_hint.nodes \in Nat
      BY <1>1
  <2>4. IsFiniteSet(chosen) /\ Cardinality(chosen) = req.shape_hint.nodes
      BY <2>1, <2>3, ChosenAreOfAGroup
  <2>. QED
      BY <2>2, <2>4
<1>4. \A n \in chosen : /\ TakenOn(n, req) \subseteq FreeGpusOn(n, req)
                        /\ IsFiniteSet(TakenOn(n, req))
                        /\ Cardinality(TakenOn(n, req)) = k
    BY <1>3, TakenIsWhole
<1>5. \A n \in chosen : \A g \in TakenOn(n, req) : g \in Gpus /\ NodeOf(g) = n
    BY <1>3, <1>4, FreeNameTheNode DEF CandidateNodes, GpusOf
<1>6. \A n \in chosen : S \cap GpusOf(n) = TakenOn(n, req)
    BY <1>2, <1>5 DEF GpusOf
<1>7. S # {} => NodesOf(S) = chosen
  <2>1. NodesOf(S) \subseteq chosen
      BY <1>2, <1>5 DEF NodesOf
  <2>2. ASSUME S # {}, NEW n \in chosen
        PROVE  n \in NodesOf(S)
    <3>1. PICK m \in chosen : TakenOn(m, req) # {}
        BY <1>2, <2>2
    <3>2. k # 0
        BY <1>4, <3>1, FS_EmptySet
    <3>3. TakenOn(n, req) # {}
        BY <1>4, <3>2, FS_EmptySet
    <3>. QED
        BY <1>2, <1>5, <3>3 DEF NodesOf
  <2>. QED
      BY <2>1, <2>2
<1>8. Cardinality(S) = req.gpu_count
  <2>1. S \in SUBSET Gpus /\ \A n \in NodesOf(S) : Cardinality(S \cap GpusOf(n)) = k
    <3>1. S \in SUBSET Gpus
        BY <1>2, <1>5
    <3>2. ASSUME NEW n \in NodesOf(S)
          PROVE  Cardinality(S \cap GpusOf(n)) = k
      <4>1. n \in chosen
          BY <1>7, <3>2 DEF NodesOf
      <4>. QED
          BY <1>4, <1>6, <4>1
    <3>. QED
        BY <3>1, <3>2
  <2>2. Cardinality(S) = Cardinality(NodesOf(S)) * k
    <3>. HIDE DEF S, k
    <3>. QED
        BY <1>1, <2>1, GridCardinality
  <2>3. CASE S # {}
    <3>1. Cardinality(NodesOf(S)) = req.shape_hint.nodes
        BY <1>3, <1>7, <2>3
    <3>. QED
        BY <1>1, <2>2, <3>1
  <2>4. CASE S = {}
    <3>1. Cardinality(S) = 0
        BY <2>4, FS_EmptySet
    <3>2. chosen = {} \/ k = 0
        BY <1>2, <1>4, <2>4, FS_EmptySet
    <3>3. chosen = {} => req.shape_hint.nodes = 0
        BY <1>3, FS_EmptySet
    <3>. QED
        BY <1>1, <3>1, <3>2, <3>3
  <2>. QED
      BY <2>3, <2>4
<1>9. HasShape(S, req)
  <2>1. Cardinality(NodesOf(S)) = IF S = {} THEN 0 ELSE req.shape_hint.nodes
    <3>1. S = {} => NodesOf(S) = {}
        BY DEF NodesOf
    <3>. QED
        BY <1>3, <1>7, <3>1, FS_EmptySet
  <2>2. \A n \in NodesOf(S) : n \in chosen
      BY <1>2, <1>5 DEF NodesOf
  <2>. QED
      BY <1>4, <1>6, <1>8, <2>1, <2>2 DEF HasShape
<1>10. FitsHardware(S, req)
    BY <1>2, <1>4 DEF FitsHardware, FreeGpusOn
<1>. QED
    BY <1>9, <1>10

\* The nodes of a selected gang meet the locality constraint: they are of one
\* group (allocation.py:187-206).
LEMMA SelectedAreLocal ==
    ASSUME NEW req \in Requests, NEW gpu_ids \in SelectGpus(req)
    PROVE  HasLocality(DOMAIN gpu_ids, req)
<1>. DEFINE S == DOMAIN gpu_ids
            candidates == CandidateNodes(req)
<1>1. PICK chosen \in ChooseNodes(candidates, req.shape_hint.nodes, req.locality_constraint) :
          S = UNION {TakenOn(n, req) : n \in chosen}
    BY DEF SelectGpus, RankedGang
<1>2. PICK G \in NodeGroups(candidates, req.locality_constraint) : chosen \subseteq G
  <2>1. candidates \in SUBSET Nodes
      BY DEF CandidateNodes
  <2>2. req.shape_hint.nodes \in Nat
      BY LedgerAssumption DEF LedgerAssumption, JobRequest, ShapeHint
  <2>. HIDE DEF candidates
  <2>. QED
      BY <2>1, <2>2, ChosenAreOfAGroup
<1>3. NodesOf(S) \subseteq G
  <2>1. \A n \in chosen : TakenOn(n, req) \subseteq FreeGpusOn(n, req) /\ n \in Nodes
      BY <1>1, ChosenAreCandidates DEF TakenOn, Smallest, CandidateNodes
  <2>2. \A g \in S : NodeOf(g) \in chosen
      BY <1>1, <2>1, FreeNameTheNode DEF GpusOf
  <2>. QED
      BY <1>2, <2>2 DEF NodesOf
<1>4. CASE req.locality_constraint = "same_leaf"
  <2>1. PICK n \in candidates : G = {m \in candidates : LeafOf(m) = LeafOf(n)}
      BY <1>2, <1>4 DEF NodeGroups
  <2>2. \A m \in NodesOf(S) : LeafOf(m) = LeafOf(n)
      BY <1>3, <2>1
  <2>. QED
      BY <1>4, <2>2 DEF HasLocality
<1>5. CASE req.locality_constraint = "same_spine"
  <2>1. PICK s \in Spines : G = {m \in candidates : s \in SpinesAbove(m)}
      BY <1>2, <1>5 DEF NodeGroups, SpinesAbove
  <2>2. s \in Spines /\ \A m \in NodesOf(S) : s \in SpinesAbove(m)
      BY <1>3, <2>1
  <2>. QED
      BY <1>5, <2>2 DEF HasLocality
<1>6. CASE req.locality_constraint \notin {"same_leaf", "same_spine"}
    BY <1>6 DEF HasLocality
<1>. QED
    BY <1>4, <1>5, <1>6

\* A step leaves the allocation of a job as it was, drops it, or gives the job
\* a gang that the search selected for one of its requests.
LEMMA AllocationsStep ==
    ASSUME [Next]_vars, NEW j \in Held'
    PROVE  \/ j \in Held /\ allocations'[j] = allocations[j]
           \/ \E req \in Requests : \E gpu_ids \in SelectGpus(req) :
                 /\ req.job_id = j
                 /\ Gang(j)' = DOMAIN gpu_ids
                 /\ allocations'[j].gpu_ids = gpu_ids
                 /\ allocations'[j].qos_class = req.qos_class
<1>1. ASSUME NEW req \in Requests, TryAllocate(req)
      PROVE  \/ j \in Held /\ allocations'[j] = allocations[j]
             \/ \E gpu_ids \in SelectGpus(req) :
                 /\ req.job_id = j
                 /\ Gang(j)' = DOMAIN gpu_ids
                 /\ allocations'[j].gpu_ids = gpu_ids
                 /\ allocations'[j].qos_class = req.qos_class
  <2>1. PICK gpu_ids \in SelectGpus(req) :
          allocations' = [i \in Held \cup {req.job_id} |->
                IF i = req.job_id
                THEN [gpu_ids |-> gpu_ids, allocated_at |-> now,
                      qos_class |-> req.qos_class]
                ELSE allocations[i]]
      BY <1>1 DEF TryAllocate
  <2>2. CASE j = req.job_id
      BY <2>1, <2>2 DEF Gang
  <2>3. CASE j # req.job_id
      BY <2>1, <2>3 DEF Held
  <2>. QED
      BY <2>2, <2>3
<1>2. ASSUME NEW k \in Jobs, NEW reason \in Reasons, NEW grace \in GracePeriods,
             Release(k, reason, grace)
      PROVE  j \in Held /\ allocations'[j] = allocations[j]
    BY <1>2 DEF Release, Held
<1>3. ASSUME \/ \E n \in Nodes, h \in NodeHealth : SetHealth(n, h)
             \/ Tick
             \/ UNCHANGED vars
      PROVE  j \in Held /\ allocations'[j] = allocations[j]
    BY <1>3 DEF SetHealth, Tick, vars, ledgerVars, Held
<1>. QED
    BY <1>1, <1>2, <1>3, StepKinds

\* GangServesRequest holds in every reachable state: for every cluster and every
\* set of requests a gang is all that was asked for, or it is not granted.
THEOREM WholeGangs == Spec => []GangServesRequest
<1>1. Init => GangServesRequest
    BY DEF Init, GangServesRequest, Held
<1>2. ASSUME GangServesRequest, [Next]_vars
      PROVE  GangServesRequest'
  <2>1. ASSUME NEW j \in Held'
        PROVE  \E req \in Requests :
                  /\ req.job_id = j /\ req.qos_class = allocations'[j].qos_class
                  /\ HasShape(Gang(j)', req)
                  /\ FitsHardware(Gang(j)', req)
    <3>1. CASE j \in Held /\ allocations'[j] = allocations[j]
        BY <1>2, <3>1 DEF GangServesRequest, Gang
    <3>2. CASE \E req \in Requests : \E gpu_ids \in SelectGpus(req) :
                 /\ req.job_id = j
                 /\ Gang(j)' = DOMAIN gpu_ids
                 /\ allocations'[j].gpu_ids = gpu_ids
                 /\ allocations'[j].qos_class = req.qos_class
        BY <3>2, SelectedAreWhole
    <3>. QED
        BY <1>2, <3>1, <3>2, AllocationsStep
  <2>. QED
      BY <2>1 DEF GangServesRequest, HasShape, FitsHardware, NodesOf, NodeOf, GpusOf
<1>. QED
    BY <1>1, <1>2, PTL DEF Spec

\* LocalityHonoured holds in every reachable state, for every cluster.
THEOREM LocalGangs == Spec => []LocalityHonoured
<1>1. Init => LocalityHonoured
    BY DEF Init, LocalityHonoured, Held
<1>2. ASSUME LocalityHonoured, [Next]_vars
      PROVE  LocalityHonoured'
  <2>1. ASSUME NEW j \in Held'
        PROVE  \E req \in Requests : req.job_id = j /\ HasLocality(Gang(j)', req)
    <3>1. CASE j \in Held /\ allocations'[j] = allocations[j]
        BY <1>2, <3>1 DEF LocalityHonoured, Gang
    <3>2. CASE \E req \in Requests : \E gpu_ids \in SelectGpus(req) :
                 /\ req.job_id = j
                 /\ Gang(j)' = DOMAIN gpu_ids
        BY <3>2, SelectedAreLocal
    <3>. QED
        BY <1>2, <3>1, <3>2, AllocationsStep
  <2>. QED
      BY <2>1 DEF LocalityHonoured, HasLocality, NodesOf, NodeOf, LeafOf, SpinesAbove
<1>. QED
    BY <1>1, <1>2, PTL DEF Spec

-----------------------------------------------------------------------------
(* Tenures of one GPU do not overlap.                                      *)

\* No gang was released in the future.
RecordsArePast == \A r \in Records : r.released_at <= now

\* A new gang is granted now, after whatever was released before; a gang that is
\* released shares no GPU with those that are held (allocation.py:60, 95-106).
LEMMA TenuresStep ==
    ASSUME TypeOK, LedgerConsistent, RecordsArePast, TenuresDisjoint, [Next]_vars
    PROVE  RecordsArePast' /\ TenuresDisjoint'
<1>. USE DEF Gang
<1>1. ASSUME NEW req \in Requests, TryAllocate(req)
      PROVE  RecordsArePast' /\ TenuresDisjoint'
  <2>1. PICK gpu_ids \in SelectGpus(req) :
          allocations' = [j \in Held \cup {req.job_id} |->
                IF j = req.job_id
                THEN [gpu_ids |-> gpu_ids, allocated_at |-> now,
                      qos_class |-> req.qos_class]
                ELSE allocations[j]]
      BY <1>1 DEF TryAllocate
  <2>2. UNCHANGED <<history, now>> /\ Records' = Records
      BY <1>1 DEF TryAllocate, Records
  <2>3. RecordsArePast'
      BY <2>2 DEF RecordsArePast
  <2>4. ASSUME NEW r \in Records, NEW j \in Held',
               DOMAIN r.gpu_ids \cap DOMAIN allocations'[j].gpu_ids # {}
        PROVE  r.released_at <= allocations'[j].allocated_at
    <3>1. CASE j = req.job_id
        BY <2>1, <3>1 DEF RecordsArePast
    <3>2. CASE j # req.job_id
        BY <2>1, <2>4, <3>2 DEF TenuresDisjoint, Held
    <3>. QED
        BY <3>1, <3>2
  <2>. QED
      BY <2>2, <2>3, <2>4 DEF TenuresDisjoint
<1>2. ASSUME NEW j \in Jobs, NEW reason \in Reasons, NEW grace \in GracePeriods,
             Release(j, reason, grace)
      PROVE  RecordsArePast' /\ TenuresDisjoint'
  <2>1. /\ j \in Held
        /\ allocations' = [k \in Held \ {j} |-> allocations[k]]
        /\ now' = now
        /\ \E record : /\ history' = Append(history, record)
                       /\ record.gpu_ids = allocations[j].gpu_ids
                       /\ record.allocated_at = allocations[j].allocated_at
                       /\ record.released_at = now
      BY <1>2 DEF Release
  <2>2. PICK record : /\ history' = Append(history, record)
                      /\ record.gpu_ids = allocations[j].gpu_ids
                      /\ record.allocated_at = allocations[j].allocated_at
                      /\ record.released_at = now
      BY <2>1
  <2>3. /\ Len(history) \in Nat
        /\ Len(history') = Len(history) + 1
        /\ \A i \in 1..Len(history) : history'[i] = history[i]
        /\ history'[Len(history) + 1] = record
    <3>1. history \in Seq(Records \cup {record})
        BY DEF TypeOK
    <3>. QED
        BY <2>2, <3>1
  <2>4. Records' = Records \cup {record}
      BY <2>3 DEF Records
  <2>5. RecordsArePast'
      BY <2>1, <2>2, <2>4 DEF RecordsArePast, TypeOK
  <2>6. ASSUME NEW i \in 1..Len(history'), NEW k \in 1..Len(history'), i < k,
               DOMAIN history'[i].gpu_ids \cap DOMAIN history'[k].gpu_ids # {}
        PROVE  history'[i].released_at <= history'[k].allocated_at
    <3>1. i \in 1..Len(history) /\ history'[i] = history[i] /\ history[i] \in Records
        BY <2>3, <2>6 DEF Records
    <3>2. CASE k = Len(history) + 1
        BY <2>1, <2>2, <2>3, <2>6, <3>1, <3>2 DEF TenuresDisjoint
    <3>3. CASE k # Len(history) + 1
        BY <2>3, <2>6, <3>1, <3>3 DEF TenuresDisjoint
    <3>. QED
        BY <3>2, <3>3
  <2>7. ASSUME NEW r \in Records', NEW k \in Held',
               DOMAIN r.gpu_ids \cap DOMAIN allocations'[k].gpu_ids # {}
        PROVE  r.released_at <= allocations'[k].allocated_at
    <3>1. k \in Held /\ k # j /\ allocations'[k] = allocations[k]
        BY <2>1 DEF Held
    <3>2. CASE r \in Records
        BY <2>7, <3>1, <3>2 DEF TenuresDisjoint
    <3>3. CASE r = record
      <4>1. PICK g : g \in DOMAIN allocations[j].gpu_ids /\ g \in DOMAIN allocations[k].gpu_ids
          BY <2>2, <2>7, <3>1, <3>3
      <4>2. g \in Gpus /\ k \in Jobs
          BY <2>1, <3>1, <4>1 DEF TypeOK, IsAllocation, IsRanking
      <4>3. gpu_to_job[g] = j /\ gpu_to_job[g] = k
          BY <2>1, <3>1, <4>1, <4>2 DEF LedgerConsistent
      <4>. QED
          BY <3>1, <4>3
    <3>. QED
        BY <2>4, <3>2, <3>3
  <2>. QED
      BY <2>5, <2>6, <2>7 DEF TenuresDisjoint
<1>3. ASSUME \/ \E n \in Nodes, h \in NodeHealth : SetHealth(n, h)
             \/ UNCHANGED vars
      PROVE  RecordsArePast' /\ TenuresDisjoint'
    BY <1>3 DEF SetHealth, vars, ledgerVars, RecordsArePast, TenuresDisjoint, Records, Held
<1>4. ASSUME Tick
      PROVE  RecordsArePast' /\ TenuresDisjoint'
  <2>1. UNCHANGED <<allocations, history>> /\ now' = now + 1 /\ Records' = Records
      BY <1>4 DEF Tick, ledgerVars, Records
  <2>2. \A r \in Records : r.released_at \in Nat
      BY DEF TypeOK, IsDeallocationRecord
  <2>3. RecordsArePast'
      BY <2>1, <2>2 DEF RecordsArePast, TypeOK
  <2>. QED
      BY <2>1, <2>3 DEF TenuresDisjoint, Held
<1>. QED
    BY <1>1, <1>2, <1>3, <1>4, StepKinds

\* TenuresDisjoint holds in every reachable state: whatever ids come back and in
\* whatever order gangs come and go, no GPU is billed twice for the same time.
THEOREM NeverBilledTwice == Spec => []TenuresDisjoint
<1>1. Init => RecordsArePast /\ TenuresDisjoint
    BY DEF Init, RecordsArePast, TenuresDisjoint, Records, Held
<1>2. TypeOK /\ LedgerConsistent /\ RecordsArePast /\ TenuresDisjoint /\ [Next]_vars
        => RecordsArePast' /\ TenuresDisjoint'
    BY TenuresStep
<1>. QED
    BY <1>1, <1>2, TypeCorrect, Consistent, PTL DEF Spec

-----------------------------------------------------------------------------
(* Ranks.                                                                  *)

\* Of two elements the one that sorts first has the lower position.
LEMMA PositionsFollowKeys ==
    ASSUME NEW S, IsFiniteSet(S), NEW key, \A x \in S : key[x] \in Nat,
           NEW x \in S, NEW y \in S
    PROVE  Position(x, S, key) < Position(y, S, key) <=> key[x] < key[y]
<1>. DEFINE before(z) == {w \in S : key[w] < key[z]}
<1>1. \A z \in S : IsFiniteSet(before(z))
    BY FS_Subset
<1>2. \A z \in S : Cardinality(before(z)) \in Nat
    BY <1>1, FS_CardinalityType
<1>3. CASE key[x] < key[y]
  <2>1. before(x) \in SUBSET before(y) /\ x \in before(y) /\ x \notin before(x)
      BY <1>3
  <2>2. /\ Cardinality(before(x)) <= Cardinality(before(y))
        /\ Cardinality(before(x)) # Cardinality(before(y))
      BY <1>1, <2>1, FS_Subset
  <2>. QED
      BY <1>2, <1>3, <2>2 DEF Position
<1>4. CASE ~(key[x] < key[y])
  <2>1. before(y) \in SUBSET before(x)
      BY <1>4
  <2>2. Cardinality(before(y)) <= Cardinality(before(x))
      BY <1>1, <2>1, FS_Subset
  <2>. QED
      BY <1>2, <1>4, <2>2 DEF Position
<1>. QED
    BY <1>3, <1>4

\* Row p of k cells, cell i: the number of the cell tells both.
LEMMA CellsDiffer ==
    ASSUME NEW k \in Nat, NEW p \in Nat, NEW q \in Nat,
           NEW i \in 0..(k - 1), NEW h \in 0..(k - 1),
           k * p + i = k * q + h
    PROVE  p = q /\ i = h
<1>1. ASSUME NEW a \in Nat, NEW b \in Nat, NEW c \in 0..(k - 1), NEW d \in 0..(k - 1), a < b
      PROVE  k * a + c < k * b + d
  <2>1. PICK e \in Nat : b = a + 1 + e
      BY <1>1
  <2>2. k * b = k * a + k + k * e /\ k * e \in Nat /\ k * a \in Nat
      BY <2>1
  <2>. QED
      BY <2>2
<1>2. ~(p < q) /\ ~(q < p)
    BY <1>1
<1>3. p = q
    BY <1>2
<1>. QED
    BY <1>3

LEMMA CellsFit ==
    ASSUME NEW k \in Nat, NEW rows \in Nat, NEW p \in 0..(rows - 1), NEW i \in 0..(k - 1)
    PROVE  k * p + i \in 0..(rows * k - 1)
<1>1. PICK e \in Nat : rows = p + 1 + e
    BY rows - p - 1 \in Nat
<1>2. rows * k = k * p + k + e * k /\ e * k \in Nat /\ k * p \in Nat
    BY <1>1
<1>. QED
    BY <1>2

LEMMA SmallModulo ==
    ASSUME NEW n \in Nat, NEW r \in Nat, r < n
    PROVE  r % n = r
OBVIOUS

\* What RingStaysOnNode says of one gang.
RingStays(rank) ==
    LET n    == Cardinality(DOMAIN rank)
        hops == {g \in DOMAIN rank : \E h \in DOMAIN rank :
                    /\ rank[h] = (rank[g] + 1) % n
                    /\ NodeOf(h) # NodeOf(g)}
    IN  /\ {rank[g] : g \in DOMAIN rank} = 0..(n - 1)
        /\ Cardinality(hops) <= Cardinality(NodesOf(DOMAIN rank))
        /\ \A g, h \in DOMAIN rank :
              NodeOf(g) = NodeOf(h) =>
                (rank[g] < rank[h] <=> RailOrder[g] < RailOrder[h])

\* The tuple that the search returns numbers the gang node after node: only the last
\* GPU of a node is followed by one of another (allocation.py:129-138).
LEMMA SelectedRing ==
    ASSUME NEW req \in Requests, NEW rank \in SelectGpus(req)
    PROVE  RingStays(rank)
<1>. DEFINE S == DOMAIN rank
            k == req.shape_hint.gpus_per_node
            rows == req.shape_hint.nodes
            n == Cardinality(S)
            T(m) == TakenOn(m, req)
<1>1. k \in Nat /\ rows \in Nat /\ rows * k = req.gpu_count
    BY LedgerAssumption
       DEF LedgerAssumption, JobRequest, ShapeHint, SelectGpus, ShapeMultipliesOut
<1>2. PICK chosen \in ChooseNodes(CandidateNodes(req), rows, req.locality_constraint) :
          rank = RankedGang(chosen, req)
    BY DEF SelectGpus
<1>. DEFINE row(g) == Position(NodeOf(g), chosen, IdOrder)
            cell(g) == Position(g, T(NodeOf(g)), RailOrder)
<1>3. S = UNION {T(m) : m \in chosen} /\ \A g \in S : rank[g] = k * row(g) + cell(g)
    BY <1>2 DEF RankedGang
<1>4. /\ chosen \subseteq CandidateNodes(req) /\ chosen \subseteq Nodes
      /\ IsFiniteSet(chosen) /\ Cardinality(chosen) = rows
  <2>1. CandidateNodes(req) \in SUBSET Nodes
      BY DEF CandidateNodes
  <2>2. chosen \subseteq CandidateNodes(req)
      BY ChosenAreCandidates
  <2>3. IsFiniteSet(chosen) /\ Cardinality(chosen) = rows
      BY <1>1, <2>1, ChosenAreOfAGroup
  <2>. QED
      BY <2>1, <2>2, <2>3
<1>5. \A m \in chosen : /\ T(m) \subseteq FreeGpusOn(m, req)
                        /\ IsFiniteSet(T(m)) /\ Cardinality(T(m)) = k
    BY <1>4, TakenIsWhole
<1>6. \A m \in chosen : \A g \in T(m) : g \in Gpus /\ NodeOf(g) = m
    BY <1>4, <1>5, FreeNameTheNode DEF CandidateNodes, GpusOf
<1>7. \A g \in S : g \in Gpus /\ NodeOf(g) \in chosen /\ g \in T(NodeOf(g))
    BY <1>3, <1>6
<1>8. IsFiniteSet(S) /\ n = rows * k
  <2>1. IsFiniteSet(S)
      BY <1>7, IdsAssumption, FS_Subset DEF IdsAssumption
  <2>. QED
      BY <1>1, <2>1, SelectedAreWhole DEF HasShape
<1>9. [m \in chosen |-> Position(m, chosen, IdOrder)] \in Bijection(chosen, 0..(rows - 1))
  <2>1. \A m \in chosen : IdOrder[m] = m /\ IdOrder[m] \in Nat
      BY <1>4, IdsAssumption DEF IdOrder, IdsAssumption
  <2>. QED
      BY <1>4, <2>1, PositionsAreABijection
<1>10. \A g \in Gpus : RailOrder[g] = GpuData[g].rail_index /\ RailOrder[g] \in Nat
    BY DataAssumption DEF RailOrder, DataAssumption, GPU
<1>11. \A m \in chosen : [g \in T(m) |-> Position(g, T(m), RailOrder)]
                            \in Bijection(T(m), 0..(k - 1))
  <2>. TAKE m \in chosen
  <2>1. \A g \in T(m) : RailOrder[g] \in Nat
      BY <1>6, <1>10
  <2>2. \A g, h \in T(m) : RailOrder[g] = RailOrder[h] => g = h
      BY <1>6, <1>10, PositionsAssumption DEF PositionsAssumption, NodeOf
  <2>. QED
      BY <1>5, <2>1, <2>2, PositionsAreABijection
<1>12. \A g \in S : row(g) \in 0..(rows - 1) /\ cell(g) \in 0..(k - 1)
  <2>1. \A m \in chosen : Position(m, chosen, IdOrder) \in 0..(rows - 1)
      BY <1>9 DEF Bijection, Injection
  <2>2. \A m \in chosen : \A g \in T(m) : Position(g, T(m), RailOrder) \in 0..(k - 1)
      BY <1>11 DEF Bijection, Injection
  <2>. QED
      BY <1>7, <2>1, <2>2
<1>13. \A g, h \in S : row(g) = row(h) => NodeOf(g) = NodeOf(h)
    BY <1>7, <1>9 DEF Bijection, Injection, IsInjective
<1>14. \A g, h \in S : NodeOf(g) = NodeOf(h) /\ cell(g) = cell(h) => g = h
    BY <1>7, <1>11 DEF Bijection, Injection, IsInjective
<1>15. \A g, h \in S : NodeOf(g) = NodeOf(h) =>
          (cell(g) < cell(h) <=> RailOrder[g] < RailOrder[h])
  <2>1. ASSUME NEW m \in chosen, NEW g \in T(m), NEW h \in T(m)
        PROVE  Position(g, T(m), RailOrder) < Position(h, T(m), RailOrder)
                 <=> RailOrder[g] < RailOrder[h]
    <3>1. \A x \in T(m) : RailOrder[x] \in Nat
        BY <1>6, <1>10
    <3>2. IsFiniteSet(T(m))
        BY <1>5
    <3>. HIDE DEF T
    <3>. QED
        BY <3>1, <3>2, PositionsFollowKeys
  <2>. QED
      BY <1>7, <2>1
<1>. HIDE DEF row, cell, T, S, rows, k, n
<1>16. \A g \in S : rank[g] \in 0..(n - 1)
    BY <1>1, <1>3, <1>8, <1>12, CellsFit
<1>17. \A g, h \in S : rank[g] = rank[h] => g = h
  <2>. SUFFICES ASSUME NEW g \in S, NEW h \in S, rank[g] = rank[h]
                PROVE  g = h
      OBVIOUS
  <2>1. row(g) \in Nat /\ row(h) \in Nat
      BY <1>1, <1>12
  <2>2. k * row(g) + cell(g) = k * row(h) + cell(h)
      BY <1>3
  <2>3. row(g) = row(h) /\ cell(g) = cell(h)
      BY <1>1, <1>12, <2>1, <2>2, CellsDiffer
  <2>. QED
      BY <1>13, <1>14, <2>3
<1>18. {rank[g] : g \in S} = 0..(n - 1)
  <2>. DEFINE ranks == [g \in S |-> rank[g]]
  <2>1. n \in Nat /\ n = Cardinality(S)
      BY <1>8, FS_CardinalityType DEF n
  <2>2. IsFiniteSet(0..(n - 1)) /\ Cardinality(0..(n - 1)) = n
      BY <2>1, IndicesCardinality
  <2>3. ranks \in Injection(S, 0..(n - 1))
      BY <1>16, <1>17 DEF Injection, IsInjective
  <2>4. ranks \in Surjection(S, 0..(n - 1))
      BY <2>1, <2>2, <2>3, FS_Injection
  <2>. QED
      BY <1>16, <2>4 DEF Surjection
<1>. DEFINE hops == {g \in S : \E h \in S :
                        rank[h] = (rank[g] + 1) % n /\ NodeOf(h) # NodeOf(g)}
<1>19. ASSUME NEW g \in hops
       PROVE  cell(g) = k - 1
  <2>1. PICK h \in S : rank[h] = (rank[g] + 1) % n /\ NodeOf(h) # NodeOf(g)
      OBVIOUS
  <2>2. SUFFICES ASSUME cell(g) + 1 \in 0..(k - 1)
                 PROVE  FALSE
      BY <1>1, <1>12
  <2>3. row(g) \in Nat /\ row(h) \in Nat /\ n \in Nat /\ row(g) \in 0..(rows - 1)
      BY <1>1, <1>8, <1>12
  <2>4. k * row(g) + (cell(g) + 1) \in 0..(rows * k - 1)
      BY <1>1, <2>2, <2>3, CellsFit
  <2>5. rank[g] + 1 = k * row(g) + (cell(g) + 1)
      BY <1>1, <1>3, <1>12, <2>3
  <2>6. rank[g] + 1 \in Nat /\ rank[g] + 1 < n
      BY <1>1, <1>8, <2>3, <2>4, <2>5
  <2>7. rank[h] = rank[g] + 1
      BY <2>1, <2>3, <2>6, SmallModulo
  <2>8. k * row(h) + cell(h) = k * row(g) + (cell(g) + 1)
      BY <1>3, <2>5, <2>7
  <2>9. row(h) = row(g)
      BY <1>1, <1>12, <2>2, <2>3, <2>8, CellsDiffer
  <2>. QED
      BY <1>13, <2>1, <2>9
<1>20. Cardinality(hops) <= Cardinality(NodesOf(S))
  <2>. DEFINE leaves == [g \in hops |-> NodeOf(g)]
  <2>1. \A g, h \in hops : NodeOf(g) = NodeOf(h) => g = h
      BY <1>14, <1>19
  <2>2. leaves \in Injection(hops, NodesOf(S))
      BY <2>1 DEF Injection, IsInjective, NodesOf
  <2>3. IsFiniteSet(NodesOf(S))
      BY <1>4, <1>7, FS_Subset DEF NodesOf
  <2>. HIDE DEF hops
  <2>. QED
      BY <2>2, <2>3, FS_Injection
<1>21. ASSUME NEW g \in S, NEW h \in S, NodeOf(g) = NodeOf(h)
       PROVE  rank[g] < rank[h] <=> RailOrder[g] < RailOrder[h]
  <2>1. row(g) = row(h)
      BY <1>21 DEF row
  <2>2. k * row(g) \in Nat /\ cell(g) \in Nat /\ cell(h) \in Nat
      BY <1>1, <1>12
  <2>3. rank[g] < rank[h] <=> cell(g) < cell(h)
      BY <1>3, <2>1, <2>2
  <2>. QED
      BY <1>15, <1>21, <2>3
<1>. QED
    BY <1>18, <1>20, <1>21 DEF RingStays, S, n

\* RingStaysOnNode holds in every reachable state: a ring over the ranks of any gang
\* leaves a node once for each node it has (models/allocation.py:7-16).
THEOREM RingsStayOnNodes == Spec => []RingStaysOnNode
<1>. DEFINE Rings == \A j \in Held : RingStays(allocations[j].gpu_ids)
<1>1. Init => Rings
    BY DEF Init, Held
<1>2. ASSUME Rings, [Next]_vars
      PROVE  Rings'
  <2>1. ASSUME NEW j \in Held'
        PROVE  RingStays(allocations'[j].gpu_ids)
    <3>1. CASE j \in Held /\ allocations'[j] = allocations[j]
        BY <1>2, <3>1
    <3>2. CASE \E req \in Requests : \E gpu_ids \in SelectGpus(req) :
                 allocations'[j].gpu_ids = gpu_ids
        BY <3>2, SelectedRing
    <3>. QED
        BY <1>2, <3>1, <3>2, AllocationsStep
  <2>. QED
      BY <2>1 DEF RingStays, NodeOf, NodesOf
<1>3. Rings => RingStaysOnNode
    BY DEF RingStays, RingStaysOnNode, Gang
<1>. QED
    BY <1>1, <1>2, <1>3, PTL DEF Spec

-----------------------------------------------------------------------------
(* The search is complete.                                                 *)

\* Some group of those that are large enough is met first.
LEMMA SomeGroupIsFirst ==
    ASSUME NEW groups, \A G \in groups : G \subseteq Nodes,
           NEW H \in groups, H # {}
    PROVE  \E G \in groups : \A K \in groups : SeenNoLater(G, K)
<1>. DEFINE members == UNION groups
<1>1. members \subseteq Nodes /\ IsFiniteSet(members) /\ members # {}
    BY IdsAssumption, FS_Subset DEF IdsAssumption
<1>2. \A n \in members : AddedAt[n] \in Nat
    BY <1>1, PositionsAssumption DEF PositionsAssumption
<1>3. \A n, m \in members : AddedAt[n] = AddedAt[m] => n = m
    BY <1>1, PositionsAssumption DEF PositionsAssumption
<1>4. [n \in members |-> Position(n, members, AddedAt)]
        \in Bijection(members, 0..(Cardinality(members) - 1))
  <2>. HIDE DEF members
  <2>. QED
      BY <1>1, <1>2, <1>3, PositionsAreABijection
<1>5. 0 \in 0..(Cardinality(members) - 1)
    BY <1>1, FS_CardinalityType, FS_EmptySet
<1>6. PICK n \in members : Position(n, members, AddedAt) = 0
    BY <1>4, <1>5 DEF Bijection, Surjection
<1>7. \A m \in members : ~(AddedAt[m] < AddedAt[n])
  <2>1. IsFiniteSet({m \in members : AddedAt[m] < AddedAt[n]})
      BY <1>1, FS_Subset
  <2>. QED
      BY <1>6, <2>1, FS_EmptySet DEF Position
<1>8. PICK G \in groups : n \in G
    BY <1>6
<1>9. \A K \in groups : \A m \in K : AddedAt[n] <= AddedAt[m]
    BY <1>2, <1>6, <1>7
<1>. QED
    BY <1>8, <1>9 DEF SeenNoLater

\* The walk over the groups finds one whenever one is large enough
\* (allocation.py:191-210).
LEMMA LargeGroupIsChosen ==
    ASSUME NEW candidates \in SUBSET Nodes, NEW k \in Nat, NEW locality,
           NEW H \in NodeGroups(candidates, locality), Cardinality(H) >= k, H # {}
    PROVE  ChooseNodes(candidates, k, locality) # {}
<1>. DEFINE enough == {G \in NodeGroups(candidates, locality) : Cardinality(G) >= k}
<1>1. \A G \in enough : G \subseteq Nodes
  <2>1. CASE locality = "same_leaf"
      BY <2>1 DEF NodeGroups
  <2>2. CASE locality = "same_spine"
      BY <2>2 DEF NodeGroups
  <2>3. CASE locality \notin {"same_leaf", "same_spine"}
      BY <2>3 DEF NodeGroups
  <2>. QED
      BY <2>1, <2>2, <2>3
<1>2. H \in enough
    OBVIOUS
<1>3. PICK G \in enough : \A K \in enough : SeenNoLater(G, K)
  <2>. HIDE DEF enough
  <2>. QED
      BY <1>1, <1>2, SomeGroupIsFirst
<1>4. Smallest(k, G, IdOrder) \in ChooseNodes(candidates, k, locality)
    BY <1>3 DEF ChooseNodes
<1>. QED
    BY <1>4

\* What the search returns is of eligible GPUs.
LEMMA SelectedAreEligible ==
    ASSUME NEW req \in Requests, NEW gpu_ids \in SelectGpus(req)
    PROVE  DOMAIN gpu_ids \subseteq Eligible(req)
<1>1. PICK chosen \in ChooseNodes(CandidateNodes(req), req.shape_hint.nodes,
                                  req.locality_constraint) :
          DOMAIN gpu_ids = UNION {TakenOn(n, req) : n \in chosen}
    BY DEF SelectGpus, RankedGang
<1>2. chosen \subseteq Nodes
    BY ChosenAreCandidates DEF CandidateNodes
<1>. QED
    BY <1>1, <1>2 DEF Eligible, TakenOn, Smallest

\* A gang that would do lies on candidate nodes, all of one group.
LEMMA FeasibleIsFound ==
    ASSUME NEW req \in Requests, req.gpu_count > 0,
           NEW S \in SUBSET Eligible(req), HasShape(S, req), HasLocality(S, req)
    PROVE  SelectGpus(req) # {}
<1>. DEFINE k == req.shape_hint.gpus_per_node
            N == NodesOf(S)
            candidates == CandidateNodes(req)
            locality == req.locality_constraint
<1>1. /\ k \in Nat /\ req.shape_hint.nodes \in Nat /\ req.gpu_count \in Nat
      /\ locality \in Localities
    BY LedgerAssumption DEF LedgerAssumption, JobRequest, ShapeHint
<1>2. S \in SUBSET Gpus /\ \A g \in S : g \in FreeGpusOn(NodeOf(g), req) /\ NodeOf(g) \in Nodes
    BY FreeNameTheNode DEF Eligible, GpusOf
<1>3. S # {} /\ N # {} /\ Cardinality(N) = req.shape_hint.nodes
  <2>1. S # {}
      BY <1>1, FS_EmptySet DEF HasShape
  <2>. QED
      BY <2>1 DEF HasShape, NodesOf
<1>4. ShapeMultipliesOut(req)
  <2>1. Cardinality(S) = Cardinality(N) * k
    <3>1. \A n \in N : Cardinality(S \cap GpusOf(n)) = k
        BY DEF HasShape
    <3>. QED
        BY <1>1, <1>2, <3>1, GridCardinality
  <2>. QED
      BY <1>1, <1>3, <2>1 DEF HasShape, ShapeMultipliesOut
<1>5. N \subseteq candidates
  <2>1. ASSUME NEW g \in S
        PROVE  NodeOf(g) \in candidates
    <3>. DEFINE n == NodeOf(g)
                F == FreeGpusOn(n, req)
    <3>1. n \in Nodes /\ g \in F
        BY <1>2
    <3>2. S \cap GpusOf(n) \subseteq F
        BY <1>2 DEF GpusOf
    <3>3. IsFiniteSet(F) /\ Cardinality(F) \in Nat
      <4>1. F \subseteq Gpus
          BY <3>1, FreeNameTheNode DEF GpusOf
      <4>. QED
          BY <4>1, IdsAssumption, FS_Subset, FS_CardinalityType DEF IdsAssumption
    <3>4. Cardinality(S \cap GpusOf(n)) = k
        BY DEF HasShape, NodesOf
    <3>5. Cardinality(S \cap GpusOf(n)) <= Cardinality(F)
        BY <3>2, <3>3, FS_Subset
    <3>. QED
        BY <1>1, <3>1, <3>3, <3>4, <3>5 DEF CandidateNodes
  <2>. QED
      BY <2>1 DEF NodesOf
<1>6. PICK G \in NodeGroups(candidates, locality) : N \subseteq G
  <2>1. CASE locality = "same_leaf"
    <3>1. PICK n \in N : TRUE
        BY <1>3
    <3>2. \A m \in N : LeafOf(m) = LeafOf(n)
        BY <2>1, <3>1 DEF HasLocality
    <3>3. N \subseteq {m \in candidates : LeafOf(m) = LeafOf(n)}
        BY <1>5, <3>2
    <3>4. {m \in candidates : LeafOf(m) = LeafOf(n)} \in NodeGroups(candidates, locality)
        BY <1>5, <2>1, <3>1 DEF NodeGroups
    <3>. QED
        BY <3>3, <3>4
  <2>2. CASE locality = "same_spine"
    <3>1. PICK s \in Spines : \A m \in N : s \in SpinesAbove(m)
        BY <1>3, <2>2 DEF HasLocality
    <3>2. PICK n \in N : TRUE
        BY <1>3
    <3>3. N \subseteq {m \in candidates : s \in SpinesAbove(m)}
        BY <1>5, <3>1
    <3>4. {m \in candidates : s \in SpinesAbove(m)} \in NodeGroups(candidates, locality)
        BY <1>5, <2>2, <3>1, <3>2 DEF NodeGroups
    <3>. QED
        BY <3>3, <3>4
  <2>3. CASE locality = "best_effort"
      BY <1>5, <2>3 DEF NodeGroups
  <2>. QED
      BY <1>1, <2>1, <2>2, <2>3 DEF Localities
<1>7. G # {} /\ Cardinality(G) >= req.shape_hint.nodes
  <2>1. G \subseteq candidates
    <3>1. CASE locality = "same_leaf"
        BY <1>6, <3>1 DEF NodeGroups
    <3>2. CASE locality = "same_spine"
        BY <1>6, <3>2 DEF NodeGroups
    <3>3. CASE locality = "best_effort"
        BY <1>6, <3>3 DEF NodeGroups
    <3>. QED
        BY <1>1, <3>1, <3>2, <3>3 DEF Localities
  <2>2. IsFiniteSet(G) /\ Cardinality(G) \in Nat
    <3>1. G \subseteq Nodes
        BY <2>1 DEF CandidateNodes
    <3>. QED
        BY <3>1, IdsAssumption, FS_Subset, FS_CardinalityType DEF IdsAssumption
  <2>3. Cardinality(N) <= Cardinality(G)
      BY <1>6, <2>2, FS_Subset
  <2>. QED
      BY <1>1, <1>3, <1>6, <2>2, <2>3
<1>8. ChooseNodes(candidates, req.shape_hint.nodes, locality) # {}
  <2>1. candidates \in SUBSET Nodes
      BY DEF CandidateNodes
  <2>. HIDE DEF candidates, locality
  <2>. QED
      BY <1>1, <1>6, <1>7, <2>1, LargeGroupIsChosen
<1>. QED
    BY <1>4, <1>8 DEF SelectGpus

\* SearchIsComplete holds in every state: try_allocate finds a gang whenever some free
\* GPUs on healthy nodes would do, for every cluster and every request.
THEOREM SearchFindsWhatFits == Spec => []SearchIsComplete
<1>1. SearchIsComplete
  <2>1. ASSUME NEW req \in Requests, req.gpu_count > 0, SelectGpus(req) # {}
        PROVE  Feasible(req)
    <3>1. PICK gpu_ids \in SelectGpus(req) : TRUE
        BY <2>1
    <3>. QED
        BY SelectedAreEligible, SelectedAreWhole, SelectedAreLocal DEF Feasible
  <2>2. ASSUME NEW req \in Requests, req.gpu_count > 0, Feasible(req)
        PROVE  SelectGpus(req) # {}
      BY <2>2, FeasibleIsFound DEF Feasible
  <2>. QED
      BY <2>1, <2>2 DEF SearchIsComplete
<1>. QED
    BY <1>1, PTL
=============================================================================
