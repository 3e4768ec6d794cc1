# A verification model of gpu-cluster-sim

gpu-cluster-sim is a Python library that simulates the control plane of a GPU
cluster: a topology, a ledger that grants whole gangs of GPUs to jobs, quotas
and rate limits for a hierarchy of tenants, checkpoints and risk estimates, and
formats to store topologies and quota policies. This directory holds TLA+
modules that model its core, TLC configurations that check them on small
instances, and proofs, checked by TLAPS, that hold for every instance.

The library is single-threaded and keeps its state in Python objects. A public
call either returns with that state changed or raises before its first
assignment (the exceptions are named below), so a call is one action. What makes
it hard is not interleaving inside a call but the order of calls: grants,
releases, re-grants under a reused job id, nodes drained under running jobs,
quotas and tenants edited while GPUs are charged, clocks that are passed by the
caller, and files that people edit.

## 1. Inventory

| component | source | state | operations |
|---|---|---|---|
| allocation ledger | `engine/allocation.py`, `engine/deallocation.py` | `_gpu_to_job`, `_allocations`, `_history` | `try_allocate`, `release` and its wrappers `complete_job`, `cancel_job`, `preempt_job`, `release_on_demand` |
| cluster topology | `engine/topology.py`, `models/node.py`, `models/gpu.py` | the graph: entities with their data, links | `add_gpu`, `add_node`, `add_leaf`, `add_spine`, `add_rail`, `add_link`, queries |
| quota policy | `engine/quota_policy.py` | `_tenants`, `_quotas`, `_rate_limits` | `add_tenant`, `add_quota`, `add_rate_limit`, the walks `ancestor_chain`, `descendants_of` |
| quota ledger | `engine/quotas.py:22-62` | `_usage` | `try_reserve`, `release`, `has_capacity` |
| rate limiter | `engine/quotas.py:65-104` | `_tokens`, `_last_refill` | `allow` |
| quota files | `engine/quota_formats/` | a policy under construction | `export`, `import_` |
| checkpoint ledger | `engine/checkpointing.py` | `_checkpoints`, a telemetry store | `save_checkpoint`, `load_checkpoint`, intervals and overhead |
| risk | `engine/risk.py` | none; reads both ledgers | `preemption_probability`, `unprotected_work_s`, `expected_data_loss_s` |
| telemetry | `engine/telemetry.py` | three append-only histories | `record_*`, aggregates |
| paths | `engine/paths.py` | none; reads the graph | `has_path`, `shortest_path`, `k_shortest_paths`, `all_paths` |
| topology formats | `engine/formats/` | a directory or a file | `export`, `import_` |
| sample clusters | `samples/builders.py` | a topology under construction | `populate_pod`, `build_single_az`, `build_datacenter_mixed_gpus`, `build_multi_az_region` |
| scripts | `scripts/` | the directories of `data/` | remove, build and export the samples again |

How they interact. `try_allocate` reads the topology and the ledger and writes
the ledger; nothing tells the ledger when a node changes. The quota ledger and
the rate limiter keep a reference to a policy and read it at every call, while
its owner may edit it between calls. The quota ledger knows nothing of gangs: its
caller charges and releases GPUs beside `try_allocate` and `release`. Risk reads
the history of the allocation ledger and the latest checkpoint of a job. Formats
build or write a topology or a policy. There are no callbacks and no threads.

What makes each part correct.

- *Allocation ledger*: all or nothing; a GPU serves one job; the two dicts
  agree; a gang has the number, shape, hardware and locality its job asked for
  and ranks that keep a ring on a node; the search finds a gang when one exists;
  a drained node is not refilled; no GPU is billed twice for one moment.
- *Quota policy and ledger*: the hierarchy is a forest; no subtree is charged
  above a quota of it; checking upwards and summing downwards agree; a strict
  partition guarantees every user's share.
- *Rate limiter*: no bucket admits more than its rate, a rejection costs
  nothing, and no bucket stays empty for good.
- *Quota files*: parents come first, nothing is lost, cycles and missing parents
  are refused, the import ends, a policy survives the round trip.
- *Checkpoints and risk*: every checkpoint is found under its identifier; risk
  is counted from the newest; overhead is a fraction; an estimate about one QoS
  class moves for a cause of that class only.
- *Paths*: queries on the collapsed graph answer for the multigraph, and the
  order in which paths come is the order of the figures reported for them.
- *Sample clusters*: what placement reads from fields is what the links say;
  a switch is shared exactly by what was built under it in one pod; a best path has the figures of the tier
  that separates its ends, and the nearer tier is the quicker one.
- *Formats*: what was exported is what is imported, also after a second export
  into the same directory; what a crash leaves of a first export is refused; seen
  through its imports, a path changes in one step.

## 2. Modules

| module | what it is |
|---|---|
| `ClusterTopology` | the hardware as constants, the health of every node as the one variable |
| `GangReservation` | abstract: gangs of GPUs granted and given back whole |
| `AllocationLedger` | the ledger and its search; extends `ClusterTopology`; refines `GangReservation` |
| `PlacementClaims` | a claim of a comment that the search does not keep |
| `MCAllocationLedger` | clusters and requests for TLC |
| `AllocationLedgerProofs` | proofs about `AllocationLedger` |
| `CheckpointLedger` | checkpoints of every job and the cost of their writes |
| `JobRisk` | the estimates of `risk.py`; composes `AllocationLedger` and `CheckpointLedger` under one clock |
| `MCJobRisk` | jobs over time for TLC |
| `JobRiskProofs` | proofs about `JobRisk` |
| `LinkGraph` | the directed multigraph as it is built |
| `PathQueries` | the path queries and their figures; extends `LinkGraph` |
| `SampleClusters` | pods and regions as the builders make them; extends `PathQueries` |
| `MCSampleClusters` | sizes of pods and regions for TLC |
| `SampleClustersProofs` | proofs about `SampleClusters` and `PathQueries` |
| `AtomicStore` | abstract: a topology appears at its path in one step |
| `TopologyStore` | both topology formats, file by file, with crashes; extends `LinkGraph`; refines `AtomicStore` |
| `MCTopologyStore` | a small fabric for TLC |
| `TopologyStoreProofs` | proofs about `TopologyStore` |
| `QuotaPolicy` | tenants, quotas and limits; the two walks as least closed sets |
| `QuotaLedger` | charges under a policy that changes; extends `QuotaPolicy` |
| `QuotaWalks` | the loops of the two walks, turn by turn, beside the closed sets; extends `QuotaLedger` |
| `MCQuotaLedger` | tenants and quotas for TLC |
| `QuotaLedgerProofs` | proofs about `QuotaLedger` and `QuotaWalks` |
| `RateLimiter` | token buckets under any clock; extends `QuotaPolicy` |
| `MCRateLimiter` | rate limits for TLC |
| `RateLimiterProofs` | proofs about `RateLimiter` |
| `QuotaImport` | ordering and importing a quota file; extends `QuotaPolicy` |
| `MCQuotaImport` | files for TLC |
| `QuotaImportProofs` | proofs about `QuotaImport` |
| `Induction` | induction over numbers and finite sets, and sums, for the proofs |

A definition whose comment starts with "Fault:" is a plausible error in the
definition after it and is used by nothing; `PROJECT.json` pairs each property
with one that TLC finds when it takes the place of the original.

### Allocation

A Python dict is a function whose domain is the set of its keys, so
`gpu_to_job` and `allocations` grow and shrink as the dicts do. The tuple
`gpu_ids` is the function from each GPU of the gang to its index. Identifiers of
nodes are numbers, ordered as `sorted()` orders the strings; `AddedAt` is the
insertion order of the graph, which the dicts of `_choose_nodes` inherit. Where
the code iterates a set of spines, whose order changes between processes, the
model takes any first group. `TryAllocate` is the whole of `try_allocate`:
feasible GPUs, candidate nodes, grouping, choice, slicing by rail, ranking and
both assignments; a call that raises or returns `None` changes nothing and is a
stuttering step. A request that `NodeMeetsJob` refuses, a job that already
holds a gang, a shape hint that does not multiply out and one of no nodes or no GPUs,
which is granted a gang of none, are all there.

Containment is kept twice: a node lists its GPUs and a GPU names its node. The search
looks for free GPUs in the list and reads the node of a chosen one from its name. The
model has both, and assumes of them what the builders see to (`BuiltForPlacement`): a
listed GPU names the node that lists it (`ListingAssumption`). A GPU that names a node
which does not list it, as a populated pod leaves behind, is allowed; the run `placement`
has one, GPU 32, and no gang ever gets it.

`SetHealth` is a caller that adds a node again with another health. `Tick` is
the clock: timestamps are `time.time()`, or readings of one clock that the
caller passes. `snapshot`, `job_for_gpu` and `free_gpu_count` only read.
`node_ids` is determined by `gpu_ids` and is not kept. Fields of a request that
nothing in the source reads are left out.

### Checkpoints and risk

`JobRisk` is one system of two ledgers that share job ids and a clock and nothing
else: its steps are those of `AllocationLedger` and `Save`, which is
`save_checkpoint` with its record in the telemetry store. A caller passes the time
a checkpoint was taken, so `Save` may come later than it (`Delays`) and two may
come in the wrong order. The estimate is then counted from a checkpoint that is not the
newest, and `RiskIsSinceNewest` says by how much it may overstate the risk: the delay of
a save. `NoClass` stands for the class `None`, of which an estimate is about every release. Fractions are records of a numerator and a denominator.

Two things the code does by design are worth knowing. The latest checkpoint is the
one saved last, not the one taken last. And a job that comes back under its id
keeps its earlier checkpoints, from which it resumes; `unprotected_work_s` then
counts the time between the two tenures, which is what its docstring says
(time since the last checkpoint) although no work was done in it.

### Links and paths

A graph is two dicts: data by identifier and metrics by (from, to, key). The kind
is fixed for each identifier. `AddLink` makes bare vertices of ends that are not
there yet, as networkx does, and without a key takes the next free one in each
direction. `has_path` is asked of the multigraph, the other queries of the
collapsed view; both are modelled by what networkx may return. Where several paths
are equally good, `ShortestPaths` and `KShortestPaths` hold every outcome, and where there
is no path, for which networkx raises `NetworkXNoPath`, none. `HasPath`
is defined by rounds of neighbours in the multigraph and the others by sequences of
vertices in the view, so `QueriesAgree` compares two definitions. `Summary` reads
the multigraph again: that the view was searched by the latency of the link whose
figures are then reported is `BestComeFirst`.

### Sample clusters

`PopulatePod` is `populate_pod`, whole: spines, leaves under every spine, nodes,
GPUs with their PCIe links and the mesh of NVLinks. It works on the topology it is
given, so it may meet what an earlier call with the same names added; entities are then
overwritten and links added beside the old ones. It is the recursive function `Populated`
of a topology and a call, one step for the spines and one for each rack group; the loops
inside a group add entities and links that are all different, so they are one update of
the data and one of the links (`GroupData`, `GroupPairs`). `BuildPod` and `BuildRegion` start
from an empty topology, as the builders do. `calls` and `azs` are history variables:
the calls a topology came from. Sizes of racks, latencies and bandwidths are those of the
calls; models of hardware and oversubscription are read by nothing here. The
latencies of the MC module are the defaults of `builders.py` in halves of a
microsecond.

### Topology files

An export is a sequence of writes. `StartExport` is where it has passed its first
loop, in which a bare vertex raises before anything is written; `WriteFile` writes one
file whole; `Restart` ends the process at any moment, perhaps with one file cut,
and with it the topology in memory. Chunks are written before the metadata that
names them. A cut file is as good as none: Parquet has its footer last, a cut XML
document does not parse, and `graph.yml` is shorter than a buffer, so a cut one is empty
and has no keys. `Regenerate` is `generate_sample_data.main`, which removes the old
directory while it ignores errors (any part of it may survive), then exports GraphML
and only then the chunks.

`saved` and `unsettled` are history variables: for each format the topology of the last
export that finished, and the formats for which another one was begun, or a removal
stopped half way, since. What is loaded from a path in that state is claimed nowhere.
`Import` is the set of what `import_` may return: empty when it raises, and with more
than one member where two chunks of an unsettled directory hold the same link.
GraphML loses what has no text: networkx reads an empty element as no attribute.

`AtomicStore` keeps of all this only what can be imported from each path. The
refinement mapping is `Import` itself.

### Quotas

`Ancestors` and `Descendants` are the least sets closed under one step of the
walk. `QuotaWalks` has the loops of the source: what `current` and `frontier` are after
each turn, and what has been appended when they are `None` and empty, within as many turns
as there are tenants. `LoopsComputeTheSets` says that this is enough and compares the
lists with the sets. On a cycle the loops of the source do not return; `ChainEnds` is the guard of the
calls that start with one. `SubtreeUsage` is the number of pairs (tenant, charge),
which is the sum that `subtree_usage` adds up.

`Spec` lets `add_tenant` and `add_quota` happen at any time, which is what the
code allows. `CarefulSpec` restricts the operator: each tenant is registered
once, before GPUs are charged to it, and no quota is set below what is in use.
The code checks none of that; the two specifications tell what depends on it.

### Rate limits

Tokens are whole parts of `1/Unit`. `Admit` and `Reject` are the two outcomes of
`allow`; both refill every bucket of the chain. `admitted` is a history variable
of the model: the time and the buckets of every admission. `Spec` takes calls at
any time in any order, `SetOnceSpec` replaces no limit, `SteadySpec` has a clock
that does not go back.

### Quota files

`OrderRound` is one turn of the `while` loop of `_order_by_hierarchy`; `AddEntry`
one turn of the `for` loop of `import_` with its three `add_` calls. `With` is an
update of a dict that is made only when the entry has the field. Two entries of a
file may be equal, so the lists `remaining` and `ordered` hold positions in the file;
`remaining`, which always keeps the order of the file, is the set of them. `import_` drops
the policy when a call raises, so `refused` is final. `Exported` is what `export`
would write for the policy, as a set: the order of entries is not kept.

## 3. Runs

| run | instance | states | shows |
|---|---|---|---|
| `placement` | 4 nodes, 8 GPUs, 3 leaves, 2 spines, 5 jobs, 7 requests, 3 health values, 6 grants, clock 0..1 | 290,952 views | shape, locality, ranks, completeness of the search, draining |
| `lifetimes` | 2 nodes, 3 GPUs, 2 jobs, 3 requests of 2 classes, clock 0..2, 3 grants, 2 checkpoints | 808,521 views | types, the dicts agree, no overlap of tenures, refinement, checkpoints, risk |
| `quota_careful` | 4 tenants, quotas 1 and 2, charges 1 and 2 | 14,699 up to symmetry | quotas hold, forest, guaranteed shares, borrowing |
| `quota_live` | 3 tenants, quotas -1, 1, 2, any edit | 53,730 | no charge above a ceiling, walks agree, loops are the sets |
| `rate_conforms` | 2 tenants, 2 limits, any clock in 0..2, 4 admissions | 810,573 up to symmetry | the rate holds under any clock |
| `rate_steady` | 2 tenants, 4 limits, clock to 3, 2 admissions, limits replaced | 177,390 | rejections are free, windows restore a token |
| `import_files` | 216,000 files of up to 3 entries about 3 tenants | 699,491 | order, causes of refusal, round trip, termination |
| `sample_clusters` | 2 pods populated up to 3 times from 3 shapes, regions of up to 3 AZs | 310 | path queries and their figures, containment, shared spines, tiers |
| `fabric` | 3 entities, 4 kinds of links, both formats, 2 exports or regenerations, crashes | 661,578 | exports are loaded, cut and removed ones are refused, the store is atomic |
| `roomy_nodes` | 4 nodes | violated | CPUs of a node are promised twice |
| `quota_forest` | 3 tenants | violated | a tenant added again below itself closes a cycle |
| `empty_node` | 3 entities, 1 export | violated | GraphML does not give back a node without GPUs |

Why the bounds are enough. The search reads three things about a node: whether
it qualifies, its leaf and its place in two orders. Four nodes in which the two
orders differ, a leaf with two nodes and two spines that share one leaf give
groups of which the first is too small, groups that overlap, and ties. Four
jobs on seven GPUs fragment nodes, block a gang behind others and free its
GPUs in any order; a fifth asks for gangs of none, and an eighth GPU is listed by no
node. Six grants let jobs come back after their release. In `placement` the clock only
has to move; in `lifetimes` its three values tell overlapping tenures from adjacent ones
and a checkpoint that is saved late from one that is older. Three
tenants make a chain of three, two siblings and cycles of one, two and three; four
add a second level of siblings. Rates need two tenants for a shared bucket, and
four admissions exceed every capacity that the limits have. Files of three
entries contain every order of a chain of three, a missing parent, a cycle of
three and a duplicate above its own descendant. Two checkpoints are enough to be out
of order, to lie in two tenures and to have one interval; estimates change with
each release, of which there are up to three. The fabric has two routes from a GPU
to its switch, parallel links of which one is wider and the other quicker, a link with
two directions that differ, and one that replaces another under its key. Two exports
leave chunks that the second does not name, and a regeneration after an export meets
a directory that it may fail to empty. Of the sample clusters the states are few and
large: up to three pods, with two groups of one name, with two sizes of node, without a
spine and with two, populated again with narrower and quicker links beside the old ones.
Three AZs are the least for which a mesh is not a chain. The graphs of that run give the
path queries ties, parallel links whose widest is not the quickest, and vertices that
cannot be reached.

`placement` compares states by `MCPlacementView`, which keeps of the history only its
length and of the times only the clock: no action is enabled, and no property of
that run is decided, by anything else of them, so states with one view behave alike.
`lifetimes` compares them by `MCRiskView`, which keeps everything but which of the three
reasons a gang was released for that was not preempted: estimates and the refinement tell
no more apart.
`roomy_nodes` keeps the clock at 0. `MaxTime` bounds the clock;
`MaxGrants`, `MaxUsage` and `MaxAdmitted` bound the lengths of behaviours
and are guards of `TryAllocate`, `TryReserve` and `Admit`; `MaxCheckpoints` of `Save`,
`MaxLinks` of `AddLink`, `MaxExports` of `StartExport`, `Regenerate` and `Edit`, `MaxPods`
of `PopulatePod` and `MaxAzs` of `BuildRegion`. Deadlock checking
is off in `import_files`, for an import ends; in `lifetimes`, for once clock, grants
and checkpoints are used up nothing is left to call; and in `fabric`, `empty_node` and
`sample_clusters`, whose callers may stop likewise.

Fairness. Only `QuotaImport` states any: weak fairness of its next-state
relation, because `import_` is one sequential call that runs until it returns or
raises. Nothing else in the library runs by itself, so nothing else is promised
to happen.

## 4. Disagreements between the code and what is said of it

1. `allocation.py:143-144` says that GPUs are on nodes roomy enough for the job.
   Each job is compared with the node's totals, whatever runs there already
   (`roomy_nodes`).
2. `models/quota.py:12-13` and `data/README.md:83` describe a forest. `add_tenant`
   accepts a tenant that is already registered under any registered parent,
   itself and its descendants included; `ancestor_chain` then never returns
   (`quota_forest`).
3. `_codec.py:4-5` says that joined tuples are reversed on decode. GraphML gives back
   no attribute for an empty string, so a topology with a node without GPUs is
   exported and cannot be loaded (`empty_node`).

More observations follow from what is modelled but have no run of their own.

- `models/quota.py:37` calls a limit's burst one-off, while a bucket of capacity
  `max_submissions + burst` refills to the brim, the burst included, whenever it is left
  alone for long enough. `RateConforms` is the bound that the code keeps, with the refill.
- Times are the caller's to pass. A release that is stamped before its grant has a negative
  duration, tenures stamped out of order may overlap, and the overhead of checkpoints
  saved out of order is not a fraction; nothing is checked. `TypeOK`, `TenuresDisjoint`
  and `OverheadIsFraction` are stated for one clock, or for checkpoints in order.
- The order of the tiers rests on the latencies: with defaults of NVLink at twice those of
  PCIe or more, or a pod with links of its own, `NearerIsQuicker` claims nothing, and
  placement, which never reads a latency, takes no notice.
- A pod without spines is built without complaint. Its leaves share nothing, so no gang
  of several leaves is placed there under same-spine locality (`SharedSpineIsPod`), and
  under best effort it is placed on GPUs that cannot reach each other (`AllAreJoined`).
- A quota is a ceiling for charges (`NoChargeAboveCeiling` is proved) but not for edits
  of the policy: one that is lowered, a tenant moved, or one registered after it was
  charged leaves usage above it, which is why `QuotaRespected` is stated of
  `CarefulSpec`.
- A quota file with two entries for one tenant passes the test for cyclic parents
  (`yaml_format.py:81-85`) and imports as a cycle.
- `allocation.py:9-10` says that the search prefers fewer distinct leaves. Under best
  effort, and among the nodes of a spine, it takes the smallest names.
- Each node's free GPUs are sliced on their own (`allocation.py:164`), so the GPUs of one
  gang may be on other rails on each of its nodes; the module's comment (lines 11-12)
  claims no more.
- A checkpoint is appended before its throughput is computed and its telemetry recorded
  (`checkpointing.py:47`): a duration that makes that raise leaves a checkpoint without a
  record of its cost.
- A path through a vertex that was only ever the end of a link makes the summary raise a
  KeyError where `has_path` answers; `BestComeFirst` and `BottleneckIsWidest` are about
  graphs without one (`NoneBare`).
- `latest_node` and its like return what was recorded last, not the reading with the
  latest time.

## 5. Proofs

The eight modules with theorems are checked by tlapm with no obligation left out, for
every value of the constants that meets the assumptions.

*Assumptions.* `IdsAssumption`, `DataAssumption`, `PositionsAssumption`: finite
sets of nodes (numbered) and GPUs, typed data, no two GPUs of a node on one rail
(`rail_index` is a GPU's position in its node) and no two nodes at one place of
the insertion order. `ListingAssumption`: a listed GPU names the node that lists it.
`LedgerAssumption`: finitely many jobs, typed requests, 0 is
a grace period. `PolicyAssumption`, `QuotaAssumption`: finitely many tenants,
integer quotas, natural charges. `UnitAssumption`: `Unit` is a positive multiple
of every window. `FilesAssumption`: a file is a finite sequence of typed entries.
`RiskAssumption`: steps, durations and delays are natural numbers, and no class is no
class. `SamplesAssumption`:
pods, groups and sizes are natural numbers, the metrics of a link type are of that type,
and an AZ has a spine (`build_multi_az_region` gives each two). `LatenciesAssumption`: the
default latencies are positive, and that of NVLink is less than twice that of PCIe, as 0.5
is less than twice 1.0. `StoreAssumption`: the data of an entity is a record with its kind,
and no node's GPUs are one GPU of no name, which the codec could not tell from none.

*Allocation* (`AllocationLedgerProofs`). Types and `LedgerConsistent` are
inductive together. `Consistent` needs that a chosen gang consists of free GPUs
and that a job with a gang gets no other. `WholeGangs` counts: `Smallest(k, S)`
has exactly `k` members when `S` has at least `k` and the order is strict, so
each chosen node gives `gpus_per_node` GPUs and there are `nodes` of them.
`LocalGangs` follows the groups of `NodeGroups`. `RingsStayOnNodes` counts again, with
ranks: sorted by node and then by rail, the GPUs of a gang lie in cells, `gpus_per_node`
of them to a node in a row, and so of two neighbours on a ring only those at the end
of a cell are on different nodes, as many as there are cells. `SearchFindsWhatFits`
goes the other way: the nodes of a gang that would do are candidates of one group, and
their number is the number of its cells (`GridCardinality`); the walk over the groups
meets a large enough one first because places of the insertion order are a bijection,
and `Smallest` takes enough of it. `NeverBilledTwice`
needs that nothing in the history ends after `now` (`RecordsArePast`): a gang is then
granted no earlier than any earlier tenure of its GPUs has ended. `Drains` is an action property
from the same facts. `Implements` maps every step to a step or a stutter of
`GangReservation`, by the refinement mapping at the end of `AllocationLedger`.

*Quotas* (`QuotaLedgerProofs`). `WalksAlwaysAgree` is proved of closed sets
without induction: the complement of a set closed one way is closed the other
way. `NeverChargedAbove` computes the cardinality of charged pairs after
`TryReserve`. `CarefulQuotaRespected` strengthens the invariant by the forest and
by registered parents: a new tenant is a leaf with nothing charged, so its
registration adds nothing to any subtree. `SharesAreGuaranteed` and `TeamsLimit` use
the ceilings of `CarefulQuotaRespected`: what the children of a tenant hold, each
within its own quota, leaves the room that any one of them has in the sum of their
quotas (`PartsFit`), and so in a parent whose quota covers the sum (`ParentHasRoom`).
The ancestors that have the room are then closed upwards, so they are all ancestors,
since those are the least closed set (`RoomAbove`). `LoopsReturnTheSets` joins the loops
with the closed sets in any forest. The walk up meets no tenant twice before it ends, for one
that came back would be on a cycle (`NoTenantComesTwice`), so it ends within as many turns as
there are tenants (`LoopEnds`). The frontiers of the walk down are disjoint lists without
repetitions (`LevelsDiffer`, `ChildrenAreListed`): from a tenant on two of them, parent by
parent, the start of the walk would be found among its own descendants. What is appended is then closed downwards and
names no tenant twice, and the charges of its tenants add up to the number of
charged pairs (`SumCountsCharges`).

*Rate limits* (`RateLimiterProofs`). `RateConforms` is not inductive, for it says
nothing of what a bucket that is not empty may still admit. `Balanced` is: what was
taken since an admission, together with what is left, is at most a full bucket
and the refill since. A refill adds no more than the time that passed times the
rate, also when that time is negative, which is why the clock does not matter.
`WindowIsEnough` needs the opposite bound, that no bucket is overdrawn (`NotOverdrawn`),
under a clock that does not go back: a refill of a whole window then adds a full
bucket's tokens to what is not negative.

*Quota files* (`QuotaImportProofs`). `OrderSound` is inductive together with
`PlacedOnce`: no position is placed twice, nor both placed and left. A round appends
its ready entries in the order of the file, and that such a listing of a finite set of
positions exists is `ListingExists`, by induction on its size. `RefusesForCause` needs two
facts about orders: what is left when nothing is ready is unresolvable
(`StuckIsUnresolvable`), and an order in which everything is placed has no unresolvable
set, for the first of its members to be placed would need a parent before it
(`OrderedIsResolvable`). `ImportsFaithfully` carries `Agrees`: the policy is what the
entries added so far say.

*Sample clusters and paths* (`SampleClustersProofs`). The invariant `BuildInv` says that
the graph is a `Fabric` of the calls it came from: `Wired` (every link joins vertices, has
one back under its key, and is of the type that its place asks for), every vertex has the
data that one of the calls gave it (`MadeBy`), and every entity is joined to what it is
part of (`Contained`); and that the first spines of a region are meshed (`Backboned`).
`PopulatedKeepsFabric` and `PodsAreFabric` are inductions over rack groups and over AZs.
`AddAllAdds` shows that links get new keys whatever keys are taken, because fewer than
`n + 1` keys cannot take all of `n..2n` (`KeyIsNew`). Of that `DuplexLinks` and
`BuiltToPlace` are consequences.

`ReachedIsClosed` and `ReachedIsLeast` say of the rounds of `has_path` that they end with
the least set closed under links, and `PathsAreSimple` of the search in the view that it finds
exactly the paths without a repetition; `QueriesMatch` shortens a walk to such a path and
extends one to the other. `BestEdgeIsBest` gives `BottleneckIsReported` hop by hop;
`WeightIsCost` says that what a path weighs in the view is the figure its summary reports
from the multigraph, whose sums are those of `Induction`, and `KShortestAreBest` that each of
the k paths is the lightest of those that are left.

The tiers need to know more: that every link is one that a call or the backbone put there,
with all that came with it (`Sourced`), and that nothing which a call adds is missing
(`AllInstalled`); both are inductive with `BuildInv` as `TierInv`. That a leaf which a
link leaves was added with a spine (`LeafIsUp`), and one added with a spine is under the
first of its pod (`SpineIsOver`), gives both directions of `SpinesArePods` and
`GpusAreJoined`. The proof of the tiers is by a potential. `Away(h, weight, v)` is what is left of the way from `v` to the GPU `h`,
read off the two identifiers; no hop brings `h` nearer than it weighs, and a hop brings it
as near as it weighs exactly when it goes up towards what the ends share or down to `h`
(`HopsAreFair`, `Onward`). Added up, a path weighs at least `Away` of its start, and exactly
that when all its hops are onward (`PathsAreFair`). Where there is a path at all there is
one like that (`WayExists`): a path leaves only leaves that have a spine and only pods that
are AZs (`PathLeaves`), and siblings are in the mesh of the larger of
their groups. So a best path is onward throughout, which fixes the kinds it passes
(`WayPasses`), and with them its figures, `TiersAreSpanned`; and its latency is `Away`, which
grows with the tier, `NearerAreQuicker`.

*Induction* (`Induction`). The library's induction theorems take a predicate as a
parameter, which the provers here cannot instantiate. This module states them with a set
in its place: `LeastNumber` from the library's theorem that `<` on the natural numbers is
well founded, then `Induct` and `InductOnSets`. A recursive function is proved about by
showing first, by induction, that its equation has a solution on every initial segment
(`SumExists`, `PopulatedStepByStep`), and then reasoning from the equation.

*Checkpoints and risk* (`JobRiskProofs`). `RiskImplementsLedger` maps every step of
the composition to a step or a stutter of `AllocationLedger`, so its types and
everything else proved of it carry over. `SavedIsFound` and `RiskCountsFromNewest`
need `Numbered`: identifiers are positions and no checkpoint is of the future. That a
late save overstates the risk by no more than its delay is `LastIsHardlyOld`: the
checkpoint saved last is older than any other by no more than one of `Delays`, for it was
taken at most so long before it was saved.
`OverheadIsAFraction` adds up writes and intervals side by side: the intervals telescope
to the time between the first and the last checkpoint, and each but the first write fits in
the interval before it (`WritesAgainstIntervals`, by induction on the number of
checkpoints); it needs that every checkpoint has a record of its write (`Recorded`).
`LossHasItsCause` compares the two products that the loss before and after a step stands
for; the history grows only in `Release`, by one record, and records of other classes or
for other reasons never raise the fraction.

*Topology files* (`TopologyStoreProofs`). `DecodeEncode`, `VerticesReturn`,
`LinksReturn` and `SingleFileReturns` show that files which hold all that an export
writes are read back as what was exported, whatever else is in the directory. The
invariant `StoreInv` then says, of a format that is settled, that its files hold
the topology exported last or, when there is none, lack the file that an import needs
(`Settled`); and of an export that runs, that what it has left to write and what it has
written make up the whole (`Underway`). A crash is harmless to a first export
because the metadata is among what is left until everything else is written
(`MarkIsLast`). `StoreIsAtomic` maps every step, format by format (`Moves`), to what
`AtomicStore` allows; all writes but the last are stutters of it when the path was empty.

*Proved and in no run.* `ParentsAreRegistered` (no parent is unregistered, without
which a chain could leave the hierarchy) and `BucketTypeCorrect` (the types of the rate
limiter) are parts of the invariants above.

*Only model-checked.* That an import ends (`ImportEnds`), which is a liveness property and
rests on fairness.

## 6. Not modelled

Telemetry of nodes and links, which is appended and averaged and acted on by nothing.
The three sample quota policies as data: what is claimed of policies of their kind is
checked (`SharesGuaranteed`, `TeamIsTheLimiter`), the names and numbers are not
written out. Identifiers are values, so two that read alike, as those of a pod and a
rack group whose names, joined by a dash, are the same text, are out of reach. Rounding of floats:
tokens, latencies and times are exact. The text of YAML, GraphML and Parquet, logging
and the wording of errors. A tenant's scope, which no operation reads.
`free_gpu_count`, `link_metrics` and other pure reads. The searches of networkx, of
which the results are modelled. Nothing in the source joins the quota ledger with the
allocation ledger, so there is no module that does.

## 7. Plan

1. Done: allocation (`ClusterTopology`, `AllocationLedger`, `GangReservation`),
   checkpoints and risk (`CheckpointLedger`, `JobRisk`), links, paths and sample clusters
   (`LinkGraph`, `PathQueries`, `SampleClusters`), topology files (`TopologyStore`,
   `AtomicStore`), quotas (`QuotaPolicy`, `QuotaLedger`), rate limits (`RateLimiter`),
   quota files (`QuotaImport`).
2. Done: proofs of allocation, checkpoints and risk, topology files, rate limits, quotas,
   quota files, sample clusters and path queries, as in 5.
3. Nodes and links of telemetry, should anything come to act on them.
