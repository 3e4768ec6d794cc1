--------------------------- MODULE ClusterTopology ---------------------------
(***************************************************************************)
(* The part of engine/topology.py that placement reads: which GPU lives on *)
(* which node, which leaf a node hangs off, which spines a leaf reaches,   *)
(* and the health of every node.                                           *)
(*                                                                         *)
(* The hardware is a constant.  A node's health is the one field that      *)
(* changes while jobs run: a caller re-adds the Node with another health,  *)
(* which overwrites the data of the graph node and keeps its position.     *)
(*                                                                         *)
(* An entity's identifier is a number: its rank in the order that sorted() *)
(* gives to the identifier strings of the source.                          *)
(***************************************************************************)
EXTENDS Naturals, FiniteSets

CONSTANTS
    Nodes,         \* node identifiers
    Leaves,        \* leaf switch identifiers
    Spines,        \* spine switch identifiers
    Gpus,          \* GPU identifiers
    Models,        \* GPU models
    NodeHealth,    \* the health values a node is given, "healthy" among them
    NodeData,      \* the Node object of every node, but for its health
    GpuData,       \* the GPU object of every GPU
    SpineUplinks,  \* the pairs (leaf, spine) joined by a SPINE_UPLINK edge
    AddedAt        \* position of every node in the graph's insertion order

Node ==
    [leaf_id: Leaves, gpu_ids: SUBSET Gpus, cpu_count: Nat, host_ram_gb: Nat,
     local_nvme_gb: Nat]

GPU == [node_id: Nodes, rail_index: Nat, model: Models, memory_gb: Nat]

ASSUME IdsAssumption ==
    /\ Nodes \subseteq Nat /\ IsFiniteSet(Nodes)
    /\ IsFiniteSet(Gpus)
    /\ "healthy" \in NodeHealth

ASSUME DataAssumption ==
    /\ NodeData \in [Nodes -> Node]
    /\ GpuData \in [Gpus -> GPU]
    /\ SpineUplinks \subseteq Leaves \X Spines

\* A node lists GPUs that name it.  One that names a node which does not list it is in
\* the graph all the same: populating a pod again may leave some behind.
ASSUME ListingAssumption ==
    \A n \in Nodes : \A g \in NodeData[n].gpu_ids : GpuData[g].node_id = n

\* rail_index is the GPU's position within its node (models/gpu.py), and the
\* graph holds its nodes in one order.
ASSUME PositionsAssumption ==
    /\ \A g, h \in Gpus :
          /\ GpuData[g].node_id = GpuData[h].node_id
          /\ GpuData[g].rail_index = GpuData[h].rail_index
          => g = h
    /\ AddedAt \in [Nodes -> Nat]
    /\ \A n, m \in Nodes : AddedAt[n] = AddedAt[m] => n = m

VARIABLE
    health      \* the health of every node, as its latest add_node left it

TopologyTypeOK == health \in [Nodes -> NodeHealth]

TopologyInit == health \in [Nodes -> NodeHealth]

\* Any health may follow any other: the program never writes the field, an
\* operator does.
AddNode(n, h) == health' = [health EXCEPT ![n] = h]

NodeOf(g) == GpuData[g].node_id

\* The GPUs that name n, whether it lists them or not.
GpusOf(n) == {g \in Gpus : NodeOf(g) = n}

LeafOf(n) == NodeData[n].leaf_id

\* leaf_to_spines.get(leaf_id, ()): a leaf without an uplink is under no spine.
SpinesAbove(n) == {s \in Spines : <<LeafOf(n), s>> \in SpineUplinks}

-----------------------------------------------------------------------------
(* Order: what sorted(ids), list.sort(key=...) and a slice do to a set.     *)

\* The number of elements that sort strictly before x.
Position(x, S, key) == Cardinality({y \in S : key[y] < key[x]})

\* sorted(S, key=key)[:k], as a set.
Smallest(k, S, key) == {x \in S : Position(x, S, key) < k}

\* A node sorts by its identifier, a GPU by its rail.
IdOrder == [n \in Nodes |-> n]

RailOrder == [g \in Gpus |-> GpuData[g].rail_index]
=============================================================================
