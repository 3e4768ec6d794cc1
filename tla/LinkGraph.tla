------------------------------ MODULE LinkGraph ------------------------------
(***************************************************************************)
(* engine/topology.py: the directed multigraph of a cluster as it is built *)
(* up.  A graph is two dicts, the data of every vertex and the metrics of  *)
(* every link (u, v, key); data holds the kind of its entity.              *)
(***************************************************************************)
EXTENDS Integers, Sequences, FiniteSets, Functions

CONSTANTS
    NoKey,          \* key=None
    NoLink,         \* no reverse link: bidirectional=False
    Bare            \* the data of a graph node that only add_link made

Kinds == {"gpu", "node", "leaf", "spine", "rail"}

LinkTypes == {"nvlink", "pcie", "rail", "leaf_uplink", "spine_uplink", "inter_pod"}

LinkMetrics == [link_type: LinkTypes, bandwidth_gbps: Nat, latency_us: Nat]

VARIABLES
    vertices,   \* graph.nodes: the data of each
    links       \* graph.edges: the metrics of each

graphVars == <<vertices, links>>

Empty == [vertices |-> <<>>, links |-> <<>>]

Graph == [vertices |-> vertices, links |-> links]

\* The dict d with key x set to y.
Put(d, x, y) == [z \in DOMAIN d \cup {x} |-> IF z = x THEN y ELSE d[z]]

\* The dict d with the items of e.
Updated(d, e) ==
    [x \in DOMAIN d \cup DOMAIN e |-> IF x \in DOMAIN e THEN e[x] ELSE d[x]]

\* add_gpu and the others: re-adding replaces the data and keeps the links.
AddEntity(e, d) ==
    /\ vertices' = Put(vertices, e, d)
    /\ UNCHANGED links

Keys(L, u, v) == {x[3] : x \in {x \in DOMAIN L : x[1] = u /\ x[2] = v}}

\* new_edge_key: the number of parallel links, or the first key after it.
NewKey(L, u, v) ==
    LET n == Cardinality(Keys(L, u, v))
    IN  CHOOSE k \in n..(2 * n) :
            k \notin Keys(L, u, v) /\ \A h \in n..(k - 1) : h \in Keys(L, u, v)

AddEdge(L, u, v, key, metrics) ==
    Put(L, <<u, v, IF key = NoKey THEN NewKey(L, u, v) ELSE key>>, metrics)

\* The vertices with those that an edge creates.
WithEnds(V, ends) == [e \in DOMAIN V \cup ends |-> IF e \in DOMAIN V THEN V[e] ELSE Bare]

\* Without a key each direction gets one of its own.
AddLink(call) ==
    /\ vertices' = WithEnds(vertices, {call.u, call.v})
    /\ LET there == AddEdge(links, call.u, call.v, call.key, call.metrics)
       IN  links' = IF call.back = NoLink THEN there
                    ELSE AddEdge(there, call.v, call.u, call.key, call.back)

\* kind_of and entities_of_kind, of a graph where every vertex has an entity.
OfKind(kind) == {e \in DOMAIN vertices : vertices[e].kind = kind}

edges_of_type(link_type) == {x \in DOMAIN links : links[x].link_type = link_type}

NoneBare == \A e \in DOMAIN vertices : vertices[e] # Bare
=============================================================================
