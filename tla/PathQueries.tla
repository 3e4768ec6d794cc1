----------------------------- MODULE PathQueries -----------------------------
(***************************************************************************)
(* engine/paths.py over a graph that LinkGraph builds.                     *)
(*                                                                         *)
(* The search itself is networkx's: it is modelled by what it returns of   *)
(* the collapsed view it is given.  A tie between parallel links of one    *)
(* bandwidth and latency is not resolved.                                  *)
(***************************************************************************)
EXTENDS LinkGraph, FiniteSetsExt

\* Fault: latency comes first.
IsBetterByLatency(m, n) ==
    \/ m.latency_us < n.latency_us
    \/ m.latency_us = n.latency_us /\ m.bandwidth_gbps >= n.bandwidth_gbps

\* At least as good: more bandwidth, then less latency.
IsBetter(m, n) ==
    \/ m.bandwidth_gbps > n.bandwidth_gbps
    \/ m.bandwidth_gbps = n.bandwidth_gbps /\ m.latency_us <= n.latency_us

Parallel(u, v) == {links[<<u, v, k>>] : k \in Keys(links, u, v)}

\* _best_edge
BestEdge(u, v) == CHOOSE m \in Parallel(u, v) : \A n \in Parallel(u, v) : IsBetter(m, n)

\* Fault: of parallel links the first gives the latency.
SimpleViewOfFirst ==
    [e \in {<<x[1], x[2]>> : x \in DOMAIN links} |->
        links[<<e[1], e[2], Min(Keys(links, e[1], e[2]))>>].latency_us]

\* Fault: a pair that was seen in one direction is skipped in the other.
SimpleViewOneWay ==
    [e \in {e \in {<<x[1], x[2]>> : x \in DOMAIN links} :
              e = CHOOSE seen \in {e, <<e[2], e[1]>>} : TRUE} |->
        BestEdge(e[1], e[2]).latency_us]

\* _simple_view: the latency of the edge between every two vertices with a link.
SimpleView ==
    [e \in {<<x[1], x[2]>> : x \in DOMAIN links} |-> BestEdge(e[1], e[2]).latency_us]

\* What the search adds up along p, by _weight_attr.
PathWeight(view, p, weight) ==
    IF weight = "hops" THEN Len(p) - 1
    ELSE SumFunction([i \in 1..(Len(p) - 1) |-> view[<<p[i], p[i + 1]>>]])

\* The paths from src, without a vertex twice, of at most so many hops.
SimplePathsFrom(view, src, cutoff) ==
    LET next == [u \in DOMAIN vertices |-> {e[2] : e \in {e \in DOMAIN view : e[1] = u}}]
        paths[n \in 0..cutoff] ==
            IF n = 0 THEN {<<src>>}
            ELSE LET found == paths[n - 1]
                 IN  found \cup UNION {{Append(p, v) : v \in next[p[n]] \ Range(p)}
                                         : p \in {p \in found : Len(p) = n}}
    IN  paths[cutoff]

\* all_paths, between two vertices; cutoff=None is the number of other vertices.
AllPaths(view, src, dst, cutoff) ==
    {p \in SimplePathsFrom(view, src, cutoff) : p[Len(p)] = dst}

NoCutoff == Cardinality(DOMAIN vertices) - 1

\* Every outcome of the search for one best of some paths.
Lightest(view, paths, weight) ==
    LET least == Min({PathWeight(view, p, weight) : p \in paths})
    IN  {p \in paths : PathWeight(view, p, weight) = least}

\* Every outcome of k_shortest_paths: what shortest_simple_paths yields, in order, up
\* to k paths.  There is none where no path is, for it raises.
KShortestPaths(view, src, dst, k, weight) ==
    LET paths == AllPaths(view, src, dst, NoCutoff)
        most  == Min({k, Cardinality(paths)})
        found[n \in 0..most] ==
            IF n = 0 THEN {<<>>}
            ELSE UNION {{Append(s, p) : p \in Lightest(view, paths \ Range(s), weight)}
                          : s \in found[n - 1]}
    IN  IF paths = {} THEN {} ELSE found[most]

\* shortest_path raises where the others do.
ShortestPaths(view, src, dst, weight) ==
    {s[1] : s \in KShortestPaths(view, src, dst, 1, weight)}

\* _summarize: the figures of a path, of the real multigraph.  Where the path
\* meets a vertex without an entity kind_of raises.
Summary(p) ==
    LET hops     == [i \in 1..(Len(p) - 1) |-> BestEdge(p[i], p[i + 1])]
        count(T) == Cardinality({i \in DOMAIN hops : hops[i].link_type = T})
        met(K)   == Cardinality({i \in DOMAIN p : vertices[p[i]].kind = K})
    IN  [hop_count |-> Len(p) - 1,
         total_latency_us |-> SumFunction([i \in DOMAIN hops |-> hops[i].latency_us]),
         bottleneck_bandwidth_gbps |-> Min({hops[i].bandwidth_gbps : i \in DOMAIN hops}),
         distinct_leaf_switches |-> met("leaf"),
         distinct_spine_switches |-> met("spine"),
         spine_uplink_hops |-> count("spine_uplink"),
         inter_pod_hops |-> count("inter_pod")]

\* Where the links of the multigraph lead from src, in any number of hops.
ReachedFrom(src) ==
    LET within[n \in 0..NoCutoff] ==
            IF n = 0 THEN {src}
            ELSE LET nearer == within[n - 1]
                 IN  nearer \cup {x[2] : x \in {x \in DOMAIN links : x[1] \in nearer}}
    IN  within[NoCutoff]

\* has_path, which searches the multigraph.
HasPath(src, dst) == dst \in ReachedFrom(src)

-----------------------------------------------------------------------------
(* Properties.                                                             *)

\* has_path asks the multigraph and the others ask the collapsed view: they agree
\* on what can be reached (paths.py:84-85, 119-125).
QueriesAgree ==
    LET view == SimpleView
    IN  \A src \in DOMAIN vertices :
            {p[Len(p)] : p \in SimplePathsFrom(view, src, NoCutoff)}
              = {dst \in DOMAIN vertices : HasPath(src, dst)}

\* "two graph entities (typically GPUs)" (paths.py:1).
GpuPairs == {e \in OfKind("gpu") \X OfKind("gpu") : e[1] # e[2]}

\* The figure of the result that a weight stands for.
Cost(p, weight) == IF weight = "hops" THEN Summary(p).hop_count ELSE Summary(p).total_latency_us

\* The order that the view is searched in is the order of the figures reported, which
\* the multigraph gives: "The `k` best loopless paths from `src` to `dst`, best
\* first" (paths.py:109), none of those left out having a lower one.
BestComeFirst ==
    LET view == SimpleView
    IN  NoneBare =>
            \A e \in GpuPairs : \A weight \in {"latency", "hops"} :
                LET costs == [p \in AllPaths(view, e[1], e[2], NoCutoff) |-> Cost(p, weight)]
                IN  \A s \in KShortestPaths(view, e[1], e[2], 2, weight) :
                        \A i \in DOMAIN s : \A p \in DOMAIN costs \ {s[j] : j \in 1..(i - 1)} :
                            costs[s[i]] <= costs[p]

\* The bottleneck that is reported is the widest the parallel links along the path
\* can give (paths.py:47-50, 76): as wide as b exactly when each hop has a link so wide.
BottleneckIsWidest ==
    LET view       == SimpleView
        bandwidths == {links[x].bandwidth_gbps : x \in DOMAIN links}
        widest     == [e \in DOMAIN view |->
                          {b \in bandwidths : \E m \in Parallel(e[1], e[2]) : b <= m.bandwidth_gbps}]
    IN  NoneBare =>
            \A e \in GpuPairs : \A p \in AllPaths(view, e[1], e[2], NoCutoff) :
                LET bottleneck == Summary(p).bottleneck_bandwidth_gbps
                IN  \A b \in bandwidths :
                        b <= bottleneck
                          <=> \A i \in 1..(Len(p) - 1) : b \in widest[<<p[i], p[i + 1]>>]
=============================================================================
