-------------------------- MODULE TopologyStoreProofs --------------------------
(***************************************************************************)
(* What is written is what is read back, for every topology and every      *)
(* order of exports, removals and crashes, and TopologyStore implements    *)
(* AtomicStore.                                                            *)
(***************************************************************************)
EXTENDS TopologyStore, TLAPS

\* A graph as add_ operations, add_link and imports leave it.
WellFormed(g) ==
    /\ g = [vertices |-> g.vertices, links |-> g.links]
    /\ g.vertices = [e \in DOMAIN g.vertices |-> g.vertices[e]]
    /\ \A e \in DOMAIN g.vertices : g.vertices[e] = Bare \/ IsData(g.vertices[e])
    /\ g.links = [x \in DOMAIN g.links |-> g.links[x]]
    /\ \A x \in DOMAIN g.links : x[1] \in DOMAIN g.vertices /\ x[2] \in DOMAIN g.vertices

Whole(g) == WellFormed(g) /\ \A e \in DOMAIN g.vertices : g.vertices[e] # Bare

\* F holds all that an export of g writes.
Holds(F, g, f) == \A file \in FilesOf(g, f) : file \in DOMAIN F /\ F[file] = Content(g, file)

-----------------------------------------------------------------------------
(* The codec, and the merging of chunks.                                   *)

LEMMA DecodeEncode ==
    ASSUME NEW d, IsData(d)
    PROVE  Decode(Encode(d)) = d
<1>1. CASE "gpu_ids" \notin DOMAIN d
  BY <1>1 DEF Decode, Encode
<1>2. CASE "gpu_ids" \in DOMAIN d
  <2> DEFINE row == [d EXCEPT !.gpu_ids = Joined(@)]
  <2>1. Encode(d) = row /\ "gpu_ids" \in DOMAIN row /\ row.gpu_ids = Joined(d.gpu_ids)
    BY <1>2 DEF Encode
  <2>2. Split(Joined(d.gpu_ids)) = d.gpu_ids
    BY <1>2 DEF Split, Joined, IsData
  <2>3. Decode(row) = [row EXCEPT !.gpu_ids = d.gpu_ids]
    BY <2>1, <2>2 DEF Decode
  <2>4. [row EXCEPT !.gpu_ids = d.gpu_ids] = d
    BY <1>2 DEF IsData
  <2> QED BY <2>1, <2>3, <2>4
<1> QED BY <1>1, <1>2

LEMMA WholeRows ==
    ASSUME NEW d, IsData(d)
    PROVE  IsWhole(Encode(d)) <=> ("gpu_ids" \in DOMAIN d => d.gpu_ids # <<>>)
<1>1. CASE "gpu_ids" \notin DOMAIN d
  BY <1>1 DEF IsWhole, Encode
<1>2. CASE "gpu_ids" \in DOMAIN d
  <2>1. Encode(d).gpu_ids = Joined(d.gpu_ids) /\ "gpu_ids" \in DOMAIN Encode(d)
    BY <1>2 DEF Encode
  <2> QED BY <1>2, <2>1 DEF IsWhole, Joined, IsData
<1> QED BY <1>1, <1>2

\* Chunks that agree with M and cover it merge into M alone.
LEMMA MergedParts ==
    ASSUME NEW M, NEW chunks,
           M = [x \in DOMAIN M |-> M[x]],
           \A c \in chunks : \A x \in DOMAIN c : x \in DOMAIN M /\ c[x] = M[x],
           \A x \in DOMAIN M : \E c \in chunks : x \in DOMAIN c
    PROVE  Merged(chunks) = {M}
<1> DEFINE keys == UNION {DOMAIN c : c \in chunks}
           values == UNION {Range(c) : c \in chunks}
<1>1. keys = DOMAIN M
  OBVIOUS
<1>2. \A x \in DOMAIN M : M[x] \in values
  BY DEF Range
<1>3. M \in [keys -> values]
  BY <1>1, <1>2
<1>4. M \in Merged(chunks)
  BY <1>3 DEF Merged
<1>5. ASSUME NEW N \in Merged(chunks)
      PROVE  N = M
  <2>1. N \in [keys -> values] /\ \A x \in DOMAIN N : \E c \in chunks : x \in DOMAIN c /\ N[x] = c[x]
    BY <1>5 DEF Merged
  <2>2. DOMAIN N = DOMAIN M /\ \A x \in DOMAIN M : N[x] = M[x]
    BY <2>1, <1>1
  <2>3. N = [x \in DOMAIN N |-> N[x]]
    BY <2>1
  <2> QED BY <2>2, <2>3
<1> QED BY <1>4, <1>5

LEMMA MergedRows ==
    ASSUME NEW chunks, NEW M \in Merged(chunks)
    PROVE  /\ M = [x \in DOMAIN M |-> M[x]]
           /\ \A x \in DOMAIN M : \E c \in chunks : x \in DOMAIN c /\ M[x] = c[x]
BY DEF Merged

-----------------------------------------------------------------------------
(* What an export wrote is what an import returns.                         *)

LEMMA ContentOf ==
    ASSUME NEW g, NEW part
    PROVE  /\ Content(g, Metadata) = Chunks(g)
           /\ Content(g, SingleFile)
                = [vertices |-> [e \in DOMAIN g.vertices |-> Encode(g.vertices[e])],
                   links |-> g.links]
           /\ Content(g, VertexChunk(part)) = VertexRows(g, part)
           /\ Content(g, EdgeChunk(part)) = EdgeRows(g, part)
<1>1. /\ Metadata # SingleFile
      /\ VertexChunk(part) # Metadata /\ VertexChunk(part) # SingleFile
      /\ EdgeChunk(part) # Metadata /\ EdgeChunk(part) # SingleFile
  BY DEF Metadata, SingleFile, VertexChunk, EdgeChunk
<1>2. /\ VertexChunk(part)[1] = "vertex" /\ VertexChunk(part)[2] = part
      /\ EdgeChunk(part)[1] = "edge" /\ EdgeChunk(part)[2] = part
      /\ Metadata[1] = "graph.yml" /\ SingleFile[1] = "graphml"
  BY DEF VertexChunk, EdgeChunk, Metadata, SingleFile
<1>3. Content(g, Metadata) = Chunks(g)
  BY <1>1, <1>2 DEF Content
<1>4. Content(g, SingleFile)
        = [vertices |-> [e \in DOMAIN g.vertices |-> Encode(g.vertices[e])], links |-> g.links]
  BY <1>1, <1>2 DEF Content
<1>5. Content(g, VertexChunk(part)) = VertexRows(g, part)
  BY <1>1, <1>2 DEF Content
<1>6. Content(g, EdgeChunk(part)) = EdgeRows(g, part)
  BY <1>1, <1>2 DEF Content
<1> QED BY <1>3, <1>4, <1>5, <1>6

LEMMA VerticesReturn ==
    ASSUME NEW F, NEW g, Whole(g), Holds(F, g, "graphar")
    PROVE  /\ Metadata \in DOMAIN F /\ F[Metadata] \subseteq DOMAIN F
           /\ \E M : Merged(Rows(F, "vertex")) = {M} /\ Decoded(M) = g.vertices
<1> DEFINE M == [e \in DOMAIN g.vertices |-> Encode(g.vertices[e])]
<1>1. Metadata \in DOMAIN F /\ F[Metadata] = Chunks(g)
  BY ContentOf DEF Holds, FilesOf
<1>2. \A c \in Chunks(g) : c \in DOMAIN F /\ F[c] = Content(g, c)
  BY DEF Holds, FilesOf
<1>3. Named(F, "vertex") = {VertexChunk(g.vertices[e].kind) : e \in DOMAIN g.vertices}
  BY <1>1 DEF Named, Chunks, VertexChunk, EdgeChunk
<1>4. \A e \in DOMAIN g.vertices :
          F[VertexChunk(g.vertices[e].kind)] = VertexRows(g, g.vertices[e].kind)
  BY <1>2, ContentOf DEF Chunks
<1>5. Rows(F, "vertex") = {VertexRows(g, g.vertices[e].kind) : e \in DOMAIN g.vertices}
  BY <1>3, <1>4 DEF Rows
<1>6. Merged(Rows(F, "vertex")) = {M}
  <2>1. M = [e \in DOMAIN M |-> M[e]]
    OBVIOUS
  <2>2. \A c \in Rows(F, "vertex") : \A x \in DOMAIN c : x \in DOMAIN M /\ c[x] = M[x]
    BY <1>5 DEF VertexRows
  <2>3. ASSUME NEW x \in DOMAIN M
        PROVE  \E c \in Rows(F, "vertex") : x \in DOMAIN c
    <3>1. VertexRows(g, g.vertices[x].kind) \in Rows(F, "vertex")
      BY <1>5
    <3>2. x \in DOMAIN VertexRows(g, g.vertices[x].kind)
      BY DEF VertexRows
    <3> QED BY <3>1, <3>2
  <2> QED BY <2>1, <2>2, <2>3, MergedParts
<1>7. Decoded(M) = g.vertices
  <2>1. \A e \in DOMAIN g.vertices : Decode(M[e]) = g.vertices[e]
    BY DecodeEncode DEF Whole, WellFormed
  <2>2. Decoded(M) = [e \in DOMAIN g.vertices |-> g.vertices[e]]
    BY <2>1 DEF Decoded
  <2> QED BY <2>2 DEF Whole, WellFormed
<1> QED BY <1>1, <1>2, <1>6, <1>7

LEMMA LinksReturn ==
    ASSUME NEW F, NEW g, Whole(g), Holds(F, g, "graphar")
    PROVE  Merged(Rows(F, "edge")) = {g.links}
<1>1. F[Metadata] = Chunks(g)
  BY ContentOf DEF Holds, FilesOf
<1>2. Named(F, "edge") = {EdgeChunk(g.links[x].link_type) : x \in DOMAIN g.links}
  BY <1>1 DEF Named, Chunks, VertexChunk, EdgeChunk
<1>3. \A x \in DOMAIN g.links :
          F[EdgeChunk(g.links[x].link_type)] = EdgeRows(g, g.links[x].link_type)
  BY ContentOf DEF Chunks, Holds, FilesOf
<1>4. Rows(F, "edge") = {EdgeRows(g, g.links[x].link_type) : x \in DOMAIN g.links}
  BY <1>2, <1>3 DEF Rows
<1>5. g.links = [x \in DOMAIN g.links |-> g.links[x]]
  BY DEF Whole, WellFormed
<1>6. \A c \in Rows(F, "edge") : \A x \in DOMAIN c : x \in DOMAIN g.links /\ c[x] = g.links[x]
  BY <1>4 DEF EdgeRows
<1>7. ASSUME NEW x \in DOMAIN g.links
      PROVE  \E c \in Rows(F, "edge") : x \in DOMAIN c
  <2>1. EdgeRows(g, g.links[x].link_type) \in Rows(F, "edge")
    BY <1>4
  <2>2. x \in DOMAIN EdgeRows(g, g.links[x].link_type)
    BY DEF EdgeRows
  <2> QED BY <2>1, <2>2
<1> QED BY <1>5, <1>6, <1>7, MergedParts

LEMMA ChunksReturn ==
    ASSUME NEW F, NEW g, Whole(g), Holds(F, g, "graphar")
    PROVE  ImportChunks(F) = {g}
<1>1. PICK M : Merged(Rows(F, "vertex")) = {M} /\ Decoded(M) = g.vertices
  BY VerticesReturn
<1>2. UNION {{x[1], x[2]} : x \in DOMAIN g.links} \subseteq DOMAIN g.vertices
  BY DEF Whole, WellFormed
<1>3. WithEnds(g.vertices, UNION {{x[1], x[2]} : x \in DOMAIN g.links}) = g.vertices
  <2>1. DOMAIN g.vertices \cup UNION {{x[1], x[2]} : x \in DOMAIN g.links} = DOMAIN g.vertices
    BY <1>2
  <2>2. g.vertices = [e \in DOMAIN g.vertices |-> g.vertices[e]]
    BY DEF Whole, WellFormed
  <2> QED BY <2>1, <2>2 DEF WithEnds
<1>4. ImportChunks(F)
        = {Built(V, L) : V \in Merged(Rows(F, "vertex")), L \in Merged(Rows(F, "edge"))}
  BY VerticesReturn DEF ImportChunks
<1>5. ImportChunks(F) = {Built(M, g.links)}
  BY <1>1, <1>4, LinksReturn
<1>6. Built(M, g.links) = g
  BY <1>1, <1>3 DEF Built, Whole, WellFormed
<1> QED BY <1>5, <1>6

LEMMA SingleFileReturns ==
    ASSUME NEW F, NEW g, Whole(g), Holds(F, g, "graphml")
    PROVE  ImportSingleFile(F) = IF HasNodeWithoutGpus(g) THEN {} ELSE {g}
<1> DEFINE V == [e \in DOMAIN g.vertices |-> Encode(g.vertices[e])]
<1>1. SingleFile \in DOMAIN F /\ F[SingleFile] = [vertices |-> V, links |-> g.links]
  BY ContentOf DEF Holds, FilesOf
<1>2. \A e \in DOMAIN g.vertices : IsData(g.vertices[e])
  BY DEF Whole, WellFormed
<1>3. (\A e \in DOMAIN V : IsWhole(V[e])) <=> ~HasNodeWithoutGpus(g)
  BY <1>2, WholeRows DEF HasNodeWithoutGpus
<1>4. Decoded(V) = g.vertices
  <2>1. \A e \in DOMAIN g.vertices : Decode(V[e]) = g.vertices[e]
    BY <1>2, DecodeEncode
  <2>2. Decoded(V) = [e \in DOMAIN g.vertices |-> g.vertices[e]]
    BY <2>1 DEF Decoded
  <2> QED BY <2>2 DEF Whole, WellFormed
<1>5. g = [vertices |-> g.vertices, links |-> g.links]
  BY DEF Whole, WellFormed
<1> QED BY <1>1, <1>3, <1>4, <1>5 DEF ImportSingleFile

\* What an export of g wrote is what an import returns: nothing else, but for a node
\* without GPUs in graphml.
LEMMA RoundTrip ==
    ASSUME NEW F, NEW g, Whole(g), NEW f \in {"graphar", "graphml"}, Holds(F, g, f)
    PROVE  Import(F, f) = IF f = "graphml" /\ HasNodeWithoutGpus(g) THEN {} ELSE {g}
BY ChunksReturn, SingleFileReturns DEF Import

-----------------------------------------------------------------------------
(* What else an import may return, and on what it depends.                 *)

\* Every file is what some export wrote to it.
Written(F) ==
    \A file \in DOMAIN F :
        \E g : /\ Whole(g)
               /\ file \in Chunks(g) \cup {Metadata, SingleFile}
               /\ F[file] = Content(g, file)

\* The file without which there is nothing to import.
Mark(f) == IF f = "graphml" THEN SingleFile ELSE Metadata

LEMMA FileNames ==
    ASSUME NEW g
    PROVE  /\ \A c \in Chunks(g) : c[1] \in {"vertex", "edge"}
           /\ Metadata \notin Chunks(g) /\ SingleFile \notin Chunks(g)
           /\ Metadata # SingleFile
           /\ \A f : Mark(f) \in FilesOf(g, f)
BY DEF Chunks, VertexChunk, EdgeChunk, Metadata, SingleFile, Mark, FilesOf

LEMMA NothingToImport ==
    ASSUME NEW F, NEW f, Mark(f) \notin DOMAIN F
    PROVE  Import(F, f) = {}
BY DEF Import, ImportSingleFile, ImportChunks, Mark

LEMMA SingleFileOnly ==
    ASSUME NEW F, NEW G,
           SingleFile \in DOMAIN F <=> SingleFile \in DOMAIN G,
           SingleFile \in DOMAIN F => F[SingleFile] = G[SingleFile]
    PROVE  Import(F, "graphml") = Import(G, "graphml")
BY DEF Import, ImportSingleFile

LEMMA TreeOnly ==
    ASSUME NEW F, NEW G, Written(F),
           \A file : file # SingleFile =>
               /\ file \in DOMAIN F <=> file \in DOMAIN G
               /\ file \in DOMAIN F => F[file] = G[file]
    PROVE  Import(F, "graphar") = Import(G, "graphar")
<1>1. CASE Metadata \notin DOMAIN F
  BY <1>1, FileNames DEF Import, ImportChunks
<1>2. CASE Metadata \in DOMAIN F
  <2>1. Metadata \in DOMAIN G /\ F[Metadata] = G[Metadata]
    BY <1>2, FileNames
  <2>2. PICK g : F[Metadata] = Chunks(g)
    <3>1. \A g : Content(g, Metadata) = Chunks(g)
      BY ContentOf
    <3> QED BY <1>2, <3>1 DEF Written
  <2>3. SingleFile \notin F[Metadata]
    BY <2>2, FileNames
  <2>4. F[Metadata] \subseteq DOMAIN F <=> G[Metadata] \subseteq DOMAIN G
    BY <2>1, <2>3
  <2>5. CASE ~(F[Metadata] \subseteq DOMAIN F)
    BY <2>4, <2>5 DEF Import, ImportChunks
  <2>6. CASE F[Metadata] \subseteq DOMAIN F
    <3>1. ASSUME NEW part
          PROVE  Rows(F, part) = Rows(G, part)
      <4>1. Named(F, part) = Named(G, part)
        BY <2>1 DEF Named
      <4>2. \A c \in Named(F, part) : F[c] = G[c]
        BY <2>3, <2>6 DEF Named
      <4> QED BY <4>1, <4>2 DEF Rows
    <3> QED BY <1>2, <2>1, <2>4, <2>6, <3>1 DEF Import, ImportChunks
  <2> QED BY <2>5, <2>6
<1> QED BY <1>1, <1>2

\* When part of the tree is gone, what was exported to it is there, or nothing is.
LEMMA PartlyRemoved ==
    ASSUME NEW F, NEW G, NEW g, Whole(g), Holds(F, g, "graphar"),
           DOMAIN G \subseteq DOMAIN F,
           \A file \in DOMAIN G : G[file] = F[file]
    PROVE  Import(G, "graphar") \in {Import(F, "graphar"), {}}
<1>1. CASE Metadata \notin DOMAIN G
  BY <1>1 DEF Import, ImportChunks
<1>2. CASE Metadata \in DOMAIN G /\ ~(Chunks(g) \subseteq DOMAIN G)
  <2>1. G[Metadata] = Chunks(g)
    BY <1>2, ContentOf DEF Holds, FilesOf
  <2> QED BY <1>2, <2>1 DEF Import, ImportChunks
<1>3. CASE Metadata \in DOMAIN G /\ Chunks(g) \subseteq DOMAIN G
  <2>1. Holds(G, g, "graphar")
    BY <1>3 DEF Holds, FilesOf
  <2> QED BY <2>1, RoundTrip
<1> QED BY <1>1, <1>2, <1>3

LEMMA RowsAreData ==
    ASSUME NEW F, Written(F), NEW n \in DOMAIN F, n[1] = "vertex", NEW e \in DOMAIN F[n]
    PROVE  IsData(Decode(F[n][e]))
<1>1. PICK g : /\ Whole(g)
               /\ n \in Chunks(g) \cup {Metadata, SingleFile}
               /\ F[n] = Content(g, n)
  BY DEF Written
<1>2. PICK kind : n = VertexChunk(kind)
  BY <1>1 DEF Chunks, VertexChunk, EdgeChunk, Metadata, SingleFile
<1>3. F[n] = VertexRows(g, kind)
  BY <1>1, <1>2, ContentOf
<1>4. e \in DOMAIN g.vertices /\ F[n][e] = Encode(g.vertices[e])
  BY <1>3 DEF VertexRows
<1> QED BY <1>1, <1>4, DecodeEncode DEF Whole, WellFormed

LEMMA ImportsAreWellFormed ==
    ASSUME NEW F, Written(F), NEW f, NEW g \in Import(F, f)
    PROVE  WellFormed(g)
<1>1. CASE f = "graphml"
  <2>1. PICK h : Whole(h) /\ F[SingleFile] = Content(h, SingleFile)
    BY <1>1 DEF Import, ImportSingleFile, Written
  <2>2. Holds(F, h, "graphml")
    BY <1>1, <2>1 DEF Holds, FilesOf, Import, ImportSingleFile
  <2>3. g = h
    BY <1>1, <2>1, <2>2, SingleFileReturns DEF Import
  <2> QED BY <2>1, <2>3 DEF Whole
<1>2. CASE f # "graphml"
  <2>1. g \in ImportChunks(F)
    BY <1>2 DEF Import
  <2>2. PICK V \in Merged(Rows(F, "vertex")), L \in Merged(Rows(F, "edge")) :
           g = Built(V, L)
    BY <2>1 DEF ImportChunks
  <2> DEFINE ends == UNION {{x[1], x[2]} : x \in DOMAIN L}
  <2>3. g.links = L /\ g.vertices = WithEnds(Decoded(V), ends)
    BY <2>2 DEF Built
  <2>4. DOMAIN g.vertices = DOMAIN V \cup ends
    BY <2>3 DEF WithEnds, Decoded
  <2>5. L = [x \in DOMAIN L |-> L[x]]
    BY MergedRows
  <2>6. ASSUME NEW e \in DOMAIN V
        PROVE  IsData(Decode(V[e]))
    <3>1. PICK c \in Rows(F, "vertex") : e \in DOMAIN c /\ V[e] = c[e]
      BY MergedRows
    <3>2. PICK n \in Named(F, "vertex") : c = F[n]
      BY DEF Rows
    <3>3. n \in DOMAIN F /\ n[1] = "vertex"
      BY <2>1 DEF ImportChunks, Named
    <3> QED BY <3>1, <3>2, <3>3, RowsAreData
  <2>7. \A e \in DOMAIN g.vertices : g.vertices[e] = Bare \/ IsData(g.vertices[e])
    BY <2>3, <2>4, <2>6 DEF WithEnds, Decoded
  <2>8. g.vertices = [e \in DOMAIN g.vertices |-> g.vertices[e]]
    BY <2>3 DEF WithEnds
  <2>9. \A x \in DOMAIN g.links : x[1] \in DOMAIN g.vertices /\ x[2] \in DOMAIN g.vertices
    BY <2>3, <2>4
  <2>10. g = [vertices |-> g.vertices, links |-> g.links]
    BY <2>2 DEF Built
  <2> QED BY <2>3, <2>5, <2>7, <2>8, <2>9, <2>10 DEF WellFormed
<1> QED BY <1>1, <1>2

-----------------------------------------------------------------------------
(* The topology in memory.                                                 *)

LEMMA PutIsWellFormed ==
    ASSUME NEW V, NEW L, WellFormed([vertices |-> V, links |-> L]), NEW e, NEW d, IsData(d)
    PROVE  WellFormed([vertices |-> Put(V, e, d), links |-> L])
<1> DEFINE W == Put(V, e, d)
<1>1. /\ W = [z \in DOMAIN W |-> W[z]]
      /\ DOMAIN W = DOMAIN V \cup {e}
      /\ \A z \in DOMAIN W : W[z] = d \/ (W[z] = V[z] /\ z \in DOMAIN V)
  BY DEF Put
<1>2. /\ \A z \in DOMAIN V : V[z] = Bare \/ IsData(V[z])
      /\ L = [x \in DOMAIN L |-> L[x]]
      /\ \A x \in DOMAIN L : x[1] \in DOMAIN V /\ x[2] \in DOMAIN V
  BY DEF WellFormed
<1> HIDE DEF W
<1>3. \A z \in DOMAIN W : W[z] = Bare \/ IsData(W[z])
  BY <1>1, <1>2
<1>4. WellFormed([vertices |-> W, links |-> L])
  BY <1>1, <1>2, <1>3 DEF WellFormed
<1> QED BY <1>4 DEF W

LEMMA EdgeIsWellFormed ==
    ASSUME NEW V, NEW L, WellFormed([vertices |-> V, links |-> L]),
           NEW u \in DOMAIN V, NEW v \in DOMAIN V, NEW key, NEW metrics
    PROVE  WellFormed([vertices |-> V, links |-> AddEdge(L, u, v, key, metrics)])
<1> DEFINE M == AddEdge(L, u, v, key, metrics)
<1>1. PICK k : M = Put(L, <<u, v, k>>, metrics)
  BY DEF AddEdge
<1>2. DOMAIN M = DOMAIN L \cup {<<u, v, k>>} /\ M = [y \in DOMAIN M |-> M[y]]
  BY <1>1 DEF Put
<1> HIDE DEF M
<1>3. WellFormed([vertices |-> V, links |-> M])
  BY <1>2 DEF WellFormed
<1> QED BY <1>3 DEF M

LEMMA EndsAreWellFormed ==
    ASSUME NEW V, NEW L, WellFormed([vertices |-> V, links |-> L]), NEW ends
    PROVE  WellFormed([vertices |-> WithEnds(V, ends), links |-> L])
BY DEF WellFormed, WithEnds

LEMMA EditKeepsGraph ==
    ASSUME WellFormed(Graph), Edit
    PROVE  WellFormed(Graph')
<1>1. CASE \E e \in Entities : \E d \in Data[e] : AddEntity(e, d)
  BY <1>1, StoreAssumption, PutIsWellFormed DEF AddEntity, Graph
<1>2. CASE \E call \in LinkCalls : AddLink(call)
  <2>1. PICK call \in LinkCalls : AddLink(call)
    BY <1>2
  <2> DEFINE V == WithEnds(vertices, {call.u, call.v})
             there == AddEdge(links, call.u, call.v, call.key, call.metrics)
             back == AddEdge(there, call.v, call.u, call.key, call.back)
  <2>2. call.u \in DOMAIN V /\ call.v \in DOMAIN V
    BY DEF WithEnds
  <2>3. vertices' = V /\ links' \in {there, back}
    BY <2>1 DEF AddLink
  <2> HIDE DEF V
  <2>4. WellFormed([vertices |-> V, links |-> links])
    BY EndsAreWellFormed DEF Graph, V
  <2>5. WellFormed([vertices |-> V, links |-> there])
    BY <2>2, <2>4, EdgeIsWellFormed
  <2> HIDE DEF there
  <2>6. WellFormed([vertices |-> V, links |-> back])
    BY <2>2, <2>5, EdgeIsWellFormed
  <2> QED BY <2>3, <2>5, <2>6 DEF Graph
<1> QED BY <1>1, <1>2 DEF Edit

-----------------------------------------------------------------------------
(* The invariant.                                                          *)

\* What a path that is not in danger holds: what was exported last, or no mark.
Settled(f) ==
    \/ saved[f] = {} /\ Mark(f) \notin DOMAIN files
    \/ \E g : saved[f] = {g} /\ Whole(g) /\ Holds(files, g, f)

\* An export has written all but its pending files, the mark among them; what it
\* overwrites is in danger.
Underway ==
    /\ writing = [format |-> writing.format, pending |-> writing.pending, then |-> writing.then]
    /\ writing.format \in Formats
    /\ Whole(Graph)
    /\ writing.pending \subseteq FilesOf(Graph, writing.format)
    /\ Mark(writing.format) \in writing.pending
    /\ \A file \in FilesOf(Graph, writing.format) \ writing.pending :
          file \in DOMAIN files /\ files[file] = Content(Graph, file)
    /\ writing.format \in unsettled \/ saved[writing.format] = {}
    /\ \/ writing.then = <<>>
       \/ writing.then = <<"graphar">> /\ writing.format = "graphml" /\ "graphar" \in Formats

StoreInv ==
    /\ WellFormed(Graph)
    /\ Written(files)
    /\ saved = [f \in Formats |-> saved[f]]
    /\ unsettled \subseteq Formats
    /\ \A f \in Formats \ unsettled : Settled(f)
    /\ writing = Idle \/ Underway

LEMMA NoneBareIsWhole ==
    ASSUME WellFormed(Graph), NoneBare
    PROVE  Whole(Graph)
BY DEF NoneBare, Whole, Graph

LEMMA StoreInit ==
    ASSUME Init
    PROVE  StoreInv
<1>1. WellFormed(Graph)
  BY DEF Init, Graph, WellFormed
<1>2. Written(files)
  BY DEF Init, Written
<1>3. \A f \in Formats : Settled(f)
  BY DEF Init, Settled
<1> QED BY <1>1, <1>2, <1>3 DEF Init, StoreInv

LEMMA RemovingKeepsWritten ==
    ASSUME NEW F, Written(F), NEW S, S \subseteq DOMAIN F
    PROVE  Written(Restrict(F, S))
BY DEF Written, Restrict

LEMMA OwnFiles ==
    ASSUME NEW g, NEW h, NEW f \in {"graphar", "graphml"}, NEW e \in {"graphar", "graphml"},
           f # e
    PROVE  FilesOf(g, f) \cap FilesOf(h, e) = {}
<1>1. SingleFile \notin Chunks(g) \cup Chunks(h) \cup {Metadata}
  BY FileNames
<1> QED BY <1>1 DEF FilesOf

LEMMA EditStep ==
    ASSUME StoreInv, Edit
    PROVE  StoreInv'
<1>1. WellFormed(Graph)'
  BY EditKeepsGraph DEF StoreInv
<1>2. writing' = Idle
  BY DEF Edit
<1>3. UNCHANGED <<files, saved, unsettled>>
  BY DEF Edit
<1>4. Written(files)' /\ \A f \in (Formats \ unsettled)' : Settled(f)'
  BY <1>3 DEF StoreInv, Settled
<1> QED BY <1>1, <1>2, <1>3, <1>4 DEF StoreInv

LEMMA LoadStep ==
    ASSUME StoreInv, NEW format \in Formats, Load(format)
    PROVE  StoreInv'
<1>1. PICK g \in Import(files, format) : vertices' = g.vertices /\ links' = g.links
  BY DEF Load
<1>2. WellFormed(g)
  BY ImportsAreWellFormed DEF StoreInv
<1>3. Graph' = g
  BY <1>1, <1>2 DEF Graph, WellFormed
<1>4. writing' = Idle /\ UNCHANGED <<files, saved, unsettled>>
  BY DEF Load
<1>5. Written(files)' /\ \A f \in (Formats \ unsettled)' : Settled(f)'
  BY <1>4 DEF StoreInv, Settled
<1>6. WellFormed(Graph)'
  BY <1>2, <1>3
<1> QED BY <1>4, <1>5, <1>6 DEF StoreInv

LEMMA StartExportStep ==
    ASSUME StoreInv, NEW format \in Formats, StartExport(format)
    PROVE  StoreInv'
<1>1. Whole(Graph)
  BY NoneBareIsWhole DEF StoreInv, StartExport
<1>2. UNCHANGED <<Graph, files, saved>>
  BY DEF StartExport, graphVars, Graph
<1>3. unsettled' = IF saved[format] = {} THEN unsettled ELSE unsettled \cup {format}
  BY DEF StartExport, Unsettle
<1>4. writing' = [format |-> format, pending |-> FilesOf(Graph, format), then |-> <<>>]
  BY DEF StartExport, Starting
<1>5. Underway'
  BY <1>1, <1>2, <1>3, <1>4, FileNames DEF Underway
<1>6. \A f \in (Formats \ unsettled)' : Settled(f)'
  BY <1>2, <1>3 DEF StoreInv, Settled
<1> QED BY <1>2, <1>3, <1>5, <1>6 DEF StoreInv

LEMMA RegenerateStep ==
    ASSUME StoreInv, Regenerate
    PROVE  StoreInv'
<1>1. Whole(Graph) /\ Formats = {"graphar", "graphml"}
  BY NoneBareIsWhole DEF StoreInv, Regenerate
<1>2. UNCHANGED Graph
  BY DEF Regenerate, graphVars, Graph
<1>3. PICK gone \in Removable :
         /\ files' = Restrict(files, DOMAIN files \ gone)
         /\ saved' = [saved EXCEPT !["graphar"] = IF gone = Tree THEN {} ELSE @]
         /\ unsettled' =
               (unsettled \ {f \in {"graphar"} : gone = Tree})
                 \cup {f \in {"graphar"} : saved[f] # {} /\ gone \notin {{}, Tree}}
                 \cup {f \in {"graphml"} : saved[f] # {}}
  BY DEF Regenerate
<1>4. DOMAIN files' = DOMAIN files \ gone /\ \A file \in DOMAIN files' : files'[file] = files[file]
  BY <1>3 DEF Restrict
<1>5. writing' = [format |-> "graphml", pending |-> FilesOf(Graph, "graphml"),
                  then |-> <<"graphar">>]
  BY DEF Regenerate, Starting
<1>6. saved' = [f \in Formats |-> saved'[f]] /\ saved'["graphml"] = saved["graphml"]
         /\ saved'["graphar"] = IF gone = Tree THEN {} ELSE saved["graphar"]
  BY <1>1, <1>3 DEF StoreInv
<1>7. unsettled' \subseteq Formats
  BY <1>1, <1>3 DEF StoreInv
<1>8. "graphml" \in unsettled' \/ saved'["graphml"] = {}
  BY <1>3, <1>6
<1>9. Underway'
  BY <1>1, <1>2, <1>5, <1>8, FileNames DEF Underway
<1>10. Written(files)'
  BY <1>3, RemovingKeepsWritten DEF StoreInv
<1>11. ASSUME "graphml" \notin unsettled'
       PROVE  Settled("graphml")'
  <2>1. saved["graphml"] = {} /\ "graphml" \notin unsettled
    BY <1>3, <1>11
  <2>2. SingleFile \notin DOMAIN files
    BY <1>1, <2>1 DEF StoreInv, Settled, Mark
  <2> QED BY <1>4, <1>6, <2>1, <2>2 DEF Settled, Mark
<1>12. ASSUME "graphar" \notin unsettled'
       PROVE  Settled("graphar")'
  <2>1. CASE gone = Tree
    <3>1. Metadata \notin DOMAIN files'
      BY <1>4, <2>1, FileNames DEF Tree
    <3> QED BY <1>6, <2>1, <3>1 DEF Settled, Mark
  <2>2. CASE gone # Tree
    <3>1. "graphar" \notin unsettled /\ (saved["graphar"] = {} \/ gone = {})
      BY <1>3, <1>12, <2>2
    <3>2. Settled("graphar") /\ saved'["graphar"] = saved["graphar"]
      BY <1>1, <1>6, <2>2, <3>1 DEF StoreInv
    <3>3. CASE saved["graphar"] = {}
      <4>1. Metadata \notin DOMAIN files
        BY <3>2, <3>3 DEF Settled, Mark
      <4> QED BY <1>4, <3>2, <3>3, <4>1 DEF Settled, Mark
    <3>4. CASE saved["graphar"] # {}
      <4>1. PICK g : saved["graphar"] = {g} /\ Whole(g) /\ Holds(files, g, "graphar")
        BY <3>2, <3>4 DEF Settled
      <4>2. Holds(files', g, "graphar")
        BY <1>4, <3>1, <3>4, <4>1 DEF Holds
      <4> QED BY <3>2, <4>1, <4>2 DEF Settled
    <3> QED BY <3>3, <3>4
  <2> QED BY <2>1, <2>2
<1>13. \A f \in (Formats \ unsettled)' : Settled(f)'
  BY <1>1, <1>11, <1>12
<1>14. WellFormed(Graph)'
  BY <1>2 DEF StoreInv
<1> QED BY <1>6, <1>7, <1>9, <1>10, <1>13, <1>14 DEF StoreInv

LEMMA RestartStep ==
    ASSUME StoreInv, Restart
    PROVE  StoreInv'
<1>1. UNCHANGED <<saved, unsettled>> /\ writing' = Idle
  BY DEF Restart
<1>2. WellFormed(Graph)'
  BY DEF Restart, Graph, Empty, WellFormed
<1>3. CASE UNCHANGED files
  BY <1>1, <1>2, <1>3 DEF StoreInv, Settled
<1>4. ASSUME NEW file \in writing.pending, files' = Restrict(files, DOMAIN files \ {file})
      PROVE  StoreInv'
  <2>1. Written(files)'
    BY <1>4, RemovingKeepsWritten DEF StoreInv
  <2>2. /\ writing.format \in Formats
        /\ file \in FilesOf(Graph, writing.format)
        /\ writing.format \in unsettled \/ saved[writing.format] = {}
    BY DEF StoreInv, Underway, Idle
  <2>3. DOMAIN files' = DOMAIN files \ {file} /\ \A x \in DOMAIN files' : files'[x] = files[x]
    BY <1>4 DEF Restrict
  <2>4. ASSUME NEW f \in Formats \ unsettled
        PROVE  Settled(f)'
    <3>1. Settled(f)
      BY DEF StoreInv
    <3>2. CASE saved[f] = {} /\ Mark(f) \notin DOMAIN files
      BY <1>1, <2>3, <3>2 DEF Settled
    <3>3. CASE \E g : saved[f] = {g} /\ Whole(g) /\ Holds(files, g, f)
      <4>1. PICK g : saved[f] = {g} /\ Whole(g) /\ Holds(files, g, f)
        BY <3>3
      <4>2. f # writing.format
        BY <2>2, <4>1
      <4>3. file \notin FilesOf(g, f)
        BY <2>2, <4>2, OwnFiles, StoreAssumption
      <4>4. Holds(files', g, f)
        BY <2>3, <4>1, <4>3 DEF Holds
      <4> QED BY <1>1, <4>1, <4>4 DEF Settled
    <3> QED BY <3>1, <3>2, <3>3 DEF Settled
  <2> QED BY <1>1, <1>2, <2>1, <2>4 DEF StoreInv
<1> QED BY <1>3, <1>4 DEF Restart

\* What every write does, whether or not it is the last.
LEMMA Writes ==
    ASSUME StoreInv, NEW file \in writing.pending, WriteFile(file)
    PROVE  /\ Underway
           /\ UNCHANGED Graph
           /\ DOMAIN files' = DOMAIN files \cup {file}
           /\ files'[file] = Content(Graph, file)
           /\ \A x \in DOMAIN files : x # file => files'[x] = files[x]
           /\ Written(files)'
           /\ \A g : \A f \in Formats : f # writing.format /\ Holds(files, g, f)
                 => Holds(files', g, f)
<1>1. Underway
  BY DEF StoreInv, Idle
<1>2. UNCHANGED Graph
  BY DEF WriteFile, graphVars, Graph
<1>3. /\ DOMAIN files' = DOMAIN files \cup {file}
      /\ files'[file] = Content(Graph, file)
      /\ \A x \in DOMAIN files : x # file => files'[x] = files[x]
  BY DEF WriteFile, Put
<1>4. Written(files)'
  <2>1. file \in Chunks(Graph) \cup {Metadata, SingleFile} /\ Whole(Graph)
    BY <1>1 DEF Underway, FilesOf
  <2>2. ASSUME NEW x \in DOMAIN files'
        PROVE  \E g : /\ Whole(g)
                      /\ x \in Chunks(g) \cup {Metadata, SingleFile}
                      /\ files'[x] = Content(g, x)
    <3>1. CASE x = file
      BY <1>3, <2>1, <3>1
    <3>2. CASE x # file
      BY <1>3, <3>2 DEF StoreInv, Written
    <3> QED BY <3>1, <3>2
  <2> QED BY <2>2 DEF Written
<1>5. ASSUME NEW f \in Formats, NEW g, f # writing.format, Holds(files, g, f)
      PROVE  Holds(files', g, f)
  <2>1. file \notin FilesOf(g, f)
    BY <1>1, <1>5, OwnFiles, StoreAssumption DEF Underway
  <2> QED BY <1>3, <1>5, <2>1 DEF Holds
<1> QED BY <1>1, <1>2, <1>3, <1>4, <1>5

\* The mark is written last.
LEMMA MarkIsLast ==
    ASSUME Underway, NEW file \in writing.pending, MayWrite(file)
    PROVE  file = Mark(writing.format) <=> writing.pending = {file}
<1>1. file = Mark(writing.format) => writing.pending = {file}
  BY DEF Underway, MayWrite, Mark, FilesOf
<1> QED BY <1>1 DEF Underway

LEMMA WriteMoreStep ==
    ASSUME StoreInv, NEW file \in writing.pending, WriteFile(file), WriteMore(file)
    PROVE  StoreInv'
<1>1. UNCHANGED <<saved, unsettled>> /\ writing.pending # {file}
  BY DEF WriteMore
<1>2. Underway /\ UNCHANGED Graph
  BY Writes
<1>3. /\ writing' = [format |-> writing.format, pending |-> writing.pending \ {file},
                     then |-> writing.then]
  BY <1>2 DEF WriteMore, Underway
<1>4. file # Mark(writing.format)
  BY <1>1, <1>2, MarkIsLast DEF WriteFile
<1>5. Underway'
  <2>1. \A x \in FilesOf(Graph, writing.format) \ writing'.pending :
            x \in DOMAIN files' /\ files'[x] = Content(Graph, x)
    BY <1>2, <1>3, Writes DEF Underway
  <2> QED BY <1>1, <1>2, <1>3, <1>4, <2>1 DEF Underway
<1>6. ASSUME NEW f \in Formats \ unsettled
      PROVE  Settled(f)'
  <2>1. Settled(f)
    BY DEF StoreInv
  <2>2. CASE saved[f] = {} /\ Mark(f) \notin DOMAIN files
    <3>1. Mark(f) # file
      <4>1. CASE f = writing.format
        BY <1>4, <4>1
      <4>2. CASE f # writing.format
        BY <1>2, <4>2, OwnFiles, FileNames, StoreAssumption DEF Underway
      <4> QED BY <4>1, <4>2
    <3> QED BY <1>1, <2>2, <3>1, Writes DEF Settled
  <2>3. CASE \E g : saved[f] = {g} /\ Whole(g) /\ Holds(files, g, f)
    <3>1. f # writing.format
      BY <1>2, <2>3 DEF Underway
    <3> QED BY <1>1, <2>3, <3>1, Writes DEF Settled
  <2> QED BY <2>1, <2>2, <2>3 DEF Settled
<1> QED BY <1>1, <1>2, <1>5, <1>6, Writes DEF StoreInv

\* The last write leaves all that the export had to write.
LEMMA LastWrite ==
    ASSUME StoreInv, NEW file \in writing.pending, WriteFile(file), writing.pending = {file}
    PROVE  Whole(Graph) /\ Holds(files', Graph, writing.format)
<1>1. Underway
  BY Writes
<1>2. \A x \in FilesOf(Graph, writing.format) : x # file =>
          x \in DOMAIN files /\ files[x] = Content(Graph, x)
  BY <1>1 DEF Underway
<1> QED BY <1>1, <1>2, Writes DEF Underway, Holds

LEMMA FinishExportStep ==
    ASSUME StoreInv, NEW file \in writing.pending, WriteFile(file), FinishExport(file)
    PROVE  StoreInv'
<1>1. writing.pending = {file} /\ saved' = [saved EXCEPT ![writing.format] = {Graph}]
  BY DEF FinishExport
<1>2. Underway /\ UNCHANGED Graph
  BY Writes
<1>3. writing.format \in Formats /\ Whole(Graph) /\ Holds(files', Graph, writing.format)
  BY <1>1, <1>2, LastWrite DEF Underway
<1>4. /\ saved' = [f \in Formats |-> saved'[f]]
      /\ \A f \in Formats : saved'[f] = IF f = writing.format THEN {Graph} ELSE saved[f]
  BY <1>1, <1>3 DEF StoreInv
<1>5. /\ writing.format \notin unsettled'
      /\ unsettled \ {writing.format} \subseteq unsettled' /\ unsettled' \subseteq Formats
  BY <1>2 DEF FinishExport, Underway, StoreInv
<1>6. writing' = Idle \/ Underway'
  <2>1. CASE writing.then = <<>>
    BY <2>1 DEF FinishExport
  <2>2. CASE writing.then # <<>>
    <3>1. writing.then = <<"graphar">> /\ writing.format = "graphml" /\ "graphar" \in Formats
      BY <1>2, <2>2 DEF Underway
    <3>2. writing.then[1] = "graphar" /\ Tail(writing.then) = <<>>
      BY <3>1
    <3>3. /\ writing' = [format |-> "graphar", pending |-> FilesOf(Graph, "graphar"),
                         then |-> <<>>]
          /\ unsettled' = (unsettled \ {writing.format})
                             \cup {f \in {"graphar"} : saved[f] # {}}
      BY <2>2, <3>2 DEF FinishExport, Starting
    <3>4. "graphar" \in unsettled' \/ saved'["graphar"] = {}
      BY <1>4, <3>1, <3>3
    <3> QED BY <1>2, <1>3, <3>1, <3>3, <3>4, FileNames DEF Underway
  <2> QED BY <2>1, <2>2
<1>7. ASSUME NEW f \in Formats, f \notin unsettled'
      PROVE  Settled(f)'
  <2>1. CASE f = writing.format
    BY <1>3, <1>4, <2>1 DEF Settled
  <2>2. CASE f # writing.format
    <3>1. Settled(f) /\ saved'[f] = saved[f]
      BY <1>4, <1>5, <1>7, <2>2 DEF StoreInv
    <3>2. CASE saved[f] = {} /\ Mark(f) \notin DOMAIN files
      <4>1. Mark(f) # file
        BY <1>2, <2>2, OwnFiles, FileNames, StoreAssumption DEF Underway
      <4> QED BY <3>1, <3>2, <4>1, Writes DEF Settled
    <3>3. CASE \E g : saved[f] = {g} /\ Whole(g) /\ Holds(files, g, f)
      BY <2>2, <3>1, <3>3, Writes DEF Settled
    <3> QED BY <3>1, <3>2, <3>3 DEF Settled
  <2> QED BY <2>1, <2>2
<1>8. WellFormed(Graph)'
  BY <1>2 DEF StoreInv
<1> QED BY <1>4, <1>5, <1>6, <1>7, <1>8, Writes DEF StoreInv

LEMMA StoreNext ==
    ASSUME StoreInv, [Next]_vars
    PROVE  StoreInv'
<1>1. CASE Edit
  BY <1>1, EditStep
<1>2. CASE \E f \in Formats : StartExport(f)
  BY <1>2, StartExportStep
<1>3. CASE Regenerate
  BY <1>3, RegenerateStep
<1>4. CASE \E file \in writing.pending : WriteFile(file)
  <2>1. PICK file \in writing.pending : WriteFile(file)
    BY <1>4
  <2> QED BY <2>1, WriteMoreStep, FinishExportStep DEF WriteFile
<1>5. CASE Restart
  BY <1>5, RestartStep
<1>6. CASE \E f \in Formats : Load(f)
  BY <1>6, LoadStep
<1>7. CASE UNCHANGED vars
  <2>1. UNCHANGED <<Graph, files, writing, saved, unsettled>>
    BY <1>7 DEF vars, graphVars, Graph
  <2> QED BY <2>1 DEF StoreInv, Settled, Underway
<1> QED BY <1>1, <1>2, <1>3, <1>4, <1>5, <1>6, <1>7 DEF Next

\* The invariant of everything below: a path that is not in danger holds, file by
\* file, what was exported last to it, or lacks its mark.
THEOREM StoreInvariant == Spec => []StoreInv
<1>1. Init => StoreInv
  BY StoreInit
<1>2. StoreInv /\ [Next]_vars => StoreInv'
  BY StoreNext
<1> QED BY <1>1, <1>2, PTL DEF Spec

\* What a crash or a removal leaves is refused and never taken for a topology, for
\* every topology and however the steps of exports, crashes and removals follow
\* (graphar.py:74-80).
THEOREM UnfinishedExportsAreRefused == Spec => []UnfinishedIsRefused
<1>1. ASSUME StoreInv
      PROVE  UnfinishedIsRefused
  <2>1. ASSUME NEW f \in Formats \ unsettled, saved[f] = {}
        PROVE  Import(files, f) = {}
    <3>1. Mark(f) \notin DOMAIN files
      BY <1>1, <2>1 DEF StoreInv, Settled
    <3> QED BY <3>1, NothingToImport
  <2> QED BY <2>1 DEF UnfinishedIsRefused
<1> QED BY <1>1, StoreInvariant, PTL

\* What was exported last is what is imported, whatever was left at its path before
\* (graphar.py:32-106, graphml.py:18-39).
THEOREM ExportsAreImported == Spec => []SavedIsLoaded
<1>1. ASSUME StoreInv
      PROVE  SavedIsLoaded
  <2>1. ASSUME NEW f \in Formats \ unsettled, NEW g \in saved[f],
               f = "graphml" => ~HasNodeWithoutGpus(g)
        PROVE  Import(files, f) = {g}
    <3>1. Whole(g) /\ Holds(files, g, f)
      BY <1>1 DEF StoreInv, Settled
    <3> QED BY <2>1, <3>1, RoundTrip, StoreAssumption
  <2> QED BY <2>1 DEF SavedIsLoaded
<1> QED BY <1>1, StoreInvariant, PTL

-----------------------------------------------------------------------------
(* The refinement.                                                         *)

\* What a step does to the path of f, seen through its imports.
Moves(f) ==
    \/ Import(files', f) = Import(files, f) /\ (f \in unsettled' <=> f \in unsettled)
    \/ /\ Import(files, f) = {} \/ f \in unsettled
       /\ Import(files', f) = {Graph}
       /\ f \notin unsettled'
       /\ UNCHANGED Graph
    \/ /\ Import(files', f) = {}
       /\ f \notin unsettled'
       /\ UNCHANGED Graph
    \/ /\ f \in unsettled'
       /\ f \notin unsettled => Import(files', f) \in {Import(files, f), {}}

LEMMA StayingMoves ==
    ASSUME NEW f \in Formats, UNCHANGED files,
           f \in unsettled => f \in unsettled'
    PROVE  Moves(f)
BY DEF Moves

\* A format without a save and out of danger has nothing to import.
LEMMA UnsavedIsEmpty ==
    ASSUME StoreInv, NEW f \in Formats \ unsettled, saved[f] = {}
    PROVE  Import(files, f) = {}
BY NothingToImport DEF StoreInv, Settled

\* A step that touches no file but those of the other format.
LEMMA OthersMove ==
    ASSUME StoreInv, NEW f \in Formats, NEW file, NEW h, NEW e \in Formats, e # f,
           file \in FilesOf(h, e),
           \A x : x # file => /\ x \in DOMAIN files <=> x \in DOMAIN files'
                              /\ x \in DOMAIN files => files[x] = files'[x],
           f \in unsettled => f \in unsettled'
    PROVE  Moves(f)
<1>1. CASE f = "graphml"
  <2>1. file # SingleFile
    BY <1>1, OwnFiles, StoreAssumption DEF FilesOf
  <2>2. /\ SingleFile \in DOMAIN files <=> SingleFile \in DOMAIN files'
        /\ SingleFile \in DOMAIN files => files[SingleFile] = files'[SingleFile]
    BY <2>1
  <2>3. Import(files', "graphml") = Import(files, "graphml")
    BY <2>2, SingleFileOnly
  <2> QED BY <1>1, <2>3 DEF Moves
<1>2. CASE f = "graphar"
  <2>1. file = SingleFile
    BY <1>2, StoreAssumption DEF FilesOf
  <2>2. Written(files)
    BY DEF StoreInv
  <2>3. Import(files', "graphar") = Import(files, "graphar")
    BY <2>1, <2>2, TreeOnly
  <2> QED BY <1>2, <2>3 DEF Moves
<1> QED BY <1>1, <1>2, StoreAssumption

LEMMA RegenerateMoves ==
    ASSUME StoreInv, Regenerate, NEW f \in Formats
    PROVE  Moves(f)
<1>1. UNCHANGED Graph /\ Formats = {"graphar", "graphml"}
  BY DEF Regenerate, graphVars, Graph
<1>2. PICK gone \in Removable :
         /\ files' = Restrict(files, DOMAIN files \ gone)
         /\ unsettled' =
               (unsettled \ {e \in {"graphar"} : gone = Tree})
                 \cup {e \in {"graphar"} : saved[e] # {} /\ gone \notin {{}, Tree}}
                 \cup {e \in {"graphml"} : saved[e] # {}}
  BY DEF Regenerate
<1>3. DOMAIN files' = DOMAIN files \ gone /\ \A x \in DOMAIN files' : files'[x] = files[x]
  BY <1>2 DEF Restrict
<1>4. CASE f = "graphml"
  <2>1. SingleFile \notin gone
    BY DEF Removable, Tree
  <2>2. Import(files', "graphml") = Import(files, "graphml")
    BY <1>3, <2>1, SingleFileOnly
  <2>3. "graphml" \in unsettled => "graphml" \in unsettled'
    BY <1>2
  <2> QED BY <1>4, <2>2, <2>3 DEF Moves
<1>5. CASE f = "graphar" /\ gone = Tree
  <2>1. Import(files', "graphar") = {}
    <3>1. Metadata \notin DOMAIN files'
      BY <1>3, <1>5, FileNames DEF Tree
    <3> QED BY <3>1, NothingToImport DEF Mark
  <2>2. "graphar" \notin unsettled'
    BY <1>2, <1>5
  <2> QED BY <1>1, <1>5, <2>1, <2>2 DEF Moves
<1>6. CASE f = "graphar" /\ gone # Tree /\ gone = {}
  <2>1. Written(files)
    BY DEF StoreInv
  <2>2. Import(files', "graphar") = Import(files, "graphar")
    BY <1>3, <1>6, <2>1, TreeOnly
  <2>3. "graphar" \in unsettled' <=> "graphar" \in unsettled
    BY <1>2, <1>6
  <2> QED BY <1>6, <2>2, <2>3 DEF Moves
<1>7. CASE f = "graphar" /\ gone # Tree /\ gone # {}
  <2>1. CASE "graphar" \in unsettled
    BY <1>2, <1>7, <2>1 DEF Moves
  <2>2. CASE "graphar" \notin unsettled /\ saved["graphar"] = {}
    <3>1. Metadata \notin DOMAIN files
      BY <1>7, <2>2 DEF StoreInv, Settled, Mark
    <3>2. Import(files, "graphar") = {} /\ Import(files', "graphar") = {}
      BY <1>3, <3>1, NothingToImport DEF Mark
    <3>3. "graphar" \notin unsettled'
      BY <1>2, <2>2
    <3> QED BY <1>7, <2>2, <3>2, <3>3 DEF Moves
  <2>3. CASE "graphar" \notin unsettled /\ saved["graphar"] # {}
    <3>1. PICK g : Whole(g) /\ Holds(files, g, "graphar")
      BY <1>7, <2>3 DEF StoreInv, Settled
    <3>2. DOMAIN files' \subseteq DOMAIN files
      BY <1>3
    <3>3. Import(files', "graphar") \in {Import(files, "graphar"), {}}
      BY <1>3, <3>1, <3>2, PartlyRemoved
    <3>4. "graphar" \in unsettled'
      BY <1>2, <1>7, <2>3
    <3> QED BY <1>7, <3>3, <3>4 DEF Moves
  <2> QED BY <2>1, <2>2, <2>3
<1> QED BY <1>1, <1>4, <1>5, <1>6, <1>7

LEMMA RestartMoves ==
    ASSUME StoreInv, Restart, NEW f \in Formats
    PROVE  Moves(f)
<1>1. UNCHANGED <<saved, unsettled>>
  BY DEF Restart
<1>2. CASE UNCHANGED files
  BY <1>1, <1>2, StayingMoves
<1>3. ASSUME NEW file \in writing.pending, files' = Restrict(files, DOMAIN files \ {file})
      PROVE  Moves(f)
  <2>1. /\ writing.format \in Formats
        /\ file \in FilesOf(Graph, writing.format)
        /\ writing.format \in unsettled \/ saved[writing.format] = {}
    BY DEF StoreInv, Underway, Idle
  <2>2. \A x : x # file => /\ x \in DOMAIN files <=> x \in DOMAIN files'
                           /\ x \in DOMAIN files => files[x] = files'[x]
    BY <1>3 DEF Restrict
  <2>3. CASE f # writing.format
    BY <1>1, <2>1, <2>2, <2>3, OthersMove
  <2>4. CASE f = writing.format /\ f \in unsettled
    BY <1>1, <2>4 DEF Moves
  <2>5. CASE f = writing.format /\ f \notin unsettled
    <3>1. Mark(f) \notin DOMAIN files
      BY <2>1, <2>5 DEF StoreInv, Settled
    <3>2. Mark(f) \notin DOMAIN files'
      BY <1>3, <3>1 DEF Restrict
    <3> QED BY <1>1, <3>1, <3>2, NothingToImport DEF Moves
  <2> QED BY <2>3, <2>4, <2>5
<1> QED BY <1>2, <1>3 DEF Restart

LEMMA WriteMoves ==
    ASSUME StoreInv, NEW file \in writing.pending, WriteFile(file), NEW f \in Formats
    PROVE  Moves(f)
<1>1. Underway /\ UNCHANGED Graph
  BY Writes
<1>2. f # writing.format /\ f \in unsettled => f \in unsettled'
  BY DEF WriteFile, WriteMore, FinishExport
<1>3. CASE f # writing.format
  <2>1. \A x : x # file => /\ x \in DOMAIN files <=> x \in DOMAIN files'
                           /\ x \in DOMAIN files => files[x] = files'[x]
    BY Writes
  <2> QED BY <1>1, <1>2, <1>3, <2>1, OthersMove DEF Underway
<1>4. CASE f = writing.format /\ WriteMore(file)
  <2>1. UNCHANGED unsettled /\ file # Mark(f)
    BY <1>1, <1>4, MarkIsLast DEF WriteMore, WriteFile
  <2>2. CASE f \in unsettled
    BY <2>1, <2>2 DEF Moves
  <2>3. CASE f \notin unsettled
    <3>1. Mark(f) \notin DOMAIN files
      BY <1>1, <1>4, <2>3 DEF StoreInv, Settled, Underway
    <3>2. Mark(f) \notin DOMAIN files'
      BY <2>1, <3>1, Writes
    <3> QED BY <2>1, <2>3, <3>1, <3>2, NothingToImport DEF Moves
  <2> QED BY <2>2, <2>3
<1>5. CASE f = writing.format /\ FinishExport(file)
  <2>1. Whole(Graph) /\ Holds(files', Graph, f)
    BY <1>5, LastWrite DEF FinishExport
  <2>2. Import(files', f) \in {{Graph}, {}}
    BY <2>1, RoundTrip, StoreAssumption
  <2>3. f \notin unsettled'
    BY <1>1, <1>5 DEF FinishExport, Underway
  <2>4. f \notin unsettled => Import(files, f) = {}
    BY <1>1, <1>5, UnsavedIsEmpty DEF Underway
  <2> QED BY <1>1, <2>2, <2>3, <2>4 DEF Moves
<1> QED BY <1>3, <1>4, <1>5 DEF WriteFile

LEMMA EveryStepMoves ==
    ASSUME StoreInv, Next, NEW f \in Formats
    PROVE  Moves(f)
<1>1. CASE Edit
  BY <1>1, StayingMoves DEF Edit
<1>2. CASE \E e \in Formats : StartExport(e)
  BY <1>2, StayingMoves DEF StartExport, Unsettle
<1>3. CASE \E file \in writing.pending : WriteFile(file)
  BY <1>3, WriteMoves
<1>4. CASE \E e \in Formats : Load(e)
  BY <1>4, StayingMoves DEF Load
<1> QED BY <1>1, <1>2, <1>3, <1>4, RegenerateMoves, RestartMoves DEF Next

\* Read through its imports, the store implements AtomicStore: an export sets its path
\* in one step, and no other step disturbs a path that is not in danger
\* (graphar.py:32-106, graphml.py:18-39, generate_sample_data.py:27-44).
THEOREM StoreIsAtomic == Spec => ImplementsStore
<1>1. Init => Store!Init
  <2>1. Init => \A f \in Formats : Import(files, f) = {}
    BY NothingToImport DEF Init
  <2> QED BY <2>1 DEF Init, Store!Init
<1>2. StoreInv /\ [Next]_vars => [Store!Next]_Store!vars
  <2>1. ASSUME StoreInv, Next
        PROVE  Store!Next
    <3>1. ASSUME NEW f \in Formats
          PROVE  Store!Keep(f) \/ Store!Save(f) \/ Store!Remove(f) \/ Store!Endanger(f)
      <4>1. Moves(f)
        BY <2>1, EveryStepMoves
      <4> QED BY <4>1 DEF Moves, Store!Keep, Store!Save, Store!Remove, Store!Endanger
    <3> QED BY <3>1 DEF Store!Next
  <2>2. ASSUME UNCHANGED vars
        PROVE  UNCHANGED Store!vars
    BY <2>2 DEF vars, graphVars, Graph, Store!vars
  <2> QED BY <2>1, <2>2
<1> QED BY <1>1, <1>2, StoreInvariant, PTL DEF Spec, ImplementsStore, Store!Spec
=============================================================================
