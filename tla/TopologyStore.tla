---------------------------- MODULE TopologyStore -----------------------------
(***************************************************************************)
(* engine/formats: a topology written to files and read back, while the    *)
(* process may die between any two writes or during one.                   *)
(*                                                                         *)
(* "graphar" is a directory with a chunk for every kind of vertex, then a  *)
(* chunk for every link type, then graph.yml, which names the chunks;      *)
(* "graphml" is one file.  Nothing is deleted: an export overwrites in     *)
(* place what an earlier one left at its path.                             *)
(*                                                                         *)
(* A "|"-joined string is the sequence of the pieces between its bars; no  *)
(* name is empty or has a bar in it.  Enum members are their values.       *)
(* Parquet and YAML return what they were given; GraphML, as networkx      *)
(* reads it, has no attribute where the text of an element is empty.       *)
(***************************************************************************)
EXTENDS LinkGraph

CONSTANTS
    Entities,       \* identifiers of vertices
    Data,           \* the data that may be added under each
    LinkCalls,      \* the arguments that add_link may be called with
    Formats,        \* the formats in use
    EmptyString,
    MaxLinks,       \* bound: how many links a graph has before one is added
    MaxExports      \* bound: how many exports, or regenerations, are begun

LinkCall == [u: Entities, v: Entities, metrics: LinkMetrics,
             back: LinkMetrics \cup {NoLink}, key: Nat \cup {NoKey}]

\* What makes a row of data, and one that the codec can tell from the other rows: no
\* entity has one GPU of no name.
IsData(d) ==
    /\ d = [field \in DOMAIN d |-> d[field]]
    /\ "kind" \in DOMAIN d
    /\ "gpu_ids" \in DOMAIN d => d.gpu_ids # <<EmptyString>>
    /\ d # Bare

ASSUME StoreAssumption ==
    /\ DOMAIN Data = Entities
    /\ \A e \in Entities : \A d \in Data[e] : IsData(d) /\ d.kind \in Kinds
    /\ \A c \in LinkCalls : c \in LinkCall /\ c.u # c.v
    /\ Formats \subseteq {"graphar", "graphml"}
    /\ MaxLinks \in Nat /\ MaxExports \in Nat

VARIABLES
    files,      \* the content of every file that can be read
    writing,    \* the export that runs: its format, the files it has to write, and
                \* the formats that the script exports after it
    saved,      \* of every format, the topology exported last, if any was
    unsettled,  \* the formats of which another export was begun and not finished
    exports     \* how many exports were begun

vars == <<graphVars, files, writing, saved, unsettled, exports>>

Idle == [format |-> "none", pending |-> {}, then |-> <<>>]

Init ==
    /\ vertices = <<>>
    /\ links = <<>>
    /\ files = <<>>
    /\ writing = Idle
    /\ saved = [f \in Formats |-> {}]
    /\ unsettled = {}
    /\ exports = 0

-----------------------------------------------------------------------------
(* The codec.                                                              *)

\* "|".join(value)
Joined(names) == IF names = <<>> THEN <<EmptyString>> ELSE names

\* raw.split("|") if raw else ()
Split(pieces) == IF pieces = <<EmptyString>> THEN <<>> ELSE pieces

\* gpu_ids of a node is the one field that is a tuple.
Encode(d) == IF "gpu_ids" \in DOMAIN d THEN [d EXCEPT !.gpu_ids = Joined(@)] ELSE d

Decode(d) == IF "gpu_ids" \in DOMAIN d THEN [d EXCEPT !.gpu_ids = Split(@)] ELSE d

-----------------------------------------------------------------------------
(* Export.                                                                 *)

VertexChunk(kind) == <<"vertex", kind>>

EdgeChunk(link_type) == <<"edge", link_type>>

Metadata == <<"graph.yml">>

SingleFile == <<"graphml">>

VertexRows(g, kind) ==
    [e \in {e \in DOMAIN g.vertices : g.vertices[e].kind = kind} |-> Encode(g.vertices[e])]

EdgeRows(g, link_type) ==
    [x \in {x \in DOMAIN g.links : g.links[x].link_type = link_type} |-> g.links[x]]

Chunks(g) ==
    {VertexChunk(g.vertices[e].kind) : e \in DOMAIN g.vertices}
      \cup {EdgeChunk(g.links[x].link_type) : x \in DOMAIN g.links}

\* The files that an export of g writes, and what it writes to each.
FilesOf(g, format) ==
    IF format = "graphml" THEN {SingleFile} ELSE Chunks(g) \cup {Metadata}

Content(g, file) ==
    CASE file = Metadata    -> Chunks(g)
      [] file = SingleFile  -> [vertices |-> [e \in DOMAIN g.vertices |-> Encode(g.vertices[e])],
                                links |-> g.links]
      [] file[1] = "vertex" -> VertexRows(g, file[2])
      [] file[1] = "edge"   -> EdgeRows(g, file[2])

\* Fault: the metadata is written before the chunks of edges.
MayWriteMetadataEarly(file) ==
    file \in writing.pending
      /\ (file[1] # "vertex" => \A f \in writing.pending : f[1] # "vertex")

\* Chunks of vertices come first, then those of edges, and the metadata last.
MayWrite(file) ==
    /\ file \in writing.pending
    /\ file[1] # "vertex" => \A f \in writing.pending : f[1] # "vertex"
    /\ file = Metadata => writing.pending = {Metadata}

\* A vertex without an entity raises a KeyError before the first write.
Starting(format, then) ==
    [format |-> format, pending |-> FilesOf(Graph, format), then |-> then]

\* From now on the path of the format holds what was exported last to it no more.
Unsettle(format) ==
    unsettled' = IF saved[format] = {} THEN unsettled ELSE unsettled \cup {format}

StartExport(format) ==
    /\ exports < MaxExports
    /\ writing = Idle
    /\ NoneBare
    /\ writing' = Starting(format, <<>>)
    /\ Unsettle(format)
    /\ exports' = exports + 1
    /\ UNCHANGED <<graphVars, files, saved>>

Tree == DOMAIN files \ {SingleFile}

\* What shutil.rmtree(ignore_errors=True) may remove: all of the tree, or less of it
\* when a file cannot be removed or the process dies on the way.
Removable == SUBSET Tree

\* generate_sample_data.main: the old directory is removed, then graphml is exported
\* and then graphar.  A directory that is gone is one never written to.
Regenerate ==
    /\ Formats = {"graphar", "graphml"}
    /\ exports < MaxExports
    /\ writing = Idle
    /\ NoneBare
    /\ \E gone \in Removable :
          /\ files' = Restrict(files, DOMAIN files \ gone)
          /\ saved' = [saved EXCEPT !["graphar"] = IF gone = Tree THEN {} ELSE @]
          /\ unsettled' =
                (unsettled \ {f \in {"graphar"} : gone = Tree})
                  \cup {f \in {"graphar"} : saved[f] # {} /\ gone \notin {{}, Tree}}
                  \cup {f \in {"graphml"} : saved[f] # {}}
    /\ writing' = Starting("graphml", <<"graphar">>)
    /\ exports' = exports + 1
    /\ UNCHANGED graphVars

\* The export goes on to its next file.
WriteMore(file) ==
    /\ writing.pending # {file}
    /\ writing' = [writing EXCEPT !.pending = @ \ {file}]
    /\ UNCHANGED <<saved, unsettled>>

\* The export returns with its last file, and the script goes on to its next export.
FinishExport(file) ==
    /\ writing.pending = {file}
    /\ saved' = [saved EXCEPT ![writing.format] = {Graph}]
    /\ LET others == unsettled \ {writing.format}
       IN  IF writing.then = <<>>
           THEN writing' = Idle /\ unsettled' = others
           ELSE /\ writing' = Starting(writing.then[1], Tail(writing.then))
                /\ unsettled' = others \cup {f \in {writing.then[1]} : saved[f] # {}}

WriteFile(file) ==
    /\ MayWrite(file)
    /\ files' = Put(files, file, Content(Graph, file))
    /\ WriteMore(file) \/ FinishExport(file)
    /\ UNCHANGED <<graphVars, exports>>

\* The process dies, perhaps with a file half written, or ends; the next one starts
\* with nothing in memory.  A file that was cut is as good as none: Parquet and XML
\* miss their end, and graph.yml, which one buffer holds, is empty.
Restart ==
    /\ \/ UNCHANGED files
       \/ \E file \in writing.pending :
             MayWrite(file) /\ files' = Restrict(files, DOMAIN files \ {file})
    /\ writing' = Idle
    /\ vertices' = Empty.vertices
    /\ links' = Empty.links
    /\ UNCHANGED <<saved, unsettled, exports>>

-----------------------------------------------------------------------------
(* Import.                                                                 *)

\* In what follows F is the content of every file that can be read.

\* Fault: every chunk found in the directory is read.
NamedByListing(F, part) == {file \in DOMAIN F : file[1] = part}

Named(F, part) == {file \in F[Metadata] : file[1] = part}

Rows(F, part) == {F[c] : c \in Named(F, part)}

\* What reading several chunks comes to.  A link that two of them have is read from
\* either: their order is that in which the exporting process met the link types.
Merged(chunks) ==
    {M \in [UNION {DOMAIN c : c \in chunks} -> UNION {Range(c) : c \in chunks}] :
        \A x \in DOMAIN M : \E c \in chunks : x \in DOMAIN c /\ M[x] = c[x]}

Decoded(V) == [e \in DOMAIN V |-> Decode(V[e])]

\* What add_node and add_edge make of the rows.
Built(V, L) ==
    [vertices |-> WithEnds(Decoded(V), UNION {{x[1], x[2]} : x \in DOMAIN L}), links |-> L]

\* Every outcome of import_ with "graphar", none when it raises.
ImportChunks(F) ==
    IF Metadata \in DOMAIN F /\ F[Metadata] \subseteq DOMAIN F
    THEN {Built(V, L) : V \in Merged(Rows(F, "vertex")), L \in Merged(Rows(F, "edge"))}
    ELSE {}

\* The row has every field of its entity; decode_namedtuple raises otherwise.
IsWhole(row) == "gpu_ids" \in DOMAIN row => row.gpu_ids # <<EmptyString>>

ImportSingleFile(F) ==
    IF SingleFile \in DOMAIN F
         /\ \A e \in DOMAIN F[SingleFile].vertices : IsWhole(F[SingleFile].vertices[e])
    THEN {[vertices |-> Decoded(F[SingleFile].vertices), links |-> F[SingleFile].links]}
    ELSE {}

Import(F, format) == IF format = "graphml" THEN ImportSingleFile(F) ELSE ImportChunks(F)

Load(format) ==
    /\ writing = Idle
    /\ \E g \in Import(files, format) : vertices' = g.vertices /\ links' = g.links
    /\ UNCHANGED <<files, writing, saved, unsettled, exports>>

\* The owner of the topology works on it between exports, up to the last.
Edit ==
    /\ exports < MaxExports
    /\ writing = Idle
    /\ \/ \E e \in Entities : \E d \in Data[e] : AddEntity(e, d)
       \/ /\ Cardinality(DOMAIN links) < MaxLinks
          /\ \E call \in LinkCalls : AddLink(call)
    /\ UNCHANGED <<files, writing, saved, unsettled, exports>>

Next ==
    \/ Edit
    \/ \E f \in Formats : StartExport(f)
    \/ Regenerate
    \/ \E file \in writing.pending : WriteFile(file)
    \/ Restart
    \/ \E f \in Formats : Load(f)

Spec == Init /\ [][Next]_vars

-----------------------------------------------------------------------------
(* Properties.                                                             *)

HasNodeWithoutGpus(g) ==
    \E e \in DOMAIN g.vertices :
        "gpu_ids" \in DOMAIN g.vertices[e] /\ g.vertices[e].gpu_ids = <<>>

\* What was exported last is what is imported, in every field and key, whatever
\* earlier exports, removals and crashes left at the same path (graphar.py:32-106,
\* graphml.py:18-39); of graphml, when every node has a GPU.  What the codec
\* promises to reverse: "Enums become their `.value`; tuples become a `|`-joined
\* string. Both are reversed on decode" (_codec.py:4-5).
SavedIsLoaded ==
    \A f \in Formats \ unsettled : \A g \in saved[f] :
        (f = "graphml" => ~HasNodeWithoutGpus(g)) => Import(files, f) = {g}

\* The same of a node whose tuple of GPUs is empty (_codec.py:4-5).
EmptyTupleIsReversed ==
    \A f \in Formats \ unsettled : \A g \in saved[f] :
        HasNodeWithoutGpus(g) => Import(files, f) = {g}

\* Where no export has finished, or what one left was removed, there is nothing to
\* import: what a crash leaves is refused and never taken for a topology, because
\* the metadata is written last (graphar.py:74-80).
UnfinishedIsRefused ==
    \A f \in Formats \ unsettled : saved[f] = {} => Import(files, f) = {}

Store == INSTANCE AtomicStore WITH
    memory <- Graph,
    stored <- [f \in Formats |-> Import(files, f)]

\* Read through its imports, the store does what AtomicStore promises: however many
\* files an export writes and wherever it is cut, the topology appears at its path
\* in one step, whole, and no step that is not an export disturbs it.
ImplementsStore == Store!Spec
=============================================================================
