------------------------ MODULE StalenessResolverProofs ------------------------
(***************************************************************************)
(* What holds of StalenessResolver for every project and every edit, at    *)
(* any moment of a read: every relationship is derived from the symbol     *)
(* data of its source, once, nothing that was stale as the read began is   *)
(* passed over, and no pending file along the way.  For these two, the     *)
(* order the files are processed in has to list all of them; it is proved  *)
(* to be the one it should be.                                             *)
(***************************************************************************)
EXTENDS StalenessResolver, Algorithms, GraphOpsProofs, SequenceTheorems

Shape ==
  /\ disk \in [File -> Disk]
  /\ GraphType(graph)
  /\ IsDict(builder, File, Symbols)
  /\ data \in {NoData, Invalid} \cup Symbols

\* EdgesFromSymbolsOnce for a graph and a builder, one conjunct per way to break it
Derived(g, bld) ==
  /\ \A r \in DOMAIN g.relationships :
       /\ r.src \in DOMAIN bld /\ r.tgt \in bld[r.src].imports
       /\ g.relationships[r] = 1
  /\ \A r, q \in DOMAIN g.relationships :
       r.src = q.src /\ r.tgt = q.tgt /\ r.site = q.site => r = q

\* well formed, indices exact, every relationship from symbol data
IInv == Shape /\ Mirror(graph) /\ Derived(graph, builder)

-----------------------------------------------------------------------------
(***************************************************************************)
(* Replacing the relationships of f by those derived from its symbol data  *)
(* leaves every relationship derived from its source, once.  cut is what   *)
(* is left of the graph when f has been taken out of it, in either way.    *)
(***************************************************************************)
LEMMA ReplaceDerived ==
  ASSUME NEW cut, GraphType(cut), Mirror(cut),
         NEW old, Derived(cut, old),
         NEW bld, IsDict(bld, File, Symbols), NEW f \in DOMAIN bld,
         \A r \in DOMAIN cut.relationships : r.src # f,
         \A k \in DOMAIN old \ {f} : k \in DOMAIN bld /\ bld[k] = old[k]
  PROVE  LET g == AddAll(cut, Once(BuildRelationshipsForFile(bld, f)))
         IN GraphType(g) /\ Mirror(g) /\ Derived(g, bld)
<1> DEFINE rels == BuildRelationshipsForFile(bld, f)
           g == AddAll(cut, Once(rels))
<1>1. /\ rels \subseteq Rel
      /\ \A r \in rels : r.src = f /\ r.tgt \in bld[f].imports
      /\ \A r, q \in rels : r.tgt = q.tgt => r = q
  BY BuiltRelationships
<1> HIDE DEF rels
<1>2. IsDict(Once(rels), Rel, Nat \ {0}) /\ DOMAIN Once(rels) = rels
  BY <1>1, OnceType
<1>3. GraphType(g) /\ Mirror(g)
  BY <1>2, AddAllType, AddAllMirror
<1>4. /\ DOMAIN g.relationships = DOMAIN cut.relationships \cup rels
      /\ \A r \in DOMAIN cut.relationships : r \notin rels /\ g.relationships[r] = 1
      /\ \A r \in rels : g.relationships[r] = 1
  BY <1>1, <1>2 DEF AddAll, Copies, Once, Derived
<1>5. Derived(g, bld)
  BY <1>1, <1>4 DEF Derived
<1> QED
  BY <1>3, <1>5 DEF rels

\* Taking relationships away leaves the others derived.
LEMMA FewerDerived ==
  ASSUME NEW g, NEW h, NEW bld, Derived(g, bld),
         DOMAIN h.relationships \subseteq DOMAIN g.relationships,
         \A r \in DOMAIN h.relationships : h.relationships[r] = g.relationships[r]
  PROVE  Derived(h, bld)
BY DEF Derived

\* The metadata a handler writes last keeps a good graph good.
LEMMA PendingKeeps ==
  ASSUME NEW g, GraphType(g), Mirror(g), NEW bld, Derived(g, bld),
         NEW f \in File, NEW flag \in BOOLEAN
  PROVE  LET h == SetPending(g, f, flag)
         IN GraphType(h) /\ Mirror(h) /\ Derived(h, bld)
<1>1. GraphType(SetPending(g, f, flag))
  BY PendingType
<1>2. /\ g.relationships = SetPending(g, f, flag).relationships
      /\ g.dependencies = SetPending(g, f, flag).dependencies
      /\ g.dependents = SetPending(g, f, flag).dependents
  BY DEF SetPending, GraphType
<1> QED
  BY <1>1, <1>2, MirrorReadsNoMetadata DEF Derived

\* New metadata leaves the relationships alone.
LEMMA MetadataKeeps ==
  ASSUME NEW g, GraphType(g), Mirror(g), NEW bld, Derived(g, bld),
         NEW f \in File, NEW s \in {"analyzed", "unparseable"}
  PROVE  LET h == SetFileMetadata(g, f, NewMetadata(s))
         IN GraphType(h) /\ Mirror(h) /\ Derived(h, bld)
<1>1. GraphType(SetFileMetadata(g, f, NewMetadata(s)))
  BY MetadataType, NewMetadataType
<1>2. /\ g.relationships = SetFileMetadata(g, f, NewMetadata(s)).relationships
      /\ g.dependencies = SetFileMetadata(g, f, NewMetadata(s)).dependencies
      /\ g.dependents = SetFileMetadata(g, f, NewMetadata(s)).dependents
  BY DEF SetFileMetadata, GraphType
<1> QED
  BY <1>1, <1>2, MirrorReadsNoMetadata DEF Derived

\* Marking dependents pending keeps a good graph good.
LEMMA PendingMarkedKeeps ==
  ASSUME NEW g, GraphType(g), Mirror(g), NEW bld, Derived(g, bld), NEW files
  PROVE  LET h == PendingMarked(g, files)
         IN GraphType(h) /\ Mirror(h) /\ Derived(h, bld)
<1> DEFINE h == PendingMarked(g, files)
           marked == [f \in DOMAIN g.file_metadata |->
                        IF f \in files THEN [g.file_metadata[f] EXCEPT !.pending = TRUE]
                        ELSE g.file_metadata[f]]
<1>1. h = [g EXCEPT !.file_metadata = marked]
  BY DEF PendingMarked
<1>2. IsDict(marked, File, Meta)
  <2>1. ASSUME NEW f \in DOMAIN g.file_metadata PROVE marked[f] \in Meta
    <3>1. g.file_metadata[f] \in Meta
      BY DEF GraphType, IsDict
    <3>2. [g.file_metadata[f] EXCEPT !.pending = TRUE] \in Meta
      BY <3>1 DEF Meta
    <3> QED
      BY <3>1, <3>2
  <2>2. DOMAIN marked = DOMAIN g.file_metadata /\ DOMAIN marked \subseteq File
    BY DEF GraphType, IsDict
  <2> QED
    BY <2>1, <2>2 DEF IsDict
<1> HIDE DEF marked
<1>3. h = [relationships |-> g.relationships, dependencies |-> g.dependencies,
           dependents |-> g.dependents, file_metadata |-> marked]
  BY <1>1 DEF GraphType
<1> HIDE DEF h
<1>4. GraphType(h)
  BY <1>2, <1>3 DEF GraphType
<1>5. Mirror(h) /\ Derived(h, bld)
  BY <1>3, MirrorReadsNoMetadata DEF Derived
<1> QED
  BY <1>4, <1>5 DEF h

-----------------------------------------------------------------------------
\* The service starts with an empty graph.
LEMMA InitIInv == Init => IInv
<1> SUFFICES ASSUME Init PROVE IInv
  OBVIOUS
<1>1. Shape
  BY EmptyGraphGood, ResolverAssumption DEF Init, Shape, IsDict, EmptyDict
<1>2. Derived(graph, builder)
  BY DEF Init, Derived, EmptyGraph, EmptyDict
<1> QED
  BY <1>1, <1>2, EmptyGraphGood DEF Init, IInv

\* Unlinking a stale file only removes relationships.
LEMMA UnlinkKeeps == ASSUME IInv, NEW f \in File, Unlink(f) PROVE IInv'
<1> DEFINE g == RemoveOutgoingRelationships(graph, f)
<1>1. GraphType(g) /\ Mirror(g)
  BY RemoveOutgoingType, RemoveOutgoingMirror DEF IInv, Shape
<1>2. Derived(g, builder)
  <2>1. /\ DOMAIN g.relationships \subseteq DOMAIN graph.relationships
        /\ \A r \in DOMAIN g.relationships : g.relationships[r] = graph.relationships[r]
    BY CutFacts
  <2> QED
    BY <2>1, FewerDerived DEF IInv
<1>3. graph' = PendingMarked(g, GetSet(g.dependents, f))
  BY DEF Unlink
<1>4. GraphType(graph') /\ Mirror(graph') /\ Derived(graph', builder)
  BY <1>1, <1>2, <1>3, PendingMarkedKeeps
<1> QED
  BY <1>4 DEF IInv, Shape, Unlink

\* A rebuild replaces the relationships of a pending file.
LEMMA RebuildKeeps == ASSUME IInv, NEW f \in File, Rebuild(f) PROVE IInv'
<1>1. GraphType(Rebuilt(f)) /\ Mirror(Rebuilt(f)) /\ Derived(Rebuilt(f), builder)
  <2>1. CASE f \in DOMAIN builder
    <3> DEFINE g == RemoveOutgoingRelationships(graph, f)
    <3>1. GraphType(g) /\ Mirror(g)
      BY RemoveOutgoingType, RemoveOutgoingMirror DEF IInv, Shape
    <3>2. /\ DOMAIN g.relationships \subseteq DOMAIN graph.relationships
          /\ \A r \in DOMAIN g.relationships :
               g.relationships[r] = graph.relationships[r] /\ r.src # f
      BY CutFacts
    <3>3. Derived(g, builder)
      BY <3>2, FewerDerived DEF IInv
    <3> HIDE DEF g
    <3>4. LET h == AddAll(g, Once(BuildRelationshipsForFile(builder, f)))
          IN GraphType(h) /\ Mirror(h) /\ Derived(h, builder)
      BY <2>1, <3>1, <3>2, <3>3, ReplaceDerived DEF IInv, Shape
    <3> QED
      BY <2>1, <3>4 DEF Rebuilt, g
  <2>2. CASE f \notin DOMAIN builder
    BY <2>2 DEF Rebuilt, IInv, Shape
  <2> QED
    BY <2>1, <2>2
<1>2. GraphType(graph') /\ Mirror(graph') /\ Derived(graph', builder)
  BY <1>1, PendingKeeps DEF Rebuild
<1> QED
  BY <1>2 DEF IInv, Shape, Rebuild

\* Storing an analysis replaces those of the file, whatever came of its extraction.
LEMMA StoreKeeps == ASSUME IInv, NEW f \in File, Store(f) PROVE IInv'
<1> DEFINE result == AnalyzeFileTwoPhase(graph, builder, disk, f, data)
<1>1. /\ GraphType(result.graph) /\ Mirror(result.graph)
      /\ Derived(result.graph, result.builder)
      /\ IsDict(result.builder, File, Symbols)
  <2>1. CASE data = NoData
    BY <2>1 DEF AnalyzeFileTwoPhase, IInv, Shape
  <2>2. CASE data # NoData /\ ~ data.valid
    <3>1. result.graph = SetFileMetadata(graph, f, NewMetadata("unparseable"))
          /\ result.builder = builder
      BY <2>2 DEF AnalyzeFileTwoPhase, MarkUnparseable
    <3> QED
      BY <3>1, MetadataKeeps DEF IInv, Shape
  <2>3. CASE data # NoData /\ data.valid
    <3>1. data \in Symbols
      BY <2>3 DEF IInv, Shape, Invalid
    <3> DEFINE added == AddFileData(builder, f, data)
               known == EnsureDependencySymbolsLoaded(added, disk, data.imports)
               cut   == RemoveRelationshipsForFile(graph, f)
               built == AddAll(cut, Once(BuildRelationshipsForFile(known, f)))
    <3>2. /\ IsDict(known, File, Symbols) /\ f \in DOMAIN known
          /\ \A k \in DOMAIN builder \ {f} : k \in DOMAIN known /\ known[k] = builder[k]
      <4>1. /\ IsDict(added, File, Symbols) /\ f \in DOMAIN added
            /\ \A k \in DOMAIN builder \ {f} : k \in DOMAIN added /\ added[k] = builder[k]
        BY <3>1, AddFileDataType DEF IInv, Shape
      <4> HIDE DEF added
      <4>2. data.imports \in SUBSET Target
        BY <3>1 DEF Symbols
      <4>3. /\ IsDict(known, File, Symbols)
            /\ \A k \in DOMAIN added : k \in DOMAIN known /\ known[k] = added[k]
        BY <4>1, <4>2, EnsureLoadedType DEF IInv, Shape
      <4> QED
        BY <4>1, <4>3
    <3>3. GraphType(cut) /\ Mirror(cut)
      BY RemoveForFileType, RemoveForFileMirror DEF IInv, Shape
    <3>4. /\ DOMAIN cut.relationships \subseteq DOMAIN graph.relationships
          /\ \A r \in DOMAIN cut.relationships :
               cut.relationships[r] = graph.relationships[r] /\ r.src # f
      BY CutFacts
    <3>5. Derived(cut, builder)
      BY <3>4, FewerDerived DEF IInv
    <3>6. result.graph = SetFileMetadata(built, f, NewMetadata("analyzed"))
          /\ result.builder = known
      BY <2>3 DEF AnalyzeFileTwoPhase, StoreRelationships
    <3> HIDE DEF cut, known
    <3>7. GraphType(built) /\ Mirror(built) /\ Derived(built, known)
      BY <3>2, <3>3, <3>4, <3>5, ReplaceDerived
    <3> HIDE DEF built
    <3> QED
      BY <3>2, <3>6, <3>7, MetadataKeeps
  <2> QED
    BY <2>1, <2>2, <2>3
<1>2. /\ graph' = SetPending(result.graph, f, FALSE)
      /\ builder' = result.builder
      /\ disk' = disk /\ data' = NoData
  BY DEF Store
<1> HIDE DEF result
<1>3. GraphType(graph') /\ Mirror(graph') /\ Derived(graph', builder')
  BY <1>1, <1>2, PendingKeeps
<1> QED
  BY <1>1, <1>2, <1>3 DEF IInv, Shape

\* Every edit and every step of a read keeps the invariant.
LEMMA NextIInv == IInv /\ [Next]_vars => IInv'
<1> SUFFICES ASSUME IInv, [Next]_vars PROVE IInv'
  OBVIOUS
<1>1. ASSUME NEW f \in File, NEW c \in Contents[f], Edit(f, c) PROVE IInv'
  <2>1. disk' \in [File -> Disk]
    BY <1>1, ResolverAssumption DEF Edit, IInv, Shape
  <2> QED
    BY <1>1, <2>1 DEF Edit, IInv, Shape
<1>2. ASSUME NEW t \in ReadTargets, StartRead(t) PROVE IInv'
  BY <1>2 DEF StartRead, IInv, Shape
<1>3. CASE Resolve \/ Schedule \/ Finish \/ Answer
  BY <1>3 DEF Resolve, Schedule, Finish, Answer, IInv, Shape
<1>4. ASSUME NEW f \in File, Unlink(f) PROVE IInv'
  BY <1>4, UnlinkKeeps
<1>5. ASSUME NEW f \in File, Extract(f) PROVE IInv'
  <2>1. data' \in {NoData, Invalid} \cup Symbols
    BY <1>5, ExtractType DEF Extract, IInv, Shape
  <2> QED
    BY <1>5, <2>1 DEF Extract, IInv, Shape
<1>6. ASSUME NEW f \in File, Store(f) PROVE IInv'
  BY <1>6, StoreKeeps
<1>7. ASSUME NEW f \in File, Rebuild(f) PROVE IInv'
  BY <1>7, RebuildKeeps
<1>8. CASE UNCHANGED vars
  BY <1>8 DEF vars, IInv, Shape
<1> QED
  BY <1>1, <1>2, <1>3, <1>4, <1>5, <1>6, <1>7, <1>8 DEF Next, Service

(***************************************************************************)
(* No relationship outlives the symbol data it was derived from, and none  *)
(* is in the list twice.                                                   *)
(***************************************************************************)
THEOREM ResolverEdgesDerived == Spec => []EdgesFromSymbolsOnce
<1>1. IInv => EdgesFromSymbolsOnce
  <2> SUFFICES ASSUME IInv PROVE EdgesFromSymbolsOnce
    OBVIOUS
  <2>1. DuplicateErrors(graph) = {}
    BY DEF IInv, Derived, DuplicateErrors
  <2> QED
    BY <2>1 DEF IInv, Derived, EdgesFromSymbolsOnce
<1> QED
  BY InitIInv, NextIInv, <1>1, PTL DEF Spec
-----------------------------------------------------------------------------
(***************************************************************************)
(* When no edit falls inside a read and no file vanishes or appears, the   *)
(* symbol data of a file that is analyzed and not touched is that of its   *)
(* content: the timestamp taken after the read stands for what was read.   *)
(* The invariant says so at every step, and what the store step relies on: *)
(* the data it stores is still that of the disk.                           *)
(***************************************************************************)
Calm == /\ EditDuringRead = FALSE
        /\ \A f \in File : Initial[f] # Absent /\ Absent \notin Contents[f]

AnalyzedIn(g, f) == f \in DOMAIN g.file_metadata /\ g.file_metadata[f].status = "analyzed"

Current(g, bld, d, tch) ==
  \A f \in File : AnalyzedIn(g, f) /\ f \notin tch =>
    f \in DOMAIN bld /\ bld[f] = ExtractFileSymbols(d, f)

FreshInv ==
  /\ \A f \in File : disk[f] # Absent
  /\ Current(graph, builder, disk, touched)
  /\ pc = "store" => data = ExtractFileSymbols(disk, Head(todo))

\* The pending flag says nothing of the status.
LEMMA SetPendingStatus ==
  ASSUME NEW g, GraphType(g), NEW f \in File, NEW flag \in BOOLEAN
  PROVE  \A x \in File : AnalyzedIn(SetPending(g, f, flag), x) <=> AnalyzedIn(g, x)
<1>1. CASE f \in DOMAIN g.file_metadata
  <2> DEFINE m == [g.file_metadata[f] EXCEPT !.pending = flag]
             marked == Put(g.file_metadata, f, m)
  <2>1. m.status = g.file_metadata[f].status
    BY <1>1 DEF GraphType, IsDict, Meta
  <2>2. SetPending(g, f, flag).file_metadata = marked
    BY <1>1 DEF SetPending, GraphType
  <2> HIDE DEF m
  <2>3. DOMAIN marked = DOMAIN g.file_metadata
        /\ \A x \in DOMAIN marked : marked[x] = IF x = f THEN m ELSE g.file_metadata[x]
    BY <1>1 DEF Put
  <2> HIDE DEF marked
  <2> QED
    BY <2>1, <2>2, <2>3 DEF AnalyzedIn
<1>2. CASE f \notin DOMAIN g.file_metadata
  BY <1>2 DEF SetPending
<1> QED
  BY <1>1, <1>2

\* Marking dependents pending changes no status.
LEMMA PendingMarkedStatus ==
  ASSUME NEW g, GraphType(g), NEW files
  PROVE  \A x \in File : AnalyzedIn(PendingMarked(g, files), x) <=> AnalyzedIn(g, x)
<1> DEFINE marked == [f \in DOMAIN g.file_metadata |->
                        IF f \in files THEN [g.file_metadata[f] EXCEPT !.pending = TRUE]
                        ELSE g.file_metadata[f]]
<1>1. PendingMarked(g, files).file_metadata = marked
  BY DEF PendingMarked, GraphType
<1>2. ASSUME NEW f \in DOMAIN g.file_metadata
      PROVE  marked[f].status = g.file_metadata[f].status
  <2>1. g.file_metadata[f] \in Meta
    BY DEF GraphType, IsDict
  <2> QED
    BY <2>1 DEF Meta
<1>3. DOMAIN marked = DOMAIN g.file_metadata
  OBVIOUS
<1> HIDE DEF marked
<1> QED
  BY <1>1, <1>2, <1>3 DEF AnalyzedIn

\* Storing new metadata for f decides the status of f, and of no other file.
LEMMA SetMetadataStatus ==
  ASSUME NEW g, GraphType(g), NEW f \in File, NEW s
  PROVE  \A x \in File : AnalyzedIn(SetFileMetadata(g, f, NewMetadata(s)), x) <=>
                           IF x = f THEN s = "analyzed" ELSE AnalyzedIn(g, x)
<1>1. SetFileMetadata(g, f, NewMetadata(s)).file_metadata
        = Put(g.file_metadata, f, NewMetadata(s))
  BY DEF SetFileMetadata, GraphType
<1> QED
  BY <1>1 DEF AnalyzedIn, Put, NewMetadata

\* A rebuild adds and removes relationships, and leaves the metadata alone.
LEMMA RebuiltMetadata ==
  ASSUME IInv, NEW f \in File
  PROVE  GraphType(Rebuilt(f)) /\ Rebuilt(f).file_metadata = graph.file_metadata
<1>1. GraphType(Rebuilt(f))
  <2>1. CASE f \in DOMAIN builder
    <3>1. BuildRelationshipsForFile(builder, f) \subseteq Rel
      BY <2>1, BuiltRelationships DEF IInv, Shape
    <3> QED
      BY <2>1, <3>1, OnceType, RemoveOutgoingType, AddAllType DEF Rebuilt, IInv, Shape
  <2>2. CASE f \notin DOMAIN builder
    BY <2>2 DEF Rebuilt, IInv, Shape
  <2> QED
    BY <2>1, <2>2
<1>2. Rebuilt(f).file_metadata = graph.file_metadata
  <2> DEFINE g == RemoveOutgoingRelationships(graph, f)
  <2>1. g.file_metadata = graph.file_metadata
    BY DEF RemoveOutgoingRelationships
  <2> HIDE DEF g
  <2>2. AddAll(g, Once(BuildRelationshipsForFile(builder, f))).file_metadata = g.file_metadata
    BY DEF AddAll
  <2> QED
    BY <2>1, <2>2 DEF Rebuilt, g
<1> QED
  BY <1>1, <1>2

\* No file has metadata at first.
LEMMA FreshInit == ASSUME Calm, Init PROVE FreshInv
BY DEF Calm, Init, FreshInv, Current, AnalyzedIn, EmptyGraph, EmptyDict

\* An edit between reads touches the file it changes.
LEMMA FreshEdit ==
  ASSUME Calm, IInv, FreshInv, NEW f \in File, NEW c \in Contents[f], Edit(f, c)
  PROVE  FreshInv'
<1>1. pc = "idle" /\ c # Absent
  BY DEF Calm, Edit
<1>2. disk' = [disk EXCEPT ![f] = c] /\ disk \in [File -> Disk]
  BY DEF Edit, IInv, Shape
<1>3. \A x \in File : disk'[x] # Absent
  BY <1>1, <1>2 DEF FreshInv
<1>4. ASSUME NEW x \in File, x # f
      PROVE  ExtractFileSymbols(disk', x) = ExtractFileSymbols(disk, x)
  <2>1. disk'[x] = disk[x] /\ disk[x] \in Disk \ {Absent}
    BY <1>2, <1>4 DEF FreshInv
  <2>2. disk[x].imports \subseteq File
    BY <2>1 DEF Disk
  <2>3. \A t \in disk[x].imports : ResolveModule(disk', t) = ResolveModule(disk, t)
    BY <1>3, <2>2 DEF ResolveModule, FreshInv
  <2>4. {ResolveModule(disk', t) : t \in disk[x].imports}
          = {ResolveModule(disk, t) : t \in disk[x].imports}
    BY <2>3
  <2> QED
    BY <2>1, <2>4 DEF ExtractFileSymbols
<1>5. touched' = touched \cup {f}
  BY <1>1 DEF Edit
<1>6. graph' = graph /\ builder' = builder /\ pc' = pc
  BY DEF Edit
<1>7. Current(graph, builder, disk', touched')
  BY <1>4, <1>5 DEF FreshInv, Current
<1> QED
  BY <1>1, <1>3, <1>6, <1>7 DEF FreshInv

\* A file is stamped together with the symbol data of its content.
LEMMA FreshStore ==
  ASSUME IInv, FreshInv, NEW f \in File, Store(f)
  PROVE  FreshInv'
<1> DEFINE result == AnalyzeFileTwoPhase(graph, builder, disk, f, data)
<1>1. data = ExtractFileSymbols(disk, f)
  BY DEF Store, FreshInv
<1>2. GraphType(result.graph) /\ Current(result.graph, result.builder, disk, touched')
  <2>1. CASE data = NoData
    BY <2>1 DEF AnalyzeFileTwoPhase, Store, FreshInv, IInv, Shape
  <2>2. CASE data # NoData /\ ~ data.valid
    <3>1. result.graph = SetFileMetadata(graph, f, NewMetadata("unparseable"))
          /\ result.builder = builder /\ touched' = touched \ {f}
      BY <2>2 DEF AnalyzeFileTwoPhase, MarkUnparseable, Store
    <3>2. GraphType(result.graph)
      BY <3>1, MetadataKeeps DEF IInv, Shape
    <3>3. \A x \in File : AnalyzedIn(result.graph, x) => x # f /\ AnalyzedIn(graph, x)
      BY <3>1, SetMetadataStatus DEF IInv, Shape
    <3> QED
      BY <3>1, <3>2, <3>3 DEF FreshInv, Current
  <2>3. CASE data # NoData /\ data.valid
    <3>1. data \in Symbols
      BY <2>3 DEF IInv, Shape, Invalid
    <3> DEFINE added == AddFileData(builder, f, data)
               known == EnsureDependencySymbolsLoaded(added, disk, data.imports)
               cut   == RemoveRelationshipsForFile(graph, f)
               bag   == Once(BuildRelationshipsForFile(known, f))
               built == AddAll(cut, bag)
    <3>2. /\ IsDict(added, File, Symbols) /\ f \in DOMAIN added /\ added[f] = data
          /\ \A k \in DOMAIN builder \ {f} : k \in DOMAIN added /\ added[k] = builder[k]
      BY <3>1, AddFileDataType DEF IInv, Shape
    <3> HIDE DEF added
    <3>3. data.imports \in SUBSET Target
      BY <3>1 DEF Symbols
    <3>4. /\ IsDict(known, File, Symbols)
          /\ \A k \in DOMAIN added : k \in DOMAIN known /\ known[k] = added[k]
      BY <3>2, <3>3, EnsureLoadedType DEF IInv, Shape
    <3>5. result.graph = SetFileMetadata(built, f, NewMetadata("analyzed"))
          /\ result.builder = known /\ touched' = touched \ {f}
      BY <2>3 DEF AnalyzeFileTwoPhase, StoreRelationships, Store, added
    <3> HIDE DEF known
    <3>6. BuildRelationshipsForFile(known, f) \subseteq Rel
      BY <3>2, <3>4, BuiltRelationships
    <3>7. GraphType(cut) /\ IsDict(bag, Rel, Nat \ {0})
      BY <3>6, OnceType, RemoveForFileType DEF IInv, Shape
    <3> HIDE DEF bag
    <3>8. built.file_metadata = Del(graph.file_metadata, f)
      <4>1. cut.file_metadata = Del(graph.file_metadata, f)
        BY DEF RemoveRelationshipsForFile
      <4> HIDE DEF cut
      <4> QED
        BY <4>1 DEF AddAll
    <3>9. GraphType(built)
      BY <3>7, AddAllType
    <3>10. \A x \in File : AnalyzedIn(built, x) => AnalyzedIn(graph, x)
      <4> DEFINE left == Del(graph.file_metadata, f)
      <4>1. DOMAIN left = DOMAIN graph.file_metadata \ {f}
            /\ \A x \in DOMAIN left : left[x] = graph.file_metadata[x]
        BY DelFacts
      <4>2. built.file_metadata = left
        BY <3>8
      <4> HIDE DEF left, built
      <4> QED
        BY <4>1, <4>2 DEF AnalyzedIn
    <3> HIDE DEF built
    <3>11. GraphType(result.graph)
      BY <3>5, <3>9, MetadataType, NewMetadataType
    <3>12. \A x \in File : AnalyzedIn(result.graph, x) => x = f \/ AnalyzedIn(graph, x)
      BY <3>5, <3>9, <3>10, SetMetadataStatus
    <3>13. known[f] = ExtractFileSymbols(disk, f)
           /\ \A k \in DOMAIN builder \ {f} : k \in DOMAIN known /\ known[k] = builder[k]
      BY <1>1, <3>2, <3>4
    <3>14. f \in DOMAIN known
      BY <3>2, <3>4
    <3> QED
      BY <3>5, <3>11, <3>12, <3>13, <3>14 DEF FreshInv, Current
  <2> QED
    BY <2>1, <2>2, <2>3
<1>3. /\ graph' = SetPending(result.graph, f, FALSE)
      /\ builder' = result.builder
      /\ disk' = disk /\ pc' = "process"
  BY DEF Store
<1> HIDE DEF result
<1>4. Current(graph', builder', disk', touched')
  BY <1>2, <1>3, SetPendingStatus DEF Current
<1> QED
  BY <1>3, <1>4 DEF FreshInv

\* Every step keeps it so when no edit falls in a read.
LEMMA FreshNext == ASSUME Calm, IInv, FreshInv, [Next]_vars PROVE FreshInv'
<1>1. ASSUME NEW f \in File, NEW c \in Contents[f], Edit(f, c) PROVE FreshInv'
  BY <1>1, FreshEdit
<1>2. ASSUME NEW t \in ReadTargets, StartRead(t) PROVE FreshInv'
  BY <1>2 DEF StartRead, FreshInv
<1>3. CASE Resolve \/ Schedule \/ Finish \/ Answer
  BY <1>3 DEF Resolve, Schedule, Finish, Answer, FreshInv
<1>4. ASSUME NEW f \in File, Unlink(f) PROVE FreshInv'
  <2> DEFINE g == RemoveOutgoingRelationships(graph, f)
  <2>1. GraphType(g) /\ g.file_metadata = graph.file_metadata
    BY RemoveOutgoingType DEF IInv, Shape, RemoveOutgoingRelationships
  <2>2. graph' = PendingMarked(g, GetSet(g.dependents, f))
    BY <1>4 DEF Unlink
  <2> HIDE DEF g
  <2>3. \A x \in File : AnalyzedIn(graph', x) <=> AnalyzedIn(graph, x)
    BY <2>1, <2>2, PendingMarkedStatus DEF AnalyzedIn
  <2> QED
    BY <1>4, <2>3 DEF Unlink, FreshInv, Current
<1>5. ASSUME NEW f \in File, Extract(f) PROVE FreshInv'
  BY <1>5 DEF Extract, FreshInv
<1>6. ASSUME NEW f \in File, Store(f) PROVE FreshInv'
  BY <1>6, FreshStore
<1>7. ASSUME NEW f \in File, Rebuild(f) PROVE FreshInv'
  <2>1. GraphType(Rebuilt(f)) /\ Rebuilt(f).file_metadata = graph.file_metadata
    BY RebuiltMetadata
  <2>2. \A x \in File : AnalyzedIn(graph', x) <=> AnalyzedIn(graph, x)
    <3>1. \A x \in File : AnalyzedIn(graph', x) <=> AnalyzedIn(Rebuilt(f), x)
      BY <1>7, <2>1, SetPendingStatus DEF Rebuild
    <3> QED
      BY <2>1, <3>1 DEF AnalyzedIn
  <2> QED
    BY <1>7, <2>2 DEF Rebuild, FreshInv, Current
<1>8. CASE UNCHANGED vars
  BY <1>8 DEF vars, FreshInv
<1> QED
  BY <1>1, <1>2, <1>3, <1>4, <1>5, <1>6, <1>7, <1>8 DEF Next, Service

(***************************************************************************)
(* With no edit inside a read and no file appearing or vanishing, a file   *)
(* the resolver would not re-analyze has the symbol data of its content.   *)
(* An edit between the extraction of a file and its stamp is lost, which   *)
(* is why the first condition is needed.                                   *)
(***************************************************************************)
THEOREM ResolverFreshSymbols == Calm => (Spec => []FreshSymbolsCurrent)
<1> SUFFICES ASSUME Calm PROVE Spec => []FreshSymbolsCurrent
  OBVIOUS
<1>1. Init => IInv /\ FreshInv
  BY InitIInv, FreshInit
<1>2. (IInv /\ FreshInv) /\ [Next]_vars => (IInv /\ FreshInv)'
  BY NextIInv, FreshNext
<1>3. IInv /\ FreshInv => FreshSymbolsCurrent
  BY DEF FreshInv, Current, FreshSymbolsCurrent, AnalyzedIn, Analyzed
<1> QED
  BY <1>1, <1>2, <1>3, PTL DEF Spec
-----------------------------------------------------------------------------
(***************************************************************************)
(* sorted(files) has every one of the files, and nothing else: the rank of *)
(* a name is a bijection, so the nth name exists for each n.               *)
(***************************************************************************)
LEMMA ByNameLists ==
  ASSUME NEW files \in SUBSET File
  PROVE  /\ IsFiniteSet(files)
         /\ ByName[files] \in Seq(files) /\ IsInjective(ByName[files])
         /\ \A f \in files : \E n \in 1..Len(ByName[files]) : ByName[files][n] = f
<1> DEFINE at      == {i \in DOMAIN NameOrder : NameOrder[i] \in files}
           upto(i) == {j \in at : j <= i}
           rank    == [i \in at |-> Cardinality(upto(i))]
           size    == Cardinality(at)
           nth(n)  == CHOOSE i \in at : Cardinality(upto(i)) = n
<1>1. NameOrder \in Seq(File) /\ File \subseteq {NameOrder[i] : i \in DOMAIN NameOrder}
  BY NamesAssumption DEF ToSet
<1>2. at \subseteq 1..Len(NameOrder) /\ IsFiniteSet(at) /\ size \in Nat
  <2>1. at \subseteq 1..Len(NameOrder) /\ Len(NameOrder) \in Nat
    BY <1>1
  <2> HIDE DEF at
  <2>2. IsFiniteSet(1..Len(NameOrder))
    BY <2>1, FS_Interval
  <2>3. IsFiniteSet(at)
    BY <2>1, <2>2, FS_Subset
  <2> QED
    BY <2>1, <2>3, FS_CardinalityType
<1>3. at \subseteq Int
  BY <1>2
<1>4. \A f \in files : \E i \in at : NameOrder[i] = f
  BY <1>1
<1>5. \A i \in at : i \in DOMAIN NameOrder /\ NameOrder[i] \in files
  OBVIOUS
<1>6. ByName[files] = [n \in 1..size |-> NameOrder[nth(n)]]
  BY DEF ByName
<1>7. IsFiniteSet(files)
  <2>1. [i \in at |-> NameOrder[i]] \in Surjection(at, files)
    BY <1>4, <1>5 DEF Surjection
  <2> HIDE DEF at
  <2> QED
    BY <1>2, <2>1, FS_Surjection
<1> HIDE DEF at
<1>8. ASSUME NEW i \in at
      PROVE  upto(i) \subseteq at /\ IsFiniteSet(upto(i)) /\ Cardinality(upto(i)) \in 1..size
  <2>1. upto(i) \subseteq at /\ i \in upto(i)
    BY <1>3
  <2> HIDE DEF upto
  <2>2. IsFiniteSet(upto(i)) /\ Cardinality(upto(i)) <= size
    BY <1>2, <2>1, FS_Subset
  <2>3. Cardinality(upto(i)) \in Nat /\ Cardinality(upto(i)) # 0
    BY <2>1, <2>2, FS_CardinalityType, FS_EmptySet
  <2> QED
    BY <1>2, <2>1, <2>2, <2>3
<1>9. ASSUME NEW i \in at, NEW k \in at, Cardinality(upto(i)) = Cardinality(upto(k)) PROVE i = k
  <2>1. ASSUME NEW a \in at, NEW b \in at, a < b, Cardinality(upto(a)) = Cardinality(upto(b))
        PROVE  FALSE
    <3>1. a \in Int /\ b \in Int
      BY <1>3
    <3>2. b \in upto(b) /\ b \notin upto(a)
      BY <2>1, <3>1
    <3>3. \A j \in at : j \in Int
      BY <1>3
    <3>4. ASSUME NEW j \in upto(a) PROVE j \in upto(b)
      <4>1. j \in at /\ j <= a /\ a < b
        BY <2>1
      <4> QED
        BY <3>1, <3>3, <4>1
    <3>5. IsFiniteSet(upto(b))
      BY <1>8
    <3> HIDE DEF upto
    <3> QED
      BY <2>1, <3>2, <3>4, <3>5, FS_Subset
  <2>2. i < k \/ k < i \/ i = k
    BY <1>3
  <2> HIDE DEF upto
  <2> QED
    BY <1>9, <2>1, <2>2
<1>10. rank \in Surjection(at, 1..size)
  <2>1. rank \in Injection(at, 1..size)
    BY <1>8, <1>9 DEF Injection, IsInjective
  <2>2. IsFiniteSet(1..size) /\ Cardinality(1..size) = size
    BY <1>2, FS_Interval
  <2> HIDE DEF rank
  <2> QED
    BY <2>1, <2>2, FS_Injection
<1>11. \A n \in 1..size : nth(n) \in at /\ Cardinality(upto(nth(n))) = n
  BY <1>10 DEF Surjection
<1> HIDE DEF nth
<1>12. ByName[files] \in Seq(files) /\ Len(ByName[files]) = size
  <2>1. \A n \in 1..size : NameOrder[nth(n)] \in files
    BY <1>5, <1>11
  <2> HIDE DEF size
  <2> QED
    BY <1>2, <1>6, <2>1
<1>13. ASSUME NEW f \in files PROVE \E n \in 1..size : ByName[files][n] = f
  <2>1. PICK i \in at : NameOrder[i] = f
    BY <1>4
  <2>2. Cardinality(upto(i)) \in 1..size
    BY <1>8
  <2>3. nth(Cardinality(upto(i))) = i
    BY <1>9, <1>11, <2>2
  <2> QED
    BY <1>6, <2>1, <2>2, <2>3
<1>14. IsInjective(ByName[files])
  <2>1. ASSUME NEW m \in 1..size, NEW n \in 1..size, ByName[files][m] = ByName[files][n]
        PROVE  m = n
    <3>1. NameOrder[nth(m)] = NameOrder[nth(n)] /\ nth(m) \in at /\ nth(n) \in at
      BY <1>6, <1>11, <2>1
    <3>2. nth(m) \in DOMAIN NameOrder /\ nth(n) \in DOMAIN NameOrder
      BY <1>5, <3>1
    <3>3. nth(m) = nth(n)
      <4> DEFINE a == nth(m)
                 b == nth(n)
      <4>1. a \in DOMAIN NameOrder /\ b \in DOMAIN NameOrder /\ NameOrder[a] = NameOrder[b]
        BY <3>1, <3>2
      <4> HIDE DEF a, b
      <4>2. a = b
        BY <4>1, NamesAssumption DEF IsInjective
      <4> QED
        BY <4>2 DEF a, b
    <3> QED
      BY <1>11, <3>3
  <2> QED
    BY <1>12, <2>1 DEF IsInjective
<1> QED
  BY <1>7, <1>12, <1>13, <1>14

(***************************************************************************)
(* The loop of Kahn's algorithm lists files to sort, however the indices   *)
(* relate them.                                                            *)
(***************************************************************************)
(* What Kahn's loop owes: it lists files once, each after those it waits   *)
(* for, and stops at none that is ready.                                   *)
(***************************************************************************)
InOrder(files, index, order) ==
  /\ order \in Seq(files) /\ IsInjective(order)
  /\ \A i \in 1..Len(order) :
       Blocking(files, index, order[i]) \subseteq {order[j] : j \in 1..i - 1}

LEMMA KahnFacts ==
  ASSUME NEW files \in SUBSET File, NEW index
  PROVE  LET kahn == KahnOrder(files, index)
         IN /\ InOrder(files, index, kahn)
            /\ \A f \in files \ ToSet(kahn) : ~ (Blocking(files, index, f) \subseteq ToSet(kahn))
<1> DEFINE blocking == [f \in files |-> Blocking(files, index, f)]
           ready(done) == {f \in files \ done : blocking[f] \subseteq done}
           extend(order) ==
             LET next == ready(ToSet(order))
             IN IF next = {} THEN order ELSE Append(order, Head(ByName[next]))
           loop(f) == f = [n \in Nat |-> IF n = 0 THEN <<>> ELSE extend(f[n - 1])]
           Good(order) == InOrder(files, index, order)
           size == Cardinality(files)
<1>1. \A done, f : f \in ready(done) <=>
                     f \in files /\ f \notin done /\ Blocking(files, index, f) \subseteq done
  OBVIOUS
<1>2. \A order : extend(order) = IF ready(ToSet(order)) = {} THEN order
                                 ELSE Append(order, Head(ByName[ready(ToSet(order))]))
  OBVIOUS
<1>3. KahnOrder(files, index) = (CHOOSE f : loop(f))[size]
  BY DEF KahnOrder
<1> HIDE DEF extend, ready
<1>4. ASSUME NEW order \in Seq(files), ready(ToSet(order)) # {}
      PROVE  \E f \in ready(ToSet(order)) : extend(order) = Append(order, f)
  <2> DEFINE next == ready(ToSet(order))
  <2>1. next \in SUBSET files
    BY <1>1
  <2>2. next # {} /\ extend(order) = Append(order, Head(ByName[next]))
    BY <1>2, <1>4
  <2> HIDE DEF next
  <2>3. next \in SUBSET File
    BY <2>1
  <2>4. ByName[next] \in Seq(next) /\ \E n \in 1..Len(ByName[next]) : TRUE
    BY <2>2, <2>3, ByNameLists
  <2>5. Head(ByName[next]) \in next
    BY <2>4
  <2> QED
    BY <2>2, <2>5 DEF next
<1>5. \A order \in Seq(files) : extend(order) \in Seq(files)
  <2> SUFFICES ASSUME NEW order \in Seq(files) PROVE extend(order) \in Seq(files)
    OBVIOUS
  <2>1. CASE ready(ToSet(order)) = {}
    BY <1>2, <2>1
  <2>2. CASE ready(ToSet(order)) # {}
    <3>1. PICK f \in ready(ToSet(order)) : extend(order) = Append(order, f)
      BY <1>4, <2>2
    <3>2. f \in files
      BY <1>1
    <3> QED
      BY <3>1, <3>2
  <2> QED
    BY <2>1, <2>2
<1>6. ASSUME NEW order, Good(order), ready(ToSet(order)) # {}
      PROVE  Good(extend(order)) /\ Len(extend(order)) = Len(order) + 1
  <2>1. order \in Seq(files) /\ IsInjective(order)
    BY <1>6 DEF InOrder
  <2>2. PICK f \in ready(ToSet(order)) : extend(order) = Append(order, f)
    BY <1>4, <1>6, <2>1
  <2>3. f \in files /\ f \notin ToSet(order) /\ Blocking(files, index, f) \subseteq ToSet(order)
    BY <1>1
  <2> DEFINE more == Append(order, f)
  <2>4. /\ more \in Seq(files) /\ Len(more) = Len(order) + 1 /\ more[Len(order) + 1] = f
        /\ \A i \in 1..Len(order) : more[i] = order[i]
    BY <2>1, <2>3
  <2> HIDE DEF more
  <2>5. ToSet(order) = {order[i] : i \in 1..Len(order)}
    BY <2>1 DEF ToSet
  <2>6. IsInjective(more)
    BY <2>1, <2>3, <2>4, <2>5 DEF IsInjective
  <2>7. ASSUME NEW i \in 1..Len(order) + 1
        PROVE  Blocking(files, index, more[i]) \subseteq {more[j] : j \in 1..i - 1}
    <3>1. CASE i = Len(order) + 1
      <4>1. \A x \in ToSet(order) : x \in {more[j] : j \in 1..i - 1}
        BY <2>1, <2>4, <2>5, <3>1
      <4> QED
        BY <2>1, <2>3, <2>4, <3>1, <4>1
    <3>2. CASE i \in 1..Len(order)
      <4>1. Blocking(files, index, order[i]) \subseteq {order[j] : j \in 1..i - 1}
        BY <1>6, <3>2 DEF InOrder
      <4>2. \A j \in 1..i - 1 : order[j] = more[j]
        BY <2>1, <2>4, <3>2
      <4> QED
        BY <2>4, <3>2, <4>1, <4>2
    <3> QED
      BY <2>1, <3>1, <3>2
  <2>8. Good(more)
    BY <2>4, <2>6, <2>7 DEF InOrder
  <2> QED
    BY <2>2, <2>4, <2>8 DEF more
<1>7. \E f : loop(f)
  <2> DEFINE D == Seq(files)
             step == [order \in D |-> extend(order)]
             start == <<>>
  <2>1. start \in D /\ step \in [D -> D]
    BY <1>5
  <2>2. \A order \in D : step[order] = extend(order)
    OBVIOUS
  <2> HIDE DEF step, D, start
  <2>3. \E f \in [Nat -> D] : f = [n \in Nat |-> IF n = 0 THEN start ELSE step[f[n - 1]]]
    BY <2>1, RecursionOnNat
  <2>4. PICK f \in [Nat -> D] : f = [n \in Nat |-> IF n = 0 THEN start ELSE step[f[n - 1]]]
    BY <2>3
  <2>5. \A n \in Nat : n # 0 => step[f[n - 1]] = extend(f[n - 1])
    BY <2>2
  <2>6. loop(f)
    BY <2>4, <2>5 DEF start
  <2> HIDE DEF loop
  <2> QED
    BY <2>6
<1>8. IsFiniteSet(files) /\ size \in Nat
  BY ByNameLists, FS_CardinalityType
<1> DEFINE stuck(order) == ready(ToSet(order)) = {}
<1>9. ASSUME NEW f, loop(f)
      PROVE  \A n \in Nat : Good(f[n]) /\ (stuck(f[n]) \/ Len(f[n]) = n)
  <2> DEFINE S == {n \in Nat : Good(f[n]) /\ (stuck(f[n]) \/ Len(f[n]) = n)}
  <2>1. 0 \in S
    <3>1. f[0] = <<>>
      BY <1>9
    <3>2. <<>> \in Seq(files) /\ Len(<<>>) = 0
      OBVIOUS
    <3>3. Good(<<>>)
      BY <3>2 DEF InOrder, IsInjective
    <3> HIDE DEF loop
    <3> QED
      BY <3>1, <3>2, <3>3
  <2>2. ASSUME NEW n \in Nat, n \in S PROVE n + 1 \in S
    <3>1. f[n + 1] = extend(f[n])
      BY <1>9
    <3> HIDE DEF loop
    <3>2. CASE stuck(f[n])
      <4>1. f[n + 1] = f[n]
        BY <1>2, <3>1, <3>2
      <4> QED
        BY <2>2, <3>2, <4>1
    <3>3. CASE ~ stuck(f[n])
      <4>1. Good(f[n]) /\ Len(f[n]) = n
        BY <2>2, <3>3
      <4>2. Good(f[n + 1]) /\ Len(f[n + 1]) = n + 1
        BY <1>6, <3>1, <3>3, <4>1
      <4> QED
        BY <4>2
    <3> QED
      BY <3>2, <3>3
  <2> HIDE DEF S
  <2>3. Nat \subseteq S
    BY <2>1, <2>2, SetInduction
  <2> QED
    BY <2>3 DEF S
<1>10. ASSUME NEW order, Good(order), Len(order) = size PROVE stuck(order)
  <2>1. order \in [1..size -> files] /\ IsInjective(order)
    BY <1>10 DEF InOrder
  <2>2. order \in Injection(1..size, files)
    BY <2>1 DEF Injection
  <2>3. IsFiniteSet(1..size) /\ Cardinality(1..size) = size
    BY <1>8, FS_Interval
  <2>4. order \in Surjection(1..size, files)
    BY <1>8, <2>2, <2>3, FS_Injection
  <2>5. files \subseteq ToSet(order)
    BY <2>1, <2>4 DEF Surjection, ToSet
  <2> QED
    BY <1>1, <2>5
<1>11. PICK f : loop(f) /\ KahnOrder(files, index) = f[size]
  BY <1>3, <1>7
<1> DEFINE kahn == KahnOrder(files, index)
<1>12. Good(kahn) /\ stuck(kahn)
  <2>1. Good(f[size]) /\ (stuck(f[size]) \/ Len(f[size]) = size)
    BY <1>8, <1>9, <1>11
  <2> QED
    BY <1>10, <1>11, <2>1
<1>13. \A x \in files \ ToSet(kahn) : ~ (Blocking(files, index, x) \subseteq ToSet(kahn))
  BY <1>1, <1>12
<1> QED
  BY <1>12, <1>13

(***************************************************************************)
(* To depend on a file is to depend on what that file depends on.          *)
(***************************************************************************)
LEMMA DependsTransitive ==
  ASSUME NEW index, IsFiniteSet(UNION {index[k] : k \in DOMAIN index}),
         NEW f, NEW g, NEW h, DependsOn(index, f, g), DependsOn(index, g, h), h # f
  PROVE  DependsOn(index, f, h)
<1> DEFINE found(x) == {x} \cup TransitiveDependencies(index, x)
<1>1. \A x \in found(f) : GetSet(index, x) \subseteq found(f)
  BY TraversalReaches
<1>2. \A S : g \in S /\ (\A x \in S : GetSet(index, x) \subseteq S) => found(g) \subseteq S
  BY TraversalReaches
<1>3. g \in found(f) /\ h \in found(g)
  BY DEF DependsOn
<1> HIDE DEF found
<1>4. h \in found(f)
  BY <1>1, <1>2, <1>3
<1> QED
  BY <1>4 DEF found, DependsOn

LEMMA BlockingFacts ==
  ASSUME NEW files, NEW index, IsFiniteSet(UNION {index[k] : k \in DOMAIN index}), NEW f
  PROVE  /\ f \notin Blocking(files, index, f)
         /\ IsFiniteSet(Blocking(files, index, f))
         /\ \A g : g \in Blocking(files, index, f) <=> g \in files /\ DependsOn(index, f, g)
<1>1. /\ f \notin TransitiveDependencies(index, f)
      /\ TransitiveDependencies(index, f) \subseteq UNION {index[k] : k \in DOMAIN index}
  BY TraversalReaches
<1>2. IsFiniteSet(Blocking(files, index, f))
  BY <1>1, FS_Subset DEF Blocking
<1> QED
  BY <1>1, <1>2 DEF Blocking, DependsOn

(***************************************************************************)
(* A file on no cycle and behind none is listed by Kahn's loop: of the     *)
(* files it left out, each would block another with fewer to wait for.     *)
(***************************************************************************)
LEMMA AcyclicListed ==
  ASSUME NEW files \in SUBSET File, NEW index,
         IsFiniteSet(UNION {index[k] : k \in DOMAIN index}),
         NEW f \in files, Acyclic(files, index, f)
  PROVE  f \in ToSet(KahnOrder(files, index))
<1> DEFINE listed == ToSet(KahnOrder(files, index))
           wait(g) == Blocking(files, index, g)
           left == {g \in {f} \cup wait(f) : g \notin listed}
<1>1. \A g : /\ g \notin wait(g) /\ IsFiniteSet(wait(g))
             /\ \A h : h \in wait(g) <=> h \in files /\ DependsOn(index, g, h)
  BY BlockingFacts
<1>2. \A g \in files \ listed : \E h : h \in wait(g) /\ h \notin listed
  BY KahnFacts
<1>3. \A g \in {f} \cup wait(f), h \in files :
        g # h => ~ (DependsOn(index, g, h) /\ DependsOn(index, h, g))
  <2>1. \A g \in {f} \cup wait(f) : g \in files
    BY <1>1
  <2> QED
    BY <2>1 DEF Acyclic
<1> HIDE DEF listed, wait
<1>4. ASSUME NEW g \in left
      PROVE  \E h \in left : Cardinality(wait(h)) < Cardinality(wait(g))
  <2>1. g \in files /\ g \notin listed /\ (g = f \/ DependsOn(index, f, g))
    BY <1>1
  <2>2. PICK h : h \in wait(g) /\ h \notin listed
    BY <1>2, <2>1
  <2>3. h \in files /\ DependsOn(index, g, h) /\ h # g
    BY <1>1, <2>2
  <2>4. h = f \/ DependsOn(index, f, h)
    BY <2>1, <2>3, DependsTransitive
  <2>5. h \in left
    BY <1>1, <2>2, <2>3, <2>4
  <2>6. ASSUME NEW x \in wait(h) PROVE x \in wait(g)
    <3>1. x \in files /\ DependsOn(index, h, x)
      BY <1>1
    <3>2. x # g
      BY <1>3, <2>3, <3>1
    <3>3. DependsOn(index, g, x)
      BY <2>3, <3>1, <3>2, DependsTransitive
    <3> QED
      BY <1>1, <3>1, <3>3
  <2>7. wait(h) \subseteq wait(g) /\ wait(h) # wait(g) /\ IsFiniteSet(wait(g))
    BY <1>1, <2>2, <2>6
  <2>8. Cardinality(wait(h)) < Cardinality(wait(g))
    BY <2>7, FS_Subset, FS_CardinalityType
  <2> QED
    BY <2>5, <2>8
<1>5. \A g : Cardinality(wait(g)) \in Nat
  BY <1>1, FS_CardinalityType
<1> DEFINE S == {n \in Nat : \A g \in left : Cardinality(wait(g)) >= n}
<1>6. 0 \in S
  BY <1>5
<1>7. ASSUME NEW n \in Nat, n \in S PROVE n + 1 \in S
  <2> SUFFICES ASSUME NEW g \in left PROVE Cardinality(wait(g)) >= n + 1
    OBVIOUS
  <2>1. PICK h \in left : Cardinality(wait(h)) < Cardinality(wait(g))
    BY <1>4
  <2>2. Cardinality(wait(h)) >= n
    BY <1>7
  <2> QED
    BY <1>5, <2>1, <2>2
<1> HIDE DEF S
<1>8. Nat \subseteq S
  BY <1>6, <1>7, SetInduction
<1>9. f \notin left
  <2> SUFFICES ASSUME f \in left PROVE FALSE
    OBVIOUS
  <2>1. Cardinality(wait(f)) + 1 \in S
    BY <1>5, <1>8
  <2>2. Cardinality(wait(f)) >= Cardinality(wait(f)) + 1
    BY <2>1 DEF S
  <2> QED
    BY <1>5, <2>2
<1> QED
  BY <1>9 DEF listed

(***************************************************************************)
(* No file that waits for a cycle is listed by Kahn's loop: two files that *)
(* depend on each other would each come before the other.                  *)
(***************************************************************************)
LEMMA CyclicNotListed ==
  ASSUME NEW files \in SUBSET File, NEW index,
         IsFiniteSet(UNION {index[k] : k \in DOMAIN index}),
         NEW f \in files, ~ Acyclic(files, index, f)
  PROVE  f \notin ToSet(KahnOrder(files, index))
<1> DEFINE order == KahnOrder(files, index)
           wait(g) == Blocking(files, index, g)
<1>1. order \in Seq(files) /\ IsInjective(order)
  BY KahnFacts DEF InOrder
<1>2. \A i \in 1..Len(order) : wait(order[i]) \subseteq {order[j] : j \in 1..i - 1}
  BY KahnFacts DEF InOrder
<1>3. \A g, h : h \in wait(g) <=> h \in files /\ DependsOn(index, g, h)
  BY BlockingFacts
<1>4. PICK g \in files, h \in files :
        /\ g \in {f} \cup wait(f) /\ g # h
        /\ DependsOn(index, g, h) /\ DependsOn(index, h, g)
  BY DEF Acyclic
<1>5. ToSet(order) = {order[i] : i \in 1..Len(order)}
  BY <1>1 DEF ToSet
<1> HIDE DEF order, wait
<1> SUFFICES ASSUME f \in ToSet(order) PROVE FALSE
  BY DEF order
<1>6. PICK i \in 1..Len(order) : order[i] = f
  BY <1>5
<1>7. \E k \in 1..Len(order) : order[k] = g
  <2>1. CASE g = f
    BY <1>6, <2>1
  <2>2. CASE g \in wait(f)
    <3>1. PICK j \in 1..i - 1 : order[j] = g
      BY <1>2, <1>6, <2>2
    <3>2. j \in 1..Len(order)
      BY <1>1, <1>6
    <3> QED
      BY <3>1, <3>2
  <2> QED
    BY <1>4, <2>1, <2>2
<1>8. PICK k \in 1..Len(order) : order[k] = g
  BY <1>7
<1>9. h \in wait(g) /\ g \in wait(h)
  BY <1>3, <1>4
<1>10. PICK m \in 1..k - 1 : order[m] = h
  BY <1>2, <1>8, <1>9
<1>11. m \in 1..Len(order) /\ m < k
  BY <1>1, <1>10
<1>12. PICK n \in 1..m - 1 : order[n] = g
  BY <1>2, <1>9, <1>10, <1>11
<1>13. n \in 1..Len(order) /\ n < k
  BY <1>1, <1>11, <1>12
<1> QED
  BY <1>1, <1>8, <1>12, <1>13 DEF IsInjective

(***************************************************************************)
(* The order is what Kahn's loop lists, and the files left over behind it, *)
(* every file once.                                                        *)
(***************************************************************************)
LEMMA SortedOnce ==
  ASSUME NEW files \in SUBSET File, NEW index
  PROVE  LET order == Sorted(files, index)
             kahn  == KahnOrder(files, index)
         IN /\ order \in Seq(files) /\ IsInjective(order)
            /\ \A f \in files : \E i \in DOMAIN order : order[i] = f
            /\ \A f \in ToSet(kahn), g \in files \ ToSet(kahn) : Precedes(order, f, g)
            /\ \A i, j \in 1..Len(kahn) : i < j => Precedes(order, kahn[i], kahn[j])
<1> DEFINE kahn  == KahnOrder(files, index)
           rest  == files \ ToSet(kahn)
           tail  == ByName[rest]
           order == kahn \o tail
<1>1. Sorted(files, index) = order
  BY DEF Sorted
<1>2. kahn \in Seq(files) /\ IsInjective(kahn)
  BY KahnFacts DEF InOrder
<1>3. /\ tail \in Seq(rest) /\ IsInjective(tail)
      /\ \A f \in rest : \E n \in 1..Len(tail) : tail[n] = f
  <2>1. rest \in SUBSET File
    OBVIOUS
  <2> HIDE DEF rest
  <2> QED
    BY <2>1, ByNameLists
<1>4. ToSet(kahn) = {kahn[i] : i \in 1..Len(kahn)}
  BY <1>2 DEF ToSet
<1>5. \A f \in rest : f \in files /\ f \notin ToSet(kahn)
  OBVIOUS
<1>6. \A f \in files : f \in rest \/ f \in ToSet(kahn)
  OBVIOUS
<1> HIDE DEF kahn, rest, tail
<1>7. tail \in Seq(files)
  BY <1>3, <1>5
<1>8. /\ order \in Seq(files) /\ Len(order) = Len(kahn) + Len(tail)
      /\ \A i \in 1..Len(kahn) : order[i] = kahn[i]
      /\ \A i \in 1..Len(tail) : order[Len(kahn) + i] = tail[i]
  BY <1>2, <1>7
<1> HIDE DEF order
<1>9. Len(kahn) \in Nat /\ Len(tail) \in Nat /\ DOMAIN order = 1..Len(kahn) + Len(tail)
  BY <1>2, <1>7, <1>8
<1>10. \A i \in DOMAIN order : \/ i \in 1..Len(kahn)
                               \/ \E n \in 1..Len(tail) : i = Len(kahn) + n
  <2> SUFFICES ASSUME NEW i \in DOMAIN order, i \notin 1..Len(kahn)
               PROVE  \E n \in 1..Len(tail) : i = Len(kahn) + n
    OBVIOUS
  <2>1. i - Len(kahn) \in 1..Len(tail) /\ i = Len(kahn) + (i - Len(kahn))
    BY <1>9
  <2> QED
    BY <2>1
<1>11. \A m \in 1..Len(tail) : tail[m] \notin ToSet(kahn)
  BY <1>3, <1>5
<1>12. IsInjective(order)
  <2> SUFFICES ASSUME NEW i \in DOMAIN order, NEW j \in DOMAIN order, order[i] = order[j]
               PROVE  i = j
    BY DEF IsInjective
  <2>1. CASE i \in 1..Len(kahn) /\ j \in 1..Len(kahn)
    BY <1>2, <1>8, <2>1 DEF IsInjective
  <2>2. ASSUME NEW m \in 1..Len(tail), NEW n \in 1..Len(tail),
               i = Len(kahn) + m, j = Len(kahn) + n
        PROVE  i = j
    <3>1. tail[m] = tail[n]
      BY <1>8, <2>2
    <3>2. m = n
      BY <1>3, <3>1 DEF IsInjective
    <3> QED
      BY <2>2, <3>2
  <2>3. ASSUME NEW m \in 1..Len(tail), NEW n \in 1..Len(kahn), tail[m] = kahn[n]
        PROVE  FALSE
    BY <1>4, <1>11, <2>3
  <2> QED
    BY <1>8, <1>10, <2>1, <2>2, <2>3
<1>13. ASSUME NEW f \in ToSet(kahn), NEW g \in rest PROVE Precedes(order, f, g)
  <2>1. PICK i \in 1..Len(kahn) : kahn[i] = f
    BY <1>4
  <2>2. PICK n \in 1..Len(tail) : tail[n] = g
    BY <1>3
  <2>3. /\ i \in DOMAIN order /\ Len(kahn) + n \in DOMAIN order /\ i < Len(kahn) + n
        /\ order[i] = f /\ order[Len(kahn) + n] = g
    BY <1>8, <1>9, <2>1, <2>2
  <2> QED
    BY <2>3 DEF Precedes
<1>14. ASSUME NEW i \in 1..Len(kahn), NEW j \in 1..Len(kahn), i < j
       PROVE  Precedes(order, kahn[i], kahn[j])
  <2>1. i \in DOMAIN order /\ j \in DOMAIN order /\ order[i] = kahn[i] /\ order[j] = kahn[j]
    BY <1>8, <1>9
  <2> QED
    BY <1>14, <2>1 DEF Precedes
<1>15. ASSUME NEW f \in files PROVE \E i \in DOMAIN order : order[i] = f
  <2>1. CASE f \in ToSet(kahn)
    BY <1>4, <1>8, <1>9, <2>1
  <2>2. CASE f \in rest
    <3>1. PICK n \in 1..Len(tail) : tail[n] = f
      BY <1>3, <2>2
    <3>2. Len(kahn) + n \in DOMAIN order
      BY <1>9
    <3> QED
      BY <1>8, <3>1, <3>2
  <2> QED
    BY <1>6, <2>1, <2>2
<1> QED
  BY <1>1, <1>8, <1>12, <1>13, <1>14, <1>15 DEF kahn, rest

(***************************************************************************)
(* _topological_sort_stale_files and _topological_sort_files, for every    *)
(* set of files and every dependency index with finitely many targets:     *)
(* every file comes out exactly once, whatever the cycles; a file that     *)
(* waits for no cycle comes after every file it depends on, and before     *)
(* every file that does wait for one.                                      *)
(***************************************************************************)
THEOREM SortCorrect ==
  ASSUME NEW files \in SUBSET File, NEW index,
         IsFiniteSet(UNION {index[k] : k \in DOMAIN index})
  PROVE  SortIsRight(files, index)
<1> DEFINE order == Sorted(files, index)
           kahn  == KahnOrder(files, index)
           at(f) == {i \in DOMAIN order : order[i] = f}
<1>1. /\ order \in Seq(files) /\ IsInjective(order)
      /\ \A f \in files : \E i \in DOMAIN order : order[i] = f
  BY SortedOnce
<1>2. /\ \A f \in ToSet(kahn), g \in files \ ToSet(kahn) : Precedes(order, f, g)
      /\ \A i, j \in 1..Len(kahn) : i < j => Precedes(order, kahn[i], kahn[j])
  BY SortedOnce
<1>3. kahn \in Seq(files)
  BY KahnFacts DEF InOrder
<1>4. \A i \in 1..Len(kahn) : Blocking(files, index, kahn[i]) \subseteq {kahn[j] : j \in 1..i - 1}
  BY KahnFacts DEF InOrder
<1>5. \A f \in files : f \in ToSet(kahn) <=> Acyclic(files, index, f)
  BY AcyclicListed, CyclicNotListed
<1>6. ToSet(kahn) = {kahn[i] : i \in 1..Len(kahn)}
  BY <1>3 DEF ToSet
<1> HIDE DEF order, kahn
<1>7. ASSUME NEW f \in File
      PROVE  Cardinality(at(f)) = IF f \in files THEN 1 ELSE 0
  <2>1. CASE f \in files
    <3>1. PICK i \in DOMAIN order : order[i] = f
      BY <1>1, <2>1
    <3>2. at(f) = {i}
      BY <1>1, <3>1 DEF IsInjective
    <3> QED
      BY <2>1, <3>2, FS_Singleton
  <2>2. CASE f \notin files
    <3>1. at(f) = {}
      BY <1>1, <2>2
    <3> QED
      BY <2>2, <3>1, FS_EmptySet
  <2> QED
    BY <2>1, <2>2
<1>8. ASSUME NEW f \in files, NEW g \in files,
             Acyclic(files, index, f), f # g, DependsOn(index, f, g)
      PROVE  Precedes(order, g, f)
  <2>1. PICK i \in 1..Len(kahn) : kahn[i] = f
    BY <1>5, <1>6, <1>8
  <2>2. g \in Blocking(files, index, f)
    BY <1>8 DEF Blocking, DependsOn
  <2>3. PICK j \in 1..i - 1 : kahn[j] = g
    BY <1>4, <2>1, <2>2
  <2>4. j \in 1..Len(kahn) /\ j < i
    BY <1>3, <2>1, <2>3
  <2> QED
    BY <1>2, <2>1, <2>3, <2>4
<1>9. ASSUME NEW f \in files, NEW g \in files,
             Acyclic(files, index, f), ~ Acyclic(files, index, g)
      PROVE  Precedes(order, f, g)
  BY <1>2, <1>5, <1>9
<1> QED
  BY <1>7, <1>8, <1>9 DEF SortIsRight, order

(***************************************************************************)
LEMMA SortedLists ==
  ASSUME NEW files \in SUBSET File, NEW index
  PROVE  /\ Sorted(files, index) \in Seq(files)
         /\ files \subseteq ToSet(Sorted(files, index))
<1> DEFINE order == Sorted(files, index)
<1>1. order \in Seq(files) /\ \A f \in files : \E i \in DOMAIN order : order[i] = f
  BY SortedOnce
<1> HIDE DEF order
<1>2. files \subseteq ToSet(order)
  BY <1>1 DEF ToSet
<1> QED
  BY <1>1, <1>2 DEF order

-----------------------------------------------------------------------------
(***************************************************************************)
(* Nothing is passed over.  While nothing is edited, the disk stands still *)
(* and a file that needs no analysis never comes to need one, so what the  *)
(* resolver found stale is all there is; the sort loses none of it, and a  *)
(* file leaves the list as the analysis of it is stored.                   *)
(***************************************************************************)
Walked == File \cap ({target} \cup TransitiveDependencies(copy, target))
Due    == {f \in Walked : NeedsAnalysis(f)}

PassInv ==
  /\ todo \in Seq(File)
  /\ pc = "store" => todo # <<>>
  /\ pc \in {"unlink", "process", "store"} => stale \subseteq Walked
  /\ disturbed = {} =>
       /\ pc \in {"unlink", "process", "store"} => Due \subseteq stale
       /\ pc \in {"process", "store"} => \A f \in Due : Unreadable(f) \/ f \in ToSet(todo)
       /\ pc = "store" => data = ExtractFileSymbols(disk, Head(todo))
       /\ pc = "answer" => \A f \in Due : Unreadable(f)

\* What marking dependents pending, or setting a flag, leaves of the keys of the metadata.
LEMMA MetadataKeys ==
  ASSUME NEW g, GraphType(g), NEW f \in File
  PROVE  /\ \A files : DOMAIN PendingMarked(g, files).file_metadata = DOMAIN g.file_metadata
         /\ \A flag : DOMAIN SetPending(g, f, flag).file_metadata = DOMAIN g.file_metadata
         /\ \A m : DOMAIN SetFileMetadata(g, f, m).file_metadata = DOMAIN g.file_metadata \cup {f}
<1>1. \A files : DOMAIN PendingMarked(g, files).file_metadata = DOMAIN g.file_metadata
  BY DEF PendingMarked, GraphType
<1>2. ASSUME NEW m
      PROVE  DOMAIN SetFileMetadata(g, f, m).file_metadata = DOMAIN g.file_metadata \cup {f}
  <2>1. SetFileMetadata(g, f, m).file_metadata = Put(g.file_metadata, f, m)
    BY DEF SetFileMetadata, GraphType
  <2> QED
    BY <2>1 DEF Put
<1>3. ASSUME NEW flag
      PROVE  DOMAIN SetPending(g, f, flag).file_metadata = DOMAIN g.file_metadata
  <2>1. CASE f \in DOMAIN g.file_metadata
    <3>1. SetPending(g, f, flag)
            = SetFileMetadata(g, f, [g.file_metadata[f] EXCEPT !.pending = flag])
      BY <2>1 DEF SetPending, SetFileMetadata
    <3> QED
      BY <1>2, <2>1, <3>1
  <2>2. CASE f \notin DOMAIN g.file_metadata
    BY <2>2 DEF SetPending
  <2> QED
    BY <2>1, <2>2
<1> QED
  BY <1>1, <1>2, <1>3

\* Storing forgets the metadata of no file, and gives the file stored its own.
LEMMA StoreMetadataKeys ==
  ASSUME IInv, NEW f \in File, Store(f)
  PROVE  /\ DOMAIN graph.file_metadata \subseteq DOMAIN graph'.file_metadata
         /\ data # NoData => f \in DOMAIN graph'.file_metadata
<1> DEFINE result == AnalyzeFileTwoPhase(graph, builder, disk, f, data)
<1>1. /\ GraphType(result.graph)
      /\ DOMAIN graph.file_metadata \subseteq DOMAIN result.graph.file_metadata
      /\ data # NoData => f \in DOMAIN result.graph.file_metadata
  <2>1. CASE data = NoData
    BY <2>1 DEF AnalyzeFileTwoPhase, IInv, Shape
  <2>2. CASE data # NoData /\ ~ data.valid
    <3>1. result.graph = SetFileMetadata(graph, f, NewMetadata("unparseable"))
      BY <2>2 DEF AnalyzeFileTwoPhase, MarkUnparseable
    <3> QED
      BY <3>1, MetadataKeys, MetadataKeeps DEF IInv, Shape
  <2>3. CASE data # NoData /\ data.valid
    <3>1. data \in Symbols
      BY <2>3 DEF IInv, Shape, Invalid
    <3> DEFINE added == AddFileData(builder, f, data)
               known == EnsureDependencySymbolsLoaded(added, disk, data.imports)
               cut   == RemoveRelationshipsForFile(graph, f)
               bag   == Once(BuildRelationshipsForFile(known, f))
               built == AddAll(cut, bag)
    <3>2. IsDict(added, File, Symbols) /\ f \in DOMAIN added
      BY <3>1, AddFileDataType DEF IInv, Shape
    <3> HIDE DEF added
    <3>3. data.imports \in SUBSET Target
      BY <3>1 DEF Symbols
    <3>4. IsDict(known, File, Symbols) /\ f \in DOMAIN known
      BY <3>2, <3>3, EnsureLoadedType DEF IInv, Shape
    <3>5. result.graph = SetFileMetadata(built, f, NewMetadata("analyzed"))
      BY <2>3 DEF AnalyzeFileTwoPhase, StoreRelationships, added
    <3> HIDE DEF known
    <3>6. BuildRelationshipsForFile(known, f) \subseteq Rel
      BY <3>4, BuiltRelationships
    <3>7. GraphType(cut) /\ IsDict(bag, Rel, Nat \ {0})
      BY <3>6, OnceType, RemoveForFileType DEF IInv, Shape
    <3> HIDE DEF bag
    <3>8. built.file_metadata = cut.file_metadata
      <4> HIDE DEF cut
      <4> QED
        BY DEF AddAll
    <3>9. DOMAIN cut.file_metadata = DOMAIN graph.file_metadata \ {f}
      <4>1. cut.file_metadata = Del(graph.file_metadata, f)
        BY DEF RemoveRelationshipsForFile
      <4> HIDE DEF cut
      <4> QED
        BY <4>1, DelFacts
    <3>10. GraphType(built)
      <4> HIDE DEF cut
      <4> QED
        BY <3>7, AddAllType
    <3>11. NewMetadata("analyzed") \in Meta
      BY NewMetadataType
    <3> HIDE DEF built, cut
    <3> QED
      BY <3>5, <3>8, <3>9, <3>10, <3>11, MetadataKeys, MetadataType
  <2> QED
    BY <2>1, <2>2, <2>3
<1>2. graph' = SetPending(result.graph, f, FALSE)
  BY DEF Store
<1> HIDE DEF result
<1> QED
  BY <1>1, <1>2, MetadataKeys

(***************************************************************************)
(* Steps that keep the disk, touch no file and forget no metadata make no  *)
(* file stale that was not.                                                *)
(***************************************************************************)
LEMMA DueShrinks ==
  ASSUME disk' = disk, target' = target, copy' = copy, touched' \subseteq touched,
         DOMAIN graph.file_metadata \subseteq DOMAIN graph'.file_metadata
  PROVE  /\ Walked' = Walked /\ Due' \subseteq Due
         /\ \A f : Unreadable(f)' = Unreadable(f)
<1>1. Walked' = Walked
  BY DEF Walked
<1> QED
  BY <1>1 DEF Due, NeedsAnalysis, Unreadable

\* There is nothing to lose before the first read.
LEMMA PassInit == Init => PassInv
BY DEF Init, PassInv

\* An edit inside a read disturbs it, and one between reads finds none under way.
LEMMA PassEdit ==
  ASSUME PassInv, NEW f \in File, NEW c \in Contents[f], Edit(f, c)
  PROVE  PassInv'
<1>1. Walked' = Walked
  BY DEF Edit, read, Walked
<1>2. disturbed' = {} => pc = "idle"
  BY DEF Edit
<1> QED
  BY <1>1, <1>2 DEF Edit, read, PassInv

\* What the resolver finds stale is all there is to find.
LEMMA PassResolve == ASSUME PassInv, Resolve PROVE PassInv'
<1>1. stale' = Due' /\ todo' = Sorted(stale', copy') /\ target' = target
  BY DEF Resolve, FindStaleFiles, Due, Walked, NeedsAnalysis
<1>2. stale' \subseteq Walked' /\ stale' \in SUBSET File
  BY <1>1 DEF Due, Walked
<1>3. todo' \in Seq(File)
  <2>1. todo' \in Seq(stale')
    BY <1>1, <1>2, SortedLists
  <2> QED
    BY <1>2, <2>1
<1>4. pc' = IF stale' = {} THEN "answer" ELSE "unlink"
  BY DEF Resolve
<1> QED
  BY <1>1, <1>2, <1>3, <1>4 DEF PassInv

\* Unlinking changes flags only, and the list it works through is rebuilt afterwards.
LEMMA PassUnlink == ASSUME IInv, PassInv, NEW f \in File, Unlink(f) PROVE PassInv'
<1> DEFINE g == RemoveOutgoingRelationships(graph, f)
<1>1. GraphType(g) /\ g.file_metadata = graph.file_metadata
  BY RemoveOutgoingType DEF IInv, Shape, RemoveOutgoingRelationships
<1>2. graph' = PendingMarked(g, GetSet(g.dependents, f))
  BY DEF Unlink
<1> HIDE DEF g
<1>3. DOMAIN graph'.file_metadata = DOMAIN graph.file_metadata
  BY <1>1, <1>2, MetadataKeys
<1>4. Walked' = Walked /\ Due' \subseteq Due
  BY <1>3, DueShrinks DEF Unlink, read
<1>5. todo' \in Seq(File)
  BY DEF Unlink, PassInv
<1> QED
  BY <1>4, <1>5 DEF Unlink, read, PassInv

\* Every stale file is to be processed: they are all among those the walk reaches.
LEMMA PassSchedule == ASSUME IInv, PassInv, Schedule PROVE PassInv'
<1> DEFINE reachable == {target} \cup TransitiveDependencies(copy, target)
           files == (stale \cup FilesWithPending(graph)) \cap reachable
<1>1. /\ pc = "unlink" /\ pc' = "process"
      /\ todo' = Sorted(files, copy)
  BY DEF Schedule
<1>2. stale \subseteq Walked
  BY <1>1 DEF PassInv
<1>3. FilesWithPending(graph) \subseteq File
  BY DEF FilesWithPending, IInv, Shape, GraphType, IsDict
<1>4. files \in SUBSET File /\ stale \subseteq files
  BY <1>2, <1>3 DEF Walked
<1> HIDE DEF files
<1>5. todo' \in Seq(files) /\ files \subseteq ToSet(todo')
  BY <1>1, <1>4, SortedLists
<1>6. todo' \in Seq(File)
  BY <1>4, <1>5
<1>7. stale \subseteq ToSet(todo')
  BY <1>4, <1>5
<1>8. Walked' = Walked /\ Due' \subseteq Due /\ UNCHANGED <<stale, disturbed>>
  BY DueShrinks DEF Schedule, read
<1> QED
  BY <1>1, <1>2, <1>6, <1>7, <1>8 DEF PassInv

\* The files of a list are its first one and those of the rest.
LEMMA HeadAndTail ==
  ASSUME NEW S, NEW s \in Seq(S), s # <<>>
  PROVE  /\ Tail(s) \in Seq(S) /\ Head(s) \in S
         /\ \A x \in ToSet(s) : x = Head(s) \/ x \in ToSet(Tail(s))
<1>1. /\ Tail(s) \in Seq(S) /\ Head(s) \in S /\ Head(s) = s[1]
      /\ DOMAIN s = 1..Len(s) /\ DOMAIN Tail(s) = 1..Len(Tail(s))
  OBVIOUS
<1>2. ASSUME NEW i \in 1..Len(s), i # 1 PROVE i - 1 \in 1..Len(Tail(s)) /\ Tail(s)[i - 1] = s[i]
  BY <1>2
<1>3. ASSUME NEW x \in ToSet(s) PROVE x = Head(s) \/ x \in ToSet(Tail(s))
  <2>1. PICK i \in 1..Len(s) : s[i] = x
    BY <1>1 DEF ToSet
  <2>2. CASE i = 1
    BY <1>1, <2>1, <2>2
  <2>3. CASE i # 1
    BY <1>1, <1>2, <2>1, <2>3 DEF ToSet
  <2> QED
    BY <2>2, <2>3
<1> QED
  BY <1>1, <1>3

\* A stored file is stale no longer, unless it cannot be read.
LEMMA PassStore == ASSUME IInv, PassInv, NEW f \in File, Store(f) PROVE PassInv'
<1>1. /\ pc = "store" /\ f = Head(todo) /\ pc' = "process" /\ todo' = Tail(todo)
      /\ disk' = disk /\ UNCHANGED read /\ disturbed' = disturbed
      /\ touched' = IF data = NoData THEN touched ELSE touched \ {f}
  <2>1. \A ok : AfterStored(ok) = Tail(todo)
    BY DEF AfterStored
  <2> QED
    BY <2>1 DEF Store
<1>2. /\ DOMAIN graph.file_metadata \subseteq DOMAIN graph'.file_metadata
      /\ data # NoData => f \in DOMAIN graph'.file_metadata
  BY StoreMetadataKeys
<1>3. /\ Walked' = Walked /\ Due' \subseteq Due
      /\ \A x : Unreadable(x)' = Unreadable(x)
  BY <1>1, <1>2, DueShrinks DEF read
<1>4. /\ todo' \in Seq(File)
      /\ \A x \in ToSet(todo) : x = f \/ x \in ToSet(todo')
  BY <1>1, HeadAndTail DEF PassInv
<1>5. ASSUME disturbed = {}, f \in Due' PROVE Unreadable(f)
  <2>1. disk[f] # Absent /\ (f \in DOMAIN graph'.file_metadata => f \in touched')
    BY <1>1, <1>5 DEF Due, NeedsAnalysis
  <2>2. data = NoData
    BY <1>1, <1>2, <2>1
  <2>3. ExtractFileSymbols(disk, f) = NoData
    BY <1>1, <1>5, <2>2 DEF PassInv
  <2> QED
    BY <2>1, <2>3, ExtractNothing DEF IInv, Shape, Unreadable
<1>6. ASSUME disturbed = {}, NEW x \in Due' PROVE Unreadable(x)' \/ x \in ToSet(todo')
  <2>1. Unreadable(x) \/ x \in ToSet(todo)
    BY <1>1, <1>3, <1>6 DEF PassInv
  <2> QED
    BY <1>3, <1>4, <1>5, <1>6, <2>1
<1>7. stale' = stale
  BY <1>1 DEF read
<1> QED
  BY <1>1, <1>3, <1>4, <1>6, <1>7 DEF PassInv

\* A file rebuilt from the builder was not stale.
LEMMA PassRebuild == ASSUME IInv, PassInv, NEW f \in File, Rebuild(f) PROVE PassInv'
<1>1. /\ pc = "process" /\ pc' = "process" /\ todo # <<>> /\ f = Head(todo) /\ f \notin stale
      /\ todo' = Tail(todo) /\ graph' = SetPending(Rebuilt(f), f, FALSE)
      /\ disk' = disk /\ touched' = touched /\ UNCHANGED read /\ disturbed' = disturbed
  BY DEF Rebuild
<1>2. GraphType(Rebuilt(f)) /\ Rebuilt(f).file_metadata = graph.file_metadata
  BY RebuiltMetadata
<1>3. DOMAIN graph'.file_metadata = DOMAIN graph.file_metadata
  <2> DEFINE g == Rebuilt(f)
  <2>1. GraphType(g) /\ g.file_metadata = graph.file_metadata
        /\ graph' = SetPending(g, f, FALSE)
    BY <1>1, <1>2
  <2> HIDE DEF g
  <2>2. DOMAIN SetPending(g, f, FALSE).file_metadata = DOMAIN g.file_metadata
    BY <2>1, MetadataKeys
  <2> QED
    BY <2>1, <2>2
<1>4. /\ Walked' = Walked /\ Due' \subseteq Due
      /\ \A x : Unreadable(x)' = Unreadable(x)
  BY <1>1, <1>3, DueShrinks DEF read
<1>5. /\ todo' \in Seq(File)
      /\ \A x \in ToSet(todo) : x = f \/ x \in ToSet(todo')
  BY <1>1, HeadAndTail DEF PassInv
<1>6. ASSUME disturbed = {}, NEW x \in Due' PROVE Unreadable(x)' \/ x \in ToSet(todo')
  <2>1. (Unreadable(x) \/ x \in ToSet(todo)) /\ x \in stale
    BY <1>1, <1>4, <1>6 DEF PassInv
  <2> QED
    BY <1>1, <1>4, <1>5, <2>1
<1>7. stale' = stale
  BY <1>1 DEF read
<1> QED
  BY <1>1, <1>4, <1>5, <1>6, <1>7 DEF PassInv

\* Every edit and every step of a read loses track of no stale file.
LEMMA PassNext == IInv /\ PassInv /\ [Next]_vars => PassInv'
<1> SUFFICES ASSUME IInv, PassInv, [Next]_vars PROVE PassInv'
  OBVIOUS
<1>1. ASSUME NEW f \in File, NEW c \in Contents[f], Edit(f, c) PROVE PassInv'
  BY <1>1, PassEdit
<1>2. ASSUME NEW t \in ReadTargets, StartRead(t) PROVE PassInv'
  BY <1>2 DEF StartRead, PassInv
<1>3. CASE Resolve
  BY <1>3, PassResolve
<1>4. CASE Schedule
  BY <1>4, PassSchedule
<1>5. CASE Finish
  <2>1. /\ Walked' = Walked /\ Due' \subseteq Due
        /\ \A x : Unreadable(x)' = Unreadable(x)
    BY <1>5, DueShrinks DEF Finish, read
  <2>2. ToSet(todo) = {}
    BY <1>5 DEF Finish, ToSet
  <2> QED
    BY <1>5, <2>1, <2>2 DEF Finish, read, PassInv
<1>6. CASE Answer
  BY <1>6 DEF Answer, PassInv
<1>7. ASSUME NEW f \in File, Unlink(f) PROVE PassInv'
  BY <1>7, PassUnlink
<1>8. ASSUME NEW f \in File, Extract(f) PROVE PassInv'
  <2>1. /\ Walked' = Walked /\ Due' \subseteq Due
        /\ \A x : Unreadable(x)' = Unreadable(x)
    BY <1>8, DueShrinks DEF Extract, read
  <2> QED
    BY <1>8, <2>1 DEF Extract, read, PassInv
<1>9. ASSUME NEW f \in File, Store(f) PROVE PassInv'
  BY <1>9, PassStore
<1>10. ASSUME NEW f \in File, Rebuild(f) PROVE PassInv'
  BY <1>10, PassRebuild
<1>11. CASE UNCHANGED vars
  <2>1. Walked' = Walked /\ Due' = Due /\ \A x : Unreadable(x)' = Unreadable(x)
    BY <1>11 DEF vars, Walked, Due, NeedsAnalysis, Unreadable
  <2> QED
    BY <1>11, <2>1 DEF vars, PassInv
<1> QED
  BY <1>1, <1>2, <1>3, <1>4, <1>5, <1>6, <1>7, <1>8, <1>9, <1>10, <1>11 DEF Next, Service

(***************************************************************************)
(* A read that nothing disturbed answers with nothing stale behind it,     *)
(* whatever imports what, in cycles or not, and whatever came of the       *)
(* analysis of each file on the way.                                       *)
(***************************************************************************)
THEOREM ResolverPassesNothingOver == Spec => []NothingStaleBehindAnswer
<1>1. Init => IInv /\ PassInv
  BY InitIInv, PassInit
<1>2. (IInv /\ PassInv) /\ [Next]_vars => (IInv /\ PassInv)'
  BY NextIInv, PassNext
<1>3. IInv /\ PassInv => NothingStaleBehindAnswer
  BY DEF PassInv, NothingStaleBehindAnswer, FindStaleFiles, Due, Walked
<1> QED
  BY <1>1, <1>2, <1>3, PTL DEF Spec

-----------------------------------------------------------------------------
(***************************************************************************)
(* Pending files.  Once the list to process is made, every pending file    *)
(* the walk passed is on it, and a file that leaves the list has lost its  *)
(* flag, whatever became of it.                                            *)
(***************************************************************************)
Reachable == {target} \cup TransitiveDependencies(copy, target)

TakenUpInv ==
  /\ pc \in {"process", "store"} => FilesWithPending(graph) \cap Reachable \subseteq ToSet(todo)
  /\ pc = "answer" /\ stale # {} => FilesWithPending(graph) \cap Reachable = {}

\* Clearing the flag of f leaves those of the others.
LEMMA FlagCleared ==
  ASSUME NEW g, GraphType(g), NEW f \in File
  PROVE  FilesWithPending(SetPending(g, f, FALSE)) \subseteq FilesWithPending(g) \ {f}
<1>1. CASE f \in DOMAIN g.file_metadata
  <2> DEFINE m == [g.file_metadata[f] EXCEPT !.pending = FALSE]
             marked == Put(g.file_metadata, f, m)
  <2>1. m.pending = FALSE
    BY <1>1 DEF GraphType, IsDict, Meta
  <2>2. SetPending(g, f, FALSE).file_metadata = marked
    BY <1>1 DEF SetPending, GraphType
  <2> HIDE DEF m
  <2>3. DOMAIN marked = DOMAIN g.file_metadata
        /\ \A x \in DOMAIN marked : marked[x] = IF x = f THEN m ELSE g.file_metadata[x]
    BY <1>1 DEF Put
  <2> HIDE DEF marked
  <2> QED
    BY <2>1, <2>2, <2>3 DEF FilesWithPending
<1>2. CASE f \notin DOMAIN g.file_metadata
  BY <1>2 DEF SetPending, FilesWithPending
<1> QED
  BY <1>1, <1>2

\* Storing clears the flag of the file stored and sets none.
LEMMA StoreClears ==
  ASSUME IInv, NEW f \in File, Store(f)
  PROVE  FilesWithPending(graph') \subseteq FilesWithPending(graph) \ {f}
<1> DEFINE g == AnalyzeFileTwoPhase(graph, builder, disk, f, data).graph
<1>1. graph' = SetPending(g, f, FALSE)
  BY DEF Store
<1>2. GraphType(graph) /\ IsDict(builder, File, Symbols) /\ disk \in [File -> Disk]
      /\ data \in {NoData, Invalid} \cup Symbols
  BY DEF IInv, Shape
<1>3. GraphType(g) /\ FilesWithPending(g) \subseteq FilesWithPending(graph) \cup {f}
  <2>1. CASE data = NoData
    BY <1>2, <2>1, TwoPhaseFails
  <2>2. CASE data = Invalid
    <3> DEFINE marked == SetFileMetadata(graph, f, NewMetadata("unparseable"))
    <3>1. g = marked /\ GraphType(g)
      BY <1>2, <2>2, AnalyzerAssumption, TwoPhaseFails
    <3>2. /\ DOMAIN marked.file_metadata = DOMAIN graph.file_metadata \cup {f}
          /\ \A x \in DOMAIN graph.file_metadata \ {f} : marked.file_metadata[x] = graph.file_metadata[x]
      BY <1>2, SetMetadataFacts
    <3> HIDE DEF g, marked
    <3> QED
      BY <3>1, <3>2 DEF FilesWithPending
  <2>3. CASE data \in Symbols
    <3>1. /\ GraphType(g) /\ DOMAIN g.file_metadata = DOMAIN graph.file_metadata \cup {f}
          /\ \A x \in DOMAIN graph.file_metadata \ {f} : g.file_metadata[x] = graph.file_metadata[x]
      BY <1>2, <2>3, TwoPhaseStores
    <3> HIDE DEF g
    <3> QED
      BY <3>1 DEF FilesWithPending
  <2> QED
    BY <1>2, <2>1, <2>2, <2>3
<1> HIDE DEF g
<1> QED
  BY <1>1, <1>3, FlagCleared

\* A rebuild clears the flag of the file, rebuilt or not.
LEMMA RebuildClears ==
  ASSUME IInv, NEW f \in File, Rebuild(f)
  PROVE  FilesWithPending(graph') \subseteq FilesWithPending(graph) \ {f}
<1> DEFINE g == Rebuilt(f)
<1>1. graph' = SetPending(g, f, FALSE) /\ GraphType(g) /\ g.file_metadata = graph.file_metadata
  BY RebuiltMetadata DEF Rebuild
<1> HIDE DEF g
<1>2. FilesWithPending(g) = FilesWithPending(graph)
  BY <1>1 DEF FilesWithPending
<1> QED
  BY <1>1, <1>2, FlagCleared

\* A file leaves the list as its flag is cleared.
LEMMA TakenUpStep ==
  ASSUME PassInv, TakenUpInv, pc \in {"process", "store"}, todo # <<>>, pc' = "process",
         NEW f, f = Head(todo), todo' = Tail(todo), UNCHANGED read,
         FilesWithPending(graph') \subseteq FilesWithPending(graph) \ {f}
  PROVE  TakenUpInv'
<1>1. \A x \in ToSet(todo) : x = f \/ x \in ToSet(todo')
  BY HeadAndTail DEF PassInv
<1>2. Reachable' = Reachable
  BY DEF read, Reachable
<1>3. FilesWithPending(graph)' = FilesWithPending(graph')
  OBVIOUS
<1> QED
  BY <1>1, <1>2, <1>3 DEF TakenUpInv

LEMMA TakenUpNext == IInv /\ PassInv /\ TakenUpInv /\ [Next]_vars => TakenUpInv'
<1> SUFFICES ASSUME IInv, PassInv, TakenUpInv, [Next]_vars PROVE TakenUpInv'
  OBVIOUS
<1>1. ASSUME NEW f \in File, NEW c \in Contents[f], Edit(f, c) PROVE TakenUpInv'
  BY <1>1 DEF Edit, read, TakenUpInv, Reachable
<1>2. ASSUME NEW t \in ReadTargets, StartRead(t) PROVE TakenUpInv'
  BY <1>2 DEF StartRead, TakenUpInv
<1>3. CASE Resolve
  BY <1>3 DEF Resolve, TakenUpInv
<1>4. CASE Schedule
  <2> DEFINE files == (stale \cup FilesWithPending(graph)) \cap Reachable
  <2>1. pc = "unlink" /\ pc' = "process" /\ todo' = Sorted(files, copy)
        /\ Reachable' = Reachable /\ graph' = graph
    BY <1>4 DEF Schedule, read, Reachable
  <2>2. FilesWithPending(graph) \subseteq File /\ stale \subseteq File
    BY <2>1 DEF FilesWithPending, IInv, Shape, GraphType, IsDict, PassInv, Walked
  <2>3. files \in SUBSET File
    BY <2>2
  <2>4. FilesWithPending(graph) \cap Reachable \subseteq files
    OBVIOUS
  <2> HIDE DEF files
  <2>5. files \subseteq ToSet(todo')
    BY <2>1, <2>3, SortedLists
  <2> QED
    BY <2>1, <2>4, <2>5 DEF TakenUpInv
<1>5. CASE Finish
  <2>1. ToSet(todo) = {}
    BY <1>5 DEF Finish, ToSet
  <2>2. Reachable' = Reachable /\ graph' = graph /\ pc = "process" /\ pc' = "answer"
    BY <1>5 DEF Finish, read, Reachable
  <2> QED
    BY <2>1, <2>2 DEF TakenUpInv
<1>6. CASE Answer
  BY <1>6 DEF Answer, TakenUpInv
<1>7. ASSUME NEW f \in File, Unlink(f) PROVE TakenUpInv'
  BY <1>7 DEF Unlink, TakenUpInv
<1>8. ASSUME NEW f \in File, Extract(f) PROVE TakenUpInv'
  BY <1>8 DEF Extract, read, TakenUpInv, Reachable
<1>9. ASSUME NEW f \in File, Store(f) PROVE TakenUpInv'
  <2>1. pc = "store" /\ f = Head(todo) /\ pc' = "process" /\ todo' = Tail(todo) /\ UNCHANGED read
    BY <1>9 DEF Store, AfterStored
  <2> QED
    BY <1>9, <2>1, StoreClears, TakenUpStep DEF PassInv
<1>10. ASSUME NEW f \in File, Rebuild(f) PROVE TakenUpInv'
  <2>1. pc = "process" /\ todo # <<>> /\ f = Head(todo) /\ pc' = "process" /\ todo' = Tail(todo) /\ UNCHANGED read
    BY <1>10 DEF Rebuild
  <2> QED
    BY <1>10, <2>1, RebuildClears, TakenUpStep
<1>11. CASE UNCHANGED vars
  BY <1>11 DEF vars, TakenUpInv, Reachable
<1> QED
  BY <1>1, <1>2, <1>3, <1>4, <1>5, <1>6, <1>7, <1>8, <1>9, <1>10, <1>11 DEF Next, Service

(***************************************************************************)
(* A read that finds anything stale leaves no pending file behind along    *)
(* the dependencies it walked, whenever it was marked, and whatever was    *)
(* edited meanwhile.                                                       *)
(***************************************************************************)
THEOREM ResolverTakesPendingUp == Spec => []PendingTakenUp
<1>1. Init => IInv /\ PassInv /\ TakenUpInv
  <2>1. Init => TakenUpInv
    BY DEF Init, TakenUpInv
  <2> QED
    BY <2>1, InitIInv, PassInit
<1>2. (IInv /\ PassInv /\ TakenUpInv) /\ [Next]_vars => (IInv /\ PassInv /\ TakenUpInv)'
  BY NextIInv, PassNext, TakenUpNext
<1>3. IInv /\ PassInv /\ TakenUpInv => PendingTakenUp
  BY DEF TakenUpInv, PendingTakenUp, Reachable
<1> QED
  BY <1>1, <1>2, <1>3, PTL DEF Spec

-----------------------------------------------------------------------------
(***************************************************************************)
(* A project in layers.  Storing the analysis of a file drops the          *)
(* relationships that end in it, and the walk that finds what is stale     *)
(* only sees the index as it was before; that nothing is lost by this      *)
(* rests on three things: who imports a stale file is stale or is marked   *)
(* pending when that file is unlinked, no file is processed before one it  *)
(* imports, and the walk of the next read reaches every file known.  The   *)
(* last two fail when a file is imported from two layers (the shortcut of  *)
(* ResolverShortcut.cfg), so the layers are a hypothesis here.             *)
(***************************************************************************)
\* no edit falls in a read, and the project is in layers
InLayers(layer, root) == EditDuringRead = FALSE /\ Layered(Contents, Initial, ReadTargets, layer, root)

\* what a file imports, in any of its contents
Wanted(f) == Initial[f].imports

Known(g)       == DOMAIN g.file_metadata
Full(g, f)     == {r.tgt : r \in DependenciesOf(g, f)} = Wanted(f)
Reached(index, root) == {root} \cup TransitiveDependencies(index, root)

\* an index that has, for each file, all that the file imports or nothing
Downward(index) ==
  /\ DOMAIN index \subseteq File
  /\ \A f \in File : GetSet(index, f) = {} \/ GetSet(index, f) = Wanted(f)

LayeredDisk ==
  \A f \in File : disk[f] # Absent /\ disk[f].imports = Wanted(f) /\ (disk[f].kind = "ok" \/ Wanted(f) = {})

\* symbol data names the imports of its file; there is none before the first analysis
BuilderInv ==
  /\ \A f \in DOMAIN builder : builder[f].imports = Wanted(f)
  /\ Known(graph) = {} => DOMAIN builder = {}

\* a relationship to an analyzed file names the line its symbol data has
EdgeInv ==
  \A r \in DOMAIN graph.relationships :
    /\ r.src \in Known(graph) /\ r.site = "import"
    /\ AnalyzedIn(graph, r.tgt) => r.detail = builder[r.tgt].line

\* only files that import nothing fail to parse, and what was tried and failed is still broken
StatusInv ==
  \A f \in Known(graph) :
    IF AnalyzedIn(graph, f) THEN f \in DOMAIN builder
    ELSE Wanted(f) = {} /\ (f \notin touched => disk[f].kind = "broken")

(***************************************************************************)
(* Between reads: every known file has all its relationships, is reached   *)
(* from the root, and no layer above that of a known file has one that is  *)
(* not, unless it imports nothing.                                         *)
(***************************************************************************)
Settled(layer, root) ==
  /\ \A f \in Known(graph) : Full(graph, f)
  /\ Known(graph) \subseteq Reached(graph.dependencies, root)
  /\ \A f \in Reached(graph.dependencies, root), h \in Known(graph) :
       layer[f] <= layer[h] => f \in Known(graph) \/ Wanted(f) = {}

\* the same of the copy of the index that a read works from
CopyInv(layer, root) ==
  /\ Downward(copy)
  /\ \A f \in File : GetSet(copy, f) # {} => f \in Known(graph)
  /\ \A f \in Reached(copy, root), h \in File :
       GetSet(copy, h) # {} /\ layer[f] <= layer[h] => GetSet(copy, f) = Wanted(f)
  /\ Known(graph) \subseteq Reached(copy, root)

\* an unlinked file is stale, and who depends on one is stale or marked pending
UnlinkInv ==
  /\ ToSet(todo) \subseteq stale
  /\ \A f \in Known(graph) : GetSet(copy, f) = Wanted(f)
  /\ \A f \in Known(graph) : Full(graph, f) \/ f \in stale
  /\ \A f \in stale \ ToSet(todo), h \in Known(graph) :
       f \in Wanted(h) => h \in stale \/ h \in FilesWithPending(graph)

(***************************************************************************)
(* A file that misses relationships is still to be processed, and so is    *)
(* every file that will lose some when a stale one is stored: no file is   *)
(* processed before one it imports.                                        *)
(***************************************************************************)
ProcessInv(root) ==
  /\ \A f \in Known(graph) : Full(graph, f) \/ f \in ToSet(todo)
  /\ \A f \in Known(graph) \cap ToSet(todo) : GetSet(copy, f) = Wanted(f)
  /\ \A f \in stale \cap ToSet(todo), h \in Known(graph) : f \in Wanted(h) => h \in ToSet(todo)
  /\ ToSet(todo) \subseteq (stale \cup Known(graph)) \cap Reached(copy, root)
  /\ \A i, j \in DOMAIN todo : i < j => todo[i] # todo[j] /\ todo[j] \notin Wanted(todo[i])
  /\ pc = "store" => Head(todo) \in stale

\* the root's relationships name the lines of the disk
LinesOf(root) ==
  \A r \in DependenciesOf(graph, root) : disk[r.tgt].kind = "ok" => r.detail = disk[r.tgt].line

LayerInv(layer, root) ==
  /\ LayeredDisk /\ BuilderInv /\ EdgeInv /\ StatusInv
  /\ (pc # "idle" => target = root) /\ disturbed = {}
  /\ pc \in {"idle", "resolve", "answer"} => Settled(layer, root)
  /\ pc \in {"unlink", "process", "store"} => CopyInv(layer, root)
  /\ pc = "unlink" => UnlinkInv
  /\ pc \in {"process", "store"} => ProcessInv(root)
  /\ pc = "answer" \/ (pc \in {"process", "store"} /\ root \notin ToSet(todo)) => LinesOf(root)

-----------------------------------------------------------------------------
\* What a layered project is, one fact at a time.
LEMMA LayerFacts ==
  ASSUME NEW layer, NEW root, InLayers(layer, root)
  PROVE  /\ Calm /\ ReadTargets = {root} /\ root \in File
         /\ \A f \in File : layer[f] \in Nat /\ Wanted(f) \subseteq File
         /\ \A f \in File : \A t \in Wanted(f) : layer[t] = layer[f] + 1
         /\ \A f \in File : \A c \in Contents[f] :
              c.imports = Wanted(f) /\ (c.kind = "ok" \/ Wanted(f) = {})
         /\ \A f \in File : Initial[f].kind = "ok" \/ Wanted(f) = {}
<1>1. \A f \in File : Initial[f] # Absent /\ Absent \notin Contents[f]
  BY DEF InLayers, Layered
<1>2. \A f \in File : Initial[f] \in Disk
  BY ResolverAssumption
<1>3. \A f \in File : Wanted(f) \subseteq File
  BY <1>1, <1>2 DEF Disk, Wanted
<1> QED
  BY <1>1, <1>3 DEF InLayers, Layered, Wanted, Calm

\* The names are all there are, so there are finitely many files.
LEMMA FilesFinite == IsFiniteSet(File)
BY ByNameLists

-----------------------------------------------------------------------------
\* A flag leaves relationships, index and keys alone.
LEMMA FlagFacts ==
  ASSUME NEW g, GraphType(g), NEW f \in File, NEW flag \in BOOLEAN
  PROVE  LET h == SetPending(g, f, flag)
         IN /\ h.relationships = g.relationships /\ h.dependencies = g.dependencies
            /\ Known(h) = Known(g)
            /\ \A x \in File : AnalyzedIn(h, x) <=> AnalyzedIn(g, x)
<1>1. SetPending(g, f, flag).relationships = g.relationships
      /\ SetPending(g, f, flag).dependencies = g.dependencies
  BY DEF SetPending, GraphType
<1>2. Known(SetPending(g, f, flag)) = Known(g)
  BY MetadataKeys DEF Known
<1>3. \A x \in File : AnalyzedIn(SetPending(g, f, flag), x) <=> AnalyzedIn(g, x)
  BY SetPendingStatus
<1> QED
  BY <1>1, <1>2, <1>3

\* What unlinking leaves: the relationships of the other files, and flags on its dependents.
LEMMA UnlinkFacts ==
  ASSUME NEW g, GraphType(g), Mirror(g), NEW f \in File
  PROVE  LET cut == RemoveOutgoingRelationships(g, f)
             h == PendingMarked(cut, GetSet(cut.dependents, f))
         IN /\ DOMAIN h.relationships = {r \in DOMAIN g.relationships : r.src # f}
            /\ Known(h) = Known(g)
            /\ \A x \in File : AnalyzedIn(h, x) <=> AnalyzedIn(g, x)
            /\ FilesWithPending(g) \subseteq FilesWithPending(h)
            /\ \A x \in Known(g) \ {f} : Linked(g, x, f) => x \in FilesWithPending(h)
<1> DEFINE cut == RemoveOutgoingRelationships(g, f)
           kept == {r \in DOMAIN g.relationships : r.src # f}
           bag == Keep(g.relationships, kept)
<1>1. GraphType(cut) /\ Mirror(cut)
  BY RemoveOutgoingType, RemoveOutgoingMirror
<1>2. cut.relationships = bag /\ cut.file_metadata = g.file_metadata
  BY DEF RemoveOutgoingRelationships
<1> HIDE DEF kept
<1>31. DOMAIN bag = DOMAIN g.relationships \cap kept
  BY KeepFacts
<1>3. DOMAIN bag = kept
  BY <1>31 DEF kept
<1> USE DEF kept
<1> HIDE DEF cut, bag
<1>4. ASSUME NEW files
      PROVE  LET h == PendingMarked(cut, files)
             IN /\ h.relationships = cut.relationships
                /\ Known(h) = Known(cut)
                /\ \A x \in File : AnalyzedIn(h, x) <=> AnalyzedIn(cut, x)
                /\ FilesWithPending(h) = FilesWithPending(cut) \cup (files \cap Known(cut))
  <2> DEFINE h == PendingMarked(cut, files)
             marked == [x \in DOMAIN cut.file_metadata |->
                          IF x \in files THEN [cut.file_metadata[x] EXCEPT !.pending = TRUE]
                          ELSE cut.file_metadata[x]]
  <2>1. h.file_metadata = marked /\ h.relationships = cut.relationships
    BY <1>1 DEF PendingMarked, GraphType
  <2>2. ASSUME NEW x \in DOMAIN cut.file_metadata
        PROVE  marked[x].pending <=> cut.file_metadata[x].pending \/ x \in files
    <3>1. cut.file_metadata[x] \in Meta
      BY <1>1 DEF GraphType, IsDict
    <3> QED
      BY <3>1 DEF Meta
  <2>3. DOMAIN marked = DOMAIN cut.file_metadata
    OBVIOUS
  <2> HIDE DEF marked
  <2>4. FilesWithPending(h) = FilesWithPending(cut) \cup (files \cap Known(cut))
    BY <2>1, <2>2, <2>3 DEF FilesWithPending, Known
  <2> QED
    BY <1>1, <2>1, <2>3, <2>4, PendingMarkedStatus DEF Known
<1>5. ASSUME NEW x \in Known(g) \ {f}, Linked(g, x, f) PROVE x \in GetSet(cut.dependents, f)
  <2>1. x \in File /\ f \in Target
    BY DEF Known, GraphType, IsDict, Target
  <2>2. Linked(cut, x, f)
    BY <1>2, <1>3, <1>5 DEF Linked
  <2> QED
    BY <1>1, <2>1, <2>2 DEF Mirror, ReverseIndexExact
<1>6. Known(cut) = Known(g) /\ FilesWithPending(cut) = FilesWithPending(g)
      /\ \A x : AnalyzedIn(cut, x) <=> AnalyzedIn(g, x)
  BY <1>2 DEF Known, FilesWithPending, AnalyzedIn
<1>7. \A x \in File : AnalyzedIn(PendingMarked(cut, GetSet(cut.dependents, f)), x) <=> AnalyzedIn(g, x)
  BY <1>4, <1>6
<1> DEFINE h == PendingMarked(cut, GetSet(cut.dependents, f))
<1>8. /\ h.relationships = cut.relationships /\ Known(h) = Known(cut)
      /\ FilesWithPending(h) = FilesWithPending(cut) \cup (GetSet(cut.dependents, f) \cap Known(cut))
  BY <1>4
<1> HIDE DEF h
<1>9. /\ DOMAIN h.relationships = kept /\ Known(h) = Known(g)
      /\ FilesWithPending(g) \subseteq FilesWithPending(h)
      /\ \A x \in Known(g) \ {f} : Linked(g, x, f) => x \in FilesWithPending(h)
  BY <1>2, <1>3, <1>5, <1>6, <1>8
<1> QED
  BY <1>7, <1>9 DEF cut, h

\* What rebuilding leaves: the file's relationships are those of its symbol data.
LEMMA RebuiltFacts ==
  ASSUME IInv, NEW f \in DOMAIN builder
  PROVE  DOMAIN Rebuilt(f).relationships =
           {r \in DOMAIN graph.relationships : r.src # f} \cup BuildRelationshipsForFile(builder, f)
<1> DEFINE cut == RemoveOutgoingRelationships(graph, f)
           kept == {r \in DOMAIN graph.relationships : r.src # f}
           bag == Keep(graph.relationships, kept)
           rels == BuildRelationshipsForFile(builder, f)
<1>1. cut.relationships = bag
  BY DEF RemoveOutgoingRelationships
<1> HIDE DEF kept
<1>21. DOMAIN bag = DOMAIN graph.relationships \cap kept
  BY KeepFacts
<1>2. DOMAIN bag = kept
  BY <1>21 DEF kept
<1> USE DEF kept
<1>3. rels \subseteq Rel
  BY BuiltRelationships DEF IInv, Shape
<1>4. DOMAIN Once(rels) = rels
  BY <1>3, OnceType
<1>5. Rebuilt(f) = AddAll(cut, Once(rels))
  BY DEF Rebuilt
<1> HIDE DEF cut, bag, rels
<1>6. DOMAIN AddAll(cut, Once(rels)).relationships = DOMAIN cut.relationships \cup rels
  BY <1>4 DEF AddAll
<1> QED
  BY <1>1, <1>2, <1>5, <1>6 DEF rels

\* What storing does with data that parsed, that did not, and that could not be read.
StoresData(f) ==
  /\ data \in Symbols /\ touched' = touched \ {f}
  /\ Known(graph') = Known(graph) \cup {f}
  /\ \A x \in File : AnalyzedIn(graph', x) <=> x = f \/ AnalyzedIn(graph, x)
  /\ DOMAIN graph'.relationships =
       {r \in DOMAIN graph.relationships : r.src # f /\ r.tgt # f} \cup BuildRelationshipsForFile(builder', f)
  /\ IsDict(builder', File, Symbols)
  /\ f \in DOMAIN builder' /\ builder'[f] = data
  /\ \A k \in DOMAIN builder \ {f} : k \in DOMAIN builder' /\ builder'[k] = builder[k]
  /\ \A k \in DOMAIN builder' \ (DOMAIN builder \cup {f}) :
       builder'[k] = ExtractFileSymbols(disk, k)
  /\ \A k \in (data.imports \cap File) \ (DOMAIN builder \cup {f}) :
       ExtractFileSymbols(disk, k) \in Symbols => k \in DOMAIN builder'

MarksBroken(f) ==
  /\ data = Invalid /\ touched' = touched \ {f} /\ builder' = builder
  /\ Known(graph') = Known(graph) \cup {f}
  /\ \A x \in File : AnalyzedIn(graph', x) <=> x # f /\ AnalyzedIn(graph, x)
  /\ DOMAIN graph'.relationships = DOMAIN graph.relationships

LeavesAlone ==
  /\ data = NoData /\ touched' = touched /\ builder' = builder
  /\ Known(graph') = Known(graph)
  /\ \A x \in File : AnalyzedIn(graph', x) <=> AnalyzedIn(graph, x)
  /\ DOMAIN graph'.relationships = DOMAIN graph.relationships

(***************************************************************************)
(* What a two-phase analysis of data that parsed leaves, to the letter:    *)
(* the relationships that do not touch the file and those its symbol data  *)
(* now calls for; and the symbol data read for its imports.                *)
(***************************************************************************)
LEMMA TwoPhaseExact ==
  ASSUME NEW g, NEW bld, IsDict(bld, File, Symbols),
         NEW d \in [File -> Disk], NEW f \in File, NEW s \in Symbols, GraphType(g)
  PROVE  LET result == AnalyzeFileTwoPhase(g, bld, d, f, s)
         IN /\ DOMAIN result.graph.relationships =
                 {r \in DOMAIN g.relationships : r.src # f /\ r.tgt # f}
                 \cup BuildRelationshipsForFile(result.builder, f)
            /\ \A k \in DOMAIN result.builder \ (DOMAIN bld \cup {f}) :
                 result.builder[k] = ExtractFileSymbols(d, k)
            /\ \A k \in (s.imports \cap File) \ (DOMAIN bld \cup {f}) :
                 ExtractFileSymbols(d, k) \in Symbols => k \in DOMAIN result.builder
<1> DEFINE added  == AddFileData(bld, f, s)
           known  == EnsureDependencySymbolsLoaded(added, d, s.imports)
           cut    == RemoveRelationshipsForFile(g, f)
           rels   == BuildRelationshipsForFile(known, f)
           built  == AddAll(cut, Once(rels))
           stored == SetFileMetadata(built, f, NewMetadata("analyzed"))
           apart  == {r \in DOMAIN g.relationships : r.src # f /\ r.tgt # f}
           kept   == Keep(g.relationships, apart)
<1>1. s # NoData /\ s.valid /\ s.imports \in SUBSET Target
  BY AnalyzerAssumption DEF Symbols
<1>2. AnalyzeFileTwoPhase(g, bld, d, f, s) = [graph |-> stored, builder |-> known, ok |-> TRUE]
  BY <1>1 DEF AnalyzeFileTwoPhase, StoreRelationships
<1>3. /\ IsDict(added, File, Symbols) /\ DOMAIN added = DOMAIN bld \cup {f}
      /\ IsDict(known, File, Symbols) /\ f \in DOMAIN known
  <2>1. IsDict(added, File, Symbols) /\ f \in DOMAIN added
    BY AddFileDataType
  <2>2. DOMAIN added = DOMAIN bld \cup {f}
    BY DEF AddFileData, Put
  <2> HIDE DEF added
  <2>3. /\ IsDict(known, File, Symbols)
        /\ \A k \in DOMAIN added : k \in DOMAIN known /\ known[k] = added[k]
    BY <1>1, <2>1, EnsureLoadedType
  <2> QED
    BY <2>1, <2>2, <2>3
<1>4. /\ \A k \in DOMAIN known \ DOMAIN added : known[k] = ExtractFileSymbols(d, k)
      /\ \A k \in (s.imports \cap File) \ DOMAIN added :
           ExtractFileSymbols(d, k) \in Symbols => k \in DOMAIN known
  <2> DEFINE usable(t) == /\ t \notin Marker
                          /\ t \notin DOMAIN added
                          /\ ExtractFileSymbols(d, t) # NoData
                          /\ ExtractFileSymbols(d, t).valid
             loaded == {t \in s.imports : usable(t)}
  <2>1. known = [k \in DOMAIN added \cup loaded |->
                   IF k \in loaded THEN ExtractFileSymbols(d, k) ELSE added[k]]
    BY DEF EnsureDependencySymbolsLoaded
  <2>2. ASSUME NEW k \in (s.imports \cap File) \ DOMAIN added, ExtractFileSymbols(d, k) \in Symbols
        PROVE  k \in loaded
    <3>1. ExtractFileSymbols(d, k) # NoData /\ ExtractFileSymbols(d, k).valid
      BY <2>2, AnalyzerAssumption DEF Symbols
    <3> QED
      BY <2>2, <3>1, AnalyzerAssumption
  <2> HIDE DEF added, loaded, known
  <2> QED
    BY <2>1, <2>2
<1> HIDE DEF known, added
<1>5. rels \subseteq Rel
  BY <1>3, BuiltRelationships
<1> HIDE DEF rels
<1>6. IsDict(Once(rels), Rel, Nat \ {0}) /\ DOMAIN Once(rels) = rels
  BY <1>5, OnceType
<1>7. GraphType(cut) /\ cut.relationships = kept
  BY RemoveForFileType DEF RemoveRelationshipsForFile
<1> HIDE DEF apart, cut
<1>8. DOMAIN kept = apart
  <2>1. DOMAIN kept = DOMAIN g.relationships \cap apart
    BY KeepFacts
  <2> QED
    BY <2>1 DEF apart
<1> HIDE DEF kept
<1>9. GraphType(built) /\ DOMAIN built.relationships = DOMAIN cut.relationships \cup rels
  <2>1. GraphType(built)
    BY <1>6, <1>7, AddAllType
  <2>2. DOMAIN built.relationships = DOMAIN cut.relationships \cup rels
    BY <1>6 DEF AddAll
  <2> QED
    BY <2>1, <2>2
<1> HIDE DEF built
<1>10. stored.relationships = built.relationships
  BY <1>9, SetMetadataFacts
<1> HIDE DEF stored
<1>11. DOMAIN stored.relationships = apart \cup rels
  BY <1>7, <1>8, <1>9, <1>10
<1> QED
  BY <1>2, <1>3, <1>4, <1>11 DEF apart, rels

\* Storing is one of the three.
LEMMA StoreSummary ==
  ASSUME IInv, NEW f \in File, Store(f)
  PROVE  StoresData(f) \/ MarksBroken(f) \/ LeavesAlone
<1> DEFINE result == AnalyzeFileTwoPhase(graph, builder, disk, f, data)
           g == result.graph
<1>1. /\ graph' = SetPending(g, f, FALSE) /\ builder' = result.builder
      /\ touched' = IF data = NoData THEN touched ELSE touched \ {f}
  BY DEF Store
<1>2. GraphType(graph) /\ IsDict(builder, File, Symbols) /\ disk \in [File -> Disk]
      /\ data \in {NoData, Invalid} \cup Symbols
  BY DEF IInv, Shape
<1>3. ASSUME GraphType(g)
      PROVE  /\ graph'.relationships = g.relationships /\ Known(graph') = Known(g)
             /\ \A x \in File : AnalyzedIn(graph', x) <=> AnalyzedIn(g, x)
  <2> HIDE DEF result, g
  <2> QED
    BY <1>1, <1>3, FlagFacts
<1>4. CASE data = NoData
  <2>1. g = graph /\ result.builder = builder
    BY <1>2, <1>4, TwoPhaseFails
  <2> HIDE DEF result, g
  <2>2. LeavesAlone
    BY <1>1, <1>2, <1>3, <1>4, <2>1 DEF LeavesAlone
  <2> QED
    BY <2>2
<1>5. CASE data = Invalid
  <2> DEFINE marked == SetFileMetadata(graph, f, NewMetadata("unparseable"))
  <2>0. data # NoData
    BY <1>5, AnalyzerAssumption
  <2>1. g = marked /\ result.builder = builder /\ GraphType(g)
    BY <1>2, <1>5, <2>0, TwoPhaseFails
  <2>2. /\ marked.relationships = graph.relationships
        /\ DOMAIN marked.file_metadata = DOMAIN graph.file_metadata \cup {f}
    BY <1>2, SetMetadataFacts
  <2>3. \A x \in File : AnalyzedIn(marked, x) <=> IF x = f THEN "unparseable" = "analyzed"
                                                  ELSE AnalyzedIn(graph, x)
    BY <1>2, SetMetadataStatus
  <2> HIDE DEF result, g, marked
  <2>4. MarksBroken(f)
    BY <1>1, <1>3, <1>5, <2>0, <2>1, <2>2, <2>3 DEF MarksBroken, Known
  <2> QED
    BY <2>4
<1>6. CASE data \in Symbols
  <2>0. data # NoData
    BY <1>6, AnalyzerAssumption
  <2>1. /\ GraphType(g) /\ IsDict(result.builder, File, Symbols)
        /\ f \in DOMAIN result.builder /\ result.builder[f] = data
        /\ \A k \in DOMAIN builder \ {f} : k \in DOMAIN result.builder
                                           /\ result.builder[k] = builder[k]
        /\ DOMAIN g.file_metadata = DOMAIN graph.file_metadata \cup {f}
        /\ g.file_metadata[f] = NewMetadata("analyzed")
        /\ \A x \in DOMAIN graph.file_metadata \ {f} :
             g.file_metadata[x] = graph.file_metadata[x]
    BY <1>2, <1>6, TwoPhaseStores
  <2>2. /\ DOMAIN g.relationships =
             {r \in DOMAIN graph.relationships : r.src # f /\ r.tgt # f}
             \cup BuildRelationshipsForFile(result.builder, f)
        /\ \A k \in DOMAIN result.builder \ (DOMAIN builder \cup {f}) :
             result.builder[k] = ExtractFileSymbols(disk, k)
        /\ \A k \in (data.imports \cap File) \ (DOMAIN builder \cup {f}) :
             ExtractFileSymbols(disk, k) \in Symbols => k \in DOMAIN result.builder
    BY <1>2, <1>6, TwoPhaseExact
  <2> HIDE DEF result, g
  <2>3. \A x \in File : AnalyzedIn(g, x) <=> x = f \/ AnalyzedIn(graph, x)
    BY <2>1 DEF AnalyzedIn, NewMetadata
  <2>4. Known(g) = Known(graph) \cup {f}
    BY <2>1 DEF Known
  <2>5. StoresData(f)
    BY <1>1, <1>3, <1>6, <2>0, <2>1, <2>2, <2>3, <2>4 DEF StoresData
  <2> QED
    BY <2>5
<1> QED
  BY <1>2, <1>4, <1>5, <1>6

\* What is extracted from a file of a layered project.
LEMMA ExtractLayered ==
  ASSUME NEW layer, NEW root, InLayers(layer, root), LayeredDisk, disk \in [File -> Disk],
         NEW f \in File
  PROVE  LET s == ExtractFileSymbols(disk, f)
         IN /\ disk[f].kind = "ok" => s \in Symbols /\ s.imports = Wanted(f) /\ s.line = disk[f].line
            /\ s \in Symbols => disk[f].kind = "ok" /\ s.imports = Wanted(f)
            /\ s = Invalid => disk[f].kind = "broken"
            /\ s \notin Symbols => Wanted(f) = {}
<1> DEFINE s == ExtractFileSymbols(disk, f)
           named == {ResolveModule(disk, t) : t \in disk[f].imports}
<1>1. disk[f] # Absent /\ disk[f].imports = Wanted(f) /\ (disk[f].kind = "ok" \/ Wanted(f) = {})
  BY DEF LayeredDisk
<1>2. disk[f].kind \in {"ok", "broken", "unreadable"}
  BY <1>1, ExtractByKind
<1>3. /\ disk[f].kind = "unreadable" => s = NoData
      /\ disk[f].kind = "broken" => s = Invalid
      /\ disk[f].kind = "ok" => s \in Symbols /\ s.line = disk[f].line
  BY <1>1, ExtractByKind
<1>4. \A t \in Wanted(f) : t \in File /\ ResolveModule(disk, t) = t
  BY LayerFacts DEF LayeredDisk, ResolveModule
<1>5. named = Wanted(f)
  BY <1>1, <1>4
<1>6. disk[f].kind = "ok" => s.imports = named
  BY <1>1 DEF ExtractFileSymbols
<1>7. NoData # Invalid /\ NoData \notin Symbols /\ Invalid \notin Symbols
  BY AnalyzerAssumption DEF Symbols, Invalid
<1> HIDE DEF s, named
<1> QED
  BY <1>1, <1>2, <1>3, <1>5, <1>6, <1>7 DEF s

\* The index has, for each file, the targets of its relationships.
LEMMA IndexFacts ==
  ASSUME NEW g, GraphType(g), Mirror(g), NEW f \in File
  PROVE  GetSet(g.dependencies, f) = {r.tgt : r \in DependenciesOf(g, f)}
<1>1. \A r \in DOMAIN g.relationships : r.src \in File /\ r.tgt \in Target
  BY RelEnds DEF GraphType, IsDict
<1>2. GetSet(g.dependencies, f) \subseteq Target
  BY DEF GraphType, IsDict, GetSet
<1>3. \A t \in Target : t \in GetSet(g.dependencies, f) <=> Linked(g, f, t)
  BY DEF Mirror, ForwardIndexExact
<1> QED
  BY <1>1, <1>2, <1>3 DEF Linked, DependenciesOf

\* Such an index leads to files, one layer down at each edge.
LEMMA DownwardFacts ==
  ASSUME NEW layer, NEW root, InLayers(layer, root), NEW index, Downward(index), NEW f \in File
  PROVE  /\ IsFiniteSet(UNION {index[k] : k \in DOMAIN index})
         /\ TransitiveDependencies(index, f) \subseteq File
         /\ \A g \in File : DependsOn(index, f, g) => layer[g] > layer[f]
         /\ \A x \in Reached(index, f) : GetSet(index, x) \subseteq Reached(index, f)
         /\ \A S : f \in S /\ (\A x \in S : GetSet(index, x) \subseteq S) => Reached(index, f) \subseteq S
         /\ \A y \in Reached(index, f) \ {f} : \E z \in Reached(index, f) : y \in GetSet(index, z)
         /\ \A y \in Reached(index, f) : y \in File /\ layer[y] >= layer[f]
<1> DEFINE all == UNION {index[k] : k \in DOMAIN index}
           below == {f} \cup {x \in File : layer[x] > layer[f]}
           led == {f} \cup {y \in Reached(index, f) : \E z \in Reached(index, f) : y \in GetSet(index, z)}
<1>1. \A x \in File : layer[x] \in Nat /\ Wanted(x) \subseteq File
                      /\ \A t \in Wanted(x) : layer[t] = layer[x] + 1
  BY LayerFacts
<1>2. \A x \in File : GetSet(index, x) \subseteq Wanted(x)
  BY DEF Downward
<1>3. all \subseteq File
  <2>1. \A k \in DOMAIN index : index[k] \subseteq File
    BY <1>1, <1>2 DEF Downward, GetSet
  <2> QED
    BY <2>1
<1>4. IsFiniteSet(all)
  BY <1>3, FilesFinite, FS_Subset
<1>5. /\ f \notin TransitiveDependencies(index, f)
      /\ TransitiveDependencies(index, f) \subseteq all
      /\ \A x \in Reached(index, f) : GetSet(index, x) \subseteq Reached(index, f)
      /\ \A S : f \in S /\ (\A x \in S : GetSet(index, x) \subseteq S) => Reached(index, f) \subseteq S
  BY <1>4, TraversalReaches DEF Reached
<1>6. Reached(index, f) \subseteq below
  <2>1. \A x \in below : x \in File /\ layer[x] \in Nat /\ layer[x] >= layer[f]
    BY <1>1
  <2>2. ASSUME NEW x \in below, NEW t \in GetSet(index, x) PROVE t \in below
    <3>1. t \in Wanted(x) /\ x \in File
      BY <1>2, <2>1, <2>2
    <3>2. t \in File /\ layer[t] = layer[x] + 1
      BY <1>1, <3>1
    <3> QED
      BY <1>1, <2>1, <3>2
  <2> HIDE DEF below
  <2>3. f \in below
    BY DEF below
  <2> QED
    BY <1>5, <2>2, <2>3
<1>7. Reached(index, f) \subseteq led
  <2>1. led \subseteq Reached(index, f)
    BY DEF Reached
  <2>2. ASSUME NEW x \in led, NEW t \in GetSet(index, x) PROVE t \in led
    BY <1>5, <2>1
  <2> HIDE DEF led
  <2>3. f \in led
    BY DEF led
  <2> QED
    BY <1>5, <2>2, <2>3
<1>8. \A g \in File : DependsOn(index, f, g) => layer[g] > layer[f]
  BY <1>5, <1>6 DEF DependsOn, Reached
<1>9. \A y \in Reached(index, f) : y \in File /\ layer[y] >= layer[f]
  BY <1>1, <1>6
<1> HIDE DEF below, led, all
<1>10. \A y \in Reached(index, f) \ {f} : \E z \in Reached(index, f) : y \in GetSet(index, z)
  BY <1>7 DEF led
<1>11. IsFiniteSet(UNION {index[k] : k \in DOMAIN index}) /\ TransitiveDependencies(index, f) \subseteq File
  BY <1>3, <1>4, <1>5 DEF all
<1> QED
  BY <1>5, <1>8, <1>9, <1>10, <1>11

\* An index that goes down has no cycle, so a sort of files by it lists each after what it imports.
LEMMA DownwardSorted ==
  ASSUME NEW layer, NEW root, InLayers(layer, root), NEW index, Downward(index),
         NEW files \in SUBSET File
  PROVE  LET order == Sorted(files, index)
         IN /\ order \in Seq(files) /\ files \subseteq ToSet(order)
            /\ \A i, j \in DOMAIN order :
                 i < j => order[i] # order[j] /\ order[j] \notin GetSet(index, order[i])
<1> DEFINE order == Sorted(files, index)
<1>1. order \in Seq(files) /\ files \subseteq ToSet(order) /\ IsInjective(order)
  BY SortedLists, SortedOnce
<1>2. ASSUME NEW f \in files PROVE Acyclic(files, index, f)
  <2>1. ASSUME NEW g \in files, NEW h \in files, DependsOn(index, g, h), DependsOn(index, h, g)
        PROVE  FALSE
    <3>1. layer[h] > layer[g] /\ layer[g] > layer[h] /\ layer[g] \in Nat /\ layer[h] \in Nat
      BY <2>1, DownwardFacts, LayerFacts
    <3> QED
      BY <3>1
  <2> QED
    BY <2>1 DEF Acyclic
<1>3. \A f, g \in files : f # g /\ DependsOn(index, f, g) => Precedes(order, g, f)
  <2>1. SortIsRight(files, index) \/ files = {}
    <3>1. CASE files # {}
      <4>1. PICK f \in files : TRUE
        BY <3>1
      <4>2. IsFiniteSet(UNION {index[k] : k \in DOMAIN index})
        BY DownwardFacts
      <4> QED
        BY <4>2, SortCorrect
    <3> QED
      BY <3>1
  <2> QED
    BY <1>2, <2>1 DEF SortIsRight
<1> HIDE DEF order
<1>4. ASSUME NEW i \in DOMAIN order, NEW j \in DOMAIN order, i < j
      PROVE  order[i] # order[j] /\ order[j] \notin GetSet(index, order[i])
  <2>1. DOMAIN order = 1..Len(order) /\ order[i] \in files /\ order[j] \in files
    BY <1>1
  <2>2. order[i] # order[j]
    BY <1>1, <1>4, <2>1 DEF IsInjective
  <2>3. ASSUME order[j] \in GetSet(index, order[i]) PROVE FALSE
    <3>1. order[j] \in Reached(index, order[i])
      <4>1. \A x \in Reached(index, order[i]) : GetSet(index, x) \subseteq Reached(index, order[i])
        BY <2>1, DownwardFacts
      <4>2. order[i] \in Reached(index, order[i])
        BY DEF Reached
      <4> QED
        BY <2>3, <4>1, <4>2
    <3>2. DependsOn(index, order[i], order[j])
      BY <2>2, <3>1 DEF Reached, DependsOn
    <3>3. PICK m \in DOMAIN order, n \in DOMAIN order :
            m < n /\ order[m] = order[j] /\ order[n] = order[i]
      BY <1>3, <2>1, <2>2, <3>2 DEF Precedes
    <3>4. m = j /\ n = i
      BY <1>1, <3>3 DEF IsInjective
    <3> QED
      BY <1>4, <2>1, <3>3, <3>4
  <2> QED
    BY <2>2, <2>3
<1> QED
  BY <1>1, <1>4 DEF order

\* A relationship to a file that parses and needs no analysis names the line of the disk.
LEMMA LineFact ==
  ASSUME NEW layer, NEW root, InLayers(layer, root), IInv, FreshInv, LayerInv(layer, root),
         NEW t \in File, ~ NeedsAnalysis(t), disk[t].kind = "ok"
  PROVE  /\ t \in DOMAIN builder /\ builder[t].line = disk[t].line
         /\ \A r \in DOMAIN graph.relationships : r.tgt = t => r.detail = disk[t].line
<1>1. LayeredDisk /\ StatusInv /\ EdgeInv
  BY DEF LayerInv
<1>2. t \in Known(graph) /\ t \notin touched
  BY <1>1 DEF NeedsAnalysis, LayeredDisk, Known
<1>3. AnalyzedIn(graph, t)
  BY <1>1, <1>2 DEF StatusInv
<1>4. t \in DOMAIN builder /\ builder[t] = ExtractFileSymbols(disk, t)
  BY <1>2, <1>3 DEF FreshInv, Current
<1>5. ExtractFileSymbols(disk, t).line = disk[t].line
  BY <1>1, ExtractLayered DEF IInv, Shape
<1> QED
  BY <1>1, <1>3, <1>4, <1>5 DEF EdgeInv

\* The files known of have all the relationships the index has of them, and the others none.
LEMMA SettledIndex ==
  ASSUME NEW layer, NEW root, InLayers(layer, root), IInv, EdgeInv,
         \A f \in Known(graph) : Full(graph, f)
  PROVE  /\ Downward(graph.dependencies)
         /\ \A f \in Known(graph) : GetSet(graph.dependencies, f) = Wanted(f)
         /\ \A f \in File : GetSet(graph.dependencies, f) # {} => f \in Known(graph)
<1>1. GraphType(graph) /\ Mirror(graph)
  BY DEF IInv, Shape
<1>2. \A f \in File : GetSet(graph.dependencies, f) = {r.tgt : r \in DependenciesOf(graph, f)}
  BY <1>1, IndexFacts
<1>3. Known(graph) \subseteq File /\ DOMAIN graph.dependencies \subseteq File
  BY <1>1 DEF Known, GraphType, IsDict
<1>4. \A f \in Known(graph) : GetSet(graph.dependencies, f) = Wanted(f)
  BY <1>2, <1>3 DEF Full
<1>5. \A f \in File \ Known(graph) : DependenciesOf(graph, f) = {}
  BY DEF EdgeInv, DependenciesOf
<1>6. \A f \in File \ Known(graph) : GetSet(graph.dependencies, f) = {}
  BY <1>2, <1>5
<1> QED
  BY <1>3, <1>4, <1>6 DEF Downward

-----------------------------------------------------------------------------
\* The files are all unknown at first.
LEMMA LayerInit ==
  ASSUME NEW layer, NEW root, InLayers(layer, root), Init
  PROVE  LayerInv(layer, root)
<1>1. Known(graph) = {} /\ DOMAIN builder = {} /\ DOMAIN graph.relationships = {}
      /\ pc = "idle" /\ disturbed = {}
  BY DEF Init, EmptyGraph, EmptyDict, Known
<1>2. LayeredDisk
  BY LayerFacts DEF Init, LayeredDisk, Calm, Wanted
<1>3. BuilderInv /\ EdgeInv /\ StatusInv /\ Settled(layer, root)
  BY <1>1 DEF BuilderInv, EdgeInv, StatusInv, Settled
<1> QED
  BY <1>1, <1>2, <1>3 DEF LayerInv

\* An edit falls between reads, and changes neither what a file imports nor whether it parses.
LEMMA LayerEdit ==
  ASSUME NEW layer, NEW root, InLayers(layer, root), IInv, LayerInv(layer, root),
         NEW f \in File, NEW c \in Contents[f], Edit(f, c)
  PROVE  LayerInv(layer, root)'
<1>1. /\ pc = "idle" /\ pc' = "idle" /\ c # Absent
      /\ disk' = [disk EXCEPT ![f] = c] /\ disk \in [File -> Disk]
      /\ touched' = touched \cup {f} /\ disturbed' = {}
      /\ graph' = graph /\ builder' = builder
  BY LayerFacts DEF Edit, Calm, IInv, Shape
<1>2. LayeredDisk'
  <2>1. c.imports = Wanted(f) /\ (c.kind = "ok" \/ Wanted(f) = {})
    BY LayerFacts
  <2>2. \A x \in File : disk'[x] = IF x = f THEN c ELSE disk[x]
    BY <1>1
  <2>3. LayeredDisk
    BY DEF LayerInv
  <2> QED
    BY <1>1, <2>1, <2>2, <2>3 DEF LayeredDisk
<1>3. StatusInv'
  <2>1. StatusInv
    BY DEF LayerInv
  <2>2. \A x \in File : x \notin touched' => x \notin touched /\ disk'[x] = disk[x]
    BY <1>1
  <2>3. Known(graph) \subseteq File
    BY DEF Known, IInv, Shape, GraphType, IsDict
  <2> QED
    BY <1>1, <2>1, <2>2, <2>3 DEF StatusInv
<1>4. BuilderInv' /\ EdgeInv' /\ Settled(layer, root)'
  BY <1>1 DEF LayerInv, BuilderInv, EdgeInv, Settled
<1> QED
  BY <1>1, <1>2, <1>3, <1>4 DEF LayerInv

\* What the walk found is what the unlinking starts from; with nothing stale, the answer is there.
LEMMA LayerResolve ==
  ASSUME NEW layer, NEW root, InLayers(layer, root), IInv, FreshInv, LayerInv(layer, root), Resolve
  PROVE  LayerInv(layer, root)'
<1>1. /\ pc = "resolve" /\ target = root
      /\ copy' = graph.dependencies /\ stale' = FindStaleFiles(target, copy')
      /\ todo' = Sorted(stale', copy')
      /\ pc' = IF stale' = {} THEN "answer" ELSE "unlink"
      /\ UNCHANGED <<disk, touched, graph, builder, target, data, edits, disturbed>>
  BY DEF Resolve, LayerInv
<1>2. LayeredDisk /\ BuilderInv /\ EdgeInv /\ StatusInv /\ Settled(layer, root) /\ disturbed = {}
  BY <1>1 DEF LayerInv
<1>3. /\ Downward(graph.dependencies)
      /\ \A f \in Known(graph) : GetSet(graph.dependencies, f) = Wanted(f)
      /\ \A f \in File : GetSet(graph.dependencies, f) # {} => f \in Known(graph)
  BY <1>2, SettledIndex DEF Settled
<1>4. root \in File /\ Known(graph) \subseteq File
  BY LayerFacts DEF Known, IInv, Shape, GraphType, IsDict
<1>5. \A x \in Reached(copy', root) : x \in File /\ GetSet(copy', x) \subseteq Reached(copy', root)
  BY <1>1, <1>3, <1>4, DownwardFacts
<1>6. \A x \in Reached(copy', root) : x \notin stale' => ~ NeedsAnalysis(x)
  BY <1>1, <1>5 DEF FindStaleFiles, Reached
<1>7. LayeredDisk' /\ BuilderInv' /\ EdgeInv' /\ StatusInv'
  BY <1>1, <1>2 DEF LayeredDisk, BuilderInv, EdgeInv, StatusInv
<1>8. CASE stale' = {}
  <2>1. Settled(layer, root)'
    BY <1>1, <1>2 DEF Settled
  <2>2. ASSUME NEW r \in DependenciesOf(graph, root), disk[r.tgt].kind = "ok"
        PROVE  r.detail = disk[r.tgt].line
    <3>1. r \in DOMAIN graph.relationships /\ r.src = root
      BY DEF DependenciesOf
    <3>2. root \in Known(graph)
      BY <1>2, <3>1 DEF EdgeInv
    <3>3. r.tgt \in Wanted(root)
      BY <1>2, <3>2 DEF Settled, Full
    <3>4. r.tgt \in Reached(copy', root) /\ root \in Reached(copy', root)
      BY <1>1, <1>3, <1>5, <3>2, <3>3 DEF Reached
    <3>5. r.tgt \in File /\ ~ NeedsAnalysis(r.tgt)
      BY <1>5, <1>6, <1>8, <3>4
    <3> QED
      BY <2>2, <3>1, <3>5, LineFact
  <2>3. LinesOf(root)'
    BY <1>1, <2>2 DEF LinesOf
  <2>4. pc' = "answer"
    BY <1>1, <1>8
  <2> QED
    BY <1>1, <1>2, <1>7, <2>1, <2>3, <2>4 DEF LayerInv
<1>9. CASE stale' # {}
  <2>1. Downward(copy)' /\ Known(graph') = Known(graph)
    BY <1>1, <1>3 DEF Downward
  <2>2. \A f \in Reached(copy', root), h \in File :
          GetSet(copy', h) # {} /\ layer[f] <= layer[h] => GetSet(copy', f) = Wanted(f)
    <3> SUFFICES ASSUME NEW f \in Reached(copy', root), NEW h \in File,
                        GetSet(copy', h) # {}, layer[f] <= layer[h]
                 PROVE  GetSet(copy', f) = Wanted(f)
      OBVIOUS
    <3>1. h \in Known(graph) /\ f \in File
      BY <1>1, <1>3, <1>5
    <3>2. f \in Known(graph) \/ Wanted(f) = {}
      BY <1>1, <1>2, <3>1 DEF Settled
    <3> QED
      BY <1>1, <1>3, <3>1, <3>2 DEF Downward
  <2>3. Known(graph) \subseteq Reached(copy', root)
    BY <1>1, <1>2 DEF Settled
  <2>4. CopyInv(layer, root)'
    BY <1>1, <1>3, <2>1, <2>2, <2>3 DEF CopyInv
  <2>5. todo' \in Seq(stale') /\ stale' \subseteq ToSet(todo')
    <3>1. stale' \in SUBSET File
      BY <1>1 DEF FindStaleFiles
    <3> QED
      BY <1>1, <3>1, SortedLists
  <2>6. ToSet(todo') \subseteq stale'
    BY <2>5 DEF ToSet
  <2>7. UnlinkInv'
    BY <1>1, <1>2, <1>3, <2>1, <2>5, <2>6 DEF UnlinkInv, Settled
  <2>8. pc' = "unlink"
    BY <1>1, <1>9
  <2> QED
    BY <1>1, <1>2, <1>7, <2>4, <2>7, <2>8 DEF LayerInv
<1> QED
  BY <1>8, <1>9

\* A file taken apart is stale, and those who had a relationship to it are marked.
LEMMA LayerUnlink ==
  ASSUME NEW layer, NEW root, InLayers(layer, root), IInv, LayerInv(layer, root),
         todo \in Seq(File), NEW f \in File, Unlink(f)
  PROVE  LayerInv(layer, root)'
<1>1. /\ pc = "unlink" /\ pc' = "unlink" /\ todo # <<>> /\ f = Head(todo) /\ todo' = Tail(todo)
      /\ UNCHANGED <<disk, touched, builder, target, copy, stale, disturbed>>
  BY DEF Unlink, read
<1>2. LayeredDisk /\ BuilderInv /\ EdgeInv /\ StatusInv /\ CopyInv(layer, root) /\ UnlinkInv
      /\ target = root /\ disturbed = {}
  BY <1>1 DEF LayerInv
<1>3. /\ DOMAIN graph'.relationships = {r \in DOMAIN graph.relationships : r.src # f}
      /\ Known(graph') = Known(graph)
      /\ \A x \in File : AnalyzedIn(graph', x) <=> AnalyzedIn(graph, x)
      /\ FilesWithPending(graph) \subseteq FilesWithPending(graph')
      /\ \A x \in Known(graph) \ {f} : Linked(graph, x, f) => x \in FilesWithPending(graph')
  <2>1. graph' = PendingMarked(RemoveOutgoingRelationships(graph, f),
                               GetSet(RemoveOutgoingRelationships(graph, f).dependents, f))
    BY DEF Unlink
  <2>2. GraphType(graph) /\ Mirror(graph)
    BY DEF IInv, Shape
  <2> QED
    BY <2>1, <2>2, UnlinkFacts
<1>4. Known(graph) \subseteq File /\ \A r \in DOMAIN graph.relationships : r.tgt \in Target
  BY RelEnds DEF Known, IInv, Shape, GraphType, IsDict
<1>5. LayeredDisk' /\ BuilderInv' /\ StatusInv'
  BY <1>1, <1>2, <1>3, <1>4 DEF LayeredDisk, BuilderInv, StatusInv
<1>6. EdgeInv'
  <2>1. \A x : AnalyzedIn(graph', x) => AnalyzedIn(graph, x)
    <3>1. \A x : AnalyzedIn(graph', x) => x \in Known(graph')
      BY DEF AnalyzedIn, Known
    <3> QED
      BY <1>3, <1>4, <3>1
  <2> QED
    BY <1>1, <1>2, <1>3, <2>1 DEF EdgeInv
<1>7. CopyInv(layer, root)'
  BY <1>1, <1>2, <1>3 DEF CopyInv, Downward
<1>8. /\ f \in ToSet(todo) /\ \A x \in ToSet(todo) : x = f \/ x \in ToSet(todo')
      /\ ToSet(todo') \subseteq ToSet(todo)
  <2>1. /\ DOMAIN todo = 1..Len(todo) /\ DOMAIN todo' = 1..Len(todo') /\ Len(todo) \in Nat \ {0}
        /\ Len(todo') = Len(todo) - 1 /\ f = todo[1] /\ \A i \in 1..Len(todo') : todo'[i] = todo[i + 1]
    BY <1>1
  <2>2. f \in ToSet(todo) /\ ToSet(todo') \subseteq ToSet(todo)
    BY <2>1 DEF ToSet
  <2>3. \A x \in ToSet(todo) : x = Head(todo) \/ x \in ToSet(Tail(todo))
    BY <1>1, HeadAndTail
  <2> QED
    BY <1>1, <2>2, <2>3
<1>9. \A x \in Known(graph) \ {f} : Full(graph, x) => Full(graph', x)
  <2>1. \A x \in Known(graph) \ {f} : DependenciesOf(graph', x) = DependenciesOf(graph, x)
    BY <1>3 DEF DependenciesOf
  <2> QED
    BY <2>1 DEF Full
<1>10. ASSUME NEW x \in stale \ ToSet(todo'), NEW h \in Known(graph), x \in Wanted(h)
       PROVE  h \in stale \/ h \in FilesWithPending(graph')
  <2>1. CASE x \notin ToSet(todo)
    BY <1>2, <1>3, <1>10, <2>1 DEF UnlinkInv
  <2>2. CASE x \in ToSet(todo)
    <3>1. x = f
      BY <1>8, <1>10, <2>2
    <3>2. CASE h = f
      BY <1>10, <3>1, <3>2
    <3>3. CASE h # f /\ Full(graph, h)
      <4>1. Linked(graph, h, f)
        BY <1>10, <3>1, <3>3 DEF Full, DependenciesOf, Linked
      <4> QED
        BY <1>3, <3>3, <4>1
    <3>4. CASE ~ Full(graph, h)
      BY <1>2, <3>4 DEF UnlinkInv
    <3> QED
      BY <3>2, <3>3, <3>4
  <2> QED
    BY <2>1, <2>2
<1>11. f \in stale
  BY <1>2, <1>8 DEF UnlinkInv
<1>12. UnlinkInv'
  BY <1>1, <1>2, <1>3, <1>8, <1>9, <1>10, <1>11 DEF UnlinkInv
<1> QED
  BY <1>1, <1>2, <1>5, <1>6, <1>7, <1>12 DEF LayerInv

(***************************************************************************)
(* What is left to process is everything unlinked or marked, in an order   *)
(* that has each file after those it imports: by the index where the index *)
(* has the file, and because the walk stopped in its layer where it does   *)
(* not.                                                                    *)
(***************************************************************************)
LEMMA LayerSchedule ==
  ASSUME NEW layer, NEW root, InLayers(layer, root), IInv, FreshInv, PassInv,
         LayerInv(layer, root), Schedule
  PROVE  LayerInv(layer, root)'
<1> DEFINE files == (stale \cup FilesWithPending(graph)) \cap Reached(copy, root)
<1>1. /\ pc = "unlink" /\ pc' = "process" /\ todo = <<>> /\ target = root
      /\ todo' = Sorted(files, copy)
      /\ UNCHANGED <<disk, touched, graph, builder, target, copy, stale, disturbed>>
  BY DEF Schedule, Reached, LayerInv, read
<1>2. LayeredDisk /\ BuilderInv /\ EdgeInv /\ StatusInv /\ CopyInv(layer, root) /\ UnlinkInv
      /\ target = root /\ disturbed = {}
  BY <1>1 DEF LayerInv
<1>3. /\ root \in File /\ Known(graph) \subseteq File
      /\ FilesWithPending(graph) \subseteq Known(graph)
      /\ \A x \in File : layer[x] \in Nat
      /\ \A x \in File : \A t \in Wanted(x) : t \in File /\ layer[t] = layer[x] + 1
  BY LayerFacts DEF Known, FilesWithPending, IInv, Shape, GraphType, IsDict
<1>4. /\ \A y \in Reached(copy, root) \ {root} : \E z \in Reached(copy, root) : y \in GetSet(copy, z)
      /\ \A y \in Reached(copy, root) : y \in File /\ layer[y] >= layer[root]
      /\ \A x \in Reached(copy, root) : GetSet(copy, x) \subseteq Reached(copy, root)
      /\ root \in Reached(copy, root)
  BY <1>2, <1>3, DownwardFacts DEF CopyInv, Reached
<1>5. stale \subseteq Reached(copy, root) /\ Known(graph) \subseteq Reached(copy, root)
  BY <1>1, <1>2 DEF PassInv, Walked, Reached, CopyInv
<1>6. files \in SUBSET File /\ files \subseteq stale \cup Known(graph) /\ files \subseteq Reached(copy, root)
      /\ stale \subseteq files /\ FilesWithPending(graph) \subseteq files
  BY <1>3, <1>4, <1>5
<1>7. \A x \in Reached(copy, root) : x \notin stale => ~ NeedsAnalysis(x)
  BY <1>1, <1>2, <1>4 DEF PassInv, Due, Walked, Reached
<1> HIDE DEF files
<1>8. /\ todo' \in Seq(files) /\ files \subseteq ToSet(todo')
      /\ \A i, j \in DOMAIN todo' :
           i < j => todo'[i] # todo'[j] /\ todo'[j] \notin GetSet(copy, todo'[i])
  BY <1>1, <1>2, <1>6, DownwardSorted DEF CopyInv
<1>9. ToSet(todo') = files
  BY <1>8 DEF ToSet
<1>10. ASSUME NEW x \in files, NEW y \in files, y \in Wanted(x), y \notin GetSet(copy, x)
       PROVE  FALSE
  <2>1. x \in File /\ y \in File /\ layer[y] = layer[x] + 1 /\ layer[x] \in Nat
        /\ x \in Reached(copy, root) /\ y \in Reached(copy, root)
    BY <1>3, <1>6, <1>10
  <2>2. y # root
    BY <1>3, <1>4, <2>1
  <2>3. PICK z \in Reached(copy, root) : y \in GetSet(copy, z)
    BY <1>4, <2>1, <2>2
  <2>4. z \in File /\ GetSet(copy, z) # {} /\ y \in Wanted(z)
    BY <1>2, <1>4, <2>3 DEF CopyInv, Downward
  <2>5. layer[y] = layer[z] + 1 /\ layer[z] \in Nat
    BY <1>3, <2>4
  <2>6. layer[x] <= layer[z]
    BY <2>1, <2>5
  <2>7. GetSet(copy, x) = Wanted(x)
    BY <1>2, <2>1, <2>4, <2>6 DEF CopyInv
  <2> QED
    BY <1>10, <2>7
<1>11. \A i, j \in DOMAIN todo' : i < j => todo'[i] # todo'[j] /\ todo'[j] \notin Wanted(todo'[i])
  <2>1. \A i \in DOMAIN todo' : todo'[i] \in files
    BY <1>8
  <2> QED
    BY <1>8, <1>10, <2>1
<1>12. ProcessInv(root)'
  <2>1. \A f \in Known(graph) : Full(graph, f) \/ f \in ToSet(todo')
    BY <1>2, <1>6, <1>9 DEF UnlinkInv
  <2>2. \A f \in Known(graph) \cap ToSet(todo') : GetSet(copy, f) = Wanted(f)
    BY <1>2 DEF UnlinkInv
  <2>3. \A f \in stale \cap ToSet(todo'), h \in Known(graph) : f \in Wanted(h) => h \in ToSet(todo')
    <3>1. ToSet(todo) = {}
      BY <1>1 DEF ToSet
    <3> QED
      BY <1>2, <1>6, <1>9, <3>1 DEF UnlinkInv
  <2>4. ToSet(todo') \subseteq (stale \cup Known(graph)) \cap Reached(copy, root)
    BY <1>6, <1>9
  <2> QED
    BY <1>1, <1>11, <2>1, <2>2, <2>3, <2>4 DEF ProcessInv
<1>13. ASSUME root \notin ToSet(todo') PROVE LinesOf(root)'
  <2>1. root \notin stale /\ root \notin FilesWithPending(graph)
    BY <1>6, <1>9, <1>13
  <2>2. ASSUME NEW r \in DependenciesOf(graph, root), disk[r.tgt].kind = "ok"
        PROVE  r.detail = disk[r.tgt].line
    <3>1. r \in DOMAIN graph.relationships /\ r.src = root /\ root \in Known(graph)
      BY <1>2 DEF DependenciesOf, EdgeInv
    <3>2. r.tgt \in Wanted(root)
      BY <1>2, <2>1, <3>1 DEF UnlinkInv, Full
    <3>3. r.tgt \notin stale
      <4>1. ToSet(todo) = {}
        BY <1>1 DEF ToSet
      <4> QED
        BY <1>2, <2>1, <3>1, <3>2, <4>1 DEF UnlinkInv
    <3>4. r.tgt \in Reached(copy, root)
      BY <1>2, <1>4, <3>1, <3>2 DEF UnlinkInv
    <3>5. r.tgt \in File /\ ~ NeedsAnalysis(r.tgt)
      BY <1>4, <1>7, <3>3, <3>4
    <3> QED
      BY <2>2, <3>1, <3>5, LineFact
  <2> QED
    BY <1>1, <2>2 DEF LinesOf
<1>14. LayeredDisk' /\ BuilderInv' /\ EdgeInv' /\ StatusInv' /\ CopyInv(layer, root)'
  BY <1>1, <1>2 DEF LayeredDisk, BuilderInv, EdgeInv, StatusInv, CopyInv, Downward
<1> QED
  BY <1>1, <1>2, <1>12, <1>13, <1>14 DEF LayerInv

(***************************************************************************)
(* Processing the first file left: whatever becomes of it, it now has its  *)
(* relationships, and only files still to be processed may have lost one.  *)
(***************************************************************************)
LEMMA ProcessStep ==
  ASSUME NEW layer, NEW root, InLayers(layer, root), CopyInv(layer, root), ProcessInv(root),
         todo \in Seq(File), todo # <<>>, todo' = Tail(todo), pc' = "process",
         copy' = copy, stale' = stale,
         Known(graph) \subseteq Known(graph'), Known(graph') \subseteq Known(graph) \cup {Head(todo)},
         Known(graph') \subseteq File,
         Head(todo) \in Known(graph') => Full(graph', Head(todo)),
         \A x \in Known(graph) \ ToSet(todo) : Full(graph, x) => Full(graph', x)
  PROVE  /\ CopyInv(layer, root)' /\ ProcessInv(root)'
         /\ \A x \in ToSet(todo) : x = Head(todo) \/ x \in ToSet(todo')
         /\ Head(todo) \notin ToSet(todo') /\ Wanted(Head(todo)) \cap ToSet(todo') = {}
         /\ Head(todo) \in ToSet(todo) \cap Reached(copy, root)
<1> DEFINE f == Head(todo)
<1>1. /\ DOMAIN todo = 1..Len(todo) /\ DOMAIN todo' = 1..Len(todo') /\ Len(todo) \in Nat \ {0}
      /\ Len(todo') = Len(todo) - 1 /\ f = todo[1] /\ \A i \in 1..Len(todo') : todo'[i] = todo[i + 1]
  OBVIOUS
<1>2. f \in ToSet(todo) /\ ToSet(todo') \subseteq ToSet(todo)
  BY <1>1 DEF ToSet
<1>3. \A x \in ToSet(todo) : x = f \/ x \in ToSet(todo')
  BY HeadAndTail
<1>4. f \notin ToSet(todo') /\ Wanted(f) \cap ToSet(todo') = {}
  <2>1. ASSUME NEW i \in 1..Len(todo') PROVE todo'[i] # f /\ todo'[i] \notin Wanted(f)
    <3>1. 1 \in DOMAIN todo /\ i + 1 \in DOMAIN todo /\ 1 < i + 1 /\ todo'[i] = todo[i + 1]
      BY <1>1
    <3> QED
      BY <1>1, <3>1 DEF ProcessInv
  <2> QED
    BY <1>1, <2>1 DEF ToSet
<1>5. \A i, j \in DOMAIN todo' : i < j => todo'[i] # todo'[j] /\ todo'[j] \notin Wanted(todo'[i])
  <2>1. \A i \in DOMAIN todo' : i + 1 \in DOMAIN todo /\ todo'[i] = todo[i + 1]
    BY <1>1
  <2>2. \A i, j \in DOMAIN todo' : i < j => i + 1 < j + 1
    BY <1>1
  <2>3. \A i, j \in DOMAIN todo : i < j => todo[i] # todo[j] /\ todo[j] \notin Wanted(todo[i])
    BY DEF ProcessInv
  <2> QED
    BY <2>1, <2>2, <2>3
<1> HIDE DEF f
<1>6. f \in Reached(copy, root)
  BY <1>2 DEF ProcessInv
<1>7. CopyInv(layer, root)'
  <2>1. Known(graph') \subseteq Reached(copy, root)
    BY <1>6 DEF CopyInv, f
  <2> QED
    BY <2>1 DEF CopyInv, Downward
<1>8. ASSUME NEW x \in Known(graph') PROVE Full(graph', x) \/ x \in ToSet(todo')
  <2>1. CASE x = f
    BY <1>8, <2>1 DEF f
  <2>2. CASE x # f
    <3>1. x \in Known(graph)
      BY <1>8, <2>2 DEF f
    <3> QED
      BY <1>3, <2>2, <3>1 DEF ProcessInv
  <2> QED
    BY <2>1, <2>2
<1>9. ASSUME NEW x \in Known(graph') \cap ToSet(todo') PROVE GetSet(copy, x) = Wanted(x)
  BY <1>2, <1>4, <1>9 DEF ProcessInv, f
<1>10. ASSUME NEW x \in stale \cap ToSet(todo'), NEW h \in Known(graph'), x \in Wanted(h)
       PROVE  h \in ToSet(todo')
  <2>1. h # f
    BY <1>4, <1>10
  <2>2. h \in Known(graph)
    BY <1>10, <2>1 DEF f
  <2> QED
    BY <1>2, <1>3, <1>10, <2>1, <2>2 DEF ProcessInv
<1>11. ToSet(todo') \subseteq (stale \cup Known(graph')) \cap Reached(copy, root)
  BY <1>2 DEF ProcessInv
<1>12. ProcessInv(root)'
  BY <1>5, <1>8, <1>9, <1>10, <1>11 DEF ProcessInv
<1> QED
  BY <1>2, <1>3, <1>4, <1>6, <1>7, <1>12 DEF f

\* A processed file's imports are through with: those that parse have the lines of the disk.
LEMMA ImportsThrough ==
  ASSUME NEW layer, NEW root, InLayers(layer, root), IInv, FreshInv, PassInv,
         LayerInv(layer, root), pc \in {"process", "store"},
         Wanted(Head(todo)) \cap ToSet(Tail(todo)) = {}, todo # <<>>,
         GetSet(copy, Head(todo)) = Wanted(Head(todo)), Head(todo) \in Reached(copy, root),
         NEW t \in Wanted(Head(todo)), disk[t].kind = "ok"
  PROVE  t \in DOMAIN builder /\ builder[t].line = disk[t].line
<1>1. CopyInv(layer, root) /\ LayeredDisk /\ target = root /\ disturbed = {} /\ todo \in Seq(File)
  BY DEF LayerInv, PassInv
<1>2. t \in Reached(copy, root) /\ t \in File /\ Head(todo) \in File /\ t # Head(todo)
  <2>1. root \in File /\ \A x \in Reached(copy, root) : x \in File /\ GetSet(copy, x) \subseteq Reached(copy, root)
    BY <1>1, DownwardFacts, LayerFacts DEF CopyInv
  <2>2. t \in File /\ layer[t] = layer[Head(todo)] + 1 /\ layer[Head(todo)] \in Nat
    BY <2>1, LayerFacts
  <2> QED
    BY <2>1, <2>2
<1>3. t \notin ToSet(todo)
  BY <1>1, <1>2, HeadAndTail
<1>4. t \in Walked
  BY <1>1, <1>2 DEF Walked, Reached
<1>5. ~ Unreadable(t)
  BY DEF Unreadable
<1>6. ~ NeedsAnalysis(t)
  BY <1>1, <1>3, <1>4, <1>5 DEF PassInv, Due
<1> QED
  BY <1>2, <1>6, LineFact

\* What the symbol data of a file calls for, in a layered project.
LEMMA BuiltLayered ==
  ASSUME NEW bld, NEW f \in DOMAIN bld, bld[f].imports = Wanted(f)
  PROVE  /\ \A r \in BuildRelationshipsForFile(bld, f) :
              /\ r.src = f /\ r.site = "import" /\ r.tgt \in Wanted(f)
              /\ r.tgt \in DOMAIN bld => r.detail = bld[r.tgt].line
         /\ {r.tgt : r \in BuildRelationshipsForFile(bld, f)} = Wanted(f)
<1> DEFINE edge(t) == [src |-> f, tgt |-> t, site |-> "import", detail |-> GetTargetLine(bld, t)]
<1>1. BuildRelationshipsForFile(bld, f) = {edge(t) : t \in Wanted(f)}
  BY DEF BuildRelationshipsForFile
<1>2. \A t : edge(t).src = f /\ edge(t).site = "import" /\ edge(t).tgt = t
             /\ edge(t).detail = GetTargetLine(bld, t)
  OBVIOUS
<1> HIDE DEF edge
<1> QED
  BY <1>1, <1>2 DEF GetTargetLine

\* A file that imports nothing has no relationships.
LEMMA NothingWanted ==
  ASSUME IInv, BuilderInv, NEW f, f \in DOMAIN builder => Wanted(f) = {}
  PROVE  DependenciesOf(graph, f) = {}
<1>1. \A r \in DOMAIN graph.relationships : r.src \in DOMAIN builder /\ r.tgt \in builder[r.src].imports
  BY DEF IInv, Derived
<1> QED
  BY <1>1 DEF BuilderInv, DependenciesOf

\* A store that finds no data to store: the file imports nothing and loses nothing.
LEMMA LayerStoreNothing ==
  ASSUME NEW layer, NEW root, InLayers(layer, root), IInv, PassInv, IInv',
         LayerInv(layer, root), NEW f \in File, Store(f), MarksBroken(f) \/ LeavesAlone
  PROVE  LayerInv(layer, root)'
<1>1. /\ pc = "store" /\ pc' = "process" /\ f = Head(todo) /\ todo' = Tail(todo)
      /\ UNCHANGED <<disk, target, copy, stale, disturbed>>
  BY DEF Store, AfterStored, read
<1>2. LayeredDisk /\ BuilderInv /\ EdgeInv /\ StatusInv /\ CopyInv(layer, root) /\ ProcessInv(root)
      /\ target = root /\ disturbed = {} /\ (root \notin ToSet(todo) => LinesOf(root))
  BY <1>1 DEF LayerInv
<1>3. todo \in Seq(File) /\ todo # <<>> /\ data = ExtractFileSymbols(disk, f) /\ disk \in [File -> Disk]
      /\ Known(graph) \subseteq File /\ Known(graph') \subseteq File
  BY <1>1, <1>2 DEF PassInv, IInv, Shape, GraphType, IsDict, Known
<1>4. Wanted(f) = {} /\ (data = Invalid => disk[f].kind = "broken")
  <2>1. data \notin Symbols
    <3>1. data = Invalid \/ data = NoData
      BY DEF MarksBroken, LeavesAlone
    <3>2. Invalid \notin Symbols /\ NoData \notin Symbols
      BY AnalyzerAssumption DEF Symbols, Invalid
    <3> QED
      BY <3>1, <3>2
  <2> QED
    BY <1>2, <1>3, <2>1, ExtractLayered
<1>5. /\ builder' = builder /\ DOMAIN graph'.relationships = DOMAIN graph.relationships
      /\ Known(graph) \subseteq Known(graph') /\ Known(graph') \subseteq Known(graph) \cup {f}
      /\ \A x \in File \ {f} : AnalyzedIn(graph', x) <=> AnalyzedIn(graph, x)
      /\ AnalyzedIn(graph', f) => AnalyzedIn(graph, f) /\ data = NoData
      /\ touched' = IF data = NoData THEN touched ELSE touched \ {f}
      /\ f \in Known(graph') => f \in Known(graph) \/ data = Invalid
      /\ data = NoData \/ data = Invalid
      /\ data = NoData => (AnalyzedIn(graph, f) => AnalyzedIn(graph', f))
      /\ data = NoData => Known(graph') = Known(graph)
  BY AnalyzerAssumption DEF MarksBroken, LeavesAlone, Store
<1>6. \A x : DependenciesOf(graph', x) = DependenciesOf(graph, x)
  BY <1>5 DEF DependenciesOf
<1>7. DependenciesOf(graph, f) = {}
  BY <1>2, <1>4, NothingWanted
<1>8. /\ CopyInv(layer, root)' /\ ProcessInv(root)'
      /\ \A x \in ToSet(todo) : x = f \/ x \in ToSet(todo')
  <2>1. Full(graph', f)
    BY <1>4, <1>6, <1>7 DEF Full
  <2>2. \A x \in Known(graph) : Full(graph, x) => Full(graph', x)
    BY <1>6 DEF Full
  <2> QED
    BY <1>1, <1>2, <1>3, <1>5, <2>1, <2>2, ProcessStep
<1>9. LayeredDisk' /\ BuilderInv'
  BY <1>1, <1>2, <1>5 DEF LayeredDisk, BuilderInv
<1>10. EdgeInv'
  <2>1. \A x : AnalyzedIn(graph', x) => AnalyzedIn(graph, x)
    BY <1>3, <1>5 DEF AnalyzedIn, Known
  <2> QED
    BY <1>2, <1>5, <2>1 DEF EdgeInv
<1>11. StatusInv'
  <2> SUFFICES ASSUME NEW x \in Known(graph')
               PROVE  IF AnalyzedIn(graph', x) THEN x \in DOMAIN builder
                      ELSE Wanted(x) = {} /\ (x \notin touched' => disk[x].kind = "broken")
    BY <1>1, <1>5 DEF StatusInv
  <2>1. CASE x # f
    BY <1>2, <1>3, <1>5, <2>1 DEF StatusInv
  <2>2. CASE x = f /\ data = Invalid
    BY <1>2, <1>3, <1>4, <1>5, <2>2, AnalyzerAssumption DEF StatusInv
  <2>3. CASE x = f /\ data = NoData
    BY <1>2, <1>3, <1>4, <1>5, <2>3 DEF StatusInv
  <2> QED
    BY <1>5, <2>1, <2>2, <2>3
<1>12. ASSUME root \notin ToSet(todo') PROVE LinesOf(root)'
  <2>1. CASE root = f
    BY <1>6, <1>7, <2>1 DEF LinesOf
  <2>2. CASE root # f
    BY <1>1, <1>2, <1>6, <1>8, <1>12, <2>2 DEF LinesOf
  <2> QED
    BY <2>1, <2>2
<1> QED
  BY <1>1, <1>2, <1>8, <1>9, <1>10, <1>11, <1>12 DEF LayerInv

(***************************************************************************)
(* A store of symbol data drops the relationships that end in the file:    *)
(* its importers are all still to be processed.                            *)
(***************************************************************************)
LEMMA LayerStoreData ==
  ASSUME NEW layer, NEW root, InLayers(layer, root), IInv, FreshInv, PassInv, IInv',
         LayerInv(layer, root), NEW f \in File, Store(f), StoresData(f)
  PROVE  LayerInv(layer, root)'
<1>1. /\ pc = "store" /\ pc' = "process" /\ f = Head(todo) /\ todo' = Tail(todo)
      /\ UNCHANGED <<disk, target, copy, stale, disturbed>>
  BY DEF Store, AfterStored, read
<1>2. LayeredDisk /\ BuilderInv /\ EdgeInv /\ StatusInv /\ CopyInv(layer, root) /\ ProcessInv(root)
      /\ target = root /\ disturbed = {} /\ (root \notin ToSet(todo) => LinesOf(root))
  BY <1>1 DEF LayerInv
<1>3. todo \in Seq(File) /\ todo # <<>> /\ data = ExtractFileSymbols(disk, f) /\ disk \in [File -> Disk]
      /\ Known(graph) \subseteq File /\ Known(graph') \subseteq File /\ f \in ToSet(todo) /\ f \in stale
  <2>1. f \in ToSet(todo)
    BY <1>1, <1>2 DEF PassInv, ToSet
  <2> QED
    BY <1>1, <1>2, <2>1 DEF PassInv, IInv, Shape, GraphType, IsDict, Known, ProcessInv
<1>4. /\ data.imports = Wanted(f) /\ f \notin Wanted(f) /\ Wanted(f) \subseteq File
      /\ disk[f].kind = "ok"
  <2>1. data \in Symbols
    BY DEF StoresData
  <2>2. \A t \in Wanted(f) : t \in File /\ layer[t] = layer[f] + 1 /\ layer[f] \in Nat
    BY LayerFacts
  <2> QED
    BY <1>2, <1>3, <2>1, <2>2, ExtractLayered
<1>5. /\ touched' = touched \ {f} /\ Known(graph') = Known(graph) \cup {f}
      /\ \A x \in File : AnalyzedIn(graph', x) <=> x = f \/ AnalyzedIn(graph, x)
      /\ DOMAIN graph'.relationships =
           {r \in DOMAIN graph.relationships : r.src # f /\ r.tgt # f} \cup BuildRelationshipsForFile(builder', f)
      /\ IsDict(builder', File, Symbols)
      /\ f \in DOMAIN builder' /\ builder'[f] = data
      /\ \A k \in DOMAIN builder \ {f} : k \in DOMAIN builder' /\ builder'[k] = builder[k]
      /\ \A k \in DOMAIN builder' \ (DOMAIN builder \cup {f}) : builder'[k] = ExtractFileSymbols(disk, k)
      /\ \A k \in (data.imports \cap File) \ (DOMAIN builder \cup {f}) :
           ExtractFileSymbols(disk, k) \in Symbols => k \in DOMAIN builder'
  BY DEF StoresData
<1>6. BuilderInv'
  <2>1. ASSUME NEW k \in DOMAIN builder' PROVE builder'[k].imports = Wanted(k)
    <3>1. CASE k = f
      BY <1>4, <1>5, <3>1
    <3>2. CASE k \in DOMAIN builder /\ k # f
      BY <1>2, <1>5, <3>2 DEF BuilderInv
    <3>3. CASE k \notin DOMAIN builder /\ k # f
      <4>1. k \in File /\ builder'[k] \in Symbols /\ builder'[k] = ExtractFileSymbols(disk, k)
        BY <1>5, <3>3 DEF IsDict
      <4> QED
        BY <1>2, <1>3, <4>1, ExtractLayered
    <3> QED
      BY <3>1, <3>2, <3>3
  <2> QED
    BY <1>5, <2>1 DEF BuilderInv
<1>7. /\ \A r \in BuildRelationshipsForFile(builder', f) :
           /\ r.src = f /\ r.site = "import" /\ r.tgt \in Wanted(f)
           /\ r.tgt \in DOMAIN builder' => r.detail = builder'[r.tgt].line
      /\ {r.tgt : r \in BuildRelationshipsForFile(builder', f)} = Wanted(f)
  <2>1. builder'[f].imports = Wanted(f)
    BY <1>4, <1>5
  <2> QED
    BY <1>5, <2>1, BuiltLayered
<1>8. EdgeInv'
  <2> SUFFICES ASSUME NEW r \in DOMAIN graph'.relationships
               PROVE  /\ r.src \in Known(graph') /\ r.site = "import"
                      /\ AnalyzedIn(graph', r.tgt) => r.detail = builder'[r.tgt].line
    BY DEF EdgeInv
  <2>1. \A t : AnalyzedIn(graph', t) /\ t # f => t \in DOMAIN builder' /\ builder'[t] = builder[t]
                                                 /\ AnalyzedIn(graph, t)
    <3> SUFFICES ASSUME NEW t, AnalyzedIn(graph', t), t # f
                 PROVE  t \in DOMAIN builder' /\ builder'[t] = builder[t] /\ AnalyzedIn(graph, t)
      OBVIOUS
    <3>1. t \in Known(graph') /\ t \in File
      BY <1>3 DEF AnalyzedIn, Known
    <3>2. AnalyzedIn(graph, t) /\ t \in Known(graph)
      BY <1>5, <3>1
    <3> QED
      BY <1>2, <1>5, <3>2 DEF StatusInv
  <2>2. CASE r \in DOMAIN graph.relationships /\ r.src # f /\ r.tgt # f
    BY <1>2, <1>5, <2>1, <2>2 DEF EdgeInv
  <2>3. CASE r \in BuildRelationshipsForFile(builder', f)
    BY <1>4, <1>5, <1>7, <2>1, <2>3
  <2> QED
    BY <1>5, <2>2, <2>3
<1>9. StatusInv'
  <2> SUFFICES ASSUME NEW x \in Known(graph')
               PROVE  IF AnalyzedIn(graph', x) THEN x \in DOMAIN builder'
                      ELSE Wanted(x) = {} /\ (x \notin touched' => disk[x].kind = "broken")
    BY <1>1 DEF StatusInv
  <2>1. CASE x = f
    BY <1>5, <2>1
  <2>2. CASE x # f
    BY <1>2, <1>3, <1>5, <2>2 DEF StatusInv
  <2> QED
    BY <2>1, <2>2
<1>10. /\ CopyInv(layer, root)' /\ ProcessInv(root)'
       /\ \A x \in ToSet(todo) : x = f \/ x \in ToSet(todo')
       /\ f \notin ToSet(todo') /\ Wanted(f) \cap ToSet(todo') = {} /\ f \in Reached(copy, root)
  <2>1. Full(graph', f)
    <3>1. DependenciesOf(graph', f) = BuildRelationshipsForFile(builder', f)
      BY <1>5, <1>7 DEF DependenciesOf
    <3> QED
      BY <1>7, <3>1 DEF Full
  <2>2. ASSUME NEW x \in Known(graph) \ ToSet(todo), Full(graph, x) PROVE Full(graph', x)
    <3>1. f \notin Wanted(x) /\ x # f
      BY <1>2, <1>3, <2>2 DEF ProcessInv
    <3>2. \A r \in DependenciesOf(graph, x) : r.tgt # f
      BY <2>2, <3>1 DEF Full
    <3>3. DependenciesOf(graph', x) = DependenciesOf(graph, x)
      BY <1>5, <1>7, <3>1, <3>2 DEF DependenciesOf
    <3> QED
      BY <2>2, <3>3 DEF Full
  <2> QED
    BY <1>1, <1>2, <1>3, <1>5, <2>1, <2>2, ProcessStep
<1>11. ASSUME root \notin ToSet(todo') PROVE LinesOf(root)'
  <2>1. CASE root # f
    <3>1. LinesOf(root)
      BY <1>2, <1>10, <1>11, <2>1
    <3>2. DependenciesOf(graph', root) \subseteq DependenciesOf(graph, root)
      BY <1>5, <1>7, <2>1 DEF DependenciesOf
    <3> QED
      BY <1>1, <3>1, <3>2 DEF LinesOf
  <2>2. CASE root = f
    <3>1. \A r \in DependenciesOf(graph', root) : r \in BuildRelationshipsForFile(builder', f)
      BY <1>5, <2>2 DEF DependenciesOf
    <3>2. ASSUME NEW t \in Wanted(f), disk[t].kind = "ok"
          PROVE  t \in DOMAIN builder' /\ builder'[t].line = disk[t].line
      <4>1. t \in File /\ t # f
        BY <1>4
      <4>2. CASE GetSet(copy, f) = Wanted(f)
        <5>1. t \in DOMAIN builder /\ builder[t].line = disk[t].line
          BY <1>1, <1>3, <1>10, <3>2, <4>2, ImportsThrough
        <5> QED
          BY <1>5, <4>1, <5>1
      <4>3. CASE GetSet(copy, f) # Wanted(f)
        <5>1. GetSet(copy, root) = {}
          BY <1>2, <2>2, <4>3 DEF CopyInv, Downward
        <5>2. Reached(copy, root) \subseteq {root}
          BY <1>2, <2>2, <5>1, DownwardFacts DEF CopyInv
        <5>3. Known(graph) = {}
          <6>1. root \notin Known(graph)
            BY <1>2, <1>3, <2>2, <4>3 DEF ProcessInv
          <6> QED
            BY <1>2, <5>2, <6>1 DEF CopyInv
        <5>4. DOMAIN builder = {}
          BY <1>2, <5>3 DEF BuilderInv
        <5>5. ExtractFileSymbols(disk, t) \in Symbols /\ ExtractFileSymbols(disk, t).line = disk[t].line
          BY <1>2, <1>3, <3>2, <4>1, ExtractLayered
        <5>6. t \in DOMAIN builder'
          BY <1>4, <1>5, <4>1, <5>4, <5>5
        <5>7. builder'[t] = ExtractFileSymbols(disk, t)
          BY <1>5, <4>1, <5>4, <5>6
        <5> QED
          BY <5>5, <5>6, <5>7
      <4> QED
        BY <4>2, <4>3
    <3> QED
      BY <1>1, <1>7, <3>1, <3>2 DEF LinesOf
  <2> QED
    BY <2>1, <2>2
<1>12. LayeredDisk'
  BY <1>1, <1>2 DEF LayeredDisk
<1> QED
  BY <1>1, <1>2, <1>6, <1>8, <1>9, <1>10, <1>11, <1>12 DEF LayerInv

\* A rebuilt file was known, and is through with its imports.
LEMMA LayerRebuild ==
  ASSUME NEW layer, NEW root, InLayers(layer, root), IInv, FreshInv, PassInv, IInv',
         LayerInv(layer, root), NEW f \in File, Rebuild(f)
  PROVE  LayerInv(layer, root)'
<1>1. /\ pc = "process" /\ pc' = "process" /\ f = Head(todo) /\ todo' = Tail(todo) /\ todo # <<>>
      /\ f \notin stale /\ graph' = SetPending(Rebuilt(f), f, FALSE)
      /\ UNCHANGED <<disk, touched, builder, target, copy, stale, disturbed>>
  BY DEF Rebuild, read
<1>2. LayeredDisk /\ BuilderInv /\ EdgeInv /\ StatusInv /\ CopyInv(layer, root) /\ ProcessInv(root)
      /\ target = root /\ disturbed = {} /\ (root \notin ToSet(todo) => LinesOf(root))
  BY <1>1 DEF LayerInv
<1>3. todo \in Seq(File) /\ Known(graph) \subseteq File /\ Known(graph') \subseteq File /\ f \in ToSet(todo)
  <2>1. f \in ToSet(todo)
    BY <1>1 DEF PassInv, ToSet
  <2> QED
    BY <2>1 DEF PassInv, IInv, Shape, GraphType, IsDict, Known
<1>4. /\ graph'.relationships = Rebuilt(f).relationships /\ Known(graph') = Known(graph)
      /\ \A x \in File : AnalyzedIn(graph', x) <=> AnalyzedIn(graph, x)
  <2> DEFINE g == Rebuilt(f)
  <2>1. GraphType(g) /\ g.file_metadata = graph.file_metadata /\ graph' = SetPending(g, f, FALSE)
    BY <1>1, RebuiltMetadata
  <2> HIDE DEF g
  <2>2. /\ graph'.relationships = g.relationships /\ Known(graph') = Known(g)
        /\ \A x \in File : AnalyzedIn(graph', x) <=> AnalyzedIn(g, x)
    BY <2>1, FlagFacts
  <2>3. Known(g) = Known(graph) /\ \A x : AnalyzedIn(g, x) <=> AnalyzedIn(graph, x)
    BY <2>1 DEF Known, AnalyzedIn
  <2> QED
    BY <2>2, <2>3 DEF g
<1>5. /\ f \in Known(graph) /\ GetSet(copy, f) = Wanted(f)
      /\ f \notin DOMAIN builder => Wanted(f) = {}
  BY <1>1, <1>2, <1>3 DEF ProcessInv, StatusInv
<1>6. DOMAIN graph'.relationships =
        {r \in DOMAIN graph.relationships : r.src # f} \cup BuildRelationshipsForFile(builder, f)
  <2>1. CASE f \in DOMAIN builder
    BY <1>4, <2>1, RebuiltFacts
  <2>2. CASE f \notin DOMAIN builder
    <3>1. Rebuilt(f) = graph /\ BuildRelationshipsForFile(builder, f) = {}
      BY <2>2 DEF Rebuilt, BuildRelationshipsForFile
    <3>2. DependenciesOf(graph, f) = {}
      BY <1>2, <2>2, NothingWanted
    <3> QED
      BY <1>4, <3>1, <3>2 DEF DependenciesOf
  <2> QED
    BY <2>1, <2>2
<1>7. /\ \A r \in BuildRelationshipsForFile(builder, f) :
           /\ r.src = f /\ r.site = "import" /\ r.tgt \in Wanted(f)
           /\ r.tgt \in DOMAIN builder => r.detail = builder[r.tgt].line
      /\ {r.tgt : r \in BuildRelationshipsForFile(builder, f)} = Wanted(f)
  <2>1. CASE f \in DOMAIN builder
    <3>1. builder[f].imports = Wanted(f)
      BY <1>2, <2>1 DEF BuilderInv
    <3> QED
      BY <2>1, <3>1, BuiltLayered
  <2>2. CASE f \notin DOMAIN builder
    BY <1>5, <2>2 DEF BuildRelationshipsForFile
  <2> QED
    BY <2>1, <2>2
<1>8. EdgeInv'
  <2> SUFFICES ASSUME NEW r \in DOMAIN graph'.relationships
               PROVE  /\ r.src \in Known(graph') /\ r.site = "import"
                      /\ AnalyzedIn(graph', r.tgt) => r.detail = builder[r.tgt].line
    BY <1>1 DEF EdgeInv
  <2>1. AnalyzedIn(graph', r.tgt) => AnalyzedIn(graph, r.tgt) /\ r.tgt \in DOMAIN builder
    <3> SUFFICES ASSUME AnalyzedIn(graph', r.tgt)
                 PROVE  AnalyzedIn(graph, r.tgt) /\ r.tgt \in DOMAIN builder
      OBVIOUS
    <3>1. r.tgt \in Known(graph') /\ r.tgt \in File
      BY <1>3 DEF AnalyzedIn, Known
    <3> QED
      BY <1>2, <1>4, <3>1 DEF StatusInv
  <2>2. CASE r \in DOMAIN graph.relationships
    BY <1>2, <1>4, <2>1, <2>2 DEF EdgeInv
  <2>3. CASE r \in BuildRelationshipsForFile(builder, f)
    BY <1>4, <1>5, <1>7, <2>1, <2>3
  <2> QED
    BY <1>6, <2>2, <2>3
<1>9. /\ CopyInv(layer, root)' /\ ProcessInv(root)'
      /\ \A x \in ToSet(todo) : x = f \/ x \in ToSet(todo')
      /\ Wanted(f) \cap ToSet(todo') = {} /\ f \in Reached(copy, root)
  <2>1. Full(graph', f)
    <3>1. DependenciesOf(graph', f) = BuildRelationshipsForFile(builder, f)
      BY <1>6, <1>7 DEF DependenciesOf
    <3> QED
      BY <1>7, <3>1 DEF Full
  <2>2. ASSUME NEW x \in Known(graph) \ ToSet(todo), Full(graph, x) PROVE Full(graph', x)
    <3>1. DependenciesOf(graph', x) = DependenciesOf(graph, x)
      BY <1>3, <1>6, <1>7, <2>2 DEF DependenciesOf
    <3> QED
      BY <2>2, <3>1 DEF Full
  <2> QED
    BY <1>1, <1>2, <1>3, <1>4, <2>1, <2>2, ProcessStep
<1>10. ASSUME root \notin ToSet(todo') PROVE LinesOf(root)'
  <2>1. CASE root # f
    <3>1. LinesOf(root)
      BY <1>2, <1>9, <1>10, <2>1
    <3>2. DependenciesOf(graph', root) \subseteq DependenciesOf(graph, root)
      BY <1>6, <1>7, <2>1 DEF DependenciesOf
    <3> QED
      BY <1>1, <3>1, <3>2 DEF LinesOf
  <2>2. CASE root = f
    <3>1. \A r \in DependenciesOf(graph', root) : r \in BuildRelationshipsForFile(builder, f)
      BY <1>6, <2>2 DEF DependenciesOf
    <3>2. ASSUME NEW t \in Wanted(f), disk[t].kind = "ok"
          PROVE  t \in DOMAIN builder /\ builder[t].line = disk[t].line
      BY <1>1, <1>5, <1>9, <3>2, ImportsThrough
    <3> QED
      BY <1>1, <1>7, <3>1, <3>2 DEF LinesOf
  <2> QED
    BY <2>1, <2>2
<1>11. LayeredDisk' /\ BuilderInv' /\ StatusInv'
  BY <1>1, <1>2, <1>3, <1>4 DEF LayeredDisk, BuilderInv, StatusInv
<1> QED
  BY <1>1, <1>2, <1>8, <1>9, <1>10, <1>11 DEF LayerInv

(***************************************************************************)
(* When nothing is left to process, the walk over the index as it now is   *)
(* passes every known file, and stops at files that import nothing or lie  *)
(* below all that is known: an edge the old walk did not take leaves a     *)
(* file in the lowest layer that was known.                                *)
(***************************************************************************)
LEMMA LayerFinish ==
  ASSUME NEW layer, NEW root, InLayers(layer, root), IInv, PassInv, LayerInv(layer, root), Finish
  PROVE  LayerInv(layer, root)'
<1>1. /\ pc = "process" /\ pc' = "answer" /\ todo = <<>> /\ ToSet(todo) = {}
      /\ UNCHANGED <<disk, touched, graph, builder, target, copy, stale, disturbed>>
  BY DEF Finish, read, ToSet
<1>2. LayeredDisk /\ BuilderInv /\ EdgeInv /\ StatusInv /\ CopyInv(layer, root) /\ ProcessInv(root)
      /\ target = root /\ disturbed = {} /\ LinesOf(root)
  BY <1>1 DEF LayerInv
<1> DEFINE index == graph.dependencies
<1>3. \A f \in Known(graph) : Full(graph, f)
  BY <1>1, <1>2 DEF ProcessInv
<1>4. /\ Downward(index) /\ \A f \in Known(graph) : GetSet(index, f) = Wanted(f)
      /\ \A f \in File : GetSet(index, f) # {} => f \in Known(graph)
  BY <1>2, <1>3, SettledIndex
<1>5. /\ root \in File /\ Known(graph) \subseteq File
      /\ \A x \in File : layer[x] \in Nat
      /\ \A x \in File : \A t \in Wanted(x) : t \in File /\ layer[t] = layer[x] + 1
  BY LayerFacts DEF Known, IInv, Shape, GraphType, IsDict
<1> HIDE DEF index
<1>6. /\ \A x \in Reached(index, root) : GetSet(index, x) \subseteq Reached(index, root)
      /\ root \in Reached(index, root)
      /\ \A y \in Reached(index, root) \ {root} : \E z \in Reached(index, root) : y \in GetSet(index, z)
      /\ \A y \in Reached(index, root) : y \in File
  BY <1>4, <1>5, DownwardFacts DEF Reached
<1>7. /\ \A x \in Reached(copy, root) : GetSet(copy, x) \subseteq Reached(copy, root)
      /\ \A S : root \in S /\ (\A x \in S : GetSet(copy, x) \subseteq S) => Reached(copy, root) \subseteq S
      /\ \A y \in Reached(copy, root) \ {root} : \E z \in Reached(copy, root) : y \in GetSet(copy, z)
      /\ \A y \in Reached(copy, root) : y \in File /\ layer[y] >= layer[root]
      /\ root \in Reached(copy, root)
  BY <1>2, <1>5, DownwardFacts DEF CopyInv, Reached
<1>8. Known(graph) \subseteq Reached(copy, root)
  BY <1>2 DEF CopyInv
<1>9. Reached(copy, root) \subseteq Reached(index, root)
  <2>1. ASSUME NEW x \in Reached(index, root) PROVE GetSet(copy, x) \subseteq Reached(index, root)
    <3>1. x \in File
      BY <1>6
    <3>2. CASE GetSet(copy, x) = {}
      BY <3>2
    <3>3. CASE GetSet(copy, x) # {}
      <4>1. x \in Known(graph) /\ GetSet(copy, x) = Wanted(x)
        BY <1>2, <3>1, <3>3 DEF CopyInv, Downward
      <4> QED
        BY <1>4, <1>6, <4>1
    <3> QED
      BY <3>2, <3>3
  <2> QED
    BY <1>6, <1>7, <2>1
<1>10. ASSUME NEW x \in Reached(copy, root) PROVE x \in Known(graph) \/ Wanted(x) = {}
  <2>1. x \in Walked
    BY <1>2, <1>7 DEF Walked, Reached
  <2>2. x \in Due => Unreadable(x)
    BY <1>1, <1>2 DEF PassInv
  <2>3. Unreadable(x) => Wanted(x) = {}
    BY <1>2, <1>7 DEF Unreadable, LayeredDisk
  <2>4. x \notin Due => x \in Known(graph)
    BY <1>2, <1>7, <2>1 DEF Due, NeedsAnalysis, LayeredDisk, Known
  <2> QED
    BY <2>2, <2>3, <2>4
<1>11. ASSUME NEW f \in Reached(index, root), NEW h \in Known(graph), layer[f] <= layer[h],
              f \notin Reached(copy, root)
       PROVE  FALSE
  <2>1. PICK z \in Reached(index, root) : f \in GetSet(index, z)
    BY <1>6, <1>7, <1>11
  <2>2. z \in Known(graph) /\ f \in Wanted(z) /\ z \in File
    BY <1>4, <1>6, <2>1
  <2>3. layer[f] = layer[z] + 1 /\ layer[z] \in Nat /\ z \in Reached(copy, root) /\ layer[z] >= layer[root]
    BY <1>5, <1>7, <1>8, <2>2
  <2>4. h \in Reached(copy, root) /\ h \in File /\ layer[h] \in Nat /\ layer[root] \in Nat
    BY <1>5, <1>8
  <2>5. h # root
    BY <1>11, <2>3, <2>4
  <2>6. PICK k \in Reached(copy, root) : h \in GetSet(copy, k)
    BY <1>7, <2>4, <2>5
  <2>7. k \in File /\ GetSet(copy, k) # {} /\ h \in Wanted(k)
    BY <1>2, <1>7, <2>6 DEF CopyInv, Downward
  <2>8. layer[h] = layer[k] + 1 /\ layer[k] \in Nat
    BY <1>5, <2>7
  <2>9. layer[z] <= layer[k]
    BY <1>11, <2>3, <2>4, <2>8
  <2>10. GetSet(copy, z) = Wanted(z)
    BY <1>2, <2>3, <2>7, <2>9 DEF CopyInv
  <2> QED
    BY <1>7, <1>11, <2>2, <2>3, <2>10
<1>12. Settled(layer, root)
  BY <1>3, <1>8, <1>9, <1>10, <1>11 DEF Settled, index
<1>13. Settled(layer, root)' /\ LinesOf(root)'
  BY <1>1, <1>2, <1>12 DEF Settled, LinesOf
<1>14. LayeredDisk' /\ BuilderInv' /\ EdgeInv' /\ StatusInv'
  BY <1>1, <1>2 DEF LayeredDisk, BuilderInv, EdgeInv, StatusInv
<1> QED
  BY <1>1, <1>2, <1>13, <1>14 DEF LayerInv

-----------------------------------------------------------------------------
\* Every step keeps the invariant of a layered project.
LEMMA LayerNext ==
  ASSUME NEW layer, NEW root, InLayers(layer, root), IInv, FreshInv, PassInv,
         LayerInv(layer, root), [Next]_vars
  PROVE  LayerInv(layer, root)'
<1>1. ASSUME NEW f \in File, NEW c \in Contents[f], Edit(f, c) PROVE LayerInv(layer, root)'
  BY <1>1, LayerEdit
<1>2. ASSUME NEW t \in ReadTargets, StartRead(t) PROVE LayerInv(layer, root)'
  <2>1. t = root
    BY LayerFacts
  <2> QED
    BY <1>2, <2>1 DEF StartRead, LayerInv, LayeredDisk, BuilderInv, EdgeInv, StatusInv, Settled
<1>3. CASE Resolve
  BY <1>3, LayerResolve
<1>4. CASE Schedule
  BY <1>4, LayerSchedule
<1>5. CASE Finish
  BY <1>5, LayerFinish
<1>6. CASE Answer
  BY <1>6 DEF Answer, LayerInv, LayeredDisk, BuilderInv, EdgeInv, StatusInv, Settled
<1>7. ASSUME NEW f \in File, Unlink(f) PROVE LayerInv(layer, root)'
  BY <1>7, LayerUnlink DEF PassInv
<1>8. ASSUME NEW f \in File, Extract(f) PROVE LayerInv(layer, root)'
  BY <1>8 DEF Extract, read, LayerInv, LayeredDisk, BuilderInv, EdgeInv, StatusInv, CopyInv,
              Downward, ProcessInv, LinesOf
<1>9. ASSUME NEW f \in File, Store(f) PROVE LayerInv(layer, root)'
  <2>1. IInv'
    BY <1>9, StoreKeeps
  <2> QED
    BY <1>9, <2>1, StoreSummary, LayerStoreData, LayerStoreNothing
<1>10. ASSUME NEW f \in File, Rebuild(f) PROVE LayerInv(layer, root)'
  <2>1. IInv'
    BY <1>10, RebuildKeeps
  <2> QED
    BY <1>10, <2>1, LayerRebuild
<1>11. CASE UNCHANGED vars
  BY <1>11 DEF vars, LayerInv, LayeredDisk, BuilderInv, EdgeInv, StatusInv, Settled, CopyInv,
               Downward, UnlinkInv, ProcessInv, LinesOf
<1> QED
  BY <1>1, <1>2, <1>3, <1>4, <1>5, <1>6, <1>7, <1>8, <1>9, <1>10, <1>11 DEF Next, Service

\* The three invariants of a calm project and the one of its layers, together.
LEMMA LayerHolds ==
  ASSUME NEW layer, NEW root, InLayers(layer, root)
  PROVE  Spec => [](IInv /\ FreshInv /\ PassInv /\ LayerInv(layer, root))
<1>1. Calm
  BY LayerFacts
<1> DEFINE All == IInv /\ FreshInv /\ PassInv /\ LayerInv(layer, root)
<1>2. Init => All
  BY <1>1, InitIInv, FreshInit, PassInit, LayerInit
<1>3. All /\ [Next]_vars => All'
  BY <1>1, NextIInv, FreshNext, PassNext, LayerNext
<1> QED
  BY <1>2, <1>3, PTL DEF Spec

(***************************************************************************)
(* In a project in layers whose edits fall between reads, a read of a file *)
(* that parses, as its imports do, answers with exactly the relationships  *)
(* that the disk calls for, with the lines the imports define their        *)
(* symbols on now: however many files there are, whatever was edited since *)
(* the last read, and whichever files were unlinked, marked, stored or     *)
(* rebuilt on the way.                                                     *)
(***************************************************************************)
THEOREM ResolverAnswerMatches ==
  ASSUME NEW layer, NEW root, InLayers(layer, root)
  PROVE  Spec => []AnswerMatchesDisk
<1>1. IInv /\ FreshInv /\ PassInv /\ LayerInv(layer, root) => AnswerMatchesDisk
  <2> SUFFICES ASSUME IInv, PassInv, LayerInv(layer, root), pc = "answer", disturbed = {}, Parses(target),
                      \A t \in disk[target].imports : disk[t] = Absent \/ Parses(t)
               PROVE  DependenciesOf(graph, target) = EdgesOnDisk(target)
    BY DEF AnswerMatchesDisk
  <2>1. LayeredDisk /\ EdgeInv /\ Settled(layer, root) /\ target = root /\ LinesOf(root) /\ root \in File
    BY LayerFacts DEF LayerInv
  <2>2. root \in Known(graph)
    <3>1. root \in Walked /\ ~ Unreadable(root)
      BY <2>1 DEF Walked, Unreadable, Parses
    <3> QED
      BY <2>1, <3>1 DEF PassInv, Due, NeedsAnalysis, LayeredDisk, Known
  <2>3. disk[root].imports = Wanted(root) /\ {r.tgt : r \in DependenciesOf(graph, root)} = Wanted(root)
    BY <2>1, <2>2 DEF LayeredDisk, Settled, Full
  <2>4. \A t \in Wanted(root) : disk[t] # Absent /\ disk[t].kind = "ok" /\ ResolveModule(disk, t) = t
    BY <2>1, <2>3, LayerFacts DEF LayeredDisk, Parses, ResolveModule
  <2> DEFINE edge(t) == [src |-> root, tgt |-> t, site |-> "import", detail |-> disk[t].line]
  <2>5. EdgesOnDisk(root) = {edge(t) : t \in Wanted(root)}
    BY <2>3, <2>4 DEF EdgesOnDisk
  <2>6. ASSUME NEW r \in DependenciesOf(graph, root) PROVE r = edge(r.tgt)
    <3>1. r \in DOMAIN graph.relationships /\ r.src = root
      BY DEF DependenciesOf
    <3>2. r \in Rel /\ r.site = "import"
      BY <2>1, <3>1 DEF EdgeInv, IInv, Shape, GraphType, IsDict
    <3>3. r.detail = disk[r.tgt].line
      BY <2>1, <2>3, <2>4 DEF LinesOf
    <3> QED
      BY <3>1, <3>2, <3>3 DEF Rel
  <2> HIDE DEF edge
  <2>7. DependenciesOf(graph, root) = {edge(t) : t \in Wanted(root)}
    BY <2>3, <2>6
  <2> QED
    BY <2>1, <2>5, <2>7
<1> QED
  BY <1>1, LayerHolds, PTL

(***************************************************************************)
(* In such a project no relationship is lost between reads, not even one   *)
(* that a pending flag would still announce.                               *)
(***************************************************************************)
THEOREM ResolverLosesNoEdge ==
  ASSUME NEW layer, NEW root, InLayers(layer, root)
  PROVE  Spec => []NoEdgeSilentlyLost
<1>1. LayerInv(layer, root) => NoEdgeSilentlyLost
  <2> SUFFICES ASSUME LayerInv(layer, root), pc = "idle", NEW f \in File, Analyzed(f)
               PROVE  {r.tgt : r \in DependenciesOf(graph, f)} = builder[f].imports
    BY DEF NoEdgeSilentlyLost
  <2>1. StatusInv /\ BuilderInv /\ Settled(layer, root)
    BY DEF LayerInv
  <2>2. f \in Known(graph) /\ AnalyzedIn(graph, f)
    BY DEF Analyzed, AnalyzedIn, Known
  <2> QED
    BY <2>1, <2>2 DEF StatusInv, BuilderInv, Settled, Full
<1> QED
  BY <1>1, LayerHolds, PTL

-----------------------------------------------------------------------------
\* what a behaviour of Algorithms gives the sort is one of its inputs
SortInput == /\ task = "none" => input = Nothing
             /\ Ready("sort") => Given \in Orders

LEMMA SortInputHolds == AlgorithmsSpec => []SortInput
<1>1. AlgorithmsInit => SortInput
  BY DEF AlgorithmsInit, SortInput, Ready
<1>2. SortInput /\ [AlgorithmsNext]_algorithmsVars => SortInput'
  <2> SUFFICES ASSUME SortInput, [AlgorithmsNext]_algorithmsVars PROVE SortInput'
    OBVIOUS
  <2> USE DEF SortInput, Ready, Given
  <2>1. CASE Choose
    BY <2>1 DEF Choose, Tasks, Nothing
  <2>2. CASE Sort
    BY <2>2 DEF Sort, On, Nothing
  <2>3. CASE \/ Assemble \/ FindExtent \/ Suppress \/ ResolveImport \/ Name
             \/ Summarize \/ Measure \/ Analyze
    BY <2>3 DEF Assemble, FindExtent, Suppress, ResolveImport, Name, Summarize, Measure, Analyze, On, Nothing
  <2>4. CASE UNCHANGED algorithmsVars
    BY <2>4 DEF algorithmsVars
  <2> QED
    BY <2>1, <2>2, <2>3, <2>4 DEF AlgorithmsNext
<1> QED
  BY <1>1, <1>2, PTL DEF AlgorithmsSpec

(***************************************************************************)
(* Every set of files and every dependency index given is sorted right:    *)
(* each file once, dependencies first, what waits for a cycle last.        *)
(***************************************************************************)
THEOREM OrdersAreRight == AlgorithmsSpec => []OrderIsRight
<1>1. SortInput => OrderIsRight
  <2> SUFFICES ASSUME SortInput, Ready("sort") PROVE SortIsRight(Given.files, Given.index)
    BY DEF OrderIsRight
  <2>1. Given \in Orders
    BY DEF SortInput
  <2> DEFINE files == Given.files   index == Given.index
  <2>2. files \subseteq File /\ IsFiniteSet(UNION {index[k] : k \in DOMAIN index})
    BY <2>1, OrdersAssumption
  <2> HIDE DEF files, index
  <2>3. SortIsRight(files, index)
    BY <2>2, SortCorrect
  <2> QED
    BY <2>3 DEF files, index
<1> QED
  BY <1>1, SortInputHolds, PTL
=============================================================================
