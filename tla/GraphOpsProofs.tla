--------------------------- MODULE GraphOpsProofs ---------------------------
(***************************************************************************)
(* What each operator of GraphOps does to a graph, for every set of files, *)
(* markers, sites and details: it keeps a well-formed graph well formed    *)
(* and its indices exact; and what those of AnalyzerOps give of the        *)
(* content of a file.  The state machines that own a graph cite these      *)
(* lemmas, action by action.                                               *)
(***************************************************************************)
EXTENDS AnalyzerOps, FiniteSetTheorems, TLAPS

\* The empty graph is well formed and its indices are exact.
LEMMA EmptyGraphGood == GraphType(EmptyGraph) /\ Mirror(EmptyGraph)
BY DEF GraphType, IsDict, EmptyGraph, EmptyDict, Mirror, ForwardIndexExact,
       ReverseIndexExact, GetSet, Linked

\* The ends of a relationship are a file and a target.
LEMMA RelEnds == \A r \in Rel : r.src \in File /\ r.tgt \in Target
BY DEF Rel

\* Adding a relationship keeps the graph well formed.
LEMMA AddType ==
  ASSUME NEW g, GraphType(g), NEW r \in Rel
  PROVE  GraphType(AddRelationship(g, r))
<1> DEFINE h == AddRelationship(g, r)
<1>1. h.relationships = Put(g.relationships, r, Copies(g, r) + 1)
      /\ h.dependencies = Put(g.dependencies, r.src, GetSet(g.dependencies, r.src) \cup {r.tgt})
      /\ h.dependents = Put(g.dependents, r.tgt, GetSet(g.dependents, r.tgt) \cup {r.src})
      /\ h.file_metadata = g.file_metadata
  BY DEF AddRelationship
<1>2. IsDict(h.relationships, Rel, Nat \ {0})
  BY <1>1 DEF GraphType, IsDict, Put, Copies
<1>3. IsDict(h.dependencies, File, SUBSET Target)
  BY <1>1, RelEnds DEF GraphType, IsDict, Put, GetSet
<1>4. IsDict(h.dependents, Target, SUBSET File)
  BY <1>1, RelEnds DEF GraphType, IsDict, Put, GetSet
<1>5. IsDict(h.file_metadata, File, Meta)
  BY <1>1 DEF GraphType
<1>6. h = [relationships |-> h.relationships, dependencies |-> h.dependencies,
           dependents |-> h.dependents, file_metadata |-> h.file_metadata]
  BY DEF AddRelationship
<1> QED
  BY <1>2, <1>3, <1>4, <1>5, <1>6 DEF GraphType

\* Adding a relationship keeps both indices exact.
LEMMA AddMirror ==
  ASSUME NEW g, GraphType(g), Mirror(g), NEW r \in Rel
  PROVE  Mirror(AddRelationship(g, r))
<1> DEFINE h == AddRelationship(g, r)
<1>1. \A f \in File, t \in Target :
        Linked(h, f, t) <=> Linked(g, f, t) \/ (r.src = f /\ r.tgt = t)
  BY DEF AddRelationship, Linked, Put, GraphType, IsDict
<1>2. \A f \in File, t \in Target :
        t \in GetSet(h.dependencies, f) <=> t \in GetSet(g.dependencies, f) \/ (r.src = f /\ r.tgt = t)
  BY RelEnds DEF AddRelationship, Put, GetSet
<1>3. \A f \in File, t \in Target :
        f \in GetSet(h.dependents, t) <=> f \in GetSet(g.dependents, t) \/ (r.src = f /\ r.tgt = t)
  BY RelEnds DEF AddRelationship, Put, GetSet
<1> QED
  BY <1>1, <1>2, <1>3 DEF Mirror, ForwardIndexExact, ReverseIndexExact

\* Removing everything about a file keeps the graph well formed.
LEMMA RemoveForFileType ==
  ASSUME NEW g, GraphType(g), NEW f \in File
  PROVE  GraphType(RemoveRelationshipsForFile(g, f))
<1> DEFINE h == RemoveRelationshipsForFile(g, f)
<1>1. IsDict(h.relationships, Rel, Nat \ {0})
  BY DEF RemoveRelationshipsForFile, GraphType, IsDict, Keep, Restrict
<1>2. IsDict(h.dependencies, File, SUBSET Target)
  BY DEF RemoveRelationshipsForFile, GraphType, IsDict, Del, DiscardFromAll, Restrict
<1>3. IsDict(h.dependents, Target, SUBSET File)
  BY DEF RemoveRelationshipsForFile, GraphType, IsDict, Del, DiscardFromAll, Restrict
<1>4. IsDict(h.file_metadata, File, Meta)
  BY DEF RemoveRelationshipsForFile, GraphType, IsDict, Del, Restrict
<1>5. h = [relationships |-> h.relationships, dependencies |-> h.dependencies,
           dependents |-> h.dependents, file_metadata |-> h.file_metadata]
  BY DEF RemoveRelationshipsForFile
<1> QED
  BY <1>1, <1>2, <1>3, <1>4, <1>5 DEF GraphType

\* Removing everything about a file keeps both indices exact.
LEMMA RemoveForFileMirror ==
  ASSUME NEW g, GraphType(g), Mirror(g), NEW x \in File
  PROVE  Mirror(RemoveRelationshipsForFile(g, x))
<1> DEFINE h == RemoveRelationshipsForFile(g, x)
<1>1. \A f \in File, t \in Target :
        Linked(h, f, t) <=> Linked(g, f, t) /\ f # x /\ t # x
  BY DEF RemoveRelationshipsForFile, Linked, Keep, Restrict
<1>2. \A f \in File, t \in Target :
        t \in GetSet(h.dependencies, f) <=> t \in GetSet(g.dependencies, f) /\ f # x /\ t # x
  BY DEF RemoveRelationshipsForFile, Del, DiscardFromAll, GetSet, Restrict
<1>3. \A f \in File, t \in Target :
        f \in GetSet(h.dependents, t) <=> f \in GetSet(g.dependents, t) /\ f # x /\ t # x
  BY DEF RemoveRelationshipsForFile, Del, DiscardFromAll, GetSet, Restrict
<1> QED
  BY <1>1, <1>2, <1>3 DEF Mirror, ForwardIndexExact, ReverseIndexExact

\* Removing the outgoing relationships of a file keeps the graph well formed.
LEMMA RemoveOutgoingType ==
  ASSUME NEW g, GraphType(g), NEW f \in File
  PROVE  /\ GraphType(RemoveOutgoingRelationships(g, f))
         /\ IsDict(Outgoing(g, f), Rel, Nat \ {0})
<1> DEFINE h == RemoveOutgoingRelationships(g, f)
<1>1. IsDict(h.relationships, Rel, Nat \ {0})
  BY DEF RemoveOutgoingRelationships, GraphType, IsDict, Keep, Restrict
<1>2. IsDict(h.dependencies, File, SUBSET Target)
  BY DEF RemoveOutgoingRelationships, GraphType, IsDict, Del, Restrict
<1>3. IsDict(h.dependents, Target, SUBSET File)
  BY DEF RemoveOutgoingRelationships, GraphType, IsDict
<1>4. IsDict(h.file_metadata, File, Meta)
  BY DEF RemoveOutgoingRelationships, GraphType
<1>5. h = [relationships |-> h.relationships, dependencies |-> h.dependencies,
           dependents |-> h.dependents, file_metadata |-> h.file_metadata]
  BY DEF RemoveOutgoingRelationships
<1>6. IsDict(Outgoing(g, f), Rel, Nat \ {0})
  BY DEF Outgoing, GraphType, IsDict, Keep, Restrict
<1> QED
  BY <1>1, <1>2, <1>3, <1>4, <1>5, <1>6 DEF GraphType

(***************************************************************************)
(* Removing the outgoing relationships of a file keeps both indices exact. *)
(* The reverse index is repaired from the forward one, so this is where    *)
(* the forward index being exact is needed.                                *)
(***************************************************************************)
LEMMA RemoveOutgoingMirror ==
  ASSUME NEW g, GraphType(g), Mirror(g), NEW x \in File
  PROVE  Mirror(RemoveOutgoingRelationships(g, x))
<1> DEFINE h == RemoveOutgoingRelationships(g, x)
<1>1. \A f \in File, t \in Target : Linked(h, f, t) <=> Linked(g, f, t) /\ f # x
  BY DEF RemoveOutgoingRelationships, Linked, Keep, Restrict
<1>2. \A f \in File, t \in Target :
        t \in GetSet(h.dependencies, f) <=> t \in GetSet(g.dependencies, f) /\ f # x
  BY DEF RemoveOutgoingRelationships, Del, GetSet, Restrict
<1>3. ASSUME NEW f \in File, NEW t \in Target
      PROVE  f \in GetSet(h.dependents, t) <=> f \in GetSet(g.dependents, t) /\ f # x
  <2>1. x \in GetSet(g.dependents, t) <=> t \in GetSet(g.dependencies, x)
    BY DEF Mirror, ForwardIndexExact, ReverseIndexExact
  <2> QED
    BY <2>1 DEF RemoveOutgoingRelationships, GetSet
<1> QED
  BY <1>1, <1>2, <1>3 DEF Mirror, ForwardIndexExact, ReverseIndexExact

\* Adding a list of relationships keeps the graph well formed.
LEMMA AddAllType ==
  ASSUME NEW g, GraphType(g), NEW bag, IsDict(bag, Rel, Nat \ {0})
  PROVE  GraphType(AddAll(g, bag))
<1> DEFINE h == AddAll(g, bag)
<1>1. IsDict(h.relationships, Rel, Nat \ {0})
  BY DEF AddAll, GraphType, IsDict, Copies
<1>2. IsDict(h.dependencies, File, SUBSET Target)
  BY RelEnds DEF AddAll, GraphType, IsDict, GetSet
<1>3. IsDict(h.dependents, Target, SUBSET File)
  BY RelEnds DEF AddAll, GraphType, IsDict, GetSet
<1>4. IsDict(h.file_metadata, File, Meta)
  BY DEF AddAll, GraphType
<1>5. h = [relationships |-> h.relationships, dependencies |-> h.dependencies,
           dependents |-> h.dependents, file_metadata |-> h.file_metadata]
  BY DEF AddAll
<1> QED
  BY <1>1, <1>2, <1>3, <1>4, <1>5 DEF GraphType

\* Adding a list of relationships keeps both indices exact.
LEMMA AddAllMirror ==
  ASSUME NEW g, GraphType(g), Mirror(g), NEW bag, IsDict(bag, Rel, Nat \ {0})
  PROVE  Mirror(AddAll(g, bag))
<1> DEFINE h == AddAll(g, bag)
           added(f, t) == \E r \in DOMAIN bag : r.src = f /\ r.tgt = t
<1>1. \A f \in File, t \in Target : Linked(h, f, t) <=> Linked(g, f, t) \/ added(f, t)
  BY DEF AddAll, Linked
<1>2. \A f \in File, t \in Target :
        t \in GetSet(h.dependencies, f) <=> t \in GetSet(g.dependencies, f) \/ added(f, t)
  BY DEF AddAll, GetSet
<1>3. \A f \in File, t \in Target :
        f \in GetSet(h.dependents, t) <=> f \in GetSet(g.dependents, t) \/ added(f, t)
  BY DEF AddAll, GetSet
<1> QED
  BY <1>1, <1>2, <1>3 DEF Mirror, ForwardIndexExact, ReverseIndexExact

\* Metadata calls keep the graph well formed and touch no index.
LEMMA MetadataType ==
  ASSUME NEW g, GraphType(g), NEW f \in File, NEW m \in Meta
  PROVE  GraphType(SetFileMetadata(g, f, m))
BY DEF SetFileMetadata, GraphType, IsDict, Put

\* Setting or clearing a pending flag keeps the graph well formed.
LEMMA PendingType ==
  ASSUME NEW g, GraphType(g), NEW f \in File, NEW flag \in BOOLEAN
  PROVE  GraphType(SetPending(g, f, flag))
<1>1. CASE f \in DOMAIN g.file_metadata
  <2>1. [g.file_metadata[f] EXCEPT !.pending = flag] \in Meta
    BY <1>1 DEF GraphType, IsDict, Meta
  <2> QED
    BY <1>1, <2>1, MetadataType DEF SetPending, SetFileMetadata
<1>2. CASE f \notin DOMAIN g.file_metadata
  BY <1>2 DEF SetPending
<1> QED
  BY <1>1, <1>2

\* Indices and relationships alone decide whether the indices are exact.
LEMMA MirrorReadsNoMetadata ==
  ASSUME NEW g, NEW h, Mirror(g),
         g.relationships = h.relationships, g.dependencies = h.dependencies,
         g.dependents = h.dependents
  PROVE  Mirror(h)
BY DEF Mirror, ForwardIndexExact, ReverseIndexExact, Linked

\* What is left of a list of relationships is as it was in it.
LEMMA KeepFacts ==
  ASSUME NEW bag, NEW kept
  PROVE  /\ DOMAIN Keep(bag, kept) = DOMAIN bag \cap kept
         /\ \A r \in DOMAIN Keep(bag, kept) : Keep(bag, kept)[r] = bag[r]
BY DEF Keep, Restrict

\* What del d[k] leaves of a dictionary.
LEMMA DelFacts ==
  ASSUME NEW d, NEW k
  PROVE  /\ DOMAIN Del(d, k) = DOMAIN d \ {k}
         /\ \A x \in DOMAIN Del(d, k) : Del(d, k)[x] = d[x]
BY DEF Del, Restrict

\* Both ways of taking a file out of the graph leave other files' relationships only.
LEMMA CutFacts ==
  ASSUME NEW g, NEW f,
         NEW h \in {RemoveOutgoingRelationships(g, f), RemoveRelationshipsForFile(g, f)}
  PROVE  /\ DOMAIN h.relationships \subseteq DOMAIN g.relationships
         /\ \A r \in DOMAIN h.relationships :
              h.relationships[r] = g.relationships[r] /\ r.src # f
<1> DEFINE others == {r \in DOMAIN g.relationships : r.src # f}
<1>1. PICK kept \in SUBSET others : h.relationships = Keep(g.relationships, kept)
  <2>1. CASE h = RemoveOutgoingRelationships(g, f)
    <3>1. h.relationships = Keep(g.relationships, others)
      BY <2>1 DEF RemoveOutgoingRelationships
    <3> QED
      BY <3>1
  <2>2. CASE h = RemoveRelationshipsForFile(g, f)
    <3> DEFINE apart == {r \in DOMAIN g.relationships : r.src # f /\ r.tgt # f}
    <3>1. h.relationships = Keep(g.relationships, apart)
      BY <2>2 DEF RemoveRelationshipsForFile
    <3> QED
      BY <3>1
  <2> QED
    BY <2>1, <2>2
<1> DEFINE left == Keep(g.relationships, kept)
<1>2. DOMAIN left = DOMAIN g.relationships \cap kept
      /\ \A r \in DOMAIN left : left[r] = g.relationships[r]
  BY KeepFacts
<1> HIDE DEF left
<1>3. h.relationships = left
  BY <1>1 DEF left
<1> QED
  BY <1>2, <1>3
-----------------------------------------------------------------------------
\* What is extracted from a file is nothing, invalid, or symbol data.
LEMMA ExtractType ==
  ASSUME NEW d \in [File -> Disk], NEW f \in File
  PROVE  ExtractFileSymbols(d, f) \in {NoData, Invalid} \cup Symbols
<1>1. CASE d[f] = Absent
  BY <1>1 DEF ExtractFileSymbols
<1>2. CASE d[f] # Absent
  <2>1. d[f] \in [kind : {"ok", "broken", "unreadable"}, imports : SUBSET File, line : Detail]
    BY <1>2 DEF Disk
  <2>2. {ResolveModule(d, t) : t \in d[f].imports} \subseteq Target
    BY <2>1, AnalyzerAssumption DEF ResolveModule, Target
  <2> QED
    BY <1>2, <2>1, <2>2 DEF ExtractFileSymbols, Invalid, Symbols
<1> QED
  BY <1>1, <1>2

\* Adding symbol data keeps the builder well formed.
LEMMA AddFileDataType ==
  ASSUME NEW bld, IsDict(bld, File, Symbols), NEW f \in File, NEW s \in Symbols
  PROVE  /\ IsDict(AddFileData(bld, f, s), File, Symbols)
         /\ f \in DOMAIN AddFileData(bld, f, s)
         /\ AddFileData(bld, f, s)[f] = s
         /\ \A k \in DOMAIN bld \ {f} : k \in DOMAIN AddFileData(bld, f, s)
                                        /\ AddFileData(bld, f, s)[k] = bld[k]
BY DEF IsDict, AddFileData, Put

(***************************************************************************)
(* Loading the dependencies keeps the builder well formed, and changes     *)
(* nothing it already knew.                                                *)
(***************************************************************************)
LEMMA EnsureLoadedType ==
  ASSUME NEW bld, IsDict(bld, File, Symbols), NEW d \in [File -> Disk],
         NEW imports \in SUBSET Target
  PROVE  LET known == EnsureDependencySymbolsLoaded(bld, d, imports)
         IN /\ IsDict(known, File, Symbols)
            /\ \A k \in DOMAIN bld : k \in DOMAIN known /\ known[k] = bld[k]
<1> DEFINE usable(t) == /\ t \notin Marker
                        /\ t \notin DOMAIN bld
                        /\ ExtractFileSymbols(d, t) # NoData
                        /\ ExtractFileSymbols(d, t).valid
           loaded == {t \in imports : usable(t)}
           known == [k \in DOMAIN bld \cup loaded |->
                       IF k \in loaded THEN ExtractFileSymbols(d, k) ELSE bld[k]]
<1>1. EnsureDependencySymbolsLoaded(bld, d, imports) = known
  BY DEF EnsureDependencySymbolsLoaded
<1>2. \A k \in loaded : k \in File /\ k \notin DOMAIN bld /\ ExtractFileSymbols(d, k) \in Symbols
  BY ExtractType DEF Target, Invalid
<1> HIDE DEF loaded
<1>3. IsDict(known, File, Symbols)
  BY <1>2 DEF IsDict
<1>4. \A k \in DOMAIN bld : k \in DOMAIN known /\ known[k] = bld[k]
  BY <1>2
<1> QED
  BY <1>1, <1>3, <1>4

\* What the builder derives for f starts in f, once per import.
LEMMA BuiltRelationships ==
  ASSUME NEW bld, IsDict(bld, File, Symbols), NEW f \in DOMAIN bld
  PROVE  LET rels == BuildRelationshipsForFile(bld, f)
         IN /\ rels \subseteq Rel
            /\ \A r \in rels : r.src = f /\ r.tgt \in bld[f].imports
            /\ \A r, q \in rels : r.tgt = q.tgt => r = q
<1>1. f \in File /\ bld[f] \in Symbols
  BY DEF IsDict
<1>2. \A t \in bld[f].imports : t \in Target /\ GetTargetLine(bld, t) \in Detail
  BY <1>1, AnalyzerAssumption DEF IsDict, GetTargetLine, Symbols
<1> QED
  BY <1>1, <1>2, AnalyzerAssumption DEF BuildRelationshipsForFile, Rel

\* A set of relationships, each once, is a bag of relationships.
LEMMA OnceType ==
  ASSUME NEW rels, rels \subseteq Rel
  PROVE  IsDict(Once(rels), Rel, Nat \ {0}) /\ DOMAIN Once(rels) = rels
BY DEF IsDict, Once

\* What is stored for a file that was analyzed, or that does not parse.
LEMMA NewMetadataType == \A s \in {"analyzed", "unparseable"} : NewMetadata(s) \in Meta
<1>1. {"analyzed", "unparseable"} \subseteq Status
  BY AnalyzerAssumption
<1> QED
  BY <1>1 DEF NewMetadata, Meta

(***************************************************************************)
(* What is extracted from a file that exists: the imports that resolve to  *)
(* files are among those it names, and exist.                              *)
(***************************************************************************)
LEMMA ExtractByKind ==
  ASSUME NEW d \in [File -> Disk], NEW f \in File, d[f] # Absent
  PROVE  LET s == ExtractFileSymbols(d, f)
         IN /\ d[f].kind \in {"ok", "broken", "unreadable"}
            /\ d[f].kind = "unreadable" => s = NoData
            /\ d[f].kind = "broken" => s = Invalid
            /\ d[f].kind = "ok" =>
                 /\ s \in Symbols /\ s.line = d[f].line
                 /\ \A t \in s.imports \cap File : t \in d[f].imports /\ d[t] # Absent
<1> DEFINE resolved == {ResolveModule(d, t) : t \in d[f].imports}
           s == ExtractFileSymbols(d, f)
<1>1. d[f] \in [kind : {"ok", "broken", "unreadable"}, imports : SUBSET File, line : Detail]
  BY DEF Disk
<1>2. /\ resolved \subseteq Target
      /\ \A t \in resolved \cap File : t \in d[f].imports /\ d[t] # Absent
  BY <1>1, AnalyzerAssumption DEF ResolveModule, Target
<1>3. d[f].kind = "unreadable" => s = NoData
  BY DEF ExtractFileSymbols
<1>4. d[f].kind = "broken" => s = Invalid
  BY DEF ExtractFileSymbols
<1>5. d[f].kind = "ok" => s = [valid |-> TRUE, imports |-> resolved, line |-> d[f].line]
  BY DEF ExtractFileSymbols
<1> HIDE DEF resolved, s
<1>6. ASSUME d[f].kind = "ok"
      PROVE  /\ s \in Symbols /\ s.line = d[f].line
             /\ \A t \in s.imports \cap File : t \in d[f].imports /\ d[t] # Absent
  <2>1. s = [valid |-> TRUE, imports |-> resolved, line |-> d[f].line]
    BY <1>5, <1>6
  <2>2. d[f].line \in Detail
    BY <1>1
  <2>3. s \in Symbols
    BY <1>2, <2>1, <2>2 DEF Symbols
  <2>4. s.imports = resolved /\ s.line = d[f].line
    BY <2>1
  <2> QED
    BY <1>2, <2>3, <2>4
<1> QED
  BY <1>1, <1>3, <1>4, <1>6 DEF s

\* Of the files that exist, only an unreadable one gives no symbol data.
LEMMA ExtractNothing ==
  ASSUME NEW d \in [File -> Disk], NEW f \in File, d[f] # Absent,
         ExtractFileSymbols(d, f) = NoData
  PROVE  d[f].kind = "unreadable"
<1>1. NoData # Invalid /\ NoData \notin Symbols
  BY AnalyzerAssumption
<1> QED
  BY <1>1, ExtractByKind

\* Setting metadata replaces one attribute of the graph.
LEMMA SetMetadataFacts ==
  ASSUME NEW g, GraphType(g), NEW f, NEW m
  PROVE  LET h == SetFileMetadata(g, f, m)
         IN /\ h.relationships = g.relationships
            /\ DOMAIN h.file_metadata = DOMAIN g.file_metadata \cup {f}
            /\ h.file_metadata[f] = m
            /\ \A x \in DOMAIN g.file_metadata \ {f} : h.file_metadata[x] = g.file_metadata[x]
<1>1. /\ SetFileMetadata(g, f, m).file_metadata = Put(g.file_metadata, f, m)
      /\ SetFileMetadata(g, f, m).relationships = g.relationships
  BY DEF SetFileMetadata, GraphType
<1> QED
  BY <1>1 DEF Put

\* The analysis of a file that gave nothing, or does not parse.
LEMMA TwoPhaseFails ==
  ASSUME NEW g, GraphType(g), NEW bld, NEW d, NEW f \in File, NEW s \in {NoData, Invalid}
  PROVE  LET result == AnalyzeFileTwoPhase(g, bld, d, f, s)
         IN /\ result.builder = bld
            /\ GraphType(result.graph)
            /\ s = NoData  => result.graph = g
            /\ s # NoData => result.graph = SetFileMetadata(g, f, NewMetadata("unparseable"))
<1>1. CASE s = NoData
  BY <1>1 DEF AnalyzeFileTwoPhase
<1>2. CASE s # NoData
  <2>1. ~ s.valid
    BY <1>2 DEF Invalid
  <2>2. AnalyzeFileTwoPhase(g, bld, d, f, s)
          = [graph |-> SetFileMetadata(g, f, NewMetadata("unparseable")), builder |-> bld,
             ok |-> FALSE]
    BY <1>2, <2>1 DEF AnalyzeFileTwoPhase, MarkUnparseable
  <2>3. GraphType(SetFileMetadata(g, f, NewMetadata("unparseable")))
    BY MetadataType, NewMetadataType
  <2> QED
    BY <1>2, <2>2, <2>3
<1> QED
  BY <1>1, <1>2

(***************************************************************************)
(* The analysis of a file that parses: its symbol data is added and that   *)
(* of the others kept, its metadata is new and that of the others kept,    *)
(* and every relationship is an old one of other files or a new one of it. *)
(***************************************************************************)
LEMMA TwoPhaseStores ==
  ASSUME NEW g, GraphType(g), NEW bld, IsDict(bld, File, Symbols),
         NEW d \in [File -> Disk], NEW f \in File, NEW s \in Symbols
  PROVE  LET result == AnalyzeFileTwoPhase(g, bld, d, f, s)
         IN /\ GraphType(result.graph) /\ IsDict(result.builder, File, Symbols)
            /\ f \in DOMAIN result.builder /\ result.builder[f] = s
            /\ \A k \in DOMAIN bld \ {f} : k \in DOMAIN result.builder
                                           /\ result.builder[k] = bld[k]
            /\ DOMAIN result.graph.file_metadata = DOMAIN g.file_metadata \cup {f}
            /\ result.graph.file_metadata[f] = NewMetadata("analyzed")
            /\ \A x \in DOMAIN g.file_metadata \ {f} :
                 result.graph.file_metadata[x] = g.file_metadata[x]
            /\ \A r \in DOMAIN result.graph.relationships :
                 \/ r \in DOMAIN g.relationships /\ r.src # f /\ r.tgt # f
                 \/ r.src = f /\ r.tgt \in s.imports
<1> DEFINE added  == AddFileData(bld, f, s)
           known  == EnsureDependencySymbolsLoaded(added, d, s.imports)
           cut    == RemoveRelationshipsForFile(g, f)
           rels   == BuildRelationshipsForFile(known, f)
           built  == AddAll(cut, Once(rels))
           stored == SetFileMetadata(built, f, NewMetadata("analyzed"))
<1>1. s # NoData /\ s.valid /\ s.imports \in SUBSET Target
  BY AnalyzerAssumption DEF Symbols
<1>2. AnalyzeFileTwoPhase(g, bld, d, f, s) = [graph |-> stored, builder |-> known, ok |-> TRUE]
  BY <1>1 DEF AnalyzeFileTwoPhase, StoreRelationships
<1>3. /\ IsDict(known, File, Symbols) /\ f \in DOMAIN known /\ known[f] = s
      /\ \A k \in DOMAIN bld \ {f} : k \in DOMAIN known /\ known[k] = bld[k]
  <2>1. /\ IsDict(added, File, Symbols) /\ f \in DOMAIN added /\ added[f] = s
        /\ \A k \in DOMAIN bld \ {f} : k \in DOMAIN added /\ added[k] = bld[k]
    BY AddFileDataType
  <2> HIDE DEF added
  <2>2. /\ IsDict(known, File, Symbols)
        /\ \A k \in DOMAIN added : k \in DOMAIN known /\ known[k] = added[k]
    BY <1>1, <2>1, EnsureLoadedType
  <2> QED
    BY <2>1, <2>2
<1> HIDE DEF known
<1>4. rels \subseteq Rel /\ \A r \in rels : r.src = f /\ r.tgt \in s.imports
  BY <1>3, BuiltRelationships
<1> HIDE DEF rels
<1>5. IsDict(Once(rels), Rel, Nat \ {0}) /\ DOMAIN Once(rels) = rels
  BY <1>4, OnceType
<1>6. GraphType(cut)
  BY RemoveForFileType
<1>7. /\ DOMAIN cut.file_metadata = DOMAIN g.file_metadata \ {f}
      /\ \A x \in DOMAIN cut.file_metadata : cut.file_metadata[x] = g.file_metadata[x]
  <2> DEFINE left == Del(g.file_metadata, f)
  <2>1. cut.file_metadata = left
    BY DEF RemoveRelationshipsForFile
  <2>2. DOMAIN left = DOMAIN g.file_metadata \ {f}
        /\ \A x \in DOMAIN left : left[x] = g.file_metadata[x]
    BY DelFacts
  <2> HIDE DEF cut, left
  <2> QED
    BY <2>1, <2>2
<1>8. \A r \in DOMAIN cut.relationships : r \in DOMAIN g.relationships /\ r.src # f /\ r.tgt # f
  <2> DEFINE apart == {r \in DOMAIN g.relationships : r.src # f /\ r.tgt # f}
             kept  == Keep(g.relationships, apart)
  <2>1. cut.relationships = kept
    BY DEF RemoveRelationshipsForFile
  <2>2. DOMAIN kept = DOMAIN g.relationships \cap apart
    BY KeepFacts
  <2> HIDE DEF cut, kept
  <2> QED
    BY <2>1, <2>2
<1> HIDE DEF cut
<1>9. GraphType(built)
  BY <1>5, <1>6, AddAllType
<1>10. /\ DOMAIN built.relationships = DOMAIN cut.relationships \cup rels
       /\ built.file_metadata = cut.file_metadata
  BY <1>5 DEF AddAll
<1> HIDE DEF built
<1>11. GraphType(stored)
  BY <1>9, MetadataType, NewMetadataType
<1>12. /\ stored.relationships = built.relationships
       /\ DOMAIN stored.file_metadata = DOMAIN built.file_metadata \cup {f}
       /\ stored.file_metadata[f] = NewMetadata("analyzed")
       /\ \A x \in DOMAIN built.file_metadata \ {f} :
            stored.file_metadata[x] = built.file_metadata[x]
  BY <1>9, SetMetadataFacts
<1> HIDE DEF stored
<1>13. /\ DOMAIN stored.file_metadata = DOMAIN g.file_metadata \cup {f}
       /\ \A x \in DOMAIN g.file_metadata \ {f} : stored.file_metadata[x] = g.file_metadata[x]
  BY <1>7, <1>10, <1>12
<1>14. \A r \in DOMAIN stored.relationships :
         \/ r \in DOMAIN g.relationships /\ r.src # f /\ r.tgt # f
         \/ r.src = f /\ r.tgt \in s.imports
  BY <1>4, <1>8, <1>10, <1>12
<1> QED
  BY <1>2, <1>3, <1>11, <1>12, <1>13, <1>14

-----------------------------------------------------------------------------
\* Induction over the naturals, for a set of them.
LEMMA SetInduction ==
  ASSUME NEW S, 0 \in S, \A n \in Nat : n \in S => n + 1 \in S
  PROVE  Nat \subseteq S
<1> DEFINE less == OpToRel(<, Nat)
<1> SUFFICES ASSUME Nat \ S # {} PROVE FALSE
  OBVIOUS
<1>1. PICK x \in Nat \ S : \A y \in Nat \ S : ~ (<<y, x>> \in less)
  BY NatLessThanWellFounded, WFMin
<1>2. \A y \in Nat \ S : ~ (y < x)
  BY <1>1 DEF OpToRel
<1>3. x # 0 /\ x - 1 \in Nat
  OBVIOUS
<1> QED
  BY <1>2, <1>3

(***************************************************************************)
(* A function defined by recursion over the naturals exists: what its      *)
(* definition chooses does satisfy it.                                     *)
(***************************************************************************)
LEMMA RecursionOnNat ==
  ASSUME NEW D, NEW start \in D, NEW step \in [D -> D]
  PROVE  \E f \in [Nat -> D] : f = [n \in Nat |-> IF n = 0 THEN start ELSE step[f[n - 1]]]
<1> DEFINE Upto(n, g) == /\ g \in [0..n -> D] /\ g[0] = start
                         /\ \A i \in 0..n - 1 : g[i + 1] = step[g[i]]
<1>1. \A n \in Nat : \E g : Upto(n, g)
  <2> DEFINE S == {n \in Nat : \E g : Upto(n, g)}
  <2>1. 0 \in S
    <3>1. Upto(0, [i \in 0..0 |-> start])
      OBVIOUS
    <3> QED
      BY <3>1
  <2>2. ASSUME NEW n \in Nat, n \in S PROVE n + 1 \in S
    <3>1. PICK g : Upto(n, g)
      BY <2>2
    <3> DEFINE h == [i \in 0..n + 1 |-> IF i = n + 1 THEN step[g[n]] ELSE g[i]]
    <3>2. h \in [0..n + 1 -> D]
      BY <3>1
    <3>3. h[0] = start
      BY <3>1
    <3>4. ASSUME NEW i \in 0..n PROVE h[i + 1] = step[h[i]]
      BY <3>1
    <3>5. Upto(n + 1, h)
      BY SMTT(30), <3>2, <3>3, <3>4
    <3>6. n + 1 \in Nat
      BY <2>2
    <3> HIDE DEF Upto, h
    <3> QED
      BY <3>5, <3>6
  <2> HIDE DEF S
  <2>3. Nat \subseteq S
    BY <2>1, <2>2, SetInduction
  <2> QED
    BY <2>3 DEF S
<1>2. ASSUME NEW m \in Nat, NEW n \in Nat, NEW g, NEW h, Upto(m, g), Upto(n, h), m <= n
      PROVE  g[m] = h[m]
  <2> DEFINE S == {i \in Nat : i <= m => g[i] = h[i]}
  <2>1. 0 \in S
    <3>1. g[0] = start /\ h[0] = start
      BY <1>2
    <3> HIDE DEF Upto
    <3> QED
      BY <3>1
  <2>2. ASSUME NEW i \in Nat, i \in S PROVE i + 1 \in S
    <3> SUFFICES ASSUME i + 1 <= m PROVE g[i + 1] = h[i + 1]
      OBVIOUS
    <3>1. i \in 0..m - 1 /\ i \in 0..n - 1
      BY <1>2
    <3> QED
      BY <1>2, <2>2, <3>1
  <2> HIDE DEF S
  <2>3. Nat \subseteq S
    BY <2>1, <2>2, SetInduction
  <2> QED
    BY <2>3 DEF S
<1> DEFINE Some(n) == CHOOSE g : Upto(n, g)
           f == [n \in Nat |-> Some(n)[n]]
<1>3. \A n \in Nat : Upto(n, Some(n))
  BY <1>1
<1> HIDE DEF Some
<1>4. f \in [Nat -> D] /\ f[0] = start
  BY <1>3
<1>5. ASSUME NEW n \in Nat PROVE f[n + 1] = step[f[n]]
  <2>1. Some(n + 1)[n + 1] = step[Some(n + 1)[n]]
    BY <1>3
  <2>2. Some(n)[n] = Some(n + 1)[n]
    <3>1. Upto(n, Some(n)) /\ Upto(n + 1, Some(n + 1)) /\ n <= n + 1
      BY <1>3
    <3> HIDE DEF Upto
    <3> QED
      BY <1>2, <3>1
  <2> QED
    BY <2>1, <2>2
<1>6. f = [n \in Nat |-> IF n = 0 THEN start ELSE step[f[n - 1]]]
  <2>1. ASSUME NEW n \in Nat PROVE f[n] = IF n = 0 THEN start ELSE step[f[n - 1]]
    <3>1. CASE n = 0
      BY <1>4, <3>1
    <3>2. CASE n # 0
      <4>1. n - 1 \in Nat /\ (n - 1) + 1 = n
        BY <3>2
      <4> HIDE DEF f
      <4> QED
        BY <1>5, <3>2, <4>1
    <3> QED
      BY <3>1, <3>2
  <2>2. f \in [Nat -> D]
    BY <1>4
  <2> HIDE DEF f
  <2> QED
    BY <2>1, <2>2
<1> QED
  BY <1>4, <1>6

(***************************************************************************)
(* get_transitive_dependencies gives the least set closed under the index, *)
(* without the file it starts from: as long as a layer finds something new *)
(* the traversal has found one more key than it took layers, so after as   *)
(* many layers as there are keys to find nothing is left.                  *)
(***************************************************************************)
LEMMA TraversalReaches ==
  ASSUME NEW index, NEW f, IsFiniteSet(UNION {index[k] : k \in DOMAIN index})
  PROVE  LET found == {f} \cup TransitiveDependencies(index, f)
         IN /\ f \notin TransitiveDependencies(index, f)
            /\ TransitiveDependencies(index, f) \subseteq UNION {index[k] : k \in DOMAIN index}
            /\ \A x \in found : GetSet(index, x) \subseteq found
            /\ \A S : f \in S /\ (\A x \in S : GetSet(index, x) \subseteq S) => found \subseteq S
<1> DEFINE U == UNION {index[k] : k \in DOMAIN index}
           layer(seen) == seen \cup UNION {GetSet(index, x) : x \in seen}
           runs(v) == v = [n \in Nat |-> IF n = 0 THEN {f} ELSE layer(v[n - 1])]
           visited == CHOOSE v : runs(v)
           size == Cardinality(U)
           D == SUBSET ({f} \cup U)
<1>1. TransitiveDependencies(index, f) = visited[size] \ {f}
  BY DEF TransitiveDependencies
<1>2. \A x : GetSet(index, x) \subseteq U
  BY DEF GetSet
<1>3. IsFiniteSet(U) /\ size \in Nat
  BY FS_CardinalityType
<1> HIDE DEF U
<1>4. \A seen \in D : layer(seen) \in D
  BY <1>2
<1>5. \A seen : seen \subseteq layer(seen)
        /\ \A x \in seen : GetSet(index, x) \subseteq layer(seen)
  OBVIOUS
<1>6. \A seen, S : seen \subseteq S /\ (\A x \in S : GetSet(index, x) \subseteq S)
        => layer(seen) \subseteq S
  OBVIOUS
<1>7. {f} \in D
  OBVIOUS
<1>8. \A seen \in D : seen \subseteq {f} \cup U
  OBVIOUS
<1> HIDE DEF layer, D
<1>9. runs(visited)
  <2> DEFINE step == [seen \in D |-> layer(seen)]
  <2>1. step \in [D -> D]
    BY <1>4
  <2>2. \A seen \in D : step[seen] = layer(seen)
    OBVIOUS
  <2> HIDE DEF step
  <2>3. PICK v \in [Nat -> D] : v = [n \in Nat |-> IF n = 0 THEN {f} ELSE step[v[n - 1]]]
    <3> DEFINE start == {f}
    <3>1. start \in D
      BY <1>7
    <3> HIDE DEF start
    <3>2. \E v \in [Nat -> D] : v = [n \in Nat |-> IF n = 0 THEN start ELSE step[v[n - 1]]]
      BY <2>1, <3>1, RecursionOnNat
    <3> QED
      BY <3>2 DEF start
  <2>4. \A n \in Nat : n # 0 => step[v[n - 1]] = layer(v[n - 1])
    BY <2>2
  <2>5. runs(v)
    BY <2>3, <2>4
  <2> HIDE DEF runs
  <2> QED
    BY <2>5
<1>10. visited[0] = {f} /\ \A n \in Nat : visited[n + 1] = layer(visited[n])
  <2> HIDE DEF visited
  <2>1. visited = [n \in Nat |-> IF n = 0 THEN {f} ELSE layer(visited[n - 1])]
    BY <1>9
  <2>2. ASSUME NEW n \in Nat PROVE visited[n + 1] = layer(visited[n])
    <3>1. n + 1 \in Nat /\ n + 1 # 0 /\ (n + 1) - 1 = n
      OBVIOUS
    <3> QED
      BY <2>1, <3>1
  <2>3. visited[0] = {f}
    BY <2>1
  <2> QED
    BY <2>2, <2>3
<1> HIDE DEF visited
<1>11. \A n \in Nat : visited[n] \in D /\ f \in visited[n]
  <2> DEFINE P == {n \in Nat : visited[n] \in D /\ f \in visited[n]}
  <2>1. 0 \in P
    BY <1>7, <1>10
  <2>2. ASSUME NEW n \in Nat, n \in P PROVE n + 1 \in P
    BY <1>4, <1>5, <1>10, <2>2
  <2> HIDE DEF P
  <2>3. Nat \subseteq P
    BY <2>1, <2>2, SetInduction
  <2> QED
    BY <2>3 DEF P
<1>12. \A n \in Nat : IsFiniteSet(visited[n] \ {f}) /\ visited[n] \ {f} \subseteq U
                      /\ Cardinality(visited[n] \ {f}) \in Nat
  <2> SUFFICES ASSUME NEW n \in Nat
               PROVE  IsFiniteSet(visited[n] \ {f}) /\ visited[n] \ {f} \subseteq U
                      /\ Cardinality(visited[n] \ {f}) \in Nat
    OBVIOUS
  <2> DEFINE others == visited[n] \ {f}
  <2>1. others \in SUBSET U
    BY <1>8, <1>11
  <2> HIDE DEF others
  <2>2. IsFiniteSet(others)
    BY <1>3, <2>1, FS_Subset
  <2>3. Cardinality(others) \in Nat
    BY <2>2, FS_CardinalityType
  <2> QED
    BY <2>1, <2>2, <2>3 DEF others
<1> DEFINE closed(n) == \A x \in visited[n] : GetSet(index, x) \subseteq visited[n]
<1>13. \A n \in Nat : closed(n) \/ Cardinality(visited[n] \ {f}) >= n
  <2> DEFINE P == {n \in Nat : closed(n) \/ Cardinality(visited[n] \ {f}) >= n}
  <2>1. 0 \in P
    <3>1. Cardinality(visited[0] \ {f}) \in Nat
      BY <1>12
    <3> QED
      BY <3>1
  <2>2. ASSUME NEW n \in Nat, n \in P PROVE n + 1 \in P
    <3>1. CASE visited[n + 1] = visited[n]
      <4>1. closed(n)
        BY <1>5, <1>10, <3>1
      <4> QED
        BY <3>1, <4>1
    <3>2. CASE visited[n + 1] # visited[n]
      <4>1. ~ closed(n)
        BY <1>5, <1>6, <1>10, <3>2
      <4>2. Cardinality(visited[n] \ {f}) >= n
        BY <2>2, <4>1
      <4>3. PICK x \in visited[n + 1] : x \notin visited[n]
        <5>1. visited[n] \subseteq visited[n + 1]
          BY <1>5, <1>10
        <5> QED
          BY <3>2, <5>1
      <4> DEFINE before == visited[n] \ {f}
                 after  == visited[n + 1] \ {f}
      <4>4. x # f /\ x \notin before /\ before \cup {x} \subseteq after
        BY <1>5, <1>10, <1>11, <4>3
      <4>5. /\ IsFiniteSet(before) /\ IsFiniteSet(after)
            /\ Cardinality(before) \in Nat /\ Cardinality(after) \in Nat
        BY <1>12
      <4>6. Cardinality(before) >= n
        BY <4>2
      <4> HIDE DEF before, after
      <4>7. IsFiniteSet(before \cup {x}) /\ Cardinality(before \cup {x}) = Cardinality(before) + 1
        BY <4>4, <4>5, FS_AddElement
      <4>8. Cardinality(before \cup {x}) <= Cardinality(after)
        BY <4>4, <4>5, FS_Subset
      <4>9. Cardinality(after) >= n + 1
        BY <4>5, <4>6, <4>7, <4>8
      <4> QED
        BY <4>9 DEF after
    <3> QED
      BY <3>1, <3>2
  <2> HIDE DEF P, closed
  <2>3. Nat \subseteq P
    BY <2>1, <2>2, SetInduction
  <2> QED
    BY <2>3 DEF P
<1>14. closed(size)
  <2> SUFFICES ASSUME Cardinality(visited[size] \ {f}) >= size PROVE closed(size)
    BY <1>3, <1>13
  <2> DEFINE others == visited[size] \ {f}
  <2>1. others \in SUBSET U /\ Cardinality(others) \in Nat /\ Cardinality(others) >= size
    BY <1>3, <1>12
  <2> HIDE DEF others
  <2>2. Cardinality(others) <= size
    BY <1>3, <2>1, FS_Subset
  <2>3. others = U
    BY <1>3, <2>1, <2>2, FS_Subset
  <2> QED
    BY <1>2, <2>3 DEF others
<1>15. ASSUME NEW S, f \in S, \A x \in S : GetSet(index, x) \subseteq S
       PROVE  \A n \in Nat : visited[n] \subseteq S
  <2> DEFINE P == {n \in Nat : visited[n] \subseteq S}
  <2>1. 0 \in P
    BY <1>10, <1>15
  <2>2. ASSUME NEW n \in Nat, n \in P PROVE n + 1 \in P
    BY <1>6, <1>10, <1>15, <2>2
  <2> HIDE DEF P
  <2>3. Nat \subseteq P
    BY <2>1, <2>2, SetInduction
  <2> QED
    BY <2>3 DEF P
<1>16. {f} \cup TransitiveDependencies(index, f) = visited[size]
  BY <1>1, <1>3, <1>11
<1>17. TransitiveDependencies(index, f) \subseteq U
  BY <1>1, <1>3, <1>12
<1> QED
  BY <1>1, <1>3, <1>14, <1>15, <1>16, <1>17 DEF U
=============================================================================
