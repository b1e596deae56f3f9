------------------------ MODULE ProjectAnalysisProofs ------------------------
(***************************************************************************)
(* What holds of ProjectAnalysis for every project, every edit, every      *)
(* order of the files and every limit of the symbol cache: cached and kept *)
(* symbol data is that of the files' contents, and an analysis ends with   *)
(* the lines of its end.                                                   *)
(***************************************************************************)
EXTENDS ProjectAnalysis, GraphOpsProofs

Phase1 == {"extract", "get", "parse", "record"}

\* its symbol data is in the builder, its relationships are not yet stored
InFlight(f) ==
  \/ pc \in Phase1 /\ Contains(mapped, f)
  \/ pc = "build" /\ Contains(todo, f)

IsGraph(g) ==
  g = [relationships |-> g.relationships, dependencies |-> g.dependencies,
       dependents |-> g.dependents, file_metadata |-> g.file_metadata]

Shape ==
  /\ disk \in [File -> Disk]
  /\ IsGraph(graph) /\ DOMAIN graph.file_metadata \subseteq File
  /\ DOMAIN cached \subseteq File
  /\ mapped \in Seq(File)
  /\ pc = "build" => todo \in Seq(File)
  /\ pc = "record" => Head(todo) \in File

\* the symbol cache, at any moment
CacheInv == \A f \in DOMAIN cached \ unseen : IsValid(f) => Describes(cached[f], f)

\* what was just extracted
DataInv ==
  pc = "record" /\ data # NoData /\ data.valid /\ Head(todo) \notin unseen =>
    Describes(data, Head(todo))

\* what phase 2 is going to stamp
FlightInv ==
  \A f \in File \ unseen : InFlight(f) => f \in DOMAIN builder /\ Describes(builder[f], f)

\* what was stamped
FreshInv ==
  \A f \in DOMAIN graph.file_metadata \ (touched \cup unseen) :
    disk[f] # Absent /\ graph.file_metadata[f].status = "analyzed" =>
      f \in DOMAIN builder /\ Describes(builder[f], f)

\* the relationships phase 2 has stored
LinesInv ==
  \A r \in DOMAIN graph.relationships :
    pc \in {"idle", "build"} /\ Contains(mapped, r.src)
      /\ ~ (pc = "build" /\ Contains(todo, r.src))
    => r.detail = GetTargetLine(builder, r.tgt)

\* symbol data is followed from the disk to the stamp
IInv == Shape /\ CacheInv /\ DataInv /\ FlightInv /\ FreshInv /\ LinesInv

-----------------------------------------------------------------------------
\* Contains, of the two ways the lists of files change.
LEMMA ContainsAppend ==
  ASSUME NEW s \in Seq(File), NEW e \in File, NEW x
  PROVE  Contains(Append(s, e), x) <=> Contains(s, x) \/ x = e
BY DEF Contains

\* The files left when the first is done.
LEMMA ContainsTail ==
  ASSUME NEW s \in Seq(File), s # <<>>, NEW x
  PROVE  Contains(s, x) <=> x = Head(s) \/ Contains(Tail(s), x)
<1>1. ASSUME NEW i \in 1..Len(s), s[i] = x, x # Head(s) PROVE Contains(Tail(s), x)
  <2>1. i - 1 \in 1..Len(Tail(s)) /\ Tail(s)[i - 1] = s[i]
    BY <1>1
  <2> QED
    BY <1>1, <2>1 DEF Contains
<1>2. ASSUME NEW i \in 1..Len(Tail(s)), Tail(s)[i] = x PROVE Contains(s, x)
  <2>1. i + 1 \in 1..Len(s) /\ s[i + 1] = x
    BY <1>2
  <2> QED
    BY <2>1 DEF Contains
<1>3. x = Head(s) => Contains(s, x)
  BY DEF Contains
<1> QED
  BY <1>1, <1>2, <1>3 DEF Contains

\* Valid symbol data just extracted describes the content it was extracted from.
LEMMA ExtractDescribes ==
  ASSUME disk \in [File -> Disk], NEW f \in File,
         ExtractFileSymbols(disk, f) # NoData, ExtractFileSymbols(disk, f).valid
  PROVE  Describes(ExtractFileSymbols(disk, f), f)
<1>1. disk[f] # Absent
  BY DEF ExtractFileSymbols
<1>2. disk[f].kind = "ok"
  BY <1>1, ExtractByKind DEF Invalid
<1> QED
  BY <1>1, <1>2, ExtractByKind DEF Describes

\* What storing the analysis of f does to the graph.
LEMMA StoredFacts ==
  ASSUME NEW f \in File, Shape
  PROVE  LET g == Stored(f)
         IN /\ IsGraph(g)
            /\ DOMAIN g.file_metadata = DOMAIN graph.file_metadata \cup {f}
            /\ \A x \in DOMAIN graph.file_metadata \ {f} :
                 g.file_metadata[x] = graph.file_metadata[x]
            /\ \A r \in DOMAIN g.relationships :
                 \/ r \in DOMAIN graph.relationships /\ r.src # f
                 \/ r.detail = GetTargetLine(builder, r.tgt)
<1> DEFINE rels  == BuildRelationshipsForFile(builder, f)
           cut   == RemoveRelationshipsForFile(graph, f)
           built == AddAll(cut, Once(rels))
           left  == Del(graph.file_metadata, f)
           g     == Stored(f)
<1>1. DOMAIN left = DOMAIN graph.file_metadata \ {f}
      /\ \A x \in DOMAIN left : left[x] = graph.file_metadata[x]
  BY DelFacts
<1>2. \A r \in DOMAIN cut.relationships : r \in DOMAIN graph.relationships /\ r.src # f
  BY CutFacts
<1>3. cut.file_metadata = left
  BY DEF RemoveRelationshipsForFile
<1> HIDE DEF left, cut
<1>4. DOMAIN Once(rels) = rels
  BY DEF Once
<1>5. IsGraph(built) /\ built.file_metadata = left
      /\ DOMAIN built.relationships = DOMAIN cut.relationships \cup rels
  BY <1>3, <1>4 DEF AddAll, IsGraph
<1>6. g = [built EXCEPT !.file_metadata = Put(built.file_metadata, f, NewMetadata("analyzed"))]
  BY DEF Stored, StoreRelationships, SetFileMetadata, cut
<1> HIDE DEF built, g
<1>7. IsGraph(g) /\ g.file_metadata = Put(left, f, NewMetadata("analyzed"))
      /\ g.relationships = built.relationships
  BY <1>5, <1>6 DEF IsGraph
<1>8. \A r \in rels : r.detail = GetTargetLine(builder, r.tgt)
  BY DEF BuildRelationshipsForFile
<1> HIDE DEF rels
<1>9. DOMAIN g.file_metadata = DOMAIN graph.file_metadata \cup {f}
      /\ \A x \in DOMAIN graph.file_metadata \ {f} :
           g.file_metadata[x] = graph.file_metadata[x]
  BY <1>1, <1>7 DEF Put
<1> QED
  BY <1>2, <1>5, <1>7, <1>8, <1>9 DEF g

-----------------------------------------------------------------------------
\* Nothing is cached, kept or stored at first.
LEMMA InitIInv == Init => IInv
BY DEF Init, IInv, Shape, IsGraph, CacheInv, DataInv, FlightInv, FreshInv, LinesInv, InFlight,
       Phase1, EmptyGraph, EmptyDict, Contains

\* An edit disturbs one file, which is then touched, or unseen, and not cached as valid.
LEMMA EditKeeps ==
  ASSUME IInv, NEW f \in File, NEW c \in Contents[f], Edit(f, c)
  PROVE  IInv'
<1> USE DEF Edit
<1>1. disk' \in [File -> Disk] /\ \A g \in File : g # f => disk'[g] = disk[g]
  BY AnalysisAssumption DEF IInv, Shape
<1>2. ASSUME NEW g \in File, g # f, NEW sd, Describes(sd, g) PROVE Describes(sd, g)'
  BY <1>1, <1>2 DEF Describes
<1>3. Shape'
  BY <1>1 DEF IInv, Shape, IsGraph
<1>4. CacheInv'
  <2> SUFFICES ASSUME NEW g \in DOMAIN cached, g \notin unseen', IsValid(g)'
               PROVE  Describes(cached[g], g)'
    BY DEF CacheInv
  <2>1. g \in File /\ g # f
    BY DEF IInv, Shape, IsValid
  <2>2. IsValid(g) /\ g \notin unseen
    BY <1>1, <2>1 DEF IsValid
  <2> QED
    BY <1>2, <2>1, <2>2 DEF IInv, CacheInv
<1>5. DataInv'
  <2> SUFFICES ASSUME pc = "record", data # NoData, data.valid, Head(todo) \notin unseen'
               PROVE  Describes(data, Head(todo))'
    BY DEF DataInv
  <2>1. Head(todo) \in File /\ Head(todo) # f
    BY DEF IInv, Shape, ReadNotStamped
  <2>2. Head(todo) \notin unseen
    BY <2>1
  <2> QED
    BY <1>2, <2>1, <2>2 DEF IInv, DataInv
<1>6. FlightInv'
  <2> SUFFICES ASSUME NEW g \in File, g \notin unseen', InFlight(g)
               PROVE  g \in DOMAIN builder /\ Describes(builder[g], g)'
    BY DEF FlightInv, InFlight
  <2>1. g # f
    BY DEF InFlight, ReadNotStamped, Phase1
  <2>2. g \notin unseen
    BY <2>1
  <2> QED
    BY <1>2, <2>1, <2>2 DEF IInv, FlightInv
<1>7. FreshInv'
  <2> SUFFICES ASSUME NEW g \in DOMAIN graph.file_metadata, g \notin touched' \cup unseen',
                      disk'[g] # Absent, graph.file_metadata[g].status = "analyzed"
               PROVE  g \in DOMAIN builder /\ Describes(builder[g], g)'
    BY DEF FreshInv
  <2>1. g # f
    <3>1. disk'[f] = c
      BY DEF IInv, Shape
    <3> QED
      BY <3>1
  <2>2. g \in File /\ g \notin touched \cup unseen /\ disk[g] # Absent
    BY <1>1, <2>1 DEF IInv, Shape
  <2> QED
    BY <1>2, <2>1, <2>2 DEF IInv, FreshInv
<1>8. LinesInv'
  BY DEF IInv, LinesInv
<1> QED
  BY <1>3, <1>4, <1>5, <1>6, <1>7, <1>8 DEF IInv

\* Describes reads the disk alone.
LEMMA SameDisk ==
  ASSUME disk' = disk, NEW sd, NEW f
  PROVE  Describes(sd, f)' <=> Describes(sd, f)
BY DEF Describes

\* An analysis starts with nothing in flight.
LEMMA AnalyzeDirectoryKeeps == ASSUME IInv, AnalyzeDirectory PROVE IInv'
<1> USE DEF AnalyzeDirectory, files, symbols
<1>1. \A x : ~ Contains(<<>>, x)
  BY DEF Contains
<1>2. Shape'
  BY DEF IInv, Shape, IsGraph
<1>3. CacheInv' /\ DataInv' /\ FreshInv'
  BY DEF IInv, CacheInv, DataInv, FreshInv, IsValid, Describes
<1>4. FlightInv' /\ LinesInv'
  BY <1>1 DEF FlightInv, InFlight, LinesInv
<1> QED
  BY <1>2, <1>3, <1>4 DEF IInv

\* Looking a file up in the symbol cache can only lose its entry.
LEMMA LookupKeeps == ASSUME IInv, NEW f \in File, FindCached(f) \/ CacheMiss(f) PROVE IInv'
<1> USE DEF FindCached, CacheMiss, files, symbols
<1>1. /\ pc \in Phase1 /\ pc' \in {"get", "parse"}
      /\ mapped' = mapped /\ disk' = disk /\ unseen' = unseen /\ sameMtime' = sameMtime
      /\ graph' = graph /\ builder' = builder /\ touched' = touched
  BY DEF Phase1
<1>2. DOMAIN cached' \subseteq DOMAIN cached /\ \A g \in DOMAIN cached' : cached'[g] = cached[g]
  <2>1. CASE FindCached(f)
    <3>1. cached' = cached
      BY <2>1
    <3> QED
      BY <3>1
  <2>2. CASE CacheMiss(f)
    <3> DEFINE left == Del(cached, f)
    <3>1. DOMAIN left \subseteq DOMAIN cached /\ \A g \in DOMAIN left : left[g] = cached[g]
      BY DelFacts
    <3>2. cached' = left
      BY <2>2
    <3> HIDE DEF left
    <3> QED
      BY <3>1, <3>2
  <2> QED
    BY <2>1, <2>2
<1>3. Shape'
  BY <1>1, <1>2 DEF IInv, Shape, IsGraph
<1>4. CacheInv'
  BY <1>1, <1>2 DEF IInv, CacheInv, IsValid, Describes
<1>5. DataInv' /\ FreshInv'
  BY <1>1 DEF IInv, DataInv, FreshInv, Describes
<1>6. FlightInv' /\ LinesInv'
  BY <1>1 DEF IInv, FlightInv, InFlight, Phase1, LinesInv, Describes
<1> QED
  BY <1>3, <1>4, <1>5, <1>6 DEF IInv

\* Symbol data known to describe f, unless f is unseen, may become that of the builder.
LEMMA KnownKeeps ==
  ASSUME IInv, NEW f \in File, NEW sd, Known(f, sd), disk' = disk, unseen' = unseen,
         f \notin unseen => Describes(sd, f),
         graph' = graph, touched' = touched, pc \in Phase1, pc' \in Phase1
  PROVE  FlightInv' /\ FreshInv' /\ LinesInv' /\ mapped' \in Seq(File)
<1>1. /\ builder' = Put(builder, f, sd)
      /\ mapped' = Append(mapped, f)
  BY DEF Known, AddFileData
<1>2. DOMAIN builder' = DOMAIN builder \cup {f} /\ builder'[f] = sd
      /\ \A g \in DOMAIN builder : g # f => builder'[g] = builder[g]
  BY <1>1 DEF Put
<1>3. \A g \in File : InFlight(g)' => InFlight(g) \/ g = f
  BY <1>1, ContainsAppend DEF IInv, Shape, InFlight, Phase1
<1>4. FlightInv'
  BY <1>2, <1>3, SameDisk DEF IInv, FlightInv
<1>5. FreshInv'
  BY <1>2, SameDisk DEF IInv, FreshInv
<1>6. LinesInv'
  BY DEF LinesInv, Phase1
<1> QED
  BY <1>1, <1>4, <1>5, <1>6 DEF IInv, Shape

\* Valid cached data becomes that of the builder.
LEMMA CacheHitKeeps == ASSUME IInv, NEW f \in File, CacheHit(f) PROVE IInv'
<1> USE DEF CacheHit, files
<1>1. f \notin unseen => Describes(cached[f], f)
  BY DEF IInv, CacheInv, IsValid
<1>2. FlightInv' /\ FreshInv' /\ LinesInv' /\ mapped' \in Seq(File)
  BY <1>1, KnownKeeps DEF Phase1
<1>3. Shape'
  BY <1>2 DEF IInv, Shape, IsGraph
<1>4. CacheInv' /\ DataInv'
  BY SameDisk DEF IInv, CacheInv, IsValid, DataInv
<1> QED
  BY <1>2, <1>3, <1>4 DEF IInv

\* Extracting a file leaves data that describes it.
LEMMA ExtractKeeps == ASSUME IInv, NEW f \in File, Extract(f) PROVE IInv'
<1> USE DEF Extract, files, symbols
<1>1. /\ pc \in Phase1 /\ pc' = "record" /\ todo' = todo /\ f = Head(todo)
      /\ data' = ExtractFileSymbols(disk, f)
  BY DEF Phase1
<1>2. Shape'
  BY <1>1 DEF IInv, Shape, IsGraph
<1>3. DataInv'
  BY <1>1, ExtractDescribes, SameDisk DEF IInv, Shape, DataInv
<1>4. CacheInv' /\ FreshInv'
  BY SameDisk DEF IInv, CacheInv, IsValid, FreshInv
<1>5. FlightInv' /\ LinesInv'
  BY <1>1, SameDisk DEF IInv, FlightInv, InFlight, Phase1, LinesInv
<1> QED
  BY <1>2, <1>3, <1>4, <1>5 DEF IInv

\* Caching the data of f leaves the other entries that are not evicted.
LEMMA CacheSetKeeps ==
  ASSUME IInv, NEW f \in File, CacheSet(f), disk' = disk, unseen' = unseen,
         f \notin unseen => Describes(data, f)
  PROVE  CacheInv' /\ DOMAIN cached' \subseteq File
<1>1. CASE disk[f] = Absent
  BY <1>1, SameDisk DEF CacheSet, symbols, IInv, CacheInv, IsValid, Shape
<1>2. CASE disk[f] # Absent
  <2> DEFINE left == Del(cached, Evicted)
  <2>1. DOMAIN left \subseteq DOMAIN cached /\ \A g \in DOMAIN left : left[g] = cached[g]
    BY DelFacts
  <2>2. cached' = Put(left, f, data) /\ sameMtime' = (sameMtime \ {Evicted}) \cup {f}
    BY <1>2 DEF CacheSet
  <2> HIDE DEF left
  <2>3. /\ DOMAIN cached' = DOMAIN left \cup {f} /\ cached'[f] = data
        /\ \A g \in DOMAIN left : g # f => cached'[g] = left[g]
    BY <2>2 DEF Put
  <2>4. ASSUME NEW g \in DOMAIN cached', g # f, g \notin unseen', IsValid(g)'
        PROVE  Describes(cached'[g], g)
    <3>1. g \in DOMAIN cached /\ cached'[g] = cached[g]
      BY <2>1, <2>3, <2>4
    <3>2. IsValid(g)
      BY <2>2, <2>4, <3>1 DEF IsValid
    <3> QED
      BY <2>4, <3>1, <3>2 DEF IInv, CacheInv
  <2>5. CacheInv'
    BY <2>3, <2>4, SameDisk DEF CacheInv
  <2> QED
    BY <2>1, <2>3, <2>5 DEF IInv, Shape
<1> QED
  BY <1>1, <1>2

\* One step per way the extraction of f may have gone.
LEMMA RecordKeeps == ASSUME IInv, NEW f \in File, Record(f) PROVE IInv'
<1>1. /\ pc = "record" /\ f = Head(todo) /\ pc' = "extract" /\ data' = NoData
      /\ disk' = disk /\ unseen' = unseen
      /\ pc \in Phase1 /\ pc' \in Phase1
  BY DEF Record, files, Phase1
<1>2. DataInv'
  BY <1>1 DEF DataInv
<1>3. CASE data = NoData
  <2>1. /\ touched' = touched /\ graph' = graph /\ builder' = builder /\ mapped' = mapped
        /\ cached' = cached /\ sameMtime' = sameMtime
    BY <1>3 DEF Record, symbols
  <2>2. Shape' /\ CacheInv' /\ FreshInv'
    BY <1>1, <2>1, SameDisk DEF IInv, Shape, IsGraph, CacheInv, IsValid, FreshInv
  <2>3. FlightInv' /\ LinesInv'
    BY <1>1, <2>1, SameDisk DEF IInv, FlightInv, InFlight, Phase1, LinesInv
  <2> QED
    BY <1>2, <2>2, <2>3 DEF IInv
<1>4. CASE data # NoData /\ data.valid
  <2>1. CacheSet(f) /\ Known(f, data) /\ touched' = touched /\ graph' = graph
    BY <1>4 DEF Record, RecordValid
  <2>2. f \notin unseen => Describes(data, f)
    BY <1>1, <1>4 DEF IInv, DataInv
  <2>3. CacheInv' /\ DOMAIN cached' \subseteq File
    BY <1>1, <2>1, <2>2, CacheSetKeeps
  <2>4. FlightInv' /\ FreshInv' /\ LinesInv' /\ mapped' \in Seq(File)
    BY <1>1, <2>1, <2>2, KnownKeeps
  <2>5. Shape'
    BY <1>1, <2>1, <2>3, <2>4 DEF IInv, Shape, IsGraph
  <2> QED
    BY <1>2, <2>3, <2>4, <2>5 DEF IInv
<1>5. CASE data # NoData /\ ~ data.valid
  <2>1. /\ graph' = MarkUnparseable(graph, f) /\ touched' = touched \ {f}
        /\ builder' = builder /\ mapped' = mapped
        /\ cached' = cached /\ sameMtime' = sameMtime
    BY <1>5 DEF Record, RecordInvalid, symbols
  <2>2. /\ graph'.file_metadata = Put(graph.file_metadata, f, NewMetadata("unparseable"))
        /\ IsGraph(graph)'
    BY <2>1 DEF MarkUnparseable, SetFileMetadata, IInv, Shape, IsGraph
  <2>3. /\ DOMAIN graph'.file_metadata = DOMAIN graph.file_metadata \cup {f}
        /\ graph'.file_metadata[f].status = "unparseable"
        /\ \A g \in DOMAIN graph.file_metadata \ {f} :
             graph'.file_metadata[g] = graph.file_metadata[g]
    BY <2>2 DEF Put, NewMetadata
  <2>4. Shape' /\ CacheInv'
    BY <1>1, <2>1, <2>2, <2>3, SameDisk DEF IInv, Shape, CacheInv, IsValid
  <2>5. FreshInv'
    BY <1>1, <2>1, <2>3, SameDisk DEF IInv, FreshInv
  <2>6. FlightInv' /\ LinesInv'
    BY <1>1, <2>1, SameDisk DEF IInv, FlightInv, InFlight, Phase1, LinesInv
  <2> QED
    BY <1>2, <2>4, <2>5, <2>6 DEF IInv
<1> QED
  BY <1>3, <1>4, <1>5

\* Phase 2 takes over the files phase 1 left in flight.
LEMMA StartBuildKeeps == ASSUME IInv, StartBuild PROVE IInv'
<1> USE DEF StartBuild, files, symbols
<1>1. Shape'
  BY DEF IInv, Shape, IsGraph
<1>2. CacheInv' /\ DataInv' /\ FreshInv'
  BY SameDisk DEF IInv, CacheInv, IsValid, DataInv, FreshInv
<1>3. FlightInv' /\ LinesInv'
  BY SameDisk DEF IInv, FlightInv, InFlight, Phase1, LinesInv
<1> QED
  BY <1>1, <1>2, <1>3 DEF IInv

\* Storing a file stamps it, with the lines of the builder, which no longer changes.
LEMMA BuildKeeps == ASSUME IInv, NEW f \in File, Build(f) PROVE IInv'
<1>1. /\ pc = "build" /\ pc' = "build" /\ todo # <<>> /\ f = Head(todo) /\ todo' = Tail(todo)
      /\ graph' = Stored(f) /\ touched' = touched \ {f}
      /\ disk' = disk /\ unseen' = unseen /\ builder' = builder /\ mapped' = mapped
      /\ cached' = cached /\ sameMtime' = sameMtime /\ data' = data
  BY DEF Build, files, symbols
<1>2. todo \in Seq(File) /\ todo' \in Seq(File)
  BY <1>1 DEF IInv, Shape
<1>3. \A x : Contains(todo, x) <=> x = f \/ Contains(todo', x)
  BY <1>1, <1>2, ContainsTail
<1>4. /\ IsGraph(graph)'
      /\ DOMAIN graph'.file_metadata = DOMAIN graph.file_metadata \cup {f}
      /\ \A x \in DOMAIN graph.file_metadata \ {f} :
           graph'.file_metadata[x] = graph.file_metadata[x]
      /\ \A r \in DOMAIN graph'.relationships :
           \/ r \in DOMAIN graph.relationships /\ r.src # f
           \/ r.detail = GetTargetLine(builder, r.tgt)
  BY <1>1, StoredFacts DEF IInv, IsGraph
<1>5. Shape'
  BY <1>1, <1>2, <1>4 DEF IInv, Shape
<1>6. CacheInv' /\ DataInv'
  BY <1>1, SameDisk DEF IInv, CacheInv, IsValid, DataInv
<1>7. FlightInv'
  BY <1>1, <1>3, SameDisk DEF IInv, FlightInv, InFlight, Phase1
<1>8. FreshInv'
  <2>1. f \notin unseen => f \in DOMAIN builder /\ Describes(builder[f], f)
    BY <1>1, <1>3 DEF IInv, FlightInv, InFlight
  <2> QED
    BY <1>1, <1>4, <2>1, SameDisk DEF IInv, FreshInv
<1>9. LinesInv'
  BY <1>1, <1>3, <1>4 DEF IInv, LinesInv, GetTargetLine
<1> QED
  BY <1>5, <1>6, <1>7, <1>8, <1>9 DEF IInv

\* Phase 2 ends with nothing in flight.
LEMMA FinishKeeps == ASSUME IInv, Finish PROVE IInv'
<1> USE DEF Finish, files, symbols
<1>1. \A x : ~ Contains(<<>>, x)
  BY DEF Contains
<1>2. Shape'
  BY DEF IInv, Shape, IsGraph
<1>3. CacheInv' /\ DataInv' /\ FreshInv'
  BY SameDisk DEF IInv, CacheInv, IsValid, DataInv, FreshInv
<1>4. FlightInv' /\ LinesInv'
  BY <1>1 DEF IInv, FlightInv, InFlight, Phase1, LinesInv
<1> QED
  BY <1>2, <1>3, <1>4 DEF IInv

\* Every part of the invariant reads the variables alone.
LEMMA StutterKeeps == ASSUME IInv, UNCHANGED vars PROVE IInv'
<1> USE DEF vars
<1>1. Shape' /\ CacheInv' /\ DataInv' /\ FreshInv'
  BY SameDisk DEF IInv, Shape, IsGraph, CacheInv, IsValid, DataInv, FreshInv
<1>2. FlightInv' /\ LinesInv'
  BY SameDisk DEF IInv, FlightInv, InFlight, Phase1, LinesInv
<1> QED
  BY <1>1, <1>2 DEF IInv

\* Every step keeps the invariant.
LEMMA NextIInv == IInv /\ [Next]_vars => IInv'
<1> SUFFICES ASSUME IInv, [Next]_vars PROVE IInv'
  OBVIOUS
<1>1. CASE \E f \in File : \E c \in Contents[f] : Edit(f, c)
  BY <1>1, EditKeeps
<1>2. CASE AnalyzeDirectory
  BY <1>2, AnalyzeDirectoryKeeps
<1>3. CASE StartBuild
  BY <1>3, StartBuildKeeps
<1>4. CASE Finish
  BY <1>4, FinishKeeps
<1>5. CASE \E f \in File : FindCached(f) \/ CacheHit(f) \/ CacheMiss(f) \/ Extract(f)
  BY <1>5, LookupKeeps, CacheHitKeeps, ExtractKeeps
<1>6. CASE \E f \in File : Record(f) \/ Build(f)
  BY <1>6, RecordKeeps, BuildKeeps
<1>7. CASE UNCHANGED vars
  BY <1>7, StutterKeeps
<1> QED
  BY <1>1, <1>2, <1>3, <1>4, <1>5, <1>6, <1>7 DEF Next, Analyzer

\* So the invariant holds at every moment of every behaviour.
LEMMA SpecIInv == Spec => []IInv
BY InitIInv, NextIInv, PTL DEF Spec

-----------------------------------------------------------------------------
(***************************************************************************)
(* TypeOK is not inductive as it stands: that the keys in order are those  *)
(* of the cache needs that a cached mtime is that of a file that exists,   *)
(* and that a file is mapped once, that it is not mapped while it waits.   *)
(***************************************************************************)
Waiting ==
  /\ pc \in {"get", "parse", "record"} => todo # <<>>
  /\ pc \in Phase1 => \A x : ~ (Contains(todo, x) /\ Contains(mapped, x))
  /\ \A x : Contains(mapped, x) => x \in DOMAIN builder

\* how many of the files mapped phase 2 has stored
Done == Len(mapped) - Len(todo)

\* phase 2 has what is left of the files mapped before it
Ahead ==
  pc \in {"build", "idle"} =>
    /\ Done \in Nat /\ \A i \in 1..Len(todo) : todo[i] = mapped[Done + i]
    /\ pc = "idle" => todo = <<>>

TInv == TypeOK /\ Waiting /\ Ahead /\ \A f \in sameMtime : disk[f] # Absent

\* each file stored is linked to its imports, those stored after it left out
EdgesInv ==
  pc \in {"build", "idle"} =>
    \A i \in 1..Done :
      /\ \A t \in builder[mapped[i]].imports :
           Linked(graph, mapped[i], t) \/ \E j \in i + 1 .. Done : mapped[j] = t
      /\ \A r \in DependenciesOf(graph, mapped[i]) : r.tgt \in builder[mapped[i]].imports

-----------------------------------------------------------------------------
\* Without keeps the order and the rest of the keys, and shortens a list that has the key.
LEMMA WithoutFacts ==
  ASSUME NEW S, NEW s \in Seq(S), IsInjective(s), NEW k
  PROVE  /\ Without(s, k) \in Seq(S) /\ IsInjective(Without(s, k))
         /\ ToSet(Without(s, k)) = ToSet(s) \ {k}
         /\ Len(Without(s, k)) = IF Contains(s, k) THEN Len(s) - 1 ELSE Len(s)
<1>1. CASE ~ Contains(s, k)
  BY <1>1 DEF Without, Contains, ToSet
<1>2. CASE Contains(s, k)
  <2> DEFINE i == CHOOSE j \in 1 .. Len(s) : s[j] = k
             rest == Without(s, k)
  <2>1. i \in 1 .. Len(s) /\ s[i] = k
    BY <1>2 DEF Contains
  <2>2. rest = SubSeq(s, 1, i - 1) \o SubSeq(s, i + 1, Len(s))
    BY <1>2 DEF Without, RemoveAt
  <2> HIDE DEF i, rest
  <2> DEFINE before == SubSeq(s, 1, i - 1)
             after  == SubSeq(s, i + 1, Len(s))
  <2>3. before \in Seq(S) /\ Len(before) = i - 1 /\ \A p \in 1 .. i - 1 : before[p] = s[p]
    BY <2>1
  <2>4. /\ after \in Seq(S) /\ Len(after) = Len(s) - i
        /\ \A p \in 1 .. Len(s) - i : after[p] = s[i + p]
    BY <2>1
  <2>5. rest = before \o after
    BY <2>2
  <2> HIDE DEF before, after
  <2>6. rest \in Seq(S) /\ Len(rest) = Len(s) - 1
    BY <2>1, <2>3, <2>4, <2>5
  <2>7. \A p \in 1 .. Len(s) - 1 : rest[p] = IF p < i THEN s[p] ELSE s[p + 1]
    BY <2>1, <2>3, <2>4, <2>5
  <2>8. IsInjective(rest)
    BY SMTT(30), <2>1, <2>6, <2>7 DEF IsInjective
  <2>9. ASSUME NEW x \in ToSet(rest) PROVE x \in ToSet(s) \ {k}
    <3>1. PICK p \in 1 .. Len(s) - 1 : x = rest[p]
      BY <2>6 DEF ToSet
    <3>2. PICK q \in 1 .. Len(s) : q # i /\ x = s[q]
      BY <2>1, <2>7, <3>1
    <3> QED
      BY <2>1, <3>2 DEF ToSet, IsInjective
  <2>10. ASSUME NEW x \in ToSet(s) \ {k} PROVE x \in ToSet(rest)
    <3>1. PICK q \in 1 .. Len(s) : x = s[q]
      BY DEF ToSet
    <3>2. q # i
      BY <2>1, <3>1
    <3>3. CASE q < i
      <4>1. q \in 1 .. Len(s) - 1 /\ rest[q] = x
        BY <2>1, <2>7, <3>1, <3>3
      <4> QED
        BY <2>6, <4>1 DEF ToSet
    <3>4. CASE q > i
      <4>1. q - 1 \in 1 .. Len(s) - 1 /\ rest[q - 1] = x
        BY <2>1, <2>7, <3>1, <3>4
      <4> QED
        BY <2>6, <4>1 DEF ToSet
    <3> QED
      BY <2>1, <3>2, <3>3, <3>4
  <2>11. ToSet(rest) = ToSet(s) \ {k}
    BY <2>9, <2>10
  <2> QED
    BY <1>2, <2>6, <2>8, <2>11 DEF rest
<1> QED
  BY <1>1, <1>2

\* Moving a key to the end adds it if it is new, and lengthens the list only then.
LEMMA MovedFacts ==
  ASSUME NEW S, NEW s \in Seq(S), IsInjective(s), NEW k \in S
  PROVE  /\ MovedToEnd(s, k) \in Seq(S) /\ IsInjective(MovedToEnd(s, k))
         /\ ToSet(MovedToEnd(s, k)) = ToSet(s) \cup {k}
         /\ Len(MovedToEnd(s, k)) <= Len(s) + 1
         /\ Contains(s, k) => Len(MovedToEnd(s, k)) = Len(s)
<1> DEFINE rest == Without(s, k)
<1>1. /\ rest \in Seq(S) /\ IsInjective(rest) /\ ToSet(rest) = ToSet(s) \ {k}
      /\ Len(rest) = IF Contains(s, k) THEN Len(s) - 1 ELSE Len(s)
  BY WithoutFacts
<1>2. MovedToEnd(s, k) = Append(rest, k)
  BY DEF MovedToEnd
<1> HIDE DEF rest
<1> DEFINE moved == Append(rest, k)
<1>3. moved \in Seq(S) /\ Len(moved) = Len(rest) + 1 /\ moved[Len(moved)] = k
      /\ \A i \in 1 .. Len(rest) : moved[i] = rest[i]
  BY <1>1
<1> HIDE DEF moved
<1>4. \A i \in 1 .. Len(rest) : rest[i] # k
  <2>1. \A i \in 1 .. Len(rest) : rest[i] \in ToSet(rest)
    BY <1>1 DEF ToSet
  <2> QED
    BY <1>1, <2>1
<1>5. IsInjective(moved)
  BY SMTT(30), <1>1, <1>3, <1>4 DEF IsInjective
<1>6. ToSet(moved) = ToSet(rest) \cup {k}
  BY <1>1, <1>3 DEF ToSet
<1> QED
  BY <1>1, <1>2, <1>3, <1>5, <1>6 DEF moved

\* Nothing is listed, cached or stored at first.
LEMMA InitTInv == Init => TInv /\ EdgesInv
<1> SUFFICES ASSUME Init PROVE TInv /\ EdgesInv
  OBVIOUS
<1>1. GraphType(EmptyGraph) /\ IsDict(EmptyDict, File, Symbols) /\ DOMAIN EmptyDict = {}
  BY EmptyGraphGood DEF IsDict, EmptyDict
<1>2. \A S : <<>> \in Seq(S)
  OBVIOUS
<1>3. ToSet(<<>>) = {} /\ IsInjective(<<>>) /\ Len(<<>>) = 0 /\ \A x : ~ Contains(<<>>, x)
  BY DEF ToSet, IsInjective, Contains
<1>4. TypeOK
  BY <1>1, <1>2, <1>3, AnalysisAssumption DEF Init, TypeOK
<1>5. Waiting /\ Ahead
  BY <1>3 DEF Init, Waiting, Ahead, Done, Phase1
<1>6. EdgesInv
  BY <1>3 DEF Init, EdgesInv, Done
<1> QED
  BY <1>4, <1>5, <1>6 DEF Init, TInv

\* What the lists say is read off them and the builder alone.
LEMMA SameLists ==
  ASSUME TInv, todo' = todo, mapped' = mapped, builder' = builder, pc' = pc
  PROVE  Waiting' /\ Ahead'
BY DEF TInv, Waiting, Ahead, Done

\* What was stored is read off the graph, the builder and the lists.
LEMMA SameEdges ==
  ASSUME EdgesInv, UNCHANGED <<graph, builder, todo, mapped, pc>>
  PROVE  EdgesInv'
<1>1. Done' = Done
  BY DEF Done
<1> QED
  BY <1>1 DEF EdgesInv, Linked, DependenciesOf

\* An edit takes the file's mtime away, and disturbs no list.
LEMMA EditKeepsT ==
  ASSUME TInv, EdgesInv, NEW f \in File, NEW c \in Contents[f], Edit(f, c)
  PROVE  TInv' /\ EdgesInv'
<1> USE DEF Edit
<1>1. disk' \in [File -> Disk] /\ \A g \in File : g # f => disk'[g] = disk[g]
  BY AnalysisAssumption DEF TInv, TypeOK
<1>2. edits' \in 0..MaxEdits
  BY AnalysisAssumption DEF TInv, TypeOK
<1>3. TypeOK'
  <2>1. (GraphType(graph) /\ IsDict(builder, File, Symbols) /\ IsDict(cached, File, Symbols))'
    BY DEF TInv, TypeOK
  <2>2. (touched \in SUBSET File /\ unseen \in SUBSET File /\ sameMtime \in SUBSET DOMAIN cached)'
    BY DEF TInv, TypeOK
  <2>3. (/\ recency \in Seq(File) /\ ToSet(recency) = DOMAIN cached
         /\ IsInjective(recency) /\ Len(recency) <= MaxEntries)'
    BY DEF TInv, TypeOK
  <2>4. (/\ todo \in Seq(File) /\ mapped \in Seq(File) /\ IsInjective(todo) /\ IsInjective(mapped)
         /\ pc \in {"idle", "extract", "get", "parse", "record", "build"}
         /\ data \in IF pc = "record" THEN {NoData, Invalid} \cup Symbols ELSE {NoData})'
    BY DEF TInv, TypeOK
  <2> HIDE DEF Edit
  <2> QED
    BY <1>1, <1>2, <2>1, <2>2, <2>3, <2>4, Zenon DEF TypeOK
<1>4. \A g \in sameMtime' : disk'[g] # Absent
  BY <1>1 DEF TInv, TypeOK, IsDict
<1>5. Waiting' /\ Ahead'
  BY SameLists
<1>6. EdgesInv'
  BY SameEdges
<1> QED
  BY <1>3, <1>4, <1>5, <1>6 DEF TInv

\* The files listed are listed once.
LEMMA AnalyzeDirectoryKeepsT == ASSUME TInv, AnalyzeDirectory PROVE TInv' /\ EdgesInv'
<1> DEFINE found == {f \in File : disk[f] # Absent}
           size  == Cardinality(found)
<1>1. size \in Nat
  BY AnalysisAssumption, FS_Subset, FS_CardinalityType
<1>2. todo' \in [1 .. size -> found] /\ IsInjective(todo')
  BY DEF AnalyzeDirectory, SetToSeqs, IsInjective
<1> HIDE DEF size, found
<1>3. todo' \in Seq(File)
  BY <1>1, <1>2 DEF found
<1>4. <<>> \in Seq(File) /\ IsInjective(<<>>) /\ \A x : ~ Contains(<<>>, x)
  BY DEF IsInjective, Contains
<1>5. TypeOK'
  BY <1>2, <1>3, <1>4 DEF AnalyzeDirectory, files, symbols, TInv, TypeOK
<1>6. Waiting' /\ Ahead' /\ EdgesInv'
  BY <1>4 DEF AnalyzeDirectory, Waiting, Ahead, EdgesInv
<1> QED
  BY <1>5, <1>6 DEF AnalyzeDirectory, files, symbols, TInv

\* Looking a file up loses at most its entry, and its place in the order with it.
LEMMA LookupKeepsT ==
  ASSUME TInv, NEW f \in File, FindCached(f) \/ CacheMiss(f)
  PROVE  TInv' /\ EdgesInv'
<1>1. /\ pc \in {"extract", "get"} /\ pc' \in {"get", "parse"} /\ todo # <<>>
      /\ todo' = todo /\ mapped' = mapped /\ builder' = builder /\ data' = data
      /\ disk' = disk /\ touched' = touched /\ unseen' = unseen /\ edits' = edits
      /\ graph' = graph /\ sameMtime' = sameMtime
  BY DEF FindCached, CacheMiss, files, symbols, TInv, Waiting
<1>2. /\ IsDict(cached', File, Symbols) /\ sameMtime \subseteq DOMAIN cached'
      /\ recency' \in Seq(File) /\ ToSet(recency') = DOMAIN cached'
      /\ IsInjective(recency') /\ Len(recency') <= MaxEntries
  <2>1. CASE FindCached(f)
    BY <2>1 DEF FindCached, symbols, TInv, TypeOK
  <2>2. CASE CacheMiss(f)
    <3>1. f \notin sameMtime
      BY <2>2 DEF CacheMiss, IsValid, TInv, TypeOK
    <3>2. cached' = Del(cached, f) /\ recency' = Without(recency, f)
      BY <2>2 DEF CacheMiss
    <3>3. DOMAIN cached' = DOMAIN cached \ {f} /\ IsDict(cached', File, Symbols)
      BY <3>2 DEF Del, Restrict, IsDict, TInv, TypeOK
    <3>4. /\ recency' \in Seq(File) /\ ToSet(recency') = ToSet(recency) \ {f}
          /\ IsInjective(recency') /\ Len(recency') <= Len(recency)
      BY <3>2, WithoutFacts DEF TInv, TypeOK
    <3>5. Len(recency) \in Nat /\ Len(recency') \in Nat /\ Len(recency) <= MaxEntries
      BY <3>4 DEF TInv, TypeOK
    <3> QED
      BY <3>1, <3>3, <3>4, <3>5, AnalysisAssumption DEF TInv, TypeOK
  <2> QED
    BY <2>1, <2>2
<1>3. TypeOK'
  BY <1>1, <1>2 DEF TInv, TypeOK
<1>4. Waiting' /\ Ahead' /\ EdgesInv'
  BY <1>1 DEF TInv, Waiting, Ahead, EdgesInv, Phase1
<1> QED
  BY <1>1, <1>3, <1>4 DEF TInv

\* The first file waiting becomes the last mapped.
LEMMA KnownKeepsT ==
  ASSUME TInv, NEW f \in File, pc \in Phase1, pc' = "extract", todo # <<>>, f = Head(todo),
         todo' = Tail(todo), NEW sd \in Symbols, Known(f, sd)
  PROVE  /\ IsDict(builder', File, Symbols)
         /\ todo' \in Seq(File) /\ IsInjective(todo')
         /\ mapped' \in Seq(File) /\ IsInjective(mapped')
         /\ Waiting' /\ Ahead' /\ EdgesInv'
<1>1. builder' = AddFileData(builder, f, sd) /\ mapped' = Append(mapped, f)
  BY DEF Known
<1>2. IsDict(builder', File, Symbols) /\ f \in DOMAIN builder'
      /\ DOMAIN builder \subseteq DOMAIN builder'
  BY <1>1, AddFileDataType DEF TInv, TypeOK
<1>3. todo \in Seq(File) /\ mapped \in Seq(File) /\ IsInjective(todo) /\ IsInjective(mapped)
  BY DEF TInv, TypeOK
<1>4. todo' \in Seq(File) /\ mapped' \in Seq(File)
  BY <1>1, <1>3
<1>5. IsInjective(todo') /\ ~ Contains(todo', f)
  BY <1>3 DEF IsInjective, Contains
<1>6. \A x : Contains(todo, x) <=> x = f \/ Contains(todo', x)
  BY <1>3, ContainsTail
<1>7. \A x : Contains(mapped', x) <=> Contains(mapped, x) \/ x = f
  BY <1>1, <1>3, ContainsAppend
<1>8. ~ Contains(mapped, f)
  BY <1>6 DEF TInv, Waiting
<1>9. IsInjective(mapped')
  BY <1>1, <1>3, <1>8 DEF IsInjective, Contains
<1>10. Waiting'
  BY <1>2, <1>5, <1>6, <1>7 DEF TInv, Waiting, Phase1
<1>11. Ahead' /\ EdgesInv'
  BY DEF Ahead, EdgesInv
<1> QED
  BY <1>2, <1>4, <1>5, <1>9, <1>10, <1>11

\* A hit moves the key to the end of the cache's order, and the file to those mapped.
LEMMA CacheHitKeepsT == ASSUME TInv, NEW f \in File, CacheHit(f) PROVE TInv' /\ EdgesInv'
<1>1. /\ pc = "get" /\ pc' = "extract" /\ todo # <<>> /\ f = Head(todo) /\ todo' = Tail(todo)
      /\ Known(f, cached[f]) /\ f \in DOMAIN cached /\ recency' = MovedToEnd(recency, f)
      /\ disk' = disk /\ touched' = touched /\ unseen' = unseen /\ edits' = edits
      /\ graph' = graph /\ cached' = cached /\ sameMtime' = sameMtime /\ data' = data
  BY DEF CacheHit, files, IsValid, TInv, Waiting
<1>2. cached[f] \in Symbols
  BY <1>1 DEF TInv, TypeOK, IsDict
<1>3. /\ IsDict(builder', File, Symbols)
      /\ todo' \in Seq(File) /\ IsInjective(todo') /\ mapped' \in Seq(File) /\ IsInjective(mapped')
      /\ Waiting' /\ Ahead' /\ EdgesInv'
  BY <1>1, <1>2, KnownKeepsT DEF Phase1
<1>4. /\ recency' \in Seq(File) /\ ToSet(recency') = DOMAIN cached'
      /\ IsInjective(recency') /\ Len(recency') <= MaxEntries
  <2>1. Contains(recency, f)
    <3>1. f \in ToSet(recency)
      BY <1>1 DEF TInv, TypeOK
    <3> QED
      BY <3>1 DEF ToSet, Contains, TInv, TypeOK
  <2>2. /\ recency' \in Seq(File) /\ IsInjective(recency')
        /\ ToSet(recency') = ToSet(recency) \cup {f} /\ Len(recency') = Len(recency)
    <3> DEFINE moved == MovedToEnd(recency, f)
    <3>1. recency \in Seq(File) /\ IsInjective(recency)
      BY DEF TInv, TypeOK
    <3>2. /\ moved \in Seq(File) /\ IsInjective(moved)
          /\ ToSet(moved) = ToSet(recency) \cup {f} /\ Len(moved) = Len(recency)
      BY <2>1, <3>1, MovedFacts
    <3> HIDE DEF moved
    <3> QED
      BY <1>1, <3>2 DEF moved
  <2> QED
    BY <1>1, <2>2 DEF TInv, TypeOK
<1>5. TypeOK'
  BY <1>1, <1>3, <1>4 DEF TInv, TypeOK
<1> QED
  BY <1>1, <1>3, <1>5 DEF TInv

\* Extraction gives nothing, invalid data, or symbol data.
LEMMA ExtractKeepsT == ASSUME TInv, NEW f \in File, Extract(f) PROVE TInv' /\ EdgesInv'
<1>1. /\ pc \in {"extract", "parse"} /\ pc' = "record" /\ todo # <<>>
      /\ todo' = todo /\ mapped' = mapped /\ builder' = builder
      /\ data' = ExtractFileSymbols(disk, f)
      /\ disk' = disk /\ touched' = touched /\ unseen' = unseen /\ edits' = edits
      /\ graph' = graph /\ cached' = cached /\ recency' = recency /\ sameMtime' = sameMtime
  BY DEF Extract, files, symbols, TInv, Waiting
<1>2. data' \in {NoData, Invalid} \cup Symbols
  BY <1>1, ExtractType DEF TInv, TypeOK
<1>3. TypeOK'
  BY <1>1, <1>2 DEF TInv, TypeOK
<1>4. Waiting' /\ Ahead' /\ EdgesInv'
  BY <1>1 DEF TInv, Waiting, Ahead, EdgesInv, Phase1
<1> QED
  BY <1>1, <1>3, <1>4 DEF TInv

\* SymbolDataCache.set makes room at the limit, before it looks for the key.
LEMMA CacheSetKeepsT ==
  ASSUME TInv, NEW f \in File, data \in Symbols, CacheSet(f), disk' = disk
  PROVE  /\ IsDict(cached', File, Symbols)
         /\ recency' \in Seq(File) /\ ToSet(recency') = DOMAIN cached'
         /\ IsInjective(recency') /\ Len(recency') <= MaxEntries
         /\ sameMtime' \in SUBSET DOMAIN cached'
         /\ \A g \in sameMtime' : disk'[g] # Absent
<1>1. CASE disk[f] = Absent
  BY <1>1 DEF CacheSet, symbols, TInv, TypeOK
<1>2. CASE disk[f] # Absent
  <2> DEFINE left == Del(cached, Evicted)
             rest == Without(recency, Evicted)
  <2>1. /\ cached' = Put(left, f, data) /\ recency' = MovedToEnd(rest, f)
        /\ sameMtime' = (sameMtime \ {Evicted}) \cup {f}
    BY <1>2 DEF CacheSet
  <2>2. /\ recency \in Seq(File) /\ IsInjective(recency) /\ ToSet(recency) = DOMAIN cached
        /\ Len(recency) <= MaxEntries /\ MaxEntries \in Nat \ {0} /\ Len(recency) \in Nat
    BY AnalysisAssumption DEF TInv, TypeOK
  <2>3. DOMAIN left = DOMAIN cached \ {Evicted} /\ IsDict(left, File, Symbols)
    BY DEF Del, Restrict, IsDict, TInv, TypeOK
  <2>4. /\ rest \in Seq(File) /\ IsInjective(rest) /\ ToSet(rest) = ToSet(recency) \ {Evicted}
        /\ Len(rest) = IF Contains(recency, Evicted) THEN Len(recency) - 1 ELSE Len(recency)
    BY <2>2, WithoutFacts
  <2>5. Len(rest) < MaxEntries /\ Len(rest) \in Nat
    <3>1. CASE Len(recency) < MaxEntries
      BY <2>2, <2>4, <3>1
    <3>2. CASE Len(recency) = MaxEntries
      <4>1. Evicted = recency[1] /\ 1 \in 1 .. Len(recency)
        BY <2>2, <3>2 DEF Evicted
      <4>2. Contains(recency, Evicted)
        BY <4>1 DEF Contains
      <4> QED
        BY <2>2, <2>4, <3>2, <4>2
    <3> QED
      BY <2>2, <3>1, <3>2
  <2> HIDE DEF left, rest
  <2>6. IsDict(cached', File, Symbols) /\ DOMAIN cached' = DOMAIN left \cup {f}
    BY <2>1, <2>3 DEF Put, IsDict
  <2>7. /\ recency' \in Seq(File) /\ IsInjective(recency') /\ ToSet(recency') = ToSet(rest) \cup {f}
        /\ Len(recency') <= Len(rest) + 1 /\ Len(recency') \in Nat
    BY <2>1, <2>4, MovedFacts
  <2>8. sameMtime' \in SUBSET DOMAIN cached' /\ \A g \in sameMtime' : disk'[g] # Absent
    BY <1>2, <2>1, <2>3, <2>6 DEF TInv, TypeOK
  <2> QED
    BY <2>2, <2>3, <2>4, <2>5, <2>6, <2>7, <2>8
<1> QED
  BY <1>1, <1>2

\* Whatever the extraction gave, the file leaves the list, mapped if its data is valid.
LEMMA RecordKeepsT == ASSUME TInv, NEW f \in File, Record(f) PROVE TInv' /\ EdgesInv'
<1>1. /\ pc = "record" /\ pc' = "extract" /\ todo # <<>> /\ f = Head(todo) /\ todo' = Tail(todo)
      /\ data' = NoData /\ disk' = disk /\ unseen' = unseen /\ edits' = edits
      /\ data \in {NoData, Invalid} \cup Symbols
  BY DEF Record, AfterRecorded, files, TInv, TypeOK, Waiting
<1>2. CASE data # NoData /\ data.valid
  <2>1. data \in Symbols
    BY <1>1, <1>2 DEF Invalid
  <2>2. CacheSet(f) /\ Known(f, data) /\ touched' = touched /\ graph' = graph
    BY <1>2 DEF Record, RecordValid
  <2>3. /\ IsDict(builder', File, Symbols)
        /\ todo' \in Seq(File) /\ IsInjective(todo')
        /\ mapped' \in Seq(File) /\ IsInjective(mapped')
        /\ Waiting' /\ Ahead' /\ EdgesInv'
    BY <1>1, <2>1, <2>2, KnownKeepsT DEF Phase1
  <2>4. /\ IsDict(cached', File, Symbols)
        /\ recency' \in Seq(File) /\ ToSet(recency') = DOMAIN cached'
        /\ IsInjective(recency') /\ Len(recency') <= MaxEntries
        /\ sameMtime' \in SUBSET DOMAIN cached'
        /\ \A g \in sameMtime' : disk'[g] # Absent
    BY <1>1, <2>1, <2>2, CacheSetKeepsT
  <2>5. TypeOK'
    BY <1>1, <2>2, <2>3, <2>4 DEF TInv, TypeOK
  <2> QED
    BY <2>3, <2>4, <2>5 DEF TInv
<1>3. CASE ~ (data # NoData /\ data.valid)
  <2>1. /\ builder' = builder /\ mapped' = mapped
        /\ cached' = cached /\ recency' = recency /\ sameMtime' = sameMtime
        /\ \/ graph' = graph /\ touched' = touched
           \/ graph' = MarkUnparseable(graph, f) /\ touched' = touched \ {f}
    BY <1>3 DEF Record, RecordInvalid, symbols
  <2>2. GraphType(graph') /\ touched' \in SUBSET File
    BY <2>1, MetadataType, NewMetadataType DEF MarkUnparseable, TInv, TypeOK
  <2>3. todo \in Seq(File) /\ todo' \in Seq(File) /\ IsInjective(todo')
        /\ \A x : Contains(todo', x) => Contains(todo, x)
    BY <1>1, ContainsTail DEF TInv, TypeOK, IsInjective
  <2>4. TypeOK'
    BY <1>1, <2>1, <2>2, <2>3 DEF TInv, TypeOK
  <2>5. Waiting' /\ Ahead' /\ EdgesInv'
    BY <1>1, <2>1, <2>3 DEF TInv, Waiting, Ahead, EdgesInv, Phase1
  <2> QED
    BY <1>1, <2>1, <2>4, <2>5 DEF TInv
<1> QED
  BY <1>2, <1>3

\* Phase 2 has all that was mapped ahead of it.
LEMMA StartBuildKeepsT == ASSUME TInv, StartBuild PROVE TInv' /\ EdgesInv'
<1>1. /\ pc = "extract" /\ pc' = "build" /\ todo' = mapped /\ mapped' = mapped
      /\ builder' = builder /\ data' = data
      /\ disk' = disk /\ touched' = touched /\ unseen' = unseen /\ edits' = edits
      /\ graph' = graph /\ cached' = cached /\ recency' = recency /\ sameMtime' = sameMtime
  BY DEF StartBuild, files, symbols
<1>2. TypeOK'
  BY <1>1 DEF TInv, TypeOK
<1>3. Done' = 0
  BY <1>1 DEF Done, TInv, TypeOK
<1>4. Waiting' /\ Ahead' /\ EdgesInv'
  BY <1>1, <1>3 DEF TInv, TypeOK, Waiting, Ahead, EdgesInv, Phase1
<1> QED
  BY <1>1, <1>2, <1>4 DEF TInv

\* Phase 2 ends when nothing is ahead of it.
LEMMA FinishKeepsT == ASSUME TInv, EdgesInv, Finish PROVE TInv' /\ EdgesInv'
<1>1. /\ pc = "build" /\ pc' = "idle" /\ todo = <<>> /\ todo' = todo /\ mapped' = mapped
      /\ builder' = builder /\ data' = data
      /\ disk' = disk /\ touched' = touched /\ unseen' = unseen /\ edits' = edits
      /\ graph' = graph /\ cached' = cached /\ recency' = recency /\ sameMtime' = sameMtime
  BY DEF Finish, files, symbols
<1>2. TypeOK'
  BY <1>1 DEF TInv, TypeOK
<1>3. Done' = Done
  BY <1>1 DEF Done
<1>4. Waiting' /\ Ahead'
  BY <1>1, <1>3 DEF TInv, Waiting, Ahead, Phase1
<1>5. EdgesInv'
  BY <1>1, <1>3 DEF EdgesInv, Linked, DependenciesOf
<1> QED
  BY <1>1, <1>2, <1>4, <1>5 DEF TInv

\* What storing f leaves of the relationships, and what it adds.
LEMMA StoredEdges ==
  ASSUME TInv, NEW f \in DOMAIN builder
  PROVE  LET g == Stored(f)
             rels == BuildRelationshipsForFile(builder, f)
         IN /\ GraphType(g)
            /\ \A r : r \in DOMAIN g.relationships <=>
                 (r \in DOMAIN graph.relationships /\ r.src # f /\ r.tgt # f) \/ r \in rels
            /\ \A r \in rels : r.src = f /\ r.tgt \in builder[f].imports
            /\ \A t \in builder[f].imports : \E r \in rels : r.src = f /\ r.tgt = t
<1> DEFINE rels  == BuildRelationshipsForFile(builder, f)
           cut   == RemoveRelationshipsForFile(graph, f)
           built == AddAll(cut, Once(rels))
           g     == Stored(f)
<1>1. IsDict(builder, File, Symbols) /\ f \in File /\ GraphType(graph)
  BY DEF TInv, TypeOK, IsDict
<1>2. /\ rels \subseteq Rel /\ \A r \in rels : r.src = f /\ r.tgt \in builder[f].imports
      /\ IsDict(Once(rels), Rel, Nat \ {0}) /\ DOMAIN Once(rels) = rels
  <2>1. rels \subseteq Rel /\ \A r \in rels : r.src = f /\ r.tgt \in builder[f].imports
    BY <1>1, BuiltRelationships
  <2> QED
    BY <2>1, OnceType
<1>3. ASSUME NEW t \in builder[f].imports PROVE \E r \in rels : r.src = f /\ r.tgt = t
  <2> DEFINE q == [src |-> f, tgt |-> t, site |-> "import", detail |-> GetTargetLine(builder, t)]
  <2>1. q.src = f /\ q.tgt = t
    OBVIOUS
  <2>2. q \in rels
    BY DEF BuildRelationshipsForFile
  <2> QED
    BY <2>1, <2>2
<1>4. GraphType(cut)
  BY <1>1, RemoveForFileType
<1>5. \A r : r \in DOMAIN cut.relationships <=>
              r \in DOMAIN graph.relationships /\ r.src # f /\ r.tgt # f
  BY DEF RemoveRelationshipsForFile, Keep, Restrict
<1> HIDE DEF cut, rels
<1>6. GraphType(built)
  BY <1>2, <1>4, AddAllType
<1>7. DOMAIN built.relationships = DOMAIN cut.relationships \cup rels
  BY <1>2 DEF AddAll
<1>8. g = SetFileMetadata(built, f, NewMetadata("analyzed"))
  BY DEF Stored, StoreRelationships, cut, rels
<1> HIDE DEF built, g
<1>9. GraphType(g)
  BY <1>1, <1>6, <1>8, MetadataType, NewMetadataType
<1>10. g.relationships = built.relationships
  BY <1>6, <1>8 DEF SetFileMetadata, GraphType
<1> QED
  BY <1>2, <1>3, <1>5, <1>7, <1>9, <1>10 DEF g, rels

(***************************************************************************)
(* Storing the next file links it to all its imports, and takes from those *)
(* stored before it no link but the one to it.                             *)
(***************************************************************************)
LEMMA BuildKeepsT == ASSUME TInv, EdgesInv, NEW f \in File, Build(f) PROVE TInv' /\ EdgesInv'
<1> DEFINE rels == BuildRelationshipsForFile(builder, f)
<1>1. /\ pc = "build" /\ pc' = "build" /\ todo # <<>> /\ f = Head(todo) /\ todo' = Tail(todo)
      /\ graph' = Stored(f) /\ touched' = touched \ {f} /\ mapped' = mapped
      /\ builder' = builder /\ data' = data /\ disk' = disk /\ unseen' = unseen /\ edits' = edits
      /\ cached' = cached /\ recency' = recency /\ sameMtime' = sameMtime
  BY DEF Build, files, symbols
<1>2. /\ todo \in Seq(File) /\ mapped \in Seq(File) /\ IsInjective(todo) /\ IsInjective(mapped)
      /\ Done \in Nat /\ \A i \in 1 .. Len(todo) : todo[i] = mapped[Done + i]
      /\ Len(todo) \in Nat \ {0} /\ Len(mapped) = Done + Len(todo)
  BY <1>1 DEF TInv, TypeOK, Ahead, Done
<1>3. mapped[Done + 1] = f /\ Done + 1 \in 1 .. Len(mapped)
  BY <1>1, <1>2
<1>4. Done' = Done + 1
  BY <1>1, <1>2 DEF Done
<1>5. f \in DOMAIN builder
  BY <1>2, <1>3 DEF TInv, Waiting, Contains
<1>6. /\ GraphType(graph')
      /\ \A r : r \in DOMAIN graph'.relationships <=>
           (r \in DOMAIN graph.relationships /\ r.src # f /\ r.tgt # f) \/ r \in rels
      /\ \A r \in rels : r.src = f /\ r.tgt \in builder[f].imports
      /\ \A t \in builder[f].imports : \E r \in rels : r.src = f /\ r.tgt = t
  <2>1. Stored(f) = graph'
    BY <1>1
  <2> QED
    BY <1>5, <2>1, StoredEdges
<1> HIDE DEF rels
<1>7. todo' \in Seq(File) /\ IsInjective(todo')
  BY <1>1, <1>2 DEF IsInjective
<1>8. TypeOK'
  BY <1>1, <1>6, <1>7 DEF TInv, TypeOK
<1>9. Waiting' /\ Ahead'
  <2>1. Len(todo') = Len(todo) - 1 /\ \A i \in 1 .. Len(todo') : todo'[i] = todo[i + 1]
    BY <1>1, <1>2
  <2>2. \A i \in 1 .. Len(todo') : todo'[i] = mapped[Done' + i]
    BY <1>2, <1>4, <2>1
  <2> QED
    BY <1>1, <1>2, <1>4, <2>2 DEF TInv, Waiting, Ahead, Phase1
<1>10. ASSUME NEW i \in 1 .. Done + 1
       PROVE  /\ \A t \in builder[mapped[i]].imports :
                   Linked(graph', mapped[i], t) \/ \E j \in i + 1 .. Done + 1 : mapped[j] = t
              /\ \A r \in DependenciesOf(graph', mapped[i]) : r.tgt \in builder[mapped[i]].imports
  <2>1. CASE i = Done + 1
    BY <1>3, <1>6, <2>1 DEF Linked, DependenciesOf
  <2>2. CASE i \in 1 .. Done
    <3>1. mapped[i] # f
      BY <1>2, <1>3, <2>2 DEF IsInjective
    <3>2. /\ \A t \in builder[mapped[i]].imports :
               Linked(graph, mapped[i], t) \/ \E j \in i + 1 .. Done : mapped[j] = t
          /\ \A r \in DependenciesOf(graph, mapped[i]) : r.tgt \in builder[mapped[i]].imports
      BY <1>1, <2>2 DEF EdgesInv
    <3>3. ASSUME NEW t \in builder[mapped[i]].imports
          PROVE  Linked(graph', mapped[i], t) \/ \E j \in i + 1 .. Done + 1 : mapped[j] = t
      <4>1. CASE t = f
        BY <1>2, <1>3, <2>2, <4>1
      <4>2. CASE t # f /\ Linked(graph, mapped[i], t)
        BY <1>6, <3>1, <4>2 DEF Linked
      <4>3. CASE \E j \in i + 1 .. Done : mapped[j] = t
        BY <1>2, <4>3
      <4> QED
        BY <3>2, <4>1, <4>2, <4>3
    <3>4. \A r \in DependenciesOf(graph', mapped[i]) : r \in DependenciesOf(graph, mapped[i])
      BY <1>6, <3>1 DEF DependenciesOf
    <3> QED
      BY <3>2, <3>3, <3>4
  <2> QED
    BY <1>2, <2>1, <2>2
<1>11. EdgesInv'
  BY <1>1, <1>4, <1>10 DEF EdgesInv
<1> QED
  BY <1>1, <1>8, <1>9, <1>11 DEF TInv

\* Every step keeps the types and, in phase 2, the links of the files stored.
LEMMA NextTInv == TInv /\ EdgesInv /\ [Next]_vars => TInv' /\ EdgesInv'
<1> SUFFICES ASSUME TInv, EdgesInv, [Next]_vars PROVE TInv' /\ EdgesInv'
  OBVIOUS
<1>1. CASE \E f \in File : \E c \in Contents[f] : Edit(f, c)
  BY <1>1, EditKeepsT
<1>2. CASE AnalyzeDirectory
  BY <1>2, AnalyzeDirectoryKeepsT
<1>3. CASE StartBuild
  BY <1>3, StartBuildKeepsT
<1>4. CASE Finish
  BY <1>4, FinishKeepsT
<1>5. CASE \E f \in File : FindCached(f) \/ CacheHit(f) \/ CacheMiss(f) \/ Extract(f)
  BY <1>5, LookupKeepsT, CacheHitKeepsT, ExtractKeepsT
<1>6. CASE \E f \in File : Record(f) \/ Build(f)
  BY <1>6, RecordKeepsT, BuildKeepsT
<1>7. CASE UNCHANGED vars
  <2>1. TypeOK' /\ \A f \in sameMtime' : disk'[f] # Absent
    BY <1>7 DEF vars, TInv, TypeOK
  <2>2. Waiting' /\ Ahead' /\ EdgesInv'
    BY <1>7, SameLists, SameEdges DEF vars
  <2> QED
    BY <2>1, <2>2 DEF TInv
<1> QED
  BY <1>1, <1>2, <1>3, <1>4, <1>5, <1>6, <1>7 DEF Next, Analyzer

\* So both hold at every moment of every behaviour.
LEMMA SpecTInv == Spec => [](TInv /\ EdgesInv)
BY InitTInv, NextTInv, PTL DEF Spec

-----------------------------------------------------------------------------
(***************************************************************************)
(* SymbolDataCache: set never leaves more than max_entries entries, each   *)
(* in the order once, whatever was evicted to make room and whatever get   *)
(* deleted meanwhile; and lists, graph and builder keep their types.       *)
(***************************************************************************)
THEOREM AnalysisTypeCorrect == Spec => []TypeOK
<1>1. TInv /\ EdgesInv => TypeOK
  BY DEF TInv
<1> QED
  BY <1>1, SpecTInv, PTL

(***************************************************************************)
(* analyze_project_two_phase: when an analysis ends, a file it stored is   *)
(* linked to each of its imports, but those stored after it in the same    *)
(* analysis, whatever failed, was cached, edited or deleted on the way.    *)
(***************************************************************************)
THEOREM AnalysisDropsOnlyLater == Spec => []OnlyLaterStoresDropEdges
<1>1. TInv /\ EdgesInv => OnlyLaterStoresDropEdges
  <2> SUFFICES ASSUME TInv, EdgesInv, pc = "idle", NEW f \in ToSet(mapped)
               PROVE  /\ \A t \in builder[f].imports : Linked(graph, f, t) \/ StoredBefore(f, t)
                      /\ \A r \in DependenciesOf(graph, f) : r.tgt \in builder[f].imports
    BY DEF OnlyLaterStoresDropEdges
  <2>1. mapped \in Seq(File) /\ Done = Len(mapped)
    BY DEF TInv, TypeOK, Ahead, Done
  <2>2. PICK i \in 1 .. Done : mapped[i] = f
    BY <2>1 DEF ToSet
  <2>3. /\ \A t \in builder[f].imports :
             Linked(graph, f, t) \/ \E j \in i + 1 .. Done : mapped[j] = t
        /\ \A r \in DependenciesOf(graph, f) : r.tgt \in builder[f].imports
    BY <2>2 DEF EdgesInv
  <2>4. \A t : (\E j \in i + 1 .. Done : mapped[j] = t) => StoredBefore(f, t)
    BY <2>1, <2>2 DEF StoredBefore
  <2> QED
    BY <2>3, <2>4
<1> QED
  BY <1>1, SpecTInv, PTL

-----------------------------------------------------------------------------
(***************************************************************************)
(* SymbolDataCache: what is_valid accepts is the symbol data of the file's *)
(* content, but for a file edited between its parsing and its caching.     *)
(***************************************************************************)
THEOREM AnalysisCachedIsCurrent == Spec => []CachedIsCurrent
<1>1. IInv => CachedIsCurrent
  BY DEF IInv, CacheInv, CachedIsCurrent
<1> QED
  BY <1>1, SpecIInv, PTL

(***************************************************************************)
(* analyze_project_two_phase: between analyses, a file that is not touched *)
(* since its last_analyzed has the symbol data of its content.             *)
(***************************************************************************)
THEOREM AnalysisFreshSymbols == Spec => []FreshSymbolsCurrent
<1>1. IInv => FreshSymbolsCurrent
  BY DEF IInv, FreshInv, FreshSymbolsCurrent
<1> QED
  BY <1>1, SpecIInv, PTL

(***************************************************************************)
(* analyze_project_two_phase: when an analysis ends, the relationships of  *)
(* every file it stored name the lines their targets' symbol data gives.   *)
(***************************************************************************)
THEOREM AnalysisLinesCurrent == Spec => []LinesCurrent
<1>1. IInv => LinesCurrent
  <2> SUFFICES ASSUME IInv, pc = "idle", NEW r \in DOMAIN graph.relationships,
                      r.src \in ToSet(mapped)
               PROVE  r.detail = GetTargetLine(builder, r.tgt)
    BY DEF LinesCurrent, GetTargetLine
  <2>1. Contains(mapped, r.src)
    BY DEF IInv, Shape, ToSet, Contains
  <2> QED
    BY <2>1 DEF IInv, LinesInv
<1> QED
  BY <1>1, SpecIInv, PTL
=============================================================================
