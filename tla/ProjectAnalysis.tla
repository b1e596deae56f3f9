--------------------------- MODULE ProjectAnalysis ---------------------------
(***************************************************************************)
(* CrossFileContextService.analyze_directory (src/src/xfile_context/       *)
(* service.py): PythonAnalyzer.analyze_project_two_phase                   *)
(* (src/src/xfile_context/analyzers/python_analyzer.py) over the files of  *)
(* the project, with the SymbolDataCache                                   *)
(* (src/src/xfile_context/symbol_cache.py) that spares it the files whose  *)
(* mtime has not changed, against a user who edits files.                  *)
(*                                                                         *)
(* Phase 1 reads the files one by one; phase 2 stores their relationships  *)
(* one by one.  Timestamps are abstracted to the comparisons made of them: *)
(* touched holds the files with mtime > last_analyzed, sameMtime those     *)
(* cached whose mtime is the one cached with them.                         *)
(***************************************************************************)
EXTENDS AnalyzerOps, SequencesExt

CONSTANTS
  Contents,     \* Contents[f]: what an edit may leave in f (Absent included)
  MaxEntries,   \* symbol_cache_max_entries
  MaxEdits      \* bound on the edits of a behaviour

ASSUME AnalysisAssumption ==
  /\ MaxEntries \in Nat \ {0} /\ MaxEdits \in Nat /\ IsFiniteSet(File)
  /\ \A f \in File : Contents[f] \subseteq Disk

VARIABLES
  disk,       \* f -> content or Absent
  touched,    \* files whose mtime is later than their last_analyzed
  graph,      \* the RelationshipGraph
  builder,    \* the RelationshipBuilder
  cached,     \* the SymbolDataCache: f -> symbol data
  recency,    \* the keys of cached in the order of the OrderedDict
  sameMtime,  \* the files cached with the mtime they have now
  pc,         \* "idle", "extract", "get", "parse", "record" or "build"
  todo,       \* the files the current phase has still to process, in order
  data,       \* the symbol data just extracted from Head(todo)
  mapped,     \* the keys of symbol_data_map, in order
  unseen,     \* ghost: the files edited after they were read, before they were stamped
  edits       \* edits made so far

vars == <<disk, touched, graph, builder, cached, recency, sameMtime, pc, todo, data, mapped,
          unseen, edits>>

files   == <<disk, unseen, edits>>
symbols == <<cached, recency, sameMtime>>

Init ==
  /\ disk \in [File -> Disk] /\ \A f \in File : disk[f] \in Contents[f]
  /\ touched = {} /\ graph = EmptyGraph /\ builder = EmptyDict
  /\ cached = EmptyDict /\ recency = <<>> /\ sameMtime = {}
  /\ pc = "idle" /\ todo = <<>> /\ data = NoData /\ mapped = <<>>
  /\ unseen = {} /\ edits = 0

-----------------------------------------------------------------------------
\* read in the current analysis, and not yet stamped by it
ReadNotStamped(f) ==
  \/ pc = "record" /\ f = Head(todo)
  \/ pc \in {"extract", "get", "parse", "record"} /\ Contains(mapped, f)
  \/ pc = "build" /\ Contains(todo, f)

\* the user saves, creates or deletes a file
Edit(f, c) ==
  /\ edits < MaxEdits
  /\ c \in Contents[f] /\ c # disk[f]
  /\ disk' = [disk EXCEPT ![f] = c]
  /\ touched' = IF c = Absent THEN touched \ {f} ELSE touched \cup {f}
  /\ sameMtime' = sameMtime \ {f}
  /\ unseen' = IF ReadNotStamped(f) THEN unseen \cup {f} ELSE unseen \ {f}
  /\ edits' = edits + 1
  /\ UNCHANGED <<graph, builder, cached, recency, pc, todo, data, mapped>>

-----------------------------------------------------------------------------
\* rglob lists the files that exist, in the order of the directory
AnalyzeDirectory ==
  /\ pc = "idle"
  /\ todo' \in SetToSeqs({f \in File : disk[f] # Absent})
  /\ pc' = "extract" /\ mapped' = <<>>
  /\ UNCHANGED <<files, touched, graph, builder, symbols, data>>

IgnoresMtime(f) == f \in DOMAIN cached /\ disk[f] # Absent

\* SymbolDataCache.is_valid: the file exists and has the mtime cached with it
IsValid(f) == f \in DOMAIN cached /\ disk[f] # Absent /\ f \in sameMtime

\* builder.remove_file_data, builder.add_file_data, symbol_data_map[f] = data
Known(f, symbolData) ==
  /\ builder' = AddFileData(builder, f, symbolData)
  /\ mapped' = Append(mapped, f)

\* OrderedDict: the order of the keys when one is deleted, or moved to the end
Without(keys, k) ==
  IF Contains(keys, k) THEN RemoveAt(keys, CHOOSE i \in 1 .. Len(keys) : keys[i] = k) ELSE keys
MovedToEnd(keys, k) == Append(Without(keys, k), k)

\* symbol_cache.is_valid(f), and get(f), which checks the mtime again
FindCached(f) ==
  /\ pc = "extract" /\ todo # <<>> /\ f = Head(todo) /\ IsValid(f)
  /\ pc' = "get"
  /\ UNCHANGED <<files, touched, graph, builder, symbols, todo, data, mapped>>

CacheHit(f) ==
  /\ pc = "get" /\ f = Head(todo) /\ IsValid(f)
  /\ recency' = MovedToEnd(recency, f)
  /\ Known(f, cached[f])
  /\ todo' = Tail(todo)
  /\ pc' = "extract"
  /\ UNCHANGED <<files, touched, graph, cached, sameMtime, data>>

\* edited since: get deletes the entry
CacheMiss(f) ==
  /\ pc = "get" /\ f = Head(todo) /\ ~ IsValid(f)
  /\ cached' = Del(cached, f)
  /\ recency' = Without(recency, f)
  /\ pc' = "parse"
  /\ UNCHANGED <<files, touched, graph, builder, sameMtime, todo, data, mapped>>

Extract(f) ==
  /\ \/ pc = "extract" /\ todo # <<>> /\ f = Head(todo) /\ ~ IsValid(f)
     \/ pc = "parse" /\ f = Head(todo)
  /\ data' = ExtractFileSymbols(disk, f)
  /\ pc' = "record"
  /\ UNCHANGED <<files, touched, graph, builder, symbols, todo, mapped>>

EvictsWhenOver == IF Len(recency) > MaxEntries THEN Head(recency) ELSE NoData

(***************************************************************************)
(* The key SymbolDataCache.set evicts: at the limit, the oldest, whether   *)
(* or not the file stored is in the cache already.                         *)
(***************************************************************************)
Evicted == IF Len(recency) >= MaxEntries THEN Head(recency) ELSE NoData

KeepsOldEntry(f) ==
  /\ cached' = IF f \in DOMAIN cached THEN cached ELSE Put(Del(cached, Evicted), f, data)
  /\ recency' = MovedToEnd(IF f \in DOMAIN cached THEN recency
                           ELSE Without(recency, Evicted), f)
  /\ sameMtime' = (sameMtime \ {Evicted}) \cup {f}

\* SymbolDataCache.set: the mtime is read here, once the file has been parsed
CacheSet(f) ==
  IF disk[f] = Absent THEN UNCHANGED symbols
  ELSE /\ cached' = Put(Del(cached, Evicted), f, data)
       /\ recency' = MovedToEnd(Without(recency, Evicted), f)
       /\ sameMtime' = (sameMtime \ {Evicted}) \cup {f}

RecordValid(f) ==
  /\ CacheSet(f)
  /\ Known(f, data)
  /\ UNCHANGED <<touched, graph>>

RecordInvalid(f) ==
  /\ graph' = MarkUnparseable(graph, f)
  /\ touched' = touched \ {f}
  /\ UNCHANGED <<builder, symbols, mapped>>

\* a file that fails is counted, and left
AfterRecorded(ok) == Tail(todo)

\* the rest of phase 1 for one file
Record(f) ==
  /\ pc = "record" /\ f = Head(todo)
  /\ IF data = NoData THEN UNCHANGED <<touched, graph, builder, symbols, mapped>>
     ELSE IF data.valid THEN RecordValid(f)
     ELSE RecordInvalid(f)
  /\ todo' = AfterRecorded(data # NoData /\ data.valid)
  /\ data' = NoData
  /\ pc' = "extract"
  /\ UNCHANGED files

StoresBackwards ==
  /\ pc = "extract" /\ todo = <<>>
  /\ pc' = "build" /\ todo' = Reverse(mapped)
  /\ UNCHANGED <<files, touched, graph, builder, symbols, data, mapped>>

\* phase 2 goes through symbol_data_map in the order it was filled
StartBuild ==
  /\ pc = "extract" /\ todo = <<>>
  /\ pc' = "build" /\ todo' = mapped
  /\ UNCHANGED <<files, touched, graph, builder, symbols, data, mapped>>

SkipsUnchanged(f) ==
  IF f \in DOMAIN graph.file_metadata /\ f \notin touched THEN graph
  ELSE StoreRelationships(graph, f, BuildRelationshipsForFile(builder, f))

Stored(f) == StoreRelationships(graph, f, BuildRelationshipsForFile(builder, f))

\* phase 2 for one file
Build(f) ==
  /\ pc = "build" /\ todo # <<>> /\ f = Head(todo)
  /\ graph' = Stored(f)
  /\ touched' = touched \ {f}
  /\ todo' = Tail(todo)
  /\ UNCHANGED <<files, builder, symbols, pc, data, mapped>>

Finish ==
  /\ pc = "build" /\ todo = <<>>
  /\ pc' = "idle"
  /\ UNCHANGED <<files, touched, graph, builder, symbols, todo, data, mapped>>

-----------------------------------------------------------------------------
Analyzer ==
  \/ StartBuild \/ Finish
  \/ \E f \in File : FindCached(f) \/ CacheHit(f) \/ CacheMiss(f) \/ Extract(f)
  \/ \E f \in File : Record(f) \/ Build(f)

Next ==
  \/ \E f \in File : \E c \in Contents[f] : Edit(f, c)
  \/ AnalyzeDirectory
  \/ Analyzer

Spec == Init /\ [][Next]_vars

-----------------------------------------------------------------------------
\* the symbol cache never holds more than its limit, nor anything but what parsed
TypeOK ==
  /\ disk \in [File -> Disk] /\ touched \in SUBSET File /\ unseen \in SUBSET File
  /\ GraphType(graph) /\ IsDict(builder, File, Symbols) /\ IsDict(cached, File, Symbols)
  /\ recency \in Seq(File) /\ ToSet(recency) = DOMAIN cached
  /\ IsInjective(recency) /\ Len(recency) <= MaxEntries
  /\ sameMtime \in SUBSET DOMAIN cached
  /\ pc \in {"idle", "extract", "get", "parse", "record", "build"}
  /\ todo \in Seq(File) /\ mapped \in Seq(File) /\ IsInjective(todo) /\ IsInjective(mapped)
  /\ data \in IF pc = "record" THEN {NoData, Invalid} \cup Symbols ELSE {NoData}
  /\ edits \in 0..MaxEdits

\* symbol data that the content of f gives, or gave when fewer of its imports existed
Describes(symbolData, f) ==
  /\ disk[f] # Absent /\ disk[f].kind = "ok" /\ symbolData.line = disk[f].line
  /\ symbolData.imports \cap File \subseteq disk[f].imports

(***************************************************************************)
(* What the symbol cache takes for valid is the symbol data of the file's  *)
(* content, whatever was evicted, edited, broken or deleted meanwhile; but *)
(* for a file edited between its parsing and the mtime read for it.        *)
(***************************************************************************)
CachedIsCurrent ==
  \A f \in DOMAIN cached \ unseen : IsValid(f) => Describes(cached[f], f)

(***************************************************************************)
(* Between analyses, a file the resolver would not re-analyze (mtime not   *)
(* after last_analyzed) has the symbol data of its content in the builder, *)
(* cached or not; but for a file edited between phase 1 and phase 2.       *)
(***************************************************************************)
FreshSymbolsCurrent ==
  pc = "idle" =>
    \A f \in DOMAIN graph.file_metadata \ (touched \cup unseen) :
      disk[f] # Absent /\ graph.file_metadata[f].status = "analyzed" =>
        f \in DOMAIN builder /\ Describes(builder[f], f)

(***************************************************************************)
(* What two phases are for: when an analysis ends, every relationship of a *)
(* file it stored names the line its target defines its symbol on now,     *)
(* even if the target was read after the file, or the file came from the   *)
(* cache and only the target changed.                                      *)
(***************************************************************************)
LinesCurrent ==
  pc = "idle" =>
    \A r \in DOMAIN graph.relationships :
      r.src \in ToSet(mapped) =>
        r.detail = IF r.tgt \in DOMAIN builder THEN builder[r.tgt].line ELSE NoLine

StoredBefore(f, t) == \E i, j \in DOMAIN mapped : i < j /\ mapped[i] = f /\ mapped[j] = t

(***************************************************************************)
(* A file stored has a relationship to each of its imports, except those   *)
(* stored later in the same analysis: no failure, cache hit or deletion    *)
(* costs another one.                                                      *)
(***************************************************************************)
OnlyLaterStoresDropEdges ==
  pc = "idle" =>
    \A f \in ToSet(mapped) :
      /\ \A t \in builder[f].imports : Linked(graph, f, t) \/ StoredBefore(f, t)
      /\ \A r \in DependenciesOf(graph, f) : r.tgt \in builder[f].imports

(***************************************************************************)
(* "This method provides the full benefit of two-phase analysis by: ...    *)
(* Building relationships with cross-file resolution" (python_analyzer.py, *)
(* analyze_project_two_phase): a file stored has a relationship to each    *)
(* import its symbol data names.                                           *)
(***************************************************************************)
EveryImportRelated ==
  pc = "idle" =>
    \A f \in ToSet(mapped) : \A t \in builder[f].imports : Linked(graph, f, t)
=============================================================================
