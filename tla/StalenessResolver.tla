-------------------------- MODULE StalenessResolver --------------------------
(***************************************************************************)
(* A read through CrossFileContextService.read_file_with_context           *)
(* (src/src/xfile_context/service.py) and the staleness resolution it runs *)
(* first (src/src/xfile_context/staleness_resolver.py), against a user who *)
(* edits, creates and deletes files at any time.                           *)
(*                                                                         *)
(* One read at a time: the server answers its calls on one thread.  The    *)
(* editor is another process and may act between any two accesses of the   *)
(* resolver to the disk.  Timestamps are abstracted to the one comparison  *)
(* made of them: touched holds the files with mtime > last_analyzed.  An   *)
(* edit touches the file; stamping metadata with time.time() untouches it. *)
(***************************************************************************)
EXTENDS AnalyzerOps, TopologicalSort

CONSTANTS
  Contents,        \* Contents[f]: what an edit may leave in f (Absent included)
  Initial,         \* the disk when the service starts
  ReadTargets,     \* the files the user reads
  MaxEdits,        \* bound on the edits of a behaviour
  EditDuringRead   \* whether edits may fall between two steps of one read

ASSUME ResolverAssumption ==
  /\ MaxEdits \in Nat /\ EditDuringRead \in BOOLEAN /\ ReadTargets \subseteq File
  /\ Initial \in [File -> Disk]
  /\ \A f \in File : Contents[f] \subseteq Disk

VARIABLES
  disk,      \* f -> content or Absent
  touched,   \* files whose mtime is later than their last_analyzed
  graph,     \* the RelationshipGraph
  builder,   \* the RelationshipBuilder
  pc,        \* where the service is in the read
  target,    \* the file being read, NoData between reads
  copy,      \* dependency_graph_copy
  stale,     \* stale_files
  todo,      \* files the current loop has still to process, in order
  data,      \* the symbol data just extracted from Head(todo)
  edits,     \* edits made so far
  disturbed  \* ghost: files edited since the current read began

vars == <<disk, touched, graph, builder, pc, target, copy, stale, todo, data, edits, disturbed>>

read == <<target, copy, stale>>

Init ==
  /\ disk = Initial
  /\ touched = {} /\ graph = EmptyGraph /\ builder = EmptyDict
  /\ pc = "idle" /\ target = NoData
  /\ copy = EmptyDict /\ stale = {} /\ todo = <<>> /\ data = NoData
  /\ edits = 0 /\ disturbed = {}

-----------------------------------------------------------------------------
\* the user saves, creates or deletes a file
Edit(f, c) ==
  /\ edits < MaxEdits
  /\ pc = "idle" \/ EditDuringRead
  /\ c \in Contents[f] /\ c # disk[f]
  /\ disk' = [disk EXCEPT ![f] = c]
  /\ touched' = IF c = Absent THEN touched \ {f} ELSE touched \cup {f}
  /\ edits' = edits + 1
  /\ disturbed' = IF pc = "idle" THEN {} ELSE disturbed \cup {f}
  /\ UNCHANGED <<graph, builder, pc, read, todo, data>>

-----------------------------------------------------------------------------
NeedsAnalysis(f) ==
  /\ disk[f] # Absent
  /\ f \in DOMAIN graph.file_metadata => f \in touched

FindStaleFiles(t, index) ==
  {f \in File \cap ({t} \cup TransitiveDependencies(index, t)) : NeedsAnalysis(f)}

\* a read of a missing file raises FileNotFoundError before anything happens
StartRead(t) ==
  /\ pc = "idle"
  /\ disk[t] # Absent
  /\ pc' = "resolve" /\ target' = t /\ disturbed' = {}
  /\ UNCHANGED <<disk, touched, graph, builder, copy, stale, todo, data, edits>>

\* steps 1 to 3 of resolve_staleness, with the early return
Resolve ==
  /\ pc = "resolve"
  /\ copy' = graph.dependencies
  /\ stale' = FindStaleFiles(target, copy')
  /\ todo' = Sorted(stale', copy')
  /\ pc' = IF stale' = {} THEN "answer" ELSE "unlink"
  /\ UNCHANGED <<disk, touched, graph, builder, target, data, edits, disturbed>>

(***************************************************************************)
(* _remove_relationships_and_mark_pending, one stale file per step.        *)
(***************************************************************************)
MarksNobody(g, files) == g

PendingMarked(g, files) ==
  [g EXCEPT !.file_metadata =
     [f \in DOMAIN @ |-> IF f \in files THEN [@[f] EXCEPT !.pending = TRUE] ELSE @[f]]]

Unlink(f) ==
  /\ pc = "unlink" /\ todo # <<>> /\ f = Head(todo)
  /\ LET unlinked == RemoveOutgoingRelationships(graph, f)
     IN graph' = PendingMarked(unlinked, GetSet(unlinked.dependents, f))
  /\ todo' = Tail(todo)
  /\ UNCHANGED <<disk, touched, builder, pc, read, data, edits, disturbed>>

SchedulesOnlyStale ==
  /\ pc = "unlink" /\ todo = <<>>
  /\ todo' = Sorted(stale, copy)
  /\ pc' = "process"
  /\ UNCHANGED <<disk, touched, graph, builder, read, data, edits, disturbed>>

\* not what an earlier read marked
SchedulesOwnMarks ==
  /\ pc = "unlink" /\ todo = <<>>
  /\ LET marked == {f \in FilesWithPending(graph) : GetSet(copy, f) \cap stale # {}}
     IN todo' = Sorted((stale \cup marked) \cap ({target} \cup TransitiveDependencies(copy, target)), copy)
  /\ pc' = "process"
  /\ UNCHANGED <<disk, touched, graph, builder, read, data, edits, disturbed>>

\* _get_files_to_process
Schedule ==
  /\ pc = "unlink" /\ todo = <<>>
  /\ LET reachable == {target} \cup TransitiveDependencies(copy, target)
     IN todo' = Sorted((stale \cup FilesWithPending(graph)) \cap reachable, copy)
  /\ pc' = "process"
  /\ UNCHANGED <<disk, touched, graph, builder, read, data, edits, disturbed>>

(***************************************************************************)
(* _process_files.  A stale file is read from disk in one step and its     *)
(* analysis stored, and stamped with the time, in a later one.             *)
(***************************************************************************)
Extract(f) ==
  /\ pc = "process" /\ todo # <<>> /\ f = Head(todo) /\ f \in stale
  /\ data' = ExtractFileSymbols(disk, f)
  /\ pc' = "store"
  /\ UNCHANGED <<disk, touched, graph, builder, read, todo, edits, disturbed>>

StopsOnFailure(ok)   == IF ok THEN Tail(todo) ELSE <<>>
RetriesOnFailure(ok) == IF ok THEN Tail(todo) ELSE todo

\* processing continues whether or not the analysis of the first file succeeded
AfterStored(ok) == Tail(todo)

Store(f) ==
  /\ pc = "store" /\ f = Head(todo)
  /\ LET result == AnalyzeFileTwoPhase(graph, builder, disk, f, data)
     IN /\ graph' = SetPending(result.graph, f, FALSE)
        /\ builder' = result.builder
        /\ todo' = AfterStored(result.ok)
  /\ touched' = IF data = NoData THEN touched ELSE touched \ {f}
  /\ data' = NoData
  /\ pc' = "process"
  /\ UNCHANGED <<disk, read, edits, disturbed>>

RebuildsOnTop(f) ==
  IF f \in DOMAIN builder
    THEN AddAll(graph, Once(BuildRelationshipsForFile(builder, f)))
    ELSE graph

\* _rebuild_relationships_for_file; the flag is cleared even if there is no symbol data
Rebuilt(f) ==
  IF f \in DOMAIN builder
    THEN AddAll(RemoveOutgoingRelationships(graph, f),
                Once(BuildRelationshipsForFile(builder, f)))
    ELSE graph

Rebuild(f) ==
  /\ pc = "process" /\ todo # <<>> /\ f = Head(todo) /\ f \notin stale
  /\ graph' = SetPending(Rebuilt(f), f, FALSE)
  /\ todo' = Tail(todo)
  /\ UNCHANGED <<disk, touched, builder, pc, read, data, edits, disturbed>>

Finish ==
  /\ pc = "process" /\ todo = <<>>
  /\ pc' = "answer"
  /\ UNCHANGED <<disk, touched, graph, builder, read, todo, data, edits, disturbed>>

\* get_dependencies(target) is read and the context assembled from it
Answer ==
  /\ pc = "answer"
  /\ pc' = "idle"
  /\ target' = NoData /\ copy' = EmptyDict /\ stale' = {} /\ disturbed' = {}
  /\ UNCHANGED <<disk, touched, graph, builder, todo, data, edits>>

-----------------------------------------------------------------------------
Service ==
  \/ Resolve \/ Schedule \/ Finish \/ Answer
  \/ \E f \in File : Unlink(f) \/ Extract(f) \/ Store(f) \/ Rebuild(f)

Next ==
  \/ \E f \in File : \E c \in Contents[f] : Edit(f, c)
  \/ \E t \in ReadTargets : StartRead(t)
  \/ Service

Spec == Init /\ [][Next]_vars

\* the thread that serves the read runs on until it has answered
FairSpec == Spec /\ WF_vars(Service)

-----------------------------------------------------------------------------
Analyzed(f) == /\ f \in DOMAIN graph.file_metadata
               /\ graph.file_metadata[f].status = "analyzed"
Pending(f)  == f \in FilesWithPending(graph)
Parses(f)   == disk[f] # Absent /\ disk[f].kind = "ok"

\* the relationships of f that its content and those of its imports call for
EdgesOnDisk(f) ==
  {[src |-> f, tgt |-> ResolveModule(disk, t), site |-> "import",
    detail |-> IF disk[t] = Absent THEN NoLine ELSE disk[t].line] : t \in disk[f].imports}

(***************************************************************************)
(* A project in layers, read from its root: each file imports files of the *)
(* layer below it, the same ones whatever is edited, and always parses     *)
(* unless it imports nothing.  The documented diamond is one.              *)
(***************************************************************************)
Layered(contents, initial, targets, layer, root) ==
  /\ targets = {root} /\ root \in File
  /\ \A f \in File :
       /\ layer[f] \in Nat
       /\ \A t \in initial[f].imports : layer[t] = layer[f] + 1
       /\ \A c \in contents[f] \cup {initial[f]} :
            c # Absent /\ c.imports = initial[f].imports /\ (c.kind = "ok" \/ c.imports = {})

(***************************************************************************)
(* When a read answers and nothing was edited meanwhile, the relationships *)
(* of the file read are those its content on disk calls for, and carry the *)
(* lines its dependencies define their symbols on now.                     *)
(***************************************************************************)
AnswerMatchesDisk ==
  pc = "answer" /\ disturbed = {} /\ Parses(target)
    /\ (\A t \in disk[target].imports : disk[t] = Absent \/ Parses(t))
  => DependenciesOf(graph, target) = EdgesOnDisk(target)

(***************************************************************************)
(* Between reads, a file analyzed and no longer marked pending has every   *)
(* relationship its symbol data calls for: re-analyzing a dependency drops *)
(* the relationships that end in it, and each one dropped is rebuilt or    *)
(* still announced by the pending flag.                                    *)
(***************************************************************************)
NoEdgeSilentlyLost ==
  pc = "idle" =>
    \A f \in File : Analyzed(f) /\ ~ Pending(f) =>
      {r.tgt : r \in DependenciesOf(graph, f)} = builder[f].imports

(***************************************************************************)
(* Between reads, a file the resolver would not re-analyze has the symbol  *)
(* data of its content on disk.                                            *)
(***************************************************************************)
FreshSymbolsCurrent ==
  pc = "idle" =>
    \A f \in File :
      Analyzed(f) /\ disk[f] # Absent /\ f \notin touched =>
        f \in DOMAIN builder /\ builder[f] = ExtractFileSymbols(disk, f)

(***************************************************************************)
(* When a read answers and nothing was edited meanwhile, the resolver      *)
(* would not now find anything stale along the dependencies it walked: no  *)
(* file it had to re-analyze was passed over because an earlier one did    *)
(* not parse or was re-analyzed first.  An unreadable file stays stale.    *)
(***************************************************************************)
Unreadable(f) == disk[f] # Absent /\ disk[f].kind = "unreadable"

NothingStaleBehindAnswer ==
  pc = "answer" /\ disturbed = {} =>
    \A f \in FindStaleFiles(target, copy) : Unreadable(f)

(***************************************************************************)
(* Every relationship, at any moment of a read, is one the symbol data of  *)
(* its source calls for, and is in the list once: a rebuild or a second    *)
(* analysis of one file replaces its relationships.                        *)
(***************************************************************************)
EdgesFromSymbolsOnce ==
  \A r \in DOMAIN graph.relationships :
    /\ r.src \in DOMAIN builder /\ r.tgt \in builder[r.src].imports
    /\ r \notin DuplicateErrors(graph)

(***************************************************************************)
(* A read that found anything stale answers with no pending file left      *)
(* along the dependencies it walked, neither one it marked itself nor one  *)
(* that an earlier read marked and had no way to.  (A read that finds      *)
(* nothing stale returns before it looks for pending files.)               *)
(***************************************************************************)
PendingTakenUp ==
  pc = "answer" /\ stale # {} =>
    FilesWithPending(graph) \cap ({target} \cup TransitiveDependencies(copy, target)) = {}

(***************************************************************************)
(* A read that began is answered, whatever comes of each analysis: a file  *)
(* that does not parse is left behind, not tried again.                    *)
(***************************************************************************)
ReadAnswered == []<>(pc = "idle")
=============================================================================
