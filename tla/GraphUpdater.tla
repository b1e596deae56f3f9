----------------------------- MODULE GraphUpdater -----------------------------
(***************************************************************************)
(* GraphUpdater.process_pending_changes (src/src/xfile_context/            *)
(* graph_updater.py) on the service's thread, against the watcher thread   *)
(* of FileWatcher (src/src/xfile_context/file_watcher.py), which stamps    *)
(* file_event_timestamps with no lock, and the user who edits files.       *)
(*                                                                         *)
(* The dict of timestamps is the sequence of its keys, in the order the    *)
(* iteration visits them: assigning to a key it has changes nothing of     *)
(* that order, a new key makes the next step of the iteration raise        *)
(* RuntimeError.  The times themselves are read by nobody here.  Files lie *)
(* under the project root; update_on_create and update_on_modify differ    *)
(* only in statistics, as no step of an analysis raises.                   *)
(***************************************************************************)
EXTENDS AnalyzerOps, SequencesExt

CONSTANTS
  Contents,  \* Contents[f]: what an edit may leave in f (Absent included)
  MaxEdits,  \* bound on the edits of a behaviour
  EditAt,    \* where the updater may be when the user edits
  HearAt     \* where the updater may be when the watcher stamps

Places == {"idle", "loop", "analyze", "store", "delete", "clear"}

ASSUME UpdaterAssumption ==
  /\ MaxEdits \in Nat /\ EditAt \subseteq Places /\ HearAt \subseteq Places
  /\ "deleted" \in Status
  /\ \A f \in File : Contents[f] \subseteq Disk

VARIABLES
  disk,      \* f -> content or Absent
  touched,   \* files whose mtime is later than their last_analyzed
  graph,     \* the RelationshipGraph
  builder,   \* the RelationshipBuilder
  unheard,   \* files edited whose event has not reached the watcher
  stamped,   \* the keys of file_event_timestamps, in their order
  pc,        \* where the updater is
  next,      \* the position of the iteration, 0 when there is none
  keys,      \* the number of keys when the iteration began
  current,   \* the file being handled, NoData when there is none
  data,      \* the symbol data just extracted from current
  quietly,   \* edits came only between calls, events not just before clear() (history)
  edits      \* edits made so far

vars == <<disk, touched, graph, builder, unheard, stamped, pc, next, keys, current, data, quietly, edits>>

files   == <<disk, unheard, quietly, edits>>
results == <<touched, graph, builder>>
loop    == <<next, keys>>

\* the watcher is started on an empty project
Init ==
  /\ disk = [f \in File |-> Absent]
  /\ touched = {} /\ graph = EmptyGraph /\ builder = EmptyDict
  /\ unheard = {} /\ stamped = <<>>
  /\ pc = "idle" /\ next = 0 /\ keys = 0 /\ current = NoData /\ data = NoData
  /\ quietly = TRUE /\ edits = 0

-----------------------------------------------------------------------------
\* the user saves, creates or deletes a file
Edit(f, c) ==
  /\ edits < MaxEdits /\ pc \in EditAt
  /\ c \in Contents[f] /\ c # disk[f]
  /\ disk' = [disk EXCEPT ![f] = c]
  /\ touched' = IF c = Absent THEN touched \ {f} ELSE touched \cup {f}
  /\ unheard' = unheard \cup {f}
  /\ quietly' = (quietly /\ pc = "idle") /\ edits' = edits + 1
  /\ UNCHANGED <<graph, builder, stamped, pc, loop, current, data>>

\* the watcher thread: _handle_event and update_timestamp
Hear(f) ==
  /\ f \in unheard /\ pc \in HearAt
  /\ unheard' = unheard \ {f}
  /\ stamped' = IF Contains(stamped, f) THEN stamped ELSE Append(stamped, f)
  /\ quietly' = (quietly /\ pc # "clear")
  /\ UNCHANGED <<disk, edits, results, pc, loop, current, data>>

-----------------------------------------------------------------------------
\* service.analyze_file(f)
AnalyzeFile(f) ==
  /\ pc = "idle"
  /\ pc' = "analyze" /\ current' = f
  /\ UNCHANGED <<files, results, stamped, loop, data>>

Process ==
  /\ pc = "idle"
  /\ pc' = "loop" /\ next' = 1 /\ keys' = Len(stamped)
  /\ UNCHANGED <<files, results, stamped, current, data>>

\* the iteration sees that the dict has grown, before it looks for a next key
DictGrew == Len(stamped) # keys

ForgetsOnError ==
  /\ pc = "loop" /\ DictGrew
  /\ stamped' = <<>>
  /\ pc' = "idle" /\ next' = 0 /\ keys' = 0
  /\ UNCHANGED <<files, results, current, data>>

\* RuntimeError leaves process_pending_changes: the timestamps are kept
Abort ==
  /\ pc = "loop" /\ DictGrew
  /\ pc' = "idle" /\ next' = 0 /\ keys' = 0
  /\ UNCHANGED <<files, results, stamped, current, data>>

\* Path(f).exists() tells a deletion from the other events
Visit(f) ==
  /\ pc = "loop" /\ ~ DictGrew /\ next <= keys /\ f = stamped[next]
  /\ current' = f
  /\ pc' = IF disk[f] = Absent THEN "delete" ELSE "analyze"
  /\ UNCHANGED <<files, results, stamped, loop, data>>

\* phase 1 of update_on_create, update_on_modify or analyze_file
Extract(f) ==
  /\ pc = "analyze" /\ f = current
  /\ data' = ExtractFileSymbols(disk, f)
  /\ pc' = "store"
  /\ UNCHANGED <<files, results, stamped, loop, current>>

RetriesFailed(ok) == IF ok THEN next + 1 ELSE next

\* the iteration goes on whether the update succeeded or not
NextPosition(ok) == next + 1

Handled(ok) ==
  /\ IF next = 0 THEN pc' = "idle" /\ next' = 0
                 ELSE pc' = "loop" /\ next' = NextPosition(ok)
  /\ current' = NoData /\ data' = NoData

Store(f) ==
  /\ pc = "store" /\ f = current
  /\ LET result == AnalyzeFileTwoPhase(graph, builder, disk, f, data)
     IN /\ graph' = result.graph /\ builder' = result.builder
        /\ Handled(result.ok)
  /\ touched' = IF data = NoData THEN touched ELSE touched \ {f}
  /\ UNCHANGED <<files, stamped, keys>>

DropsOutgoingOnly(g, f) ==
  SetFileMetadata(RemoveOutgoingRelationships(g, f), f, NewMetadata("deleted"))

\* the symbol data of a deleted file stays in the builder
WithoutFile(g, f) ==
  SetFileMetadata(RemoveRelationshipsForFile(g, f), f, NewMetadata("deleted"))

\* update_on_delete
Delete(f) ==
  /\ pc = "delete" /\ f = current
  /\ graph' = WithoutFile(graph, f)
  /\ touched' = touched \ {f}
  /\ Handled(TRUE)
  /\ UNCHANGED <<files, builder, stamped, keys>>

LoopEnds ==
  /\ pc = "loop" /\ ~ DictGrew /\ next > keys
  /\ pc' = "clear" /\ next' = 0 /\ keys' = 0
  /\ UNCHANGED <<files, results, stamped, current, data>>

Clear ==
  /\ pc = "clear"
  /\ stamped' = <<>>
  /\ pc' = "idle"
  /\ UNCHANGED <<files, results, loop, current, data>>

-----------------------------------------------------------------------------
Updater ==
  \/ Abort \/ LoopEnds \/ Clear
  \/ \E f \in File : Visit(f) \/ Extract(f) \/ Store(f) \/ Delete(f)

Next ==
  \/ \E f \in File : \E c \in Contents[f] : Edit(f, c)
  \/ \E f \in File : Hear(f) \/ AnalyzeFile(f)
  \/ Process
  \/ Updater

Spec == Init /\ [][Next]_vars

\* the thread that processes the changes runs on
FairSpec == Spec /\ WF_vars(Updater)

-----------------------------------------------------------------------------
StatusOf(f) == IF f \in DOMAIN graph.file_metadata THEN graph.file_metadata[f].status ELSE NoData
Parses(f)   == disk[f] # Absent /\ disk[f].kind = "ok"

\* an import that was unresolved when f was read is not one of a file
SymbolsCurrent(f) ==
  /\ f \in DOMAIN builder /\ builder[f].line = disk[f].line
  /\ builder[f].imports \cap File \subseteq disk[f].imports

\* the metadata of f says what is on disk, and no relationship leads to or from nothing
MatchesDisk(f) ==
  /\ disk[f] = Absent =>
       /\ StatusOf(f) \in {NoData, "deleted"}
       /\ DependenciesOf(graph, f) \cup DependentsOf(graph, f) = {}
  /\ Parses(f) => StatusOf(f) = "analyzed" /\ SymbolsCurrent(f)
  /\ disk[f] # Absent /\ disk[f].kind = "broken" => StatusOf(f) = "unparseable"

Quiet == quietly /\ pc = "idle" /\ unheard = {} /\ stamped = <<>>

(***************************************************************************)
(* Once every event was heard and processed, the metadata of each file     *)
(* says what is on disk and the symbol data kept of it is that of its      *)
(* content: whatever was created, broken, deleted and created again before *)
(* it was processed, and however often an event that came in the middle    *)
(* made process_pending_changes raise.  This is for edits made between the *)
(* calls, whose events may come during one but not just before clear().    *)
(* Nor is there then a relationship that starts or ends in a file that     *)
(* does not exist, even when a file that imported it was analyzed before   *)
(* or after the deletion was processed.                                    *)
(***************************************************************************)
QuietMatchesDisk == Quiet => \A f \in File : MatchesDisk(f)

(***************************************************************************)
(* An event stamped while the changes are processed may be cleared with    *)
(* the others and forgotten.  The resolver then still finds the file: one  *)
(* it would not re-analyze (mtime not after last_analyzed) has metadata    *)
(* and symbol data of its content.  This is for edits outside of "store"   *)
(* and "delete", where the stamp that follows hides them.                  *)
(***************************************************************************)
MtimeBacksUpEvents ==
  pc = "idle" => \A f \in File :
    Parses(f) /\ f \in DOMAIN graph.file_metadata /\ f \notin touched =>
      StatusOf(f) = "analyzed" /\ SymbolsCurrent(f)

(***************************************************************************)
(* process_pending_changes and analyze_file return, whatever is edited     *)
(* and stamped meanwhile.                                                  *)
(***************************************************************************)
ProcessingEnds == []<>(pc = "idle")
=============================================================================
