----------------------------- MODULE AnalyzerOps -----------------------------
(***************************************************************************)
(* The two-phase analysis: PythonAnalyzer.extract_file_symbols and         *)
(* analyze_file_two_phase (src/src/xfile_context/analyzers/                *)
(* python_analyzer.py) with the RelationshipBuilder they share             *)
(* (src/src/xfile_context/relationship_builder.py), as operators on a      *)
(* graph, a builder and a disk.                                            *)
(*                                                                         *)
(* A file on disk is Absent or a content: a record of its kind ("ok",      *)
(* "broken": ast.parse fails or times out, "unreadable": _read_file gives  *)
(* None, as for a file of too many lines), the files its import statements *)
(* name, and the line on which it defines the symbol the others import.    *)
(* The builder maps a file to its FileSymbolData; the definition index is  *)
(* a function of that map and is not kept apart.                           *)
(***************************************************************************)
EXTENDS GraphOps

CONSTANTS
  Absent,       \* the file does not exist
  NoData,       \* extract_file_symbols returned None
  Unresolved,   \* the marker target of an import that names no existing file
  NoLine        \* target_line is None

\* what a path may hold, and the symbol data the builder keeps of a file that parses
Disk    == [kind : {"ok", "broken", "unreadable"}, imports : SUBSET File, line : Detail]
           \cup {Absent}
Symbols == [valid : {TRUE}, imports : SUBSET Target, line : Detail]
Invalid == [valid |-> FALSE, imports |-> {}, line |-> NoLine]

ASSUME AnalyzerAssumption ==
  /\ File \cap Marker = {} /\ Unresolved \in Marker
  /\ "import" \in Site /\ NoLine \in Detail
  /\ {"analyzed", "unparseable"} \subseteq Status
  /\ NoData \notin {Invalid} \cup Symbols

-----------------------------------------------------------------------------
(***************************************************************************)
(* Phase 1.  An import resolves to a file when that file exists at the     *)
(* time of the extraction, and to a marker otherwise.                      *)
(***************************************************************************)
ResolveModule(disk, t) == IF disk[t] = Absent THEN Unresolved ELSE t

ExtractFileSymbols(disk, f) ==
  CASE disk[f] = Absent             -> NoData
    [] disk[f] # Absent /\ disk[f].kind = "unreadable" -> NoData
    [] disk[f] # Absent /\ disk[f].kind = "broken" -> Invalid
    [] OTHER ->
         [valid |-> TRUE, imports |-> {ResolveModule(disk, t) : t \in disk[f].imports},
          line |-> disk[f].line]

-----------------------------------------------------------------------------
(***************************************************************************)
(* RelationshipBuilder: one relationship per import, its target line read  *)
(* from the target's symbol data if the builder has any.                   *)
(***************************************************************************)
KeepsKnownData(builder, f, data) == IF f \in DOMAIN builder THEN builder ELSE Put(builder, f, data)

AddFileData(builder, f, data) == Put(builder, f, data)

GetTargetLine(builder, t) == IF t \in DOMAIN builder THEN builder[t].line ELSE NoLine

BuildRelationshipsForFile(builder, f) ==
  IF f \notin DOMAIN builder THEN {}
  ELSE {[src |-> f, tgt |-> t, site |-> "import", detail |-> GetTargetLine(builder, t)] :
          t \in builder[f].imports}

Once(rels) == [r \in rels |-> 1]

-----------------------------------------------------------------------------
(***************************************************************************)
(* Phase 2.  A stored FileMetadata is new: its pending flag is False.      *)
(***************************************************************************)
NewMetadata(status) == [status |-> status, pending |-> FALSE]

\* drops the relationships that end in f as well as those that start in it
StoreRelationships(g, f, rels) ==
  SetFileMetadata(AddAll(RemoveRelationshipsForFile(g, f), Once(rels)), f,
                  NewMetadata("analyzed"))

MarkUnparseable(g, f) == SetFileMetadata(g, f, NewMetadata("unparseable"))

\* only the dependencies the builder knows nothing of are read
EnsureDependencySymbolsLoaded(builder, disk, imports) ==
  LET usable(t) == /\ t \notin Marker
                   /\ t \notin DOMAIN builder
                   /\ ExtractFileSymbols(disk, t) # NoData
                   /\ ExtractFileSymbols(disk, t).valid
      loaded == {t \in imports : usable(t)}
  IN [k \in DOMAIN builder \cup loaded |->
        IF k \in loaded THEN ExtractFileSymbols(disk, k) ELSE builder[k]]

(***************************************************************************)
(* analyze_file_two_phase once the symbol data is in hand: the graph and   *)
(* the builder after it, and whether it returns True.  Data that could not *)
(* be read changes nothing; a file that does not parse gets metadata and   *)
(* keeps its relationships and its symbol data.                            *)
(***************************************************************************)
AnalyzeFileTwoPhase(g, builder, disk, f, data) ==
  IF data = NoData THEN [graph |-> g, builder |-> builder, ok |-> FALSE]
  ELSE IF ~ data.valid
  THEN [graph |-> MarkUnparseable(g, f), builder |-> builder, ok |-> FALSE]
  ELSE LET known == EnsureDependencySymbolsLoaded(AddFileData(builder, f, data), disk,
                                                  data.imports)
       IN [graph |-> StoreRelationships(g, f, BuildRelationshipsForFile(known, f)),
           builder |-> known, ok |-> TRUE]
=============================================================================
