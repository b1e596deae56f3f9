--------------------------- MODULE DynamicWarnings ---------------------------
(***************************************************************************)
(* The warnings about dynamic patterns (exec, getattr, monkey patches...): *)
(* from the detectors that find them while symbols are extracted, through  *)
(* the metadata of the file that is stored, to the WarningEmitter the      *)
(* service shows them from.                                                *)
(*                                                                         *)
(* A detector keeps its warnings until the service collects them, which    *)
(* only analyze_file and analyze_directory do.  Reads extract symbols too, *)
(* of stale files and of what they import, and leave their warnings in the *)
(* detectors.  A warning is the file and the pattern it is about; what is  *)
(* kept of the same warning is how often it was made.                      *)
(***************************************************************************)
EXTENDS Integers, FiniteSets

CONSTANTS
  File,         \* the files of the project
  Imports,      \* Imports[f]: the files f imports
  TestModule,   \* files that is_test_module takes for test modules
  Pattern,      \* the kinds of dynamic patterns
  Absent,       \* the file does not exist
  Broken,       \* the file does not parse
  MaxEdits,     \* bound on the edits of a behaviour
  MaxWarnings   \* bound on the warnings made of one file

ASSUME WarningsAssumption ==
  /\ Imports \in [File -> SUBSET File] /\ TestModule \subseteq File
  /\ MaxEdits \in Nat /\ MaxWarnings \in Nat

VARIABLES
  disk,         \* f -> the patterns in it, Broken or Absent
  metadata,     \* analyzed f -> dynamic_pattern_types
  builder,      \* files whose symbols the RelationshipBuilder has
  cached,       \* files with a valid entry in the SymbolDataCache
  detectors,    \* warnings the detectors hold: <<file, pattern>> -> how many
  emitter,      \* warnings of the WarningEmitter, in the same way
  todo,         \* files a read still has to analyze
  made,         \* warnings made since clear_warnings, in the same way (history)
  parsed,       \* analyzed f -> the patterns found when f was last extracted (history)
  unread,       \* files last stored from the symbol cache (history)
  edits         \* edits made so far

warnings == <<detectors, emitter, made>>
vars == <<disk, metadata, builder, cached, warnings, todo, parsed, unread, edits>>

Contents == (SUBSET Pattern) \cup {Broken}
Exists(f) == disk[f] # Absent
Parses(f) == disk[f] \notin {Absent, Broken}

NoWarnings == [w \in File \X Pattern |-> 0]
Plus(b, c) == [w \in File \X Pattern |-> b[w] + c[w]]

\* extract_symbols of the detectors, over the files of S: one warning per pattern
Found(S) ==
  [w \in File \X Pattern |-> IF w[1] \in S /\ Parses(w[1]) /\ w[2] \in disk[w[1]] THEN 1 ELSE 0]

\* _collect_dynamic_patterns: whatever the detectors hold, of whichever file
PatternsHeld(held) == {w[2] : w \in {v \in File \X Pattern : held[v] > 0}}

Init ==
  /\ disk \in [File -> Contents \cup {Absent}]
  /\ metadata = [f \in {} |-> {}] /\ parsed = [f \in {} |-> {}]
  /\ builder = {} /\ cached = {} /\ unread = {} /\ todo = {}
  /\ detectors = NoWarnings /\ emitter = NoWarnings /\ made = NoWarnings
  /\ edits = 0

Edit(f, c) ==
  /\ edits < MaxEdits /\ todo = {} /\ c # disk[f]
  /\ disk' = [disk EXCEPT ![f] = c]
  /\ cached' = cached \ {f}
  /\ edits' = edits + 1
  /\ UNCHANGED <<metadata, builder, warnings, todo, parsed, unread>>

-----------------------------------------------------------------------------
\* what the store of f needs of the files it imports and the builder does not have
ToLoad(f) == {g \in Imports[f] : Exists(g) /\ g \notin builder \cup {f}}

Put(fn, S, v) == [f \in DOMAIN fn \cup S |-> IF f \in S THEN v[f] ELSE fn[f]]

\* _mark_unparseable clears what the metadata said of f; an absent f leaves it alone
\* analyze_file_two_phase(f), whose detectors then hold the warnings of held
AnalyzeTwoPhase(f, held) ==
  /\ made' = Plus(made, Found({f} \cup (IF Parses(f) THEN ToLoad(f) ELSE {})))
  /\ IF Parses(f)
     THEN /\ metadata' = Put(metadata, {f}, [g \in {f} |-> PatternsHeld(held)])
          /\ builder' = builder \cup {f} \cup {g \in ToLoad(f) : Parses(g)}
          /\ parsed' = Put(parsed, {f}, [g \in {f} |-> disk[g]])
     ELSE /\ metadata' = IF Exists(f) THEN Put(metadata, {f}, [g \in {f} |-> {}]) ELSE metadata
          /\ parsed' = IF Exists(f) THEN Put(parsed, {f}, [g \in {f} |-> {}]) ELSE parsed
          /\ UNCHANGED builder
  /\ unread' = IF Exists(f) THEN unread \ {f} ELSE unread
  /\ UNCHANGED <<disk, cached, edits>>

HeldAfter(f) == Plus(detectors, Found({f} \cup (IF Parses(f) THEN ToLoad(f) ELSE {})))

Bounded(S) == \A w \in File \X Pattern : made[w] + Found(S)[w] <= MaxWarnings

\* _collect_detector_warnings: each detector hands over a copy and is cleared
ForgetsToClear(held) == emitter' = Plus(emitter, held) /\ detectors' = held
Collect(held) == emitter' = Plus(emitter, held) /\ detectors' = NoWarnings

\* analyze_file
AnalyzeFile(f) ==
  /\ todo = {} /\ Bounded(File)
  /\ AnalyzeTwoPhase(f, HeldAfter(f))
  /\ Collect(HeldAfter(f))
  /\ UNCHANGED todo

\* analyze_directory: symbols of all files, from the cache where it can, then the stores
ClearsBeforeStores(held) == {}
PatternsStored(held) == PatternsHeld(held)

AnalyzeDirectory ==
  /\ todo = {} /\ Bounded(File)
  /\ LET extracted == {f \in File \ cached : Exists(f)}
         stored    == {f \in File : Parses(f)}
         broken    == {f \in File : Exists(f) /\ ~Parses(f)}
         held      == Plus(detectors, Found(extracted))
     IN /\ metadata' = Put(metadata, stored \cup broken,
                           [f \in stored \cup broken |-> IF f \in stored THEN PatternsStored(held) ELSE {}])
        /\ builder' = builder \cup stored
        /\ parsed' = Put(parsed, stored \cup broken,
                         [f \in stored \cup broken |-> IF f \in stored THEN disk[f] ELSE {}])
        /\ unread' = (unread \ extracted) \cup (stored \cap cached)
        /\ made' = Plus(made, Found(extracted))
        /\ Collect(held)
        /\ cached' = cached \cup stored
  /\ UNCHANGED <<disk, todo, edits>>

\* read_file_with_context: which files are stale is StalenessResolver's subject
StartRead(S) ==
  /\ todo = {} /\ S # {}
  /\ todo' = S
  /\ UNCHANGED <<disk, metadata, builder, cached, warnings, parsed, unread, edits>>

ReadAnalyzes(f) ==
  /\ f \in todo /\ Bounded(File)
  /\ AnalyzeTwoPhase(f, HeldAfter(f))
  /\ detectors' = HeldAfter(f)
  /\ todo' = todo \ {f}
  /\ UNCHANGED emitter

\* clear_warnings; what the detectors still hold comes later
ClearWarnings ==
  /\ todo = {}
  /\ emitter' = NoWarnings
  /\ made' = detectors
  /\ UNCHANGED <<disk, metadata, builder, cached, detectors, todo, parsed, unread, edits>>

Next ==
  \/ \E f \in File, c \in Contents \cup {Absent} : Edit(f, c)
  \/ \E f \in File : AnalyzeFile(f) \/ ReadAnalyzes(f)
  \/ AnalyzeDirectory
  \/ \E S \in SUBSET File : StartRead(S)
  \/ ClearWarnings

Spec == Init /\ [][Next]_vars

-----------------------------------------------------------------------------
\* get_warnings, without the test modules unless they are asked for
HidesSources(includeTestModules) ==
  {w \in File \X Pattern : emitter[w] > 0 /\ (includeTestModules \/ w[1] \in TestModule)}
GetWarnings(includeTestModules) ==
  {w \in File \X Pattern : emitter[w] > 0 /\ (includeTestModules \/ w[1] \notin TestModule)}

(***************************************************************************)
(* No warning is lost on its way and none is shown twice: each one made    *)
(* since clear_warnings is held by a detector or by the emitter, once,     *)
(* whatever analyses and reads came in between.                            *)
(***************************************************************************)
WarningsConserved == made = Plus(detectors, emitter)

(***************************************************************************)
(* The metadata of a file never misses a dynamic pattern that was found    *)
(* when the file was last extracted: a directory extracts all its files    *)
(* before it stores the first, and nothing clears the detectors between    *)
(* two stores.  Files stored from the symbol cache are excepted.           *)
(***************************************************************************)
PatternsNotMissed ==
  \A f \in DOMAIN metadata \ unread : parsed[f] \subseteq metadata[f]

(***************************************************************************)
(* Right after an analysis of the whole project, get_warnings tells of     *)
(* every pattern in the files that were extracted for it, but of none in a *)
(* test module.                                                            *)
(***************************************************************************)
ShownAfterAnalysis ==
  [][AnalyzeDirectory =>
       \A f \in File \ cached :
         Parses(f) => \A p \in disk[f] : <<f, p>> \in GetWarnings(FALSE)' <=> f \notin TestModule]_vars

(***************************************************************************)
(* has_dynamic_patterns of FileMetadata "Contains untrackable dynamic      *)
(* patterns": the metadata of a file tells of the patterns in that file.   *)
(***************************************************************************)
MetadataTellsOfFile ==
  \A f \in DOMAIN metadata : metadata[f] = parsed[f]
=============================================================================
