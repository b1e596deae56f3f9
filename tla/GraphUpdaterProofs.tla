-------------------------- MODULE GraphUpdaterProofs --------------------------
(***************************************************************************)
(* What holds of GraphUpdater for every project, every edit and every      *)
(* moment an event is heard: once all events are processed the graph       *)
(* tells what is on disk, and an event that was forgotten leaves a trace   *)
(* in the mtimes.                                                          *)
(***************************************************************************)
EXTENDS GraphUpdater, GraphOpsProofs

Shape ==
  /\ disk \in [File -> Disk]
  /\ GraphType(graph)
  /\ IsDict(builder, File, Symbols)
  /\ data \in {NoData, Invalid} \cup Symbols
  /\ stamped \in Seq(File)

\* where the iteration is, and that the file being handled is the one it is at
LoopInv ==
  /\ next \in Nat /\ keys \in Nat
  /\ pc \in {"idle", "clear"} => next = 0
  /\ pc \in {"loop", "delete"} => next > 0
  /\ next > 0 => keys <= Len(stamped) /\ next <= keys + 1
  /\ pc \in {"analyze", "store", "delete"} =>
       current \in File /\ (next > 0 => next <= keys /\ current = stamped[next])

\* no edit between the moment the disk is read and the moment the result is stored
Undisturbed == quietly \/ EditAt \cap {"store", "delete"} = {}

DataInv ==
  Undisturbed =>
    /\ pc = "store" => data = ExtractFileSymbols(disk, current)
    /\ pc = "delete" => disk[current] = Absent

\* files with an event that was not heard, or that the iteration has yet to handle
Owed ==
  unheard \cup IF pc = "clear" THEN {}
               ELSE {stamped[i] : i \in {j \in DOMAIN stamped : j >= next}}

\* files the iteration has handled
Passed == {stamped[i] : i \in {j \in DOMAIN stamped : j < next}}

(***************************************************************************)
(* A file that is not owed an update matches the disk.  One the iteration  *)
(* has passed does so even when a second event of it is still unheard:     *)
(* hearing it then adds no key, and the file is not visited again.         *)
(***************************************************************************)
QuietInv ==
  quietly =>
    /\ \A f \in File : MatchesDisk(f) \/ f \in Owed \ Passed
    /\ pc \in {"analyze", "store"} /\ next > 0 => disk[current] # Absent

IInv == Shape /\ LoopInv /\ DataInv /\ QuietInv

\* MtimeBacksUpEvents at every step of an update
BackedUp(f) ==
  Parses(f) /\ f \in DOMAIN graph.file_metadata /\ f \notin touched =>
    StatusOf(f) = "analyzed" /\ SymbolsCurrent(f)

MtimeInv == \A f \in File : BackedUp(f)

-----------------------------------------------------------------------------
\* Nothing is known, and nothing is there to know, at first.
LEMMA InitIInv == Init => IInv /\ MtimeInv
<1> SUFFICES ASSUME Init PROVE IInv /\ MtimeInv
  OBVIOUS
<1>1. Absent \in Disk
  BY DEF Disk
<1>2. Shape
  BY <1>1, EmptyGraphGood DEF Init, Shape, IsDict, EmptyDict
<1>3. ASSUME NEW f \in File PROVE MatchesDisk(f) /\ BackedUp(f)
  <2>1. disk[f] = Absent /\ DOMAIN graph.relationships = {} /\ DOMAIN graph.file_metadata = {}
    BY DEF Init, EmptyGraph, EmptyDict
  <2> QED
    BY <2>1 DEF MatchesDisk, BackedUp, Parses, StatusOf, DependenciesOf, DependentsOf
<1>4. LoopInv /\ DataInv
  BY DEF Init, LoopInv, DataInv
<1>5. QuietInv
  BY <1>3 DEF Init, QuietInv
<1> QED
  BY <1>2, <1>3, <1>4, <1>5 DEF IInv, MtimeInv

\* What is known of a file is judged by its own content only.
LEMMA JudgedByContent ==
  ASSUME NEW f, disk'[f] = disk[f], graph' = graph, builder' = builder
  PROVE  /\ MatchesDisk(f)' <=> MatchesDisk(f)
         /\ StatusOf(f)' = StatusOf(f) /\ Parses(f)' = Parses(f)
         /\ SymbolsCurrent(f)' <=> SymbolsCurrent(f)
<1>1. StatusOf(f)' = StatusOf(f) /\ Parses(f)' = Parses(f)
  BY DEF StatusOf, Parses
<1>2. SymbolsCurrent(f)' <=> SymbolsCurrent(f)
  BY DEF SymbolsCurrent
<1> QED
  BY <1>1, <1>2 DEF MatchesDisk, DependenciesOf, DependentsOf

\* An edit leaves an event to hear, and a newer mtime.
LEMMA EditKeeps ==
  ASSUME IInv, NEW f \in File, NEW c \in Contents[f], Edit(f, c)
  PROVE  IInv' /\ (MtimeInv => MtimeInv')
<1>1. /\ disk' = [disk EXCEPT ![f] = c] /\ c \in Disk
      /\ touched' = IF c = Absent THEN touched \ {f} ELSE touched \cup {f}
      /\ unheard' = unheard \cup {f} /\ pc \in EditAt /\ quietly' = (quietly /\ pc = "idle")
      /\ UNCHANGED <<graph, builder, stamped, pc, next, keys, current, data>>
  BY UpdaterAssumption DEF Edit, loop
<1>2. Shape' /\ LoopInv'
  BY <1>1 DEF IInv, Shape, LoopInv
<1>3. DataInv'
  <2>1. Undisturbed' => pc \notin {"store", "delete"}
    BY <1>1 DEF Undisturbed
  <2> QED
    BY <1>1, <2>1 DEF DataInv
<1>4. \A x \in File \ {f} : disk'[x] = disk[x]
  BY <1>1 DEF IInv, Shape
<1>5. QuietInv'
  <2> SUFFICES ASSUME quietly' PROVE QuietInv'
    BY DEF QuietInv
  <2>1. quietly /\ pc = "idle" /\ next = 0
    BY <1>1 DEF IInv, LoopInv
  <2>2. Owed' = Owed \cup {f}
    BY <1>1 DEF Owed
  <2>3. stamped' \in Seq(File) /\ next' = 0
    BY <1>1, <2>1 DEF IInv, Shape
  <2>4. Passed' = {}
    BY <2>3 DEF Passed
  <2>5. \A x \in File : MatchesDisk(x)' \/ x \in (Owed \ Passed)'
    BY <1>1, <1>4, <2>1, <2>2, <2>4, JudgedByContent DEF IInv, QuietInv
  <2> QED
    BY <1>1, <2>1, <2>5 DEF QuietInv
<1>6. ASSUME MtimeInv, NEW x \in File PROVE BackedUp(x)'
  <2>1. CASE x = f
    <3>1. disk'[f] = c
      BY <1>1 DEF IInv, Shape
    <3> QED
      BY <1>1, <2>1, <3>1 DEF BackedUp, Parses
  <2>2. CASE x # f
    <3>1. x \in touched' <=> x \in touched
      BY <1>1, <2>2
    <3> QED
      BY <1>1, <1>4, <1>6, <2>2, <3>1, JudgedByContent DEF MtimeInv, BackedUp
  <2> QED
    BY <2>1, <2>2
<1> QED
  BY <1>2, <1>3, <1>5, <1>6 DEF IInv, MtimeInv

\* The other steps leave the disk alone; those here, the graph and the builder as well.
LEMMA SameJudgement ==
  ASSUME UNCHANGED <<disk, touched, graph, builder>>
  PROVE  /\ \A f \in File : MatchesDisk(f)' <=> MatchesDisk(f)
         /\ MtimeInv => MtimeInv'
<1>1. ASSUME NEW f \in File PROVE BackedUp(f)' <=> BackedUp(f)
  BY JudgedByContent DEF BackedUp
<1> QED
  BY <1>1, JudgedByContent DEF MtimeInv

(***************************************************************************)
(* An event heard is owed as long as the iteration has its file before it. *)
(* A new key comes after all others; an old one may lie behind, and then   *)
(* its file was handled since the edit.                                    *)
(***************************************************************************)
LEMMA HearKeeps == ASSUME IInv, NEW f \in File, Hear(f) PROVE IInv'
<1>1. /\ unheard' = unheard \ {f} /\ quietly' = (quietly /\ pc # "clear")
      /\ stamped' = IF Contains(stamped, f) THEN stamped ELSE Append(stamped, f)
      /\ UNCHANGED <<disk, touched, graph, builder, pc, next, keys, current, data>>
  BY DEF Hear, results, loop
<1>2. /\ stamped \in Seq(File) /\ stamped' \in Seq(File)
      /\ Len(stamped) <= Len(stamped')
      /\ \A i \in DOMAIN stamped : i \in DOMAIN stamped' /\ stamped'[i] = stamped[i]
      /\ \A i \in DOMAIN stamped' \ DOMAIN stamped : i = Len(stamped) + 1 /\ stamped'[i] = f
      /\ \E i \in DOMAIN stamped' : stamped'[i] = f
  <2>1. stamped \in Seq(File)
    BY DEF IInv, Shape
  <2>2. CASE Contains(stamped, f)
    BY <1>1, <2>1, <2>2 DEF Contains
  <2>3. CASE ~ Contains(stamped, f)
    BY <1>1, <2>1, <2>3
  <2> QED
    BY <2>1, <2>2, <2>3
<1>3. Shape'
  BY <1>1, <1>2 DEF IInv, Shape
<1>4. LoopInv'
  <2>1. next > 0 /\ pc \in {"analyze", "store", "delete"} => next \in DOMAIN stamped
    BY <1>2 DEF IInv, LoopInv
  <2>2. Len(stamped) \in Nat /\ Len(stamped') \in Nat
    BY <1>2
  <2> QED
    BY <1>1, <1>2, <2>1, <2>2 DEF IInv, LoopInv
<1>5. DataInv'
  BY <1>1 DEF IInv, DataInv, Undisturbed
<1>6. QuietInv'
  <2> SUFFICES ASSUME quietly' PROVE QuietInv'
    BY DEF QuietInv
  <2>1. quietly /\ pc # "clear" /\ pc' # "clear"
    BY <1>1
  <2>2. next \in Nat /\ (next > 0 => next <= Len(stamped) + 1)
    BY <1>2 DEF IInv, LoopInv
  <2>3. \A i \in DOMAIN stamped' : i < next' => i \in DOMAIN stamped /\ i < next
    BY <1>1, <1>2, <2>2
  <2>4. Passed' = Passed
    BY <1>1, <1>2, <2>3 DEF Passed
  <2>5. ASSUME NEW x \in Owed \ Passed PROVE x \in Owed'
    <3>1. CASE x = f
      <4>1. PICK i \in DOMAIN stamped' : stamped'[i] = f
        BY <1>2
      <4>2. ~ i < next'
        BY <2>4, <2>5, <3>1, <4>1 DEF Passed
      <4>3. i >= next'
        BY <1>1, <1>2, <2>2, <4>2
      <4> QED
        BY <2>1, <3>1, <4>1, <4>3 DEF Owed
    <3>2. CASE x # f
      BY <1>1, <1>2, <2>1, <2>5, <3>2 DEF Owed
    <3> QED
      BY <3>1, <3>2
  <2>6. \A x \in File : MatchesDisk(x)' \/ x \in (Owed \ Passed)'
    BY <1>1, <2>1, <2>4, <2>5, SameJudgement DEF IInv, QuietInv
  <2>7. pc' \in {"analyze", "store"} /\ next' > 0 => disk'[current'] # Absent
    BY <1>1, <2>1 DEF IInv, QuietInv
  <2> QED
    BY <2>6, <2>7 DEF QuietInv
<1> QED
  BY <1>3, <1>4, <1>5, <1>6 DEF IInv

(***************************************************************************)
(* Steps between two files move the iteration, which owes no less when it  *)
(* is left, and nothing when it has come to its end.                       *)
(***************************************************************************)
LEMMA MoveKeeps ==
  ASSUME IInv,
         Process \/ Abort \/ LoopEnds \/ Clear \/ \E f \in File : AnalyzeFile(f) \/ Visit(f)
  PROVE  IInv'
<1>1. stamped \in Seq(File) /\ next \in Nat /\ keys \in Nat /\ Len(stamped) \in Nat
  BY DEF IInv, Shape, LoopInv
<1>2. /\ UNCHANGED <<disk, touched, graph, builder, data, unheard, quietly>>
      /\ pc \in {"idle", "loop", "clear"} /\ pc' \in {"idle", "loop", "clear", "analyze", "delete"}
      /\ stamped' \in {stamped, <<>>}
  <2>1. CASE Process \/ Abort \/ LoopEnds \/ Clear
    BY <2>1 DEF Process, Abort, LoopEnds, Clear, files, results, loop
  <2>2. CASE \E f \in File : AnalyzeFile(f) \/ Visit(f)
    BY <2>2 DEF AnalyzeFile, Visit, files, results, loop
  <2> QED
    BY <2>1, <2>2
<1>3. Shape'
  <2>1. <<>> \in Seq(File)
    OBVIOUS
  <2>2. stamped' \in Seq(File)
    BY <1>1, <1>2, <2>1
  <2> QED
    BY <1>2, <2>2 DEF IInv, Shape
<1> USE DEF Process, Abort, LoopEnds, Clear, AnalyzeFile, Visit, DictGrew, files, results, loop
<1>4. LoopInv'
  <2>1. CASE Process \/ Abort \/ LoopEnds \/ Clear
    BY <1>1, <2>1 DEF IInv, LoopInv
  <2>2. ASSUME NEW f \in File, AnalyzeFile(f) PROVE LoopInv'
    BY <1>1, <2>2 DEF IInv, LoopInv
  <2>3. ASSUME NEW f \in File, Visit(f) PROVE LoopInv'
    BY <1>1, <2>3 DEF IInv, LoopInv
  <2> QED
    BY <2>1, <2>2, <2>3
<1>5. DataInv'
  <2>1. pc' # "store" /\ (pc' = "delete" => disk'[current'] = Absent)
    BY <1>2
  <2> QED
    BY <2>1 DEF DataInv
<1>6. QuietInv'
  <2> SUFFICES ASSUME quietly' PROVE QuietInv'
    BY DEF QuietInv
  <2>1. quietly
    BY <1>2
  <2>2. Owed \subseteq Owed'
    <3>1. CASE Process \/ Abort \/ \E f \in File : AnalyzeFile(f) \/ Visit(f)
      <4>1. pc # "clear" /\ pc' # "clear" /\ stamped' = stamped /\ unheard' = unheard
        BY <3>1
      <4>2. next' = next \/ next' \in {0, 1}
        BY <3>1
      <4>3. \A i \in DOMAIN stamped : i >= next => i >= next'
        BY <1>1, <4>2
      <4> QED
        BY <4>1, <4>3 DEF Owed
    <3>2. CASE LoopEnds
      <4>1. \A i \in DOMAIN stamped : ~ i >= next
        BY <1>1, <3>2
      <4> QED
        BY <3>2, <4>1 DEF Owed
    <3>3. CASE Clear
      BY <3>3 DEF Owed
    <3> QED
      BY <3>1, <3>2, <3>3
  <2>3. Passed' \subseteq Passed
    <3>1. \/ next' = next /\ stamped' = stamped
          \/ next' \in {0, 1}
      BY DEF IInv, LoopInv
    <3>2. stamped' \in Seq(File)
      BY <1>3 DEF Shape
    <3>3. CASE next' \in {0, 1}
      <4>1. \A i \in DOMAIN stamped' : ~ i < next'
        BY <3>2, <3>3
      <4> QED
        BY <4>1 DEF Passed
    <3> QED
      BY <3>1, <3>3 DEF Passed
  <2>4. \A f \in File : MatchesDisk(f)' \/ f \in (Owed \ Passed)'
    BY <1>2, <2>1, <2>2, <2>3, SameJudgement DEF IInv, QuietInv
  <2>5. ASSUME pc' \in {"analyze", "store"}, next' > 0 PROVE disk'[current'] # Absent
    <3>1. ASSUME NEW f \in File, AnalyzeFile(f) PROVE FALSE
      BY <2>5, <3>1 DEF IInv, LoopInv
    <3>2. PICK f \in File : Visit(f)
      BY <2>5, <3>1
    <3> QED
      BY <2>5, <3>2
  <2> QED
    BY <2>4, <2>5 DEF QuietInv
<1> QED
  BY <1>3, <1>4, <1>5, <1>6 DEF IInv

\* What is extracted is what is on disk.
LEMMA ExtractKeeps == ASSUME IInv, NEW f \in File, Extract(f) PROVE IInv'
<1>1. /\ UNCHANGED <<disk, touched, graph, builder, unheard, quietly, stamped, next, keys, current>>
      /\ pc = "analyze" /\ pc' = "store" /\ f = current /\ data' = ExtractFileSymbols(disk, f)
  BY DEF Extract, files, results, loop
<1>2. data' \in {NoData, Invalid} \cup Symbols
  BY <1>1, ExtractType DEF IInv, Shape
<1>3. Shape' /\ LoopInv'
  BY <1>1, <1>2 DEF IInv, Shape, LoopInv
<1>4. DataInv'
  BY <1>1 DEF DataInv
<1>5. Owed' = Owed /\ Passed' = Passed
  BY <1>1 DEF Owed, Passed
<1>6. QuietInv'
  BY <1>1, <1>5, SameJudgement DEF IInv, QuietInv
<1> QED
  BY <1>3, <1>4, <1>6 DEF IInv

(***************************************************************************)
(* The iteration passes the file that was handled: of the others it owes   *)
(* as much as before.                                                      *)
(***************************************************************************)
LEMMA HandledMoves ==
  ASSUME LoopInv, stamped \in Seq(File), pc \in {"store", "delete"}, NEW ok, Handled(ok),
         UNCHANGED <<stamped, keys, unheard>>
  PROVE  /\ LoopInv' /\ pc' \in {"idle", "loop"}
         /\ \A x \in Owed \ Passed : x \in (Owed \ Passed)' \/ (next > 0 /\ x = current)
<1>1. next \in Nat /\ keys \in Nat /\ Len(stamped) \in Nat
  BY DEF LoopInv
<1>2. CASE next = 0
  <2>1. pc' = "idle" /\ next' = 0
    BY <1>2 DEF Handled
  <2>2. Owed' = Owed /\ Passed' = Passed
    BY <1>2, <2>1 DEF Owed, Passed
  <2>3. LoopInv'
    BY <1>1, <2>1 DEF LoopInv
  <2> QED
    BY <2>1, <2>2, <2>3
<1>3. CASE next > 0
  <2>1. pc' = "loop" /\ next' = next + 1
    BY <1>1, <1>3 DEF Handled, NextPosition
  <2>2. next <= keys /\ keys <= Len(stamped) /\ current = stamped[next]
    BY <1>3 DEF LoopInv
  <2>3. LoopInv'
    BY <1>1, <2>1, <2>2 DEF LoopInv
  <2>4. ASSUME NEW x \in Owed \ Passed, x # current PROVE x \in (Owed \ Passed)'
    <3>1. \A i \in DOMAIN stamped : stamped[i] = x => i >= next + 1
      BY <1>1, <2>2, <2>4 DEF Passed
    <3>2. x \notin Passed'
      BY <1>1, <2>1, <3>1 DEF Passed
    <3>3. x \in Owed'
      BY <1>1, <2>1, <2>4, <3>1 DEF Owed
    <3> QED
      BY <3>2, <3>3
  <2> QED
    BY <1>3, <2>1, <2>3, <2>4
<1> QED
  BY <1>1, <1>2, <1>3

\* What storing the data of f changes, by what the data is.
LEMMA StoreFacts ==
  ASSUME Shape, LoopInv, NEW f \in File, Store(f)
  PROVE  /\ GraphType(graph') /\ IsDict(builder', File, Symbols)
         /\ \A x \in File \ {f} :
              /\ x \in DOMAIN graph'.file_metadata <=> x \in DOMAIN graph.file_metadata
              /\ StatusOf(x)' = StatusOf(x) /\ (SymbolsCurrent(x) => SymbolsCurrent(x)')
         /\ data = NoData => graph' = graph /\ builder' = builder
         /\ data = Invalid =>
              /\ graph'.relationships = graph.relationships
              /\ StatusOf(f)' = "unparseable"
         /\ data \in Symbols =>
              /\ StatusOf(f)' = "analyzed" /\ f \in DOMAIN builder' /\ builder'[f] = data
              /\ \A r \in DOMAIN graph'.relationships :
                   r \in DOMAIN graph.relationships \/ (r.src = f /\ r.tgt \in data.imports)
<1> DEFINE result == AnalyzeFileTwoPhase(graph, builder, disk, f, data)
<1>1. graph' = result.graph /\ builder' = result.builder /\ disk' = disk
  BY DEF Store, files
<1>2. GraphType(graph) /\ IsDict(builder, File, Symbols) /\ disk \in [File -> Disk]
  BY DEF Shape
<1>3. NoData # Invalid /\ NoData \notin Symbols /\ Invalid \notin Symbols
  BY AnalyzerAssumption DEF Invalid, Symbols
<1>4. data \in {NoData, Invalid} \cup Symbols
  BY DEF Shape
<1>5. CASE data = NoData
  <2>1. GraphType(result.graph) /\ result.graph = graph /\ result.builder = builder
    BY <1>2, <1>5, TwoPhaseFails
  <2>2. graph' = graph /\ builder' = builder
    BY <1>1, <2>1
  <2>3. \A x \in File \ {f} : /\ StatusOf(x)' = StatusOf(x)
                              /\ SymbolsCurrent(x)' <=> SymbolsCurrent(x)
    BY <1>1, <2>2, JudgedByContent
  <2> QED
    BY <1>2, <1>3, <1>5, <2>2, <2>3
<1>6. CASE data = Invalid
  <2> DEFINE marked == SetFileMetadata(graph, f, NewMetadata("unparseable"))
  <2>1. GraphType(result.graph) /\ result.graph = marked /\ result.builder = builder
    BY <1>2, <1>3, <1>6, TwoPhaseFails
  <2>2. /\ marked.relationships = graph.relationships
        /\ DOMAIN marked.file_metadata = DOMAIN graph.file_metadata \cup {f}
        /\ marked.file_metadata[f] = NewMetadata("unparseable")
        /\ \A x \in DOMAIN graph.file_metadata \ {f} :
             marked.file_metadata[x] = graph.file_metadata[x]
    BY <1>2, SetMetadataFacts
  <2>3. graph' = marked /\ builder' = builder
    BY <1>1, <2>1
  <2> HIDE DEF marked, result
  <2>4. \A x \in File \ {f} : /\ StatusOf(x)' = StatusOf(x)
                              /\ SymbolsCurrent(x)' <=> SymbolsCurrent(x)
    BY <1>1, <2>2, <2>3 DEF StatusOf, SymbolsCurrent
  <2>5. StatusOf(f)' = "unparseable"
    BY <2>2, <2>3 DEF StatusOf, NewMetadata
  <2> QED
    BY <1>2, <1>3, <1>6, <2>1, <2>2, <2>3, <2>4, <2>5
<1>7. CASE data \in Symbols
  <2>1. /\ GraphType(result.graph) /\ IsDict(result.builder, File, Symbols)
        /\ f \in DOMAIN result.builder /\ result.builder[f] = data
        /\ \A k \in DOMAIN builder \ {f} : k \in DOMAIN result.builder
                                           /\ result.builder[k] = builder[k]
        /\ DOMAIN result.graph.file_metadata = DOMAIN graph.file_metadata \cup {f}
        /\ result.graph.file_metadata[f] = NewMetadata("analyzed")
        /\ \A x \in DOMAIN graph.file_metadata \ {f} :
             result.graph.file_metadata[x] = graph.file_metadata[x]
        /\ \A r \in DOMAIN result.graph.relationships :
             \/ r \in DOMAIN graph.relationships /\ r.src # f /\ r.tgt # f
             \/ r.src = f /\ r.tgt \in data.imports
    BY <1>2, <1>7, TwoPhaseStores
  <2> HIDE DEF result
  <2>2. \A x \in File \ {f} : /\ StatusOf(x)' = StatusOf(x)
                              /\ SymbolsCurrent(x) => SymbolsCurrent(x)'
    BY <1>1, <2>1 DEF StatusOf, SymbolsCurrent
  <2>3. StatusOf(f)' = "analyzed"
    BY <1>1, <2>1 DEF StatusOf, NewMetadata
  <2> QED
    BY <1>1, <1>3, <1>7, <2>1, <2>2, <2>3
<1> QED
  BY <1>4, <1>5, <1>6, <1>7

(***************************************************************************)
(* The data stored is that of the content on disk, so what is now known of *)
(* f matches it; a relationship stored ends in a file that exists.         *)
(***************************************************************************)
LEMMA StoreMatches ==
  ASSUME IInv, NEW f \in File, Store(f), Undisturbed
  PROVE  /\ \A x \in File \ {f} : MatchesDisk(x) => MatchesDisk(x)'
         /\ disk[f] # Absent => MatchesDisk(f)'
         /\ disk[f] = Absent => (MatchesDisk(f) => MatchesDisk(f)')
         /\ MtimeInv => MtimeInv'
<1>1. /\ disk' = disk /\ data = ExtractFileSymbols(disk, f)
      /\ touched' = IF data = NoData THEN touched ELSE touched \ {f}
  BY DEF Store, files, IInv, DataInv
<1>2. disk \in [File -> Disk] /\ data \in {NoData, Invalid} \cup Symbols
  BY DEF IInv, Shape
<1>3. disk[f] = Absent => data = NoData
  BY <1>1 DEF ExtractFileSymbols
<1>4. ASSUME disk[f] # Absent
      PROVE  /\ disk[f].kind \in {"ok", "broken", "unreadable"}
             /\ disk[f].kind = "unreadable" => data = NoData
             /\ disk[f].kind = "broken" => data = Invalid
             /\ disk[f].kind = "ok" =>
                  /\ data \in Symbols /\ data.line = disk[f].line
                  /\ \A t \in data.imports \cap File : t \in disk[f].imports /\ disk[t] # Absent
  BY <1>1, <1>2, <1>4, ExtractByKind
<1>5. NoData # Invalid /\ NoData \notin Symbols /\ Invalid \notin Symbols
  BY AnalyzerAssumption DEF Invalid, Symbols
<1>6. /\ \A x \in File \ {f} :
           /\ x \in DOMAIN graph'.file_metadata <=> x \in DOMAIN graph.file_metadata
           /\ StatusOf(x)' = StatusOf(x) /\ (SymbolsCurrent(x) => SymbolsCurrent(x)')
      /\ data = NoData => graph' = graph /\ builder' = builder
      /\ data = Invalid =>
           /\ graph'.relationships = graph.relationships
           /\ StatusOf(f)' = "unparseable"
      /\ data \in Symbols =>
           /\ StatusOf(f)' = "analyzed" /\ f \in DOMAIN builder' /\ builder'[f] = data
           /\ \A r \in DOMAIN graph'.relationships :
                r \in DOMAIN graph.relationships \/ (r.src = f /\ r.tgt \in data.imports)
  BY StoreFacts DEF IInv
<1>7. ASSUME NEW r \in DOMAIN graph'.relationships, r \notin DOMAIN graph.relationships
      PROVE  r.src = f /\ disk[f] # Absent /\ (r.tgt \in File => disk[r.tgt] # Absent)
  <2>1. data \in Symbols
    BY <1>2, <1>6, <1>7
  <2>2. disk[f] # Absent /\ disk[f].kind = "ok"
    BY <1>3, <1>4, <1>5, <2>1
  <2> QED
    BY <1>4, <1>6, <1>7, <2>1, <2>2
<1>8. ASSUME NEW x \in File, disk[x] = Absent,
             DependenciesOf(graph, x) \cup DependentsOf(graph, x) = {}
      PROVE  DependenciesOf(graph', x) \cup DependentsOf(graph', x) = {}
  BY <1>7, <1>8 DEF DependenciesOf, DependentsOf
<1>9. ASSUME NEW x \in File \ {f}, MatchesDisk(x) PROVE MatchesDisk(x)'
  <2>1. Parses(x)' <=> Parses(x)
    BY <1>1 DEF Parses
  <2> QED
    BY <1>1, <1>6, <1>8, <1>9, <2>1 DEF MatchesDisk
<1>10. ASSUME disk[f] # Absent, disk[f].kind = "ok"
       PROVE  StatusOf(f)' = "analyzed" /\ SymbolsCurrent(f)'
  BY <1>1, <1>4, <1>6, <1>10 DEF SymbolsCurrent
<1>11. ASSUME disk[f] # Absent PROVE MatchesDisk(f)'
  BY <1>1, <1>4, <1>6, <1>10, <1>11 DEF MatchesDisk, Parses
<1>12. ASSUME disk[f] = Absent, MatchesDisk(f) PROVE MatchesDisk(f)'
  BY <1>1, <1>3, <1>6, <1>12, JudgedByContent
<1>13. ASSUME MtimeInv, NEW x \in File PROVE BackedUp(x)'
  <2>1. Parses(x)' <=> Parses(x)
    BY <1>1 DEF Parses
  <2>2. CASE x # f
    <3>1. x \in touched' <=> x \in touched
      BY <1>1, <2>2
    <3> QED
      BY <1>6, <1>13, <2>1, <2>2, <3>1 DEF MtimeInv, BackedUp
  <2>3. CASE x = f /\ data = NoData
    BY <1>1, <1>6, <1>13, <2>1, <2>3, JudgedByContent DEF MtimeInv, BackedUp
  <2>4. CASE x = f /\ data # NoData
    BY <1>1, <1>10, <2>4 DEF BackedUp, Parses
  <2> QED
    BY <2>2, <2>3, <2>4
<1> QED
  BY <1>9, <1>11, <1>12, <1>13 DEF MtimeInv

\* Storing what was extracted from f settles what is owed to it.
LEMMA StoreKeeps == ASSUME IInv, NEW f \in File, Store(f) PROVE IInv'
<1>1. /\ pc = "store" /\ f = current
      /\ UNCHANGED <<disk, unheard, quietly, edits, stamped, keys>>
      /\ Handled(AnalyzeFileTwoPhase(graph, builder, disk, f, data).ok)
  BY DEF Store, files
<1>2. LoopInv /\ stamped \in Seq(File)
  BY DEF IInv, Shape
<1>3. /\ LoopInv' /\ pc' \in {"idle", "loop"}
      /\ \A x \in Owed \ Passed : x \in (Owed \ Passed)' \/ (next > 0 /\ x = current)
  <2> DEFINE ok == AnalyzeFileTwoPhase(graph, builder, disk, f, data).ok
  <2>1. Handled(ok)
    BY <1>1
  <2> HIDE DEF ok
  <2> QED
    BY <1>1, <1>2, <2>1, HandledMoves
<1>4. data' = NoData
  BY <1>1 DEF Handled
<1>5. GraphType(graph') /\ IsDict(builder', File, Symbols)
  BY StoreFacts DEF IInv
<1>6. Shape'
  BY <1>1, <1>4, <1>5 DEF IInv, Shape
<1>7. DataInv'
  BY <1>3 DEF DataInv
<1>8. QuietInv'
  <2> SUFFICES ASSUME quietly PROVE \A x \in File : MatchesDisk(x)' \/ x \in (Owed \ Passed)'
    BY <1>1, <1>3 DEF QuietInv
  <2>1. Undisturbed
    BY DEF Undisturbed
  <2>2. \A x \in File : MatchesDisk(x) \/ x \in Owed \ Passed
    BY DEF IInv, QuietInv
  <2>3. /\ \A x \in File \ {f} : MatchesDisk(x) => MatchesDisk(x)'
        /\ disk[f] # Absent => MatchesDisk(f)'
        /\ disk[f] = Absent => (MatchesDisk(f) => MatchesDisk(f)')
    BY <2>1, StoreMatches
  <2>4. next > 0 => disk[f] # Absent
    BY <1>1 DEF IInv, QuietInv
  <2> QED
    BY <1>1, <1>3, <2>2, <2>3, <2>4
<1> QED
  BY <1>3, <1>6, <1>7, <1>8 DEF IInv

(***************************************************************************)
(* A deletion leaves no relationship to or from the file, which is still   *)
(* gone, and nothing else of the others changes.                           *)
(***************************************************************************)
LEMMA DeleteFacts ==
  ASSUME Shape, NEW f \in File, Delete(f)
  PROVE  /\ GraphType(graph') /\ disk' = disk /\ builder' = builder /\ touched' = touched \ {f}
         /\ StatusOf(f)' = "deleted"
         /\ DependenciesOf(graph', f) \cup DependentsOf(graph', f) = {}
         /\ \A x \in File \ {f} :
              /\ x \in DOMAIN graph'.file_metadata <=> x \in DOMAIN graph.file_metadata
              /\ StatusOf(x)' = StatusOf(x) /\ (SymbolsCurrent(x)' <=> SymbolsCurrent(x))
         /\ DOMAIN graph'.relationships \subseteq DOMAIN graph.relationships
<1> DEFINE cut == RemoveRelationshipsForFile(graph, f)
           m   == NewMetadata("deleted")
<1>1. /\ graph' = SetFileMetadata(cut, f, m) /\ touched' = touched \ {f}
      /\ disk' = disk /\ builder' = builder
  BY DEF Delete, WithoutFile, files
<1>2. GraphType(cut)
  BY RemoveForFileType DEF Shape
<1>3. m \in Meta /\ m.status = "deleted"
  BY UpdaterAssumption DEF NewMetadata, Meta
<1>4. /\ DOMAIN cut.file_metadata = DOMAIN graph.file_metadata \ {f}
      /\ \A x \in DOMAIN cut.file_metadata : cut.file_metadata[x] = graph.file_metadata[x]
  <2> DEFINE left == Del(graph.file_metadata, f)
  <2>1. cut.file_metadata = left
    BY DEF RemoveRelationshipsForFile
  <2>2. DOMAIN left = DOMAIN graph.file_metadata \ {f}
        /\ \A x \in DOMAIN left : left[x] = graph.file_metadata[x]
    BY DelFacts
  <2> HIDE DEF cut, left
  <2> QED
    BY <2>1, <2>2
<1>5. DOMAIN cut.relationships = {r \in DOMAIN graph.relationships : r.src # f /\ r.tgt # f}
  <2> DEFINE apart == {r \in DOMAIN graph.relationships : r.src # f /\ r.tgt # f}
             kept  == Keep(graph.relationships, apart)
  <2>1. cut.relationships = kept
    BY DEF RemoveRelationshipsForFile
  <2>2. DOMAIN kept = DOMAIN graph.relationships \cap apart
    BY KeepFacts
  <2> HIDE DEF cut, kept
  <2> QED
    BY <2>1, <2>2
<1> HIDE DEF cut, m
<1>6. /\ graph'.relationships = cut.relationships
      /\ DOMAIN graph'.file_metadata = DOMAIN cut.file_metadata \cup {f}
      /\ graph'.file_metadata[f] = m
      /\ \A x \in DOMAIN cut.file_metadata \ {f} :
           graph'.file_metadata[x] = cut.file_metadata[x]
  BY <1>1, <1>2, SetMetadataFacts
<1>7. GraphType(graph')
  BY <1>1, <1>2, <1>3, MetadataType
<1>8. \A x \in File \ {f} :
        /\ x \in DOMAIN graph'.file_metadata <=> x \in DOMAIN graph.file_metadata
        /\ StatusOf(x)' = StatusOf(x)
  BY <1>4, <1>6 DEF StatusOf
<1>9. \A x \in File \ {f} : SymbolsCurrent(x)' <=> SymbolsCurrent(x)
  BY <1>1 DEF SymbolsCurrent
<1>10. StatusOf(f)' = "deleted"
  BY <1>3, <1>6 DEF StatusOf
<1>11. DependenciesOf(graph', f) \cup DependentsOf(graph', f) = {}
  BY <1>5, <1>6 DEF DependenciesOf, DependentsOf
<1> QED
  BY <1>1, <1>5, <1>6, <1>7, <1>8, <1>9, <1>10, <1>11

\* A file handled as deleted does not exist, unless it was created again since.
LEMMA DeleteMatches ==
  ASSUME IInv, NEW f \in File, Delete(f), Undisturbed
  PROVE  /\ MatchesDisk(f)' /\ \A x \in File \ {f} : MatchesDisk(x) => MatchesDisk(x)'
         /\ MtimeInv => MtimeInv'
<1>1. disk[f] = Absent
  BY DEF Delete, IInv, DataInv
<1>2. /\ disk' = disk /\ touched' = touched \ {f}
      /\ StatusOf(f)' = "deleted"
      /\ DependenciesOf(graph', f) \cup DependentsOf(graph', f) = {}
      /\ \A x \in File \ {f} :
           /\ x \in DOMAIN graph'.file_metadata <=> x \in DOMAIN graph.file_metadata
           /\ StatusOf(x)' = StatusOf(x) /\ (SymbolsCurrent(x)' <=> SymbolsCurrent(x))
      /\ DOMAIN graph'.relationships \subseteq DOMAIN graph.relationships
  BY DeleteFacts DEF IInv
<1>3. \A x \in File : Parses(x)' <=> Parses(x)
  BY <1>2 DEF Parses
<1>4. MatchesDisk(f)'
  BY <1>1, <1>2 DEF MatchesDisk, Parses
<1>5. ASSUME NEW x \in File \ {f}, MatchesDisk(x) PROVE MatchesDisk(x)'
  <2>1. DependenciesOf(graph', x) \subseteq DependenciesOf(graph, x)
        /\ DependentsOf(graph', x) \subseteq DependentsOf(graph, x)
    BY <1>2 DEF DependenciesOf, DependentsOf
  <2> QED
    BY <1>2, <1>3, <1>5, <2>1 DEF MatchesDisk
<1>6. ASSUME MtimeInv, NEW x \in File PROVE BackedUp(x)'
  <2>1. CASE x = f
    BY <1>1, <1>3, <2>1 DEF BackedUp, Parses
  <2>2. CASE x # f
    BY <1>2, <1>3, <1>6, <2>2 DEF MtimeInv, BackedUp
  <2> QED
    BY <2>1, <2>2
<1> QED
  BY <1>4, <1>5, <1>6 DEF MtimeInv

\* Handling a deletion settles what is owed to the file.
LEMMA DeleteKeeps == ASSUME IInv, NEW f \in File, Delete(f) PROVE IInv'
<1>1. /\ pc = "delete" /\ f = current /\ Handled(TRUE)
      /\ UNCHANGED <<disk, unheard, quietly, edits, stamped, keys, builder>>
  BY DEF Delete, files
<1>2. LoopInv /\ stamped \in Seq(File)
  BY DEF IInv, Shape
<1>3. /\ LoopInv' /\ pc' \in {"idle", "loop"}
      /\ \A x \in Owed \ Passed : x \in (Owed \ Passed)' \/ (next > 0 /\ x = current)
  BY <1>1, <1>2, HandledMoves
<1>4. data' = NoData
  BY <1>1 DEF Handled
<1>5. Shape'
  BY <1>1, <1>4, DeleteFacts DEF IInv, Shape
<1>6. DataInv'
  BY <1>3 DEF DataInv
<1>7. QuietInv'
  <2> SUFFICES ASSUME quietly PROVE \A x \in File : MatchesDisk(x)' \/ x \in (Owed \ Passed)'
    BY <1>1, <1>3 DEF QuietInv
  <2>1. Undisturbed
    BY DEF Undisturbed
  <2>2. \A x \in File : MatchesDisk(x) \/ x \in Owed \ Passed
    BY DEF IInv, QuietInv
  <2>3. MatchesDisk(f)' /\ \A x \in File \ {f} : MatchesDisk(x) => MatchesDisk(x)'
    BY <2>1, DeleteMatches
  <2> QED
    BY <1>1, <1>3, <2>2, <2>3
<1> QED
  BY <1>3, <1>5, <1>6, <1>7 DEF IInv

-----------------------------------------------------------------------------
\* The invariant is inductive, whatever is edited and heard, and when.
LEMMA NextIInv == IInv /\ [Next]_vars => IInv'
<1> SUFFICES ASSUME IInv, [Next]_vars PROVE IInv'
  OBVIOUS
<1>1. ASSUME NEW f \in File, NEW c \in Contents[f], Edit(f, c) PROVE IInv'
  BY <1>1, EditKeeps
<1>2. ASSUME NEW f \in File, Hear(f) PROVE IInv'
  BY <1>2, HearKeeps
<1>3. CASE Process \/ Abort \/ LoopEnds \/ Clear \/ \E f \in File : AnalyzeFile(f) \/ Visit(f)
  BY <1>3, MoveKeeps
<1>4. ASSUME NEW f \in File, Extract(f) PROVE IInv'
  BY <1>4, ExtractKeeps
<1>5. ASSUME NEW f \in File, Store(f) PROVE IInv'
  BY <1>5, StoreKeeps
<1>6. ASSUME NEW f \in File, Delete(f) PROVE IInv'
  BY <1>6, DeleteKeeps
<1>7. CASE UNCHANGED vars
  <2>1. UNCHANGED <<disk, touched, graph, builder, unheard, stamped, pc, next, keys, current, data,
                    quietly>>
    BY <1>7 DEF vars
  <2>2. Shape' /\ LoopInv' /\ DataInv'
    BY <2>1 DEF IInv, Shape, LoopInv, DataInv, Undisturbed
  <2>3. Owed' = Owed /\ Passed' = Passed
    BY <2>1 DEF Owed, Passed
  <2>4. QuietInv'
    BY <2>1, <2>3, SameJudgement DEF IInv, QuietInv
  <2> QED
    BY <2>2, <2>4 DEF IInv
<1> QED
  BY <1>1, <1>2, <1>3, <1>4, <1>5, <1>6, <1>7 DEF Next, Updater

(***************************************************************************)
(* Every event heard and processed, the graph and the symbol data tell     *)
(* what is on disk: for every number of files, whatever their contents,    *)
(* and in whatever order and however late the events came, when none came  *)
(* just before clear() and no edit during a call.  Nothing is assumed of   *)
(* where an edit may come: quietly is what the property says of it.        *)
(***************************************************************************)
THEOREM UpdaterQuietMatches == Spec => []QuietMatchesDisk
<1>1. IInv => QuietMatchesDisk
  <2> SUFFICES ASSUME IInv, Quiet PROVE \A f \in File : MatchesDisk(f)
    BY DEF QuietMatchesDisk
  <2>1. Owed = {}
    BY DEF Quiet, Owed
  <2> QED
    BY <2>1 DEF Quiet, IInv, QuietInv
<1>2. Init => IInv
  BY InitIInv
<1> QED
  BY <1>1, <1>2, NextIInv, PTL DEF Spec

(***************************************************************************)
(* Whatever events are forgotten, the mtimes betray a file whose metadata  *)
(* or symbol data is not of its content.  The hypothesis is the one the    *)
(* run makes: no edit between the extraction of a file, or the check that  *)
(* it is gone, and the moment the result is stamped.                       *)
(***************************************************************************)
THEOREM UpdaterMtimeBacksUp ==
  ASSUME EditAt \cap {"store", "delete"} = {}
  PROVE  Spec => []MtimeBacksUpEvents
<1>1. Undisturbed
  BY DEF Undisturbed
<1>2. IInv /\ MtimeInv => MtimeBacksUpEvents
  BY DEF MtimeInv, BackedUp, MtimeBacksUpEvents
<1>3. Init => IInv /\ MtimeInv
  BY InitIInv
<1>4. ASSUME IInv, MtimeInv, [Next]_vars PROVE MtimeInv'
  <2>1. ASSUME NEW f \in File, NEW c \in Contents[f], Edit(f, c) PROVE MtimeInv'
    BY <1>4, <2>1, EditKeeps
  <2>2. ASSUME NEW f \in File, Hear(f) \/ AnalyzeFile(f) \/ Visit(f) \/ Extract(f)
        PROVE  UNCHANGED <<disk, touched, graph, builder>>
    BY <2>2 DEF Hear, AnalyzeFile, Visit, Extract, files, results
  <2>3. ASSUME Process \/ Abort \/ LoopEnds \/ Clear \/ UNCHANGED vars
        PROVE  UNCHANGED <<disk, touched, graph, builder>>
    BY <2>3 DEF Process, Abort, LoopEnds, Clear, vars, files, results
  <2>4. ASSUME UNCHANGED <<disk, touched, graph, builder>> PROVE MtimeInv'
    BY <1>4, <2>4, SameJudgement
  <2>5. ASSUME NEW f \in File, Store(f) PROVE MtimeInv'
    BY <1>1, <1>4, <2>5, StoreMatches
  <2>6. ASSUME NEW f \in File, Delete(f) PROVE MtimeInv'
    BY <1>1, <1>4, <2>6, DeleteMatches
  <2> QED
    BY <1>4, <2>1, <2>2, <2>3, <2>4, <2>5, <2>6 DEF Next, Updater
<1>5. IInv /\ MtimeInv /\ [Next]_vars => IInv' /\ MtimeInv'
  BY <1>4, NextIInv
<1> QED
  BY <1>2, <1>3, <1>5, PTL DEF Spec
=============================================================================
