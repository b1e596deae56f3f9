------------------------------ MODULE Algorithms ------------------------------
(***************************************************************************)
(* The pure algorithms of the system, each run on every input of a set.    *)
(* A behaviour picks an algorithm, then an input of it; the invariants say *)
(* what the algorithm owes that input.                                     *)
(***************************************************************************)
EXTENDS SortCheck, MetricsAnalysis

CONSTANTS Orders,        \* [files, index]         to sort
          Contexts,      \* [w, deps]              to assemble
          Definitions,   \* [d, context, more, large] to find the extent of
          Suppressions,  \* [c, w]                 to decide about
          Imports,       \* [w, dir, imp, new]     to resolve
          Histories,     \* [kind, history]        of analyses
          Samples,       \* sequences of numbers   to make statistics of
          Graphs,        \* sequences of relationships to measure
          Sessions       \* sequences of recordings to analyze, one of a session

Context     == INSTANCE ContextAssembly
Extent      == INSTANCE FunctionExtent
Suppression == INSTANCE WarningSuppression
Resolution  == INSTANCE ImportResolution
Names       == INSTANCE NameResolution

ASSUME OrdersAssumption ==
  \A o \in Orders : o.files \subseteq File /\ IsFiniteSet(UNION {o.index[k] : k \in DOMAIN o.index})

Dependencies == [src : STRING, tgt : STRING, sym : STRING, type : STRING, line : Nat, tline : Nat]
ASSUME ContextsAssumption ==
  \A i \in Contexts : /\ i.deps \in Seq(Dependencies)
                      /\ i.w.tokens \in [{"deleted", "wildcard", "large", "signature"} -> Nat]
                      /\ i.w.maxSnippets \in Nat

ASSUME DefinitionsAssumption ==
  \A i \in Definitions : /\ Extent!IsDefinition(i.d)
                         /\ i.context \in Nat /\ i.more \in Nat /\ i.large \in 0 .. i.more + 1

ModuleFiles == [dir : Seq(STRING), name : STRING]
ASSUME ImportsAssumption ==
  \A i \in Imports :
    /\ i.w \in [files : SUBSET ModuleFiles, stdlib : SUBSET STRING, installed : SUBSET STRING]
    /\ i.dir \in Seq(STRING) /\ i.new \in ModuleFiles
    /\ i.imp \in [parts : Seq(STRING), level : Nat, name : STRING]
    /\ i.imp.level = 0 => i.imp.parts # <<>>

\* the root is resolved
Paths == [abs : BOOLEAN, segs : Seq(STRING)]
ASSUME SuppressionsAssumption ==
  \A i \in Suppressions :
    /\ i.w \in [file : Paths, type : STRING]
    /\ i.c.root \in Seq(STRING) /\ \A k \in DOMAIN i.c.root : i.c.root[k] # ".."
    /\ i.c.patterns \subseteq Paths

\* every analysis is of a file, and no name used is "*"
UsedNames == STRING \ {"*"}
FileAnalyses ==
  [file : STRING \ {""},
   content : [defines : SUBSET STRING, imports : Seq([as : STRING, target : STRING]),
              uses : Seq([module : UsedNames, name : UsedNames]), others : BOOLEAN]]
ASSUME HistoriesAssumption ==
  \A i \in Histories :
    /\ i.kind \in {"call", "parent"}
    /\ i.history \in Seq(FileAnalyses) /\ i.history # <<>>

\* counts of tokens and times in milliseconds
ASSUME SamplesAssumption == \A values \in Samples : values \in Seq(Nat)
ASSUME GraphsAssumption == \A rels \in Graphs : rels \in Seq(ToSet(rels))

ASSUME SessionsAssumption ==
  \A recorded \in Sessions : /\ recorded \in Seq(ToSet(recorded)) /\ recorded # <<>>
                            /\ \A i \in DOMAIN recorded : IsRecording(recorded[i])

VARIABLES task, input
algorithmsVars == <<task, input>>

Nothing == <<>>
AlgorithmsInit == task = "none" /\ input = Nothing

Tasks == {"sort", "context", "extent", "suppression", "import", "names", "statistics", "graph", "sessions"}
Choose == /\ task = "none"
          /\ task' \in Tasks
          /\ UNCHANGED input

On(name, inputs) == /\ task = name /\ input = Nothing
                    /\ input' \in {<<i>> : i \in inputs}
                    /\ UNCHANGED task

Sort       == On("sort", Orders)
Assemble   == On("context", Contexts)
FindExtent == On("extent", Definitions)
Suppress   == On("suppression", Suppressions)
ResolveImport == On("import", Imports)
Name       == On("names", Histories)
Summarize  == On("statistics", Samples)
Measure    == On("graph", Graphs)
Analyze    == On("sessions", Sessions)

AlgorithmsNext == \/ Choose \/ Sort \/ Assemble \/ FindExtent \/ Suppress \/ ResolveImport \/ Name
        \/ Summarize \/ Measure \/ Analyze
AlgorithmsSpec == AlgorithmsInit /\ [][AlgorithmsNext]_algorithmsVars

-----------------------------------------------------------------------------
Ready(name) == task = name /\ input # Nothing
Given == input[1]

\* StalenessResolver's order: each file once, dependencies first, what waits for a cycle last.
OrderIsRight == Ready("sort") => SortIsRight(Given.files, Given.index)

\* _assemble_context: the limit takes the least important definitions, and the log tells what is shown.
ContextIsRight == Ready("context") => Context!ContextIsRight(Given.w, Given.deps)

\* The range, the signature and the docstring shown are those of the definition.
ExtentIsRight == Ready("extent") => Extent!ExtentIsRight(Given.d, Given.context, Given.more, Given.large)

\* Suppression follows its patterns and does not depend on how the path of a file is written.
SuppressionIsRight == Ready("suppression") => Suppression!SuppressionIsRight(Given.c, Given.w)

\* An import leads to the nearest file that is called so, or to none if there is none, and a
\* new file changes its target only by becoming it.
ImportIsRight == Ready("import") => Resolution!ImportIsRight(Given.w, Given.dir, Given.imp, Given.new)

\* Names are resolved by the file's own definitions and imports, whatever was analyzed before it.
NamesAreRight == Ready("names") => Names!NamesAreRight(Given.kind, Given.history)

\* The percentiles, tops and buckets of a session's metrics are what their names say, and
\* the analysis of sessions reports what they missed, without contradictory advice.
MetricsAreRight ==
  /\ Ready("statistics") => PercentilesAreRight(Given)
  /\ Ready("graph") => GraphMetricsAreRight(Given)
  /\ Ready("sessions") => AnalysisIsRight(Given)

\* What _resolve_function promises without proviso: names are those of the file as it is now.
NamesFollowTheFile == Ready("names") => Names!NamesFollowTheFile(Given.kind, Given.history)
=============================================================================
