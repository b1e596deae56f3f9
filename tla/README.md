# xfile_context in TLA+

This directory specifies the core of `xfile_context`: a service that reads Python
files for a coding assistant and adds to each file read the relevant definitions of
the files it imports. To do so it keeps a graph of relationships between files, keeps
it in step with files that are edited under it, and caches what it reads. The code is
`src/src/xfile_context/`; paths below are relative to it.

The specifications follow the code, not the documents. Where the two disagree and a
run shows it, the disagreement is under *Findings*; where we saw it while modelling and
no run is about it, it is under *Known disagreements*.

## 1. The system

| Component | Code | State it keeps | Operations |
|---|---|---|---|
| RelationshipGraph | `models.py` 440-1154 | list of relationships; two indices (`_dependencies`, `_dependents`) kept by hand; metadata per file | add, remove a file, remove its outgoing relationships, restore, metadata, pending flags, transitive traversal, validation |
| Two-phase analyzer, RelationshipBuilder | `analyzers/python_analyzer.py`, `relationship_builder.py` | symbol data per file | extract a file's symbols, build its relationships, store them; the same for a directory |
| SymbolDataCache | `symbol_cache.py` | symbol data per file with the mtime it had; LRU order | `is_valid`, `get`, `set`, eviction |
| StalenessResolver | `staleness_resolver.py`, `service.py` `read_file_with_context` | none between reads | before a read: find stale files along the dependencies, unlink, mark dependents pending, analyze or rebuild in topological order |
| GraphUpdater | `graph_updater.py` | none between calls | `process_pending_changes` over the watcher's events: create, modify, delete |
| FileWatcher | `file_watcher.py` | `file_event_timestamps` (a dict shared with no lock), invalidation callbacks | stamp an event; filter; start, stop |
| WorkingMemoryCache | `cache.py` | entries per (file, line range) in LRU order, size counter, last-read time per file | `get` with staleness test, retries and eviction; `invalidate`, `clear` |
| Context assembly | `service.py` 700-1310 | none | rank the dependencies of a file, tell the extent of each definition from indentation, show the first ten |
| Service life cycle | `service.py` 200-440, 1612-1653, `mcp_server.py` | what it holds, watcher, shutdown flag of the server | start, read, shut down (once from the server, as often as its user likes) |
| Injection log | `injection_logger.py` | open file, date, counters | append, rotate at a change of date, statistics, recent lines, close |
| Session metrics | `metrics_collector.py`, `scripts/analyze_metrics.py` | counters of the session, whether its record was written | record, make statistics, write once; aggregate sessions |
| Dynamic-pattern warnings | detectors, `service.py` 1432-1530, `warning_formatter.py` | warnings held by each detector, warnings of the emitter | find, hand over, collect, show, clear |
| Warning suppression | `warning_suppression.py` | rules of the configuration | decide about a warning |
| Import and name detectors | `detectors/import_detector.py`, `function_call_detector.py`, `class_inheritance_detector.py` | names and imports of the file seen last | where an import, a call, a parent class leads |
| Store | `storage.py` | list with gaps, index by file | add, remove, get, clear, export |
| Query API, configuration, pytest configuration | `query_api.py`, `config.py`, `pytest_config_parser.py` | none that changes | forward calls; validate settings; parse |

How they meet:

* One thread serves calls; a watcher thread runs beside it. They share
  `file_event_timestamps` (no lock) and the cache (`_cache_lock`). The user's editor is
  a third actor, and acts on the disk between any two steps of the others.
* The resolver, the updater and the directory analysis all write to one graph and
  one builder, through `analyze_file_two_phase` or `_store_relationships`. The service
  never runs two of them at once.
* Two things tell that a file changed: its mtime against `last_analyzed` (resolver),
  and its events (updater, cache). They back each other up; neither is complete alone.

What is hard: the order in which stale files are re-analyzed, as storing one removes
relationships other files own; edits between reading a file and stamping it; the
events of one thread in the middle of the iteration of another; a cache whose
freshness is recorded by file and whose entries are recorded by range; cycles; a log
whose writes fail, whose date changes and whose process may die at any step; detectors
that outlive the file they looked at and hand on what they remember of it.

What makes it correct, per component:

* graph: the indices are the image of the list; removing and restoring are inverse;
  traversal is reachability;
* resolver: a read is answered from relationships that are those of the disk, no
  relationship disappears without a trace, a file taken for fresh is, reads end;
* analysis of a directory: what is cached, kept and stored is current, failures cost
  only the file that fails, the analysis ends;
* updater: after all events were processed the graph says what is on disk, and what an
  event missed the mtime still catches;
* cache: what it serves is current, it stays within its limit, `get` returns;
* context: the limit takes the least important definitions, each range covers its
  definition, the log says what was shown;
* log and session: what was counted is on disk and can be read back, a session has one
  record, and shutdown releases everything however it ends;
* warnings: none is lost or doubled on its way, suppression follows its patterns;
* imports and names: they lead where Python would look, whatever was analyzed before;
* figures: a percentile is one, a top list leaves out nothing greater, sessions without
  data pull no aggregate to zero;
* store: the index hides no relationship and shows no gap.

## 2. Modules

| Module | What it is |
|---|---|
| `GraphOps` | `RelationshipGraph`'s methods as operators on a graph value: a record of its four attributes. Dictionaries are functions over the keys present, the list is a bag |
| `RelationshipGraph`, `GraphReport` | the class driven by any sequence of its public methods; what it exports and what its check for corruption says |
| `AnalyzerOps` | `extract_file_symbols`, `analyze_file_two_phase` and the builder as operators on a graph, a builder and a disk |
| `StalenessResolver` | a read of a file with its resolution, against an editor |
| `ProjectAnalysis` | the analysis of a directory with the symbol cache, against an editor |
| `GraphUpdater` | `process_pending_changes` against the watcher thread and an editor |
| `WorkingMemoryCache` | the cache among a reader, the watcher thread and a writer |
| `EventLog`, `Session` | the state of a `.jsonl` log and its methods as operators; the life of a service around it: reads that log, failing writes, midnight, shutdown, the death of the process |
| `DynamicWarnings` | the way of a warning from the detectors to the emitter, with analyses, reads and edits in any order |
| `RelationshipStore`, `InMemoryStore` | what a store promises, with nothing of how; `storage.py`'s list with gaps and its index, which implements it |
| `TopologicalSort`, `SortCheck` | the resolver's sort, and what it owes its caller |
| `ContextAssembly`, `FunctionExtent` | which definitions a read shows; where a definition begins and ends |
| `ImportResolution`, `NameResolution` | where imports lead; what names of calls and parent classes are taken for, with the detectors' memory of the last file |
| `WarningSuppression` | the rules and patterns of `warning_suppression.py` |
| `SessionMetrics`, `MetricsAnalysis` | the figures of a session; those the script makes of several |
| `Algorithms` | picks one of the seven pure modules above and an input of it, so that one run checks them all |
| `MC*` | instances of the above for TLC |
| `*Proofs` | theorems: `GraphOpsProofs`, `GraphAndAlgorithmsProofs` (`RelationshipGraph`, `GraphReport` and the `Algorithms` but for the sort), `StalenessResolverProofs` (with the sort), `GraphUpdaterProofs`, `ProjectAnalysisProofs`, `WorkingMemoryCacheProofs`, `ServiceProofs` (`Session` and `DynamicWarnings`), `InMemoryStoreProofs` |

`GraphOps` is shared by all owners of a graph and `AnalyzerOps` by the three that
analyze files, so a method of the code has one translation and the lemmas about it are
proved once (`GraphOpsProofs`). The machines of `Session` and `Algorithms` carry their name
(`SessionSpec`, `AlgorithmsSpec`), as the module with their proofs extends another machine too.

Beside an operator that models code there may be one with a name that says what it does
wrong (`ForgetsToClear`, `CountsTheLineOutside`): the mistake that the property listed
with it in `PROJECT.json` (`mutants`) is there to exclude.

### How state and actions correspond to the code

Abstractions made throughout:

* A file on disk is `Absent` or a record of its kind (`ok`, `broken` when `ast.parse`
  fails or times out, `unreadable` when `_read_file` gives up, as for too many lines), the files it
  imports, and one line: where it defines what the others import. One relationship per
  import stands for the relationships of all kinds: all are built and removed together.
* A timestamp is the comparison made of it. `touched` is the set of files with
  `mtime > last_analyzed`; an edit puts a file in, a stamp takes it out. In the cache
  `newerEvent` and `newerWrite` play that part. Clocks are thereby exact: a file system
  that keeps mtimes to the second could hide an edit from the program, not from the model.
* An import of a file that does not exist becomes a marker (`<unresolved:...>`);
  markers of other kinds behave the same. Only `ImportResolution` tells them apart.
* A path is a sequence of segments, a line of a log the event it holds, a line of source its
  indentation and what kind of line it is.

`StalenessResolver`. `StartRead` is the entry of `read_file_with_context`; `Resolve`
is steps 1-3 of `resolve_staleness`; `Unlink` is one turn of the loop of
`_remove_relationships_and_mark_pending`; `Schedule` is `_get_files_to_process`;
`Extract` and `Store` split `_analyze_file` at the point where the file has been read
and not yet stamped; `Rebuild` is `_rebuild_relationships_for_file`; `Answer` reads the
dependencies. Edits fall between any two of these when `EditDuringRead`. The ghost
`disturbed` holds the files edited since the read began.

`ProjectAnalysis`. `AnalyzeDirectory` lists the files in any order; `FindCached`,
`CacheHit`, `CacheMiss` are `is_valid` and the second test inside `get`; `Extract` and
`Record` are the rest of phase 1 for a file, `Record` with the `set` of the symbol cache and its
eviction; `StartBuild`, `Build`, `Finish` are phase 2. The ghost `unseen` holds the
files edited after they were read and before they were stamped.

`GraphUpdater`. `stamped` is the key order of the dict. `Hear` is the watcher thread;
`Visit` one turn of the iteration; `Abort` the `RuntimeError` that Python raises when
the dict has grown; `Clear` the `clear()` at the end. `Extract`/`Store` as above,
`Delete` is `update_on_delete`.

`WorkingMemoryCache`. A call of `get` is `Hit`, or `StartRead` (where `t` is taken),
`ReadDisk` or `ReadFails` (each attempt), and `ReadStores` or `ReadTooLarge`. The
lock is `pc # "idle"`. The counters of hits and misses are left out. The ghost `lastRange`
is the range a file was last stored under.

`Session`. A logger is its handle (none, open, or closed by a failing `close` and not
forgotten), the file it names, the date it believes in, what waits in the buffer and
its counters. `LogInjection` is one call of `log_injection` for one snippet, rotation
and lazy opening included; its parameter is the date at the second reading of the
clock, since `current_date` and the name of the file are read apart. `LogInjectionFails`, `RotationFails`
and `WriteToClosed` are the exceptions it may leave by; `EndRead` is the record of the
context's tokens, which an exception skips. `shutdown` is cut where it may stop:
`Shutdown` (watcher), `Finalize` or `FinalizeFails` (metrics), `Clear`, `Close` or
`CloseFails`. `ServerShutdown` is behind the server's flag, `ServiceShutdown` is not.
`Die` may follow any step; only files remain.

`DynamicWarnings`. `AnalyzeFile` and `AnalyzeDirectory` are the service's two methods
with the collection at their end; `StartRead` and `ReadAnalyzes` a read that re-analyzes
any files and collects nothing; `ClearWarnings` empties the emitter. A warning is
counted, so that one shown twice differs from one shown once.

`InMemoryStore`. `relationships` is the list with its gaps, `by_file` the index,
`reply` the last call and what it returned. The mapping to `RelationshipStore` takes
the list without gaps for the relationships held, and an index for the tag that tells
duplicates apart.

`Algorithms`. `task` and `input` have no counterpart in the code: a behaviour chooses an
algorithm, then an input of it, and stops. Rounding of fractions is left out of
`SessionMetrics` and `MetricsAnalysis`, whose numbers are whole. A sort puts each position at
its rank, the number of those ahead of it (`Arranged`), which is what a stable sort does, whatever its steps;
a session to analyze is what its collector recorded, read back (`Parsed`).

## 3. Runs

Twelve runs, each of which asks one question; all finish within a few minutes on two cores.

| Run | Question | Instance |
|---|---|---|
| `graph` | are the hand-kept indices, restore, removal, traversal and the check for corruption right after any calls? | 3 files, at most 3 relationships in the list, copies counted, symmetry in files (347 738 states) |
| `algorithms` | does each pure algorithm owe its caller what it gives? | every input of the sets below (107 964 states) |
| `resolver_any` | does a read cope with files that break, come, go and import each other, and take up what earlier ones left pending? | 3 files, 2 edits between any two steps, any file read (64 619 states) |
| `resolver_diamond` | is the answer that of the disk, is no edge lost? | the documented diamond, 5 edits between reads |
| `cache` | is what is served current, do contents stay in the limit, does `get` return? | the first lines of 2 files and one of them whole, 2 writes at any step, callbacks on, a limit of 2 below the contents, 2 attempts (291 877 states) |
| `updater` | once quiet, is the graph what is on disk? are forgotten events caught by the mtime? does processing end? | 2 files that import each other, 4 edits, events at any step (474 238 states) |
| `project_analysis` | is what is cached, kept and stored current; does one failing file cost only itself? | 3 files, room for 2 in the symbol cache, 2 edits at any step, any file order, analyses without limit (285 752 states) |
| `session` | can the log be read back, is the record complete, does shutdown release everything? | 3 dates, 2 files, 3 events, 2 reads, up to two writes that fail, death at any step, symmetry in files (2 376 328 states) |
| `warnings` | is any warning lost, doubled or missed? | 3 files one of which is a test, one pattern, 1 edit, each warning made at most twice (568 256 states) |
| `store` | is the index exact, the export consistent, the abstract store implemented? | 2 files, 3 additions, removals at any place, calls rejected for a malformed path, their line or their type (28 160 states) |
| `project_edges` | has each stored file a relationship to each import? | no edits, *violated* |
| `stale_names` | are names resolved by the file as it is? | the histories of `algorithms`, *violated* |

The inputs of `algorithms` (`MCAlgorithms`):

* *sort*: every dependency index over three files, missing keys included, with every set of files;
* *context*: up to four of five dependencies in any order, among them duplicates, a
  wildcard, a deleted file, a high-usage symbol, with room for two snippets;
* *extent*: headers of one to three lines, bodies of up to three, blank lines and
  comments anywhere, files that go on or end, two limits of lines read;
* *suppression*: patterns of up to three segments with `*` and `**` in every place, paths
  absolute and relative, both with `..` too, types configured true or false, a mistyped one among them;
* *import*: every set of files from a pool of eight that holds modules beside packages
  of their name at several depths, packages in packages, a module with a name of the standard library and
  one in the root of the file system, where the search of an absolute import does not get to;
  absolute imports of one part and two, relative ones of one to four dots, one more than there are
  directories, of a module, a package or a name; from a directory near the root and from one three deep; with
  every new file of the pool;
* *names*: two analyses of two files in any order, and then one of the two again; contents with names
  to resolve, with calls or classes of which nothing is resolved, and with neither;
* *figures*: all samples of up to four values and those of 19-21, 39-41 and 99-101,
  where an index moves; graphs about the bounds of the buckets;
  one session of any kind (hit rates, evictions, no context or contexts of several sizes, no parsing or slow
  parsing, three graphs), two of them in the order of their starts or not, and three.

Why these bounds. Three files hold a chain, a cycle with something behind it and a file that is
both dependent and dependency; four are needed for the diamond. Two edits during a
read put one before and one after any step, five between reads let every file of the
diamond change and one change back. A symbol cache of two for three files evicts on each analysis. The
list bound of three lets two relationships share their ends while a third links
another pair, and holds a duplicate; that of the store leaves a gap between, before and behind.
Three dates let a log be rotated twice and leave a file two days behind; two faults leave a
line in the buffer and then fail to flush it, as a close does only after a write did, and each is
followed by as many good writes as the events allow. Only edits, writes, events
(`MaxEdits`, `MaxWrites`, `MaxEvents`, `MaxReads`, `MaxFaults`, `MaxWarnings`) and lists
(`MaxRels`, `MaxAdds`) are bounded; calls, analyses and shutdowns repeat for ever.

What the exclusions are for:

* `resolver_diamond` keeps edits out of a read, as `FreshSymbolsCurrent` fails for a
  file edited between its extraction and its stamp (below);
* `updater` keeps edits away from the steps between a file's extraction and its stamp,
  for the same reason, and from those between `exists()` and the record of a deletion, which would take a file
  re-created there for deleted (below); `QuietMatchesDisk` speaks of behaviours whose edits fell between calls
  (ghost `quietly`), as an event stamped between the last visit and `clear()` is
  forgotten; `MtimeBacksUpEvents` says of all that this does no harm;
* `ServedIsCurrent` speaks of the range a file was last stored under (below);
* `OldFilesImmutable` speaks of steps with an empty buffer: what an earlier failure left
  there goes to the file it was meant for, whatever the date.

**Fairness.** Liveness is checked under weak fairness of the one thread that runs the
operation (`resolver_any`, `cache`, `updater`): its loops block on nothing but the
disk, the lock it holds already, and a bounded number of retries. The editor,
the watcher and the callers are not fair: nothing obliges them to act. `cache`
shows that `get` returns although the file may stay locked for ever.

**Deadlock** is checked but in `algorithms`, `warnings`, `session` and `store` (and
`stale_names`), where the system does stop: an algorithm has its answer, edits and
warnings are used up, the process is dead, the list is full.

Three more configurations are kept to be run by hand. Each violates one property that
states what the code does *not* do: `ResolverShortcut.cfg` (with `MCStalenessResolver`,
`NoEdgeSilentlyLost`), `CacheSnippet.cfg` (`MCWorkingMemoryCache`, `EveryRangeCurrent`),
`MetadataPatterns.cfg` (`MCDynamicWarnings`, `MetadataTellsOfFile`); what they show is
under *Known disagreements*.

## 4. What the runs show

*Holds.* The graph's indices never diverge from its list, whatever methods are called,
and its check for corruption finds every entry an index lost. The sort loses and repeats no file, whatever the cycles. On the documented
diamond the pending flags put back every relationship that re-analysis removes. A read ends, and leaves nothing stale that it
walked; if anything was, it leaves nothing pending either, even what an earlier read had marked and no way to. The cache serves what is current even with writes and events
between each of its steps; its contents stay within the limit even though its counter
drifts upwards. `process_pending_changes` converges with the disk in spite of the
`RuntimeError`s. The analysis of a directory ends with the lines of the end of the
analysis, whatever came from the symbol cache. What the log's statistics count is on
disk whenever the process dies; the session has one record, made before what it tells of
is dropped; and shutdown stops the watcher, closes the log and holds nothing, even by an
exception. No dynamic-pattern warning is lost or shown twice. The store cannot be told
from one without gaps and index. The context's limit never costs an important definition
its place, and the extent of a definition is covered whatever blank lines, comments and
inner definitions it has.

*Findings* (runs that are expected to be violated, each against a line of the code or docs):

1. `project_edges`. `_store_relationships` calls `remove_relationships_for_file`
   (`analyzers/python_analyzer.py:328`), which also removes the relationships that *end* in the
   file. In phase 2, each file stored removes those of the files stored before it that
   import it. `OnlyLaterStoresDropEdges` of `project_analysis` shows that this is the only loss.
2. `stale_names`. The detector of calls keeps the names and the imports of the file it saw
   last under its path (`detectors/function_call_detector.py:109`). A file analyzed twice in
   a row, edited in between, has its names resolved by the old content, where
   `_resolve_function` promises "Local scope: Check if function defined locally" (214).
   `NamesAreRight` of `algorithms` shows when names can be old: other content of the file was met
   since the detector last looked at another file. It keeps the first content it meets, so a file
   analyzed, edited and analyzed twice still has the names of the first. To look at a file is to
   meet any call (`FunctionCallDetector`) or any class definition (`ClassInheritanceDetector`) in it: the caches are
   made ready before the detector knows whether there is a name to resolve (`NameResolution!Enter`), so content without
   one makes the next outdated too, and a file without calls does not displace the caches of another.

*Known disagreements that no run of the project is about.*

In the graph and the resolver:

* A file that is both stale and a dependent of a file processed
  after it (a third file read first made it so) is analyzed, then loses a relationship
  when the other is analyzed, while its pending flag is already cleared
  (`staleness_resolver.py:413`, `427`; cf. lines 17-18; `ResolverShortcut.cfg`).
* Legal removals leave empty index sets, which `validate_graph` reports as "Orphaned
  index entry", so `detect_corruption` takes a sound graph for corrupt
  (`models.py:818-829`, cf. `614`); `ReportsAreRight` shows that it is the only such
  complaint beside that of duplicates. Nothing but tests calls it. `validate_graph` says nothing about
  metadata (`764`).
* A file behind a cycle, on none itself, is sorted by name with the cycle
  (`staleness_resolver.py:259`), so it can be processed before what it depends on
  (cf. `196-197`). `OrderIsRight` excepts such files.
* Pending files are rebuilt only when the read finds something stale: with nothing
  stale, `resolve_staleness` returns at once (`131`; cf. the docstring at `service.py:354`).
* Further ways to lose a relationship in a read: two files in an import cycle both
  stale; a new import of a file that is stale at the same time; and a stale file newly
  imported, whose line stays the old one in the importer's relationship.
* A file edited between its extraction and `last_analyzed = time.time()`
  (`analyzers/python_analyzer.py:340`) looks fresh and is not analyzed again.
* An event stamped between the visit of the last file and `clear()` is forgotten
  (`graph_updater.py:425`).
* A file re-created after `exists()` said no (`graph_updater.py:394`) is recorded as deleted, with a stamp later than its mtime
  (`234`): it is neither analyzed nor stale until the event of its re-creation is processed.
* An unparseable file keeps its relationships and symbol data (`graph_updater.py:162`, cf. `46-47`).
* `get_graph_statistics` of the service is always empty (`service.py:1408-1418`).

In the caches:

* `_file_last_read_timestamps` is kept per file, entries per (file, range): re-reading
  a modified file under one range makes the entries of the other ranges pass for fresh
  (`cache.py:215`; `CacheSnippet.cfg`).
* `current_size_bytes` counts a refreshed entry twice (`cache.py:222`), and the entry
  keeps its old place in the eviction order (`212`, `330`).
* The MCP server gives the cache a timestamps dict of its own (`mcp_server.py:77-81`),
  so there only the mtime is compared; `register_invalidation_callback` is called
  nowhere. `WorkingMemoryCache` covers both configurations: events may never
  be heard, and `CallbackRegistered` is a constant.
* `SymbolDataCache.set` takes the mtime after the file was parsed (`symbol_cache.py:161`):
  an edit in between is cached as parsed. `set` evicts before it looks whether the key
  is present (`176`). Cached data whose import was unresolved stays so when the file
  appears (`271`); the same holds of an importer that was analyzed before the file was created.

In what a read shows:

* `_get_function_line_count` stops at the closing line of a header of several lines if
  it is not indented deeper than `def`, as formatters write it: the extent ends before the body
  (`service.py:845`). `ExtentIsRight` is about other headers; `ExtentCovers` states it of all.
* The signature shown ends with the first line that ends in a colon (`service.py:899`, `904`). When the last line of the header
  does not, for a comment behind it or because the body is on the same line, it runs on into the body, and if nothing that is read
  ends in a colon, over all of it. `IsDefinition` leaves such headers out, and with them one-line definitions, so `ExtentIsRight` says
  nothing of them.
* `_resolve_module` looks for a name in the standard library before it looks for files
  (`detectors/import_detector.py:346-349`), where its documentation and that of the module have the files of the project
  first (`193-197`, `328-333`), as Python has them for scripts. `ImportIsRight` affirms neither order: it excepts a
  name of the standard library that leads to no file.

In warnings:

* A read leaves its warnings in the detectors, and the metadata of a file gets the patterns
  of whatever file the detectors remember (`analyzers/python_analyzer.py:377`;
  `MetadataPatterns.cfg`). It never misses its own (`PatternsNotMissed`).
* The service builds `WarningEmitter()` with neither a suppression manager nor a
  `WarningLogger` (`service.py:230`): the setting `suppress_warnings` has no effect there, the
  log and the statistics of warnings stay empty.
* A relative path with `..` is compared as written (`warning_suppression.py:439`), although
  `_get_relative_path` says that it "normalizes paths to resolve traversal sequences" (421).
* `*` in a pattern without `**` crosses `/`, and an absolute pattern is compared as written
  (`warning_suppression.py:399`).

In logs and figures:

* `get_recent_injections` reads one file, that of the logger's date; with `limit=0` it returns
  all its lines.
* The comment on the 95th percentile gives an index of 94 for a hundred values where the
  code takes 95 (`metrics_collector.py:299`).
* A session's exceedances count contexts, its injections snippets, so the rate the
  analysis makes of them is below the one it means. A context without a snippet (no signature was found of what it
  would show) is counted and is no injection, and then the rate may be above it: the
  advice may be to lower a token limit that was exceeded (`AdviceIsRight` names the case). The analysis
  counts intermediate flushes as sessions (nothing calls `flush_intermediate`);
  the end of its date range is that of the session that started last.

## 5. Proofs

All theorems hold for every number of files, every content of them and every bound.
Except where a hypothesis is named, they hold for edits, events and failures at any step.

`GraphOpsProofs` proves of each mutator that it keeps `GraphType` and `Mirror`, and that
the traversal of an index with finitely many targets is the set of files reachable over it.
The proof modules of its users cite these lemmas.

* **`GraphAndAlgorithmsProofs`**, the graph: `TypeCorrect`, `IndicesExact`, `RestoreIsInverse`,
  `RemovalForgetsFile`. The inductive invariant is the type of the graph and of what
  was last removed, with `IndexMirror`: `remove_outgoing_relationships` repairs the
  reverse index from the forward one, which is right only while the two agree.
  `TraversalCorrect` and `ReportsCorrect` follow for each graph reached, of which `FiniteInv`
  adds that it is finite.
* The algorithms: `ImportsAreRight`, `ExtentsAreRight`, `NamesFollowContent`,
  `SuppressionsAreRight`, `ContextsAreRight`, `MetricsCorrect`, for any sets of inputs of the right
  shape (`DefinitionsAssumption`, `ImportsAssumption`, `HistoriesAssumption`, `SuppressionsAssumption`,
  `ContextsAssumption`, `SamplesAssumption`, `GraphsAssumption`, `SessionsAssumption`). The lemmas they rest on
  are about the algorithms themselves
  (`ImportCorrect`, `ExtentCorrect`, `NamesCorrect`, `SuppressionCorrect`, `ContextCorrect`,
  `PercentilesCorrect`, `GraphMetricsCorrect`, `AnalysisCorrect`): a search that tries candidates in order ends at the
  first that exists; the extent of a definition ends before the first line that is neither blank nor a
  comment and not indented deeper; a detector that has looked at a file has the names of the first content
  it met since another. An earlier `NamesAreRight` spoke of the last content met; the attempt to
  prove it found that it was false, and TLC confirmed it with three analyses of one file. The matcher of
  patterns, from any place of a path and of a pattern, accepts exactly what can be laid over the rest
  (`MatchPartsCovers`, by induction from the end of the pattern). An earlier `SuppressionIsRight` spoke of
  every relative path; it is false of one with `..`, which the proof showed and the code bears out (above).
  What a read shows is a sort, a removal of duplicates and a selection within a limit, each a fold over the result
  of the one before. Each gets a statement of the places its result has in the list it was made from
  (`Ranked`, `Kept`, `Shown`), the last two invariants of the folds. As all three keep the order, what is not shown
  comes after everything shown.
* The figures, `MetricsCorrect`, rest on one lemma about order (`RanksOfOrder`: where one of any two is ahead,
  the ranks are a list of all, each once) and one about counting (`AscendingFacts`: at the m-th place of a
  sorted list, at least m values are no greater and all but m - 1 no less). From these follow what the median and
  the 95th percentile leave on either side, for every number of values (`Place95Facts` is the
  arithmetic of the index). That the aggregated median is not above the aggregated 95th percentile is not a fact about
  either list alone: two lists in order place by place are in order when each is sorted by itself
  (`AscendingMonotone`, by two sets of places that cannot miss each other), and so are their medians. `ManyOverLimit`
  is the reason why advice about one session raises a limit exceeded: when more than one context of 20
  is over the limit, the 95th percentile is. It takes for granted that the exceedances counted are the
  contexts over the limit; `CollectorCounts` proves that the collector keeps it so.
* **`StalenessResolverProofs`**, the resolver: `ResolverEdgesDerived`. The invariant (`IInv`) adds to the
  property the shape of the state and that the indices of the graph agree with its list, without which unlinking
  a file could leave some of its relationships behind, to be there twice when they are rebuilt. `ResolverFreshSymbols` holds
  under `Calm`: no edit during a read and no deletion. Without the first it is false (see
  above). Its invariant `FreshInv` adds that the data in hand is that of the disk.
  `ResolverPassesNothingOver` is about reads that no edit disturbed: `PassInv` says at every
  step of a read which of the files found stale are still due, and that the lists worked
  through hold them all. `ResolverTakesPendingUp` needs no such proviso: once the list to process is made, the
  pending files among those walked are on it, and a file leaves it with its flag cleared (`TakenUpInv`).
* A project in layers: `ResolverAnswerMatches` and `ResolverLosesNoEdge`. Both properties are false of
  a file imported from two layers (the first of the known disagreements), of a file that comes or goes and of
  an edit inside a read, so they are proved under `InLayers`: each file imports files of the layer
  below, the same ones after every edit, parses unless it imports nothing, and is read from one root
  between edits. The diamond of `ResolverDiamond.cfg` meets it (`DiamondIsLayered`). The invariant
  (`LayerInv`, checked by TLC on the diamond and on six files with broken and unreadable leaves before it was
  proved) goes with the read: `Settled` between reads (every known file has all its relationships, and the
  walk from the root passes it), `CopyInv` of the index the walk took, `UnlinkInv` (who imports an unlinked
  file is stale or marked), `ProcessInv` (a file that misses relationships, and every file that will,
  is still to be processed, and none before one it imports), `LinesOf` (the root's lines are those of
  the disk once it is processed). `StoreSummary` says what a store does to the letter.
* The sort: `SortCorrect`. `KahnFacts` is the invariant of Kahn's algorithm: what is listed,
  what is ready and how many dependencies each file waits for still. That every file that
  waits for no cycle gets its turn (`AcyclicListed`) is by a least counterexample, that
  the others do not (`CyclicNotListed`) by a first one. `PassInv` rests on it, and so does
  `OrdersAreRight`, for any orders of the right shape (`OrdersAssumption`).
* **`ProjectAnalysisProofs`**: `AnalysisCachedIsCurrent`, `AnalysisFreshSymbols` and
  `AnalysisLinesCurrent`. None is inductive: the symbol data a file
  is stamped with in phase 2 was put in the builder in phase 1, from the cache or from
  the disk. So the invariant follows the data on its way: cached (`CacheInv`), just
  extracted (`DataInv`), in the builder and not yet stored (`FlightInv`), stamped
  (`FreshInv`); `LinesInv` says of the relationships stored so far that they
  have the builder's lines, which phase 2 no longer changes. `AnalysisTypeCorrect` (the
  symbol cache keeps its limit, its order lists its keys) and `AnalysisDropsOnlyLater` rest on a second
  invariant, `TInv` and `EdgesInv`: each file is on one of the lists of the two phases, and what was
  stored so far is linked to all its imports but those stored after it.
* **`GraphUpdaterProofs`**: `UpdaterQuietMatches` and `UpdaterMtimeBacksUp`, the second with no
  edit between a file's extraction and its stamp, nor between the check that it is gone and
  the record of its deletion. The
  invariant says which files are owed an update: those with an event unheard or ahead of
  the iteration. A file the iteration has passed matches the disk even if a second event of
  it is unheard, as hearing that adds no key to the dict.
* **`WorkingMemoryCacheProofs`**: `CacheServesCurrent` follows the content from the disk to
  the entry (`ContentIsCurrent`, `StoredIsCurrent`) and says that a write is on its way to be
  heard (`WriteIsHeard`, `LateIsHeard`). `CacheWithinLimit` needs that the counter covers the
  sum of the sizes of the entries and that the order lists each entry once (`LruInv`), as the eviction
  stops by the counter. `CacheTypeCorrect` is the type.
* **`ServiceProofs`**, the session: `LogCanBeReadBack`, `LogRests`, `RecordTellsAll`,
  `ShutdownEnds`, from one invariant (`SessionInv`): an open handle is that of the file
  named, no file later than it has lines, its date is at most a day behind, what is counted is on
  disk, what is tracked is tracked exactly, a record not yet written has still what it would tell of, and
  how far a shutdown has come. The warnings: `NoWarningLost`, `NoPatternMissed`, `AnalysisShowsWarnings`;
  `WarningsConserved` and `PatternsNotMissed` are inductive together.
* **`InMemoryStoreProofs`**: `StoreImplemented`, that `InMemoryStore` implements
  `RelationshipStore`, with `StoreIndexExact` and `StoreTypeCorrect`. What the abstract store answers
  from what it holds, the store answers from its index, so the refinement needs that the
  index is exact: the set of indices of each file is that of the relationships left that involve it,
  its lists ascend and none is empty. Ascending lists make `list.remove`, which takes the
  first of equal elements, take the only one. The invariant also says that all that is held was
  accepted: the lookup of a path the store rejects answers nothing, as the abstract store does.
  `StoreExportAgrees` counts: the lengths of ascending lists are the numbers of what they list.

Recursive functions and folds get their meaning without an induction rule: the
existence of a function by recursion on its domain's numbers or finite sets is shown once for functions
(`RecursionOnNat`, `SumsExist`), and a statement about all numbers or sets is proved for the
set of those it holds of, by well-foundedness (`IntervalInduction`, `SetInduction`,
`LeastExists`).

The assumptions are those named in the modules: markers are not files and the constants that stand
for the absence of something are nothing else (`AnalyzerAssumption`, `MarkerAssumption`,
`GapAssumption`, `SessionAssumption`), contents are contents (`ResolverAssumption`,
`UpdaterAssumption`, `AnalysisAssumption`, `CacheAssumption`), names are ordered
(`NamesAssumption`), dates are a range of numbers (`DatesAssumption`), bounds are numbers.

*Only model-checked*: liveness (`ReadAnswered`, `GetReturns`, `ProcessingEnds`), which the
prover does not reach. Every safety invariant and action property that a passing run checks is
stated by a theorem.

## 6. Not modelled, and why

* The matching of AST shapes by the detectors, the wording of warnings and of the
  injected context, the reports and charts of the metrics script: no state, or none
  that a property is about.
* `warning_logger.py` has the shape of the injection log (`EventLog`) and is called by
  no module of the service but to be closed; the grouping of warnings by severity in
  `warning_formatter.py` is layout.
* The rollback of `update_on_modify`: each step of the analysis catches its
  exceptions, so the rollback is not reached but by conditions such as `MemoryError`.
* `FileWatcher`'s filters (what is ignored) and `_pending_files`, written and never read;
  `analyze_file` of the single-phase analyzer, `SymbolDataCache.persist`, `load`,
  `invalidate`, `log_injections`: called by no module of the service. The readers
  of the metrics file likewise.
* `query_api.py` forwards, as do the server's tools; `config.py` validates once
  (`symbol_cache_max_entries` is positive: 140-141, which is why `MaxEntries` is);
  `pytest_config_parser.py` parses text.

## 7. Plan

Done, in this order: graph, sort, resolver, cache, updater, analysis of a directory;
context, extent, suppression, imports, names, figures; session and log; warnings; store and
its abstraction; proofs of all safety properties of the state machines, and
of all algorithms, the sort included.

Next:

1. An abstract specification of a read (an answer computed at once from the disk)
   that `StalenessResolver` implements where `AnswerMatchesDisk` holds; then which projects beyond
   those in layers `LayerInv` can be extended to.
2. The watcher's filters (`file_watcher.py` 238-284) and the grouping of warnings, as
   further algorithms.

Runs of one component that differ only in bounds are merged as components are added,
so that checking the whole project stays a matter of minutes.
