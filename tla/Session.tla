------------------------------- MODULE Session -------------------------------
(***************************************************************************)
(* The life of a CrossFileContextService: reads that log the context they  *)
(* inject, the record of the session's metrics, shutdown, through the      *)
(* server (once, from atexit) or by its user (as often as he likes), while *)
(* dates change, writes fail and the process may die at any step.          *)
(*                                                                         *)
(* Everything runs on one thread; a read or a shutdown is cut into steps   *)
(* because each of them may fail, or be the last the process makes.        *)
(***************************************************************************)
EXTENDS EventLog

CONSTANTS
  MaxEvents,    \* bound on the events a session tries to log
  MaxReads,     \* bound on the reads that inject context
  MaxFaults     \* bound on the writes that fail

ASSUME SessionAssumption ==
  MaxEvents \in Nat /\ MaxReads \in Nat /\ MaxFaults \in Nat

VARIABLES
  today,        \* the UTC date
  pc,           \* what the service is doing
  left,         \* snippets the read still has to inject
  reading,      \* the file they come from
  injections,   \* the InjectionLogger
  lines,        \* the injection files: date -> lines
  metrics,      \* the MetricsCollector: file, current, written, and the tokens recorded
  records,      \* the metrics files: date -> records
  holds,        \* the cache, graph, builder and symbol cache hold something
  watching,     \* the file watcher runs
  serverDown,   \* _shutdown_called of the server
  tried,        \* events the session tried to log
  counted,      \* those that were counted, in order (history)
  analyzed,     \* something was ever analyzed (history)
  dropped,      \* a shutdown dropped it without a record of it (history)
  faults        \* writes that failed

logging == <<injections, lines, tried, counted>>
history == <<analyzed, dropped>>
sessionVars == <<today, pc, left, reading, logging, metrics, records, holds, watching,
          serverDown, history, faults>>

Places == {"idle", "inject", "finalize", "clear", "close", "dead"}

\* made on the first date; the file of the injection log is named before the other is made
SessionInit ==
  /\ today \in {FirstDate, FirstDate + 1} \cap Date
  /\ injections = NewLogger(FirstDate, today)
  /\ metrics = [file |-> today, current |-> today, written |-> FALSE, tokens |-> 0]
  /\ lines = NoFiles /\ records = NoFiles
  /\ pc = "idle" /\ left = 0 /\ reading \in Source
  /\ holds = FALSE /\ analyzed = FALSE /\ dropped = FALSE
  /\ watching = FALSE /\ serverDown = FALSE
  /\ tried = 0 /\ counted = <<>> /\ faults = 0

NextDay ==
  /\ today + 1 \in Date
  /\ today' = today + 1
  /\ UNCHANGED <<pc, left, reading, logging, metrics, records, holds, watching,
                 serverDown, history, faults>>

\* start_file_watcher
StartFileWatcher ==
  /\ pc = "idle" /\ ~watching /\ watching' = TRUE
  /\ UNCHANGED <<today, pc, left, reading, logging, metrics, records, holds,
                 serverDown, history, faults>>

-----------------------------------------------------------------------------
(***************************************************************************)
(* read_file_with_context: what it analyzes, it keeps; _assemble_context   *)
(* then logs one event per snippet, and the tokens of the whole at its     *)
(* end.                                                                    *)
(***************************************************************************)
ReadFile(f, n) ==
  /\ pc = "idle" /\ metrics.tokens < MaxReads
  /\ pc' = "inject" /\ reading' = f /\ left' = n
  /\ holds' = TRUE /\ analyzed' = TRUE
  /\ UNCHANGED <<today, logging, metrics, records, watching, serverDown, dropped, faults>>

Event == [no |-> tried, src |-> reading]

\* the handle is one whose close failed, and no new date replaces it
StuckToday == injections.handle = Unusable /\ today = injections.current

\* log_injection: named is the date the file gets should the date have changed
LogsLazily(named) ==
  /\ pc = "inject" /\ left > 0 /\ tried < MaxEvents /\ ~StuckToday
  /\ lines' = FilesAfterRotation(lines, injections, today)
  /\ injections' = Counted(Buffered(Opened(Rotated(injections, today, named)), Event), Event)
  /\ left' = left - 1 /\ tried' = tried + 1 /\ counted' = Append(counted, Event)
  /\ today' = named
  /\ UNCHANGED <<pc, reading, metrics, records, holds, watching, serverDown, history, faults>>
LogInjection(named) ==
  /\ pc = "inject" /\ left > 0 /\ tried < MaxEvents /\ ~StuckToday
  /\ LET l == Buffered(Opened(Rotated(injections, today, named)), Event)
     IN /\ lines' = Flushed(FilesAfterRotation(lines, injections, today), l)
        /\ injections' = Written(l, Event)
  /\ left' = left - 1 /\ tried' = tried + 1 /\ counted' = Append(counted, Event)
  /\ today' = named
  /\ UNCHANGED <<pc, reading, metrics, records, holds, watching, serverDown, history, faults>>

\* the OSError of a logger leaves _assemble_context and the read
ReadRaises == pc' = "idle" /\ left' = 0 /\ faults' = faults + 1

\* open fails, or the write or flush: a line may stay in the buffer, uncounted
LogInjectionFails(named) ==
  /\ pc = "inject" /\ left > 0 /\ tried < MaxEvents /\ faults < MaxFaults /\ ~StuckToday
  /\ lines' = FilesAfterRotation(lines, injections, today)
  /\ LET l == Rotated(injections, today, named)
     IN injections' \in {Buffered(Opened(l), Event)}
                          \cup (IF l.handle = NoHandle THEN {l} ELSE {})
  /\ tried' = tried + 1 /\ today' = named
  /\ ReadRaises
  /\ UNCHANGED <<reading, counted, metrics, records, holds, watching, serverDown, history>>

\* the close of a rotation flushes what an earlier failure left, and fails: the lines are lost
RotationFails ==
  /\ pc = "inject" /\ left > 0 /\ tried < MaxEvents /\ faults < MaxFaults
  /\ today # injections.current /\ injections.buffer # <<>>
  /\ injections' = CloseFailed(injections)
  /\ tried' = tried + 1
  /\ ReadRaises
  /\ UNCHANGED <<today, reading, lines, counted, metrics, records, holds, watching,
                 serverDown, history>>

\* writing to a closed file raises ValueError, which no disk need cause
WriteToClosed ==
  /\ pc = "inject" /\ left > 0 /\ StuckToday
  /\ pc' = "idle" /\ left' = 0
  /\ UNCHANGED <<today, reading, logging, metrics, records, holds, watching, serverDown,
                 history, faults>>

EndRead ==
  /\ pc = "inject" /\ left = 0
  /\ metrics' = [metrics EXCEPT !.tokens = @ + 1]
  /\ pc' = "idle"
  /\ UNCHANGED <<today, left, reading, logging, records, holds, watching, serverDown,
                 history, faults>>

-----------------------------------------------------------------------------
(***************************************************************************)
(* shutdown: the watcher stops, the metrics are written, what the service  *)
(* holds is dropped, the loggers are closed.                               *)
(***************************************************************************)
ClearsFirst ==
  /\ pc = "idle"
  /\ watching' = FALSE /\ holds' = FALSE
  /\ pc' = "finalize"
  /\ UNCHANGED <<today, left, reading, logging, metrics, records, history, faults>>
Shutdown ==
  /\ pc = "idle"
  /\ watching' = FALSE
  /\ pc' = "finalize"
  /\ UNCHANGED <<today, left, reading, logging, metrics, records, holds, history, faults>>

ServiceShutdown == Shutdown /\ UNCHANGED serverDown
ServerShutdown == ~serverDown /\ Shutdown /\ serverDown' = TRUE

\* build_session_metrics, as far as the injections and the graph go
FinalRecord ==
  [injections |-> injections.count, tracked |-> injections.tracked,
   reads |-> metrics.tokens, graph |-> holds]

\* finalize_and_write: nothing the second time
NextFile(named) ==
  [metrics EXCEPT !.current = today, !.file = IF today = metrics.current THEN @ ELSE named]

AlwaysWrites(named) ==
  /\ metrics' = [NextFile(named) EXCEPT !.written = TRUE]
  /\ records' = [records EXCEPT ![metrics'.file] = Append(@, FinalRecord)]
FinalizeAndWrite(named) ==
  IF metrics.written THEN UNCHANGED <<metrics, records>>
  ELSE /\ metrics' = [NextFile(named) EXCEPT !.written = TRUE]
       /\ records' = [records EXCEPT ![metrics'.file] = Append(@, FinalRecord)]

Finalize(named) ==
  /\ pc = "finalize"
  /\ FinalizeAndWrite(named)
  /\ pc' = "clear" /\ today' = named
  /\ UNCHANGED <<left, reading, logging, holds, watching, serverDown, history, faults>>

\* the write fails, which shutdown logs and forgets
FinalizeRaises(named) ==
  /\ pc = "finalize" /\ ~metrics.written /\ faults < MaxFaults
  /\ metrics' = NextFile(named)
  /\ pc' = "idle" /\ today' = named /\ faults' = faults + 1
  /\ UNCHANGED <<left, reading, logging, records, holds, watching, serverDown, history>>
FinalizeFails(named) ==
  /\ pc = "finalize" /\ ~metrics.written /\ faults < MaxFaults
  /\ metrics' = NextFile(named)
  /\ pc' = "clear" /\ today' = named /\ faults' = faults + 1
  /\ UNCHANGED <<left, reading, logging, records, holds, watching, serverDown, history>>

Clear ==
  /\ pc = "clear"
  /\ holds' = FALSE
  /\ dropped' = (dropped \/ (holds /\ ~metrics.written))
  /\ pc' = "close"
  /\ UNCHANGED <<today, left, reading, logging, metrics, records, watching,
                 serverDown, analyzed, faults>>

\* closing the injection log flushes what an earlier failure left there
Close ==
  /\ pc = "close"
  /\ lines' = Flushed(lines, injections)
  /\ injections' = Closed(injections)
  /\ pc' = "idle"
  /\ UNCHANGED <<today, left, reading, metrics, records, holds, watching, serverDown,
                 tried, counted, history, faults>>

\* or fails to; the exception leaves shutdown
CloseFails ==
  /\ pc = "close" /\ injections.buffer # <<>> /\ faults < MaxFaults
  /\ injections' = CloseFailed(injections)
  /\ pc' = "idle" /\ faults' = faults + 1
  /\ UNCHANGED <<today, left, reading, lines, metrics, records, holds, watching,
                 serverDown, tried, counted, history>>

\* the process dies: only the files remain
Die ==
  /\ pc # "dead"
  /\ pc' = "dead"
  /\ UNCHANGED <<today, left, reading, logging, metrics, records, holds, watching,
                 serverDown, history, faults>>

\* midnight passes in the middle of a step only where a rotation reads the clock twice
MidnightOnlyIn(l, named) == named = today \/ l.current # today

SessionNext ==
  \/ NextDay \/ StartFileWatcher
  \/ \E f \in Source, n \in 0 .. MaxEvents : ReadFile(f, n)
  \/ \E d \in {today, today + 1} \cap Date :
       \/ MidnightOnlyIn(injections, d) /\ (LogInjection(d) \/ LogInjectionFails(d))
       \/ MidnightOnlyIn(metrics, d) /\ (Finalize(d) \/ FinalizeFails(d))
  \/ RotationFails \/ WriteToClosed \/ EndRead
  \/ ServiceShutdown \/ ServerShutdown
  \/ Clear \/ Close \/ CloseFails
  \/ Die

SessionSpec == SessionInit /\ [][SessionNext]_sessionVars

-----------------------------------------------------------------------------
\* what the files of all dates hold, the oldest first
InOrderOfDates(files) == FlattenSeq([n \in 1 .. LastDate - FirstDate + 1 |-> files[FirstDate + n - 1]])
AllLines     == InOrderOfDates(lines)
TotalRecords == InOrderOfDates(records)

(***************************************************************************)
(* The log can be read back, at any moment, so also when the process dies  *)
(* or a later write fails: every injection the statistics count is a line  *)
(* of a file; the statistics per file follow a bounded number of files,    *)
(* and those exactly, each from its first event on; and what               *)
(* get_recent_injections returns of the one file it reads, that which the  *)
(* logger would write to, are the latest lines of the session, the latest  *)
(* first: rotation hides those of earlier dates, never a later line behind *)
(* an earlier one.                                                         *)
(***************************************************************************)
CountedAreOnDisk ==
  injections.count = Len(counted) /\ ToSet(counted) \subseteq ToSet(AllLines)

TrackedExactly ==
  /\ Cardinality(DOMAIN injections.tracked) <= MaxTracked
  /\ \A s \in DOMAIN injections.tracked :
       injections.tracked[s] = Cardinality({i \in DOMAIN counted : counted[i].src = s})

RecentAreLatest ==
  \A limit \in 1 .. MaxEvents :
    LET answer == Recent(lines[injections.file], limit)
    IN /\ Len(answer) <= limit
       /\ answer = SubSeq(Reverse(AllLines), 1, Len(answer))

LogReadsBack == CountedAreOnDisk /\ TrackedExactly /\ RecentAreLatest

(***************************************************************************)
(* Unless a failed write left a line in the buffer, lines are only added   *)
(* to the file of today or of yesterday (the constructor may name its file *)
(* before a midnight and note the date after it): the files of earlier     *)
(* dates never change again.                                               *)
(***************************************************************************)
OldFilesImmutable ==
  [][injections.buffer = <<>> =>
       \A d \in Date : lines'[d] # lines[d] => d >= today - 1]_sessionVars

(***************************************************************************)
(* The record of the session is written once, however often the service    *)
(* is shut down and whichever way.  It tells of what the service held,     *)
(* unless a shutdown whose write failed dropped that before; and where no  *)
(* write failed it counts as many injections as the files have lines.      *)
(***************************************************************************)
RecordComplete ==
  [][records' # records =>
       /\ TotalRecords = <<>>
       /\ holds = analyzed \/ dropped
       /\ faults = 0 => FinalRecord.injections = Len(AllLines)]_sessionVars

(***************************************************************************)
(* However a shutdown ends, by returning or by an exception, the watcher   *)
(* is stopped, nothing is held, no handle can be written to and nothing    *)
(* waits in a buffer.                                                      *)
(***************************************************************************)
Released ==
  ~watching /\ ~holds /\ injections.handle \notin Date /\ injections.buffer = <<>>

ShutdownReleases ==
  [][pc' = "idle" /\ pc \in {"finalize", "clear", "close"} => Released']_sessionVars
=============================================================================
