------------------------------- MODULE EventLog -------------------------------
(***************************************************************************)
(* One append-only log of a session (InjectionLogger; WarningLogger has    *)
(* the same shape): a file per UTC date, opened when the first event of    *)
(* the date is logged, one line per event.                                 *)
(*                                                                         *)
(* A logger is a record; the files are a function from dates to the lines  *)
(* on disk.  The logger names the date of its file and the date it takes   *)
(* today for separately: they come from two readings of the clock.         *)
(***************************************************************************)
EXTENDS Integers, Sequences, FiniteSets, SequencesExt

CONSTANTS
  Source,       \* files that events are about
  FirstDate,    \* the dates of a behaviour, consecutive integers: the first
  LastDate,     \* and the last of them
  NoHandle,     \* the logger has no file open
  Unusable,     \* it keeps a file whose close failed: writing to it raises
  MaxTracked    \* max_unique_files_tracked

Date == FirstDate .. LastDate

ASSUME DatesAssumption ==
  /\ FirstDate \in Int /\ LastDate \in Int /\ FirstDate <= LastDate
  /\ NoHandle # Unusable /\ {NoHandle, Unusable} \cap Date = {}
ASSUME TrackedAssumption == MaxTracked \in Nat

Events == [no : Nat, src : Source]

Logger == [current : Date, file : Date, handle : Date \cup {NoHandle, Unusable},
           buffer : Seq(Events), count : Nat, tracked : UNION {[S -> Nat] : S \in SUBSET Source}]

NoFiles == [d \in Date |-> <<>>]

\* the constructor: the file is named before current_date is noted
NewLogger(named, noted) ==
  [file |-> named, current |-> noted, handle |-> NoHandle, buffer |-> <<>>,
   count |-> 0, tracked |-> [s \in {} |-> 0]]

\* flush: what is buffered reaches the file that is open
Flushed(files, l) ==
  IF l.handle \in Date THEN [files EXCEPT ![l.handle] = @ \o l.buffer] ELSE files

\* close gives the handle up, and with it the buffer; a close that fails only the buffer
Closed(l) == [l EXCEPT !.handle = NoHandle, !.buffer = <<>>]
CloseFailed(l) == [l EXCEPT !.handle = Unusable, !.buffer = <<>>]

\* _check_date_rotation on a new date, when the file gets the name of date named
KeepsHandle(l, today, named) ==
  IF today = l.current THEN l ELSE [l EXCEPT !.current = today, !.file = named]
Rotated(l, today, named) ==
  IF today = l.current THEN l
  ELSE [Closed(l) EXCEPT !.current = today, !.file = named]

FilesAfterRotation(files, l, today) ==
  IF today = l.current THEN files ELSE Flushed(files, l)

\* _open_file
Opened(l) == IF l.handle = NoHandle THEN [l EXCEPT !.handle = l.file] ELSE l

\* the statistics: a file is tracked while there is room, or if it already is
TracksOneMore(l, e) ==
  [l EXCEPT !.count = @ + 1,
            !.tracked = IF Cardinality(DOMAIN @) <= MaxTracked
                        THEN [s \in DOMAIN @ \cup {e.src} |->
                                (IF s \in DOMAIN @ THEN @[s] ELSE 0) + (IF s = e.src THEN 1 ELSE 0)]
                        ELSE @]
Counted(l, e) ==
  [l EXCEPT !.count = @ + 1,
            !.tracked = IF Cardinality(DOMAIN @) < MaxTracked \/ e.src \in DOMAIN @
                        THEN [s \in DOMAIN @ \cup {e.src} |->
                                (IF s \in DOMAIN @ THEN @[s] ELSE 0) + (IF s = e.src THEN 1 ELSE 0)]
                        ELSE @]

\* a line is written, flushed, and counted only then
Buffered(l, e) == [l EXCEPT !.buffer = Append(@, e)]
Written(l, e) == [Counted(l, e) EXCEPT !.buffer = <<>>]

\* get_recent_injections(path, limit): the last lines of one file, the latest first
Oldest(lines, limit) == Reverse(SubSeq(lines, 1, IF Len(lines) > limit THEN limit ELSE Len(lines)))
Recent(lines, limit) ==
  Reverse(IF Len(lines) > limit /\ limit > 0
          THEN SubSeq(lines, Len(lines) - limit + 1, Len(lines))
          ELSE lines)
=============================================================================
