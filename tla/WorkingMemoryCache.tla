-------------------------- MODULE WorkingMemoryCache --------------------------
(***************************************************************************)
(* WorkingMemoryCache (src/src/xfile_context/cache.py) between three       *)
(* actors: the thread that reads through the cache, the watcher thread     *)
(* that stamps file_event_timestamps and may call invalidate               *)
(* (src/src/xfile_context/file_watcher.py), and the user who writes files. *)
(*                                                                         *)
(* _cache_lock is held from the look-up to the return of get, so only the  *)
(* timestamps, which need no lock, and the disk change during a read.      *)
(* Timestamps are abstracted to the comparisons made of them: newerEvent   *)
(* and newerWrite hold the files whose event time, resp. mtime, is later   *)
(* than their last-read time.  A file's content is the sequence of the     *)
(* sizes of its lines.                                                     *)
(***************************************************************************)
EXTENDS Integers, FiniteSets, SequencesExt

CONSTANTS
  File,
  Contents,            \* what a write may leave in a file: the sizes of its lines, or Absent
  Absent,              \* the file does not exist
  Whole,               \* line_range is None
  Key,                 \* the keys get is called with: <<file, Whole or <<start, end>>>>
  SizeLimit,           \* _size_limit_bytes
  MaxRetries,          \* _max_retries
  CallbackRegistered,  \* whether invalidate is registered with the watcher
  None,                \* the watcher thread is between two events, no call of get runs
  MaxWrites            \* bound on the writes of a behaviour

ASSUME CacheAssumption ==
  /\ SizeLimit \in Nat /\ MaxRetries \in Nat \ {0} /\ MaxWrites \in Nat
  /\ CallbackRegistered \in BOOLEAN
  /\ \A c \in Contents : c = Absent \/ c \in Seq(Nat)
  /\ Key \subseteq File \X ({Whole} \cup Int \X Int) /\ None \notin File \cup Key

FileOf(k) == k[1]

VARIABLES
  disk,        \* file -> content or Absent
  entries,     \* _cache: key -> content
  order,       \* the keys of _cache in the order of the OrderedDict
  size,        \* _stats.current_size_bytes
  readOnce,    \* the files in _file_last_read_timestamps
  tracked,     \* the files in file_event_timestamps
  newerEvent,  \* tracked files with event time > last read
  newerWrite,  \* files with mtime > last read
  unheard,     \* files written whose event has not reached the watcher
  watcher,     \* the file whose callbacks the watcher thread is running
  pc,          \* "idle" or, with the lock held, "read" or "store"
  key,         \* the key get was called with, or None
  attempt,     \* attempts made to read the file
  content,     \* what was read for the key
  late,        \* whether its file was stamped ("event"), written ("write") since t
  lastRange,   \* file -> the range of it stored last (history)
  writes       \* writes made so far

vars == <<disk, entries, order, size, readOnce, tracked, newerEvent, newerWrite, unheard,
          watcher, pc, key, attempt, content, late, lastRange, writes>>

cached  == <<entries, order, size>>
stamps  == <<readOnce, tracked, newerEvent, newerWrite>>
reading == <<pc, key, attempt, content>>

Init ==
  /\ disk \in [File -> Contents]
  /\ entries = [k \in {} |-> <<>>] /\ order = <<>> /\ size = 0
  /\ readOnce = {} /\ tracked = {} /\ newerEvent = {} /\ newerWrite = File
  /\ unheard = {} /\ watcher = None
  /\ pc = "idle" /\ key = None /\ attempt = 0 /\ content = <<>> /\ late = {}
  /\ lastRange = [f \in File |-> Whole]
  /\ writes = 0

-----------------------------------------------------------------------------
\* lines[max(0, start - 1):min(len(lines), end)]
Snippet(text, range) ==
  IF range = Whole THEN text
  ELSE LET start == IF range[1] < 1 THEN 1 ELSE range[1]
           end   == IF range[2] > Len(text) THEN Len(text) ELSE range[2]
       IN SubSeq(text, start, end)

SizeOf(text) == SumFunction(text)

\* the sizes of the entries of some of the keys
Bytes(keys) == SumFunctionOnSet([k \in DOMAIN entries |-> SizeOf(entries[k])], keys)

\* _is_stale: by event time when the watcher has seen the file, else by mtime
IsStale(f) ==
  IF f \notin tracked THEN disk[f] = Absent \/ f \in newerWrite
  ELSE f \notin readOnce \/ f \in newerEvent

Without(cache, keys) == [k \in DOMAIN cache \ keys |-> cache[k]]

\* the order without some of the keys: the nth key left is the one with n left up to it
Except(keys) ==
  LET left == {i \in DOMAIN order : order[i] \notin keys}
      nth(n) == CHOOSE i \in left : Cardinality({j \in left : j <= i}) = n
  IN [n \in 1..Cardinality(left) |-> order[nth(n)]]

EvictsOne(needed) == IF order = <<>> THEN {} ELSE {Head(order)}

(***************************************************************************)
(* _evict_lru frees entries from the front until it has freed the bytes    *)
(* needed or there are no more.                                            *)
(***************************************************************************)
EvictLru(needed) ==
  LET oldest(n) == {order[i] : i \in 1..n}
      stops == {n \in 0..Len(order) : Bytes(oldest(n)) >= needed \/ n = Len(order)}
  IN oldest(CHOOSE n \in stops : \A m \in stops : n <= m)

-----------------------------------------------------------------------------
\* what happens to the file being read once t is taken
LateWith(f, what) == IF key # None /\ FileOf(key) = f THEN late \cup {what} ELSE late

\* the user saves, creates or deletes a file
Write(f, c) ==
  /\ writes < MaxWrites /\ c # disk[f]
  /\ disk' = [disk EXCEPT ![f] = c]
  /\ newerWrite' = newerWrite \cup {f}
  /\ late' = LateWith(f, "write")
  /\ unheard' = unheard \cup {f}
  /\ writes' = writes + 1
  /\ UNCHANGED <<cached, readOnce, tracked, newerEvent, watcher, reading, lastRange>>

(***************************************************************************)
(* The watcher thread: update_timestamp, which takes no lock, then the     *)
(* callbacks, which wait for it.  An event of creation runs no callback.   *)
(***************************************************************************)
Stamp(f) ==
  /\ watcher = None /\ f \in unheard
  /\ unheard' = unheard \ {f}
  /\ tracked' = tracked \cup {f}
  /\ newerEvent' = newerEvent \cup {f}
  /\ late' = LateWith(f, "event")
  /\ watcher' \in IF CallbackRegistered THEN {f, None} ELSE {None}
  /\ UNCHANGED <<disk, cached, readOnce, newerWrite, reading, lastRange, writes>>

\* invalidate(f), called with the lock free
Invalidated(f) ==
  LET gone == {k \in DOMAIN entries : FileOf(k) = f}
  IN /\ entries' = Without(entries, gone)
     /\ order' = Except(gone)
     /\ size' = size - Bytes(gone)

RunCallback(f) ==
  /\ watcher = f /\ pc = "idle"
  /\ Invalidated(f)
  /\ watcher' = None
  /\ UNCHANGED <<disk, stamps, unheard, reading, late, lastRange, writes>>

\* service.invalidate_cache(f)
InvalidateCall(f) ==
  /\ pc = "idle"
  /\ Invalidated(f)
  /\ UNCHANGED <<disk, stamps, unheard, watcher, reading, late, lastRange, writes>>

\* service.invalidate_cache() and shutdown
Clear ==
  /\ pc = "idle"
  /\ entries' = Without(entries, DOMAIN entries) /\ order' = <<>>
  /\ size' = 0
  /\ readOnce' = {} /\ newerEvent' = tracked /\ newerWrite' = File
  /\ UNCHANGED <<disk, tracked, unheard, watcher, reading, late, lastRange, writes>>

\* GraphUpdater.process_pending_changes ends with file_event_timestamps.clear()
ForgetEvents ==
  /\ tracked' = {} /\ newerEvent' = {}
  /\ late' = late \ {"event"}
  /\ UNCHANGED <<disk, cached, readOnce, newerWrite, unheard, watcher, reading, lastRange, writes>>

-----------------------------------------------------------------------------
Hit(k) ==
  /\ pc = "idle"
  /\ k \in DOMAIN entries /\ ~ IsStale(FileOf(k))
  /\ order' = Append(Except({k}), k)
  /\ UNCHANGED <<disk, entries, size, stamps, unheard, watcher, reading, late, lastRange, writes>>

\* t is taken here, before the file is read
StartRead(k) ==
  /\ pc = "idle"
  /\ k \notin DOMAIN entries \/ IsStale(FileOf(k))
  /\ pc' = "read" /\ key' = k /\ attempt' = 1
  /\ late' = {}
  /\ UNCHANGED <<disk, cached, stamps, unheard, watcher, content, lastRange, writes>>

\* the file is read, and its lines cut to the range
ReadDisk ==
  /\ pc = "read" /\ disk[FileOf(key)] # Absent
  /\ content' = Snippet(disk[FileOf(key)], key[2])
  /\ pc' = "store" /\ attempt' = 0
  /\ UNCHANGED <<disk, cached, stamps, unheard, watcher, key, late, lastRange, writes>>

RetriesForEver ==
  /\ pc = "read"
  /\ attempt' = attempt
  /\ UNCHANGED <<disk, cached, stamps, unheard, watcher, pc, key, content, late, lastRange, writes>>

\* get returns, or raises: its locals are gone
Returns ==
  /\ pc' = "idle" /\ key' = None /\ attempt' = 0 /\ content' = <<>>
  /\ late' = {}

\* the file is missing, or locked by another process
ReadFails ==
  /\ pc = "read"
  /\ IF attempt < MaxRetries
     THEN attempt' = attempt + 1 /\ UNCHANGED <<pc, key, content, late>>
     ELSE Returns
  /\ UNCHANGED <<disk, cached, stamps, unheard, watcher, lastRange, writes>>

\* content larger than the cache is returned, and nothing else changes
ReadTooLarge ==
  /\ pc = "store" /\ SizeOf(content) > SizeLimit
  /\ Returns
  /\ UNCHANGED <<disk, cached, stamps, unheard, watcher, lastRange, writes>>

StampsAfterRead(f) ==
  /\ readOnce' = readOnce \cup {f}
  /\ newerEvent' = newerEvent \ {f}
  /\ newerWrite' = newerWrite \ {f}

\* _file_last_read_timestamps[f] = t: what happened since t is newer
LastRead(f) ==
  /\ readOnce' = readOnce \cup {f}
  /\ newerEvent' = IF "event" \in late THEN newerEvent \cup {f} ELSE newerEvent \ {f}
  /\ newerWrite' = IF "write" \in late THEN newerWrite \cup {f} ELSE newerWrite \ {f}

SubtractsReplacedToo(gone) ==
  size - Bytes(gone) + SizeOf(content)
    - (IF key \in DOMAIN entries THEN SizeOf(entries[key]) ELSE 0)

\* the size of an entry that is replaced, and was not evicted, stays counted
SizeAfter(gone) == size - Bytes(gone) + SizeOf(content)

\* a key already in the OrderedDict keeps its place
ReadStores ==
  /\ pc = "store" /\ SizeOf(content) <= SizeLimit
  /\ LET gone == IF size + SizeOf(content) > SizeLimit THEN EvictLru(SizeOf(content)) ELSE {}
     IN /\ entries' = [k \in (DOMAIN entries \ gone) \cup {key} |->
                         IF k = key THEN content ELSE entries[k]]
        /\ order' = IF key \in DOMAIN entries \ gone THEN Except(gone)
                    ELSE Append(Except(gone), key)
        /\ size' = SizeAfter(gone)
  /\ LastRead(FileOf(key))
  /\ lastRange' = [lastRange EXCEPT ![FileOf(key)] = key[2]]
  /\ Returns
  /\ UNCHANGED <<disk, tracked, unheard, watcher, writes>>

Reader == ReadFails \/ ReadDisk \/ ReadTooLarge \/ ReadStores

Next ==
  \/ \E f \in File, c \in Contents : Write(f, c)
  \/ \E f \in File : Stamp(f) \/ RunCallback(f) \/ InvalidateCall(f)
  \/ Clear \/ ForgetEvents
  \/ \E k \in Key : Hit(k) \/ StartRead(k)
  \/ Reader

Spec == Init /\ [][Next]_vars

\* the thread in get goes on until it returns or raises
FairSpec == Spec /\ WF_vars(Reader)

-----------------------------------------------------------------------------
(***************************************************************************)
(* An entry get would serve without reading is the content of the file,    *)
(* once the watcher has stamped the last write of it, or while the mtime   *)
(* is compared instead: a write between the time get notes and the read it *)
(* makes, or right after it, is never taken for seen.  This holds for the  *)
(* range of the file that was stored last; times are noted per file.       *)
(***************************************************************************)
Current(k) ==
  LET f == FileOf(k)
  IN pc = "idle" /\ ~ IsStale(f) /\ (f \in tracked => f \notin unheard)
       => disk[f] # Absent /\ entries[k] = Snippet(disk[f], k[2])

ServedIsCurrent ==
  \A k \in DOMAIN entries : k[2] = lastRange[FileOf(k)] => Current(k)

(***************************************************************************)
(* What the documentation of get says: "Get cached content, automatically  *)
(* refreshing if stale.", whatever ranges of the file were read.           *)
(***************************************************************************)
EveryRangeCurrent == \A k \in DOMAIN entries : Current(k)

(***************************************************************************)
(* The contents kept never exceed the limit, although _evict_lru frees by  *)
(* the bytes needed and not down to the limit, and the counter it goes by  *)
(* drifts: in whatever order entries are replaced, evicted and             *)
(* invalidated it never understates what is kept, and every entry can be   *)
(* evicted, being in the order once.                                       *)
(***************************************************************************)
WithinLimit ==
  /\ Bytes(DOMAIN entries) <= SizeLimit
  /\ size >= Bytes(DOMAIN entries)
  /\ ToSet(order) = DOMAIN entries /\ Len(order) = Cardinality(DOMAIN entries)

(***************************************************************************)
(* A call of get returns or raises, whatever is written or locked.         *)
(***************************************************************************)
GetReturns == []<>(pc = "idle")
=============================================================================
