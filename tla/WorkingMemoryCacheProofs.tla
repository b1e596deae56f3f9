----------------------- MODULE WorkingMemoryCacheProofs -----------------------
(***************************************************************************)
(* What holds of WorkingMemoryCache for every set of files, every line     *)
(* range, every limit and every number of attempts: what get would serve   *)
(* without reading is what is on disk, and what is kept fits the limit,    *)
(* whatever is written, stamped, forgotten, evicted and invalidated        *)
(* between two steps of a read.                                            *)
(***************************************************************************)
EXTENDS WorkingMemoryCache, FiniteSetTheorems, SequenceTheorems, TLAPS

TypeOK ==
  /\ disk \in [File -> Contents]
  /\ DOMAIN entries \subseteq Key
  /\ readOnce \subseteq File /\ unheard \subseteq File
  /\ newerEvent \subseteq tracked /\ tracked \subseteq File /\ newerWrite \subseteq File
  /\ watcher \in File \cup {None}
  /\ pc \in {"idle", "read", "store"}
  /\ key \in IF pc = "idle" THEN {None} ELSE Key
  /\ attempt \in 0..MaxRetries
  /\ late \subseteq {"event", "write"}
  /\ "event" \in late => key \in Key /\ FileOf(key) \in tracked
  /\ lastRange \in [File -> {Whole} \cup Int \X Int]
  /\ writes \in 0..MaxWrites

\* a file whose mtime is newer is stale by its events too, once they are heard
WriteIsHeard ==
  \A f \in newerWrite \cap tracked \cap readOnce : f \in unheard \cup newerEvent

\* what a file holds is what was stored of it last, unless it was written since
StoredIsCurrent ==
  \A k \in DOMAIN entries :
    k[2] = lastRange[FileOf(k)] /\ FileOf(k) \notin newerWrite =>
      disk[FileOf(k)] # Absent /\ entries[k] = Snippet(disk[FileOf(k)], k[2])

\* the same, of the content on its way from the disk to the cache
ContentIsCurrent ==
  pc = "store" /\ "write" \notin late =>
    disk[FileOf(key)] # Absent /\ content = Snippet(disk[FileOf(key)], key[2])

LateIsHeard ==
  pc # "idle" /\ "write" \in late /\ FileOf(key) \in tracked =>
    FileOf(key) \in unheard \/ "event" \in late

IInv == WriteIsHeard /\ StoredIsCurrent /\ ContentIsCurrent /\ LateIsHeard

-----------------------------------------------------------------------------
\* A key is a file and a range of its lines.
LEMMA KeyParts ==
  ASSUME NEW k \in Key
  PROVE  FileOf(k) \in File /\ k[2] \in {Whole} \cup Int \X Int /\ k = <<FileOf(k), k[2]>>
BY CacheAssumption DEF FileOf

LEMMA InitInv == Init => TypeOK /\ IInv
<1>1. ASSUME Init PROVE TypeOK
  BY <1>1, CacheAssumption DEF Init, TypeOK
<1>2. ASSUME Init PROVE IInv
  BY <1>2 DEF Init, IInv, WriteIsHeard, StoredIsCurrent, ContentIsCurrent, LateIsHeard
<1> QED
  BY <1>1, <1>2

\* Evicting, clearing and invalidating keep keys, storing adds the one being read.
LEMMA TypeStep == TypeOK /\ [Next]_vars => TypeOK'
<1> SUFFICES ASSUME TypeOK, [Next]_vars PROVE TypeOK'
  OBVIOUS
<1> USE CacheAssumption DEF TypeOK
<1>1. ASSUME NEW f \in File, NEW c \in Contents, Write(f, c) PROVE TypeOK'
  <2>1. late' \subseteq {"event", "write"} /\ ("event" \in late' => "event" \in late)
    BY <1>1 DEF Write, LateWith
  <2> QED
    BY <1>1, <2>1 DEF Write, cached, reading
<1>2. ASSUME NEW f \in File, Stamp(f) PROVE TypeOK'
  <2>1. late' \subseteq {"event", "write"} /\ watcher' \in File \cup {None}
    BY <1>2 DEF Stamp, LateWith
  <2>2. "event" \in late' => "event" \in late \/ (key \in Key /\ FileOf(key) = f)
    <3>1. key # None => key \in Key
      OBVIOUS
    <3> QED
      BY <1>2, <3>1 DEF Stamp, LateWith
  <2>3. key' = key /\ tracked' = tracked \cup {f}
    BY <1>2 DEF Stamp, reading
  <2> QED
    BY <1>2, <2>1, <2>2, <2>3 DEF Stamp, cached, reading
<1>3. ASSUME NEW f \in File, RunCallback(f) \/ InvalidateCall(f) PROVE TypeOK'
  BY <1>3 DEF RunCallback, InvalidateCall, Invalidated, Without, stamps, reading
<1>4. CASE Clear
  BY <1>4 DEF Clear, Without, reading
<1>5. CASE ForgetEvents
  BY <1>5 DEF ForgetEvents, cached, reading
<1>6. ASSUME NEW k \in Key, Hit(k) \/ StartRead(k) PROVE TypeOK'
  BY <1>6 DEF Hit, StartRead, cached, stamps, reading
<1>7. CASE ReadFails
  BY <1>7 DEF ReadFails, Returns, cached, stamps
<1>8. CASE ReadDisk
  BY <1>8 DEF ReadDisk, cached, stamps
<1>9. CASE ReadTooLarge
  BY <1>9 DEF ReadTooLarge, Returns, cached, stamps
<1>10. CASE ReadStores
  <2>1. key \in Key /\ FileOf(key) \in File /\ key[2] \in {Whole} \cup Int \X Int
    BY <1>10, KeyParts DEF ReadStores
  <2>2. DOMAIN entries' \subseteq Key
    BY <1>10, <2>1 DEF ReadStores
  <2>3. newerEvent' \subseteq tracked
    BY <1>10, <2>1 DEF ReadStores, LastRead
  <2> QED
    BY <1>10, <2>1, <2>2, <2>3 DEF ReadStores, LastRead, Returns
<1>11. CASE UNCHANGED vars
  BY <1>11 DEF vars, cached, stamps, reading
<1> QED
  BY <1>1, <1>2, <1>3, <1>4, <1>5, <1>6, <1>7, <1>8, <1>9, <1>10, <1>11 DEF Next, Reader

-----------------------------------------------------------------------------
\* Being stale, in terms of the sets of files it compares times for.
LEMMA NotStale ==
  ASSUME TypeOK, IInv, NEW f \in File, ~ IsStale(f), f \in tracked => f \notin unheard
  PROVE  f \notin newerWrite
<1>1. CASE f \notin tracked
  BY <1>1 DEF IsStale
<1>2. CASE f \in tracked
  BY <1>2 DEF IsStale, IInv, WriteIsHeard
<1> QED
  BY <1>1, <1>2

LEMMA IInvStep == TypeOK /\ IInv /\ [Next]_vars => IInv'
<1> SUFFICES ASSUME TypeOK, IInv, [Next]_vars PROVE IInv'
  OBVIOUS
<1> USE DEF IInv
<1>1. ASSUME NEW f \in File, NEW c \in Contents, Write(f, c) PROVE IInv'
  <2>1. pc # "idle" => key # None
    BY CacheAssumption DEF TypeOK
  <2>2. WriteIsHeard'
    BY <1>1 DEF Write, WriteIsHeard
  <2>3. StoredIsCurrent'
    <3> SUFFICES ASSUME NEW k \in DOMAIN entries, k[2] = lastRange[FileOf(k)],
                        FileOf(k) # f, FileOf(k) \notin newerWrite
                 PROVE  disk'[FileOf(k)] # Absent /\ entries[k] = Snippet(disk'[FileOf(k)], k[2])
      BY <1>1 DEF Write, StoredIsCurrent, cached
    <3>1. disk'[FileOf(k)] = disk[FileOf(k)]
      BY <1>1, KeyParts DEF Write, TypeOK
    <3> QED
      BY <3>1 DEF StoredIsCurrent
  <2>4. ContentIsCurrent'
    <3> SUFFICES ASSUME pc = "store", "write" \notin late'
                 PROVE  disk'[FileOf(key)] # Absent
                        /\ content = Snippet(disk'[FileOf(key)], key[2])
      BY <1>1 DEF Write, ContentIsCurrent, reading
    <3>1. FileOf(key) # f /\ "write" \notin late
      BY <1>1, <2>1 DEF Write, LateWith
    <3>2. disk'[FileOf(key)] = disk[FileOf(key)]
      BY <1>1, <3>1, KeyParts DEF Write, TypeOK
    <3> QED
      BY <3>1, <3>2 DEF ContentIsCurrent
  <2>5. LateIsHeard'
    BY <1>1, <2>1 DEF Write, LateWith, LateIsHeard, reading
  <2> QED
    BY <2>2, <2>3, <2>4, <2>5
<1>2. ASSUME NEW f \in File, Stamp(f) PROVE IInv'
  <2>1. pc # "idle" => key # None
    BY CacheAssumption DEF TypeOK
  <2>2. WriteIsHeard'
    BY <1>2 DEF Stamp, WriteIsHeard
  <2>3. StoredIsCurrent'
    BY <1>2 DEF Stamp, StoredIsCurrent, cached
  <2>4. ContentIsCurrent'
    BY <1>2 DEF Stamp, ContentIsCurrent, LateWith, reading
  <2>5. LateIsHeard'
    BY <1>2, <2>1 DEF Stamp, LateWith, LateIsHeard, reading
  <2> QED
    BY <2>2, <2>3, <2>4, <2>5
<1>3. ASSUME NEW f \in File, RunCallback(f) \/ InvalidateCall(f) PROVE IInv'
  <2>1. UNCHANGED <<disk, readOnce, tracked, newerEvent, newerWrite, unheard, pc, key, content,
                    late, lastRange>>
    BY <1>3 DEF RunCallback, InvalidateCall, stamps, reading
  <2>2. \A k \in DOMAIN entries' : k \in DOMAIN entries /\ entries'[k] = entries[k]
    BY <1>3 DEF RunCallback, InvalidateCall, Invalidated, Without
  <2>3. StoredIsCurrent'
    BY <2>1, <2>2 DEF StoredIsCurrent
  <2> QED
    BY <2>1, <2>3 DEF WriteIsHeard, ContentIsCurrent, LateIsHeard
<1>4. CASE Clear
  <2>1. StoredIsCurrent'
    BY <1>4 DEF Clear, StoredIsCurrent, Without
  <2> QED
    BY <1>4, <2>1 DEF Clear, WriteIsHeard, ContentIsCurrent, LateIsHeard, reading
<1>5. CASE ForgetEvents
  <2>1. StoredIsCurrent'
    BY <1>5 DEF ForgetEvents, StoredIsCurrent, cached
  <2> QED
    BY <1>5, <2>1 DEF ForgetEvents, WriteIsHeard, ContentIsCurrent, LateIsHeard, reading
<1>6. ASSUME NEW k \in Key, Hit(k) PROVE IInv'
  BY <1>6 DEF Hit, WriteIsHeard, StoredIsCurrent, ContentIsCurrent, LateIsHeard, stamps, reading
<1>7. ASSUME NEW k \in Key, StartRead(k) PROVE IInv'
  BY <1>7 DEF StartRead, WriteIsHeard, StoredIsCurrent, ContentIsCurrent, LateIsHeard, cached, stamps
<1>8. CASE ReadFails
  BY <1>8 DEF ReadFails, Returns, WriteIsHeard, StoredIsCurrent, ContentIsCurrent, LateIsHeard,
              cached, stamps
<1>9. CASE ReadDisk
  BY <1>9 DEF ReadDisk, WriteIsHeard, StoredIsCurrent, ContentIsCurrent, LateIsHeard, cached, stamps
<1>10. CASE ReadTooLarge
  BY <1>10 DEF ReadTooLarge, Returns, WriteIsHeard, StoredIsCurrent, ContentIsCurrent, LateIsHeard,
               cached, stamps
<1>11. CASE ReadStores
  <2>1. key \in Key /\ FileOf(key) \in File /\ pc = "store"
    BY <1>11, KeyParts DEF ReadStores, TypeOK
  <2>2. /\ UNCHANGED <<disk, tracked, unheard>> /\ pc' = "idle"
        /\ lastRange' = [lastRange EXCEPT ![FileOf(key)] = key[2]]
        /\ LastRead(FileOf(key))
    BY <1>11 DEF ReadStores, Returns
  <2>3. WriteIsHeard'
    <3> SUFFICES ASSUME NEW f \in newerWrite' \cap tracked \cap readOnce'
                 PROVE  f \in unheard \cup newerEvent'
      BY <2>2 DEF WriteIsHeard
    <3>1. CASE f = FileOf(key)
      BY <2>1, <2>2, <3>1 DEF LastRead, LateIsHeard
    <3>2. CASE f # FileOf(key)
      BY <2>2, <3>2 DEF LastRead, WriteIsHeard
    <3> QED
      BY <3>1, <3>2
  <2>4. \A k \in DOMAIN entries' :
          \/ k = key /\ entries'[k] = content
          \/ k \in DOMAIN entries /\ k # key /\ entries'[k] = entries[k]
    <3>1. PICK gone : entries' = [k \in (DOMAIN entries \ gone) \cup {key} |->
                                     IF k = key THEN content ELSE entries[k]]
      BY <1>11 DEF ReadStores
    <3> QED
      BY <3>1
  <2>5. StoredIsCurrent'
    <3> SUFFICES ASSUME NEW k \in DOMAIN entries', k[2] = lastRange'[FileOf(k)],
                        FileOf(k) \notin newerWrite'
                 PROVE  disk[FileOf(k)] # Absent /\ entries'[k] = Snippet(disk[FileOf(k)], k[2])
      BY <2>2 DEF StoredIsCurrent
    <3>1. CASE k = key
      BY <2>1, <2>2, <2>4, <3>1 DEF LastRead, ContentIsCurrent
    <3>2. CASE k # key
      <4>1. k \in DOMAIN entries /\ entries'[k] = entries[k]
        BY <2>4, <3>2
      <4>2. k \in Key /\ FileOf(k) \in File
        BY <4>1, KeyParts DEF TypeOK
      <4>3. FileOf(k) # FileOf(key)
        <5> SUFFICES ASSUME FileOf(k) = FileOf(key) PROVE FALSE
          OBVIOUS
        <5>1. k[2] = key[2]
          BY <2>1, <2>2 DEF TypeOK
        <5>2. k = <<FileOf(k), k[2]>> /\ key = <<FileOf(key), key[2]>>
          BY <2>1, <4>2, KeyParts
        <5> QED
          BY <3>2, <5>1, <5>2
      <4>4. k[2] = lastRange[FileOf(k)] /\ FileOf(k) \notin newerWrite
        BY <2>2, <4>2, <4>3 DEF LastRead, TypeOK
      <4> QED
        BY <4>1, <4>4 DEF StoredIsCurrent
    <3> QED
      BY <3>1, <3>2
  <2> QED
    BY <2>2, <2>3, <2>5 DEF ContentIsCurrent, LateIsHeard
<1>12. CASE UNCHANGED vars
  BY <1>12 DEF vars, WriteIsHeard, StoredIsCurrent, ContentIsCurrent, LateIsHeard, cached, stamps,
               reading
<1> QED
  BY <1>1, <1>2, <1>3, <1>4, <1>5, <1>6, <1>7, <1>8, <1>9, <1>10, <1>11, <1>12 DEF Next, Reader

-----------------------------------------------------------------------------
\* The sets of files the cache compares times for, and where a read is.
THEOREM CacheTypeCorrect == Spec => []TypeOK
BY InitInv, TypeStep, PTL DEF Spec

(***************************************************************************)
(* The cache serves without reading only what is on disk, of the range     *)
(* of a file that was stored last: the writes that come between the time   *)
(* get notes and the read, or after it, are noticed by whichever of the    *)
(* two clocks is compared.                                                 *)
(***************************************************************************)
THEOREM CacheServesCurrent == Spec => []ServedIsCurrent
<1>1. TypeOK /\ IInv => ServedIsCurrent
  <2> SUFFICES ASSUME TypeOK, IInv, NEW k \in DOMAIN entries, k[2] = lastRange[FileOf(k)],
                      ~ IsStale(FileOf(k)), FileOf(k) \in tracked => FileOf(k) \notin unheard
               PROVE  disk[FileOf(k)] # Absent /\ entries[k] = Snippet(disk[FileOf(k)], k[2])
    BY DEF ServedIsCurrent, Current
  <2>1. FileOf(k) \in File
    BY KeyParts DEF TypeOK
  <2>2. FileOf(k) \notin newerWrite
    BY <2>1, NotStale
  <2> QED
    BY <2>2 DEF IInv, StoredIsCurrent
<1> QED
  BY InitInv, TypeStep, IInvStep, <1>1, PTL DEF Spec
-----------------------------------------------------------------------------
\* Induction over the naturals, for a set of them.
LEMMA SetInduction ==
  ASSUME NEW S, 0 \in S, \A n \in Nat : n \in S => n + 1 \in S
  PROVE  Nat \subseteq S
<1> DEFINE less == OpToRel(<, Nat)
<1> SUFFICES ASSUME Nat \ S # {} PROVE FALSE
  OBVIOUS
<1>1. PICK x \in Nat \ S : \A y \in Nat \ S : ~ (<<y, x>> \in less)
  BY NatLessThanWellFounded, WFMin
<1>2. \A y \in Nat \ S : ~ (y < x)
  BY <1>1 DEF OpToRel
<1>3. x # 0 /\ x - 1 \in Nat
  OBVIOUS
<1> QED
  BY <1>2, <1>3

(***************************************************************************)
(* Sums.  it is the sum of the weights w over every subset of S: the one   *)
(* SumFunctionOnSet recurses with, which takes the elements in some order. *)
(***************************************************************************)
Sums(w, S, it) ==
  /\ it \in [SUBSET S -> Nat] /\ it[{}] = 0
  /\ \A s \in SUBSET S : \A x \in s : it[s] = w[x] + it[s \ {x}]

LEMMA SumsExist ==
  ASSUME NEW S, IsFiniteSet(S), NEW w, \A x \in S : w[x] \in Nat
  PROVE  \E it : Sums(w, S, it) /\ SumFunctionOnSet(w, S) = it[S]
<1> DEFINE pick(s) == CHOOSE x \in s : TRUE
           sum(s, it) == IF s = {} THEN 0 ELSE w[pick(s)] + it[s \ {pick(s)}]
           runs(it) == it = [s \in SUBSET S |-> sum(s, it)]
           upto(n, it) == it \in [SUBSET S -> Nat]
                          /\ \A s \in SUBSET S : Cardinality(s) <= n => it[s] = sum(s, it)
<1>1. SumFunctionOnSet(w, S) = (CHOOSE it : runs(it))[S]
  BY DEF SumFunctionOnSet, FoldFunctionOnSet, MapThenFoldSet
<1>2. \A s \in SUBSET S : IsFiniteSet(s) /\ Cardinality(s) \in Nat /\ Cardinality(s) <= Cardinality(S)
  BY FS_Subset, FS_CardinalityType
<1>3. \A s \in SUBSET S : s # {} => pick(s) \in s
  OBVIOUS
<1>4. \A s \in SUBSET S : \A x \in s : Cardinality(s \ {x}) = Cardinality(s) - 1
  BY <1>2, FS_RemoveElement
<1> HIDE DEF pick
<1> DEFINE levels == {n \in Nat : \E it : upto(n, it)}
<1>5. 0 \in levels
  <2> DEFINE it == [s \in SUBSET S |-> 0]
  <2>1. \A s \in SUBSET S : Cardinality(s) <= 0 => s = {}
    BY <1>2, FS_EmptySet
  <2>2. upto(0, it)
    BY <2>1
  <2> QED
    BY <2>2
<1>6. ASSUME NEW n \in Nat, n \in levels PROVE n + 1 \in levels
  <2>1. PICK it : upto(n, it)
    BY <1>6
  <2> DEFINE more == [s \in SUBSET S |-> IF Cardinality(s) <= n + 1 THEN sum(s, it) ELSE 0]
  <2>2. ASSUME NEW s \in SUBSET S PROVE sum(s, it) \in Nat
    BY <1>3, <2>1
  <2>3. more \in [SUBSET S -> Nat]
    BY <2>2
  <2>4. ASSUME NEW s \in SUBSET S, Cardinality(s) <= n PROVE more[s] = it[s]
    BY <1>2, <2>1, <2>4
  <2>5. ASSUME NEW s \in SUBSET S, Cardinality(s) <= n + 1 PROVE more[s] = sum(s, more)
    <3>1. more[s] = sum(s, it)
      BY <2>5
    <3>2. CASE s = {}
      BY <3>1, <3>2
    <3>3. CASE s # {}
      <4>1. Cardinality(s \ {pick(s)}) <= n /\ s \ {pick(s)} \in SUBSET S
        BY <1>2, <1>3, <1>4, <2>5, <3>3
      <4>2. more[s \ {pick(s)}] = it[s \ {pick(s)}]
        BY <2>4, <4>1
      <4> HIDE DEF more
      <4> QED
        BY <3>1, <3>3, <4>2
    <3> QED
      BY <3>2, <3>3
  <2> HIDE DEF more
  <2>6. upto(n + 1, more)
    BY <2>3, <2>5
  <2> QED
    BY <2>6
<1> HIDE DEF levels
<1>7. Nat \subseteq levels
  BY <1>5, <1>6, SetInduction
<1>8. \E it : runs(it)
  <2>1. PICK it : upto(Cardinality(S), it)
    BY <1>2, <1>7 DEF levels
  <2>2. \A s \in SUBSET S : it[s] = sum(s, it)
    BY <1>2, <2>1
  <2>3. runs(it)
    BY <2>1, <2>2
  <2> QED
    BY <2>3
<1>9. PICK it : runs(it) /\ SumFunctionOnSet(w, S) = it[S]
  BY <1>1, <1>8
<1>10. \A s \in SUBSET S : it[s] = sum(s, it)
  BY <1>9
<1> HIDE DEF runs
<1>11. DOMAIN it = SUBSET S
  BY <1>9 DEF runs
<1> DEFINE good == {n \in Nat : \A s \in SUBSET S : Cardinality(s) <= n =>
                      it[s] \in Nat /\ \A x \in s : it[s] = w[x] + it[s \ {x}]}
<1>12. 0 \in good
  <2>1. \A s \in SUBSET S : Cardinality(s) <= 0 => s = {}
    BY <1>2, FS_EmptySet
  <2>2. it[{}] = 0
    BY <1>10
  <2> SUFFICES ASSUME NEW s \in SUBSET S, Cardinality(s) <= 0
               PROVE  it[s] \in Nat /\ \A x \in s : it[s] = w[x] + it[s \ {x}]
    OBVIOUS
  <2>3. s = {}
    BY <2>1
  <2> QED
    BY <2>2, <2>3
<1>13. ASSUME NEW n \in Nat, n \in good PROVE n + 1 \in good
  <2>0. \A t \in SUBSET S : Cardinality(t) <= n =>
          it[t] \in Nat /\ \A x \in t : it[t] = w[x] + it[t \ {x}]
    BY <1>13
  <2> SUFFICES ASSUME NEW s \in SUBSET S, Cardinality(s) = n + 1
               PROVE  it[s] \in Nat /\ \A x \in s : it[s] = w[x] + it[s \ {x}]
    BY <1>2, <2>0
  <2> DEFINE c == pick(s)
  <2>1. s # {}
    BY FS_EmptySet
  <2>2. c \in s
    BY <1>3, <2>1
  <2>3. it[s] = w[c] + it[s \ {c}]
    BY <1>10, <2>1
  <2> HIDE DEF c
  <2>4. \A x \in s : s \ {x} \in SUBSET S /\ Cardinality(s \ {x}) = n
    BY <1>4
  <2>5. \A x \in s : it[s \ {x}] \in Nat /\ \A y \in s \ {x} : it[s \ {x}] = w[y] + it[(s \ {x}) \ {y}]
    BY <2>0, <2>4
  <2>6. it[s] \in Nat
    BY <2>2, <2>3, <2>5
  <2>7. ASSUME NEW x \in s PROVE it[s] = w[x] + it[s \ {x}]
    <3>1. CASE x = c
      BY <2>3, <3>1
    <3>2. CASE x # c
      <4> DEFINE both == s \ {c, x}
      <4>1. (s \ {c}) \ {x} = both /\ (s \ {x}) \ {c} = both
        OBVIOUS
      <4>2. x \in s \ {c} /\ c \in s \ {x}
        BY <2>2, <3>2
      <4>3. it[s \ {c}] = w[x] + it[both]
        BY <2>2, <2>5, <4>1, <4>2
      <4>4. it[s \ {x}] = w[c] + it[both]
        BY <2>5, <4>1, <4>2
      <4>5. s \ {c} \in SUBSET S /\ Cardinality(s \ {c}) = n
        BY <2>2, <2>4
      <4>6. Cardinality((s \ {c}) \ {x}) = n - 1
        BY <1>4, <4>2, <4>5
      <4>7. both \in SUBSET S /\ Cardinality(both) <= n
        BY <4>1, <4>6
      <4>8. it[both] \in Nat
        BY <2>0, <4>7
      <4>9. w[x] \in Nat /\ w[c] \in Nat
        BY <2>2
      <4> HIDE DEF both
      <4> QED
        BY <2>3, <4>3, <4>4, <4>8, <4>9
    <3> QED
      BY <3>1, <3>2
  <2> QED
    BY <2>6, <2>7
<1> HIDE DEF good
<1>14. Nat \subseteq good
  BY <1>12, <1>13, SetInduction
<1>15. \A s \in SUBSET S : it[s] \in Nat /\ \A x \in s : it[s] = w[x] + it[s \ {x}]
  BY <1>2, <1>14 DEF good
<1>16. it[{}] = 0
  BY <1>10
<1>17. it \in [SUBSET S -> Nat]
  BY <1>9, <1>15 DEF runs
<1> QED
  BY <1>9, <1>15, <1>16, <1>17 DEF Sums

(***************************************************************************)
(* A sum is a number, taking an element away takes its weight away, and it *)
(* depends on the weights of the elements summed only.                     *)
(***************************************************************************)
LEMMA SumFacts ==
  ASSUME NEW S, IsFiniteSet(S), NEW w, \A x \in S : w[x] \in Nat
  PROVE  /\ SumFunctionOnSet(w, S) \in Nat
         /\ SumFunctionOnSet(w, {}) = 0
         /\ \A x \in S : SumFunctionOnSet(w, S) = w[x] + SumFunctionOnSet(w, S \ {x})
         /\ \A v : (\A x \in S : v[x] = w[x]) => SumFunctionOnSet(v, S) = SumFunctionOnSet(w, S)
         /\ \A T \in SUBSET S :
              SumFunctionOnSet(w, S) = SumFunctionOnSet(w, T) + SumFunctionOnSet(w, S \ T)
<1>1. PICK it : Sums(w, S, it) /\ SumFunctionOnSet(w, S) = it[S]
  BY SumsExist
<1>2. \A s \in SUBSET S : IsFiniteSet(s) /\ Cardinality(s) \in Nat
  BY FS_Subset, FS_CardinalityType
<1>3. \A s \in SUBSET S : \A x \in s : Cardinality(s \ {x}) = Cardinality(s) - 1
  BY <1>2, FS_RemoveElement
<1>4. \A s \in SUBSET S : it[s] \in Nat
  BY <1>1 DEF Sums
\* the sums over a subset are those of the whole, by whatever weights agree on it
<1>5. ASSUME NEW T \in SUBSET S, NEW v, \A x \in T : v[x] = w[x]
      PROVE  SumFunctionOnSet(v, T) = it[T]
  <2>1. IsFiniteSet(T) /\ \A x \in T : v[x] \in Nat
    BY <1>2, <1>5
  <2>2. PICK jt : Sums(v, T, jt) /\ SumFunctionOnSet(v, T) = jt[T]
    BY <2>1, SumsExist
  <2> DEFINE same == {n \in Nat : \A s \in SUBSET T : Cardinality(s) = n => jt[s] = it[s]}
  <2>3. 0 \in same
    <3>1. \A s \in SUBSET T : Cardinality(s) = 0 => s = {}
      BY <1>2, FS_EmptySet
    <3>2. jt[{}] = it[{}]
      BY <1>1, <2>2 DEF Sums
    <3> QED
      BY <3>1, <3>2
  <2>4. ASSUME NEW n \in Nat, n \in same PROVE n + 1 \in same
    <3> SUFFICES ASSUME NEW s \in SUBSET T, Cardinality(s) = n + 1 PROVE jt[s] = it[s]
      OBVIOUS
    <3>1. PICK x : x \in s
      BY FS_EmptySet
    <3>2. s \ {x} \in SUBSET T /\ Cardinality(s \ {x}) = n
      BY <1>3, <3>1
    <3>3. jt[s \ {x}] = it[s \ {x}]
      BY <2>4, <3>2
    <3>4. jt[s] = v[x] + jt[s \ {x}] /\ it[s] = w[x] + it[s \ {x}]
      BY <1>1, <2>2, <3>1 DEF Sums
    <3> QED
      BY <1>5, <3>1, <3>3, <3>4
  <2> HIDE DEF same
  <2>5. Nat \subseteq same
    BY <2>3, <2>4, SetInduction
  <2> QED
    BY <1>2, <2>2, <2>5 DEF same
<1>6. ASSUME NEW T \in SUBSET S PROVE it[S] = it[T] + it[S \ T]
  <2> DEFINE split == {n \in Nat : \A s \in SUBSET S : \A t \in SUBSET s :
                         Cardinality(t) = n => it[s] = it[t] + it[s \ t]}
  <2>1. 0 \in split
    <3>1. \A t \in SUBSET S : Cardinality(t) = 0 => t = {}
      BY <1>2, FS_EmptySet
    <3>2. it[{}] = 0
      BY <1>1 DEF Sums
    <3> SUFFICES ASSUME NEW s \in SUBSET S, NEW t \in SUBSET s, Cardinality(t) = 0
                 PROVE  it[s] = it[t] + it[s \ t]
      OBVIOUS
    <3>3. t = {} /\ s \ t = s
      BY <3>1
    <3> QED
      BY <1>4, <3>2, <3>3
  <2>2. ASSUME NEW n \in Nat, n \in split PROVE n + 1 \in split
    <3> SUFFICES ASSUME NEW s \in SUBSET S, NEW t \in SUBSET s, Cardinality(t) = n + 1
                 PROVE  it[s] = it[t] + it[s \ t]
      OBVIOUS
    <3>1. PICK x : x \in t
      BY FS_EmptySet
    <3> DEFINE r == s \ {x}
               u == t \ {x}
    <3>2. u \in SUBSET r /\ r \in SUBSET S /\ r \ u = s \ t /\ s \ t \in SUBSET S /\ u \in SUBSET S
      BY <3>1
    <3>3. Cardinality(u) = n
      BY <1>3, <3>1
    <3>4. it[s] = w[x] + it[r] /\ it[t] = w[x] + it[u]
      BY <1>1, <3>1 DEF Sums
    <3> HIDE DEF r, u
    <3>5. it[r] = it[u] + it[s \ t]
      <4>1. \A a \in SUBSET S : \A b \in SUBSET a : Cardinality(b) = n => it[a] = it[b] + it[a \ b]
        BY <2>2
      <4>2. it[r] = it[u] + it[r \ u]
        BY <3>2, <3>3, <4>1
      <4> QED
        BY Zenon, <3>2, <4>2
    <3>6. w[x] \in Nat /\ it[u] \in Nat /\ it[s \ t] \in Nat
      BY <1>4, <3>1, <3>2
    <3> QED
      BY <3>4, <3>5, <3>6
  <2> HIDE DEF split
  <2>3. Nat \subseteq split
    BY <2>1, <2>2, SetInduction
  <2> QED
    BY <1>2, <2>3 DEF split
<1>7. \A T \in SUBSET S : SumFunctionOnSet(w, T) = it[T]
  BY <1>5
<1>8. SumFunctionOnSet(w, {}) = 0
  BY <1>1, <1>7 DEF Sums
<1>9. ASSUME NEW x \in S
      PROVE  SumFunctionOnSet(w, S) = w[x] + SumFunctionOnSet(w, S \ {x})
  BY <1>1, <1>7 DEF Sums
<1>10. ASSUME NEW T \in SUBSET S
      PROVE  SumFunctionOnSet(w, S) = SumFunctionOnSet(w, T) + SumFunctionOnSet(w, S \ T)
  BY <1>1, <1>6, <1>7
<1> QED
  BY <1>1, <1>4, <1>5, <1>8, <1>9, <1>10

-----------------------------------------------------------------------------
(***************************************************************************)
(* Taking keys out of the order keeps the others, once.                    *)
(***************************************************************************)
LEMMA ExceptFacts ==
  ASSUME order \in Seq(Key), IsInjective(order), NEW keys
  PROVE  /\ Except(keys) \in Seq(Key) /\ IsInjective(Except(keys))
         /\ ToSet(Except(keys)) = ToSet(order) \ keys
<1> DEFINE left    == {i \in DOMAIN order : order[i] \notin keys}
           upto(i) == {j \in left : j <= i}
           rank    == [i \in left |-> Cardinality(upto(i))]
           count   == Cardinality(left)
           nth(n)  == CHOOSE i \in left : Cardinality(upto(i)) = n
<1>1. left \subseteq 1..Len(order) /\ Len(order) \in Nat
  OBVIOUS
<1>2. \A i \in left : i \in DOMAIN order /\ order[i] \in Key /\ order[i] \notin keys /\ i \in Int
  OBVIOUS
<1>3. \A i \in DOMAIN order : order[i] \notin keys => i \in left
  OBVIOUS
<1>4. Except(keys) = [n \in 1..count |-> order[nth(n)]]
  BY DEF Except
<1> HIDE DEF left
<1>5. IsFiniteSet(left) /\ count \in Nat
  <2>1. IsFiniteSet(1..Len(order))
    <3> DEFINE last == Len(order)
    <3>1. last \in Int
      BY <1>1
    <3> HIDE DEF last
    <3>2. IsFiniteSet(1..last)
      BY <3>1, FS_Interval
    <3> QED
      BY <3>2 DEF last
  <2>2. IsFiniteSet(left)
    BY <1>1, <2>1, FS_Subset
  <2> QED
    BY <2>2, FS_CardinalityType
<1>6. ASSUME NEW i \in left
      PROVE  upto(i) \subseteq left /\ IsFiniteSet(upto(i)) /\ Cardinality(upto(i)) \in 1..count
  <2>1. upto(i) \subseteq left /\ i \in upto(i)
    BY <1>2
  <2> HIDE DEF upto
  <2>2. IsFiniteSet(upto(i)) /\ Cardinality(upto(i)) <= count
    BY <1>5, <2>1, FS_Subset
  <2>3. Cardinality(upto(i)) \in Nat /\ Cardinality(upto(i)) # 0
    BY <2>1, <2>2, FS_CardinalityType, FS_EmptySet
  <2> QED
    BY <1>5, <2>1, <2>2, <2>3
<1>7. ASSUME NEW i \in left, NEW k \in left, Cardinality(upto(i)) = Cardinality(upto(k)) PROVE i = k
  <2>1. ASSUME NEW a \in left, NEW b \in left, a < b, Cardinality(upto(a)) = Cardinality(upto(b))
        PROVE  FALSE
    <3>1. a \in Int /\ b \in Int
      BY <1>2
    <3>2. b \in upto(b) /\ b \notin upto(a)
      BY <2>1, <3>1
    <3>3. ASSUME NEW j \in upto(a) PROVE j \in upto(b)
      <4>1. j \in left /\ j <= a /\ a < b /\ j \in Int
        BY <1>2, <2>1
      <4> QED
        BY <3>1, <4>1
    <3>4. IsFiniteSet(upto(b))
      BY <1>6
    <3> HIDE DEF upto
    <3> QED
      BY <2>1, <3>2, <3>3, <3>4, FS_Subset
  <2>2. i < k \/ k < i \/ i = k
    BY <1>2
  <2> HIDE DEF upto
  <2> QED
    BY <1>7, <2>1, <2>2
<1>8. rank \in Surjection(left, 1..count)
  <2>1. rank \in Injection(left, 1..count)
    BY <1>6, <1>7 DEF Injection, IsInjective
  <2>2. IsFiniteSet(1..count) /\ Cardinality(1..count) = count
    BY <1>5, FS_Interval
  <2> HIDE DEF rank
  <2> QED
    BY <2>1, <2>2, FS_Injection
<1>9. \A n \in 1..count : nth(n) \in left /\ Cardinality(upto(nth(n))) = n
  BY <1>8 DEF Surjection
<1> HIDE DEF nth
<1>10. Except(keys) \in Seq(Key) /\ Len(Except(keys)) = count
  <2>1. \A n \in 1..count : order[nth(n)] \in Key
    BY <1>2, <1>9
  <2> HIDE DEF count
  <2> QED
    BY <1>5, <1>4, <2>1
<1>11. \A n \in 1..count : Except(keys)[n] = order[nth(n)]
  BY <1>4
<1>12. DOMAIN Except(keys) = 1..count
  BY <1>10
<1>13. IsInjective(Except(keys))
  <2> SUFFICES ASSUME NEW m \in 1..count, NEW n \in 1..count, Except(keys)[m] = Except(keys)[n]
               PROVE  m = n
    BY <1>12 DEF IsInjective
  <2> DEFINE a == nth(m)
             b == nth(n)
  <2>1. a \in DOMAIN order /\ b \in DOMAIN order /\ order[a] = order[b]
    BY <1>2, <1>9, <1>11
  <2> HIDE DEF a, b
  <2>2. a = b
    BY <2>1 DEF IsInjective
  <2> QED
    BY <1>9, <2>2 DEF a, b
<1>14. ASSUME NEW k \in ToSet(order), k \notin keys PROVE k \in ToSet(Except(keys))
  <2>1. PICK i \in DOMAIN order : order[i] = k
    BY DEF ToSet
  <2>2. i \in left
    BY <1>3, <1>14, <2>1
  <2>3. Cardinality(upto(i)) \in 1..count
    BY <1>6, <2>2
  <2>4. nth(Cardinality(upto(i))) = i
    BY <1>7, <1>9, <2>2, <2>3
  <2> QED
    BY <1>11, <1>12, <2>1, <2>3, <2>4 DEF ToSet
<1>15. ASSUME NEW k \in ToSet(Except(keys)) PROVE k \in ToSet(order) /\ k \notin keys
  <2>1. PICK n \in 1..count : Except(keys)[n] = k
    BY <1>12 DEF ToSet
  <2> QED
    BY <1>2, <1>9, <1>11, <2>1 DEF ToSet
<1> QED
  BY <1>10, <1>13, <1>14, <1>15

\* A key appended to an order that does not have it.
LEMMA AppendLists ==
  ASSUME NEW old \in Seq(Key), IsInjective(old), NEW k \in Key, k \notin ToSet(old)
  PROVE  /\ Append(old, k) \in Seq(Key) /\ IsInjective(Append(old, k))
         /\ ToSet(Append(old, k)) = ToSet(old) \cup {k}
<1> DEFINE new == Append(old, k)
<1>1. /\ new \in Seq(Key) /\ Len(new) = Len(old) + 1 /\ new[Len(old) + 1] = k
      /\ \A i \in 1..Len(old) : new[i] = old[i]
  OBVIOUS
<1> HIDE DEF new
<1>2. /\ ToSet(old) = {old[i] : i \in 1..Len(old)} /\ Len(old) \in Nat
      /\ ToSet(new) = {new[i] : i \in 1..Len(old) + 1}
  BY <1>1 DEF ToSet
<1>3. \A i \in 1..Len(old) + 1 : i = Len(old) + 1 \/ i \in 1..Len(old)
  BY <1>2
<1>4. IsInjective(new)
  <2> SUFFICES ASSUME NEW i \in 1..Len(old) + 1, NEW j \in 1..Len(old) + 1, new[i] = new[j]
               PROVE  i = j
    BY <1>1 DEF IsInjective
  <2> QED
    BY <1>1, <1>2, <1>3 DEF IsInjective
<1>5. ASSUME NEW x \in ToSet(new) PROVE x \in ToSet(old) \cup {k}
  BY <1>1, <1>2, <1>3
<1>6. ASSUME NEW x \in ToSet(old) \cup {k} PROVE x \in ToSet(new)
  <2>1. Len(old) + 1 \in 1..Len(old) + 1 /\ \A i \in 1..Len(old) : i \in 1..Len(old) + 1
    BY <1>2
  <2> QED
    BY <1>1, <1>2, <2>1
<1> QED
  BY <1>1, <1>4, <1>5, <1>6 DEF new

-----------------------------------------------------------------------------
OrderLists ==
  order \in Seq(Key) /\ IsInjective(order) /\ ToSet(order) = DOMAIN entries

\* sizes are numbers, the counter covers them, and they fit
SizesCounted ==
  /\ \A k \in DOMAIN entries : SizeOf(entries[k]) \in Nat
  /\ pc = "store" => SizeOf(content) \in Nat
  /\ size \in Int /\ size >= Bytes(DOMAIN entries) /\ Bytes(DOMAIN entries) <= SizeLimit

\* What is read of a file has a size.
LEMMA SnippetSize ==
  ASSUME NEW c \in Contents, c # Absent, NEW range \in {Whole} \cup Int \X Int
  PROVE  SizeOf(Snippet(c, range)) \in Nat
<1>1. c \in Seq(Nat) /\ Len(c) \in Nat
  BY CacheAssumption
<1>2. Snippet(c, range) \in Seq(Nat)
  <2>1. CASE range = Whole
    BY <1>1, <2>1 DEF Snippet
  <2>2. CASE range # Whole
    <3> DEFINE first == IF range[1] < 1 THEN 1 ELSE range[1]
               last  == IF range[2] > Len(c) THEN Len(c) ELSE range[2]
    <3>1. range[1] \in Int /\ range[2] \in Int
      BY <2>2
    <3>2. first \in Int /\ first >= 1 /\ last \in Int /\ last <= Len(c)
      BY <1>1, <3>1
    <3>3. Snippet(c, range) = SubSeq(c, first, last)
      BY <2>2 DEF Snippet
    <3> HIDE DEF first, last
    <3>4. \A i \in first..last : c[i] \in Nat
      BY <1>1, <3>2
    <3> QED
      BY <3>2, <3>3, <3>4, SubSeqProperties
  <2> QED
    BY <2>1, <2>2
<1> DEFINE text == Snippet(c, range)
<1>3. SizeOf(text) = SumFunctionOnSet(text, DOMAIN text)
  BY DEF SizeOf, SumFunction
<1> HIDE DEF text
<1>4. text \in Seq(Nat)
  BY <1>2 DEF text
<1>5. PICK n \in Nat : DOMAIN text = 1..n
  BY <1>4
<1>6. IsFiniteSet(DOMAIN text)
  BY <1>5, FS_Interval
<1>7. \A i \in DOMAIN text : text[i] \in Nat
  BY <1>4
<1>8. SumFunctionOnSet(text, DOMAIN text) \in Nat
  BY <1>6, <1>7, SumFacts
<1> QED
  BY <1>3, <1>8 DEF text

\* The keys are finitely many, as the order lists them.
LEMMA KeysFinite ==
  ASSUME OrderLists
  PROVE  IsFiniteSet(DOMAIN entries) /\ Len(order) = Cardinality(DOMAIN entries)
<1>1. PICK n \in Nat : n = Len(order)
  BY DEF OrderLists
<1>2. IsFiniteSet(1..n) /\ Cardinality(1..n) = n
  BY FS_Interval
<1>3. order \in Surjection(1..n, DOMAIN entries)
  BY <1>1 DEF OrderLists, ToSet, Surjection
<1>4. order \in Injection(1..n, DOMAIN entries)
  BY <1>3 DEF OrderLists, Injection, Surjection
<1> QED
  BY <1>1, <1>2, <1>3, <1>4, FS_Surjection

\* The sizes of some keys, of those left, and of one key.
LEMMA BytesFacts ==
  ASSUME OrderLists, \A k \in DOMAIN entries : SizeOf(entries[k]) \in Nat
  PROVE  /\ \A keys \in SUBSET DOMAIN entries : Bytes(keys) \in Nat
         /\ Bytes({}) = 0
         /\ \A keys \in SUBSET DOMAIN entries : \A some \in SUBSET keys :
              Bytes(keys) = Bytes(some) + Bytes(keys \ some)
<1> DEFINE w == [k \in DOMAIN entries |-> SizeOf(entries[k])]
<1>1. IsFiniteSet(DOMAIN entries) /\ \A k \in DOMAIN entries : w[k] \in Nat
  BY KeysFinite
<1>2. \A keys : Bytes(keys) = SumFunctionOnSet(w, keys)
  BY DEF Bytes
<1> HIDE DEF w
<1>3. \A keys \in SUBSET DOMAIN entries : IsFiniteSet(keys) /\ \A k \in keys : w[k] \in Nat
  BY <1>1, FS_Subset
<1>4. \A keys \in SUBSET DOMAIN entries :
        /\ SumFunctionOnSet(w, keys) \in Nat
        /\ \A some \in SUBSET keys :
             SumFunctionOnSet(w, keys) = SumFunctionOnSet(w, some) + SumFunctionOnSet(w, keys \ some)
  BY <1>3, SumFacts
<1>5. SumFunctionOnSet(w, {}) = 0
  BY <1>1, SumFacts
<1> QED
  BY <1>2, <1>4, <1>5

(***************************************************************************)
(* What _evict_lru frees are entries, and enough of them, or all.          *)
(***************************************************************************)
LEMMA EvictFacts ==
  ASSUME OrderLists, SizesCounted, NEW needed \in Nat
  PROVE  /\ EvictLru(needed) \subseteq DOMAIN entries
         /\ Bytes(EvictLru(needed)) >= needed \/ EvictLru(needed) = DOMAIN entries
<1> DEFINE oldest(n) == {order[i] : i \in 1..n}
           stops == {n \in 0..Len(order) : Bytes(oldest(n)) >= needed \/ n = Len(order)}
           first == CHOOSE n \in stops : \A m \in stops : n <= m
<1>1. EvictLru(needed) = oldest(first)
  BY DEF EvictLru
<1>2. Len(order) \in Nat /\ Len(order) \in stops
  BY DEF OrderLists
<1>3. first \in stops
  <2> DEFINE below == {n \in Nat : \A m \in stops : m >= n}
  <2>1. stops \subseteq Nat
    BY <1>2
  <2> HIDE DEF stops
  <2>2. CASE \E n \in stops : \A m \in stops : n <= m
    BY <2>2
  <2>3. CASE \A n \in stops : \E m \in stops : m < n
    <3>1. 0 \in below
      BY <2>1
    <3>2. ASSUME NEW n \in Nat, n \in below PROVE n + 1 \in below
      <4> SUFFICES ASSUME NEW m \in stops PROVE m >= n + 1
        OBVIOUS
      <4>1. PICK k \in stops : k < m
        BY <2>3
      <4>2. k >= n
        BY <3>2
      <4> QED
        BY <2>1, <4>1, <4>2
    <3>3. Nat \subseteq below
      <4> HIDE DEF below
      <4> QED
        BY <3>1, <3>2, SetInduction
    <3>4. Len(order) + 1 \in below
      BY <1>2, <3>3
    <3>5. Len(order) >= Len(order) + 1
      BY <1>2, <3>4
    <3> QED
      BY <1>2, <3>5
  <2> QED
    BY <2>1, <2>2, <2>3
<1>4. first \in 0..Len(order) /\ (Bytes(oldest(first)) >= needed \/ first = Len(order))
  BY <1>3
<1> HIDE DEF first
<1>5. ToSet(order) = {order[i] : i \in 1..Len(order)}
  BY DEF OrderLists, ToSet
<1>6. oldest(first) \subseteq DOMAIN entries
  BY <1>2, <1>4, <1>5 DEF OrderLists
<1>7. first = Len(order) => oldest(first) = DOMAIN entries
  BY <1>5 DEF OrderLists
<1> QED
  BY <1>1, <1>4, <1>6, <1>7

LruInv == OrderLists /\ SizesCounted

LEMMA LruInit == Init => LruInv
<1> SUFFICES ASSUME Init PROVE LruInv
  OBVIOUS
<1>1. DOMAIN entries = {} /\ order = <<>> /\ size = 0 /\ pc = "idle"
  BY DEF Init
<1>2. <<>> \in Seq(Key) /\ IsInjective(<<>>) /\ ToSet(<<>>) = {}
  BY DEF IsInjective, ToSet
<1>3. OrderLists
  BY <1>1, <1>2 DEF OrderLists
<1>4. Bytes({}) = 0
  BY <1>1, <1>3, BytesFacts
<1> QED
  BY <1>1, <1>3, <1>4, CacheAssumption DEF LruInv, SizesCounted

\* What leaves the cache alone.
LEMMA LruSame ==
  ASSUME LruInv, UNCHANGED cached, pc' = "store" => SizeOf(content') \in Nat
  PROVE  LruInv'
<1>1. Bytes(DOMAIN entries)' = Bytes(DOMAIN entries)
  BY DEF cached, Bytes
<1> QED
  BY <1>1 DEF LruInv, OrderLists, SizesCounted, cached

\* What forgets the entries of some keys, and counts them out.
LEMMA LruForget ==
  ASSUME LruInv, NEW gone \in SUBSET DOMAIN entries,
         entries' = Without(entries, gone), order' = Except(gone), size' = size - Bytes(gone),
         pc' # "store"
  PROVE  LruInv'
<1> DEFINE w == [k \in DOMAIN entries |-> SizeOf(entries[k])]
           kept == DOMAIN entries \ gone
<1>1. DOMAIN entries' = kept /\ \A k \in kept : entries'[k] = entries[k]
  BY DEF Without
<1>2. OrderLists'
  BY <1>1, ExceptFacts DEF LruInv, OrderLists
<1>3. \A k \in kept : SizeOf(entries'[k]) \in Nat
  BY <1>1 DEF LruInv, SizesCounted
<1>4. Bytes(DOMAIN entries) = Bytes(gone) + Bytes(kept) /\ Bytes(gone) \in Nat /\ Bytes(kept) \in Nat
  BY BytesFacts DEF LruInv, SizesCounted
<1>5. Bytes(DOMAIN entries)' = Bytes(kept)
  <2> DEFINE v == [k \in DOMAIN entries' |-> SizeOf(entries'[k])]
  <2>1. Bytes(DOMAIN entries)' = SumFunctionOnSet(v, kept) /\ Bytes(kept) = SumFunctionOnSet(w, kept)
    BY <1>1 DEF Bytes
  <2>2. \A k \in kept : v[k] = w[k] /\ w[k] \in Nat
    BY <1>1 DEF LruInv, SizesCounted
  <2>3. IsFiniteSet(kept)
    BY KeysFinite, FS_Subset DEF LruInv
  <2> HIDE DEF v, w, kept
  <2>4. SumFunctionOnSet(v, kept) = SumFunctionOnSet(w, kept)
    BY <2>2, <2>3, SumFacts
  <2> QED
    BY <2>1, <2>4
<1> HIDE DEF kept
<1>6. SizesCounted'
  BY <1>1, <1>3, <1>4, <1>5, CacheAssumption DEF LruInv, SizesCounted
<1> QED
  BY <1>2, <1>6 DEF LruInv

\* An entry is stored after as many bytes were freed as it needs, or all there were.
LEMMA LruStores == TypeOK /\ LruInv /\ ReadStores => LruInv'
<1> SUFFICES ASSUME TypeOK, LruInv, ReadStores PROVE LruInv'
  OBVIOUS
<1> DEFINE need == SizeOf(content)
           gone == IF size + need > SizeLimit THEN EvictLru(need) ELSE {}
           keys == DOMAIN entries
           kept == keys \ (gone \cup {key})
<1>1. /\ pc = "store" /\ key \in Key /\ need \in Nat /\ need <= SizeLimit
      /\ pc' = "idle"
  BY DEF ReadStores, Returns, TypeOK, LruInv, SizesCounted
<1>2. /\ entries' = [k \in (keys \ gone) \cup {key} |-> IF k = key THEN content ELSE entries[k]]
      /\ order' = IF key \in keys \ gone THEN Except(gone) ELSE Append(Except(gone), key)
      /\ size' = size - Bytes(gone) + need
  BY DEF ReadStores, SizeAfter
<1>3. OrderLists /\ SizesCounted
  BY DEF LruInv
<1>4. \A k \in keys : SizeOf(entries[k]) \in Nat
  BY <1>3 DEF SizesCounted
<1>5. size \in Int /\ SizeLimit \in Nat /\ size >= Bytes(keys) /\ Bytes(keys) <= SizeLimit
  BY <1>3, CacheAssumption DEF SizesCounted
<1>6. /\ gone \subseteq keys
      /\ \/ gone = {} /\ size + need <= SizeLimit
         \/ Bytes(gone) >= need
         \/ gone = keys
  BY <1>1, <1>3, <1>5, EvictFacts
<1> HIDE DEF gone, need
<1>7. DOMAIN entries' = kept \cup {key} /\ entries'[key] = content
      /\ \A k \in kept : entries'[k] = entries[k]
  BY <1>2
<1>8. OrderLists'
  <2>1. /\ Except(gone) \in Seq(Key) /\ IsInjective(Except(gone))
        /\ ToSet(Except(gone)) = keys \ gone
    BY <1>3, ExceptFacts DEF OrderLists
  <2>2. CASE key \in keys \ gone
    BY <1>2, <2>1, <2>2 DEF OrderLists
  <2>3. CASE key \notin keys \ gone
    <3>1. ToSet(Append(Except(gone), key)) = DOMAIN entries'
      BY <1>1, <1>2, <2>1, <2>3, AppendLists
    <3> QED
      BY <1>1, <1>2, <2>1, <2>3, <3>1, AppendLists DEF OrderLists
  <2> QED
    BY <2>2, <2>3
<1>9. Bytes(kept) \in Nat /\ Bytes(gone) \in Nat /\ Bytes(keys) \in Nat /\ Bytes(kept) + Bytes(gone) <= Bytes(keys)
      /\ (gone = {} => Bytes(gone) = 0) /\ (gone = keys => Bytes(kept) = 0)
  <2> DEFINE rest == keys \ gone
  <2>1. Bytes(keys) = Bytes(gone) + Bytes(rest) /\ Bytes(gone) \in Nat /\ Bytes(rest) \in Nat
    BY <1>3, <1>4, <1>6, BytesFacts
  <2>2. kept \in SUBSET rest /\ rest \ kept \in SUBSET keys /\ kept \in SUBSET keys
    OBVIOUS
  <2>3. rest \in SUBSET keys
    OBVIOUS
  <2> HIDE DEF rest, kept
  <2>4. Bytes(rest) = Bytes(kept) + Bytes(rest \ kept) /\ Bytes(kept) \in Nat
        /\ Bytes(rest \ kept) \in Nat /\ Bytes({}) = 0
    BY <1>3, <1>4, <2>2, <2>3, BytesFacts
  <2>5. gone = keys => kept = {}
    BY DEF kept
  <2> QED
    BY <2>1, <2>4, <2>5
<1>10. Bytes(DOMAIN entries)' = need + Bytes(kept)
  <2> DEFINE w == [k \in keys |-> SizeOf(entries[k])]
             v == [k \in DOMAIN entries' |-> SizeOf(entries'[k])]
             now == kept \cup {key}
  <2>1. Bytes(DOMAIN entries)' = SumFunctionOnSet(v, now) /\ Bytes(kept) = SumFunctionOnSet(w, kept)
    BY <1>7 DEF Bytes
  <2>2. v[key] = need /\ \A k \in kept : v[k] = w[k] /\ w[k] \in Nat
    BY <1>4, <1>7 DEF need
  <2>3. IsFiniteSet(kept) /\ IsFiniteSet(now) /\ now \ {key} = kept /\ key \in now
    <3>1. IsFiniteSet(kept)
      BY <1>3, KeysFinite, FS_Subset
    <3>2. now \ {key} = kept /\ key \in now
      OBVIOUS
    <3> QED
      BY <3>1, <3>2, FS_AddElement
  <2>4. \A k \in now : v[k] \in Nat
    BY <1>1, <2>2
  <2> HIDE DEF v, w, now, kept
  <2>5. SumFunctionOnSet(v, now) = v[key] + SumFunctionOnSet(v, now \ {key})
    BY <2>3, <2>4, SumFacts
  <2>6. SumFunctionOnSet(v, kept) = SumFunctionOnSet(w, kept)
    BY <2>2, <2>3, SumFacts
  <2>7. SumFunctionOnSet(v, now \ {key}) = SumFunctionOnSet(v, kept)
    BY <2>3
  <2> QED
    BY <2>1, <2>2, <2>5, <2>6, <2>7
<1>11. \A k \in DOMAIN entries' : SizeOf(entries'[k]) \in Nat
  BY <1>1, <1>4, <1>7 DEF need
<1>12. size' \in Int /\ size' >= need + Bytes(kept) /\ need + Bytes(kept) <= SizeLimit
  <2> HIDE DEF kept, keys
  <2> QED
    BY <1>1, <1>2, <1>5, <1>6, <1>9
<1>13. SizesCounted'
  BY <1>1, <1>10, <1>11, <1>12 DEF SizesCounted
<1> QED
  BY <1>8, <1>13 DEF LruInv

LEMMA LruStep == TypeOK /\ LruInv /\ [Next]_vars => LruInv'
<1> SUFFICES ASSUME TypeOK, LruInv, [Next]_vars PROVE LruInv'
  OBVIOUS
<1>1. ASSUME NEW f \in File, NEW c \in Contents, Write(f, c) PROVE LruInv'
  BY <1>1, LruSame DEF Write, reading, LruInv, SizesCounted
<1>2. ASSUME NEW f \in File, Stamp(f) PROVE LruInv'
  BY <1>2, LruSame DEF Stamp, reading, LruInv, SizesCounted
<1>3. ASSUME NEW f \in File, RunCallback(f) \/ InvalidateCall(f) PROVE LruInv'
  <2> DEFINE gone == {k \in DOMAIN entries : FileOf(k) = f}
  <2>1. /\ entries' = Without(entries, gone) /\ order' = Except(gone) /\ size' = size - Bytes(gone)
        /\ pc' # "store"
    BY <1>3 DEF RunCallback, InvalidateCall, Invalidated, reading
  <2>2. gone \in SUBSET DOMAIN entries
    OBVIOUS
  <2> HIDE DEF gone
  <2> QED
    BY <2>1, <2>2, LruForget
<1>4. CASE Clear
  <2>1. DOMAIN entries' = {} /\ order' = <<>> /\ size' = 0 /\ pc' # "store"
    BY <1>4 DEF Clear, Without, reading
  <2>2. <<>> \in Seq(Key) /\ IsInjective(<<>>) /\ ToSet(<<>>) = {}
    BY DEF IsInjective, ToSet
  <2>3. OrderLists'
    BY <2>1, <2>2 DEF OrderLists
  <2>4. Bytes(DOMAIN entries)' = 0
    <3> DEFINE v == [k \in DOMAIN entries' |-> SizeOf(entries'[k])]
    <3>1. Bytes(DOMAIN entries)' = SumFunctionOnSet(v, {})
      BY <2>1 DEF Bytes
    <3> HIDE DEF v
    <3>2. SumFunctionOnSet(v, {}) = 0
      BY SumFacts, FS_EmptySet
    <3> QED
      BY <3>1, <3>2
  <2> QED
    BY <2>1, <2>3, <2>4, CacheAssumption DEF LruInv, SizesCounted
<1>5. CASE ForgetEvents
  BY <1>5, LruSame DEF ForgetEvents, reading, LruInv, SizesCounted
<1>6. ASSUME NEW k \in Key, Hit(k) PROVE LruInv'
  <2>1. k \in DOMAIN entries /\ order' = Append(Except({k}), k) /\ UNCHANGED <<entries, size, pc, content>>
    BY <1>6 DEF Hit, reading
  <2>2. /\ Except({k}) \in Seq(Key) /\ IsInjective(Except({k}))
        /\ ToSet(Except({k})) = DOMAIN entries \ {k}
    BY ExceptFacts DEF LruInv, OrderLists
  <2>3. OrderLists'
    <3> DEFINE old == Except({k})
    <3>1. old \in Seq(Key) /\ IsInjective(old) /\ ToSet(old) = DOMAIN entries \ {k}
      BY <2>2
    <3>2. order' = Append(old, k) /\ k \in DOMAIN entries /\ entries' = entries
      BY <2>1
    <3> HIDE DEF old
    <3>3. k \notin ToSet(old)
      BY <3>1
    <3>4. /\ order' \in Seq(Key) /\ IsInjective(order')
          /\ ToSet(order') = ToSet(old) \cup {k}
      BY <3>1, <3>2, <3>3, AppendLists
    <3>5. ToSet(order') = DOMAIN entries
      BY <3>1, <3>2, <3>4
    <3> QED
      BY <3>2, <3>4, <3>5 DEF OrderLists
  <2>4. Bytes(DOMAIN entries)' = Bytes(DOMAIN entries)
    BY <2>1 DEF Bytes
  <2> QED
    BY <2>1, <2>3, <2>4 DEF LruInv, SizesCounted
<1>7. ASSUME NEW k \in Key, StartRead(k) PROVE LruInv'
  BY <1>7, LruSame DEF StartRead
<1>8. CASE ReadFails
  BY <1>8, LruSame DEF ReadFails, Returns, LruInv, SizesCounted
<1>9. CASE ReadDisk
  <2>1. /\ UNCHANGED cached /\ pc = "read" /\ disk[FileOf(key)] # Absent
        /\ content' = Snippet(disk[FileOf(key)], key[2])
    BY <1>9 DEF ReadDisk
  <2>2. key \in Key /\ disk[FileOf(key)] \in Contents /\ key[2] \in {Whole} \cup Int \X Int
    BY <2>1, KeyParts DEF TypeOK
  <2>3. SizeOf(content') \in Nat
    BY <2>1, <2>2, SnippetSize
  <2> QED
    BY <2>1, <2>3, LruSame
<1>10. CASE ReadTooLarge
  BY <1>10, LruSame DEF ReadTooLarge, Returns
<1>11. CASE ReadStores
  BY <1>11, LruStores
<1>12. CASE UNCHANGED vars
  BY <1>12, LruSame DEF vars, cached, reading, LruInv, SizesCounted
<1> QED
  BY <1>1, <1>2, <1>3, <1>4, <1>5, <1>6, <1>7, <1>8, <1>9, <1>10, <1>11, <1>12 DEF Next, Reader

(***************************************************************************)
(* The contents kept fit the limit, the counter never understates them,    *)
(* and every entry is in the order once: what _evict_lru frees covers what *)
(* is stored next, however far the counter has drifted.                    *)
(***************************************************************************)
THEOREM CacheWithinLimit == Spec => []WithinLimit
<1>1. LruInv => WithinLimit
  BY KeysFinite DEF LruInv, OrderLists, SizesCounted, WithinLimit
<1> QED
  BY InitInv, TypeStep, LruInit, LruStep, <1>1, PTL DEF Spec
=============================================================================
