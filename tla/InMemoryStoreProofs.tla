-------------------------- MODULE InMemoryStoreProofs --------------------------
(***************************************************************************)
(* InMemoryStore implements RelationshipStore, for every set of files and  *)
(* relationships and every bound.  What the abstract store answers from    *)
(* the relationships it holds, InMemoryStore answers from its index; so    *)
(* the refinement rests on the index being exact.                          *)
(***************************************************************************)
EXTENDS InMemoryStore, SequenceTheorems, FiniteSetTheorems, TLAPS

\* the indices an index has for f
IndicesOf(index, f) == {Indices(index, f)[p] : p \in DOMAIN Indices(index, f)}

\* lists of indices up to n, ascending, none empty
GoodIndex(index, n) ==
  /\ DOMAIN index \subseteq File
  /\ \A f \in DOMAIN index : index[f] \in Seq(1 .. n) /\ Ascending(index[f]) /\ index[f] # <<>>

(***************************************************************************)
(* The inductive invariant: the index is exact, and what is in the list    *)
(* was accepted, so a file the store rejects is in no relationship.        *)
(***************************************************************************)
IInv ==
  /\ relationships \in Seq(Store!Relationship \cup {None})
  /\ \A i \in Live : Store!Valid(relationships[i])
  /\ GoodIndex(by_file, Len(relationships))
  /\ \A f \in File : IndicesOf(by_file, f) = {i \in Live : Store!Involves(relationships[i], f)}

-----------------------------------------------------------------------------
\* An ascending list loses i, if it is there, and nothing else; it stays ascending.
LEMMA WithoutDrops ==
  ASSUME NEW n \in Nat, NEW s \in Seq(1 .. n), Ascending(s), NEW i
  PROVE  /\ Without(s, i) \in Seq(1 .. n)
         /\ Ascending(Without(s, i))
         /\ {Without(s, i)[p] : p \in DOMAIN Without(s, i)} = {s[p] : p \in DOMAIN s} \ {i}
<1>1. CASE ~ \E p \in DOMAIN s : s[p] = i
  BY <1>1 DEF Without
<1>2. CASE \E p \in DOMAIN s : s[p] = i
  <2> DEFINE first == Position(s, i)
             t     == [k \in 1 .. Len(s) - 1 |-> IF k < first THEN s[k] ELSE s[k + 1]]
  <2>1. /\ Len(s) \in Nat /\ DOMAIN s = 1 .. Len(s)
        /\ \A p \in 1 .. Len(s) : s[p] \in 1 .. n
    OBVIOUS
  <2>2. \A p, q \in 1 .. Len(s) : p < q => s[p] < s[q]
    BY <2>1 DEF Ascending
  <2>3. \E p \in DOMAIN s : s[p] = i /\ \A q \in 1 .. p - 1 : s[q] # i
    <3>1. PICK p \in DOMAIN s : s[p] = i
      BY <1>2
    <3>2. \A q \in 1 .. p - 1 : s[q] # i
      BY <2>1, <2>2, <3>1
    <3> QED
      BY <3>1, <3>2
  <2>4. first \in 1 .. Len(s) /\ s[first] = i
    BY <2>1, <2>3 DEF Position
  <2>5. Without(s, i) = t
    BY <1>2 DEF Without
  <2> HIDE DEF first
  <2>6. Len(s) - 1 \in Nat /\ DOMAIN t = 1 .. Len(s) - 1
    BY <2>1, <2>4
  <2>7. \A k \in 1 .. Len(s) - 1 : t[k] = IF k < first THEN s[k] ELSE s[k + 1]
    OBVIOUS
  <2>8. \A k \in 1 .. Len(s) - 1 : t[k] \in 1 .. n
    BY <2>1, <2>4, <2>7
  <2> HIDE DEF t
  <2>9. t \in Seq(1 .. n)
    <3>1. t = [k \in 1 .. Len(s) - 1 |-> t[k]]
      BY DEF t
    <3> QED
      BY <2>6, <2>8, <3>1, IsASeq
  <2>10. Ascending(t)
    <3> SUFFICES ASSUME NEW p \in 1 .. Len(s) - 1, NEW q \in 1 .. Len(s) - 1, p < q
                 PROVE  t[p] < t[q]
      BY <2>6 DEF Ascending
    <3> QED
      BY SMTT(30), <2>1, <2>2, <2>4, <2>7
  <2>11. \A k \in DOMAIN t : \E p \in DOMAIN s : t[k] = s[p] /\ s[p] # i
    <3> SUFFICES ASSUME NEW k \in 1 .. Len(s) - 1 PROVE \E p \in DOMAIN s : t[k] = s[p] /\ s[p] # i
      BY <2>6
    <3>1. CASE k < first
      <4>1. k \in DOMAIN s /\ t[k] = s[k] /\ s[k] # i
        BY <2>1, <2>2, <2>4, <2>7, <3>1
      <4> QED
        BY <4>1
    <3>2. CASE ~ k < first
      <4>1. k + 1 \in DOMAIN s /\ t[k] = s[k + 1] /\ s[k + 1] # i
        BY <2>1, <2>2, <2>4, <2>7, <3>2
      <4> QED
        BY <4>1
    <3> QED
      BY <3>1, <3>2
  <2>12. \A p \in DOMAIN s : s[p] # i => \E k \in DOMAIN t : t[k] = s[p]
    <3> SUFFICES ASSUME NEW p \in 1 .. Len(s), s[p] # i PROVE \E k \in DOMAIN t : t[k] = s[p]
      BY <2>1
    <3>1. CASE p < first
      <4>1. p \in DOMAIN t /\ t[p] = s[p]
        BY <2>1, <2>4, <2>6, <2>7, <3>1
      <4> QED
        BY <4>1
    <3>2. CASE ~ p < first
      <4>1. p - 1 \in DOMAIN t /\ t[p - 1] = s[p]
        BY <2>1, <2>4, <2>6, <2>7, <3>2
      <4> QED
        BY <4>1
    <3> QED
      BY <3>1, <3>2
  <2> QED
    BY <2>5, <2>9, <2>10, <2>11, <2>12
<1> QED
  BY <1>1, <1>2

\* Removing an index from a file's list leaves the other lists alone.
LEMMA RemoveFromIndexExact ==
  ASSUME NEW index, NEW n \in Nat, GoodIndex(index, n), NEW f \in File, NEW i
  PROVE  /\ GoodIndex(RemoveFromIndex(index, f, i), n)
         /\ \A g \in File : IndicesOf(RemoveFromIndex(index, f, i), g) =
                              IF g = f THEN IndicesOf(index, g) \ {i} ELSE IndicesOf(index, g)
<1> DEFINE after == RemoveFromIndex(index, f, i)
           rest  == Without(index[f], i)
<1>1. CASE f \notin DOMAIN index
  <2>1. after = index /\ IndicesOf(index, f) = {}
    BY <1>1 DEF RemoveFromIndex, IndicesOf, Indices
  <2> QED
    BY <2>1
<1>2. CASE f \in DOMAIN index
  <2>1. index[f] \in Seq(1 .. n) /\ Ascending(index[f])
    BY <1>2 DEF GoodIndex
  <2>2. /\ rest \in Seq(1 .. n)
        /\ Ascending(rest)
        /\ {rest[p] : p \in DOMAIN rest} = {index[f][p] : p \in DOMAIN index[f]} \ {i}
    BY <2>1, WithoutDrops
  <2> HIDE DEF rest
  <2>3. CASE rest = <<>>
    <3>1. after = [k \in DOMAIN index \ {f} |-> index[k]]
      BY <1>2, <2>3 DEF RemoveFromIndex, rest
    <3>2. {rest[p] : p \in DOMAIN rest} = {}
      BY <2>3
    <3>3. GoodIndex(after, n)
      BY <3>1 DEF GoodIndex
    <3>4. IndicesOf(after, f) = {} /\ IndicesOf(index, f) \ {i} = {}
      BY SMTT(30), <1>2, <2>2, <3>1, <3>2 DEF IndicesOf, Indices
    <3>5. \A g \in File \ {f} : IndicesOf(after, g) = IndicesOf(index, g)
      BY <3>1 DEF IndicesOf, Indices
    <3> QED
      BY <3>3, <3>4, <3>5
  <2>4. CASE rest # <<>>
    <3>1. after = [k \in DOMAIN index \cup {f} |-> IF k = f THEN rest ELSE index[k]]
      BY <1>2, <2>4 DEF RemoveFromIndex, Put, rest
    <3>2. GoodIndex(after, n)
      BY <2>2, <2>4, <3>1 DEF GoodIndex
    <3>3. IndicesOf(after, f) = IndicesOf(index, f) \ {i}
      <4>1. Indices(after, f) = rest /\ Indices(index, f) = index[f]
        BY <1>2, <3>1 DEF Indices
      <4> QED
        BY <2>2, <4>1 DEF IndicesOf
    <3>4. \A g \in File \ {f} : IndicesOf(after, g) = IndicesOf(index, g)
      BY <3>1 DEF IndicesOf, Indices
    <3> QED
      BY <3>2, <3>3, <3>4
  <2> QED
    BY <2>3, <2>4
<1> QED
  BY <1>1, <1>2

\* Noting an index greater than all before it for a file that has not noted it.
LEMMA AppendIndexExact ==
  ASSUME NEW index, NEW n \in Nat, NEW f \in File, GoodIndex(index, n + 1),
         f \in DOMAIN index => index[f] \in Seq(1 .. n)
  PROVE  /\ GoodIndex(AppendIndex(index, f, n + 1), n + 1)
         /\ \A g \in File : IndicesOf(AppendIndex(index, f, n + 1), g) =
                              IF g = f THEN IndicesOf(index, g) \cup {n + 1} ELSE IndicesOf(index, g)
         /\ \A g \in DOMAIN index \ {f} : AppendIndex(index, f, n + 1)[g] = index[g]
         /\ DOMAIN AppendIndex(index, f, n + 1) = DOMAIN index \cup {f}
<1> DEFINE after == AppendIndex(index, f, n + 1)
           old   == Indices(index, f)
           new   == Append(old, n + 1)
<1>1. old \in Seq(1 .. n) /\ Ascending(old)
  <2>1. CASE f \in DOMAIN index
    BY <2>1 DEF Indices, GoodIndex
  <2>2. CASE f \notin DOMAIN index
    <3>1. old = <<>>
      BY <2>2 DEF Indices
    <3> QED
      BY <3>1 DEF Ascending
  <2> QED
    BY <2>1, <2>2
<1>2. after = [k \in DOMAIN index \cup {f} |-> IF k = f THEN new ELSE index[k]]
  BY DEF AppendIndex, Put
<1> HIDE DEF old
<1>3. /\ Len(old) \in Nat /\ DOMAIN old = 1 .. Len(old)
      /\ \A p \in 1 .. Len(old) : old[p] \in 1 .. n
      /\ new \in Seq(1 .. n + 1) /\ Len(new) = Len(old) + 1 /\ DOMAIN new = 1 .. Len(old) + 1
      /\ \A p \in 1 .. Len(old) : new[p] = old[p]
      /\ new[Len(old) + 1] = n + 1
  <2>1. old \in Seq(1 .. n + 1) /\ n + 1 \in 1 .. n + 1
    BY <1>1
  <2> QED
    BY <1>1, <2>1, AppendProperties
<1> HIDE DEF new
<1>4. Ascending(new) /\ new # <<>>
  <2>1. new # <<>>
    BY <1>3
  <2>2. ASSUME NEW p \in DOMAIN new, NEW q \in DOMAIN new, p < q PROVE new[p] < new[q]
    <3>1. p \in 1 .. Len(old) /\ new[p] = old[p] /\ old[p] \in 1 .. n
      BY <1>3, <2>2
    <3>2. CASE q \in 1 .. Len(old)
      BY <1>1, <1>3, <2>2, <3>1, <3>2 DEF Ascending
    <3>3. CASE q = Len(old) + 1
      BY <1>3, <3>1, <3>3
    <3> QED
      BY <1>3, <3>2, <3>3
  <2> QED
    BY <2>1, <2>2 DEF Ascending
<1>5. {new[p] : p \in DOMAIN new} = {old[p] : p \in DOMAIN old} \cup {n + 1}
  BY SMTT(30), <1>3
<1>6. GoodIndex(after, n + 1)
  BY <1>2, <1>3, <1>4 DEF GoodIndex
<1>7. IndicesOf(after, f) = IndicesOf(index, f) \cup {n + 1}
  <2>1. Indices(after, f) = new
    BY <1>2 DEF Indices
  <2> QED
    BY <1>5, <2>1 DEF IndicesOf, old
<1>8. \A g \in File \ {f} : IndicesOf(after, g) = IndicesOf(index, g)
  BY <1>2 DEF IndicesOf, Indices
<1> QED
  BY <1>2, <1>6, <1>7, <1>8

-----------------------------------------------------------------------------
\* An empty store is exact.
LEMMA InitIInv == Init => IInv
BY DEF Init, IInv, Live, GoodIndex, IndicesOf, Indices

\* An accepted relationship is appended to the list and noted for its files.
LEMMA AddIInv ==
  ASSUME IInv, NEW r \in Store!Relationship, Add(r)
  PROVE  /\ IInv'
         /\ Live' = Live \cup {Len(relationships) + 1}
         /\ Len(relationships) + 1 \in 1 .. MaxAdds \ Live
         /\ relationships'[Len(relationships) + 1] = r
         /\ \A i \in Live : relationships'[i] = relationships[i]
<1> DEFINE n == Len(relationships)
<1>1. /\ n \in Nat /\ n < MaxAdds /\ DOMAIN relationships = 1 .. n
      /\ r # None /\ Store!Valid(r) /\ r.src \in File /\ r.tgt \in File
      /\ relationships' = Append(relationships, r)
      /\ by_file' = Indexed(by_file, r, n + 1)
  BY GapAssumption DEF IInv, Add, Store!Valid
<1>2. /\ relationships' \in Seq(Store!Relationship \cup {None})
      /\ Len(relationships') = n + 1 /\ DOMAIN relationships' = 1 .. n + 1
      /\ relationships'[n + 1] = r
      /\ \A i \in 1 .. n : relationships'[i] = relationships[i]
  BY <1>1, AppendProperties DEF IInv
<1>3. Live' = Live \cup {n + 1} /\ n + 1 \notin Live /\ \A i \in Live : relationships'[i] = relationships[i]
  BY <1>1, <1>2 DEF Live
<1>4. n + 1 \in 1 .. MaxAdds
  BY <1>1, BoundAssumption
<1> HIDE DEF n
<1>5. GoodIndex(by_file, n + 1) /\ \A f \in DOMAIN by_file : by_file[f] \in Seq(1 .. n)
  <2>1. \A f \in DOMAIN by_file : by_file[f] \in Seq(1 .. n)
    BY DEF IInv, GoodIndex, n
  <2>2. Seq(1 .. n) \subseteq Seq(1 .. n + 1)
    BY <1>1, SeqMonotonic
  <2> QED
    BY <2>1, <2>2 DEF IInv, GoodIndex
<1>0. PICK src \in File, tgt \in File : src = r.src /\ tgt = r.tgt
  BY <1>1
<1> DEFINE source == AppendIndex(by_file, src, n + 1)
<1>6. /\ GoodIndex(source, n + 1)
      /\ \A g \in File : IndicesOf(source, g) =
                           IF g = src THEN IndicesOf(by_file, g) \cup {n + 1} ELSE IndicesOf(by_file, g)
      /\ \A g \in DOMAIN by_file \ {src} : source[g] = by_file[g]
      /\ DOMAIN source = DOMAIN by_file \cup {src}
  <2>1. src \in DOMAIN by_file => by_file[src] \in Seq(1 .. n)
    BY <1>5
  <2>2. n \in Nat /\ GoodIndex(by_file, n + 1)
    BY <1>1, <1>5
  <2> HIDE DEF source
  <2> QED
    BY <2>1, <2>2, AppendIndexExact DEF source
<1> HIDE DEF source
<1>7. /\ GoodIndex(by_file', n + 1)
      /\ \A g \in File : IndicesOf(by_file', g) =
                           IF g \in {src, tgt} THEN IndicesOf(by_file, g) \cup {n + 1} ELSE IndicesOf(by_file, g)
  <2>1. CASE src = tgt
    <3>1. by_file' = source
      BY <1>0, <1>1, <2>1 DEF Indexed, source
    <3> QED
      BY <1>6, <2>1, <3>1
  <2>2. CASE src # tgt
    <3>1. by_file' = AppendIndex(source, tgt, n + 1)
      BY <1>0, <1>1, <2>2 DEF Indexed, source
    <3>2. tgt \in DOMAIN source => source[tgt] \in Seq(1 .. n)
      BY <1>5, <1>6, <2>2
    <3>3. /\ GoodIndex(by_file', n + 1)
          /\ \A g \in File : IndicesOf(by_file', g) =
                               IF g = tgt THEN IndicesOf(source, g) \cup {n + 1} ELSE IndicesOf(source, g)
      <4>1. n \in Nat /\ GoodIndex(source, n + 1)
        BY <1>1, <1>6
      <4>2. /\ GoodIndex(AppendIndex(source, tgt, n + 1), n + 1)
            /\ \A g \in File : IndicesOf(AppendIndex(source, tgt, n + 1), g) =
                                 IF g = tgt THEN IndicesOf(source, g) \cup {n + 1} ELSE IndicesOf(source, g)
        BY <3>2, <4>1, AppendIndexExact
      <4> QED
        BY <3>1, <4>2
    <3> QED
      BY <1>6, <3>3
  <2> QED
    BY <2>1, <2>2
<1>8. \A g \in File : IndicesOf(by_file', g) = {i \in Live' : Store!Involves(relationships'[i], g)}
  <2> SUFFICES ASSUME NEW g \in File
               PROVE  IndicesOf(by_file', g) = {i \in Live' : Store!Involves(relationships'[i], g)}
    OBVIOUS
  <2>1. IndicesOf(by_file, g) = {i \in Live : Store!Involves(relationships[i], g)}
    BY DEF IInv
  <2>2. Store!Involves(relationships'[n + 1], g) <=> g \in {src, tgt}
    BY <1>0, <1>2 DEF Store!Involves
  <2>3. \A i \in Live : Store!Involves(relationships'[i], g) <=> Store!Involves(relationships[i], g)
    BY <1>3 DEF Store!Involves
  <2> QED
    BY <1>3, <1>7, <2>1, <2>2, <2>3
<1>9. \A i \in Live' : Store!Valid(relationships'[i])
  BY <1>1, <1>2, <1>3 DEF IInv, Store!Valid
<1> QED
  BY <1>2, <1>3, <1>4, <1>7, <1>8, <1>9 DEF IInv, n

\* The first match makes room for a gap and leaves the lists of its files.
LEMMA RemoveIInv ==
  ASSUME IInv, NEW q \in Store!Relationship, NEW i \in Matching(q), Store!Valid(q),
         relationships' = [relationships EXCEPT ![i] = None],
         by_file' = Unindexed(by_file, q, i)
  PROVE  /\ IInv'
         /\ Live' = Live \ {i}
         /\ \A j \in Live' : relationships'[j] = relationships[j]
<1> DEFINE n == Len(relationships)
<1>1. /\ n \in Nat /\ DOMAIN relationships = 1 .. n /\ i \in Live /\ Live \subseteq 1 .. n
      /\ q.src \in File /\ q.tgt \in File
      /\ relationships[i].src = q.src /\ relationships[i].tgt = q.tgt
  BY DEF IInv, Live, Matching, Store!Matches, Store!Valid
<1>2. /\ relationships' \in Seq(Store!Relationship \cup {None})
      /\ Len(relationships') = n /\ DOMAIN relationships' = 1 .. n
      /\ relationships'[i] = None
      /\ \A j \in 1 .. n : j # i => relationships'[j] = relationships[j]
  BY <1>1, ExceptSeq DEF IInv
<1>3. Live' = Live \ {i} /\ \A j \in Live' : relationships'[j] = relationships[j]
  BY <1>1, <1>2 DEF Live
<1>0. PICK src \in File, tgt \in File : src = q.src /\ tgt = q.tgt
  BY <1>1
<1> DEFINE source == RemoveFromIndex(by_file, src, i)
<1>4. /\ GoodIndex(source, n)
      /\ \A g \in File : IndicesOf(source, g) =
                           IF g = src THEN IndicesOf(by_file, g) \ {i} ELSE IndicesOf(by_file, g)
  <2>1. n \in Nat /\ GoodIndex(by_file, n)
    BY <1>1 DEF IInv
  <2> QED
    BY <2>1, RemoveFromIndexExact
<1> HIDE DEF n, source
<1>5. /\ GoodIndex(by_file', n)
      /\ \A g \in File : IndicesOf(by_file', g) =
                           IF g \in {src, tgt} THEN IndicesOf(by_file, g) \ {i} ELSE IndicesOf(by_file, g)
  <2>1. CASE src = tgt
    <3>1. by_file' = source
      BY <1>0, <2>1 DEF Unindexed, source
    <3> QED
      BY <1>4, <2>1, <3>1
  <2>2. CASE src # tgt
    <3>1. by_file' = RemoveFromIndex(source, tgt, i)
      BY <1>0, <2>2 DEF Unindexed, source
    <3>2. /\ GoodIndex(by_file', n)
          /\ \A g \in File : IndicesOf(by_file', g) =
                               IF g = tgt THEN IndicesOf(source, g) \ {i} ELSE IndicesOf(source, g)
      <4>1. n \in Nat /\ GoodIndex(source, n)
        BY <1>1, <1>4
      <4> QED
        BY <3>1, <4>1, RemoveFromIndexExact
    <3> QED
      BY <1>4, <3>2
  <2> QED
    BY <2>1, <2>2
<1>6. \A g \in File : IndicesOf(by_file', g) = {j \in Live' : Store!Involves(relationships'[j], g)}
  <2> SUFFICES ASSUME NEW g \in File
               PROVE  IndicesOf(by_file', g) = {j \in Live' : Store!Involves(relationships'[j], g)}
    OBVIOUS
  <2>1. IndicesOf(by_file, g) = {j \in Live : Store!Involves(relationships[j], g)}
    BY DEF IInv
  <2>2. Store!Involves(relationships[i], g) <=> g \in {src, tgt}
    BY <1>0, <1>1 DEF Store!Involves
  <2>3. \A j \in Live' : Store!Involves(relationships'[j], g) <=> Store!Involves(relationships[j], g)
    BY <1>3 DEF Store!Involves
  <2> QED
    BY <1>3, <1>5, <2>1, <2>2, <2>3
<1>7. \A j \in Live' : Store!Valid(relationships'[j])
  BY <1>3 DEF IInv, Store!Valid
<1> QED
  BY <1>2, <1>3, <1>5, <1>6, <1>7 DEF IInv, n

-----------------------------------------------------------------------------
\* What the index leads to is what the store holds of a file, rejected files included.
LEMMA FoundIsHeld ==
  ASSUME IInv, NEW f \in File \cup Malformed
  PROVE  Found(Indices(by_file, f)) =
           {e \in {<<i, relationships[i]>> : i \in Live} : Store!Involves(e[2], f)}
<1> DEFINE s == Indices(by_file, f)
<1>1. Found(s) = {<<j, relationships[j]>> : j \in IndicesOf(by_file, f) \cap Live}
  BY DEF Found, IndicesOf
<1>2. IndicesOf(by_file, f) \cap Live = {i \in Live : Store!Involves(relationships[i], f)}
  <2>1. CASE f \in File
    BY <2>1 DEF IInv
  <2>2. CASE f \notin File
    <3>1. IndicesOf(by_file, f) = {}
      BY <2>2 DEF IInv, GoodIndex, IndicesOf, Indices
    <3>2. \A i \in Live : ~ Store!Involves(relationships[i], f)
      BY <2>2 DEF IInv, Store!Valid, Store!Involves
    <3> QED
      BY <3>1, <3>2
  <2> QED
    BY <2>1, <2>2
<1> QED
  BY <1>1, <1>2

\* Every call keeps the index exact, and is the call of the abstract store.
LEMMA NextImplements ==
  IInv /\ [Next]_vars => IInv' /\ [Store!Next]_(Store!storeVars)
<1> SUFFICES ASSUME IInv, [Next]_vars PROVE IInv' /\ [Store!Next]_(Store!storeVars)
  OBVIOUS
<1>1. ASSUME UNCHANGED <<relationships, by_file>> PROVE IInv' /\ UNCHANGED {<<i, relationships[i]>> : i \in Live}
  BY <1>1 DEF IInv, Live, GoodIndex, IndicesOf, Indices
<1>2. ASSUME NEW r \in Store!Relationship, NEW m \in {"add", "remove"}, Reject(m, r)
      PROVE  IInv' /\ Store!Next
  BY <1>1, <1>2 DEF Reject, Store!Reject, Store!Next
<1>3. ASSUME NEW r \in Store!Relationship, Add(r) PROVE IInv' /\ Store!Next
  <2>1. IInv' /\ Store!Add(r)
    <3> DEFINE t == Len(relationships) + 1
               held == {<<i, relationships[i]>> : i \in Live}
    <3>1. /\ IInv' /\ Live' = Live \cup {t} /\ t \in 1 .. MaxAdds \ Live /\ relationships'[t] = r
          /\ \A i \in Live : relationships'[i] = relationships[i]
      BY <1>3, AddIInv
    <3> HIDE DEF t
    <3>2. t \in 1 .. MaxAdds \ {e[1] : e \in held}
      BY <3>1
    <3>3. {<<i, relationships'[i]>> : i \in Live'} = held \cup {<<t, r>>}
      BY <3>1
    <3> QED
      BY <1>3, <3>1, <3>2, <3>3 DEF Add, Store!Add
  <2> QED
    BY <2>1 DEF Store!Next
<1>4. ASSUME NEW q \in Store!Relationship, Remove(q) PROVE IInv' /\ Store!Next
  <2>1. CASE Matching(q) = {} /\ UNCHANGED <<relationships, by_file>>
    <3>1. \A e \in {<<i, relationships[i]>> : i \in Live} : ~ Store!Matches(e[2], q)
      BY <2>1 DEF Matching
    <3>2. Store!Remove(q)
      BY <1>1, <1>4, <2>1, <3>1 DEF Remove, Store!Remove
    <3> QED
      BY <1>1, <2>1, <3>2 DEF Store!Next
  <2>2. ASSUME NEW i \in Matching(q),
               relationships' = [relationships EXCEPT ![i] = None],
               by_file' = Unindexed(by_file, q, i)
        PROVE  IInv' /\ Store!Next
    <3> DEFINE held == {<<j, relationships[j]>> : j \in Live}
    <3>1. Store!Valid(q) /\ reply' = Store!Done(<<"remove", q>>)
      BY <1>4 DEF Remove
    <3>2. IInv' /\ Live' = Live \ {i} /\ \A j \in Live' : relationships'[j] = relationships[j]
      BY <2>2, <3>1, RemoveIInv
    <3>3. <<i, relationships[i]>> \in held /\ Store!Matches(relationships[i], q)
      BY DEF Matching
    <3>4. {<<j, relationships'[j]>> : j \in Live'} = held \ {<<i, relationships[i]>>}
      BY <3>2
    <3>5. Store!Remove(q)
      BY <3>1, <3>3, <3>4 DEF Store!Remove
    <3> QED
      BY <3>2, <3>5 DEF Store!Next
  <2> QED
    BY <1>4, <2>1, <2>2 DEF Remove
<1>5. ASSUME NEW f \in File \cup Malformed, Get(f) PROVE IInv' /\ Store!Next
  <2>1. Store!Get(f)
    BY <1>1, <1>5, FoundIsHeld DEF Get, Store!Get
  <2> QED
    BY <1>1, <1>5, <2>1 DEF Get, Store!Next
<1>6. CASE GetAll
  <2>1. Store!GetAll
    BY <1>1, <1>6 DEF GetAll, Store!GetAll
  <2> QED
    BY <1>1, <1>6, <2>1 DEF GetAll, Store!Next
<1>7. CASE Clear
  <2>1. IInv'
    BY <1>7 DEF Clear, IInv, Live, GoodIndex, IndicesOf, Indices
  <2>2. Live' = {}
    BY <1>7 DEF Clear, Live
  <2>3. Store!Clear
    BY <1>7, <2>2 DEF Clear, Store!Clear
  <2> QED
    BY <2>1, <2>3 DEF Store!Next
<1>8. CASE UNCHANGED vars
  BY <1>1, <1>8 DEF vars, Store!storeVars
<1> QED
  BY <1>2, <1>3, <1>4, <1>5, <1>6, <1>7, <1>8 DEF Next

-----------------------------------------------------------------------------
\* The list holds relationships and gaps, and every index list indices of it.
THEOREM StoreTypeCorrect == Spec => []TypeOK
<1>1. IInv => TypeOK
  BY DEF IInv, GoodIndex, TypeOK
<1> QED
  BY InitIInv, NextImplements, <1>1, PTL DEF Spec

(***************************************************************************)
(* The index of a file lists, in order, exactly what is left of its        *)
(* relationships: get_relationships misses nothing and meets no gap.       *)
(***************************************************************************)
THEOREM StoreIndexExact == Spec => []IndexExact
<1>1. IInv => IndexExact
  BY DEF IInv, IndexExact, GoodIndex, IndicesOf, Listing
<1> QED
  BY InitIInv, NextImplements, <1>1, PTL DEF Spec

(***************************************************************************)
(* InMemoryStore, with its gaps and its index, is a RelationshipStore: a   *)
(* caller cannot tell them apart by what its calls return.                 *)
(***************************************************************************)
THEOREM StoreImplemented == Spec => ImplementsStore
<1>1. Init => Store!Init
  BY DEF Init, Store!Init, Live
<1> QED
  BY InitIInv, NextImplements, <1>1, PTL DEF Spec, ImplementsStore, Store!Spec

-----------------------------------------------------------------------------
\* An ascending list has as many entries as there are values in it.
LEMMA AscendingLength ==
  ASSUME NEW n \in Nat, NEW s \in Seq(1 .. n), Ascending(s)
  PROVE  Cardinality({s[p] : p \in DOMAIN s}) = Len(s)
<1> DEFINE values == {s[p] : p \in DOMAIN s}
           at == [p \in 1 .. Len(s) |-> s[p]]
<1>1. Len(s) \in Nat /\ DOMAIN s = 1 .. Len(s) /\ \A p \in 1 .. Len(s) : s[p] \in Int
  OBVIOUS
<1>2. at \in Surjection(1 .. Len(s), values)
  BY <1>1 DEF Surjection
<1>3. \A p, q \in 1 .. Len(s) : s[p] = s[q] => p = q
  <2> SUFFICES ASSUME NEW p \in 1 .. Len(s), NEW q \in 1 .. Len(s), p < q PROVE s[p] # s[q]
    BY <1>1
  <2>1. s[p] < s[q]
    BY <1>1 DEF Ascending
  <2> QED
    BY <1>1, <2>1
<1>4. at \in Injection(1 .. Len(s), values)
  BY <1>2, <1>3 DEF Injection, Surjection, IsInjective
<1> HIDE DEF at, values
<1>5. IsFiniteSet(1 .. Len(s)) /\ Cardinality(1 .. Len(s)) = Len(s)
  <2>1. PICK m \in Nat : m = Len(s)
    BY <1>1
  <2>2. IsFiniteSet(1 .. m) /\ Cardinality(1 .. m) = IF 1 > m THEN 0 ELSE m - 1 + 1
    BY FS_Interval
  <2> QED
    BY SMTT(30), <2>1, <2>2
<1>6. Cardinality(values) = Len(s)
  BY <1>2, <1>4, <1>5, FS_Surjection
<1> QED
  BY <1>6 DEF values

\* The relationships held are finitely many, and so are those of one file.
LEMMA LiveFinite ==
  ASSUME IInv
  PROVE  IsFiniteSet(Live) /\ \A S \in SUBSET Live : IsFiniteSet(S) /\ Cardinality(S) \in Nat
<1>1. Live \subseteq 1 .. Len(relationships) /\ Len(relationships) \in Nat
  BY DEF IInv, Live
<1>2. IsFiniteSet(1 .. Len(relationships))
  BY <1>1, FS_Interval
<1>3. IsFiniteSet(Live)
  BY <1>1, <1>2, FS_Subset
<1>4. \A S \in SUBSET Live : IsFiniteSet(S)
  BY <1>3, FS_Subset
<1> QED
  BY <1>3, <1>4, FS_CardinalityType

(***************************************************************************)
(* The counts of the index are those of the list.  A file has a key when   *)
(* it has a part in a relationship, and as many indices as relationships   *)
(* start or end in it, those that do both counted once.                    *)
(***************************************************************************)
LEMMA CountsAgree ==
  ASSUME IInv
  PROVE  LET involved == UNION {{relationships[i].src, relationships[i].tgt} : i \in Live}
             from(f) == {i \in Live : relationships[i].src = f}
             both(f) == {i \in Live : relationships[i].src = f /\ relationships[i].tgt = f}
         IN /\ DOMAIN by_file = involved
            /\ \A f \in involved :
                 Len(by_file[f]) = Cardinality(from(f)) + DependencyCounts(f) - Cardinality(both(f))
<1> DEFINE involved == UNION {{relationships[i].src, relationships[i].tgt} : i \in Live}
           from(f) == {i \in Live : relationships[i].src = f}
           to(f)   == {i \in Live : relationships[i].tgt = f}
           both(f) == {i \in Live : relationships[i].src = f /\ relationships[i].tgt = f}
<1>1. \A i \in Live : relationships[i].src \in File /\ relationships[i].tgt \in File
  BY DEF IInv, Store!Valid
<1>2. \A f \in File : IndicesOf(by_file, f) = from(f) \cup to(f)
  BY DEF IInv, Store!Involves
<1>3. Len(relationships) \in Nat
  BY DEF IInv
<1>4. ASSUME NEW f \in DOMAIN by_file
      PROVE  /\ f \in File /\ by_file[f] \in Seq(1 .. Len(relationships))
             /\ Ascending(by_file[f]) /\ by_file[f] # <<>>
             /\ IndicesOf(by_file, f) = {by_file[f][p] : p \in DOMAIN by_file[f]}
  BY DEF IInv, GoodIndex, IndicesOf, Indices
<1>5. DOMAIN by_file = involved
  <2>1. ASSUME NEW f \in DOMAIN by_file PROVE f \in involved
    <3>1. by_file[f][1] \in IndicesOf(by_file, f)
      BY <1>3, <1>4
    <3> QED
      BY <1>2, <1>4, <3>1
  <2>2. ASSUME NEW f \in involved PROVE f \in DOMAIN by_file
    <3>1. f \in File /\ from(f) \cup to(f) # {}
      BY <1>1
    <3>2. IndicesOf(by_file, f) # {}
      BY <1>2, <3>1
    <3> QED
      BY <3>2 DEF IndicesOf, Indices
  <2> QED
    BY <2>1, <2>2
<1>6. ASSUME NEW f \in involved
      PROVE  Len(by_file[f]) = Cardinality(from(f)) + DependencyCounts(f) - Cardinality(both(f))
  <2> DEFINE F == from(f)
             T == to(f)
  <2>1. f \in DOMAIN by_file
    BY <1>5
  <2>2. Cardinality(F \cup T) = Len(by_file[f])
    <3> DEFINE s == by_file[f]
    <3>1. s \in Seq(1 .. Len(relationships)) /\ Ascending(s) /\ F \cup T = {s[p] : p \in DOMAIN s}
      BY <1>2, <1>4, <2>1
    <3> HIDE DEF s, F, T
    <3>2. Cardinality({s[p] : p \in DOMAIN s}) = Len(s)
      BY <1>3, <3>1, AscendingLength
    <3> QED
      BY <3>1, <3>2 DEF s
  <2>3. IsFiniteSet(F) /\ IsFiniteSet(T)
    BY LiveFinite
  <2>4. F \cap T = both(f)
    OBVIOUS
  <2>5. Cardinality(T) = DependencyCounts(f)
    BY DEF DependencyCounts
  <2> HIDE DEF F, T, both, involved
  <2>6. Cardinality(F \cup T) = Cardinality(F) + Cardinality(T) - Cardinality(F \cap T)
    BY <2>3, FS_Union
  <2> QED
    BY <2>2, <2>4, <2>5, <2>6 DEF F
<1> QED
  BY <1>5, <1>6

(***************************************************************************)
(* No file that is left out has more dependents than one that is named:    *)
(* what comes before the one left out comes before the other too.          *)
(***************************************************************************)
LEMMA MostConnectedAreMost ==
  ASSUME IInv, NEW f \in MostConnected, NEW g, g \notin MostConnected
  PROVE  DependencyCounts(f) >= DependencyCounts(g)
<1> DEFINE targets == {relationships[i].tgt : i \in Live}
           before(x) == {h \in targets : Before(h, x)}
<1>1. \A x : DependencyCounts(x) \in Nat
  BY LiveFinite DEF DependencyCounts
<1>2. f \in targets /\ Cardinality(before(f)) < Listed
  BY DEF MostConnected
<1>3. CASE g \notin targets
  <2>1. {i \in Live : relationships[i].tgt = g} = {}
    BY <1>3
  <2>2. DependencyCounts(g) = 0
    BY <2>1, FS_EmptySet DEF DependencyCounts
  <2> QED
    BY <1>1, <2>2
<1>4. CASE g \in targets
  <2> SUFFICES ASSUME DependencyCounts(g) > DependencyCounts(f) PROVE FALSE
    BY <1>1
  <2>1. ~ Cardinality(before(g)) < Listed
    BY <1>4 DEF MostConnected
  <2>2. ASSUME NEW h \in before(g) PROVE h \in before(f)
    <3>1. DependencyCounts(h) >= DependencyCounts(g)
      BY <1>1 DEF Before
    <3>2. DependencyCounts(h) > DependencyCounts(f)
      BY <1>1, <3>1
    <3> QED
      BY <3>2 DEF Before
  <2>3. IsFiniteSet(targets)
    <3> DEFINE tgt == [i \in Live |-> relationships[i].tgt]
    <3>1. tgt \in Surjection(Live, targets)
      BY DEF Surjection
    <3> HIDE DEF tgt, targets
    <3> QED
      BY <3>1, LiveFinite, FS_Surjection
  <2> DEFINE G == before(g)
             F == before(f)
  <2>4. F \in SUBSET targets /\ G \in SUBSET F
    BY <2>2
  <2>5. Cardinality(F) < Listed /\ ~ Cardinality(G) < Listed /\ Listed \in Nat
    BY <1>2, <2>1, BoundAssumption
  <2> HIDE DEF F, G, targets
  <2>6. IsFiniteSet(F)
    BY <2>3, <2>4, FS_Subset
  <2>7. IsFiniteSet(G) /\ Cardinality(G) <= Cardinality(F)
    BY <2>4, <2>6, FS_Subset
  <2>8. Cardinality(F) \in Nat /\ Cardinality(G) \in Nat
    BY <2>6, <2>7, FS_CardinalityType
  <2> QED
    BY <2>5, <2>7, <2>8
<1> QED
  BY <1>3, <1>4

(***************************************************************************)
(* After any calls the index is exact and the export, which mixes counts   *)
(* of the index with counts of the list, agrees with itself.               *)
(***************************************************************************)
THEOREM StoreExportAgrees == Spec => []StoreAgrees
<1>1. IInv => IndexExact
  BY DEF IInv, IndexExact, GoodIndex, IndicesOf, Listing
<1>2. IInv => ExportAgrees
  <2> SUFFICES ASSUME IInv PROVE ExportAgrees
    OBVIOUS
  <2> DEFINE involved == UNION {{relationships[i].src, relationships[i].tgt} : i \in Live}
             from(f) == {i \in Live : relationships[i].src = f}
             both(f) == {i \in Live : relationships[i].src = f /\ relationships[i].tgt = f}
  <2>1. /\ DOMAIN by_file = involved
        /\ \A f \in involved :
             Len(by_file[f]) = Cardinality(from(f)) + DependencyCounts(f) - Cardinality(both(f))
    BY CountsAgree
  <2>2. MostConnected \subseteq involved
    BY DEF MostConnected
  <2>3. \A f \in MostConnected, g \in involved \ MostConnected :
          DependencyCounts(f) >= DependencyCounts(g)
    BY MostConnectedAreMost
  <2>4. /\ ExportGraph.total_files = Cardinality(DOMAIN by_file)
        /\ ExportGraph.relationship_count = [f \in DOMAIN by_file |-> Len(by_file[f])]
        /\ ExportGraph.most_connected = MostConnected
    BY DEF ExportGraph
  <2> QED
    BY <2>1, <2>2, <2>3, <2>4 DEF ExportAgrees
<1>3. IInv => StoreAgrees
  BY <1>1, <1>2 DEF StoreAgrees
<1> QED
  BY InitIInv, NextImplements, <1>3, PTL DEF Spec
=============================================================================
