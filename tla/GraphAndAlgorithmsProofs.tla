-------------------- MODULE GraphAndAlgorithmsProofs --------------------
(***************************************************************************)
(* What holds of the parts where nothing runs concurrently: of             *)
(* RelationshipGraph and its report, for every set of files, markers,      *)
(* sites and details, where the lemmas of GraphOpsProofs are put together  *)
(* action by action; and of the pure algorithms that Algorithms runs, for  *)
(* every input (the sort is in StalenessResolverProofs, which needs it).   *)
(***************************************************************************)
EXTENDS GraphReport, Algorithms, GraphOpsProofs, SequenceTheorems

(***************************************************************************)
(* Every reachable graph is well formed and both its indices are exact.    *)
(* The two are proved together: remove_outgoing_relationships repairs the  *)
(* reverse index from the forward one, so neither index is inductive alone.*)
(***************************************************************************)
IInv == TypeOK /\ IndexMirror

\* A new graph is well formed.
LEMMA InitIInv == Init => IInv
BY EmptyGraphGood DEF Init, IInv, TypeOK, IndexMirror, IsDict, EmptyDict

\* Every public method keeps the graph well formed, its indices exact.
LEMMA NextIInv == IInv /\ [Next]_vars => IInv'
<1> SUFFICES ASSUME IInv, [Next]_vars PROVE IInv'
  OBVIOUS
<1> USE DEF IInv, TypeOK, IndexMirror
<1>1. ASSUME NEW r \in Rel, Add(r) PROVE IInv'
  BY <1>1, AddType, AddMirror DEF Add
<1>2. ASSUME NEW f \in File, RemoveForFile(f) PROVE IInv'
  BY <1>2, RemoveForFileType, RemoveForFileMirror DEF RemoveForFile
<1>3. ASSUME NEW f \in File, RemoveOutgoing(f) PROVE IInv'
  BY <1>3, RemoveOutgoingType, RemoveOutgoingMirror DEF RemoveOutgoing
<1>4. CASE Restore
  <2>1. IsDict(EmptyDict, Rel, Nat \ {0})
    BY DEF IsDict, EmptyDict
  <2> QED
    BY <1>4, <2>1, AddAllType, AddAllMirror DEF Restore
<1>5. ASSUME NEW f \in File, NEW s \in Status, SetMetadata(f, s) PROVE IInv'
  <2>1. [status |-> s, pending |-> FALSE] \in Meta
    BY DEF Meta
  <2>2. GraphType(graph')
    BY <1>5, <2>1, MetadataType DEF SetMetadata
  <2>3. /\ graph.relationships = graph'.relationships
        /\ graph.dependencies = graph'.dependencies
        /\ graph.dependents = graph'.dependents
    BY <1>5 DEF SetMetadata, SetFileMetadata, GraphType
  <2> QED
    BY <1>5, <2>2, <2>3, MirrorReadsNoMetadata DEF SetMetadata
<1>6. ASSUME NEW f \in File, NEW flag \in BOOLEAN,
             graph' = SetPending(graph, f, flag), UNCHANGED removed
      PROVE  IInv'
  <2>1. GraphType(graph')
    BY <1>6, PendingType
  <2>2. /\ graph.relationships = graph'.relationships
        /\ graph.dependencies = graph'.dependencies
        /\ graph.dependents = graph'.dependents
    BY <1>6 DEF SetPending, GraphType
  <2> QED
    BY <1>6, <2>1, <2>2, MirrorReadsNoMetadata
<1>7. CASE Clear
  BY <1>7, EmptyGraphGood DEF Clear
<1>8. CASE UNCHANGED vars
  BY <1>8 DEF vars
<1> QED
  BY <1>1, <1>2, <1>3, <1>4, <1>5, <1>6, <1>7, <1>8 DEF Next, MarkPending, ClearPending

\* The attributes of the graph keep their shape under any sequence of calls.
THEOREM TypeCorrect == Spec => []TypeOK
<1>1. IInv => TypeOK
  BY DEF IInv
<1> QED
  BY InitIInv, NextIInv, <1>1, PTL DEF Spec

\* The forward and the reverse index are exact under any sequence of calls.
THEOREM IndicesExact == Spec => []IndexMirror
<1>1. IInv => IndexMirror
  BY DEF IInv
<1> QED
  BY InitIInv, NextIInv, <1>1, PTL DEF Spec

(***************************************************************************)
(* Restoring what remove_outgoing_relationships returned gives every query *)
(* its old answer.                                                         *)
(***************************************************************************)
LEMMA RestoreSameAnswers ==
  ASSUME NEW g, GraphType(g), Mirror(g), NEW f \in File
  PROVE  SameAnswers(g, AddAll(RemoveOutgoingRelationships(g, f), Outgoing(g, f)))
<1> DEFINE k == RemoveOutgoingRelationships(g, f)
           h == AddAll(k, Outgoing(g, f))
<1>1. GraphType(h) /\ Mirror(h)
  BY RemoveOutgoingType, RemoveOutgoingMirror, AddAllType, AddAllMirror
<1>2. h.relationships = g.relationships
  <2>1. \A r \in DOMAIN g.relationships : r \in DOMAIN h.relationships
                                          /\ h.relationships[r] = g.relationships[r]
    BY DEF AddAll, RemoveOutgoingRelationships, Outgoing, Keep, Restrict, Copies,
           GraphType, IsDict
  <2>2. DOMAIN h.relationships = DOMAIN g.relationships
    BY DEF AddAll, RemoveOutgoingRelationships, Outgoing, Keep, Restrict
  <2> QED
    BY <1>1, <2>1, <2>2 DEF GraphType, IsDict
<1>3. \A x \in File, t \in Target : Linked(h, x, t) <=> Linked(g, x, t)
  BY <1>2 DEF Linked
<1>4. ASSUME NEW t \in Target
      PROVE  GetSet(g.dependencies, t) = GetSet(h.dependencies, t)
  <2>1. CASE t \in File
    <3>1. \A u \in Target : u \in GetSet(g.dependencies, t) <=> u \in GetSet(h.dependencies, t)
      BY <1>1, <1>3, <2>1 DEF Mirror, ForwardIndexExact
    <3>2. GetSet(g.dependencies, t) \subseteq Target /\ GetSet(h.dependencies, t) \subseteq Target
      BY <1>1 DEF GraphType, IsDict, GetSet
    <3> QED
      BY <3>1, <3>2
  <2>2. CASE t \notin File
    BY <1>1, <2>2 DEF GraphType, IsDict, GetSet
  <2> QED
    BY <2>1, <2>2
<1>5. ASSUME NEW t \in Target
      PROVE  GetSet(g.dependents, t) = GetSet(h.dependents, t)
  <2>1. \A x \in File : x \in GetSet(g.dependents, t) <=> x \in GetSet(h.dependents, t)
    BY <1>1, <1>3 DEF Mirror, ReverseIndexExact
  <2>2. GetSet(g.dependents, t) \subseteq File /\ GetSet(h.dependents, t) \subseteq File
    BY <1>1 DEF GraphType, IsDict, GetSet
  <2> QED
    BY <2>1, <2>2
<1> QED
  BY <1>2, <1>4, <1>5 DEF SameAnswers

(***************************************************************************)
(* restore_pending_relationships of what remove_outgoing_relationships     *)
(* returned gives every query its old answer, from every reachable graph.  *)
(***************************************************************************)
THEOREM RestoreIsInverse == Spec => []RestoreUndoesRemove
<1>1. IInv => RestoreUndoesRemove
  BY RestoreSameAnswers DEF IInv, TypeOK, IndexMirror, RestoreUndoesRemove
<1> QED
  BY InitIInv, NextIInv, <1>1, PTL DEF Spec

(***************************************************************************)
(* After remove_relationships_for_file(f) nothing in the graph names f.    *)
(***************************************************************************)
THEOREM RemovalForgetsFile == Spec => RemovalForgets
<1>1. ASSUME NEW f \in File, RemoveForFile(f), IInv PROVE Unknown(graph, f)'
  BY <1>1 DEF RemoveForFile, RemoveRelationshipsForFile, Unknown, Keep, Del, DiscardFromAll,
              Restrict, DependenciesOf, DependentsOf
<1>2. IInv /\ [Next]_vars => [\A f \in File : RemoveForFile(f) => Unknown(graph, f)']_vars
  BY <1>1
<1> QED
  BY InitIInv, NextIInv, <1>2, PTL DEF Spec, RemovalForgets

-----------------------------------------------------------------------------
\* A list of relationships is finite, and so are one put aside and the reverse index.
FiniteInv ==
  /\ IsFiniteSet(DOMAIN graph.relationships) /\ IsFiniteSet(DOMAIN removed)
  /\ IsFiniteSet(DOMAIN graph.dependents)

\* The ends of finitely many relationships are finitely many.
LEMMA FiniteEnds ==
  ASSUME NEW rels, IsFiniteSet(rels)
  PROVE  IsFiniteSet({r.tgt : r \in rels}) /\ IsFiniteSet({r.src : r \in rels})
<1> DEFINE tgt == [r \in rels |-> r.tgt]
           src == [r \in rels |-> r.src]
           tgts == {r.tgt : r \in rels}
           srcs == {r.src : r \in rels}
<1>1. tgt \in Surjection(rels, tgts) /\ src \in Surjection(rels, srcs)
  BY DEF Surjection
<1> HIDE DEF tgt, src, tgts, srcs
<1>2. IsFiniteSet(tgts) /\ IsFiniteSet(srcs)
  BY <1>1, FS_Surjection
<1> QED
  BY <1>2 DEF tgts, srcs

\* No call makes one of them infinite.
LEMMA FiniteStep == IInv /\ FiniteInv /\ [Next]_vars => FiniteInv'
<1> SUFFICES ASSUME IInv, FiniteInv, [Next]_vars PROVE FiniteInv'
  OBVIOUS
<1> DEFINE rels == DOMAIN graph.relationships
           keys == DOMAIN graph.dependents
<1>1. IsFiniteSet(rels) /\ IsFiniteSet(DOMAIN removed) /\ IsFiniteSet(keys)
  BY DEF FiniteInv
<1>2. /\ IsFiniteSet(DOMAIN EmptyDict) /\ DOMAIN EmptyGraph.relationships = DOMAIN EmptyDict
      /\ DOMAIN EmptyGraph.dependents = DOMAIN EmptyDict
  BY FS_EmptySet DEF EmptyDict, EmptyGraph
<1>3. /\ \A S \in SUBSET rels : IsFiniteSet(S)
      /\ \A S \in SUBSET keys : IsFiniteSet(S)
  BY <1>1, FS_Subset
<1>4. ASSUME NEW r \in Rel, Add(r) PROVE FiniteInv'
  <2>1. /\ DOMAIN graph'.relationships = rels \cup {r} /\ removed' = removed
        /\ DOMAIN graph'.dependents = keys \cup {r.tgt}
    BY <1>4 DEF Add, AddRelationship, Put
  <2> HIDE DEF rels, keys
  <2>2. IsFiniteSet(rels \cup {r}) /\ IsFiniteSet(keys \cup {r.tgt})
    BY <1>1, FS_AddElement
  <2> QED
    BY <1>1, <2>1, <2>2 DEF FiniteInv
<1>5. ASSUME NEW f \in File, RemoveForFile(f) PROVE FiniteInv'
  <2>1. DOMAIN graph'.relationships \in SUBSET rels /\ removed' = removed
    BY <1>5, CutFacts DEF RemoveForFile
  <2>2. DOMAIN graph'.dependents \in SUBSET keys
    BY <1>5 DEF RemoveForFile, RemoveRelationshipsForFile, DiscardFromAll, Del, Restrict
  <2> QED
    BY <1>1, <1>3, <2>1, <2>2 DEF FiniteInv
<1>6. ASSUME NEW f \in File, RemoveOutgoing(f) PROVE FiniteInv'
  <2>1. DOMAIN graph'.relationships \in SUBSET rels
    BY <1>6, CutFacts DEF RemoveOutgoing
  <2>2. DOMAIN removed' \in SUBSET rels
    BY <1>6 DEF RemoveOutgoing, Outgoing, Keep, Restrict
  <2>3. DOMAIN graph'.dependents = keys
    BY <1>6 DEF RemoveOutgoing, RemoveOutgoingRelationships
  <2> QED
    BY <1>1, <1>3, <2>1, <2>2, <2>3 DEF FiniteInv
<1>7. CASE Restore
  <2> DEFINE tgts == {r.tgt : r \in DOMAIN removed}
  <2>1. /\ DOMAIN graph'.relationships = rels \cup DOMAIN removed /\ removed' = EmptyDict
        /\ DOMAIN graph'.dependents = keys \cup tgts
    BY <1>7 DEF Restore, AddAll
  <2>2. IsFiniteSet(tgts)
    BY <1>1, FiniteEnds
  <2> HIDE DEF rels, keys, tgts
  <2>3. IsFiniteSet(rels \cup DOMAIN removed) /\ IsFiniteSet(keys \cup tgts)
    BY <1>1, <2>2, FS_Union
  <2> QED
    BY <1>2, <2>1, <2>3 DEF FiniteInv
<1>8. ASSUME NEW f \in File, NEW s \in Status, SetMetadata(f, s) PROVE FiniteInv'
  <2>1. /\ graph'.relationships = graph.relationships /\ removed' = removed
        /\ graph'.dependents = graph.dependents
    BY <1>8 DEF SetMetadata, SetFileMetadata, IInv, TypeOK, GraphType
  <2> QED
    BY <1>1, <2>1 DEF FiniteInv
<1>9. ASSUME NEW f \in File, MarkPending(f) \/ ClearPending(f) PROVE FiniteInv'
  <2>1. /\ graph'.relationships = graph.relationships /\ removed' = removed
        /\ graph'.dependents = graph.dependents
    BY <1>9 DEF MarkPending, ClearPending, SetPending, IInv, TypeOK, GraphType
  <2> QED
    BY <1>1, <2>1 DEF FiniteInv
<1>10. CASE Clear
  BY <1>1, <1>2, <1>10 DEF Clear, FiniteInv
<1>11. CASE UNCHANGED vars
  BY <1>1, <1>11 DEF vars, FiniteInv
<1> QED
  BY <1>4, <1>5, <1>6, <1>7, <1>8, <1>9, <1>10, <1>11 DEF Next

(***************************************************************************)
(* The index names the targets of the relationships and no others, so the  *)
(* traversal of it is that of the relationships.                           *)
(***************************************************************************)
LEMMA TraversalOfExactIndex ==
  ASSUME NEW g, GraphType(g), Mirror(g), IsFiniteSet(DOMAIN g.relationships), NEW f \in File
  PROVE  TransitiveDependencies(g.dependencies, f) = ReachableFrom(g, f) \ {f}
<1> DEFINE index == g.dependencies
           rels  == DOMAIN g.relationships
           U     == UNION {index[k] : k \in DOMAIN index}
           found == {f} \cup TransitiveDependencies(index, f)
           closed(S) == \A r \in rels : r.src \in S => r.tgt \in S
<1>1. rels \subseteq Rel /\ DOMAIN index \subseteq File /\ \A k \in DOMAIN index : index[k] \subseteq Target
  BY DEF GraphType, IsDict
<1>2. \A r \in rels : r.src \in File /\ r.tgt \in Target
  BY <1>1, RelEnds
<1>3. \A r \in rels : r.tgt \in GetSet(index, r.src)
  BY <1>2 DEF Mirror, ForwardIndexExact, Linked
<1>4. \A k, t : t \in GetSet(index, k) => \E r \in rels : r.src = k /\ r.tgt = t
  BY <1>1 DEF Mirror, ForwardIndexExact, Linked, GetSet
<1>5. U \subseteq Target
  BY <1>1
<1>6. IsFiniteSet(U)
  <2>1. U = {r.tgt : r \in rels}
    BY <1>3, <1>4 DEF GetSet
  <2>2. IsFiniteSet({r.tgt : r \in rels})
    BY FiniteEnds
  <2> HIDE DEF U, rels
  <2> QED
    BY <2>1, <2>2
<1>7. /\ f \notin TransitiveDependencies(index, f)
      /\ TransitiveDependencies(index, f) \subseteq U
      /\ \A x \in found : GetSet(index, x) \subseteq found
      /\ \A S : f \in S /\ (\A x \in S : GetSet(index, x) \subseteq S) => found \subseteq S
  <2> HIDE DEF index
  <2> QED
    BY <1>6, TraversalReaches
<1>8. ReachableFrom(g, f) = {t \in Target : \A S \in SUBSET Target : f \in S /\ closed(S) => t \in S}
  BY DEF ReachableFrom
<1> HIDE DEF index, rels, U
<1>9. found \in SUBSET Target /\ f \in found /\ closed(found)
  BY <1>3, <1>5, <1>7 DEF Target
<1>10. ASSUME NEW S \in SUBSET Target, f \in S, closed(S) PROVE found \subseteq S
  BY <1>4, <1>7, <1>10
<1>11. ReachableFrom(g, f) = found
  <2> HIDE DEF found, closed
  <2> QED
    BY <1>8, <1>9, <1>10
<1> QED
  BY <1>7, <1>11 DEF index

(***************************************************************************)
(* get_transitive_dependencies finds what a chain of relationships         *)
(* reaches, from every reachable graph.                                    *)
(***************************************************************************)
THEOREM TraversalCorrect == Spec => []TraversalIsReachability
<1>1. IInv /\ FiniteInv => TraversalIsReachability
  BY TraversalOfExactIndex DEF IInv, TypeOK, IndexMirror, FiniteInv, TraversalIsReachability
<1>2. Init => FiniteInv
  BY FS_EmptySet DEF Init, FiniteInv, EmptyGraph, EmptyDict
<1> QED
  BY <1>1, <1>2, InitIInv, NextIInv, FiniteStep, PTL DEF Spec

-----------------------------------------------------------------------------
\* A relationship that an index lost is one the index does not hold.
LEMMA LostIsFound ==
  ASSUME NEW g, GraphType(g), Mirror(g), NEW r \in DOMAIN g.relationships, NEW h \in LostFrom(g, r)
  PROVE  DetectCorruption(h)
<1>1. r.src \in File /\ r.tgt \in Target
  BY RelEnds DEF GraphType, IsDict
<1>2. r.tgt \in GetSet(g.dependencies, r.src) /\ r.src \in GetSet(g.dependents, r.tgt)
  BY <1>1 DEF Mirror, ForwardIndexExact, ReverseIndexExact, Linked
<1>3. r.src \in DOMAIN g.dependencies /\ r.tgt \in DOMAIN g.dependents
  BY <1>2 DEF GetSet
<1>4. h.relationships = g.relationships
      /\ (r.tgt \notin GetSet(h.dependencies, r.src) \/ r.src \notin GetSet(h.dependents, r.tgt))
  <2>1. CASE h = [g EXCEPT !.dependencies[r.src] = @ \ {r.tgt}]
    BY <1>3, <2>1 DEF GraphType, GetSet
  <2>2. CASE h = [g EXCEPT !.dependents[r.tgt] = @ \ {r.src}]
    BY <1>3, <2>2 DEF GraphType, GetSet
  <2>3. CASE h = [g EXCEPT !.dependencies = Del(@, r.src)]
    <3>1. h.relationships = g.relationships /\ h.dependencies = Del(g.dependencies, r.src)
      BY <2>3 DEF GraphType
    <3> QED
      BY <3>1 DEF Del, Restrict, GetSet
  <2>4. CASE h = [g EXCEPT !.dependents = Del(@, r.tgt)]
    <3>1. h.relationships = g.relationships /\ h.dependents = Del(g.dependents, r.tgt)
      BY <2>4 DEF GraphType
    <3> QED
      BY <3>1 DEF Del, Restrict, GetSet
  <2> QED
    BY <2>1, <2>2, <2>3, <2>4 DEF LostFrom
<1> QED
  BY <1>4 DEF DetectCorruption, Unindexed

\* What the check complains of when both indices are exact.
LEMMA ComplaintsOfExactGraph ==
  ASSUME NEW g, GraphType(g), Mirror(g)
  PROVE  DetectCorruption(g) <=> DuplicateErrors(g) # {} \/ Emptied(g) # {}
<1>1. \A r \in DOMAIN g.relationships : r.src \in File /\ r.tgt \in Target
  BY RelEnds DEF GraphType, IsDict
<1>2. Unindexed(g) = {}
  BY <1>1 DEF Unindexed, Mirror, ForwardIndexExact, ReverseIndexExact, Linked
<1>3. DOMAIN g.dependencies \subseteq File /\ DOMAIN g.dependents \subseteq Target
      /\ (\A f : GetSet(g.dependencies, f) \subseteq Target)
      /\ (\A f : GetSet(g.dependents, f) \subseteq File)
  BY DEF GraphType, IsDict, GetSet
<1>4. \A f, t : t \in GetSet(g.dependencies, f) => Linked(g, f, t)
  <2> SUFFICES ASSUME NEW f, NEW t, t \in GetSet(g.dependencies, f) PROVE Linked(g, f, t)
    OBVIOUS
  <2>1. f \in File /\ t \in Target
    BY <1>3 DEF GetSet
  <2> QED
    BY <2>1 DEF Mirror, ForwardIndexExact
<1>5. \A t, f : f \in GetSet(g.dependents, t) => Linked(g, f, t)
  <2> SUFFICES ASSUME NEW f, NEW t, f \in GetSet(g.dependents, t) PROVE Linked(g, f, t)
    OBVIOUS
  <2>1. f \in File /\ t \in Target
    BY <1>3 DEF GetSet
  <2> QED
    BY <2>1 DEF Mirror, ReverseIndexExact
<1>6. ASSUME NEW f \in DOMAIN g.dependencies \cup DOMAIN g.dependents
      PROVE  f \in Orphans(g) <=> f \in Emptied(g)
  <2> DEFINE linked == \E t \in Target : Linked(g, f, t) \/ Linked(g, t, f)
  <2>1. f \in Target
    BY <1>3 DEF Target
  <2>2. linked <=> DependenciesOf(g, f) \cup DependentsOf(g, f) # {}
    BY <1>1 DEF Linked, DependenciesOf, DependentsOf, Target
  <2>3. ~ linked => GetSet(g.dependencies, f) = {} /\ GetSet(g.dependents, f) = {}
    BY <1>3, <1>4, <1>5 DEF Target
  <2> QED
    BY <2>1, <2>2, <2>3 DEF Orphans, Emptied
<1>7. Orphans(g) # {} <=> Emptied(g) # {}
  BY <1>6 DEF Orphans, Emptied
<1> QED
  BY <1>2, <1>7 DEF DetectCorruption

\* The dependents counted are the files of the relationships; of ten keys none is left out.
LEMMA ReportOfExactGraph ==
  ASSUME NEW g, GraphType(g), Mirror(g), IsFiniteSet(DOMAIN g.relationships),
         IsFiniteSet(DOMAIN g.dependents)
  PROVE  LET report == ExportToDict(g)
             users(t) == {f \in File : Linked(g, f, t)}
         IN /\ \A t \in report.most_connected_files :
                 DependencyCounts(g)[t] = Cardinality(users(t))
            /\ Cardinality(DOMAIN g.dependents) <= 10 =>
                 \A t \in Target : users(t) # {} => t \in report.most_connected_files
<1> DEFINE users(t) == {f \in File : Linked(g, f, t)}
           counts == DependencyCounts(g)
           above(t) == {u \in DOMAIN counts : counts[u] > counts[t]}
           keys == DOMAIN g.dependents
<1>1. DOMAIN counts = keys /\ \A t \in keys : counts[t] = Cardinality(g.dependents[t])
  BY DEF DependencyCounts
<1>2. ExportToDict(g).most_connected_files = {t \in DOMAIN counts : Cardinality(above(t)) < 10}
  BY DEF ExportToDict, MostConnected
<1>3. keys \subseteq Target /\ \A t \in keys : g.dependents[t] \subseteq File
  BY DEF GraphType, IsDict
<1>4. ASSUME NEW t \in keys PROVE g.dependents[t] = users(t)
  BY <1>3, <1>4 DEF Mirror, ReverseIndexExact, GetSet
<1>5. ASSUME NEW t \in Target, users(t) # {} PROVE t \in keys
  BY <1>5 DEF Mirror, ReverseIndexExact, GetSet
<1>6. ASSUME NEW t \in keys, Cardinality(keys) <= 10 PROVE Cardinality(above(t)) < 10
  <2> DEFINE others == keys \ {t}
             more   == above(t)
  <2>1. ~ counts[t] > counts[t]
    <3> DEFINE srcs == {r.src : r \in DOMAIN g.relationships}
    <3>1. g.dependents[t] \in SUBSET srcs
      BY <1>4 DEF Linked
    <3>2. IsFiniteSet(srcs)
      BY FiniteEnds
    <3> HIDE DEF srcs
    <3>3. IsFiniteSet(g.dependents[t])
      BY <3>1, <3>2, FS_Subset
    <3>4. counts[t] \in Nat
      BY <1>1, <3>3, FS_CardinalityType
    <3> HIDE DEF counts
    <3> QED
      BY <3>4
  <2>2. more \in SUBSET others
    BY <1>1, <2>1
  <2> HIDE DEF keys, more, counts, users
  <2>3. IsFiniteSet(keys)
    BY DEF keys
  <2>4. IsFiniteSet(others) /\ Cardinality(others) = Cardinality(keys) - 1
    BY <1>6, <2>3, FS_RemoveElement
  <2> HIDE DEF others
  <2>5. IsFiniteSet(more) /\ Cardinality(more) <= Cardinality(others)
    BY <2>2, <2>4, FS_Subset
  <2>6. Cardinality(keys) \in Nat /\ Cardinality(more) \in Nat
    BY <2>3, <2>5, FS_CardinalityType
  <2>7. Cardinality(more) < 10
    BY <1>6, <2>4, <2>5, <2>6
  <2> QED
    BY <2>7 DEF more
<1> HIDE DEF above, users, counts, keys
<1>7. \A t \in ExportToDict(g).most_connected_files : counts[t] = Cardinality(users(t))
  BY <1>1, <1>2, <1>4
<1>8. ASSUME Cardinality(keys) <= 10, NEW t \in Target, users(t) # {}
      PROVE  t \in ExportToDict(g).most_connected_files
  BY <1>1, <1>2, <1>5, <1>6, <1>8
<1> QED
  BY <1>7, <1>8 DEF users, counts, keys

(***************************************************************************)
(* Of every graph the methods can build, the check for corruption finds    *)
(* what an index lost and complains of nothing but duplicates and emptied  *)
(* keys, and the export counts the files the relationships name.           *)
(***************************************************************************)
THEOREM ReportsCorrect == Spec => []ReportsAreRight
<1>1. IInv /\ FiniteInv => ReportsAreRight
  BY LostIsFound, ComplaintsOfExactGraph, ReportOfExactGraph
     DEF IInv, TypeOK, IndexMirror, FiniteInv, ReportsAreRight
<1>2. Init => FiniteInv
  BY FS_EmptySet DEF Init, FiniteInv, EmptyGraph, EmptyDict
<1> QED
  BY <1>1, <1>2, InitIInv, NextIInv, FiniteStep, PTL DEF Spec

-----------------------------------------------------------------------------
(***************************************************************************)
(* The pure algorithms.  Where an import leads: sequences of names first,  *)
(* then what the search finds and what a file that appears can change.     *)
(***************************************************************************)
LEMMA LeastExists ==
  ASSUME NEW T, T \subseteq Nat, T # {}
  PROVE  \E n \in T : \A m \in T : n <= m
<1> DEFINE less == OpToRel(<, Nat)
<1>1. IsWellFoundedOn(less, Nat)
  BY NatLessThanWellFounded
<1> HIDE DEF less
<1>2. PICK n \in T : \A m \in T : ~ (<<m, n>> \in less)
  BY <1>1, WFMin
<1>3. \A m \in T : ~ (m < n)
  BY <1>2 DEF less, OpToRel
<1> QED
  BY <1>3

EndsIn(q, s, x) == Append(s, x) = q
LEMMA PathFacts ==
  ASSUME NEW S, NEW d \in Seq(S), NEW p \in Seq(S), p # <<>>
  PROVE  /\ Resolution!Front(p) \in Seq(S) /\ Resolution!Last(p) \in S
         /\ d \o Resolution!Front(p) \in Seq(S)
         /\ EndsIn(d \o p, d \o Resolution!Front(p), Resolution!Last(p))
         /\ \A s \in Seq(S), x \in S :
              EndsIn(d \o p, s, x) => s = d \o Resolution!Front(p) /\ x = Resolution!Last(p)
<1> DEFINE f == Resolution!Front(p)
<1>1. /\ Len(p) \in Nat \ {0} /\ Len(d) \in Nat
      /\ f \in Seq(S) /\ Len(f) = Len(p) - 1 /\ \A i \in 1..Len(p) - 1 : f[i] = p[i]
  <2>1. Len(p) \in Nat \ {0} /\ Len(d) \in Nat
    BY EmptySeq
  <2>2. \A i \in 1..Len(p) - 1 : i \in 1..Len(p)
    BY <2>1
  <2>3. SubSeq(p, 1, Len(p) - 1) \in Seq(S)
    BY <2>1, <2>2, ElementOfSeq, SubSeqProperties
  <2>4. /\ Len(SubSeq(p, 1, Len(p) - 1)) = IF 1 <= Len(p) - 1 THEN Len(p) - 1 - 1 + 1 ELSE 0
        /\ \A i \in 1..Len(p) - 1 - 1 + 1 : SubSeq(p, 1, Len(p) - 1)[i] = p[1 + i - 1]
    BY <2>1, <2>2, ElementOfSeq, SubSeqProperties
  <2>5. Len(p) - 1 - 1 + 1 = Len(p) - 1 /\ \A i \in 1..Len(p) - 1 : 1 + i - 1 = i
    BY <2>1
  <2> QED
    BY <2>1, <2>3, <2>4, <2>5 DEF Resolution!Front
<1>2. Resolution!Last(p) = p[Len(p)] /\ Resolution!Last(p) \in S
  BY <1>1, ElementOfSeq DEF Resolution!Last
<1>3. /\ d \o p \in Seq(S) /\ Len(d \o p) = Len(d) + Len(p)
      /\ \A i \in 1..Len(d) + Len(p) : (d \o p)[i] = IF i <= Len(d) THEN d[i] ELSE p[i - Len(d)]
  BY ConcatProperties
<1>4. /\ d \o f \in Seq(S) /\ Len(d \o f) = Len(d) + Len(p) - 1
      /\ \A i \in 1..Len(d) + Len(p) - 1 : (d \o f)[i] = IF i <= Len(d) THEN d[i] ELSE p[i - Len(d)]
  <2>1. /\ d \o f \in Seq(S) /\ Len(d \o f) = Len(d) + Len(f)
        /\ \A i \in 1..Len(d) + Len(f) : (d \o f)[i] = IF i <= Len(d) THEN d[i] ELSE f[i - Len(d)]
    BY <1>1, ConcatProperties
  <2> HIDE DEF f
  <2>2. \A i \in 1..Len(d) + Len(p) - 1 : i > Len(d) => i - Len(d) \in 1..Len(p) - 1
    BY <1>1
  <2> QED
    BY <2>1, <2>2, <1>1
<1> HIDE DEF f
<1>5. EndsIn(d \o p, d \o f, Resolution!Last(p))
  <2> DEFINE q == d \o p   h == d \o f   x == Resolution!Last(p)
  <2>1. /\ Append(h, x) \in Seq(S) /\ Len(Append(h, x)) = Len(h) + 1 /\ Append(h, x)[Len(h) + 1] = x
        /\ \A i \in 1..Len(h) : Append(h, x)[i] = h[i]
    BY <1>2, <1>4, AppendProperties
  <2>2. Len(h) = Len(d) + Len(p) - 1
    BY <1>4
  <2>3. \A i \in 1..Len(q) : i \in 1..Len(h) \/ i = Len(h) + 1
    BY <1>1, <1>3, <2>2
  <2>4. \A i \in 1..Len(h) : h[i] = q[i]
    BY <1>1, <1>3, <1>4
  <2>5. q[Len(h) + 1] = x
    BY <1>1, <1>2, <1>3, <2>2
  <2>6. q \in Seq(S) /\ Len(q) = Len(h) + 1
    BY <1>1, <1>3, <2>2
  <2> HIDE DEF q, h, x
  <2>7. Append(h, x) = q
    BY <2>1, <2>3, <2>4, <2>5, <2>6, SeqEqual
  <2> QED
    BY <2>7 DEF EndsIn, q, h, x
<1>9. ASSUME NEW s \in Seq(S), NEW x \in S, EndsIn(d \o p, s, x)
      PROVE  s = d \o f /\ x = Resolution!Last(p)
  <2>1. /\ Len(Append(s, x)) = Len(s) + 1 /\ Append(s, x)[Len(s) + 1] = x
        /\ \A i \in 1..Len(s) : Append(s, x)[i] = s[i]
    BY AppendProperties, LenProperties
  <2>0. Len(s) \in Nat
    OBVIOUS
  <2>2. Len(s) = Len(d) + Len(p) - 1
    BY <1>9, <2>1, <2>0, <1>1, <1>3 DEF EndsIn
  <2>3. x = p[Len(p)]
    BY <1>9, <2>1, <2>2, <2>0, <1>1, <1>3 DEF EndsIn
  <2>4. \A i \in 1..Len(s) : s[i] = (d \o f)[i]
    BY SMTT(30), <1>9, <2>1, <2>2, <2>0, <1>1, <1>3, <1>4 DEF EndsIn
  <2> QED
    BY <2>2, <2>3, <2>4, <1>2, <1>4, SeqEqual
<1> QED
  BY <1>1, <1>2, <1>4, <1>5, <1>9 DEF f

LEMMA TryFacts ==
  ASSUME NEW w, NEW d, NEW p, NEW t, t = Resolution!TryResolveInDirectory(w, d, p)
  PROVE  /\ \/ t = Resolution!None
            \/ t \in w.files /\ t = Resolution!Module(d, p)
            \/ t \in w.files /\ t = Resolution!Package(d, p) /\ Resolution!Module(d, p) \notin w.files
         /\ t # Resolution!None => Resolution!InnerArePackages(w, d, p)
         /\ t = Resolution!None /\ Resolution!InnerArePackages(w, d, p) =>
              Resolution!Module(d, p) \notin w.files /\ Resolution!Package(d, p) \notin w.files
<1>1. \A x, n : [dir |-> x, name |-> n] # Resolution!None
  BY DEF Resolution!None, Resolution!NotAFile
<1> QED
  BY <1>1 DEF Resolution!TryResolveInDirectory, Resolution!Module, Resolution!Package

LEMMA MarkersAreNoFiles ==
  /\ \A k : ~ Resolution!IsFile(Resolution!NotAFile(k))
  /\ \A d, n : Resolution!IsFile([dir |-> d, name |-> n])
  /\ ~ Resolution!IsFile(Resolution!None) /\ ~ Resolution!IsFile(Resolution!Unresolved)
BY DEF Resolution!IsFile, Resolution!NotAFile, Resolution!None, Resolution!Unresolved

\* The first n names of the path of a module are its directory's, or those and its own first ones.
LEMMA PathBelow ==
  ASSUME NEW S, NEW d \in Seq(S), NEW p \in Seq(S), NEW n \in 1..Len(p)
  PROVE  SubSeq(d \o p, 1, Len(d) + n) = d \o SubSeq(p, 1, n)
<1> DEFINE q == d \o p   h == SubSeq(q, 1, Len(d) + n)   g == SubSeq(p, 1, n)
<1>1. Len(d) \in Nat /\ Len(p) \in Nat /\ n \in Nat /\ n <= Len(p) /\ n >= 1
  OBVIOUS
<1>2. /\ q \in Seq(S) /\ Len(q) = Len(d) + Len(p)
      /\ \A i \in 1..Len(d) + Len(p) : q[i] = IF i <= Len(d) THEN d[i] ELSE p[i - Len(d)]
  BY ConcatProperties
<1>3. g \in Seq(S) /\ Len(g) = n /\ \A i \in 1..n : g[i] = p[i]
  <2>1. \A i \in 1..n : p[i] \in S
    BY <1>1, ElementOfSeq
  <2>2. /\ g \in Seq(S) /\ Len(g) = (IF 1 <= n THEN n - 1 + 1 ELSE 0)
        /\ \A i \in 1..n - 1 + 1 : g[i] = p[1 + i - 1]
    BY <1>1, <2>1, SubSeqProperties
  <2> HIDE DEF g
  <2> QED
    BY <1>1, <2>2
<1> HIDE DEF q
<1>4. h \in Seq(S) /\ Len(h) = Len(d) + n /\ \A i \in 1..Len(d) + n : h[i] = q[i]
  <2> DEFINE last == Len(d) + n
  <2>1. last \in Nat /\ 1 <= last /\ last <= Len(q)
    BY <1>1, <1>2
  <2> HIDE DEF last
  <2>2. \A i \in 1..last : q[i] \in S
    BY <1>2, <2>1, ElementOfSeq
  <2>3. LET r == SubSeq(q, 1, last)
        IN /\ r \in Seq(S) /\ Len(r) = (IF 1 <= last THEN last - 1 + 1 ELSE 0)
           /\ \A i \in 1..last - 1 + 1 : r[i] = q[1 + i - 1]
    BY <2>1, <2>2, SubSeqProperties
  <2> QED
    BY <2>1, <2>3 DEF last
<1> HIDE DEF g, h
<1>5. /\ d \o g \in Seq(S) /\ Len(d \o g) = Len(d) + n
      /\ \A i \in 1..Len(d) + n : (d \o g)[i] = IF i <= Len(d) THEN d[i] ELSE g[i - Len(d)]
  BY <1>3, ConcatProperties
<1>6. \A i \in 1..Len(d) + n : i > Len(d) => i - Len(d) \in 1..n
  BY <1>1
<1>7. ASSUME NEW i \in 1..Len(h) PROVE h[i] = (d \o g)[i]
  <2>1. i \in 1..Len(d) + n /\ i \in 1..Len(d) + Len(p)
    BY <1>1, <1>4
  <2>2. h[i] = IF i <= Len(d) THEN d[i] ELSE p[i - Len(d)]
    BY <1>2, <1>4, <2>1
  <2>3. (d \o g)[i] = IF i <= Len(d) THEN d[i] ELSE g[i - Len(d)]
    BY <1>5, <2>1
  <2>4. ~ (i <= Len(d)) => p[i - Len(d)] = g[i - Len(d)]
    BY <1>1, <1>3, <1>6, <2>1
  <2> QED
    BY <2>2, <2>3, <2>4
<1>8. h = d \o g
  BY <1>4, <1>5, <1>7, SeqEqual
<1> QED
  BY <1>8 DEF h, g, q

(***************************************************************************)
(* What is called by the parts of a name, below a directory d of k names,  *)
(* is the module or the package that the code tries there.                 *)
(***************************************************************************)
Below(w, d, k, p, f) ==
  /\ Resolution!PackagesBetween(w, d \o p, k)
  /\ Resolution!IsPackageAt(f, d \o p) \/ (p # <<>> /\ Resolution!IsModuleAt(f, d \o p))

LEMMA InnerPackages ==
  ASSUME NEW S, NEW w, NEW d \in Seq(S), NEW p \in Seq(S)
  PROVE  Resolution!InnerArePackages(w, d, p) <=> Resolution!PackagesBetween(w, d \o p, Len(d))
<1> DEFINE k == Len(d)   l == Len(p)
           at(n) == Resolution!IsPackage(w, SubSeq(d \o p, 1, n))
<1>1. k \in Nat /\ l \in Nat /\ Len(d \o p) = k + l
  BY ConcatProperties
<1>2. \A n \in 1..l - 1 : Resolution!IsPackage(w, d \o SubSeq(p, 1, n)) <=> at(k + n)
  <2> SUFFICES ASSUME NEW n \in 1..l - 1 PROVE Resolution!IsPackage(w, d \o SubSeq(p, 1, n)) <=> at(k + n)
    OBVIOUS
  <2>1. n \in 1..Len(p)
    BY <1>1
  <2>2. SubSeq(d \o p, 1, k + n) = d \o SubSeq(p, 1, n)
    BY <2>1, PathBelow
  <2> QED
    BY <2>2
<1>3. Resolution!InnerArePackages(w, d, p) <=> \A n \in 1..l - 1 : at(k + n)
  BY <1>2 DEF Resolution!InnerArePackages
<1>4. Resolution!PackagesBetween(w, d \o p, k) <=> \A n \in k + 1..k + l - 1 : at(n)
  BY <1>1 DEF Resolution!PackagesBetween
<1> HIDE DEF k, l, at
<1>5. \A n \in k + 1..k + l - 1 : n - k \in 1..l - 1 /\ k + (n - k) = n
  BY <1>1
<1>6. \A n \in 1..l - 1 : k + n \in k + 1..k + l - 1
  BY <1>1
<1> QED
  BY <1>3, <1>4, <1>5, <1>6 DEF k

LEMMA CalledBelow ==
  ASSUME NEW S, NEW w, NEW d \in Seq(S), NEW p \in Seq(S), NEW f \in [dir : Seq(S), name : S]
  PROVE  /\ p # <<>> => (Below(w, d, Len(d), p, f) <=>
              /\ Resolution!InnerArePackages(w, d, p)
              /\ f = Resolution!Module(d, p) \/ f = Resolution!Package(d, p))
         /\ p # <<>> => (Resolution!IsModuleAt(f, d \o p) <=> f = Resolution!Module(d, p))
         /\ p = <<>> => (Below(w, d, Len(d), p, f) <=> Resolution!IsPackageAt(f, d))
<1>1. f.dir \in Seq(S) /\ f.name \in S /\ f = [dir |-> f.dir, name |-> f.name]
  OBVIOUS
<1>2. \A x : Resolution!IsPackageAt(f, x) <=> f = [dir |-> x, name |-> Resolution!PackageInit]
  BY <1>1 DEF Resolution!IsPackageAt
<1>3. ASSUME p # <<>> PROVE Resolution!IsModuleAt(f, d \o p) <=> f = Resolution!Module(d, p)
  <2>1. Resolution!IsModuleAt(f, d \o p) <=> EndsIn(d \o p, f.dir, f.name)
    BY DEF Resolution!IsModuleAt, EndsIn
  <2>3. /\ EndsIn(d \o p, d \o Resolution!Front(p), Resolution!Last(p))
        /\ \A s \in Seq(S), x \in S :
             EndsIn(d \o p, s, x) => s = d \o Resolution!Front(p) /\ x = Resolution!Last(p)
    BY <1>3, PathFacts
  <2>2. EndsIn(d \o p, f.dir, f.name) <=> f.dir = d \o Resolution!Front(p) /\ f.name = Resolution!Last(p)
    BY <1>1, <2>3
  <2> QED
    BY <1>1, <2>1, <2>2 DEF Resolution!Module
<1>4. p # <<>> => (Below(w, d, Len(d), p, f) <=>
              /\ Resolution!InnerArePackages(w, d, p)
              /\ f = Resolution!Module(d, p) \/ f = Resolution!Package(d, p))
  BY <1>2, <1>3, InnerPackages DEF Below, Resolution!Package
<1>5. ASSUME p = <<>> PROVE Below(w, d, Len(d), p, f) <=> Resolution!IsPackageAt(f, d)
  <2>1. d \o p = d /\ Len(d) \in Nat
    BY <1>5, ConcatEmptySeq
  <2>2. Resolution!PackagesBetween(w, d, Len(d))
    BY <2>1 DEF Resolution!PackagesBetween
  <2> QED
    BY <1>5, <2>1, <2>2 DEF Below
<1> QED
  BY <1>3, <1>4, <1>5

\* so that the code finds none, or the foremost of them
LEMMA TryCalled ==
  ASSUME NEW S, NEW w, w.files \subseteq [dir : Seq(S), name : S], NEW d \in Seq(S), NEW p \in Seq(S), p # <<>>,
         NEW t, t = Resolution!TryResolveInDirectory(w, d, p)
  PROVE  /\ t = Resolution!None => \A f \in w.files : ~ Below(w, d, Len(d), p, f)
         /\ t # Resolution!None =>
              /\ t \in w.files /\ Below(w, d, Len(d), p, t)
              /\ \A g \in w.files : Below(w, d, Len(d), p, g) =>
                                      g = t \/ Resolution!IsModuleAt(t, d \o p)
<1>1. \A f \in w.files : /\ Below(w, d, Len(d), p, f) <=>
                              /\ Resolution!InnerArePackages(w, d, p)
                              /\ f = Resolution!Module(d, p) \/ f = Resolution!Package(d, p)
                         /\ Resolution!IsModuleAt(f, d \o p) <=> f = Resolution!Module(d, p)
  BY CalledBelow
<1> QED
  BY <1>1, TryFacts

LEMMA UpFacts ==
  ASSUME NEW S, NEW dir \in Seq(S), NEW n \in 0..Len(dir)
  PROVE  Resolution!Up(dir, n) \in Seq(S) /\ Len(Resolution!Up(dir, n)) = Len(dir) - n
<1> DEFINE l == Len(dir) - n
<1>1. l \in Nat /\ l <= Len(dir)
  OBVIOUS
<1>2. \A i \in 1..l : dir[i] \in S
  BY <1>1, ElementOfSeq
<1> HIDE DEF l
<1>3. SubSeq(dir, 1, l) \in Seq(S) /\ Len(SubSeq(dir, 1, l)) = IF 1 <= l THEN l - 1 + 1 ELSE 0
  BY <1>1, <1>2, SubSeqProperties
<1>4. Len(SubSeq(dir, 1, l)) = l
  BY <1>1, <1>3
<1> QED
  BY <1>3, <1>4 DEF Resolution!Up, l

\* the places of the search where a module of that name is
Hits(w, dir, p) == {n \in Resolution!Searched(w, dir) :
                     Resolution!TryResolveInDirectory(w, Resolution!Up(dir, n), p) # Resolution!None}
FirstOf(hits) == CHOOSE n \in hits : \A m \in hits : n <= m

LEMMA FirstHit ==
  ASSUME NEW S, NEW dir \in Seq(S), NEW w, NEW p, Hits(w, dir, p) # {}
  PROVE  /\ FirstOf(Hits(w, dir, p)) \in Hits(w, dir, p)
         /\ \A m \in Hits(w, dir, p) : FirstOf(Hits(w, dir, p)) <= m
         /\ Hits(w, dir, p) \subseteq 0..Len(dir)
<1> DEFINE hits == Hits(w, dir, p)
<1>1. Len(dir) \in Nat
  OBVIOUS
<1>2. hits \subseteq 0..Len(dir) /\ hits \subseteq Nat
  BY <1>1 DEF Hits, Resolution!Searched
<1> HIDE DEF hits
<1>3. hits # {}
  BY DEF hits
<1>4. \E n \in hits : \A m \in hits : n <= m
  BY <1>2, <1>3, LeastExists
<1> DEFINE first == FirstOf(hits)
<1>5. first \in hits /\ \A m \in hits : first <= m
  BY <1>4 DEF FirstOf
<1> QED
  BY <1>2, <1>5 DEF hits

\* what _resolve_module answers, by the first hit
LEMMA ResolvedBySearch ==
  ASSUME NEW w, NEW p, NEW dir, p # <<>>, p[1] \notin w.stdlib
  PROVE  Resolution!ResolveModule(w, p, dir) =
           IF Hits(w, dir, p) # {}
           THEN Resolution!TryResolveInDirectory(w, Resolution!Up(dir, FirstOf(Hits(w, dir, p))), p)
           ELSE IF p[1] \in w.installed THEN Resolution!NotAFile("third-party")
           ELSE Resolution!Unresolved
BY DEF Resolution!ResolveModule, Hits, FirstOf

(***************************************************************************)
(* The directories the property looks in are those the code searches: the  *)
(* first k names of dir are the directory that is Len(dir) - k above it.   *)
(***************************************************************************)
LEMMA SearchedAreLooked ==
  ASSUME NEW S, NEW w, NEW dir \in Seq(S), NEW imp, ~ imp.level > 0
  PROVE  /\ Resolution!Looked(w, dir, imp) \subseteq 0..Len(dir)
         /\ \A k \in 0..Len(dir) : k \in Resolution!Looked(w, dir, imp) <=> Len(dir) - k \in Resolution!Searched(w, dir)
<1> DEFINE l == Len(dir)
           package(m) == Resolution!IsPackage(w, SubSeq(dir, 1, m))
<1>1. l \in Nat
  OBVIOUS
<1>2. Resolution!Looked(w, dir, imp) = {l} \cup {k \in 1..l : \A m \in k + 1..l - 1 : package(m)}
  BY DEF Resolution!Looked, Resolution!PackagesBetween
<1>3. Resolution!Searched(w, dir) = {0} \cup {n \in 1..l - 1 : \A m \in 1..n - 1 : package(l - m)}
  BY DEF Resolution!Searched, Resolution!Up
<1> HIDE DEF l, package
<1>4. ASSUME NEW k \in 0..l
      PROVE  k \in {l} \cup {j \in 1..l : \A m \in j + 1..l - 1 : package(m)} <=>
             l - k \in {0} \cup {n \in 1..l - 1 : \A m \in 1..n - 1 : package(l - m)}
  <2>1. \A m \in k + 1..l - 1 : l - m \in 1..l - k - 1 /\ l - (l - m) = m
    BY <1>1
  <2>2. \A m \in 1..l - k - 1 : l - m \in k + 1..l - 1
    BY <1>1
  <2>3. (\A m \in k + 1..l - 1 : package(m)) <=> \A m \in 1..l - k - 1 : package(l - m)
    BY <2>1, <2>2
  <2>4. k \in 1..l /\ k # l <=> l - k \in 1..l - 1
    BY <1>1
  <2>5. k = l <=> l - k = 0
    BY <1>1
  <2> QED
    BY <2>3, <2>4, <2>5
<1> QED
  BY <1>1, <1>2, <1>3, <1>4 DEF l

LEMMA CalledIsBelow ==
  ASSUME NEW w, NEW dir, NEW imp, NEW k, NEW f
  PROVE  /\ Resolution!Wanted(imp) = Resolution!PartsOf(imp)
         /\ Resolution!Called(w, dir, imp, k, f) <=>
              Below(w, SubSeq(dir, 1, k), k, Resolution!PartsOf(imp), f)
<1>1. Resolution!Wanted(imp) = Resolution!PartsOf(imp)
  BY DEF Resolution!Wanted, Resolution!PartsOf
<1> QED
  BY <1>1 DEF Resolution!Called, Below

\* the answer: what the first k names of dir lead to, or nothing, or a name of the library
Answered(w, dir, imp, t) ==
  \/ /\ Resolution!IsFile(t) /\ t \in w.files
     /\ \E k \in Resolution!Looked(w, dir, imp) :
          Resolution!Called(w, dir, imp, k, t) /\ Resolution!Foremost(w, dir, imp, k, t)
  \/ /\ ~ Resolution!IsFile(t)
     /\ \/ Resolution!NameOfLibrary(w, imp)
        \/ \A k \in Resolution!Looked(w, dir, imp), f \in w.files : ~ Resolution!Called(w, dir, imp, k, f)

\* An absolute import: the search stops at the nearest directory where it finds something.
LEMMA AbsoluteAnswered ==
  ASSUME NEW S, NEW w, w.files \subseteq [dir : Seq(S), name : S], NEW dir \in Seq(S),
         NEW imp, imp.level = 0, imp.parts \in Seq(S), imp.parts # <<>>
  PROVE  Answered(w, dir, imp, Resolution!Resolved(w, dir, imp))
<1> DEFINE p == imp.parts
           t == Resolution!Resolved(w, dir, imp)
           l == Len(dir)
           looked == Resolution!Looked(w, dir, imp)
           hits == Hits(w, dir, p)
           first == FirstOf(hits)
           try(n) == Resolution!TryResolveInDirectory(w, Resolution!Up(dir, n), p)
           called(k, f) == Resolution!Called(w, dir, imp, k, f)
           path(k) == SubSeq(dir, 1, k) \o p
<1>1. l \in Nat /\ ~ imp.level > 0 /\ Resolution!PartsOf(imp) = p /\ Resolution!Wanted(imp) = p
  <2>1. Resolution!Wanted(imp) = Resolution!PartsOf(imp)
    BY CalledIsBelow
  <2>2. l \in Nat /\ ~ imp.level > 0
    OBVIOUS
  <2>3. Resolution!PartsOf(imp) = p
    BY <2>2 DEF Resolution!PartsOf
  <2> QED
    BY <2>1, <2>2, <2>3
<1>2. t = Resolution!ResolveModule(w, p, dir)
  BY <1>1 DEF Resolution!Resolved
<1>3. ASSUME p[1] \in w.stdlib PROVE Answered(w, dir, imp, t)
  <2>1. t = Resolution!NotAFile("stdlib")
    BY <1>2, <1>3 DEF Resolution!ResolveModule
  <2> QED
    BY <1>3, <2>1, MarkersAreNoFiles DEF Answered, Resolution!NameOfLibrary
<1>4. looked \subseteq 0..l /\ \A k \in 0..l : k \in looked <=> l - k \in Resolution!Searched(w, dir)
  BY <1>1, SearchedAreLooked
<1>5. ASSUME NEW k \in 0..l
      PROVE  /\ try(l - k) = Resolution!None => \A f \in w.files : ~ called(k, f)
             /\ try(l - k) # Resolution!None =>
                  /\ try(l - k) \in w.files /\ called(k, try(l - k))
                  /\ \A g \in w.files : called(k, g) =>
                       g = try(l - k) \/ Resolution!IsModuleAt(try(l - k), path(k))
  <2> DEFINE d == Resolution!Up(dir, l - k)
  <2>1. l - k \in 0..l /\ l - (l - k) = k
    BY <1>1
  <2>2. d \in Seq(S) /\ Len(d) = k /\ d = SubSeq(dir, 1, k)
    BY <2>1, UpFacts DEF Resolution!Up
  <2>3. \A f : called(k, f) <=> Below(w, d, Len(d), p, f)
    BY <1>1, <2>2, CalledIsBelow
  <2> DEFINE there == try(l - k)   sought == path(k)
  <2>4. there = Resolution!TryResolveInDirectory(w, d, p) /\ sought = d \o p /\ p \in Seq(S) /\ p # <<>>
    BY <2>2
  <2> HIDE DEF d, called, try, path, p, there, sought
  <2>5. /\ there = Resolution!None => \A f \in w.files : ~ Below(w, d, Len(d), p, f)
        /\ there # Resolution!None =>
             /\ there \in w.files /\ Below(w, d, Len(d), p, there)
             /\ \A g \in w.files : Below(w, d, Len(d), p, g) => g = there \/ Resolution!IsModuleAt(there, d \o p)
    BY <2>2, <2>4, TryCalled
  <2>6. /\ there = Resolution!None => \A f \in w.files : ~ called(k, f)
        /\ there # Resolution!None =>
             /\ there \in w.files /\ called(k, there)
             /\ \A g \in w.files : called(k, g) => g = there \/ Resolution!IsModuleAt(there, sought)
    BY <2>3, <2>4, <2>5
  <2> QED
    BY <2>6 DEF there, sought
<1>6. \A n : n \in hits <=> n \in Resolution!Searched(w, dir) /\ try(n) # Resolution!None
  BY DEF Hits
<1>7. hits # {} => first \in hits /\ hits \subseteq 0..l /\ \A m \in hits : first <= m
  BY FirstHit
<1>8. p[1] \notin w.stdlib => /\ hits # {} => t = try(first)
                              /\ hits = {} => ~ Resolution!IsFile(t)
  BY <1>2, ResolvedBySearch, MarkersAreNoFiles
<1>9. \A f \in w.files : Resolution!IsFile(f)
  BY DEF Resolution!IsFile
<1> HIDE DEF l, looked, hits, first, try, called, path, t
<1>10. ASSUME p[1] \notin w.stdlib, hits # {} PROVE Answered(w, dir, imp, t)
  <2> DEFINE k == l - first
  <2>1. first \in 0..l /\ first \in hits /\ k \in 0..l /\ l - k = first
    BY <1>1, <1>7, <1>10
  <2>2. k \in looked /\ t = try(l - k) /\ try(l - k) # Resolution!None
    BY <1>4, <1>6, <1>8, <1>10, <2>1
  <2> HIDE DEF k
  <2>3. /\ t \in w.files /\ called(k, t)
        /\ \A g \in w.files : called(k, g) => g = t \/ Resolution!IsModuleAt(t, path(k))
    BY <1>5, <2>1, <2>2
  <2>4. ASSUME NEW j \in looked, NEW g \in w.files, called(j, g)
        PROVE  j < k \/ (j = k /\ (g = t \/ Resolution!IsModuleAt(t, path(k))))
    <3>1. j \in 0..l /\ l - j \in hits
      BY <1>4, <1>5, <1>6, <2>4
    <3>2. j <= k
      BY <1>1, <1>7, <1>10, <2>1, <3>1
    <3>3. CASE j = k
      BY <2>3, <2>4, <3>3
    <3> QED
      BY <1>1, <2>1, <3>1, <3>2, <3>3
  <2>5. Resolution!Foremost(w, dir, imp, k, t)
    BY <1>1, <2>4 DEF Resolution!Foremost, looked, called, path
  <2> QED
    BY <1>9, <2>2, <2>3, <2>5 DEF Answered, looked, called
<1>11. ASSUME p[1] \notin w.stdlib, hits = {} PROVE Answered(w, dir, imp, t)
  <2>1. ASSUME NEW k \in looked, NEW f \in w.files PROVE ~ called(k, f)
    BY <1>4, <1>5, <1>6, <1>11
  <2>2. ~ Resolution!IsFile(t)
    BY <1>8, <1>11
  <2> QED
    BY <2>1, <2>2 DEF Answered, looked, called
<1> QED
  BY <1>3, <1>10, <1>11 DEF t

\* A relative import: there is one directory, or none.
LEMMA RelativeAnswered ==
  ASSUME NEW S, NEW w, w.files \subseteq [dir : Seq(S), name : S], NEW dir \in Seq(S),
         NEW imp, imp.level \in Nat, imp.level > 0, imp.parts \in Seq(S), imp.name \in S
  PROVE  Answered(w, dir, imp, Resolution!Resolved(w, dir, imp))
<1> DEFINE p == Resolution!PartsOf(imp)
           t == Resolution!Resolved(w, dir, imp)
           l == Len(dir)
           k == l - imp.level + 1
           d == Resolution!Up(dir, imp.level - 1)
           looked == Resolution!Looked(w, dir, imp)
           called(f) == Resolution!Called(w, dir, imp, k, f)
           path == SubSeq(dir, 1, k) \o p
<1> SUFFICES Answered(w, dir, imp, t)
  OBVIOUS
<1>1. l \in Nat /\ k \in Int /\ p \in Seq(S) /\ Resolution!Wanted(imp) = p
  <2>1. Resolution!Wanted(imp) = p
    BY CalledIsBelow
  <2>2. l \in Nat /\ k \in Int
    OBVIOUS
  <2>3. <<>> \in Seq(S) /\ <<imp.name>> \in Seq(S)
    OBVIOUS
  <2>4. p \in {<<>>, <<imp.name>>, imp.parts}
    BY DEF Resolution!PartsOf
  <2> HIDE DEF p
  <2> QED
    BY <2>1, <2>2, <2>3, <2>4
<1>2. t = Resolution!ResolveRelativeImport(w, p, dir, imp.level)
  BY DEF Resolution!Resolved
<1>3. looked = {j \in {k} : j >= 0}
  BY DEF Resolution!Looked
<1>4. \A f \in w.files : Resolution!IsFile(f)
  BY DEF Resolution!IsFile
<1> HIDE DEF p
<1>5. CASE imp.level - 1 > l
  <2>1. looked = {} /\ t = Resolution!Unresolved
    BY <1>1, <1>2, <1>3, <1>5 DEF Resolution!ResolveRelativeImport
  <2> QED
    BY <2>1, MarkersAreNoFiles DEF Answered
<1>6. CASE ~ (imp.level - 1 > l)
  <2>1. /\ imp.level - 1 \in 0..l /\ l - (imp.level - 1) = k /\ k \in 0..l
        /\ looked = {k}
    BY <1>1, <1>3, <1>6
  <2>2. d \in Seq(S) /\ Len(d) = k /\ d = SubSeq(dir, 1, k)
    BY <2>1, UpFacts DEF Resolution!Up
  <2>3. path = d \o p /\ \A f : called(f) <=> Below(w, d, Len(d), p, f)
    BY <2>2, CalledIsBelow DEF p
  <2>4. ASSUME t \in w.files, called(t),
               \A g \in w.files : called(g) => g = t \/ Resolution!IsModuleAt(t, path)
        PROVE  Answered(w, dir, imp, t)
    <3> HIDE DEF t, k
    <3>1. Resolution!Foremost(w, dir, imp, k, t)
      BY <1>1, <2>1, <2>4 DEF Resolution!Foremost
    <3> QED
      BY <1>4, <2>1, <2>4, <3>1 DEF Answered
  <2>5. ASSUME ~ Resolution!IsFile(t), \A f \in w.files : ~ called(f)
        PROVE  Answered(w, dir, imp, t)
    <3> HIDE DEF t, k
    <3> QED
      BY <2>1, <2>5 DEF Answered
  <2>6. CASE p = <<>>
    <3> DEFINE init == [dir |-> d, name |-> Resolution!PackageInit]
    <3>1. t = IF init \in w.files THEN init ELSE Resolution!Unresolved
      BY <1>2, <1>6, <2>6 DEF Resolution!ResolveRelativeImport, Resolution!IsPackage
    <3> HIDE DEF d, called, t, path
    <3>2. ASSUME NEW f \in w.files PROVE called(f) <=> f = init
      <4>1. f \in [dir : Seq(S), name : S] /\ d \in Seq(S) /\ p \in Seq(S)
        BY <1>1, <2>2
      <4>2. Below(w, d, Len(d), p, f) <=> Resolution!IsPackageAt(f, d)
        BY <2>6, <4>1, CalledBelow
      <4>3. Resolution!IsPackageAt(f, d) <=> f = init
        BY <4>1 DEF Resolution!IsPackageAt
      <4> QED
        BY <2>3, <4>2, <4>3
    <3> HIDE DEF init
    <3>3. CASE init \in w.files
      BY <2>4, <3>1, <3>2, <3>3
    <3>4. CASE init \notin w.files
      BY <2>5, <3>1, <3>2, <3>4, MarkersAreNoFiles
    <3> QED
      BY <3>3, <3>4
  <2>7. CASE p # <<>>
    <3> DEFINE try == Resolution!TryResolveInDirectory(w, d, p)
    <3>1. t = IF try # Resolution!None THEN try ELSE Resolution!Unresolved
      BY <1>2, <1>6, <2>7 DEF Resolution!ResolveRelativeImport
    <3> HIDE DEF d, called, t, path, try
    <3>2. /\ try = Resolution!None => \A f \in w.files : ~ called(f)
          /\ try # Resolution!None =>
               /\ try \in w.files /\ called(try)
               /\ \A g \in w.files : called(g) => g = try \/ Resolution!IsModuleAt(try, path)
      BY <1>1, <2>2, <2>3, <2>7, TryCalled DEF try
    <3>3. CASE try # Resolution!None
      BY <2>4, <3>1, <3>2, <3>3
    <3>4. CASE try = Resolution!None
      BY <2>5, <3>1, <3>2, <3>4, MarkersAreNoFiles
    <3> QED
      BY <3>3, <3>4
  <2> QED
    BY <2>6, <2>7
<1> QED
  BY <1>5, <1>6

(***************************************************************************)
(* A file that appears and makes no directory a package is found where it  *)
(* is looked for, and hides or uncovers nothing else.                      *)
(***************************************************************************)
LEMMA TryLater ==
  ASSUME NEW w, NEW new, new.name # Resolution!PackageInit, Resolution!IsFile(new),
         NEW w2, w2.files = w.files \cup {new}, NEW d, NEW p
  PROVE  /\ Resolution!TryResolveInDirectory(w2, d, p) \in {Resolution!TryResolveInDirectory(w, d, p), new}
         /\ Resolution!TryResolveInDirectory(w, d, p) # Resolution!None =>
              Resolution!TryResolveInDirectory(w2, d, p) # Resolution!None
<1>1. \A x : Resolution!IsPackage(w2, x) <=> Resolution!IsPackage(w, x)
  BY DEF Resolution!IsPackage
<1>2. Resolution!InnerArePackages(w2, d, p) <=> Resolution!InnerArePackages(w, d, p)
  BY <1>1 DEF Resolution!InnerArePackages
<1>3. Resolution!Package(d, p) \in w2.files <=> Resolution!Package(d, p) \in w.files
  BY DEF Resolution!Package
<1>4. Resolution!Module(d, p) \in w2.files <=> Resolution!Module(d, p) \in w.files \/ Resolution!Module(d, p) = new
  OBVIOUS
<1>5. Resolution!TryResolveInDirectory(w2, d, p) \in {Resolution!TryResolveInDirectory(w, d, p), new}
  BY <1>2, <1>3, <1>4 DEF Resolution!TryResolveInDirectory
<1> QED
  BY <1>5, MarkersAreNoFiles

LEMMA ModuleLater ==
  ASSUME NEW S, NEW w, NEW new, new.name # Resolution!PackageInit, Resolution!IsFile(new),
         NEW w2, w2.files = w.files \cup {new}, w2.stdlib = w.stdlib, w2.installed = w.installed,
         NEW dir \in Seq(S), NEW p
  PROVE  Resolution!ResolveModule(w2, p, dir) \in {Resolution!ResolveModule(w, p, dir), new}
<1>1. CASE p = <<>> \/ p[1] \in w.stdlib
  BY <1>1 DEF Resolution!ResolveModule
<1>2. CASE p # <<>> /\ p[1] \notin w.stdlib
  <2> DEFINE hits == Hits(w, dir, p)
             hits2 == Hits(w2, dir, p)
             try(n) == Resolution!TryResolveInDirectory(w, Resolution!Up(dir, n), p)
             try2(n) == Resolution!TryResolveInDirectory(w2, Resolution!Up(dir, n), p)
  <2>1. Resolution!Searched(w2, dir) = Resolution!Searched(w, dir)
    BY DEF Resolution!Searched, Resolution!IsPackage
  <2>2. \A n : try2(n) \in {try(n), new} /\ (try(n) # Resolution!None => try2(n) # Resolution!None)
    BY TryLater
  <2>3. \A n : /\ n \in hits <=> n \in Resolution!Searched(w, dir) /\ try(n) # Resolution!None
               /\ n \in hits2 <=> n \in Resolution!Searched(w, dir) /\ try2(n) # Resolution!None
    BY <2>1 DEF Hits
  <2>4. hits2 # {} => /\ FirstOf(hits2) \in hits2 /\ hits2 \subseteq 0..Len(dir)
                      /\ \A m \in hits2 : FirstOf(hits2) <= m
    BY FirstHit
  <2>5. hits # {} => /\ FirstOf(hits) \in hits /\ hits \subseteq 0..Len(dir)
                     /\ \A m \in hits : FirstOf(hits) <= m
    BY FirstHit
  <2>6. /\ hits # {} => Resolution!ResolveModule(w, p, dir) = try(FirstOf(hits))
        /\ hits2 # {} => Resolution!ResolveModule(w2, p, dir) = try2(FirstOf(hits2))
        /\ hits = {} /\ hits2 = {} => Resolution!ResolveModule(w2, p, dir) = Resolution!ResolveModule(w, p, dir)
    BY <1>2, ResolvedBySearch
  <2>7. Len(dir) \in Nat
    OBVIOUS
  <2> HIDE DEF hits, hits2, try, try2
  <2>8. CASE hits2 = {}
    <3>1. hits = {}
      BY <2>2, <2>3, <2>8
    <3> QED
      BY <2>6, <2>8, <3>1
  <2>9. CASE hits2 # {} /\ try2(FirstOf(hits2)) = new
    BY <2>6, <2>9
  <2>10. CASE hits2 # {} /\ try2(FirstOf(hits2)) # new
    <3> DEFINE i == FirstOf(hits)   j == FirstOf(hits2)
    <3>1. j \in hits2 /\ try2(j) = try(j)
      BY <2>2, <2>4, <2>10
    <3>2. j \in hits
      BY <2>3, <3>1
    <3>3. i \in hits /\ i <= j
      BY <2>5, <3>2
    <3>4. i \in hits2
      BY <2>2, <2>3, <3>3
    <3>5. j <= i
      BY <2>4, <3>4
    <3>6. i \in Int /\ j \in Int
      BY <2>4, <2>5, <2>7, <3>2, <3>1, <3>3
    <3> HIDE DEF i, j
    <3>7. i = j
      BY <3>3, <3>5, <3>6
    <3> QED
      BY <2>6, <2>10, <3>1, <3>2, <3>7 DEF i, j
  <2> QED
    BY <2>8, <2>9, <2>10
<1> QED
  BY <1>1, <1>2

LEMMA ImportLater ==
  ASSUME NEW S, NEW w, NEW new, new.name # Resolution!PackageInit, Resolution!IsFile(new),
         NEW w2, w2.files = w.files \cup {new}, w2.stdlib = w.stdlib, w2.installed = w.installed,
         NEW dir \in Seq(S), NEW imp
  PROVE  Resolution!Resolved(w2, dir, imp) \in {Resolution!Resolved(w, dir, imp), new}
<1> DEFINE p == Resolution!PartsOf(imp)
           there == Resolution!Up(dir, imp.level - 1)
<1>1. CASE imp.level > 0
  <2>1. \A x : Resolution!IsPackage(w2, x) <=> Resolution!IsPackage(w, x)
    BY DEF Resolution!IsPackage
  <2>2. /\ Resolution!TryResolveInDirectory(w2, there, p) \in {Resolution!TryResolveInDirectory(w, there, p), new}
        /\ Resolution!TryResolveInDirectory(w, there, p) # Resolution!None =>
             Resolution!TryResolveInDirectory(w2, there, p) # Resolution!None
    BY TryLater
  <2> HIDE DEF p
  <2>3. Resolution!ResolveRelativeImport(w2, p, dir, imp.level)
          \in {Resolution!ResolveRelativeImport(w, p, dir, imp.level), new}
    BY <2>1, <2>2 DEF Resolution!ResolveRelativeImport
  <2> QED
    BY <1>1, <2>3 DEF Resolution!Resolved, p
<1>2. CASE ~ imp.level > 0
  <2>1. Resolution!ResolveModule(w2, p, dir) \in {Resolution!ResolveModule(w, p, dir), new}
    BY ModuleLater
  <2> HIDE DEF p
  <2> QED
    BY <1>2, <2>1 DEF Resolution!Resolved, p
<1> QED
  BY <1>1, <1>2

(***************************************************************************)
(* _resolve_module and _resolve_relative_import, for every project, every  *)
(* file that imports and every import of it.                               *)
(***************************************************************************)
THEOREM ImportCorrect ==
  ASSUME NEW S, NEW w \in [files : SUBSET [dir : Seq(S), name : S], stdlib : SUBSET S, installed : SUBSET S],
         NEW dir \in Seq(S), NEW imp \in [parts : Seq(S), level : Nat, name : S],
         imp.level = 0 => imp.parts # <<>>,
         NEW new \in [dir : Seq(S), name : S]
  PROVE  Resolution!ImportIsRight(w, dir, imp, new)
<1> DEFINE w2     == [w EXCEPT !.files = @ \cup {new}]
           found  == Resolution!Resolved(w, dir, imp)
           later  == Resolution!Resolved(w2, dir, imp)
<1>1. /\ w2.files = w.files \cup {new} /\ w2.stdlib = w.stdlib /\ w2.installed = w.installed
      /\ w.files \subseteq [dir : Seq(S), name : S]
      /\ imp.level \in Nat /\ imp.parts \in Seq(S) /\ imp.name \in S
  OBVIOUS
<1>2. Resolution!IsFile(new)
  BY DEF Resolution!IsFile
<1>3. new.name # Resolution!PackageInit => later \in {found, new}
  <2> HIDE DEF w2
  <2> QED
    BY <1>1, <1>2, ImportLater
<1>4. Answered(w, dir, imp, found)
  <2>1. CASE imp.level = 0
    BY <1>1, <2>1, AbsoluteAnswered
  <2>2. CASE imp.level > 0
    BY <1>1, <2>2, RelativeAnswered
  <2> QED
    BY <1>1, <2>1, <2>2
<1> HIDE DEF w2, found, later
<1>5. /\ Resolution!IsFile(found) =>
           /\ found \in w.files
           /\ \E k \in Resolution!Looked(w, dir, imp) :
                Resolution!Called(w, dir, imp, k, found) /\ Resolution!Foremost(w, dir, imp, k, found)
      /\ ~ Resolution!IsFile(found) =>
           \/ Resolution!NameOfLibrary(w, imp)
           \/ \A k \in Resolution!Looked(w, dir, imp), f \in w.files : ~ Resolution!Called(w, dir, imp, k, f)
  BY <1>4 DEF Answered
<1> QED
  BY <1>3, <1>5 DEF Resolution!ImportIsRight, w2, found, later

-----------------------------------------------------------------------------
(***************************************************************************)
(* Where a definition ends: what is in the lines read of it, and where the *)
(* count of its lines stops.                                               *)
(***************************************************************************)
LEMMA MinFacts ==
  ASSUME NEW T, T \subseteq Nat, T # {}
  PROVE  Extent!Min(T) \in T /\ \A m \in T : Extent!Min(T) <= m
<1>1. \E n \in T : \A m \in T : n =< m
  BY LeastExists
<1> QED
  BY <1>1 DEF Extent!Min

LEMMA MinOfTwo ==
  ASSUME NEW x \in Nat, NEW y \in Nat
  PROVE  Extent!Min({x, y}) = IF x <= y THEN x ELSE y
<1>1. Extent!Min({x, y}) \in {x, y} /\ \A m \in {x, y} : Extent!Min({x, y}) <= m
  BY MinFacts
<1> QED
  BY <1>1


IsJoin(S, s, t, st) ==
  /\ st \in Seq(S) /\ Len(st) = Len(s) + Len(t)
  /\ \A i \in 1..Len(s) : st[i] = s[i]
  /\ \A i \in 1..Len(t) : st[Len(s) + i] = t[i]

LEMMA Joined ==
  ASSUME NEW S, NEW s \in Seq(S), NEW t \in Seq(S)
  PROVE  IsJoin(S, s, t, s \o t)
<1> DEFINE st == s \o t
<1>1. Len(s) \in Nat /\ Len(t) \in Nat
  OBVIOUS
<1>2. /\ st \in Seq(S) /\ Len(st) = Len(s) + Len(t)
      /\ \A i \in 1..Len(s) + Len(t) : st[i] = IF i <= Len(s) THEN s[i] ELSE t[i - Len(s)]
  BY ConcatProperties
<1>3. /\ \A i \in 1..Len(s) : i \in 1..Len(s) + Len(t) /\ i <= Len(s)
      /\ \A i \in 1..Len(t) : /\ Len(s) + i \in 1..Len(s) + Len(t)
                              /\ ~ (Len(s) + i <= Len(s)) /\ Len(s) + i - Len(s) = i
  BY <1>1
<1> HIDE DEF st
<1>4. IsJoin(S, s, t, st)
  BY <1>2, <1>3 DEF IsJoin
<1> QED
  BY <1>4 DEF st

LEMMA FileFacts ==
  ASSUME NEW d, Extent!IsDefinition(d), NEW file, file = Extent!FileLines(d)
  PROVE  LET s == Extent!StartOf(d)
             e == Extent!EndOf(d)
             h == Len(d.header)
         IN /\ file \in Seq(Extent!Line)
            /\ s \in Nat \ {0} /\ e \in Nat /\ h \in Nat \ {0} /\ Len(d.body) \in Nat \ {0}
            /\ Len(d.after) \in Nat /\ Len(d.before) \in Nat
            /\ e = s + h + Len(d.body) - 1 /\ Len(file) = e + Len(d.after)
            /\ \A i \in 1..h : file[s + i - 1] = d.header[i]
            /\ \A i \in 1..Len(d.body) : file[s + h + i - 1] = d.body[i]
            /\ \A i \in 1..Len(d.after) : file[e + i] = d.after[i]
<1> DEFINE Line == Extent!Line
<1>1. /\ d.before \in Seq(Line) /\ d.header \in Seq(Line) /\ d.body \in Seq(Line) /\ d.after \in Seq(Line)
      /\ d.header # <<>> /\ d.body # <<>>
  BY DEF Extent!IsDefinition
<1> DEFINE n0 == Len(d.before)  h == Len(d.header)  b == Len(d.body)  a == Len(d.after)
           f1 == d.before \o d.header   f2 == f1 \o d.body   f3 == f2 \o d.after
<1> HIDE DEF Line
<1>2. n0 \in Nat /\ h \in Nat \ {0} /\ b \in Nat \ {0} /\ a \in Nat
  BY <1>1, EmptySeq, LenProperties
<1>3. /\ f1 \in Seq(Line) /\ Len(f1) = n0 + h
      /\ \A i \in 1..n0 : f1[i] = d.before[i]
      /\ \A i \in 1..h : f1[n0 + i] = d.header[i]
  <2>1. IsJoin(Line, d.before, d.header, f1)
    BY <1>1, Joined
  <2> HIDE DEF f1
  <2> QED
    BY <2>1 DEF IsJoin
<1> HIDE DEF f1, n0, h, b, a
<1>4. /\ f2 \in Seq(Line) /\ Len(f2) = n0 + h + b
      /\ \A i \in 1..n0 + h : f2[i] = f1[i]
      /\ \A i \in 1..b : f2[n0 + h + i] = d.body[i]
  <2>1. /\ f2 \in Seq(Line) /\ Len(f2) = Len(f1) + b
        /\ \A i \in 1..Len(f1) : f2[i] = f1[i]
        /\ \A i \in 1..b : f2[Len(f1) + i] = d.body[i]
    <3>1. IsJoin(Line, f1, d.body, f2)
      BY <1>1, <1>3, Joined
    <3> HIDE DEF f2
    <3> QED
      BY <3>1 DEF IsJoin, b
  <2> QED
    BY <1>3, <2>1
<1> HIDE DEF f2
<1>5. /\ f3 \in Seq(Line) /\ Len(f3) = n0 + h + b + a
      /\ \A i \in 1..n0 + h + b : f3[i] = f2[i]
      /\ \A i \in 1..a : f3[n0 + h + b + i] = d.after[i]
  <2>1. /\ f3 \in Seq(Line) /\ Len(f3) = Len(f2) + a
        /\ \A i \in 1..Len(f2) : f3[i] = f2[i]
        /\ \A i \in 1..a : f3[Len(f2) + i] = d.after[i]
    <3>1. IsJoin(Line, f2, d.after, f3)
      BY <1>1, <1>4, Joined
    <3> HIDE DEF f3
    <3> QED
      BY <3>1 DEF IsJoin, a
  <2> QED
    BY <1>4, <2>1
<1>6. file = f3
  BY DEF Extent!FileLines, f2, f1
<1> HIDE DEF f3
<1>7. Extent!StartOf(d) = n0 + 1 /\ Extent!EndOf(d) = n0 + h + b
  BY DEF Extent!StartOf, Extent!EndOf, n0, h, b
<1>8. /\ \A i \in 1..h : n0 + i \in 1..n0 + h /\ n0 + i \in 1..n0 + h + b
      /\ \A i \in 1..b : n0 + h + i \in 1..n0 + h + b
  BY <1>2
<1>9. /\ \A i \in 1..h : file[n0 + i] = d.header[i]
      /\ \A i \in 1..b : file[n0 + h + i] = d.body[i]
      /\ \A i \in 1..a : file[n0 + h + b + i] = d.after[i]
  BY <1>3, <1>4, <1>5, <1>6, <1>8
<1>10. /\ n0 + 1 \in Nat \ {0} /\ n0 + h + b \in Nat /\ n0 + h + b = (n0 + 1) + h + b - 1
       /\ Len(file) = n0 + h + b + a
       /\ \A i \in 1..h : (n0 + 1) + i - 1 = n0 + i
       /\ \A i \in 1..b : (n0 + 1) + h + i - 1 = n0 + h + i
  BY <1>2, <1>5, <1>6
<1>11. /\ \A i \in 1..h : file[(n0 + 1) + i - 1] = d.header[i]
       /\ \A i \in 1..b : file[(n0 + 1) + h + i - 1] = d.body[i]
  BY <1>9, <1>10
<1> QED
  BY <1>2, <1>5, <1>6, <1>7, <1>9, <1>10, <1>11 DEF n0, h, b, a, Line

AreLines(S, lines, file, s, k) ==
  /\ lines \in Seq(S) /\ Len(lines) = k - s + 1
  /\ \A i \in 1..k - s + 1 : lines[i] = file[s + i - 1]
LastRead(file, s, m) == IF s + m <= Len(file) THEN s + m ELSE Len(file)

LEMMA LinesFacts ==
  ASSUME NEW S, NEW file \in Seq(S), NEW s \in Nat \ {0}, s <= Len(file), NEW m \in Nat
  PROVE  AreLines(S, Extent!Lines(file, s, m), file, s, LastRead(file, s, m))
<1> DEFINE k == LastRead(file, s, m)
<1>1. Len(file) \in Nat
  OBVIOUS
<1>2. k \in Nat /\ s <= k /\ k <= Len(file)
  BY <1>1 DEF LastRead
<1>3. Extent!Min({s + m, Len(file)}) = k
  BY <1>1, MinOfTwo DEF LastRead
<1> HIDE DEF k
<1>4. \A i \in s..k : file[i] \in S
  BY <1>1, <1>2, ElementOfSeq
<1>5. /\ SubSeq(file, s, k) \in Seq(S) /\ Len(SubSeq(file, s, k)) = k - s + 1
      /\ \A i \in 1..k - s + 1 : SubSeq(file, s, k)[i] = file[s + i - 1]
  BY <1>2, <1>4, SubSeqProperties
<1> QED
  BY <1>2, <1>3, <1>5 DEF Extent!Lines, AreLines, k

\* the lines of the range that are outside of the definition they begin with
Outside(lines) == {i \in 2..Len(lines) : /\ lines[i].text \notin {"blank", "comment"}
                                         /\ lines[i].indent <= lines[1].indent}

LEMMA CountFacts ==
  ASSUME NEW file, NEW s, NEW m, NEW lines, lines = Extent!Lines(file, s, m), Len(lines) \in Nat,
         NEW out, out = Outside(lines), NEW count, count = Extent!LineCount(file, s, m)
  PROVE  /\ count \in Int
         /\ out = {} => count = Len(lines)
         /\ out # {} => count + 1 \in out /\ \A i \in out : count + 1 <= i
<1>1. count = IF out = {} THEN Len(lines) ELSE Extent!Min(out) - 1
  BY DEF Extent!LineCount, Outside
<1>2. out \subseteq 2..Len(lines) /\ out \subseteq Nat
  BY DEF Outside
<1>3. out # {} => Extent!Min(out) \in out /\ \A i \in out : Extent!Min(out) <= i
  BY <1>2, MinFacts
<1> QED
  BY <1>1, <1>2, <1>3

(***************************************************************************)
(* The range of a definition ends where the definition does, but for blank *)
(* lines and comments, or where the reading does.                          *)
(***************************************************************************)
LEMMA CountRight ==
  ASSUME NEW d, Extent!IsDefinition(d), NEW m \in Nat,
         NEW last, last = Extent!StartOf(d) + Extent!LineCount(Extent!FileLines(d), Extent!StartOf(d), m) - 1
  PROVE  /\ last \in Nat /\ Extent!StartOf(d) <= last
         /\ last >= Extent!EndOf(d) \/ last = Extent!StartOf(d) + m
         /\ \A i \in Extent!EndOf(d) + 1..last : Extent!Trivial(Extent!FileLines(d)[i])
<1> DEFINE file == Extent!FileLines(d)   s == Extent!StartOf(d)   e == Extent!EndOf(d)
           h == Len(d.header)   b == Len(d.body)   a == Len(d.after)
           lines == Extent!Lines(file, s, m)   count == Extent!LineCount(file, s, m)
           out == Outside(lines)   base == d.header[1].indent
           k == LastRead(file, s, m)
<1>1. /\ file \in Seq(Extent!Line)
      /\ s \in Nat \ {0} /\ e \in Nat /\ h \in Nat \ {0} /\ b \in Nat \ {0} /\ a \in Nat
      /\ e = s + h + b - 1 /\ Len(file) = e + a
      /\ \A i \in 1..h : file[s + i - 1] = d.header[i]
      /\ \A i \in 1..b : file[s + h + i - 1] = d.body[i]
      /\ \A i \in 1..a : file[e + i] = d.after[i]
  BY FileFacts
<1>2. /\ \A i \in 1..h : i > 1 => d.header[i].indent > base
      /\ \A i \in 1..b : Extent!Trivial(d.body[i]) \/ d.body[i].indent > base
      /\ \A i \in 1..a : \/ Extent!Trivial(d.after[i])
                         \/ \E j \in 1..i : ~ Extent!Trivial(d.after[j]) /\ d.after[j].indent <= base
  <2>1. /\ d.header \in Seq(Extent!Line) /\ d.body \in Seq(Extent!Line) /\ d.after \in Seq(Extent!Line)
    BY DEF Extent!IsDefinition
  <2>2. DOMAIN d.header = 1..h /\ DOMAIN d.body = 1..b /\ DOMAIN d.after = 1..a
    BY <2>1
  <2> QED
    BY <2>2 DEF Extent!IsDefinition
<1>3. \A i \in 1..Len(file) : file[i].indent \in Nat
  <2> TAKE i \in 1..Len(file)
  <2>1. file[i] \in Extent!Line
    BY <1>1, ElementOfSeq
  <2> QED
    BY <2>1 DEF Extent!Line
<1>4. /\ k \in Nat /\ s <= k /\ k <= Len(file)
      /\ Len(lines) = k - s + 1 /\ \A i \in 1..k - s + 1 : lines[i] = file[s + i - 1]
  <2>1. s <= Len(file)
    BY SMTT(30), <1>1
  <2>2. k = IF s + m <= Len(file) THEN s + m ELSE Len(file)
    BY DEF LastRead
  <2> HIDE DEF file, s
  <2>3. AreLines(Extent!Line, lines, file, s, k)
    BY <1>1, <2>1, LinesFacts
  <2> HIDE DEF k, lines, e, h, b, a
  <2>4. Len(file) \in Nat /\ s \in Nat
    BY <1>1
  <2>5. k \in Nat /\ s <= k /\ k <= Len(file)
    BY <2>1, <2>2, <2>4
  <2>6. Len(lines) = k - s + 1 /\ \A i \in 1..k - s + 1 : lines[i] = file[s + i - 1]
    BY <2>3 DEF AreLines
  <2> QED
    BY <2>5, <2>6
<1>5. /\ count \in Int
      /\ out = {} => count = Len(lines)
      /\ out # {} => count + 1 \in out /\ \A i \in out : count + 1 <= i
  <2>1. Len(lines) \in Nat
    BY <1>1, <1>4
  <2> QED
    BY <2>1, CountFacts
<1>6. \A i : i \in out <=> i \in 2..Len(lines) /\ ~ Extent!Trivial(lines[i]) /\ lines[i].indent <= lines[1].indent
  BY DEF Outside, Extent!Trivial
<1> HIDE DEF file, s, e, h, b, a, lines, count, out, base, k
<1>7. lines[1] = d.header[1] /\ base \in Nat
  <2>1. 1 \in 1..k - s + 1 /\ 1 \in 1..h /\ s + 1 - 1 = s /\ s \in 1..Len(file)
    BY <1>1, <1>4
  <2> QED
    BY <1>1, <1>3, <1>4, <2>1 DEF base
<1>8. \A i \in out : s + i - 1 > e /\ s + i - 1 <= k
  <2> TAKE i \in out
  <2>1. /\ i \in 2..Len(lines) /\ i \in 1..k - s + 1 /\ s + i - 1 \in 1..Len(file) /\ s + i - 1 <= k
    BY SMTT(30), <1>1, <1>4, <1>6
  <2>2. ~ Extent!Trivial(file[s + i - 1]) /\ file[s + i - 1].indent <= base
    BY <1>4, <1>6, <1>7, <2>1 DEF base
  <2>3. file[s + i - 1].indent \in Nat
    BY <1>3, <2>1
  <2>4. ASSUME i <= h PROVE FALSE
    <3>1. i \in 1..h /\ i > 1
      BY <1>1, <2>1, <2>4
    <3> QED
      BY <1>1, <1>2, <1>7, <2>2, <2>3, <3>1
  <2>5. ASSUME i > h, i <= h + b PROVE FALSE
    <3>1. i - h \in 1..b /\ s + h + (i - h) - 1 = s + i - 1
      BY <1>1, <2>1, <2>5
    <3>2. file[s + i - 1] = d.body[i - h]
      BY <1>1, <3>1
    <3> QED
      BY <1>2, <1>7, <2>2, <2>3, <3>1, <3>2
  <2>6. i > h + b
    BY <1>1, <2>1, <2>4, <2>5
  <2> QED
    BY SMTT(30), <1>1, <2>1, <2>6
<1>9. \A i \in out : i \in Int
  BY <1>1, <1>4, <1>6
<1>10. ASSUME NEW i \in 1..a, e + i <= k, ~ Extent!Trivial(file[e + i])
       PROVE  \E j \in out : j <= e + i - s + 1
  <2>1. PICK j \in 1..i : ~ Extent!Trivial(d.after[j]) /\ d.after[j].indent <= base
    BY <1>1, <1>2, <1>10
  <2>2. /\ j \in 1..a /\ e + j - s + 1 \in 2..Len(lines) /\ e + j - s + 1 \in 1..k - s + 1
        /\ s + (e + j - s + 1) - 1 = e + j /\ e + j - s + 1 <= e + i - s + 1
    BY <1>1, <1>4, <1>10, <2>1
  <2>3. lines[e + j - s + 1] = d.after[j]
    BY <1>1, <1>4, <2>2
  <2>4. e + j - s + 1 \in out
    BY <1>6, <1>7, <2>1, <2>2, <2>3 DEF base
  <2> QED
    BY <2>2, <2>4
<1>11. CASE out = {}
  <2>1. last = k
    BY SMTT(30), <1>1, <1>4, <1>5, <1>11 DEF file, s, count
  <2>2. last >= e \/ last = s + m
    BY <1>1, <2>1 DEF k, LastRead
  <2>3. ASSUME NEW i \in e + 1..last PROVE Extent!Trivial(file[i])
    <3>1. i - e \in 1..a /\ e + (i - e) = i /\ i <= k
      BY <1>1, <1>4, <2>1
    <3> QED
      BY <1>10, <1>11, <3>1
  <2> QED
    BY <1>4, <2>1, <2>2, <2>3 DEF file, s, e
<1>12. CASE out # {}
  <2>1. count + 1 \in out /\ count + 1 \in Int /\ \A i \in out : count + 1 <= i
    BY <1>5, <1>9, <1>12
  <2>2. last = s + count - 1
    BY DEF file, s, count
  <2>3. s + (count + 1) - 1 > e /\ s + (count + 1) - 1 <= k
    BY <1>8, <2>1
  <2>4. last >= e /\ last < k /\ last \in Int
    BY <1>1, <1>4, <1>5, <2>2, <2>3
  <2>5. ASSUME NEW i \in e + 1..last, ~ Extent!Trivial(file[i]) PROVE FALSE
    <3>1. i - e \in 1..a /\ e + (i - e) = i /\ i <= k
      BY <1>1, <1>4, <2>4
    <3>2. PICK j \in out : j <= e + (i - e) - s + 1
      BY <1>10, <2>5, <3>1
    <3>3. j \in Int /\ count + 1 <= j
      BY <1>9, <2>1
    <3> QED
      BY <1>1, <1>5, <2>2, <2>4, <2>5, <3>1, <3>2, <3>3
  <2> QED
    BY <1>1, <2>4, <2>5 DEF file, s, e
<1> QED
  BY <1>11, <1>12

(***************************************************************************)
(* _get_function_line_count and _get_function_signature_with_docstring,    *)
(* for every definition and every number of lines read.                    *)
(***************************************************************************)
THEOREM ExtentCorrect ==
  ASSUME NEW d, Extent!IsDefinition(d), NEW context \in Nat, NEW more \in Nat, NEW large \in 0..more + 1
  PROVE  Extent!ExtentIsRight(d, context, more, large)
<1> DEFINE file == Extent!FileLines(d)   s == Extent!StartOf(d)   e == Extent!EndOf(d)
           h == Len(d.header)   b == Len(d.body)   a == Len(d.after)
           lines == Extent!Lines(file, s, context)   k == LastRead(file, s, context)
           count == Extent!LineCount(file, s, more)   last == s + count - 1
           defs == {i \in DOMAIN lines : lines[i].text = "def"}
           ends == {i \in DOMAIN lines : lines[i].colon /\ defs # {} /\ i >= Extent!Min(defs)}
           found == Extent!Signature(file, s, context, more)
<1> SUFFICES ASSUME h <= context
             PROVE  /\ found.range[1] = s
                    /\ found.range[2] >= Extent!Min({e, s + more})
                    /\ \A i \in e + 1..found.range[2] : Extent!Trivial(file[i])
                    /\ e - s + 1 >= large => found.range[2] - s + 1 >= large
                    /\ found.lines = d.header
                    /\ found.docstring <=> d.body[1].text = "doc"
  BY DEF Extent!ExtentIsRight
<1>1. /\ file \in Seq(Extent!Line)
      /\ s \in Nat \ {0} /\ e \in Nat /\ h \in Nat \ {0} /\ b \in Nat \ {0} /\ a \in Nat
      /\ e = s + h + b - 1 /\ Len(file) = e + a
      /\ \A i \in 1..h : file[s + i - 1] = d.header[i]
      /\ \A i \in 1..b : file[s + h + i - 1] = d.body[i]
  BY FileFacts
<1>2. /\ last \in Nat /\ s <= last
      /\ last >= e \/ last = s + more
      /\ \A i \in e + 1..last : Extent!Trivial(file[i])
  BY CountRight
<1>3. /\ d.header \in Seq(Extent!Line) /\ d.header[1].text = "def"
      /\ \A i \in 1..h : d.header[i].colon <=> i = h
  <2>1. d.header \in Seq(Extent!Line)
    BY DEF Extent!IsDefinition
  <2>2. DOMAIN d.header = 1..h
    BY <2>1
  <2> QED
    BY <2>1, <2>2 DEF Extent!IsDefinition
<1> HIDE DEF e, h, b, a, s, file
<1>4. Len(file) \in Nat /\ s <= Len(file) /\ s + h <= Len(file)
  BY <1>1
<1>5. AreLines(Extent!Line, lines, file, s, k)
  BY <1>1, <1>4, LinesFacts
<1>6. k \in Nat /\ s + h <= k
  BY <1>1, <1>4 DEF LastRead
<1> HIDE DEF lines, k
<1>7. /\ lines \in Seq(Extent!Line) /\ Len(lines) \in Nat /\ Len(lines) > h /\ DOMAIN lines = 1..Len(lines)
      /\ \A i \in 1..h : lines[i] = d.header[i]
      /\ lines[h + 1] = d.body[1]
  <2>1. lines \in Seq(Extent!Line) /\ Len(lines) = k - s + 1 /\ \A i \in 1..k - s + 1 : lines[i] = file[s + i - 1]
    BY <1>5 DEF AreLines
  <2>2. /\ k - s + 1 > h /\ h + 1 \in 1..k - s + 1 /\ 1 \in 1..b /\ s + (h + 1) - 1 = s + h + 1 - 1
        /\ \A i \in 1..h : i \in 1..k - s + 1
    BY <1>1, <1>6
  <2>3. \A i \in 1..h : lines[i] = d.header[i]
    BY <1>1, <2>1, <2>2
  <2>4. lines[h + 1] = d.body[1]
    BY <1>1, <2>1, <2>2
  <2>5. DOMAIN lines = 1..Len(lines) /\ Len(lines) \in Nat
    BY <2>1
  <2>6. Len(lines) > h
    BY <2>1, <2>2
  <2> QED
    BY <2>1, <2>3, <2>4, <2>5, <2>6
<1>8. defs # {} /\ Extent!Min(defs) = 1
  <2>0. 1 \in 1..h /\ 1 \in 1..Len(lines)
    BY <1>1, <1>7
  <2>1. 1 \in defs
    BY <2>0, <1>3, <1>7
  <2>2. defs \subseteq Nat /\ \A i \in defs : i >= 1
    BY <1>7
  <2> HIDE DEF defs
  <2>3. Extent!Min(defs) \in defs /\ \A i \in defs : Extent!Min(defs) <= i
    BY <2>1, <2>2, MinFacts
  <2>4. Extent!Min(defs) <= 1 /\ Extent!Min(defs) >= 1 /\ Extent!Min(defs) \in Nat
    BY <2>1, <2>2, <2>3
  <2> QED
    BY <2>1, <2>4
<1> HIDE DEF defs
<1>9. ends # {} /\ Extent!Min(ends) = h
  <2>1. h \in ends
    BY <1>1, <1>3, <1>7, <1>8
  <2>2. ends \subseteq Nat
    BY <1>7
  <2>3. \A i \in ends : i >= h
    <3> TAKE i \in ends
    <3>1. i \in Nat /\ i >= 1 /\ lines[i].colon
      BY <1>7
    <3> HIDE DEF ends
    <3>2. ASSUME i < h PROVE FALSE
      <4>1. i \in 1..h /\ i # h
        BY <1>1, <3>1, <3>2
      <4>2. lines[i] = d.header[i] /\ ~ d.header[i].colon
        BY <1>3, <1>7, <4>1
      <4> QED
        BY <3>1, <4>2
    <3> QED
      BY <1>1, <3>1, <3>2
  <2> HIDE DEF ends
  <2>4. Extent!Min(ends) \in ends /\ \A i \in ends : Extent!Min(ends) <= i
    BY <2>1, <2>2, MinFacts
  <2>5. Extent!Min(ends) <= h /\ Extent!Min(ends) >= h /\ Extent!Min(ends) \in Nat
    BY <2>1, <2>2, <2>3, <2>4
  <2> QED
    BY <1>1, <2>1, <2>5
<1>11. found = [lines |-> SubSeq(lines, 1, h), docstring |-> h < Len(lines) /\ lines[h + 1].text = "doc",
                range |-> <<s, IF count = 0 THEN s ELSE last>>]
  <2>1. /\ ends # {} /\ Extent!Min(ends) = h /\ Extent!Min(defs) = 1 /\ defs # {} /\ s # 0
    BY <1>1, <1>8, <1>9
  <2> HIDE DEF count
  <2> QED
    BY <2>1 DEF Extent!Signature, defs, lines, count
<1>12. SubSeq(lines, 1, h) = d.header
  <2>1. \A i \in 1..h : lines[i] \in Extent!Line
    BY <1>1, <1>3, <1>7, ElementOfSeq DEF h
  <2>2. /\ SubSeq(lines, 1, h) \in Seq(Extent!Line) /\ Len(SubSeq(lines, 1, h)) = h
        /\ \A i \in 1..h : SubSeq(lines, 1, h)[i] = lines[i]
    <3>1. /\ SubSeq(lines, 1, h) \in Seq(Extent!Line)
          /\ Len(SubSeq(lines, 1, h)) = IF 1 <= h THEN h - 1 + 1 ELSE 0
          /\ \A i \in 1..h - 1 + 1 : SubSeq(lines, 1, h)[i] = lines[1 + i - 1]
      BY <1>1, <2>1, SubSeqProperties
    <3>2. 1 <= h /\ h - 1 + 1 = h /\ \A i \in 1..h : 1 + i - 1 = i
      BY <1>1
    <3> QED
      BY <3>1, <3>2
  <2>3. \A i \in 1..h : SubSeq(lines, 1, h)[i] = d.header[i]
    BY <1>7, <2>2
  <2> QED
    BY <1>3, <2>2, <2>3, SeqEqual DEF h
<1>13. count # 0
  BY <1>1, <1>2
<1> HIDE DEF found, last, count
<1>14. found.lines = SubSeq(lines, 1, h) /\ (found.docstring <=> h < Len(lines) /\ lines[h + 1].text = "doc")
       /\ found.range[1] = s /\ found.range[2] = last
  BY <1>11, <1>13
<1>15. last >= Extent!Min({e, s + more})
  <2> DEFINE end == s + more
  <2>0. end \in Nat
    BY <1>1
  <2> HIDE DEF end
  <2>1. Extent!Min({e, end}) = IF e <= end THEN e ELSE end
    BY <1>1, <2>0, MinOfTwo
  <2> QED
    BY <1>1, <1>2, <2>1 DEF end
<1>16. e - s + 1 >= large => last - s + 1 >= large
  <2>1. large \in Int /\ large <= more + 1
    OBVIOUS
  <2> QED
    BY <1>1, <1>2, <2>1
<1>17. found.lines = d.header /\ (found.docstring <=> d.body[1].text = "doc")
  BY <1>7, <1>12, <1>14
<1> QED
  BY <1>2, <1>14, <1>15, <1>16, <1>17

-----------------------------------------------------------------------------
\* The greatest of some of the first numbers.
LEMMA Greatest ==
  ASSUME NEW n \in Nat, NEW s \in SUBSET (1..n), s # {}
  PROVE  \E x \in s : \A y \in s : x >= y
<1> DEFINE good == {m \in Nat : \A t \in SUBSET (1..m) : t # {} => \E x \in t : \A y \in t : x >= y}
<1>1. 0 \in good
  <2>1. 1..0 = {}
    OBVIOUS
  <2> QED
    BY <2>1
<1>2. ASSUME NEW m \in Nat, m \in good PROVE m + 1 \in good
  <2> SUFFICES ASSUME NEW t \in SUBSET (1..m + 1), t # {}
               PROVE  \E x \in t : \A y \in t : x >= y
    OBVIOUS
  <2>1. CASE m + 1 \in t
    <3>1. \A y \in t : m + 1 >= y
      OBVIOUS
    <3> QED
      BY <2>1, <3>1
  <2>2. CASE m + 1 \notin t
    <3>1. t \in SUBSET (1..m)
      BY <2>2
    <3> QED
      BY <1>2, <3>1
  <2> QED
    BY <2>1, <2>2
<1> HIDE DEF good
<1>3. Nat \subseteq good
  BY <1>1, <1>2, SetInduction
<1> QED
  BY <1>3 DEF good

(***************************************************************************)
(* The fold of Analyze goes through the uses of the file in order.         *)
(***************************************************************************)
Detect(kind, done, file, content, use) ==
  IF kind = "call" THEN Names!DetectCall(done, file, content, use)
  ELSE Names!DetectParent(done, file, content, use)

LEMMA AnalyzeTrace ==
  ASSUME NEW d, NEW kind, NEW file, NEW content, NEW n \in Nat, DOMAIN content.uses = 1..n
  PROVE  \E t : /\ t[0] = [d |-> Names!Enter(d, kind, file, content), found |-> <<>>]
                /\ \A k \in 0..n - 1 : t[k + 1] = Detect(kind, t[k], file, content, content.uses[k + 1])
                /\ Names!Analyze(d, kind, file, content) = t[n]
<1> DEFINE S == 1..n
           base == [d |-> Names!Enter(d, kind, file, content), found |-> <<>>]
           max(s) == CHOOSE x \in s : \A y \in s : x >= y
           value(s, it) == IF s = {} THEN base
                           ELSE Detect(kind, it[s \ {max(s)}], file, content, content.uses[max(s)])
           runs(it) == it = [s \in SUBSET S |-> value(s, it)]
           upto(m, it) == /\ it = [s \in SUBSET S |-> it[s]]
                          /\ \A s \in SUBSET S : Cardinality(s) <= m => it[s] = value(s, it)
<1>1. Names!Analyze(d, kind, file, content) = (CHOOSE it : runs(it))[S]
  BY DEF Names!Analyze, Names!FoldLeft, Names!MapThenFoldSet, Names!Max, Detect
<1>2. \A s \in SUBSET S : IsFiniteSet(s) /\ Cardinality(s) \in Nat /\ Cardinality(s) <= Cardinality(S)
  <2>1. IsFiniteSet(S)
    BY FS_Interval
  <2> QED
    BY <2>1, FS_Subset, FS_CardinalityType
<1>3. \A s \in SUBSET S : s # {} => max(s) \in s
  BY Greatest
<1>4. \A s \in SUBSET S : s # {} => Cardinality(s \ {max(s)}) = Cardinality(s) - 1
  BY <1>2, <1>3, FS_RemoveElement
<1>5. \A k \in 0..n - 1 : max(1..k + 1) = k + 1 /\ (1..k + 1) \ {k + 1} = 1..k
  <2> SUFFICES ASSUME NEW k \in 0..n - 1 PROVE max(1..k + 1) = k + 1 /\ (1..k + 1) \ {k + 1} = 1..k
    OBVIOUS
  <2> DEFINE s == 1..k + 1
  <2>1. k + 1 \in s /\ \A y \in s : k + 1 >= y
    OBVIOUS
  <2>2. max(s) \in s /\ \A y \in s : max(s) >= y
    BY <2>1
  <2>3. max(s) = k + 1
    <3> HIDE DEF max
    <3> QED
      BY <2>1, <2>2
  <2> QED
    BY <2>3
<1> HIDE DEF max
<1> DEFINE levels == {m \in Nat : \E it : upto(m, it)}
<1>6. 0 \in levels
  <2> DEFINE it == [s \in SUBSET S |-> base]
  <2>1. \A s \in SUBSET S : Cardinality(s) <= 0 => s = {}
    BY <1>2, FS_EmptySet
  <2>2. upto(0, it)
    BY <2>1
  <2> QED
    BY <2>2
<1>7. ASSUME NEW m \in Nat, m \in levels PROVE m + 1 \in levels
  <2>1. PICK it : upto(m, it)
    BY <1>7
  <2> HIDE DEF base
  <2> DEFINE more == [s \in SUBSET S |-> IF Cardinality(s) <= m + 1 THEN value(s, it) ELSE base]
  <2>2. ASSUME NEW s \in SUBSET S, Cardinality(s) <= m PROVE more[s] = it[s]
    <3>1. it[s] = value(s, it)
      BY <2>1, <2>2
    <3>2. Cardinality(s) <= m + 1
      BY <1>2, <2>2
    <3> HIDE DEF value
    <3> QED
      BY <3>1, <3>2
  <2>3. ASSUME NEW s \in SUBSET S, Cardinality(s) <= m + 1 PROVE more[s] = value(s, more)
    <3>1. more[s] = value(s, it)
      BY <2>3
    <3>2. CASE s = {}
      BY <3>1, <3>2
    <3>3. CASE s # {}
      <4> DEFINE rest == s \ {max(s)}
      <4>4. rest \in SUBSET S
        OBVIOUS
      <4>3. Cardinality(rest) = Cardinality(s) - 1
        BY <1>4, <3>3
      <4> HIDE DEF rest
      <4>5. Cardinality(rest) <= m
        BY <1>2, <2>3, <4>3, <4>4
      <4>1. Cardinality(s \ {max(s)}) <= m /\ s \ {max(s)} \in SUBSET S
        BY <4>4, <4>5 DEF rest
      <4>2. more[s \ {max(s)}] = it[s \ {max(s)}]
        BY <2>2, <4>1
      <4> HIDE DEF more
      <4> QED
        BY <3>1, <3>3, <4>2
    <3> QED
      BY <3>2, <3>3
  <2>4. more = [s \in SUBSET S |-> more[s]]
    OBVIOUS
  <2> HIDE DEF more, value
  <2>5. upto(m + 1, more)
    BY <2>3, <2>4
  <2> HIDE DEF upto
  <2>6. m + 1 \in Nat /\ \E all : upto(m + 1, all)
    BY <2>5
  <2> QED
    BY <2>6
<1> HIDE DEF levels
<1>8. Nat \subseteq levels
  BY <1>6, <1>7, SetInduction
<1>9. \E it : runs(it)
  <2>1. PICK it : upto(Cardinality(S), it)
    BY <1>2, <1>8 DEF levels
  <2>2. \A s \in SUBSET S : it[s] = value(s, it)
    BY <1>2, <2>1
  <2> HIDE DEF value
  <2>3. runs(it)
    BY <2>1, <2>2
  <2> QED
    BY <2>3
<1> DEFINE run == CHOOSE it : runs(it)
<1>10. \A s \in SUBSET S : run[s] = value(s, run)
  <2>1. runs(run)
    BY <1>9
  <2> HIDE DEF run, value
  <2> QED
    BY <2>1
<1> HIDE DEF run
<1> DEFINE t == [k \in 0..n |-> run[1..k]]
<1>11. t[0] = base
  <2>1. run[{}] = base
    BY <1>10
  <2>2. 1..0 = {} /\ t[0] = run[1..0]
    OBVIOUS
  <2> HIDE DEF t, base
  <2> QED
    BY <2>1, <2>2
<1>12. ASSUME NEW k \in 0..n - 1 PROVE t[k + 1] = Detect(kind, t[k], file, content, content.uses[k + 1])
  <2>1. 1..k + 1 \in SUBSET S /\ 1..k + 1 # {}
    <3>1. k \in Nat /\ k + 1 <= n /\ 1 \in 1..k + 1
      OBVIOUS
    <3>2. \A x \in 1..k + 1 : x \in 1..n
      BY <3>1
    <3> QED
      BY <3>1, <3>2
  <2>2. run[1..k + 1] = Detect(kind, run[(1..k + 1) \ {k + 1}], file, content, content.uses[k + 1])
    BY <1>5, <1>10, <2>1
  <2>3. t[k + 1] = run[1..k + 1] /\ t[k] = run[1..k]
    OBVIOUS
  <2> HIDE DEF t
  <2> QED
    BY <1>5, <2>2, <2>3
<1>13. Names!Analyze(d, kind, file, content) = t[n]
  BY <1>1 DEF run
<1> QED
  <2> HIDE DEF t
  <2> QED
    BY <1>11, <1>12, <1>13

\* The analyses of a session follow each other.
LEMMA AfterAllTrace ==
  ASSUME NEW kind, NEW history, NEW n \in Nat, DOMAIN history = 1..n
  PROVE  \E t : /\ t[0] = Names!NewDetector
                /\ \A k \in 0..n - 1 : t[k + 1] = Names!Analyze(t[k], kind, history[k + 1].file, history[k + 1].content).d
                /\ Names!AfterAll(kind, history) = t[n]
<1> DEFINE S == 1..n
           base == Names!NewDetector
           max(s) == CHOOSE x \in s : \A y \in s : x >= y
           after(d, a) == Names!Analyze(d, kind, a.file, a.content).d
           value(s, it) == IF s = {} THEN base ELSE after(it[s \ {max(s)}], history[max(s)])
           runs(it) == it = [s \in SUBSET S |-> value(s, it)]
           upto(m, it) == /\ it = [s \in SUBSET S |-> it[s]]
                          /\ \A s \in SUBSET S : Cardinality(s) <= m => it[s] = value(s, it)
<1>1. Names!AfterAll(kind, history) = (CHOOSE it : runs(it))[S]
  BY DEF Names!AfterAll, Names!FoldLeft, Names!MapThenFoldSet, Names!Max
<1> HIDE DEF after
<1>2. \A s \in SUBSET S : IsFiniteSet(s) /\ Cardinality(s) \in Nat /\ Cardinality(s) <= Cardinality(S)
  <2>1. IsFiniteSet(S)
    BY FS_Interval
  <2> QED
    BY <2>1, FS_Subset, FS_CardinalityType
<1>3. \A s \in SUBSET S : s # {} => max(s) \in s
  BY Greatest
<1>4. \A s \in SUBSET S : s # {} => Cardinality(s \ {max(s)}) = Cardinality(s) - 1
  BY <1>2, <1>3, FS_RemoveElement
<1>5. \A k \in 0..n - 1 : max(1..k + 1) = k + 1 /\ (1..k + 1) \ {k + 1} = 1..k
  <2> SUFFICES ASSUME NEW k \in 0..n - 1 PROVE max(1..k + 1) = k + 1 /\ (1..k + 1) \ {k + 1} = 1..k
    OBVIOUS
  <2> DEFINE s == 1..k + 1
  <2>1. k + 1 \in s /\ \A y \in s : k + 1 >= y
    OBVIOUS
  <2>2. max(s) \in s /\ \A y \in s : max(s) >= y
    BY <2>1
  <2>3. max(s) = k + 1
    <3> HIDE DEF max
    <3> QED
      BY <2>1, <2>2
  <2> QED
    BY <2>3
<1> HIDE DEF max
<1> DEFINE levels == {m \in Nat : \E it : upto(m, it)}
<1>6. 0 \in levels
  <2> DEFINE it == [s \in SUBSET S |-> base]
  <2>1. \A s \in SUBSET S : Cardinality(s) <= 0 => s = {}
    BY <1>2, FS_EmptySet
  <2>2. upto(0, it)
    BY <2>1
  <2> QED
    BY <2>2
<1>7. ASSUME NEW m \in Nat, m \in levels PROVE m + 1 \in levels
  <2>1. PICK it : upto(m, it)
    BY <1>7
  <2> HIDE DEF base
  <2> DEFINE more == [s \in SUBSET S |-> IF Cardinality(s) <= m + 1 THEN value(s, it) ELSE base]
  <2>2. ASSUME NEW s \in SUBSET S, Cardinality(s) <= m PROVE more[s] = it[s]
    <3>1. it[s] = value(s, it)
      BY <2>1, <2>2
    <3>2. Cardinality(s) <= m + 1
      BY <1>2, <2>2
    <3> HIDE DEF value
    <3> QED
      BY <3>1, <3>2
  <2>3. ASSUME NEW s \in SUBSET S, Cardinality(s) <= m + 1 PROVE more[s] = value(s, more)
    <3>1. more[s] = value(s, it)
      BY <2>3
    <3>2. CASE s = {}
      BY <3>1, <3>2
    <3>3. CASE s # {}
      <4> DEFINE rest == s \ {max(s)}
      <4>4. rest \in SUBSET S
        OBVIOUS
      <4>3. Cardinality(rest) = Cardinality(s) - 1
        BY <1>4, <3>3
      <4> HIDE DEF rest
      <4>5. Cardinality(rest) <= m
        BY <1>2, <2>3, <4>3, <4>4
      <4>1. Cardinality(s \ {max(s)}) <= m /\ s \ {max(s)} \in SUBSET S
        BY <4>4, <4>5 DEF rest
      <4>2. more[s \ {max(s)}] = it[s \ {max(s)}]
        BY <2>2, <4>1
      <4> HIDE DEF more
      <4> QED
        BY <3>1, <3>3, <4>2
    <3> QED
      BY <3>2, <3>3
  <2>4. more = [s \in SUBSET S |-> more[s]]
    OBVIOUS
  <2> HIDE DEF more, value
  <2>5. upto(m + 1, more)
    BY <2>3, <2>4
  <2> HIDE DEF upto
  <2>6. m + 1 \in Nat /\ \E all : upto(m + 1, all)
    BY <2>5
  <2> QED
    BY <2>6
<1> HIDE DEF levels
<1>8. Nat \subseteq levels
  BY <1>6, <1>7, SetInduction
<1>9. \E it : runs(it)
  <2>1. PICK it : upto(Cardinality(S), it)
    BY <1>2, <1>8 DEF levels
  <2>2. \A s \in SUBSET S : it[s] = value(s, it)
    BY <1>2, <2>1
  <2> HIDE DEF value
  <2>3. runs(it)
    BY <2>1, <2>2
  <2> QED
    BY <2>3
<1> DEFINE run == CHOOSE it : runs(it)
<1>10. \A s \in SUBSET S : run[s] = value(s, run)
  <2>1. runs(run)
    BY <1>9
  <2> HIDE DEF run, value
  <2> QED
    BY <2>1
<1> HIDE DEF run
<1> DEFINE t == [k \in 0..n |-> run[1..k]]
<1>11. t[0] = base
  <2>1. run[{}] = base
    BY <1>10
  <2>2. 1..0 = {} /\ t[0] = run[1..0]
    OBVIOUS
  <2> HIDE DEF t, base
  <2> QED
    BY <2>1, <2>2
<1>12. ASSUME NEW k \in 0..n - 1 PROVE t[k + 1] = after(t[k], history[k + 1])
  <2>1. 1..k + 1 \in SUBSET S /\ 1..k + 1 # {}
    <3>1. k \in Nat /\ k + 1 <= n /\ 1 \in 1..k + 1
      OBVIOUS
    <3>2. \A x \in 1..k + 1 : x \in 1..n
      BY <3>1
    <3> QED
      BY <3>1, <3>2
  <2>2. run[1..k + 1] = after(run[(1..k + 1) \ {k + 1}], history[k + 1])
    BY <1>5, <1>10, <2>1
  <2>3. t[k + 1] = run[1..k + 1] /\ t[k] = run[1..k]
    OBVIOUS
  <2> HIDE DEF t
  <2> QED
    BY <1>5, <2>2, <2>3
<1>13. Names!AfterAll(kind, history) = t[n]
  BY <1>1 DEF run
<1> QED
  <2> HIDE DEF t
  <2> QED
    BY <1>11, <1>12, <1>13 DEF after

(***************************************************************************)
(* Names.  A content is well made if its imports and uses are sequences    *)
(* and no name used is "*"; a detector is current with a content if it     *)
(* knows its definitions, and its imports or none.                         *)
(***************************************************************************)
WellMade(c) ==
  /\ \E m \in Nat : DOMAIN c.imports = 1..m
  /\ \E n \in Nat : DOMAIN c.uses = 1..n /\ (c.uses = <<>> <=> n = 0)
  /\ \A i \in DOMAIN c.uses : c.uses[i].module # "*" /\ c.uses[i].name # "*"

NoImports == [n \in {} |-> ""]
Current(d, file, c) ==
  \E imports \in {NoImports, Names!BuildImportMap(c)} :
    d = [file |-> file, locals |-> c.defines, imports |-> imports]
IsDetector(d) == \E file, locals, imports : d = [file |-> file, locals |-> locals, imports |-> imports]

\* The import map takes a name to the target of its last import.
LEMMA ImportMapFacts ==
  ASSUME NEW c, WellMade(c), NEW name, name # "*"
  PROVE  LET map      == Names!BuildImportMap(c)
             imported == {i \in DOMAIN c.imports : c.imports[i].as = name}
         IN /\ name \in DOMAIN map <=> imported # {}
            /\ imported # {} => map[name] = c.imports[CHOOSE i \in imported : \A j \in imported : j <= i].target
<1> DEFINE imports == c.imports
           imported == {i \in DOMAIN imports : imports[i].as = name}
           last == CHOOSE i \in DOMAIN imports :
                     /\ imports[i].as = name
                     /\ \A j \in i + 1..Len(imports) : imports[j].as # name
           top == CHOOSE i \in imported : \A j \in imported : j <= i
           map == Names!BuildImportMap(c)
<1>1. /\ DOMAIN map = {imports[i].as : i \in DOMAIN imports} \ {"*"}
      /\ name \in DOMAIN map => map[name] = imports[last].target
  BY DEF Names!BuildImportMap
<1>2. name \in DOMAIN map <=> imported # {}
  BY <1>1
<1>3. ASSUME imported # {} PROVE last = top
  <2>1. PICK m \in Nat : DOMAIN imports = 1..m
    BY DEF WellMade
  <2>2. Len(imports) = m
    BY <2>1
  <2> HIDE DEF imports
  <2>3. imported \in SUBSET (1..m)
    BY <2>1
  <2>4. \E i \in imported : \A j \in imported : i >= j
    BY <1>3, <2>3, Greatest
  <2>5. PICK i \in imported : \A j \in imported : j <= i
    BY <2>1, <2>4
  <2>6. \A k \in imported : (\A j \in imported : j <= k) => k = i
    BY <2>1, <2>5
  <2>7. top = i
    BY <2>5, <2>6
  <2>8. \A k \in 1..m : k = i <=> imports[k].as = name /\ \A j \in k + 1..m : imports[j].as # name
    BY <2>1, <2>5
  <2>9. last = i
    BY <2>1, <2>2, <2>5, <2>8
  <2> QED
    BY <2>7, <2>9
<1> HIDE DEF last, top, map, imported
<1>4. imported # {} => map[name] = imports[top].target
  BY <1>1, <1>2, <1>3
<1> QED
  BY <1>2, <1>4 DEF top, map, imported

\* what is found after the i-th use, if it is right
Found(next, done, kind, file, c, i) ==
  /\ Current(next.d, file, c)
  /\ i \in Names!Reported(kind, c) =>
       next.found = Append(done.found, <<c.uses[i], Names!Reference(file, c, c.uses[i])>>)
  /\ i \notin Names!Reported(kind, c) => next.found = done.found

(***************************************************************************)
(* A use met by a detector that is current, or becomes so by meeting it,   *)
(* is found to be what it refers to, and leaves the detector current.      *)
(***************************************************************************)
LEMMA DetectFinds ==
  ASSUME NEW c, WellMade(c), NEW file, NEW kind \in {"call", "parent"}, NEW i \in DOMAIN c.uses,
         NEW done, Current(Names!ForFile(done.d, file, c), file, c)
  PROVE  Found(Detect(kind, done, file, c, c.uses[i]), done, kind, file, c, i)
<1> DEFINE use == c.uses[i]
           d == Names!ForFile(done.d, file, c)
           map == Names!BuildImportMap(c)
           e == Names!WithImports(d, c)
           full == [file |-> file, locals |-> c.defines, imports |-> map]
           name == IF use.module = "" THEN use.name ELSE use.module
           imported == {j \in DOMAIN c.imports : c.imports[j].as = name}
           r == IF use.module = "" THEN Names!ResolveSimple(d, c, use.name)
                ELSE Names!ResolveQualified(d, c, use.module)
<1>1. PICK imports \in {NoImports, map} : d = [file |-> file, locals |-> c.defines, imports |-> imports]
  BY DEF Current
<1>2. e = full
  <2>1. DOMAIN NoImports = {}
    BY DEF NoImports
  <2> HIDE DEF d, map
  <2>2. DOMAIN d.imports = {} => [d EXCEPT !.imports = map] = full
    BY <1>1
  <2>3. DOMAIN d.imports # {} => d = full
    BY <1>1, <2>1
  <2> QED
    BY <2>2, <2>3 DEF Names!WithImports, map
<1>3. name # "*"
  BY DEF WellMade
<1> HIDE DEF name
<1>4. /\ name \in DOMAIN map <=> imported # {}
      /\ imported # {} => map[name] = c.imports[CHOOSE j \in imported : \A k \in imported : k <= j].target
  BY <1>3, ImportMapFacts
<1> DEFINE ref == Names!Reference(file, c, use)
<1> HIDE DEF imported, use
<1>5. /\ use.module = "" /\ use.name \in c.defines => ref = file
      /\ ~(use.module = "" /\ use.name \in c.defines) /\ imported # {} => ref = map[name]
      /\ ~(use.module = "" /\ use.name \in c.defines) /\ imported = {} =>
           ref = IF use.module = "" /\ use.name \in Names!Builtins THEN "builtin" ELSE "unresolved"
  <2>1. ref = LET given  == {j \in DOMAIN c.imports : c.imports[j].as = IF use.module = "" THEN use.name ELSE use.module}
                  target == c.imports[CHOOSE j \in given : \A k \in given : k <= j].target
              IN CASE use.module = "" /\ use.name \in c.defines -> file
                   [] ~(use.module = "" /\ use.name \in c.defines) /\ given # {} -> target
                   [] OTHER -> IF use.module = "" /\ use.name \in Names!Builtins THEN "builtin" ELSE "unresolved"
    BY DEF Names!Reference
  <2> HIDE DEF ref
  <2>2. ref = CASE use.module = "" /\ use.name \in c.defines -> file
                [] ~(use.module = "" /\ use.name \in c.defines) /\ imported # {} ->
                     c.imports[CHOOSE j \in imported : \A k \in imported : k <= j].target
                [] OTHER -> IF use.module = "" /\ use.name \in Names!Builtins THEN "builtin" ELSE "unresolved"
    BY <2>1 DEF imported, name
  <2> QED
    BY <1>4, <2>2
<1>6. d.file = file /\ d.locals = c.defines /\ e.imports = map
  BY <1>1, <1>2
<1> HIDE DEF d, e, map, ref
<1>7. /\ r[1] \in {d, e}
      /\ use.module # "" => r[1] = e
      /\ r[2] = ref
  <2>1. CASE use.module = ""
    <3>1. r = Names!ResolveSimple(d, c, use.name) /\ name = use.name
      BY <2>1 DEF name
    <3> HIDE DEF r
    <3>2. CASE use.name \in c.defines
      <4>1. r = <<d, d.file>>
        BY <1>6, <3>1, <3>2 DEF Names!ResolveSimple
      <4> QED
        BY <1>5, <1>6, <2>1, <3>2, <4>1
    <3>3. CASE use.name \notin c.defines /\ name \in DOMAIN map
      <4>1. r = <<e, e.imports[name]>>
        BY <1>6, <3>1, <3>3 DEF Names!ResolveSimple, e
      <4>2. r[1] = e /\ r[2] = map[name]
        BY <1>6, <4>1
      <4>3. ref = map[name]
        BY <1>4, <1>5, <2>1, <3>3
      <4> QED
        BY <2>1, <4>2, <4>3
    <3>4. CASE use.name \notin c.defines /\ name \notin DOMAIN map
      <4>1. r = <<e, IF name \in Names!Builtins THEN "builtin" ELSE "unresolved">>
        BY <1>6, <3>1, <3>4 DEF Names!ResolveSimple, e
      <4>2. r[1] = e /\ r[2] = IF name \in Names!Builtins THEN "builtin" ELSE "unresolved"
        BY <4>1
      <4>3. ref = IF name \in Names!Builtins THEN "builtin" ELSE "unresolved"
        BY <1>4, <1>5, <2>1, <3>1, <3>4
      <4> QED
        BY <2>1, <4>2, <4>3
    <3> QED
      BY <3>2, <3>3, <3>4
  <2>2. CASE use.module # ""
    <3>1. r = Names!ResolveQualified(d, c, use.module) /\ name = use.module
      BY <2>2 DEF name
    <3> HIDE DEF r
    <3>2. r = <<e, IF name \notin DOMAIN map THEN "unresolved" ELSE map[name]>>
      BY <1>6, <3>1 DEF Names!ResolveQualified, Names!IsMarker, Names!Marked, e
    <3> QED
      BY <1>4, <1>5, <2>2, <3>2
  <2> QED
    BY <2>1, <2>2
<1>8. Current(r[1], file, c)
  <2>1. Current(d, file, c) /\ Current(e, file, c)
    BY <1>1, <1>2 DEF Current, map, d
  <2> QED
    BY <1>7, <2>1
<1>9. i \in Names!Reported(kind, c) <=> ~ (kind = "call" /\ use.module # "" /\ imported = {})
  BY DEF Names!Reported, use, imported, name
<1>10. Names!SkippedCall(r[1], use) <=> use.module # "" /\ imported = {}
  BY <1>4, <1>6, <1>7 DEF Names!SkippedCall, name
<1> DEFINE next == Detect(kind, done, file, c, use)
<1>11. next = [d |-> r[1], found |-> IF kind = "call" /\ Names!SkippedCall(r[1], use) THEN done.found
                                     ELSE Append(done.found, <<use, r[2]>>)]
  BY DEF Detect, Names!DetectCall, Names!DetectParent, d
<1> HIDE DEF r, next
<1>12. /\ next.d = r[1]
       /\ next.found = IF kind = "call" /\ Names!SkippedCall(r[1], use) THEN done.found
                       ELSE Append(done.found, <<use, r[2]>>)
  BY <1>11
<1> QED
  BY <1>7, <1>8, <1>9, <1>10, <1>12 DEF Found, next, use, ref

\* The modules of the algorithms count as this one does.
LEMMA NamesCount == \A S : Names!Cardinality(S) = Cardinality(S)
BY DEF Names!Cardinality, Cardinality

\* Whatever it knew, a detector knows the file it meets a use of.
LEMMA DetectMoves ==
  ASSUME NEW c, NEW file, NEW kind, NEW use, NEW done, IsDetector(done.d)
  PROVE  LET next == Detect(kind, done, file, c, use)
         IN IsDetector(next.d) /\ next.d.file = file
<1> DEFINE d == Names!ForFile(done.d, file, c)
           e == Names!WithImports(d, c)
           r == IF use.module = "" THEN Names!ResolveSimple(d, c, use.name)
                ELSE Names!ResolveQualified(d, c, use.module)
           next == Detect(kind, done, file, c, use)
<1>1. \E locals, imports : d = [file |-> file, locals |-> locals, imports |-> imports]
  BY DEF IsDetector, Names!ForFile
<1> HIDE DEF d
<1>2. \E locals, imports : e = [file |-> file, locals |-> locals, imports |-> imports]
  <2>1. PICK locals, imports : d = [file |-> file, locals |-> locals, imports |-> imports]
    BY <1>1
  <2> DEFINE full == [d EXCEPT !.imports = Names!BuildImportMap(c)]
  <2>2. full = [file |-> file, locals |-> locals, imports |-> Names!BuildImportMap(c)]
    BY <2>1
  <2>3. e \in {d, full}
    BY DEF Names!WithImports
  <2> HIDE DEF e, full
  <2> QED
    BY <2>1, <2>2, <2>3
<1>3. r[1] \in {d, e}
  BY DEF Names!ResolveSimple, Names!ResolveQualified
<1>4. next.d = r[1]
  <2>1. next = [d |-> r[1], found |-> IF kind = "call" /\ Names!SkippedCall(r[1], use) THEN done.found
                                      ELSE Append(done.found, <<use, r[2]>>)]
    BY DEF Detect, Names!DetectCall, Names!DetectParent, d
  <2> HIDE DEF r, next
  <2> QED
    BY <2>1
<1> HIDE DEF e, r, next
<1>5. IsDetector(next.d) /\ next.d.file = file
  <2>1. PICK locals, imports : next.d = [file |-> file, locals |-> locals, imports |-> imports]
    BY <1>1, <1>2, <1>3, <1>4
  <2>2. next.d.file = file
    BY <2>1
  <2> QED
    BY <2>1, <2>2 DEF IsDetector
<1> QED
  BY <1>5 DEF next

(***************************************************************************)
(* A detector that looks at a file knows it from then on, before the first *)
(* use: what it would know after a use it knows at once.                   *)
(***************************************************************************)
LEMMA EnterFacts ==
  ASSUME NEW c, NEW file, NEW kind, NEW d
  PROVE  LET e == Names!Enter(d, kind, file, c)
         IN /\ ~ Names!Looks(kind, c) => e = d
            /\ Names!Looks(kind, c) => e.file = file /\ e = Names!ForFile(d, file, c)
            /\ Names!ForFile(e, file, c) = Names!ForFile(d, file, c)
            /\ IsDetector(d) => IsDetector(e)
<1> DEFINE e == Names!Enter(d, kind, file, c)
           f == Names!ForFile(d, file, c)
           new == [file |-> file, locals |-> c.defines, imports |-> [n \in {} |-> ""]]
<1>1. f = (IF d.file = file THEN d ELSE new) /\ e = (IF Names!Looks(kind, c) THEN f ELSE d)
  BY DEF Names!ForFile, Names!Enter
<1>2. new.file = file /\ IsDetector(new)
  BY DEF IsDetector
<1> HIDE DEF new
<1>3. f.file = file /\ (IsDetector(d) => IsDetector(f))
  BY <1>1, <1>2
<1>4. Names!ForFile(f, file, c) = f
  BY <1>3 DEF Names!ForFile
<1> HIDE DEF e, f
<1> QED
  BY <1>1, <1>3, <1>4 DEF e, f

LEMMA AnalyzeMoves ==
  ASSUME NEW c, WellMade(c), NEW file, NEW kind, NEW d, IsDetector(d)
  PROVE  LET after == Names!Analyze(d, kind, file, c).d
         IN /\ IsDetector(after)
            /\ ~ Names!Looks(kind, c) => after = d
            /\ Names!Looks(kind, c) => after.file = file
<1> DEFINE e == Names!Enter(d, kind, file, c)
<1>1. PICK n \in Nat : DOMAIN c.uses = 1..n /\ (c.uses = <<>> <=> n = 0)
  BY DEF WellMade
<1>0. /\ IsDetector(e)
      /\ ~ Names!Looks(kind, c) => e = d /\ n = 0
      /\ Names!Looks(kind, c) => e.file = file
  BY <1>1, EnterFacts DEF Names!Looks
<1>2. PICK t : /\ t[0] = [d |-> e, found |-> <<>>]
               /\ \A k \in 0..n - 1 : t[k + 1] = Detect(kind, t[k], file, c, c.uses[k + 1])
               /\ Names!Analyze(d, kind, file, c) = t[n]
  BY <1>1, AnalyzeTrace
<1> HIDE DEF e
<1> DEFINE good == {k \in Nat : k <= n => IsDetector(t[k].d) /\ (k = 0 => t[k].d = e) /\ (k > 0 => t[k].d.file = file)}
<1>3. 0 \in good
  <2>1. t[0].d = e
    BY <1>2
  <2> QED
    BY <1>0, <2>1
<1>4. ASSUME NEW k \in Nat, k \in good PROVE k + 1 \in good
  <2> SUFFICES ASSUME k + 1 <= n PROVE IsDetector(t[k + 1].d) /\ t[k + 1].d.file = file
    OBVIOUS
  <2>1. k \in 0..n - 1 /\ IsDetector(t[k].d)
    BY <1>4
  <2>2. t[k + 1] = Detect(kind, t[k], file, c, c.uses[k + 1])
    BY <1>2, <2>1
  <2> QED
    BY <2>1, <2>2, DetectMoves
<1> HIDE DEF good
<1>5. n \in good
  BY <1>3, <1>4, SetInduction
<1>6. IsDetector(t[n].d) /\ (n = 0 => t[n].d = e) /\ (n > 0 => t[n].d.file = file)
  BY <1>5 DEF good
<1> QED
  BY <1>0, <1>2, <1>6

(***************************************************************************)
(* A detector that is current with a file, or becomes so, finds all that   *)
(* is to be reported of it, in order, and stays current.                   *)
(***************************************************************************)
LEMMA AnalyzeFinds ==
  ASSUME NEW c, WellMade(c), NEW file, NEW kind, kind \in {"call", "parent"},
         NEW d, Current(Names!ForFile(d, file, c), file, c)
  PROVE  LET all == Names!Analyze(d, kind, file, c)
         IN /\ Names!Looks(kind, c) => Current(all.d, file, c)
            /\ Names!FindsAll(all.found, kind, file, c)
<1>1. PICK n \in Nat : DOMAIN c.uses = 1..n /\ (c.uses = <<>> <=> n = 0)
  BY DEF WellMade
<1> DEFINE e == Names!Enter(d, kind, file, c)
<1>0. /\ Current(Names!ForFile(e, file, c), file, c)
      /\ Names!Looks(kind, c) => Current(e, file, c)
      /\ ~ Names!Looks(kind, c) => n = 0
  BY <1>1, EnterFacts DEF Names!Looks
<1>2. PICK t : /\ t[0] = [d |-> e, found |-> <<>>]
               /\ \A k \in 0..n - 1 : t[k + 1] = Detect(kind, t[k], file, c, c.uses[k + 1])
               /\ Names!Analyze(d, kind, file, c) = t[n]
  BY <1>1, AnalyzeTrace
<1> HIDE DEF e
<1> DEFINE reported == Names!Reported(kind, c)
           upto(k) == {j \in reported : j <= k}
           count(k) == Names!Place(reported, k)
           item == [i \in reported |-> <<c.uses[i], Names!Reference(file, c, c.uses[i])>>]
           Items == {item[i] : i \in reported}
           lists(f, k) == /\ f \in Seq(Items) /\ Len(f) = count(k)
                          /\ \A i \in upto(k) : f[count(i)] = item[i]
           good == {k \in Nat : k <= n =>
                      /\ k = 0 => t[k].d = e
                      /\ k > 0 => Current(t[k].d, file, c)
                      /\ lists(t[k].found, k)}
<1>3. reported \subseteq 1..n
  BY <1>1 DEF Names!Reported
<1> HIDE DEF reported
<1>13. \A k : count(k) = Cardinality(upto(k))
  BY NamesCount DEF Names!Place
<1>15. \A k, j : j \in upto(k) <=> j \in reported /\ j <= k
  OBVIOUS
<1> HIDE DEF upto, count
<1>4. \A k \in 0..n : IsFiniteSet(upto(k)) /\ count(k) \in Nat
  <2>1. IsFiniteSet(1..n)
    BY FS_Interval
  <2> QED
    BY <1>3, <1>13, <1>15, <2>1, FS_Subset, FS_CardinalityType
<1>5. \A k \in 0..n : \A i \in upto(k) : i \in 1..n /\ count(i) \in 1..count(k)
  <2> SUFFICES ASSUME NEW k \in 0..n, NEW i \in upto(k) PROVE i \in 1..n /\ count(i) \in 1..count(k)
    OBVIOUS
  <2>1. i \in 1..n /\ i <= k
    BY <1>3, <1>15
  <2>2. upto(i) \subseteq upto(k) /\ i \in upto(i)
    <3>1. \A j \in reported : j <= i => j <= k
      BY <1>3, <2>1
    <3>2. i \in reported /\ i <= i
      BY <1>15, <2>1
    <3> QED
      BY <1>15, <3>1, <3>2
  <2>3. count(i) <= count(k) /\ count(i) # 0
    BY <1>4, <1>13, <2>1, <2>2, FS_Subset, FS_EmptySet
  <2> QED
    BY <1>4, <2>1, <2>3
<1>6. ASSUME NEW k \in 0..n - 1
      PROVE  /\ k + 1 \in reported => upto(k + 1) = upto(k) \cup {k + 1} /\ count(k + 1) = count(k) + 1
             /\ k + 1 \notin reported => upto(k + 1) = upto(k)
  <2>5. \A j \in reported : j <= k + 1 <=> j <= k \/ j = k + 1
    BY <1>3
  <2>1. k + 1 \in reported => upto(k + 1) = upto(k) \cup {k + 1}
    BY <1>15, <2>5
  <2>2. k + 1 \notin reported => upto(k + 1) = upto(k)
    BY <1>15, <2>5
  <2>3. IsFiniteSet(upto(k)) /\ k + 1 \notin upto(k)
    BY <1>4, <1>15
  <2>4. k + 1 \in reported => count(k + 1) = count(k) + 1
    BY <1>13, <2>1, <2>3, FS_AddElement
  <2> QED
    BY <2>1, <2>2, <2>4
<1>7. 0 \in good
  <2>1. upto(0) = {}
    <3>1. \A j \in reported : ~ (j <= 0)
      BY <1>3
    <3> QED
      BY <1>15, <3>1
  <2>2. count(0) = 0
    BY <1>13, <2>1, FS_EmptySet
  <2>3. t[0].d = e /\ t[0].found = <<>>
    BY <1>2
  <2> HIDE DEF Items
  <2>4. lists(<<>>, 0)
    BY <2>1, <2>2
  <2> HIDE DEF lists
  <2>5. lists(t[0].found, 0)
    BY <2>3, <2>4
  <2> QED
    BY <2>3, <2>5
<1> HIDE DEF lists
<1>8. ASSUME NEW k \in Nat, k \in good PROVE k + 1 \in good
  <2> SUFFICES ASSUME k + 1 <= n
               PROVE  Current(t[k + 1].d, file, c) /\ lists(t[k + 1].found, k + 1)
    OBVIOUS
  <2>1. k \in 0..n - 1 /\ k + 1 \in 1..n
    BY <1>8
  <2>2. t[k + 1] = Detect(kind, t[k], file, c, c.uses[k + 1])
    BY <1>2, <2>1
  <2>3. Current(Names!ForFile(t[k].d, file, c), file, c)
    <3>1. CASE k = 0
      BY <1>0, <1>8, <2>1, <3>1
    <3>2. CASE k > 0
      BY <1>8, <2>1, <3>2 DEF Current, Names!ForFile
    <3> QED
      BY <3>1, <3>2
  <2>4. /\ Current(t[k + 1].d, file, c)
        /\ k + 1 \in reported =>
             t[k + 1].found = Append(t[k].found, <<c.uses[k + 1], Names!Reference(file, c, c.uses[k + 1])>>)
        /\ k + 1 \notin reported => t[k + 1].found = t[k].found
    <3> DEFINE done == t[k]
               i == k + 1
               next == Detect(kind, done, file, c, c.uses[i])
    <3>1. i \in DOMAIN c.uses /\ Current(Names!ForFile(done.d, file, c), file, c)
      BY <1>1, <2>1, <2>3
    <3>2. t[i] = next
      BY <2>2
    <3> HIDE DEF done, i
    <3>3. Found(next, done, kind, file, c, i)
      BY <3>1, DetectFinds
    <3> HIDE DEF next
    <3> QED
      BY <3>2, <3>3 DEF Found, done, i, reported
  <2>5. lists(t[k].found, k)
    BY <1>8, <2>1
  <2>6. lists(t[k + 1].found, k + 1)
    <3> DEFINE f == t[k].found
               h == t[k + 1].found
    <3> HIDE DEF f, h
    <3>1. CASE k + 1 \in reported
      <4>1. h = Append(f, item[k + 1]) /\ item[k + 1] \in Items
        BY <2>4, <3>1 DEF f, h
      <4>2. f \in Seq(Items) /\ Len(f) = count(k) /\ \A i \in upto(k) : f[count(i)] = item[i]
        BY <2>5 DEF f, lists
      <4>3. upto(k + 1) = upto(k) \cup {k + 1} /\ count(k + 1) = count(k) + 1 /\ count(k) \in Nat
        BY <1>4, <1>6, <2>1, <3>1
      <4>4. \A i \in upto(k) : count(i) \in 1..count(k)
        BY <1>5, <2>1
      <4> HIDE DEF Items, item
      <4>5. h \in Seq(Items) /\ Len(h) = count(k + 1) /\ h[count(k + 1)] = item[k + 1]
        BY <4>1, <4>2, <4>3
      <4>6. \A i \in upto(k) : h[count(i)] = item[i]
        BY <4>1, <4>2, <4>3, <4>4
      <4> QED
        BY <4>3, <4>5, <4>6 DEF h, lists
    <3>2. CASE k + 1 \notin reported
      <4>1. h = f /\ upto(k + 1) = upto(k) /\ count(k + 1) = count(k)
        BY <1>6, <1>13, <2>1, <2>4, <3>2 DEF f, h
      <4> QED
        BY <2>5, <4>1 DEF f, h, lists
    <3> QED
      BY <3>1, <3>2
  <2> QED
    BY <2>4, <2>6
<1> HIDE DEF good
<1>9. n \in good
  BY <1>7, <1>8, SetInduction
<1>10. (n = 0 => t[n].d = e) /\ (n > 0 => Current(t[n].d, file, c)) /\ lists(t[n].found, n)
  <2> HIDE DEF lists
  <2> QED
    BY <1>9 DEF good
<1>11. upto(n) = reported
  <2>1. \A j \in reported : j <= n
    BY <1>3
  <2> QED
    BY <1>15, <2>1
<1>12. /\ Len(t[n].found) = Cardinality(reported)
       /\ \A i \in reported : t[n].found[count(i)] = item[i]
  <2>1. count(n) = Cardinality(reported)
    BY <1>11, <1>13
  <2> HIDE DEF item, Items
  <2> QED
    BY <1>10, <1>11, <2>1 DEF lists
<1>14. Names!FindsAll(t[n].found, kind, file, c)
  BY <1>12, NamesCount DEF Names!FindsAll, reported, count
<1> QED
  BY <1>0, <1>2, <1>10, <1>14

\* a file: not what a new detector has in its place
IsFile(file) == file # Names!NewDetector.file

(***************************************************************************)
(* Whatever a session analyzed, the names of a file are right, unless the  *)
(* detector has met other content of it since it last looked at another:   *)
(* what it knows is then that of the only content it met, or nothing of    *)
(* the file.                                                               *)
(***************************************************************************)
LEMMA NamesCorrect ==
  ASSUME NEW X, NEW history \in Seq(X), history # <<>>, NEW kind \in {"call", "parent"},
         \A k \in DOMAIN history : WellMade(history[k].content) /\ IsFile(history[k].file)
  PROVE  Names!NamesAreRight(kind, history)
<1> SUFFICES ASSUME ~ Names!Outdated(kind, history) PROVE Names!RightNow(kind, history)
  BY DEF Names!NamesAreRight
<1> DEFINE n == Len(history)
           m == n - 1
           before == Names!Front(history)
           now == history[n]
           looked(j) == Names!Looks(kind, history[j].content)
<1>1. n \in Nat /\ m \in Nat /\ n = m + 1 /\ DOMAIN history = 1..n /\ n \in 1..n
  <2>1. n \in Nat /\ DOMAIN history = 1..n
    OBVIOUS
  <2>2. n # 0
    BY EmptySeq
  <2> HIDE DEF n
  <2> QED
    BY <2>1, <2>2
<1>2. DOMAIN before = 1..m /\ \A k \in 1..m : before[k] = history[k]
  <2>1. before = SubSeq(history, 1, m)
    BY DEF Names!Front
  <2> HIDE DEF before, m, n
  <2> QED
    BY <1>1, <2>1, SubSeqProperties
<1>3. Names!Last(history) = now
  BY DEF Names!Last
<1>4. \A i \in 1..m : looked(i) /\ (\A j \in i..m : looked(j) => history[j].file = now.file)
                        => history[i].content = now.content
  BY DEF Names!Outdated
<1> HIDE DEF n, m, before
<1>5. PICK t : /\ t[0] = Names!NewDetector
               /\ \A k \in 0..m - 1 : t[k + 1] = Names!Analyze(t[k], kind, before[k + 1].file, before[k + 1].content).d
               /\ Names!AfterAll(kind, before) = t[m]
  BY <1>1, <1>2, AfterAllTrace
<1> DEFINE trailing(k) == {i \in 1..k : looked(i) /\ \A j \in i..k : looked(j) => history[j].file = now.file}
           knows(k) == (\A i \in trailing(k) : history[i].content = now.content)
                         => t[k].file # now.file \/ Current(t[k], now.file, now.content)
           good == {k \in Nat : k <= m => IsDetector(t[k]) /\ knows(k)}
<1>6. 0 \in good
  <2>1. t[0] = [file |-> "", locals |-> {}, imports |-> [x \in {} |-> ""]]
    BY <1>5 DEF Names!NewDetector
  <2>2. IsDetector(t[0])
    BY <2>1 DEF IsDetector
  <2>3. t[0].file # now.file
    BY <1>1, <1>5 DEF IsFile
  <2> QED
    BY <2>2, <2>3
<1>7. ASSUME NEW k \in Nat, k \in good PROVE k + 1 \in good
  <2> SUFFICES ASSUME k + 1 <= m PROVE IsDetector(t[k + 1]) /\ knows(k + 1)
    OBVIOUS
  <2> DEFINE a == history[k + 1]
             old == t[k]
             new == t[k + 1]
  <2>1. k \in 0..m - 1 /\ k + 1 \in 1..m /\ k + 1 \in 1..n /\ k <= m
    BY <1>1
  <2>2. new = Names!Analyze(old, kind, a.file, a.content).d
    BY <1>2, <1>5, <2>1
  <2>3. WellMade(a.content)
    BY <1>1, <2>1
  <2>4. IsDetector(old) /\ knows(k)
    BY <1>7, <2>1
  <2> HIDE DEF old, new, knows
  <2>5. /\ IsDetector(new)
        /\ ~ looked(k + 1) => new = old
        /\ looked(k + 1) => new.file = a.file
    BY <2>2, <2>3, <2>4, AnalyzeMoves
  <2>6. ASSUME \A i \in trailing(k + 1) : history[i].content = now.content
        PROVE  new.file # now.file \/ Current(new, now.file, now.content)
    <3>1. ASSUME looked(k + 1) => a.file = now.file
          PROVE  old.file # now.file \/ Current(old, now.file, now.content)
      <4>1. ASSUME NEW i \in trailing(k) PROVE i \in trailing(k + 1)
        <5>1. \A j \in i..k + 1 : j \in i..k \/ j = k + 1
          BY <2>1
        <5>2. i \in 1..k + 1
          BY <2>1
        <5> QED
          BY <3>1, <4>1, <5>1, <5>2
      <4> HIDE DEF trailing
      <4> QED
        BY <2>4, <2>6, <4>1 DEF knows, old
    <3>2. CASE ~ looked(k + 1)
      BY <2>5, <3>1, <3>2
    <3>3. CASE looked(k + 1) /\ a.file # now.file
      BY <2>5, <3>3
    <3>4. CASE looked(k + 1) /\ a.file = now.file
      <4>1. k + 1 \in trailing(k + 1)
        <5>1. \A j \in k + 1..k + 1 : j = k + 1
          BY <2>1
        <5> QED
          BY <2>1, <3>4, <5>1
      <4>2. a.content = now.content
        BY <2>6, <4>1
      <4>3. Current(Names!ForFile(old, a.file, a.content), a.file, a.content)
        <5>1. CASE old.file # a.file
          BY <5>1 DEF Names!ForFile, Current, NoImports
        <5>2. CASE old.file = a.file
          <6>1. Current(old, a.file, a.content)
            BY <3>1, <3>4, <4>2, <5>2
          <6> QED
            BY <5>2, <6>1 DEF Names!ForFile
        <5> QED
          BY <5>1, <5>2
      <4>4. Current(new, a.file, a.content)
        BY <2>2, <2>3, <3>4, <4>3, AnalyzeFinds
      <4> QED
        BY <3>4, <4>2, <4>4
    <3> QED
      BY <3>2, <3>3, <3>4
  <2>7. knows(k + 1)
    <3> HIDE DEF trailing
    <3> QED
      BY <2>6 DEF knows, new
  <2> QED
    BY <2>5, <2>7 DEF new
<1> HIDE DEF good
<1>8. m \in good
  BY <1>1, <1>6, <1>7, SetInduction
<1>9. t[m].file # now.file \/ Current(t[m], now.file, now.content)
  <2>1. \A i \in trailing(m) : history[i].content = now.content
    BY <1>4
  <2>2. knows(m)
    <3> HIDE DEF knows
    <3> QED
      BY <1>1, <1>8 DEF good
  <2> HIDE DEF trailing
  <2> QED
    BY <2>1, <2>2
<1> DEFINE d == t[m]
           c == now.content
           file == now.file
           all == Names!Analyze(d, kind, file, c)
<1>10. Current(Names!ForFile(d, file, c), file, c)
  BY <1>9 DEF Names!ForFile, Current, NoImports
<1>11. WellMade(c)
  BY <1>1
<1> HIDE DEF d, c, file
<1>12. Names!FindsAll(all.found, kind, file, c)
  BY <1>10, <1>11, AnalyzeFinds
<1>13. Names!Found(kind, history) = all.found
  BY <1>3, <1>5 DEF Names!Found, before, d, c, file
<1> HIDE DEF all
<1>14. Names!RightNow(kind, history) <=> Names!FindsAll(Names!Found(kind, history), kind, file, c)
  BY <1>3 DEF Names!RightNow, c, file
<1> QED
  BY <1>12, <1>13, <1>14

(***************************************************************************)
(* The histories given are such as NamesCorrect asks for.                  *)
(***************************************************************************)
LEMMA AnalysisWellMade ==
  ASSUME NEW S, NEW T, NEW U, \A u \in U : u.module # "*" /\ u.name # "*",
         NEW content \in [defines : T, imports : Seq(S), uses : Seq(U), others : BOOLEAN]
  PROVE  WellMade(content)
<1> DEFINE imports == content.imports
           uses == content.uses
<1>1. imports \in Seq(S) /\ uses \in Seq(U)
  OBVIOUS
<1> HIDE DEF imports, uses
<1>2. Len(imports) \in Nat /\ DOMAIN imports = 1..Len(imports)
  BY <1>1
<1>3. Len(uses) \in Nat /\ DOMAIN uses = 1..Len(uses) /\ (uses = <<>> <=> Len(uses) = 0)
  BY <1>1, EmptySeq
<1>4. \A i \in DOMAIN uses : uses[i] \in U
  BY <1>1, <1>3
<1> QED
  BY <1>2, <1>3, <1>4 DEF WellMade, imports, uses


-----------------------------------------------------------------------------
\* A function defined from the last of some numbers down to the first.
Downward(f, m, D, last, step) ==
  /\ f \in [1..m -> D] /\ f[m] = last
  /\ \A q \in 1..m - 1 : f[q] = step[q][f[q + 1]]

LEMMA RecursionDownward ==
  ASSUME NEW m \in Nat \ {0}, NEW D, NEW last \in D, NEW step \in [1..m - 1 -> [D -> D]]
  PROVE  \E f : Downward(f, m, D, last, step)
<1> DEFINE from(k, g) == /\ g \in [m - k..m -> D] /\ g[m] = last
                         /\ \A q \in m - k..m - 1 : g[q] = step[q][g[q + 1]]
           good == {k \in Nat : k <= m - 1 => \E g : from(k, g)}
<1>1. 0 \in good
  <2>1. from(0, [q \in m - 0..m |-> last])
    OBVIOUS
  <2> QED
    BY <2>1
<1>2. ASSUME NEW k \in Nat, k \in good PROVE k + 1 \in good
  <2> SUFFICES ASSUME k + 1 <= m - 1 PROVE \E g : from(k + 1, g)
    OBVIOUS
  <2>1. PICK g : from(k, g)
    BY <1>2
  <2> DEFINE r == m - (k + 1)
             h == [q \in r..m |-> IF q = r THEN step[r][g[r + 1]] ELSE g[q]]
  <2>2. r \in 1..m - 1 /\ r + 1 = m - k /\ r + 1 \in m - k..m
    OBVIOUS
  <2>3. g[r + 1] \in D
    BY <2>1, <2>2
  <2>4. step[r] \in [D -> D]
    BY <2>2
  <2>5. step[r][g[r + 1]] \in D
    BY <2>3, <2>4
  <2> HIDE DEF r
  <2>6. h \in [r..m -> D]
    BY <2>1, <2>2, <2>5
  <2>7. h[m] = last
    BY <2>1, <2>2
  <2>8. ASSUME NEW q \in r..m - 1 PROVE h[q] = step[q][h[q + 1]]
    <3>1. q + 1 \in r..m /\ q + 1 # r /\ q + 1 \in m - k..m
      BY <2>2
    <3>2. h[q + 1] = g[q + 1]
      BY <3>1
    <3>3. CASE q = r
      <4>1. h[q] = step[r][g[r + 1]]
        BY <2>2, <3>3
      <4> QED
        BY <3>2, <3>3, <4>1
    <3>4. CASE q # r
      <4>1. q \in m - k..m - 1 /\ h[q] = g[q]
        BY <2>2, <3>4
      <4> QED
        BY <2>1, <3>2, <4>1
    <3> QED
      BY <3>3, <3>4
  <2>9. from(k + 1, h)
    BY <2>6, <2>7, <2>8 DEF r
  <2> QED
    BY <2>9
<1> HIDE DEF good
<1>3. Nat \subseteq good
  BY <1>1, <1>2, SetInduction
<1>4. m - 1 \in good
  BY <1>3
<1>5. PICK g : from(m - 1, g)
  BY <1>4 DEF good
<1>6. m - (m - 1) = 1
  OBVIOUS
<1> QED
  BY <1>5, <1>6 DEF Downward

(***************************************************************************)
(* A pattern's parts from q on, laid over a path from p on.                *)
(***************************************************************************)
Fits(path, parts, i, a, b) ==
  \/ parts[i] = "**" /\ a <= b
  \/ b = a + 1 /\ parts[i] \in {"*", path[b]}

Laid(path, parts, p, q) ==
  \E cut \in [q - 1..Len(parts) -> 0..Len(path)] :
    /\ cut[q - 1] = p - 1 /\ cut[Len(parts)] = Len(path)
    /\ \A i \in q..Len(parts) : Fits(path, parts, i, cut[i - 1], cut[i])

LEMMA CoversIsLaid ==
  ASSUME NEW path, NEW parts, Len(parts) \in Nat, Len(path) \in Nat, DOMAIN parts = 1..Len(parts)
  PROVE  Suppression!Covers(path, parts) <=> Laid(path, parts, 1, 1)
  BY DEF Suppression!Covers, Laid, Fits

LEMMA LaidEnd ==
  ASSUME NEW path, NEW parts, Len(parts) \in Nat, Len(path) \in Nat, NEW p \in 1..Len(path) + 1
  PROVE  Laid(path, parts, p, Len(parts) + 1) <=> p = Len(path) + 1
<1> DEFINE m == Len(parts)
           n == Len(path)
<1>1. m \in Nat /\ n \in Nat /\ p \in 1..n + 1
  OBVIOUS
<1>2. Laid(path, parts, p, m + 1) <=> \E cut \in [(m + 1) - 1..m -> 0..n] :
         cut[(m + 1) - 1] = p - 1 /\ cut[m] = n /\ \A i \in m + 1..m : Fits(path, parts, i, cut[i - 1], cut[i])
  BY DEF Laid
<1> HIDE DEF m, n
<1>3. (m + 1) - 1 = m
  BY <1>1
<1>4. ASSUME Laid(path, parts, p, m + 1) PROVE p = n + 1
  BY <1>1, <1>2, <1>3, <1>4
<1>5. ASSUME p = n + 1 PROVE Laid(path, parts, p, m + 1)
  <2> DEFINE cut == [i \in (m + 1) - 1..m |-> n]
  <2>1. cut \in [(m + 1) - 1..m -> 0..n] /\ cut[m] = n
    BY <1>1
  <2>2. p - 1 = n /\ \A i \in m + 1..m : FALSE
    BY <1>1, <1>5
  <2> HIDE DEF cut
  <2> QED
    BY <1>2, <1>3, <2>1, <2>2
<1> QED
  BY <1>4, <1>5 DEF m, n

LEMMA LaidStep ==
  ASSUME NEW path, NEW parts, Len(parts) \in Nat, Len(path) \in Nat,
         NEW p \in 1..Len(path) + 1, NEW q \in 1..Len(parts)
  PROVE  Laid(path, parts, p, q) <=>
           \E k \in p..Len(path) + 1 : Fits(path, parts, q, p - 1, k - 1) /\ Laid(path, parts, k, q + 1)
<1> DEFINE m == Len(parts)
           n == Len(path)
<1>1. m \in Nat /\ n \in Nat /\ p \in 1..n + 1 /\ q \in 1..m
  OBVIOUS
<1>2. \A j, k : Laid(path, parts, k, j) <=> \E cut \in [j - 1..m -> 0..n] :
         cut[j - 1] = k - 1 /\ cut[m] = n /\ \A i \in j..m : Fits(path, parts, i, cut[i - 1], cut[i])
  BY DEF Laid
<1> HIDE DEF m, n
<1>3. (q + 1) - 1 = q
  BY <1>1
<1>4. ASSUME Laid(path, parts, p, q)
      PROVE  \E k \in p..n + 1 : Fits(path, parts, q, p - 1, k - 1) /\ Laid(path, parts, k, q + 1)
  <2>1. PICK cut \in [q - 1..m -> 0..n] :
          cut[q - 1] = p - 1 /\ cut[m] = n /\ \A i \in q..m : Fits(path, parts, i, cut[i - 1], cut[i])
    BY <1>2, <1>4
  <2> DEFINE k == cut[q] + 1
             rest == [i \in (q + 1) - 1..m |-> cut[i]]
  <2>2. cut[q] \in 0..n /\ k - 1 = cut[q] /\ Fits(path, parts, q, p - 1, cut[q])
    BY <1>1, <2>1
  <2>3. p - 1 <= cut[q]
    BY <1>1, <2>2 DEF Fits
  <2>4. k \in p..n + 1
    BY <1>1, <2>2, <2>3
  <2>5. \A i \in q..m : rest[i] = cut[i] /\ cut[i] \in 0..n
    BY <1>1, <1>3, <2>1
  <2>6. rest \in [(q + 1) - 1..m -> 0..n]
    BY <1>3, <2>5
  <2>7. rest[(q + 1) - 1] = k - 1 /\ rest[m] = n
    BY <1>1, <1>3, <2>1, <2>2, <2>5
  <2>8. ASSUME NEW i \in q + 1..m PROVE Fits(path, parts, i, rest[i - 1], rest[i])
    <3>1. i \in q..m /\ i - 1 \in q..m
      BY <1>1
    <3> QED
      BY <2>1, <2>5, <3>1
  <2> HIDE DEF rest, k
  <2>9. Laid(path, parts, k, q + 1)
    BY <1>2, <2>6, <2>7, <2>8
  <2> QED
    BY <2>2, <2>4, <2>9
<1>5. ASSUME NEW k \in p..n + 1, Fits(path, parts, q, p - 1, k - 1), Laid(path, parts, k, q + 1)
      PROVE  Laid(path, parts, p, q)
  <2>1. PICK rest \in [(q + 1) - 1..m -> 0..n] :
          rest[(q + 1) - 1] = k - 1 /\ rest[m] = n /\ \A i \in q + 1..m : Fits(path, parts, i, rest[i - 1], rest[i])
    BY <1>2, <1>5
  <2> DEFINE cut == [i \in q - 1..m |-> IF i = q - 1 THEN p - 1 ELSE rest[i]]
  <2>2. \A i \in q..m : cut[i] = rest[i] /\ rest[i] \in 0..n
    BY <1>1, <1>3, <2>1
  <2>3. cut[q - 1] = p - 1 /\ p - 1 \in 0..n
    BY <1>1
  <2>4. cut \in [q - 1..m -> 0..n]
    BY <1>1, <2>2, <2>3
  <2>5. cut[m] = n
    BY <1>1, <2>1, <2>2
  <2> HIDE DEF cut
  <2>6. ASSUME NEW i \in q..m PROVE Fits(path, parts, i, cut[i - 1], cut[i])
    <3>1. CASE i = q
      BY <1>1, <1>3, <1>5, <2>1, <2>2, <2>3, <3>1
    <3>2. CASE i # q
      <4>1. i \in q + 1..m /\ i - 1 \in q..m
        BY <1>1, <3>2
      <4> QED
        BY <2>1, <2>2, <4>1
    <3> QED
      BY <3>1, <3>2
  <2> QED
    BY <1>2, <2>3, <2>4, <2>5, <2>6
<1> QED
  BY <1>4, <1>5 DEF m, n

\* one step of the two matchers, from what the rest of the pattern matches
PartsMatching(path, parts, q, rest) ==
  {p \in 1..Len(path) + 1 :
     IF p < Len(path) + 1 /\ q < Len(parts) + 1
     THEN IF parts[q] = "**" THEN \E k \in p..Len(path) + 1 : k \in rest
          ELSE Suppression!SegmentMatches(path[p], parts[q]) /\ p + 1 \in rest
     ELSE p = Len(path) + 1 /\ \A r \in q..(Len(parts) + 1) - 1 : parts[r] = "**"}

WholeMatching(path, parts, q, rest) ==
  {p \in 1..Len(path) + 1 :
     IF q = Len(parts) + 1 THEN p = Len(path) + 1
     ELSE IF parts[q] = "*" THEN \E k \in p + 1..Len(path) + 1 : k \in rest
     ELSE p < Len(path) + 1 /\ path[p] = parts[q] /\ p + 1 \in rest}

LEMMA MatchPartsUnfolds ==
  ASSUME NEW path, NEW parts, Len(parts) \in Nat, Len(path) \in Nat
  PROVE  \E f : /\ \A q \in 1..Len(parts) + 1 : f[q] = PartsMatching(path, parts, q, f[q + 1])
                /\ Suppression!MatchParts(path, parts) <=> 1 \in f[1]
<1> DEFINE m == Len(parts) + 1
           S == 1..Len(path) + 1
           D == SUBSET S
           want(q, rest) == PartsMatching(path, parts, q, rest)
           is(f) == f = [q \in 1..m |-> want(q, f[q + 1])]
<1>1. Suppression!MatchParts(path, parts) <=> 1 \in (CHOOSE f : is(f))[1]
  BY DEF Suppression!MatchParts, PartsMatching
<1>2. \A q, rest : PartsMatching(path, parts, q, rest) \in D
  BY DEF PartsMatching
<1>3. \A rest : PartsMatching(path, parts, m, rest) = PartsMatching(path, parts, m, {})
  BY DEF PartsMatching
<1>4. m \in Nat \ {0}
  OBVIOUS
<1> HIDE DEF m, D
<1> DEFINE last == PartsMatching(path, parts, m, {})
           step == [q \in 1..m - 1 |-> [rest \in D |-> PartsMatching(path, parts, q, rest)]]
<1>5. last \in D /\ step \in [1..m - 1 -> [D -> D]]
  BY <1>2
<1>6. PICK f : Downward(f, m, D, last, step)
  <2> HIDE DEF last, step
  <2> QED
    BY <1>4, <1>5, RecursionDownward
<1>7. ASSUME NEW q \in 1..m PROVE f[q] = PartsMatching(path, parts, q, f[q + 1])
  <2>1. CASE q = m
    BY <1>3, <1>6, <2>1 DEF Downward
  <2>2. CASE q # m
    <3>1. q \in 1..m - 1 /\ q + 1 \in 1..m
      BY <1>4, <2>2
    <3>2. f[q + 1] \in D
      BY <1>6, <3>1 DEF Downward
    <3>3. f[q] = step[q][f[q + 1]]
      BY <1>6, <3>1 DEF Downward
    <3> QED
      BY <3>1, <3>2, <3>3
  <2> QED
    BY <2>1, <2>2
<1>8. is(f)
  <2>1. f = [q \in 1..m |-> f[q]]
    BY <1>6 DEF Downward
  <2>2. \A q \in 1..m : f[q] = want(q, f[q + 1])
    BY <1>7
  <2> HIDE DEF want
  <2> QED
    BY <2>1, <2>2
<1> DEFINE chosen == CHOOSE g : is(g)
<1>9. is(chosen)
  BY <1>8
<1> HIDE DEF chosen
<1>10. \A q \in 1..m : chosen[q] = PartsMatching(path, parts, q, chosen[q + 1])
  BY <1>9
<1>11. Suppression!MatchParts(path, parts) <=> 1 \in chosen[1]
  BY <1>1 DEF chosen
<1> QED
  BY <1>10, <1>11 DEF m

LEMMA FnMatchUnfolds ==
  ASSUME NEW path, NEW parts, Len(parts) \in Nat, Len(path) \in Nat
  PROVE  \E f : /\ \A q \in 1..Len(parts) + 1 : f[q] = WholeMatching(path, parts, q, f[q + 1])
                /\ Suppression!FnMatch(path, parts) <=> 1 \in f[1]
<1> DEFINE m == Len(parts) + 1
           S == 1..Len(path) + 1
           D == SUBSET S
           want(q, rest) == WholeMatching(path, parts, q, rest)
           is(f) == f = [q \in 1..m |-> want(q, f[q + 1])]
<1>1. Suppression!FnMatch(path, parts) <=> 1 \in (CHOOSE f : is(f))[1]
  BY DEF Suppression!FnMatch, WholeMatching
<1>2. \A q, rest : WholeMatching(path, parts, q, rest) \in D
  BY DEF WholeMatching
<1>3. \A rest : WholeMatching(path, parts, m, rest) = WholeMatching(path, parts, m, {})
  BY DEF WholeMatching
<1>4. m \in Nat \ {0}
  OBVIOUS
<1> HIDE DEF m, D
<1> DEFINE last == WholeMatching(path, parts, m, {})
           step == [q \in 1..m - 1 |-> [rest \in D |-> WholeMatching(path, parts, q, rest)]]
<1>5. last \in D /\ step \in [1..m - 1 -> [D -> D]]
  BY <1>2
<1>6. PICK f : Downward(f, m, D, last, step)
  <2> HIDE DEF last, step
  <2> QED
    BY <1>4, <1>5, RecursionDownward
<1>7. ASSUME NEW q \in 1..m PROVE f[q] = WholeMatching(path, parts, q, f[q + 1])
  <2>1. CASE q = m
    BY <1>3, <1>6, <2>1 DEF Downward
  <2>2. CASE q # m
    <3>1. q \in 1..m - 1 /\ q + 1 \in 1..m
      BY <1>4, <2>2
    <3>2. f[q + 1] \in D
      BY <1>6, <3>1 DEF Downward
    <3>3. f[q] = step[q][f[q + 1]]
      BY <1>6, <3>1 DEF Downward
    <3> QED
      BY <3>1, <3>2, <3>3
  <2> QED
    BY <2>1, <2>2
<1>8. is(f)
  <2>1. f = [q \in 1..m |-> f[q]]
    BY <1>6 DEF Downward
  <2>2. \A q \in 1..m : f[q] = want(q, f[q + 1])
    BY <1>7
  <2> HIDE DEF want
  <2> QED
    BY <2>1, <2>2
<1> DEFINE chosen == CHOOSE g : is(g)
<1>9. is(chosen)
  BY <1>8
<1> HIDE DEF chosen
<1>10. \A q \in 1..m : chosen[q] = WholeMatching(path, parts, q, chosen[q + 1])
  BY <1>9
<1>11. Suppression!FnMatch(path, parts) <=> 1 \in chosen[1]
  BY <1>1 DEF chosen
<1> QED
  BY <1>10, <1>11 DEF m

\* The matcher of patterns with "**" accepts what the pattern covers and nothing else.
LEMMA MatchPartsCovers ==
  ASSUME NEW path, NEW parts, Len(parts) \in Nat, Len(path) \in Nat, DOMAIN parts = 1..Len(parts)
  PROVE  Suppression!MatchParts(path, parts) <=> Suppression!Covers(path, parts)
<1>1. PICK f : /\ \A q \in 1..Len(parts) + 1 : f[q] = PartsMatching(path, parts, q, f[q + 1])
               /\ Suppression!MatchParts(path, parts) <=> 1 \in f[1]
  BY MatchPartsUnfolds
<1> DEFINE m == Len(parts)
           n == Len(path)
           trailing(q) == \A r \in q..m : parts[r] = "**"
           exact(q) == /\ \A p \in 1..n + 1 : p \in f[q] <=> Laid(path, parts, p, q)
                       /\ Laid(path, parts, n + 1, q) <=> trailing(q)
           good == {k \in Nat : k <= m => exact(m + 1 - k)}
<1>2. m \in Nat /\ n \in Nat /\ n + 1 \in 1..n + 1
  OBVIOUS
<1>3. ASSUME NEW q \in 1..m + 1, NEW p \in 1..n + 1
      PROVE  p \in f[q] <=> IF p < n + 1 /\ q < m + 1
                            THEN IF parts[q] = "**" THEN \E k \in p..n + 1 : k \in f[q + 1]
                                 ELSE parts[q] \in {"*", path[p]} /\ p + 1 \in f[q + 1]
                            ELSE p = n + 1 /\ trailing(q)
  <2>1. (m + 1) - 1 = m
    OBVIOUS
  <2> QED
    BY <1>1, <2>1 DEF PartsMatching, Suppression!SegmentMatches
<1>4. \A p \in 1..n + 1 : Laid(path, parts, p, m + 1) <=> p = n + 1
  BY LaidEnd
<1>5. \A p \in 1..n + 1, q \in 1..m : Laid(path, parts, p, q) <=>
         \E k \in p..n + 1 : Fits(path, parts, q, p - 1, k - 1) /\ Laid(path, parts, k, q + 1)
  BY LaidStep
<1> HIDE DEF m, n
<1>6. 0 \in good
  <2>1. m + 1 - 0 = m + 1 /\ m + 1 \in 1..m + 1 /\ trailing(m + 1)
    BY <1>2
  <2>2. exact(m + 1)
    BY <1>2, <1>3, <1>4, <2>1
  <2> QED
    BY <2>1, <2>2
<1>7. ASSUME NEW k \in Nat, k \in good PROVE k + 1 \in good
  <2> SUFFICES ASSUME k + 1 <= m PROVE exact(m + 1 - (k + 1))
    OBVIOUS
  <2> DEFINE q == m + 1 - (k + 1)
  <2>1. q \in 1..m /\ q + 1 = m + 1 - k /\ q \in 1..m + 1
    BY <1>2
  <2>2. exact(q + 1)
    BY <1>2, <1>7, <2>1
  <2> HIDE DEF q
  <2>3. Laid(path, parts, n + 1, q) <=> trailing(q)
    <3>1. \A j \in n + 1..n + 1 : j = n + 1
      BY <1>2
    <3>2. Laid(path, parts, n + 1, q) <=> Fits(path, parts, q, n, n) /\ Laid(path, parts, n + 1, q + 1)
      BY <1>2, <1>5, <2>1, <3>1
    <3>3. Fits(path, parts, q, n, n) <=> parts[q] = "**"
      BY <1>2 DEF Fits
    <3>4. \A r : r \in q..m <=> r = q \/ r \in q + 1..m
      BY <1>2, <2>1
    <3> QED
      BY <2>2, <3>2, <3>3, <3>4
  <2>4. ASSUME NEW p \in 1..n + 1 PROVE p \in f[q] <=> Laid(path, parts, p, q)
    <3>1. CASE p = n + 1
      BY <1>2, <1>3, <2>1, <2>3, <3>1
    <3>2. CASE p # n + 1 /\ parts[q] = "**"
      <4>1. p \in f[q] <=> \E j \in p..n + 1 : j \in f[q + 1]
        <5>1. p < n + 1 /\ q < m + 1
          BY <1>2, <2>1, <3>2
        <5> QED
          BY <1>3, <2>1, <3>2, <5>1
      <4>2. \A j \in p..n + 1 : j \in 1..n + 1 /\ p - 1 <= j - 1
        BY <1>2
      <4>3. \A j \in p..n + 1 : j \in 1..n + 1 /\ Fits(path, parts, q, p - 1, j - 1)
        BY <3>2, <4>2 DEF Fits
      <4> QED
        BY <1>5, <2>1, <2>2, <4>1, <4>3
    <3>3. CASE p # n + 1 /\ parts[q] # "**"
      <4>1. p \in f[q] <=> parts[q] \in {"*", path[p]} /\ p + 1 \in f[q + 1]
        BY SMTT(30), <1>2, <1>3, <2>1, <3>3
      <4>2. p + 1 \in p..n + 1 /\ p + 1 \in 1..n + 1
        BY <1>2, <3>3
      <4>3. \A j \in p..n + 1 : Fits(path, parts, q, p - 1, j - 1) <=> j = p + 1 /\ parts[q] \in {"*", path[p]}
        BY <1>2, <3>3 DEF Fits
      <4> QED
        BY <1>5, <2>1, <2>2, <4>1, <4>2, <4>3
    <3> QED
      BY <3>1, <3>2, <3>3
  <2> QED
    BY <2>3, <2>4 DEF q
<1> HIDE DEF good
<1>8. Nat \subseteq good
  BY <1>6, <1>7, SetInduction
<1>9. exact(1)
  <2>1. m + 1 - m = 1 /\ m <= m /\ m \in good
    BY <1>2, <1>8
  <2> QED
    BY <2>1 DEF good
<1>10. Suppression!MatchParts(path, parts) <=> Laid(path, parts, 1, 1)
  BY <1>1, <1>2, <1>9
<1> QED
  BY <1>10, CoversIsLaid

\* fnmatch accepts at least what a pattern without "**" covers.
LEMMA FnMatchCovers ==
  ASSUME NEW path, NEW parts, Len(parts) \in Nat, Len(path) \in Nat, DOMAIN parts = 1..Len(parts),
         \A i \in 1..Len(parts) : parts[i] # "**", Suppression!Covers(path, parts)
  PROVE  Suppression!FnMatch(path, parts)
<1>1. PICK f : /\ \A q \in 1..Len(parts) + 1 : f[q] = WholeMatching(path, parts, q, f[q + 1])
               /\ Suppression!FnMatch(path, parts) <=> 1 \in f[1]
  BY FnMatchUnfolds
<1> DEFINE m == Len(parts)
           n == Len(path)
           found(q) == \A p \in 1..n + 1 : Laid(path, parts, p, q) => p \in f[q]
           good == {k \in Nat : k <= m => found(m + 1 - k)}
<1>2. m \in Nat /\ n \in Nat /\ \A i \in 1..m : parts[i] # "**"
  OBVIOUS
<1>3. ASSUME NEW q \in 1..m + 1, NEW p \in 1..n + 1
      PROVE  p \in f[q] <=> IF q = m + 1 THEN p = n + 1
                            ELSE IF parts[q] = "*" THEN \E k \in p + 1..n + 1 : k \in f[q + 1]
                            ELSE p < n + 1 /\ path[p] = parts[q] /\ p + 1 \in f[q + 1]
  BY <1>1 DEF WholeMatching
<1>4. \A p \in 1..n + 1 : Laid(path, parts, p, m + 1) <=> p = n + 1
  BY LaidEnd
<1>5. \A p \in 1..n + 1, q \in 1..m : Laid(path, parts, p, q) <=>
         \E k \in p..n + 1 : Fits(path, parts, q, p - 1, k - 1) /\ Laid(path, parts, k, q + 1)
  BY LaidStep
<1> HIDE DEF m, n
<1>6. 0 \in good
  <2>1. m + 1 - 0 = m + 1 /\ m + 1 \in 1..m + 1
    BY <1>2
  <2>2. found(m + 1)
    BY <1>2, <1>3, <1>4, <2>1
  <2> QED
    BY <2>1, <2>2
<1>7. ASSUME NEW k \in Nat, k \in good PROVE k + 1 \in good
  <2> SUFFICES ASSUME k + 1 <= m PROVE found(m + 1 - (k + 1))
    OBVIOUS
  <2> DEFINE q == m + 1 - (k + 1)
  <2>1. q \in 1..m /\ q + 1 = m + 1 - k /\ q \in 1..m + 1 /\ q # m + 1
    BY <1>2
  <2>2. found(q + 1)
    BY <1>2, <1>7, <2>1
  <2> HIDE DEF q
  <2>3. ASSUME NEW p \in 1..n + 1, Laid(path, parts, p, q) PROVE p \in f[q]
    <3>1. PICK j \in p..n + 1 : Fits(path, parts, q, p - 1, j - 1) /\ Laid(path, parts, j, q + 1)
      BY <1>5, <2>1, <2>3
    <3>2. j = p + 1 /\ parts[q] \in {"*", path[p]}
      BY <1>2, <2>1, <3>1 DEF Fits
    <3>3. j \in f[q + 1] /\ j \in p + 1..n + 1 /\ p < n + 1
      BY <1>2, <2>2, <3>1, <3>2
    <3> QED
      BY <1>3, <2>1, <3>2, <3>3
  <2> QED
    BY <2>3 DEF q
<1> HIDE DEF good
<1>8. Nat \subseteq good
  BY <1>6, <1>7, SetInduction
<1>9. found(1)
  <2>1. m + 1 - m = 1 /\ m <= m /\ m \in good
    BY <1>2, <1>8
  <2> QED
    BY <2>1 DEF good
<1>10. Laid(path, parts, 1, 1)
  BY CoversIsLaid
<1> QED
  BY <1>1, <1>2, <1>9, <1>10

-----------------------------------------------------------------------------
(***************************************************************************)
(* A fold over the numbers to n takes the greatest of a set last.  Where   *)
(* its steps stay in a set there is one.                                   *)
(***************************************************************************)
Highest(s) == CHOOSE x \in s : \A y \in s : x >= y
IsFold(it, n, base, step) ==
  it = [s \in SUBSET (1..n) |-> IF s = {} THEN base ELSE step[Highest(s)][it[s \ {Highest(s)}]]]

LEMMA HighestFacts ==
  ASSUME NEW n \in Nat
  PROVE  /\ \A s \in SUBSET (1..n) : s # {} => Highest(s) \in s /\ Highest(s) \in 1..n
         /\ \A k \in 0..n - 1 : /\ Highest(1..k + 1) = k + 1 /\ (1..k + 1) \ {k + 1} = 1..k
                                /\ 1..k + 1 \in SUBSET (1..n) /\ 1..k + 1 # {}
<1>1. \A s \in SUBSET (1..n) : s # {} => Highest(s) \in s
  BY Greatest DEF Highest
<1>2. ASSUME NEW k \in 0..n - 1
      PROVE  /\ Highest(1..k + 1) = k + 1 /\ (1..k + 1) \ {k + 1} = 1..k
             /\ 1..k + 1 \in SUBSET (1..n) /\ 1..k + 1 # {}
  <2> DEFINE s == 1..k + 1
  <2>1. k + 1 \in s /\ \A y \in s : k + 1 >= y
    OBVIOUS
  <2>2. Highest(s) \in s /\ \A y \in s : Highest(s) >= y
    BY <2>1 DEF Highest
  <2>3. Highest(s) = k + 1
    BY <2>1, <2>2
  <2>4. k \in Nat /\ k + 1 <= n
    OBVIOUS
  <2>5. \A x \in 1..k + 1 : x \in 1..n
    BY <2>4
  <2> QED
    BY <2>1, <2>3, <2>4, <2>5
<1> QED
  BY <1>1, <1>2

LEMMA FoldExists ==
  ASSUME NEW n \in Nat, NEW D, NEW base \in D, NEW step \in [1..n -> [D -> D]]
  PROVE  \E it : IsFold(it, n, base, step) /\ it \in [SUBSET (1..n) -> D]
<1> DEFINE S == 1..n
           value(s, it) == IF s = {} THEN base ELSE step[Highest(s)][it[s \ {Highest(s)}]]
           upto(m, it) == /\ it \in [SUBSET S -> D]
                          /\ \A s \in SUBSET S : Cardinality(s) <= m => it[s] = value(s, it)
           levels == {m \in Nat : \E it : upto(m, it)}
<1>1. \A s \in SUBSET S : IsFiniteSet(s) /\ Cardinality(s) \in Nat /\ Cardinality(s) <= Cardinality(S)
  <2>1. IsFiniteSet(S)
    BY FS_Interval
  <2> QED
    BY <2>1, FS_Subset, FS_CardinalityType
<1>2. \A s \in SUBSET S : s # {} => Highest(s) \in s /\ Highest(s) \in 1..n /\ s \ {Highest(s)} \in SUBSET S
  BY HighestFacts
<1>3. \A s \in SUBSET S : s # {} => Cardinality(s \ {Highest(s)}) = Cardinality(s) - 1
  BY <1>1, <1>2, FS_RemoveElement
<1>4. ASSUME NEW it \in [SUBSET S -> D], NEW s \in SUBSET S PROVE value(s, it) \in D
  <2>1. CASE s = {}
    BY <2>1
  <2>2. CASE s # {}
    <3>1. step[Highest(s)] \in [D -> D] /\ it[s \ {Highest(s)}] \in D
      BY <1>2, <2>2
    <3> QED
      BY <2>2, <3>1
  <2> QED
    BY <2>1, <2>2
<1>5. 0 \in levels
  <2> DEFINE it == [s \in SUBSET S |-> base]
  <2>1. \A s \in SUBSET S : Cardinality(s) <= 0 => s = {}
    BY <1>1, FS_EmptySet
  <2>2. upto(0, it)
    BY <2>1
  <2> QED
    BY <2>2
<1>6. ASSUME NEW m \in Nat, m \in levels PROVE m + 1 \in levels
  <2>1. PICK it : upto(m, it)
    BY <1>6
  <2> DEFINE more == [s \in SUBSET S |-> IF Cardinality(s) <= m + 1 THEN value(s, it) ELSE base]
  <2>2. more \in [SUBSET S -> D]
    BY <1>4, <2>1
  <2>3. ASSUME NEW s \in SUBSET S, Cardinality(s) <= m PROVE more[s] = it[s]
    <3>1. it[s] = value(s, it)
      BY <2>1, <2>3
    <3>2. Cardinality(s) <= m + 1
      BY <1>1, <2>3
    <3> HIDE DEF value
    <3> QED
      BY <3>1, <3>2
  <2>4. ASSUME NEW s \in SUBSET S, Cardinality(s) <= m + 1 PROVE more[s] = value(s, more)
    <3>1. more[s] = value(s, it)
      BY <2>4
    <3>2. CASE s = {}
      BY <3>1, <3>2
    <3>3. CASE s # {}
      <4> DEFINE rest == s \ {Highest(s)}
      <4>1. rest \in SUBSET S /\ Cardinality(rest) = Cardinality(s) - 1
        BY <1>2, <1>3, <3>3
      <4> HIDE DEF rest
      <4>2. Cardinality(rest) <= m
        BY <1>1, <2>4, <4>1
      <4>3. more[rest] = it[rest]
        BY <2>3, <4>1, <4>2
      <4> HIDE DEF more
      <4> QED
        BY <3>1, <3>3, <4>3 DEF rest
    <3> QED
      BY <3>2, <3>3
  <2> HIDE DEF more, value
  <2>5. upto(m + 1, more)
    BY <2>2, <2>4
  <2> HIDE DEF upto
  <2>6. m + 1 \in Nat /\ \E all : upto(m + 1, all)
    BY <2>5
  <2> QED
    BY <2>6
<1> HIDE DEF levels
<1>7. Nat \subseteq levels
  BY <1>5, <1>6, SetInduction
<1>8. PICK it : upto(Cardinality(S), it)
  BY <1>1, <1>7 DEF levels
<1>9. \A s \in SUBSET S : it[s] = value(s, it)
  BY <1>1, <1>8
<1>10. it = [s \in SUBSET S |-> it[s]]
  BY <1>8
<1>11. IsFold(it, n, base, step)
  <2> HIDE DEF value
  <2>1. it = [s \in SUBSET S |-> value(s, it)]
    BY <1>9, <1>10
  <2> QED
    BY <2>1 DEF IsFold, value
<1> QED
  BY <1>8, <1>11

-----------------------------------------------------------------------------
\* a path with one more segment, ".." taken as a step back
Walked(done, s) ==
  IF s # ".." THEN Append(done, s) ELSE IF done = <<>> THEN done ELSE Suppression!Front(done)

LEMMA WalkedType ==
  ASSUME NEW S, NEW done \in Seq(S), NEW s \in S
  PROVE  /\ Walked(done, s) \in Seq(S)
         /\ (\A i \in DOMAIN done : done[i] # "..") => \A i \in DOMAIN Walked(done, s) : Walked(done, s)[i] # ".."
<1>1. CASE s # ".."
  <2>1. Walked(done, s) = Append(done, s)
    BY <1>1 DEF Walked
  <2>2. /\ Append(done, s) \in Seq(S) /\ Len(Append(done, s)) = Len(done) + 1
        /\ \A i \in 1..Len(done) + 1 : Append(done, s)[i] = IF i <= Len(done) THEN done[i] ELSE s
    BY AppendProperties
  <2>3. DOMAIN Append(done, s) = 1..Len(done) + 1 /\ DOMAIN done = 1..Len(done) /\ Len(done) \in Nat
    BY <2>2, LenProperties
  <2> DEFINE after == Append(done, s)
  <2>4. ASSUME \A i \in DOMAIN done : done[i] # "..", NEW i \in DOMAIN after PROVE after[i] # ".."
    BY <1>1, <2>2, <2>3, <2>4
  <2> HIDE DEF after
  <2> QED
    BY <2>1, <2>2, <2>4 DEF after
<1>2. CASE s = ".." /\ done = <<>>
  BY <1>2 DEF Walked
<1>3. CASE s = ".." /\ done # <<>>
  <2>1. PICK n \in Nat \ {0} : n = Len(done) /\ DOMAIN done = 1..n /\ \A i \in 1..n : done[i] \in S
    BY <1>3, EmptySeq, LenProperties
  <2> DEFINE after == SubSeq(done, 1, n - 1)
  <2>2. Walked(done, s) = after
    BY <1>3, <2>1 DEF Walked, Suppression!Front
  <2>3. \A i \in 1..n - 1 : done[i] \in S
    BY <2>1
  <2>4. /\ after \in Seq(S) /\ Len(after) = IF 1 <= n - 1 THEN n - 1 - 1 + 1 ELSE 0
        /\ \A i \in 1..n - 1 - 1 + 1 : after[i] = done[1 + i - 1]
    BY <2>3, SubSeqProperties
  <2> HIDE DEF after
  <2>5. Len(after) = n - 1 /\ DOMAIN after = 1..Len(after)
    BY <2>4
  <2>6. \A i \in 1..n - 1 : i \in 1..n - 1 - 1 + 1 /\ 1 + i - 1 = i /\ i \in 1..n
    OBVIOUS
  <2>7. \A i \in DOMAIN after : i \in DOMAIN done /\ after[i] = done[i]
    BY <2>1, <2>4, <2>5, <2>6
  <2> QED
    BY <2>2, <2>4, <2>7
<1> QED
  BY <1>1, <1>2, <1>3

\* The fold takes the segments of a path in order.
LEMMA NormalizedTrace ==
  ASSUME NEW S, NEW segs \in Seq(S)
  PROVE  \E t : /\ t[0] = <<>>
                /\ \A k \in 0..Len(segs) - 1 : t[k + 1] = Walked(t[k], segs[k + 1])
                /\ Suppression!Normalized(segs) = t[Len(segs)]
<1> DEFINE n == Len(segs)
           D == Seq(S)
           value(s, it) == IF s = {} THEN <<>> ELSE Walked(it[s \ {Highest(s)}], segs[Highest(s)])
           runs(it) == it = [s \in SUBSET (1..n) |-> value(s, it)]
           step == [k \in 1..n |-> [done \in D |-> Walked(done, segs[k])]]
<1>1. n \in Nat /\ DOMAIN segs = 1..n /\ \A k \in 1..n : segs[k] \in S
  BY LenProperties
<1>2. Suppression!Normalized(segs) = (CHOOSE it : runs(it))[1..n]
  BY <1>1 DEF Suppression!Normalized, Suppression!FoldLeft, Suppression!MapThenFoldSet, Suppression!Max, Highest, Walked
<1> HIDE DEF n, D
<1>3. \A done \in D, k \in 1..n : Walked(done, segs[k]) \in D
  BY <1>1, WalkedType DEF D
<1>4. step \in [1..n -> [D -> D]]
  BY <1>3
<1>5. <<>> \in D
  BY DEF D
<1>6. PICK it : IsFold(it, n, <<>>, step) /\ it \in [SUBSET (1..n) -> D]
  <2> HIDE DEF step
  <2> QED
    BY <1>1, <1>4, <1>5, FoldExists
<1>7. \A s \in SUBSET (1..n) : s # {} => Highest(s) \in 1..n /\ s \ {Highest(s)} \in SUBSET (1..n)
  BY <1>1, HighestFacts
<1>8. ASSUME NEW s \in SUBSET (1..n) PROVE it[s] = value(s, it)
  <2>1. it[s] = IF s = {} THEN <<>> ELSE step[Highest(s)][it[s \ {Highest(s)}]]
    <3> HIDE DEF step
    <3> QED
      BY <1>6 DEF IsFold
  <2>2. CASE s = {}
    BY <2>1, <2>2
  <2>3. CASE s # {}
    <3>1. it[s \ {Highest(s)}] \in D /\ Highest(s) \in 1..n
      BY <1>6, <1>7, <2>3
    <3> QED
      BY <2>1, <2>3, <3>1
  <2> QED
    BY <2>2, <2>3
<1>9. runs(it)
  <2> HIDE DEF value
  <2>1. it = [s \in SUBSET (1..n) |-> it[s]]
    BY <1>6
  <2> QED
    BY <1>8, <2>1
<1> DEFINE run == CHOOSE all : runs(all)
<1>10. \A s \in SUBSET (1..n) : run[s] = value(s, run)
  <2>1. runs(run)
    BY <1>9
  <2> HIDE DEF run, value
  <2> QED
    BY <2>1
<1> HIDE DEF run
<1> DEFINE t == [k \in 0..n |-> run[1..k]]
<1>11. t[0] = <<>> /\ t[n] = run[1..n]
  <2>1. run[{}] = <<>>
    BY <1>10
  <2>2. 1..0 = {} /\ t[0] = run[1..0] /\ t[n] = run[1..n]
    BY <1>1
  <2> HIDE DEF t
  <2> QED
    BY <2>1, <2>2
<1>12. ASSUME NEW k \in 0..n - 1 PROVE t[k + 1] = Walked(t[k], segs[k + 1])
  <2>1. Highest(1..k + 1) = k + 1 /\ (1..k + 1) \ {k + 1} = 1..k /\ 1..k + 1 \in SUBSET (1..n) /\ 1..k + 1 # {}
    BY <1>1, HighestFacts
  <2>2. run[1..k + 1] = Walked(run[1..k], segs[k + 1])
    BY <1>10, <2>1
  <2>3. t[k + 1] = run[1..k + 1] /\ t[k] = run[1..k]
    BY <1>1
  <2> HIDE DEF t
  <2> QED
    BY <2>2, <2>3
<1>13. Suppression!Normalized(segs) = t[n]
  BY <1>2, <1>11 DEF run
<1> QED
  <2> HIDE DEF t
  <2> QED
    BY <1>11, <1>12, <1>13 DEF n

\* A path is normal when no ".." is left; a normal path stays as it is.
LEMMA NormalizedFacts ==
  ASSUME NEW S, NEW segs \in Seq(S)
  PROVE  /\ Suppression!Normalized(segs) \in Seq(S)
         /\ \A i \in DOMAIN Suppression!Normalized(segs) : Suppression!Normalized(segs)[i] # ".."
         /\ (\A i \in DOMAIN segs : segs[i] # "..") => Suppression!Normalized(segs) = segs
<1>1. PICK t : /\ t[0] = <<>>
               /\ \A k \in 0..Len(segs) - 1 : t[k + 1] = Walked(t[k], segs[k + 1])
               /\ Suppression!Normalized(segs) = t[Len(segs)]
  BY NormalizedTrace
<1> DEFINE n == Len(segs)
           clean(s) == \A i \in DOMAIN s : s[i] # ".."
           good == {k \in Nat : k <= n => /\ t[k] \in Seq(S) /\ clean(t[k])
                                          /\ clean(segs) => t[k] = SubSeq(segs, 1, k)}
<1>2. n \in Nat /\ DOMAIN segs = 1..n /\ \A k \in 1..n : segs[k] \in S
  BY LenProperties
<1>3. 0 \in good
  <2>1. SubSeq(segs, 1, 0) = <<>>
    BY SubSeqEmpty
  <2>2. <<>> \in Seq(S) /\ clean(<<>>)
    OBVIOUS
  <2> QED
    BY <1>1, <2>1, <2>2
<1>4. ASSUME NEW k \in Nat, k \in good PROVE k + 1 \in good
  <2> SUFFICES ASSUME k + 1 <= n
               PROVE  /\ t[k + 1] \in Seq(S) /\ clean(t[k + 1])
                      /\ clean(segs) => t[k + 1] = SubSeq(segs, 1, k + 1)
    OBVIOUS
  <2>1. k \in 0..n - 1 /\ k + 1 \in 1..n /\ k <= n
    BY <1>2
  <2>2. t[k + 1] = Walked(t[k], segs[k + 1])
    BY <1>1, <2>1
  <2>3. t[k] \in Seq(S) /\ clean(t[k]) /\ (clean(segs) => t[k] = SubSeq(segs, 1, k))
    BY <1>4, <2>1
  <2>4. segs[k + 1] \in S
    BY <1>2, <2>1
  <2>5. t[k + 1] \in Seq(S) /\ clean(t[k + 1])
    BY <2>2, <2>3, <2>4, WalkedType
  <2>6. ASSUME clean(segs) PROVE t[k + 1] = SubSeq(segs, 1, k + 1)
    <3>1. segs[k + 1] # ".."
      BY <1>2, <2>1, <2>6
    <3>2. t[k + 1] = Append(SubSeq(segs, 1, k), segs[k + 1])
      BY <2>2, <2>3, <2>6, <3>1 DEF Walked
    <3> DEFINE a == Append(SubSeq(segs, 1, k), segs[k + 1])
               b == SubSeq(segs, 1, k + 1)
               c == SubSeq(segs, 1, k)
    <3>3. \A i \in 1..k : segs[i] \in S
      BY <1>2, <2>1
    <3>4. \A i \in 1..k + 1 : segs[i] \in S
      BY <1>2, <2>1
    <3>5. /\ c \in Seq(S) /\ Len(c) = (IF 1 <= k THEN k - 1 + 1 ELSE 0)
          /\ \A i \in 1..k - 1 + 1 : c[i] = segs[1 + i - 1]
      BY <3>3, SubSeqProperties
    <3>6. /\ b \in Seq(S) /\ Len(b) = (IF 1 <= k + 1 THEN k + 1 - 1 + 1 ELSE 0)
          /\ \A i \in 1..k + 1 - 1 + 1 : b[i] = segs[1 + i - 1]
      BY <3>4, SubSeqProperties
    <3> HIDE DEF b, c
    <3>7. /\ Append(c, segs[k + 1]) \in Seq(S) /\ Len(Append(c, segs[k + 1])) = Len(c) + 1
          /\ \A i \in 1..Len(c) + 1 : Append(c, segs[k + 1])[i] = IF i <= Len(c) THEN c[i] ELSE segs[k + 1]
      BY <2>4, <3>5, AppendProperties
    <3>8. a = Append(c, segs[k + 1])
      BY DEF c
    <3> HIDE DEF a
    <3>9. Len(c) = k /\ Len(b) = k + 1 /\ Len(a) = k + 1
      BY <3>5, <3>6, <3>7, <3>8
    <3>10. \A i \in 1..k + 1 : a[i] = b[i]
      BY <3>5, <3>6, <3>7, <3>8, <3>9
    <3>11. a = b
      BY <3>6, <3>7, <3>8, <3>9, <3>10, SeqEqual
    <3> QED
      BY <3>2, <3>11 DEF a, b
  <2> QED
    BY <2>5, <2>6
<1> HIDE DEF good
<1>5. Nat \subseteq good
  BY <1>3, <1>4, SetInduction
<1>6. t[n] \in Seq(S) /\ clean(t[n]) /\ (clean(segs) => t[n] = SubSeq(segs, 1, n))
  BY <1>2, <1>5 DEF good
<1>7. SubSeq(segs, 1, n) = segs
  OBVIOUS
<1> QED
  BY <1>1, <1>6, <1>7

\* A sequence of elements of a set is one of elements of a greater set.
LEMMA SeqOfMore ==
  ASSUME NEW S, NEW T, S \subseteq T, NEW s \in Seq(S)
  PROVE  s \in Seq(T)
<1>1. PICK n \in Nat : s \in [1..n -> S]
  BY SeqDef
<1>2. s \in [1..n -> T]
  BY <1>1
<1> QED
  BY <1>2, SeqDef

\* one element before a sequence
IsOneMore(whole, one, s) ==
  /\ Len(whole) = Len(s) + 1 /\ DOMAIN whole = 1..Len(s) + 1 /\ whole[1] = one[1]
  /\ \A i \in 1..Len(s) : whole[i + 1] = s[i]

LEMMA OneMore ==
  ASSUME NEW S, NEW one \in Seq(S), Len(one) = 1, NEW s \in Seq(S)
  PROVE  IsOneMore(one \o s, one, s)
<1> DEFINE whole == one \o s
<1>1. PICK n \in Nat : n = Len(s)
  BY LenProperties
<1>2. /\ whole \in Seq(S) /\ Len(whole) = Len(one) + Len(s)
      /\ \A i \in 1..Len(one) + Len(s) : whole[i] = IF i <= Len(one) THEN one[i] ELSE s[i - Len(one)]
  BY ConcatProperties
<1> HIDE DEF whole
<1>3. /\ whole \in Seq(S) /\ Len(whole) = 1 + n
      /\ \A i \in 1..1 + n : whole[i] = IF i <= 1 THEN one[i] ELSE s[i - 1]
  BY <1>1, <1>2
<1>4. DOMAIN whole = 1..n + 1
  BY <1>3, LenProperties
<1>5. \A i \in 1..n : i + 1 \in 1..1 + n /\ ~ (i + 1 <= 1) /\ i + 1 - 1 = i
  OBVIOUS
<1>6. \A i \in 1..n : whole[i + 1] = s[i]
  BY <1>3, <1>5
<1>7. whole[1] = one[1]
  BY <1>3
<1> QED
  BY <1>1, <1>3, <1>4, <1>6, <1>7 DEF whole, IsOneMore

\* The parts of a path are a sequence; "**" is among them only if it is in the path.
LEMMA PartsFacts ==
  ASSUME NEW S, NEW p \in [abs : BOOLEAN, segs : Seq(S)]
  PROVE  /\ Len(Suppression!Parts(p)) \in Nat
         /\ DOMAIN Suppression!Parts(p) = 1..Len(Suppression!Parts(p))
         /\ ~ Suppression!IsRecursive(p) =>
              \A i \in 1..Len(Suppression!Parts(p)) : Suppression!Parts(p)[i] # "**"
<1> DEFINE T == S \cup {""}
           segs == p.segs
           one == <<"">>
<1>1. segs \in Seq(S) /\ one \in Seq(T) /\ Len(one) = 1 /\ one[1] = ""
  OBVIOUS
<1>2. Len(segs) \in Nat /\ DOMAIN segs = 1..Len(segs) /\ segs \in Seq(T)
  <2> HIDE DEF segs
  <2>1. Len(segs) \in Nat /\ DOMAIN segs = 1..Len(segs) /\ \A i \in 1..Len(segs) : segs[i] \in S
    BY <1>1, LenProperties
  <2> QED
    BY <1>1, <2>1, SeqOfMore
<1>3. ~ Suppression!IsRecursive(p) => \A i \in 1..Len(segs) : segs[i] # "**"
  BY <1>2 DEF Suppression!IsRecursive
<1>4. Suppression!Parts(p) = IF p.abs THEN one \o segs ELSE segs
  BY DEF Suppression!Parts
<1>5. CASE ~ p.abs
  BY <1>2, <1>3, <1>4, <1>5
<1>6. CASE p.abs
  <2> DEFINE whole == one \o segs
  <2> HIDE DEF segs, T
  <2>1. /\ Len(whole) = Len(segs) + 1 /\ DOMAIN whole = 1..Len(segs) + 1 /\ whole[1] = ""
        /\ \A i \in 1..Len(segs) : whole[i + 1] = segs[i]
    <3>1. one[1] = ""
      BY <1>1
    <3> HIDE DEF one, whole
    <3>2. IsOneMore(whole, one, segs)
      BY <1>1, <1>2, OneMore DEF whole
    <3> QED
      BY <3>1, <3>2 DEF IsOneMore
  <2> HIDE DEF whole
  <2>4. ASSUME \A i \in 1..Len(segs) : segs[i] # "**", NEW i \in 1..Len(segs) + 1 PROVE whole[i] # "**"
    <3>1. CASE i = 1
      BY <2>1, <3>1
    <3>2. CASE i # 1
      <4>1. i - 1 \in 1..Len(segs) /\ i - 1 + 1 = i
        BY <1>2, <3>2
      <4>2. whole[i - 1 + 1] = segs[i - 1]
        BY <2>1, <4>1
      <4> QED
        BY <2>4, <4>1, <4>2
    <3> QED
      BY <3>1, <3>2
  <2>5. Suppression!Parts(p) = whole
    BY <1>4, <1>6 DEF whole
  <2> QED
    <3> HIDE DEF one
    <3>1. PICK n \in Nat : n = Len(segs)
      BY <1>2
    <3>2. Len(whole) = n + 1 /\ DOMAIN whole = 1..n + 1
      BY <2>1, <3>1
    <3>3. Len(whole) \in Nat /\ DOMAIN whole = 1..Len(whole)
      BY <3>2
    <3>4. ~ Suppression!IsRecursive(p) => \A i \in 1..Len(whole) : whole[i] # "**"
      BY <1>3, <2>1, <2>4
    <3> QED
      BY <2>5, <3>3, <3>4
<1> QED
  BY <1>5, <1>6

\* A pattern matches what it covers, and one with "**" nothing else.
LEMMA GlobCovers ==
  ASSUME NEW S, NEW path \in [abs : BOOLEAN, segs : Seq(S)], NEW p \in [abs : BOOLEAN, segs : Seq(S)]
  PROVE  /\ Suppression!Covers(Suppression!Parts(path), Suppression!Parts(p)) => Suppression!GlobMatch(path, p)
         /\ Suppression!IsRecursive(p) /\ Suppression!GlobMatch(path, p)
              => Suppression!Covers(Suppression!Parts(path), Suppression!Parts(p))
<1> DEFINE a == Suppression!Parts(path)
           b == Suppression!Parts(p)
<1>1. Len(a) \in Nat /\ Len(b) \in Nat /\ DOMAIN b = 1..Len(b)
  BY PartsFacts
<1>2. ~ Suppression!IsRecursive(p) => \A i \in 1..Len(b) : b[i] # "**"
  BY PartsFacts
<1>3. Suppression!GlobMatch(path, p) <=>
        IF Suppression!IsRecursive(p) THEN Suppression!MatchParts(a, b) ELSE Suppression!FnMatch(a, b)
  BY DEF Suppression!GlobMatch
<1> HIDE DEF a, b
<1>4. Suppression!MatchParts(a, b) <=> Suppression!Covers(a, b)
  BY <1>1, MatchPartsCovers
<1>5. ~ Suppression!IsRecursive(p) /\ Suppression!Covers(a, b) => Suppression!FnMatch(a, b)
  BY <1>1, <1>2, FnMatchCovers
<1> QED
  BY <1>3, <1>4, <1>5 DEF a, b

(***************************************************************************)
(* Where no path of the configuration is absolute, the answer depends on   *)
(* the type of a warning and on the path of its file in the project alone. *)
(***************************************************************************)
Answer(c, type, rel) ==
  \/ rel \in DOMAIN Suppression!StoredSpecific(c) /\ type \in Suppression!StoredSpecific(c)[rel]
  \/ type \in Suppression!StoredGlobals(c)
  \/ \E p \in c.patterns : ~ Suppression!IsGlob(p) /\ p = rel
  \/ \E p \in c.patterns : Suppression!IsGlob(p) /\ Suppression!GlobMatch(rel, p)

LEMMA AnswerForPath ==
  ASSUME NEW c, NEW w, NEW g, NEW rel, w.file = g, Suppression!Relative(c, g) = rel,
         g.abs \/ g = rel, \A p \in c.patterns \cup DOMAIN c.specific : ~ p.abs
  PROVE  Suppression!ShouldSuppress(c, w) <=> Answer(c, w.type, rel)
<1>1. \A p \in c.patterns \cup DOMAIN Suppression!StoredSpecific(c) : ~ p.abs
  BY DEF Suppression!StoredSpecific
<1>2. \A p \in c.patterns \cup DOMAIN Suppression!StoredSpecific(c) : p \in {g, rel} <=> p = rel
  BY <1>1
<1>3. Suppression!FileSpecific(c, w) <=>
        rel \in DOMAIN Suppression!StoredSpecific(c) /\ w.type \in Suppression!StoredSpecific(c)[rel]
  BY <1>2 DEF Suppression!FileSpecific
<1>4. Suppression!FileLevel(c, w) <=> \E p \in c.patterns : ~ Suppression!IsGlob(p) /\ p = rel
  BY <1>2 DEF Suppression!FileLevel
<1> QED
  BY <1>3, <1>4 DEF Answer, Suppression!ShouldSuppress, Suppression!GlobalType, Suppression!DirectoryLevel

\* A root and what follows it.
NoUp(s) == \A i \in DOMAIN s : s[i] # ".."
LEMMA RootAndTail ==
  ASSUME NEW S, NEW root \in Seq(S), NEW segs \in Seq(S)
  PROVE  /\ root \o segs \in Seq(S)
         /\ Suppression!IsPrefix(root, root \o segs)
         /\ SubSeq(root \o segs, Len(root) + 1, Len(root \o segs)) = segs
         /\ NoUp(root) /\ NoUp(segs) => NoUp(root \o segs)
<1> DEFINE whole == root \o segs
<1>1. PICK n \in Nat : n = Len(root) /\ DOMAIN root = 1..n /\ \A i \in 1..n : root[i] \in S
  BY LenProperties
<1>2. PICK m \in Nat : m = Len(segs) /\ DOMAIN segs = 1..m /\ \A i \in 1..m : segs[i] \in S
  BY LenProperties
<1>3. /\ whole \in Seq(S) /\ Len(whole) = n + m
      /\ \A i \in 1..n + m : whole[i] = IF i <= n THEN root[i] ELSE segs[i - n]
  BY <1>1, <1>2, ConcatProperties
<1>4. DOMAIN whole = 1..n + m /\ \A i \in 1..n + m : whole[i] \in S
  BY <1>3, LenProperties
<1> HIDE DEF whole
<1>5. SubSeq(root, 1, n) = SubSeq(whole, 1, n)
  <2> DEFINE a == SubSeq(root, 1, n)
             b == SubSeq(whole, 1, n)
  <2>1. \A i \in 1..n : whole[i] \in S /\ whole[i] = root[i]
    BY <1>1, <1>2, <1>3, <1>4
  <2>2. /\ a \in Seq(S) /\ Len(a) = (IF 1 <= n THEN n - 1 + 1 ELSE 0)
        /\ \A i \in 1..n - 1 + 1 : a[i] = root[1 + i - 1]
    BY <1>1, SubSeqProperties
  <2>3. /\ b \in Seq(S) /\ Len(b) = (IF 1 <= n THEN n - 1 + 1 ELSE 0)
        /\ \A i \in 1..n - 1 + 1 : b[i] = whole[1 + i - 1]
    BY <2>1, SubSeqProperties
  <2> HIDE DEF a, b
  <2>4. Len(a) = n /\ Len(b) = n
    BY <2>2, <2>3
  <2>5. \A i \in 1..n : i \in 1..n - 1 + 1 /\ 1 + i - 1 = i
    OBVIOUS
  <2>6. \A i \in 1..Len(a) : a[i] = b[i]
    BY <2>1, <2>2, <2>3, <2>4, <2>5
  <2>7. a = b
    BY <2>2, <2>3, <2>4, <2>6, SeqEqual
  <2> QED
    BY <2>7 DEF a, b
<1>6. SubSeq(whole, n + 1, n + m) = segs
  <2> DEFINE a == SubSeq(whole, n + 1, n + m)
  <2>1. \A i \in n + 1..n + m : whole[i] \in S
    BY <1>4
  <2>2. /\ a \in Seq(S) /\ Len(a) = (IF n + 1 <= n + m THEN n + m - (n + 1) + 1 ELSE 0)
        /\ \A i \in 1..n + m - (n + 1) + 1 : a[i] = whole[n + 1 + i - 1]
    BY <2>1, SubSeqProperties
  <2> HIDE DEF a
  <2>3. Len(a) = m
    BY <2>2
  <2>4. \A i \in 1..m : /\ i \in 1..n + m - (n + 1) + 1 /\ n + 1 + i - 1 = n + i
                        /\ n + i \in 1..n + m /\ ~ (n + i <= n) /\ n + i - n = i
    OBVIOUS
  <2>5. \A i \in 1..Len(a) : a[i] = segs[i]
    BY <1>3, <2>2, <2>3, <2>4
  <2>6. a = segs
    BY <1>2, <2>2, <2>3, <2>5, SeqEqual
  <2> QED
    BY <2>6 DEF a
<1>7. Suppression!IsPrefix(root, whole)
  BY <1>1, <1>3, <1>5 DEF Suppression!IsPrefix
<1>8. ASSUME NoUp(root), NoUp(segs), NEW i \in DOMAIN whole
      PROVE  whole[i] # ".."
  <2>1. i \in 1..n \/ i - n \in 1..m
    BY <1>4
  <2> QED
    BY <1>1, <1>2, <1>3, <1>4, <1>8, <2>1 DEF NoUp
<1> QED
  BY <1>1, <1>3, <1>6, <1>7, <1>8 DEF whole, NoUp

(***************************************************************************)
(* Warning suppression is right for every configuration and every warning. *)
(***************************************************************************)
THEOREM SuppressionCorrect ==
  ASSUME NEW S, NEW T, NEW c, NEW w \in [file : [abs : BOOLEAN, segs : Seq(S)], type : T],
         c.root \in Seq(S), \A k \in DOMAIN c.root : c.root[k] # "..",
         c.patterns \subseteq [abs : BOOLEAN, segs : Seq(S)]
  PROVE  Suppression!SuppressionIsRight(c, w)
<1> DEFINE P == [abs : BOOLEAN, segs : Seq(S)]
           rel == Suppression!Relative(c, w.file)
           normal == Suppression!Normalized(w.file.segs)
           inside == IF w.file.abs THEN Suppression!IsPrefix(c.root, normal)
                     ELSE \A i \in DOMAIN w.file.segs : w.file.segs[i] # ".."
           direct == IF w.file.abs THEN normal ELSE c.root \o w.file.segs
           inner == [abs |-> FALSE, segs |-> SubSeq(direct, Len(c.root) + 1, Len(direct))]
           outer == [abs |-> TRUE, segs |-> direct]
           matched == {p \in c.patterns : Suppression!IsGlob(p)
                                          /\ Suppression!Covers(Suppression!Parts(rel), Suppression!Parts(p))}
           named(f) == Suppression!ShouldSuppress(c, [w EXCEPT !.file = f])
           reason == Suppression!Reason(c, w)
<1>1. /\ normal \in Seq(S) /\ \A i \in DOMAIN normal : normal[i] # ".."
      /\ \A s \in Seq(S) : (\A i \in DOMAIN s : s[i] # "..") => Suppression!Normalized(s) = s
  <2>1. w.file.segs \in Seq(S)
    OBVIOUS
  <2>2. normal \in Seq(S) /\ \A i \in DOMAIN normal : normal[i] # ".."
    BY <2>1, NormalizedFacts
  <2>3. \A s \in Seq(S) : (\A i \in DOMAIN s : s[i] # "..") => Suppression!Normalized(s) = s
    BY NormalizedFacts
  <2> QED
    BY <2>2, <2>3
<1>2. w.file \in P /\ w.file.segs \in Seq(S) /\ w.file = [abs |-> w.file.abs, segs |-> w.file.segs]
  OBVIOUS
<1>3. rel \in P
  <2>1. CASE w.file.abs /\ Suppression!IsPrefix(c.root, normal)
    <3>1. Len(c.root) \in Nat /\ Len(normal) \in Nat /\ \A i \in 1..Len(normal) : normal[i] \in S
      BY <1>1, LenProperties
    <3> DEFINE n == Len(c.root)
               m == Len(normal)
    <3>2. \A i \in n + 1..m : i \in 1..m
      BY <3>1
    <3>3. SubSeq(normal, n + 1, m) \in Seq(S)
      <4> HIDE DEF normal
      <4> QED
        BY <3>1, <3>2, SubSeqProperties
    <3> QED
      BY <2>1, <3>3 DEF Suppression!Relative
  <2>2. CASE ~ (w.file.abs /\ Suppression!IsPrefix(c.root, normal))
    BY <1>2, <2>2 DEF Suppression!Relative
  <2> QED
    BY <2>1, <2>2
<1>4. Suppression!ShouldSuppress(c, w) <=> reason # "none"
  BY DEF Suppression!ShouldSuppress, Suppression!Reason
<1>5. matched # {} => Suppression!ShouldSuppress(c, w)
  BY <1>3, GlobCovers DEF Suppression!ShouldSuppress, Suppression!DirectoryLevel
<1>6. ASSUME reason = "directory-level", matched = {}
      PROVE  \E p \in c.patterns : Suppression!IsGlob(p) /\ ~ Suppression!IsRecursive(p)
  <2>1. Suppression!DirectoryLevel(c, w)
    BY <1>6 DEF Suppression!Reason
  <2>2. PICK p \in c.patterns : Suppression!IsGlob(p) /\ Suppression!GlobMatch(rel, p)
    BY <2>1 DEF Suppression!DirectoryLevel
  <2> HIDE DEF rel
  <2>3. Suppression!IsRecursive(p) => p \in matched
    BY <1>3, <2>2, GlobCovers
  <2> QED
    BY <1>6, <2>2, <2>3
<1>7. ASSUME inside, \A p \in c.patterns \cup DOMAIN c.specific : ~ p.abs
      PROVE  /\ Suppression!ShouldSuppress(c, w) <=> named(outer)
             /\ Suppression!ShouldSuppress(c, w) <=> named(inner)
  <2>1. /\ direct \in Seq(S) /\ Suppression!IsPrefix(c.root, direct) /\ Suppression!Normalized(direct) = direct
        /\ rel = inner /\ (w.file.abs \/ w.file = inner)
    <3>1. CASE w.file.abs
      <4>1. direct = normal /\ Suppression!IsPrefix(c.root, normal)
        BY <1>7, <3>1
      <4>2. rel = inner
        BY <3>1, <4>1 DEF Suppression!Relative
      <4>3. direct \in Seq(S) /\ Suppression!IsPrefix(c.root, direct) /\ Suppression!Normalized(direct) = direct
        <5> HIDE DEF normal, direct
        <5> QED
          BY <1>1, <4>1
      <4> HIDE DEF direct, rel, inner
      <4> QED
        BY <3>1, <4>2, <4>3
    <3>2. CASE ~ w.file.abs
      <4>1. direct = c.root \o w.file.segs /\ \A i \in DOMAIN w.file.segs : w.file.segs[i] # ".."
        BY <1>7, <3>2
      <4>2. /\ direct \in Seq(S) /\ Suppression!IsPrefix(c.root, direct)
            /\ SubSeq(direct, Len(c.root) + 1, Len(direct)) = w.file.segs
            /\ \A i \in DOMAIN direct : direct[i] # ".."
        <5> DEFINE root == c.root
                   segs == w.file.segs
        <5>1. root \in Seq(S) /\ segs \in Seq(S) /\ direct = root \o segs
          BY <1>2, <4>1
        <5>2. NoUp(root) /\ NoUp(segs)
          BY <4>1 DEF NoUp
        <5> HIDE DEF direct, root, segs
        <5>3. /\ root \o segs \in Seq(S) /\ Suppression!IsPrefix(root, root \o segs)
              /\ SubSeq(root \o segs, Len(root) + 1, Len(root \o segs)) = segs
          BY <5>1, RootAndTail
        <5>4. NoUp(root \o segs)
          BY <5>1, <5>2, RootAndTail
        <5> QED
          BY <5>1, <5>3, <5>4 DEF root, segs, NoUp
      <4>3. rel = w.file
        BY <3>2 DEF Suppression!Relative
      <4>4. w.file = inner
        BY <1>2, <3>2, <4>2
      <4>5. Suppression!Normalized(direct) = direct
        <5> HIDE DEF direct
        <5> QED
          BY <1>1, <4>2
      <4>6. rel = inner
        BY <4>3, <4>4
      <4> HIDE DEF direct, rel, inner
      <4> QED
        BY <4>2, <4>4, <4>5, <4>6
    <3> QED
      BY <3>1, <3>2
  <2>2. Suppression!Relative(c, outer) = inner
    BY <2>1 DEF Suppression!Relative
  <2>3. Suppression!Relative(c, inner) = inner
    BY DEF Suppression!Relative
  <2>4. outer.abs
    OBVIOUS
  <2> HIDE DEF inner, outer, rel
  <2>5. Suppression!ShouldSuppress(c, w) <=> Answer(c, w.type, inner)
    BY <1>7, <2>1, AnswerForPath DEF rel
  <2>6. \A f : [w EXCEPT !.file = f].file = f /\ [w EXCEPT !.file = f].type = w.type
    OBVIOUS
  <2>7. named(outer) <=> Answer(c, w.type, inner)
    BY <1>7, <2>2, <2>4, <2>6, AnswerForPath
  <2>8. named(inner) <=> Answer(c, w.type, inner)
    BY <1>7, <2>3, <2>6, AnswerForPath
  <2> QED
    BY <2>5, <2>7, <2>8
<1>8. ASSUME w.type \notin Suppression!ValidTypes
      PROVE  reason \in {"none", "file-level", "directory-level"}
  <2>1. ~ Suppression!FileSpecific(c, w)
    BY <1>8 DEF Suppression!FileSpecific, Suppression!StoredSpecific
  <2>2. ~ Suppression!GlobalType(c, w)
    BY <1>8 DEF Suppression!GlobalType, Suppression!StoredGlobals
  <2> QED
    BY <2>1, <2>2 DEF Suppression!Reason
<1> QED
  BY <1>4, <1>5, <1>6, <1>7, <1>8 DEF Suppression!SuppressionIsRight

-----------------------------------------------------------------------------
(***************************************************************************)
(* What is put in front of a file.  The relationships are sorted, only the *)
(* first of each definition is kept, and snippets are taken from what is   *)
(* kept until the limit is reached; each of these three keeps the order of *)
(* the one before, and loses only what ContextIsRight lets it lose.        *)
(***************************************************************************)
LEMMA ContextCount == \A S : Context!Cardinality(S) = Cardinality(S)
  BY DEF Context!Cardinality, Cardinality

(***************************************************************************)
(* Some things, each with those ahead of it: where one of any two is ahead *)
(* of the other, their ranks are the numbers of those ahead.               *)
(***************************************************************************)
Ordered(S, ahead) ==
  /\ ahead \in [S -> SUBSET S]
  /\ \A i \in S : i \notin ahead[i]
  /\ \A i, j \in S : i # j => i \in ahead[j] \/ j \in ahead[i]
  /\ \A i, j \in S : j \in ahead[i] => ahead[j] \subseteq ahead[i]

Ranked(p, S, ahead) ==
  /\ p \in [1..Cardinality(S) -> S]
  /\ \A m \in 1..Cardinality(S) : p[m] = CHOOSE i \in S : Cardinality(ahead[i]) = m - 1
  /\ \A i \in S : \E m \in 1..Cardinality(S) : p[m] = i
  /\ \A l, m \in 1..Cardinality(S) : l < m => p[l] \in ahead[p[m]]

LEMMA RanksOfOrder ==
  ASSUME NEW S, IsFiniteSet(S), NEW ahead, Ordered(S, ahead)
  PROVE  \E p : Ranked(p, S, ahead)
<1> USE DEF Ordered
<1> DEFINE n == Cardinality(S)
           rank == [i \in S |-> Cardinality(ahead[i])]
<1>1. n \in Nat
  BY FS_CardinalityType
<1>2. \A i \in S : /\ IsFiniteSet(ahead[i]) /\ Cardinality(ahead[i]) \in Nat
                   /\ Cardinality(ahead[i]) <= n /\ Cardinality(ahead[i]) # n
  <2> SUFFICES ASSUME NEW i \in S
               PROVE  /\ IsFiniteSet(ahead[i]) /\ Cardinality(ahead[i]) \in Nat
                      /\ Cardinality(ahead[i]) <= n /\ Cardinality(ahead[i]) # n
    OBVIOUS
  <2>1. ahead[i] \in SUBSET S /\ ahead[i] # S
    OBVIOUS
  <2>2. IsFiniteSet(ahead[i]) /\ Cardinality(ahead[i]) <= n /\ (Cardinality(ahead[i]) = n => ahead[i] = S)
    BY <2>1, FS_Subset
  <2> QED
    BY <2>1, <2>2, FS_CardinalityType
<1> HIDE DEF n
<1>3. rank \in [S -> 0..n - 1]
  BY <1>1, <1>2
<1>4. \A i, j \in S : j \in ahead[i] => rank[j] < rank[i]
  <2> SUFFICES ASSUME NEW i \in S, NEW j \in S, j \in ahead[i] PROVE Cardinality(ahead[j]) < Cardinality(ahead[i])
    OBVIOUS
  <2>1. ahead[j] \in SUBSET ahead[i] /\ ahead[j] # ahead[i]
    OBVIOUS
  <2>2. Cardinality(ahead[j]) <= Cardinality(ahead[i]) /\ (Cardinality(ahead[j]) = Cardinality(ahead[i]) => ahead[j] = ahead[i])
    BY <1>2, <2>1, FS_Subset
  <2> QED
    BY <1>2, <2>1, <2>2
<1> HIDE DEF rank
<1>5. \A i, j \in S : rank[i] = rank[j] => i = j
  BY <1>1, <1>3, <1>4
<1>6. rank \in Surjection(S, 0..n - 1)
  <2>1. rank \in Injection(S, 0..n - 1)
    BY <1>3, <1>5 DEF Injection, IsInjective
  <2>2. IsFiniteSet(0..n - 1) /\ Cardinality(0..n - 1) = n
    <3>1. PICK b \in Int : b = n - 1
      BY <1>1
    <3>2. IsFiniteSet(0..b) /\ Cardinality(0..b) = IF 0 > b THEN 0 ELSE b - 0 + 1
      BY FS_Interval
    <3> QED
      BY <1>1, <3>1, <3>2
  <2> QED
    BY <2>1, <2>2, FS_Injection DEF n
<1> DEFINE p == [m \in 1..n |-> CHOOSE i \in S : Cardinality(ahead[i]) = m - 1]
<1>7. \A m \in 1..n : p[m] \in S /\ rank[p[m]] = m - 1
  <2> SUFFICES ASSUME NEW m \in 1..n PROVE p[m] \in S /\ rank[p[m]] = m - 1
    OBVIOUS
  <2>1. m - 1 \in 0..n - 1
    BY <1>1
  <2>2. PICK i \in S : rank[i] = m - 1
    BY <1>6, <2>1 DEF Surjection
  <2>3. Cardinality(ahead[i]) = m - 1
    BY <2>2 DEF rank
  <2>4. p[m] \in S /\ Cardinality(ahead[p[m]]) = m - 1
    BY <2>3
  <2> QED
    BY <2>4 DEF rank
<1>8. \A m \in 1..n : p[m] = CHOOSE i \in S : Cardinality(ahead[i]) = m - 1
  OBVIOUS
<1>9. p = [m \in 1..n |-> p[m]]
  OBVIOUS
<1> HIDE DEF p
<1>10. p \in [1..n -> S]
  BY <1>7, <1>9
<1>11. \A i \in S : \E m \in 1..n : p[m] = i
  <2> SUFFICES ASSUME NEW i \in S PROVE \E m \in 1..n : p[m] = i
    OBVIOUS
  <2>1. rank[i] + 1 \in 1..n
    BY <1>1, <1>3
  <2>2. rank[p[rank[i] + 1]] = rank[i]
    BY <1>1, <1>3, <1>7, <2>1
  <2> QED
    BY <1>5, <1>7, <2>1, <2>2
<1>12. \A l, m \in 1..n : l < m => p[l] \in ahead[p[m]]
  <2> SUFFICES ASSUME NEW l \in 1..n, NEW m \in 1..n, l < m PROVE p[l] \in ahead[p[m]]
    OBVIOUS
  <2>1. p[l] # p[m] /\ ~ (rank[p[m]] < rank[p[l]])
    BY <1>1, <1>7
  <2> QED
    BY <1>4, <1>7, <2>1
<1> QED
  BY <1>8, <1>10, <1>11, <1>12 DEF Ranked, n

\* Tuples of four numbers are in the order of their first difference.
IsKey(k) == DOMAIN k = 1..4 /\ k[1] \in Int /\ k[2] \in Int /\ k[3] \in Int /\ k[4] \in Int

Lexicographic(k, l) ==
  \/ k[1] < l[1]
  \/ k[1] = l[1] /\ k[2] < l[2]
  \/ k[1] = l[1] /\ k[2] = l[2] /\ k[3] < l[3]
  \/ k[1] = l[1] /\ k[2] = l[2] /\ k[3] = l[3] /\ k[4] < l[4]

LEMMA LessFacts == \A k, l : IsKey(k) /\ IsKey(l) => (Context!Less(k, l) <=> Lexicographic(k, l))
<1> SUFFICES ASSUME NEW k, NEW l, IsKey(k), IsKey(l)
             PROVE  Context!Less(k, l) <=> Lexicographic(k, l)
  OBVIOUS
<1> DEFINE at(n) == k[n] < l[n] /\ \A m \in 1..n - 1 : k[m] = l[m]
<1>1. Context!Less(k, l) <=> at(1) \/ at(2) \/ at(3) \/ at(4)
  <2>1. Context!Less(k, l) <=> \E n \in 1..4 : at(n)
    BY DEF Context!Less, IsKey
  <2> HIDE DEF at
  <2> QED
    BY <2>1
<1>2. at(1) <=> k[1] < l[1]
  OBVIOUS
<1>3. at(2) <=> k[1] = l[1] /\ k[2] < l[2]
  <2>1. \A m : m \in 1..2 - 1 <=> m = 1
    OBVIOUS
  <2> QED
    BY <2>1
<1>4. at(3) <=> k[1] = l[1] /\ k[2] = l[2] /\ k[3] < l[3]
  <2>1. \A m : m \in 1..3 - 1 <=> m = 1 \/ m = 2
    OBVIOUS
  <2> QED
    BY <2>1
<1>5. at(4) <=> k[1] = l[1] /\ k[2] = l[2] /\ k[3] = l[3] /\ k[4] < l[4]
  <2>1. \A m : m \in 1..4 - 1 <=> m = 1 \/ m = 2 \/ m = 3
    OBVIOUS
  <2> QED
    BY <2>1
<1> HIDE DEF at
<1> QED
  BY <1>1, <1>2, <1>3, <1>4, <1>5 DEF Lexicographic

LEMMA LessOrders ==
  /\ \A k : IsKey(k) => ~ Context!Less(k, k)
  /\ \A k, l : IsKey(k) /\ IsKey(l) /\ Context!Less(k, l) => ~ Context!Less(l, k)
  /\ \A k, l : IsKey(k) /\ IsKey(l) /\ ~ Context!Less(k, l) /\ ~ Context!Less(l, k) =>
        k[1] = l[1] /\ k[2] = l[2] /\ k[3] = l[3] /\ k[4] = l[4]
  /\ \A k, l, m : IsKey(k) /\ IsKey(l) /\ IsKey(m) /\ Context!Less(k, l) /\ Context!Less(l, m) => Context!Less(k, m)
<1>1. \A k : IsKey(k) => ~ Lexicographic(k, k)
  BY DEF IsKey, Lexicographic
<1>2. \A k, l : IsKey(k) /\ IsKey(l) /\ Lexicographic(k, l) => ~ Lexicographic(l, k)
  BY DEF IsKey, Lexicographic
<1>3. \A k, l : IsKey(k) /\ IsKey(l) /\ ~ Lexicographic(k, l) /\ ~ Lexicographic(l, k) =>
        k[1] = l[1] /\ k[2] = l[2] /\ k[3] = l[3] /\ k[4] = l[4]
  BY DEF IsKey, Lexicographic
<1>4. \A k, l, m : IsKey(k) /\ IsKey(l) /\ IsKey(m) /\ Lexicographic(k, l) /\ Lexicographic(l, m) => Lexicographic(k, m)
  BY DEF IsKey, Lexicographic
<1> QED
  BY <1>1, <1>2, <1>3, <1>4, LessFacts, Zenon

\* A list in the order of the keys, with all of some dependencies.
InOrder(list, w, deps) ==
  /\ DOMAIN list = DOMAIN deps /\ list = [m \in DOMAIN deps |-> list[m]]
  /\ \A m \in DOMAIN list : \E d \in DOMAIN deps : list[m] = deps[d]
  /\ \A d \in DOMAIN deps : \E m \in DOMAIN list : list[m] = deps[d]
  /\ \A l, m \in DOMAIN list :
       l < m => ~ Context!Less(Context!SortKey(w, deps, list[m]), Context!SortKey(w, deps, list[l]))

LEMMA PrioritizedFacts ==
  ASSUME NEW w, NEW deps, NEW n \in Nat, DOMAIN deps = 1..n, \A d \in 1..n : deps[d].line \in Int
  PROVE  InOrder(Context!Prioritized(w, deps), w, deps)
<1> DEFINE key == [i \in DOMAIN deps |-> Context!SortKey(w, deps, deps[i])]
           before(j, i) == Context!Less(key[j], key[i]) \/ (key[j] = key[i] /\ j < i)
           aheadOf(i) == {j \in DOMAIN deps : before(j, i)}
           list == Context!Prioritized(w, deps)
<1>1. list = [m \in DOMAIN deps |-> deps[CHOOSE i \in DOMAIN deps : Context!Cardinality(aheadOf(i)) = m - 1]]
  BY DEF Context!Prioritized
<1>2. \A d \in 1..n : IsKey(Context!SortKey(w, deps, deps[d]))
  <2> SUFFICES ASSUME NEW d \in 1..n PROVE IsKey(Context!SortKey(w, deps, deps[d]))
    OBVIOUS
  <2> DEFINE a == IF deps[d].tgt \in w.recent THEN 0 ELSE 1
             b == IF Context!Symbol(deps[d]) \in Context!HighUsage(w, deps) THEN 0 ELSE 1
             c == Context!TypePriority(deps[d].type)
             e == deps[d].line
  <2>1. a \in Int /\ b \in Int /\ e \in Int
    OBVIOUS
  <2>2. c \in Int
    BY DEF Context!TypePriority
  <2>3. Context!SortKey(w, deps, deps[d]) = <<a, b, c, e>>
    BY DEF Context!SortKey
  <2> HIDE DEF a, b, c, e
  <2>4. DOMAIN <<a, b, c, e>> = 1..4
    OBVIOUS
  <2>5. \A i \in 1..4 : i = 1 \/ i = 2 \/ i = 3 \/ i = 4
    OBVIOUS
  <2>6. \A i \in 1..4 : <<a, b, c, e>>[i] \in Int
    BY <2>1, <2>2, <2>5
  <2> QED
    BY <2>3, <2>4, <2>6 DEF IsKey
<1>3. \A d \in 1..n : IsKey(key[d]) /\ key[d] = Context!SortKey(w, deps, deps[d])
  BY <1>2
<1> HIDE DEF key, list
<1>4. \A i \in 1..n : ~ before(i, i)
  BY <1>3, LessOrders
<1>5. \A i, j \in 1..n : i # j => before(i, j) \/ before(j, i)
  <2> SUFFICES ASSUME NEW i \in 1..n, NEW j \in 1..n, i # j PROVE before(i, j) \/ before(j, i)
    OBVIOUS
  <2>1. CASE key[i] = key[j]
    BY <2>1
  <2>2. CASE key[i] # key[j]
    <3>1. ~ (key[i][1] = key[j][1] /\ key[i][2] = key[j][2] /\ key[i][3] = key[j][3] /\ key[i][4] = key[j][4])
      <4>1. key[i] = <<key[i][1], key[i][2], key[i][3], key[i][4]>>
        BY <1>3 DEF Context!SortKey
      <4>2. key[j] = <<key[j][1], key[j][2], key[j][3], key[j][4]>>
        BY <1>3 DEF Context!SortKey
      <4> QED
        BY <2>2, <4>1, <4>2
    <3>2. IsKey(key[i]) /\ IsKey(key[j])
      BY <1>3
    <3> QED
      BY <3>1, <3>2, LessOrders
  <2> QED
    BY <2>1, <2>2
<1>6. \A h, i, j \in 1..n : before(h, i) /\ before(i, j) => before(h, j)
  <2> SUFFICES ASSUME NEW h \in 1..n, NEW i \in 1..n, NEW j \in 1..n, before(h, i), before(i, j)
               PROVE  before(h, j)
    OBVIOUS
  <2>1. IsKey(key[h]) /\ IsKey(key[i]) /\ IsKey(key[j])
    BY <1>3
  <2>2. CASE key[h] = key[i] \/ key[i] = key[j]
    BY <2>2
  <2>3. CASE key[h] # key[i] /\ key[i] # key[j]
    <3>1. Context!Less(key[h], key[i]) /\ Context!Less(key[i], key[j])
      BY <2>3
    <3>2. Context!Less(key[h], key[j])
      BY <2>1, <3>1, LessOrders
    <3> QED
      BY <3>2
  <2> QED
    BY <2>2, <2>3
<1>7. \A i, j \in 1..n : before(i, j) => ~ Context!Less(key[j], key[i])
  <2> SUFFICES ASSUME NEW i \in 1..n, NEW j \in 1..n, before(i, j) PROVE ~ Context!Less(key[j], key[i])
    OBVIOUS
  <2>1. IsKey(key[i]) /\ IsKey(key[j])
    BY <1>3
  <2> QED
    BY <2>1, LessOrders
<1> HIDE DEF before
<1> DEFINE ahead == [i \in 1..n |-> aheadOf(i)]
<1>8. \A i, j \in 1..n : j \in ahead[i] <=> before(j, i)
  OBVIOUS
<1>9. ahead \in [1..n -> SUBSET (1..n)] /\ \A i \in 1..n : ahead[i] = aheadOf(i)
  OBVIOUS
<1> HIDE DEF ahead, aheadOf
<1>10. Ordered(1..n, ahead)
  BY <1>4, <1>5, <1>6, <1>8, <1>9 DEF Ordered
<1>11. PICK p : /\ p \in [1..n -> 1..n]
                /\ \A m \in 1..n : p[m] = CHOOSE i \in 1..n : Cardinality(ahead[i]) = m - 1
                /\ \A i \in 1..n : \E m \in 1..n : p[m] = i
                /\ \A l, m \in 1..n : l < m => p[l] \in ahead[p[m]]
  <2>1. IsFiniteSet(1..n) /\ Cardinality(1..n) = n
    BY FS_Interval
  <2>2. PICK p : Ranked(p, 1..n, ahead)
    BY <1>10, <2>1, RanksOfOrder
  <2> QED
    BY <2>1, <2>2 DEF Ranked
<1>12. \A m \in 1..n : list[m] = deps[p[m]]
  <2> SUFFICES ASSUME NEW m \in 1..n PROVE list[m] = deps[p[m]]
    OBVIOUS
  <2>1. list[m] = deps[CHOOSE i \in 1..n : Context!Cardinality(aheadOf(i)) = m - 1]
    BY <1>1
  <2>2. \A i \in 1..n : (Context!Cardinality(aheadOf(i)) = m - 1) <=> (Cardinality(ahead[i]) = m - 1)
    BY <1>9, ContextCount
  <2>3. (CHOOSE i \in 1..n : Context!Cardinality(aheadOf(i)) = m - 1) = CHOOSE i \in 1..n : Cardinality(ahead[i]) = m - 1
    BY <2>2
  <2> QED
    BY <1>11, <2>1, <2>3
<1>13. DOMAIN list = 1..n /\ list = [m \in 1..n |-> list[m]]
  BY <1>1
<1>14. \A m \in 1..n : p[m] \in 1..n
  BY <1>11
<1>15. \A l, m \in 1..n : l < m => ~ Context!Less(Context!SortKey(w, deps, list[m]), Context!SortKey(w, deps, list[l]))
  <2> SUFFICES ASSUME NEW l \in 1..n, NEW m \in 1..n, l < m
               PROVE  ~ Context!Less(Context!SortKey(w, deps, list[m]), Context!SortKey(w, deps, list[l]))
    OBVIOUS
  <2>1. p[l] \in ahead[p[m]]
    BY <1>11
  <2>2. ~ Context!Less(key[p[m]], key[p[l]])
    BY <1>7, <1>8, <1>14, <2>1
  <2> QED
    BY <1>3, <1>12, <1>14, <2>2
<1>16. \A d \in 1..n : \E m \in 1..n : list[m] = deps[d]
  <2> SUFFICES ASSUME NEW d \in 1..n PROVE \E m \in 1..n : list[m] = deps[d]
    OBVIOUS
  <2>1. PICK m \in 1..n : p[m] = d
    BY <1>11
  <2> QED
    BY <1>12, <2>1
<1>17. InOrder(list, w, deps)
  BY <1>12, <1>13, <1>14, <1>15, <1>16 DEF InOrder
<1> QED
  BY <1>17 DEF list

LEMMA KeepFirstType ==
  ASSUME NEW R, NEW kept \in Seq(R), NEW r \in R
  PROVE  Context!KeepFirst(kept, r) \in Seq(R)
BY AppendProperties DEF Context!KeepFirst

\* The fold takes the relationships of a list in order.
LEMMA DeduplicatedTrace ==
  ASSUME NEW R, NEW list \in Seq(R)
  PROVE  \E t : /\ t[0] = <<>>
                /\ \A k \in 0..Len(list) - 1 : t[k + 1] = Context!KeepFirst(t[k], list[k + 1])
                /\ Context!Deduplicated(list) = t[Len(list)]
<1> DEFINE n == Len(list)
           D == Seq(R)
           value(s, it) == IF s = {} THEN <<>> ELSE Context!KeepFirst(it[s \ {Highest(s)}], list[Highest(s)])
           runs(it) == it = [s \in SUBSET (1..n) |-> value(s, it)]
           step == [k \in 1..n |-> [kept \in D |-> Context!KeepFirst(kept, list[k])]]
<1>1. n \in Nat /\ DOMAIN list = 1..n /\ \A k \in 1..n : list[k] \in R
  BY LenProperties
<1>2. Context!Deduplicated(list) = (CHOOSE it : runs(it))[1..n]
  BY <1>1 DEF Context!Deduplicated, Context!FoldLeft, Context!MapThenFoldSet, Context!Max, Highest
<1> HIDE DEF n, D
<1>3. \A kept \in D, k \in 1..n : Context!KeepFirst(kept, list[k]) \in D
  BY <1>1, KeepFirstType DEF D
<1>4. step \in [1..n -> [D -> D]]
  BY <1>3
<1>5. <<>> \in D
  BY DEF D
<1>6. PICK it : IsFold(it, n, <<>>, step) /\ it \in [SUBSET (1..n) -> D]
  <2> HIDE DEF step
  <2> QED
    BY <1>1, <1>4, <1>5, FoldExists
<1>7. \A s \in SUBSET (1..n) : s # {} => Highest(s) \in 1..n /\ s \ {Highest(s)} \in SUBSET (1..n)
  BY <1>1, HighestFacts
<1>8. ASSUME NEW s \in SUBSET (1..n) PROVE it[s] = value(s, it)
  <2>1. it[s] = IF s = {} THEN <<>> ELSE step[Highest(s)][it[s \ {Highest(s)}]]
    <3> HIDE DEF step
    <3> QED
      BY <1>6 DEF IsFold
  <2>2. CASE s = {}
    BY <2>1, <2>2
  <2>3. CASE s # {}
    <3>1. it[s \ {Highest(s)}] \in D /\ Highest(s) \in 1..n
      BY <1>6, <1>7, <2>3
    <3> QED
      BY <2>1, <2>3, <3>1
  <2> QED
    BY <2>2, <2>3
<1>9. runs(it)
  <2> HIDE DEF value
  <2>1. it = [s \in SUBSET (1..n) |-> it[s]]
    BY <1>6
  <2> QED
    BY <1>8, <2>1
<1> DEFINE run == CHOOSE all : runs(all)
<1>10. \A s \in SUBSET (1..n) : run[s] = value(s, run)
  <2>1. runs(run)
    BY <1>9
  <2> HIDE DEF run, value
  <2> QED
    BY <2>1
<1> HIDE DEF run
<1> DEFINE t == [k \in 0..n |-> run[1..k]]
<1>11. t[0] = <<>> /\ t[n] = run[1..n]
  <2>1. run[{}] = <<>>
    BY <1>10
  <2>2. 1..0 = {} /\ t[0] = run[1..0] /\ t[n] = run[1..n]
    BY <1>1
  <2> HIDE DEF t
  <2> QED
    BY <2>1, <2>2
<1>12. ASSUME NEW k \in 0..n - 1 PROVE t[k + 1] = Context!KeepFirst(t[k], list[k + 1])
  <2>1. Highest(1..k + 1) = k + 1 /\ (1..k + 1) \ {k + 1} = 1..k /\ 1..k + 1 \in SUBSET (1..n) /\ 1..k + 1 # {}
    BY <1>1, HighestFacts
  <2>2. run[1..k + 1] = Context!KeepFirst(run[1..k], list[k + 1])
    BY <1>10, <2>1
  <2>3. t[k + 1] = run[1..k + 1] /\ t[k] = run[1..k]
    BY <1>1
  <2> HIDE DEF t
  <2> QED
    BY <2>2, <2>3
<1>13. Context!Deduplicated(list) = t[n]
  BY <1>2, <1>11 DEF run
<1> QED
  <2> HIDE DEF t
  <2> QED
    BY <1>11, <1>12, <1>13 DEF n

\* What is kept of the first k of a list, at the places g: the first of each definition.
Kept(kept, R, list, k, g) ==
  /\ kept \in Seq(R)
  /\ g \in [1..Len(kept) -> 1..k]
  /\ \A i, j \in 1..Len(kept) : i < j => g[i] < g[j]
  /\ \A i \in 1..Len(kept) : kept[i] = list[g[i]]
  /\ \A i, j \in 1..Len(kept) : i # j => Context!DedupKey(kept[i]) # Context!DedupKey(kept[j])
  /\ \A b \in 1..k : \E i \in 1..Len(kept) : g[i] <= b /\ Context!DedupKey(kept[i]) = Context!DedupKey(list[b])

LEMMA KeptStep ==
  ASSUME NEW R, NEW list, NEW k \in Nat, list[k + 1] \in R,
         NEW kept, NEW g, Kept(kept, R, list, k, g)
  PROVE  \E places : Kept(Context!KeepFirst(kept, list[k + 1]), R, list, k + 1, places)
<1> DEFINE r == list[k + 1]
           more == Context!KeepFirst(kept, r)
           same(x, y) == Context!DedupKey(x) = Context!DedupKey(y)
<1>1. PICK n \in Nat : n = Len(kept) /\ DOMAIN kept = 1..n
  BY LenProperties DEF Kept
<1>2. /\ kept \in Seq(R) /\ g \in [1..n -> 1..k]
      /\ \A i, j \in 1..n : i < j => g[i] < g[j]
      /\ \A i \in 1..n : kept[i] = list[g[i]]
      /\ \A i, j \in 1..n : i # j => ~ same(kept[i], kept[j])
      /\ \A b \in 1..k : \E i \in 1..n : g[i] <= b /\ same(kept[i], list[b])
  BY <1>1 DEF Kept
<1> HIDE DEF same
<1>3. CASE \E i \in 1..n : same(kept[i], r)
  <2>1. more = kept
    BY <1>1, <1>3 DEF Context!KeepFirst, same
  <2>2. PICK c \in 1..n : same(kept[c], r)
    BY <1>3
  <2>3. g \in [1..n -> 1..k + 1] /\ g[c] <= k + 1
    <3>1. \A i \in 1..n : g[i] \in 1..k
      BY <1>2
    <3>2. \A i \in 1..n : g[i] \in 1..k + 1
      BY <3>1
    <3> QED
      BY <1>2, <3>2
  <2>4. \A b \in 1..k + 1 : \E i \in 1..n : g[i] <= b /\ same(kept[i], list[b])
    <3> SUFFICES ASSUME NEW b \in 1..k + 1 PROVE \E i \in 1..n : g[i] <= b /\ same(kept[i], list[b])
      OBVIOUS
    <3>1. CASE b = k + 1
      BY <2>2, <2>3, <3>1
    <3>2. CASE b \in 1..k
      BY <1>2, <3>2
    <3> QED
      BY <3>1, <3>2
  <2>5. Kept(kept, R, list, k + 1, g)
    BY <1>1, <1>2, <2>3, <2>4 DEF Kept, same
  <2> QED
    BY <2>1, <2>5
<1>4. CASE ~ \E i \in 1..n : same(kept[i], r)
  <2> DEFINE places == [i \in 1..n + 1 |-> IF i <= n THEN g[i] ELSE k + 1]
  <2>1. more = Append(kept, r)
    BY <1>1, <1>4 DEF Context!KeepFirst, same
  <2>2. /\ more \in Seq(R) /\ Len(more) = n + 1
        /\ \A i \in 1..n : more[i] = kept[i]
        /\ more[n + 1] = r
    BY <1>1, <1>2, <2>1, AppendProperties
  <2> HIDE DEF more, r
  <2>3. places \in [1..n + 1 -> 1..k + 1] /\ places[n + 1] = k + 1 /\ \A i \in 1..n : places[i] = g[i] /\ g[i] \in 1..k
    BY <1>2
  <2> HIDE DEF places
  <2>4. \A i \in 1..n + 1 : i = n + 1 \/ i \in 1..n
    OBVIOUS
  <2>5. \A i, j \in 1..n + 1 : i < j => places[i] < places[j]
    <3> SUFFICES ASSUME NEW i \in 1..n + 1, NEW j \in 1..n + 1, i < j PROVE places[i] < places[j]
      OBVIOUS
    <3>1. i \in 1..n
      OBVIOUS
    <3>2. CASE j = n + 1
      BY <2>3, <3>1, <3>2
    <3>3. CASE j \in 1..n
      BY <1>2, <2>3, <3>1, <3>3
    <3> QED
      BY <2>4, <3>2, <3>3
  <2>6. \A i \in 1..n + 1 : more[i] = list[places[i]]
    BY <1>2, <2>2, <2>3, <2>4 DEF r
  <2>7. \A i, j \in 1..n + 1 : i # j => ~ same(more[i], more[j])
    <3>1. \A x, y : same(x, y) <=> same(y, x)
      BY DEF same
    <3>2. \A i \in 1..n : ~ same(more[i], more[n + 1]) /\ ~ same(more[n + 1], more[i])
      BY <1>4, <2>2, <3>1
    <3>3. \A i, j \in 1..n : i # j => ~ same(more[i], more[j])
      BY <1>2, <2>2
    <3> QED
      BY <2>4, <3>2, <3>3
  <2>8. \A b \in 1..k + 1 : \E i \in 1..n + 1 : places[i] <= b /\ same(more[i], list[b])
    <3> SUFFICES ASSUME NEW b \in 1..k + 1 PROVE \E i \in 1..n + 1 : places[i] <= b /\ same(more[i], list[b])
      OBVIOUS
    <3>1. CASE b = k + 1
      <4>1. same(more[n + 1], list[b])
        BY <2>2, <3>1 DEF same, r
      <4> QED
        BY <2>3, <3>1, <4>1
    <3>2. CASE b \in 1..k
      <4>1. PICK i \in 1..n : g[i] <= b /\ same(kept[i], list[b])
        BY <1>2, <3>2
      <4>2. i \in 1..n + 1 /\ places[i] <= b /\ same(more[i], list[b])
        BY <2>2, <2>3, <4>1
      <4> QED
        BY <4>2
    <3> QED
      BY <3>1, <3>2
  <2>9. Kept(more, R, list, k + 1, places)
    BY <2>2, <2>3, <2>5, <2>6, <2>7, <2>8 DEF Kept, same
  <2> QED
    BY <2>9 DEF more, r
<1> QED
  BY <1>3, <1>4

LEMMA DeduplicatedFacts ==
  ASSUME NEW R, NEW list \in Seq(R)
  PROVE  \E g : Kept(Context!Deduplicated(list), R, list, Len(list), g)
<1>1. PICK n \in Nat : n = Len(list) /\ \A k \in 1..n : list[k] \in R
  BY LenProperties
<1>2. PICK t : /\ t[0] = <<>>
               /\ \A k \in 0..n - 1 : t[k + 1] = Context!KeepFirst(t[k], list[k + 1])
               /\ Context!Deduplicated(list) = t[n]
  BY <1>1, DeduplicatedTrace
<1> DEFINE done(k) == \E g : Kept(t[k], R, list, k, g)
           ks == {k \in Nat : k <= n => done(k)}
<1>3. 0 \in ks
  <2> DEFINE g == [i \in 1..0 |-> i]
  <2>1. 1..0 = {} /\ <<>> \in Seq(R) /\ Len(<<>>) = 0
    OBVIOUS
  <2>2. g \in [1..0 -> 1..0]
    BY <2>1
  <2> HIDE DEF g
  <2>3. Kept(<<>>, R, list, 0, g)
    BY <2>1, <2>2 DEF Kept
  <2> QED
    BY <1>2, <2>3
<1>4. ASSUME NEW k \in Nat, k \in ks PROVE k + 1 \in ks
  <2> SUFFICES ASSUME k + 1 <= n PROVE done(k + 1)
    OBVIOUS
  <2>1. k \in 0..n - 1 /\ k + 1 \in 1..n
    OBVIOUS
  <2>2. PICK g : Kept(t[k], R, list, k, g)
    BY <1>4
  <2>3. list[k + 1] \in R /\ t[k + 1] = Context!KeepFirst(t[k], list[k + 1])
    BY <1>1, <1>2, <2>1
  <2> QED
    BY <2>2, <2>3, KeptStep
<1> HIDE DEF ks, done
<1>5. Nat \subseteq ks
  BY <1>3, <1>4, SetInduction
<1>6. done(n)
  BY <1>5 DEF ks
<1> QED
  BY <1>1, <1>2, <1>6 DEF done

\* What an assembly of relationships of R is made of.
SnippetKinds == {"deleted", "wildcard", "large", "signature"}
Snippets(R) == [rel : R, kind : SnippetKinds]
Events(R)   == [rel : R, tokens : Nat, total : Nat]
Assemblies(R) ==
  [snippets : Seq(Snippets(R)), total : Nat, logged : Seq(Events(R)),
   warned : SUBSET {Context!Symbol(r) : r \in R}, wildcards : Seq(R)]
IsLimited(w) == w.tokens \in [SnippetKinds -> Nat] /\ w.maxSnippets \in Nat

LEMMA KindFacts ==
  /\ \A w, deps, r : Context!Kind(w, deps, r) \in SnippetKinds \cup {"none"}
  /\ \A w, deps, r, s : Context!DedupKey(r) = Context!DedupKey(s) =>
       Context!Kind(w, deps, r) = Context!Kind(w, deps, s)
<1>1. \A w, deps, r : Context!Kind(w, deps, r) \in SnippetKinds \cup {"none"}
  BY DEF Context!Kind, SnippetKinds
<1>2. \A w, deps, r, s : Context!DedupKey(r) = Context!DedupKey(s) =>
        Context!Kind(w, deps, r) = Context!Kind(w, deps, s)
  <2> SUFFICES ASSUME NEW w, NEW deps, NEW r, NEW s, Context!DedupKey(r) = Context!DedupKey(s)
               PROVE  Context!Kind(w, deps, r) = Context!Kind(w, deps, s)
    OBVIOUS
  <2>1. r.tgt = s.tgt /\ r.tline = s.tline /\ r.type = s.type
    BY DEF Context!DedupKey
  <2> QED
    BY <2>1 DEF Context!Kind
<1> QED
  BY <1>1, <1>2

LEMMA AssemblyType ==
  ASSUME NEW R, NEW w, IsLimited(w), NEW deps, NEW done \in Assemblies(R), NEW r \in R
  PROVE  Context!Next(w, deps, done, r) \in Assemblies(R)
<1> DEFINE kind == Context!Kind(w, deps, r)
           total == done.total + w.tokens[kind]
           snippet == [rel |-> r, kind |-> kind]
           event == [rel |-> r, tokens |-> w.tokens[kind], total |-> total]
           warned == IF kind \in {"signature", "large"} /\ Context!Symbol(r) \in Context!HighUsage(w, deps)
                     THEN done.warned \cup {Context!Symbol(r)} ELSE done.warned
           wildcards == IF kind = "wildcard" /\ w.warnOnWildcards THEN Append(done.wildcards, r) ELSE done.wildcards
<1>1. CASE Len(done.snippets) >= w.maxSnippets \/ kind = "none"
  BY <1>1 DEF Context!Next
<1>2. CASE ~ (Len(done.snippets) >= w.maxSnippets \/ kind = "none")
  <2>1. Context!Next(w, deps, done, r) =
          [snippets |-> Append(done.snippets, snippet), total |-> total, logged |-> Append(done.logged, event),
           warned |-> warned, wildcards |-> wildcards]
    BY <1>2 DEF Context!Next, Context!AddSnippet
  <2>2. kind \in SnippetKinds
    BY <1>2, KindFacts
  <2>3. /\ done.snippets \in Seq(Snippets(R)) /\ done.total \in Nat /\ done.logged \in Seq(Events(R))
        /\ done.warned \in SUBSET {Context!Symbol(x) : x \in R} /\ done.wildcards \in Seq(R)
    BY DEF Assemblies
  <2>4. w.tokens[kind] \in Nat /\ total \in Nat
    BY <2>2, <2>3 DEF IsLimited
  <2> HIDE DEF kind, total
  <2>5. snippet \in Snippets(R) /\ event \in Events(R)
    BY <2>2, <2>4 DEF Snippets, Events
  <2>6. warned \in SUBSET {Context!Symbol(x) : x \in R}
    BY <2>3
  <2> HIDE DEF snippet, event, warned
  <2>7. Append(done.snippets, snippet) \in Seq(Snippets(R)) /\ Append(done.logged, event) \in Seq(Events(R))
    BY <2>3, <2>5, AppendProperties
  <2>8. wildcards \in Seq(R)
    BY <2>3, AppendProperties
  <2> HIDE DEF wildcards
  <2> QED
    BY <2>1, <2>4, <2>6, <2>7, <2>8 DEF Assemblies
<1> QED
  BY <1>1, <1>2

\* The fold takes the relationships of a list in order.
LEMMA AssembledTrace ==
  ASSUME NEW R, NEW w, IsLimited(w), NEW deps, Context!Deduplicated(Context!Prioritized(w, deps)) \in Seq(R)
  PROVE  \E t : LET list == Context!Deduplicated(Context!Prioritized(w, deps))
                IN /\ t[0] = Context!Start
                   /\ \A k \in 0..Len(list) - 1 : t[k + 1] = Context!Next(w, deps, t[k], list[k + 1])
                   /\ Context!Assembled(w, deps) = t[Len(list)]
<1> DEFINE list == Context!Deduplicated(Context!Prioritized(w, deps))
           n == Len(list)
           D == Assemblies(R)
           value(s, it) ==
             IF s = {} THEN Context!Start ELSE Context!Next(w, deps, it[s \ {Highest(s)}], list[Highest(s)])
           runs(it) == it = [s \in SUBSET (1..n) |-> value(s, it)]
           step == [k \in 1..n |-> [done \in D |-> Context!Next(w, deps, done, list[k])]]
<1>1. n \in Nat /\ DOMAIN list = 1..n /\ \A k \in 1..n : list[k] \in R
  BY LenProperties
<1>2. Context!Assembled(w, deps) = (CHOOSE it : runs(it))[1..n]
  BY <1>1 DEF Context!Assembled, Context!FoldLeft, Context!MapThenFoldSet, Context!Max, Highest
<1> HIDE DEF n, D, list
<1>3. \A done \in D, k \in 1..n : Context!Next(w, deps, done, list[k]) \in D
  BY <1>1, AssemblyType DEF D
<1>4. step \in [1..n -> [D -> D]]
  BY <1>3
<1>5. Context!Start \in D
  BY DEF D, Context!Start, Assemblies
<1>6. PICK it : IsFold(it, n, Context!Start, step) /\ it \in [SUBSET (1..n) -> D]
  <2> HIDE DEF step
  <2> QED
    BY <1>1, <1>4, <1>5, FoldExists
<1>7. \A s \in SUBSET (1..n) : s # {} => Highest(s) \in 1..n /\ s \ {Highest(s)} \in SUBSET (1..n)
  BY <1>1, HighestFacts
<1>8. ASSUME NEW s \in SUBSET (1..n) PROVE it[s] = value(s, it)
  <2>1. it[s] = IF s = {} THEN Context!Start ELSE step[Highest(s)][it[s \ {Highest(s)}]]
    <3> HIDE DEF step
    <3> QED
      BY <1>6 DEF IsFold
  <2>2. CASE s = {}
    BY <2>1, <2>2
  <2>3. CASE s # {}
    <3>1. it[s \ {Highest(s)}] \in D /\ Highest(s) \in 1..n
      BY <1>6, <1>7, <2>3
    <3> QED
      BY <2>1, <2>3, <3>1
  <2> QED
    BY <2>2, <2>3
<1>9. runs(it)
  <2> HIDE DEF value
  <2>1. it = [s \in SUBSET (1..n) |-> it[s]]
    BY <1>6
  <2> QED
    BY <1>8, <2>1
<1> DEFINE run == CHOOSE all : runs(all)
<1>10. \A s \in SUBSET (1..n) : run[s] = value(s, run)
  <2>1. runs(run)
    BY <1>9
  <2> HIDE DEF run, value
  <2> QED
    BY <2>1
<1> HIDE DEF run
<1> DEFINE t == [k \in 0..n |-> run[1..k]]
<1>11. t[0] = Context!Start /\ t[n] = run[1..n]
  <2>1. run[{}] = Context!Start
    BY <1>10
  <2>2. 1..0 = {} /\ t[0] = run[1..0] /\ t[n] = run[1..n]
    BY <1>1
  <2> HIDE DEF t
  <2> QED
    BY <2>1, <2>2
<1>12. ASSUME NEW k \in 0..n - 1 PROVE t[k + 1] = Context!Next(w, deps, t[k], list[k + 1])
  <2>1. Highest(1..k + 1) = k + 1 /\ (1..k + 1) \ {k + 1} = 1..k /\ 1..k + 1 \in SUBSET (1..n) /\ 1..k + 1 # {}
    BY <1>1, HighestFacts
  <2>2. run[1..k + 1] = Context!Next(w, deps, run[1..k], list[k + 1])
    BY <1>10, <2>1
  <2>3. t[k + 1] = run[1..k + 1] /\ t[k] = run[1..k]
    BY <1>1
  <2> HIDE DEF t
  <2> QED
    BY <2>2, <2>3
<1>13. Context!Assembled(w, deps) = t[n]
  BY <1>2, <1>11 DEF run
<1> QED
  <2> HIDE DEF t
  <2> QED
    BY <1>11, <1>12, <1>13 DEF n, list

\* The fold adds the tokens of the snippets in order.
TokensOf(w, shown) == Context!FoldLeft(LAMBDA n, s : n + w.tokens[s.kind], 0, shown)

LEMMA TotalTrace ==
  ASSUME NEW w, NEW A, \A a \in A : w.tokens[a.kind] \in Nat, NEW shown \in Seq(A)
  PROVE  \E t : /\ t[0] = 0
                /\ \A k \in 0..Len(shown) - 1 : t[k + 1] = t[k] + w.tokens[shown[k + 1].kind]
                /\ TokensOf(w, shown) = t[Len(shown)]
<1> DEFINE n == Len(shown)
           value(s, it) == IF s = {} THEN 0 ELSE it[s \ {Highest(s)}] + w.tokens[shown[Highest(s)].kind]
           runs(it) == it = [s \in SUBSET (1..n) |-> value(s, it)]
           step == [k \in 1..n |-> [sum \in Nat |-> sum + w.tokens[shown[k].kind]]]
<1>1. n \in Nat /\ DOMAIN shown = 1..n /\ \A k \in 1..n : shown[k] \in A
  BY LenProperties
<1>2. TokensOf(w, shown) = (CHOOSE it : runs(it))[1..n]
  BY <1>1 DEF TokensOf, Context!FoldLeft, Context!MapThenFoldSet, Context!Max, Highest
<1> HIDE DEF n
<1>3. \A k \in 1..n : w.tokens[shown[k].kind] \in Nat
  BY <1>1
<1>4. step \in [1..n -> [Nat -> Nat]]
  BY <1>3
<1>6. PICK it : IsFold(it, n, 0, step) /\ it \in [SUBSET (1..n) -> Nat]
  <2> HIDE DEF step
  <2> QED
    BY <1>1, <1>4, FoldExists
<1>7. \A s \in SUBSET (1..n) : s # {} => Highest(s) \in 1..n /\ s \ {Highest(s)} \in SUBSET (1..n)
  BY <1>1, HighestFacts
<1>8. ASSUME NEW s \in SUBSET (1..n) PROVE it[s] = value(s, it)
  <2>1. it[s] = IF s = {} THEN 0 ELSE step[Highest(s)][it[s \ {Highest(s)}]]
    <3> HIDE DEF step
    <3> QED
      BY <1>6 DEF IsFold
  <2>2. CASE s = {}
    BY <2>1, <2>2
  <2>3. CASE s # {}
    <3>1. it[s \ {Highest(s)}] \in Nat /\ Highest(s) \in 1..n
      BY <1>6, <1>7, <2>3
    <3> QED
      BY <2>1, <2>3, <3>1
  <2> QED
    BY <2>2, <2>3
<1>9. runs(it)
  <2> HIDE DEF value
  <2>1. it = [s \in SUBSET (1..n) |-> it[s]]
    BY <1>6
  <2> QED
    BY <1>8, <2>1
<1> DEFINE run == CHOOSE all : runs(all)
<1>10. \A s \in SUBSET (1..n) : run[s] = value(s, run)
  <2>1. runs(run)
    BY <1>9
  <2> HIDE DEF run, value
  <2> QED
    BY <2>1
<1> HIDE DEF run
<1> DEFINE t == [k \in 0..n |-> run[1..k]]
<1>11. t[0] = 0 /\ t[n] = run[1..n]
  <2>1. run[{}] = 0
    BY <1>10
  <2>2. 1..0 = {} /\ t[0] = run[1..0] /\ t[n] = run[1..n]
    BY <1>1
  <2> HIDE DEF t
  <2> QED
    BY <2>1, <2>2
<1>12. ASSUME NEW k \in 0..n - 1 PROVE t[k + 1] = t[k] + w.tokens[shown[k + 1].kind]
  <2>1. Highest(1..k + 1) = k + 1 /\ (1..k + 1) \ {k + 1} = 1..k /\ 1..k + 1 \in SUBSET (1..n) /\ 1..k + 1 # {}
    BY <1>1, HighestFacts
  <2>2. run[1..k + 1] = run[1..k] + w.tokens[shown[k + 1].kind]
    BY <1>10, <2>1
  <2>3. t[k + 1] = run[1..k + 1] /\ t[k] = run[1..k]
    BY <1>1
  <2> HIDE DEF t
  <2> QED
    BY <2>2, <2>3
<1>13. TokensOf(w, shown) = t[n]
  BY <1>2, <1>11 DEF run
<1> QED
  <2> HIDE DEF t
  <2> QED
    BY <1>11, <1>12, <1>13 DEF n

\* the tokens an assembly has logged before its i-th event
TotalBefore(done, i) == IF i = 1 THEN 0 ELSE done.logged[i - 1].total

\* The i-th snippet of an assembly and its event are those of a relationship.
IsShown(done, w, deps, i, r) ==
  /\ done.snippets[i] = [rel |-> r, kind |-> Context!Kind(w, deps, r)]
  /\ Context!Kind(w, deps, r) # "none"
  /\ done.logged[i].rel = r
  /\ done.logged[i].total = TotalBefore(done, i) + w.tokens[Context!Kind(w, deps, r)]
  /\ Context!Kind(w, deps, r) \in {"signature", "large"} /\ Context!Symbol(r) \in Context!HighUsage(w, deps) =>
       Context!Symbol(r) \in done.warned

\* What is shown of the first k of a list, n of them, at the places h.
Shown(done, R, w, deps, list, k, n, h) ==
  /\ done \in Assemblies(R) /\ n \in Nat
  /\ Len(done.snippets) = n /\ Len(done.logged) = n /\ n <= w.maxSnippets
  /\ h \in [1..n -> 1..k]
  /\ \A i, j \in 1..n : i < j => h[i] < h[j]
  /\ \A i \in 1..n : IsShown(done, w, deps, i, list[h[i]])
  /\ done.total = IF n = 0 THEN 0 ELSE done.logged[n].total
  /\ done.warned \subseteq Context!HighUsage(w, deps)
  /\ \A a \in 1..k : \/ Context!Kind(w, deps, list[a]) = "none"
                     \/ \E i \in 1..n : h[i] = a
                     \/ n = w.maxSnippets /\ \A i \in 1..n : h[i] < a

LEMMA ShownStep ==
  ASSUME NEW R, NEW w, IsLimited(w), NEW deps, NEW list, NEW k \in Nat, list[k + 1] \in R,
         NEW done, NEW n, NEW h, Shown(done, R, w, deps, list, k, n, h)
  PROVE  \E m, places : Shown(Context!Next(w, deps, done, list[k + 1]), R, w, deps, list, k + 1, m, places)
<1> DEFINE r == list[k + 1]
           after == Context!Next(w, deps, done, r)
           kind == Context!Kind(w, deps, r)
           high == Context!HighUsage(w, deps)
           limit == w.maxSnippets
           none(a) == Context!Kind(w, deps, list[a]) = "none"
           shown(i) == IsShown(done, w, deps, i, list[h[i]])
<1>1. /\ done \in Assemblies(R) /\ n \in Nat
      /\ Len(done.snippets) = n /\ Len(done.logged) = n /\ n <= limit
      /\ h \in [1..n -> 1..k]
      /\ \A i, j \in 1..n : i < j => h[i] < h[j]
      /\ \A i \in 1..n : shown(i)
      /\ done.total = IF n = 0 THEN 0 ELSE done.logged[n].total
      /\ done.warned \subseteq high
      /\ \A a \in 1..k : none(a) \/ (\E i \in 1..n : h[i] = a) \/ (n = limit /\ \A i \in 1..n : h[i] < a)
  BY DEF Shown
<1>2. limit \in Nat /\ \A i \in 1..n : h[i] \in 1..k
  BY <1>1 DEF IsLimited
<1>3. CASE n >= limit \/ kind = "none"
  <2>1. after = done
    BY <1>1, <1>3 DEF Context!Next
  <2> HIDE DEF shown, limit, high
  <2>2. \A i \in 1..n : h[i] \in 1..k + 1 /\ h[i] < k + 1
    BY <1>2
  <2>3. h \in [1..n -> 1..k + 1]
    BY <1>1, <2>2
  <2>4. \A a \in 1..k + 1 : none(a) \/ (\E i \in 1..n : h[i] = a) \/ (n = limit /\ \A i \in 1..n : h[i] < a)
    <3> SUFFICES ASSUME NEW a \in 1..k + 1
                 PROVE  none(a) \/ (\E i \in 1..n : h[i] = a) \/ (n = limit /\ \A i \in 1..n : h[i] < a)
      OBVIOUS
    <3>1. CASE a = k + 1
      <4>1. CASE kind = "none"
        BY <3>1, <4>1
      <4>2. CASE n >= limit
        <5>1. n = limit
          BY <1>1, <1>2, <4>2
        <5> QED
          BY <2>2, <3>1, <5>1
      <4> QED
        BY <1>3, <4>1, <4>2
    <3>2. CASE a \in 1..k
      BY <1>1, <3>2
    <3> QED
      BY <3>1, <3>2
  <2>5. Shown(done, R, w, deps, list, k + 1, n, h)
    BY <1>1, <2>3, <2>4 DEF Shown, shown, limit, high
  <2> QED
    BY <2>1, <2>5
<1>4. CASE ~ (n >= limit \/ kind = "none")
  <2> DEFINE symbol == Context!Symbol(r)
             total == done.total + w.tokens[kind]
             snippet == [rel |-> r, kind |-> kind]
             event == [rel |-> r, tokens |-> w.tokens[kind], total |-> total]
             more == Append(done.snippets, snippet)
             log == Append(done.logged, event)
             places == [i \in 1..n + 1 |-> IF i <= n THEN h[i] ELSE k + 1]
  <2>1. /\ after.snippets = more /\ after.total = total /\ after.logged = log
        /\ after.warned = IF kind \in {"signature", "large"} /\ symbol \in high
                          THEN done.warned \cup {symbol} ELSE done.warned
    BY <1>1, <1>4 DEF Context!Next, Context!AddSnippet
  <2>2. after \in Assemblies(R)
    BY <1>1, AssemblyType
  <2>3. done.snippets \in Seq(Snippets(R)) /\ done.logged \in Seq(Events(R)) /\ done.total \in Nat
    BY <1>1 DEF Assemblies
  <2>4. kind \in SnippetKinds /\ w.tokens[kind] \in Nat /\ total \in Nat
    BY <1>4, <2>3, KindFacts DEF IsLimited
  <2> HIDE DEF after, kind, high, limit, total, r
  <2>5. snippet \in Snippets(R) /\ event \in Events(R)
    BY <2>4 DEF Snippets, Events, r
  <2>6. snippet.rel = r /\ snippet.kind = kind /\ event.rel = r /\ event.total = total
    OBVIOUS
  <2> HIDE DEF event
  <2>7. /\ Len(more) = n + 1 /\ more[n + 1] = snippet
        /\ \A i \in 1..n : more[i] = done.snippets[i]
    BY <1>1, <2>3, <2>5, AppendProperties
  <2>8. /\ Len(log) = n + 1 /\ log[n + 1] = event
        /\ \A i \in 1..n : log[i] = done.logged[i]
    BY <1>1, <2>3, <2>5, AppendProperties
  <2> HIDE DEF more, log
  <2>9. n + 1 \in Nat /\ n + 1 <= limit /\ n + 1 # 0 /\ \A i \in 1..n + 1 : i = n + 1 \/ i \in 1..n
    BY <1>1, <1>2, <1>4
  <2>10. places \in [1..n + 1 -> 1..k + 1] /\ places[n + 1] = k + 1 /\ \A i \in 1..n : places[i] = h[i] /\ h[i] < k + 1
    BY <1>1, <1>2
  <2> HIDE DEF places
  <2>11. \A i, j \in 1..n + 1 : i < j => places[i] < places[j]
    <3> SUFFICES ASSUME NEW i \in 1..n + 1, NEW j \in 1..n + 1, i < j PROVE places[i] < places[j]
      OBVIOUS
    <3>1. i \in 1..n
      BY <1>1
    <3>2. CASE j = n + 1
      BY <2>10, <3>1, <3>2
    <3>3. CASE j \in 1..n
      BY <1>1, <2>10, <3>1, <3>3
    <3> QED
      BY <2>9, <3>2, <3>3
  <2>12. \A i \in 1..n : IsShown(after, w, deps, i, list[places[i]])
    <3> SUFFICES ASSUME NEW i \in 1..n PROVE IsShown(after, w, deps, i, list[h[i]])
      BY <2>10
    <3>1. shown(i)
      BY <1>1
    <3>2. /\ after.snippets[i] = done.snippets[i] /\ after.logged[i] = done.logged[i]
          /\ done.warned \subseteq after.warned
      BY <2>1, <2>7, <2>8
    <3>3. TotalBefore(after, i) = TotalBefore(done, i)
      <4>1. i # 1 => i - 1 \in 1..n
        BY <1>1
      <4>2. i # 1 => after.logged[i - 1] = done.logged[i - 1]
        BY <2>1, <2>8, <4>1
      <4> QED
        BY <4>2 DEF TotalBefore
    <3> QED
      BY <3>1, <3>2, <3>3 DEF IsShown
  <2>13. IsShown(after, w, deps, n + 1, r)
    <3>1. done.total = TotalBefore(after, n + 1)
      <4>1. n = 0 <=> n + 1 = 1
        BY <1>1
      <4>2. n # 0 => n \in 1..n /\ n + 1 - 1 = n
        BY <1>1
      <4>3. n # 0 => after.logged[n + 1 - 1] = done.logged[n]
        BY <2>1, <2>8, <4>2
      <4> QED
        BY <1>1, <4>1, <4>3 DEF TotalBefore
    <3>2. after.snippets[n + 1] = snippet /\ after.logged[n + 1].rel = r /\ after.logged[n + 1].total = total
      BY <2>1, <2>6, <2>7, <2>8
    <3>3. kind # "none"
      BY <1>4
    <3>4. kind \in {"signature", "large"} /\ symbol \in high => symbol \in after.warned
      BY <2>1
    <3>5. after.logged[n + 1].total = TotalBefore(after, n + 1) + w.tokens[kind]
      BY <3>1, <3>2 DEF total
    <3>6. after.snippets[n + 1] = [rel |-> r, kind |-> kind] /\ after.logged[n + 1].rel = r
      BY <3>2
    <3> HIDE DEF snippet
    <3> QED
      BY <3>3, <3>4, <3>5, <3>6 DEF IsShown, kind, high
  <2>14. \A i \in 1..n + 1 : IsShown(after, w, deps, i, list[places[i]])
    BY <2>9, <2>10, <2>12, <2>13 DEF r
  <2>15. after.total = after.logged[n + 1].total /\ after.warned \subseteq high
    BY <1>1, <2>1, <2>6, <2>8
  <2>16. \A a \in 1..k + 1 : \/ none(a)
                             \/ \E i \in 1..n + 1 : places[i] = a
                             \/ n + 1 = limit /\ \A i \in 1..n + 1 : places[i] < a
    <3> SUFFICES ASSUME NEW a \in 1..k + 1 PROVE none(a) \/ \E i \in 1..n + 1 : places[i] = a
      OBVIOUS
    <3>1. CASE a = k + 1
      BY <2>9, <2>10, <3>1
    <3>2. CASE a \in 1..k
      <4>1. n # limit
        BY <1>1, <1>2, <1>4
      <4>2. none(a) \/ \E i \in 1..n : h[i] = a
        BY <1>1, <3>2, <4>1
      <4>3. \A i \in 1..n : i \in 1..n + 1 /\ places[i] = h[i]
        BY <1>1, <2>10
      <4> QED
        BY <4>2, <4>3
    <3> QED
      BY <3>1, <3>2
  <2>17. Len(after.snippets) = n + 1 /\ Len(after.logged) = n + 1
    BY <2>1, <2>7, <2>8
  <2>18. Shown(after, R, w, deps, list, k + 1, n + 1, places)
    <3> HIDE DEF none
    <3>1. \A a \in 1..k + 1 : \/ Context!Kind(w, deps, list[a]) = "none"
                              \/ \E i \in 1..n + 1 : places[i] = a
                              \/ n + 1 = w.maxSnippets /\ \A i \in 1..n + 1 : places[i] < a
      BY <2>16 DEF none, limit
    <3>2. after.total = IF n + 1 = 0 THEN 0 ELSE after.logged[n + 1].total
      BY <2>9, <2>15
    <3>3. n + 1 <= w.maxSnippets /\ after.warned \subseteq Context!HighUsage(w, deps)
      BY <2>9, <2>15 DEF limit, high
    <3> QED
      BY <2>2, <2>9, <2>10, <2>11, <2>14, <2>17, <3>1, <3>2, <3>3 DEF Shown
  <2> QED
    BY <2>18 DEF after, r
<1> QED
  BY <1>3, <1>4

LEMMA AssembledFacts ==
  ASSUME NEW R, NEW w, IsLimited(w), NEW deps, NEW list \in Seq(R),
         list = Context!Deduplicated(Context!Prioritized(w, deps))
  PROVE  \E m, places : Shown(Context!Assembled(w, deps), R, w, deps, list, Len(list), m, places)
<1>1. PICK n \in Nat : n = Len(list) /\ \A k \in 1..n : list[k] \in R
  BY LenProperties
<1>2. PICK t : /\ t[0] = Context!Start
               /\ \A k \in 0..n - 1 : t[k + 1] = Context!Next(w, deps, t[k], list[k + 1])
               /\ Context!Assembled(w, deps) = t[n]
  BY <1>1, AssembledTrace
<1> DEFINE done(k) == \E m, places : Shown(t[k], R, w, deps, list, k, m, places)
           ks == {k \in Nat : k <= n => done(k)}
<1>3. 0 \in ks
  <2> DEFINE h == [i \in 1..0 |-> i]
             s == Context!Start
  <2>1. 1..0 = {} /\ Len(<<>>) = 0
    OBVIOUS
  <2>2. h \in [1..0 -> 1..0]
    BY <2>1
  <2>3. s \in Assemblies(R)
    BY DEF Context!Start, Assemblies
  <2>4. s.snippets = <<>> /\ s.logged = <<>> /\ s.total = 0 /\ s.warned = {}
    BY DEF Context!Start
  <2>5. 0 <= w.maxSnippets
    BY DEF IsLimited
  <2> HIDE DEF h, s
  <2>6. Shown(s, R, w, deps, list, 0, 0, h)
    BY <2>1, <2>2, <2>3, <2>4, <2>5 DEF Shown
  <2> QED
    BY <1>2, <2>6 DEF s
<1>4. ASSUME NEW k \in Nat, k \in ks PROVE k + 1 \in ks
  <2> SUFFICES ASSUME k + 1 <= n PROVE done(k + 1)
    OBVIOUS
  <2>1. k \in 0..n - 1 /\ k + 1 \in 1..n
    OBVIOUS
  <2>2. PICK m, h : Shown(t[k], R, w, deps, list, k, m, h)
    BY <1>4
  <2>3. list[k + 1] \in R /\ t[k + 1] = Context!Next(w, deps, t[k], list[k + 1])
    BY <1>1, <1>2, <2>1
  <2> QED
    BY <2>2, <2>3, ShownStep
<1> HIDE DEF ks, done
<1>5. Nat \subseteq ks
  BY <1>3, <1>4, SetInduction
<1>6. done(n)
  BY <1>5 DEF ks
<1> QED
  BY <1>1, <1>2, <1>6 DEF done

\* Whatever the dependencies and the answers of the other components.
LEMMA ContextCorrect ==
  ASSUME NEW R, \A r \in R : r.line \in Int, NEW w, IsLimited(w), NEW deps \in Seq(R)
  PROVE  Context!ContextIsRight(w, deps)
<1> DEFINE list == Context!Prioritized(w, deps)
           kept == Context!Deduplicated(list)
           done == Context!Assembled(w, deps)
           key(r) == Context!SortKey(w, deps, r)
           id(r) == Context!DedupKey(r)
           kind(r) == Context!Kind(w, deps, r)
           rel(i) == done.snippets[i].rel
           limit == w.maxSnippets
<1>1. PICK n \in Nat : DOMAIN deps = 1..n /\ \A d \in 1..n : deps[d] \in R
  BY LenProperties
<1>2. InOrder(list, w, deps)
  BY <1>1, PrioritizedFacts
<1> HIDE DEF list
<1>3. /\ DOMAIN list = 1..n /\ list = [p \in 1..n |-> list[p]]
      /\ \A p \in 1..n : \E d \in 1..n : list[p] = deps[d]
      /\ \A d \in 1..n : \E p \in 1..n : list[p] = deps[d]
      /\ \A o, p \in 1..n : o < p => ~ Context!Less(key(list[p]), key(list[o]))
  BY <1>1, <1>2 DEF InOrder
<1>4. \A p \in 1..n : list[p] \in R
  BY <1>1, <1>3
<1>5. list \in Seq(R) /\ Len(list) = n
  BY <1>3, <1>4, LenProperties
<1>6. PICK g : Kept(kept, R, list, n, g)
  BY <1>5, DeduplicatedFacts
<1>7. PICK e \in Nat : kept \in Seq(R) /\ e = Len(kept)
  BY <1>6, LenProperties DEF Kept
<1>8. PICK m, h : Shown(done, R, w, deps, kept, e, m, h)
  BY <1>7, AssembledFacts DEF list
<1> HIDE DEF kept, done
<1>9. /\ g \in [1..e -> 1..n]
      /\ \A i, j \in 1..e : i < j => g[i] < g[j]
      /\ \A i \in 1..e : kept[i] = list[g[i]]
      /\ \A i, j \in 1..e : i # j => id(kept[i]) # id(kept[j])
      /\ \A b \in 1..n : \E i \in 1..e : g[i] <= b /\ id(kept[i]) = id(list[b])
  BY <1>6, <1>7 DEF Kept
<1>10. /\ done \in Assemblies(R) /\ m \in Nat
       /\ Len(done.snippets) = m /\ Len(done.logged) = m /\ m <= limit
       /\ h \in [1..m -> 1..e]
       /\ \A i, j \in 1..m : i < j => h[i] < h[j]
       /\ \A i \in 1..m : IsShown(done, w, deps, i, kept[h[i]])
       /\ done.total = IF m = 0 THEN 0 ELSE done.logged[m].total
       /\ done.warned \subseteq Context!HighUsage(w, deps)
       /\ \A a \in 1..e : kind(kept[a]) = "none" \/ (\E i \in 1..m : h[i] = a) \/ (m = limit /\ \A i \in 1..m : h[i] < a)
  BY <1>8 DEF Shown
<1>11. /\ done.snippets \in Seq(Snippets(R)) /\ done.logged \in Seq(Events(R))
       /\ DOMAIN done.snippets = 1..m
  BY <1>10, LenProperties DEF Assemblies
<1>12. \A i \in 1..m : h[i] \in 1..e /\ g[h[i]] \in 1..n /\ rel(i) = kept[h[i]] /\ rel(i) = list[g[h[i]]]
  <2> SUFFICES ASSUME NEW i \in 1..m
               PROVE  h[i] \in 1..e /\ g[h[i]] \in 1..n /\ rel(i) = kept[h[i]] /\ rel(i) = list[g[h[i]]]
    OBVIOUS
  <2>1. h[i] \in 1..e /\ g[h[i]] \in 1..n
    BY <1>9, <1>10
  <2>2. rel(i) = kept[h[i]]
    <3>1. IsShown(done, w, deps, i, kept[h[i]])
      BY <1>10
    <3> QED
      BY <3>1 DEF IsShown
  <2> QED
    BY <1>9, <2>1, <2>2
<1>13. Context!ShowsTheMostImportant(w, deps)
  <2>1. ASSUME NEW i \in 1..m, NEW j \in 1..m, i < j
        PROVE  id(rel(i)) # id(rel(j)) /\ ~ Context!Less(key(rel(j)), key(rel(i)))
    <3>1. h[i] < h[j] /\ h[i] # h[j] /\ h[i] \in 1..e /\ h[j] \in 1..e
      BY <1>10, <1>12, <2>1
    <3>2. g[h[i]] < g[h[j]]
      BY <1>9, <3>1
    <3> HIDE DEF id, key, rel
    <3>3. id(rel(i)) # id(rel(j))
      <4>1. id(kept[h[i]]) # id(kept[h[j]])
        BY <1>9, <3>1
      <4>2. rel(i) = kept[h[i]] /\ rel(j) = kept[h[j]]
        BY <1>12
      <4> QED
        BY <4>1, <4>2
    <3>4. ~ Context!Less(key(list[g[h[j]]]), key(list[g[h[i]]]))
      BY <1>3, <1>12, <3>2
    <3> QED
      BY <1>12, <3>3, <3>4
  <2>2. ASSUME NEW d \in 1..n
        PROVE  \/ kind(deps[d]) = "none"
               \/ \E i \in 1..m : id(rel(i)) = id(deps[d])
               \/ m = limit /\ \A i \in 1..m : ~ Context!Less(key(deps[d]), key(rel(i)))
    <3>1. PICK b \in 1..n : list[b] = deps[d]
      BY <1>3
    <3>2. PICK a \in 1..e : g[a] <= b /\ id(kept[a]) = id(list[b])
      BY <1>9
    <3>3. kind(kept[a]) = kind(deps[d])
      BY <3>1, <3>2, KindFacts
    <3> HIDE DEF id, kind, key, rel, limit
    <3>4. CASE kind(kept[a]) = "none"
      BY <3>3, <3>4
    <3>5. CASE \E i \in 1..m : h[i] = a
      BY <1>12, <3>1, <3>2, <3>5
    <3>6. CASE m = limit /\ \A i \in 1..m : h[i] < a
      <4> SUFFICES ASSUME NEW i \in 1..m PROVE ~ Context!Less(key(deps[d]), key(rel(i)))
        BY <3>6
      <4>1. h[i] < a /\ h[i] \in 1..e
        BY <1>12, <3>6
      <4>2. g[h[i]] < g[a] /\ g[h[i]] \in 1..n /\ g[a] \in 1..n
        BY <1>9, <1>12, <4>1
      <4>3. g[h[i]] < b
        BY <3>2, <4>2
      <4>4. ~ Context!Less(key(list[b]), key(list[g[h[i]]]))
        BY <1>3, <4>2, <4>3
      <4> QED
        BY <1>12, <3>1, <4>4
    <3> QED
      BY <1>10, <3>4, <3>5, <3>6
  <2>3. Len(done.snippets) = m /\ m <= limit
    BY <1>10
  <2> QED
    BY <1>1, <1>11, <2>1, <2>2, <2>3 DEF Context!ShowsTheMostImportant, done
<1>14. Context!LogAgrees(w, deps)
  <2> DEFINE sum == TokensOf(w, done.snippets)
  <2>1. done.total = sum
    <3>1. \A s \in Snippets(R) : w.tokens[s.kind] \in Nat
      BY DEF Snippets, IsLimited
    <3>2. PICK t : /\ t[0] = 0
                   /\ \A k \in 0..m - 1 : t[k + 1] = t[k] + w.tokens[done.snippets[k + 1].kind]
                   /\ sum = t[m]
      <4> DEFINE snippets == done.snippets
                 A == Snippets(R)
      <4>1. snippets \in Seq(A) /\ Len(snippets) = m
        BY <1>10, <1>11
      <4> HIDE DEF snippets, A
      <4>2. \A s \in A : w.tokens[s.kind] \in Nat
        BY <3>1 DEF A
      <4>3. \E t : /\ t[0] = 0
                   /\ \A k \in 0..Len(snippets) - 1 : t[k + 1] = t[k] + w.tokens[snippets[k + 1].kind]
                   /\ TokensOf(w, snippets) = t[Len(snippets)]
        BY <4>1, <4>2, TotalTrace
      <4> QED
        BY <4>1, <4>3 DEF snippets
    <3> HIDE DEF sum
    <3> DEFINE ks == {k \in Nat : k <= m => t[k] = IF k = 0 THEN 0 ELSE done.logged[k].total}
    <3>3. 0 \in ks
      BY <3>2
    <3>4. ASSUME NEW k \in Nat, k \in ks PROVE k + 1 \in ks
      <4> SUFFICES ASSUME k + 1 <= m PROVE t[k + 1] = done.logged[k + 1].total
        OBVIOUS
      <4>1. k \in 0..m - 1 /\ k + 1 \in 1..m
        BY <1>10
      <4>2. t[k] = TotalBefore(done, k + 1)
        <5>1. t[k] = IF k = 0 THEN 0 ELSE done.logged[k].total
          BY <1>10, <3>4, <4>1
        <5>2. (k + 1 = 1 <=> k = 0) /\ k + 1 - 1 = k
          OBVIOUS
        <5> QED
          BY <5>1, <5>2 DEF TotalBefore
      <4>3. IsShown(done, w, deps, k + 1, kept[h[k + 1]])
        BY <1>10, <4>1
      <4>4. /\ done.logged[k + 1].total = TotalBefore(done, k + 1) + w.tokens[kind(kept[h[k + 1]])]
            /\ done.snippets[k + 1].kind = kind(kept[h[k + 1]])
        BY <4>3 DEF IsShown
      <4> QED
        BY <3>2, <4>1, <4>2, <4>4
    <3> HIDE DEF ks
    <3>5. Nat \subseteq ks
      BY <3>3, <3>4, SetInduction
    <3>6. t[m] = IF m = 0 THEN 0 ELSE done.logged[m].total
      BY <1>10, <3>5 DEF ks
    <3> QED
      BY <1>10, <3>2, <3>6
  <2>2. ASSUME NEW i \in 1..m
        PROVE  /\ done.logged[i].rel = rel(i)
               /\ done.snippets[i].kind \in {"signature", "large"} /\ rel(i).sym # Context!NoSymbol =>
                    (Context!Symbol(rel(i)) \in done.warned
                       <=> Context!UsageCount(w, Context!Symbol(rel(i))) >= w.threshold)
    <3> DEFINE r == kept[h[i]]
               s == Context!Symbol(r)
    <3>1. IsShown(done, w, deps, i, r) /\ rel(i) = r
      BY <1>10, <1>12
    <3>2. PICK d \in 1..n : deps[d] = r
      <4>1. g[h[i]] \in 1..n /\ list[g[h[i]]] = r
        BY <1>12
      <4> HIDE DEF r
      <4>2. PICK p \in 1..n : list[p] = r
        BY <4>1
      <4>3. \E d \in 1..n : list[p] = deps[d]
        BY <1>3
      <4> QED
        BY <4>2, <4>3
    <3> HIDE DEF r, rel
    <3>3. done.logged[i].rel = r /\ done.snippets[i].kind = kind(r)
      BY <3>1 DEF IsShown
    <3>4. r.sym # Context!NoSymbol =>
            (s \in Context!HighUsage(w, deps) <=> Context!UsageCount(w, s) >= w.threshold)
      <4>1. s \in {Context!Symbol(deps[p]) : p \in DOMAIN deps}
        BY <1>1, <3>2
      <4>2. s[2] = r.sym
        BY DEF Context!Symbol
      <4> HIDE DEF s
      <4> QED
        BY <4>1, <4>2 DEF Context!HighUsage
    <3>5. kind(r) \in {"signature", "large"} => (s \in done.warned <=> s \in Context!HighUsage(w, deps))
      BY <1>10, <3>1 DEF IsShown
    <3> HIDE DEF kind
    <3> QED
      BY <3>1, <3>3, <3>4, <3>5
  <2>3. Len(done.logged) = Len(done.snippets)
    BY <1>10
  <2> HIDE DEF rel, sum
  <2>4. \A i \in 1..m : LET r == done.snippets[i].rel
                        IN /\ done.logged[i].rel = r
                           /\ done.snippets[i].kind \in {"signature", "large"} /\ r.sym # Context!NoSymbol =>
                                (Context!Symbol(r) \in done.warned
                                   <=> Context!UsageCount(w, Context!Symbol(r)) >= w.threshold)
    BY <2>2 DEF rel
  <2> QED
    BY <1>11, <2>1, <2>3, <2>4 DEF Context!LogAgrees, done, sum, TokensOf
<1> QED
  BY <1>13, <1>14 DEF Context!ContextIsRight

-----------------------------------------------------------------------------
(***************************************************************************)
(* The figures of a session and the analysis of several.  They are made of *)
(* sorted lists, so what sorting does comes first; the statistics of some  *)
(* numbers follow, then those of a graph, and the analysis last.           *)
(***************************************************************************)
(***************************************************************************)
(* What Arranged gives are the members of a set of positions, each once,   *)
(* in the order of their keys.                                             *)
(***************************************************************************)
IsArranged(p, S, key) ==
  /\ p \in [1..Cardinality(S) -> S]
  /\ \A i \in S : \E m \in 1..Cardinality(S) : p[m] = i
  /\ \A l, m \in 1..Cardinality(S) : l < m => p[l] # p[m] /\ key[p[l]] <= key[p[m]]

LEMMA ArrangedFacts ==
  ASSUME NEW S, S \subseteq Nat, IsFiniteSet(S), NEW key, \A i \in S : key[i] \in Int
  PROVE  IsArranged(Arranged(S, key), S, key)
<1> DEFINE n == Cardinality(S)
           before(j, i) == key[j] < key[i] \/ (key[j] = key[i] /\ j < i)
           aheadOf(i) == {j \in S : before(j, i)}
           ahead == [i \in S |-> aheadOf(i)]
<1>1. Arranged(S, key) = [m \in 1..n |-> CHOOSE i \in S : Cardinality(aheadOf(i)) = m - 1]
  BY DEF Arranged
<1> HIDE DEF n
<1>2. Ordered(S, ahead)
  <2>1. \A i \in S : ~ before(i, i)
    OBVIOUS
  <2>2. \A i, j \in S : i # j => before(i, j) \/ before(j, i)
    OBVIOUS
  <2>3. \A h, i, j \in S : before(h, i) /\ before(i, j) => before(h, j)
    OBVIOUS
  <2> HIDE DEF before
  <2>4. \A i, j \in S : j \in ahead[i] <=> before(j, i)
    OBVIOUS
  <2>5. ahead \in [S -> SUBSET S]
    OBVIOUS
  <2> HIDE DEF ahead
  <2> QED
    BY <2>1, <2>2, <2>3, <2>4, <2>5 DEF Ordered
<1>3. \A i \in S : ahead[i] = aheadOf(i)
  OBVIOUS
<1>4. \A i, j \in S : j \in ahead[i] => key[j] <= key[i] /\ j # i
  OBVIOUS
<1> HIDE DEF ahead, aheadOf
<1>5. PICK p : Ranked(p, S, ahead)
  BY <1>2, RanksOfOrder
<1>6. \A m \in 1..n : p[m] = CHOOSE i \in S : Cardinality(ahead[i]) = m - 1
  BY <1>5 DEF Ranked, n
<1>7. \A m \in 1..n : (CHOOSE i \in S : Cardinality(ahead[i]) = m - 1) = CHOOSE i \in S : Cardinality(aheadOf(i)) = m - 1
  <2> SUFFICES ASSUME NEW m \in 1..n
               PROVE  (CHOOSE i \in S : Cardinality(ahead[i]) = m - 1) = CHOOSE i \in S : Cardinality(aheadOf(i)) = m - 1
    OBVIOUS
  <2>1. \A i \in S : (Cardinality(ahead[i]) = m - 1) <=> (Cardinality(aheadOf(i)) = m - 1)
    BY <1>3
  <2> QED
    BY <2>1
<1>8. p \in [1..n -> S]
  BY <1>5 DEF Ranked, n
<1> DEFINE given == [m \in 1..n |-> CHOOSE i \in S : Cardinality(aheadOf(i)) = m - 1]
<1>9. \A m \in 1..n : given[m] = CHOOSE i \in S : Cardinality(aheadOf(i)) = m - 1
  OBVIOUS
<1>10. given = [m \in 1..n |-> given[m]]
  OBVIOUS
<1>11. Arranged(S, key) = given
  BY <1>1
<1> HIDE DEF given
<1>12. \A m \in 1..n : p[m] = given[m]
  BY <1>6, <1>7, <1>9
<1>13. p = given
  BY <1>8, <1>10, <1>12
<1>14. IsArranged(p, S, key)
  <2>1. \A l, m \in 1..n : l < m => p[l] # p[m] /\ key[p[l]] <= key[p[m]]
    <3> SUFFICES ASSUME NEW l \in 1..n, NEW m \in 1..n, l < m PROVE p[l] # p[m] /\ key[p[l]] <= key[p[m]]
      OBVIOUS
    <3>1. p[l] \in ahead[p[m]]
      BY <1>5 DEF Ranked, n
    <3> QED
      BY <1>4, <1>8, <3>1
  <2> QED
    BY <1>5, <1>8, <2>1 DEF Ranked, IsArranged, n
<1> QED
  BY <1>11, <1>13, <1>14

-----------------------------------------------------------------------------
\* A list sorted by keys, and the way it was arranged.
IsSortedBy(s, p, list, key) ==
  /\ IsArranged(p, DOMAIN list, key)
  /\ s = [n \in 1..Cardinality(DOMAIN list) |-> list[p[n]]]

LEMMA SortedByFacts ==
  ASSUME NEW list, DOMAIN list \subseteq Nat, IsFiniteSet(DOMAIN list),
         NEW key, \A i \in DOMAIN list : key[i] \in Int
  PROVE  IsSortedBy(SortedBy(list, key), Arranged(DOMAIN list, key), list, key)
<1> DEFINE p == Arranged(DOMAIN list, key)
<1>1. IsArranged(p, DOMAIN list, key)
  BY ArrangedFacts
<1>2. SortedBy(list, key) = [n \in DOMAIN p |-> list[p[n]]]
  BY DEF SortedBy
<1> HIDE DEF p
<1>3. DOMAIN p = 1..Cardinality(DOMAIN list)
  BY <1>1 DEF IsArranged
<1>4. IsSortedBy(SortedBy(list, key), p, list, key)
  BY <1>1, <1>2, <1>3 DEF IsSortedBy
<1> QED
  BY <1>4 DEF p

(***************************************************************************)
(* Numbers, one at each of some positions.  In ascending order they are a  *)
(* sequence of the same numbers, and as many of them as its places are no  *)
(* greater, or no less, than the one at a place.                           *)
(***************************************************************************)
Numbers(values) ==
  DOMAIN values \subseteq Nat /\ IsFiniteSet(DOMAIN values) /\ \A i \in DOMAIN values : values[i] \in Nat
AtMost(values, x)  == {i \in DOMAIN values : values[i] <= x}
AtLeast(values, x) == {i \in DOMAIN values : values[i] >= x}

IsAscending(s, values, n) ==
  /\ s \in Seq(Nat) /\ Len(s) = n /\ DOMAIN s = 1..n /\ \A m \in 1..n : s[m] \in Nat
  /\ \A m \in 1..n : \E i \in DOMAIN values : s[m] = values[i]
  /\ \A i \in DOMAIN values : \E m \in 1..n : s[m] = values[i]
  /\ \A l, m \in 1..n : l <= m => s[l] <= s[m]
  /\ \A m \in 1..n : /\ Cardinality(AtMost(values, s[m])) \in Nat /\ Cardinality(AtMost(values, s[m])) >= m
                     /\ Cardinality(AtLeast(values, s[m])) \in Nat /\ Cardinality(AtLeast(values, s[m])) >= n - m + 1

LEMMA SeqOfFunction ==
  ASSUME NEW S, NEW n \in Nat, NEW s, s \in [1..n -> S]
  PROVE  s \in Seq(S) /\ Len(s) = n /\ DOMAIN s = 1..n
<1>1. s \in Seq(S)
  <2>1. \A i \in 1..n : s[i] \in S
    OBVIOUS
  <2>2. [i \in 1..n |-> s[i]] \in Seq(S)
    BY <2>1, IsASeq
  <2> QED
    BY <2>2
<1>2. Len(s) \in Nat /\ DOMAIN s = 1..Len(s) /\ DOMAIN s = 1..n
  BY <1>1, LenProperties
<1>3. Len(s) = n
  BY <1>2
<1> QED
  BY <1>1, <1>2, <1>3

LEMMA CountInto ==
  ASSUME NEW a \in Int, NEW b \in Int, NEW T, IsFiniteSet(T), NEW p,
         \A m \in a..b : p[m] \in T, \A l, m \in a..b : l # m => p[l] # p[m]
  PROVE  Cardinality(T) \in Nat /\ Cardinality(T) >= b - a + 1
<1> DEFINE f == [m \in a..b |-> p[m]]
<1>1. f \in [a..b -> T] /\ \A l, m \in a..b : f[l] = f[m] => l = m
  OBVIOUS
<1> HIDE DEF f
<1>2. f \in Injection(a..b, T)
  BY <1>1 DEF Injection, IsInjective
<1>3. Cardinality(a..b) <= Cardinality(T) /\ Cardinality(T) \in Nat
  BY <1>2, FS_Injection, FS_CardinalityType
<1>4. Cardinality(a..b) = IF a > b THEN 0 ELSE b - a + 1
  BY FS_Interval
<1> QED
  BY <1>3, <1>4

LEMMA AscendingFacts ==
  ASSUME NEW values, Numbers(values)
  PROVE  IsAscending(Ascending(values), values, Cardinality(DOMAIN values))
<1> USE DEF Numbers
<1> DEFINE S == DOMAIN values
           n == Cardinality(S)
           p == Arranged(S, values)
           s == Ascending(values)
<1>1. n \in Nat
  BY FS_CardinalityType
<1>2. IsSortedBy(s, p, values, values)
  BY SortedByFacts DEF Ascending
<1> HIDE DEF s, p, n
<1>3. /\ p \in [1..n -> S] /\ \A i \in S : \E m \in 1..n : p[m] = i
      /\ \A l, m \in 1..n : l < m => p[l] # p[m] /\ values[p[l]] <= values[p[m]]
  BY <1>2 DEF IsSortedBy, IsArranged, n
<1>4. s = [m \in 1..n |-> values[p[m]]]
  BY <1>2 DEF IsSortedBy, n
<1>5. s \in [1..n -> Nat] /\ \A m \in 1..n : s[m] = values[p[m]]
  BY <1>3, <1>4
<1>6. s \in Seq(Nat) /\ Len(s) = n /\ DOMAIN s = 1..n
  BY <1>1, <1>5, SeqOfFunction
<1>7. \A l, m \in 1..n : l <= m => s[l] <= s[m]
  <2> SUFFICES ASSUME NEW l \in 1..n, NEW m \in 1..n, l <= m PROVE s[l] <= s[m]
    OBVIOUS
  <2>1. CASE l = m
    BY <1>5, <2>1
  <2>2. CASE l < m
    BY <1>3, <1>5, <2>2
  <2> QED
    BY <1>1, <2>1, <2>2
<1>8. \A l, m \in 1..n : l # m => p[l] # p[m]
  BY <1>1, <1>3
<1>9. ASSUME NEW m \in 1..n
      PROVE  /\ Cardinality(AtMost(values, s[m])) \in Nat /\ Cardinality(AtMost(values, s[m])) >= m
             /\ Cardinality(AtLeast(values, s[m])) \in Nat /\ Cardinality(AtLeast(values, s[m])) >= n - m + 1
  <2> DEFINE low == AtMost(values, s[m])
             high == AtLeast(values, s[m])
  <2>1. IsFiniteSet(low) /\ IsFiniteSet(high)
    <3>1. low \in SUBSET S /\ high \in SUBSET S
      BY DEF AtMost, AtLeast
    <3> QED
      BY <3>1, FS_Subset
  <2>2. \A k \in 1..m : p[k] \in low
    BY <1>1, <1>3, <1>5, <1>7 DEF AtMost
  <2>3. \A k \in m..n : p[k] \in high
    BY <1>1, <1>3, <1>5, <1>7 DEF AtLeast
  <2>4. \A k, l \in 1..m : k # l => p[k] # p[l]
    BY <1>1, <1>8
  <2>5. \A k, l \in m..n : k # l => p[k] # p[l]
    BY <1>1, <1>8
  <2> HIDE DEF low, high
  <2>6. 1 \in Int /\ m \in Int /\ n \in Int
    BY <1>1
  <2>7. Cardinality(low) \in Nat /\ Cardinality(low) >= m - 1 + 1
    BY <2>1, <2>2, <2>4, <2>6, CountInto
  <2>8. Cardinality(high) \in Nat /\ Cardinality(high) >= n - m + 1
    BY <2>1, <2>3, <2>5, <2>6, CountInto
  <2>9. m - 1 + 1 = m
    OBVIOUS
  <2> QED
    BY <2>7, <2>8, <2>9 DEF low, high
<1>10. IsAscending(s, values, n)
  <2>1. \A m \in 1..n : \E i \in DOMAIN values : s[m] = values[i]
    BY <1>3, <1>5
  <2>2. \A i \in DOMAIN values : \E m \in 1..n : s[m] = values[i]
    BY <1>3, <1>5
  <2> QED
    BY <1>5, <1>6, <1>7, <1>9, <2>1, <2>2 DEF IsAscending
<1> QED
  BY <1>10 DEF s, n

\* As many numbers are greater than one as are not no greater.
LEMMA CountsAddUp ==
  ASSUME NEW values, Numbers(values), NEW x \in Int
  PROVE  LET above == {i \in DOMAIN values : values[i] > x}
         IN /\ Cardinality(AtMost(values, x)) \in Nat /\ Cardinality(above) \in Nat
            /\ Cardinality(AtMost(values, x)) + Cardinality(above) = Cardinality(DOMAIN values)
<1> DEFINE above == {i \in DOMAIN values : values[i] > x}
           low == AtMost(values, x)
<1>1. low \in SUBSET DOMAIN values /\ above = DOMAIN values \ low /\ DOMAIN values \cap low = low
  BY DEF AtMost, Numbers
<1> HIDE DEF low, above
<1>2. IsFiniteSet(DOMAIN values) /\ Cardinality(DOMAIN values) \in Nat
  BY FS_CardinalityType DEF Numbers
<1>3. IsFiniteSet(low) /\ Cardinality(low) \in Nat
  BY <1>1, <1>2, FS_Subset, FS_CardinalityType
<1>4. IsFiniteSet(above) /\ Cardinality(above) = Cardinality(DOMAIN values) - Cardinality(low)
  BY <1>1, <1>2, FS_Difference
<1>5. Cardinality(above) \in Nat
  BY <1>4, FS_CardinalityType
<1>6. Cardinality(low) + Cardinality(above) = Cardinality(DOMAIN values)
  BY <1>2, <1>3, <1>4
<1> QED
  BY <1>3, <1>5, <1>6 DEF low, above

\* Numbers that are no greater, place for place, are so in ascending order too.
LEMMA AscendingMonotone ==
  ASSUME NEW low, NEW high, Numbers(low), Numbers(high), DOMAIN low = DOMAIN high,
         \A i \in DOMAIN low : low[i] <= high[i],
         NEW m \in 1..Cardinality(DOMAIN low)
  PROVE  Ascending(low)[m] <= Ascending(high)[m]
<1> DEFINE S == DOMAIN low
           n == Cardinality(S)
           s == Ascending(low)
           t == Ascending(high)
<1>1. n \in Nat /\ IsFiniteSet(S)
  BY FS_CardinalityType DEF Numbers
<1>2. IsAscending(s, low, n) /\ IsAscending(t, high, n)
  BY AscendingFacts
<1> HIDE DEF s, t, n
<1>3. m \in 1..n /\ s[m] \in Nat /\ t[m] \in Nat
  BY <1>2 DEF IsAscending, n
<1> SUFFICES ASSUME s[m] > t[m] PROVE FALSE
  BY <1>3 DEF s, t
<1> DEFINE A == AtMost(high, t[m])
           B == AtLeast(low, s[m])
<1>4. /\ Cardinality(A) \in Nat /\ Cardinality(A) >= m
      /\ Cardinality(B) \in Nat /\ Cardinality(B) >= n - m + 1
  BY <1>2, <1>3 DEF IsAscending
<1>5. A \subseteq S /\ B \subseteq S
  BY DEF AtMost, AtLeast
<1>6. \A i \in S : ~ (i \in A /\ i \in B)
  BY <1>3 DEF AtMost, AtLeast, Numbers
<1> HIDE DEF A, B
<1>7. Cardinality(A) + Cardinality(B) > Cardinality(S)
  BY <1>1, <1>3, <1>4 DEF n
<1>8. A \cap B # {}
  BY <1>1, <1>5, <1>7, FS_MajoritiesIntersect
<1> QED
  BY <1>5, <1>6, <1>8

-----------------------------------------------------------------------------
LEMMA LeastOfTwo ==
  ASSUME NEW x \in Int, NEW y \in Int
  PROVE  Min({x, y}) = IF x <= y THEN x ELSE y
<1>1. Min({x, y}) \in {x, y} /\ \A m \in {x, y} : Min({x, y}) <= m
  <2>1. \E m \in {x, y} : \A l \in {x, y} : m =< l
    OBVIOUS
  <2> QED
    BY <2>1 DEF Min
<1> QED
  BY <1>1

LEMMA GreatestOfTwo ==
  ASSUME NEW x \in Int, NEW y \in Int
  PROVE  Max({x, y}) = IF x >= y THEN x ELSE y
<1>1. Max({x, y}) \in {x, y} /\ \A m \in {x, y} : Max({x, y}) >= m
  <2>1. \E m \in {x, y} : \A l \in {x, y} : m >= l
    OBVIOUS
  <2> QED
    BY <2>1 DEF Max
<1> QED
  BY <1>1

\* Half of an ascending sequence is at or below the median, half at or above it.
LEMMA MedianFacts ==
  ASSUME NEW values, NEW n \in Nat \ {0}, NEW s, IsAscending(s, values, n)
  PROVE  /\ MedianOf(s) \in Nat
         /\ s[1] <= MedianOf(s) /\ MedianOf(s) <= s[n]
         /\ MedianOf(s) <= s[n \div 2 + 1]
<1>1. /\ Len(s) = n /\ \A m \in 1..n : s[m] \in Nat
      /\ \A l, m \in 1..n : l <= m => s[l] <= s[m]
  BY DEF IsAscending
<1>2. PICK h \in Nat : h = n \div 2 /\ h < n /\ (n % 2 = 1 => n = 2 * h + 1) /\ (n % 2 # 1 => n = 2 * h)
  OBVIOUS
<1>3. h + 1 \in 1..n /\ 1 \in 1..n /\ n \in 1..n
  BY <1>2
<1>4. CASE n % 2 = 1
  <2>1. (n + 1) \div 2 = h + 1
    BY <1>2, <1>4
  <2>2. MedianOf(s) = s[h + 1]
    BY <1>1, <1>4, <2>1 DEF MedianOf
  <2> QED
    BY <1>1, <1>2, <1>3, <2>2
<1>5. CASE n % 2 # 1
  <2>1. h \in 1..n
    BY <1>2, <1>5
  <2>2. MedianOf(s) = (s[h] + s[h + 1]) \div 2
    BY <1>1, <1>2, <1>5 DEF MedianOf
  <2>3. /\ s[h] \in Nat /\ s[h + 1] \in Nat /\ s[h] <= s[h + 1]
        /\ s[1] \in Nat /\ s[n] \in Nat /\ s[1] <= s[h] /\ s[h + 1] <= s[n]
    BY <1>1, <1>2, <1>3, <2>1
  <2> QED
    BY <1>2, <2>2, <2>3
<1> QED
  BY <1>4, <1>5

\* The medians of two ascending sequences of one length are in the order of their elements.
LEMMA MedianMonotone ==
  ASSUME NEW n \in Nat \ {0}, NEW s, NEW t, NEW v, NEW w, IsAscending(s, v, n), IsAscending(t, w, n),
         \A m \in 1..n : s[m] <= t[m]
  PROVE  MedianOf(s) <= MedianOf(t)
<1>1. Len(s) = n /\ Len(t) = n /\ \A m \in 1..n : s[m] \in Nat /\ t[m] \in Nat
  BY DEF IsAscending
<1>2. CASE n % 2 = 1
  <2>1. (n + 1) \div 2 \in 1..n
    OBVIOUS
  <2>2. MedianOf(s) = s[(n + 1) \div 2] /\ MedianOf(t) = t[(n + 1) \div 2]
    BY <1>1, <1>2 DEF MedianOf
  <2> QED
    BY <2>1, <2>2
<1>3. CASE n % 2 # 1
  <2>1. PICK h \in 1..n : h = n \div 2 /\ h + 1 \in 1..n
    <3>1. n \div 2 \in 1..n /\ n \div 2 + 1 \in 1..n
      BY <1>3
    <3> QED
      BY <3>1
  <2>2. MedianOf(s) = (s[h] + s[h + 1]) \div 2 /\ MedianOf(t) = (t[h] + t[h + 1]) \div 2
    BY <1>1, <1>3, <2>1 DEF MedianOf
  <2>3. /\ s[h] \in Nat /\ s[h + 1] \in Nat /\ t[h] \in Nat /\ t[h + 1] \in Nat
        /\ s[h] <= t[h] /\ s[h + 1] <= t[h + 1]
    BY <1>1, <2>1
  <2> QED
    BY <2>2, <2>3
<1> QED
  BY <1>2, <1>3

(***************************************************************************)
(* What the statistics of some numbers are.                                *)
(***************************************************************************)
Place95(n) == Min({(n * 95) \div 100, n - 1}) + 1

LEMMA Place95Facts ==
  ASSUME NEW n \in Nat \ {0}
  PROVE  /\ Place95(n) \in 1..n /\ 100 * Place95(n) >= 95 * n /\ n \div 2 + 1 <= Place95(n)
         /\ \A e \in Nat : 20 * e > n => Place95(n) > n - e
<1>1. PICK k \in Nat : k = (n * 95) \div 100 /\ 100 * k <= 95 * n /\ 95 * n < 100 * k + 100
  OBVIOUS
<1>2. Place95(n) = (IF k <= n - 1 THEN k ELSE n - 1) + 1
  BY <1>1, LeastOfTwo DEF Place95
<1>3. PICK h \in Nat : h = n \div 2 /\ 2 * h <= n
  OBVIOUS
<1> QED
  BY <1>1, <1>2, <1>3

IsStatistics(t, values, n) ==
  /\ t.min \in Nat /\ t.max \in Nat /\ t.median \in Nat /\ t.p95 \in Nat /\ t.count = n
  /\ t.min <= t.median /\ t.median <= t.p95 /\ t.p95 <= t.max
  /\ (\E i \in DOMAIN values : t.min = values[i]) /\ (\E i \in DOMAIN values : t.p95 = values[i])
  /\ (\E i \in DOMAIN values : t.max = values[i])
  /\ \A i \in DOMAIN values : t.min <= values[i] /\ values[i] <= t.max
  /\ Cardinality(AtMost(values, t.p95)) >= Place95(n) /\ Cardinality(AtMost(values, t.p95)) \in Nat
  /\ 2 * Cardinality(AtLeast(values, t.median)) >= n

LEMMA StatisticsFacts ==
  ASSUME NEW values, Numbers(values), DOMAIN values # {}
  PROVE  IsStatistics(PercentileStatistics(values), values, Cardinality(DOMAIN values))
<1> DEFINE n == Cardinality(DOMAIN values)
           s == Ascending(values)
           t == PercentileStatistics(values)
<1>1. n \in Nat \ {0}
  BY FS_CardinalityType, FS_EmptySet DEF Numbers
<1>2. IsAscending(s, values, n)
  BY AscendingFacts
<1> HIDE DEF n, s
<1>3. Len(s) = n
  BY <1>2 DEF IsAscending
<1>4. t = [min |-> s[1], max |-> s[n], median |-> MedianOf(s), p95 |-> s[Place95(n)], count |-> n]
  <2>1. t = [min |-> s[1], max |-> s[n], median |-> MedianOf(s), p95 |-> s[Min({(n * 95) \div 100, n - 1}) + 1], count |-> n]
    BY <1>1, <1>3 DEF PercentileStatistics, s
  <2> QED
    BY <2>1 DEF Place95
<1>5. PICK k \in 1..n : k = Place95(n) /\ n \div 2 + 1 <= k
  BY <1>1, Place95Facts
<1>6. PICK h \in 1..n : h = n \div 2 + 1
  BY <1>1
<1>7. t.min = s[1] /\ t.max = s[n] /\ t.median = MedianOf(s) /\ t.p95 = s[k] /\ t.count = n
  BY <1>4, <1>5
<1> HIDE DEF t
<1>8. /\ \A m \in 1..n : s[m] \in Nat
      /\ \A m \in 1..n : \E i \in DOMAIN values : s[m] = values[i]
      /\ \A i \in DOMAIN values : \E m \in 1..n : s[m] = values[i]
      /\ \A l, m \in 1..n : l <= m => s[l] <= s[m]
  BY <1>2 DEF IsAscending
<1>9. 1 \in 1..n /\ n \in 1..n
  BY <1>1
<1>10. MedianOf(s) \in Nat /\ s[1] <= MedianOf(s) /\ MedianOf(s) <= s[h]
  BY <1>1, <1>2, <1>6, MedianFacts
<1>11. s[h] <= s[k] /\ s[k] <= s[n]
  BY <1>1, <1>5, <1>6, <1>8, <1>9
<1>12. MedianOf(s) <= s[k]
  BY <1>6, <1>8, <1>10, <1>11
<1>13. \A i \in DOMAIN values : s[1] <= values[i] /\ values[i] <= s[n]
  <2> SUFFICES ASSUME NEW i \in DOMAIN values PROVE s[1] <= values[i] /\ values[i] <= s[n]
    OBVIOUS
  <2>1. PICK m \in 1..n : s[m] = values[i]
    BY <1>8
  <2>2. s[1] <= s[m] /\ s[m] <= s[n]
    BY <1>1, <1>8, <1>9
  <2> QED
    BY <2>1, <2>2
<1>14. Cardinality(AtMost(values, s[k])) >= k /\ Cardinality(AtMost(values, s[k])) \in Nat
  BY <1>2, <1>5 DEF IsAscending
<1>15. 2 * Cardinality(AtLeast(values, MedianOf(s))) >= n
  <2>1. Cardinality(AtLeast(values, s[h])) \in Nat /\ Cardinality(AtLeast(values, s[h])) >= n - h + 1
    BY <1>2, <1>6 DEF IsAscending
  <2>2. AtLeast(values, s[h]) \subseteq AtLeast(values, MedianOf(s))
    BY <1>6, <1>8, <1>10 DEF AtLeast, Numbers
  <2>3. IsFiniteSet(AtLeast(values, MedianOf(s)))
    <3>1. AtLeast(values, MedianOf(s)) \in SUBSET DOMAIN values
      BY DEF AtLeast
    <3> QED
      BY <3>1, FS_Subset DEF Numbers
  <2> DEFINE c == Cardinality(AtLeast(values, MedianOf(s)))
             b == Cardinality(AtLeast(values, s[h]))
  <2>4. b <= c /\ c \in Nat
    BY <2>2, <2>3, FS_Subset, FS_CardinalityType
  <2>5. b \in Nat /\ b >= n - h + 1
    BY <2>1
  <2> HIDE DEF b, c
  <2>6. 2 * c >= n
    BY <1>1, <1>6, <2>4, <2>5
  <2> QED
    BY <2>6 DEF c
<1>16. IsStatistics(t, values, n)
  <2>1. t.min \in Nat /\ t.max \in Nat /\ t.median \in Nat /\ t.p95 \in Nat /\ t.count = n
    BY <1>7, <1>8, <1>9, <1>10
  <2>2. t.min <= t.median /\ t.median <= t.p95 /\ t.p95 <= t.max
    BY <1>7, <1>10, <1>11, <1>12
  <2>3. /\ (\E i \in DOMAIN values : t.min = values[i]) /\ (\E i \in DOMAIN values : t.p95 = values[i])
        /\ (\E i \in DOMAIN values : t.max = values[i])
    BY <1>7, <1>8, <1>9
  <2>4. \A i \in DOMAIN values : t.min <= values[i] /\ values[i] <= t.max
    BY <1>7, <1>13
  <2>5. Cardinality(AtMost(values, t.p95)) >= Place95(n) /\ Cardinality(AtMost(values, t.p95)) \in Nat
    BY <1>5, <1>7, <1>14
  <2>6. 2 * Cardinality(AtLeast(values, t.median)) >= n
    BY <1>7, <1>15
  <2> QED
    BY <2>1, <2>2, <2>3, <2>4, <2>5, <2>6 DEF IsStatistics
<1> QED
  BY <1>16 DEF n, t

\* A sequence of numbers, its positions being the places.
LEMMA SequenceOfNumbers ==
  ASSUME NEW values \in Seq(Nat)
  PROVE  /\ Numbers(values) /\ Len(values) \in Nat /\ DOMAIN values = 1..Len(values)
         /\ Cardinality(DOMAIN values) = Len(values)
<1>1. PICK n \in Nat : n = Len(values) /\ DOMAIN values = 1..n /\ \A i \in 1..n : values[i] \in Nat
  BY LenProperties
<1>2. IsFiniteSet(1..n) /\ Cardinality(1..n) = n
  BY FS_Interval
<1>3. 1..n \subseteq Nat
  OBVIOUS
<1> QED
  BY <1>1, <1>2, <1>3 DEF Numbers

(***************************************************************************)
(* The statistics of any numbers are right.                                *)
(***************************************************************************)
LEMMA PercentilesCorrect ==
  ASSUME NEW values \in Seq(Nat)
  PROVE  PercentilesAreRight(values)
<1> DEFINE t == PercentileStatistics(values)
           n == Cardinality(DOMAIN values)
<1> SUFFICES ASSUME values # <<>>
             PROVE  /\ t.min <= t.median /\ t.median <= t.p95 /\ t.p95 <= t.max
                    /\ {t.min, t.p95, t.max} \subseteq {values[i] : i \in DOMAIN values}
                    /\ \A x \in {values[i] : i \in DOMAIN values} : t.min <= x /\ x <= t.max
                    /\ 100 * Cardinality({i \in DOMAIN values : values[i] <= t.p95}) >= 95 * Len(values)
                    /\ 2 * Cardinality({i \in DOMAIN values : values[i] >= t.median}) >= Len(values)
  BY DEF PercentilesAreRight
<1>1. Numbers(values) /\ n = Len(values) /\ n \in Nat \ {0} /\ DOMAIN values # {}
  <2>1. Numbers(values) /\ n = Len(values) /\ DOMAIN values = 1..Len(values)
    BY SequenceOfNumbers
  <2>2. Len(values) \in Nat \ {0}
    BY EmptySeq
  <2> QED
    BY <2>1, <2>2
<1>2. IsStatistics(t, values, n)
  BY <1>1, StatisticsFacts
<1> HIDE DEF t, n
<1>3. 100 * Cardinality(AtMost(values, t.p95)) >= 95 * n
  <2>1. Cardinality(AtMost(values, t.p95)) >= Place95(n) /\ Cardinality(AtMost(values, t.p95)) \in Nat
    BY <1>2 DEF IsStatistics
  <2>2. Place95(n) \in Nat /\ 100 * Place95(n) >= 95 * n
    BY <1>1, Place95Facts
  <2> QED
    BY <1>1, <2>1, <2>2
<1>4. /\ t.min <= t.median /\ t.median <= t.p95 /\ t.p95 <= t.max
      /\ 2 * Cardinality(AtLeast(values, t.median)) >= n
  BY <1>2 DEF IsStatistics
<1>5. /\ (\E i \in DOMAIN values : t.min = values[i]) /\ (\E i \in DOMAIN values : t.p95 = values[i])
      /\ (\E i \in DOMAIN values : t.max = values[i])
      /\ \A i \in DOMAIN values : t.min <= values[i] /\ values[i] <= t.max
  BY <1>2 DEF IsStatistics
<1> QED
  BY <1>1, <1>3, <1>4, <1>5 DEF AtMost, AtLeast

-----------------------------------------------------------------------------
\* The first of a list of counts are the greatest.
LEMMA TopCorrect ==
  ASSUME NEW P, NEW pairs \in Seq(P), \A i \in DOMAIN pairs : pairs[i][2] \in Int, NEW n \in Nat
  PROVE  TopIsRight(pairs, Top(pairs, n), n)
<1> DEFINE key == [i \in DOMAIN pairs |-> 0 - pairs[i][2]]
           sorted == SortedBy(pairs, key)
           p == Arranged(DOMAIN pairs, key)
           top == Top(pairs, n)
           least == Min({n, Len(pairs)})
<1>1. PICK size \in Nat : size = Len(pairs) /\ DOMAIN pairs = 1..size /\ \A i \in 1..size : pairs[i] \in P
  BY LenProperties
<1>2. IsFiniteSet(1..size) /\ Cardinality(1..size) = size
  BY FS_Interval
<1>3. \A i \in DOMAIN pairs : key[i] \in Int /\ key[i] = 0 - pairs[i][2]
  OBVIOUS
<1>4. DOMAIN pairs \subseteq Nat /\ IsFiniteSet(DOMAIN pairs)
  BY <1>1, <1>2
<1>5. top = SubSeq(sorted, 1, least)
  BY DEF Top
<1> HIDE DEF key
<1>6. IsSortedBy(sorted, p, pairs, key)
  BY <1>3, <1>4, SortedByFacts
<1> HIDE DEF sorted, p, top
<1>7. /\ p \in [1..size -> 1..size] /\ \A i \in 1..size : \E m \in 1..size : p[m] = i
      /\ \A l, m \in 1..size : l < m => key[p[l]] <= key[p[m]]
  BY <1>1, <1>2, <1>6 DEF IsSortedBy, IsArranged
<1>8. sorted = [m \in 1..size |-> pairs[p[m]]]
  BY <1>1, <1>2, <1>6 DEF IsSortedBy
<1>9. \A m \in 1..size : sorted[m] = pairs[p[m]] /\ sorted[m] \in P
  BY <1>1, <1>7, <1>8
<1>10. least \in Int /\ least <= size /\ least = IF n <= size THEN n ELSE size
  <2>1. least = Min({n, size})
    BY <1>1
  <2>2. n \in Int /\ size \in Int
    OBVIOUS
  <2> HIDE DEF least
  <2>3. Min({n, size}) = IF n <= size THEN n ELSE size
    BY <2>2, LeastOfTwo
  <2> QED
    BY <2>1, <2>2, <2>3
<1> HIDE DEF least
<1>11. /\ Len(top) = least /\ DOMAIN top = 1..least /\ \A m \in 1..least : top[m] = sorted[m]
  <2>1. \A m \in 1..least : sorted[m] \in P
    BY <1>9, <1>10
  <2>2. least \in Int /\ 1 \in Int
    BY <1>10
  <2>3. /\ SubSeq(sorted, 1, least) \in Seq(P)
        /\ Len(SubSeq(sorted, 1, least)) = IF 1 <= least THEN least - 1 + 1 ELSE 0
        /\ \A i \in 1..least - 1 + 1 : SubSeq(sorted, 1, least)[i] = sorted[1 + i - 1]
    BY <2>1, <2>2, SubSeqProperties
  <2>4. Len(top) = least /\ DOMAIN top = 1..Len(top)
    BY <1>5, <1>10, <2>3, LenProperties
  <2>5. \A m \in 1..least : m \in 1..least - 1 + 1 /\ 1 + m - 1 = m
    BY <2>2
  <2> QED
    BY <1>5, <2>3, <2>4, <2>5
<1>12. \A m \in 1..least : m \in 1..size /\ p[m] \in 1..size /\ top[m] = pairs[p[m]] /\ key[p[m]] = 0 - top[m][2] /\ top[m][2] \in Int
  <2> SUFFICES ASSUME NEW m \in 1..least
               PROVE  m \in 1..size /\ p[m] \in 1..size /\ top[m] = pairs[p[m]] /\ key[p[m]] = 0 - top[m][2] /\ top[m][2] \in Int
    OBVIOUS
  <2>1. m \in 1..size
    BY <1>10
  <2>2. p[m] \in 1..size
    BY <1>7, <2>1
  <2>3. top[m] = pairs[p[m]]
    BY <1>9, <1>11, <2>1
  <2>4. p[m] \in DOMAIN pairs /\ pairs[p[m]][2] \in Int
    BY <1>1, <2>2
  <2>5. key[p[m]] = 0 - pairs[p[m]][2]
    BY <1>3, <2>4
  <2> QED
    BY <2>1, <2>2, <2>3, <2>4, <2>5
<1>13. \A i \in 1..Len(top) - 1 : top[i][2] >= top[i + 1][2]
  <2> SUFFICES ASSUME NEW i \in 1..least - 1 PROVE top[i][2] >= top[i + 1][2]
    BY <1>11
  <2>1. i \in 1..least /\ i + 1 \in 1..least /\ i < i + 1
    BY <1>10
  <2>2. key[p[i]] <= key[p[i + 1]]
    BY <1>7, <1>12, <2>1
  <2> QED
    BY <1>12, <2>1, <2>2
<1>14. \A i \in DOMAIN pairs, j \in DOMAIN top : pairs[i][2] > top[j][2] => \E k \in 1..j : top[k] = pairs[i]
  <2> SUFFICES ASSUME NEW i \in 1..size, NEW j \in 1..least, pairs[i][2] > top[j][2]
               PROVE  \E k \in 1..j : top[k] = pairs[i]
    BY <1>1, <1>11
  <2>1. PICK m \in 1..size : p[m] = i
    BY <1>7
  <2>2. key[i] = 0 - pairs[i][2] /\ pairs[i][2] \in Int
    BY <1>1, <1>3
  <2>3. ~ (j < m)
    <3>1. j \in 1..size /\ key[p[j]] = 0 - top[j][2] /\ top[j][2] \in Int
      BY <1>12
    <3>2. j < m => key[p[j]] <= key[p[m]]
      BY <1>7, <3>1
    <3> QED
      BY <2>1, <2>2, <3>1, <3>2
  <2>4. m \in 1..j /\ m \in 1..least
    BY <1>10, <2>3
  <2> QED
    BY <1>12, <2>1, <2>4
<1>15. Len(top) = Min({n, Len(pairs)})
  BY <1>11 DEF least
<1>16. TopIsRight(pairs, top, n)
  BY <1>13, <1>14, <1>15 DEF TopIsRight
<1> QED
  BY <1>16 DEF top

\* The counts of the targets of some relationships are a list.
LEMMA CountsType ==
  ASSUME NEW S, NEW rels \in Seq(S)
  PROVE  \E P : Counts(rels) \in Seq(P) /\ \A i \in DOMAIN Counts(rels) : Counts(rels)[i][2] \in Int
<1> DEFINE first == {i \in DOMAIN rels : \A j \in 1 .. i - 1 : rels[j].tgt # rels[i].tgt}
           key == [i \in first |-> i]
           p == Arranged(first, key)
           count(f) == Cardinality({i \in DOMAIN rels : rels[i].tgt = f})
           pairs == Counts(rels)
           size == Cardinality(first)
           P == {pairs[i] : i \in 1..size}
<1>1. PICK n \in Nat : n = Len(rels) /\ DOMAIN rels = 1..n
  BY LenProperties
<1>2. IsFiniteSet(1..n)
  BY FS_Interval
<1>3. pairs = [m \in DOMAIN p |-> <<rels[p[m]].tgt, count(rels[p[m]].tgt)>>]
  BY DEF Counts
<1>4. \A f : count(f) \in Int
  <2> SUFFICES ASSUME NEW f PROVE count(f) \in Int
    OBVIOUS
  <2>1. {i \in DOMAIN rels : rels[i].tgt = f} \in SUBSET (1..n)
    BY <1>1
  <2> QED
    BY <1>2, <2>1, FS_Subset, FS_CardinalityType
<1> HIDE DEF count
<1>5. first \subseteq Nat /\ IsFiniteSet(first) /\ \A i \in first : key[i] \in Int
  <2>1. first \in SUBSET (1..n)
    BY <1>1
  <2> HIDE DEF first
  <2>2. IsFiniteSet(first)
    BY <1>2, <2>1, FS_Subset
  <2> QED
    BY <2>1, <2>2
<1>6. size \in Nat
  BY <1>5, FS_CardinalityType
<1> HIDE DEF key, first
<1>7. IsArranged(p, first, key)
  BY <1>5, ArrangedFacts
<1> HIDE DEF p, pairs
<1>8. DOMAIN p = 1..size
  BY <1>7 DEF IsArranged
<1> HIDE DEF size
<1>9. \A m \in 1..size : pairs[m] = <<rels[p[m]].tgt, count(rels[p[m]].tgt)>>
  BY <1>3, <1>8
<1>10. \A m \in 1..size : pairs[m][2] \in Int
  BY <1>4, <1>9
<1>11. pairs \in [1..size -> P]
  BY <1>3, <1>8
<1> HIDE DEF P
<1>12. pairs \in Seq(P) /\ DOMAIN pairs = 1..size
  BY <1>6, <1>11, SeqOfFunction
<1> QED
  BY <1>10, <1>12 DEF pairs

\* As many values as positions that have them, or fewer.
LEMMA ValuesCounted ==
  ASSUME NEW f, IsFiniteSet(DOMAIN f)
  PROVE  LET values == {f[i] : i \in DOMAIN f}
         IN /\ IsFiniteSet(values) /\ Cardinality(values) \in Nat
            /\ Cardinality(values) <= Cardinality(DOMAIN f)
<1> DEFINE values == {f[i] : i \in DOMAIN f}
           g == [i \in DOMAIN f |-> f[i]]
<1>1. g \in [DOMAIN f -> values] /\ \A v \in values : \E i \in DOMAIN f : g[i] = v
  OBVIOUS
<1> HIDE DEF g, values
<1>2. g \in Surjection(DOMAIN f, values)
  BY <1>1 DEF Surjection
<1>3. IsFiniteSet(values) /\ Cardinality(values) <= Cardinality(DOMAIN f)
  BY <1>2, FS_Surjection
<1>4. Cardinality(values) \in Nat
  BY <1>3, FS_CardinalityType
<1> QED
  BY <1>3, <1>4 DEF values

(***************************************************************************)
(* Every symbol of some relationships is in one bucket, and a relationship *)
(* that is repeated changes no symbol, user or file.                       *)
(***************************************************************************)
Bucket(rels, range) == {s \in SymbolsOf(rels) : Users(rels, s) \in range}
FilesOf(rels) == {rels[i].src : i \in DOMAIN rels} \cup {rels[i].tgt : i \in DOMAIN rels}

LEMMA GraphMetricsParts ==
  ASSUME NEW rels
  PROVE  /\ GraphMetrics(rels).connected = Top(Counts(rels), 5)
         /\ GraphMetrics(rels).files = Cardinality(FilesOf(rels))
         /\ GraphMetrics(rels).usage = <<Cardinality(Bucket(rels, 0..3)), Cardinality(Bucket(rels, 4..10)),
                                         Cardinality(Bucket(rels, 11..Len(rels)))>>
<1> DEFINE m == [files |-> Cardinality({rels[i].src : i \in DOMAIN rels} \cup {rels[i].tgt : i \in DOMAIN rels}),
                 relationships |-> Len(rels), connected |-> Top(Counts(rels), 5),
                 usage |-> <<Cardinality({s \in SymbolsOf(rels) : Users(rels, s) \in 0..3}),
                             Cardinality({s \in SymbolsOf(rels) : Users(rels, s) \in 4..10}),
                             Cardinality({s \in SymbolsOf(rels) : Users(rels, s) \in 11..Len(rels)})>>]
<1>1. GraphMetrics(rels) = m
  BY DEF GraphMetrics
<1> QED
  BY <1>1 DEF Bucket, FilesOf

LEMMA UsersBounded ==
  ASSUME NEW S, NEW rels \in Seq(S), NEW s
  PROVE  Users(rels, s) \in 0..Len(rels)
<1> DEFINE I == {i \in DOMAIN rels : <<rels[i].tgt, rels[i].sym>> = s}
<1>1. PICK n \in Nat : n = Len(rels) /\ DOMAIN rels = 1..n
  BY LenProperties
<1>2. IsFiniteSet(1..n) /\ Cardinality(1..n) = n
  BY FS_Interval
<1>3. IsFiniteSet(I) /\ Cardinality(I) <= n
  <2>1. I \in SUBSET (1..n)
    BY <1>1
  <2> HIDE DEF I
  <2> QED
    BY <1>2, <2>1, FS_Subset
<1> HIDE DEF I
<1> DEFINE f == [i \in I |-> rels[i].src]
<1>4. DOMAIN f = I /\ {f[i] : i \in DOMAIN f} = {rels[i].src : i \in I}
  OBVIOUS
<1> HIDE DEF f
<1>5. /\ Cardinality({rels[i].src : i \in I}) \in Nat /\ Cardinality(I) \in Nat
      /\ Cardinality({rels[i].src : i \in I}) <= Cardinality(I)
  BY <1>3, <1>4, ValuesCounted, FS_CardinalityType
<1>6. Users(rels, s) = Cardinality({rels[i].src : i \in I})
  BY DEF Users, I
<1> QED
  BY <1>1, <1>3, <1>5, <1>6

LEMMA BucketsPartition ==
  ASSUME NEW S, NEW rels \in Seq(S)
  PROVE  Cardinality(Bucket(rels, 0..3)) + Cardinality(Bucket(rels, 4..10)) + Cardinality(Bucket(rels, 11..Len(rels)))
           = Cardinality(SymbolsOf(rels))
<1> DEFINE a == Bucket(rels, 0..3)
           b == Bucket(rels, 4..10)
           c == Bucket(rels, 11..Len(rels))
           all == SymbolsOf(rels)
<1>1. PICK n \in Nat : n = Len(rels) /\ DOMAIN rels = 1..n
  BY LenProperties
<1>2. IsFiniteSet(all)
  <2> DEFINE I == {i \in DOMAIN rels : rels[i].sym # ""}
  <2>1. IsFiniteSet(1..n)
    BY FS_Interval
  <2>2. I \in SUBSET (1..n)
    BY <1>1
  <2> HIDE DEF I
  <2>3. IsFiniteSet(I)
    BY <2>1, <2>2, FS_Subset
  <2> DEFINE f == [i \in I |-> <<rels[i].tgt, rels[i].sym>>]
  <2>5. DOMAIN f = I /\ {f[i] : i \in DOMAIN f} = {<<rels[i].tgt, rels[i].sym>> : i \in I}
    OBVIOUS
  <2> HIDE DEF f
  <2>4. IsFiniteSet({<<rels[i].tgt, rels[i].sym>> : i \in I})
    BY <2>3, <2>5, ValuesCounted
  <2> QED
    BY <2>4 DEF SymbolsOf, I
<1>3. \A s : Users(rels, s) \in 0..n
  BY <1>1, UsersBounded
<1>4. a \in SUBSET all /\ b \in SUBSET all /\ c \in SUBSET all
  BY DEF Bucket
<1>5. all = (a \cup b) \cup c /\ a \cap b = {} /\ (a \cup b) \cap c = {}
  BY <1>1, <1>3 DEF Bucket
<1> HIDE DEF a, b, c, all
<1>6. IsFiniteSet(a) /\ IsFiniteSet(b) /\ IsFiniteSet(c) /\ IsFiniteSet(a \cup b)
  <2>1. a \cup b \in SUBSET all
    BY <1>4
  <2> QED
    BY <1>2, <1>4, <2>1, FS_Subset
<1>7. Cardinality({}) = 0
  BY FS_EmptySet
<1>8. Cardinality(a \cup b) = Cardinality(a) + Cardinality(b) - 0
  BY <1>5, <1>6, <1>7, FS_Union
<1>9. Cardinality(all) = Cardinality(a \cup b) + Cardinality(c) - 0
  BY <1>5, <1>6, <1>7, FS_Union
<1>10. Cardinality(a) \in Nat /\ Cardinality(b) \in Nat /\ Cardinality(c) \in Nat
  BY <1>6, FS_CardinalityType
<1>11. Cardinality(a) + Cardinality(b) + Cardinality(c) = Cardinality(all)
  BY <1>8, <1>9, <1>10
<1> QED
  BY <1>11 DEF a, b, c, all

LEMMA RepeatedSame ==
  ASSUME NEW S, NEW rels \in Seq(S), NEW i \in DOMAIN rels
  PROVE  LET repeated == GraphMetrics(Append(rels, rels[i]))
         IN repeated.usage = GraphMetrics(rels).usage /\ repeated.files = GraphMetrics(rels).files
<1> DEFINE more == Append(rels, rels[i])
<1>1. PICK n \in Nat : n = Len(rels) /\ DOMAIN rels = 1..n /\ \A k \in 1..n : rels[k] \in S
  BY LenProperties
<1>2. /\ more \in Seq(S) /\ Len(more) = n + 1 /\ DOMAIN more = 1..n + 1
      /\ \A k \in 1..n : more[k] = rels[k]
      /\ more[n + 1] = rels[i]
  <2>1. rels[i] \in S
    BY <1>1
  <2>2. /\ more \in Seq(S) /\ Len(more) = Len(rels) + 1
        /\ \A k \in 1..Len(rels) : more[k] = rels[k]
        /\ more[Len(rels) + 1] = rels[i]
    BY <2>1, AppendProperties
  <2> HIDE DEF more
  <2>3. DOMAIN more = 1..Len(more)
    BY <2>2, LenProperties
  <2> QED
    BY <1>1, <2>2, <2>3
<1> HIDE DEF more
<1>3. i \in 1..n /\ n + 1 \in 1..n + 1 /\ \A k \in 1..n : k \in 1..n + 1
  BY <1>1
<1>4. \A k \in 1..n + 1 : \E l \in 1..n : more[k] = rels[l]
  <2> SUFFICES ASSUME NEW k \in 1..n + 1 PROVE \E l \in 1..n : more[k] = rels[l]
    OBVIOUS
  <2>1. k \in 1..n \/ k = n + 1
    OBVIOUS
  <2> QED
    BY <1>2, <1>3, <2>1
<1>5. \A k \in 1..n : \E l \in 1..n + 1 : rels[k] = more[l]
  BY <1>2, <1>3
<1>6. SymbolsOf(more) = SymbolsOf(rels)
  <2>1. \A list : SymbolsOf(list) = {<<list[k].tgt, list[k].sym>> : k \in {k \in DOMAIN list : list[k].sym # ""}}
    BY DEF SymbolsOf
  <2>2. SymbolsOf(more) \subseteq SymbolsOf(rels)
    <3> SUFFICES ASSUME NEW k \in 1..n + 1, more[k].sym # "" PROVE <<more[k].tgt, more[k].sym>> \in SymbolsOf(rels)
      BY <1>2, <2>1
    <3>1. PICK l \in 1..n : more[k] = rels[l]
      BY <1>4
    <3> QED
      BY <1>1, <2>1, <3>1
  <2>3. SymbolsOf(rels) \subseteq SymbolsOf(more)
    <3> SUFFICES ASSUME NEW k \in 1..n, rels[k].sym # "" PROVE <<rels[k].tgt, rels[k].sym>> \in SymbolsOf(more)
      BY <1>1, <2>1
    <3>1. PICK l \in 1..n + 1 : rels[k] = more[l]
      BY <1>5
    <3> QED
      BY <1>2, <2>1, <3>1
  <2> QED
    BY <2>2, <2>3
<1>7. \A s : Users(more, s) = Users(rels, s)
  <2> SUFFICES ASSUME NEW s PROVE Users(more, s) = Users(rels, s)
    OBVIOUS
  <2> DEFINE A == {more[k].src : k \in {k \in DOMAIN more : <<more[k].tgt, more[k].sym>> = s}}
             B == {rels[k].src : k \in {k \in DOMAIN rels : <<rels[k].tgt, rels[k].sym>> = s}}
  <2>1. A = B
    <3>1. A \subseteq B
      <4> SUFFICES ASSUME NEW k \in 1..n + 1, <<more[k].tgt, more[k].sym>> = s PROVE more[k].src \in B
        BY <1>2
      <4>1. PICK l \in 1..n : more[k] = rels[l]
        BY <1>4
      <4> QED
        BY <1>1, <4>1
    <3>2. B \subseteq A
      <4> SUFFICES ASSUME NEW k \in 1..n, <<rels[k].tgt, rels[k].sym>> = s PROVE rels[k].src \in A
        BY <1>1
      <4>1. PICK l \in 1..n + 1 : rels[k] = more[l]
        BY <1>5
      <4> QED
        BY <1>2, <4>1
    <3> QED
      BY <3>1, <3>2
  <2>2. Users(more, s) = Cardinality(A) /\ Users(rels, s) = Cardinality(B)
    BY DEF Users
  <2> QED
    BY <2>1, <2>2
<1>8. FilesOf(more) = FilesOf(rels)
  <2>1. \A x : x \in FilesOf(more) <=> \E k \in 1..n + 1 : x = more[k].src \/ x = more[k].tgt
    BY <1>2 DEF FilesOf
  <2>2. \A x : x \in FilesOf(rels) <=> \E k \in 1..n : x = rels[k].src \/ x = rels[k].tgt
    BY <1>1 DEF FilesOf
  <2>3. FilesOf(more) \subseteq FilesOf(rels)
    BY <1>4, <2>1, <2>2
  <2>4. FilesOf(rels) \subseteq FilesOf(more)
    BY <1>5, <2>1, <2>2
  <2> QED
    BY <2>3, <2>4
<1>9. Bucket(more, 11..n + 1) = Bucket(rels, 11..n)
  <2>1. \A s : Users(rels, s) \in 0..n
    BY <1>1, UsersBounded
  <2>2. \A s : Users(rels, s) \in 11..n + 1 <=> Users(rels, s) \in 11..n
    BY <2>1
  <2> QED
    BY <1>6, <1>7, <2>2 DEF Bucket
<1>10. Bucket(more, 0..3) = Bucket(rels, 0..3) /\ Bucket(more, 4..10) = Bucket(rels, 4..10)
  BY <1>6, <1>7 DEF Bucket
<1>11. GraphMetrics(more).usage = GraphMetrics(rels).usage
  BY <1>1, <1>2, <1>9, <1>10, GraphMetricsParts
<1>12. GraphMetrics(more).files = GraphMetrics(rels).files
  BY <1>8, GraphMetricsParts
<1> QED
  BY <1>11, <1>12 DEF more

\* The figures made of any relationships are right.
LEMMA GraphMetricsCorrect ==
  ASSUME NEW S, NEW rels \in Seq(S)
  PROVE  GraphMetricsAreRight(rels)
<1> DEFINE m == GraphMetrics(rels)
<1>1. TopIsRight(Counts(rels), m.connected, 5)
  <2>1. PICK P : Counts(rels) \in Seq(P) /\ \A i \in DOMAIN Counts(rels) : Counts(rels)[i][2] \in Int
    BY CountsType
  <2>2. TopIsRight(Counts(rels), Top(Counts(rels), 5), 5)
    BY <2>1, TopCorrect
  <2> QED
    BY <2>2, GraphMetricsParts
<1>2. m.usage[1] + m.usage[2] + m.usage[3] = Cardinality(SymbolsOf(rels))
  <2>1. m.usage = <<Cardinality(Bucket(rels, 0..3)), Cardinality(Bucket(rels, 4..10)),
                    Cardinality(Bucket(rels, 11..Len(rels)))>>
    BY GraphMetricsParts
  <2> HIDE DEF m
  <2> QED
    BY <2>1, BucketsPartition
<1>3. \A i \in DOMAIN rels :
        LET repeated == GraphMetrics(Append(rels, rels[i]))
        IN repeated.usage = m.usage /\ repeated.files = m.files
  BY RepeatedSame
<1> QED
  BY <1>1, <1>2, <1>3 DEF GraphMetricsAreRight

-----------------------------------------------------------------------------
(***************************************************************************)
(* The least, the greatest and the median of some numbers.                 *)
(***************************************************************************)
LEMMA OneOfNumbers ==
  ASSUME NEW values, Numbers(values), DOMAIN values # {}
  PROVE  /\ LeastOrZero(values) \in Nat /\ GreatestOrZero(values) \in Nat /\ MedianOrZero(values) \in Nat
         /\ \E i \in DOMAIN values : LeastOrZero(values) = values[i]
         /\ \E i \in DOMAIN values : GreatestOrZero(values) = values[i]
         /\ \A i \in DOMAIN values : LeastOrZero(values) <= values[i] /\ values[i] <= GreatestOrZero(values)
         /\ LeastOrZero(values) <= MedianOrZero(values) /\ MedianOrZero(values) <= GreatestOrZero(values)
         /\ \A x \in Int : (\A i \in DOMAIN values : values[i] = x) => MedianOrZero(values) = x
<1> DEFINE S == DOMAIN values
           V == {values[i] : i \in S}
           n == Cardinality(S)
           s == Ascending(values)
           low == LeastOrZero(values)
           high == GreatestOrZero(values)
           mid == MedianOrZero(values)
<1>1. n \in Nat \ {0}
  BY FS_CardinalityType, FS_EmptySet DEF Numbers
<1>2. IsAscending(s, values, n)
  BY AscendingFacts
<1>3. mid = MedianOf(s) /\ low = Min(V) /\ high = Max(V)
  BY DEF MedianOrZero, LeastOrZero, GreatestOrZero
<1> HIDE DEF n, s, low, high, mid
<1>4. 1 \in 1..n /\ n \in 1..n
  BY <1>1
<1>5. /\ s[1] \in Nat /\ s[n] \in Nat
      /\ (\E i \in S : s[1] = values[i]) /\ (\E i \in S : s[n] = values[i])
      /\ \A i \in S : \E m \in 1..n : s[m] = values[i]
      /\ \A l, m \in 1..n : l <= m => s[l] <= s[m]
  BY <1>2, <1>4 DEF IsAscending
<1>6. \A i \in S : s[1] <= values[i] /\ values[i] <= s[n]
  <2> SUFFICES ASSUME NEW i \in S PROVE s[1] <= values[i] /\ values[i] <= s[n]
    OBVIOUS
  <2>1. PICK m \in 1..n : s[m] = values[i]
    BY <1>5
  <2>2. s[1] <= s[m] /\ s[m] <= s[n]
    BY <1>1, <1>4, <1>5
  <2> QED
    BY <2>1, <2>2
<1>7. \A i \in S : values[i] \in Nat
  BY DEF Numbers
<1>8. low = s[1]
  <2>1. s[1] \in V /\ \A y \in V : s[1] <= y
    BY <1>5, <1>6
  <2>2. low \in V /\ \A y \in V : low <= y
    BY <1>3, <2>1 DEF Min
  <2>3. low \in Nat
    BY <1>7, <2>2
  <2> HIDE DEF V
  <2>4. low <= s[1] /\ s[1] <= low
    BY <2>1, <2>2
  <2> QED
    BY <1>5, <2>3, <2>4
<1>9. high = s[n]
  <2>1. s[n] \in V /\ \A y \in V : s[n] >= y
    BY <1>5, <1>6, <1>7
  <2>2. high \in V /\ \A y \in V : high >= y
    BY <1>3, <2>1 DEF Max
  <2>3. high \in Nat
    BY <1>7, <2>2
  <2> HIDE DEF V
  <2>4. high >= s[n] /\ s[n] >= high
    BY <2>1, <2>2
  <2> QED
    BY <1>5, <2>3, <2>4
<1>10. mid \in Nat /\ s[1] <= mid /\ mid <= s[n]
  BY <1>1, <1>2, <1>3, MedianFacts
<1>11. \A x \in Int : (\A i \in S : values[i] = x) => mid = x
  BY <1>5, <1>10
<1> QED
  BY <1>5, <1>6, <1>8, <1>9, <1>10, <1>11 DEF low, high, mid

LEMMA NoneOfNumbers ==
  ASSUME NEW values, DOMAIN values = {}
  PROVE  LeastOrZero(values) = 0 /\ GreatestOrZero(values) = 0 /\ MedianOrZero(values) = 0
BY DEF LeastOrZero, GreatestOrZero, MedianOrZero

\* Numbers that are no greater, place for place, have a median that is no greater.
LEMMA MediansInOrder ==
  ASSUME NEW low, NEW high, Numbers(low), Numbers(high), DOMAIN low = DOMAIN high,
         \A i \in DOMAIN low : low[i] <= high[i]
  PROVE  MedianOrZero(low) <= MedianOrZero(high)
<1>1. CASE DOMAIN low = {}
  <2>1. DOMAIN low = {} /\ DOMAIN high = {}
    BY <1>1
  <2>2. MedianOrZero(low) = 0 /\ MedianOrZero(high) = 0
    BY <2>1, NoneOfNumbers
  <2>3. 0 <= 0
    OBVIOUS
  <2> QED
    BY <2>2, <2>3
<1>2. CASE DOMAIN low # {}
  <2> DEFINE n == Cardinality(DOMAIN low)
             s == Ascending(low)
             t == Ascending(high)
  <2>1. n \in Nat \ {0}
    BY <1>2, FS_CardinalityType, FS_EmptySet DEF Numbers
  <2>2. IsAscending(s, low, n) /\ IsAscending(t, high, n)
    BY AscendingFacts
  <2>3. \A m \in 1..n : s[m] <= t[m]
    BY AscendingMonotone
  <2>4. MedianOrZero(low) = MedianOf(s) /\ MedianOrZero(high) = MedianOf(t)
    BY <1>2 DEF MedianOrZero
  <2> HIDE DEF n, s, t
  <2> QED
    BY <2>1, <2>2, <2>3, <2>4, MedianMonotone
<1> QED
  BY <1>1, <1>2

\* The sum of one value is the value.
LEMMA SumOfOne ==
  ASSUME NEW f, NEW k, DOMAIN f = {k}, f[k] \in Int
  PROVE  SumFunction(f) = f[k]
<1> DEFINE S == DOMAIN f
           v == f[k]
           IsSumming(g) == g = [s \in SUBSET S |-> IF s = {} THEN 0
                             ELSE f[CHOOSE x \in s : TRUE] + g[s \ {CHOOSE x \in s : TRUE}]]
           g == CHOOSE g : IsSumming(g)
           h == [s \in SUBSET S |-> IF s = {} THEN 0 ELSE v]
<1>1. SumFunction(f) = g[S]
  BY DEF SumFunction, SumFunctionOnSet, FoldFunctionOnSet, MapThenFoldSet
<1>2. IsSumming(h)
  <2>1. \A s \in SUBSET S : s = {} \/ s = {k}
    OBVIOUS
  <2>2. (CHOOSE x \in {k} : TRUE) = k /\ {k} \ {k} = {}
    OBVIOUS
  <2>3. h[{}] = 0 /\ h[{k}] = v
    OBVIOUS
  <2>4. \A s \in SUBSET S : h[s] = IF s = {} THEN 0 ELSE f[CHOOSE x \in s : TRUE] + h[s \ {CHOOSE x \in s : TRUE}]
    BY <2>1, <2>2, <2>3
  <2> DEFINE again == [s \in SUBSET S |-> IF s = {} THEN 0
                         ELSE f[CHOOSE x \in s : TRUE] + h[s \ {CHOOSE x \in s : TRUE}]]
  <2>5. \A s \in SUBSET S : h[s] = again[s]
    BY <2>4
  <2>6. h = [s \in SUBSET S |-> h[s]] /\ again = [s \in SUBSET S |-> again[s]]
    OBVIOUS
  <2> HIDE DEF h, again
  <2>7. h = again
    BY <2>5, <2>6
  <2> QED
    BY <2>7 DEF again
<1>3. IsSumming(g)
  BY <1>2
<1> HIDE DEF g, h
<1>4. g[{}] = 0
  <2>1. {} \in SUBSET S
    OBVIOUS
  <2> QED
    BY <1>3, <2>1
<1>5. g[S] = f[CHOOSE x \in S : TRUE] + g[S \ {CHOOSE x \in S : TRUE}]
  BY <1>3
<1>6. (CHOOSE x \in S : TRUE) = k /\ S \ {k} = {}
  OBVIOUS
<1>7. g[S] = v + 0
  BY <1>4, <1>5, <1>6
<1> QED
  BY <1>1, <1>7

-----------------------------------------------------------------------------
(***************************************************************************)
(* What the analysis relies on of a session: its figures are in order, and *)
(* when more than one of 20 contexts exceeded the limit, the 95th          *)
(* percentile of their tokens is over it.                                  *)
(***************************************************************************)
Figures(t) ==
  /\ t.min \in Nat /\ t.median \in Nat /\ t.p95 \in Nat /\ t.max \in Nat /\ t.count \in Nat
  /\ t.min <= t.median /\ t.median <= t.p95 /\ t.p95 <= t.max
IsConfig(c) == c.expiry \in Nat /\ c.size \in Nat /\ c.limit \in Nat /\ c.threshold \in Nat
IsSession(s) ==
  /\ Figures(s.tokens) /\ Figures(s.parsing) /\ IsConfig(s.config)
  /\ s.start \in Nat /\ s.injections \in Nat /\ s.exceedances \in Nat
  /\ 20 * s.exceedances > s.tokens.count => s.tokens.p95 > s.config.limit

LEMMA FiguresOfNumbers ==
  ASSUME NEW values \in Seq(Nat)
  PROVE  Figures(PercentileStatistics(values)) /\ PercentileStatistics(values).count = Len(values)
<1> DEFINE t == PercentileStatistics(values)
<1>1. Numbers(values) /\ DOMAIN values = 1..Len(values) /\ Cardinality(DOMAIN values) = Len(values) /\ Len(values) \in Nat
  BY SequenceOfNumbers
<1>2. CASE DOMAIN values = {}
  <2>1. Len(values) = 0
    BY <1>1, <1>2
  <2>2. Len(Ascending(values)) = 0
    <3>1. IsAscending(Ascending(values), values, Cardinality(DOMAIN values))
      BY <1>1, AscendingFacts
    <3> QED
      BY <1>1, <2>1, <3>1 DEF IsAscending
  <2>3. t = NoStatistics
    BY <2>2 DEF PercentileStatistics
  <2> HIDE DEF t
  <2>4. t.min = 0 /\ t.median = 0 /\ t.p95 = 0 /\ t.max = 0 /\ t.count = 0
    BY <2>3 DEF NoStatistics
  <2>5. Figures(t) /\ t.count = Len(values)
    BY <2>1, <2>4 DEF Figures
  <2> QED
    BY <2>5 DEF t
<1>3. CASE DOMAIN values # {}
  <2>1. IsStatistics(t, values, Len(values))
    BY <1>1, <1>3, StatisticsFacts
  <2> HIDE DEF t
  <2>2. Figures(t) /\ t.count = Len(values)
    BY <1>1, <2>1 DEF Figures, IsStatistics
  <2> QED
    BY <2>2 DEF t
<1> QED
  BY <1>2, <1>3

\* More than one of 20 numbers being over a limit, the 95th percentile is.
LEMMA ManyOverLimit ==
  ASSUME NEW values \in Seq(Nat), NEW limit \in Nat,
         20 * Cardinality({i \in DOMAIN values : values[i] > limit}) > Len(values)
  PROVE  PercentileStatistics(values).p95 > limit
<1> DEFINE t == PercentileStatistics(values)
           n == Len(values)
           over == {i \in DOMAIN values : values[i] > limit}
           low == AtMost(values, limit)
<1>1. Numbers(values) /\ DOMAIN values = 1..n /\ Cardinality(DOMAIN values) = n /\ n \in Nat
  BY SequenceOfNumbers
<1>2. limit \in Int
  OBVIOUS
<1>3. Cardinality(low) \in Nat /\ Cardinality(over) \in Nat /\ Cardinality(low) + Cardinality(over) = n
  BY <1>1, <1>2, CountsAddUp
<1>6. 20 * Cardinality(over) > n
  OBVIOUS
<1> HIDE DEF t, n, over, low
<1>4. n \in Nat \ {0}
  BY <1>1, <1>3, <1>6
<1>5. IsStatistics(t, values, n)
  <2>1. 1 \in DOMAIN values
    BY <1>1, <1>4
  <2>2. DOMAIN values # {}
    BY <2>1
  <2> QED
    BY <1>1, <2>2, StatisticsFacts DEF t, n
<1>7. t.p95 \in Nat /\ Cardinality(AtMost(values, t.p95)) \in Nat /\ Cardinality(AtMost(values, t.p95)) >= Place95(n)
  BY <1>5 DEF IsStatistics
<1>8. Place95(n) \in Nat /\ Place95(n) > n - Cardinality(over)
  <2>1. Place95(n) \in 1..n /\ \A e \in Nat : 20 * e > n => Place95(n) > n - e
    BY <1>4, Place95Facts
  <2> QED
    BY <1>3, <1>6, <2>1
<1>9. ASSUME t.p95 <= limit PROVE FALSE
  <2>1. AtMost(values, t.p95) \subseteq low
    BY <1>1, <1>7, <1>9 DEF AtMost, low, Numbers
  <2>2. low \in SUBSET DOMAIN values
    BY DEF AtMost, low
  <2>3. IsFiniteSet(low)
    BY <1>1, <2>2, FS_Subset DEF Numbers
  <2>4. Cardinality(AtMost(values, t.p95)) <= Cardinality(low)
    BY <2>1, <2>3, FS_Subset
  <2> QED
    BY <1>1, <1>3, <1>7, <1>8, <2>4
<1>10. t.p95 > limit
  BY <1>7, <1>9
<1> QED
  BY <1>10 DEF t

Over(tokens, limit) == {i \in DOMAIN tokens : tokens[i] > limit}

LEMMA OverOneMore ==
  ASSUME NEW limit \in Nat, NEW tokens \in Seq(Nat), NEW n \in Nat
  PROVE  /\ Append(tokens, n) \in Seq(Nat)
         /\ Cardinality(Over(Append(tokens, n), limit)) = Cardinality(Over(tokens, limit)) + (IF n > limit THEN 1 ELSE 0)
<1> DEFINE more == Append(tokens, n)
           A == Over(tokens, limit)
           B == Over(more, limit)
<1>1. PICK k \in Nat : k = Len(tokens) /\ DOMAIN tokens = 1..k /\ \A i \in 1..k : tokens[i] \in Nat
  BY LenProperties
<1>2. /\ more \in Seq(Nat) /\ Len(more) = k + 1 /\ more[k + 1] = n
      /\ \A i \in 1..k : more[i] = tokens[i]
  BY <1>1, AppendProperties
<1> HIDE DEF more
<1>3. DOMAIN more = 1..k + 1
  BY <1>1, <1>2, LenProperties
<1>4. IsFiniteSet(A) /\ Cardinality(A) \in Nat /\ k + 1 \notin A
  <2>1. IsFiniteSet(1..k)
    BY FS_Interval
  <2>2. A \in SUBSET (1..k)
    BY <1>1 DEF Over
  <2>3. k + 1 \notin 1..k
    OBVIOUS
  <2> HIDE DEF A
  <2> QED
    BY <2>1, <2>2, <2>3, FS_Subset, FS_CardinalityType
<1>5. \A i : i \in 1..k + 1 <=> i \in 1..k \/ i = k + 1
  BY <1>1
<1>6. CASE n > limit
  <2>1. B = A \cup {k + 1}
    BY <1>1, <1>2, <1>3, <1>5, <1>6 DEF Over
  <2> HIDE DEF A, B
  <2>2. Cardinality(B) = Cardinality(A) + 1
    BY <1>4, <2>1, FS_AddElement
  <2> QED
    BY <1>2, <1>6, <2>2 DEF A, B, more
<1>7. CASE ~ (n > limit)
  <2>1. B = A
    BY <1>1, <1>2, <1>3, <1>5, <1>7 DEF Over
  <2> HIDE DEF A, B
  <2>2. Cardinality(B) = Cardinality(A) + 0
    BY <1>4, <2>1
  <2> QED
    BY <1>2, <1>7, <2>2 DEF A, B, more
<1> QED
  BY <1>6, <1>7

(***************************************************************************)
(* What a collector records, it can have recorded: a new one has counted   *)
(* no context that exceeded the limit, and every event keeps the count     *)
(* that _assemble_context tells record_injection_token_count.              *)
(***************************************************************************)
THEOREM CollectorCounts ==
  ASSUME NEW limit \in Nat
  PROVE  /\ Collected(NewCollector, limit)
         /\ \A c, f : \A n \in Nat : Collected(c, limit) =>
              /\ Collected(RecordTokens(c, n, n > limit), limit) /\ Collected(RecordParsing(c, n), limit)
              /\ Collected(RecordLatency(c, n), limit) /\ Collected(RecordRead(c, f), limit)
<1>1. Collected(NewCollector, limit)
  <2>1. NewCollector.tokens = <<>> /\ NewCollector.parsing = <<>> /\ NewCollector.exceedances = 0
    BY DEF NewCollector
  <2>2. <<>> \in Seq(Nat) /\ \A v : v = <<>> => {i \in DOMAIN v : v[i] > limit} = {}
    OBVIOUS
  <2> QED
    BY <2>1, <2>2, FS_EmptySet DEF Collected
<1>2. ASSUME NEW c, NEW f, NEW n \in Nat, Collected(c, limit)
      PROVE  /\ Collected(RecordTokens(c, n, n > limit), limit) /\ Collected(RecordParsing(c, n), limit)
             /\ Collected(RecordLatency(c, n), limit) /\ Collected(RecordRead(c, f), limit)
  <2>1. /\ DOMAIN c = {"tokens", "exceedances", "parsing", "latencies", "reads"}
        /\ DOMAIN NewCollector = {"tokens", "exceedances", "parsing", "latencies", "reads"}
        /\ c.tokens \in Seq(Nat) /\ c.parsing \in Seq(Nat) /\ c.exceedances = Cardinality(Over(c.tokens, limit))
    BY <1>2 DEF Collected, NewCollector, Over
  <2>2. \A d : /\ DOMAIN d = DOMAIN c /\ d.tokens \in Seq(Nat) /\ d.parsing \in Seq(Nat)
               /\ d.exceedances = Cardinality(Over(d.tokens, limit))
               => Collected(d, limit)
    BY <2>1 DEF Collected, Over
  <2>3. Collected(RecordTokens(c, n, n > limit), limit)
    <3> DEFINE d == RecordTokens(c, n, n > limit)
    <3>1. /\ DOMAIN d = DOMAIN c /\ d.tokens = Append(c.tokens, n) /\ d.parsing = c.parsing
          /\ d.exceedances = c.exceedances + (IF n > limit THEN 1 ELSE 0)
      BY <2>1 DEF RecordTokens
    <3> HIDE DEF d
    <3>2. /\ Append(c.tokens, n) \in Seq(Nat)
          /\ Cardinality(Over(Append(c.tokens, n), limit))
               = Cardinality(Over(c.tokens, limit)) + (IF n > limit THEN 1 ELSE 0)
      BY <2>1, OverOneMore
    <3>3. Collected(d, limit)
      BY <2>1, <2>2, <3>1, <3>2
    <3> QED
      BY <3>3 DEF d
  <2>4. Collected(RecordParsing(c, n), limit)
    <3> DEFINE d == RecordParsing(c, n)
    <3>1. /\ DOMAIN d = DOMAIN c /\ d.tokens = c.tokens /\ d.parsing = Append(c.parsing, n)
          /\ d.exceedances = c.exceedances
      BY <2>1 DEF RecordParsing
    <3> HIDE DEF d
    <3>2. Append(c.parsing, n) \in Seq(Nat)
      BY <2>1, OverOneMore
    <3>3. Collected(d, limit)
      BY <2>1, <2>2, <3>1, <3>2
    <3> QED
      BY <3>3 DEF d
  <2>5. Collected(RecordLatency(c, n), limit)
    <3> DEFINE d == RecordLatency(c, n)
    <3>1. DOMAIN d = DOMAIN c /\ d.tokens = c.tokens /\ d.parsing = c.parsing /\ d.exceedances = c.exceedances
      BY <2>1 DEF RecordLatency
    <3> HIDE DEF d
    <3>2. Collected(d, limit)
      BY <2>1, <2>2, <3>1
    <3> QED
      BY <3>2 DEF d
  <2>6. Collected(RecordRead(c, f), limit)
    <3> DEFINE d == RecordRead(c, f)
    <3>1. DOMAIN d = DOMAIN c /\ d.tokens = c.tokens /\ d.parsing = c.parsing /\ d.exceedances = c.exceedances
      BY <2>1 DEF RecordRead
    <3> HIDE DEF d
    <3>2. Collected(d, limit)
      BY <2>1, <2>2, <3>1
    <3> QED
      BY <3>2 DEF d
  <2> QED
    BY <2>3, <2>4, <2>5, <2>6
<1> QED
  BY <1>1, <1>2

\* Every recording makes a session that the analysis can rely on.
LEMMA ParsedFacts ==
  ASSUME NEW r, IsRecording(r)
  PROVE  IsSession(Parsed(r))
<1> DEFINE s == Parsed(r)
<1>1. /\ s.tokens = PercentileStatistics(r.collector.tokens)
      /\ s.parsing = PercentileStatistics(r.collector.parsing)
      /\ s.config = r.config /\ s.start = r.start /\ s.injections = r.injections
      /\ s.exceedances = r.collector.exceedances
  BY DEF Parsed, SessionMetricsOf
<1>2. /\ r.collector.tokens \in Seq(Nat) /\ r.collector.parsing \in Seq(Nat)
      /\ r.collector.exceedances =
           Cardinality({i \in DOMAIN r.collector.tokens : r.collector.tokens[i] > r.config.limit})
      /\ r.injections \in Nat /\ r.start \in Nat
      /\ r.config \in [expiry : Nat, size : Nat, limit : Nat, threshold : Nat]
  BY DEF IsRecording, Collected
<1> HIDE DEF s
<1>3. IsConfig(s.config) /\ r.config.limit \in Nat
  BY <1>1, <1>2 DEF IsConfig
<1>4. Figures(s.tokens) /\ Figures(s.parsing) /\ s.tokens.count = Len(r.collector.tokens)
  BY <1>1, <1>2, FiguresOfNumbers
<1>5. s.exceedances \in Nat
  <2>1. Numbers(r.collector.tokens)
    BY <1>2, SequenceOfNumbers
  <2>2. r.config.limit \in Int
    BY <1>3
  <2>3. Cardinality({i \in DOMAIN r.collector.tokens : r.collector.tokens[i] > r.config.limit}) \in Nat
    BY <2>1, <2>2, CountsAddUp
  <2> QED
    BY <1>1, <1>2, <2>3
<1>6. 20 * s.exceedances > s.tokens.count => s.tokens.p95 > s.config.limit
  <2> SUFFICES ASSUME 20 * s.exceedances > s.tokens.count PROVE s.tokens.p95 > s.config.limit
    OBVIOUS
  <2>1. 20 * Cardinality({i \in DOMAIN r.collector.tokens : r.collector.tokens[i] > r.config.limit}) > Len(r.collector.tokens)
    BY <1>1, <1>2, <1>4
  <2>2. PercentileStatistics(r.collector.tokens).p95 > r.config.limit
    BY <1>2, <1>3, <2>1, ManyOverLimit
  <2> QED
    BY <1>1, <2>2
<1>7. IsSession(s)
  BY <1>1, <1>2, <1>3, <1>4, <1>5, <1>6 DEF IsSession
<1> QED
  BY <1>7 DEF s

-----------------------------------------------------------------------------
\* Sessions to aggregate, and the same sessions in another order.
AreSessions(list, n) ==
  n \in Nat \ {0} /\ Len(list) = n /\ DOMAIN list = 1..n /\ \A i \in 1..n : IsSession(list[i])
SameSessions(list, other, n) ==
  /\ \A i \in 1..n : \E j \in 1..n : list[i] = other[j]
  /\ \A i \in 1..n : \E j \in 1..n : other[i] = list[j]

LEMMA SortedSessions ==
  ASSUME NEW n, NEW list, AreSessions(list, n)
  PROVE  LET sorted == SortedBy(list, [i \in DOMAIN list |-> list[i].start])
         IN AreSessions(sorted, n) /\ SameSessions(list, sorted, n)
<1> DEFINE key == [i \in DOMAIN list |-> list[i].start]
           p == Arranged(DOMAIN list, key)
           sorted == SortedBy(list, key)
<1>1. n \in Nat \ {0} /\ DOMAIN list = 1..n /\ \A i \in 1..n : IsSession(list[i])
  BY DEF AreSessions
<1>2. \A i \in DOMAIN list : key[i] \in Int
  BY <1>1 DEF IsSession
<1>3. IsFiniteSet(1..n) /\ Cardinality(1..n) = n /\ 1..n \subseteq Nat
  BY <1>1, FS_Interval
<1> HIDE DEF key
<1>4. IsSortedBy(sorted, p, list, key)
  BY <1>1, <1>2, <1>3, SortedByFacts
<1> HIDE DEF p, sorted
<1>5. p \in [1..n -> 1..n] /\ \A i \in 1..n : \E m \in 1..n : p[m] = i
  BY <1>1, <1>3, <1>4 DEF IsSortedBy, IsArranged
<1>6. sorted = [m \in 1..n |-> list[p[m]]]
  BY <1>1, <1>3, <1>4 DEF IsSortedBy
<1>7. \A m \in 1..n : p[m] \in 1..n /\ sorted[m] = list[p[m]]
  BY <1>5, <1>6
<1>8. Len(sorted) = n /\ DOMAIN sorted = 1..n
  <2> DEFINE S == {list[i] : i \in 1..n}
  <2>1. sorted \in [1..n -> S]
    BY <1>5, <1>6
  <2> HIDE DEF S
  <2> QED
    BY <1>1, <2>1, SeqOfFunction
<1>9. AreSessions(sorted, n)
  BY <1>1, <1>7, <1>8 DEF AreSessions
<1>10. SameSessions(list, sorted, n)
  <2>1. \A i \in 1..n : \E m \in 1..n : list[i] = sorted[m]
    <3> SUFFICES ASSUME NEW i \in 1..n PROVE \E m \in 1..n : list[i] = sorted[m]
      OBVIOUS
    <3>1. PICK m \in 1..n : p[m] = i
      BY <1>5
    <3> QED
      BY <1>7, <3>1
  <2>2. \A m \in 1..n : \E i \in 1..n : sorted[m] = list[i]
    BY <1>7
  <2> QED
    BY <2>1, <2>2 DEF SameSessions
<1> QED
  BY <1>9, <1>10 DEF sorted, key

\* the figures of an aggregate that its properties are about
LEMMA AggregateParts ==
  ASSUME NEW list
  PROVE  LET a == Aggregate(list)
             I == Injecting(list)
         IN /\ a.token_min = LeastOrZero([i \in I |-> list[i].tokens.min])
            /\ a.token_max = GreatestOrZero([i \in I |-> list[i].tokens.max])
            /\ a.token_median = MedianOrZero([i \in I |-> list[i].tokens.median])
            /\ a.token_p95 = MedianOrZero([i \in I |-> list[i].tokens.p95])
            /\ a.injections = SumFunction([i \in DOMAIN list |-> list[i].injections])
            /\ a.exceedances = SumFunction([i \in DOMAIN list |-> list[i].exceedances])
            /\ a.parsing_p95 = MedianOrZero([i \in Parsing(list) |-> list[i].parsing.p95])
BY DEF Aggregate

\* The aggregated token counts are in order, the least and the greatest those of a session.
LEMMA AggregateInOrder ==
  ASSUME NEW n, NEW list, AreSessions(list, n)
  PROVE  LET a == Aggregate(list)
         IN /\ a.token_min <= a.token_median /\ a.token_median <= a.token_p95 /\ a.token_p95 <= a.token_max
            /\ a.token_min \in Nat /\ a.token_median \in Nat /\ a.token_p95 \in Nat /\ a.token_max \in Nat
            /\ Injecting(list) # {} => /\ \E i \in Injecting(list) : a.token_min = list[i].tokens.min
                                       /\ \E i \in Injecting(list) : a.token_max = list[i].tokens.max
<1> DEFINE a == Aggregate(list)
           I == Injecting(list)
           low == [i \in I |-> list[i].tokens.min]
           mid == [i \in I |-> list[i].tokens.median]
           high == [i \in I |-> list[i].tokens.p95]
           top == [i \in I |-> list[i].tokens.max]
<1>1. /\ a.token_min = LeastOrZero(low) /\ a.token_max = GreatestOrZero(top)
      /\ a.token_median = MedianOrZero(mid) /\ a.token_p95 = MedianOrZero(high)
  BY AggregateParts
<1>2. n \in Nat \ {0} /\ DOMAIN list = 1..n /\ \A i \in 1..n : IsSession(list[i])
  BY DEF AreSessions
<1>3. I \subseteq Nat /\ IsFiniteSet(I) /\ \A i \in I : Figures(list[i].tokens)
  <2>1. I \in SUBSET (1..n)
    BY <1>2 DEF Injecting
  <2>2. IsFiniteSet(1..n)
    BY <1>2, FS_Interval
  <2>3. \A i \in 1..n : Figures(list[i].tokens)
    BY <1>2 DEF IsSession
  <2> HIDE DEF I
  <2>4. IsFiniteSet(I)
    BY <2>1, <2>2, FS_Subset
  <2>5. 1..n \subseteq Nat
    OBVIOUS
  <2> QED
    BY <2>1, <2>3, <2>4, <2>5
<1> HIDE DEF I, a
<1>4. DOMAIN low = I /\ DOMAIN mid = I /\ DOMAIN high = I /\ DOMAIN top = I
  OBVIOUS
<1>5. \A i \in I : /\ low[i] \in Nat /\ mid[i] \in Nat /\ high[i] \in Nat /\ top[i] \in Nat
                   /\ low[i] <= mid[i] /\ mid[i] <= high[i] /\ high[i] <= top[i]
                   /\ low[i] = list[i].tokens.min /\ top[i] = list[i].tokens.max
  BY <1>3 DEF Figures
<1> HIDE DEF low, mid, high, top
<1>6. Numbers(low) /\ Numbers(mid) /\ Numbers(high) /\ Numbers(top)
  BY <1>3, <1>4, <1>5 DEF Numbers
<1>7. CASE I = {}
  <2>1. a.token_min = 0 /\ a.token_median = 0 /\ a.token_p95 = 0 /\ a.token_max = 0
    BY <1>1, <1>4, <1>7, NoneOfNumbers
  <2>2. 0 \in Nat /\ 0 <= 0
    OBVIOUS
  <2> QED
    BY <1>7, <2>1, <2>2 DEF I, a
<1>8. CASE I # {}
  <2>1. MedianOrZero(low) <= MedianOrZero(mid) /\ MedianOrZero(mid) <= MedianOrZero(high)
        /\ MedianOrZero(high) <= MedianOrZero(top)
    BY <1>4, <1>5, <1>6, MediansInOrder
  <2>2. /\ MedianOrZero(low) \in Nat /\ MedianOrZero(mid) \in Nat /\ MedianOrZero(high) \in Nat /\ MedianOrZero(top) \in Nat
        /\ LeastOrZero(low) \in Nat /\ GreatestOrZero(top) \in Nat
        /\ LeastOrZero(low) <= MedianOrZero(low) /\ MedianOrZero(top) <= GreatestOrZero(top)
    BY <1>4, <1>6, <1>8, OneOfNumbers
  <2>3. (\E i \in I : LeastOrZero(low) = low[i]) /\ (\E i \in I : GreatestOrZero(top) = top[i])
    BY <1>4, <1>6, <1>8, OneOfNumbers
  <2>4. (\E i \in I : a.token_min = list[i].tokens.min) /\ (\E i \in I : a.token_max = list[i].tokens.max)
    BY <1>1, <1>5, <2>3
  <2>5. a.token_min <= a.token_median /\ a.token_median <= a.token_p95 /\ a.token_p95 <= a.token_max
    BY <1>1, <2>1, <2>2
  <2>6. a.token_min \in Nat /\ a.token_median \in Nat /\ a.token_p95 \in Nat /\ a.token_max \in Nat
    BY <1>1, <2>2
  <2> QED
    BY <2>4, <2>5, <2>6 DEF I, a
<1> QED
  BY <1>7, <1>8

\* The aggregated token counts are right for the sessions in the order they were given, too.
LEMMA TokensCorrect ==
  ASSUME NEW n, NEW list, NEW sorted, AreSessions(list, n), AreSessions(sorted, n), SameSessions(list, sorted, n)
  PROVE  TokensAreRight(list, Aggregate(sorted))
<1> DEFINE a == Aggregate(sorted)
           injected == {list[i].tokens : i \in Injecting(list)}
<1>1. DOMAIN list = 1..n /\ DOMAIN sorted = 1..n
  BY DEF AreSessions
<1>2. \A i \in 1..n : \E j \in 1..n : list[i] = sorted[j]
  BY DEF SameSessions
<1>3. \A i \in 1..n : \E j \in 1..n : sorted[i] = list[j]
  BY DEF SameSessions
<1>4. /\ a.token_min <= a.token_median /\ a.token_median <= a.token_p95 /\ a.token_p95 <= a.token_max
      /\ Injecting(sorted) # {} => /\ \E i \in Injecting(sorted) : a.token_min = sorted[i].tokens.min
                                   /\ \E i \in Injecting(sorted) : a.token_max = sorted[i].tokens.max
  BY AggregateInOrder
<1> HIDE DEF a
<1>5. ASSUME injected # {}
      PROVE  a.token_min \in {t.min : t \in injected} /\ a.token_max \in {t.max : t \in injected}
  <2>1. Injecting(sorted) # {}
    <3>1. PICK i \in 1..n : list[i].injections > 0
      BY <1>1, <1>5 DEF Injecting
    <3>2. PICK j \in 1..n : list[i] = sorted[j]
      BY <1>2
    <3> QED
      BY <1>1, <3>1, <3>2 DEF Injecting
  <2>2. \A i \in Injecting(sorted) : sorted[i].tokens \in injected
    <3> SUFFICES ASSUME NEW i \in 1..n, sorted[i].injections > 0 PROVE sorted[i].tokens \in injected
      BY <1>1 DEF Injecting
    <3>1. PICK j \in 1..n : sorted[i] = list[j]
      BY <1>3
    <3>2. j \in Injecting(list)
      BY <1>1, <3>1 DEF Injecting
    <3> QED
      BY <3>1, <3>2
  <2> HIDE DEF injected
  <2> QED
    BY <1>4, <2>1, <2>2
<1>6. TokensAreRight(list, a)
  BY <1>4, <1>5 DEF TokensAreRight
<1> QED
  BY <1>6 DEF a

\* What all sessions missed is reported missed.
LEMMA MissesCorrect ==
  ASSUME NEW n, NEW list, NEW sorted, AreSessions(list, n), AreSessions(sorted, n), SameSessions(list, sorted, n),
         NEW r, r.targets = TargetsMet(Aggregate(sorted)), r.outliers = Outliers(sorted, Aggregate(sorted))
  PROVE  MissesAreReported(list, r)
<1> DEFINE a == Aggregate(sorted)
           values == [i \in Parsing(sorted) |-> sorted[i].parsing.p95]
<1>1. DOMAIN list = 1..n /\ DOMAIN sorted = 1..n /\ n \in Nat \ {0} /\ \A i \in 1..n : IsSession(sorted[i])
  BY DEF AreSessions
<1> SUFFICES ASSUME \A i \in DOMAIN list : list[i].parsing.median > 0 /\ list[i].parsing.p95 > 400
             PROVE  ~r.targets.parsing /\ \A i \in DOMAIN list : <<"parsing", i>> \in r.outliers
  BY DEF MissesAreReported
<1>2. \A i \in 1..n : sorted[i].parsing.median > 0 /\ sorted[i].parsing.p95 > 400
  <2>1. \A i \in 1..n : \E j \in 1..n : sorted[i] = list[j]
    BY DEF SameSessions
  <2> QED
    BY <1>1, <2>1
<1>3. Parsing(sorted) = 1..n
  BY <1>1, <1>2 DEF Parsing
<1>4. DOMAIN values = 1..n /\ \A i \in 1..n : values[i] \in Nat /\ values[i] > 400
  <2>1. \A i \in 1..n : sorted[i].parsing.p95 \in Nat
    BY <1>1 DEF IsSession, Figures
  <2> QED
    BY <1>2, <1>3, <2>1
<1>5. a.parsing_p95 = MedianOrZero(values)
  BY AggregateParts
<1> HIDE DEF a, values
<1>6. IsFiniteSet(1..n) /\ 1..n \subseteq Nat /\ 1 \in 1..n
  BY <1>1, FS_Interval
<1>7. Numbers(values) /\ DOMAIN values # {}
  BY <1>4, <1>6 DEF Numbers
<1>8. LeastOrZero(values) \in Nat /\ MedianOrZero(values) \in Nat /\ LeastOrZero(values) <= MedianOrZero(values)
      /\ \E i \in DOMAIN values : LeastOrZero(values) = values[i]
  BY <1>7, OneOfNumbers
<1>9. a.parsing_p95 \in Nat /\ a.parsing_p95 > 400
  BY <1>4, <1>5, <1>8
<1>10. ~r.targets.parsing
  <2>1. TargetsMet(a).parsing <=> a.parsing_p95 <= 200
    BY Zenon DEF TargetsMet
  <2>2. ~ (a.parsing_p95 <= 200)
    BY <1>9
  <2>3. r.targets = TargetsMet(a)
    BY DEF a
  <2> QED
    BY <2>1, <2>2, <2>3, Zenon
<1>11. \A i \in 1..n : <<"parsing", i>> \in r.outliers
  <2>1. \A i \in 1..n : <<"parsing", i>> \in {<<"parsing", j>> : j \in {j \in DOMAIN sorted : sorted[j].parsing.p95 > 400}}
    BY <1>1, <1>2
  <2>2. {<<"parsing", j>> : j \in {j \in DOMAIN sorted : sorted[j].parsing.p95 > 400}} \subseteq Outliers(sorted, Aggregate(sorted))
    BY DEF Outliers
  <2> QED
    BY <2>1, <2>2
<1> QED
  BY <1>1, <1>10, <1>11

(***************************************************************************)
(* Advice about a parameter is one or none, and lowers nothing but the     *)
(* token limit.                                                            *)
(***************************************************************************)
IsAdviceOn(advice, parameter, current) ==
  /\ \A p, q \in advice : p = q
  /\ \A p \in advice : p.parameter = parameter /\ p.current = current
LowersNothing(advice) == \A p \in advice : p.value = Keeping \/ p.value >= p.current

LEMMA OneAdvice ==
  ASSUME NEW parameter, NEW current, NEW value
  PROVE  /\ IsAdviceOn({Advice(parameter, current, value)}, parameter, current)
         /\ IsAdviceOn({}, parameter, current) /\ LowersNothing({})
         /\ (value = Keeping \/ value >= current) => LowersNothing({Advice(parameter, current, value)})
BY DEF Advice, IsAdviceOn, LowersNothing

LEMMA EachAdvice ==
  ASSUME NEW c, IsConfig(c), NEW a
  PROVE  /\ IsAdviceOn(ExpiryAdvice(c, a), "cache_expiry_minutes", c.expiry) /\ LowersNothing(ExpiryAdvice(c, a))
         /\ IsAdviceOn(SizeAdvice(c, a), "cache_size_limit_kb", c.size) /\ LowersNothing(SizeAdvice(c, a))
         /\ IsAdviceOn(LimitAdvice(c, a), "context_token_limit", c.limit)
         /\ IsAdviceOn(ThresholdAdvice(c, a), "function_usage_warning_threshold", c.threshold)
         /\ LowersNothing(ThresholdAdvice(c, a))
<1>1. c.expiry \in Nat /\ c.size \in Nat /\ c.limit \in Nat /\ c.threshold \in Nat
  BY DEF IsConfig
<1>2. Keeping = Keeping
  OBVIOUS
<1>3. IsAdviceOn(ExpiryAdvice(c, a), "cache_expiry_minutes", c.expiry) /\ LowersNothing(ExpiryAdvice(c, a))
  <2> DEFINE more == Max({c.expiry, 15})
  <2>1. more >= c.expiry
    BY <1>1, GreatestOfTwo
  <2> HIDE DEF more
  <2>2. \/ ExpiryAdvice(c, a) = {Advice("cache_expiry_minutes", c.expiry, more)}
        \/ ExpiryAdvice(c, a) = {Advice("cache_expiry_minutes", c.expiry, Keeping)}
        \/ ExpiryAdvice(c, a) = {}
    BY DEF ExpiryAdvice, more
  <2> QED
    BY <2>1, <2>2, OneAdvice
<1>4. IsAdviceOn(SizeAdvice(c, a), "cache_size_limit_kb", c.size) /\ LowersNothing(SizeAdvice(c, a))
  <2> DEFINE more == (3 * c.size) \div 2
  <2>1. more >= c.size
    BY <1>1
  <2> HIDE DEF more
  <2>2. \/ SizeAdvice(c, a) = {Advice("cache_size_limit_kb", c.size, more)}
        \/ SizeAdvice(c, a) = {Advice("cache_size_limit_kb", c.size, Keeping)}
    BY DEF SizeAdvice, more
  <2> QED
    BY <2>1, <2>2, OneAdvice
<1>5. IsAdviceOn(LimitAdvice(c, a), "context_token_limit", c.limit)
  <2> DEFINE other == (a.token_p95 * 6) \div 5
  <2>1. \/ LimitAdvice(c, a) = {Advice("context_token_limit", c.limit, other)}
        \/ LimitAdvice(c, a) = {Advice("context_token_limit", c.limit, Keeping)}
        \/ LimitAdvice(c, a) = {}
    BY DEF LimitAdvice
  <2> QED
    BY <2>1, OneAdvice
<1>6. /\ IsAdviceOn(ThresholdAdvice(c, a), "function_usage_warning_threshold", c.threshold)
      /\ LowersNothing(ThresholdAdvice(c, a))
  <2> DEFINE more == Max({c.threshold + 1, 4})
  <2>1. more >= c.threshold
    BY <1>1, GreatestOfTwo
  <2> HIDE DEF more
  <2>2. \/ ThresholdAdvice(c, a) = {Advice("function_usage_warning_threshold", c.threshold, more)}
        \/ ThresholdAdvice(c, a) = {Advice("function_usage_warning_threshold", c.threshold, Keeping)}
        \/ ThresholdAdvice(c, a) = {}
    BY DEF ThresholdAdvice, more
  <2> QED
    BY <2>1, <2>2, OneAdvice
<1> QED
  BY <1>3, <1>4, <1>5, <1>6

\* Of one session that injected every context it recorded, not even the token limit is lowered.
LEMMA LimitRaised ==
  ASSUME NEW list, AreSessions(list, 1), list[1].injections >= list[1].tokens.count
  PROVE  LowersNothing(LimitAdvice(list[1].config, Aggregate(list)))
<1> DEFINE s == list[1]
           c == s.config
           a == Aggregate(list)
           I == Injecting(list)
           high == [i \in I |-> list[i].tokens.p95]
           more == (a.token_p95 * 6) \div 5
           advice(value) == {Advice("context_token_limit", c.limit, value)}
<1>1. DOMAIN list = {1} /\ IsSession(s)
  <2>1. DOMAIN list = 1..1 /\ 1 \in 1..1 /\ IsSession(list[1])
    BY DEF AreSessions
  <2>2. 1..1 = {1}
    OBVIOUS
  <2> QED
    BY <2>1, <2>2
<1>2. /\ s.tokens.count \in Nat /\ s.tokens.p95 \in Nat /\ s.injections \in Nat /\ s.exceedances \in Nat
      /\ c.limit \in Nat
      /\ 20 * s.exceedances > s.tokens.count => s.tokens.p95 > c.limit
  BY <1>1 DEF IsSession, Figures, IsConfig
<1>3. a.injections = s.injections /\ a.exceedances = s.exceedances
  <2> DEFINE f == [i \in DOMAIN list |-> list[i].injections]
             g == [i \in DOMAIN list |-> list[i].exceedances]
  <2>1. DOMAIN f = {1} /\ f[1] = s.injections /\ DOMAIN g = {1} /\ g[1] = s.exceedances
    BY <1>1
  <2>2. a.injections = SumFunction(f) /\ a.exceedances = SumFunction(g)
    BY AggregateParts
  <2> HIDE DEF f, g
  <2>3. f[1] \in Int /\ g[1] \in Int
    BY <1>2, <2>1
  <2>4. SumFunction(f) = f[1] /\ SumFunction(g) = g[1]
    BY <2>1, <2>3, SumOfOne
  <2> QED
    BY <2>1, <2>2, <2>4
<1>4. ASSUME s.injections > 0 PROVE a.token_p95 = s.tokens.p95
  <2>1. I = {1}
    BY <1>1, <1>4 DEF Injecting
  <2>2. DOMAIN high = {1} /\ high[1] = s.tokens.p95
    BY <2>1
  <2>3. a.token_p95 = MedianOrZero(high)
    BY AggregateParts
  <2> HIDE DEF high
  <2>4. Numbers(high) /\ DOMAIN high # {}
    <3>1. IsFiniteSet({1})
      BY FS_Singleton
    <3> QED
      BY <1>2, <2>2, <3>1 DEF Numbers
  <2>5. \A x \in Int : (\A i \in DOMAIN high : high[i] = x) => MedianOrZero(high) = x
    BY <2>4, OneOfNumbers
  <2>6. s.tokens.p95 \in Int /\ \A i \in DOMAIN high : high[i] = s.tokens.p95
    BY <1>2, <2>2
  <2> QED
    BY <2>3, <2>5, <2>6
<1>5. s.injections >= s.tokens.count
  OBVIOUS
<1>6. \/ a.injections > 0 /\ 20 * a.exceedances > a.injections /\ LimitAdvice(c, a) = advice(more)
      \/ LimitAdvice(c, a) = advice(Keeping) \/ LimitAdvice(c, a) = {}
  BY DEF LimitAdvice
<1> HIDE DEF s, c, a
<1>7. CASE a.injections > 0 /\ 20 * a.exceedances > a.injections /\ LimitAdvice(c, a) = advice(more)
  <2>1. a.token_p95 = s.tokens.p95 /\ s.tokens.p95 > c.limit
    BY <1>2, <1>3, <1>4, <1>5, <1>7
  <2>2. more >= c.limit
    BY <1>2, <2>1
  <2> HIDE DEF more
  <2>3. LowersNothing(LimitAdvice(c, a))
    BY <1>7, <2>2, OneAdvice
  <2> QED
    BY <2>3 DEF s, c, a
<1>8. CASE LimitAdvice(c, a) = advice(Keeping) \/ LimitAdvice(c, a) = {}
  <2>1. LowersNothing(LimitAdvice(c, a))
    BY <1>8, OneAdvice
  <2> QED
    BY <2>1 DEF s, c, a
<1> QED
  BY <1>6, <1>7, <1>8

\* The recommendations are right.
LEMMA AdviceCorrect ==
  ASSUME NEW n, NEW list, NEW sorted, AreSessions(list, n), AreSessions(sorted, n), SameSessions(list, sorted, n)
  PROVE  AdviceIsRight(list, Recommendations(sorted[n].config, Aggregate(sorted)))
<1> DEFINE a == Aggregate(sorted)
           c == sorted[n].config
           advice == Recommendations(c, a)
           expiry == ExpiryAdvice(c, a)
           size == SizeAdvice(c, a)
           limit == LimitAdvice(c, a)
           threshold == ThresholdAdvice(c, a)
<1>1. n \in Nat \ {0} /\ IsConfig(c)
  <2>1. n \in Nat \ {0} /\ \A i \in 1..n : IsSession(sorted[i])
    BY DEF AreSessions
  <2> QED
    BY <2>1 DEF IsSession
<1>2. /\ IsAdviceOn(expiry, "cache_expiry_minutes", c.expiry) /\ LowersNothing(expiry)
      /\ IsAdviceOn(size, "cache_size_limit_kb", c.size) /\ LowersNothing(size)
      /\ IsAdviceOn(limit, "context_token_limit", c.limit)
      /\ IsAdviceOn(threshold, "function_usage_warning_threshold", c.threshold) /\ LowersNothing(threshold)
  BY <1>1, EachAdvice
<1>3. ~ (Len(list) > 1 \/ list[1].injections < list[1].tokens.count) => LowersNothing(limit)
  <2> SUFFICES ASSUME ~ (Len(list) > 1), ~ (list[1].injections < list[1].tokens.count) PROVE LowersNothing(limit)
    OBVIOUS
  <2>1. n = 1
    BY DEF AreSessions
  <2>2. sorted[1] = list[1]
    <3>1. \A i \in 1..n : \E j \in 1..n : list[i] = sorted[j]
      BY DEF SameSessions
    <3>2. \A j \in 1..1 : j = 1
      OBVIOUS
    <3>3. 1 \in 1..1
      OBVIOUS
    <3> QED
      BY <2>1, <3>1, <3>2, <3>3
  <2>3. AreSessions(sorted, 1)
    BY <2>1
  <2>4. sorted[1].injections \in Nat /\ sorted[1].tokens.count \in Nat
    BY <2>3 DEF AreSessions, IsSession, Figures
  <2>5. sorted[1].injections >= sorted[1].tokens.count
    BY <2>2, <2>4
  <2> QED
    BY <2>1, <2>3, <2>5, LimitRaised
<1>4. advice = expiry \cup size \cup limit \cup threshold
  BY DEF Recommendations
<1> HIDE DEF a, c, advice, expiry, size, limit, threshold
<1>5. ASSUME NEW p \in advice, NEW q \in advice, p.parameter = q.parameter PROVE p = q
  <2>1. (p \in expiry /\ q \in expiry) \/ (p \in size /\ q \in size) \/ (p \in limit /\ q \in limit)
          \/ (p \in threshold /\ q \in threshold)
    BY <1>2, <1>4, <1>5 DEF IsAdviceOn
  <2> QED
    BY <1>2, <2>1 DEF IsAdviceOn
<1>6. ASSUME NEW p \in advice
      PROVE  \/ p.value = Keeping \/ p.value >= p.current
             \/ p.parameter = "context_token_limit"
                /\ (Len(list) > 1 \/ list[1].injections < list[1].tokens.count)
  <2>1. p \in expiry \/ p \in size \/ p \in limit \/ p \in threshold
    BY <1>4
  <2>2. CASE p \in limit
    <3>1. p.parameter = "context_token_limit"
      BY <1>2, <2>2 DEF IsAdviceOn
    <3>2. (Len(list) > 1 \/ list[1].injections < list[1].tokens.count) \/ p.value = Keeping \/ p.value >= p.current
      BY <1>3, <2>2 DEF LowersNothing
    <3> QED
      BY <3>1, <3>2
  <2>3. CASE p \in expiry \/ p \in size \/ p \in threshold
    BY <1>2, <2>3 DEF LowersNothing
  <2> QED
    BY <2>1, <2>2, <2>3
<1>7. AdviceIsRight(list, advice)
  BY <1>5, <1>6 DEF AdviceIsRight
<1> QED
  BY <1>7 DEF advice, a, c

(***************************************************************************)
(* The analysis of any recordings is right.                                *)
(***************************************************************************)
LEMMA AnalysisCorrect ==
  ASSUME NEW R, NEW recorded \in Seq(R), recorded # <<>>, \A i \in DOMAIN recorded : IsRecording(recorded[i])
  PROVE  AnalysisIsRight(recorded)
<1> DEFINE list == [i \in DOMAIN recorded |-> Parsed(recorded[i])]
           sorted == SortedBy(list, [i \in DOMAIN list |-> list[i].start])
           a == Aggregate(sorted)
           r == Analysis(list)
<1>1. PICK n \in Nat \ {0} : n = Len(recorded) /\ DOMAIN recorded = 1..n
  BY EmptySeq, LenProperties
<1>2. AreSessions(list, n)
  <2> DEFINE S == {Parsed(recorded[i]) : i \in 1..n}
  <2>1. list \in [1..n -> S] /\ \A i \in 1..n : list[i] = Parsed(recorded[i])
    BY <1>1
  <2> HIDE DEF list, S
  <2>2. Len(list) = n /\ DOMAIN list = 1..n
    BY <2>1, SeqOfFunction
  <2>3. \A i \in 1..n : IsSession(list[i])
    BY <1>1, <2>1, ParsedFacts
  <2> QED
    BY <2>2, <2>3 DEF AreSessions
<1>3. AnalysisIsRight(recorded) <=>
        /\ TokensAreRight(list, r.statistics)
        /\ MissesAreReported(list, r)
        /\ AdviceIsRight(list, r.recommendations)
  BY DEF AnalysisIsRight
<1> HIDE DEF list
<1>4. AreSessions(sorted, n) /\ SameSessions(list, sorted, n)
  BY <1>2, SortedSessions
<1>5. /\ r.statistics = a /\ r.targets = TargetsMet(a) /\ r.outliers = Outliers(sorted, a)
      /\ r.recommendations = Recommendations(Last(sorted).config, a)
  BY DEF Analysis
<1> HIDE DEF sorted, r
<1>6. Last(sorted) = sorted[n]
  BY <1>4 DEF Last, AreSessions
<1>7. TokensAreRight(list, r.statistics)
  BY <1>2, <1>4, <1>5, TokensCorrect
<1>8. MissesAreReported(list, r)
  BY <1>2, <1>4, <1>5, MissesCorrect
<1>9. AdviceIsRight(list, r.recommendations)
  BY <1>2, <1>4, <1>5, <1>6, AdviceCorrect
<1> QED
  BY <1>3, <1>7, <1>8, <1>9

-----------------------------------------------------------------------------
\* what a behaviour gives an algorithm is one of the inputs of its set
InputInv == /\ task = "none" => input = Nothing
            /\ Ready("import") => Given \in Imports
            /\ Ready("extent") => Given \in Definitions
            /\ Ready("names") => Given \in Histories
            /\ Ready("suppression") => Given \in Suppressions
            /\ Ready("context") => Given \in Contexts
            /\ Ready("statistics") => Given \in Samples
            /\ Ready("graph") => Given \in Graphs
            /\ Ready("sessions") => Given \in Sessions

LEMMA InputHolds == AlgorithmsSpec => []InputInv
<1>1. AlgorithmsInit => InputInv
  BY DEF AlgorithmsInit, InputInv, Ready
<1>2. InputInv /\ [AlgorithmsNext]_algorithmsVars => InputInv'
  <2> SUFFICES ASSUME InputInv, [AlgorithmsNext]_algorithmsVars PROVE InputInv'
    OBVIOUS
  <2> USE DEF InputInv, Ready, Given
  <2>1. CASE Choose
    BY <2>1 DEF Choose, Tasks, Nothing
  <2>2. CASE Name
    BY <2>2 DEF Name, On, Nothing
  <2>3. CASE ResolveImport
    BY <2>3 DEF ResolveImport, On, Nothing
  <2>6. CASE FindExtent
    BY <2>6 DEF FindExtent, On, Nothing
  <2>7. CASE Suppress
    BY <2>7 DEF Suppress, On, Nothing
  <2>8. CASE Assemble
    BY <2>8 DEF Assemble, On, Nothing
  <2>4. CASE Sort
    BY <2>4 DEF Sort, On, Nothing
  <2>9. CASE Summarize
    BY <2>9 DEF Summarize, On, Nothing
  <2>10. CASE Measure
    BY <2>10 DEF Measure, On, Nothing
  <2>11. CASE Analyze
    BY <2>11 DEF Analyze, On, Nothing
  <2>5. CASE UNCHANGED algorithmsVars
    BY <2>5 DEF algorithmsVars
  <2> QED
    BY <2>1, <2>2, <2>3, <2>4, <2>5, <2>6, <2>7, <2>8, <2>9, <2>10, <2>11 DEF AlgorithmsNext
<1> QED
  BY <1>1, <1>2, PTL DEF AlgorithmsSpec

(***************************************************************************)
(* Every import given leads to the foremost file of its name, or to none   *)
(* if there is none, whatever file appears.                                *)
(***************************************************************************)
THEOREM ImportsAreRight == AlgorithmsSpec => []ImportIsRight
<1>1. InputInv => ImportIsRight
  <2> SUFFICES ASSUME InputInv, Ready("import")
               PROVE  Resolution!ImportIsRight(Given.w, Given.dir, Given.imp, Given.new)
    BY DEF ImportIsRight
  <2>1. Given \in Imports
    BY DEF InputInv
  <2> DEFINE given == Given
  <2>2. /\ given.w \in [files : SUBSET ModuleFiles, stdlib : SUBSET STRING, installed : SUBSET STRING]
        /\ given.dir \in Seq(STRING) /\ given.new \in ModuleFiles
        /\ given.imp \in [parts : Seq(STRING), level : Nat, name : STRING]
        /\ given.imp.level = 0 => given.imp.parts # <<>>
    BY <2>1, ImportsAssumption
  <2> HIDE DEF given
  <2>3. \A S : /\ given.w \in [files : SUBSET [dir : Seq(S), name : S], stdlib : SUBSET S, installed : SUBSET S]
               /\ given.dir \in Seq(S) /\ given.new \in [dir : Seq(S), name : S]
               /\ given.imp \in [parts : Seq(S), level : Nat, name : S]
               /\ (given.imp.level = 0 => given.imp.parts # <<>>)
               => Resolution!ImportIsRight(given.w, given.dir, given.imp, given.new)
    BY ImportCorrect
  <2>4. Resolution!ImportIsRight(given.w, given.dir, given.imp, given.new)
    BY <2>2, <2>3 DEF ModuleFiles
  <2> QED
    BY <2>4 DEF given
<1> QED
  BY <1>1, InputHolds, PTL

(***************************************************************************)
(* Every definition given is shown as far as it goes.                      *)
(***************************************************************************)
THEOREM ExtentsAreRight == AlgorithmsSpec => []ExtentIsRight
<1>1. InputInv => ExtentIsRight
  <2> SUFFICES ASSUME InputInv, Ready("extent")
               PROVE  Extent!ExtentIsRight(Given.d, Given.context, Given.more, Given.large)
    BY DEF ExtentIsRight
  <2>1. Given \in Definitions
    BY DEF InputInv
  <2> DEFINE given == Given
  <2>2. /\ Extent!IsDefinition(given.d) /\ given.context \in Nat /\ given.more \in Nat
        /\ given.large \in 0..given.more + 1
    BY <2>1, DefinitionsAssumption
  <2> HIDE DEF given
  <2>3. Extent!ExtentIsRight(given.d, given.context, given.more, given.large)
    BY <2>2, ExtentCorrect
  <2> QED
    BY <2>3 DEF given
<1> QED
  BY <1>1, InputHolds, PTL

(***************************************************************************)
(* Every history given ends with the right names, or with outdated ones    *)
(* for the reason NamesAreRight allows.                                    *)
(***************************************************************************)
THEOREM NamesFollowContent == AlgorithmsSpec => []NamesAreRight
<1>1. InputInv => NamesAreRight
  <2> SUFFICES ASSUME InputInv, Ready("names") PROVE Names!NamesAreRight(Given.kind, Given.history)
    BY DEF NamesAreRight
  <2>1. Given \in Histories
    BY DEF InputInv
  <2> DEFINE history == Given.history
             kind == Given.kind
  <2>2. kind \in {"call", "parent"} /\ history \in Seq(FileAnalyses) /\ history # <<>>
    BY <2>1, HistoriesAssumption
  <2> HIDE DEF history, kind
  <2>3. ASSUME NEW k \in DOMAIN history
        PROVE  WellMade(history[k].content) /\ IsFile(history[k].file)
    <3> DEFINE a == history[k]
               Imports1 == [as : STRING, target : STRING]
               Uses1 == [module : UsedNames, name : UsedNames]
    <3>1. a \in FileAnalyses
      BY <2>2, LenProperties
    <3> HIDE DEF a
    <3>2. a.file \in STRING \ {""}
      BY <3>1 DEF FileAnalyses
    <3>3. IsFile(a.file)
      BY <3>2 DEF IsFile, Names!NewDetector
    <3>4. \A u \in Uses1 : u.module # "*" /\ u.name # "*"
      BY DEF UsedNames
    <3>5. a.content \in [defines : SUBSET STRING, imports : Seq(Imports1), uses : Seq(Uses1),
                         others : BOOLEAN]
      BY <3>1 DEF FileAnalyses
    <3> HIDE DEF Imports1, Uses1
    <3>6. WellMade(a.content)
      BY <3>4, <3>5, AnalysisWellMade
    <3> QED
      BY <3>3, <3>6 DEF a
  <2>4. Names!NamesAreRight(kind, history)
    BY <2>2, <2>3, NamesCorrect
  <2> QED
    BY <2>4 DEF history, kind
<1> QED
  BY <1>1, InputHolds, PTL

(***************************************************************************)
(* Every warning given is suppressed, or not, as the configuration says.   *)
(***************************************************************************)
THEOREM SuppressionsAreRight == AlgorithmsSpec => []SuppressionIsRight
<1>1. InputInv => SuppressionIsRight
  <2> SUFFICES ASSUME InputInv, Ready("suppression")
               PROVE  Suppression!SuppressionIsRight(Given.c, Given.w)
    BY DEF SuppressionIsRight
  <2>1. Given \in Suppressions
    BY DEF InputInv
  <2> DEFINE c == Given.c
             w == Given.w
  <2>2. /\ w \in [file : [abs : BOOLEAN, segs : Seq(STRING)], type : STRING]
        /\ c.root \in Seq(STRING) /\ \A k \in DOMAIN c.root : c.root[k] # ".."
        /\ c.patterns \subseteq [abs : BOOLEAN, segs : Seq(STRING)]
    BY <2>1, SuppressionsAssumption DEF Paths
  <2> HIDE DEF c, w
  <2>3. Suppression!SuppressionIsRight(c, w)
    BY <2>2, SuppressionCorrect
  <2> QED
    BY <2>3 DEF c, w
<1> QED
  BY <1>1, InputHolds, PTL

(***************************************************************************)
(* Whatever the dependencies of a file, the definitions shown are the most *)
(* important ones, each once, and the log and the warnings agree with them.*)
(***************************************************************************)
THEOREM ContextsAreRight == AlgorithmsSpec => []ContextIsRight
<1>1. InputInv => ContextIsRight
  <2> SUFFICES ASSUME InputInv, Ready("context") PROVE Context!ContextIsRight(Given.w, Given.deps)
    BY DEF ContextIsRight
  <2>1. Given \in Contexts
    BY DEF InputInv
  <2> DEFINE w == Given.w
             deps == Given.deps
  <2>2. deps \in Seq(Dependencies) /\ IsLimited(w)
    BY <2>1, ContextsAssumption DEF IsLimited, SnippetKinds
  <2>3. \A r \in Dependencies : r.line \in Int
    BY DEF Dependencies
  <2> HIDE DEF w, deps
  <2>4. Context!ContextIsRight(w, deps)
    BY <2>2, <2>3, ContextCorrect
  <2> QED
    BY <2>4 DEF w, deps
<1> QED
  BY <1>1, InputHolds, PTL

(***************************************************************************)
(* Of all values, relationships and recordings given, the statistics, the  *)
(* figures of the graph and the analysis are right.                        *)
(***************************************************************************)
THEOREM MetricsCorrect == AlgorithmsSpec => []MetricsAreRight
<1>1. InputInv => MetricsAreRight
  <2> SUFFICES ASSUME InputInv PROVE MetricsAreRight
    OBVIOUS
  <2> DEFINE given == Given
  <2>1. ASSUME Ready("statistics") PROVE PercentilesAreRight(given)
    <3>1. given \in Samples
      BY <2>1 DEF InputInv
    <3> HIDE DEF given
    <3> QED
      BY <3>1, SamplesAssumption, PercentilesCorrect
  <2>2. ASSUME Ready("graph") PROVE GraphMetricsAreRight(given)
    <3>1. given \in Graphs
      BY <2>2 DEF InputInv
    <3> HIDE DEF given
    <3> QED
      BY <3>1, GraphsAssumption, GraphMetricsCorrect
  <2>3. ASSUME Ready("sessions") PROVE AnalysisIsRight(given)
    <3>1. given \in Sessions
      BY <2>3 DEF InputInv
    <3> HIDE DEF given
    <3>2. /\ given \in Seq(ToSet(given)) /\ given # <<>>
          /\ \A i \in DOMAIN given : IsRecording(given[i])
      BY <3>1, SessionsAssumption
    <3> QED
      BY <3>2, AnalysisCorrect
  <2> QED
    BY <2>1, <2>2, <2>3 DEF MetricsAreRight
<1> QED
  BY <1>1, InputHolds, PTL
=============================================================================
