-------------------------- MODULE RelationshipGraph --------------------------
(***************************************************************************)
(* Class RelationshipGraph on its own, driven by any sequence of calls of  *)
(* its public methods.  The class promises that its two indices stay the   *)
(* image of the list of relationships; each method maintains the three by  *)
(* hand.                                                                   *)
(***************************************************************************)
EXTENDS GraphOps

CONSTANT MaxRels    \* bound on the length of the list of relationships

ASSUME BoundsAssumption == MaxRels \in Nat
ASSUME MarkerAssumption == File \cap Marker = {}

VARIABLES
  graph,      \* the four attributes, see GraphOps
  removed     \* what the last remove_outgoing_relationships returned

vars == <<graph, removed>>

\* the length of a list, copies included
Length(bag) == FoldFunction(+, 0, bag)

Init == graph = EmptyGraph /\ removed = EmptyDict

Add(r) ==
  /\ Length(graph.relationships) < MaxRels
  /\ graph' = AddRelationship(graph, r)
  /\ UNCHANGED removed

RemoveForFile(f) ==
  /\ graph' = RemoveRelationshipsForFile(graph, f)
  /\ UNCHANGED removed

RemoveOutgoing(f) ==
  /\ graph' = RemoveOutgoingRelationships(graph, f)
  /\ removed' = Outgoing(graph, f)

\* the caller restores what it removed, once
Restore ==
  /\ removed # EmptyDict
  /\ Length(graph.relationships) + Length(removed) <= MaxRels
  /\ graph' = AddAll(graph, removed)
  /\ removed' = EmptyDict

\* every caller builds a new FileMetadata, whose pending_relationships is False
SetMetadata(f, s) ==
  /\ graph' = SetFileMetadata(graph, f, [status |-> s, pending |-> FALSE])
  /\ UNCHANGED removed

MarkPending(f) ==
  /\ graph' = SetPending(graph, f, TRUE)
  /\ UNCHANGED removed

ClearPending(f) ==
  /\ graph' = SetPending(graph, f, FALSE)
  /\ UNCHANGED removed

Clear ==
  /\ graph' = EmptyGraph
  /\ UNCHANGED removed

Next ==
  \/ \E r \in Rel : Add(r)
  \/ \E f \in File : RemoveForFile(f)
  \/ \E f \in File : RemoveOutgoing(f)
  \/ Restore
  \/ \E f \in File, s \in Status : SetMetadata(f, s)
  \/ \E f \in File : MarkPending(f)
  \/ \E f \in File : ClearPending(f)
  \/ Clear

Spec == Init /\ [][Next]_vars

-----------------------------------------------------------------------------
\* every key of the three structures is a file or target, every metadata record complete
TypeOK == GraphType(graph) /\ IsDict(removed, Rel, Nat \ {0})

(***************************************************************************)
(* The forward and the reverse index hold exactly the ends of the          *)
(* relationships in the list, whatever calls were made: no query through   *)
(* an index can miss a relationship or invent one.                         *)
(***************************************************************************)
IndexMirror == Mirror(graph)

(***************************************************************************)
(* remove_outgoing_relationships followed by restore_pending_relationships *)
(* of what it returned gives every query its old answer (the use Issue     *)
(* #117 describes), from every reachable graph.                            *)
(***************************************************************************)
SameAnswers(g, h) ==
  /\ g.relationships = h.relationships
  /\ \A t \in Target : /\ GetSet(g.dependencies, t) = GetSet(h.dependencies, t)
                       /\ GetSet(g.dependents, t) = GetSet(h.dependents, t)

RestoreUndoesRemove ==
  \A f \in File :
    SameAnswers(graph, AddAll(RemoveOutgoingRelationships(graph, f), Outgoing(graph, f)))

(***************************************************************************)
(* get_transitive_dependencies, run over the index, finds the files that a *)
(* chain of relationships reaches: the least set closed under the          *)
(* relationships, the starting file left out even on a cycle.              *)
(***************************************************************************)
ReachableFrom(g, f) ==
  LET closed(S) == \A r \in DOMAIN g.relationships : r.src \in S => r.tgt \in S
  IN {t \in Target : \A S \in SUBSET Target : f \in S /\ closed(S) => t \in S}

TraversalIsReachability ==
  \A f \in File :
    TransitiveDependencies(graph.dependencies, f) = ReachableFrom(graph, f) \ {f}

(***************************************************************************)
(* Once remove_relationships_for_file(f) has run, f has no metadata, no    *)
(* index key and is in no relationship: a later analysis starts from       *)
(* nothing, and the pending flag of f is gone with its metadata.           *)
(***************************************************************************)
Unknown(g, f) ==
  /\ f \notin DOMAIN g.file_metadata \cup DOMAIN g.dependencies \cup DOMAIN g.dependents
  /\ \A k \in DOMAIN g.dependencies : f \notin g.dependencies[k]
  /\ \A k \in DOMAIN g.dependents : f \notin g.dependents[k]
  /\ DependenciesOf(g, f) \cup DependentsOf(g, f) = {}

RemovalForgets == [][\A f \in File : RemoveForFile(f) => Unknown(graph, f)']_vars
=============================================================================
