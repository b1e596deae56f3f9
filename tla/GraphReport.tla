------------------------------ MODULE GraphReport ------------------------------
(***************************************************************************)
(* What RelationshipGraph tells of itself: the export, the most connected  *)
(* files and the check for corruption.                                     *)
(***************************************************************************)
EXTENDS RelationshipGraph

\* dependents of every key of the reverse index, markers and files without any included
DependencyCounts(g) == [t \in DOMAIN g.dependents |-> Cardinality(g.dependents[t])]

\* the limit most connected, in any order among equals
MostConnected(g, limit) ==
  LET counts == DependencyCounts(g)
      above(t) == {u \in DOMAIN counts : counts[u] > counts[t]}
  IN {t \in DOMAIN counts : Cardinality(above(t)) < limit}

ExportToDict(g) ==
  [total_files          |-> Cardinality(DOMAIN g.file_metadata),
   total_relationships  |-> Length(g.relationships),
   files                |-> DOMAIN g.file_metadata,
   relationships        |-> g.relationships,
   most_connected_files |-> MostConnected(g, 10)]

(***************************************************************************)
(* validate_graph: duplicates, relationships an index does not hold, and   *)
(* keys of an index without a relationship or an entry.                    *)
(***************************************************************************)
Unindexed(g) ==
  {r \in DOMAIN g.relationships :
     r.tgt \notin GetSet(g.dependencies, r.src) \/ r.src \notin GetSet(g.dependents, r.tgt)}
Orphans(g) ==
  {f \in DOMAIN g.dependencies \cup DOMAIN g.dependents :
     /\ DependenciesOf(g, f) \cup DependentsOf(g, f) = {}
     /\ GetSet(g.dependencies, f) = {} /\ GetSet(g.dependents, f) = {}}

TestsKeysOnly(g) ==
  \/ DuplicateErrors(g) # {} \/ Orphans(g) # {}
  \/ \E r \in DOMAIN g.relationships : r.src \notin DOMAIN g.dependencies \/ r.tgt \notin DOMAIN g.dependents
DetectCorruption(g) == DuplicateErrors(g) # {} \/ Orphans(g) # {} \/ Unindexed(g) # {}

-----------------------------------------------------------------------------
(***************************************************************************)
(* The check for corruption finds every relationship that one of the two   *)
(* indices lost.  Of a graph that the methods built it complains in two    *)
(* cases only: a relationship that is there twice, and a file that lost    *)
(* its last relationship but not its key.  And the counts exported are     *)
(* those of the relationships exported.                                    *)
(***************************************************************************)
LostFrom(g, r) ==
  {[g EXCEPT !.dependencies[r.src] = @ \ {r.tgt}], [g EXCEPT !.dependents[r.tgt] = @ \ {r.src}],
   [g EXCEPT !.dependencies = Del(@, r.src)], [g EXCEPT !.dependents = Del(@, r.tgt)]}

Emptied(g) ==
  {f \in Target : /\ ~ \E t \in Target : Linked(g, f, t) \/ Linked(g, t, f)
                  /\ f \in DOMAIN g.dependencies \cup DOMAIN g.dependents}

ReportsAreRight ==
  /\ \A r \in DOMAIN graph.relationships : \A g \in LostFrom(graph, r) : DetectCorruption(g)
  /\ DetectCorruption(graph) <=> DuplicateErrors(graph) # {} \/ Emptied(graph) # {}
  /\ LET report == ExportToDict(graph)
         users(t) == {f \in File : Linked(graph, f, t)}
     IN /\ \A t \in report.most_connected_files : DependencyCounts(graph)[t] = Cardinality(users(t))
        /\ Cardinality(DOMAIN graph.dependents) <= 10 =>
             \A t \in Target : users(t) # {} => t \in report.most_connected_files
=============================================================================
