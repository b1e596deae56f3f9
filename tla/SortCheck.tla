------------------------------ MODULE SortCheck ------------------------------
(***************************************************************************)
(* What the sort of TopologicalSort owes its caller, for one dependency    *)
(* index and one set of files to process.                                  *)
(***************************************************************************)
EXTENDS TopologicalSort

DependsOn(index, f, g) == g \in TransitiveDependencies(index, f)
Precedes(order, f, g)  == \E i, j \in DOMAIN order : i < j /\ order[i] = f /\ order[j] = g

\* f waits for no cycle: no file it depends on, nor f itself, is on one
Acyclic(files, index, f) ==
  \A g, h \in files :
    g # h /\ g \in {f} \cup Blocking(files, index, f) => ~ (DependsOn(index, g, h) /\ DependsOn(index, h, g))

(***************************************************************************)
(* Every file is processed exactly once, cycles or not; a file that waits  *)
(* for no cycle comes after everything it depends on, directly or through  *)
(* files that are not to be processed, and before all the files that do.   *)
(***************************************************************************)
SortIsRight(files, index) ==
  LET order == Sorted(files, index)
      acyclic(f) == Acyclic(files, index, f)
  IN /\ \A f \in File : Cardinality({i \in DOMAIN order : order[i] = f}) = IF f \in files THEN 1 ELSE 0
     /\ \A f, g \in files : /\ acyclic(f) /\ f # g /\ DependsOn(index, f, g) => Precedes(order, g, f)
                            /\ acyclic(f) /\ ~ acyclic(g) => Precedes(order, f, g)
=============================================================================
