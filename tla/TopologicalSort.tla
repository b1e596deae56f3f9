--------------------------- MODULE TopologicalSort ---------------------------
(***************************************************************************)
(* The order StalenessResolver processes files in (src/src/xfile_context/  *)
(* staleness_resolver.py, _topological_sort_stale_files and                *)
(* _topological_sort_files, two copies of one algorithm): Kahn's algorithm *)
(* over the transitive dependencies, the smallest name first among the     *)
(* ready files, and the files left over, sorted by name, at the end.       *)
(***************************************************************************)
EXTENDS GraphOps, SequencesExt

CONSTANT NameOrder      \* the files, in the order their paths compare
ASSUME NamesAssumption ==
  NameOrder \in Seq(File) /\ IsInjective(NameOrder) /\ File \subseteq ToSet(NameOrder)

\* sorted(files): the nth name is the one with n names up to it
ByName[files \in SUBSET File] ==
  LET at == {i \in DOMAIN NameOrder : NameOrder[i] \in files}
      nth(n) == CHOOSE i \in at : Cardinality({j \in at : j <= i}) = n
  IN [n \in 1..Cardinality(at) |-> NameOrder[nth(n)]]

BlockedByDirectOnly(files, index, f) == GetSet(index, f) \cap files

\* the dependencies counted by in_degree: those among the files to sort
Blocking(files, index, f) == TransitiveDependencies(index, f) \cap files

(***************************************************************************)
(* queue.sort(); queue.pop(0) takes the least of the files none of whose   *)
(* blocking dependencies is still to come.                                 *)
(***************************************************************************)
KahnOrder(files, index) ==
  LET blocking == [f \in files |-> Blocking(files, index, f)]
      ready(done) == {f \in files \ done : blocking[f] \subseteq done}
      extend(order) ==
        LET next == ready(ToSet(order))
        IN IF next = {} THEN order ELSE Append(order, Head(ByName[next]))
      order[n \in Nat] == IF n = 0 THEN <<>> ELSE extend(order[n - 1])
  IN order[Cardinality(files)]

DropsCycles(files, index) == KahnOrder(files, index)

CyclesFirst(files, index) ==
  LET kahn == KahnOrder(files, index)
  IN ByName[files \ ToSet(kahn)] \o kahn

Sorted(files, index) ==
  LET kahn == KahnOrder(files, index)
  IN kahn \o ByName[files \ ToSet(kahn)]
=============================================================================
