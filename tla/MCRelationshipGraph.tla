------------------------- MODULE MCRelationshipGraph -------------------------
(***************************************************************************)
(* Model-checking instance of RelationshipGraph and of its reports.        *)
(***************************************************************************)
EXTENDS GraphReport, TLC

\* files, and the symbols two relationships of one line may name, are interchangeable
Symmetric == Permutations(File)
=============================================================================
