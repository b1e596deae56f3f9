-------------------------- MODULE MCDynamicWarnings --------------------------
(***************************************************************************)
(* An import, so that the analysis of one file extracts another, and a     *)
(* test module, whose warnings are held back.                              *)
(***************************************************************************)
EXTENDS DynamicWarnings

CONSTANTS a, b, t

\* a imports b, the test module t imports a
SomeImports == [f \in {a, b, t} |-> IF f = a THEN {b} ELSE IF f = t THEN {a} ELSE {}]
=============================================================================
