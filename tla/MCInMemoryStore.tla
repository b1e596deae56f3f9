--------------------------- MODULE MCInMemoryStore ---------------------------
(***************************************************************************)
(* Two files that TLC may swap and two details no operation compares.  A   *)
(* list of three holds duplicates, gaps, and indices behind a gap.  Calls  *)
(* are rejected for a malformed path, their line or their type.            *)
(***************************************************************************)
EXTENDS InMemoryStore, TLC
CONSTANTS a, b, bad, imp, nokind, x, y, none

Symmetric == Permutations({a, b}) \cup Permutations({x, y})
MCLine == 0 .. 1
=============================================================================
