---------------------------- MODULE MCGraphUpdater ----------------------------
(***************************************************************************)
(* Instances of GraphUpdater: what an edit may make of each file.  Edits   *)
(* fall at any step but "store" (between the extraction of a file and its  *)
(* stamp) and "delete" (between exists() and the record of a deletion):    *)
(* the stamp then taken hides them from the resolver.                      *)
(***************************************************************************)
EXTENDS GraphUpdater

CONSTANTS a, b

Ok(imports, line) == [kind |-> "ok", imports |-> imports, line |-> line]
Broken            == [kind |-> "broken", imports |-> {}, line |-> NoLine]
TooLong           == [kind |-> "unreadable", imports |-> {}, line |-> NoLine]

\* a imports b, b may import a, and both come, go and break
PairContents == [f \in {a, b} |-> IF f = a THEN {Ok({b}, 1), Broken, Absent}
                                  ELSE {Ok({}, 1), Ok({a}, 2), TooLong, Absent}]
=============================================================================
