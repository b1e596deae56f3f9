-------------------------- MODULE MCProjectAnalysis --------------------------
(***************************************************************************)
(* Instances of ProjectAnalysis: which files import which, and what an     *)
(* edit may make of them.                                                  *)
(***************************************************************************)
EXTENDS ProjectAnalysis

CONSTANTS a, b, c

Ok(imports, line) == [kind |-> "ok", imports |-> imports, line |-> line]
Broken            == [kind |-> "broken", imports |-> {}, line |-> NoLine]
TooLong           == [kind |-> "unreadable", imports |-> {}, line |-> NoLine]

\* a imports b and c, b may import a or be too long to read, c moves, breaks and vanishes
TrioContents == [f \in {a, b, c} |->
  CASE f = a -> {Ok({b, c}, 1)}
    [] f = b -> {Ok({}, 1), Ok({a}, 2), TooLong}
    [] f = c -> {Ok({}, 1), Ok({}, 2), Broken, Absent}]
=============================================================================
