------------------------- MODULE MCStalenessResolver -------------------------
(***************************************************************************)
(* Instances of StalenessResolver: which files import which, and what an   *)
(* edit may make of them.                                                  *)
(***************************************************************************)
EXTENDS StalenessResolver, TLC

CONSTANTS a, b, c, d

Names == <<a, b, c, d>>
Names3 == <<a, b, c>>

Ok(imports, line) == [kind |-> "ok", imports |-> imports, line |-> line]
Lines(imports)    == {Ok(imports, 1), Ok(imports, 2)}
Broken            == [kind |-> "broken", imports |-> {}, line |-> NoLine]
TooLong           == [kind |-> "unreadable", imports |-> {}, line |-> NoLine]

\* a imports b and c, which both import d; edits move definitions or break d
DiamondContents == (a :> Lines({b, c})) @@ (b :> Lines({d})) @@ (c :> Lines({d}))
                   @@ (d :> Lines({}) \cup {Broken})
DiamondInitial  == (a :> Ok({b, c}, 1)) @@ (b :> Ok({d}, 1)) @@ (c :> Ok({d}, 1)) @@ (d :> Ok({}, 1))

\* the hypothesis of the theorems about projects in layers is met by the diamond
ASSUME DiamondIsLayered ==
  Layered(DiamondContents, DiamondInitial, {a}, (a :> 0) @@ (b :> 1) @@ (c :> 1) @@ (d :> 2), a)

\* a also imports d: the diamond with a shortcut
ShortcutContents == [DiamondContents EXCEPT ![a] = Lines({b, c, d})]
ShortcutInitial  == [DiamondInitial EXCEPT ![a] = Ok({b, c, d}, 1)]

\* three files: a may import b, b and c import each other or not, c comes and goes
AnyContents == (a :> {Ok({b}, 1), Ok({b, c}, 1), Absent}) @@ (b :> {Ok({c}, 1), Ok({a}, 2), TooLong})
               @@ (c :> {Ok({}, 1), Ok({b}, 2), Broken, Absent})
AnyInitial  == (a :> Ok({b}, 1)) @@ (b :> Ok({c}, 1)) @@ (c :> Ok({}, 1))
=============================================================================
