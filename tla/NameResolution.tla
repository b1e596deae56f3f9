---------------------------- MODULE NameResolution ----------------------------
(***************************************************************************)
(* What FunctionCallDetector and ClassInheritanceDetector take the names   *)
(* of calls and of parent classes for.  Each is one object that analyzes   *)
(* all files and keeps, for the file it saw last, the names defined at the *)
(* top level and the imported ones.                                        *)
(*                                                                         *)
(* A detector d is a record of its attributes: _cached_filepath (file),    *)
(* _local_functions or _local_classes (locals) and _import_map (imports, a *)
(* function).  The content of a file has the names it defines, its imports *)
(* in the order of ast.walk (a sequence of [as, target]), the names it uses *)
(* ([module, name], module "" for a simple one), and others: whether it    *)
(* has nodes of which nothing is resolved, calls of another form or        *)
(* classes without a base that has a name.  A target is a file or the kind *)
(* of a marker.                                                            *)
(***************************************************************************)
EXTENDS Integers, Sequences, FiniteSets, SequencesExt

Builtins == {"print"}
NewDetector == [file |-> "", locals |-> {}, imports |-> [n \in {} |-> ""]]

\* a later import of a name replaces an earlier one; wildcards name nothing
BuildImportMap(content) ==
  LET names == {content.imports[i].as : i \in DOMAIN content.imports} \ {"*"}
      last(n) == CHOOSE i \in DOMAIN content.imports :
                   /\ content.imports[i].as = n
                   /\ \A j \in i + 1 .. Len(content.imports) : content.imports[j].as # n
  IN [n \in names |-> content.imports[last(n)].target]

\* the caches are those of the file seen last
KeepsImports(d, file, content) ==
  IF d.file = file THEN d ELSE [d EXCEPT !.file = file, !.locals = content.defines]
ForFile(d, file, content) ==
  IF d.file = file THEN d
  ELSE [file |-> file, locals |-> content.defines, imports |-> [n \in {} |-> ""]]

\* every call and every class definition is looked at, and the caches are made ready
\* before the detector knows whether there is a name to resolve
Looks(kind, content) ==
  content.uses # <<>> \/ content.others \/ (kind = "parent" /\ content.defines # {})
Enter(d, kind, file, content) == IF Looks(kind, content) THEN ForFile(d, file, content) ELSE d

\* if not self._import_map: an empty map is built again
WithImports(d, content) ==
  IF DOMAIN d.imports = {} THEN [d EXCEPT !.imports = BuildImportMap(content)] ELSE d

Marked(target, kinds) == IF target \in kinds THEN target ELSE "unresolved"
IsMarker(target) == target \in {"stdlib", "third-party", "unresolved"}

\* local scope, imported names, built-ins
ResolveSimple(d, content, name) ==
  LET e == WithImports(d, content)
  IN IF name \in d.locals THEN <<d, d.file>>
     ELSE IF name \in DOMAIN e.imports THEN <<e, e.imports[name]>>
     ELSE <<e, IF name \in Builtins THEN "builtin" ELSE "unresolved">>

\* module.name, when the module is imported: its file, or its kind of marker
ResolveQualified(d, content, module) ==
  LET e == WithImports(d, content)
  IN <<e, IF module \notin DOMAIN e.imports THEN "unresolved"
          ELSE IF IsMarker(e.imports[module]) THEN Marked(e.imports[module], {"stdlib", "third-party"})
          ELSE e.imports[module]>>

(***************************************************************************)
(* Calls: a module that is not imported is an object, and its call is      *)
(* skipped.                                                                *)
(***************************************************************************)
SkippedCall(d, use) == use.module # "" /\ use.module \notin DOMAIN d.imports

DetectCall(done, file, content, use) ==
  LET d == ForFile(done.d, file, content)
      r == IF use.module = "" THEN ResolveSimple(d, content, use.name)
           ELSE ResolveQualified(d, content, use.module)
  IN [d |-> r[1], found |-> IF SkippedCall(r[1], use) THEN done.found
                            ELSE Append(done.found, <<use, r[2]>>)]

\* parent classes: a qualified name is always reported
DetectParent(done, file, content, use) ==
  LET d == ForFile(done.d, file, content)
      r == IF use.module = "" THEN ResolveSimple(d, content, use.name)
           ELSE ResolveQualified(d, content, use.module)
  IN [d |-> r[1], found |-> Append(done.found, <<use, r[2]>>)]

\* a file without a node to look at leaves the caches alone
Analyze(d, kind, file, content) ==
  FoldLeft(LAMBDA done, use : IF kind = "call" THEN DetectCall(done, file, content, use)
                              ELSE DetectParent(done, file, content, use),
           [d |-> Enter(d, kind, file, content), found |-> <<>>], content.uses)

\* the analyses of a session, in order: a sequence of [file, content]
AfterAll(kind, history) ==
  FoldLeft(LAMBDA d, a : Analyze(d, kind, a.file, a.content).d, NewDetector, history)

-----------------------------------------------------------------------------
(***************************************************************************)
(* The order documented for both: names defined in the file, imported      *)
(* names, built-ins.                                                       *)
(***************************************************************************)
Reference(file, content, use) ==
  LET imported == {i \in DOMAIN content.imports : content.imports[i].as =
                     IF use.module = "" THEN use.name ELSE use.module}
      target   == content.imports[CHOOSE i \in imported : \A j \in imported : j <= i].target
  IN CASE use.module = "" /\ use.name \in content.defines -> file
       [] ~(use.module = "" /\ use.name \in content.defines) /\ imported # {} -> target
       [] OTHER -> IF use.module = "" /\ use.name \in Builtins THEN "builtin" ELSE "unresolved"

Found(kind, history) ==
  LET now == Last(history)
  IN Analyze(AfterAll(kind, Front(history)), kind, now.file, now.content).found

\* the uses reported: a call through a name that is not imported is one of an object's methods
Reported(kind, content) ==
  {i \in DOMAIN content.uses :
     \/ kind = "parent"
     \/ content.uses[i].module \in {""} \cup {content.imports[j].as : j \in DOMAIN content.imports}}

Place(reported, i) == Cardinality({j \in reported : j <= i})

\* they are all found, in their order, each with what it refers to
FindsAll(found, kind, file, content) ==
  LET reported == Reported(kind, content)
  IN /\ Len(found) = Cardinality(reported)
     /\ \A i \in reported :
          found[Place(reported, i)] = <<content.uses[i], Reference(file, content, content.uses[i])>>

RightNow(kind, history) ==
  FindsAll(Found(kind, history), kind, Last(history).file, Last(history).content)

\* the last file was analyzed with other content since the detector last looked at another file
Outdated(kind, history) ==
  LET n == Len(history)
      looked(j) == Looks(kind, history[j].content)
  IN \E i \in 1 .. n - 1 : /\ looked(i) /\ history[i].content # history[n].content
                          /\ \A j \in i .. n - 1 : looked(j) => history[j].file = history[n].file

(***************************************************************************)
(* Whatever was analyzed before, the names of a file are resolved by what  *)
(* the file says now, provided the detector has met no other content of    *)
(* it since it last looked at another file.  The detector keeps the names  *)
(* of the first content it meets, so that it is not enough that the last   *)
(* one it met is the present one.                                          *)
(***************************************************************************)
NamesAreRight(kind, history) == RightNow(kind, history) \/ Outdated(kind, history)

(***************************************************************************)
(* What the documentation of _resolve_function says without proviso:       *)
(* "Local scope: Check if function defined in current file", then          *)
(* "Imported names: Check if function imported".                           *)
(***************************************************************************)
NamesFollowTheFile(kind, history) == RightNow(kind, history)
=============================================================================
