--------------------------- MODULE ImportResolution ---------------------------
(***************************************************************************)
(* Where an import leads (ImportDetector): to a file of the project, or to *)
(* a marker for the standard library, an installed package or nothing.     *)
(*                                                                         *)
(* A directory is the sequence of names from the root of the file system   *)
(* to it; a file is its directory and its name without ".py"; a module     *)
(* name is the sequence of its parts.  A world w has the files that exist, *)
(* the names in STDLIB_MODULES and the packages that are installed.        *)
(***************************************************************************)
EXTENDS Integers, Sequences, SequencesExt

PackageInit == "__init__"
IsPackage(w, dir) == [dir |-> dir, name |-> PackageInit] \in w.files

NotAFile(kind) == [marker |-> kind]
Unresolved == NotAFile("unresolved")
None       == NotAFile("none")

(***************************************************************************)
(* Every part but the last names a package; the last a module, or else a   *)
(* package.                                                                *)
(***************************************************************************)
Module(dir, parts)  == [dir |-> dir \o Front(parts), name |-> Last(parts)]
Package(dir, parts) == [dir |-> dir \o parts, name |-> PackageInit]
InnerArePackages(w, dir, parts) == \A n \in 1 .. Len(parts) - 1 : IsPackage(w, dir \o SubSeq(parts, 1, n))

PrefersPackage(w, dir, parts) ==
  IF ~ InnerArePackages(w, dir, parts) THEN None
  ELSE IF Package(dir, parts) \in w.files THEN Package(dir, parts)
  ELSE IF Module(dir, parts) \in w.files THEN Module(dir, parts) ELSE None
TryResolveInDirectory(w, dir, parts) ==
  IF ~ InnerArePackages(w, dir, parts) THEN None
  ELSE IF Module(dir, parts) \in w.files THEN Module(dir, parts)
  ELSE IF Package(dir, parts) \in w.files THEN Package(dir, parts) ELSE None

\* the directory itself, then its parents up to and with the first that is no package
Up(dir, n) == SubSeq(dir, 1, Len(dir) - n)
Searched(w, dir) ==
  {0} \cup {n \in 1 .. Len(dir) - 1 : \A m \in 1 .. n - 1 : IsPackage(w, Up(dir, m))}

ResolveModule(w, parts, dir) ==
  LET found(n) == TryResolveInDirectory(w, Up(dir, n), parts)
      hits     == {n \in Searched(w, dir) : found(n) # None}
  IN IF parts = <<>> THEN Unresolved
     ELSE IF parts[1] \in w.stdlib THEN NotAFile("stdlib")
     ELSE IF hits # {} THEN found(CHOOSE n \in hits : \A m \in hits : n <= m)
     ELSE IF parts[1] \in w.installed THEN NotAFile("third-party")
     ELSE Unresolved

\* level - 1 directories up, and no further search
ResolveRelativeImport(w, parts, dir, level) ==
  LET there == Up(dir, level - 1)
  IN IF level - 1 > Len(dir) THEN Unresolved
     ELSE IF parts = <<>>
          THEN IF IsPackage(w, there) THEN [dir |-> there, name |-> PackageInit] ELSE Unresolved
     ELSE IF TryResolveInDirectory(w, there, parts) # None
          THEN TryResolveInDirectory(w, there, parts)
     ELSE Unresolved

(***************************************************************************)
(* One name of an import statement: [parts, level, name], level 0 for an   *)
(* absolute one and name "" for "import parts".  A relative import without *)
(* a module looks for the module its name would be.                        *)
(***************************************************************************)
PartsOf(imp) == IF imp.level > 0 /\ imp.parts = <<>>
                THEN IF imp.name = "*" THEN <<>> ELSE <<imp.name>>
                ELSE imp.parts
Resolved(w, dir, imp) ==
  IF imp.level > 0 THEN ResolveRelativeImport(w, PartsOf(imp), dir, imp.level)
  ELSE ResolveModule(w, PartsOf(imp), dir)

-----------------------------------------------------------------------------
IsFile(target) == "dir" \in DOMAIN target

(***************************************************************************)
(* The documented search, told by paths.  The path of a module is its      *)
(* directory and its name, the path of a package its directory.            *)
(***************************************************************************)
PackagesBetween(w, path, low) == \A n \in low + 1 .. Len(path) - 1 : IsPackage(w, SubSeq(path, 1, n))
Wanted(imp) == IF imp.level > 0 /\ imp.parts = <<>> /\ imp.name # "*" THEN <<imp.name>> ELSE imp.parts

\* how much of dir the directories looked in have: one, if the import is relative; else dir
\* and those above it, the root left out, as long as there are only packages between
Looked(w, dir, imp) ==
  IF imp.level > 0 THEN {k \in {Len(dir) - imp.level + 1} : k >= 0}
  ELSE {Len(dir)} \cup {k \in 1 .. Len(dir) : PackagesBetween(w, dir, k)}

IsModuleAt(f, path)  == Append(f.dir, f.name) = path
IsPackageAt(f, path) == f.dir = path /\ f.name = PackageInit

\* f is what the import calls, looked for in the first k names of dir
Called(w, dir, imp, k, f) ==
  LET path == SubSeq(dir, 1, k) \o Wanted(imp)
  IN /\ PackagesBetween(w, path, k)
     /\ IsPackageAt(f, path) \/ (Wanted(imp) # <<>> /\ IsModuleAt(f, path))

\* no other file that is called so is nearer, or a module where f is a package
Foremost(w, dir, imp, k, f) ==
  \A j \in Looked(w, dir, imp), g \in w.files :
    Called(w, dir, imp, j, g) => \/ j < k
                                 \/ j = k /\ (g = f \/ IsModuleAt(f, SubSeq(dir, 1, k) \o Wanted(imp)))

\* the exception: a name of the standard library need not lead to a file of the project
NameOfLibrary(w, imp) == imp.level = 0 /\ imp.parts[1] \in w.stdlib

(***************************************************************************)
(* An import leads to a file exactly if one of that name is where the      *)
(* search looks, inside packages only, and then to the foremost: nearer    *)
(* ones first, and a module before the package beside it.  And a file that *)
(* appears changes the target of an import only by becoming it, unless it  *)
(* makes a directory a package.  (Names of the standard library: see       *)
(* above; the documentation of _resolve_module has them after the files of *)
(* the project, its code before.)                                          *)
(***************************************************************************)
ImportIsRight(w, dir, imp, new) ==
  LET target == Resolved(w, dir, imp)
      later  == Resolved([w EXCEPT !.files = @ \cup {new}], dir, imp)
  IN /\ IsFile(target) =>
          /\ target \in w.files
          /\ \E k \in Looked(w, dir, imp) : /\ Called(w, dir, imp, k, target)
                                            /\ Foremost(w, dir, imp, k, target)
     /\ ~ IsFile(target) =>
          \/ NameOfLibrary(w, imp)
          \/ \A k \in Looked(w, dir, imp), f \in w.files : ~ Called(w, dir, imp, k, f)
     /\ new.name # PackageInit => later \in {target, new}
=============================================================================
