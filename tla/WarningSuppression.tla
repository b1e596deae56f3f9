-------------------------- MODULE WarningSuppression --------------------------
(***************************************************************************)
(* Which warnings a project's configuration suppresses                     *)
(* (WarningSuppressionManager).                                            *)
(*                                                                         *)
(* A path is a record: abs, and segs, the sequence of its segments (".."   *)
(* among them).  A pattern is a path whose segments may be "*" and "**".   *)
(* A warning has a file and a type.  The raw configuration c has the root  *)
(* of the project, a set of patterns, the values given to pattern types    *)
(* (globals) and the types listed for a path (specific).                   *)
(***************************************************************************)
EXTENDS Integers, Sequences, SequencesExt, FiniteSets

ValidTypes == {"dynamic_dispatch", "monkey_patching", "exec_eval", "decorator", "metaclass"}

\* what __init__ keeps of the configuration
StoredGlobals(c)  == {t \in DOMAIN c.globals \cap ValidTypes : c.globals[t] = "true"}
StoredSpecific(c) == [p \in {p \in DOMAIN c.specific : c.specific[p] \cap ValidTypes # {}} |->
                        c.specific[p] \cap ValidTypes]

\* Path.resolve, without symbolic links
Normalized(segs) ==
  FoldLeft(LAMBDA done, s : IF s # ".." THEN Append(done, s)
                            ELSE IF done = <<>> THEN done ELSE Front(done), <<>>, segs)

KeepsTraversal(c, path) ==
  IF path.abs /\ IsPrefix(c.root, path.segs)
  THEN [abs |-> FALSE, segs |-> SubSeq(path.segs, Len(c.root) + 1, Len(path.segs))]
  ELSE path
Relative(c, path) ==
  LET normal == Normalized(path.segs)
  IN IF path.abs /\ IsPrefix(c.root, normal)
     THEN [abs |-> FALSE, segs |-> SubSeq(normal, Len(c.root) + 1, Len(normal))]
     ELSE path

IsGlob(p) == \E i \in DOMAIN p.segs : p.segs[i] \in {"*", "**"}
IsRecursive(p) == \E i \in DOMAIN p.segs : p.segs[i] = "**"

\* fnmatch of two segments
SegmentMatches(s, p) == p \in {"*", s}

(***************************************************************************)
(* The segments of a path against those of a pattern: the loop walks both  *)
(* and calls itself at "**" for every number of segments to skip.          *)
(* matching[q] are the places of the path from which it matches the        *)
(* pattern from q on.                                                      *)
(***************************************************************************)
MatchParts(path, parts) ==
  LET n == Len(path) + 1
      m == Len(parts) + 1
      matching[q \in 1 .. m] ==
        {p \in 1 .. n :
           IF p < n /\ q < m
           THEN IF parts[q] = "**" THEN \E k \in p .. n : k \in matching[q + 1]
                ELSE SegmentMatches(path[p], parts[q]) /\ p + 1 \in matching[q + 1]
           ELSE p = n /\ \A r \in q .. m - 1 : parts[r] = "**"}
  IN 1 \in matching[1]

\* fnmatch of whole paths, where "*" stands for any characters, separators too
FnMatch(path, parts) ==
  LET n == Len(path) + 1
      m == Len(parts) + 1
      matching[q \in 1 .. m] ==
        {p \in 1 .. n :
           IF q = m THEN p = n
           ELSE IF parts[q] = "*" THEN \E k \in p + 1 .. n : k \in matching[q + 1]
           ELSE p < n /\ path[p] = parts[q] /\ p + 1 \in matching[q + 1]}
  IN 1 \in matching[1]

\* path.split("/"): an absolute path begins with an empty part
Parts(path) == IF path.abs THEN <<"">> \o path.segs ELSE path.segs

GlobMatch(path, p) ==
  IF IsRecursive(p) THEN MatchParts(Parts(path), Parts(p))
  ELSE FnMatch(Parts(path), Parts(p))

FileSpecific(c, w) ==
  \E p \in {w.file, Relative(c, w.file)} \cap DOMAIN StoredSpecific(c) : w.type \in StoredSpecific(c)[p]
GlobalType(c, w)     == w.type \in StoredGlobals(c)
FileLevel(c, w)      == \E p \in c.patterns : ~IsGlob(p) /\ p \in {w.file, Relative(c, w.file)}
DirectoryLevel(c, w) == \E p \in c.patterns : IsGlob(p) /\ GlobMatch(Relative(c, w.file), p)

ShouldSuppress(c, w) ==
  FileSpecific(c, w) \/ GlobalType(c, w) \/ FileLevel(c, w) \/ DirectoryLevel(c, w)

Reason(c, w) ==
  CASE FileSpecific(c, w)   -> "file-specific"
    [] GlobalType(c, w) /\ ~FileSpecific(c, w) -> "global"
    [] FileLevel(c, w) /\ ~FileSpecific(c, w) /\ ~GlobalType(c, w) -> "file-level"
    [] DirectoryLevel(c, w) /\ ~FileSpecific(c, w) /\ ~GlobalType(c, w) /\ ~FileLevel(c, w) -> "directory-level"
    [] OTHER -> "none"

FilterWarnings(c, ws) == SelectSeq(ws, LAMBDA w : ~ShouldSuppress(c, w))

-----------------------------------------------------------------------------
\* a pattern matches a path if its parts can be laid over the path, in order
Covers(path, parts) ==
  \E cut \in [0 .. Len(parts) -> 0 .. Len(path)] :
    /\ cut[0] = 0 /\ cut[Len(parts)] = Len(path)
    /\ \A i \in DOMAIN parts :
         \/ parts[i] = "**" /\ cut[i - 1] <= cut[i]
         \/ cut[i] = cut[i - 1] + 1 /\ parts[i] \in {"*", path[cut[i]]}

(***************************************************************************)
(* The two walks over the rules agree; a pattern suppresses what the       *)
(* documentation says it matches ("*" within a segment, "**" any number of *)
(* them), and one with "**" nothing else; a file of the project is         *)
(* suppressed alike by its absolute path, by a detour through other        *)
(* directories, and by its path in the project, unless the configuration   *)
(* names it by an absolute path.  A path in the project that makes a       *)
(* detour is another matter: _get_relative_path leaves it as it is.        *)
(***************************************************************************)
SuppressionIsRight(c, w) ==
  LET rel     == Relative(c, w.file)
      inside  == IF w.file.abs THEN IsPrefix(c.root, Normalized(w.file.segs))
                 ELSE \A i \in DOMAIN w.file.segs : w.file.segs[i] # ".."
      direct  == IF w.file.abs THEN Normalized(w.file.segs) ELSE c.root \o w.file.segs
      matched == {p \in c.patterns : IsGlob(p) /\ Covers(Parts(rel), Parts(p))}
      named(f) == ShouldSuppress(c, [w EXCEPT !.file = f])
  IN /\ ShouldSuppress(c, w) <=> Reason(c, w) # "none"
     /\ matched # {} => ShouldSuppress(c, w)
     /\ Reason(c, w) = "directory-level" /\ matched = {} => \E p \in c.patterns : IsGlob(p) /\ ~IsRecursive(p)
     /\ inside /\ (\A p \in c.patterns \cup DOMAIN c.specific : ~p.abs) =>
          /\ ShouldSuppress(c, w) <=> named([abs |-> TRUE, segs |-> direct])
          /\ ShouldSuppress(c, w) <=>
               named([abs |-> FALSE, segs |-> SubSeq(direct, Len(c.root) + 1, Len(direct))])
     /\ w.type \notin ValidTypes => Reason(c, w) \in {"none", "file-level", "directory-level"}
=============================================================================
