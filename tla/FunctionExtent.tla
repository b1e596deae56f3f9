---------------------------- MODULE FunctionExtent ----------------------------
(***************************************************************************)
(* Where a definition begins and ends, told from its lines alone: the      *)
(* signature, the docstring and the range shown in the context             *)
(* (CrossFileContextService._get_function_line_count and                   *)
(* _get_function_signature_with_docstring).                                *)
(*                                                                         *)
(* A line is a record: indent, text ("blank", "comment", "def" for one     *)
(* that starts with def, async def or class, "doc" for a docstring of one  *)
(* line and fewer than fifty characters, "code") and colon, whether it     *)
(* ends with one.                                                          *)
(***************************************************************************)
EXTENDS Integers, Sequences, FiniteSetsExt

\* the lines the cache returns for <<start, start + more>>
Lines(file, start, more) == SubSeq(file, start, Min({start + more, Len(file)}))

NoRange == <<0, 0>>

(***************************************************************************)
(* Up to the first line that is neither blank nor a comment and is not     *)
(* indented deeper than the definition; 0 when there is nothing to read.   *)
(***************************************************************************)
CountsTheLineOutside(file, start, more) ==
  LET lines   == Lines(file, start, more)
      outside == {i \in 2 .. Len(lines) : /\ lines[i].text \notin {"blank", "comment"}
                                          /\ lines[i].indent <= lines[1].indent}
  IN IF outside = {} THEN Len(lines) ELSE Min(outside)
LineCount(file, start, more) ==
  LET lines   == Lines(file, start, more)
      outside == {i \in 2 .. Len(lines) : /\ lines[i].text \notin {"blank", "comment"}
                                          /\ lines[i].indent <= lines[1].indent}
  IN IF outside = {} THEN Len(lines) ELSE Min(outside) - 1

\* from the first definition among the lines to the first of its lines that ends with a colon
Signature(file, start, context, more) ==
  LET lines == Lines(file, start, context)
      defs  == {i \in DOMAIN lines : lines[i].text = "def"}
      ends  == {i \in DOMAIN lines : lines[i].colon /\ defs # {} /\ i >= Min(defs)}
      last  == IF ends = {} THEN 1 ELSE Min(ends)
      count == LineCount(file, start, more)
  IN IF start = 0 \/ defs = {} THEN [lines |-> <<>>, docstring |-> FALSE, range |-> NoRange]
     ELSE [lines     |-> SubSeq(lines, Min(defs), IF ends = {} THEN Len(lines) ELSE last),
           docstring |-> last < Len(lines) /\ lines[last + 1].text = "doc",
           range     |-> <<start, IF count = 0 THEN start ELSE start + count - 1>>]

-----------------------------------------------------------------------------
\* a file with one definition in it: what precedes it, its header, its body, what follows
FileLines(d) == d.before \o d.header \o d.body \o d.after
StartOf(d) == Len(d.before) + 1
EndOf(d)   == Len(d.before) + Len(d.header) + Len(d.body)

\* what the indentation says of it: inner lines are deeper, the line that ends it is not
Trivial(line) == line.text \in {"blank", "comment"}
Line == [indent : Nat, text : {"blank", "comment", "def", "doc", "code"}, colon : BOOLEAN]
IsDefinition(d) ==
  LET base == d.header[1].indent
  IN /\ {d.before, d.header, d.body, d.after} \subseteq Seq(Line)
     /\ d.header # <<>> /\ d.body # <<>> /\ d.header[1].text = "def"
     /\ \A i \in DOMAIN d.header : (d.header[i].colon <=> i = Len(d.header)) /\ (i > 1 => d.header[i].indent > base)
     /\ \A i \in DOMAIN d.body : Trivial(d.body[i]) \/ d.body[i].indent > base
     /\ \A i \in DOMAIN d.after : Trivial(d.after[i])
          \/ \E j \in 1 .. i : ~ Trivial(d.after[j]) /\ d.after[j].indent <= base

(***************************************************************************)
(* The range covers the definition, and beyond it only blank lines and     *)
(* comments, unless the definition is longer than what is read; so whether *)
(* it is large is told right.  The signature is the header, no more, and a *)
(* short docstring is shown if and only if it is the body's first line.    *)
(* This is for a header whose other lines are indented deeper than its     *)
(* first and whose last line, and no other, ends with a colon (so not for  *)
(* one with a comment or the body behind it), one that is among the lines  *)
(* read.                                                                   *)
(***************************************************************************)
ExtentIsRight(d, context, more, large) ==
  LET found == Signature(FileLines(d), StartOf(d), context, more)
      last  == found.range[2]
      size  == last - StartOf(d) + 1
  IN Len(d.header) <= context =>
       /\ found.range[1] = StartOf(d)
       /\ last >= Min({EndOf(d), StartOf(d) + more})
       /\ \A i \in EndOf(d) + 1 .. last : Trivial(FileLines(d)[i])
       /\ EndOf(d) - StartOf(d) + 1 >= large => size >= large
       /\ found.lines = d.header
       /\ found.docstring <=> d.body[1].text = "doc"

(***************************************************************************)
(* What the documentation of _get_function_line_count says of every        *)
(* definition: it returns the "Number of lines in the function".           *)
(***************************************************************************)
ExtentCovers(d, more) ==
  LineCount(FileLines(d), StartOf(d), more) >= Min({EndOf(d) - StartOf(d), more}) + 1
=============================================================================
