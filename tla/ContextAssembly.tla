--------------------------- MODULE ContextAssembly ---------------------------
(***************************************************************************)
(* What read_file_with_context puts in front of a file: a summary of all   *)
(* its dependencies, then the definitions of the most important ones       *)
(* (CrossFileContextService._assemble_context).                            *)
(*                                                                         *)
(* A dependency is a record of the relationship's ends, symbol (NoSymbol   *)
(* when it names none), type, the line it is used on and the line its      *)
(* symbol is defined on (NoLine when unknown).  What the assembly asks     *)
(* other components is a record w:                                         *)
(*   all        the relationships of the graph,                            *)
(*   recent     files with an event in the last ten minutes,               *)
(*   gone       files marked as deleted or no longer on disk,              *)
(*   markers    targets that are no files,                                 *)
(*   length     <<file, line>> -> lines of the definition found there,     *)
(*   tokens     a kind of snippet -> its tokens,                           *)
(*   threshold, warnOnWildcards, maxSnippets (10), large (200).            *)
(***************************************************************************)
EXTENDS Integers, FiniteSets, Sequences, SequencesExt

NoSymbol == ""
NoLine   == 0

Symbol(r) == <<r.tgt, r.sym>>

\* _get_symbol_usage_count
UsageCount(w, s) == Cardinality({r.src : r \in {r \in w.all : Symbol(r) = s}})

\* _get_high_usage_symbols
HighUsage(w, deps) ==
  {s \in {Symbol(deps[i]) : i \in DOMAIN deps} : s[2] # NoSymbol /\ UsageCount(w, s) >= w.threshold}

TypePriority(type) ==
  CASE type = "import" -> 0 [] type = "function_call" -> 1 [] type = "class_inheritance" -> 2
    [] type = "wildcard_import" -> 3 [] type = "conditional_import" -> 4 [] OTHER -> 99

SortKey(w, deps, r) ==
  <<IF r.tgt \in w.recent THEN 0 ELSE 1,
    IF Symbol(r) \in HighUsage(w, deps) THEN 0 ELSE 1,
    TypePriority(r.type),
    r.line>>

Less(k, l) == \E n \in DOMAIN k : k[n] < l[n] /\ \A m \in 1 .. n - 1 : k[m] = l[m]

\* sorted() is stable: equal keys keep their order
Prioritized(w, deps) ==
  LET key    == [i \in DOMAIN deps |-> SortKey(w, deps, deps[i])]
      ahead(i) == {j \in DOMAIN deps : Less(key[j], key[i]) \/ (key[j] = key[i] /\ j < i)}
  IN [n \in DOMAIN deps |-> deps[CHOOSE i \in DOMAIN deps : Cardinality(ahead(i)) = n - 1]]

\* _check_deleted_files: one warning per file
DeletedFiles(w, deps) == {deps[i].tgt : i \in DOMAIN deps} \cap (w.gone \ w.markers)

\* the first of the relationships one definition serves
DedupKey(r) == <<r.tgt, r.tline, r.src, r.type>>
KeepFirst(kept, r) ==
  IF \E i \in DOMAIN kept : DedupKey(kept[i]) = DedupKey(r) THEN kept ELSE Append(kept, r)
Deduplicated(list) == FoldLeft(KeepFirst, <<>>, list)

\* the kinds of snippet, "none" where no signature is found
Kind(w, deps, r) ==
  CASE r.tgt \in DeletedFiles(w, deps) -> "deleted"
    [] r.type = "wildcard_import"      -> "wildcard"
    [] <<r.tgt, r.tline>> \notin DOMAIN w.length -> "none"
    [] OTHER -> IF w.length[<<r.tgt, r.tline>>] >= w.large THEN "large" ELSE "signature"

Start == [snippets |-> <<>>, total |-> 0, logged |-> <<>>, warned |-> {}, wildcards |-> <<>>]

\* one relationship: its snippet, its event with the tokens so far, its warning
AddSnippet(w, deps, done, r) ==
  LET kind == Kind(w, deps, r)
      total == done.total + w.tokens[kind]
  IN [snippets  |-> Append(done.snippets, [rel |-> r, kind |-> kind]),
      total     |-> total,
      logged    |-> Append(done.logged, [rel |-> r, tokens |-> w.tokens[kind], total |-> total]),
      warned    |-> IF kind \in {"signature", "large"} /\ Symbol(r) \in HighUsage(w, deps)
                    THEN done.warned \cup {Symbol(r)} ELSE done.warned,
      wildcards |-> IF kind = "wildcard" /\ w.warnOnWildcards
                    THEN Append(done.wildcards, r) ELSE done.wildcards]

SkipsCount(w, deps, done, r) ==
  IF Kind(w, deps, r) = "none" THEN done ELSE AddSnippet(w, deps, done, r)
Next(w, deps, done, r) ==
  IF Len(done.snippets) >= w.maxSnippets \/ Kind(w, deps, r) = "none" THEN done
  ELSE AddSnippet(w, deps, done, r)

Assembled(w, deps) ==
  FoldLeft(LAMBDA done, r : Next(w, deps, done, r), Start, Deduplicated(Prioritized(w, deps)))

\* the summary: for each target the symbols used, with the line they are defined on
Summary(deps) ==
  [t \in {deps[i].tgt : i \in DOMAIN deps} |->
     {<<deps[i].sym, IF deps[i].sym = NoSymbol THEN deps[i].line ELSE deps[i].tline>> :
        i \in {i \in DOMAIN deps : deps[i].tgt = t}}]

-----------------------------------------------------------------------------
(***************************************************************************)
(* Within the limit, the definitions shown are the most important ones,    *)
(* each once: a dependency that could be shown and is not shares its       *)
(* definition with one that is, or comes after everything shown, the limit *)
(* being reached.                                                          *)
(***************************************************************************)
ShowsTheMostImportant(w, deps) ==
  LET shown == Assembled(w, deps).snippets
      rel(i) == shown[i].rel
      key(r) == SortKey(w, deps, r)
  IN /\ Len(shown) <= w.maxSnippets
     /\ \A i, j \in DOMAIN shown : i < j => /\ DedupKey(rel(i)) # DedupKey(rel(j))
                                            /\ ~Less(key(rel(j)), key(rel(i)))
     /\ \A d \in DOMAIN deps :
          \/ Kind(w, deps, deps[d]) = "none"
          \/ \E i \in DOMAIN shown : DedupKey(rel(i)) = DedupKey(deps[d])
          \/ /\ Len(shown) = w.maxSnippets
             /\ \A i \in DOMAIN shown : ~Less(key(deps[d]), key(rel(i)))

(***************************************************************************)
(* The log tells the same story as the context: an event per snippet, the  *)
(* last running total that of all their tokens, a warning for every high-  *)
(* usage symbol with a definition shown.                                   *)
(***************************************************************************)
LogAgrees(w, deps) ==
  LET done == Assembled(w, deps)
  IN /\ Len(done.logged) = Len(done.snippets)
     /\ done.total = FoldLeft(LAMBDA n, s : n + w.tokens[s.kind], 0, done.snippets)
     /\ \A i \in DOMAIN done.snippets :
          LET r == done.snippets[i].rel
          IN /\ done.logged[i].rel = r
             /\ done.snippets[i].kind \in {"signature", "large"} /\ r.sym # NoSymbol =>
                  (Symbol(r) \in done.warned <=> UsageCount(w, Symbol(r)) >= w.threshold)

ContextIsRight(w, deps) == ShowsTheMostImportant(w, deps) /\ LogAgrees(w, deps)
=============================================================================
