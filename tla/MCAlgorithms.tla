----------------------------- MODULE MCAlgorithms -----------------------------
(***************************************************************************)
(* Model-checking instance of Algorithms: every input over small sets.     *)
(***************************************************************************)
EXTENDS Algorithms, FiniteSetsExt

\* every index over three files, missing keys included, and every set of files to sort
MCOrders ==
  LET Index == UNION {[D -> SUBSET File] : D \in SUBSET File}
  IN {[files |-> s, index |-> x] : s \in SUBSET File, x \in Index}
MCNameOrder == <<1, 2, 3>>

-----------------------------------------------------------------------------
(***************************************************************************)
(* Up to four of the relationships of a file "a", in any order, with room  *)
(* for two snippets: two uses of one symbol, the symbol of another file,   *)
(* a wildcard, an import without a symbol.  Symbols are used by two other  *)
(* files or by none.                                                       *)
(***************************************************************************)
Uses(src) == {[src |-> src, tgt |-> "b", sym |-> "f", type |-> "function_call", line |-> 5, tline |-> 1],
              [src |-> src, tgt |-> "b", sym |-> "f", type |-> "function_call", line |-> 2, tline |-> 1],
              [src |-> src, tgt |-> "b", sym |-> "f", type |-> "import", line |-> 3, tline |-> 1],
              [src |-> src, tgt |-> "c", sym |-> "g", type |-> "class_inheritance", line |-> 1, tline |-> 4],
              [src |-> src, tgt |-> "c", sym |-> "", type |-> "wildcard_import", line |-> 1, tline |-> 0]}
Elsewhere == {r \in Uses("x") \cup Uses("y") : r.type # "wildcard_import"}
MCContexts ==
  {[w |-> [all |-> ToSet(deps) \cup others, recent |-> recent, gone |-> gone, markers |-> {},
           length |-> length, tokens |-> [deleted |-> 1, wildcard |-> 2, large |-> 7, signature |-> 3],
           threshold |-> 3, warnOnWildcards |-> TRUE, maxSnippets |-> 2, large |-> 200],
    deps |-> deps] :
     deps   \in UNION {{s \in SetToSeqs(d) : TRUE} : d \in {d \in SUBSET Uses("a") : Cardinality(d) \in 1 .. 4}},
     others \in {{}, {r \in Elsewhere : r.sym = "f"}, Elsewhere},
     recent \in {{}, {"c"}},
     gone   \in {{}, {"b"}},
     length \in {[k \in {<<"b", 1>>, <<"c", 4>>} |-> IF k[1] = "b" THEN 200 ELSE 199], [k \in {<<"c", 4>>} |-> 1]}}

-----------------------------------------------------------------------------
Line(indent, text, colon) == [indent |-> indent, text |-> text, colon |-> colon]

\* headers of one to three lines, the inner ones deeper; bodies of up to three lines
Headers == {<<Line(4, "def", TRUE)>>}
           \cup {<<Line(4, "def", FALSE), Line(8, "code", c), Line(6, "code", TRUE)>> : c \in {FALSE}}
           \cup {<<Line(4, "def", FALSE), Line(12, "code", TRUE)>>}
BodyLines == {Line(8, "code", FALSE), Line(8, "code", TRUE), Line(8, "def", TRUE), Line(8, "doc", FALSE),
              Line(0, "blank", FALSE), Line(0, "comment", FALSE)}
Bodies == {<<b>> \o rest : b \in {x \in BodyLines : x.text \in {"code", "doc"}},
                           rest \in {s \in BoundedSeq(BodyLines, 2) : s # <<>> => Last(s).indent > 0}}
Afters == {<<>>} \cup {<<x>> \o y : x \in {Line(0, "blank", FALSE), Line(0, "comment", FALSE), Line(4, "def", TRUE), Line(0, "code", FALSE)},
                                    y \in {<<>>, <<Line(0, "def", TRUE)>>}}
MCDefinitions ==
  {[d |-> [before |-> before, header |-> h, body |-> b, after |-> after], context |-> 3, more |-> more, large |-> 4] :
     before \in {<<>>, <<Line(0, "def", TRUE)>>}, h \in Headers, b \in Bodies, after \in Afters, more \in {3, 6}}

-----------------------------------------------------------------------------
Path(abs, segs) == [abs |-> abs, segs |-> segs]
Root == <<"p">>
Files == {Path(TRUE, Root \o s \o <<f>>) : s \in UNION {[1 .. n -> {"a", "b", ".."}] : n \in 0 .. 2}, f \in {"a", "b"}}
         \cup {Path(FALSE, s) : s \in UNION {[1 .. n -> {"a", "b", ".."}] : n \in 1 .. 2}}
Patterns == {Path(FALSE, s) : s \in UNION {[1 .. n -> {"a", "*", "**"}] : n \in 1 .. 3}} \cup {Path(TRUE, <<"p", "a">>)}
MCSuppressions ==
  {[c |-> [root |-> Root, patterns |-> ps, globals |-> gs, specific |-> sp], w |-> [file |-> f, type |-> t]] :
     ps \in {{}} \cup {{p} : p \in Patterns},
     gs \in {[t \in {} |-> "true"], [t \in {"metaclass", "typo"} |-> "true"], [t \in {"metaclass"} |-> "false"]},
     sp \in {[p \in {} |-> {}], [p \in {Path(FALSE, <<"a", "b">>)} |-> {"decorator", "typo"}]},
     f \in Files, t \in {"metaclass", "decorator", "typo"}}

-----------------------------------------------------------------------------
In(dir, name) == [dir |-> dir, name |-> name]
\* a module of each name beside a package, at three depths, one in the root of the file system,
\* and one with a name of the standard library
Pool == {In(<<>>, "m"), In(<<"p">>, "m"), In(<<"p">>, "sys"), In(<<"p">>, "__init__"), In(<<"p", "m">>, "__init__"),
         In(<<"p", "q">>, "__init__"), In(<<"p", "q">>, "m"), In(<<"p", "q", "m">>, "__init__")}
Absolute == {[parts |-> parts, level |-> 0, name |-> ""] : parts \in {<<"m">>, <<"q">>, <<"q", "m">>, <<"sys">>}}
Relative == {[parts |-> parts, level |-> level, name |-> ""] : parts \in {<<"m">>, <<"q", "m">>}, level \in 1 .. 4}
            \cup {[parts |-> <<>>, level |-> level, name |-> name] : level \in 1 .. 4, name \in {"m", "*"}}
MCImports ==
  {[w |-> [files |-> fs \ {new}, stdlib |-> {"sys"}, installed |-> {"q"}], dir |-> dir, imp |-> imp, new |-> new] :
     fs \in SUBSET Pool, dir \in {<<"p">>, <<"p", "q", "m">>}, new \in Pool, imp \in Absolute \cup Relative}

-----------------------------------------------------------------------------
Import(as, target) == [as |-> as, target |-> target]
Use(module, name) == [module |-> module, name |-> name]
Contents ==
  {[defines |-> defines, imports |-> imports, uses |-> u[1], others |-> u[2]] :
     defines \in {{}, {"f"}},
     imports \in {<<>>, <<Import("f", "x")>>, <<Import("m", "y"), Import("f", "y"), Import("f", "stdlib")>>},
     u \in {<<<<>>, FALSE>>, <<<<>>, TRUE>>, <<<<Use("", "f"), Use("m", "g")>>, FALSE>>,
            <<<<Use("", "print"), Use("m", "f"), Use("", "f")>>, TRUE>>}}
Analyses == {[file |-> f, content |-> c] : f \in {"x", "z"}, c \in Contents}
MCHistories == {[kind |-> k, history |-> h] : k \in {"call", "parent"}, h \in UNION {[1 .. n -> Analyses] : n \in 1 .. 2}}
               \cup UNION {{[kind |-> k, history |-> <<a, b, a>>], [kind |-> k, history |-> <<a, b, b>>]} :
                        k \in {"call", "parent"}, a, b \in Analyses}

-----------------------------------------------------------------------------
\* all small samples, and ones about the sizes at which a percentile moves
MCSamples == BoundedSeq(1 .. 3, 4)
             \cup {[i \in 1 .. n |-> n - i] : n \in {19, 20, 21, 39, 40, 41, 99, 100, 101}}

\* n files that use one symbol of a file, and others that import k more files
MCGraphs ==
  {[i \in 1 .. n |-> [src |-> i, tgt |-> 100, sym |-> "f"]]
   \o [i \in 1 .. k |-> [src |-> i, tgt |-> 100 + i, sym |-> IF i % 2 = 0 THEN "" ELSE "g"]]
   \o [i \in 1 .. d |-> [src |-> 1, tgt |-> 100 + k, sym |-> ""]] : n \in {0, 3, 4, 10, 11, 12}, k \in 0 .. 7, d \in 0 .. 2}

-----------------------------------------------------------------------------
\* sessions as the collector records them: tokens of contexts, parsing times, reads of two files
Config == [expiry |-> 10, size |-> 50, limit |-> 500, threshold |-> 3]
CollectorOf(tokens, parsing, reads) ==
  LET withTokens  == FoldLeft(LAMBDA c, n : RecordTokens(c, n, n > Config.limit), NewCollector, tokens)
      withParsing == FoldLeft(LAMBDA c, ms : RecordLatency(RecordParsing(c, ms), ms), withTokens, parsing)
  IN FoldLeft(LAMBDA c, f : RecordRead(c, f), withParsing, reads)
Repeat(x, n) == [i \in 1 .. n |-> x]
\* symbols used by one file, by four, by eleven
Used(n, k) == [i \in 1 .. n |-> [src |-> i, tgt |-> k, sym |-> "s"]]
\* contexts of three snippets, and many of which only one has any
Injected == {[tokens |-> t, injections |-> 3 * Len(t)] : t \in {<<>>, <<400, 450>>, <<600, 700, 100, 650>>}}
             \cup {[tokens |-> Repeat(90, 40) \o <<700, 710>>, injections |-> 9]}
Hits(h, e) == [hits |-> h, misses |-> 20 - h, refreshes |-> 0, peak |-> 45, evictions |-> e]
Graph == Used(1, 101) \o Used(4, 102) \o Used(11, 103)
Recorded(starts, stats, graphs) ==
  {[collector |-> CollectorOf(c.tokens, parsing, Repeat("f", 6) \o Repeat("g", 3)), injections |-> c.injections,
    stats |-> s, rels |-> graph, start |-> start, warnings |-> <<<<"f", start>>>>, config |-> Config] :
     start \in starts, s \in stats, c \in Injected, parsing \in {<<>>, <<100, 401>>}, graph \in graphs}
\* one session, of any kind; two, in the order of their starts or not; three
One   == Recorded({1}, {Hits(h, e) : h \in {8, 18}, e \in {0, 11}}, {<<>>, Used(1, 101), Graph})
Two   == Recorded({1, 2}, {Hits(8, 11), Hits(18, 0)}, {<<>>, Graph})
Three == Recorded({1}, {Hits(8, 11)}, {Graph})
MCSessions == {<<s>> : s \in One} \cup {<<s, t>> : s, t \in Two} \cup {<<s, t, u>> : s, t, u \in Three}
=============================================================================
