---------------------------- MODULE SessionMetrics ----------------------------
(***************************************************************************)
(* The figures of a session (MetricsCollector): what is recorded while it  *)
(* lasts, and the statistics made of it at its end.                        *)
(***************************************************************************)
EXTENDS Integers, Sequences, SequencesExt, FiniteSetsExt

\* what __init__ starts from
NewCollector ==
  [tokens |-> <<>>, exceedances |-> 0, parsing |-> <<>>, latencies |-> <<>>,
   reads |-> [f \in {} |-> 0]]

Plus(counts, k) == [x \in DOMAIN counts \cup {k} |->
                      (IF x \in DOMAIN counts THEN counts[x] ELSE 0) + (IF x = k THEN 1 ELSE 0)]

\* the record_... methods, an event each
RecordTokens(c, n, exceeded) ==
  [c EXCEPT !.tokens = Append(@, n), !.exceedances = @ + (IF exceeded THEN 1 ELSE 0)]
RecordParsing(c, ms) == [c EXCEPT !.parsing = Append(@, ms)]
RecordLatency(c, ms) == [c EXCEPT !.latencies = Append(@, ms)]
RecordRead(c, f)     == [c EXCEPT !.reads = Plus(@, f)]

-----------------------------------------------------------------------------
\* the members of S, some positions, in the order of their keys, and of themselves where keys agree
Arranged(S, key) ==
  LET ahead(i) == {j \in S : key[j] < key[i] \/ (key[j] = key[i] /\ j < i)}
  IN [n \in 1 .. Cardinality(S) |-> CHOOSE i \in S : Cardinality(ahead(i)) = n - 1]

\* sorted(list, key=...), which is stable; a list is a sequence, or what is left of one
SortedBy(list, key) == LET p == Arranged(DOMAIN list, key) IN [n \in DOMAIN p |-> list[p[n]]]
Ascending(values) == SortedBy(values, values)

NoStatistics == [min |-> 0, max |-> 0, median |-> 0, p95 |-> 0, count |-> 0]

\* int(statistics.median(sorted_values))
MedianOf(sorted) ==
  LET n == Len(sorted)
  IN IF n % 2 = 1 THEN sorted[(n + 1) \div 2] ELSE (sorted[n \div 2] + sorted[n \div 2 + 1]) \div 2

\* the element at int(n * 0.95), counted from 0
RoundsDown(values) ==
  LET s == Ascending(values)
      n == Len(s)
  IN IF n = 0 THEN NoStatistics
     ELSE [min |-> s[1], max |-> s[n], median |-> MedianOf(s), p95 |-> s[Max({1, (n * 90) \div 100})], count |-> n]
PercentileStatistics(values) ==
  LET s == Ascending(values)
      n == Len(s)
  IN IF n = 0 THEN NoStatistics
     ELSE [min |-> s[1], max |-> s[n], median |-> MedianOf(s),
           p95 |-> s[Min({(n * 95) \div 100, n - 1}) + 1], count |-> n]

\* the items of a dictionary, in some order
Listed(items) == FoldSet(LAMBDA x, list : Append(list, x), <<>>, items)

\* sorted(..., reverse=True)[:n] of a dictionary, given as a sequence of <<key, count>>
Top(pairs, n) ==
  SubSeq(SortedBy(pairs, [i \in DOMAIN pairs |-> 0 - pairs[i][2]]), 1, Min({n, Len(pairs)}))

\* rates are in percent of all reads, those of stale entries that were refreshed included
CacheMetrics(stats) ==
  LET reads == stats.hits + stats.misses + stats.refreshes
      rate(n) == IF reads = 0 THEN 0 ELSE (100 * n) \div reads
  IN [reads |-> reads, hits |-> rate(stats.hits), misses |-> rate(stats.misses),
      peak |-> stats.peak, evictions |-> stats.evictions]

\* a relationship is [src, tgt, sym], sym "" when it names no symbol; a dictionary keeps
\* its keys in the order they came
Counts(rels) ==
  LET first == {i \in DOMAIN rels : \A j \in 1 .. i - 1 : rels[j].tgt # rels[i].tgt}
      count(f) == Cardinality({i \in DOMAIN rels : rels[i].tgt = f})
      p == Arranged(first, [i \in first |-> i])
  IN [n \in DOMAIN p |-> <<rels[p[n]].tgt, count(rels[p[n]].tgt)>>]

Users(rels, s) == Cardinality({rels[i].src : i \in {i \in DOMAIN rels : <<rels[i].tgt, rels[i].sym>> = s}})
SymbolsOf(rels) == {<<rels[i].tgt, rels[i].sym>> : i \in {i \in DOMAIN rels : rels[i].sym # ""}}

GraphMetrics(rels) ==
  LET buckets(low, high) == Cardinality({s \in SymbolsOf(rels) : Users(rels, s) \in low .. high})
  IN [files         |-> Cardinality({rels[i].src : i \in DOMAIN rels} \cup {rels[i].tgt : i \in DOMAIN rels}),
      relationships |-> Len(rels),
      connected     |-> Top(Counts(rels), 5),
      usage         |-> <<buckets(0, 3), buckets(4, 10), buckets(11, Len(rels))>>]

ReReads(c, n) ==
  Top(Listed({<<f, c.reads[f]>> : f \in {f \in DOMAIN c.reads : c.reads[f] > 1}}), n)

\* build_session_metrics; the injections are counted by their logger
SessionMetricsOf(c, injections, stats, rels) ==
  [injections  |-> injections,
   tokens      |-> PercentileStatistics(c.tokens),
   exceedances |-> c.exceedances,
   cache       |-> CacheMetrics(stats),
   graph       |-> GraphMetrics(rels),
   rereads     |-> ReReads(c, 10),
   parsing     |-> PercentileStatistics(c.parsing),
   latency     |-> PercentileStatistics(c.latencies)]

-----------------------------------------------------------------------------
(***************************************************************************)
(* The statistics are about the values recorded: they are in order, each   *)
(* but the median is one of the values, and at least 95 of 100 values are  *)
(* no greater than the 95th percentile.                                    *)
(***************************************************************************)
PercentilesAreRight(values) ==
  LET s == PercentileStatistics(values)
      among == {values[i] : i \in DOMAIN values}
  IN values # <<>> =>
       /\ s.min <= s.median /\ s.median <= s.p95 /\ s.p95 <= s.max
       /\ {s.min, s.p95, s.max} \subseteq among /\ \A x \in among : s.min <= x /\ x <= s.max
       /\ 100 * Cardinality({i \in DOMAIN values : values[i] <= s.p95}) >= 95 * Len(values)
       /\ 2 * Cardinality({i \in DOMAIN values : values[i] >= s.median}) >= Len(values)

(***************************************************************************)
(* A list of the top files leaves out no file that has more than one it    *)
(* shows, every symbol is in one bucket of the usage distribution, and a   *)
(* use that a file repeats changes neither the number of files nor the     *)
(* distribution.                                                           *)
(***************************************************************************)
TopIsRight(pairs, top, n) ==
  /\ Len(top) = Min({n, Len(pairs)})
  /\ \A i \in 1 .. Len(top) - 1 : top[i][2] >= top[i + 1][2]
  /\ \A i \in DOMAIN pairs, j \in DOMAIN top : pairs[i][2] > top[j][2] => \E k \in 1 .. j : top[k] = pairs[i]
GraphMetricsAreRight(rels) ==
  LET m == GraphMetrics(rels)
  IN /\ TopIsRight(Counts(rels), m.connected, 5)
     /\ m.usage[1] + m.usage[2] + m.usage[3] = Cardinality(SymbolsOf(rels))
     /\ \A i \in DOMAIN rels :
          LET repeated == GraphMetrics(Append(rels, rels[i]))
          IN repeated.usage = m.usage /\ repeated.files = m.files
=============================================================================
