---------------------------- MODULE MetricsAnalysis ----------------------------
(***************************************************************************)
(* The analysis of the metrics of several sessions (scripts/               *)
(* analyze_metrics.py): aggregated figures, outliers, recommendations and  *)
(* targets.                                                                *)
(*                                                                         *)
(* A session is a record of what the script reads of a session's metrics:  *)
(* start and end, and the figures that SessionMetrics makes, all at one    *)
(* level.                                                                  *)
(***************************************************************************)
EXTENDS SessionMetrics

\* what a session recorded, as parse_session_metrics reads it back: the collector's state, what
\* the injection logger, the cache and the graph count, warnings a sequence of <<file, count>>
Parsed(r) ==
  LET m == SessionMetricsOf(r.collector, r.injections, r.stats, r.rels)
  IN [start |-> r.start, end |-> r.start + 1, warnings |-> r.warnings, config |-> r.config,
      reads |-> m.cache.reads, hits |-> m.cache.hits, peak |-> m.cache.peak, evictions |-> m.cache.evictions,
      injections |-> m.injections, exceedances |-> m.exceedances, tokens |-> m.tokens,
      parsing |-> m.parsing, latency |-> m.latency, usage |-> m.graph.usage, rereads |-> m.rereads]

\* what a session can have recorded: a context exceeds the limit by its tokens alone
Collected(c, limit) ==
  /\ DOMAIN c = DOMAIN NewCollector
  /\ c.tokens \in Seq(Nat) /\ c.parsing \in Seq(Nat)
  /\ c.exceedances = Cardinality({i \in DOMAIN c.tokens : c.tokens[i] > limit})
IsRecording(r) ==
  /\ Collected(r.collector, r.config.limit)
  /\ r.injections \in Nat /\ r.start \in Nat
  /\ r.config \in [expiry : Nat, size : Nat, limit : Nat, threshold : Nat]

\* values is a function of the positions of sessions, all or some of them
MedianOrZero(values) == IF DOMAIN values = {} THEN 0 ELSE MedianOf(Ascending(values))
LeastOrZero(values)    == IF DOMAIN values = {} THEN 0 ELSE Min({values[i] : i \in DOMAIN values})
GreatestOrZero(values) == IF DOMAIN values = {} THEN 0 ELSE Max({values[i] : i \in DOMAIN values})

\* statistics.mean, in whole numbers
Mean(values) == IF DOMAIN values = {} THEN 0 ELSE SumFunction(values) \div Cardinality(DOMAIN values)

\* counts of the same file in several sessions are added
Merged(lists) ==
  LET all  == FlattenSeq(lists)
      keys == {all[i][1] : i \in DOMAIN all}
      total(k) == FoldLeft(LAMBDA n, p : IF p[1] = k THEN n + p[2] ELSE n, 0, all)
  IN Listed({<<k, total(k)>> : k \in keys})

\* the sessions a figure is made of
Injecting(sessions) == {i \in DOMAIN sessions : sessions[i].injections > 0}
Reading(sessions)   == {i \in DOMAIN sessions : sessions[i].reads > 0}
Parsing(sessions)   == {i \in DOMAIN sessions : sessions[i].parsing.median > 0}
Timed(sessions)     == {i \in DOMAIN sessions : sessions[i].latency.median > 0}

Aggregate(sessions) ==
  LET all       == DOMAIN sessions
      injecting == Injecting(sessions)
  IN [hits         |-> Mean([i \in Reading(sessions) |-> sessions[i].hits]),
      peak         |-> Mean([i \in all |-> sessions[i].peak]),
      evictions    |-> SumFunction([i \in all |-> sessions[i].evictions]),
      token_min    |-> LeastOrZero([i \in injecting |-> sessions[i].tokens.min]),
      token_max    |-> GreatestOrZero([i \in injecting |-> sessions[i].tokens.max]),
      token_median |-> MedianOrZero([i \in injecting |-> sessions[i].tokens.median]),
      token_p95    |-> MedianOrZero([i \in injecting |-> sessions[i].tokens.p95]),
      injections   |-> SumFunction([i \in all |-> sessions[i].injections]),
      exceedances  |-> SumFunction([i \in all |-> sessions[i].exceedances]),
      parsing_p95  |-> MedianOrZero([i \in Parsing(sessions) |-> sessions[i].parsing.p95]),
      latency_p95  |-> MedianOrZero([i \in Timed(sessions) |-> sessions[i].latency.p95]),
      warnings     |-> Top(Merged([i \in all |-> sessions[i].warnings]), 5),
      rereads      |-> Top(Merged([i \in all |-> sessions[i].rereads]), 10),
      usage        |-> [b \in 1 .. 3 |-> SumFunction([i \in all |-> sessions[i].usage[b]])]]

\* what is out of line, with the session's position or the file
Outliers(sessions, a) ==
  {<<"hit rate", i>> : i \in {i \in DOMAIN sessions :
     sessions[i].reads > 10 /\ sessions[i].hits < 50 /\ a.hits > 60}}
  \cup {<<"exceedances", i>> : i \in {i \in DOMAIN sessions :
     sessions[i].injections > 10 /\ 20 * sessions[i].exceedances > sessions[i].injections}}
  \cup {<<"parsing", i>> : i \in {i \in DOMAIN sessions : sessions[i].parsing.p95 > 400}}
  \cup {<<"injection", i>> : i \in {i \in DOMAIN sessions : sessions[i].latency.p95 > 100}}
  \cup {<<"re-reads", a.rereads[i][1]>> : i \in {i \in DOMAIN a.rereads : a.rereads[i][2] > 10}}

Keeping == 0    \* recommended_value None: the present value is fine
Advice(parameter, current, value) == [parameter |-> parameter, current |-> current, value |-> value]

\* one set for each parameter; config is that of the session that started last
ExpiryAdvice(config, a) ==
  LET advice(value) == {Advice("cache_expiry_minutes", config.expiry, value)}
  IN IF a.hits < 50 /\ a.evictions > 0 THEN advice(Max({config.expiry, 15}))
     ELSE IF a.hits > 80 /\ a.evictions = 0 THEN advice(Keeping)
     ELSE {}
SizeAdvice(config, a) ==
  {Advice("cache_size_limit_kb", config.size,
     IF a.evictions > 10 /\ 10 * a.peak >= 9 * config.size THEN (3 * config.size) \div 2 ELSE Keeping)}
LimitAdvice(config, a) ==
  LET advice(value) == {Advice("context_token_limit", config.limit, value)}
  IN IF a.injections > 0 /\ 20 * a.exceedances > a.injections THEN advice((a.token_p95 * 6) \div 5)
     ELSE IF 10 * a.token_p95 < 8 * config.limit THEN advice(Keeping)
     ELSE {}
ThresholdAdvice(config, a) ==
  LET advice(value) == {Advice("function_usage_warning_threshold", config.threshold, value)}
      total == a.usage[1] + a.usage[2] + a.usage[3]
  IN IF total = 0 THEN {}
     ELSE IF 10 * a.usage[1] > 9 * total THEN advice(Keeping)
     ELSE IF 10 * a.usage[1] < 7 * total THEN advice(Max({config.threshold + 1, 4}))
     ELSE {}
Recommendations(config, a) ==
  ExpiryAdvice(config, a) \cup SizeAdvice(config, a) \cup LimitAdvice(config, a) \cup ThresholdAdvice(config, a)

TargetsMet(a) == [parsing |-> a.parsing_p95 <= 200, injection |-> a.latency_p95 <= 50]

\* sessions in the order of their start
Analysis(given) ==
  LET sessions == SortedBy(given, [i \in DOMAIN given |-> given[i].start])
      a        == Aggregate(sessions)
  IN [dates |-> <<sessions[1].start, Last(sessions).end>>, statistics |-> a,
      recommendations |-> Recommendations(Last(sessions).config, a),
      outliers |-> Outliers(sessions, a), targets |-> TargetsMet(a)]

-----------------------------------------------------------------------------
(***************************************************************************)
(* The aggregated token counts are those of sessions that injected any     *)
(* context, and in order; what every session missed is reported missed;    *)
(* no parameter is given two recommendations; and none lowers a value.     *)
(* The token limit may be lowered although it was exceeded when several    *)
(* sessions are analyzed, or contexts were recorded without a snippet,     *)
(* which are no injections.                                                *)
(***************************************************************************)
TokensAreRight(sessions, a) ==
  LET injected == {sessions[i].tokens : i \in Injecting(sessions)}
  IN /\ injected # {} => a.token_min \in {t.min : t \in injected} /\ a.token_max \in {t.max : t \in injected}
     /\ a.token_min <= a.token_median /\ a.token_median <= a.token_p95 /\ a.token_p95 <= a.token_max
MissesAreReported(sessions, r) ==
  (\A i \in DOMAIN sessions : sessions[i].parsing.median > 0 /\ sessions[i].parsing.p95 > 400)
    => ~r.targets.parsing /\ \A i \in DOMAIN sessions : <<"parsing", i>> \in r.outliers
AdviceIsRight(sessions, advice) ==
  /\ \A p, q \in advice : p.parameter = q.parameter => p = q
  /\ \A p \in advice :
       \/ p.value = Keeping \/ p.value >= p.current
       \/ p.parameter = "context_token_limit"
          /\ (Len(sessions) > 1 \/ sessions[1].injections < sessions[1].tokens.count)
AnalysisIsRight(recorded) ==
  LET sessions == [i \in DOMAIN recorded |-> Parsed(recorded[i])]
      r        == Analysis(sessions)
  IN /\ TokensAreRight(sessions, r.statistics)
     /\ MissesAreReported(sessions, r)
     /\ AdviceIsRight(sessions, r.recommendations)
=============================================================================
