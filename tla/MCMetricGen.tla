---------------------------- MODULE MCMetricGen ----------------------------
(* Two workers. Finite runs over a histogram of two series and a delta sum, *)
(* and over the other types of metric; an endless run in which the second   *)
(* worker owns no series.                                                   *)
EXTENDS MetricGen

\* A small hash: phases and classes count up with the resource or the series, the
\* jitter takes its extremes and its middle, fractions their least and greatest.
Number(s) == 2 * s[1] + s[2]
MCHash(x, q, salt) ==
    CASE salt = LifeSalt -> x
      [] salt = PhaseSalt -> 3 * x
      [] salt = JitterSalt -> 2 * ((q + Number(x)) % 3)
      [] salt = StructSalt -> x[1]
      [] salt = ScopeSalt -> x
      [] salt = RateSalt -> 69
      [] salt = 1 -> 1000 * (Number(x) + 1)
      [] salt = 6 -> IF (Number(x) + q) % 2 = 0 THEN 39 ELSE 129
      [] salt = 8 -> 0
      [] salt \in {9, 15, 19, 30} -> Number(x)
      [] OTHER -> 9 * ((Number(x) + q + salt) % 2)

Metric(typ, temporality, monotonic, card) ==
    [typ |-> typ, temporality |-> temporality, monotonic |-> monotonic, card |-> card]

MCRuns ==
  { [sweeps |-> 3, http |-> TRUE,
     metrics |-> <<Metric("histogram", "cumulative", FALSE, 2), Metric("sum", "delta", TRUE, 1)>>],
    [sweeps |-> 4, http |-> FALSE,
     metrics |-> <<Metric("exponential_histogram", "cumulative", FALSE, 1), Metric("summary", "unspecified", FALSE, 1)>>],
    [sweeps |-> 4, http |-> FALSE,
     metrics |-> <<Metric("sum", "cumulative", TRUE, 1), Metric("exponential_histogram", "delta", FALSE, 1)>>],
    [sweeps |-> 3, http |-> FALSE,
     metrics |-> <<Metric("sum", "cumulative", FALSE, 1), Metric("histogram", "delta", FALSE, 1)>>],
    [sweeps |-> 0, http |-> TRUE, metrics |-> <<Metric("gauge", "unspecified", FALSE, 1)>>] }
=============================================================================
