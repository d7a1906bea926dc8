----------------------------- MODULE TimeRange -----------------------------
(***************************************************************************)
(* The time range of a query: user/timerange.go, anchor of                 *)
(* user/workflow.go and the validation they rely on, user/config.go. Time  *)
(* is in whole units; a random sample is any value of its range.           *)
(***************************************************************************)
EXTENDS Integers

CONSTANT Longest      \* bound: the longest exponential or log-normal sample

ASSUME TimeRangeAssumption == Longest \in Nat

\* A setting has the type, round, lookback, min, max and mean of the range, and
\* the anchor, dsStart and dsEnd of the workflow and its data set; 0 is unset.

\* TimeRangeConfig.Validate, and QueriesWorkflowConfig.Validate for the anchor.
ValidRange(r) ==
    /\ r.anchor = "dataset_end" => r.dsEnd # 0
    /\ r.anchor = "dataset_random" => r.dsStart # 0 /\ r.dsEnd # 0
    /\ r.round >= 0
    /\ r.type = "fixed" => r.lookback > 0
    /\ r.type = "uniform" => r.min > 0 /\ r.max > 0 /\ r.max >= r.min
    /\ r.type \in {"exponential", "log_normal"} =>
          r.mean > 0 /\ (r.min > 0 /\ r.max > 0 => r.max >= r.min)

\* Mutant: an unset maximum clamps.
clampDuration_ZeroMax(d, min, max) ==
    IF min > 0 /\ d < min THEN min ELSE IF d > max THEN max ELSE d

clampDuration(d, min, max) ==
    IF min > 0 /\ d < min THEN min ELSE IF max > 0 /\ d > max THEN max ELSE d

\* SampleLookback: the values it can return; none when Int64N(0) panics. An
\* exponential or log-normal sample is any non-negative duration up to Longest.
\* A sample above the largest Duration (292 years: a log-normal one with a large
\* sigma) has no defined conversion from float64 and is left out.
SampleLookback(c) ==
    CASE c.type = "uniform" -> {c.min + x : x \in 0 .. c.max - c.min - 1}
      [] c.type \in {"exponential", "log_normal"} ->
           {clampDuration(x, c.min, c.max) : x \in 0 .. Longest}
      [] OTHER -> {c.lookback}

\* time.Time.Round: to the nearest multiple, halves up.
Round(t, d) == IF d = 0 THEN t
               ELSE IF 2 * (t % d) < d THEN t - (t % d) ELSE t + d - (t % d)

\* anchor, at time now: the values it can return; none when Int64N panics.
anchor(c, now) ==
    CASE c.anchor = "dataset_end" -> {c.dsEnd}
      [] c.anchor = "dataset_random" -> {c.dsStart + o : o \in 0 .. c.dsEnd - c.dsStart - 1}
      [] OTHER -> {now}

\* Resolve, of a range that is set: the results it can have.
Resolve(c, now) ==
    {[start |-> Round(a - l, c.round), end |-> Round(a, c.round), anchor |-> a] :
        a \in anchor(c, now), l \in SampleLookback(c)}

-----------------------------------------------------------------------------
(* What a range must be *)

Ranges == [type : {"fixed", "uniform", "exponential", "log_normal"}, round : 0 .. 3,
           lookback : {0, 2}, min : 0 .. 3, max : 0 .. 3, mean : {0, 1},
           anchor : {"now", "dataset_end", "dataset_random"}, dsStart : {0, 7}, dsEnd : {0, 7, 9}]
ValidRanges == {c \in Ranges : ValidRange(c)}

\* The shortest and the longest range that a setting asks for.
Shortest(c) == IF c.type = "fixed" THEN c.lookback ELSE c.min
Furthest(c) == IF c.type = "fixed" THEN c.lookback ELSE IF c.max > 0 THEN c.max
               ELSE IF c.min > 0 THEN Longest + c.min ELSE Longest

\* The settings that pass the validation and panic.
Panics(c) == \/ c.type = "uniform" /\ c.min = c.max
             \/ c.anchor = "dataset_random" /\ c.dsEnd =< c.dsStart

\* timerange.go:14-73, workflow.go:69-82, config.go:96-101, 312-357. Resolved at
\* the given time, a range that passed the validation is an interval that does
\* not run backwards, ends within half a rounding step of its anchor, and is as
\* long as the bounds that are set allow, give or take less than one step.
IntervalSound(c, now) ==
    /\ Resolve(c, now) = {} <=> Panics(c)
    /\ \A r \in Resolve(c, now) : LET slack == IF c.round > 0 THEN c.round - 1 ELSE 0 IN
          /\ r.start =< r.end
          /\ 2 * (r.end - r.anchor) \in -c.round .. c.round
          /\ r.end - r.start \in Shortest(c) - slack .. Furthest(c) + slack

\* timerange.go:14-32. Unless its anchor is random, a window that is resolved
\* later does not end earlier, nor, with a fixed lookback, start earlier.
WindowAdvances(c, now, later) ==
    c.anchor # "dataset_random" =>
        \A r \in Resolve(c, now), s \in Resolve(c, later) :
            r.end =< s.end /\ (c.type = "fixed" => r.start =< s.start)
=============================================================================
