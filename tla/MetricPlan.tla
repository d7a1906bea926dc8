----------------------------- MODULE MetricPlan -----------------------------
(***************************************************************************)
(* metricgen/config.go, plan.go and values.go: a configuration resolves to *)
(* a plan, and with the plan a run is a pure function of (metric, series,  *)
(* sweep). The hashes that give a resource or a series its phase, jitter   *)
(* and rates are one arbitrary function, the constant Hash; float values   *)
(* are whole numbers of tenths or thousandths.                             *)
(***************************************************************************)
EXTENDS Integers, Sequences, FiniteSets, SequencesExt

CONSTANTS
    IntervalMs,        \* plan.intervalMs
    JitterMs,          \* plan.jitterMs
    LifetimeMs,        \* cfg.ResourceLifetime, 0 = no churn
    Resources,         \* cfg.Resources
    StartMs,           \* plan.startMs
    ResetPeriod,       \* least number of sweeps between counter resets (2000 in the code)
    Hash(_, _, _)      \* the hash of a series or a resource, a sweep and a salt

ASSUME PlanAssumption ==
    /\ Resources \in Nat \ {0} /\ ResetPeriod \in Nat \ {0} /\ StartMs \in Nat
    /\ LifetimeMs \in Nat /\ JitterMs \in Nat /\ IntervalMs \in Nat

Greater(a, b) == IF a > b THEN a ELSE b
Lesser(a, b) == IF a < b THEN a ELSE b
Total(w) == LET sum[i \in 0 .. Len(w)] == IF i = 0 THEN 0 ELSE sum[i - 1] + w[i] IN sum[Len(w)]

-----------------------------------------------------------------------------
(* The configuration: names (0 is the empty name), types and cardinalities *)
(* of metrics, type weights, times in ms, limits.                          *)

MetricTypes == {"gauge", "sum", "histogram", "exponential_histogram", "summary"}
DefaultMetricCount == 2
DefaultWeights == <<1, 1, 1, 1, 1>>
MaxMetricCount == 3
MaxSeriesPerMetric == 12
MaxAttrs == 3

Positive(x, default) == IF x > 0 THEN x ELSE default

\* Config.withDefaults.
withDefaults(c) == [c EXCEPT
    !.threads = Positive(@, 4), !.interval = Positive(@, 5), !.cardM = Positive(@, 4),
    !.resources = Positive(@, 3),
    !.count = IF c.names # <<>> THEN Len(c.names) ELSE Positive(@, DefaultMetricCount),
    !.attrsMin = IF @ = 0 THEN 2 ELSE @, !.attrsMax = IF @ = 0 THEN 3 ELSE @,
    !.weights = IF Total(@) =< 0 THEN DefaultWeights ELSE @]

\* Config.cardinality of the metric numbered x from 1: listed, or decaying (the
\* base is a half here), rounded and at least one.
Decay[x \in Nat] == IF x = 0 THEN 1 ELSE 2 * Decay[x - 1]
cardinality(c, x) ==
    IF x =< Len(c.cards) THEN c.cards[x]
    ELSE Greater(1, (2 * c.cardM + Decay[x]) \div (2 * Decay[x]))

\* Config.Validate: the rules for virtual time, those that lists of metrics go
\* by, and the limits, on the settings as written (c) and with defaults (d).
ValidTimes(intervalMs, jitterMs, lifetimeMs, markers) ==
    /\ intervalMs >= 1
    /\ jitterMs >= 0 /\ 2 * jitterMs < intervalMs
    /\ lifetimeMs # 0 => lifetimeMs >= intervalMs
    /\ markers => lifetimeMs # 0
ValidLists(c) ==
    /\ Len(c.names) =< MaxMetricCount
    /\ \A i, j \in DOMAIN c.names : c.names[i] # 0 /\ (c.names[i] = c.names[j] => i = j)
    /\ c.types # <<>> => Len(c.types) = Len(c.names) /\ Range(c.types) \subseteq MetricTypes
    /\ c.cards # <<>> => Len(c.cards) = Len(c.names) /\ Range(c.cards) \subseteq 1 .. MaxSeriesPerMetric
Validate(c) == LET d == withDefaults(c) IN
    /\ c.threads >= 0 /\ c.count =< MaxMetricCount
    /\ \A e \in DOMAIN c.weights : c.weights[e] >= 0
    /\ ValidLists(c)
    /\ ValidTimes(d.interval, c.jitter, d.lifetime, c.markers)
    /\ 1 =< d.attrsMin /\ d.attrsMin =< d.attrsMax /\ d.attrsMax =< MaxAttrs
    /\ \A x \in 1 .. d.count : cardinality(d, x) =< MaxSeriesPerMetric

\* Scheduler.Run: points a worker asks the limiter for at a time, and the
\* limiter's burst. pps is points_per_second, not positive = no limit.
chunk(d) == Greater(1, Lesser(256, d.pps \div (d.threads * 10)))
burst(d) == Greater(chunk(d) * d.threads * 2, d.pps \div 10)

-----------------------------------------------------------------------------
(* The metric table *)

\* typeCycle: smooth weighted round robin over the metric types. One turn adds
\* every weight, picks the first type with the largest credit and charges it
\* the total.
Credit(cur, w) == [e \in DOMAIN w |-> cur[e] + w[e]]
Best(c, w) == CHOOSE e \in DOMAIN w :
                 /\ w[e] > 0
                 /\ \A f \in DOMAIN w : w[f] > 0 => c[e] > c[f] \/ (c[e] = c[f] /\ e =< f)
Turn(s, w) == LET c == Credit(s.cur, w) IN
    [cur |-> [c EXCEPT ![Best(c, w)] = @ - Total(w)], cycle |-> Append(s.cycle, Best(c, w))]
typeCycle(w) ==
    LET turns[i \in 0 .. Total(w)] == IF i = 0 THEN [cur |-> [e \in DOMAIN w |-> 0], cycle |-> <<>>]
                                      ELSE Turn(turns[i - 1], w)
    IN  turns[Total(w)].cycle

MetricDef == [typ : MetricTypes, card : Nat \ {0},
              temporality : {"unspecified", "delta", "cumulative"}, monotonic : BOOLEAN]

\* buildMetricDef, pickTemporality: what the metric's own random numbers may
\* make of a type.
MetricDefs(typ, card) ==
    [typ : {typ}, card : {card},
     temporality : IF typ \in {"gauge", "summary"} THEN {"unspecified"} ELSE {"delta", "cumulative"},
     monotonic : IF typ = "sum" THEN BOOLEAN ELSE {FALSE}]

\* newPlan: the type of each metric, from the list or else the cycle.
TypeNames == <<"gauge", "sum", "histogram", "exponential_histogram", "summary">>
newPlan(d) == LET cycle == typeCycle(d.weights) IN
    [i \in 1 .. d.count |->
        MetricDefs(IF i =< Len(d.types) THEN d.types[i] ELSE TypeNames[cycle[1 + ((i - 1) % Len(cycle))]],
                   cardinality(d, i))]

\* dimSizes: cardinality c over dims attribute dimensions, the first at most head.
\* CeilRoot is the ceiling of the left-th root of v: the least number whose power
\* reaches v, as v itself does.
CeilRoot(v, left) == LET reach == {v} \cup {t \in 1 .. v : t ^ left >= v} IN
    CHOOSE t \in reach : \A u \in reach : t =< u

\* Mutant: what remains for the other dimensions is rounded down.
DimStep_RoundsDown(s, d, dims, head) ==
    LET left == dims - d + 1
        root == CeilRoot(s.remaining, left)
        t == IF left = 1 THEN s.remaining ELSE IF d = 1 THEN Lesser(head, root) ELSE root
    IN  [sizes |-> Append(s.sizes, t), remaining |-> Greater(1, s.remaining \div t)]

DimStep(s, d, dims, head) ==
    LET left == dims - d + 1
        root == CeilRoot(s.remaining, left)
        t == IF left = 1 THEN s.remaining ELSE IF d = 1 THEN Lesser(head, root) ELSE root
    IN  [sizes |-> Append(s.sizes, t), remaining |-> (s.remaining + t - 1) \div t]
dimSizes(c, dims, head) ==
    LET step[d \in 0 .. dims] == IF d = 0 THEN [sizes |-> <<>>, remaining |-> c]
                                 ELSE DimStep(step[d - 1], d, dims, head)
    IN  step[dims].sizes

\* attrValue: the value with number idx of an attribute key; the word lists have
\* forty entries each, a short list of values is used up and then numbered.
AttrKeys == {"listed", "http.route", "rpc.service", "db.table", "operation", "other"}
attrValue(key, idx) ==
    CASE key = "listed" -> <<idx % 4, idx \div 4>>
      [] key = "http.route" -> <<idx % 40, idx \div 40>>
      [] key = "rpc.service" -> <<idx % 40, idx % 40>>
      [] key = "db.table" -> <<idx % 40, (idx \div 3) % 40, idx \div 40>>
      [] key = "operation" -> <<idx % 40, (idx \div 7) % 40>>
      [] OTHER -> <<idx % 40, idx>>

\* appendAttrs: the mixed-radix digits of series index j choose the values.
appendAttrs(j, sizes, keys) ==
    LET rem[d \in 1 .. Len(sizes)] == IF d = 1 THEN j ELSE rem[d - 1] \div sizes[d - 1]
    IN  [d \in 1 .. Len(sizes) |-> attrValue(keys[d], rem[d] % sizes[d])]

\* metricAt: the table rotates by one metric per sweep (positions from 0).
metricAt(n, i, k) == (i + (k % n)) % n

-----------------------------------------------------------------------------
(* Virtual time *)

lifetimeSwps == LifetimeMs \div IntervalMs

\* mix2 and mix3 of a series or a resource x, of a sweep (or 0) and of a salt: any
\* function to the naturals.
mix(x, k, salt) == IF Hash(x, k, salt) \in Nat THEN Hash(x, k, salt) ELSE 0

\* Salts that the code writes as words, seeds that it keeps apart, and RateSalt for
\* the one number (6) it uses both with a sweep and without.
LifeSalt == 201
PhaseSalt == 202
JitterSalt == 203
StructSalt == 204
ScopeSalt == 205
RateSalt == 206

\* Where a resource is in its lifetime and its interval, the wobble of a point,
\* the reset period of a series and where the series is in it.
Phase(r) == mix(r, 0, LifeSalt) % Greater(1, lifetimeSwps)
Offset(r) == mix(r, 0, PhaseSalt) % IntervalMs
Wobble(s, k) == (mix(s, k, JitterSalt) % (2 * JitterMs + 1)) - JitterMs
Period(s) == ResetPeriod + (mix(s, 0, 8) % (10 * ResetPeriod))
ResetPhase(s) == mix(s, 0, 9) % Period(s)

sweepTimeMs(k, r) == StartMs + k * IntervalMs + Offset(r)
pointTimeMs(s, k, r) == sweepTimeMs(k, r) + Wobble(s, k)

\* Sweep k of resource r: its generation, whether it is the first of one, and
\* the first sweep of it.
generation(r, k) == IF lifetimeSwps = 0 THEN 0 ELSE (k + Phase(r)) \div lifetimeSwps
generationChanged(r, k) == /\ lifetimeSwps # 0 /\ k # 0
                           /\ (k + Phase(r)) % lifetimeSwps = 0
generationStart(r, k) ==
    IF generation(r, k) = 0 THEN 0 ELSE generation(r, k) * lifetimeSwps - Phase(r)

resetStart(s, k) == k - ((k + ResetPhase(s)) % Period(s))

\* Mutant: a new generation goes on counting.
epochStart_ResetOnly(s, r, k) == resetStart(s, k)

\* epochStart: the later of the last counter reset and the generation's start.
epochStart(s, r, k) == Greater(generationStart(r, k), resetStart(s, k))

-----------------------------------------------------------------------------
(* Values *)

\* Rates are in tenths of an event a sweep, from 0.1 to 1000. frac is a hash of
\* (series, sweep, salt), in tenths of one.
epochRate(s, epoch) == 1 + (mix(s, epoch, 6) % 9999)
perSweepRate(s) == 1 + (mix(s, 0, RateSalt) % 9999)
frac(s, k, salt) == mix(s, k, salt) % 10

\* class and quantize: v in thousandths, rounded the way the series' class says.
class(s) == <<"int", "decimal", "idle", "full">>[1 + (mix(s, 0, 30) % 4)]
quantize(v, c) == CASE c = "int" -> (v \div 1000) * 1000
                    [] c = "decimal" -> ((v + 50) \div 100) * 100
                    [] OTHER -> v

\* gaugeValue: idle series are constant, the others move by a fraction of their level.
gaugeValue(s, k) == LET base == 10 + mix(s, 0, 1) IN
    IF class(s) = "idle" THEN quantize(base, "decimal")
    ELSE quantize((base * (95 + frac(s, k, 5))) \div 100, class(s))

\* counterValue: rate times age and nine tenths of a random part of one rate.
counterValue(s, k, epoch) == LET r == epochRate(s, epoch) IN
    IF class(s) = "idle" THEN ((2 * r * (k - epoch)) \div 1000) * 1000
    ELSE quantize(r * (100 * (k - epoch) + 9 * frac(s, k, 7)), class(s))
deltaSumValue(s, k, monotonic) == LET f == frac(s, k, 10) IN
    IF class(s) = "idle" THEN (IF f = 0 THEN 1000 ELSE 0)
    ELSE quantize(perSweepRate(s) * (IF monotonic THEN 50 + 10 * f ELSE 20 * (f - 5)), class(s))

\* monotoneCount and deltaCount: events of one bucket since the epoch began, and
\* of one sweep.
monotoneCount(s, k, epoch, rate, salt) == (rate * (100 * (k - epoch) + 9 * frac(s, k, salt))) \div 1000
deltaCount(s, k, rate, salt) == (rate * (5 + frac(s, k, salt))) \div 100

\* One bucket of a histogram, which has the weight'th part (in tenths) of the rate.
bucketCount(s, k, epoch, cumulative, weight, salt) ==
    IF cumulative THEN monotoneCount(s, k, epoch, (epochRate(s, epoch) * weight) \div 10, salt)
    ELSE deltaCount(s, k, (perSweepRate(s) * weight) \div 10, salt)

\* histPoint, expHistPoint, summaryPoint: the count, and the buckets it is the
\* sum of (two here; those of an exponential histogram are positive, negative
\* and zero). Sums and quantiles are left out.
WithCount(buckets) == <<Total(buckets)>> \o buckets
histPoint(s, k, epoch, cumulative) ==
    WithCount([l \in 1 .. 2 |-> bucketCount(s, k, epoch, cumulative, <<3, 7>>[l], l + 16)])
expHistPoint(s, k, epoch, cumulative) ==
    WithCount([l \in 1 .. 2 |-> bucketCount(s, k, epoch, cumulative, <<3, 7>>[l], l + 64)]
              \o (IF mix(s, 0, 19) % 3 = 0 THEN <<bucketCount(s, k, epoch, cumulative, 1, 128)>> ELSE <<>>)
              \o (IF mix(s, 0, 15) % 4 = 0 THEN <<bucketCount(s, k, epoch, cumulative, 1, 192)>> ELSE <<>>))
summaryPoint(s, k, epoch) == <<monotoneCount(s, k, epoch, epochRate(s, epoch), 20)>>

-----------------------------------------------------------------------------
(* Properties of the plan, over bounded inputs *)

Weights == [1 .. 3 -> 0 .. 3]       \* three of the five types show every case
Configs ==
    [names : {<<>>, <<1, 2>>, <<1, 1>>}, types : {<<>>, <<"sum", "summary">>},
     cards : {<<>>, <<1, 3>>, <<0, 1>>}, count : {0, 1}, cardM : {0, 9},
     weights : {<<0, 0, 0, 0, 0>>, <<0, 2, 0, 1, 0>>, <<-1, 2, 0, 0, 0>>}, resources : {0, 2},
     interval : {0, 4}, jitter : {0, 2}, lifetime : {0, 2, 5}, markers : BOOLEAN,
     attrsMin : {0, 1}, attrsMax : {0, 1}, threads : {-1, 0, 2}, pps : {0, 30}]
Reach(key) == IF key = "rpc.service" THEN 40 ELSE IF key = "operation" THEN 280 ELSE 320
MaxSweeps == 9

\* config.go:222-399, scheduler.go:70-87, plan.go:280-330. A configuration that
\* passes the validation resolves to a plan in which nothing is divided by zero,
\* no list is empty or too short, and no wait asks the limiter for more than its
\* burst, whichever settings were left out.
PlanDefined ==
    \A c \in Configs : Validate(c) => LET d == withDefaults(c) plan == newPlan(d) IN
        /\ Len(plan) = d.count /\ d.count >= 1
        /\ \A i \in 1 .. d.count : plan[i] # {} /\ cardinality(d, i) >= 1
        /\ d.resources >= 1 /\ d.threads >= 1
        /\ chunk(d) >= 1 /\ chunk(d) =< burst(d)
        /\ d.lifetime # 0 => d.lifetime \div d.interval >= 1
        /\ \A a, b \in -d.jitter .. d.jitter : a < d.interval + b

\* plan.go:445-504, values.go:89-101 ("Each j < cardinality yields a unique
\* attribute vector"). So it is for every size and number of dimensions as long
\* as no dimension outgrows its key: a service has 40 different values and an
\* operation 280, the other keys any number.
ValuesDistinct ==
    \A key \in AttrKeys :
        /\ Cardinality({attrValue(key, i) : i \in 0 .. Reach(key) - 1}) = Reach(key)
        /\ Reach(key) < 320 => attrValue(key, Reach(key)) = attrValue(key, 0)
SeriesDistinct ==
    \A c \in (1 .. 12) \cup {100}, dims \in 1 .. 3, head \in {3, 8}, key \in AttrKeys :
        LET sizes == dimSizes(c, dims, head)
            keys == [d \in 1 .. dims |-> IF d = dims THEN key ELSE "other"]
        IN  sizes[dims] =< Reach(key) => Cardinality({appendAttrs(j, sizes, keys) : j \in 0 .. c - 1}) = c

\* plan.go:536-571. The three functions of a churning resource tell one story:
\* a sweep is a change exactly when its generation is not the one before, the
\* start of a generation is its first sweep, and generations go up by one.
GenerationAgrees(r, k) ==
    /\ generationStart(r, k) \in 0 .. k
    /\ generation(r, generationStart(r, k)) = generation(r, k)
    /\ \A q \in 0 .. k : q < generationStart(r, k) => generation(r, q) < generation(r, k)
    /\ k > 0 => /\ generation(r, k) - generation(r, k - 1) \in {0, 1}
                /\ generationChanged(r, k) <=> generation(r, k) # generation(r, k - 1)
GenerationsAgree == \A r \in 0 .. Resources - 1, k \in 0 .. MaxSweeps : GenerationAgrees(r, k)

\* plan.go:243-246 ("matching the weight proportions exactly per cycle").
CycleExact ==
    \A w \in Weights : LET c == typeCycle(w) IN
        \A e \in DOMAIN w : Cardinality({i \in DOMAIN c : c[i] = e}) = w[e]

\* The plan keeps what its comments promise: one cycle has each type as often as
\* its weight says, every accepted configuration is defined, series have
\* attributes of their own, and generations agree.
PlanExact == CycleExact /\ PlanDefined /\ ValuesDistinct /\ SeriesDistinct /\ GenerationsAgree

=============================================================================
