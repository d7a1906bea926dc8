------------------------- MODULE UserWorkflowProofs -------------------------
(***************************************************************************)
(* Proofs about UserWorkflow for any number of users, any bound on their   *)
(* calls and any settings that pass the validation.                        *)
(*                                                                         *)
(* Users do not share anything, so the invariant is one per user. Its      *)
(* first half follows the map of binds through a call: what is in the      *)
(* cache, what has been bound after so many preflights. The second half    *)
(* relates the cache and the held time range to what the queries of the    *)
(* pass have used already, which no single call can see. What a time range *)
(* resolves to is proved first, for settings with any numbers.             *)
(***************************************************************************)
EXTENDS UserWorkflow, FiniteSetTheorems, SequenceTheorems, TLAPS

Sources == {"var", "preflight", "query_var", "query_preflight"}
BindMaps == UNION {[S -> [by : Sources, call : 0 .. MaxCalls]] : S \in SUBSET Names}
QueryStates == [at : Nat, range : 0 .. MaxCalls, binds : BindMaps, ran : Nat]

Places == {"unborn", "start", "backoff", "top", "shared", "own", "exec", "think", "gone"}
Busy == {"shared", "own", "exec"}

HistoryTypes ==
    /\ binds \in [Users -> BindMaps]
    /\ query \in [Users -> QueryStates]
    /\ pass \in [Users -> 0 .. MaxCalls]
    /\ sampled \in [Users -> SUBSET ({"range", "fetch"} \X (0 .. MaxCalls))]

\* Name n is bound by one of the first k of these preflights.
Asked(preflights, k, n) == \E i \in 1 .. k : n \in preflights[i]

\* b is what the workflow has bound after k of its preflights.
SharedBinds(b, k) ==
    \A n : /\ n \in DOMAIN b <=> n \in cfg.vars \/ Asked(cfg.preflights, k, n)
           /\ n \in DOMAIN b => b[n].by = IF Asked(cfg.preflights, k, n) THEN "preflight" ELSE "var"

Complete(b) == SharedBinds(b, Len(cfg.preflights))

\* b is what query q has bound, on top of that, after k preflights of its own.
OwnBinds(q, b, k) ==
    \A n : /\ n \in DOMAIN b <=> \/ n \in cfg.vars \/ Asked(cfg.preflights, Len(cfg.preflights), n)
                                 \/ n \in q.vars \/ Asked(q.preflights, k, n)
           /\ n \in DOMAIN b =>
                b[n].by = IF Asked(q.preflights, k, n) THEN "query_preflight"
                          ELSE IF n \in q.vars THEN "query_var"
                          ELSE IF Asked(cfg.preflights, Len(cfg.preflights), n) THEN "preflight"
                          ELSE "var"

\* The binds of a user, wherever it is in a call.
BindsInOrder(u) ==
    /\ cached[u] => Complete(binds[u])
    /\ pc[u] \in Busy => query[u].at \in DOMAIN cfg.queries
    /\ pc[u] = "shared" => /\ query[u].ran =< Len(cfg.preflights)
                           /\ query[u].ran > 0 => SharedBinds(query[u].binds, query[u].ran)
    /\ pc[u] = "own" => /\ query[u].ran < Len(Query(u).preflights)
                        /\ OwnBinds(Query(u), query[u].binds, query[u].ran)
    /\ pc[u] = "exec" => OwnBinds(Query(u), query[u].binds, Len(Query(u).preflights))

\* The time range a user holds and the ones its queries used.
UsesDefault(u) == Query(u).range = "default" /\ cfg.defaultRange
RangeHeld(u) ==
    /\ PerLoop(cfg.rangeCadence) =>
         /\ range[u] # None => range[u] >= pass[u]
         /\ \A x \in sampled[u] : x[1] = "range" => x[2] = range[u] /\ range[u] # None
    /\ pc[u] \in Busy /\ UsesDefault(u) =>
         /\ query[u].range = range[u] /\ range[u] # None
         /\ cfg.rangeCadence = "per_query" => query[u].range = calls[u]

\* The workflow's binds were fetched in call c, and so was every one that a
\* query of the pass has used.
FetchedIn(u, c) ==
    /\ PerLoop(cfg.preflightCadence) => c >= pass[u]
    /\ \A n \in DOMAIN binds[u] : binds[u][n].call = c
    /\ \A x \in sampled[u] : x[1] = "fetch" => x[2] = c

FromWorkflow(b, n) == n \in DOMAIN b /\ b[n].by \in {"var", "preflight"}

FetchHeld(u) ==
    /\ cfg.preflightCadence # "per_query" =>
         IF cached[u] THEN \E c \in 0 .. MaxCalls : FetchedIn(u, c)
                      ELSE \A x \in sampled[u] : x[1] # "fetch"
    /\ pc[u] = "shared" /\ query[u].ran > 0 =>
         \A n \in DOMAIN query[u].binds : query[u].binds[n].call = calls[u]
    /\ pc[u] \in {"own", "exec"} =>
         \A n : FromWorkflow(query[u].binds, n) =>
            IF cfg.preflightCadence = "per_query" THEN query[u].binds[n].call = calls[u]
            ELSE /\ cached[u] /\ n \in DOMAIN binds[u]
                 /\ query[u].binds[n].call = binds[u][n].call

UserInv(u) ==
    /\ pass[u] =< calls[u]
    /\ BindsInOrder(u) /\ RangeHeld(u) /\ FetchHeld(u)

IInv == TypeOK /\ HistoryTypes /\ \A u \in Users : UserInv(u)

-----------------------------------------------------------------------------
(* Time ranges: rounding, sampling and anchors for any numbers.            *)

\* Every setting that the configuration can hold, whatever its numbers.
Settings == [type : {"fixed", "uniform", "exponential", "log_normal"}, round : Nat,
             lookback : Int, min : Int, max : Int, mean : Int,
             anchor : {"now", "dataset_end", "dataset_random"}, dsStart : Int, dsEnd : Int]

Slack(d) == IF d > 0 THEN d - 1 ELSE 0

LEMMA Quotients ==
    ASSUME NEW t \in Int, NEW d \in Nat \ {0}
    PROVE  \E q \in Int : t - (t % d) = d * q /\ t % d \in 0 .. d - 1
<1>1. t \div d \in Int /\ t = d * (t \div d) + (t % d) /\ t % d \in 0 .. d - 1
  OBVIOUS
<1>. QED
  BY <1>1

\* A rounded time is a multiple of the step within half a step of the time.
LEMMA RoundNearest ==
    ASSUME NEW t \in Int, NEW d \in Nat \ {0}
    PROVE  /\ Round(t, d) \in Int
           /\ \E q \in Int : Round(t, d) = d * q
           /\ 2 * (Round(t, d) - t) > -d /\ 2 * (Round(t, d) - t) =< d
<1>1. PICK q \in Int : t - (t % d) = d * q /\ t % d \in 0 .. d - 1
  BY Quotients
<1>. DEFINE m == t % d
<1>2. m \in 0 .. d - 1 /\ t - m = d * q
  BY <1>1
<1>3. Round(t, d) = IF 2 * m < d THEN t - m ELSE t + d - m
  BY DEF Round
<1>. HIDE DEF m
<1>4. Round(t, d) \in Int /\ 2 * (Round(t, d) - t) > -d /\ 2 * (Round(t, d) - t) =< d
  BY <1>2, <1>3
<1>5. CASE 2 * m < d
  BY <1>2, <1>3, <1>4, <1>5
<1>6. CASE ~(2 * m < d)
  <2>1. d * (q + 1) = d * q + d
    OBVIOUS
  <2>2. Round(t, d) = d * (q + 1)
    BY <1>2, <1>3, <1>6, <2>1
  <2>. QED
    BY <1>4, <2>2
<1>. QED
  BY <1>5, <1>6

\* Two multiples of a step that are less than a step out of order are in order.
LEMMA MultiplesInOrder ==
    ASSUME NEW d \in Nat \ {0}, NEW p \in Int, NEW q \in Int, d * p - d * q < d
    PROVE  d * p =< d * q
<1>1. CASE p =< q
  BY <1>1
<1>2. CASE p >= q + 1
  <2>1. d * p >= d * (q + 1) /\ d * (q + 1) = d * q + d
    BY <1>2
  <2>. QED
    BY <2>1
<1>. QED
  BY <1>1, <1>2

LEMMA RoundBasics ==
    ASSUME NEW t \in Int, NEW d \in Nat
    PROVE  /\ Round(t, d) \in Int
           /\ 2 * (Round(t, d) - t) \in -d .. d
           /\ d > 0 => 2 * (Round(t, d) - t) > -d
           /\ d = 0 => Round(t, d) = t
<1>1. CASE d = 0
  <2>1. Round(t, d) = t
    BY <1>1 DEF Round
  <2>2. 2 * (t - t) = 0
    OBVIOUS
  <2>. QED
    BY <1>1, <2>1, <2>2
<1>2. CASE d # 0
  <2>1. /\ Round(t, d) \in Int
        /\ 2 * (Round(t, d) - t) > -d /\ 2 * (Round(t, d) - t) =< d
    BY <1>2, RoundNearest
  <2>. QED
    BY <1>2, <2>1
<1>. QED
  BY <1>1, <1>2

LEMMA RoundMonotone ==
    ASSUME NEW s \in Int, NEW t \in Int, s =< t, NEW d \in Nat
    PROVE  Round(s, d) =< Round(t, d)
<1>1. CASE d = 0
  BY <1>1 DEF Round
<1>2. CASE d # 0
  <2>1. PICK p \in Int : Round(s, d) = d * p
    BY <1>2, RoundNearest
  <2>2. PICK q \in Int : Round(t, d) = d * q
    BY <1>2, RoundNearest
  <2>3. Round(s, d) \in Int /\ Round(t, d) \in Int /\ Round(s, d) - Round(t, d) < d
    BY <1>2, RoundBasics
  <2>. QED
    BY <1>2, <2>1, <2>2, <2>3, MultiplesInOrder
<1>. QED
  BY <1>1, <1>2

LEMMA RoundedLength ==
    ASSUME NEW a \in Int, NEW l \in Int, NEW d \in Nat
    PROVE  Round(a, d) - Round(a - l, d) \in l - Slack(d) .. l + Slack(d)
<1>. DEFINE e == Round(a, d)
            s == Round(a - l, d)
<1>1. a - l \in Int
  OBVIOUS
<1>2. e \in Int /\ 2 * (e - a) \in -d .. d /\ (d > 0 => 2 * (e - a) > -d) /\ (d = 0 => e = a)
  BY RoundBasics
<1>3. s \in Int /\ 2 * (s - (a - l)) \in -d .. d /\ (d > 0 => 2 * (s - (a - l)) > -d)
      /\ (d = 0 => s = a - l)
  BY <1>1, RoundBasics
<1>. HIDE DEF e, s
<1>4. e - s \in l - Slack(d) .. l + Slack(d)
  BY <1>2, <1>3 DEF Slack
<1>. QED
  BY <1>4 DEF e, s

LEMMA Clamped ==
    ASSUME NEW x \in Nat, NEW min \in Int, NEW max \in Int, NEW top \in Nat, x =< top,
           min > 0 /\ max > 0 => max >= min
    PROVE  /\ clampDuration(x, min, max) \in Nat
           /\ clampDuration(x, min, max) >= min
           /\ clampDuration(x, min, max) =<
                IF max > 0 THEN max ELSE IF min > 0 THEN top + min ELSE top
  BY DEF clampDuration

\* What is sampled is within the bounds that are set, and there is nothing to
\* sample exactly when the bounds of a uniform range are equal.
LEMMA LookbacksInBounds ==
    ASSUME NEW c \in Settings, ValidRange(c)
    PROVE  /\ \A l \in SampleLookback(c) : l \in Nat /\ l >= Shortest(c) /\ l =< Furthest(c)
           /\ SampleLookback(c) = {} <=> c.type = "uniform" /\ c.min = c.max
           /\ Shortest(c) \in Int /\ Furthest(c) \in Int
<1>1. /\ c.type \in {"fixed", "uniform", "exponential", "log_normal"}
      /\ c.lookback \in Int /\ c.min \in Int /\ c.max \in Int /\ Longest \in Nat
  BY TimeRangeAssumption DEF Settings
<1>2. CASE c.type = "fixed"
  <2>1. c.lookback > 0 /\ SampleLookback(c) = {c.lookback}
    BY <1>2 DEF ValidRange, SampleLookback
  <2>. QED
    BY <1>1, <1>2, <2>1 DEF Shortest, Furthest
<1>3. CASE c.type = "uniform"
  <2>1. /\ c.min > 0 /\ c.max > 0 /\ c.max >= c.min
        /\ SampleLookback(c) = {c.min + x : x \in 0 .. c.max - c.min - 1}
    BY <1>3 DEF ValidRange, SampleLookback
  <2>2. Shortest(c) = c.min /\ Furthest(c) = c.max
    BY <1>3, <2>1 DEF Shortest, Furthest
  <2>3. c.min # c.max => c.min + 0 \in SampleLookback(c)
    BY <1>1, <2>1
  <2>. QED
    BY <1>1, <1>3, <2>1, <2>2, <2>3
<1>4. CASE c.type \in {"exponential", "log_normal"}
  <2>1. /\ c.min > 0 /\ c.max > 0 => c.max >= c.min
        /\ SampleLookback(c) = {clampDuration(x, c.min, c.max) : x \in 0 .. Longest}
    BY <1>4 DEF ValidRange, SampleLookback
  <2>2. /\ Shortest(c) = c.min
        /\ Furthest(c) = IF c.max > 0 THEN c.max
                         ELSE IF c.min > 0 THEN Longest + c.min ELSE Longest
    BY <1>4 DEF Shortest, Furthest
  <2>3. \A x \in 0 .. Longest : LET l == clampDuration(x, c.min, c.max) IN
           l \in Nat /\ l >= Shortest(c) /\ l =< Furthest(c)
    <3>1. SUFFICES ASSUME NEW x \in 0 .. Longest
                   PROVE  LET l == clampDuration(x, c.min, c.max) IN
                          l \in Nat /\ l >= Shortest(c) /\ l =< Furthest(c)
      OBVIOUS
    <3>2. x \in Nat /\ x =< Longest
      BY <1>1
    <3>3. /\ clampDuration(x, c.min, c.max) \in Nat
          /\ clampDuration(x, c.min, c.max) >= c.min
          /\ clampDuration(x, c.min, c.max) =<
               IF c.max > 0 THEN c.max ELSE IF c.min > 0 THEN Longest + c.min ELSE Longest
      BY <1>1, <2>1, <3>2, Clamped
    <3>. QED
      BY <2>2, <3>3
  <2>4. clampDuration(0, c.min, c.max) \in SampleLookback(c)
    BY <1>1, <2>1
  <2>5. ASSUME NEW l \in SampleLookback(c)
        PROVE  l \in Nat /\ l >= Shortest(c) /\ l =< Furthest(c)
    BY <2>1, <2>3
  <2>6. Shortest(c) \in Int /\ Furthest(c) \in Int
    BY <1>1, <2>2
  <2>. QED
    BY <1>4, <2>4, <2>5, <2>6
<1>. QED
  BY <1>1, <1>2, <1>3, <1>4

LEMMA AnchorsExist ==
    ASSUME NEW c \in Settings, NEW now \in Int
    PROVE  /\ anchor(c, now) \subseteq Int
           /\ anchor(c, now) = {} <=> c.anchor = "dataset_random" /\ c.dsEnd =< c.dsStart
           /\ c.anchor = "dataset_end" => anchor(c, now) = {c.dsEnd}
           /\ c.anchor = "now" => anchor(c, now) = {now}
           /\ c.anchor \in {"now", "dataset_end", "dataset_random"}
<1>1. /\ c.anchor \in {"now", "dataset_end", "dataset_random"}
      /\ c.dsStart \in Int /\ c.dsEnd \in Int
  BY DEF Settings
<1>2. CASE c.anchor = "dataset_random"
  <2>1. anchor(c, now) = {c.dsStart + o : o \in 0 .. c.dsEnd - c.dsStart - 1}
    BY <1>2 DEF anchor
  <2>2. c.dsEnd > c.dsStart => c.dsStart + 0 \in anchor(c, now)
    BY <1>1, <2>1
  <2>3. c.dsEnd =< c.dsStart => 0 .. c.dsEnd - c.dsStart - 1 = {}
    BY <1>1
  <2>4. anchor(c, now) = {} <=> c.dsEnd =< c.dsStart
    <3>1. CASE c.dsEnd =< c.dsStart
      BY <2>1, <2>3, <3>1, Zenon
    <3>2. CASE c.dsEnd > c.dsStart
      BY <1>1, <2>2, <3>2
    <3>. QED
      BY <1>1, <3>1, <3>2
  <2>5. anchor(c, now) \subseteq Int
    BY <1>1, <2>1
  <2>. QED
    BY <1>1, <1>2, <2>4, <2>5
<1>3. CASE c.anchor # "dataset_random"
  BY <1>1, <1>3 DEF anchor
<1>. QED
  BY <1>2, <1>3

\* timerange.go:14-73, workflow.go:69-82, config.go:96-101, 312-357. Whatever
\* its numbers, a range that passed the validation resolves at any time to an
\* interval that does not run backwards, ends within half a rounding step of its
\* anchor and is as long as its bounds allow give or take less than a step; it
\* resolves to nothing only under the two settings that panic.
THEOREM ValidRangesSound ==
    ASSUME NEW c \in Settings, ValidRange(c), NEW now \in Int
    PROVE  IntervalSound(c, now)
<1>1. c.round \in Nat
  BY DEF Settings
<1>2. Resolve(c, now) = {} <=> Panics(c)
  <2>1. Resolve(c, now) = {} <=> anchor(c, now) = {} \/ SampleLookback(c) = {}
    <3>1. ASSUME NEW a \in anchor(c, now), NEW l \in SampleLookback(c)
          PROVE  Resolve(c, now) # {}
      <4>1. [start |-> Round(a - l, c.round), end |-> Round(a, c.round), anchor |-> a]
              \in Resolve(c, now)
        BY DEF Resolve
      <4>. QED
        BY <4>1
    <3>2. ASSUME NEW r \in Resolve(c, now)
          PROVE  anchor(c, now) # {} /\ SampleLookback(c) # {}
      <4>1. PICK a \in anchor(c, now), l \in SampleLookback(c) : TRUE
        BY <3>2 DEF Resolve
      <4>. QED
        BY <4>1
    <3>. QED
      BY <3>1, <3>2
  <2>2. SampleLookback(c) = {} <=> c.type = "uniform" /\ c.min = c.max
    BY LookbacksInBounds
  <2>3. anchor(c, now) = {} <=> c.anchor = "dataset_random" /\ c.dsEnd =< c.dsStart
    BY AnchorsExist
  <2>. QED
    BY <2>1, <2>2, <2>3 DEF Panics
<1>3. ASSUME NEW r \in Resolve(c, now)
      PROVE  LET slack == IF c.round > 0 THEN c.round - 1 ELSE 0 IN
             /\ r.start =< r.end
             /\ 2 * (r.end - r.anchor) \in -c.round .. c.round
             /\ r.end - r.start \in Shortest(c) - slack .. Furthest(c) + slack
  <2>1. PICK a \in anchor(c, now), l \in SampleLookback(c) :
          r = [start |-> Round(a - l, c.round), end |-> Round(a, c.round), anchor |-> a]
    BY DEF Resolve
  <2>2. r.start = Round(a - l, c.round) /\ r.end = Round(a, c.round) /\ r.anchor = a
    BY <2>1
  <2>3. a \in Int
    BY AnchorsExist
  <2>4. /\ l \in Nat /\ l >= Shortest(c) /\ l =< Furthest(c)
        /\ Shortest(c) \in Int /\ Furthest(c) \in Int
    BY LookbacksInBounds
  <2>5. a - l \in Int /\ a - l =< a /\ l \in Int
    BY <2>3, <2>4
  <2>6. r.start =< r.end
    BY <1>1, <2>2, <2>3, <2>5, RoundMonotone
  <2>7. 2 * (r.end - r.anchor) \in -c.round .. c.round
    BY <1>1, <2>2, <2>3, RoundBasics
  <2>8. r.end - r.start \in l - Slack(c.round) .. l + Slack(c.round)
    BY <1>1, <2>2, <2>3, <2>5, RoundedLength
  <2>9. Slack(c.round) = (IF c.round > 0 THEN c.round - 1 ELSE 0) /\ Slack(c.round) \in Int
    BY <1>1 DEF Slack
  <2>10. r.end - r.start \in Shortest(c) - Slack(c.round) .. Furthest(c) + Slack(c.round)
    BY <2>4, <2>8, <2>9
  <2>. QED
    BY <2>6, <2>7, <2>9, <2>10
<1>. QED
  BY <1>2, <1>3 DEF IntervalSound

\* timerange.go:14-32. Whatever its numbers, a window that is resolved later
\* does not end earlier, nor, with a fixed lookback, start earlier: rounding
\* keeps the order of times.
THEOREM WindowsAdvance ==
    ASSUME NEW c \in Settings, NEW now \in Int, NEW later \in Int, now =< later
    PROVE  WindowAdvances(c, now, later)
<1>. SUFFICES ASSUME c.anchor # "dataset_random",
                     NEW r \in Resolve(c, now), NEW s \in Resolve(c, later)
              PROVE  r.end =< s.end /\ (c.type = "fixed" => r.start =< s.start)
  BY DEF WindowAdvances
<1>1. c.round \in Nat /\ c.lookback \in Int /\ c.dsEnd \in Int
  BY DEF Settings
<1>2. PICK a \in anchor(c, now), l \in SampleLookback(c) :
        r = [start |-> Round(a - l, c.round), end |-> Round(a, c.round), anchor |-> a]
  BY DEF Resolve
<1>3. PICK b \in anchor(c, later), m \in SampleLookback(c) :
        s = [start |-> Round(b - m, c.round), end |-> Round(b, c.round), anchor |-> b]
  BY DEF Resolve
<1>4. a \in Int /\ b \in Int /\ a =< b
  <2>1. CASE c.anchor = "now"
    BY <2>1, AnchorsExist
  <2>2. CASE c.anchor = "dataset_end"
    BY <1>1, <2>2, AnchorsExist
  <2>. QED
    BY <2>1, <2>2, AnchorsExist
<1>5. r.end =< s.end
  BY <1>1, <1>2, <1>3, <1>4, RoundMonotone
<1>6. ASSUME c.type = "fixed" PROVE r.start =< s.start
  <2>1. l = c.lookback /\ m = c.lookback
    BY <1>6 DEF SampleLookback
  <2>2. a - l \in Int /\ b - m \in Int /\ a - l =< b - m
    BY <1>1, <1>4, <2>1
  <2>. QED
    BY <1>1, <1>2, <1>3, <2>2, RoundMonotone
<1>. QED
  BY <1>5, <1>6

-----------------------------------------------------------------------------
USE UserAssumption
-----------------------------------------------------------------------------
(* Settings and binds.                                                     *)

LEMMA SettingsTyped ==
    ASSUME cfg \in Configs
    PROVE  /\ cfg.vars \subseteq Names
           /\ cfg.preflights \in Seq(SUBSET Names) /\ Len(cfg.preflights) \in Nat
           /\ cfg.queries \in Seq(QueryConfigs)
           /\ Len(cfg.queries) \in Nat \ {0} /\ DOMAIN cfg.queries = 1 .. Len(cfg.queries)
           /\ \A i \in DOMAIN cfg.queries : cfg.queries[i] \in QueryConfigs
           /\ cfg.rangeCadence \in {"per_query", "per_loop"}
           /\ cfg.preflightCadence \in Cadences
           /\ cfg.random => cfg.rangeCadence # "per_loop" /\ cfg.preflightCadence # "per_loop"
<1>1. cfg \in WorkflowConfigs /\ Valid(cfg)
  OBVIOUS
<1>2. /\ cfg.vars \subseteq Names /\ cfg.preflights \in Seq(SUBSET Names)
      /\ cfg.queries \in Seq(QueryConfigs)
  BY <1>1 DEF WorkflowConfigs
<1>3. Len(cfg.queries) \in Nat \ {0} /\ DOMAIN cfg.queries = 1 .. Len(cfg.queries)
  BY <1>1, <1>2 DEF Valid
<1>4. \A i \in DOMAIN cfg.queries : cfg.queries[i] \in QueryConfigs
  BY <1>2, <1>3, ElementOfSeq
<1> QED BY <1>1, <1>2, <1>3, <1>4 DEF Valid

LEMMA QueryTyped ==
    ASSUME NEW q \in QueryConfigs
    PROVE  /\ q.vars \subseteq Names
           /\ q.preflights \in Seq(SUBSET Names) /\ Len(q.preflights) \in Nat
           /\ q.preflights = <<>> <=> Len(q.preflights) = 0
           /\ \A i \in 1 .. Len(q.preflights) : q.preflights[i] \subseteq Names
<1>1. q.vars \subseteq Names /\ q.preflights \in Seq(SUBSET Names)
  BY DEF QueryConfigs
<1> QED BY <1>1, EmptySeq, ElementOfSeq

\* Binding more names yields a map of binds.
LEMMA BindTyped ==
    ASSUME NEW names \in SUBSET Names, NEW s \in Sources, NEW t \in 0 .. MaxCalls,
           NEW b \in BindMaps
    PROVE  Bind(names, s, t, b) \in BindMaps
<1>1. PICK S \in SUBSET Names : b \in [S -> [by : Sources, call : 0 .. MaxCalls]]
  BY DEF BindMaps
<1>2. names \cup DOMAIN b \in SUBSET Names
  BY <1>1
<1>3. Bind(names, s, t, b) \in [names \cup DOMAIN b -> [by : Sources, call : 0 .. MaxCalls]]
  BY <1>1 DEF Bind
<1> QED BY <1>2, <1>3 DEF BindMaps

LEMMA NoBindsTyped == NoBinds \in BindMaps /\ DOMAIN NoBinds = {}
<1>1. {} \in SUBSET Names /\ NoBinds \in [{} -> [by : Sources, call : 0 .. MaxCalls]]
  BY DEF NoBinds
<1> QED BY <1>1 DEF BindMaps, NoBinds

LEMMA BindResult ==
    ASSUME NEW names, NEW s, NEW t, NEW b
    PROVE  \A n : /\ n \in DOMAIN Bind(names, s, t, b) <=> n \in names \/ n \in DOMAIN b
                  /\ n \in names => Bind(names, s, t, b)[n] = [by |-> s, call |-> t]
                  /\ n \in DOMAIN b /\ n \notin names => Bind(names, s, t, b)[n] = b[n]
BY DEF Bind

LEMMA AskedNext ==
    ASSUME NEW preflights, NEW k \in Nat, NEW n
    PROVE  /\ Asked(preflights, k + 1, n) <=> Asked(preflights, k, n) \/ n \in preflights[k + 1]
           /\ ~Asked(preflights, 0, n)
<1>1. 1 .. k + 1 = (1 .. k) \cup {k + 1} /\ 1 .. 0 = {}
  OBVIOUS
<1> QED BY <1>1 DEF Asked

\* The workflow's vars are bound first, then the answers of its preflights.
LEMMA SharedGrows ==
    ASSUME NEW t
    PROVE  /\ SharedBinds(Bind(cfg.vars, "var", t, NoBinds), 0)
           /\ \A b, k : k \in Nat /\ SharedBinds(b, k) =>
                SharedBinds(Bind(cfg.preflights[k + 1], "preflight", t, b), k + 1)
<1>1. SharedBinds(Bind(cfg.vars, "var", t, NoBinds), 0)
  <2> DEFINE d == Bind(cfg.vars, "var", t, NoBinds)
  <2>1. \A n : /\ n \in DOMAIN d <=> n \in cfg.vars
               /\ n \in cfg.vars => d[n] = [by |-> "var", call |-> t]
    BY BindResult, NoBindsTyped
  <2>2. \A n : ~Asked(cfg.preflights, 0, n)
    BY AskedNext
  <2> HIDE DEF d
  <2>3. SharedBinds(d, 0)
    BY <2>1, <2>2 DEF SharedBinds
  <2> QED BY <2>3 DEF d
<1>2. ASSUME NEW b, NEW k \in Nat, SharedBinds(b, k)
      PROVE  SharedBinds(Bind(cfg.preflights[k + 1], "preflight", t, b), k + 1)
  <2> DEFINE names == cfg.preflights[k + 1]
             d == Bind(names, "preflight", t, b)
  <2>1. \A n : /\ n \in DOMAIN d <=> n \in names \/ n \in DOMAIN b
               /\ n \in names => d[n] = [by |-> "preflight", call |-> t]
               /\ n \in DOMAIN b /\ n \notin names => d[n] = b[n]
    BY BindResult
  <2>2. \A n : Asked(cfg.preflights, k + 1, n) <=> Asked(cfg.preflights, k, n) \/ n \in names
    BY AskedNext
  <2> HIDE DEF names, d
  <2>3. SharedBinds(d, k + 1)
    BY <1>2, <2>1, <2>2 DEF SharedBinds
  <2> QED BY <2>3 DEF d, names
<1> QED BY <1>1, <1>2

\* Then the vars of the query, then the answers of its own preflights.
LEMMA OwnGrows ==
    ASSUME NEW q, NEW t
    PROVE  /\ \A b : Complete(b) => OwnBinds(q, Bind(q.vars, "query_var", t, b), 0)
           /\ \A b, k : k \in Nat /\ OwnBinds(q, b, k) =>
                OwnBinds(q, Bind(q.preflights[k + 1], "query_preflight", t, b), k + 1)
<1>1. ASSUME NEW b, Complete(b)
      PROVE  OwnBinds(q, Bind(q.vars, "query_var", t, b), 0)
  <2> DEFINE d == Bind(q.vars, "query_var", t, b)
  <2>1. \A n : /\ n \in DOMAIN d <=> n \in q.vars \/ n \in DOMAIN b
               /\ n \in q.vars => d[n] = [by |-> "query_var", call |-> t]
               /\ n \in DOMAIN b /\ n \notin q.vars => d[n] = b[n]
    BY BindResult
  <2>2. \A n : ~Asked(q.preflights, 0, n)
    BY AskedNext
  <2> HIDE DEF d
  <2>3. OwnBinds(q, d, 0)
    BY <1>1, <2>1, <2>2 DEF SharedBinds, Complete, OwnBinds
  <2> QED BY <2>3 DEF d
<1>2. ASSUME NEW b, NEW k \in Nat, OwnBinds(q, b, k)
      PROVE  OwnBinds(q, Bind(q.preflights[k + 1], "query_preflight", t, b), k + 1)
  <2> DEFINE names == q.preflights[k + 1]
             d == Bind(names, "query_preflight", t, b)
  <2>1. \A n : /\ n \in DOMAIN d <=> n \in names \/ n \in DOMAIN b
               /\ n \in names => d[n] = [by |-> "query_preflight", call |-> t]
               /\ n \in DOMAIN b /\ n \notin names => d[n] = b[n]
    BY BindResult
  <2>2. \A n : Asked(q.preflights, k + 1, n) <=> Asked(q.preflights, k, n) \/ n \in names
    BY AskedNext
  <2> HIDE DEF names, d
  <2>3. OwnBinds(q, d, k + 1)
    BY <1>2, <2>1, <2>2 DEF OwnBinds
  <2> QED BY <2>3 DEF d, names
<1> QED BY <1>1, <1>2
-----------------------------------------------------------------------------
(* Frames.                                                                 *)

\* What the invariant says of user v depends on these.
SameState(v) ==
    /\ range'[v] = range[v] /\ cached'[v] = cached[v] /\ binds'[v] = binds[v]
    /\ query'[v] = query[v] /\ calls'[v] = calls[v] /\ pass'[v] = pass[v]
    /\ sampled'[v] = sampled[v]

\* A user whose state is the same, and who is at the same place or in no call.
LEMMA FrameKeeps ==
    ASSUME cfg' = cfg, NEW v, UserInv(v), SameState(v), pc'[v] = pc[v] \/ pc'[v] \notin Busy
    PROVE  UserInv(v)'
<1>1. pc'[v] \in Busy => pc'[v] = pc[v]
  OBVIOUS
<1>2. Query(v)' = Query(v)
  BY DEF Query, SameState
<1>3. /\ pc'[v] = "shared" => pc[v] = "shared"
      /\ pc'[v] = "own" => pc[v] = "own"
      /\ pc'[v] = "exec" => pc[v] = "exec"
  BY <1>1 DEF Busy
<1>4. \A b, k : SharedBinds(b, k)' <=> SharedBinds(b, k)
  BY DEF SharedBinds
<1>5. Complete(binds[v])' <=> Complete(binds[v])
  BY DEF SameState, Complete, SharedBinds
<1>6. /\ SharedBinds(query[v].binds, query[v].ran)' <=> SharedBinds(query[v].binds, query[v].ran)
      /\ OwnBinds(Query(v), query[v].binds, query[v].ran)'
           <=> OwnBinds(Query(v), query[v].binds, query[v].ran)
      /\ OwnBinds(Query(v), query[v].binds, Len(Query(v).preflights))'
           <=> OwnBinds(Query(v), query[v].binds, Len(Query(v).preflights))
  BY <1>2 DEF SameState, OwnBinds, SharedBinds
<1>7. BindsInOrder(v)'
  BY <1>1, <1>2, <1>3, <1>5, <1>6 DEF UserInv, BindsInOrder, SameState
<1>8. RangeHeld(v)'
  BY <1>1, <1>2 DEF UserInv, RangeHeld, SameState, UsesDefault, PerLoop
<1>9. FetchHeld(v)'
  <2>1. \A c : FetchedIn(v, c) => FetchedIn(v, c)'
    BY DEF FetchedIn, SameState, PerLoop
  <2> QED BY <1>3, <2>1 DEF UserInv, FetchHeld, SameState
<1> QED BY <1>7, <1>8, <1>9 DEF UserInv, SameState

\* A step of user u leaves the settings and the other users alone.
Others(u) == cfg' = cfg /\ \A v \in Users : v # u => SameState(v) /\ pc'[v] = pc[v]

\* The step of one user, once it is known what it does to that user.
LEMMA OneUser ==
    ASSUME IInv, NEW u \in Users, Others(u), TypeOK', HistoryTypes', UserInv(u)'
    PROVE  IInv'
<1>1. ASSUME NEW v \in Users PROVE UserInv(v)'
  <2>1. CASE v = u
    BY <2>1
  <2>2. CASE v # u
    BY <2>2, FrameKeeps DEF IInv, Others
  <2> QED BY <2>1, <2>2
<1> QED BY <1>1 DEF IInv

\* What is known of the state of a user.
LEMMA UserTyped ==
    ASSUME IInv, NEW u \in Users
    PROVE  /\ cfg \in Configs /\ pc[u] \in Places /\ index[u] \in Nat
           /\ range[u] \in 0 .. MaxCalls /\ cached[u] \in BOOLEAN
           /\ calls[u] \in 0 .. MaxCalls /\ pass[u] \in 0 .. MaxCalls
           /\ binds[u] \in BindMaps /\ query[u] \in QueryStates
           /\ sampled[u] \subseteq {"range", "fetch"} \X (0 .. MaxCalls)
           /\ UserInv(u)
BY DEF IInv, TypeOK, HistoryTypes, Places

LEMMA InitIInv == Init => IInv
<1> SUFFICES ASSUME Init PROVE IInv
  OBVIOUS
<1>1. TypeOK
  <2>1. cfg \in Configs /\ ctx = "live" /\ returned = FALSE /\ launched = 0
    BY DEF Init
  <2>2. pc \in [Users -> Places]
    BY DEF Init, Places
  <2>3. index \in [Users -> Nat] /\ range \in [Users -> 0 .. MaxCalls]
    BY DEF Init, None
  <2>4. cached \in [Users -> BOOLEAN] /\ calls \in [Users -> 0 .. MaxCalls]
    BY DEF Init
  <2>5. returned \in BOOLEAN
    BY <2>1
  <2>6. launched \in 0 .. Threads
    BY <2>1
  <2> QED BY <2>1, <2>2, <2>3, <2>4, <2>5, <2>6 DEF TypeOK, Places
<1>2. NoQuery \in QueryStates
  BY NoBindsTyped DEF NoQuery, QueryUnderWay, QueryStates, None
<1>3. HistoryTypes
  <2>1. binds \in [Users -> BindMaps] /\ query \in [Users -> QueryStates]
    BY <1>2, NoBindsTyped DEF Init
  <2>2. pass \in [Users -> 0 .. MaxCalls]
    BY DEF Init
  <2>3. sampled \in [Users -> SUBSET ({"range", "fetch"} \X (0 .. MaxCalls))]
    BY DEF Init
  <2> QED BY <2>1, <2>2, <2>3 DEF HistoryTypes
<1>4. ASSUME NEW u \in Users PROVE UserInv(u)
  <2>1. /\ pc[u] = "unborn" /\ cached[u] = FALSE /\ sampled[u] = {} /\ range[u] = None
        /\ pass[u] = 0 /\ calls[u] = 0
    BY DEF Init
  <2> QED BY <2>1 DEF UserInv, BindsInOrder, RangeHeld, FetchHeld, Busy
<1> QED BY <1>1, <1>3, <1>4 DEF IInv
-----------------------------------------------------------------------------
(* The scheduler, and the steps that only move a user.                     *)

LEMMA SchedulerIInv ==
    ASSUME IInv, EndContext \/ Launch \/ SchedulerReturn \/ Rest
    PROVE  IInv'
<1>1. CASE EndContext \/ SchedulerReturn \/ Rest
  <2>1. UNCHANGED <<cfg, launched, pc, workflow, query, history>>
    BY <1>1 DEF EndContext, SchedulerReturn, Rest, vars
  <2>2. ctx' \in {"live", "cancelled", "expired"} /\ returned' \in BOOLEAN
    BY <1>1 DEF EndContext, SchedulerReturn, Rest, vars, IInv, TypeOK
  <2>3. TypeOK' /\ HistoryTypes'
    BY <2>1, <2>2 DEF IInv, TypeOK, HistoryTypes, workflow, history
  <2>4. ASSUME NEW v \in Users PROVE UserInv(v)'
    <3>1. SameState(v) /\ pc'[v] = pc[v] /\ cfg' = cfg /\ UserInv(v)
      BY <2>1 DEF SameState, workflow, history, IInv
    <3> QED BY <3>1, FrameKeeps
  <2> QED BY <2>3, <2>4 DEF IInv
<1>2. CASE Launch
  <2>1. UNCHANGED <<cfg, ctx, returned, workflow, query, history>>
    BY <1>2 DEF Launch
  <2>2. launched' \in 0 .. Threads /\ launched + 1 \in Users
    BY <1>2 DEF Launch, IInv, TypeOK, Users
  <2>3. /\ pc' = [pc EXCEPT ![launched + 1] = "start"]
        /\ pc \in [Users -> Places]
    BY <1>2 DEF Launch, Goto, IInv, TypeOK, Places
  <2>4. pc' \in [Users -> Places]
    BY <2>3 DEF Places
  <2>5. TypeOK' /\ HistoryTypes'
    BY <2>1, <2>2, <2>4 DEF IInv, TypeOK, HistoryTypes, workflow, history, Places
  <2>6. ASSUME NEW v \in Users PROVE UserInv(v)'
    <3>1. SameState(v) /\ cfg' = cfg /\ UserInv(v)
      BY <2>1 DEF SameState, workflow, history, IInv
    <3>2. pc'[v] = pc[v] \/ pc'[v] \notin Busy
      BY <2>2, <2>3 DEF Busy
    <3> QED BY <3>1, <3>2, FrameKeeps
  <2> QED BY <2>5, <2>6 DEF IInv
<1> QED BY <1>1, <1>2

\* Steps that take a user out of a call, or from one place outside to another.
Moves(u) ==
    /\ \E l \in Places \ Busy : Goto(u, l)
    /\ index' \in [Users -> Nat]
    /\ UNCHANGED <<cfg, ctx, launched, returned, range, cached, binds, query, history>>

LEMMA MovesIInv ==
    ASSUME IInv, NEW u \in Users, Moves(u)
    PROVE  IInv'
<1>1. PICK l \in Places \ Busy : pc' = [pc EXCEPT ![u] = l]
  BY DEF Moves, Goto
<1>2. pc \in [Users -> Places]
  BY DEF IInv, TypeOK, Places
<1>3. pc' \in [Users -> Places] /\ pc'[u] \notin Busy
  BY <1>1, <1>2
<1>4. UNCHANGED <<cfg, ctx, launched, returned, range, cached, binds, query, calls, pass, sampled>>
  BY DEF Moves, history
<1>5. TypeOK' /\ HistoryTypes'
  BY <1>3, <1>4 DEF IInv, TypeOK, HistoryTypes, Places, Moves
<1>6. Others(u)
  BY <1>1, <1>2, <1>4 DEF Others, SameState
<1>7. UserInv(u)'
  BY <1>3, <1>4, FrameKeeps DEF IInv, SameState
<1> QED BY <1>5, <1>6, <1>7, OneUser

LEMMA MovingSteps ==
    ASSUME IInv, NEW u \in Users,
           Backoff(u) \/ SharedPreflightFails(u) \/ OwnPreflightFails(u) \/ Think(u) \/ Leave(u)
    PROVE  Moves(u)
<1>1. index \in [Users -> Nat] /\ cfg \in Configs
  BY DEF IInv, TypeOK
<1> USE DEF Places, Busy, workflow, history
<1>2. CASE Backoff(u) \/ Think(u) \/ Leave(u)
  BY <1>1, <1>2 DEF Backoff, Think, Leave, Moves, Goto
<1>3. CASE Fail(u)
  <2>1. \E l \in Places \ Busy : Goto(u, l)
    BY <1>3 DEF Fail, Goto
  <2>2. index' \in [Users -> Nat]
    <3>1. ASSUME ResetLoop(u) PROVE index' \in [Users -> Nat]
      <4>1. (index[u] \div Len(cfg.queries)) * Len(cfg.queries) \in Nat
        <5> DEFINE L == Len(cfg.queries)
                   d == index[u] \div L
        <5>1. L \in Nat \ {0} /\ index[u] \in Nat
          BY <1>1, SettingsTyped
        <5> HIDE DEF L
        <5>2. d \in Nat
          BY <5>1
        <5> HIDE DEF d
        <5>3. d * L \in Nat
          BY <5>1, <5>2
        <5> QED BY <5>3 DEF d, L
      <4> QED BY <1>1, <3>1, <4>1 DEF ResetLoop
    <3> QED BY <1>1, <1>3, <3>1 DEF Fail
  <2>3. UNCHANGED <<cfg, ctx, launched, returned, range, cached, binds, query, history>>
    BY <1>3 DEF Fail
  <2> QED BY <2>1, <2>2, <2>3 DEF Moves
<1> QED BY <1>2, <1>3 DEF SharedPreflightFails, OwnPreflightFails
-----------------------------------------------------------------------------
(* The steps of a call.                                                    *)

\* A new worker starts with nothing held and nothing used.
LEMMA NewWorkerIInv ==
    ASSUME IInv, NEW u \in Users, NewWorker(u)
    PROVE  IInv'
<1>1. /\ pc \in [Users -> Places] /\ index \in [Users -> Nat] /\ range \in [Users -> 0 .. MaxCalls]
      /\ cached \in [Users -> BOOLEAN] /\ binds \in [Users -> BindMaps]
      /\ sampled \in [Users -> SUBSET ({"range", "fetch"} \X (0 .. MaxCalls))]
  BY DEF IInv, TypeOK, HistoryTypes, Places
<1>2. CASE (Goto(u, "gone") \/ Goto(u, "backoff")) /\ UNCHANGED <<workflow, sampled>>
  <2>1. Moves(u)
    BY <1>1, <1>2 DEF NewWorker, Moves, Places, Busy, workflow, history
  <2> QED BY <2>1, MovesIInv
<1>3. CASE /\ Goto(u, "top")
           /\ index' = [index EXCEPT ![u] = 0] /\ range' = [range EXCEPT ![u] = None]
           /\ cached' = [cached EXCEPT ![u] = FALSE]
           /\ binds' = [binds EXCEPT ![u] = NoBinds]
           /\ sampled' = [sampled EXCEPT ![u] = {}]
  <2>1. UNCHANGED <<cfg, ctx, launched, returned, query, calls, pass>>
    BY DEF NewWorker
  <2>2. pc' \in [Users -> Places]
    BY <1>1, <1>3 DEF Goto, Places
  <2>3. index' \in [Users -> Nat] /\ range' \in [Users -> 0 .. MaxCalls]
    BY <1>1, <1>3 DEF None
  <2>4. cached' \in [Users -> BOOLEAN]
    BY <1>1, <1>3
  <2>5. binds' \in [Users -> BindMaps]
    BY <1>1, <1>3, NoBindsTyped
  <2>6. sampled' \in [Users -> SUBSET ({"range", "fetch"} \X (0 .. MaxCalls))]
    BY <1>1, <1>3
  <2>7. TypeOK' /\ HistoryTypes'
    BY <2>1, <2>2, <2>3, <2>4, <2>5, <2>6 DEF IInv, TypeOK, HistoryTypes, Places
  <2>8. Others(u)
    BY <1>1, <1>3, <2>1 DEF Others, SameState, Goto
  <2>9. UserInv(u)'
    <3>1. /\ pc'[u] = "top" /\ cached'[u] = FALSE /\ sampled'[u] = {} /\ range'[u] = None
          /\ pass'[u] =< calls'[u]
      BY <1>1, <1>3, <2>1 DEF Goto, IInv, UserInv
    <3> QED BY <3>1 DEF UserInv, BindsInOrder, RangeHeld, FetchHeld, Busy
  <2> QED BY <2>7, <2>8, <2>9, OneUser
<1> QED BY <1>2, <1>3 DEF NewWorker

\* What resolveTimeRange answers.
LEMMA Resolved ==
    ASSUME cfg \in Configs, NEW q \in QueryConfigs, NEW t \in 1 .. MaxCalls,
           NEW held \in 0 .. MaxCalls, NEW r, r = resolveTimeRange(q, t, held)
    PROVE  /\ r.used \in 0 .. MaxCalls /\ r.held \in 0 .. MaxCalls
           /\ r.held = held \/ r.held = t
           /\ PerLoop(cfg.rangeCadence) /\ held # None => r.held = held
           /\ q.range = "default" /\ cfg.defaultRange =>
                /\ r.used = r.held /\ r.held # None
                /\ cfg.rangeCadence = "per_query" => r.used = t
<1>1. q.range \in {"none", "own", "default"}
  BY DEF QueryConfigs
<1>2. CASE q.range = "none"
  BY <1>2 DEF resolveTimeRange, None
<1>3. CASE q.range = "own"
  BY <1>3 DEF resolveTimeRange, None
<1>4. CASE q.range = "default" /\ ~cfg.defaultRange
  BY <1>4 DEF resolveTimeRange, None
<1>5. CASE q.range = "default" /\ cfg.defaultRange
  <2> DEFINE v == IF cfg.rangeCadence = "per_query" \/ held = None THEN t ELSE held
  <2>1. r = [used |-> v, held |-> v]
    BY <1>5 DEF resolveTimeRange
  <2>2. r.used = v /\ r.held = v
    BY <2>1
  <2> QED BY <1>5, <2>2 DEF PerLoop, None
<1> QED BY <1>1, <1>2, <1>3, <1>4, <1>5

LEMMA NextQueryIInv ==
    ASSUME IInv, NEW u \in Users, NextQuery(u)
    PROVE  IInv'
<1>1. /\ cfg \in Configs /\ index[u] \in Nat /\ range[u] \in 0 .. MaxCalls
      /\ calls[u] \in 0 .. MaxCalls /\ pass[u] \in 0 .. MaxCalls /\ UserInv(u)
      /\ sampled[u] \subseteq {"range", "fetch"} \X (0 .. MaxCalls)
  BY UserTyped
<1>2. calls[u] < MaxCalls /\ UNCHANGED <<cfg, ctx, launched, returned, binds>>
  BY DEF NextQuery
<1> DEFINE t == calls[u] + 1
           held(i) == IF ForgetsRange(i) THEN None ELSE range[u]
           answer(i) == resolveTimeRange(cfg.queries[i], t, held(i))
<1>3. t \in 1 .. MaxCalls /\ t \in 0 .. MaxCalls /\ pass[u] < t
  BY <1>1, <1>2 DEF UserInv
<1>4. PICK i \in Positions(u) :
        /\ index' = [index EXCEPT ![u] = IF cfg.random THEN @ ELSE @ + 1]
        /\ range' = [range EXCEPT ![u] = answer(i).held]
        /\ cached' = [cached EXCEPT ![u] = @ /\ ~ForgetsBinds(i)]
        /\ query' = [query EXCEPT ![u] = QueryUnderWay(i, answer(i).used, NoBinds, 0)]
        /\ pass' = [pass EXCEPT ![u] = IF Wraps(i) THEN t ELSE @]
        /\ sampled' = [sampled EXCEPT ![u] = IF Wraps(i) THEN Lasting(@) ELSE @]
  BY DEF NextQuery
<1>5. calls' = [calls EXCEPT ![u] = t] /\ pc' = [pc EXCEPT ![u] = "shared"]
  BY DEF NextQuery, Goto
<1>6. i \in DOMAIN cfg.queries
  <2> DEFINE L == Len(cfg.queries)
  <2>1. L \in Nat \ {0} /\ DOMAIN cfg.queries = 1 .. L
    BY <1>1, SettingsTyped
  <2> HIDE DEF L
  <2>2. (index[u] % L) + 1 \in 1 .. L
    BY <1>1, <2>1
  <2> QED BY <2>1, <2>2 DEF Positions, L
<1>7. held(i) \in 0 .. MaxCalls /\ cfg.queries[i] \in QueryConfigs
  BY <1>1, <1>6, SettingsTyped DEF None
<1> DEFINE r == answer(i)
<1>8. /\ r.used \in 0 .. MaxCalls /\ r.held \in 0 .. MaxCalls
      /\ r.held = held(i) \/ r.held = t
      /\ PerLoop(cfg.rangeCadence) /\ held(i) # None => r.held = held(i)
      /\ cfg.queries[i].range = "default" /\ cfg.defaultRange =>
           /\ r.used = r.held /\ r.held # None
           /\ cfg.rangeCadence = "per_query" => r.used = t
  <2> HIDE DEF held
  <2> QED BY <1>1, <1>3, <1>7, Resolved
<1> HIDE DEF r, t, answer
<1>9. QueryUnderWay(i, r.used, NoBinds, 0)
        = [at |-> i, range |-> r.used, binds |-> NoBinds, ran |-> 0]
  BY DEF QueryUnderWay
<1>10. i \in Nat
  BY <1>1, <1>6, SettingsTyped
<1>11. Lasting(sampled[u]) \subseteq sampled[u]
  BY DEF Lasting
<1>12. /\ pc'[u] = "shared" /\ calls'[u] = t /\ cfg' = cfg /\ binds'[u] = binds[u]
       /\ range'[u] = r.held
       /\ pass'[u] = IF Wraps(i) THEN t ELSE pass[u]
       /\ sampled'[u] = IF Wraps(i) THEN Lasting(sampled[u]) ELSE sampled[u]
  BY <1>2, <1>4, <1>5 DEF IInv, TypeOK, HistoryTypes, r
<1>13. cached'[u] <=> cached[u] /\ ~ForgetsBinds(i)
  BY <1>4 DEF IInv, TypeOK
<1>14. query'[u] = [at |-> i, range |-> r.used, binds |-> NoBinds, ran |-> 0]
  BY <1>4, <1>9 DEF IInv, HistoryTypes, r
<1>15. Others(u)
  BY <1>2, <1>4, <1>5 DEF Others, SameState, IInv, TypeOK, HistoryTypes
<1>16. TypeOK'
  <2>1. pc' \in [Users -> Places]
    BY <1>5 DEF IInv, TypeOK, Places
  <2>2. index' \in [Users -> Nat] /\ calls' \in [Users -> 0 .. MaxCalls]
    BY <1>1, <1>3, <1>4, <1>5 DEF IInv, TypeOK
  <2>3. range' \in [Users -> 0 .. MaxCalls]
    BY <1>4, <1>8 DEF IInv, TypeOK, r
  <2>4. cached' \in [Users -> BOOLEAN]
    BY <1>4 DEF IInv, TypeOK
  <2> QED BY <1>2, <2>1, <2>2, <2>3, <2>4 DEF IInv, TypeOK, Places
<1>17. HistoryTypes'
  <2>1. query' \in [Users -> QueryStates]
    <3>1. [at |-> i, range |-> r.used, binds |-> NoBinds, ran |-> 0] \in QueryStates
      BY <1>8, <1>10, NoBindsTyped DEF QueryStates
    <3> QED BY <1>4, <1>9, <3>1 DEF IInv, HistoryTypes, r
  <2>2. pass' \in [Users -> 0 .. MaxCalls]
    BY <1>1, <1>3, <1>4 DEF IInv, HistoryTypes
  <2>3. sampled' \in [Users -> SUBSET ({"range", "fetch"} \X (0 .. MaxCalls))]
    BY <1>1, <1>4, <1>11 DEF IInv, HistoryTypes
  <2> QED BY <1>2, <2>1, <2>2, <2>3 DEF IInv, HistoryTypes
<1>18. BindsInOrder(u)'
  <2>1. cached'[u] => Complete(binds[u])'
    BY <1>1, <1>12, <1>13 DEF UserInv, BindsInOrder, Complete, SharedBinds
  <2>2. query'[u].at = i /\ query'[u].ran = 0
    BY <1>14
  <2>3. 0 =< Len(cfg.preflights)
    BY <1>1, SettingsTyped
  <2> QED BY <1>6, <1>12, <2>1, <2>2, <2>3 DEF BindsInOrder
<1>19. RangeHeld(u)'
  <2>1. ASSUME PerLoop(cfg.rangeCadence)
        PROVE  /\ r.held # None => r.held >= pass'[u]
               /\ \A x \in sampled'[u] : x[1] = "range" => x[2] = r.held /\ r.held # None
    <3>1. CASE Wraps(i)
      <4>1. held(i) = None /\ pass'[u] = t
        BY <1>12, <2>1, <3>1 DEF ForgetsRange
      <4>2. \A x \in sampled'[u] : x[1] # "range"
        BY <1>12, <3>1 DEF Lasting
      <4> QED BY <1>3, <1>8, <4>1, <4>2
    <3>2. CASE ~Wraps(i)
      <4>1. held(i) = range[u] /\ pass'[u] = pass[u] /\ sampled'[u] = sampled[u]
        BY <1>12, <3>2 DEF ForgetsRange
      <4> QED BY <1>1, <1>3, <1>8, <2>1, <4>1 DEF UserInv, RangeHeld
    <3> QED BY <3>1, <3>2
  <2>2. query'[u].at = i /\ query'[u].range = r.used
    BY <1>14
  <2>3. UsesDefault(u)' => cfg.queries[i].range = "default" /\ cfg.defaultRange
    BY <1>12, <2>2 DEF UsesDefault, Query
  <2> QED BY <1>8, <1>12, <2>1, <2>2, <2>3 DEF RangeHeld, PerLoop
<1>20. FetchHeld(u)'
  <2>1. ASSUME cfg.preflightCadence # "per_query", cached'[u]
        PROVE  \E c \in 0 .. MaxCalls : FetchedIn(u, c)'
    <3>1. PICK c \in 0 .. MaxCalls : FetchedIn(u, c)
      BY <1>1, <1>13, <2>1 DEF UserInv, FetchHeld
    <3>2. PerLoop(cfg.preflightCadence) => pass'[u] = pass[u]
      BY <1>12, <1>13, <2>1 DEF ForgetsBinds
    <3>3. sampled'[u] \subseteq sampled[u]
      BY <1>11, <1>12
    <3> QED BY <1>12, <3>1, <3>2, <3>3 DEF FetchedIn, PerLoop
  <2>2. ASSUME cfg.preflightCadence # "per_query", ~cached'[u]
        PROVE  \A x \in sampled'[u] : x[1] # "fetch"
    <3>1. CASE cached[u]
      <4>1. Wraps(i) /\ cfg.preflightCadence = "per_loop"
        BY <1>13, <2>2, <3>1 DEF ForgetsBinds, PerLoop
      <4> QED BY <1>12, <4>1 DEF Lasting
    <3>2. CASE ~cached[u]
      BY <1>1, <1>11, <1>12, <2>2, <3>2 DEF UserInv, FetchHeld
    <3> QED BY <3>1, <3>2
  <2>3. query'[u].ran = 0
    BY <1>14
  <2> QED BY <1>12, <2>1, <2>2, <2>3 DEF FetchHeld
<1>21. UserInv(u)'
  <2>1. pass'[u] =< calls'[u]
    BY <1>1, <1>3, <1>12
  <2> QED BY <1>18, <1>19, <1>20, <2>1 DEF UserInv
<1> QED BY <1>15, <1>16, <1>17, <1>21, OneUser

\* The query under way stays the same one while its binds grow.
LEMMA WithBinds ==
    ASSUME IInv, NEW u \in Users, pc[u] \in Busy, NEW b \in BindMaps, NEW k \in Nat,
           query' = [query EXCEPT ![u] = With(@, b, k)], cfg' = cfg
    PROVE  /\ query' \in [Users -> QueryStates]
           /\ query'[u].at = query[u].at /\ query'[u].range = query[u].range
           /\ query'[u].binds = b /\ query'[u].ran = k
           /\ Query(u)' = Query(u) /\ Query(u) \in QueryConfigs
<1>1. query \in [Users -> QueryStates] /\ query[u] \in QueryStates
  BY DEF IInv, HistoryTypes
<1>2. With(query[u], b, k) = [at |-> query[u].at, range |-> query[u].range, binds |-> b, ran |-> k]
  BY DEF With, QueryUnderWay
<1>3. With(query[u], b, k) \in QueryStates
  BY <1>1, <1>2 DEF QueryStates
<1>4. query'[u] = With(query[u], b, k) /\ query' \in [Users -> QueryStates]
  BY <1>1, <1>3
<1>5. query[u].at \in DOMAIN cfg.queries /\ cfg \in Configs
  BY UserTyped DEF UserInv, BindsInOrder
<1>6. Query(u) \in QueryConfigs
  BY <1>5, SettingsTyped DEF Query
<1> QED BY <1>2, <1>4, <1>6 DEF Query

\* Going on in a call keeps what is known of the time range.
LEMMA RangeKept ==
    ASSUME IInv, NEW u \in Users, pc[u] \in Busy, cfg' = cfg,
           Query(u)' = Query(u), query'[u].range = query[u].range,
           range' = range, UNCHANGED history
    PROVE  RangeHeld(u)'
<1>1. RangeHeld(u)
  BY UserTyped DEF UserInv
<1>2. UsesDefault(u)' <=> UsesDefault(u)
  BY DEF UsesDefault
<1> QED BY <1>1, <1>2 DEF RangeHeld, history, PerLoop

\* The end of getWorkloadBinds: the query receives the workflow's binds b, which
\* are kept, or are this call's own.
LEMMA ReceiveIInv ==
    ASSUME IInv, NEW u \in Users, pc[u] = "shared", NEW b \in BindMaps, Complete(b),
           Receive(u, b), UNCHANGED <<cfg, ctx, launched, returned, index, range, history>>,
           cached' \in [Users -> BOOLEAN], binds' \in [Users -> BindMaps],
           \A v \in Users : v # u => cached'[v] = cached[v] /\ binds'[v] = binds[v],
           cached'[u] => Complete(binds'[u]),
           cfg.preflightCadence = "per_query" => \A n \in DOMAIN b : b[n].call = calls[u],
           cfg.preflightCadence # "per_query" =>
             /\ cached'[u] /\ binds'[u] = b
             /\ \E c \in 0 .. MaxCalls :
                  /\ PerLoop(cfg.preflightCadence) => c >= pass[u]
                  /\ \A n \in DOMAIN b : b[n].call = c
                  /\ \A x \in sampled[u] : x[1] = "fetch" => x[2] = c
    PROVE  IInv'
<1> DEFINE q == Query(u)
           d == Bind(q.vars, "query_var", calls[u], b)
<1>1. calls[u] \in 0 .. MaxCalls /\ UserInv(u) /\ cfg \in Configs
  BY UserTyped
<1>2. q \in QueryConfigs
  <2>1. query[u].at \in DOMAIN cfg.queries
    BY <1>1 DEF UserInv, BindsInOrder, Busy
  <2> QED BY <1>1, <2>1, SettingsTyped DEF Query
<1>3. d \in BindMaps
  <2>1. q.vars \in SUBSET Names /\ "query_var" \in Sources
    BY <1>2, QueryTyped DEF Sources
  <2> HIDE DEF q
  <2> QED BY <1>1, <2>1, BindTyped
<1>4. query' = [query EXCEPT ![u] = With(@, d, 0)]
  BY DEF Receive
<1>5. pc' = [pc EXCEPT ![u] = IF q.preflights = <<>> THEN "exec" ELSE "own"]
  BY DEF Receive, Goto
<1>6. \A n : /\ n \in DOMAIN d <=> n \in q.vars \/ n \in DOMAIN b
             /\ n \in q.vars => d[n] = [by |-> "query_var", call |-> calls[u]]
             /\ n \in DOMAIN b /\ n \notin q.vars => d[n] = b[n]
  BY BindResult
<1>7. OwnBinds(q, d, 0)
  BY OwnGrows
<1> HIDE DEF d, q
<1>8. /\ query' \in [Users -> QueryStates]
      /\ query'[u].at = query[u].at /\ query'[u].range = query[u].range
      /\ query'[u].binds = d /\ query'[u].ran = 0
      /\ Query(u)' = q
  <2>1. pc[u] \in Busy /\ cfg' = cfg /\ 0 \in Nat
    BY DEF Busy
  <2>2. q = Query(u)
    BY DEF q
  <2> QED BY <1>3, <1>4, <2>1, <2>2, WithBinds, Zenon
<1>9. pc \in [Users -> Places] /\ pc' \in [Users -> Places]
  BY <1>5 DEF IInv, TypeOK, Places
<1>10. TypeOK' /\ HistoryTypes'
  BY <1>8, <1>9 DEF IInv, TypeOK, HistoryTypes, Places, history
<1>11. Others(u)
  BY <1>4, <1>5, <1>9 DEF Others, SameState, history, IInv, HistoryTypes
<1>12. /\ pc'[u] \in {"own", "exec"}
       /\ pc'[u] = "own" => 0 < Len(q.preflights)
       /\ pc'[u] = "exec" => Len(q.preflights) = 0
  BY <1>2, <1>5, <1>9, QueryTyped
<1>13. BindsInOrder(u)'
  <2>1. cached'[u] => Complete(binds[u])'
    BY DEF Complete, SharedBinds
  <2>2. query'[u].at \in DOMAIN cfg.queries
    BY <1>1, <1>8 DEF UserInv, BindsInOrder, Busy
  <2>3. OwnBinds(Query(u), query[u].binds, query[u].ran)'
    BY <1>7, <1>8 DEF OwnBinds
  <2>4. Len(q.preflights) = 0 => OwnBinds(Query(u), query[u].binds, Len(Query(u).preflights))'
    BY <1>7, <1>8 DEF OwnBinds
  <2> QED BY <1>8, <1>12, <2>1, <2>2, <2>3, <2>4 DEF BindsInOrder
<1>14. RangeHeld(u)'
  BY <1>8, RangeKept DEF q, Busy
<1>15. FetchHeld(u)'
  <2>1. ASSUME cfg.preflightCadence # "per_query"
        PROVE  cached'[u] /\ \E c \in 0 .. MaxCalls : FetchedIn(u, c)'
    BY <2>1 DEF FetchedIn, history, PerLoop
  <2>2. ASSUME NEW n, FromWorkflow(d, n)
        PROVE  n \in DOMAIN b /\ d[n] = b[n]
    BY <1>6, <2>2 DEF FromWorkflow
  <2>3. \A n : FromWorkflow(query'[u].binds, n) =>
            IF cfg.preflightCadence = "per_query" THEN query'[u].binds[n].call = calls'[u]
            ELSE /\ cached'[u] /\ n \in DOMAIN binds'[u]
                 /\ query'[u].binds[n].call = binds'[u][n].call
    BY <1>8, <2>2 DEF history
  <2>4. pc'[u] # "shared"
    BY <1>12
  <2> QED BY <2>1, <2>3, <2>4 DEF FetchHeld, FromWorkflow
<1>16. UserInv(u)'
  BY <1>1, <1>13, <1>14, <1>15 DEF UserInv, history
<1> QED BY <1>10, <1>11, <1>16, OneUser

\* The cached binds are handed out again.
LEMMA CachedBindsIInv ==
    ASSUME IInv, NEW u \in Users, CachedBinds(u)
    PROVE  IInv'
<1>1. pc[u] = "shared" /\ cached[u] /\ cfg.preflightCadence # "per_query"
  BY DEF CachedBinds
<1>2. binds[u] \in BindMaps /\ UserInv(u)
  BY UserTyped
<1>3. Complete(binds[u])
  BY <1>1, <1>2 DEF UserInv, BindsInOrder
<1>4. PICK c \in 0 .. MaxCalls : FetchedIn(u, c)
  BY <1>1, <1>2 DEF UserInv, FetchHeld
<1>5. /\ Receive(u, binds[u]) /\ cached' = cached /\ binds' = binds
      /\ UNCHANGED <<cfg, ctx, launched, returned, index, range, history>>
  BY DEF CachedBinds, workflow
<1>6. cached' \in [Users -> BOOLEAN] /\ binds' \in [Users -> BindMaps]
  BY <1>5 DEF IInv, TypeOK, HistoryTypes
<1> QED BY <1>1, <1>2, <1>3, <1>4, <1>5, <1>6, ReceiveIInv DEF FetchedIn

\* A fetch of the workflow's binds: everything is bound in this call, and what
\* is kept in the end is complete.
LEMMA SharedPreflightIInv ==
    ASSUME IInv, NEW u \in Users, SharedPreflight(u)
    PROVE  IInv'
<1> DEFINE ran == query[u].ran
           N == Len(cfg.preflights)
           before == IF ran = 0 THEN Bind(cfg.vars, "var", calls[u], NoBinds) ELSE query[u].binds
<1>1. /\ calls[u] \in 0 .. MaxCalls /\ pass[u] \in 0 .. MaxCalls /\ UserInv(u) /\ cfg \in Configs
      /\ query[u] \in QueryStates
  BY UserTyped
<1>2. /\ pc[u] = "shared" /\ (cfg.preflightCadence # "per_query" => ~cached[u])
      /\ UNCHANGED <<cfg, ctx, launched, returned, index, range, history>>
  BY DEF SharedPreflight
<1>3. ran \in Nat /\ N \in Nat /\ ran =< N /\ query[u].binds \in BindMaps
  BY <1>1, <1>2, SettingsTyped DEF UserInv, BindsInOrder, QueryStates
<1>4. before \in BindMaps
  <2>1. cfg.vars \in SUBSET Names /\ "var" \in Sources /\ NoBinds \in BindMaps
    BY <1>1, SettingsTyped, NoBindsTyped DEF Sources
  <2>2. Bind(cfg.vars, "var", calls[u], NoBinds) \in BindMaps
    BY <1>1, <2>1, BindTyped
  <2> QED BY <1>3, <2>2
<1>5. SharedBinds(before, ran)
  <2>1. CASE ran = 0
    <3>1. SharedBinds(Bind(cfg.vars, "var", calls[u], NoBinds), 0)
      BY SharedGrows
    <3> QED BY <2>1, <3>1
  <2>2. CASE ran # 0
    BY <1>1, <1>2, <1>3, <2>2 DEF UserInv, BindsInOrder
  <2> QED BY <2>1, <2>2
<1>6. \A n \in DOMAIN before : before[n].call = calls[u]
  <2>1. CASE ran = 0
    <3> DEFINE d == Bind(cfg.vars, "var", calls[u], NoBinds)
    <3>1. \A n : /\ n \in DOMAIN d => n \in cfg.vars
                 /\ n \in cfg.vars => d[n] = [by |-> "var", call |-> calls[u]]
      BY BindResult, NoBindsTyped
    <3> HIDE DEF d
    <3>2. \A n \in DOMAIN d : d[n].call = calls[u]
      BY <3>1
    <3> QED BY <2>1, <3>2 DEF d
  <2>2. CASE ran # 0
    BY <1>1, <1>2, <1>3, <2>2 DEF UserInv, FetchHeld
  <2> QED BY <2>1, <2>2
<1>7. CASE /\ ran < N
           /\ query' = [query EXCEPT ![u] =
                  With(@, Bind(cfg.preflights[ran + 1], "preflight", calls[u], before), ran + 1)]
           /\ UNCHANGED <<pc, cached, binds>>
  <2> DEFINE names == cfg.preflights[ran + 1]
             d == Bind(names, "preflight", calls[u], before)
  <2> HIDE DEF before
  <2>1. names \in SUBSET Names /\ "preflight" \in Sources
    <3>1. cfg.preflights \in Seq(SUBSET Names) /\ ran + 1 \in 1 .. Len(cfg.preflights)
      BY <1>1, <1>3, <1>7, SettingsTyped
    <3> QED BY <3>1, ElementOfSeq DEF Sources
  <2>2. d \in BindMaps
    BY <1>1, <1>4, <2>1, BindTyped
  <2>3. SharedBinds(d, ran + 1)
    BY <1>3, <1>5, SharedGrows
  <2>4. \A n : /\ n \in DOMAIN d <=> n \in names \/ n \in DOMAIN before
               /\ n \in names => d[n] = [by |-> "preflight", call |-> calls[u]]
               /\ n \in DOMAIN before /\ n \notin names => d[n] = before[n]
    BY BindResult
  <2>5. query' = [query EXCEPT ![u] = With(@, d, ran + 1)]
    BY <1>7
  <2> HIDE DEF d, names
  <2>6. \A n \in DOMAIN d : d[n].call = calls[u]
    BY <1>6, <2>4
  <2>7. ran + 1 \in Nat /\ ran + 1 =< N
    BY <1>3, <1>7
  <2>8. /\ query' \in [Users -> QueryStates]
        /\ query'[u].at = query[u].at /\ query'[u].range = query[u].range
        /\ query'[u].binds = d /\ query'[u].ran = ran + 1
        /\ Query(u)' = Query(u)
    BY <1>2, <2>2, <2>5, <2>7, WithBinds DEF Busy
  <2>9. pc' = pc /\ cached' = cached /\ binds' = binds
    BY <1>7
  <2>10. TypeOK' /\ HistoryTypes'
    BY <1>2, <2>8, <2>9 DEF IInv, TypeOK, HistoryTypes, history
  <2>11. Others(u)
    BY <1>2, <2>5, <2>9 DEF Others, SameState, history, IInv, HistoryTypes
  <2>12. BindsInOrder(u)'
    <3>1. cached'[u] => Complete(binds[u])'
      BY <1>1, <1>2, <2>9 DEF UserInv, BindsInOrder, Complete, SharedBinds
    <3>2. query'[u].at \in DOMAIN cfg.queries
      BY <1>1, <1>2, <2>8 DEF UserInv, BindsInOrder, Busy
    <3>3. SharedBinds(query[u].binds, query[u].ran)'
      BY <1>2, <2>3, <2>8 DEF SharedBinds
    <3> QED BY <1>2, <2>7, <2>8, <2>9, <3>1, <3>2, <3>3 DEF BindsInOrder
  <2>13. RangeHeld(u)'
    BY <1>2, <2>8, RangeKept DEF Busy
  <2>14. FetchHeld(u)'
    <3>1. \A c : FetchedIn(u, c) => FetchedIn(u, c)'
      BY <1>2, <2>9 DEF FetchedIn, history, PerLoop
    <3> QED BY <1>1, <1>2, <2>6, <2>8, <2>9, <3>1 DEF UserInv, FetchHeld, history
  <2>15. UserInv(u)'
    BY <1>1, <1>2, <2>12, <2>13, <2>14 DEF UserInv, history
  <2> QED BY <2>10, <2>11, <2>15, OneUser
<1>8. CASE ran = N /\ Receive(u, before) /\ Keep(u, before)
  <2> HIDE DEF before
  <2>1. Complete(before)
    BY <1>5, <1>8 DEF Complete
  <2>2. cached \in [Users -> BOOLEAN] /\ binds \in [Users -> BindMaps]
    BY DEF IInv, TypeOK, HistoryTypes
  <2>3. CASE cfg.preflightCadence = "per_query"
    <3>1. cached' = cached /\ binds' = binds
      BY <1>8, <2>3 DEF Keep
    <3>2. cached'[u] => Complete(binds'[u])
      BY <1>1, <3>1 DEF UserInv, BindsInOrder
    <3> QED BY <1>2, <1>4, <1>6, <1>8, <2>1, <2>2, <2>3, <3>1, <3>2, ReceiveIInv
  <2>4. CASE cfg.preflightCadence # "per_query"
    <3>1. cached' = [cached EXCEPT ![u] = TRUE] /\ binds' = [binds EXCEPT ![u] = before]
      BY <1>8, <2>4 DEF Keep
    <3>2. cached' \in [Users -> BOOLEAN] /\ cached'[u]
      BY <2>2, <3>1
    <3>3. binds' \in [Users -> BindMaps] /\ binds'[u] = before
      BY <1>4, <2>2, <3>1
    <3>4. \A v \in Users : v # u => cached'[v] = cached[v] /\ binds'[v] = binds[v]
      BY <2>2, <3>1
    <3>5. \A x \in sampled[u] : x[1] # "fetch"
      BY <1>1, <1>2, <2>4 DEF UserInv, FetchHeld
    <3>6. calls[u] >= pass[u]
      BY <1>1 DEF UserInv
    <3> QED BY <1>1, <1>2, <1>4, <1>6, <1>8, <2>1, <2>4, <3>2, <3>3, <3>4, <3>5, <3>6, ReceiveIInv
  <2> QED BY <2>3, <2>4
<1> QED BY <1>7, <1>8 DEF SharedPreflight

\* The query's own preflights override, in its own map only.
LEMMA OwnPreflightIInv ==
    ASSUME IInv, NEW u \in Users, OwnPreflight(u)
    PROVE  IInv'
<1> DEFINE ran == query[u].ran
           q == Query(u)
           names == q.preflights[ran + 1]
           b == query[u].binds
           d == Bind(names, "query_preflight", calls[u], b)
<1>1. /\ calls[u] \in 0 .. MaxCalls /\ UserInv(u) /\ cfg \in Configs /\ query[u] \in QueryStates
  BY UserTyped
<1>2. pc[u] = "own" /\ UNCHANGED <<cfg, ctx, launched, returned, workflow, history>>
  BY DEF OwnPreflight
<1>3. ran \in Nat /\ b \in BindMaps /\ ran < Len(q.preflights) /\ OwnBinds(q, b, ran)
  BY <1>1, <1>2 DEF UserInv, BindsInOrder, QueryStates
<1>4. q \in QueryConfigs
  <2>1. query[u].at \in DOMAIN cfg.queries
    BY <1>1, <1>2 DEF UserInv, BindsInOrder, Busy
  <2> QED BY <1>1, <2>1, SettingsTyped DEF Query
<1>5. Len(q.preflights) \in Nat /\ names \in SUBSET Names
  <2>1. Len(q.preflights) \in Nat /\ \A i \in 1 .. Len(q.preflights) : q.preflights[i] \subseteq Names
    BY <1>4, QueryTyped
  <2> QED BY <1>3, <2>1
<1>6. query' = [query EXCEPT ![u] = With(@, d, ran + 1)]
  BY DEF OwnPreflight
<1>7. pc' = IF ran + 1 = Len(q.preflights) THEN [pc EXCEPT ![u] = "exec"] ELSE pc
  BY DEF OwnPreflight, Goto
<1>8. OwnBinds(q, d, ran + 1)
  BY <1>3, OwnGrows
<1>9. \A n : /\ n \in DOMAIN d <=> n \in names \/ n \in DOMAIN b
             /\ n \in names => d[n] = [by |-> "query_preflight", call |-> calls[u]]
             /\ n \in DOMAIN b /\ n \notin names => d[n] = b[n]
  BY BindResult
<1>10. d \in BindMaps
  <2>1. "query_preflight" \in Sources
    BY DEF Sources
  <2> HIDE DEF names, b
  <2> QED BY <1>1, <1>3, <1>5, <2>1, BindTyped
<1> HIDE DEF d, names, q
<1>11. ran + 1 \in Nat
  BY <1>3
<1>12. /\ query' \in [Users -> QueryStates]
       /\ query'[u].at = query[u].at /\ query'[u].range = query[u].range
       /\ query'[u].binds = d /\ query'[u].ran = ran + 1
       /\ Query(u)' = q
  <2>1. pc[u] \in Busy /\ cfg' = cfg
    BY <1>2 DEF Busy
  <2>2. q = Query(u)
    BY DEF q
  <2> DEFINE r == ran + 1
  <2>3. r \in Nat /\ query' = [query EXCEPT ![u] = With(@, d, r)]
    BY <1>6, <1>11
  <2> HIDE DEF r
  <2>4. /\ query' \in [Users -> QueryStates]
        /\ query'[u].at = query[u].at /\ query'[u].range = query[u].range
        /\ query'[u].binds = d /\ query'[u].ran = r
        /\ Query(u)' = Query(u)
    BY <1>10, <2>1, <2>3, WithBinds, Zenon
  <2> QED BY <2>2, <2>4 DEF r
<1>13. pc \in [Users -> Places] /\ pc' \in [Users -> Places]
  BY <1>7 DEF IInv, TypeOK, Places
<1>14. TypeOK' /\ HistoryTypes'
  BY <1>2, <1>12, <1>13 DEF IInv, TypeOK, HistoryTypes, Places, history, workflow
<1>15. Others(u)
  BY <1>2, <1>6, <1>7, <1>13 DEF Others, SameState, history, workflow, IInv, HistoryTypes
<1>16. /\ pc'[u] \in {"own", "exec"}
       /\ pc'[u] = "own" => ran + 1 < Len(q.preflights)
       /\ pc'[u] = "exec" => ran + 1 = Len(q.preflights)
  BY <1>2, <1>3, <1>5, <1>7, <1>13
<1>17. BindsInOrder(u)'
  <2>1. cached'[u] => Complete(binds[u])'
    BY <1>1, <1>2 DEF UserInv, BindsInOrder, Complete, SharedBinds, workflow
  <2>2. query'[u].at \in DOMAIN cfg.queries
    BY <1>1, <1>2, <1>12 DEF UserInv, BindsInOrder, Busy
  <2>3. OwnBinds(Query(u), query[u].binds, query[u].ran)'
    BY <1>2, <1>8, <1>12 DEF OwnBinds
  <2>4. ran + 1 = Len(q.preflights) =>
          OwnBinds(Query(u), query[u].binds, Len(Query(u).preflights))'
    BY <1>2, <1>8, <1>12 DEF OwnBinds
  <2> QED BY <1>2, <1>12, <1>16, <2>1, <2>2, <2>3, <2>4 DEF BindsInOrder
<1>18. RangeHeld(u)'
  BY <1>2, <1>12, RangeKept DEF q, Busy, workflow
<1>19. FetchHeld(u)'
  <2>1. \A c : FetchedIn(u, c) => FetchedIn(u, c)'
    BY <1>2 DEF FetchedIn, history, workflow, PerLoop
  <2>2. ASSUME NEW n, FromWorkflow(d, n)
        PROVE  FromWorkflow(b, n) /\ d[n] = b[n]
    BY <1>9, <2>2 DEF FromWorkflow
  <2>3. pc'[u] # "shared" /\ cached' = cached /\ binds' = binds /\ calls' = calls
        /\ sampled' = sampled /\ cfg' = cfg
    BY <1>2, <1>16 DEF workflow, history
  <2>4. \A n : FromWorkflow(query'[u].binds, n) =>
            IF cfg.preflightCadence = "per_query" THEN query'[u].binds[n].call = calls[u]
            ELSE /\ cached[u] /\ n \in DOMAIN binds[u]
                 /\ query'[u].binds[n].call = binds[u][n].call
    BY <1>1, <1>2, <1>12, <2>2 DEF UserInv, FetchHeld
  <2>5. cfg.preflightCadence # "per_query" =>
         IF cached[u] THEN \E c \in 0 .. MaxCalls : FetchedIn(u, c)'
                      ELSE \A x \in sampled[u] : x[1] # "fetch"
    BY <1>1, <2>1 DEF UserInv, FetchHeld
  <2> QED BY <2>3, <2>4, <2>5 DEF FetchHeld, FromWorkflow
<1>20. UserInv(u)'
  BY <1>1, <1>2, <1>17, <1>18, <1>19 DEF UserInv, history
<1> QED BY <1>14, <1>15, <1>20, OneUser

\* What the query about to run uses is what the user holds.
LEMMA SamplesHeld ==
    ASSUME IInv, NEW u \in Users, pc[u] = "exec"
    PROVE  /\ Samples(u) \subseteq {"range", "fetch"} \X (0 .. MaxCalls)
           /\ \A x \in Samples(u) : x[1] = "range" =>
                /\ x[2] = range[u] /\ range[u] # None
                /\ cfg.rangeCadence = "per_query" => x[2] = calls[u]
           /\ \A x \in Samples(u) : x[1] = "fetch" =>
                IF cfg.preflightCadence = "per_query" THEN x[2] = calls[u]
                ELSE cached[u] /\ \A c : FetchedIn(u, c) => x[2] = c
<1> DEFINE b == query[u].binds
<1>1. UserInv(u) /\ query[u] \in QueryStates
  BY UserTyped
<1>2. query[u].range \in 0 .. MaxCalls /\ b \in BindMaps
  BY <1>1 DEF QueryStates
<1>3. PICK S \in SUBSET Names : b \in [S -> [by : Sources, call : 0 .. MaxCalls]]
  BY <1>2 DEF BindMaps
<1>4. ASSUME NEW x \in Samples(u)
      PROVE  \/ x = <<"range", query[u].range>> /\ UsesDefault(u)
             \/ \E n : FromWorkflow(b, n) /\ x = <<"fetch", b[n].call>>
  BY <1>4 DEF Samples, UsesDefault, FromWorkflow
<1>5. ASSUME NEW x \in Samples(u), x = <<"range", query[u].range>>, UsesDefault(u)
      PROVE  /\ x \in {"range", "fetch"} \X (0 .. MaxCalls)
             /\ x[1] = "range" /\ x[2] = range[u] /\ range[u] # None
             /\ cfg.rangeCadence = "per_query" => x[2] = calls[u]
  BY <1>1, <1>2, <1>5 DEF UserInv, RangeHeld, Busy
<1>6. ASSUME NEW x \in Samples(u), NEW n, FromWorkflow(b, n), x = <<"fetch", b[n].call>>
      PROVE  /\ x \in {"range", "fetch"} \X (0 .. MaxCalls)
             /\ x[1] = "fetch"
             /\ IF cfg.preflightCadence = "per_query" THEN x[2] = calls[u]
                ELSE cached[u] /\ \A c : FetchedIn(u, c) => x[2] = c
  <2>1. b[n].call \in 0 .. MaxCalls
    BY <1>3, <1>6 DEF FromWorkflow
  <2>2. IF cfg.preflightCadence = "per_query" THEN b[n].call = calls[u]
        ELSE cached[u] /\ n \in DOMAIN binds[u] /\ b[n].call = binds[u][n].call
    BY <1>1, <1>6 DEF UserInv, FetchHeld
  <2>3. x[1] = "fetch" /\ x[2] = b[n].call
    BY <1>6
  <2> QED BY <1>6, <2>1, <2>2, <2>3 DEF FetchedIn
<1>7. ASSUME NEW x \in Samples(u)
      PROVE  /\ x \in {"range", "fetch"} \X (0 .. MaxCalls)
             /\ x[1] = "range" => /\ x[2] = range[u] /\ range[u] # None
                                  /\ cfg.rangeCadence = "per_query" => x[2] = calls[u]
             /\ x[1] = "fetch" => IF cfg.preflightCadence = "per_query" THEN x[2] = calls[u]
                                  ELSE cached[u] /\ \A c : FetchedIn(u, c) => x[2] = c
  <2>1. CASE x = <<"range", query[u].range>> /\ UsesDefault(u)
    BY <1>5, <2>1
  <2>2. CASE \E n : FromWorkflow(b, n) /\ x = <<"fetch", b[n].call>>
    BY <1>6, <2>2
  <2> QED BY <1>4, <2>1, <2>2
<1> QED BY <1>7

\* A query that has run adds what it used to the history of the pass.
LEMMA ExecIInv ==
    ASSUME IInv, NEW u \in Users, Exec(u)
    PROVE  IInv'
<1>1. UserInv(u) /\ cfg \in Configs /\ sampled[u] \subseteq {"range", "fetch"} \X (0 .. MaxCalls)
  BY UserTyped
<1>2. pc[u] = "exec" /\ UNCHANGED <<cfg, ctx, launched, returned, workflow, query, calls, pass>>
  BY DEF Exec
<1>3. \E l \in {"top", "think"} : pc' = [pc EXCEPT ![u] = l]
  BY DEF Exec, Goto
<1>4. sampled' = [sampled EXCEPT ![u] = @ \cup Samples(u)]
  BY DEF Exec
<1>5. pc \in [Users -> Places] /\ pc' \in [Users -> Places] /\ pc'[u] \notin Busy
  BY <1>3 DEF IInv, TypeOK, Places, Busy
<1>6. sampled' \in [Users -> SUBSET ({"range", "fetch"} \X (0 .. MaxCalls))]
      /\ sampled'[u] = sampled[u] \cup Samples(u)
  BY <1>1, <1>2, <1>4, SamplesHeld DEF IInv, HistoryTypes
<1>7. TypeOK' /\ HistoryTypes'
  BY <1>2, <1>5, <1>6 DEF IInv, TypeOK, HistoryTypes, Places, workflow
<1>8. Others(u)
  BY <1>2, <1>3, <1>4, <1>5 DEF Others, SameState, workflow, IInv, HistoryTypes
<1>9. BindsInOrder(u)'
  BY <1>1, <1>2, <1>5 DEF UserInv, BindsInOrder, Busy, Complete, SharedBinds, workflow
<1>10. RangeHeld(u)'
  BY <1>1, <1>2, <1>5, <1>6, SamplesHeld DEF UserInv, RangeHeld, PerLoop, workflow
<1>11. FetchHeld(u)'
  <2>1. ASSUME cfg.preflightCadence # "per_query", cached[u]
        PROVE  \E c \in 0 .. MaxCalls : FetchedIn(u, c)'
    <3>1. PICK c \in 0 .. MaxCalls : FetchedIn(u, c)
      BY <1>1, <2>1 DEF UserInv, FetchHeld
    <3>2. \A x \in Samples(u) : x[1] = "fetch" => x[2] = c
      BY <1>2, <2>1, <3>1, SamplesHeld
    <3> QED BY <1>2, <1>6, <3>1, <3>2 DEF FetchedIn, PerLoop, workflow
  <2>2. ASSUME cfg.preflightCadence # "per_query", ~cached[u]
        PROVE  \A x \in sampled'[u] : x[1] # "fetch"
    BY <1>1, <1>2, <1>6, <2>2, SamplesHeld DEF UserInv, FetchHeld
  <2> QED BY <1>2, <1>5, <2>1, <2>2 DEF FetchHeld, Busy, workflow
<1>12. UserInv(u)'
  BY <1>1, <1>2, <1>9, <1>10, <1>11 DEF UserInv
<1> QED BY <1>7, <1>8, <1>12, OneUser
-----------------------------------------------------------------------------
LEMMA InvariantHolds == Spec => []IInv
<1>1. IInv /\ [Next]_vars => IInv'
  <2> SUFFICES ASSUME IInv, [Next]_vars PROVE IInv'
    OBVIOUS
  <2>1. CASE UNCHANGED vars
    <3>1. TypeOK' /\ HistoryTypes'
      BY <2>1 DEF IInv, TypeOK, HistoryTypes, vars, workflow, history
    <3>2. ASSUME NEW v \in Users PROVE UserInv(v)'
      <4>1. SameState(v) /\ pc'[v] = pc[v] /\ cfg' = cfg /\ UserInv(v)
        BY <2>1 DEF SameState, vars, workflow, history, IInv
      <4> QED BY <4>1, FrameKeeps
    <3> QED BY <3>1, <3>2 DEF IInv
  <2>2. ASSUME NEW u \in Users, User(u) PROVE IInv'
    <3>1. CASE \/ Backoff(u) \/ SharedPreflightFails(u) \/ OwnPreflightFails(u)
               \/ Think(u) \/ Leave(u)
      BY <3>1, MovingSteps, MovesIInv
    <3> QED BY <2>2, <3>1, NewWorkerIInv, NextQueryIInv, CachedBindsIInv, SharedPreflightIInv,
               OwnPreflightIInv, ExecIInv DEF User
  <2> QED BY <2>1, <2>2, SchedulerIInv DEF Next
<1> QED BY <1>1, InitIInv, PTL DEF Spec

(***************************************************************************)
(* All variables keep their types: the index of a workflow never leaves    *)
(* the naturals, whatever ResetLoop takes back (workflow.go).              *)
(***************************************************************************)
THEOREM TypeCorrect == Spec => []TypeOK
<1>1. IInv => TypeOK
  BY DEF IInv
<1> QED BY <1>1, InvariantHolds, PTL

(***************************************************************************)
(* A query runs with exactly the binds that its settings define, each from *)
(* the most specific source: the cached map is never changed by a query's  *)
(* own vars and preflights (workflow.go NextQuery, getWorkloadBinds,       *)
(* execPreflights), for any settings and any history of failures.          *)
(***************************************************************************)
THEOREM MostSpecificBindWins == Spec => []BindsPrecede
<1>1. IInv => BindsPrecede
  <2> SUFFICES ASSUME IInv, NEW u \in Users, pc[u] = "exec"
               PROVE  /\ DOMAIN query[u].binds =
                           cfg.vars \cup Answers(cfg.preflights)
                             \cup Query(u).vars \cup Answers(Query(u).preflights)
                      /\ \A n \in DOMAIN query[u].binds : query[u].binds[n].by = Source(u, n)
    BY DEF BindsPrecede
  <2> DEFINE b == query[u].binds
             q == Query(u)
  <2>1. cfg \in Configs /\ UserInv(u)
    BY UserTyped
  <2>2. OwnBinds(q, b, Len(q.preflights)) /\ query[u].at \in DOMAIN cfg.queries
    BY <2>1 DEF UserInv, BindsInOrder, Busy
  <2>3. q \in QueryConfigs
    BY <2>1, <2>2, SettingsTyped DEF Query
  <2>4. /\ DOMAIN q.preflights = 1 .. Len(q.preflights)
        /\ DOMAIN cfg.preflights = 1 .. Len(cfg.preflights)
    BY <2>1, <2>3, SettingsTyped, QueryTyped
  <2>5. \A n : /\ n \in Answers(q.preflights) <=> Asked(q.preflights, Len(q.preflights), n)
               /\ n \in Answers(cfg.preflights) <=> Asked(cfg.preflights, Len(cfg.preflights), n)
    BY <2>4 DEF Asked, Answers
  <2>6. \A n \in DOMAIN b : b[n].by = Source(u, n)
    BY <2>2, <2>5 DEF OwnBinds, Source
  <2>7. \A n : n \in DOMAIN b <=> n \in cfg.vars \cup Answers(cfg.preflights)
                                         \cup q.vars \cup Answers(q.preflights)
    BY <2>2, <2>5 DEF OwnBinds
  <2> QED BY <2>6, <2>7
<1> QED BY <1>1, InvariantHolds, PTL

\* A set with at most one element.
LEMMA AtMostOne ==
    ASSUME NEW S, NEW c, S \subseteq {c}
    PROVE  Cardinality(S) =< 1
<1>1. S = {} \/ S = {c}
  OBVIOUS
<1> QED BY <1>1, FS_EmptySet, FS_Singleton

(***************************************************************************)
(* Time ranges and binds are sampled as often as the settings say, and no  *)
(* more often: one range and one fetch for all queries of a pass, taken in *)
(* that pass, or one fetch for ever, or a query's own, through failed      *)
(* preflights, ResetLoop and replaced workers (workflow.go                 *)
(* resolveTimeRange, getWorkloadBinds, nextQueryConfig).                   *)
(***************************************************************************)
THEOREM CadencesKept == Spec => []SampledAsConfigured
<1>1. IInv => SampledAsConfigured
  <2> SUFFICES ASSUME IInv, NEW u \in Users, pc[u] = "exec"
               PROVE  /\ Cadence(u, "range", cfg.rangeCadence)
                      /\ Cadence(u, "fetch", cfg.preflightCadence)
    BY DEF SampledAsConfigured
  <2>1. cfg \in Configs /\ UserInv(u) /\ range[u] \in 0 .. MaxCalls
    BY UserTyped
  <2>2. cfg.rangeCadence \in {"per_query", "per_loop"}
    BY <2>1, SettingsTyped
  <2>3. \A what, t : t \in Draws(u, what) <=>
          \E x \in sampled[u] \cup Samples(u) : x[1] = what /\ x[2] = t
    BY DEF Draws
  <2>4. Cadence(u, "range", cfg.rangeCadence)
    <3>1. ASSUME PerLoop(cfg.rangeCadence)
          PROVE  /\ Draws(u, "range") \subseteq {range[u]}
                 /\ \A t \in Draws(u, "range") : t >= pass[u]
      <4>1. \A x \in sampled[u] \cup Samples(u) : x[1] = "range" => x[2] = range[u] /\ range[u] # None
        BY <2>1, <3>1, SamplesHeld DEF UserInv, RangeHeld
      <4>2. \A t \in Draws(u, "range") : t = range[u] /\ range[u] # None
        BY <2>3, <4>1
      <4> QED BY <2>1, <3>1, <4>2 DEF UserInv, RangeHeld
    <3>2. PerLoop(cfg.rangeCadence) => Cardinality(Draws(u, "range")) =< 1
      BY <3>1, AtMostOne
    <3>3. cfg.rangeCadence = "per_query" => \A x \in Samples(u) : x[1] = "range" => x[2] = calls[u]
      BY SamplesHeld
    <3> QED BY <2>2, <3>1, <3>2, <3>3 DEF Cadence
  <2>5. Cadence(u, "fetch", cfg.preflightCadence)
    <3>1. ASSUME cfg.preflightCadence # "per_query"
          PROVE  \E c \in 0 .. MaxCalls : /\ Draws(u, "fetch") \subseteq {c}
                                          /\ PerLoop(cfg.preflightCadence) => c >= pass[u]
      <4>1. CASE cached[u]
        <5>1. PICK c \in 0 .. MaxCalls : FetchedIn(u, c)
          BY <2>1, <3>1, <4>1 DEF UserInv, FetchHeld
        <5>2. \A x \in sampled[u] \cup Samples(u) : x[1] = "fetch" => x[2] = c
          BY <3>1, <5>1, SamplesHeld DEF FetchedIn
        <5>3. Draws(u, "fetch") \subseteq {c}
          BY <2>3, <5>2
        <5> QED BY <5>1, <5>3 DEF FetchedIn
      <4>2. CASE ~cached[u]
        <5>1. \A x \in sampled[u] \cup Samples(u) : x[1] # "fetch"
          BY <2>1, <3>1, <4>2, SamplesHeld DEF UserInv, FetchHeld
        <5>2. Draws(u, "fetch") \subseteq {pass[u]}
          BY <2>3, <5>1
        <5>3. pass[u] \in 0 .. MaxCalls /\ pass[u] >= pass[u]
          BY UserTyped
        <5> QED BY <5>2, <5>3
      <4> QED BY <4>1, <4>2
    <3>2. ASSUME cfg.preflightCadence # "per_query"
          PROVE  /\ Cardinality(Draws(u, "fetch")) =< 1
                 /\ PerLoop(cfg.preflightCadence) => \A t \in Draws(u, "fetch") : t >= pass[u]
      <4>1. PICK c \in 0 .. MaxCalls : /\ Draws(u, "fetch") \subseteq {c}
                                       /\ PerLoop(cfg.preflightCadence) => c >= pass[u]
        BY <3>1, <3>2
      <4>2. Cardinality(Draws(u, "fetch")) =< 1
        BY <4>1, AtMostOne
      <4> QED BY <4>1, <4>2
    <3>3. cfg.preflightCadence = "per_query" =>
            \A x \in Samples(u) : x[1] = "fetch" => x[2] = calls[u]
      BY SamplesHeld
    <3> QED BY <3>2, <3>3 DEF Cadence, PerLoop
  <2> QED BY <2>4, <2>5
<1> QED BY <1>1, InvariantHolds, PTL

\* timerange.go:14-73, workflow.go:69-82. Every default time range that a user
\* holds, whenever in the course of its calls it was resolved, is sound, and the
\* ones of later calls do not go back in time.
THEOREM RangesStaySound == Spec => []RangesResolve
<1>1. ValidRanges \subseteq {c \in Settings : ValidRange(c)}
  <2>1. 0 .. 3 \subseteq Int /\ 0 .. 3 \subseteq Nat
    OBVIOUS
  <2>2. {0, 2} \subseteq Int /\ {0, 1} \subseteq Int /\ {0, 7} \subseteq Int /\ {0, 7, 9} \subseteq Int
    OBVIOUS
  <2>. QED
    BY <2>1, <2>2 DEF ValidRanges, Ranges, Settings
<1>2. ASSUME NEW t \in 1 .. MaxCalls PROVE RangeSound[t]
  <2>1. ASSUME NEW c \in ValidRanges PROVE IntervalSound(c, Time(t))
    <3>1. Time(t) \in Int
      BY DEF Time
    <3>. QED
      BY <1>1, <3>1, ValidRangesSound
  <2>2. ASSUME NEW c \in ValidRanges, NEW later \in t .. MaxCalls
        PROVE  WindowAdvances(c, Time(t), Time(later))
    <3>1. Time(t) \in Int /\ Time(later) \in Int /\ Time(t) =< Time(later)
      BY DEF Time
    <3>. QED
      BY <1>1, <3>1, WindowsAdvance
  <2>. QED
    BY <2>1, <2>2 DEF RangeSound
<1>3. IInv => RangesResolve
  <2>. SUFFICES ASSUME IInv, NEW u \in Users, range[u] # None
                PROVE  RangeSound[range[u]]
    BY DEF RangesResolve
  <2>1. range[u] \in 1 .. MaxCalls
    BY DEF IInv, TypeOK, None
  <2>. QED
    BY <1>2, <2>1
<1> QED BY <1>3, InvariantHolds, PTL
=============================================================================
