----------------------------- MODULE MetricGen -----------------------------
(***************************************************************************)
(* The metric generator, metricgen/{scheduler,worker,client,builder,       *)
(* resources}.go:                                                          *)
(* each worker sweeps its stripe of the series, adds one point per series  *)
(* and sweep to its request (and a staleness marker when the resource has  *)
(* been replaced), exports full requests with retries, and shares a        *)
(* lock-free cache of resources with the other workers.                    *)
(***************************************************************************)
EXTENDS MetricPlan

CONSTANTS
    Threads,           \* cfg.Threads
    Runs,              \* settings to consider: [sweeps, http, metrics], sweeps 0 = endless
    StalenessMarkers,  \* cfg.StalenessMarkers
    PointsPerRequest, ChunkSize,
    MaxFlushAttempts,  \* maxFlushAttempts (5 in the code)
    MaxSweep           \* bound: an endless run adds points up to this sweep

Workers == 0 .. Threads - 1
NoSlot == [gen |-> -1, prev |-> -1, res |-> -1]    \* a nil slot pointer
NoPoint == [k |-> -1, gen |-> 0, marker |-> FALSE, ts |-> 0, start |-> 0, value |-> <<>>]

ASSUME GenAssumption ==
    /\ Threads \in Nat \ {0} /\ ChunkSize \in Nat \ {0}
    /\ PointsPerRequest \in Nat \ {0} /\ MaxFlushAttempts \in Nat \ {0} /\ MaxSweep \in Nat
    /\ ValidTimes(IntervalMs, JitterMs, LifetimeMs, StalenessMarkers)
    /\ Runs \subseteq [sweeps : Nat, http : BOOLEAN, metrics : Seq(MetricDef)]
    /\ \A r \in Runs : \A i \in DOMAIN r.metrics :
          r.metrics[i] \in MetricDefs(r.metrics[i].typ, r.metrics[i].card)

VARIABLES
    run, cancelled,  \* the settings, ctx.Done() is closed
    pc, k, pos, ser, \* a worker's place: sweep, position in the table (i) and series (j)
    allowance,       \* points left of the chunk the limiter granted
    todo,            \* generations the point under way needs a group of (marker first)
    loaded,          \* the slot resourcePool.get has loaded
    groups,          \* builder.groups: by resource, generation and scope, the resource in it
    points,          \* builder.points
    attempt, then,   \* flush: the attempt, and where it was called from
    slots,           \* resourcePool.slots
    last,            \* history: the last point or marker of each series
    settled          \* history: points delivered or given up, by worker

place == <<pc, k, pos, ser, allowance, todo, loaded>>
request == <<groups, points, attempt, then, settled>>
vars == <<run, cancelled, place, request, slots, last>>

-----------------------------------------------------------------------------
(* Series *)

Metrics == 0 .. Len(run.metrics) - 1
Card(m) == run.metrics[m + 1].card
SeriesOf(metrics) == UNION {{<<m, x>> : x \in 0 .. metrics[m + 1].card - 1} : m \in 0 .. Len(metrics) - 1}
AllSeries == UNION {SeriesOf(r.metrics) : r \in Runs}    \* names of series for the history
Series == SeriesOf(run.metrics)
ResourceOf(s) == mix(s, 0, StructSalt) % Resources       \* makeSeriesRef: pinned to one resource
scopeIdx(s) == mix(s[1], 0, ScopeSalt)                   \* metricDef.scopeIdx

\* The loops of Run: metrics in the rotated order of the sweep, and of each the
\* series w, w + Threads, w + 2 * Threads ...
Endless == run.sweeps = 0
MetricAt(p, q) == metricAt(Len(run.metrics), p, q)
Current(w) == <<MetricAt(pos[w], k[w]), ser[w]>>
MoreSweeps(w) == Endless \/ k[w] < run.sweeps
MoreMetrics(w) == MoreSweeps(w) /\ pos[w] < Len(run.metrics)
MorePoints(w) == MoreMetrics(w) /\ ser[w] < Card(MetricAt(pos[w], k[w]))
\* The bound of an endless run: a worker adds no more points and is taken to be
\* at its next checkpoint.
AtBound(w) == Endless /\ k[w] = MaxSweep

\* StartTimeUnixNano of a point of series s at sweep q (windowStart): the epoch's
\* start for cumulative metrics and summaries, the previous sweep for delta
\* metrics; gauges have none (0). A marker at q has the start of the epoch its
\* series was in, or the previous sweep too (markerStartNano).
Def(s) == run.metrics[s[1] + 1]
Cumulative(s) == Def(s).temporality = "cumulative" \/ Def(s).typ = "summary"
Epoch(s, q) == IF Cumulative(s) THEN epochStart(s, ResourceOf(s), q) ELSE q - 1
PointTime(s, q) == pointTimeMs(s, q, ResourceOf(s))
StartTime(s, q) == IF Def(s).typ = "gauge" THEN 0 ELSE PointTime(s, Epoch(s, q))
MarkerStart(s, q) == CASE Def(s).typ = "gauge" -> 0
                       [] Cumulative(s) -> PointTime(s, Epoch(s, q - 1))
                       [] OTHER -> PointTime(s, q - 1)

\* addPoint: the value of the point, by the type of its metric.
Value(s, q) ==
    LET epoch == Epoch(s, q)
        cumulative == Def(s).temporality = "cumulative"
    IN  CASE Def(s).typ = "gauge" -> <<gaugeValue(s, q)>>
          [] Def(s).typ = "sum" ->
                IF ~cumulative THEN <<deltaSumValue(s, q, Def(s).monotonic)>>
                ELSE IF Def(s).monotonic THEN <<counterValue(s, q, epoch)>> ELSE <<gaugeValue(s, q)>>
          [] Def(s).typ = "histogram" -> histPoint(s, q, epoch, cumulative)
          [] Def(s).typ = "exponential_histogram" -> expHistPoint(s, q, epoch, cumulative)
          [] Def(s).typ = "summary" -> summaryPoint(s, q, epoch)

-----------------------------------------------------------------------------
TypeOK ==
    /\ cancelled \in BOOLEAN
    /\ pc \in [Workers -> {"dial", "loop", "wait", "group", "publish", "export", "backoff",
                           "returned", "ended"}]
    /\ k \in [Workers -> Nat] /\ pos \in [Workers -> Nat] /\ ser \in [Workers -> Nat]
    /\ allowance \in [Workers -> 0 .. ChunkSize]
    /\ points \in [Workers -> Nat] /\ attempt \in [Workers -> 0 .. MaxFlushAttempts]
    /\ then \in [Workers -> {"loop", "wait", "ended"}]
    /\ settled \in [Workers -> Nat]

Init ==
    /\ run \in Runs /\ cancelled = FALSE
    /\ pc = [w \in Workers |-> "dial"]
    /\ k = [w \in Workers |-> 0] /\ pos = [w \in Workers |-> 0] /\ ser = [w \in Workers |-> w]
    /\ allowance = [w \in Workers |-> 0]
    /\ todo = [w \in Workers |-> <<>>] /\ loaded = [w \in Workers |-> NoSlot]
    /\ groups = [w \in Workers |-> {}] /\ points = [w \in Workers |-> 0]
    /\ attempt = [w \in Workers |-> 0] /\ then = [w \in Workers |-> "loop"]
    /\ slots = [r \in 0 .. Resources - 1 |-> NoSlot]
    /\ last = [s \in AllSeries |-> NoPoint]
    /\ settled = [w \in Workers |-> 0]

Goto(w, l) == pc' = [pc EXCEPT ![w] = l]

Cancel ==
    /\ ~cancelled /\ cancelled' = TRUE
    /\ UNCHANGED <<run, place, request, slots, last>>

-----------------------------------------------------------------------------
(* worker.Run *)

\* dial fails only on invalid settings and ends the worker.
Dial(w) ==
    /\ pc[w] = "dial"
    /\ Goto(w, "loop") \/ Goto(w, "returned")
    /\ UNCHANGED <<run, cancelled, k, pos, ser, allowance, todo, loaded, request, slots, last>>

\* Mutant: the context is not looked at.
Checkpoint_IgnoresContext(w) ==
    /\ pc[w] = "loop" /\ MorePoints(w) /\ (allowance[w] = 0 \/ AtBound(w))
    /\ \/ Goto(w, "wait") /\ UNCHANGED <<attempt, then>>
       \/ /\ points[w] > 0 /\ Goto(w, "export")
          /\ attempt' = [attempt EXCEPT ![w] = 1]
          /\ then' = [then EXCEPT ![w] = "wait"]
    /\ UNCHANGED <<run, cancelled, k, pos, ser, allowance, todo, loaded, groups, points, settled, slots, last>>

\* checkpoint, before the next point when the allowance is used up: return if
\* cancelled, flush a request that has waited for FlushInterval, and wait.
Checkpoint(w) ==
    /\ pc[w] = "loop" /\ MorePoints(w) /\ (allowance[w] = 0 \/ AtBound(w))
    /\ \/ cancelled /\ Goto(w, "returned") /\ UNCHANGED <<attempt, then>>
       \/ ~cancelled /\ Goto(w, "wait") /\ UNCHANGED <<attempt, then>>
       \/ /\ ~cancelled /\ points[w] > 0 /\ Goto(w, "export")
          /\ attempt' = [attempt EXCEPT ![w] = 1]
          /\ then' = [then EXCEPT ![w] = "wait"]
    /\ UNCHANGED <<run, cancelled, k, pos, ser, allowance, todo, loaded, groups, points, settled, slots, last>>

\* limiter.WaitN grants a chunk, or fails because of the cancellation.
LimiterWait(w) ==
    /\ pc[w] = "wait"
    /\ \/ allowance' = [allowance EXCEPT ![w] = ChunkSize] /\ Goto(w, "loop")
       \/ cancelled /\ Goto(w, "returned") /\ UNCHANGED allowance
    /\ UNCHANGED <<run, cancelled, k, pos, ser, todo, loaded, request, slots, last>>

\* addPoint: a marker for the generation that went, if there is one, then the point.
BeginPoint(w) ==
    /\ pc[w] = "loop" /\ MorePoints(w) /\ allowance[w] > 0
    /\ ~AtBound(w)
    /\ allowance' = [allowance EXCEPT ![w] = @ - 1]
    /\ LET r == ResourceOf(Current(w))
           gen == generation(r, k[w])
       IN  todo' = [todo EXCEPT ![w] = IF StalenessMarkers /\ generationChanged(r, k[w])
                                       THEN <<gen - 1, gen>> ELSE <<gen>>]
    /\ Goto(w, "group")
    /\ UNCHANGED <<run, cancelled, k, pos, ser, loaded, request, slots, last>>

\* The series of a metric are done, those of worker w.
NextMetric(w) ==
    /\ pc[w] = "loop" /\ MoreMetrics(w) /\ ~MorePoints(w)
    /\ pos' = [pos EXCEPT ![w] = @ + 1] /\ ser' = [ser EXCEPT ![w] = w]
    /\ UNCHANGED <<run, cancelled, pc, k, allowance, todo, loaded, request, slots, last>>

\* The end of a sweep; after the last one the rest is flushed and Run returns.
EndSweep(w) ==
    /\ pc[w] = "loop" /\ ~MoreMetrics(w)
    /\ IF MoreSweeps(w)
       THEN /\ k' = [k EXCEPT ![w] = IF AtBound(w) THEN @ ELSE @ + 1]
            /\ pos' = [pos EXCEPT ![w] = 0] /\ ser' = [ser EXCEPT ![w] = w]
            /\ UNCHANGED <<pc, attempt, then>>
       ELSE /\ Goto(w, IF points[w] > 0 THEN "export" ELSE "ended")
            /\ attempt' = [attempt EXCEPT ![w] = IF points[w] > 0 THEN 1 ELSE 0]
            /\ then' = [then EXCEPT ![w] = "ended"]
            /\ UNCHANGED <<k, pos, ser>>
    /\ UNCHANGED <<run, cancelled, allowance, todo, loaded, groups, points, settled, slots, last>>

-----------------------------------------------------------------------------
(* builder.addPoint, builder.group and resourcePool.get *)

\* Into the group of the head of todo, which holds a resource of generation res.
Insert(w, res) ==
    /\ groups' = [groups EXCEPT ![w] =
                    @ \cup {[r |-> ResourceOf(Current(w)), gen |-> Head(todo[w]),
                            scope |-> scopeIdx(Current(w)), res |-> res]}]
    /\ points' = [points EXCEPT ![w] = @ + 1]
    /\ todo' = [todo EXCEPT ![w] = Tail(@)]
    /\ loaded' = [loaded EXCEPT ![w] = NoSlot]

\* addStalenessMarker: under the outgoing generation, at the time of the point to
\* come, with the start time its last point had and no value.
AddStalenessMarker(w, res) ==
    /\ Len(todo[w]) > 1
    /\ Insert(w, res)
    /\ LET s == Current(w) IN
       last' = [last EXCEPT ![s] = [k |-> k[w], gen |-> Head(todo[w]), marker |-> TRUE, ts |-> PointTime(s, k[w]),
                                    start |-> MarkerStart(s, k[w]), value |-> <<>>]]
    /\ Goto(w, "group")
    /\ UNCHANGED <<pos, ser, attempt, then>>

\* The rest of addPoint; a full request is then flushed.
AddPoint(w, res) ==
    /\ Len(todo[w]) = 1
    /\ Insert(w, res)
    /\ LET s == Current(w) IN
       last' = [last EXCEPT ![s] = [k |-> k[w], gen |-> Head(todo[w]), marker |-> FALSE, ts |-> PointTime(s, k[w]),
                                    start |-> StartTime(s, k[w]), value |-> Value(s, k[w])]]
    /\ ser' = [ser EXCEPT ![w] = @ + Threads]
    /\ UNCHANGED pos
    /\ IF points[w] + 1 >= PointsPerRequest
       THEN /\ Goto(w, "export") /\ attempt' = [attempt EXCEPT ![w] = 1]
            /\ then' = [then EXCEPT ![w] = "loop"]
       ELSE Goto(w, "loop") /\ UNCHANGED <<attempt, then>>
AddTo(w, res) == AddStalenessMarker(w, res) \/ AddPoint(w, res)

\* A group of this request is used again; otherwise get loads the slot and
\* answers from it when it holds the generation, as the current or the previous.
Known(w) == {g \in groups[w] : /\ g.r = ResourceOf(Current(w)) /\ g.gen = Head(todo[w])
                               /\ g.scope = scopeIdx(Current(w))}

Hit(slot, gen) == slot.gen = gen \/ slot.prev = gen
Group(w) ==
    /\ pc[w] = "group"
    /\ LET slot == slots[ResourceOf(Current(w))]
           gen == Head(todo[w])
       IN  \/ \E g \in Known(w) : AddTo(w, g.res)
           \/ /\ Known(w) = {} /\ slot # NoSlot /\ Hit(slot, gen)
              /\ AddTo(w, IF slot.prev = gen THEN slot.prev ELSE slot.res)
           \/ /\ Known(w) = {} /\ (slot = NoSlot \/ ~Hit(slot, gen))
              /\ loaded' = [loaded EXCEPT ![w] = slot]
              /\ Goto(w, "publish")
              /\ UNCHANGED <<groups, points, todo, last, pos, ser, attempt, then>>
    /\ UNCHANGED <<run, cancelled, k, allowance, settled, slots>>

\* Mutant: a plain store in place of the compare and swap.
Publish_Store(w) ==
    /\ pc[w] = "publish"
    /\ LET r == ResourceOf(Current(w))
           gen == Head(todo[w])
           old == loaded[w]
       IN  /\ slots' = IF old.gen < gen
                       THEN [slots EXCEPT ![r] = [gen |-> gen, prev |-> old.gen, res |-> gen]]
                       ELSE slots
           /\ AddTo(w, gen)
    /\ UNCHANGED <<run, cancelled, k, allowance, settled>>

\* The resource is built; it replaces the loaded slot unless it is older than
\* that, and unless another worker has replaced it first (compare and swap).
Publish(w) ==
    /\ pc[w] = "publish"
    /\ LET r == ResourceOf(Current(w))
           gen == Head(todo[w])
           old == loaded[w]
       IN  /\ slots' = IF old.gen < gen /\ slots[r] = old
                       THEN [slots EXCEPT ![r] = [gen |-> gen, prev |-> old.gen, res |-> gen]]
                       ELSE slots
           /\ AddTo(w, gen)
    /\ UNCHANGED <<run, cancelled, k, allowance, settled>>

-----------------------------------------------------------------------------
(* flush *)

\* The points of the request have met their fate and the builder is reset.
Settle(w) ==
    /\ settled' = [settled EXCEPT ![w] = @ + points[w]]
    /\ groups' = [groups EXCEPT ![w] = {}]
    /\ points' = [points EXCEPT ![w] = 0]
    /\ attempt' = [attempt EXCEPT ![w] = 0]
    /\ Goto(w, then[w])
    /\ UNCHANGED then

\* What may come of sending a request, by protocol: an answer of the collector or
\* none at all. The errors the client makes of it are "" (stored, in whole or in
\* part; a body that cannot be read counts as stored), "too large" and "other".
Answers == IF run.http THEN {"unreachable", "413", "not 2xx", "unreadable", "partial", "stored"}
           ELSE {"unreachable", "status", "larger than max", "partial", "stored"}
export(answer) ==
    CASE answer \in {"stored", "partial", "unreadable"} -> ""
      [] answer \in {"413", "larger than max"} -> "too large"
      [] answer \in {"unreachable", "status", "not 2xx"} -> "other"
isMessageTooLarge(err) == err = "too large"

\* Mutant: a request the collector finds too large is kept.
Export_KeepsTooLarge(w) ==
    /\ pc[w] = "export"
    /\ \/ Settle(w)
       \/ \E answer \in Answers :
            \/ export(answer) = "" /\ Settle(w)
            \/ /\ isMessageTooLarge(export(answer))
               /\ Goto(w, then[w]) /\ UNCHANGED request
            \/ /\ export(answer) = "other"
               /\ IF cancelled \/ attempt[w] >= MaxFlushAttempts THEN Settle(w)
                  ELSE Goto(w, "backoff") /\ UNCHANGED request
    /\ UNCHANGED <<run, cancelled, k, pos, ser, allowance, todo, loaded, slots, last>>

\* flush, one attempt: a request that cannot be marshalled, that is too large, or
\* that fails after the cancellation or for the last time is given up; one that
\* fails otherwise is tried again after a backoff.
Export(w) ==
    /\ pc[w] = "export"
    /\ \/ Settle(w)
       \/ \E answer \in Answers : LET err == export(answer) IN
            IF err = "" \/ isMessageTooLarge(err) \/ cancelled \/ attempt[w] >= MaxFlushAttempts
            THEN Settle(w)
            ELSE Goto(w, "backoff") /\ UNCHANGED request
    /\ UNCHANGED <<run, cancelled, k, pos, ser, allowance, todo, loaded, slots, last>>

Backoff(w) ==
    /\ pc[w] = "backoff"
    /\ \/ cancelled /\ Settle(w)
       \/ /\ attempt' = [attempt EXCEPT ![w] = @ + 1] /\ Goto(w, "export")
          /\ UNCHANGED <<groups, points, then, settled>>
    /\ UNCHANGED <<run, cancelled, k, pos, ser, allowance, todo, loaded, slots, last>>

-----------------------------------------------------------------------------
Gone(w) == pc[w] \in {"returned", "ended"}

\* Scheduler.Run has returned, or an endless run is over its bound.
Rest ==
    /\ \A w \in Workers : Gone(w) \/ AtBound(w)
    /\ UNCHANGED vars

Worker(w) ==
    \/ Dial(w) \/ Checkpoint(w) \/ LimiterWait(w) \/ BeginPoint(w) \/ NextMetric(w) \/ EndSweep(w)
    \/ Group(w) \/ Publish(w) \/ Export(w) \/ Backoff(w)
Next == Cancel \/ Rest \/ \E w \in Workers : Worker(w)
Spec == Init /\ [][Next]_vars

\* Workers are goroutines and take their next step; nothing obliges a user to cancel.
FairSpec == Spec /\ \A w \in Workers : WF_vars(Worker(w))

-----------------------------------------------------------------------------
(* Properties *)

\* resources.go:55-81 ("Only advance the cache forward"), builder.go:49-67.
\* Workers of different generations share the cache and race to fill it. Every
\* group of a request nevertheless carries the resource of exactly the
\* generation its points were made for, and whoever publishes, a slot never
\* goes back to an older generation.
OwnIdentity ==
    /\ \A w \in Workers : \A g \in groups[w] : g.res = g.gen
    /\ \A w \in Workers : \A g, h \in groups[w] : g.r = h.r /\ g.gen = h.gen /\ g.scope = h.scope => g = h
CacheSound ==
    /\ []OwnIdentity
    /\ [][\A r \in DOMAIN slots : slots'[r] # slots[r] =>
              slots'[r].gen > slots[r].gen /\ slots'[r].prev = slots[r].gen]_vars

\* worker.go:175-209, values.go:5-12, builder.go:113-330. Seen from one series,
\* each sweep adds one point, in order, and time moves on. A histogram's count is
\* the sum of its buckets; no count and no monotonic sum falls while the start
\* time and the resource stay; a cumulative start moves only to the present of
\* its point; a delta window starts where the last one ended. With markers on, no
\* generation goes without one, which ends its last point's window in time.
Monotonic(s) == Cumulative(s) /\ (Def(s).typ = "sum" => Def(s).monotonic)
Consistent(s, q) ==
    Def(s).typ \in {"histogram", "exponential_histogram"} => Head(q.value) = Total(Tail(q.value))
MarkerFollows(s, p, q) ==
    /\ q.k = p.k + 1 /\ q.gen = p.gen /\ q.ts > p.ts
    /\ Cumulative(s) => q.start = p.start
    /\ Def(s).temporality = "delta" => q.start = p.ts
PointAfterMarker(s, p, q) ==
    /\ q.k = p.k /\ q.ts = p.ts /\ q.gen = p.gen + 1
    /\ Cumulative(s) => q.start = q.ts
    /\ Def(s).temporality = "delta" => q.start = p.start
PointAfterPoint(s, p, q) ==
    /\ q.k = p.k + 1 /\ q.ts > p.ts
    /\ StalenessMarkers => q.gen = p.gen
    /\ Def(s).temporality = "delta" => q.start = p.ts
    /\ Cumulative(s) => IF q.start = p.start THEN q.gen = p.gen ELSE q.start = q.ts
    /\ (Monotonic(s) /\ q.start = p.start) => \A i \in DOMAIN q.value : q.value[i] >= p.value[i]
Follows(s, p, q) ==
    IF q.marker THEN ~p.marker /\ MarkerFollows(s, p, q)
    ELSE /\ Def(s).typ # "gauge" => q.start =< q.ts
         /\ Consistent(s, q)
         /\ CASE p = NoPoint -> q.k = 0
              [] p.marker -> PointAfterMarker(s, p, q)
              [] OTHER -> PointAfterPoint(s, p, q)
Timeline == [][\A s \in AllSeries : last'[s] = last[s] \/ Follows(s, last[s], last'[s])]_vars

\* worker.go:43-46, 72-148, 175-209. Every point of the plan meets its fate
\* once: what the builder holds is what has been added since the last request
\* was delivered or given up, a request outgrows its limit by at most the point
\* that came with a marker, and when every worker has come to its end each
\* series has had every sweep; a worker at its end leaves no request behind.
Owned(w) == {s \in Series : s[2] % Threads = w}
Behind(w, s) ==           \* worker w has added the point of s to this sweep
    \E p \in 0 .. Len(run.metrics) - 1 :
        MetricAt(p, k[w]) = s[1] /\ (p < pos[w] \/ (p = pos[w] /\ s[2] < ser[w]))
Done(w) == {p \in Owned(w) \X (0 .. k[w]) : p[2] < k[w] \/ Behind(w, p[1])}
UnderWay(w) == pc[w] \in {"group", "publish"}
MarkedOnly(w) == {p \in {<<Current(w), k[w]>>} : UnderWay(w) /\ Len(todo[w]) = 1}
Markers(w) == {p \in Done(w) \cup MarkedOnly(w) :
                  StalenessMarkers /\ generationChanged(ResourceOf(p[1]), p[2])}
Added(w) == Cardinality(Done(w)) + Cardinality(Markers(w))
RequestBounded(w) == points[w] =< PointsPerRequest + 1 /\ (pc[w] = "ended" => points[w] = 0)
SettledOnce ==
    /\ \A w \in Workers : RequestBounded(w) /\ settled[w] + points[w] = Added(w)
    /\ (\A w \in Workers : pc[w] = "ended") => \A s \in Series : last[s].k = run.sweeps - 1

\* worker.go:154-173. After a cancellation every worker returns, except one that
\* owns no series in an endless run: its loop never comes to a checkpoint.
Stops ==
    \A w \in Workers :
        cancelled ~> (Gone(w) \/ (Endless /\ \A s \in Series : s[2] % Threads # w))
=============================================================================
