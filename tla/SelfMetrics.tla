---------------------------- MODULE SelfMetrics ----------------------------
(***************************************************************************)
(* The self-metrics of a run: the metrics worker (metrics/worker.go), the  *)
(* goroutines that post entries to its queue without ever waiting, and the *)
(* OTLP emitter (metrics/otlp.go), whose exports run in goroutines of      *)
(* their own.                                                              *)
(*                                                                         *)
(* Aggregated metrics are three keys: "total" (a counter), "active" (what  *)
(* schedulers count up and down around a worker) and "target" (set).       *)
(* Point samples are numbered in the order they are posted.  The gauges    *)
(* that collectInternalMetrics reads off the runtime are left out; because *)
(* of them no snapshot is empty, so the early returns of export and flush  *)
(* for an empty request are never taken.                                   *)
(***************************************************************************)
EXTENDS Naturals, Sequences, FiniteSets

CONSTANTS
    QueueCap,   \* capacity of metricsQueue
    BufferCap,  \* otlpMaxBufferedSamples
    ClickHouse, \* TRUE when a DSN is configured (insertSQL is not empty)
    Modulus,    \* uint64 arithmetic, scaled down
    MaxEntries, \* bound: entries posted
    Reliable    \* TRUE when the endpoints never fail a live request

ASSUME SelfMetricsAssumption ==
    /\ {QueueCap, BufferCap, Modulus} \subseteq Nat \ {0}
    /\ MaxEntries \in Nat /\ MaxEntries < Modulus
    /\ {ClickHouse, Reliable} \subseteq BOOLEAN

VARIABLES
    queue,         \* w.metricsQueue
    metrics,       \* w.metrics
    pointMetrics,  \* w.pointMetrics
    samples,       \* e.samples
    inFlight,      \* e.inFlight
    flying,        \* requests the export goroutines are sending
    pushing,       \* points in the batch pushMetrics is sending
    last,          \* the request flush is sending
    pc,            \* the worker: "loop", "push", "drain", "flush", "stopped"
    cancelled,     \* the metrics context
    posted,        \* entries posted
    workers,       \* workers running, as the schedulers know
    ghost          \* what happened, see Init

vars == <<queue, metrics, pointMetrics, samples, inFlight, flying, pushing, last,
          pc, cancelled, posted, workers, ghost>>

Keys == {"total", "active", "target"}
Points == 1..MaxEntries
Entries == [mode : {"inc", "dec", "set"}, key : Keys, value : Nat]
             \cup [mode : {"point"}, id : Points]
Requests == [total : Nat, points : SUBSET Points]

Elements(s) == {s[i] : i \in 1..Len(s)}
QueuedPoints == {queue[i].id : i \in {j \in 1..Len(queue) : queue[j].mode = "point"}}
-----------------------------------------------------------------------------
(* The goroutines that report metrics.                                     *)

\* Every Store method: a select with a default case.
Post(e) ==
    /\ ~cancelled /\ posted < MaxEntries
    /\ posted' = posted + 1
    /\ IF Len(queue) < QueueCap
       THEN /\ queue' = Append(queue, e)
            /\ ghost' = [ghost EXCEPT
                 !.counted = IF e.mode = "inc" /\ e.key = "total" THEN @ + 1 ELSE @,
                 !.started = IF e.mode = "inc" /\ e.key = "active" THEN @ + 1 ELSE @,
                 !.accepted = IF e.mode = "point" THEN @ \cup {e.id} ELSE @]
       ELSE /\ ghost' = [ghost EXCEPT !.full = TRUE]
            /\ UNCHANGED queue
    /\ UNCHANGED <<metrics, pointMetrics, samples, inFlight, flying, pushing, last,
                   pc, cancelled>>

Aggregate(m, k, v) == [mode |-> m, key |-> k, value |-> v]

IncrementMetric == Post(Aggregate("inc", "total", 1)) /\ UNCHANGED workers

SetMetric == Post(Aggregate("set", "target", 1)) /\ UNCHANGED workers

AddMetricPoint == Post([mode |-> "point", id |-> posted + 1]) /\ UNCHANGED workers

\* What every scheduler does around a worker: ActiveReaders, ActiveInserters...
WorkerStarts == Post(Aggregate("inc", "active", 1)) /\ workers' = workers + 1

WorkerStops ==
    /\ workers > 0 /\ workers' = workers - 1
    /\ Post(Aggregate("dec", "active", 1))

\* main cancels the metrics context once every other goroutine has returned.
Cancel ==
    /\ ~cancelled /\ cancelled' = TRUE
    /\ UNCHANGED <<queue, metrics, pointMetrics, samples, inFlight, flying, pushing,
                   last, pc, posted, workers, ghost>>

Producers == <<cancelled, posted, workers>>
-----------------------------------------------------------------------------
(* The metrics worker.                                                     *)

\* Mutant: the subtraction is not guarded.
Decrement_Wraps(value, delta) == (value + Modulus - delta) % Modulus

\* EntryModeDecrement stops at zero.
Decrement(value, delta) == IF delta >= value THEN 0 ELSE value - delta

\* applyMetricEntry for an aggregated entry.
Aggregated(e) ==
    [metrics EXCEPT ![e.key] =
        CASE e.mode = "inc" -> (@ + e.value) % Modulus
          [] e.mode = "dec" -> Decrement(@, e.value)
          [] e.mode = "set" -> e.value]

\* addSample: a full buffer loses its oldest sample.
AddSample(p) ==
    /\ samples' = Append(IF Len(samples) >= BufferCap THEN Tail(samples) ELSE samples, p)
    /\ ghost' = [ghost EXCEPT !.overflowed =
          IF Len(samples) >= BufferCap THEN @ \cup {Head(samples)} ELSE @]

\* Receive the queue's first entry and apply it.
ApplyMetricEntry ==
    LET e == Head(queue) IN
    /\ queue # <<>>
    /\ queue' = Tail(queue)
    /\ IF e.mode = "point"
       THEN /\ pointMetrics' = pointMetrics \cup {e.id}
            /\ AddSample(e.id)
            /\ UNCHANGED metrics
       ELSE /\ metrics' = Aggregated(e)
            /\ UNCHANGED <<pointMetrics, samples, ghost>>
    /\ UNCHANGED <<inFlight, flying, pushing, last, pc, Producers>>

Apply == pc = "loop" /\ ApplyMetricEntry

\* snapshotCumulative and drainSamples, as buildRequest puts them together.
Request == [total |-> metrics["total"], points |-> Elements(samples)]

\* Mutant: the buffer is drained before the compare-and-swap.
OtlpTick_DrainsFirst ==
    /\ pc = "loop"
    /\ samples' = <<>>
    /\ IF inFlight THEN UNCHANGED <<inFlight, flying>>
       ELSE inFlight' = TRUE /\ flying' = flying \cup {Request}
    /\ UNCHANGED <<queue, metrics, pointMetrics, pushing, last, pc, Producers, ghost>>

\* Mutant: no compare-and-swap.
OtlpTick_Overlaps ==
    /\ pc = "loop"
    /\ inFlight' = TRUE
    /\ samples' = <<>>
    /\ flying' = flying \cup {Request}
    /\ UNCHANGED <<queue, metrics, pointMetrics, pushing, last, pc, Producers, ghost>>

\* export: skipped while the previous one is in flight.
OtlpTick ==
    /\ pc = "loop"
    /\ ~inFlight /\ inFlight' = TRUE
    /\ samples' = <<>>
    /\ flying' = flying \cup {Request}
    /\ UNCHANGED <<queue, metrics, pointMetrics, pushing, last, pc, Producers, ghost>>

\* The one-second tick: push to ClickHouse, or forget the points.
PushTick ==
    /\ pc = "loop"
    /\ pointMetrics' = {}
    /\ IF ClickHouse THEN pushing' = pointMetrics /\ pc' = "push"
                     ELSE UNCHANGED <<pushing, pc>>
    /\ UNCHANGED <<queue, metrics, samples, inFlight, flying, last, Producers, ghost>>

\* pushMetrics returns; the points of a failed batch are gone.
PushEnds ==
    /\ pc = "push" /\ pc' = "loop"
    /\ pushing' = {}
    /\ \/ ghost' = [ghost EXCEPT !.pushed = @ \cup pushing]
       \/ /\ cancelled \/ ~Reliable
          /\ ghost' = [ghost EXCEPT !.unpushed = @ \cup pushing]
    /\ UNCHANGED <<queue, metrics, pointMetrics, samples, inFlight, flying, last, Producers>>

\* Mutant: shutdown goes straight to the flush.
CtxDone_NoDrain ==
    /\ pc = "loop" /\ cancelled
    /\ pc' = "flush"
    /\ last' = Request /\ samples' = <<>>
    /\ UNCHANGED <<queue, metrics, pointMetrics, inFlight, flying, pushing, Producers, ghost>>

\* The select takes ctx.Done().
CtxDone ==
    /\ pc = "loop" /\ cancelled
    /\ pc' = "drain"
    /\ UNCHANGED <<queue, metrics, pointMetrics, samples, inFlight, flying, pushing, last,
                   Producers, ghost>>

\* drainQueue: entries are applied until the queue is empty.
DrainQueue == pc = "drain" /\ ApplyMetricEntry

\* flush collects the last request and sends it synchronously.
Flush ==
    /\ pc = "drain" /\ queue = <<>>
    /\ pc' = "flush"
    /\ last' = Request /\ samples' = <<>>
    /\ UNCHANGED <<queue, metrics, pointMetrics, inFlight, flying, pushing, Producers, ghost>>

Delivered(g, r) == [g EXCEPT !.delivered = @ \cup r.points, !.seen = r.total]
Failed(g, r) == [g EXCEPT !.failed = @ \cup r.points]

\* The flush succeeded, failed or timed out; the client is closed. It did not
\* look at inFlight: an export may be answered before it, after it, or never.
FlushEnds ==
    /\ pc = "flush" /\ pc' = "stopped"
    /\ \/ ghost' = Delivered(ghost, last)
       \/ ~Reliable /\ ghost' = Failed(ghost, last)
    /\ UNCHANGED <<queue, metrics, pointMetrics, samples, inFlight, flying, pushing, last,
                   Producers>>

Stopped == pc = "stopped" /\ UNCHANGED vars
-----------------------------------------------------------------------------
(* The goroutine export starts.                                            *)

ExportOutcome(r) ==
    \/ ghost' = Delivered(ghost, r)
    \/ (cancelled \/ ~Reliable) /\ ghost' = Failed(ghost, r)

\* Mutant: a failed export leaves the flag set.
ExportEnds_KeepsFlag(r) ==
    /\ r \in flying /\ flying' = flying \ {r}
    /\ ExportOutcome(r)
    /\ inFlight' = (ghost'.failed # ghost.failed)
    /\ UNCHANGED <<queue, metrics, pointMetrics, samples, pushing, last, pc, Producers>>

\* The request is answered, fails, times out, or dies with the run's context.
ExportEnds(r) ==
    /\ r \in flying /\ flying' = flying \ {r}
    /\ ExportOutcome(r)
    /\ inFlight' = FALSE
    /\ UNCHANGED <<queue, metrics, pointMetrics, samples, pushing, last, pc, Producers>>
-----------------------------------------------------------------------------
Init ==
    /\ queue = <<>>
    /\ metrics = [k \in Keys |-> 0]
    /\ pointMetrics = {} /\ samples = <<>>
    /\ inFlight = FALSE /\ flying = {}
    /\ pushing = {}
    /\ last = [total |-> 0, points |-> {}]
    /\ pc = "loop" /\ cancelled = FALSE
    /\ posted = 0 /\ workers = 0
    /\ ghost = [counted |-> 0,      \* increments of "total" the queue took
                started |-> 0,      \* increments of "active" the queue took
                accepted |-> {},    \* points the queue took
                full |-> FALSE,     \* some entry found the queue full
                overflowed |-> {},  \* samples the full buffer lost
                delivered |-> {},   \* samples of requests the collector answered
                failed |-> {},      \* samples of failed exports
                pushed |-> {},      \* points ClickHouse received
                unpushed |-> {},    \* points of failed pushes
                seen |-> 0]         \* "total" in the last request answered

Next ==
    \/ IncrementMetric \/ SetMetric \/ AddMetricPoint \/ WorkerStarts \/ WorkerStops
    \/ Cancel
    \/ Apply \/ OtlpTick \/ PushTick \/ PushEnds
    \/ CtxDone \/ DrainQueue \/ Flush \/ FlushEnds
    \/ \E r \in flying : ExportEnds(r)
    \/ Stopped

Spec == Init /\ [][Next]_vars

(***************************************************************************)
(* Requests end (each has a timeout), and Go's select picks each case that *)
(* is ready again and again: the tickers fire for ever, so these cases are *)
(* ready whenever the worker is at its select.                             *)
(***************************************************************************)
FairSpec ==
    /\ Spec
    /\ WF_vars(PushEnds) /\ WF_vars(DrainQueue) /\ WF_vars(Flush) /\ WF_vars(FlushEnds)
    /\ WF_vars(\E r \in flying : ExportEnds(r))
    /\ SF_vars(OtlpTick) /\ SF_vars(CtxDone) /\ SF_vars(Apply)
-----------------------------------------------------------------------------
TypeOK ==
    /\ queue \in Seq(Entries) /\ Len(queue) <= QueueCap
    /\ metrics \in [Keys -> 0..(Modulus - 1)]
    /\ pointMetrics \in SUBSET Points /\ pushing \in SUBSET Points
    /\ samples \in Seq(Points) /\ Len(samples) <= BufferCap
    /\ inFlight \in BOOLEAN /\ flying \in SUBSET Requests /\ last \in Requests
    /\ pc \in {"loop", "push", "drain", "flush", "stopped"}
    /\ cancelled \in BOOLEAN /\ posted \in Nat /\ workers \in Nat

Disjoint(sets) == \A i, j \in DOMAIN sets : i # j => sets[i] \cap sets[j] = {}
Union(sets) == UNION {sets[i] : i \in DOMAIN sets}

InFlightPoints == UNION {r.points : r \in flying}

(***************************************************************************)
(* Every sample the queue took is in one place on its way to the collector *)
(* and, unless ClickHouse is off, in one on its way to the table: waiting, *)
(* buffered, in a request, delivered, or lost in one of the three admitted *)
(* ways (buffer overflow, failed export, failed push).  Points waiting for *)
(* the next push when the worker stops stay there.  "Self-metrics OTLP     *)
(* export no longer drops samples on skipped intervals"; "metrics could be *)
(* lost between the send and reset steps" is fixed (CHANGELOG.md).         *)
(***************************************************************************)
SampleAccounting ==
    LET toCollector == <<QueuedPoints, Elements(samples), InFlightPoints,
                         IF pc = "flush" THEN last.points ELSE {},
                         ghost.delivered, ghost.failed, ghost.overflowed>>
        toTable == <<QueuedPoints, pointMetrics, pushing, ghost.pushed, ghost.unpushed>>
    IN /\ Disjoint(toCollector) /\ Union(toCollector) = ghost.accepted
       /\ Disjoint(toTable)
       /\ ClickHouse => Union(toTable) = ghost.accepted

Queued(k, m) == Cardinality({i \in 1..Len(queue) : queue[i].mode = m /\ queue[i].key = k})

(***************************************************************************)
(* Aggregated values: no increment the queue took is lost or counted twice;*)
(* the count of running workers is exact while the queue never overflowed, *)
(* and never above the number of starts, so it does not wrap below zero    *)
(* when a start was dropped and its stop was not.  (applyMetricEntry)      *)
(***************************************************************************)
ValuesFaithful ==
    /\ metrics["total"] + Queued("total", "inc") = ghost.counted
    /\ metrics["active"] <= ghost.started
    /\ ~ghost.full =>
          metrics["active"] + Queued("active", "inc") = workers + Queued("active", "dec")

(***************************************************************************)
(* Cumulative totals are answered in order: the sum of a later answer is   *)
(* never below that of an earlier one, although each export runs in a      *)
(* goroutine of its own.  The one exception: flush does not wait for the   *)
(* export in flight, so that single export may be answered once the worker *)
(* has stopped, after the last request, and step back.  (otlp.go inFlight) *)
(***************************************************************************)
ReceivedInOrder ==
    [][\/ ghost'.seen >= ghost.seen
       \/ pc = "stopped" /\ \E r \in flying :
              flying = {r} /\ flying' = {} /\ ghost'.seen = r.total]_vars

(***************************************************************************)
(* "Flush the last partial interval before the deferred close" (worker.go) *)
(* holds of the counters: the final request carries every increment that   *)
(* was ever queued, and nothing is left in the queue or the buffer.        *)
(***************************************************************************)
FlushComplete ==
    pc \in {"flush", "stopped"} =>
        /\ queue = <<>> /\ samples = <<>>
        /\ last.total = ghost.counted

(***************************************************************************)
(* A failed or slow export does not stop the exporter: what is buffered    *)
(* leaves the buffer, and a cancelled worker returns.  (export, flush)     *)
(***************************************************************************)
ExporterProgress ==
    /\ \A p \in Points : (p \in Elements(samples)) ~> (p \notin Elements(samples))
    /\ cancelled ~> pc = "stopped"
=============================================================================
