# ClickCannon in TLA+

ClickCannon drives ClickHouse with telemetry: it replays native blocks from disk or
generates rows, inserts them or exports them over OTLP, generates OTLP metrics, and runs
query workloads. This directory models it, checks the models with TLC on small instances
and proves all but one of its safety properties with TLAPS for every instance. Source
paths below are relative to `src/`, and in most tables to `src/internal/`.

## 1. The system

| component | state | operations | talks to |
|---|---|---|---|
| block pool (`internal/block/pool.go`) | channel of free blocks, use counts under a mutex, retired count | `Acquire` (waits, no context), `Release` (counts, retires, re-creates, sends) | every source and sink |
| insert queue (`main.go`) | channel as large as the pool, closed once by the source goroutine | send, receive, close | sources to sinks |
| disk source (`internal/disk`) | file channel, registered readers and their speed limits | hand out files, open, decode a block, shift its timestamps and ids, send, rebalance | pool, queue, time keeper, speed limit |
| disk speed limit (`internal/disk/speedreader.go`) | sliding window, token bucket, current and target limit | read, count, optimise, reset | disk readers |
| replay time keeper (`internal/block/timeshift.go`) | first and latest timestamp of the data set | report first (once), report latest (may be dropped), snapshot (waits for the first) | disk workers |
| generate source (`internal/generate`) | limiter, random generator | wait for the limiter, acquire, fill, send | pool, queue |
| insert sink (`internal/insert`) | per worker a connection, a placeholder block, current block and input, row and batch counts | receive, stream blocks through ch-go's `OnInput`, clean up, retire, restart with backoff | queue, pool, ClickHouse |
| node balancer (`internal/insert/node_balancer.go`) | node list and next index | `FetchNodes`, `IsNextNode` | insert workers |
| otel sink (`internal/otel`) | per worker a builder with the open batch | add a block, flush with retries, tick, drain at shutdown | queue, pool, collector |
| self-metrics (`internal/metrics`) | entry queue, aggregated map, points, OTLP sample buffer, in-flight flag | non-blocking posts, apply, push each second, export each interval, flush at shutdown | everybody posts to it |
| metric generator (`internal/metricgen`) | an immutable plan, a resource cache shared by the workers, a request builder per worker | sweep the series, build points, flush with retries | collector |
| user workload (`internal/user`) | position in the query sequence, collected binds | next query, preflights, execute, think, reset | ClickHouse |
| `main` | contexts and wait groups | start the parts, wait for a signal or the end, cancel and wait in order | all |

Blocks circulate: a source acquires one, fills it, sends it over the queue; a sink ships
its rows and releases it. What is hard here: a block changes hands between goroutines
four times and has an error or cancellation exit at each; `Acquire` and one receive of the
insert worker ignore the context, so shutdown depends on the order in which `main`
cancels; workers are torn down and restarted while blocks are on the queue; ch-go is
given one input per query, so columns are swapped in and out of a placeholder; metrics
exports run in goroutines that outlive the tick that started them; disk readers share a
limit and a clock that change while they read; metric workers share a lock-free cache; and
a metric run and a user's workflow have state that must restart together at the right step.

What makes each part correct: the pool never gives one block to two users and never makes
`Release` wait; in the pipeline every block and every row is in one place, nothing is
sent on a closed channel, whatever is read is stored or accounted for, and the program
ends; an insert worker returns every block with its own columns and encodes its rows once;
the otel sink strands nothing at shutdown and groups rows under their own resource and scope;
self-metrics lose a sample only in the admitted ways, and their totals are exact and arrive
in order; a replay keeps the distances between events, gives each reader its share and
ends; a generated series is one that a metrics backend accepts (increasing times,
contiguous windows, no falling counter without a new start), each point is settled once;
a query sees the ranges and binds its settings promise. `PROJECT.json` lists the hazards
line by line with the properties that cover them.

## 2. Modules

| module | models | kind |
|---|---|---|
| `BoundedPool` | what `block.Pool` promises: a fixed number of blocks, free or lent | abstract specification |
| `BlockPool` (`MCBlockPool`) | `block/pool.go`, each call of `Release` in its four steps | refines `BoundedPool` |
| `Pipeline` | `main.go`, disk and generate workers, insert and otel workers with their schedulers | composes the parts over `BoundedPool` |
| `OtelConvert` | `generate/filler_traces.go`, `block/otelrow.go`, `generate/otelrow.go`, `otel/convert*.go`, the batches of `otel/worker.go` | operators |
| `MCPipelineOtel` | the otel pipeline together with what happens to the rows in it | composition |
| `InsertWorker` | `insert/worker.go` in detail: the search for a node, columns, swapping, ch-go's call sequence | component |
| `SelfMetrics` | `metrics/worker.go`, `metrics/otlp.go` and the goroutines that post | component |
| `DiskReplay` (`MCDiskReplay`) | `disk/scheduler.go`, `disk/worker.go`, `disk/files.go`, `block/timeshift.go`, the id shift of `block/columns.go` | component |
| `SpeedReader` | `disk/speedreader.go` | component |
| `MetricPlan` | `metricgen/config.go`, `plan.go`, `values.go`: pure functions | operators |
| `MetricGen` (`MCMetricGen`) | `metricgen/scheduler.go`, `worker.go`, `builder.go`, `resources.go`, `client*.go` | component over `MetricPlan` |
| `TimeRange` | `user/timerange.go`, `anchor` of `workflow.go` and their validation | operators |
| `UserWorkflow` (`MCUserWorkflow`) | `user/scheduler.go`, `worker.go`, `workflow.go` | component over `TimeRange` |
| `BlockPoolProofs`, `PipelineProofs`, `InsertWorkerProofs`, `DiskReplayProofs`, `SpeedReaderProofs`, `SelfMetricsProofs`, `MetricGenProofs`, `UserWorkflowProofs` | theorems about the module each is named after | proofs |

**BlockPool.** `pool` is the channel, `uses` the map (its domain is the set of keys),
`out` the blocks in users' hands. A goroutine inside `Release` has a `pc`: the critical
sections are atomic, the allocation between them and the channel send are steps of their
own.

**Pipeline.** `hand[w]` is the block worker `w` holds, `queue` the insert queue, `batch[w]`
the rows a sink has encoded or copied but not settled; `fate` says what became of each
produced datum. All that a step can do to blocks is one of the *moves* (`Acquire`, `Fill`,
`Release`, `Enqueue`, `Dequeue`, `Encode`, `Settle`, `Abandon`, `Discard`, `Keep`); each
action is a control step plus one move. `stage` is how far `main` has come in the shutdown
sequence. Constants choose the source and the sink. The insert worker is abstracted here
to the order of receive, encode, release and commit; its columns are `InsertWorker`'s, and
what a disk reader does between two blocks is `DiskReplay`'s, except for the one thing that can
stop a block in its hands: under `shift_timestamp: all` every reader waits, without a context,
for the first timestamp. `datasetStart` says who still reads the first file towards its first
block, or that the timestamp is ready, lost, or not needed.

**OtelConvert.** What `Pipeline` leaves out: the rows. A block is filled trace by trace, each
with the service, scope and resource attributes drawn for it, and the blocks of a batch are added row by row to the builder's groups. `RequestSound` says for
each number of blocks that the request is right whatever they hold; `MCPipelineOtel` requires
it of the batch of every sink worker in every state. A block's columns are the flat pair lists with offsets that `block/otelrow.go` slices; a Go map
comes out in an arbitrary order, which the set `flips` of rows enumerates. The fingerprint is an order-free bag of pairs; hash collisions, which
the source calls an accepted trade-off, are left out. The key is all that identifies resource
and scope: service, the two schema URLs, scope name and version, and both attribute sets. Logs
and traces share `Add`; a span has no schema URLs and no scope attributes.

**InsertWorker.** `input[x]` is the column object the cached `Input()` of block `x` points
to and `content[c]` the datum in column object `c`, so a swap that is not undone is visible
as `input[b] # b`. `Encode`, `EncodeTail` and `Fails` are ch-go's `Do`, seen from how
`Run` uses it. `Dial` is one dial of `buildClient`: it compares the node it reached with the
shared index, which `OtherClaims` (the other workers) moves. `Produce` is a whole source
worker. `Start` and `Probe` are `runWorker` before every worker, the first one and each one that
follows a retirement or a failure.

**SelfMetrics.** One counter, one up/down gauge, one set value and numbered samples stand
for the metric names. An export goroutine is an element of `flying`. `ghost` records
history only; no guard reads it. Its `seen` is the total of the last request the collector was
seen to answer, an interval's or the final flush's; a request the client gave up on counts as
failed, whatever the collector made of it.

**DiskReplay.** A reader's `pc` separates the three critical sections around the speed
limit (compute, register, rebalance), the read and the installation of its limit in
`buildReader`, and the report, snapshot and shift of each block. Durations are integers of
a given width: `Sub` saturates and multiplication wraps, as in Go. `reports` is the lossy
channel to the keeper goroutine. `missed` is history: the readers that the last rebalance found
inside `buildReader`. Sends always succeed here, blocks are `Pipeline`'s.

**SpeedReader.** Times are ages in ticks, bytes are whole numbers. Between the permission
to read, the read and its count lie steps in which the clock, the optimizer and a rebalance
can run. Where inside its clamp the optimizer ends is a free choice.

**MetricPlan, MetricGen.** The hashes of the source are one constant, `Hash`, of a series or
resource, a sweep and a salt: any function at all for the proofs, and for TLC a small one
under which phases differ and `frac` jumps between its extremes, the worst case for
monotonicity. Floats are tenths or thousandths. A worker's place is where its three loops
are: sweep `k`, position `pos` in the rotated table, series `ser`. `MetricGen` has a step per
effect that another worker can see: loading a cache slot, publishing one, each attempt of an
export. `last` is the last point of each series and `settled` a count; both are history.

**UserWorkflow.** A time range or a bind is represented by the `NextQuery` call that
obtained it, so "the same in one pass" and "fresh for each query" are comparisons of
numbers; a bind also records which source it came from. What the range of a call resolves to
is `TimeRange`'s: a random sample is any value of its distribution's support, and a draw
from an empty interval, which panics, has no result. `Longest` bounds the samples of the
distributions that have no bound of their own. A log-normal sample above the largest `Duration`
(292 years), which a very large sigma can draw, is converted from float64 with a result that Go
leaves open (`timerange.go:54-56`); it is left out.

Definitions with a suffix after an underscore (`Create_Shared`, `Waited_NotOtel`...)
are mutants: the definition that follows, changed as a plausible bug would change it.
They are used by no specification; `PROJECT.json` names the property each must violate.

## 3. What TLC checks

| run | instance | properties |
|---|---|---|
| `block_pool` | 3 blocks in the pool, 4 addresses, 2 releasing goroutines, retirement after 2 uses, 3 retirements | `OneOwner`, `ReleaseNeverBlocks`, `ImplementsBoundedPool` |
| `pipeline_insert` | disk to 2 insert workers, 1 file, 4 blocks of rows, a pool of 6, retirement after every batch, 1 failure, a signal at any time | `BlockAccounting`, `OnePlace`, `SendNeverBlocks`, `NoSendOnClosed`, `NaturalEndDelivers` |
| `pipeline_ends` | disk to 1 insert worker, up to 2 files, 5 blocks of rows over a pool of 4 | `Completes` |
| `pipeline_otel` | generate to 1 otel worker, 5 blocks, batches of 2, 2 export attempts, 2 failures, all modes; rows: blocks of 4 spans in traces of up to 3, depth limits 1 to 3, batches of 2 blocks, both orders of every map, 3 draws of resource and scope; pairs of log rows that differ in any part of the key | `MetricsLast`, `OtelStrandsNothing`, `FateIsFinal`, `ShutsDown`, `RowsArrive` |
| `insert_worker` | 2 blocks of 1 or 2 rows, 3 data, batch limit 2, retirement after 2 batches, 2 nodes, 2 dials, 1 failure | `OwnColumns`, `EncodedOnce`, `BatchBound`, `OneConnection`, `BlockComesBack` |
| `self_metrics` | queue of 1, sample buffer of 2, 3 entries, endpoints that may fail every time | `SampleAccounting`, `ValuesFaithful`, `FlushComplete`, `ReceivedInOrder`, `ExporterProgress` |
| `disk_replay` | 2 readers, 2 data files (3 blocks), looped once with shifted times, or one pass; report channel of 1 | `SharesAgree`, `LoopsFollow`, `ReplayEnds`, `IdsPerLoop` |
| `speed_reader` | a ring of 4 entries, a second of 4 ticks, targets 2 and 3, bursts of a whole target, requests of 1 and 9 bytes | `WindowConsistent`, `LimitNearTarget`, `WindowBounded` |
| `metric_gen` | 2 workers, 2 metrics in five settings (every metric type, both temporalities, HTTP and gRPC, 3 or 4 sweeps, or endless), lifetimes of 2 sweeps, resets every 3, jitter 2 of 5 ms, markers on, requests of 2 points, 2 attempts | `SettledOnce`, `CacheSound`, `PlanExact`, `Timeline`, `Stops` |
| `user_workflow` | 2 users, 2 queries, four settings that cover every cadence, a ramp, 4 calls each; time ranges of every type, bounds 0 (unset) to 3, rounding 0 to 3, every anchor | `SampledAsConfigured`, `BindsPrecede`, `UsersStop`, `RangesResolve` |
| `pipeline_discard`, `disk_loop` | the smallest that shows it | violated, see section 4 |

*Why the bounds are enough.* In `block_pool` both goroutines can be in the unlock window
at once, a retired address can be reused, and the channel can be full or empty. In
`pipeline_insert` two sinks compete for the queue while one of them restarts, the failure
can hit a dial or any point of a query, and a restart can meet every fill of the queue.
`pipeline_ends` has more data than the pool has blocks, so the pool empties, backpressure
works and, through the probe of section 4, all four blocks can be lost; its first file can fail,
so that the reader waits in vain with a block of the second (a reader that waits for another one
is in `disk_replay`). `pipeline_otel` has one sink; that
several of them drain the queue together is left to the theorem `OtelReturnsBlocks`. In
`insert_worker` every restart can meet an empty queue that is filled before the probe, and
another worker can claim the node between any two dials, and the last dial can miss. In
`self_metrics` three samples overflow the buffer, and three entries suffice for the
sequence increment dropped, decrement applied. In `disk_replay` one reader can be a loop
ahead of the other, a report can be dropped, and the first file can fail; `Half` is small
enough for the zero time to saturate a duration. In `speed_reader` four reads fill the ring
within a second, so that entries are evicted as well as cleaned by age, the bucket is emptied
and refilled inside one window (both parts of the bound of `WindowBounded` are met), and a
rebalance can raise or lower the target between any two steps. In
`metric_gen` two workers of different generations meet in one cache slot, generation
changes and counter resets fall on different sweeps and on the same one, and one worker
of the endless run owns no series. In `user_workflow` a preflight or query fails in every
position of a pass, and four calls make two passes. Counters that only limit exploration
are named `Max...`. No symmetry reduction is used, because liveness is checked.

`PlanExact` is a statement about pure functions over bounded inputs, checked in the run of
the component that uses them. The functions `RequestSound`, `RangeSound` and `IdsDistinct`
are such statements too, by number of blocks, call and loop; `RowsArrive`, `RangesResolve` and
`IdsPerLoop` apply them to the batches, calls and loops that the component reaches. In the
rows the last trace of a block is cut and a parent hits every depth limit; `IdsDistinct`
covers all 4096 loops that an id can count.

*Deadlock* is checked in every passing run: the stuttering steps `Exited`, `Stopped`,
`Quiescent` and `Rest` are enabled only in states where the program, or the bound, has
ended. `Hung` stutters only where every block was lost or a source waits for a timestamp that
is lost, and `Finished` in `DiskReplay` only for the latter (`FirstFileLost`, section 4); every
other waiting state would be reported.

*Fairness.* `Pipeline`: each worker's goroutine is scheduled, `main` too; servers answer
or refuse, and `MaxFailures` bounds refusals (a server that refuses for ever keeps a worker
restarting for ever, and the program then rightly does not end). Nothing makes the signal
arrive, and `metric_gen` and `user` need not end by themselves, only after cancellation.
`InsertWorker`: the worker and the server make progress; producers need not.
`SelfMetrics`: requests end because each has a timeout or dies with its context; the cases of
`Run`'s select get strong fairness, because Go picks uniformly among ready cases and the
tickers keep theirs ready. `DiskReplay`: the file generator, the keeper, the scheduler and
each reader are scheduled. `MetricGen`: each worker is; exports end by their timeout.
`UserWorkflow`: each user and the scheduler are; a query ends because its context does. In
none of them is anything obliged to cancel. `SpeedReader` and `BlockPool` assume nothing.

What the runs show beyond the single properties: `Completes` says that no interleaving of
restarts, failures and a signal hangs the program unless *every* pool block has been lost, or
the first file was left before its first block while timestamps are shifted;
`ShutsDown` (with a generator as the source) and `MetricsLast` together that waiting for the source first, with an
`Acquire` that ignores the context, is sound because sinks run until the source is done;
`Stops` and `UsersStop` justify what `Pipeline` takes for granted of the two other modes,
with one exception (section 4).

## 4. Where the code and its documents disagree

Shown by a run that TLC refutes:

1. `insert/scheduler.go:89-97` (`pipeline_discard`). Before it starts a worker, `runWorker`
   asks if the queue was closed by receiving into `_`. A block enqueued after
   `len(s.queue) == 0` was read is thrown away: its rows are lost and the "fixed-size pool"
   is one block smaller. Each restart or retirement can do it again.
2. `block/timeshift.go:87` (`disk_loop`). `Snapshot` waits for the first timestamp but not
   for a report of the latest. A block of the second loop that is shifted before the keeper
   has received one is moved by a saturated duration, to long before the program start that
   `example.yaml:113-115` promises as the first event time. `LoopsFollow` bounds the rest: a
   shift is always a multiple of a span the data set really has, or of that one wrong span;
   blocks of one loop may get different multiples.

Met while modelling; the models contain the behaviour, and where named a property describes it:

* `disk/worker.go:216-219`: a cancelled send forgets its block, although `CHANGELOG.md:130`
  reports such a leak as fixed; the generator releases it. `BlockAccounting` states that this
  and item 1 are the *only* two places a block can be lost.
* `block/timeshift.go:82`: `Snapshot` waits without a context. If the first file of the first
  loop ends before its first block, or its reader sees a cancellation before it, the other readers
  wait for ever and no signal ends the program (`FirstFileLost` in `ReplayEnds`, `StartLost` in
  `Completes`).
* `block/traces.go:186-194`: per loop the trace, span and parent ids are changed, the ids in
  links and the event times are not.
* `disk/worker.go:80-85,150`: `buildReader` reads the reader's limit, builds the reader and
  assigns `w.speedRd`, without a lock. A rebalance in between stores the new share and finds no
  reader to reset, so the reader runs at its old share until the next rebalance, and the readers
  together exceed what `example.yaml:102` calls "the speed limit for uncompressed data across all
  threads". `SharesAgree` bounds it: every other reader is limited to exactly its share, and such
  a one to the share of an earlier number of readers.
* `disk/speedreader.go`: what passes in one second is the
  window's headroom and what comes through the bucket, and the second part is not one burst:
  each read may take a burst, up to two bursts and a second's refill in all, so that up to
  twice the limit and two bursts can pass (`WindowBounded`). The bytes of entries that are evicted
  from the ring or replaced with the window leave its total, so the bound is of what the window
  holds.
* `insert/worker.go:213`: the documented stagger of retirements (`insert/config.go:21`) is
  subtracted out again: workers of equal pace restart at once.
* `insert/worker.go:255`: after a hundred misses the client that was closed last is returned as
  connected and the next query on it fails. `insert/node_balancer.go:81` indexes an empty list
  if the nodes could not be fetched.
* `metrics/worker.go:173`: after cancellation the select may take the export tick; the last
  samples then leave in a request whose context is cancelled, and the flush has nothing left
  to send (`FlushComplete` therefore speaks of counters).
* `metrics/otlp.go:143-158`: the flush does not look at `inFlight`. An export under way may be
  answered after it, with an older total: `ReceivedInOrder` admits this one step back, once the
  worker has stopped. `metrics/worker.go:163-170`: points that wait for the next push when the
  worker stops are pushed by nobody; `SampleAccounting` counts them as waiting.
* `metricgen/plan.go:492,496`: `rpc.service` has 40 different values and `operation` 280, so a
  dimension that is larger gives two series the same attributes, although `values.go:89-92`
  calls each vector unique; `SeriesDistinct` states exactly when they are.
* `metricgen/worker.go:176-204`: in an endless run a worker that owns no series spins and never
  sees a cancellation (the exception in `Stops`). A request can exceed `points_per_request` by
  the point that follows a marker, and markers are not counted by the limiter.
* `user/timerange.go:41`: a uniform range with equal bounds passes validation and panics
  (`RangesResolve`); so does a random anchor if the data set's end is not after its start.
* `user/scheduler.go:108`: the backoff is reset before each run, so it never grows after a
  failed run, and a restarted worker's query runner is not closed.
* `generate/filler_traces.go`: the last trace of a block is cut short although the comment
  speaks of whole traces, and `max_depth` 1 yields spans of depth 1.

## 5. What is proved

All theorems hold for every value of the constants that satisfies the named assumptions.
Each proof module states its inductive invariant as a conjunction of named parts; each was
checked with TLC as an invariant of a run before it was proved, each action has a lemma of
its own, and the last step of a theorem about `Spec` is temporal logic only.

| module | theorem | property |
|---|---|---|
| `BlockPoolProofs` | `TypeAndOwnership`, `ReleaseIsNonBlocking`, `PoolRefinement` | `OneOwner`, `ReleaseNeverBlocks`, `ImplementsBoundedPool` |
| `PipelineProofs` | `BlocksAccounted`, `DataInOnePlace`, `SourceSendsFreely`, `CloseIsSafe`, `FatesAreFinal`, `MetricsStopLast`, `OtelReturnsBlocks`, `NaturalEndStoresAll` | `BlockAccounting`, `OnePlace`, `SendNeverBlocks`, `NoSendOnClosed`, `FateIsFinal`, `MetricsLast`, `OtelStrandsNothing`, `NaturalEndDelivers` |
| `InsertWorkerProofs` | `ColumnsReturned`, `EncodedAtMostOnce`, `BatchesBounded`, `ConnectionsClosed` | `OwnColumns`, `EncodedOnce`, `BatchBound`, `OneConnection` |
| `DiskReplayProofs` | `SharesOfTheLimit`, `LoopsKeepTheirDistance`, `IdsTellRowsApart`; `IdsKeepTheirJoins`, `LoopsTellIdsApart` | `SharesAgree`, `LoopsFollow`, `IdsPerLoop`; its clauses for all ids and loops |
| `SpeedReaderProofs` | `WindowTotalExact`, `LimitKept`, `SecondBounded` | `WindowConsistent`, `LimitNearTarget`, `WindowBounded` |
| `SelfMetricsProofs` | `SamplesAccountedFor`, `CountsExact`, `LastFlushComplete`, `TotalsInOrder` | `SampleAccounting`, `ValuesFaithful`, `FlushComplete`, `ReceivedInOrder` |
| `MetricGenProofs` | `CacheNeverMixesUp`, `PointsSettledOnce`, `SeriesInOrder`, `PlanIsExact`; `CyclesAreExact`, `SeriesTellApart`, `PlansAreDefined`, `GenerationsTellOneStory` | `CacheSound`, `SettledOnce`, `Timeline`, `PlanExact`; the clauses of `PlanExact` for all inputs |
| `UserWorkflowProofs` | `MostSpecificBindWins`, `CadencesKept`, `RangesStaySound`; `ValidRangesSound`, `WindowsAdvance` | `BindsPrecede`, `SampledAsConfigured`, `RangesResolve`; its clauses for all settings and times |

Every module but the first has a theorem `TypeCorrect` as well.

*Assumptions.* `BlockPoolAssumption`: a positive pool size and finitely many goroutines.
`PipelineAssumption`: finite, disjoint, non-empty sets of workers. `StartAssumption`: no worker is called
as one of the states of `datasetStart`; no proof needs it. `InsertWorkerAssumption`:
blocks have rows, there is a node and a dial. `ReplayAssumption`: finitely many directory
entries with different paths, times after the zero time and blocks that do not end before they
begin; `SpanAssumption`: no two blocks of the data set are further apart than a Go `Duration`
reaches (290 years). `LimiterAssumption`: positive targets and requests, and a highest target,
which is the configured limit (a share is never above it). `SelfMetricsAssumption`: positive
capacities, and fewer entries than the counters' modulus. `PlanAssumption` and `GenAssumption`:
what `Config.Validate` lets through, and tables in which each metric is one that
`buildMetricDef` can make; of `Hash` nothing is assumed. `UserAssumption`: the settings are
workflows that pass the validation; `Names` is the set of names that can be bound and is
arbitrary. `TimeRangeAssumption`: `Longest` is a natural number.

*Block pool.* `OneOwner` is not inductive alone: nothing says that a goroutine between two
steps of `Release` holds a block at all, nor how many blocks there are. The invariant adds
`HoldsBlock` (whoever is inside `Release` has a block in `cols`) and `FixedSize` (free, in
use and inside `Release` add up to `PoolSize`). From `FixedSize` and `OneOwner` the sender
is itself one of the `PoolSize` blocks, so the channel has room, and the mapping
`free <- Len(pool)`, `lent <- ` the rest makes each step an abstract step or a stutter.

*Pipeline.* There is one lemma per move about the block part of the invariant, and every
action is shown to be such a move; so the dozens of actions reduce to ten arguments about
blocks. The block invariant is types, accounting, `OnePlace` and `Numbering` (data beyond
`produced` are unborn). It does not suffice for the others: `SendNeverBlocks` needs that a
source at its send holds a block (`HandMatchesPc` ties hands to program counters), and
`NoSendOnClosed` that a closed queue means that every source is done and stays so
(`ClosedMeansDone`). `MetricsLast` rests on `ShutdownOrder`: what `main` has waited for stays
finished. The two properties of the end need a second layer on top of the first (`EndInv`):
a sink's batch is empty wherever its pc says so (`BatchMatchesPc`), a sink at its end has
seen the queue closed and empty or was cancelled (`QueueOver`), only a cancelled sink drains
(`DrainMeansCancelled`), and as long as nothing failed and nothing was cancelled no row has
come to harm (`Untroubled`).

*Insert worker.* What `swapInput` restores depends on which block's columns are swapped in
(`Exchange`), on that block being in no other place (`OneHolder`), and on where in `Run` and
`OnInput` a block can be in hand (`HandMatchesPc`); a block that a probe drops is in no place
any more, and its columns are its own. `EncodedOnce` needs besides that the
blocks that wait hold different data, none of it encoded yet (`Waiting`).

*Disk replay.* `SharesAgree` needs to know which places of `runWorker` belong to a registered
reader (`Registered`): the share a new worker object is given before it is registered must not
be one that is counted. For the limit in force it says besides what a reader in `buildReader`
carries: the stored limit, unless a rebalance has happened since it was read (`missed`), and then
the share of some number of readers. `LoopsFollow` rests on the history of the first timestamp: only the
first block of the first file can report it, so it never changes once `Snapshot` has let a
reader pass (`StartKnown`), and what the keeper recorded is the end of some block (`EndKnown`).
Ids are sequences of bytes and a loop number its last three hexadecimal digits. Within an
alphabet, lower or upper case, a shift takes no two digits to one byte (`BytesApart`), so ids
of a loop stay apart; no two shifts take one digit to the same byte (`ShiftsApart`), and two
loop numbers have the same digits only if they agree modulo 16, 256 or 4096, by the number of
bytes the id has (`DigitsTell`).

*Speed limit.* The total of the window is a recursive sum over the ring. The induction
theorems of the library take an operator and cannot be used; the few facts about the sum are
proved by induction over a *set* of naturals, which follows from the well-foundedness of `<`.
Then the window is sound through cleaning, eviction and wrap-around. The bound on a second is
a statement about all tails of the window at once (`Throughput`): the bytes of the last i
entries, the read under way and the tokens left are together at most what the time since
they began, and the bucket at its fullest, allow. The attempt to prove the bound as
it stood before (headroom and a single burst) failed, and TLC, given a longer window,
confirmed that it was false: see section 4.

*Self-metrics.* A sample number is posted, queued and buffered once (`PointsOnce`) and a
single request is in flight (`OneAtATime`), from which the accounting follows; and the order of
the totals, because a request is no older than the last answer until the worker has stopped
(`CountsBounded`), after which only the export still in flight can be answered. The count of running workers needs the order of the queue: before any stop
there are enough starts (`StartsFirst`), so that the decrement that stops at zero has nothing
to stop.

*Metric generator: the workers.* The invariant has four layers, `FullInv`. In the first,
`IInv`, a slot of the cache holds the resource of the generation it names (`SlotsFaithful`),
every group of a request that of its own (`Own`), whoever published it, and what a point still
needs is part of the bound on a request (`Room`). `Courses` says where a worker's loops can be:
in its own stripe, at a series that exists, with exactly the generations in `todo` that its
point needs. `History` gives the last point of *every* series as a function of its owner's
place (`Expected`): the point of this sweep if the worker is past it, the marker if it is in
between, else the point of the sweep before. `Counts` equates the points handled with the size
of the sets `Done` and `Markers`. One lemma (`WorkerShape`) reduces the ten actions to six
shapes of step (nothing moves, a point begins, a marker or a point is added, the next metric,
the next sweep), and each layer is shown to survive the shapes; that the rotated table visits
each metric once a sweep is arithmetic of remainders. `SettledOnce` can be read off `FullInv`.
For `Timeline` the change of `last` is from one expected point to the next, so it remains to
compare the points of two neighbouring sweeps: an epoch starts neither after its sweep nor
before its generation, two sweeps have the same epoch or the second starts one, jitter is under
half an interval, and rate times age plus nine tenths of a rate does not fall from one sweep to
the next, whatever the hashes and after rounding.

*Metric generator: the plan.* `typeCycle` is exact because two things hold after every turn
(`Balanced`): credits sum to zero, each being its weight times the turns minus the total times
its picks, and no type owes a whole total. After the last turn every credit is a multiple of
the total, none of them negative, and their sum is zero: so all are zero. Series differ in
their attributes because the sizes `dimSizes` makes leave a remainder of one after the last
dimension (`Remains`), so that the mixed-radix digits determine the number, and because
`attrValue` repeats nothing within its reach. `PlansAreDefined` follows the settings through
defaults and validation.

*Recursion.* The library's induction theorems take an operator and cannot be used. Induction is
done over a *set* of naturals, which follows from the well-foundedness of `<` (`LeastNat`,
`InductionOnNat`, `InductionUpTo`), and a lemma `Recursion` shows that a function defined by
recursion up to a bound exists, so that sums, cycles, sizes and digits can be unfolded.

*User workload.* The invariant is one per user. Its first half follows the map of binds
through a call: what is in the cache, what has been bound after so many preflights. The second
relates the cache and the held time range to what the queries of the pass have used already.
A resolved range is sound because rounding gives a multiple of the step, moves a time by at most
half a step and keeps the order of times; the length of the rounded interval is off by less
than one whole step because halves are rounded up at both of its ends.

*Only model-checked.* All liveness (`Completes`, `ShutsDown`, `BlockComesBack`,
`ExporterProgress`, `ReplayEnds`, `Stops`, `UsersStop`): it depends on fairness and `ENABLED`,
which are out of TLAPS's reach here. `RowsArrive`: it speaks of the requests that nested folds
build out of columns, rows and groups, over inputs that the definition enumerates; its general
form is an induction over rows, maps and groups at once. No module uses `RECURSIVE`.

## 6. Abstractions, and what is not modelled

* Row contents, column layouts, codecs, compression, logging, SQL texts and the parsing of
  the configuration are left out: they are data or I/O that no property tells apart.
  Validation is modelled where other code relies on it. Batch limits of `Pipeline` count
  blocks; `InsertWorker` counts rows.
* Passthrough (no sink) and `reuse_blocks: false` (`GarbageBlockPool`, which never waits) are
  not modelled; without reuse the backpressure moves from `Acquire` to the send, and
  `SendNeverBlocks` does not apply.
* `Pipeline` lets `InsertEOF` happen at any time, which covers the ten-second timer.
* The shift modes `date` and `now` write the clock into a column.
* `SelfMetrics` has OTLP enabled; runtime gauges are left out. The OTLP clients of the otel
  sink and of self-metrics are I/O: an export succeeds or fails.
* An export whose answer is lost may have been stored; the models call it failed, as the
  program does.
* Of the generated rows only traces have structure worth a property; the fillers of logs and
  profiles and the demo profile are tables and random draws.
* Of `metricgen` exemplars, float sums, quantiles, names and the wire format are left out. The
  values are integer versions of the source's float formulas: what is proved about them
  (monotonicity, sums of buckets) is about the formulas, not about the rounding of floats.
* The limits of `metricgen` (metrics, series, attributes) and its defaults are small numbers
  in `MetricPlan`, and the decay of cardinalities has the base one half.
* `Nodes` of `InsertWorker` is at least one.

## 7. State of the plan, and what could follow

Every component with state of its own has a module, a run and proofs; every safety invariant
and action property that a run checks is a theorem, `RowsArrive` excepted. Worth doing next, in
this order:

1. `OtelConvert`: the order-free fingerprint as a bag, and grouping as a partition of the rows,
   for any number of rows; this would free `RowsArrive` of its bounds.
2. `InsertWorker` as a refinement of the sink in `Pipeline`: the order of receive, encode,
   release and commit that `Pipeline` takes for granted.
3. `Pipeline` without reuse of blocks (`GarbageBlockPool`), where backpressure moves to the send.
