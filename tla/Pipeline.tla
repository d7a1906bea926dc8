------------------------------ MODULE Pipeline ------------------------------
(***************************************************************************)
(* The block pipeline of ClickCannon, as main.go puts it together: source  *)
(* workers (disk or generate) take blocks from the pool, fill them and put *)
(* them on the insert queue; sink workers (insert or otel) take them off,  *)
(* ship their rows and release them; main shuts the parts down in order.   *)
(*                                                                         *)
(* A block travels with its contents.  hand[w] is the block worker w       *)
(* holds: NoBlock, Blank (a block whose rows nobody needs any more) or the *)
(* number of the data it was filled with; data are numbered in the order   *)
(* they are produced.  fate records what became of each number.  The pool  *)
(* is the abstract one of BoundedPool, which BlockPool implements.         *)
(*                                                                         *)
(* Each step of a worker moves at most one block (the Moves below).        *)
(***************************************************************************)
EXTENDS Integers, Sequences, FiniteSets

CONSTANTS
    SourceWorkers,     \* disk.threads or generate.threads goroutines
    SinkWorkers,       \* insert.threads or otel.threads goroutines
    Source,            \* "disk" or "generate"
    Sink,              \* "insert" or "otel"
    Modes,             \* enabled ones of "metric_gen", "user", "metrics"
    BatchBlocks,       \* insert/otel batch_size, in blocks
    RetireBatches,     \* insert.worker_retirement_batches
    MaxFlushAttempts,  \* otel maxFlushAttempts
    MaxFiles,          \* bound: data files in the folder, at most
    MaxBlocks,         \* bound: data the sources can produce
    MaxFailures        \* bound: failed dials, queries and exports

ASSUME PipelineAssumption ==
    /\ IsFiniteSet(SourceWorkers) /\ SourceWorkers # {}
    /\ IsFiniteSet(SinkWorkers) /\ SinkWorkers # {}
    /\ SourceWorkers \cap SinkWorkers = {}
    /\ Source \in {"disk", "generate"}
    /\ Sink \in {"insert", "otel"}
    /\ Modes \subseteq {"metric_gen", "user", "metrics"}
    /\ {BatchBlocks, RetireBatches, MaxFlushAttempts, MaxFiles, MaxBlocks,
        MaxFailures} \subseteq Nat

\* What is known of datasetStart: nobody needs it (disk.shift_timestamp is not
\* "all"); the first file has not been handed out; it was reported; it never will
\* be. While a worker reads the first file towards its first block: that worker.
StartStates == {"unneeded", "unread", "ready", "lost"}

ASSUME StartAssumption == SourceWorkers \cap StartStates = {}

VARIABLES
    free, lent,   \* the pool (BoundedPool)
    queue,        \* insertQueue's buffer
    hand, batch,  \* per worker: block held; data in its open batch
    produced,     \* data produced so far
    fate,         \* what became of each datum
    pc,           \* per worker
    tries,        \* per sink worker: insert batches done, or export attempts
    filesLeft,    \* disk: files generateFiles has still to hand out
    datasetStart, \* disk: replayTimeKeeper's, see StartStates
    failures,     \* failures spent
    closed,       \* insertQueue closed by the source goroutine of main
    stage,        \* main: see Stages
    running       \* modes whose scheduler has not returned

blockVars == <<free, lent, queue, hand, batch, produced, fate>>
vars == <<free, lent, queue, hand, batch, produced, fate,
          pc, tries, filesLeft, datasetStart, failures, closed, stage, running>>

Workers == SourceWorkers \cup SinkWorkers

NoBlock == -1
Blank == 0
Data == 1..MaxBlocks

\* main.go: blocksToAlloc sizes both the pool and the queue.
BlocksToAlloc == (Cardinality(SourceWorkers) + Cardinality(SinkWorkers)) * 2

Pool == INSTANCE BoundedPool WITH PoolSize <- BlocksToAlloc

\* Mutant: the queue is sized for the source workers alone.
QueueSize_SourcesOnly == Cardinality(SourceWorkers) * 2

\* main.go: the capacity of insertQueue.
QueueSize == BlocksToAlloc

Fates == {"unborn", "moving", "stored", "failed", "dropped",
          "discarded", "abandoned"}

(***************************************************************************)
(* Stages of main: 0 waits for a signal or for everyone; 1..6 have         *)
(* cancelled the source, insert, otel, metric_gen, user and metrics        *)
(* contexts in turn and wait for that part; 7 has returned.                *)
(***************************************************************************)
Stages == 0..7
Stopped == 7
SourceCancelled == stage >= 1
SinkCancelled == stage >= (IF Sink = "insert" THEN 2 ELSE 3)
ModeStage(m) == CASE m = "metric_gen" -> 4 [] m = "user" -> 5 [] m = "metrics" -> 6

SinkEnds == {"stopped", "gaveup"}
SourceDone == \A w \in SourceWorkers : pc[w] = "done"
SinkDone == \A w \in SinkWorkers : pc[w] \in SinkEnds
-----------------------------------------------------------------------------
(* Moves: all a step can do to the blocks.                                 *)

Keep == UNCHANGED blockVars

Settled(set, f) == [i \in Data |-> IF i \in set THEN f ELSE fate[i]]

\* blockPool.Acquire and Reset: waits for a free block, context or not.
Acquire(w) ==
    /\ Pool!Acquire
    /\ hand' = [hand EXCEPT ![w] = Blank]
    /\ UNCHANGED <<queue, batch, produced, fate>>

\* Decode or generate rows into the block in hand.
Fill(w) ==
    /\ produced < MaxBlocks
    /\ produced' = produced + 1
    /\ hand' = [hand EXCEPT ![w] = produced + 1]
    /\ fate' = [fate EXCEPT ![produced + 1] = "moving"]
    /\ UNCHANGED <<free, lent, queue, batch>>

\* blockPool.Release; rows still in the block meet fate f.
Release(w, f) ==
    /\ hand[w] # NoBlock
    /\ Pool!Release
    /\ hand' = [hand EXCEPT ![w] = NoBlock]
    /\ fate' = Settled({hand[w]}, f)
    /\ UNCHANGED <<queue, batch, produced>>

\* Mutant: the sender keeps using the block it has sent.
Enqueue_Keeps(w) ==
    /\ Len(queue) < QueueSize
    /\ queue' = Append(queue, hand[w])
    /\ UNCHANGED <<free, lent, hand, batch, produced, fate>>

\* insertQueue <- cols
Enqueue(w) ==
    /\ Len(queue) < QueueSize
    /\ queue' = Append(queue, hand[w])
    /\ hand' = [hand EXCEPT ![w] = NoBlock]
    /\ UNCHANGED <<free, lent, batch, produced, fate>>

\* <-insertQueue
Dequeue(w) ==
    /\ queue # <<>>
    /\ queue' = Tail(queue)
    /\ hand' = [hand EXCEPT ![w] = Head(queue)]
    /\ UNCHANGED <<free, lent, batch, produced, fate>>

\* The rows in hand have been encoded or copied into the open batch.
Encode(w) ==
    /\ batch' = [batch EXCEPT ![w] = @ \cup {hand[w]}]
    /\ hand' = [hand EXCEPT ![w] = Blank]
    /\ UNCHANGED <<free, lent, queue, produced, fate>>

\* The open batch ends with fate f.
Settle(w, f) ==
    /\ fate' = Settled(batch[w], f)
    /\ batch' = [batch EXCEPT ![w] = {}]
    /\ UNCHANGED <<free, lent, queue, hand, produced>>

\* The block in hand is forgotten without a Release.
Abandon(w) ==
    /\ fate' = Settled({hand[w]}, "abandoned")
    /\ hand' = [hand EXCEPT ![w] = NoBlock]
    /\ UNCHANGED <<free, lent, queue, batch, produced>>

\* A block is received into the blank identifier.
Discard ==
    /\ queue # <<>>
    /\ queue' = Tail(queue)
    /\ fate' = Settled({Head(queue)}, "discarded")
    /\ UNCHANGED <<free, lent, hand, batch, produced>>
-----------------------------------------------------------------------------
(* Control.                                                                *)

Goto(w, from, to) ==
    /\ pc[w] = from
    /\ pc' = [pc EXCEPT ![w] = to]

SameTries == UNCHANGED tries
SameMain == UNCHANGED <<filesLeft, failures, closed, stage, running>>
SameRest == SameMain /\ UNCHANGED datasetStart
OnlyPc == SameTries /\ SameRest

Fail ==
    /\ failures < MaxFailures
    /\ failures' = failures + 1
    /\ UNCHANGED <<filesLeft, datasetStart, closed, stage, running>>
-----------------------------------------------------------------------------
(* Disk workers: disk/scheduler.go runWorker and disk/worker.go.           *)

\* runWorker's select: context done, or generateFiles closed the channel.
DiskStop(w) ==
    /\ SourceCancelled \/ filesLeft = 0
    /\ Goto(w, "take", "done") /\ OnlyPc /\ Keep

\* The first file of all goes to worker w, or is lost.
TakesFirst(x) == datasetStart' = IF datasetStart = "unread" THEN x ELSE datasetStart

\* Nobody reads the first file again, so datasetStart is reported by its first
\* block or never.
LeavesFile(w) == datasetStart' = IF datasetStart = w THEN "lost" ELSE datasetStart

\* A file arrives and opens; one that cannot be opened is skipped.
DiskOpen(w) ==
    /\ filesLeft > 0
    /\ filesLeft' = filesLeft - 1
    /\ \/ /\ Goto(w, "take", "read") /\ UNCHANGED failures
          /\ TakesFirst(w)
       \/ /\ failures < MaxFailures /\ failures' = failures + 1
          /\ Goto(w, "take", "take")
          /\ TakesFirst("lost")
    /\ SameTries /\ Keep
    /\ UNCHANGED <<closed, stage, running>>

\* Run's loop: stop on a cancelled context, else decodeBlock.
DiskRead(w) ==
    \/ ~SourceCancelled /\ Goto(w, "read", "acquire") /\ OnlyPc /\ Keep
    \/ /\ SourceCancelled
       /\ Goto(w, "read", "take") /\ LeavesFile(w) /\ SameTries /\ SameMain /\ Keep

DiskAcquire(w) == Goto(w, "acquire", "decode") /\ OnlyPc /\ Acquire(w)

\* End of file or a block that does not decode: released, the file is over.
DiskFileEnds(w) ==
    /\ Goto(w, "decode", "take") /\ LeavesFile(w)
    /\ SameTries /\ SameMain /\ Release(w, "dropped")

\* A block is decoded; the first one of the first file reports datasetStart.
DiskDecode(w) ==
    /\ Goto(w, "decode", IF datasetStart = "unneeded" THEN "send" ELSE "shift")
    /\ datasetStart' = IF datasetStart = w THEN "ready" ELSE datasetStart
    /\ SameTries /\ SameMain /\ Fill(w)

\* ShiftTimestamp: Snapshot waits for datasetStart, context or not.
DiskShift(w) ==
    /\ datasetStart = "ready"
    /\ Goto(w, "shift", "send") /\ OnlyPc /\ Keep

DiskSend(w) == Goto(w, "send", "read") /\ OnlyPc /\ Enqueue(w)

\* decodeBlock's select takes ctx.Done(): cols goes out of scope unreleased.
DiskAbandon(w) ==
    /\ SourceCancelled
    /\ Goto(w, "send", "read") /\ OnlyPc /\ Abandon(w)

DiskStep(w) ==
    \/ DiskStop(w) \/ DiskOpen(w) \/ DiskRead(w) \/ DiskAcquire(w)
    \/ DiskFileEnds(w) \/ DiskDecode(w) \/ DiskShift(w) \/ DiskSend(w)
    \/ DiskAbandon(w)
-----------------------------------------------------------------------------
(* Generator workers: generate/worker.go Run.                              *)

\* Mutant: the loop does not look at the context.
GenStop_Ignored(w) == FALSE

GenStop(w) == SourceCancelled /\ Goto(w, "top", "done") /\ OnlyPc /\ Keep

\* The rate limiter grants a block (within the bound MaxBlocks).
GenWait(w) ==
    /\ ~SourceCancelled
    /\ produced + Cardinality({v \in SourceWorkers : pc[v] \in {"acquire", "fill"}})
         < MaxBlocks
    /\ Goto(w, "top", "acquire") /\ OnlyPc /\ Keep

GenAcquire(w) == Goto(w, "acquire", "fill") /\ OnlyPc /\ Acquire(w)

\* Fill saw the cancelled context and returned early.
GenPartialFill(w) ==
    /\ SourceCancelled
    /\ Goto(w, "fill", "done") /\ OnlyPc /\ Release(w, "dropped")

GenFill(w) == Goto(w, "fill", "send") /\ OnlyPc /\ Fill(w)

GenSend(w) == Goto(w, "send", "top") /\ OnlyPc /\ Enqueue(w)

GenDrop(w) ==
    /\ SourceCancelled
    /\ Goto(w, "send", "done") /\ OnlyPc /\ Release(w, "dropped")

GenStep(w) ==
    \/ GenStop(w) \/ GenWait(w) \/ GenAcquire(w) \/ GenPartialFill(w)
    \/ GenFill(w) \/ GenSend(w) \/ GenDrop(w)
-----------------------------------------------------------------------------
(* Insert workers: insert/scheduler.go runWorker and insert/worker.go Run. *)

\* Loop top of runWorker: the context, then len(s.queue) == 0.
InsertStart(w) ==
    /\ Goto(w, "start", CASE SinkCancelled                    -> "gaveup"
                          [] ~SinkCancelled /\ queue = <<>> -> "probe"
                          [] OTHER                            -> "dial")
    /\ OnlyPc /\ Keep

\* The non-blocking receive that asks whether the queue was closed.
InsertProbe(w) ==
    /\ queue = <<>>
    /\ Goto(w, "probe", IF closed THEN "stopped" ELSE "dial")
    /\ OnlyPc /\ Keep

\* A source enqueued a block after the length was read: it is received and
\* dropped on the floor.
InsertProbeDiscards(w) == Goto(w, "probe", "dial") /\ OnlyPc /\ Discard

\* buildClient; newWorker starts a fresh batch count.
InsertDial(w) ==
    /\ Goto(w, "dial", "top")
    /\ tries' = [tries EXCEPT ![w] = 0]
    /\ SameRest /\ Keep

InsertDialFails(w) ==
    \/ Goto(w, "dial", "backoff") /\ SameTries /\ Fail /\ Keep
    \/ SinkCancelled /\ Goto(w, "dial", "stopped") /\ OnlyPc /\ Keep

InsertTop(w) ==
    /\ Goto(w, "top", IF SinkCancelled THEN "stopped" ELSE "recv")
    /\ OnlyPc /\ Keep

InsertRecv(w) == Goto(w, "recv", "query") /\ OnlyPc /\ Dequeue(w)

\* Mutants: stop at the close, not at the end of what is buffered; or retry the
\* receive for ever.
InsertQueueClosed_Early(w) ==
    /\ closed
    /\ Goto(w, "recv", "stopped") /\ OnlyPc /\ Keep

InsertQueueClosed_Loops(w) ==
    /\ closed /\ queue = <<>>
    /\ Goto(w, "recv", "top") /\ OnlyPc /\ Keep

InsertQueueClosed(w) ==
    /\ closed /\ queue = <<>>
    /\ Goto(w, "recv", "stopped") /\ OnlyPc /\ Keep

\* ch-go encodes and flushes the columns swapped into the input.
InsertEncode(w) == Goto(w, "query", "input") /\ OnlyPc /\ Encode(w)

\* OnInput again: release the block sent, end the batch once it is large enough.
InsertOnInput(w) ==
    /\ Goto(w, "input", IF Cardinality(batch[w]) > BatchBlocks THEN "commit" ELSE "next")
    /\ OnlyPc /\ Release(w, "stored")

InsertNext(w) == Goto(w, "next", "query") /\ OnlyPc /\ Dequeue(w)

\* OnInput returns EOF: context, queue closed, or no block for ten seconds.
InsertEOF(w) == Goto(w, "next", "commit") /\ OnlyPc /\ Keep

\* Another batch counted: the worker retires or goes on.
CountBatch(w, from) ==
    LET sent == tries[w] + 1 IN
    /\ Goto(w, from, IF RetireBatches > 0 /\ sent >= RetireBatches
                     THEN "start" ELSE "top")
    /\ tries' = [tries EXCEPT ![w] = IF RetireBatches > 0 THEN sent ELSE 0]
    /\ SameRest

InsertCommit(w) == CountBatch(w, "commit") /\ Settle(w, "stored")

InQuery == {"query", "input", "next", "commit"}

\* c.Do fails: the batch is lost, as far as the program knows.
InsertError(w) ==
    /\ pc[w] \in InQuery
    /\ \/ pc' = [pc EXCEPT ![w] = "abort"] /\ Fail
       \/ SinkCancelled /\ pc' = [pc EXCEPT ![w] = "leftover"] /\ SameRest
    /\ SameTries /\ Settle(w, "failed")

\* Mutant: the error path keeps the block it holds.
InsertAbort_Keeps(w) == Goto(w, "abort", "backoff") /\ OnlyPc /\ Keep

\* The error path: release the block still held and return the error.
InsertAbort(w) ==
    /\ Goto(w, "abort", "backoff") /\ OnlyPc
    /\ IF hand[w] = NoBlock THEN Keep ELSE Release(w, "failed")

\* The cancelled path: release the block still held and count the batch.
InsertLeftover(w) ==
    /\ CountBatch(w, "leftover")
    /\ IF hand[w] = NoBlock THEN Keep ELSE Release(w, "failed")

SinkBackoff(w) ==
    /\ \/ Goto(w, "backoff", "start")
       \/ SinkCancelled /\ Goto(w, "backoff", "gaveup")
    /\ OnlyPc /\ Keep

InsertStep(w) ==
    \/ InsertStart(w) \/ InsertProbe(w) \/ InsertProbeDiscards(w)
    \/ InsertDial(w) \/ InsertDialFails(w) \/ InsertTop(w) \/ InsertRecv(w)
    \/ InsertQueueClosed(w) \/ InsertEncode(w) \/ InsertOnInput(w)
    \/ InsertNext(w) \/ InsertEOF(w) \/ InsertCommit(w) \/ InsertError(w)
    \/ InsertAbort(w) \/ InsertLeftover(w) \/ SinkBackoff(w)
-----------------------------------------------------------------------------
(* OTel workers: otel/scheduler.go runWorker and otel/worker.go Run.       *)

OtelStart(w) ==
    /\ \/ SinkCancelled /\ Goto(w, "start", "gaveup") /\ SameRest
       \/ ~SinkCancelled /\ Goto(w, "start", "loop") /\ SameRest
       \/ ~SinkCancelled /\ Goto(w, "start", "backoff") /\ Fail
    /\ SameTries /\ Keep

\* Run's select, one action per case.
OtelRecv(w) == Goto(w, "loop", "add") /\ OnlyPc /\ Dequeue(w)

OtelAdd(w) == Goto(w, "add", "release") /\ OnlyPc /\ Encode(w)

StartFlush(w, from, to) ==
    /\ Goto(w, from, to)
    /\ tries' = [tries EXCEPT ![w] = 1]
    /\ SameRest

OtelRelease(w) ==
    /\ IF Cardinality(batch[w]) >= BatchBlocks
       THEN StartFlush(w, "release", "flush")
       ELSE Goto(w, "release", "loop") /\ OnlyPc
    /\ Release(w, "stored")

OtelTick(w) == batch[w] # {} /\ StartFlush(w, "loop", "flush") /\ Keep

\* Queue closed: flush what is left, then return.
OtelQueueClosed(w) ==
    /\ closed /\ queue = <<>>
    /\ IF batch[w] # {} THEN StartFlush(w, "loop", "lastflush")
                        ELSE Goto(w, "loop", "stopped") /\ OnlyPc
    /\ Keep

\* Where flush returns to.
AfterFlush(p) == IF p \in {"lastflush", "lastwait"} THEN "stopped" ELSE "loop"

\* Mutant: the builder is not reset, so its records are exported again.
OtelExported_NoReset(w) ==
    /\ pc[w] \in {"flush", "lastflush"}
    /\ Goto(w, pc[w], AfterFlush(pc[w])) /\ OnlyPc
    /\ fate' = Settled(batch[w], "stored")
    /\ UNCHANGED <<free, lent, queue, hand, batch, produced>>

OtelExported(w) ==
    /\ pc[w] \in {"flush", "lastflush"}
    /\ Goto(w, pc[w], AfterFlush(pc[w])) /\ OnlyPc /\ Settle(w, "stored")

\* A failed export: drop the batch, or wait for another attempt.
OtelExportFails(w) ==
    /\ pc[w] \in {"flush", "lastflush"}
    /\ (SinkCancelled /\ SameRest) \/ Fail
    /\ IF SinkCancelled \/ tries[w] >= MaxFlushAttempts
       THEN Goto(w, pc[w], AfterFlush(pc[w])) /\ Settle(w, "dropped")
       ELSE Goto(w, pc[w], IF pc[w] = "flush" THEN "wait" ELSE "lastwait") /\ Keep
    /\ SameTries

OtelRetry(w) ==
    /\ pc[w] \in {"wait", "lastwait"}
    /\ Goto(w, pc[w], IF pc[w] = "wait" THEN "flush" ELSE "lastflush")
    /\ tries' = [tries EXCEPT ![w] = @ + 1]
    /\ SameRest /\ Keep

OtelDropOnShutdown(w) ==
    /\ SinkCancelled
    /\ pc[w] \in {"wait", "lastwait"}
    /\ Goto(w, pc[w], AfterFlush(pc[w])) /\ OnlyPc /\ Settle(w, "dropped")

\* Context done: the open batch is lost, then drainRelease.
OtelCancelled(w) ==
    /\ SinkCancelled
    /\ Goto(w, "loop", "drain") /\ OnlyPc /\ Settle(w, "dropped")

\* Mutant: return at once.
OtelDrain_Skipped(w) == Goto(w, "drain", "stopped") /\ OnlyPc /\ Keep

OtelDrain(w) ==
    \/ Goto(w, "drain", "drained") /\ OnlyPc /\ Dequeue(w)
    \/ Goto(w, "drained", "drain") /\ OnlyPc /\ Release(w, "dropped")
    \/ queue = <<>> /\ Goto(w, "drain", "stopped") /\ OnlyPc /\ Keep

OtelStep(w) ==
    \/ OtelStart(w) \/ OtelRecv(w) \/ OtelAdd(w) \/ OtelRelease(w)
    \/ OtelTick(w) \/ OtelQueueClosed(w) \/ OtelExported(w)
    \/ OtelExportFails(w) \/ OtelRetry(w) \/ OtelDropOnShutdown(w)
    \/ OtelCancelled(w) \/ OtelDrain(w) \/ SinkBackoff(w)
-----------------------------------------------------------------------------
(* main.go.                                                                *)

\* Mutant: the queue is closed as soon as the source context is cancelled.
CloseQueue_OnCancel ==
    /\ ~closed /\ (SourceDone \/ SourceCancelled)
    /\ closed' = TRUE
    /\ UNCHANGED <<pc, tries, filesLeft, datasetStart, failures, stage, running>> /\ Keep

\* The goroutine of sourceWg: the scheduler's Run returned, close the queue.
CloseQueue ==
    /\ ~closed /\ SourceDone
    /\ closed' = TRUE
    /\ UNCHANGED <<pc, tries, filesLeft, datasetStart, failures, stage, running>> /\ Keep

\* metric_gen and user end by themselves or when cancelled, metrics only then.
ModeStops(m) ==
    /\ m \in running
    /\ m = "metrics" => stage >= ModeStage(m)
    /\ running' = running \ {m}
    /\ UNCHANGED <<pc, tries, filesLeft, datasetStart, failures, closed, stage>> /\ Keep

\* Mutant: main does not wait for the otel workers.
Waited_NotOtel(st) ==
    CASE st = 0 -> closed /\ SinkDone /\ running \subseteq {"metrics"}
      [] st = 1 -> closed
      [] st = 2 -> Sink = "insert" => SinkDone
      [] st = 3 -> TRUE
      [] st = 4 -> "metric_gen" \notin running
      [] st = 5 -> "user" \notin running
      [] OTHER  -> "metrics" \notin running

\* What main waits for at each stage of the shutdown.
Waited(st) ==
    CASE st = 0 -> closed /\ SinkDone /\ running \subseteq {"metrics"}
      [] st = 1 -> closed
      [] st = 2 -> Sink = "insert" => SinkDone
      [] st = 3 -> Sink = "otel" => SinkDone
      [] st = 4 -> "metric_gen" \notin running
      [] st = 5 -> "user" \notin running
      [] OTHER  -> "metrics" \notin running

Signal ==
    /\ stage = 0 /\ stage' = 1
    /\ UNCHANGED <<pc, tries, filesLeft, datasetStart, failures, closed, running>> /\ Keep

MainStep ==
    /\ stage < Stopped /\ Waited(stage)
    /\ stage' = stage + 1
    /\ UNCHANGED <<pc, tries, filesLeft, datasetStart, failures, closed, running>> /\ Keep

Exited == stage = Stopped /\ UNCHANGED vars

Leaked == {i \in Data : fate[i] \in {"discarded", "abandoned"}}

\* Every block was lost: Acquire waits for ever, and main waits for the source.
Exhausted == Cardinality(Leaked) = BlocksToAlloc

\* The first file is gone and nothing of it was decoded: a source that waits in
\* Snapshot waits for ever, and main waits for the source.
StartLost == datasetStart = "lost" /\ \E w \in SourceWorkers : pc[w] = "shift"

Hung == (Exhausted \/ StartLost) /\ UNCHANGED vars
-----------------------------------------------------------------------------
Init ==
    /\ Pool!Init
    /\ queue = <<>>
    /\ hand = [w \in Workers |-> NoBlock]
    /\ batch = [w \in SinkWorkers |-> {}]
    /\ produced = 0
    /\ fate = [i \in Data |-> "unborn"]
    /\ pc = [w \in Workers |->
               CASE w \in SinkWorkers -> "start"
                 [] w \in SourceWorkers /\ Source = "disk" -> "take"
                 [] OTHER -> "top"]
    /\ tries = [w \in SinkWorkers |-> 0]
    /\ filesLeft \in 0..(IF Source = "disk" THEN MaxFiles ELSE 0)
    /\ datasetStart \in (IF Source = "disk" THEN {"unneeded", "unread"} ELSE {"unneeded"})
    /\ failures = 0
    /\ closed = FALSE
    /\ stage = 0
    /\ running = Modes

SourceStep(w) == IF Source = "disk" THEN DiskStep(w) ELSE GenStep(w)
SinkStep(w) == IF Sink = "insert" THEN InsertStep(w) ELSE OtelStep(w)

Next ==
    \/ \E w \in SourceWorkers : SourceStep(w)
    \/ \E w \in SinkWorkers : SinkStep(w)
    \/ \E m \in Modes : ModeStops(m)
    \/ CloseQueue
    \/ Signal
    \/ MainStep
    \/ Exited
    \/ Hung

Spec == Init /\ [][Next]_vars

(***************************************************************************)
(* Goroutines keep running; servers answer (MaxFailures bounds how often   *)
(* they refuse); timers fire; a cancelled mode returns.  No fairness for   *)
(* the signal, nor for metric_gen and user ending by themselves.           *)
(***************************************************************************)
Fairness ==
    /\ \A w \in SourceWorkers : WF_vars(SourceStep(w))
    /\ \A w \in SinkWorkers : WF_vars(SinkStep(w))
    /\ WF_vars(CloseQueue)
    /\ WF_vars(MainStep)
    /\ \A m \in Modes : WF_vars(stage >= ModeStage(m) /\ ModeStops(m))

FairSpec == Spec /\ Fairness
-----------------------------------------------------------------------------
SourcePcs == {"take", "read", "acquire", "decode", "shift", "send", "top", "fill", "done"}
SinkPcs == InQuery \cup SinkEnds \cup
    {"start", "probe", "dial", "top", "recv", "abort", "leftover", "backoff",
     "loop", "add", "release", "flush", "lastflush", "wait", "lastwait",
     "drain", "drained"}

TypeOK ==
    /\ free \in Nat /\ lent \in Nat
    /\ queue \in Seq(Data)
    /\ hand \in [Workers -> Data \cup {NoBlock, Blank}]
    /\ batch \in [SinkWorkers -> SUBSET Data]
    /\ produced \in 0..MaxBlocks
    /\ fate \in [Data -> Fates]
    /\ pc \in [Workers -> SourcePcs \cup SinkPcs]
    /\ tries \in [SinkWorkers -> Nat]
    /\ filesLeft \in Nat /\ failures \in Nat
    /\ datasetStart \in StartStates \cup SourceWorkers
    /\ closed \in BOOLEAN
    /\ stage \in Stages
    /\ running \in SUBSET Modes

Holders == {w \in Workers : hand[w] # NoBlock}
QueueSet == {queue[i] : i \in 1..Len(queue)}

(***************************************************************************)
(* Every block is free, in a worker's hands, on the queue, or was lost at  *)
(* one of two places: the scheduler's probe (insert/scheduler.go) and the  *)
(* cancelled send of decodeBlock (disk/worker.go).  No error path, retry,  *)
(* retirement or shutdown order loses another, or returns one twice.       *)
(***************************************************************************)
BlockAccounting ==
    /\ free + lent = BlocksToAlloc
    /\ lent = Cardinality(Holders) + Len(queue) + Cardinality(Leaked)

(***************************************************************************)
(* Data in flight is in exactly one place: once on the queue, in one hand  *)
(* or in one open batch, and nothing in flight has vanished.  Two places   *)
(* would insert rows twice; none would lose them silently.  (the hand-over *)
(* of blocks over insertQueue)                                             *)
(***************************************************************************)
OnePlace ==
    /\ \A i, j \in 1..Len(queue) : queue[i] = queue[j] => i = j
    /\ \A v, w \in Workers : hand[v] \in Data /\ hand[v] = hand[w] => v = w
    /\ \A w \in Workers : hand[w] \notin QueueSet
    /\ \A v, w \in SinkWorkers : v # w => batch[v] \cap batch[w] = {}
    /\ \A w \in SinkWorkers : batch[w] \cap QueueSet = {}
    /\ \A v \in Workers, w \in SinkWorkers : hand[v] \notin batch[w]
    /\ \A i \in Data :
          fate[i] = "moving" <=> \/ i \in QueueSet
                                 \/ \E w \in Workers : hand[w] = i
                                 \/ \E w \in SinkWorkers : i \in batch[w]

(***************************************************************************)
(* The queue is as large as the pool, so a source holding a filled block   *)
(* always finds room: backpressure is exerted by Acquire alone, and only a *)
(* cancelled context can divert the select of decodeBlock and generate's   *)
(* Run away from the send.  (main.go blocksToAlloc)                        *)
(***************************************************************************)
SendNeverBlocks ==
    \A w \in SourceWorkers : pc[w] = "send" => Len(queue) < QueueSize

(***************************************************************************)
(* main closes the queue only when no source can send again: a send on a   *)
(* closed channel would panic.  (main.go close(insertQueue))               *)
(***************************************************************************)
NoSendOnClosed == closed => \A w \in SourceWorkers : pc[w] \notin {"send", "fill", "decode", "shift"}

(***************************************************************************)
(* "Metrics worker is now cancelled after data workers finish, ensuring    *)
(* clean shutdown ordering" (CHANGELOG.md v0.2.0): when the metrics        *)
(* worker's context is cancelled every other goroutine has returned.       *)
(***************************************************************************)
MetricsLast ==
    stage >= ModeStage("metrics") =>
        closed /\ SourceDone /\ SinkDone /\ running \subseteq {"metrics"}

(***************************************************************************)
(* "drainRelease returns any blocks still buffered in the queue to the     *)
(* pool ... so shutdown does not strand pooled blocks" (otel/worker.go):   *)
(* if any otel worker got as far as its loop, nothing stays on the queue   *)
(* or in a hand once main is past the otel stage.                          *)
(***************************************************************************)
OtelStrandsNothing ==
    (/\ Sink = "otel" /\ stage > 3
     /\ \E w \in SinkWorkers : pc[w] = "stopped")
        => queue = <<>> /\ Holders = {}

(***************************************************************************)
(* A run that ends by itself with every dial, query and export succeeding  *)
(* has stored everything the sources produced, but for what the probe      *)
(* discarded.  (insert/worker.go Run, otel/worker.go Run)                  *)
(***************************************************************************)
NaturalEndDelivers ==
    (stage = 0 /\ Waited(0) /\ failures = 0)
        => \A i \in 1..produced : fate[i] \in {"stored", "discarded"}

(***************************************************************************)
(* What has been decided about a datum is never decided again: no path     *)
(* stores, drops or fails rows a second time.  (Release and the batch ends *)
(* of insert/worker.go and otel/worker.go)                                 *)
(***************************************************************************)
FateIsFinal ==
    [][\A i \in Data : fate[i] \notin {"unborn", "moving"} => fate'[i] = fate[i]]_vars

(***************************************************************************)
(* A finite data folder is replayed and the program returns, whatever      *)
(* order workers, failures within the bound, retirements and a signal come *)
(* in.  It hangs in two ways only: every block of the pool was lost, one   *)
(* probe at a time (insert/scheduler.go); or shift_timestamp is "all", the *)
(* first file was left before its first block, and a source waits in       *)
(* Snapshot (block/timeshift.go), which no signal ends.                    *)
(***************************************************************************)
Completes == <>(stage = Stopped \/ Exhausted \/ StartLost)

\* Once shutdown begins, main returns (main.go, lines after the select).
ShutsDown == stage > 0 ~> stage = Stopped

(***************************************************************************)
(* No block ever leaves circulation: "BlockPool is a fixed-size pool ...   *)
(* Blocks are recycled on Release" (block/pool.go); "Fixed a potential     *)
(* block leak when a context was cancelled mid-flight during block         *)
(* acquisition" (CHANGELOG.md).  The code does not keep this.              *)
(***************************************************************************)
NoBlockLeaked == lent = Cardinality(Holders) + Len(queue)
=============================================================================
