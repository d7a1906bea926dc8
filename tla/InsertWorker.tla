---------------------------- MODULE InsertWorker ----------------------------
(***************************************************************************)
(* One insert worker (src/internal/insert/worker.go) and what it does to   *)
(* the columns of the blocks it streams.  ch-go encodes one proto.Input    *)
(* per query, so Run keeps a placeholder block, and OnInput swaps the      *)
(* column pointers of the block to send into the placeholder's input and   *)
(* back again.  Columns have identities here: input[x] is the column       *)
(* object that the cached Input() of x points to, x's own when it equals   *)
(* x.  content[c] is the datum whose rows column object c holds.           *)
(*                                                                         *)
(* Before it can send, the worker dials until it reaches the node whose    *)
(* turn it is in the balancer's list (insert/node_balancer.go).  Before    *)
(* each worker, the first and those that follow a retirement or a failure, *)
(* runWorker (insert/scheduler.go) looks at the context and at the queue.  *)
(*                                                                         *)
(* Source workers are the environment: they refill a block, through its    *)
(* own columns, as soon as it is back in the pool.  So are the other       *)
(* insert workers, which claim nodes of the shared list.                   *)
(***************************************************************************)
EXTENDS Naturals, Sequences, FiniteSets

CONSTANTS
    Blocks,         \* blocks of the pool
    Placeholder,    \* insertBlock
    None,           \* currentBlock == nil
    Sizes,          \* rows a decoded block can have
    BatchSize,      \* insert.batch_size
    RetireBatches,  \* insert.worker_retirement_batches
    MaxData,        \* bound: blocks of rows produced
    Nodes,          \* length of nodeBalancer.nodeIPs; without a balancer any node will do: 1
    MaxDials,       \* dials of one buildClient (100 in the code)
    MaxErrors       \* bound: queries and dials that fail

ASSUME InsertWorkerAssumption ==
    /\ Placeholder \notin Blocks /\ None \notin Blocks /\ Placeholder # None
    /\ Sizes \subseteq Nat \ {0}
    /\ {BatchSize, RetireBatches, MaxData, MaxErrors} \subseteq Nat
    /\ {MaxDials, Nodes} \subseteq Nat \ {0}

VARIABLES
    free,       \* blocks in the pool
    queue,      \* insertQueue
    closed,     \* insertQueue closed
    content,    \* datum in each column object, 0 when it has been reset
    input,      \* column object each block's Input() refers to
    size,       \* rows of each datum, 0 before it is produced
    produced,   \* data produced so far
    current,    \* currentBlock
    swapped,    \* currentInput != nil
    rowCount,   \* rows of the open INSERT
    sent,       \* how often the rows of each datum were encoded
    lost,       \* data released by an error path before they were encoded
    discarded,  \* data of blocks the probe of the queue received and dropped
    batches,    \* batchCount - initialBatchCount
    errors,     \* failures spent
    next,       \* nodeBalancer.index
    dials,      \* dials of this buildClient
    open,       \* connections this worker has open
    cancelled,  \* ctx
    pc

blockVars == <<free, content, input, current, swapped>>
clientVars == <<next, dials, open>>
vars == <<free, queue, closed, content, input, size, produced, current, swapped,
          rowCount, sent, lost, discarded, batches, errors, clientVars, cancelled, pc>>

Columns == Blocks \cup {Placeholder}
Data == 1..MaxData

\* insertInput[0].Data.Rows()
InputRows == IF content[input[Placeholder]] = 0 THEN 0
             ELSE size[content[input[Placeholder]]]

\* swapInput of the placeholder's input and block b's.
SwapInput(f, b) == [f EXCEPT ![b] = f[Placeholder], ![Placeholder] = f[b]]
-----------------------------------------------------------------------------
(* The environment.                                                        *)

\* A source worker acquires a block, resets it, decodes into it, enqueues it.
Produce(b) ==
    /\ b \in free /\ produced < MaxData /\ ~closed
    /\ free' = free \ {b}
    /\ produced' = produced + 1
    /\ content' = [content EXCEPT ![b] = produced + 1]
    /\ \E n \in Sizes : size' = [size EXCEPT ![produced + 1] = n]
    /\ queue' = Append(queue, b)
    /\ UNCHANGED <<closed, input, current, swapped, rowCount, sent, lost, discarded, batches,
                   errors, clientVars, cancelled, pc>>

CloseQueue ==
    /\ ~closed /\ closed' = TRUE
    /\ UNCHANGED <<free, queue, content, input, size, produced, current, swapped,
                   rowCount, sent, lost, discarded, batches, errors, clientVars, cancelled, pc>>

\* main cancels the insert context, once the source has returned.
Cancel ==
    /\ closed /\ ~cancelled /\ cancelled' = TRUE
    /\ UNCHANGED <<free, queue, closed, content, input, size, produced, current,
                   swapped, rowCount, sent, lost, discarded, batches, errors, clientVars, pc>>

\* Another worker is let in by IsNextNode.
Claimed == (next + 1) % Nodes
OtherClaims ==
    /\ next' = Claimed
    /\ UNCHANGED <<free, queue, closed, content, input, size, produced, current,
                   swapped, rowCount, sent, lost, discarded, batches, errors, dials, open,
                   cancelled, pc>>
-----------------------------------------------------------------------------
(* runWorker (insert/scheduler.go): what comes before each new worker.     *)

Env == <<closed, size, produced, cancelled>>

\* The loop's look at the context, which a failed worker reaches after its
\* backoff, and len(s.queue) == 0.
Start ==
    /\ pc = "start"
    /\ pc' = IF cancelled THEN "stopped" ELSE IF queue = <<>> THEN "probe" ELSE "dial"
    /\ UNCHANGED <<Env, blockVars, clientVars, queue, rowCount, sent, lost, discarded,
                   batches, errors>>

\* The receive with a default case: the queue is closed, or still empty, or a
\* block has arrived since its length was read, and is dropped.
Probe ==
    /\ pc = "probe"
    /\ IF queue = <<>>
       THEN pc' = (IF closed THEN "stopped" ELSE "dial") /\ UNCHANGED <<queue, discarded>>
       ELSE /\ pc' = "dial"
            /\ queue' = Tail(queue)
            /\ discarded' = discarded \cup {content[Head(queue)]}
    /\ UNCHANGED <<Env, blockVars, clientVars, rowCount, sent, lost, batches, errors>>
-----------------------------------------------------------------------------
(* worker.Run, with ch-go's Do between "receive" and "done".               *)

\* Mutant: a client of another node is not closed.
MissesNode_LeftOpen ==
    /\ dials' = dials + 1
    /\ pc' = IF dials + 1 = MaxDials THEN "top" ELSE "dial"
    /\ open' = open + 1 /\ UNCHANGED next

\* buildClient, one dial: the address leads to some node, which tells its name.
\* It is kept if it is the next of the list; one that is not, or does not
\* answer, is closed, and after MaxDials of them the last, closed, is returned.
MissesNode ==
    /\ dials' = dials + 1
    /\ pc' = IF dials + 1 = MaxDials THEN "top" ELSE "dial"
    /\ UNCHANGED <<next, open>>
Dial ==
    /\ pc = "dial"
    /\ \E node \in 0 .. Nodes - 1 :
         IF node = next
         THEN next' = Claimed /\ open' = open + 1 /\ pc' = "top" /\ UNCHANGED dials
         ELSE MissesNode
    /\ UNCHANGED <<Env, blockVars, queue, rowCount, sent, lost, discarded, batches, errors>>

\* getNode fails, which costs a dial, or ch.Dial does: runWorker starts again,
\* or returns after a cancellation.
DialFails ==
    /\ pc = "dial"
    /\ \/ errors < MaxErrors /\ errors' = errors + 1 /\ MissesNode
       \/ errors < MaxErrors /\ errors' = errors + 1 /\ dials' = 0 /\ pc' = "start" /\ UNCHANGED <<next, open>>
       \/ cancelled /\ pc' = "stopped" /\ dials' = 0 /\ UNCHANGED <<next, open, errors>>
    /\ UNCHANGED <<Env, blockVars, queue, rowCount, sent, lost, discarded, batches>>

\* defer closeClient, when Run returns to runWorker.
CloseClient == open' = 0 /\ dials' = 0 /\ UNCHANGED next

\* The loop's select on the context.
Top ==
    /\ pc = "top"
    /\ IF cancelled THEN pc' = "stopped" /\ CloseClient
       ELSE pc' = "receive" /\ UNCHANGED clientVars
    /\ UNCHANGED <<Env, blockVars, queue, rowCount, sent, lost, discarded, batches, errors>>

\* Wait for the first block and start the query.  ch-go fetches the initial
\* input with OnInput only if the input it was given has no rows.  On a client
\* that was closed the query fails at once.
Receive ==
    /\ pc = "receive"
    /\ \/ /\ queue # <<>>
          /\ current' = Head(queue) /\ queue' = Tail(queue)
          /\ swapped' = FALSE /\ rowCount' = 0
          /\ pc' = IF open = 0 THEN "abort" ELSE IF InputRows = 0 THEN "oninput" ELSE "encode"
          /\ UNCHANGED clientVars
       \/ /\ queue = <<>> /\ closed /\ pc' = "stopped"
          /\ CloseClient /\ UNCHANGED <<queue, current, swapped, rowCount>>
    /\ UNCHANGED <<Env, free, content, input, sent, lost, discarded, batches, errors>>

\* Mutant: the block goes back with the placeholder's columns in its input.
ReturnBlock_NoSwap ==
    /\ content' = [content EXCEPT ![Placeholder] = 0]
    /\ UNCHANGED input
    /\ free' = free \cup {current}
    /\ current' = None
    /\ swapped' = FALSE

\* Give the block in hand its columns back, if they are swapped in, and
\* release it: insertBlock.Reset, swapInput, blockPool.Release.
ReturnBlock ==
    /\ content' = [content EXCEPT ![Placeholder] = 0]
    /\ input' = IF swapped THEN SwapInput(input, current) ELSE input
    /\ free' = free \cup {current}
    /\ current' = None
    /\ swapped' = FALSE

\* Mutant: one block more than the limit allows.
BatchFull_Late(n) == n > BatchSize + 1

\* rowCount > w.batchSize
BatchFull(n) == n > BatchSize

\* Mutant: currentBlock is not cleared after its release.
OnInput_KeepsCurrent ==
    /\ pc = "oninput"
    /\ content' = [content EXCEPT ![Placeholder] = 0]
    /\ IF swapped THEN /\ input' = SwapInput(input, current)
                       /\ free' = free \cup {current} /\ swapped' = FALSE
       ELSE UNCHANGED <<free, input, swapped>>
    /\ pc' = IF BatchFull(rowCount) THEN "eof" ELSE "next"
    /\ UNCHANGED <<Env, clientVars, current, queue, rowCount, sent, lost, discarded, batches, errors>>

\* OnInput up to its batch size check.
OnInput ==
    /\ pc = "oninput"
    /\ IF swapped THEN ReturnBlock
       ELSE /\ content' = [content EXCEPT ![Placeholder] = 0]
            /\ UNCHANGED <<free, input, current, swapped>>
    /\ pc' = IF BatchFull(rowCount) THEN "eof" ELSE "next"
    /\ UNCHANGED <<Env, clientVars, queue, rowCount, sent, lost, discarded, batches, errors>>

\* Swap the block's columns in and count its rows.
Load(b) ==
    /\ current' = b
    /\ swapped' = TRUE
    /\ input' = SwapInput(input, b)
    /\ rowCount' = rowCount + size[content[input[b]]]
    /\ pc' = "encode"

\* The rest of OnInput: load the block received before the query, or another
\* one, or end the input (context, queue closed, ten seconds without a block).
OnInputNext ==
    /\ pc = "next"
    /\ \/ current # None /\ Load(current) /\ UNCHANGED queue
       \/ /\ current = None /\ queue # <<>>
          /\ Load(Head(queue)) /\ queue' = Tail(queue)
       \/ /\ current = None /\ pc' = "eof"
          /\ UNCHANGED <<queue, current, swapped, input, rowCount>>
    /\ UNCHANGED <<Env, clientVars, free, content, sent, lost, discarded, batches, errors>>

\* ch-go writes the columns the input points to.
EncodeThen(after) ==
    LET d == content[input[Placeholder]] IN
    /\ sent' = IF d = 0 THEN sent ELSE [sent EXCEPT ![d] = @ + 1]
    /\ pc' = after
    /\ UNCHANGED <<Env, clientVars, blockVars, queue, rowCount, lost, discarded, batches, errors>>

Encode == pc = "encode" /\ EncodeThen("oninput")

\* After io.EOF ch-go writes what the input still holds and ends the query.
EncodeTail == pc = "eof" /\ EncodeThen("done")

\* Do fails, or returns the context's error.
Fails ==
    /\ pc \in {"oninput", "next", "encode", "eof", "done"}
    /\ \/ errors < MaxErrors /\ errors' = errors + 1 /\ pc' = "abort"
       \/ cancelled /\ UNCHANGED errors /\ pc' = "leftover"
    /\ UNCHANGED <<Env, clientVars, blockVars, queue, rowCount, sent, lost, discarded, batches>>

\* The datum in hand, if it was not encoded.
Unsent == IF current = None THEN {}
          ELSE {d \in {content[input[IF swapped THEN Placeholder ELSE current]]} : sent[d] = 0}

\* Release a block that is still held after Do.
ReturnLeftover ==
    /\ lost' = lost \cup Unsent
    /\ IF current # None THEN ReturnBlock ELSE UNCHANGED blockVars

\* The error path; runWorker starts again with a new worker (and a new
\* placeholder, like the old one: empty, its input on its own columns).
Abort ==
    /\ pc = "abort" /\ pc' = "start"
    /\ ReturnLeftover /\ CloseClient
    /\ batches' = 0
    /\ UNCHANGED <<Env, queue, rowCount, sent, discarded, errors>>

\* Mutant: the block still held after a cancelled query is forgotten.
Finish_Keeps ==
    /\ pc \in {"done", "leftover"} /\ pc' = "top"
    /\ batches' = 0
    /\ UNCHANGED <<Env, clientVars, blockVars, queue, rowCount, sent, lost, discarded, errors>>

\* The end of an iteration: leftovers, the batch count, retirement (runWorker
\* starts again with a new worker, which counts from zero).
Finish ==
    LET n == batches + 1 IN
    /\ pc \in {"done", "leftover"}
    /\ ReturnLeftover
    /\ IF RetireBatches > 0 /\ n >= RetireBatches
       THEN pc' = "start" /\ batches' = 0 /\ CloseClient
       ELSE /\ pc' = "top" /\ batches' = IF RetireBatches > 0 THEN n ELSE 0
            /\ UNCHANGED clientVars
    /\ UNCHANGED <<Env, queue, rowCount, sent, discarded, errors>>

Stopped == pc = "stopped" /\ UNCHANGED vars
-----------------------------------------------------------------------------
Init ==
    /\ free = Blocks /\ queue = <<>> /\ closed = FALSE
    /\ content = [c \in Columns |-> 0]
    /\ input = [c \in Columns |-> c]
    /\ size = [d \in Data |-> 0] /\ produced = 0
    /\ current = None /\ swapped = FALSE /\ rowCount = 0
    /\ sent = [d \in Data |-> 0] /\ lost = {} /\ discarded = {}
    /\ batches = 0 /\ errors = 0 /\ cancelled = FALSE
    /\ next = 0 /\ dials = 0 /\ open = 0
    /\ pc = "start"

Run ==
    \/ Start \/ Probe
    \/ Dial \/ DialFails \/ Top \/ Receive \/ OnInput \/ OnInputNext \/ Encode \/ EncodeTail
    \/ Fails \/ Abort \/ Finish

Next ==
    \/ Run
    \/ \E b \in Blocks : Produce(b)
    \/ CloseQueue \/ Cancel \/ OtherClaims
    \/ Stopped

Spec == Init /\ [][Next]_vars

\* The worker goroutine and the server make progress.
FairSpec == Spec /\ WF_vars(Run)
-----------------------------------------------------------------------------
TypeOK ==
    /\ free \in SUBSET Blocks /\ queue \in Seq(Blocks)
    /\ content \in [Columns -> 0..MaxData] /\ input \in [Columns -> Columns]
    /\ size \in [Data -> Nat] /\ produced \in 0..MaxData
    /\ current \in Blocks \cup {None} /\ swapped \in BOOLEAN
    /\ rowCount \in Nat /\ sent \in [Data -> Nat] /\ lost \in SUBSET Data
    /\ discarded \in SUBSET Data
    /\ batches \in Nat /\ errors \in Nat /\ closed \in BOOLEAN /\ cancelled \in BOOLEAN
    /\ next \in 0..Nodes /\ dials \in 0..MaxDials /\ open \in Nat
    /\ pc \in {"start", "probe", "dial", "top", "receive", "oninput", "next", "encode", "eof",
               "done", "abort", "leftover", "stopped"}

QueueSet == {queue[i] : i \in 1..Len(queue)}

(***************************************************************************)
(* A block outside the worker's hands has its own columns in its input, on *)
(* every path of Run and OnInput.  One that went back with columns of the  *)
(* placeholder would later send rows that are not its own.  (swapInput)    *)
(***************************************************************************)
OwnColumns ==
    /\ \A b \in free \cup QueueSet : input[b] = b
    /\ ~swapped => \A c \in Columns : input[c] = c

(***************************************************************************)
(* Rows are encoded at most once, and every datum is waiting, in hand, has *)
(* been encoded, was given up by an error path, or was dropped by the      *)
(* probe of a restart: the prefetching and the tail write of ch-go neither *)
(* repeat nor skip a block.  (OnInput, Run, runWorker)                     *)
(***************************************************************************)
EncodedOnce ==
    \A d \in 1..produced :
        /\ sent[d] <= 1
        /\ \/ sent[d] = 1
           \/ d \in lost \cup discarded
           \/ \E b \in QueueSet \cup {current} : b # None /\ content[b] = d

(***************************************************************************)
(* "Row count may exceed maximum, but not by more than one block"          *)
(* (worker.go, OnInput; config.go BatchSize).                              *)
(***************************************************************************)
BatchBound == swapped => rowCount <= BatchSize + InputRows

(***************************************************************************)
(* However the search for the next node, the queries and the restarts end, *)
(* a worker never has more than one connection open, and none between two  *)
(* runs or after the last: closeFunc follows the variable c, not the       *)
(* client it held when it was made.  (buildClient, Run)                    *)
(***************************************************************************)
OneConnection == open <= IF pc \in {"start", "probe", "dial", "stopped"} THEN 0 ELSE 1

(***************************************************************************)
(* A block that reaches the queue comes back to the pool, through errors,  *)
(* retirements and idle timeouts, unless the probe of a restart drops it   *)
(* or the context is cancelled while it is queued; one the worker holds    *)
(* comes back even then.  (Run, runWorker)                                 *)
(***************************************************************************)
BlockComesBack ==
    \A b \in Blocks : /\ b \in QueueSet ~> (b \in free \/ content[b] \in discarded \/ cancelled)
                      /\ current = b ~> b \in free
=============================================================================
