--------------------------- MODULE PipelineProofs ---------------------------
(***************************************************************************)
(* Proofs about Pipeline for any number of workers, any mix of source and  *)
(* sink, and any bounds.                                                   *)
(*                                                                         *)
(* The argument has two layers.  A step of a worker changes its pc and     *)
(* makes one Move; ActionIsWorkerStep says which Moves go with which pcs,  *)
(* and a lemma per Move shows what it does to the blocks.  The invariant   *)
(* adds to the properties of Pipeline what the control flow guarantees:    *)
(* the kind of block a worker holds is determined by its pc (HandMatchesPc *)
(* below), and data not yet produced is nowhere (Numbering).               *)
(***************************************************************************)
EXTENDS Pipeline, FiniteSetTheorems, SequenceTheorems, TLAPS

Pcs == SourcePcs \cup SinkPcs

\* What a worker can hold at each point of its loop.
Allowed(p) ==
    CASE p \in {"shift", "send", "query", "add", "drained"} -> Data
      [] p \in {"decode", "fill", "input", "release"}        -> {Blank}
      [] p \in {"abort", "leftover"}                         -> Data \cup {NoBlock, Blank}
      [] OTHER                                               -> {NoBlock}

HandMatchesPc == \A w \in Workers : hand[w] \in Allowed(pc[w])

\* Data are numbered in the order they are produced.
Numbering == \A i \in Data : fate[i] = "unborn" <=> i > produced

\* The queue is closed when all sources are done, and they stay done.
ClosedMeansDone == closed => SourceDone

BlockTypes ==
    /\ free \in Nat /\ lent \in Nat
    /\ queue \in Seq(Data)
    /\ hand \in [Workers -> Data \cup {NoBlock, Blank}]
    /\ batch \in [SinkWorkers -> SUBSET Data]
    /\ produced \in 0..MaxBlocks
    /\ fate \in [Data -> Fates]

ControlTypes ==
    /\ pc \in [Workers -> Pcs]
    /\ tries \in [SinkWorkers -> Nat]
    /\ filesLeft \in Nat /\ failures \in Nat
    /\ datasetStart \in StartStates \cup SourceWorkers
    /\ closed \in BOOLEAN
    /\ stage \in Stages
    /\ running \in SUBSET Modes

BlockInv == BlockTypes /\ BlockAccounting /\ OnePlace /\ Numbering

IInv == BlockInv /\ ControlTypes /\ HandMatchesPc /\ ClosedMeansDone

\* What becomes of data in a block that is released, or in a batch that ends.
Endings == {"stored", "failed", "dropped"}

\* A step of worker w: it goes to p and makes one Move that suits both places.
WorkerStep(w, p) ==
    /\ pc' = [pc EXCEPT ![w] = p]
    /\ \/ Keep /\ hand[w] \in Allowed(p)
       \/ Acquire(w) /\ hand[w] = NoBlock /\ p \in {"decode", "fill"}
       \/ Fill(w) /\ hand[w] = Blank /\ p \in {"shift", "send"}
       \/ Enqueue(w) /\ hand[w] \in Data /\ NoBlock \in Allowed(p)
       \/ Dequeue(w) /\ hand[w] = NoBlock /\ p \in {"query", "add", "drained"}
       \/ \E f \in Endings : Release(w, f) /\ NoBlock \in Allowed(p)
       \/ /\ w \in SinkWorkers /\ hand[w] \in Data
          /\ Encode(w) /\ p \in {"input", "release"}
       \/ /\ w \in SinkWorkers /\ hand[w] \in Allowed(p)
          /\ \E f \in Endings : Settle(w, f)
       \/ Abandon(w) /\ hand[w] \in Data /\ NoBlock \in Allowed(p)
       \/ Discard /\ hand[w] \in Allowed(p)

USE PipelineAssumption
-----------------------------------------------------------------------------
LEMMA Constants ==
    /\ MaxBlocks \in Nat /\ Data \subseteq Nat
    /\ NoBlock \notin Data /\ Blank \notin Data /\ NoBlock # Blank
    /\ IsFiniteSet(Workers) /\ IsFiniteSet(Data)
    /\ BlocksToAlloc \in Nat
<1>1. MaxBlocks \in Nat
  OBVIOUS
<1>2. IsFiniteSet(Data)
  BY <1>1, FS_Interval DEF Data
<1>3. IsFiniteSet(Workers)
  BY FS_Union DEF Workers
<1>4. BlocksToAlloc \in Nat
  BY FS_CardinalityType DEF BlocksToAlloc
<1> QED BY <1>1, <1>2, <1>3, <1>4 DEF Data, NoBlock, Blank

\* The sets that are counted are finite.
LEMMA CountedSets ==
    /\ IsFiniteSet(Holders) /\ Cardinality(Holders) \in Nat
    /\ IsFiniteSet(Leaked) /\ Cardinality(Leaked) \in Nat
BY Constants, FS_Subset, FS_CardinalityType DEF Holders, Leaked

\* The pool and the workers start out empty-handed.
LEMMA InitIInv == Init => IInv
<1> SUFFICES ASSUME Init PROVE IInv
  OBVIOUS
<1>1. BlockTypes
  BY Constants, EmptySeq DEF Init, Pool!Init, BlockTypes, Fates
<1>2. Holders = {} /\ Leaked = {} /\ QueueSet = {} /\ Len(queue) = 0
  BY DEF Init, Holders, Leaked, QueueSet
<1>3. BlockAccounting
  BY <1>2, Constants, FS_EmptySet DEF Init, Pool!Init, BlockAccounting
<1>4. OnePlace
  BY <1>2, Constants DEF Init, OnePlace
<1>5. Numbering
  BY Constants DEF Init, Numbering, Data
<1>6. ControlTypes
  <2>1. pc \in [Workers -> Pcs]
    BY DEF Init, Pcs, SourcePcs, SinkPcs, Workers
  <2>2. filesLeft \in Nat /\ datasetStart \in StartStates \cup SourceWorkers
    BY DEF Init, StartStates
  <2>3. tries \in [SinkWorkers -> Nat] /\ running \in SUBSET Modes
    BY DEF Init
  <2>4. closed = FALSE /\ stage = 0 /\ failures = 0
    BY DEF Init
  <2>5. stage \in Stages /\ failures \in Nat
    BY <2>4 DEF Stages
  <2> QED BY <2>1, <2>2, <2>3, <2>4, <2>5 DEF ControlTypes
<1>7. HandMatchesPc
  BY DEF Init, HandMatchesPc, Allowed, Workers
<1>8. ClosedMeansDone
  BY DEF Init, ClosedMeansDone
<1> QED BY <1>1, <1>3, <1>4, <1>5, <1>6, <1>7, <1>8 DEF IInv, BlockInv
-----------------------------------------------------------------------------
(* One lemma per Move.                                                     *)

\* The queue's buffer as a set, after a send and after a receive.
LEMMA QueueSetChanges ==
    ASSUME queue \in Seq(Data)
    PROVE  /\ Len(queue) \in Nat
           /\ \A d \in Data : queue' = Append(queue, d)
                 => /\ queue' \in Seq(Data) /\ Len(queue') = Len(queue) + 1
                    /\ QueueSet' = QueueSet \cup {d}
                    /\ \A i \in 1..Len(queue) : queue'[i] = queue[i]
                    /\ queue'[Len(queue) + 1] = d
           /\ queue # <<>> /\ queue' = Tail(queue)
                 => /\ queue' \in Seq(Data) /\ Len(queue') = Len(queue) - 1
                    /\ Head(queue) \in Data /\ Head(queue) = queue[1]
                    /\ Len(queue) > 0
                    /\ \A i \in 1..Len(queue') : queue'[i] = queue[i + 1]
                    /\ QueueSet = QueueSet' \cup {Head(queue)}
<1>1. Len(queue) \in Nat
  OBVIOUS
<1>2. ASSUME NEW d \in Data, queue' = Append(queue, d)
      PROVE  /\ queue' \in Seq(Data) /\ Len(queue') = Len(queue) + 1
             /\ QueueSet' = QueueSet \cup {d}
             /\ \A i \in 1..Len(queue) : queue'[i] = queue[i]
             /\ queue'[Len(queue) + 1] = d
  <2>1. /\ queue' \in Seq(Data) /\ Len(queue') = Len(queue) + 1
        /\ \A i \in 1..Len(queue) : queue'[i] = queue[i]
        /\ queue'[Len(queue) + 1] = d
    BY <1>2, AppendProperties
  <2>2. 1..Len(queue') = 1..Len(queue) \cup {Len(queue) + 1}
    BY <1>1, <2>1
  <2> QED BY <2>1, <2>2 DEF QueueSet
<1>3. ASSUME queue # <<>>, queue' = Tail(queue)
      PROVE  /\ queue' \in Seq(Data) /\ Len(queue') = Len(queue) - 1
             /\ Head(queue) \in Data /\ Head(queue) = queue[1]
             /\ Len(queue) > 0
             /\ \A i \in 1..Len(queue') : queue'[i] = queue[i + 1]
             /\ QueueSet = QueueSet' \cup {Head(queue)}
  <2>1. /\ queue' \in Seq(Data) /\ Len(queue') = Len(queue) - 1
        /\ Head(queue) \in Data /\ Head(queue) = queue[1]
        /\ Len(queue) > 0
        /\ \A i \in 1..Len(queue') : queue'[i] = queue[i + 1]
    BY <1>3, HeadTailProperties, EmptySeq
  <2>2. \A x : x \in QueueSet <=> x \in QueueSet' \cup {Head(queue)}
    <3>1. ASSUME NEW i \in 1..Len(queue) PROVE queue[i] \in QueueSet' \cup {Head(queue)}
      <4>1. CASE i = 1
        BY <4>1, <2>1
      <4>2. CASE i # 1
        <5>1. i - 1 \in 1..Len(queue') /\ (i - 1) + 1 = i
          BY <4>2, <1>1, <2>1
        <5> QED BY <5>1, <2>1 DEF QueueSet
      <4> QED BY <4>1, <4>2
    <3>2. ASSUME NEW i \in 1..Len(queue') PROVE queue'[i] \in QueueSet
      <4>1. i + 1 \in 1..Len(queue)
        BY <1>1, <2>1
      <4> QED BY <4>1, <2>1 DEF QueueSet
    <3>3. Head(queue) \in QueueSet
      <4>1. 1 \in 1..Len(queue)
        BY <1>1, <2>1
      <4> QED BY <4>1, <2>1 DEF QueueSet
    <3> QED BY <3>1, <3>2, <3>3 DEF QueueSet
  <2> QED BY <2>1, <2>2
<1> QED BY <1>1, <1>2, <1>3

\* The numbers BlockAccounting is about.
LEMMA Counts ==
    ASSUME BlockInv
    PROVE  /\ free \in Nat /\ lent \in Nat /\ free + lent = BlocksToAlloc
           /\ lent = Cardinality(Holders) + Len(queue) + Cardinality(Leaked)
           /\ Len(queue) \in Nat
           /\ Cardinality(Holders) \in Nat /\ Cardinality(Leaked) \in Nat
BY CountedSets DEF BlockInv, BlockTypes, BlockAccounting

\* Where data in flight can be found.
LEMMA Places ==
    ASSUME BlockInv
    PROVE  /\ QueueSet \subseteq Data
           /\ \A w \in SinkWorkers : batch[w] \subseteq Data
           /\ \A i \in QueueSet : fate[i] = "moving"
           /\ \A w \in Workers : hand[w] \in Data => fate[hand[w]] = "moving"
           /\ \A w \in SinkWorkers : \A i \in batch[w] : fate[i] = "moving"
           /\ \A i \in Data : fate[i] = "moving"
                             <=> \/ i \in QueueSet
                                 \/ \E w \in Workers : hand[w] = i
                                 \/ \E w \in SinkWorkers : i \in batch[w]
<1>1. QueueSet \subseteq Data
  BY DEF BlockInv, BlockTypes, QueueSet
<1>2. \A w \in SinkWorkers : batch[w] \subseteq Data
  BY DEF BlockInv, BlockTypes
<1> QED BY <1>1, <1>2 DEF BlockInv, OnePlace

\* A step that moves no block.
LEMMA KeepMove == BlockInv /\ Keep => BlockInv'
BY DEF BlockInv, Keep, blockVars, BlockTypes, BlockAccounting, OnePlace, Numbering,
       Holders, Leaked, QueueSet

\* pool.Acquire: an empty-handed worker takes a free block.
LEMMA AcquireMove ==
    ASSUME NEW w \in Workers, BlockInv, Acquire(w), hand[w] = NoBlock
    PROVE  BlockInv'
<1>1. /\ free > 0 /\ free' = free - 1 /\ lent' = lent + 1
      /\ hand' = [hand EXCEPT ![w] = Blank]
      /\ queue' = queue /\ batch' = batch /\ produced' = produced /\ fate' = fate
  BY DEF Acquire, Pool!Acquire
<1>2. BlockTypes'
  BY <1>1 DEF BlockInv, BlockTypes
<1>3. QueueSet' = QueueSet /\ Leaked' = Leaked
  BY <1>1 DEF QueueSet, Leaked
<1>4. \A v \in Workers : hand'[v] = IF v = w THEN Blank ELSE hand[v]
  BY <1>1 DEF BlockInv, BlockTypes
<1>5. Holders' = Holders \cup {w} /\ w \notin Holders
  BY <1>4, Constants DEF Holders
<1>6. BlockAccounting'
  <2>1. Cardinality(Holders') = Cardinality(Holders) + 1
    BY <1>5, CountedSets, FS_AddElement
  <2>2. free' + lent' = BlocksToAlloc
    <3>1. free \in Nat /\ lent \in Nat /\ free + lent = BlocksToAlloc
      BY Counts
    <3> QED BY <1>1, <3>1
  <2>3. lent' = Cardinality(Holders') + Len(queue') + Cardinality(Leaked')
    BY <1>1, <1>3, <2>1, Counts, SMTT(20)
  <2> QED BY <2>2, <2>3 DEF BlockAccounting
<1>7. OnePlace'
  <2>1. \A i \in Data : (\E v \in Workers : hand'[v] = i) <=> (\E v \in Workers : hand[v] = i)
    BY <1>4, Constants
  <2>2. \A v \in Workers : hand'[v] \in Data => hand'[v] = hand[v]
    BY <1>4, Constants
  <2> QED BY <1>1, <1>3, <2>1, <2>2, Places, SMTT(20) DEF BlockInv, OnePlace
<1>8. Numbering'
  BY <1>1 DEF BlockInv, Numbering
<1> QED BY <1>2, <1>6, <1>7, <1>8 DEF BlockInv

\* The block in hand gets the next number.
LEMMA FillMove ==
    ASSUME NEW w \in Workers, BlockInv, Fill(w), hand[w] = Blank
    PROVE  BlockInv'
<1> DEFINE n == produced + 1
<1>1. /\ produced < MaxBlocks /\ produced' = n
      /\ hand' = [hand EXCEPT ![w] = n] /\ fate' = [fate EXCEPT ![n] = "moving"]
      /\ free' = free /\ lent' = lent /\ queue' = queue /\ batch' = batch
  BY DEF Fill
<1>2. n \in Data /\ produced \in Nat /\ fate[n] = "unborn"
  BY <1>1, Constants DEF BlockInv, BlockTypes, Data, Numbering
<1>3. BlockTypes'
  BY <1>1, <1>2, Constants DEF BlockInv, BlockTypes, Fates
<1>4. \A v \in Workers : hand'[v] = IF v = w THEN n ELSE hand[v]
  BY <1>1 DEF BlockInv, BlockTypes
<1>5. \A i \in Data : fate'[i] = IF i = n THEN "moving" ELSE fate[i]
  BY <1>1, <1>2 DEF BlockInv, BlockTypes
<1>6. QueueSet' = QueueSet /\ Leaked' = Leaked /\ Holders' = Holders
  BY <1>1, <1>2, <1>4, <1>5, Constants DEF QueueSet, Leaked, Holders
<1>7. BlockAccounting'
  BY <1>1, <1>6 DEF BlockInv, BlockAccounting
<1>8. OnePlace'
  <2>1. /\ n \notin QueueSet /\ \A v \in Workers : hand[v] # n
        /\ \A v \in SinkWorkers : n \notin batch[v]
    BY <1>2 DEF BlockInv, OnePlace
  <2>2. \A i \in Data : (\E v \in Workers : hand'[v] = i)
                         <=> (i = n \/ \E v \in Workers : hand[v] = i)
    BY <1>4, Constants
  <2> QED BY <1>1, <1>2, <1>4, <1>5, <1>6, <2>1, <2>2, SMTT(20) DEF BlockInv, OnePlace
<1>9. Numbering'
  BY <1>1, <1>2, <1>5, Constants DEF BlockInv, Numbering, Data
<1> QED BY <1>3, <1>7, <1>8, <1>9 DEF BlockInv

\* pool.Release: whatever the worker holds goes back.
LEMMA ReleaseMove ==
    ASSUME NEW w \in Workers, NEW f \in Endings, BlockInv, Release(w, f)
    PROVE  BlockInv'
<1>1. /\ hand[w] # NoBlock /\ lent > 0 /\ free' = free + 1 /\ lent' = lent - 1
      /\ hand' = [hand EXCEPT ![w] = NoBlock] /\ fate' = Settled({hand[w]}, f)
      /\ queue' = queue /\ batch' = batch /\ produced' = produced
  BY DEF Release, Pool!Release
<1>2. f \in Fates /\ f \notin {"unborn", "moving", "discarded", "abandoned"}
  BY DEF Endings, Fates
<1>11. \A i \in Data : i = hand[w] => fate[i] = "moving"
  BY Places
<1>3. \A i \in Data : fate'[i] = IF i = hand[w] THEN f ELSE fate[i]
  BY <1>1 DEF Settled
<1>4. \A v \in Workers : hand'[v] = IF v = w THEN NoBlock ELSE hand[v]
  BY <1>1 DEF BlockInv, BlockTypes
<1>5. BlockTypes'
  BY <1>1, <1>2 DEF BlockInv, BlockTypes, Settled
<1>6. QueueSet' = QueueSet /\ Leaked' = Leaked
  <2>1. QueueSet' = QueueSet
    BY <1>1 DEF QueueSet
  <2>2. \A i \in Data : fate'[i] \in {"discarded", "abandoned"}
                           <=> fate[i] \in {"discarded", "abandoned"}
    BY <1>2, <1>11, <1>3
  <2> QED BY <2>1, <2>2 DEF Leaked
<1>7. Holders' = Holders \ {w} /\ w \in Holders
  BY <1>1, <1>4 DEF Holders
<1>8. BlockAccounting'
  <2>1. Cardinality(Holders') = Cardinality(Holders) - 1
    BY <1>7, CountedSets, FS_RemoveElement
  <2>2. free' + lent' = BlocksToAlloc
    <3>1. free \in Nat /\ lent \in Nat /\ free + lent = BlocksToAlloc
      BY Counts
    <3> QED BY <1>1, <3>1
  <2>3. lent' = Cardinality(Holders') + Len(queue') + Cardinality(Leaked')
    BY <1>1, <1>6, <2>1, Counts, SMTT(20)
  <2> QED BY <2>2, <2>3 DEF BlockAccounting
<1>9. OnePlace'
  <2>1. \A i \in Data : (\E v \in Workers : hand'[v] = i)
                         <=> (i # hand[w] /\ \E v \in Workers : hand[v] = i)
    BY <1>4, Constants DEF BlockInv, OnePlace
  <2>2. \A v \in Workers : hand'[v] \in Data => hand'[v] = hand[v]
    BY <1>4, Constants
  <2>3. \A i \in Data : i = hand[w] => /\ i \notin QueueSet
                                       /\ \A v \in SinkWorkers : i \notin batch[v]
    BY DEF BlockInv, OnePlace
  <2>4. \A i \in Data : fate'[i] = "moving" <=> i # hand[w] /\ fate[i] = "moving"
    BY <1>2, <1>11, <1>3
  <2>5. \A i \in Data : fate'[i] = "moving"
                         <=> \/ i \in QueueSet'
                             \/ \E v \in Workers : hand'[v] = i
                             \/ \E v \in SinkWorkers : i \in batch'[v]
    BY <1>1, <1>6, <2>1, <2>3, <2>4 DEF BlockInv, OnePlace
  <2>6. /\ \A v \in Workers : hand'[v] \notin QueueSet'
        /\ \A v \in Workers, u \in SinkWorkers : hand'[v] \notin batch'[u]
    BY <1>1, <1>6, <2>2, Places DEF BlockInv, OnePlace
  <2>7. \A u, v \in Workers : hand'[u] \in Data /\ hand'[u] = hand'[v] => u = v
    BY <2>2 DEF BlockInv, OnePlace
  <2>8. /\ \A i, j \in 1..Len(queue') : queue'[i] = queue'[j] => i = j
        /\ \A u, v \in SinkWorkers : u # v => batch'[u] \cap batch'[v] = {}
        /\ \A v \in SinkWorkers : batch'[v] \cap QueueSet' = {}
    BY <1>1, <1>6 DEF BlockInv, OnePlace
  <2> QED BY <2>5, <2>6, <2>7, <2>8 DEF OnePlace
<1>10. Numbering'
  <2>1. \A i \in Data : fate'[i] = "unborn" <=> fate[i] = "unborn"
    BY <1>2, <1>11, <1>3
  <2> QED BY <1>1, <2>1 DEF BlockInv, Numbering
<1> QED BY <1>5, <1>8, <1>9, <1>10 DEF BlockInv

\* A filled block goes onto the queue.
LEMMA EnqueueMove ==
    ASSUME NEW w \in Workers, BlockInv, Enqueue(w), hand[w] \in Data
    PROVE  BlockInv'
<1>1. /\ queue' = Append(queue, hand[w]) /\ hand' = [hand EXCEPT ![w] = NoBlock]
      /\ free' = free /\ lent' = lent /\ batch' = batch
      /\ produced' = produced /\ fate' = fate
  BY DEF Enqueue
<1>2. queue \in Seq(Data)
  BY DEF BlockInv, BlockTypes
<1>3. /\ queue' \in Seq(Data) /\ Len(queue') = Len(queue) + 1
      /\ QueueSet' = QueueSet \cup {hand[w]}
      /\ \A i \in 1..Len(queue) : queue'[i] = queue[i]
      /\ queue'[Len(queue) + 1] = hand[w]
  BY <1>1, <1>2, QueueSetChanges
<1>4. \A v \in Workers : hand'[v] = IF v = w THEN NoBlock ELSE hand[v]
  BY <1>1 DEF BlockInv, BlockTypes
<1>5. BlockTypes'
  BY <1>1, <1>3 DEF BlockInv, BlockTypes
<1>6. Leaked' = Leaked
  BY <1>1 DEF Leaked
<1>7. Holders' = Holders \ {w} /\ w \in Holders
  BY <1>4, Constants DEF Holders
<1>8. BlockAccounting'
  <2>1. Cardinality(Holders') = Cardinality(Holders) - 1
    BY <1>7, CountedSets, FS_RemoveElement
  <2>2. free' + lent' = BlocksToAlloc
    <3>1. free \in Nat /\ lent \in Nat /\ free + lent = BlocksToAlloc
      BY Counts
    <3> QED BY <1>1, <3>1
  <2>3. lent' = Cardinality(Holders') + Len(queue') + Cardinality(Leaked')
    BY <1>1, <1>3, <1>6, <2>1, Counts
  <2> QED BY <2>2, <2>3 DEF BlockAccounting
<1>9. OnePlace'
  <2>1. \A i \in Data : (\E v \in Workers : hand'[v] = i)
                         <=> (i # hand[w] /\ \E v \in Workers : hand[v] = i)
    BY <1>4, Constants DEF BlockInv, OnePlace
  <2>2. /\ \A v \in Workers : hand'[v] \in Data => hand'[v] = hand[v] /\ hand[v] # hand[w]
        /\ hand[w] \notin QueueSet /\ \A v \in SinkWorkers : hand[w] \notin batch[v]
    BY <1>4, Constants DEF BlockInv, OnePlace
  <2>3. \A i, j \in 1..Len(queue') : queue'[i] = queue'[j] => i = j
    <3>1. \A i \in 1..Len(queue') : i \in 1..Len(queue) \/ i = Len(queue) + 1
      BY <1>3, Counts
    <3>2. \A i \in 1..Len(queue) : queue[i] # hand[w]
      BY <2>2 DEF QueueSet
    <3> QED BY <1>3, <3>1, <3>2 DEF BlockInv, OnePlace
  <2> QED BY <1>1, <1>3, <2>1, <2>2, <2>3, Places, SMTT(20) DEF BlockInv, OnePlace
<1>10. Numbering'
  BY <1>1 DEF BlockInv, Numbering
<1> QED BY <1>5, <1>8, <1>9, <1>10 DEF BlockInv

\* What a receive leaves on the queue.
LEMMA AfterReceive ==
    ASSUME BlockInv, queue # <<>>, queue' = Tail(queue)
    PROVE  /\ queue' \in Seq(Data) /\ Len(queue') = Len(queue) - 1
           /\ Head(queue) \in QueueSet /\ QueueSet' = QueueSet \ {Head(queue)}
           /\ \A i, j \in 1..Len(queue') : queue'[i] = queue'[j] => i = j
<1>1. queue \in Seq(Data)
  BY DEF BlockInv, BlockTypes
<1>2. /\ queue' \in Seq(Data) /\ Len(queue') = Len(queue) - 1
      /\ Head(queue) = queue[1] /\ Len(queue) > 0
      /\ \A i \in 1..Len(queue') : queue'[i] = queue[i + 1]
      /\ QueueSet = QueueSet' \cup {Head(queue)}
  BY <1>1, QueueSetChanges
<1>3. \A i \in 1..Len(queue') : i + 1 \in 1..Len(queue) /\ i + 1 # 1
  BY <1>2, Counts
<1>4. 1 \in 1..Len(queue)
  BY <1>2, Counts
<1>5. Head(queue) \notin QueueSet'
  BY <1>2, <1>3, <1>4 DEF BlockInv, OnePlace, QueueSet
<1>6. \A i, j \in 1..Len(queue') : queue'[i] = queue'[j] => i = j
  <2> SUFFICES ASSUME NEW i \in 1..Len(queue'), NEW j \in 1..Len(queue'),
                      queue'[i] = queue'[j]
               PROVE  i = j
    OBVIOUS
  <2>1. i + 1 = j + 1
    BY <1>2, <1>3 DEF BlockInv, OnePlace
  <2> QED BY <2>1
<1> QED BY <1>2, <1>5, <1>6

\* An empty-handed worker takes the first block of the queue.
LEMMA DequeueMove ==
    ASSUME NEW w \in Workers, BlockInv, Dequeue(w), hand[w] = NoBlock
    PROVE  BlockInv'
<1> DEFINE h == Head(queue)
<1>1. /\ queue # <<>> /\ queue' = Tail(queue) /\ hand' = [hand EXCEPT ![w] = h]
      /\ free' = free /\ lent' = lent /\ batch' = batch
      /\ produced' = produced /\ fate' = fate
  BY DEF Dequeue
<1>2. /\ queue' \in Seq(Data) /\ Len(queue') = Len(queue) - 1
      /\ h \in QueueSet /\ QueueSet' = QueueSet \ {h}
      /\ \A i, j \in 1..Len(queue') : queue'[i] = queue'[j] => i = j
  BY <1>1, AfterReceive
<1>3. h \in Data
  BY <1>2, Places
<1>4. \A v \in Workers : hand'[v] = IF v = w THEN h ELSE hand[v]
  BY <1>1 DEF BlockInv, BlockTypes
<1>5. BlockTypes'
  BY <1>1, <1>2, <1>3 DEF BlockInv, BlockTypes
<1>6. Leaked' = Leaked
  BY <1>1 DEF Leaked
<1>7. Holders' = Holders \cup {w} /\ w \notin Holders
  BY <1>3, <1>4, Constants DEF Holders
<1>8. BlockAccounting'
  <2>1. Cardinality(Holders') = Cardinality(Holders) + 1
    BY <1>7, CountedSets, FS_AddElement
  <2>2. free' + lent' = BlocksToAlloc
    <3>1. free \in Nat /\ lent \in Nat /\ free + lent = BlocksToAlloc
      BY Counts
    <3> QED BY <1>1, <3>1
  <2>3. lent' = Cardinality(Holders') + Len(queue') + Cardinality(Leaked')
    BY <1>1, <1>2, <1>6, <2>1, Counts
  <2> QED BY <2>2, <2>3 DEF BlockAccounting
<1>9. OnePlace'
  <2>1. \A i \in Data : (\E v \in Workers : hand'[v] = i)
                         <=> (i = h \/ \E v \in Workers : hand[v] = i)
    BY <1>4, Constants
  <2>2. /\ \A v \in Workers : hand[v] # h
        /\ \A v \in SinkWorkers : h \notin batch[v]
    BY <1>2, <1>3 DEF BlockInv, OnePlace
  <2> QED BY <1>1, <1>2, <1>3, <1>4, <2>1, <2>2, Places DEF BlockInv, OnePlace
<1>10. Numbering'
  BY <1>1 DEF BlockInv, Numbering
<1> QED BY <1>5, <1>8, <1>9, <1>10 DEF BlockInv

\* The rows in hand join the worker's open batch.
LEMMA EncodeMove ==
    ASSUME NEW w \in SinkWorkers, BlockInv, Encode(w), hand[w] \in Data
    PROVE  BlockInv'
<1>1. /\ batch' = [batch EXCEPT ![w] = @ \cup {hand[w]}]
      /\ hand' = [hand EXCEPT ![w] = Blank]
      /\ free' = free /\ lent' = lent /\ queue' = queue
      /\ produced' = produced /\ fate' = fate
  BY DEF Encode
<1>2. w \in Workers
  BY DEF Workers
<1>3. \A v \in Workers : hand'[v] = IF v = w THEN Blank ELSE hand[v]
  BY <1>1 DEF BlockInv, BlockTypes
<1>4. \A v \in SinkWorkers : batch'[v] = IF v = w THEN batch[w] \cup {hand[w]} ELSE batch[v]
  BY <1>1 DEF BlockInv, BlockTypes
<1>5. BlockTypes'
  BY <1>1 DEF BlockInv, BlockTypes
<1>6. QueueSet' = QueueSet /\ Leaked' = Leaked /\ Holders' = Holders
  <2>1. Holders' = Holders
    BY <1>2, <1>3, Constants DEF Holders
  <2> QED BY <1>1, <2>1 DEF QueueSet, Leaked
<1>7. BlockAccounting'
  BY <1>1, <1>6 DEF BlockInv, BlockAccounting
<1>8. OnePlace'
  <2>1. \A i \in Data : (\E v \in Workers : hand'[v] = i)
                         <=> (i # hand[w] /\ \E v \in Workers : hand[v] = i)
    BY <1>2, <1>3, Constants DEF BlockInv, OnePlace
  <2>2. \A i \in Data : (\E v \in SinkWorkers : i \in batch'[v])
                         <=> (i = hand[w] \/ \E v \in SinkWorkers : i \in batch[v])
    BY <1>4
  <2>3. /\ \A v \in Workers : hand'[v] \in Data => hand'[v] = hand[v] /\ hand[v] # hand[w]
        /\ hand[w] \notin QueueSet /\ \A v \in SinkWorkers : hand[w] \notin batch[v]
    BY <1>2, <1>3, Constants DEF BlockInv, OnePlace
  <2>4. \A i \in Data : fate'[i] = "moving"
                         <=> \/ i \in QueueSet'
                             \/ \E v \in Workers : hand'[v] = i
                             \/ \E v \in SinkWorkers : i \in batch'[v]
    BY <1>1, <1>2, <1>6, <2>1, <2>2 DEF BlockInv, OnePlace
  <2>5. /\ \A v \in Workers : hand'[v] \notin QueueSet'
        /\ \A v \in Workers, u \in SinkWorkers : hand'[v] \notin batch'[u]
    BY <1>3, <1>4, <1>6, <2>3, Places, Constants DEF BlockInv, OnePlace
  <2>6. \A u, v \in Workers : hand'[u] \in Data /\ hand'[u] = hand'[v] => u = v
    BY <2>3 DEF BlockInv, OnePlace
  <2>7. \A u, v \in SinkWorkers : u # v => batch'[u] \cap batch'[v] = {}
    BY <1>4, <2>3 DEF BlockInv, OnePlace
  <2>8. \A v \in SinkWorkers : batch'[v] \cap QueueSet' = {}
    BY <1>4, <1>6, <2>3 DEF BlockInv, OnePlace
  <2>9. \A i, j \in 1..Len(queue') : queue'[i] = queue'[j] => i = j
    BY <1>1 DEF BlockInv, OnePlace
  <2> QED BY <2>4, <2>5, <2>6, <2>7, <2>8, <2>9 DEF OnePlace
<1>9. Numbering'
  BY <1>1 DEF BlockInv, Numbering
<1> QED BY <1>5, <1>7, <1>8, <1>9 DEF BlockInv

\* An open batch is stored, failed or dropped as a whole.
LEMMA SettleMove ==
    ASSUME NEW w \in SinkWorkers, NEW f \in Endings, BlockInv, Settle(w, f)
    PROVE  BlockInv'
<1>1. /\ fate' = Settled(batch[w], f) /\ batch' = [batch EXCEPT ![w] = {}]
      /\ free' = free /\ lent' = lent /\ queue' = queue
      /\ hand' = hand /\ produced' = produced
  BY DEF Settle
<1>2. f \in Fates /\ f \notin {"unborn", "moving", "discarded", "abandoned"}
  BY DEF Endings, Fates
<1>3. \A i \in Data : fate'[i] = IF i \in batch[w] THEN f ELSE fate[i]
  BY <1>1 DEF Settled
<1>4. \A i \in batch[w] : fate[i] = "moving"
  BY Places
<1>5. \A v \in SinkWorkers : batch'[v] = IF v = w THEN {} ELSE batch[v]
  BY <1>1 DEF BlockInv, BlockTypes
<1>6. BlockTypes'
  BY <1>1, <1>2 DEF BlockInv, BlockTypes, Settled
<1>7. QueueSet' = QueueSet /\ Leaked' = Leaked /\ Holders' = Holders
  <2>1. \A i \in Data : fate'[i] \in {"discarded", "abandoned"}
                           <=> fate[i] \in {"discarded", "abandoned"}
    BY <1>2, <1>3, <1>4
  <2>2. QueueSet' = QueueSet /\ Holders' = Holders
    BY <1>1 DEF QueueSet, Holders
  <2> QED BY <2>1, <2>2 DEF Leaked
<1>8. BlockAccounting'
  BY <1>1, <1>7 DEF BlockInv, BlockAccounting
<1>9. OnePlace'
  <2>1. \A i \in Data : fate'[i] = "moving" <=> i \notin batch[w] /\ fate[i] = "moving"
    BY <1>2, <1>3
  <2>2. \A i \in Data : (\E v \in SinkWorkers : i \in batch'[v])
                     <=> (i \notin batch[w] /\ \E v \in SinkWorkers : i \in batch[v])
    BY <1>5 DEF BlockInv, OnePlace
  <2>3. \A i \in batch[w] : i \notin QueueSet /\ \A v \in Workers : hand[v] # i
    BY DEF BlockInv, OnePlace
  <2>4. \A i \in Data : fate'[i] = "moving"
                         <=> \/ i \in QueueSet'
                             \/ \E v \in Workers : hand'[v] = i
                             \/ \E v \in SinkWorkers : i \in batch'[v]
    BY <1>1, <1>7, <2>1, <2>2, <2>3 DEF BlockInv, OnePlace
  <2>5. \A v \in SinkWorkers : batch'[v] \subseteq batch[v]
    BY <1>5
  <2> QED BY <1>1, <1>7, <2>4, <2>5 DEF BlockInv, OnePlace
<1>10. Numbering'
  <2>1. \A i \in Data : fate'[i] = "unborn" <=> fate[i] = "unborn"
    BY <1>2, <1>3, <1>4
  <2> QED BY <1>1, <2>1 DEF BlockInv, Numbering
<1> QED BY <1>6, <1>8, <1>9, <1>10 DEF BlockInv

\* Losing the block in hand moves it from Holders to Leaked.
LEMMA AbandonMove ==
    ASSUME NEW w \in Workers, BlockInv, Abandon(w), hand[w] \in Data
    PROVE  BlockInv'
<1> DEFINE d == hand[w]
<1>1. /\ fate' = Settled({d}, "abandoned") /\ hand' = [hand EXCEPT ![w] = NoBlock]
      /\ free' = free /\ lent' = lent /\ queue' = queue
      /\ batch' = batch /\ produced' = produced
  BY DEF Abandon
<1>2. \A i \in Data : fate'[i] = IF i = d THEN "abandoned" ELSE fate[i]
  BY <1>1 DEF Settled
<1>3. fate[d] = "moving"
  BY Places
<1>4. \A v \in Workers : hand'[v] = IF v = w THEN NoBlock ELSE hand[v]
  BY <1>1 DEF BlockInv, BlockTypes
<1>5. BlockTypes'
  BY <1>1 DEF BlockInv, BlockTypes, Settled, Fates
<1>6. QueueSet' = QueueSet
  BY <1>1 DEF QueueSet
<1>7. Holders' = Holders \ {w} /\ w \in Holders
  BY <1>4, Constants DEF Holders
<1>8. Leaked' = Leaked \cup {d} /\ d \notin Leaked
  BY <1>2, <1>3 DEF Leaked
<1>9. BlockAccounting'
  <2>1. Cardinality(Holders') = Cardinality(Holders) - 1
    BY <1>7, CountedSets, FS_RemoveElement
  <2>2. Cardinality(Leaked') = Cardinality(Leaked) + 1
    BY <1>8, CountedSets, FS_AddElement
  <2>3. lent' = Cardinality(Holders') + Len(queue') + Cardinality(Leaked')
    BY <1>1, <2>1, <2>2, Counts
  <2>4. free' + lent' = BlocksToAlloc
    BY <1>1, Counts
  <2> QED BY <2>3, <2>4 DEF BlockAccounting
<1>10. OnePlace'
  <2>1. \A i \in Data : (\E v \in Workers : hand'[v] = i)
                         <=> (i # d /\ \E v \in Workers : hand[v] = i)
    BY <1>4, Constants DEF BlockInv, OnePlace
  <2>2. /\ \A v \in Workers : hand'[v] \in Data => hand'[v] = hand[v]
        /\ d \notin QueueSet /\ \A v \in SinkWorkers : d \notin batch[v]
    BY <1>4, Constants DEF BlockInv, OnePlace
  <2>3. \A i \in Data : fate'[i] = "moving" <=> i # d /\ fate[i] = "moving"
    BY <1>2
  <2>4. \A i \in Data : fate'[i] = "moving"
                         <=> \/ i \in QueueSet'
                             \/ \E v \in Workers : hand'[v] = i
                             \/ \E v \in SinkWorkers : i \in batch'[v]
    <3>1. \A i \in Data : i \in QueueSet' <=> i # d /\ i \in QueueSet
      BY <1>6, <2>2
    <3>2. \A i \in Data : (\E v \in SinkWorkers : i \in batch'[v])
                           <=> (i # d /\ \E v \in SinkWorkers : i \in batch[v])
      BY <1>1, <2>2
    <3> HIDE DEF d
    <3> QED BY <2>1, <2>3, <3>1, <3>2, Places
  <2>5. /\ \A v \in Workers : hand'[v] \notin QueueSet'
        /\ \A v \in Workers, u \in SinkWorkers : hand'[v] \notin batch'[u]
    BY <1>1, <1>6, <2>2, Places DEF BlockInv, OnePlace
  <2>6. \A u, v \in Workers : hand'[u] \in Data /\ hand'[u] = hand'[v] => u = v
    BY <2>2 DEF BlockInv, OnePlace
  <2>7. /\ \A i, j \in 1..Len(queue') : queue'[i] = queue'[j] => i = j
        /\ \A u, v \in SinkWorkers : u # v => batch'[u] \cap batch'[v] = {}
        /\ \A v \in SinkWorkers : batch'[v] \cap QueueSet' = {}
    BY <1>1, <1>6 DEF BlockInv, OnePlace
  <2> QED BY <2>4, <2>5, <2>6, <2>7 DEF OnePlace
<1>11. Numbering'
  <2>1. \A i \in Data : fate'[i] = "unborn" <=> fate[i] = "unborn"
    BY <1>2, <1>3
  <2> QED BY <1>1, <2>1 DEF BlockInv, Numbering
<1> QED BY <1>5, <1>9, <1>10, <1>11 DEF BlockInv

\* Losing the first block of the queue moves it from the queue to Leaked.
LEMMA DiscardMove ==
    ASSUME BlockInv, Discard
    PROVE  BlockInv'
<1> DEFINE d == Head(queue)
<1>1. /\ queue # <<>> /\ queue' = Tail(queue) /\ fate' = Settled({d}, "discarded")
      /\ free' = free /\ lent' = lent /\ hand' = hand
      /\ batch' = batch /\ produced' = produced
  BY DEF Discard
<1>2. /\ queue' \in Seq(Data) /\ Len(queue') = Len(queue) - 1
      /\ d \in QueueSet /\ QueueSet' = QueueSet \ {d}
      /\ \A i, j \in 1..Len(queue') : queue'[i] = queue'[j] => i = j
  BY <1>1, AfterReceive
<1>3. \A i \in Data : fate'[i] = IF i = d THEN "discarded" ELSE fate[i]
  BY <1>1 DEF Settled
<1>4. d \in Data /\ fate[d] = "moving"
  BY <1>2, Places
<1>5. BlockTypes'
  BY <1>1, <1>2 DEF BlockInv, BlockTypes, Settled, Fates
<1>6. Holders' = Holders
  BY <1>1 DEF Holders
<1>7. Leaked' = Leaked \cup {d} /\ d \notin Leaked
  BY <1>3, <1>4 DEF Leaked
<1>8. BlockAccounting'
  <2>1. Cardinality(Leaked') = Cardinality(Leaked) + 1
    BY <1>7, CountedSets, FS_AddElement
  <2>2. lent' = Cardinality(Holders') + Len(queue') + Cardinality(Leaked')
    BY <1>1, <1>2, <1>6, <2>1, Counts
  <2>3. free' + lent' = BlocksToAlloc
    BY <1>1, Counts
  <2> QED BY <2>2, <2>3 DEF BlockAccounting
<1>9. OnePlace'
  <2>1. /\ \A v \in Workers : hand[v] # d
        /\ \A v \in SinkWorkers : d \notin batch[v]
    BY <1>2, <1>4 DEF BlockInv, OnePlace
  <2>2. \A i \in Data : fate'[i] = "moving" <=> i # d /\ fate[i] = "moving"
    BY <1>3
  <2>3. \A i \in Data : fate'[i] = "moving"
                         <=> \/ i \in QueueSet'
                             \/ \E v \in Workers : hand'[v] = i
                             \/ \E v \in SinkWorkers : i \in batch'[v]
    <3>1. \A i \in Data : i \in QueueSet' <=> i # d /\ i \in QueueSet
      BY <1>2
    <3>2. \A i \in Data : (\E v \in SinkWorkers : i \in batch'[v])
                           <=> (i # d /\ \E v \in SinkWorkers : i \in batch[v])
      BY <1>1, <2>1
    <3>3. \A i \in Data : (\E v \in Workers : hand'[v] = i)
                           <=> (i # d /\ \E v \in Workers : hand[v] = i)
      BY <1>1, <2>1
    <3> HIDE DEF d
    <3> QED BY <2>2, <3>1, <3>2, <3>3, Places
  <2> QED BY <1>1, <1>2, <2>3 DEF BlockInv, OnePlace
<1>10. Numbering'
  <2>1. \A i \in Data : fate'[i] = "unborn" <=> fate[i] = "unborn"
    BY <1>3, <1>4
  <2> QED BY <1>1, <2>1 DEF BlockInv, Numbering
<1> QED BY <1>5, <1>8, <1>9, <1>10 DEF BlockInv
-----------------------------------------------------------------------------
(* Steps of workers.                                                       *)

\* A Move that suits the old and the new pc keeps the invariant of the blocks
\* and leaves in the worker's hand what the new pc allows.
LEMMA WorkerStepKeeps ==
    ASSUME NEW w \in Workers, NEW p, IInv, WorkerStep(w, p)
    PROVE  BlockInv' /\ HandMatchesPc'
<1>1. BlockInv
  BY DEF IInv
<1>2. hand \in [Workers -> Data \cup {NoBlock, Blank}] /\ pc \in [Workers -> Pcs]
  BY DEF IInv, BlockInv, BlockTypes, ControlTypes
<1>3. pc' = [pc EXCEPT ![w] = p]
  BY DEF WorkerStep
<1>4. ASSUME \A v \in Workers : v # w => hand'[v] = hand[v], hand'[w] \in Allowed(p)
      PROVE  HandMatchesPc'
  <2>1. \A v \in Workers : pc'[v] = IF v = w THEN p ELSE pc[v]
    BY <1>2, <1>3
  <2> QED BY <1>4, <2>1 DEF IInv, HandMatchesPc
<1>5. CASE Keep /\ hand[w] \in Allowed(p)
  <2>1. hand' = hand
    BY <1>5 DEF Keep, blockVars
  <2> QED BY <1>1, <1>4, <1>5, <2>1, KeepMove
<1>6. CASE Acquire(w) /\ hand[w] = NoBlock /\ p \in {"decode", "fill"}
  <2>1. hand' = [hand EXCEPT ![w] = Blank]
    BY <1>6 DEF Acquire
  <2>2. hand'[w] \in Allowed(p)
    BY <1>2, <1>6, <2>1 DEF Allowed
  <2> QED BY <1>1, <1>2, <1>4, <1>6, <2>1, <2>2, AcquireMove
<1>7. CASE Fill(w) /\ hand[w] = Blank /\ p \in {"shift", "send"}
  <2>1. hand' = [hand EXCEPT ![w] = produced + 1] /\ produced + 1 \in Data
    BY <1>1, <1>7, Constants DEF Fill, BlockInv, BlockTypes, Data
  <2>2. hand'[w] \in Allowed(p)
    BY <1>2, <1>7, <2>1 DEF Allowed
  <2> QED BY <1>1, <1>2, <1>4, <1>7, <2>1, <2>2, FillMove
<1>8. CASE Enqueue(w) /\ hand[w] \in Data /\ NoBlock \in Allowed(p)
  <2>1. hand' = [hand EXCEPT ![w] = NoBlock]
    BY <1>8 DEF Enqueue
  <2> QED BY <1>1, <1>2, <1>4, <1>8, <2>1, EnqueueMove
<1>9. CASE Dequeue(w) /\ hand[w] = NoBlock /\ p \in {"query", "add", "drained"}
  <2>1. hand' = [hand EXCEPT ![w] = Head(queue)]
    BY <1>9 DEF Dequeue
  <2>2. Head(queue) \in Data
    BY <1>1, <1>9, AfterReceive, Places DEF Dequeue
  <2>3. hand'[w] \in Allowed(p)
    BY <1>2, <1>9, <2>1, <2>2 DEF Allowed
  <2> QED BY <1>1, <1>2, <1>4, <1>9, <2>1, <2>3, DequeueMove
<1>10. ASSUME NEW f \in Endings, Release(w, f) /\ NoBlock \in Allowed(p)
       PROVE  BlockInv' /\ HandMatchesPc'
  <2>1. hand' = [hand EXCEPT ![w] = NoBlock]
    BY <1>10 DEF Release
  <2> QED BY <1>1, <1>2, <1>4, <1>10, <2>1, ReleaseMove
<1>11. CASE w \in SinkWorkers /\ hand[w] \in Data /\ Encode(w) /\ p \in {"input", "release"}
  <2>1. hand' = [hand EXCEPT ![w] = Blank]
    BY <1>11 DEF Encode
  <2>2. hand'[w] \in Allowed(p)
    BY <1>2, <1>11, <2>1 DEF Allowed
  <2> QED BY <1>1, <1>2, <1>4, <1>11, <2>1, <2>2, EncodeMove
<1>12. ASSUME w \in SinkWorkers, hand[w] \in Allowed(p), NEW f \in Endings, Settle(w, f)
       PROVE  BlockInv' /\ HandMatchesPc'
  <2>1. hand' = hand
    BY <1>12 DEF Settle
  <2> QED BY <1>1, <1>4, <1>12, <2>1, SettleMove
<1>13. CASE Abandon(w) /\ hand[w] \in Data /\ NoBlock \in Allowed(p)
  <2>1. hand' = [hand EXCEPT ![w] = NoBlock]
    BY <1>13 DEF Abandon
  <2> QED BY <1>1, <1>2, <1>4, <1>13, <2>1, AbandonMove
<1>14. CASE Discard /\ hand[w] \in Allowed(p)
  <2>1. hand' = hand
    BY <1>14 DEF Discard
  <2> QED BY <1>1, <1>4, <1>14, <2>1, DiscardMove
<1> QED BY <1>5, <1>6, <1>7, <1>8, <1>9, <1>10, <1>11, <1>12, <1>13, <1>14 DEF WorkerStep

\* What holds of a control state once more after a worker's step.
RestTypes ==
    /\ tries \in [SinkWorkers -> Nat]
    /\ filesLeft \in Nat /\ failures \in Nat
    /\ datasetStart \in StartStates \cup SourceWorkers
    /\ closed \in BOOLEAN /\ stage \in Stages /\ running \in SUBSET Modes

\* Failures and sends without one leave the rest of the control state in order.
LEMMA RestKept ==
    ASSUME RestTypes, SameRest \/ Fail, tries' \in [SinkWorkers -> Nat]
    PROVE  RestTypes' /\ closed' = closed
<1>1. failures' \in Nat
  BY DEF RestTypes, SameRest, SameMain, Fail
<1>2. /\ filesLeft' = filesLeft /\ datasetStart' = datasetStart
      /\ closed' = closed /\ stage' = stage /\ running' = running
  BY DEF SameRest, SameMain, Fail
<1> QED BY <1>1, <1>2 DEF RestTypes

\* Every action of a disk worker is a WorkerStep, and none is left once done.
LEMMA DiskWorkerStep ==
    ASSUME NEW w \in SourceWorkers, IInv, DiskStep(w)
    PROVE  /\ \E p \in Pcs : WorkerStep(w, p)
           /\ RestTypes' /\ closed' = closed /\ pc[w] # "done"
<1>1. w \in Workers /\ hand[w] \in Allowed(pc[w])
  BY DEF IInv, HandMatchesPc, Workers
<1>2. RestTypes
  BY DEF IInv, ControlTypes, RestTypes
<1> USE DEF Goto, WorkerStep, Pcs, SourcePcs
<1>3. CASE DiskStop(w)
  <2>1. WorkerStep(w, "done") /\ pc[w] # "done"
    BY <1>1, <1>3 DEF DiskStop, Allowed
  <2>2. RestTypes' /\ closed' = closed
    BY <1>2, <1>3 DEF DiskStop, OnlyPc, SameTries, SameRest, SameMain, RestTypes
  <2> QED BY <2>1, <2>2
<1>4. CASE DiskOpen(w)
  <2>1. (WorkerStep(w, "read") \/ WorkerStep(w, "take")) /\ pc[w] # "done"
    BY <1>1, <1>4 DEF DiskOpen, Allowed
  <2>2. RestTypes' /\ closed' = closed
    BY <1>2, <1>4 DEF DiskOpen, TakesFirst, StartStates, SameTries, RestTypes
  <2> QED BY <2>1, <2>2
<1>5. CASE DiskRead(w)
  <2>1. (WorkerStep(w, "acquire") \/ WorkerStep(w, "take")) /\ pc[w] # "done"
    BY <1>1, <1>5 DEF DiskRead, Allowed
  <2>2. RestTypes' /\ closed' = closed
    BY <1>2, <1>5 DEF DiskRead, LeavesFile, StartStates, OnlyPc, SameTries, SameRest, SameMain, RestTypes
  <2> QED BY <2>1, <2>2
<1>6. CASE DiskAcquire(w)
  <2>1. WorkerStep(w, "decode") /\ pc[w] # "done"
    BY <1>1, <1>6 DEF DiskAcquire, Allowed
  <2>2. RestTypes' /\ closed' = closed
    BY <1>2, <1>6 DEF DiskAcquire, OnlyPc, SameTries, SameRest, SameMain, RestTypes
  <2> QED BY <2>1, <2>2
<1>7. CASE DiskFileEnds(w)
  <2>1. WorkerStep(w, "take") /\ pc[w] # "done"
    BY <1>1, <1>7 DEF DiskFileEnds, Allowed, Endings
  <2>2. RestTypes' /\ closed' = closed
    BY <1>2, <1>7 DEF DiskFileEnds, LeavesFile, StartStates, SameTries, SameRest, SameMain, RestTypes
  <2> QED BY <2>1, <2>2
<1>8. CASE DiskDecode(w)
  <2>1. (WorkerStep(w, "send") \/ WorkerStep(w, "shift")) /\ pc[w] # "done"
    BY <1>1, <1>8 DEF DiskDecode, Allowed
  <2>2. RestTypes' /\ closed' = closed
    BY <1>2, <1>8 DEF DiskDecode, StartStates, SameTries, SameRest, SameMain, RestTypes
  <2> QED BY <2>1, <2>2
<1>9. CASE DiskSend(w)
  <2>1. WorkerStep(w, "read") /\ pc[w] # "done"
    BY <1>1, <1>9 DEF DiskSend, Allowed
  <2>2. RestTypes' /\ closed' = closed
    BY <1>2, <1>9 DEF DiskSend, OnlyPc, SameTries, SameRest, SameMain, RestTypes
  <2> QED BY <2>1, <2>2
<1>10. CASE DiskAbandon(w)
  <2>1. WorkerStep(w, "read") /\ pc[w] # "done"
    BY <1>1, <1>10 DEF DiskAbandon, Allowed
  <2>2. RestTypes' /\ closed' = closed
    BY <1>2, <1>10 DEF DiskAbandon, OnlyPc, SameTries, SameRest, SameMain, RestTypes
  <2> QED BY <2>1, <2>2
<1>11. CASE DiskShift(w)
  <2>1. WorkerStep(w, "send") /\ pc[w] # "done"
    BY <1>1, <1>11 DEF DiskShift, Allowed
  <2>2. RestTypes' /\ closed' = closed
    BY <1>2, <1>11 DEF DiskShift, OnlyPc, SameTries, SameRest, SameMain, RestTypes
  <2> QED BY <2>1, <2>2
<1> QED BY <1>3, <1>4, <1>5, <1>6, <1>7, <1>8, <1>9, <1>10, <1>11 DEF DiskStep

\* The same for a generator worker.
LEMMA GenWorkerStep ==
    ASSUME NEW w \in SourceWorkers, IInv, GenStep(w)
    PROVE  /\ \E p \in Pcs : WorkerStep(w, p)
           /\ RestTypes' /\ closed' = closed /\ pc[w] # "done"
<1>1. w \in Workers /\ hand[w] \in Allowed(pc[w])
  BY DEF IInv, HandMatchesPc, Workers
<1>2. RestTypes
  BY DEF IInv, ControlTypes, RestTypes
<1> USE DEF Goto, WorkerStep, Pcs, SourcePcs
<1>3. CASE GenStop(w)
  <2>1. WorkerStep(w, "done") /\ pc[w] # "done"
    BY <1>1, <1>3 DEF GenStop, Allowed
  <2>2. RestTypes' /\ closed' = closed
    BY <1>2, <1>3 DEF GenStop, OnlyPc, SameTries, SameRest, SameMain, RestTypes
  <2> QED BY <2>1, <2>2
<1>4. CASE GenWait(w)
  <2>1. WorkerStep(w, "acquire") /\ pc[w] # "done"
    BY <1>1, <1>4 DEF GenWait, Allowed
  <2>2. RestTypes' /\ closed' = closed
    BY <1>2, <1>4 DEF GenWait, OnlyPc, SameTries, SameRest, SameMain, RestTypes
  <2> QED BY <2>1, <2>2
<1>5. CASE GenAcquire(w)
  <2>1. WorkerStep(w, "fill") /\ pc[w] # "done"
    BY <1>1, <1>5 DEF GenAcquire, Allowed
  <2>2. RestTypes' /\ closed' = closed
    BY <1>2, <1>5 DEF GenAcquire, OnlyPc, SameTries, SameRest, SameMain, RestTypes
  <2> QED BY <2>1, <2>2
<1>6. CASE GenPartialFill(w)
  <2>1. WorkerStep(w, "done") /\ pc[w] # "done"
    BY <1>1, <1>6 DEF GenPartialFill, Allowed, Endings
  <2>2. RestTypes' /\ closed' = closed
    BY <1>2, <1>6 DEF GenPartialFill, OnlyPc, SameTries, SameRest, SameMain, RestTypes
  <2> QED BY <2>1, <2>2
<1>7. CASE GenFill(w)
  <2>1. WorkerStep(w, "send") /\ pc[w] # "done"
    BY <1>1, <1>7 DEF GenFill, Allowed
  <2>2. RestTypes' /\ closed' = closed
    BY <1>2, <1>7 DEF GenFill, OnlyPc, SameTries, SameRest, SameMain, RestTypes
  <2> QED BY <2>1, <2>2
<1>8. CASE GenSend(w)
  <2>1. WorkerStep(w, "top") /\ pc[w] # "done"
    BY <1>1, <1>8 DEF GenSend, Allowed
  <2>2. RestTypes' /\ closed' = closed
    BY <1>2, <1>8 DEF GenSend, OnlyPc, SameTries, SameRest, SameMain, RestTypes
  <2> QED BY <2>1, <2>2
<1>9. CASE GenDrop(w)
  <2>1. WorkerStep(w, "done") /\ pc[w] # "done"
    BY <1>1, <1>9 DEF GenDrop, Allowed, Endings
  <2>2. RestTypes' /\ closed' = closed
    BY <1>2, <1>9 DEF GenDrop, OnlyPc, SameTries, SameRest, SameMain, RestTypes
  <2> QED BY <2>1, <2>2
<1> QED BY <1>3, <1>4, <1>5, <1>6, <1>7, <1>8, <1>9 DEF GenStep

\* Every action of an insert worker is a WorkerStep, and none is left at the end.
LEMMA InsertWorkerStep ==
    ASSUME NEW w \in SinkWorkers, IInv, InsertStep(w)
    PROVE  /\ \E p \in Pcs : WorkerStep(w, p)
           /\ RestTypes' /\ closed' = closed /\ pc[w] \notin SinkEnds
<1>1. w \in Workers /\ hand[w] \in Allowed(pc[w])
  BY DEF IInv, HandMatchesPc, Workers
<1>2. RestTypes
  BY DEF IInv, ControlTypes, RestTypes
<1> USE DEF Goto, WorkerStep, Pcs, SinkPcs, SinkEnds, InQuery
<1>3. CASE InsertStart(w)
  <2>1. (\E p \in {"gaveup", "probe", "dial"} : WorkerStep(w, p)) /\ pc[w] \notin SinkEnds
    BY <1>1, <1>3 DEF InsertStart, Allowed
  <2>2. RestTypes' /\ closed' = closed
    BY <1>2, <1>3 DEF InsertStart, OnlyPc, SameTries, SameRest, SameMain, RestTypes
  <2> QED BY <2>1, <2>2
<1>4. CASE InsertProbe(w)
  <2>1. (WorkerStep(w, "stopped") \/ WorkerStep(w, "dial")) /\ pc[w] \notin SinkEnds
    BY <1>1, <1>4 DEF InsertProbe, Allowed
  <2>2. RestTypes' /\ closed' = closed
    BY <1>2, <1>4 DEF InsertProbe, OnlyPc, SameTries, SameRest, SameMain, RestTypes
  <2> QED BY <2>1, <2>2
<1>5. CASE InsertProbeDiscards(w)
  <2>1. WorkerStep(w, "dial") /\ pc[w] \notin SinkEnds
    BY <1>1, <1>5 DEF InsertProbeDiscards, Allowed
  <2>2. RestTypes' /\ closed' = closed
    BY <1>2, <1>5 DEF InsertProbeDiscards, OnlyPc, SameTries, SameRest, SameMain, RestTypes
  <2> QED BY <2>1, <2>2
<1>6. CASE InsertDial(w)
  <2>1. WorkerStep(w, "top") /\ pc[w] \notin SinkEnds
    BY <1>1, <1>6 DEF InsertDial, Allowed
  <2>2. RestTypes' /\ closed' = closed
    BY <1>2, <1>6 DEF InsertDial, SameRest, SameMain, RestTypes
  <2> QED BY <2>1, <2>2
<1>7. CASE InsertDialFails(w)
  <2>1. (WorkerStep(w, "backoff") \/ WorkerStep(w, "stopped")) /\ pc[w] \notin SinkEnds
    BY <1>1, <1>7 DEF InsertDialFails, Allowed
  <2>2. tries' \in [SinkWorkers -> Nat]
    BY <1>2, <1>7 DEF InsertDialFails, OnlyPc, SameTries, RestTypes
  <2>3. SameRest \/ Fail
    BY <1>7 DEF InsertDialFails, OnlyPc
  <2>4. RestTypes' /\ closed' = closed
    BY <1>2, <2>2, <2>3, RestKept
  <2> QED BY <2>1, <2>4
<1>8. CASE InsertTop(w)
  <2>1. (WorkerStep(w, "stopped") \/ WorkerStep(w, "recv")) /\ pc[w] \notin SinkEnds
    BY <1>1, <1>8 DEF InsertTop, Allowed
  <2>2. RestTypes' /\ closed' = closed
    BY <1>2, <1>8 DEF InsertTop, OnlyPc, SameTries, SameRest, SameMain, RestTypes
  <2> QED BY <2>1, <2>2
<1>9. CASE InsertRecv(w)
  <2>1. WorkerStep(w, "query") /\ pc[w] \notin SinkEnds
    BY <1>1, <1>9 DEF InsertRecv, Allowed
  <2>2. RestTypes' /\ closed' = closed
    BY <1>2, <1>9 DEF InsertRecv, OnlyPc, SameTries, SameRest, SameMain, RestTypes
  <2> QED BY <2>1, <2>2
<1>10. CASE InsertQueueClosed(w)
  <2>1. WorkerStep(w, "stopped") /\ pc[w] \notin SinkEnds
    BY <1>1, <1>10 DEF InsertQueueClosed, Allowed
  <2>2. RestTypes' /\ closed' = closed
    BY <1>2, <1>10 DEF InsertQueueClosed, OnlyPc, SameTries, SameRest, SameMain, RestTypes
  <2> QED BY <2>1, <2>2
<1>11. CASE InsertEncode(w)
  <2>1. WorkerStep(w, "input") /\ pc[w] \notin SinkEnds
    BY <1>1, <1>11 DEF InsertEncode, Allowed
  <2>2. RestTypes' /\ closed' = closed
    BY <1>2, <1>11 DEF InsertEncode, OnlyPc, SameTries, SameRest, SameMain, RestTypes
  <2> QED BY <2>1, <2>2
<1>12. CASE InsertOnInput(w)
  <2>1. (WorkerStep(w, "commit") \/ WorkerStep(w, "next")) /\ pc[w] \notin SinkEnds
    BY <1>1, <1>12 DEF InsertOnInput, Allowed, Endings
  <2>2. RestTypes' /\ closed' = closed
    BY <1>2, <1>12 DEF InsertOnInput, OnlyPc, SameTries, SameRest, SameMain, RestTypes
  <2> QED BY <2>1, <2>2
<1>13. CASE InsertNext(w)
  <2>1. WorkerStep(w, "query") /\ pc[w] \notin SinkEnds
    BY <1>1, <1>13 DEF InsertNext, Allowed
  <2>2. RestTypes' /\ closed' = closed
    BY <1>2, <1>13 DEF InsertNext, OnlyPc, SameTries, SameRest, SameMain, RestTypes
  <2> QED BY <2>1, <2>2
<1>14. CASE InsertEOF(w)
  <2>1. WorkerStep(w, "commit") /\ pc[w] \notin SinkEnds
    BY <1>1, <1>14 DEF InsertEOF, Allowed
  <2>2. RestTypes' /\ closed' = closed
    BY <1>2, <1>14 DEF InsertEOF, OnlyPc, SameTries, SameRest, SameMain, RestTypes
  <2> QED BY <2>1, <2>2
<1>15. CASE InsertCommit(w)
  <2>1. (WorkerStep(w, "start") \/ WorkerStep(w, "top")) /\ pc[w] \notin SinkEnds
    BY <1>1, <1>15 DEF InsertCommit, Allowed, CountBatch, Endings
  <2>2. RestTypes' /\ closed' = closed
    BY <1>2, <1>15 DEF InsertCommit, CountBatch, SameRest, SameMain, RestTypes
  <2> QED BY <2>1, <2>2
<1>16. CASE InsertError(w)
  <2>1. (WorkerStep(w, "abort") \/ WorkerStep(w, "leftover")) /\ pc[w] \notin SinkEnds
    BY <1>1, <1>16 DEF InsertError, Allowed, InQuery, Endings
  <2>2. tries' \in [SinkWorkers -> Nat]
    BY <1>2, <1>16 DEF InsertError, SameTries, RestTypes
  <2>3. SameRest \/ Fail
    BY <1>16 DEF InsertError
  <2>4. RestTypes' /\ closed' = closed
    BY <1>2, <2>2, <2>3, RestKept
  <2> QED BY <2>1, <2>4
<1>17. CASE InsertAbort(w)
  <2>1. WorkerStep(w, "backoff") /\ pc[w] \notin SinkEnds
    BY <1>1, <1>17 DEF InsertAbort, Allowed, Endings
  <2>2. RestTypes' /\ closed' = closed
    BY <1>2, <1>17 DEF InsertAbort, OnlyPc, SameTries, SameRest, SameMain, RestTypes
  <2> QED BY <2>1, <2>2
<1>18. CASE InsertLeftover(w)
  <2>1. (WorkerStep(w, "start") \/ WorkerStep(w, "top")) /\ pc[w] \notin SinkEnds
    BY <1>1, <1>18 DEF InsertLeftover, Allowed, CountBatch, Endings
  <2>2. RestTypes' /\ closed' = closed
    BY <1>2, <1>18 DEF InsertLeftover, CountBatch, SameRest, SameMain, RestTypes
  <2> QED BY <2>1, <2>2
<1>19. CASE SinkBackoff(w)
  <2>1. (WorkerStep(w, "start") \/ WorkerStep(w, "gaveup")) /\ pc[w] \notin SinkEnds
    BY <1>1, <1>19 DEF SinkBackoff, Allowed
  <2>2. RestTypes' /\ closed' = closed
    BY <1>2, <1>19 DEF SinkBackoff, OnlyPc, SameTries, SameRest, SameMain, RestTypes
  <2> QED BY <2>1, <2>2
<1> QED BY <1>3, <1>4, <1>5, <1>6, <1>7, <1>8, <1>9, <1>10, <1>11, <1>12,
           <1>13, <1>14, <1>15, <1>16, <1>17, <1>18, <1>19 DEF InsertStep

\* The same for an otel worker.
LEMMA OtelWorkerStep ==
    ASSUME NEW w \in SinkWorkers, IInv, OtelStep(w)
    PROVE  /\ \E p \in Pcs : WorkerStep(w, p)
           /\ RestTypes' /\ closed' = closed /\ pc[w] \notin SinkEnds
<1>1. w \in Workers /\ hand[w] \in Allowed(pc[w])
  BY DEF IInv, HandMatchesPc, Workers
<1>2. RestTypes
  BY DEF IInv, ControlTypes, RestTypes
<1> USE DEF Goto, WorkerStep, Pcs, SinkPcs, SinkEnds, InQuery
<1>3. CASE OtelStart(w)
  <2>1. (\E p \in {"gaveup", "loop", "backoff"} : WorkerStep(w, p)) /\ pc[w] \notin SinkEnds
    BY <1>1, <1>3 DEF OtelStart, Allowed
  <2>2. tries' \in [SinkWorkers -> Nat]
    BY <1>2, <1>3 DEF OtelStart, SameTries, RestTypes
  <2>3. SameRest \/ Fail
    BY <1>3 DEF OtelStart
  <2>4. RestTypes' /\ closed' = closed
    BY <1>2, <2>2, <2>3, RestKept
  <2> QED BY <2>1, <2>4
<1>4. CASE OtelRecv(w)
  <2>1. WorkerStep(w, "add") /\ pc[w] \notin SinkEnds
    BY <1>1, <1>4 DEF OtelRecv, Allowed
  <2>2. RestTypes' /\ closed' = closed
    BY <1>2, <1>4 DEF OtelRecv, OnlyPc, SameTries, SameRest, SameMain, RestTypes
  <2> QED BY <2>1, <2>2
<1>5. CASE OtelAdd(w)
  <2>1. WorkerStep(w, "release") /\ pc[w] \notin SinkEnds
    BY <1>1, <1>5 DEF OtelAdd, Allowed
  <2>2. RestTypes' /\ closed' = closed
    BY <1>2, <1>5 DEF OtelAdd, OnlyPc, SameTries, SameRest, SameMain, RestTypes
  <2> QED BY <2>1, <2>2
<1>6. CASE OtelRelease(w)
  <2>1. (WorkerStep(w, "flush") \/ WorkerStep(w, "loop")) /\ pc[w] \notin SinkEnds
    BY <1>1, <1>6 DEF OtelRelease, Allowed, StartFlush, Endings
  <2>2. tries' \in [SinkWorkers -> Nat]
    BY <1>2, <1>6 DEF OtelRelease, StartFlush, OnlyPc, SameTries, RestTypes
  <2>3. SameRest \/ Fail
    BY <1>6 DEF OtelRelease, StartFlush, OnlyPc
  <2>4. RestTypes' /\ closed' = closed
    BY <1>2, <2>2, <2>3, RestKept
  <2> QED BY <2>1, <2>4
<1>7. CASE OtelTick(w)
  <2>1. WorkerStep(w, "flush") /\ pc[w] \notin SinkEnds
    BY <1>1, <1>7 DEF OtelTick, Allowed, StartFlush
  <2>2. RestTypes' /\ closed' = closed
    BY <1>2, <1>7 DEF OtelTick, OnlyPc, SameTries, SameRest, SameMain, StartFlush, RestTypes
  <2> QED BY <2>1, <2>2
<1>8. CASE OtelQueueClosed(w)
  <2>1. (WorkerStep(w, "lastflush") \/ WorkerStep(w, "stopped")) /\ pc[w] \notin SinkEnds
    BY <1>1, <1>8 DEF OtelQueueClosed, Allowed, StartFlush
  <2>2. tries' \in [SinkWorkers -> Nat]
    BY <1>2, <1>8 DEF OtelQueueClosed, StartFlush, OnlyPc, SameTries, RestTypes
  <2>3. SameRest \/ Fail
    BY <1>8 DEF OtelQueueClosed, StartFlush, OnlyPc
  <2>4. RestTypes' /\ closed' = closed
    BY <1>2, <2>2, <2>3, RestKept
  <2> QED BY <2>1, <2>4
<1>9. CASE OtelExported(w)
  <2>1. (WorkerStep(w, "stopped") \/ WorkerStep(w, "loop")) /\ pc[w] \notin SinkEnds
    BY <1>1, <1>9 DEF OtelExported, Allowed, AfterFlush, Endings
  <2>2. RestTypes' /\ closed' = closed
    BY <1>2, <1>9 DEF OtelExported, OnlyPc, SameTries, SameRest, SameMain, RestTypes
  <2> QED BY <2>1, <2>2
<1>10. CASE OtelExportFails(w)
  <2>1. (\E p \in {"stopped", "loop", "wait", "lastwait"} : WorkerStep(w, p)) /\ pc[w] \notin SinkEnds
    BY <1>1, <1>10 DEF OtelExportFails, Allowed, AfterFlush, Endings
  <2>2. tries' \in [SinkWorkers -> Nat]
    BY <1>2, <1>10 DEF OtelExportFails, SameTries, RestTypes
  <2>3. SameRest \/ Fail
    BY <1>10 DEF OtelExportFails
  <2>4. RestTypes' /\ closed' = closed
    BY <1>2, <2>2, <2>3, RestKept
  <2> QED BY <2>1, <2>4
<1>11. CASE OtelRetry(w)
  <2>1. (WorkerStep(w, "flush") \/ WorkerStep(w, "lastflush")) /\ pc[w] \notin SinkEnds
    BY <1>1, <1>11 DEF OtelRetry, Allowed
  <2>2. RestTypes' /\ closed' = closed
    BY <1>2, <1>11 DEF OtelRetry, SameRest, SameMain, RestTypes
  <2> QED BY <2>1, <2>2
<1>12. CASE OtelDropOnShutdown(w)
  <2>1. (WorkerStep(w, "stopped") \/ WorkerStep(w, "loop")) /\ pc[w] \notin SinkEnds
    BY <1>1, <1>12 DEF OtelDropOnShutdown, Allowed, AfterFlush, Endings
  <2>2. RestTypes' /\ closed' = closed
    BY <1>2, <1>12 DEF OtelDropOnShutdown, OnlyPc, SameTries, SameRest, SameMain, RestTypes
  <2> QED BY <2>1, <2>2
<1>13. CASE OtelCancelled(w)
  <2>1. WorkerStep(w, "drain") /\ pc[w] \notin SinkEnds
    BY <1>1, <1>13 DEF OtelCancelled, Allowed, Endings
  <2>2. RestTypes' /\ closed' = closed
    BY <1>2, <1>13 DEF OtelCancelled, OnlyPc, SameTries, SameRest, SameMain, RestTypes
  <2> QED BY <2>1, <2>2
<1>14. CASE OtelDrain(w)
  <2>1. (\E p \in {"drained", "drain", "stopped"} : WorkerStep(w, p)) /\ pc[w] \notin SinkEnds
    BY <1>1, <1>14 DEF OtelDrain, Allowed, Endings
  <2>2. RestTypes' /\ closed' = closed
    BY <1>2, <1>14 DEF OtelDrain, OnlyPc, SameTries, SameRest, SameMain, RestTypes
  <2> QED BY <2>1, <2>2
<1>15. CASE SinkBackoff(w)
  <2>1. (WorkerStep(w, "start") \/ WorkerStep(w, "gaveup")) /\ pc[w] \notin SinkEnds
    BY <1>1, <1>15 DEF SinkBackoff, Allowed
  <2>2. RestTypes' /\ closed' = closed
    BY <1>2, <1>15 DEF SinkBackoff, OnlyPc, SameTries, SameRest, SameMain, RestTypes
  <2> QED BY <2>1, <2>2
<1> QED BY <1>3, <1>4, <1>5, <1>6, <1>7, <1>8, <1>9, <1>10, <1>11, <1>12,
           <1>13, <1>14, <1>15 DEF OtelStep
-----------------------------------------------------------------------------
(* All steps together.                                                     *)

\* A step of any worker.
LEMMA StepOfWorker ==
    ASSUME IInv,
           NEW w \in Workers, \/ w \in SourceWorkers /\ SourceStep(w)
                              \/ w \in SinkWorkers /\ SinkStep(w)
    PROVE  /\ \E p \in Pcs : WorkerStep(w, p)
           /\ RestTypes' /\ closed' = closed
           /\ w \in SourceWorkers => pc[w] # "done"
           /\ w \in SinkWorkers => pc[w] \notin SinkEnds
<1>1. CASE w \in SourceWorkers /\ SourceStep(w)
  <2>1. w \notin SinkWorkers
    BY <1>1
  <2> QED BY <1>1, <2>1, DiskWorkerStep, GenWorkerStep DEF SourceStep
<1>2. CASE w \in SinkWorkers /\ SinkStep(w)
  <2>1. w \notin SourceWorkers
    BY <1>2
  <2> QED BY <1>2, <2>1, InsertWorkerStep, OtelWorkerStep DEF SinkStep
<1> QED BY <1>1, <1>2

\* Steps of workers keep the invariant.
LEMMA WorkerIInv ==
    ASSUME IInv,
           NEW w \in Workers, \/ w \in SourceWorkers /\ SourceStep(w)
                              \/ w \in SinkWorkers /\ SinkStep(w)
    PROVE  IInv'
<1>1. PICK p \in Pcs : WorkerStep(w, p)
  BY StepOfWorker
<1>2. /\ RestTypes' /\ closed' = closed
      /\ w \in SourceWorkers => pc[w] # "done"
  BY StepOfWorker
<1>3. pc' = [pc EXCEPT ![w] = p] /\ pc \in [Workers -> Pcs]
  BY <1>1 DEF WorkerStep, IInv, ControlTypes
<1>4. BlockInv' /\ HandMatchesPc'
  BY <1>1, WorkerStepKeeps
<1>5. ControlTypes'
  <2>1. pc' \in [Workers -> Pcs]
    BY <1>3
  <2> QED BY <1>2, <2>1 DEF ControlTypes, RestTypes
<1>6. ClosedMeansDone'
  BY <1>2, <1>3 DEF IInv, ClosedMeansDone, SourceDone, Workers
<1> QED BY <1>4, <1>5, <1>6 DEF IInv

\* main, its goroutines and the modes move no block and touch no worker.
LEMMA MainIInv ==
    ASSUME IInv,
           CloseQueue \/ Signal \/ MainStep \/ Exited \/ Hung \/ \E m \in Modes : ModeStops(m)
    PROVE  IInv'
<1>1. Keep /\ pc' = pc
  BY DEF CloseQueue, Signal, MainStep, Exited, Hung, ModeStops, Keep, blockVars, vars
<1>2. BlockInv'
  BY <1>1, KeepMove DEF IInv
<1>3. HandMatchesPc'
  BY <1>1 DEF IInv, HandMatchesPc, Keep, blockVars
<1>4. /\ tries' = tries /\ failures' = failures
      /\ filesLeft' = filesLeft /\ datasetStart' = datasetStart
  BY DEF CloseQueue, Signal, MainStep, Exited, Hung, ModeStops, vars
<1>5. stage' \in Stages
  <2>1. stage \in Stages
    BY DEF IInv, ControlTypes
  <2>2. CASE stage' = stage
    BY <2>1, <2>2
  <2>3. CASE Signal \/ MainStep
    BY <2>1, <2>3 DEF Signal, MainStep, Stages, Stopped
  <2> QED BY <2>2, <2>3 DEF CloseQueue, Exited, Hung, ModeStops, vars
<1>6. running' \in SUBSET Modes
  BY DEF IInv, ControlTypes, CloseQueue, Signal, MainStep, Exited, Hung, ModeStops, vars
<1>7. closed' \in BOOLEAN
  <2>1. closed' = closed \/ closed' = TRUE
    BY DEF CloseQueue, Signal, MainStep, Exited, Hung, ModeStops, vars
  <2> QED BY <2>1 DEF IInv, ControlTypes
<1>8. ClosedMeansDone'
  <2>1. CASE CloseQueue
    BY <1>1, <2>1 DEF CloseQueue, ClosedMeansDone, SourceDone
  <2>2. CASE closed' = closed
    BY <1>1, <2>2 DEF IInv, ClosedMeansDone, SourceDone
  <2> QED BY <2>1, <2>2 DEF Signal, MainStep, Exited, Hung, ModeStops, vars
<1>9. ControlTypes'
  BY <1>1, <1>4, <1>5, <1>6, <1>7 DEF IInv, ControlTypes
<1> QED BY <1>2, <1>3, <1>8, <1>9 DEF IInv

\* Every step keeps the invariant.
LEMMA NextIInv == IInv /\ [Next]_vars => IInv'
<1> SUFFICES ASSUME IInv, [Next]_vars PROVE IInv'
  OBVIOUS
<1>1. CASE UNCHANGED vars
  BY <1>1 DEF vars, IInv, BlockInv, BlockTypes, ControlTypes, BlockAccounting, OnePlace,
       Numbering, HandMatchesPc, ClosedMeansDone, SourceDone, Holders, Leaked, QueueSet
<1>2. ASSUME NEW w \in SourceWorkers, SourceStep(w) PROVE IInv'
  <2>1. w \in Workers
    BY DEF Workers
  <2> QED BY <1>2, <2>1, WorkerIInv
<1>3. ASSUME NEW w \in SinkWorkers, SinkStep(w) PROVE IInv'
  <2>1. w \in Workers
    BY DEF Workers
  <2> QED BY <1>3, <2>1, WorkerIInv
<1> QED BY <1>1, <1>2, <1>3, MainIInv DEF Next

\* The invariant holds in every state of the pipeline.
LEMMA InvariantHolds == Spec => []IInv
BY InitIInv, NextIInv, PTL DEF Spec

(***************************************************************************)
(* The variables of the pipeline keep their types, whatever the sources,   *)
(* the sinks and main do.                                                  *)
(***************************************************************************)
THEOREM TypeCorrect == Spec => []TypeOK
<1>1. IInv => TypeOK
  BY DEF IInv, BlockInv, BlockTypes, ControlTypes, TypeOK, Pcs
<1> QED BY <1>1, InvariantHolds, PTL

(***************************************************************************)
(* No error path, retry, retirement or shutdown order of the source and    *)
(* sink workers loses a block of the pool or returns one twice, but at the *)
(* two places Leaked counts (insert/scheduler.go, disk/worker.go).         *)
(***************************************************************************)
THEOREM BlocksAccounted == Spec => []BlockAccounting
<1>1. IInv => BlockAccounting
  BY DEF IInv, BlockInv
<1> QED BY <1>1, InvariantHolds, PTL

(***************************************************************************)
(* Data in flight is in exactly one place: nothing is inserted twice and   *)
(* nothing vanishes (the hand-over over insertQueue).                      *)
(***************************************************************************)
THEOREM DataInOnePlace == Spec => []OnePlace
<1>1. IInv => OnePlace
  BY DEF IInv, BlockInv
<1> QED BY <1>1, InvariantHolds, PTL

(***************************************************************************)
(* A source with a filled block finds room on the queue: main.go sizes the *)
(* queue like the pool, and the sender's own block is not on the queue.    *)
(***************************************************************************)
THEOREM SourceSendsFreely == Spec => []SendNeverBlocks
<1>1. IInv => SendNeverBlocks
  <2> SUFFICES ASSUME IInv, NEW w \in SourceWorkers, pc[w] = "send"
               PROVE  Len(queue) < QueueSize
    BY DEF SendNeverBlocks
  <2>1. w \in Workers /\ hand[w] \in Data
    BY DEF IInv, HandMatchesPc, Allowed, Workers
  <2>2. w \in Holders
    BY <2>1, Constants DEF Holders
  <2>3. Cardinality(Holders) > 0
    BY <2>2, CountedSets, FS_EmptySet
  <2> QED BY <2>3, Counts DEF IInv, QueueSize
<1> QED BY <1>1, InvariantHolds, PTL

(***************************************************************************)
(* No source worker can reach a send once main has closed the queue, so    *)
(* close(insertQueue) never makes a send panic.                            *)
(***************************************************************************)
THEOREM CloseIsSafe == Spec => []NoSendOnClosed
<1>1. IInv => NoSendOnClosed
  BY DEF IInv, ClosedMeansDone, SourceDone, NoSendOnClosed
<1> QED BY <1>1, InvariantHolds, PTL
-----------------------------------------------------------------------------
(* Fates.                                                                  *)

\* What one step may do to the fates.
FatesKept == \A i \in Data : fate[i] \notin {"unborn", "moving"} => fate'[i] = fate[i]

\* A Move decides only about data in flight, and starts only unborn data.
LEMMA MoveKeepsFates ==
    ASSUME NEW w \in Workers, NEW p, IInv, WorkerStep(w, p)
    PROVE  FatesKept
<1>1. BlockInv
  BY DEF IInv
<1>2. CASE fate' = fate
  BY <1>2 DEF FatesKept
<1>3. CASE Fill(w)
  <2>1. /\ produced + 1 \in Data /\ produced + 1 > produced
        /\ fate' = [fate EXCEPT ![produced + 1] = "moving"]
    BY <1>1, <1>3, Constants DEF Fill, BlockInv, BlockTypes, Data
  <2>2. fate[produced + 1] = "unborn"
    BY <1>1, <2>1 DEF BlockInv, Numbering
  <2> QED BY <1>1, <2>1, <2>2 DEF FatesKept, BlockInv, BlockTypes
<1>4. ASSUME NEW S, NEW f, fate' = Settled(S, f),
             \A i \in Data : i \in S => fate[i] = "moving"
      PROVE  FatesKept
  BY <1>4 DEF FatesKept, Settled
<1>5. ASSUME NEW f, fate' = Settled({hand[w]}, f) PROVE FatesKept
  <2>1. \A i \in Data : i \in {hand[w]} => fate[i] = "moving"
    BY <1>1, Places
  <2> QED BY <1>4, <1>5, <2>1
<1>6. ASSUME w \in SinkWorkers, NEW f, fate' = Settled(batch[w], f) PROVE FatesKept
  <2>1. \A i \in Data : i \in batch[w] => fate[i] = "moving"
    BY <1>1, <1>6, Places
  <2> QED BY <1>4, <1>6, <2>1
<1>7. CASE Discard
  <2>1. \A i \in Data : i \in {Head(queue)} => fate[i] = "moving"
    BY <1>1, <1>7, AfterReceive, Places DEF Discard
  <2> QED BY <1>4, <1>7, <2>1 DEF Discard
<1>8. ASSUME NEW f, Release(w, f) PROVE FatesKept
  BY <1>5, <1>8 DEF Release
<1>9. CASE Abandon(w)
  BY <1>5, <1>9 DEF Abandon
<1>10. ASSUME w \in SinkWorkers, NEW f, Settle(w, f) PROVE FatesKept
  BY <1>6, <1>10 DEF Settle
<1>11. Keep \/ Acquire(w) \/ Enqueue(w) \/ Dequeue(w) \/ Encode(w) => fate' = fate
  BY DEF Keep, blockVars, Acquire, Enqueue, Dequeue, Encode
<1> QED BY <1>2, <1>3, <1>7, <1>8, <1>9, <1>10, <1>11 DEF WorkerStep

(***************************************************************************)
(* Nothing a worker or main does decides the fate of rows a second time:   *)
(* rows are not inserted again, dropped after being stored, or stored      *)
(* after being given up (insert/worker.go, otel/worker.go).                *)
(***************************************************************************)
THEOREM FatesAreFinal == Spec => FateIsFinal
<1>1. IInv /\ [Next]_vars => [FatesKept]_vars
  <2> SUFFICES ASSUME IInv, Next PROVE FatesKept
    OBVIOUS
  <2>1. ASSUME NEW w \in SourceWorkers, SourceStep(w) PROVE FatesKept
    <3>1. w \in Workers
      BY DEF Workers
    <3>2. \E p \in Pcs : WorkerStep(w, p)
      BY <2>1, <3>1, StepOfWorker
    <3> QED BY <3>1, <3>2, MoveKeepsFates
  <2>2. ASSUME NEW w \in SinkWorkers, SinkStep(w) PROVE FatesKept
    <3>1. w \in Workers
      BY DEF Workers
    <3>2. \E p \in Pcs : WorkerStep(w, p)
      BY <2>2, <3>1, StepOfWorker
    <3> QED BY <3>1, <3>2, MoveKeepsFates
  <2>3. CASE CloseQueue \/ Signal \/ MainStep \/ Exited \/ Hung \/ \E m \in Modes : ModeStops(m)
    <3>1. fate' = fate
      BY <2>3 DEF CloseQueue, Signal, MainStep, Exited, Hung, ModeStops, Keep, blockVars, vars
    <3> QED BY <3>1 DEF FatesKept
  <2> QED BY <2>1, <2>2, <2>3 DEF Next
<1>2. [FatesKept]_vars <=>
        [\A i \in Data : fate[i] \notin {"unborn", "moving"} => fate'[i] = fate[i]]_vars
  BY DEF FatesKept
<1> QED BY <1>1, <1>2, InvariantHolds, PTL DEF Spec, FateIsFinal
-----------------------------------------------------------------------------
(* The order of shutdown.                                                  *)

\* What main has waited for by each stage; all of it is stable.
ShutdownOrder ==
    /\ stage >= 2 => closed
    /\ stage >= 3 /\ Sink = "insert" => SinkDone
    /\ stage >= 4 => SinkDone
    /\ stage >= 5 => "metric_gen" \notin running
    /\ stage >= 6 => "user" \notin running

\* Workers that have ended take no step.
LEMMA WorkerKeepsOrder ==
    ASSUME IInv, ShutdownOrder, stage' = stage, running' = running,
           NEW w \in Workers, \/ w \in SourceWorkers /\ SourceStep(w)
                              \/ w \in SinkWorkers /\ SinkStep(w)
    PROVE  ShutdownOrder'
<1>1. PICK p \in Pcs : WorkerStep(w, p)
  BY StepOfWorker
<1>2. closed' = closed /\ (w \in SinkWorkers => pc[w] \notin SinkEnds)
  BY StepOfWorker
<1>3. pc' = [pc EXCEPT ![w] = p] /\ pc \in [Workers -> Pcs]
  BY <1>1 DEF WorkerStep, IInv, ControlTypes
<1>4. SinkDone => SinkDone'
  BY <1>2, <1>3 DEF SinkDone, Workers
<1> QED BY <1>2, <1>4 DEF ShutdownOrder

\* main advances only past what it has waited for; the rest is monotone.
LEMMA MainKeepsOrder ==
    ASSUME IInv, ShutdownOrder,
           CloseQueue \/ Signal \/ MainStep \/ Exited \/ Hung \/ \E m \in Modes : ModeStops(m)
    PROVE  ShutdownOrder'
<1>1. pc' = pc /\ running' \subseteq running
  BY DEF CloseQueue, Signal, MainStep, Exited, Hung, ModeStops, vars
<1>2. (SinkDone <=> SinkDone') /\ stage \in 0..7
  BY <1>1 DEF SinkDone, IInv, ControlTypes, Stages
<1>3. closed => closed'
  BY DEF CloseQueue, Signal, MainStep, Exited, Hung, ModeStops, vars
<1>4. CASE stage' = stage
  BY <1>1, <1>2, <1>3, <1>4 DEF ShutdownOrder
<1>5. CASE Signal
  <2>1. stage' = 1
    BY <1>5 DEF Signal
  <2> QED BY <2>1 DEF ShutdownOrder
<1>6. CASE MainStep
  <2>1. Waited(stage) /\ stage' = stage + 1
    BY <1>6 DEF MainStep
  <2>2. /\ stage = 1 => closed
        /\ stage = 2 => (Sink = "insert" => SinkDone)
        /\ stage = 3 => (Sink = "otel" => SinkDone)
        /\ stage = 4 => "metric_gen" \notin running
        /\ stage = 5 => "user" \notin running
    BY <1>2, <2>1 DEF Waited
  <2>3. /\ stage' >= 2 => stage >= 2 \/ stage = 1
        /\ stage' >= 3 => stage >= 3 \/ stage = 2
        /\ stage' >= 4 => stage >= 4 \/ stage = 3
        /\ stage' >= 5 => stage >= 5 \/ stage = 4
        /\ stage' >= 6 => stage >= 6 \/ stage = 5
        /\ stage = 3 => stage >= 3
    BY <1>2, <2>1
  <2>4. Sink = "insert" \/ Sink = "otel"
    OBVIOUS
  <2> QED BY <1>1, <1>2, <1>3, <2>2, <2>3, <2>4 DEF ShutdownOrder
<1> QED BY <1>4, <1>5, <1>6 DEF CloseQueue, Exited, Hung, ModeStops, vars

\* A step of a worker leaves main and the modes alone.
LEMMA WorkersLeaveMain ==
    ASSUME NEW w, SourceStep(w) \/ SinkStep(w)
    PROVE  stage' = stage /\ running' = running
<1> USE DEF OnlyPc, SameRest, SameMain, Fail
<1>1. CASE DiskStep(w)
  BY <1>1 DEF DiskStep, DiskStop, DiskOpen, DiskRead, DiskAcquire, DiskFileEnds,
       DiskDecode, DiskShift, DiskSend, DiskAbandon
<1>2. CASE GenStep(w)
  BY <1>2 DEF GenStep, GenStop, GenWait, GenAcquire, GenPartialFill, GenFill, GenSend, GenDrop
<1>3. CASE SinkBackoff(w)
  BY <1>3 DEF SinkBackoff
<1>4. CASE InsertStep(w)
  BY <1>3, <1>4 DEF InsertStep, InsertStart, InsertProbe, InsertProbeDiscards, InsertDial,
       InsertDialFails, InsertTop, InsertRecv, InsertQueueClosed, InsertEncode,
       InsertOnInput, InsertNext, InsertEOF, InsertCommit, CountBatch, InsertError,
       InsertAbort, InsertLeftover
<1>5. CASE OtelStep(w)
  BY <1>3, <1>5 DEF OtelStep, OtelStart, OtelRecv, OtelAdd, OtelRelease, OtelTick,
       OtelQueueClosed, OtelExported, OtelExportFails, OtelRetry, OtelDropOnShutdown,
       OtelCancelled, OtelDrain, StartFlush
<1> QED BY <1>1, <1>2, <1>4, <1>5 DEF SourceStep, SinkStep

(***************************************************************************)
(* When main cancels the metrics worker, sources, sinks, metric_gen and    *)
(* user have all returned (main.go, the cancel/Wait pairs after the        *)
(* select).                                                                *)
(***************************************************************************)
THEOREM MetricsStopLast == Spec => []MetricsLast
<1>1. Init => ShutdownOrder
  BY DEF Init, ShutdownOrder
<1>2. IInv /\ ShutdownOrder /\ [Next]_vars => ShutdownOrder'
  <2> SUFFICES ASSUME IInv, ShutdownOrder, [Next]_vars PROVE ShutdownOrder'
    OBVIOUS
  <2>1. CASE UNCHANGED vars
    BY <2>1 DEF vars, ShutdownOrder, SinkDone
  <2>2. ASSUME NEW w \in SourceWorkers, SourceStep(w) PROVE ShutdownOrder'
    <3>1. w \in Workers
      BY DEF Workers
    <3> QED BY <2>2, <3>1, WorkerKeepsOrder, WorkersLeaveMain
  <2>3. ASSUME NEW w \in SinkWorkers, SinkStep(w) PROVE ShutdownOrder'
    <3>1. w \in Workers
      BY DEF Workers
    <3> QED BY <2>3, <3>1, WorkerKeepsOrder, WorkersLeaveMain
  <2> QED BY <2>1, <2>2, <2>3, MainKeepsOrder DEF Next
<1>3. IInv /\ ShutdownOrder => MetricsLast
  <2> SUFFICES ASSUME IInv, ShutdownOrder, stage >= 6
               PROVE  closed /\ SourceDone /\ SinkDone /\ running \subseteq {"metrics"}
    BY DEF MetricsLast, ModeStage
  <2>1. stage \in 0..7
    BY DEF IInv, ControlTypes, Stages
  <2>2. stage >= 2 /\ stage >= 4 /\ stage >= 5
    BY <2>1
  <2>3. running \subseteq {"metric_gen", "user", "metrics"}
    BY DEF IInv, ControlTypes
  <2> QED BY <2>2, <2>3 DEF ShutdownOrder, IInv, ClosedMeansDone
<1> QED BY <1>1, <1>2, <1>3, InvariantHolds, PTL DEF Spec
-----------------------------------------------------------------------------
(* How sinks end.                                                          *)

\* Where a sink worker may have rows in an open batch.
BatchOpen == InQuery \cup {"loop", "add", "release", "flush", "lastflush", "wait", "lastwait"}

\* Where a sink worker has seen the end of the queue.
AtEnd == {"stopped", "lastflush", "lastwait"}

\* Where a sink worker gets only through a failure or a cancelled context.
Troubled == {"abort", "leftover", "gaveup"}

Draining == {"drain", "drained"}

\* No batch is left open behind a worker that retires, fails or stops.
BatchMatchesPc == \A w \in SinkWorkers : batch[w] # {} => pc[w] \in BatchOpen

\* A worker at its end leaves an empty closed queue; a cancelled insert worker
\* is the one exception, it returns with blocks still buffered.
QueueOver ==
    \A w \in SinkWorkers :
        pc[w] \in AtEnd /\ (Sink = "otel" \/ ~SinkCancelled) => closed /\ queue = <<>>

DrainMeansCancelled == \A w \in SinkWorkers : pc[w] \in Draining => SinkCancelled

\* Until something fails or is cancelled, rows are only stored, or discarded by
\* the probe.
Untroubled ==
    stage = 0 /\ failures = 0 =>
        /\ \A w \in SinkWorkers : pc[w] \notin Troubled
        /\ \A i \in Data : fate[i] \notin {"failed", "dropped", "abandoned"}

EndInv == ShutdownOrder /\ BatchMatchesPc /\ QueueOver /\ DrainMeansCancelled /\ Untroubled

\* Rows that nothing has happened to yet do not come to harm.
NoHarm == \A i \in Data : fate'[i] \in {"failed", "dropped", "abandoned"} => fate'[i] = fate[i]

\* A step of sink worker w to p, as far as the end of the run is concerned.
EndStep(w, p) ==
    /\ pc' = [pc EXCEPT ![w] = p]
    /\ \A v \in SinkWorkers : v # w => batch'[v] = batch[v]
    /\ p \in BatchOpen \/ batch'[w] = {} \/ (batch'[w] = batch[w] /\ pc[w] \notin BatchOpen)
    /\ queue = <<>> => queue' = <<>>
    /\ p \in AtEnd => \/ pc[w] \in AtEnd
                      \/ closed /\ queue = <<>>
                      \/ Sink = "insert" /\ SinkCancelled
                      \/ pc[w] \in Draining /\ queue = <<>>
    /\ p \in Draining => SinkCancelled \/ pc[w] \in Draining
    /\ ~SinkCancelled /\ failures' = 0 => p \notin Troubled
    /\ ~SinkCancelled /\ failures' = 0 /\ pc[w] \notin Troubled \cup Draining => NoHarm
    /\ failures' = 0 => failures = 0

LEMMA FailCounts == IInv /\ Fail => failures' # 0 /\ failures' # failures
BY DEF IInv, ControlTypes, Fail

\* What the moves do to batches and rows.
LEMMA EndMoves ==
    ASSUME IInv, NEW w \in SinkWorkers
    PROVE  /\ Keep => NoHarm /\ queue' = queue /\ batch' = batch
           /\ Dequeue(w) => NoHarm /\ queue # <<>> /\ batch' = batch
           /\ Discard => NoHarm /\ queue # <<>> /\ batch' = batch
           /\ Release(w, "stored") => NoHarm
           /\ \A f \in Endings : Release(w, f) => queue' = queue /\ batch' = batch
           /\ Encode(w) => /\ NoHarm /\ queue' = queue
                           /\ \A v \in SinkWorkers : v # w => batch'[v] = batch[v]
           /\ Settle(w, "stored") => NoHarm
           /\ \A f \in Endings : Settle(w, f) =>
                 /\ queue' = queue /\ batch'[w] = {}
                 /\ \A v \in SinkWorkers : v # w => batch'[v] = batch[v]
<1>1. batch \in [SinkWorkers -> SUBSET Data] /\ fate \in [Data -> Fates]
  BY DEF IInv, BlockInv, BlockTypes
<1>2. Keep => NoHarm /\ queue' = queue /\ batch' = batch
  BY DEF Keep, blockVars, NoHarm
<1>3. Dequeue(w) => NoHarm /\ queue # <<>> /\ batch' = batch
  BY DEF Dequeue, NoHarm
<1>4. Discard => NoHarm /\ queue # <<>> /\ batch' = batch
  BY <1>1 DEF Discard, Settled, NoHarm
<1>5. Release(w, "stored") => NoHarm
  BY <1>1 DEF Release, Settled, NoHarm
<1>6. \A f \in Endings : Release(w, f) => queue' = queue /\ batch' = batch
  BY DEF Release
<1>7. Encode(w) => /\ NoHarm /\ queue' = queue
                   /\ \A v \in SinkWorkers : v # w => batch'[v] = batch[v]
  BY <1>1 DEF Encode, NoHarm
<1>8. Settle(w, "stored") => NoHarm
  BY <1>1 DEF Settle, Settled, NoHarm
<1>9. \A f \in Endings : Settle(w, f) =>
         /\ queue' = queue /\ batch'[w] = {}
         /\ \A v \in SinkWorkers : v # w => batch'[v] = batch[v]
  BY <1>1 DEF Settle
<1> QED BY <1>2, <1>3, <1>4, <1>5, <1>6, <1>7, <1>8, <1>9

\* Every action of an insert worker is an EndStep.
LEMMA InsertEndStep ==
    ASSUME NEW w \in SinkWorkers, IInv, Sink = "insert", InsertStep(w)
    PROVE  \E p \in Pcs : EndStep(w, p)
<1>1. /\ w \in Workers /\ hand[w] \in Allowed(pc[w])
      /\ pc \in [Workers -> Pcs] /\ batch \in [SinkWorkers -> SUBSET Data]
  BY DEF IInv, HandMatchesPc, Workers, ControlTypes, BlockInv, BlockTypes
<1> USE DEF Goto, EndStep, Pcs, SinkPcs, SinkEnds, InQuery, BatchOpen, AtEnd, Troubled,
            Draining, OnlyPc, SameRest, SameMain, Endings
<1>2. CASE InsertStart(w)
  <2>1. \E p \in {"gaveup", "probe", "dial"} : EndStep(w, p)
    BY <1>1, <1>2, EndMoves DEF InsertStart
  <2> QED BY <2>1
<1>3. CASE InsertProbe(w)
  <2>1. EndStep(w, "stopped") \/ EndStep(w, "dial")
    BY <1>1, <1>3, EndMoves DEF InsertProbe
  <2> QED BY <2>1
<1>4. CASE InsertProbeDiscards(w)
  <2>1. EndStep(w, "dial")
    BY <1>1, <1>4, EndMoves DEF InsertProbeDiscards
  <2> QED BY <2>1
<1>5. CASE InsertDial(w)
  <2>1. EndStep(w, "top")
    BY <1>1, <1>5, EndMoves DEF InsertDial
  <2> QED BY <2>1
<1>6. CASE InsertDialFails(w)
  <2>1. EndStep(w, "backoff") \/ EndStep(w, "stopped")
    BY <1>1, <1>6, EndMoves, FailCounts DEF InsertDialFails
  <2> QED BY <2>1
<1>7. CASE InsertTop(w)
  <2>1. EndStep(w, "stopped") \/ EndStep(w, "recv")
    BY <1>1, <1>7, EndMoves DEF InsertTop
  <2> QED BY <2>1
<1>8. CASE InsertRecv(w)
  <2>1. EndStep(w, "query")
    BY <1>1, <1>8, EndMoves DEF InsertRecv
  <2> QED BY <2>1
<1>9. CASE InsertQueueClosed(w)
  <2>1. EndStep(w, "stopped")
    BY <1>1, <1>9, EndMoves DEF InsertQueueClosed
  <2> QED BY <2>1
<1>10. CASE InsertEncode(w)
  <2>1. EndStep(w, "input")
    BY <1>1, <1>10, EndMoves DEF InsertEncode
  <2> QED BY <2>1
<1>11. CASE InsertOnInput(w)
  <2>1. EndStep(w, "commit") \/ EndStep(w, "next")
    BY <1>1, <1>11, EndMoves DEF InsertOnInput
  <2> QED BY <2>1
<1>12. CASE InsertNext(w)
  <2>1. EndStep(w, "query")
    BY <1>1, <1>12, EndMoves DEF InsertNext
  <2> QED BY <2>1
<1>13. CASE InsertEOF(w)
  <2>1. EndStep(w, "commit")
    BY <1>1, <1>13, EndMoves DEF InsertEOF
  <2> QED BY <2>1
<1>14. CASE InsertCommit(w)
  <2>1. EndStep(w, "start") \/ EndStep(w, "top")
    BY <1>1, <1>14, EndMoves DEF InsertCommit, CountBatch
  <2> QED BY <2>1
<1>15. CASE InsertError(w)
  <2>1. EndStep(w, "abort") \/ EndStep(w, "leftover")
    BY <1>1, <1>15, EndMoves, FailCounts DEF InsertError
  <2> QED BY <2>1
<1>16. CASE InsertAbort(w)
  <2>1. EndStep(w, "backoff")
    BY <1>1, <1>16, EndMoves DEF InsertAbort
  <2> QED BY <2>1
<1>17. CASE InsertLeftover(w)
  <2>1. EndStep(w, "start") \/ EndStep(w, "top")
    BY <1>1, <1>17, EndMoves DEF InsertLeftover, CountBatch
  <2> QED BY <2>1
<1>18. CASE SinkBackoff(w)
  <2>1. EndStep(w, "start") \/ EndStep(w, "gaveup")
    BY <1>1, <1>18, EndMoves DEF SinkBackoff
  <2> QED BY <2>1
<1> QED BY <1>2, <1>3, <1>4, <1>5, <1>6, <1>7, <1>8, <1>9, <1>10, <1>11, <1>12, <1>13, <1>14, <1>15, <1>16, <1>17, <1>18 DEF InsertStep

\* Every action of an otel worker is an EndStep.
LEMMA OtelEndStep ==
    ASSUME NEW w \in SinkWorkers, IInv, Sink = "otel", OtelStep(w)
    PROVE  \E p \in Pcs : EndStep(w, p)
<1>1. /\ w \in Workers /\ hand[w] \in Allowed(pc[w])
      /\ pc \in [Workers -> Pcs] /\ batch \in [SinkWorkers -> SUBSET Data]
  BY DEF IInv, HandMatchesPc, Workers, ControlTypes, BlockInv, BlockTypes
<1> USE DEF Goto, EndStep, Pcs, SinkPcs, SinkEnds, InQuery, BatchOpen, AtEnd, Troubled,
            Draining, OnlyPc, SameRest, SameMain, Endings
<1>2. CASE OtelStart(w)
  <2>1. \E p \in {"gaveup", "loop", "backoff"} : EndStep(w, p)
    BY <1>1, <1>2, EndMoves, FailCounts DEF OtelStart
  <2> QED BY <2>1
<1>3. CASE OtelRecv(w)
  <2>1. EndStep(w, "add")
    BY <1>1, <1>3, EndMoves DEF OtelRecv
  <2> QED BY <2>1
<1>4. CASE OtelAdd(w)
  <2>1. EndStep(w, "release")
    BY <1>1, <1>4, EndMoves DEF OtelAdd
  <2> QED BY <2>1
<1>5. CASE OtelRelease(w)
  <2>1. EndStep(w, "flush") \/ EndStep(w, "loop")
    BY <1>1, <1>5, EndMoves DEF OtelRelease, StartFlush
  <2> QED BY <2>1
<1>6. CASE OtelTick(w)
  <2>1. EndStep(w, "flush")
    BY <1>1, <1>6, EndMoves DEF OtelTick, StartFlush
  <2> QED BY <2>1
<1>7. CASE OtelQueueClosed(w)
  <2>1. EndStep(w, "lastflush") \/ EndStep(w, "stopped")
    BY <1>1, <1>7, EndMoves DEF OtelQueueClosed, StartFlush
  <2> QED BY <2>1
<1>8. CASE OtelExported(w)
  <2>1. EndStep(w, "stopped") \/ EndStep(w, "loop")
    BY <1>1, <1>8, EndMoves DEF OtelExported, AfterFlush
  <2> QED BY <2>1
<1>9. CASE OtelExportFails(w)
  <2>1. \E p \in {"stopped", "loop", "wait", "lastwait"} : EndStep(w, p)
    BY <1>1, <1>9, EndMoves, FailCounts DEF OtelExportFails, AfterFlush
  <2> QED BY <2>1
<1>10. CASE OtelRetry(w)
  <2>1. EndStep(w, "flush") \/ EndStep(w, "lastflush")
    BY <1>1, <1>10, EndMoves DEF OtelRetry
  <2> QED BY <2>1
<1>11. CASE OtelDropOnShutdown(w)
  <2>1. EndStep(w, "stopped") \/ EndStep(w, "loop")
    BY <1>1, <1>11, EndMoves DEF OtelDropOnShutdown, AfterFlush
  <2> QED BY <2>1
<1>12. CASE OtelCancelled(w)
  <2>1. EndStep(w, "drain")
    BY <1>1, <1>12, EndMoves DEF OtelCancelled
  <2> QED BY <2>1
<1>13. CASE OtelDrain(w)
  <2>1. \E p \in {"drained", "drain", "stopped"} : EndStep(w, p)
    BY <1>1, <1>13, EndMoves DEF OtelDrain
  <2> QED BY <2>1
<1>14. CASE SinkBackoff(w)
  <2>1. EndStep(w, "start") \/ EndStep(w, "gaveup")
    BY <1>1, <1>14, EndMoves DEF SinkBackoff
  <2> QED BY <2>1
<1> QED BY <1>2, <1>3, <1>4, <1>5, <1>6, <1>7, <1>8, <1>9, <1>10, <1>11, <1>12, <1>13, <1>14 DEF OtelStep

\* A source adds nothing to a closed queue and touches no batch.
LEMMA SourceEndStep ==
    ASSUME NEW w \in SourceWorkers, IInv, SourceStep(w)
    PROVE  /\ \E p \in Pcs : pc' = [pc EXCEPT ![w] = p]
           /\ ~closed /\ batch' = batch
           /\ stage = 0 => NoHarm
           /\ failures' = 0 => failures = 0
<1>1. w \in Workers /\ hand[w] \in Allowed(pc[w]) /\ failures \in Nat
  BY DEF IInv, HandMatchesPc, Workers, ControlTypes
<1>2. ~closed /\ \E p \in Pcs : pc' = [pc EXCEPT ![w] = p]
  BY <1>1, StepOfWorker DEF IInv, ClosedMeansDone, SourceDone, WorkerStep
<1>3. fate \in [Data -> Fates] /\ produced \in 0..MaxBlocks
  BY DEF IInv, BlockInv, BlockTypes
<1>4. Keep \/ Acquire(w) \/ Enqueue(w) => NoHarm
  BY DEF Keep, blockVars, Acquire, Enqueue, NoHarm
<1>5. Fill(w) => NoHarm
  BY <1>3 DEF Fill, NoHarm
<1>6. Release(w, "dropped") /\ hand[w] = Blank => NoHarm
  BY <1>3, Constants DEF Release, Settled, NoHarm
<1>7. /\ batch' = batch
      /\ stage = 0 => NoHarm
      /\ failures' = 0 => failures = 0
  <2> USE DEF Goto, OnlyPc, SameRest, SameMain, SourceCancelled
  <2>1. batch' = batch
    <3> USE DEF Keep, blockVars, Acquire, Fill, Release, Enqueue, Abandon
    <3>1. CASE DiskStep(w)
      BY <3>1 DEF DiskStep, DiskStop, DiskOpen, DiskRead, DiskAcquire, DiskFileEnds,
           DiskDecode, DiskShift, DiskSend, DiskAbandon
    <3>2. CASE GenStep(w)
      BY <3>2 DEF GenStep, GenStop, GenWait, GenAcquire, GenPartialFill, GenFill, GenSend, GenDrop
    <3> QED BY <3>1, <3>2 DEF SourceStep
  <2>2. ASSUME stage = 0 PROVE NoHarm
    <3>1. CASE DiskStep(w)
      <4>1. DiskFileEnds(w) => NoHarm
        BY <1>1, <1>6 DEF DiskFileEnds, Allowed
      <4> QED BY <1>4, <1>5, <2>2, <3>1, <4>1 DEF DiskStep, DiskStop, DiskOpen, DiskRead,
             DiskAcquire, DiskDecode, DiskShift, DiskSend, DiskAbandon
    <3>2. CASE GenStep(w)
      BY <1>4, <1>5, <2>2, <3>2 DEF GenStep, GenStop, GenWait, GenAcquire, GenPartialFill,
           GenFill, GenSend, GenDrop
    <3> QED BY <3>1, <3>2 DEF SourceStep
  <2>3. ASSUME failures' = 0 PROVE failures = 0
    <3>1. CASE DiskStep(w)
      BY <1>1, <2>3, <3>1 DEF DiskStep, DiskStop, DiskOpen, DiskRead, DiskAcquire,
           DiskFileEnds, DiskDecode, DiskShift, DiskSend, DiskAbandon
    <3>2. CASE GenStep(w)
      BY <2>3, <3>2 DEF GenStep, GenStop, GenWait, GenAcquire, GenPartialFill, GenFill,
           GenSend, GenDrop
    <3> QED BY <3>1, <3>2 DEF SourceStep
  <2> QED BY <2>1, <2>2, <2>3
<1> QED BY <1>2, <1>7

\* Steps of sources.
LEMMA SourceKeepsEnds ==
    ASSUME IInv, EndInv, NEW w \in SourceWorkers, SourceStep(w)
    PROVE  EndInv'
<1>1. w \in Workers /\ w \notin SinkWorkers
  BY DEF Workers
<1>2. /\ stage' = stage /\ running' = running
      /\ ~closed /\ ~closed' /\ batch' = batch
      /\ stage = 0 => NoHarm
      /\ failures' = 0 => failures = 0
  BY <1>1, SourceEndStep, StepOfWorker, WorkersLeaveMain
<1>3. \A v \in SinkWorkers : pc'[v] = pc[v]
  <2>1. PICK p \in Pcs : pc' = [pc EXCEPT ![w] = p]
    BY SourceEndStep
  <2> QED BY <1>1, <2>1 DEF IInv, ControlTypes, Workers
<1>4. ShutdownOrder'
  BY <1>1, <1>2, WorkerKeepsOrder DEF EndInv
<1>5. BatchMatchesPc' /\ DrainMeansCancelled'
  BY <1>2, <1>3 DEF EndInv, BatchMatchesPc, DrainMeansCancelled, SinkCancelled
<1>6. QueueOver'
  BY <1>2, <1>3 DEF EndInv, QueueOver, SinkCancelled
<1>7. Untroubled'
  BY <1>2, <1>3 DEF EndInv, Untroubled, NoHarm
<1> QED BY <1>4, <1>5, <1>6, <1>7 DEF EndInv

\* Steps of sinks.
LEMMA SinkKeepsEnds ==
    ASSUME IInv, EndInv, NEW w \in SinkWorkers, SinkStep(w)
    PROVE  EndInv'
<1>1. w \in Workers /\ pc \in [Workers -> Pcs] /\ SinkWorkers \subseteq Workers
  BY DEF Workers, IInv, ControlTypes
<1>2. stage' = stage /\ running' = running /\ closed' = closed
  BY <1>1, StepOfWorker, WorkersLeaveMain
<1>3. PICK p \in Pcs : EndStep(w, p)
  BY InsertEndStep, OtelEndStep DEF SinkStep
<1>4. /\ pc'[w] = p
      /\ \A v \in SinkWorkers : v # w => pc'[v] = pc[v] /\ batch'[v] = batch[v]
      /\ queue = <<>> => queue' = <<>>
  BY <1>1, <1>3 DEF EndStep
<1>5. ShutdownOrder'
  BY <1>1, <1>2, WorkerKeepsOrder DEF EndInv
<1>6. BatchMatchesPc'
  <2>1. batch'[w] # {} => p \in BatchOpen
    BY <1>3 DEF EndStep, EndInv, BatchMatchesPc
  <2> QED BY <1>4, <2>1 DEF EndInv, BatchMatchesPc
<1>7. DrainMeansCancelled'
  <2>1. p \in Draining => SinkCancelled
    BY <1>3 DEF EndStep, EndInv, DrainMeansCancelled
  <2> QED BY <1>2, <1>4, <2>1 DEF EndInv, DrainMeansCancelled, SinkCancelled
<1>8. QueueOver'
  <2>1. ASSUME p \in AtEnd, Sink = "otel" \/ ~SinkCancelled
        PROVE  closed /\ queue = <<>>
    <3>1. CASE pc[w] \in AtEnd
      BY <2>1, <3>1 DEF EndInv, QueueOver
    <3>2. CASE pc[w] \in Draining /\ queue = <<>>
      <4>1. Sink = "otel" /\ SinkCancelled
        BY <2>1, <3>2 DEF EndInv, DrainMeansCancelled
      <4>2. stage >= 3 /\ stage \in 0..7
        BY <4>1 DEF SinkCancelled, IInv, ControlTypes, Stages
      <4>3. stage >= 2
        BY <4>2
      <4> QED BY <3>2, <4>3 DEF EndInv, ShutdownOrder
    <3> QED BY <1>3, <2>1, <3>1, <3>2 DEF EndStep
  <2> QED BY <1>2, <1>4, <2>1 DEF EndInv, QueueOver, SinkCancelled
<1>9. Untroubled'
  <2> SUFFICES ASSUME stage' = 0, failures' = 0
               PROVE  /\ \A v \in SinkWorkers : pc'[v] \notin Troubled
                      /\ \A i \in Data : fate'[i] \notin {"failed", "dropped", "abandoned"}
    BY DEF Untroubled
  <2>1. stage = 0 /\ ~SinkCancelled /\ failures = 0
    BY <1>2, <1>3 DEF SinkCancelled, EndStep
  <2>2. pc[w] \notin Troubled \cup Draining
    BY <2>1 DEF EndInv, Untroubled, DrainMeansCancelled
  <2>3. p \notin Troubled /\ NoHarm
    BY <1>3, <2>1, <2>2 DEF EndStep
  <2> QED BY <1>4, <2>1, <2>3 DEF EndInv, Untroubled, NoHarm
<1> QED BY <1>5, <1>6, <1>7, <1>8, <1>9 DEF EndInv

\* Steps of main and of the modes.
LEMMA MainKeepsEnds ==
    ASSUME IInv, EndInv,
           CloseQueue \/ Signal \/ MainStep \/ Exited \/ Hung \/ \E m \in Modes : ModeStops(m)
    PROVE  EndInv'
<1>1. /\ pc' = pc /\ batch' = batch /\ queue' = queue /\ fate' = fate /\ failures' = failures
      /\ closed => closed'
  BY DEF CloseQueue, Signal, MainStep, Exited, Hung, ModeStops, vars, Keep, blockVars
<1>2. stage \in 0..7 /\ (stage' = stage \/ stage' = stage + 1)
  BY DEF IInv, ControlTypes, Stages, CloseQueue, Signal, MainStep, Exited, Hung, ModeStops, vars
<1>3. (SinkCancelled => SinkCancelled') /\ (stage' = 0 => stage = 0)
  BY <1>2 DEF SinkCancelled
<1>4. ShutdownOrder'
  BY MainKeepsOrder DEF EndInv
<1>5. BatchMatchesPc' /\ DrainMeansCancelled' /\ QueueOver'
  BY <1>1, <1>3 DEF EndInv, BatchMatchesPc, DrainMeansCancelled, QueueOver
<1>6. Untroubled'
  BY <1>1, <1>3 DEF EndInv, Untroubled
<1> QED BY <1>4, <1>5, <1>6 DEF EndInv

LEMMA EndInvHolds == Spec => [](IInv /\ EndInv)
<1>1. Init => EndInv
  <2> SUFFICES ASSUME Init PROVE EndInv
    OBVIOUS
  <2>1. \A w \in SinkWorkers : pc[w] = "start" /\ batch[w] = {}
    BY DEF Init, Workers
  <2>2. ShutdownOrder
    BY DEF Init, ShutdownOrder
  <2>3. \A i \in Data : fate[i] = "unborn"
    BY DEF Init
  <2> QED BY <2>1, <2>2, <2>3 DEF EndInv, BatchMatchesPc, QueueOver, DrainMeansCancelled,
          Untroubled, AtEnd, Draining, Troubled
<1>2. IInv /\ EndInv /\ [Next]_vars => EndInv'
  <2> SUFFICES ASSUME IInv, EndInv, [Next]_vars PROVE EndInv'
    OBVIOUS
  <2>1. CASE UNCHANGED vars
    BY <2>1 DEF vars, EndInv, ShutdownOrder, SinkDone, BatchMatchesPc, QueueOver,
         DrainMeansCancelled, Untroubled, SinkCancelled
  <2> QED BY <2>1, SourceKeepsEnds, SinkKeepsEnds, MainKeepsEnds DEF Next
<1> QED BY <1>1, <1>2, InvariantHolds, PTL DEF Spec

\* Once the queue is closed and the sinks are done nobody holds a block.
LEMMA HandsEmpty ==
    ASSUME IInv, closed, SinkDone
    PROVE  \A w \in Workers : hand[w] = NoBlock
BY DEF IInv, HandMatchesPc, Allowed, ClosedMeansDone, SourceDone, SinkDone, SinkEnds, Workers

(***************************************************************************)
(* drainRelease strands nothing (otel/worker.go): with any number of       *)
(* workers, once main is past the otel stage the queue and all hands are   *)
(* empty, if one worker at least got as far as its loop.                   *)
(***************************************************************************)
THEOREM OtelReturnsBlocks == Spec => []OtelStrandsNothing
<1>1. IInv /\ EndInv => OtelStrandsNothing
  <2> SUFFICES ASSUME IInv, EndInv, Sink = "otel", stage > 3,
                      NEW w \in SinkWorkers, pc[w] = "stopped"
               PROVE  queue = <<>> /\ Holders = {}
    BY DEF OtelStrandsNothing
  <2>1. closed /\ queue = <<>>
    BY DEF EndInv, QueueOver, AtEnd
  <2>2. stage \in 0..7
    BY DEF IInv, ControlTypes, Stages
  <2>3. stage >= 4
    BY <2>2
  <2>4. SinkDone
    BY <2>3 DEF EndInv, ShutdownOrder
  <2> QED BY <2>1, <2>4, HandsEmpty DEF Holders
<1> QED BY <1>1, EndInvHolds, PTL

(***************************************************************************)
(* A run that ends by itself without a failure has stored all rows but the *)
(* ones the probe of insert/scheduler.go threw away: retirement, batch     *)
(* boundaries, ticks and the close of the queue lose nothing (Run of       *)
(* insert/worker.go and otel/worker.go).                                   *)
(***************************************************************************)
THEOREM NaturalEndStoresAll == Spec => []NaturalEndDelivers
<1>1. IInv /\ EndInv => NaturalEndDelivers
  <2> SUFFICES ASSUME IInv, EndInv, stage = 0, Waited(0), failures = 0,
                      NEW i \in 1..produced
               PROVE  fate[i] \in {"stored", "discarded"}
    BY DEF NaturalEndDelivers
  <2>1. closed /\ SinkDone
    BY DEF Waited
  <2>2. produced \in 0..MaxBlocks /\ fate \in [Data -> Fates] /\ MaxBlocks \in Nat
    BY DEF IInv, BlockInv, BlockTypes
  <2>3. i \in Data /\ ~(i > produced)
    BY <2>2 DEF Data
  <2>4. fate[i] # "unborn"
    BY <2>3 DEF IInv, BlockInv, Numbering
  <2>5. fate[i] \notin {"failed", "dropped", "abandoned"}
    BY <2>3 DEF EndInv, Untroubled
  <2>6. \A w \in SinkWorkers : pc[w] = "stopped" /\ batch[w] = {}
    BY <2>1 DEF SinkDone, SinkEnds, EndInv, Untroubled, Troubled, BatchMatchesPc, BatchOpen, InQuery
  <2>7. queue = <<>>
    <3>1. PICK w \in SinkWorkers : TRUE
      OBVIOUS
    <3> QED BY <2>6, <3>1 DEF EndInv, QueueOver, AtEnd, SinkCancelled
  <2>8. fate[i] # "moving"
    <3>1. QueueSet = {}
      BY <2>7 DEF QueueSet
    <3>2. \A w \in Workers : hand[w] # i
      BY <2>1, <2>3, HandsEmpty, Constants
    <3> QED BY <2>3, <2>6, <3>1, <3>2 DEF IInv, BlockInv, OnePlace
  <2> QED BY <2>2, <2>3, <2>4, <2>5, <2>8 DEF Fates
<1> QED BY <1>1, EndInvHolds, PTL
=============================================================================
