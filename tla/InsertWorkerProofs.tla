-------------------------- MODULE InsertWorkerProofs --------------------------
(***************************************************************************)
(* Proofs about InsertWorker for any set of blocks, any batch size, any    *)
(* retirement period, any length of the node list and any number of        *)
(* failures.                                                               *)
(*                                                                         *)
(* OwnColumns is not inductive: what swapInput restores depends on which   *)
(* block's columns are swapped in (Exchange), on that block being in no    *)
(* other place (OneHolder), and on where in Run and OnInput a block can be *)
(* in hand at all (HandMatchesPc).  EncodedOnce needs to know besides that *)
(* the blocks that wait hold different data, none of it encoded yet        *)
(* (Waiting), and that the placeholder's own columns never hold rows.      *)
(***************************************************************************)
EXTENDS InsertWorker, SequenceTheorems, TLAPS

\* A block is in one place: no block twice in the queue, none of the queue in
\* the pool, and the one in hand in neither.
OneHolder ==
    /\ \A i, j \in 1..Len(queue) : queue[i] = queue[j] => i = j
    /\ QueueSet \cap free = {}
    /\ current \notin free \cup QueueSet

\* The cached inputs: all their own, or those of the placeholder and of the
\* block in hand exchanged.
Exchange ==
    /\ swapped => current # None
    /\ \A c \in Columns :
          input[c] = IF swapped /\ c = current THEN Placeholder
                     ELSE IF swapped /\ c = Placeholder THEN current
                     ELSE c

\* Blocks that hold rows still to be dealt with.
Full == QueueSet \cup ({current} \ {None})

\* The data in them are different ones, that have been produced; those in the
\* queue have not been encoded, and no datum twice.
Waiting ==
    /\ content[Placeholder] = 0
    /\ \A b \in Full : content[b] \in 1..produced
    /\ \A b, c \in Full : content[b] = content[c] => b = c
    /\ \A b \in QueueSet : sent[content[b]] = 0
    /\ \A d \in Data : sent[d] <= 1 /\ (d > produced => sent[d] = 0)

\* Where Run and ch-go are, and what is in hand there.
HandMatchesPc ==
    /\ pc \in {"start", "probe", "dial", "top", "receive", "eof", "done", "stopped"} => current = None
    /\ pc \in {"oninput", "encode"} => current # None
    /\ pc \in {"next"} => ~swapped /\ rowCount <= BatchSize
    /\ pc = "encode" => swapped
    /\ pc = "oninput" /\ ~swapped => rowCount = 0
    /\ current # None =>
          IF pc = "oninput" /\ swapped THEN sent[content[current]] = 1
          ELSE pc \in {"oninput", "next", "encode"} => sent[content[current]] = 0

\* A search that goes on has dials left.
DialsLeft == pc \in {"start", "probe", "dial"} => dials < MaxDials

IInv ==
    /\ TypeOK /\ OneHolder /\ Exchange /\ Waiting /\ HandMatchesPc /\ DialsLeft
    /\ EncodedOnce /\ BatchBound /\ OneConnection

BlockInv == OneHolder /\ Exchange /\ Waiting /\ EncodedOnce

\* The steps that leave blocks, columns and data alone.
dataVars == <<free, queue, content, input, size, produced, current, swapped, sent, lost, discarded>>

USE InsertWorkerAssumption
-----------------------------------------------------------------------------
LEMMA Constants ==
    /\ BatchSize \in Nat /\ RetireBatches \in Nat /\ MaxData \in Nat /\ MaxErrors \in Nat
    /\ MaxDials \in Nat \ {0} /\ Nodes \in Nat \ {0}
    /\ Data \subseteq Nat \ {0} /\ Sizes \subseteq Nat \ {0}
BY DEF Data

\* The queue's buffer as a set, after a send and after a receive.
LEMMA QueueSetChanges ==
    ASSUME queue \in Seq(Blocks)
    PROVE  /\ Len(queue) \in Nat /\ QueueSet \subseteq Blocks
           /\ \A b \in Blocks : queue' = Append(queue, b)
                 => queue' \in Seq(Blocks) /\ QueueSet' = QueueSet \cup {b}
           /\ queue # <<>> /\ queue' = Tail(queue)
                 => /\ queue' \in Seq(Blocks) /\ Head(queue) \in Blocks
                    /\ QueueSet = QueueSet' \cup {Head(queue)}
<1>1. Len(queue) \in Nat /\ QueueSet \subseteq Blocks
  BY DEF QueueSet
<1>2. ASSUME NEW b \in Blocks, queue' = Append(queue, b)
      PROVE  queue' \in Seq(Blocks) /\ QueueSet' = QueueSet \cup {b}
  <2>1. queue' \in Seq(Blocks) /\ Len(queue') = Len(queue) + 1
    BY <1>2
  <2>2. \A i \in 1..Len(queue) : queue'[i] = queue[i]
    BY <1>2
  <2>3. queue'[Len(queue) + 1] = b
    BY <1>2
  <2>4. QueueSet' \subseteq QueueSet \cup {b}
    BY <2>1, <2>2, <2>3, <1>1 DEF QueueSet
  <2>5. QueueSet \cup {b} \subseteq QueueSet'
    BY <2>1, <2>2, <2>3, <1>1 DEF QueueSet
  <2> QED BY <2>1, <2>4, <2>5
<1>3. ASSUME queue # <<>>, queue' = Tail(queue)
      PROVE  /\ queue' \in Seq(Blocks) /\ Head(queue) \in Blocks
             /\ QueueSet = QueueSet' \cup {Head(queue)}
  <2>1. /\ queue' \in Seq(Blocks) /\ Len(queue') = Len(queue) - 1 /\ Len(queue) > 0
        /\ Head(queue) = queue[1] /\ Head(queue) \in Blocks
    BY <1>3
  <2>2. \A i \in 1..Len(queue') : queue'[i] = queue[i + 1]
    BY <1>3
  <2>3. ASSUME NEW b \in QueueSet PROVE b \in QueueSet' \cup {Head(queue)}
    <3>1. PICK i \in 1..Len(queue) : b = queue[i]
      BY <2>3 DEF QueueSet
    <3>2. CASE i = 1
      BY <3>1, <3>2, <2>1
    <3>3. CASE i # 1
      <4>1. i - 1 \in 1..Len(queue') /\ queue'[i - 1] = b
        BY <3>1, <3>3, <2>1, <2>2, <1>1
      <4> QED BY <4>1 DEF QueueSet
    <3> QED BY <3>2, <3>3
  <2>4. QueueSet' \cup {Head(queue)} \subseteq QueueSet
    <3>1. QueueSet' \subseteq QueueSet
      BY <2>1, <2>2, <1>1 DEF QueueSet
    <3>2. Head(queue) \in QueueSet
      BY <2>1, <1>1 DEF QueueSet
    <3> QED BY <3>1, <3>2
  <2> QED BY <2>1, <2>3, <2>4
<1> QED BY <1>1, <1>2, <1>3

\* Nothing is queued, swapped or produced at first.
LEMMA InitIInv == Init => IInv
<1> SUFFICES ASSUME Init PROVE IInv
  OBVIOUS
<1>1. QueueSet = {} /\ Len(queue) = 0 /\ Full = {}
  BY DEF Init, QueueSet, Full
<1>2. TypeOK
  <2>1. queue \in Seq(Blocks)
    BY EmptySeq DEF Init
  <2>2. content \in [Columns -> 0..MaxData] /\ input \in [Columns -> Columns]
    BY Constants DEF Init
  <2>3. size \in [Data -> Nat] /\ sent \in [Data -> Nat]
    BY DEF Init
  <2>4. closed \in BOOLEAN /\ cancelled \in BOOLEAN /\ swapped \in BOOLEAN
    BY DEF Init
  <2>5. produced \in 0..MaxData /\ next \in 0..Nodes /\ dials \in 0..MaxDials
    BY Constants DEF Init
  <2> QED BY <2>1, <2>2, <2>3, <2>4, <2>5 DEF Init, TypeOK
<1>3. OneHolder /\ Exchange /\ Waiting
  BY <1>1, Constants DEF Init, OneHolder, Exchange, Waiting, Columns, Data
<1>4. HandMatchesPc /\ DialsLeft /\ EncodedOnce /\ BatchBound /\ OneConnection
  BY <1>1, Constants DEF Init, HandMatchesPc, DialsLeft, EncodedOnce, BatchBound, OneConnection
<1> QED BY <1>2, <1>3, <1>4 DEF IInv
-----------------------------------------------------------------------------
(* What the steps do to blocks and columns.                                *)

LEMMA KeepMove ==
    IInv /\ UNCHANGED dataVars => /\ BlockInv'
                                  /\ UNCHANGED <<QueueSet, Full, InputRows>>
BY DEF IInv, BlockInv, dataVars, OneHolder, Exchange, Waiting, EncodedOnce, QueueSet, Full, InputRows

\* A source worker fills a free block, whose columns are its own.
LEMMA ProduceMove ==
    ASSUME IInv, NEW b \in Blocks, Produce(b)
    PROVE  BlockInv' /\ InputRows' = InputRows /\ content'[current] = content[current]
<1> USE DEF Produce
<1>1. b \in free /\ b \notin QueueSet /\ b # current
  BY DEF IInv, OneHolder
<1>2. QueueSet' = QueueSet \cup {b} /\ Full' = Full \cup {b} /\ QueueSet \subseteq Blocks
  BY QueueSetChanges DEF IInv, TypeOK, Full
<1>3. OneHolder'
  <2>1. Len(queue') = Len(queue) + 1 /\ \A i \in 1..Len(queue) : queue'[i] = queue[i]
    BY DEF IInv, TypeOK
  <2>2. queue'[Len(queue) + 1] = b
    BY DEF IInv, TypeOK
  <2>3. \A i, j \in 1..Len(queue') : queue'[i] = queue'[j] => i = j
    BY <2>1, <2>2, <1>1 DEF IInv, TypeOK, OneHolder, QueueSet
  <2> QED BY <2>3, <1>1, <1>2 DEF IInv, OneHolder
<1>4. Exchange'
  BY DEF IInv, Exchange
<1>5. /\ content'[b] = produced + 1 /\ produced' = produced + 1
      /\ produced \in Nat /\ produced + 1 \in Data
      /\ \A c \in Columns : c # b => content'[c] = content[c]
  BY Constants DEF IInv, TypeOK, Columns, Data
<1>6. Full \subseteq Columns /\ Placeholder # b /\ b \notin Full
  BY <1>1, <1>2 DEF IInv, TypeOK, Full, Columns
<1>7. \A c \in Full : content'[c] = content[c] /\ content'[c] \in 1..produced
  BY <1>5, <1>6 DEF IInv, Waiting
<1>8. Waiting'
  <2>1. content'[Placeholder] = 0
    BY <1>5, <1>6 DEF IInv, Waiting, Columns
  <2>2. \A c \in Full' : content'[c] \in 1..produced'
    BY <1>2, <1>5, <1>7
  <2>3. \A c, e \in Full' : content'[c] = content'[e] => c = e
    BY <1>2, <1>5, <1>6, <1>7 DEF IInv, Waiting
  <2>4. \A c \in QueueSet' : sent'[content'[c]] = 0
    BY <1>2, <1>5, <1>7 DEF IInv, Waiting, Full
  <2>5. \A d \in Data : sent'[d] <= 1 /\ (d > produced' => sent'[d] = 0)
    BY <1>5, Constants DEF IInv, Waiting
  <2> QED BY <2>1, <2>2, <2>3, <2>4, <2>5 DEF Waiting
<1>9. EncodedOnce'
  <2> SUFFICES ASSUME NEW d \in 1..produced'
               PROVE  /\ sent'[d] <= 1
                      /\ \/ sent'[d] = 1 \/ d \in lost' \cup discarded'
                         \/ \E c \in QueueSet' \cup {current'} : c # None /\ content'[c] = d
    BY DEF EncodedOnce
  <2>1. CASE d = produced + 1
    BY <2>1, <1>2, <1>5 DEF IInv, Waiting
  <2>2. CASE d # produced + 1
    <3>1. d \in 1..produced
      BY <2>2, <1>5
    <3>2. CASE \E c \in QueueSet \cup {current} : c # None /\ content[c] = d
      BY <3>1, <3>2, <1>2, <1>7 DEF Full, IInv, EncodedOnce
    <3> QED BY <3>1, <3>2 DEF IInv, EncodedOnce
  <2> QED BY <2>1, <2>2
<1>10. InputRows' = InputRows /\ content'[current] = content[current]
  <2>1. input' = input /\ input[Placeholder] \in Columns /\ input[Placeholder] # b
    BY <1>1, <1>6 DEF IInv, TypeOK, Exchange, Columns
  <2>2. content'[input[Placeholder]] = content[input[Placeholder]]
    BY <2>1, <1>5
  <2>3. content[input[Placeholder]] \in 0..produced
    BY <1>5, <1>6 DEF IInv, Exchange, Waiting, Full, Columns
  <2>4. ASSUME NEW d \in 1..produced PROVE size'[d] = size[d]
    BY <1>5 DEF IInv, TypeOK, Data
  <2>5. InputRows' = InputRows
    BY <2>1, <2>2, <2>3, <2>4, <1>5 DEF InputRows
  <2>6. content'[current] = content[current]
    BY <1>1 DEF IInv, TypeOK
  <2> QED BY <2>5, <2>6
<1> QED BY <1>3, <1>4, <1>8, <1>9, <1>10 DEF BlockInv

\* The first block of the queue comes into the worker's hands.
LEMMA TakeMove ==
    ASSUME IInv, current = None, queue # <<>>, current' = Head(queue), queue' = Tail(queue),
           UNCHANGED <<free, content, produced, sent, lost, discarded>>
    PROVE  /\ OneHolder' /\ Waiting' /\ EncodedOnce'
           /\ current' \in Blocks /\ queue' \in Seq(Blocks) /\ sent[content[current']] = 0
<1> DEFINE h == Head(queue)
<1>1. /\ queue' \in Seq(Blocks) /\ h \in Blocks /\ h # None
      /\ QueueSet = QueueSet' \cup {h} /\ QueueSet \subseteq Blocks
  BY QueueSetChanges DEF IInv, TypeOK
<1>2. Len(queue') = Len(queue) - 1 /\ Len(queue) \in Nat \ {0} /\ queue[1] = h
  BY DEF IInv, TypeOK
<1>3. \A i \in 1..Len(queue') : queue'[i] = queue[i + 1] /\ i + 1 \in 1..Len(queue) /\ i + 1 # 1
  BY <1>2 DEF IInv, TypeOK
<1>4. h \notin QueueSet'
  BY <1>2, <1>3 DEF IInv, OneHolder, QueueSet
<1>5. Full' = Full /\ h \in Full
  BY <1>1 DEF Full
<1>6. OneHolder'
  <2>1. \A i, j \in 1..Len(queue') : queue'[i] = queue'[j] => i = j
    BY <1>2, <1>3 DEF IInv, OneHolder
  <2> QED BY <2>1, <1>1, <1>4 DEF IInv, OneHolder
<1>7. Waiting'
  BY <1>1, <1>5 DEF IInv, Waiting
<1>8. EncodedOnce'
  BY <1>1 DEF IInv, EncodedOnce
<1>9. sent[content[h]] = 0
  BY <1>1 DEF IInv, Waiting
<1> QED BY <1>1, <1>6, <1>7, <1>8, <1>9

\* The columns of the block in hand are exchanged with the placeholder's.
LEMMA LoadMove ==
    ASSUME IInv, ~swapped, NEW b \in Blocks, Load(b), content' = content, size' = size
    PROVE  /\ Exchange' /\ input' \in [Columns -> Columns]
           /\ content[input[b]] = content[b] /\ input'[Placeholder] = b
<1>1. \A c \in Columns : input[c] = c
  BY DEF IInv, Exchange
<1>2. b # None /\ b # Placeholder /\ b \in Columns /\ Placeholder \in Columns
  BY DEF Columns
<1>3. input' = [input EXCEPT ![b] = Placeholder, ![Placeholder] = b]
  BY <1>1, <1>2 DEF Load, SwapInput
<1>4. input' \in [Columns -> Columns]
  BY <1>2, <1>3 DEF IInv, TypeOK
<1>5. \A c \in Columns : input'[c] = IF c = b THEN Placeholder ELSE IF c = Placeholder THEN b ELSE c
  BY <1>1, <1>2, <1>3 DEF IInv, TypeOK
<1>6. Exchange'
  BY <1>2, <1>5 DEF Load, Exchange
<1> QED BY <1>1, <1>2, <1>4, <1>5, <1>6

\* A block goes back to the pool with its own columns, once its rows are sent or
\* given up.
LEMMA ReturnMove ==
    ASSUME IInv, current # None, ReturnBlock, UNCHANGED <<queue, sent, produced>>,
           lost \subseteq lost', discarded' = discarded, sent[content[current]] = 1 \/ content[current] \in lost'
    PROVE  /\ BlockInv' /\ free' \in SUBSET Blocks /\ content' \in [Columns -> 0..MaxData]
           /\ input' \in [Columns -> Columns]
<1> USE DEF ReturnBlock
<1>1. current \in Blocks /\ current \in Columns /\ Placeholder \in Columns /\ current # Placeholder
  BY DEF IInv, TypeOK, Columns
<1>2. QueueSet' = QueueSet /\ QueueSet \subseteq Blocks /\ Full' = QueueSet /\ Full = QueueSet \cup {current}
  <2>1. QueueSet' = QueueSet
    BY DEF QueueSet
  <2>2. QueueSet \subseteq Blocks
    BY QueueSetChanges DEF IInv, TypeOK
  <2>3. current' = None
    OBVIOUS
  <2> QED BY <2>1, <2>2, <2>3 DEF Full
<1>3. /\ content' \in [Columns -> 0..MaxData] /\ free' \in SUBSET Blocks
      /\ content'[Placeholder] = 0
      /\ \A b \in Blocks : content'[b] = content[b]
  BY <1>1, Constants DEF IInv, TypeOK, Columns
<1>4. input' \in [Columns -> Columns] /\ \A c \in Columns : input'[c] = c
  <2>1. CASE swapped
    <3>1. input[Placeholder] = current /\ input[current] = Placeholder
      BY <2>1, <1>1 DEF IInv, Exchange
    <3>2. input' = [input EXCEPT ![current] = current, ![Placeholder] = Placeholder]
      BY <2>1, <3>1 DEF SwapInput
    <3>3. \A c \in Columns : c # current /\ c # Placeholder => input[c] = c
      BY DEF IInv, Exchange
    <3>4. input \in [Columns -> Columns]
      BY DEF IInv, TypeOK
    <3>5. input' \in [Columns -> Columns]
      BY <1>1, <3>2, <3>4
    <3> QED BY <1>1, <3>2, <3>3, <3>4, <3>5
  <2>2. CASE ~swapped
    BY <2>2 DEF IInv, TypeOK, Exchange
  <2> QED BY <2>1, <2>2
<1>5. OneHolder'
  BY <1>1, <1>2 DEF IInv, OneHolder, TypeOK
<1>6. Exchange'
  BY <1>4 DEF Exchange
<1>7. Waiting'
  BY <1>2, <1>3 DEF IInv, Waiting
<1>8. EncodedOnce'
  <2> SUFFICES ASSUME NEW d \in 1..produced
               PROVE  /\ sent[d] <= 1
                      /\ \/ sent[d] = 1 \/ d \in lost' \cup discarded
                         \/ \E b \in QueueSet : b # None /\ content'[b] = d
    BY <1>2 DEF EncodedOnce
  <2>1. CASE d = content[current]
    BY <2>1 DEF IInv, EncodedOnce
  <2>2. CASE \E b \in QueueSet : b # None /\ content[b] = d
    BY <2>2, <1>2, <1>3 DEF IInv, EncodedOnce
  <2> QED BY <2>1, <2>2 DEF IInv, EncodedOnce
<1> QED BY <1>3, <1>4, <1>5, <1>6, <1>7, <1>8 DEF BlockInv

\* The rows of the block in hand are written; the input of no block is not.
LEMMA EncodeMove ==
    ASSUME IInv, pc \in {"encode", "eof"}, NEW after, EncodeThen(after)
    PROVE  /\ BlockInv' /\ sent' \in [Data -> Nat]
           /\ pc = "encode" => sent'[content[current]] = 1
<1>0. UNCHANGED <<free, queue, content, input, produced, current, swapped, lost, discarded, QueueSet, Full>>
  BY DEF EncodeThen, blockVars, Env, QueueSet, Full
<1>00. sent' = IF content[input[Placeholder]] = 0 THEN sent
               ELSE [sent EXCEPT ![content[input[Placeholder]]] = sent[content[input[Placeholder]]] + 1]
  BY DEF EncodeThen
<1>1. CASE pc = "eof"
  <2>1. content[input[Placeholder]] = 0
    BY <1>1 DEF IInv, HandMatchesPc, Exchange, Waiting, Columns
  <2>2. sent' = sent
    BY <2>1, <1>00
  <2> QED BY <1>0, <1>1, <2>2 DEF IInv, TypeOK, BlockInv, OneHolder, Exchange, Waiting, EncodedOnce
<1>2. CASE pc = "encode"
  <2> DEFINE d == content[current]
  <2>1. swapped /\ current # None /\ current \in Blocks /\ current \in Full /\ sent[d] = 0
    BY <1>2 DEF IInv, HandMatchesPc, TypeOK, Full
  <2>2. content[input[Placeholder]] = d
    BY <2>1 DEF IInv, Exchange, Columns
  <2>3. d \in 1..produced /\ d \in Data /\ d # 0 /\ produced' = produced
    BY <1>0, <2>1, Constants DEF IInv, Waiting, TypeOK, Data
  <2>4. sent' = [sent EXCEPT ![d] = 1]
    <3>1. sent' = [sent EXCEPT ![d] = sent[d] + 1]
      BY <1>00, <2>2, <2>3
    <3>2. sent[d] + 1 = 1
      BY <2>1
    <3> QED BY <3>1, <3>2
  <2>5. sent'[d] = 1 /\ sent' \in [Data -> Nat] /\ \A e \in Data : e # d => sent'[e] = sent[e]
    <3>1. sent \in [Data -> Nat]
      BY DEF IInv, TypeOK
    <3> HIDE DEF d
    <3> QED BY <2>3, <2>4, <3>1
  <2>6. OneHolder' /\ Exchange'
    BY <1>0 DEF IInv, OneHolder, Exchange
  <2>7. \A b \in QueueSet : content[b] # d /\ content[b] \in Data
    <3>1. \A b \in QueueSet : b \in Full /\ b # current
      BY DEF IInv, OneHolder, Full
    <3> QED BY <3>1, <2>1, Constants DEF IInv, Waiting, TypeOK, Data
  <2>8. Waiting'
    <3>1. \A e \in Data : sent'[e] <= 1 /\ (e > produced => sent'[e] = 0)
      <4> HIDE DEF d
      <4> QED BY <2>3, <2>5, Constants DEF IInv, Waiting, TypeOK
    <3>2. \A b \in QueueSet : sent'[content[b]] = 0
      BY <2>5, <2>7 DEF IInv, Waiting
    <3> QED BY <1>0, <3>1, <3>2 DEF IInv, Waiting
  <2>9. EncodedOnce'
    <3>1. \A e \in 1..produced : e \in Data
      BY <2>3, Constants DEF IInv, TypeOK, Data
    <3> QED BY <1>0, <2>3, <2>5, <3>1 DEF IInv, EncodedOnce
  <2> QED BY <2>5, <2>6, <2>8, <2>9 DEF BlockInv
<1> QED BY <1>1, <1>2
-----------------------------------------------------------------------------
(* One lemma per action, or for the actions that leave the data alone.     *)

Quiet == {"start", "probe", "dial", "top", "receive", "eof", "stopped"}

\* A step that moves no block: where it may lead, given what is in hand.
LEMMA KeepIInv ==
    ASSUME IInv, UNCHANGED <<dataVars, rowCount>>, TypeOK', OneConnection', DialsLeft',
           \/ pc' = pc \/ pc' \in {"abort", "leftover"}
           \/ current = None /\ pc' \in Quiet
    PROVE  IInv'
<1>1. BlockInv' /\ UNCHANGED <<QueueSet, Full, InputRows>>
  BY KeepMove
<1>2. UNCHANGED <<current, swapped, sent, content, rowCount>>
  BY DEF dataVars
<1>3. HandMatchesPc'
  BY <1>2 DEF Quiet, IInv, HandMatchesPc
<1>4. BatchBound'
  BY <1>1, <1>2 DEF IInv, BatchBound
<1> QED BY <1>1, <1>3, <1>4 DEF IInv, BlockInv

LEMMA ClaimedType == next \in 0..Nodes => Claimed \in 0..Nodes
BY Constants DEF Claimed

\* The environment, the search for a node and the ends of the loop.
LEMMA QuietIInv ==
    ASSUME IInv, CloseQueue \/ Cancel \/ OtherClaims \/ Start \/ Dial \/ DialFails \/ Top \/ Fails
                 \/ Stopped
    PROVE  IInv'
<1>0. next \in 0..Nodes /\ Claimed \in 0..Nodes
  BY ClaimedType DEF IInv, TypeOK
<1>1. CASE CloseQueue \/ Cancel \/ Stopped
  <2>1. UNCHANGED <<dataVars, rowCount, clientVars, batches, errors, pc>>
    BY <1>1 DEF CloseQueue, Cancel, Stopped, dataVars, vars, clientVars
  <2>2. closed' \in BOOLEAN /\ cancelled' \in BOOLEAN
    BY <1>1 DEF CloseQueue, Cancel, Stopped, vars, IInv, TypeOK
  <2>3. TypeOK' /\ OneConnection' /\ DialsLeft'
    BY <2>1, <2>2 DEF IInv, TypeOK, OneConnection, DialsLeft, dataVars, clientVars
  <2> QED BY <2>1, <2>3, KeepIInv
<1>2. CASE OtherClaims
  <2>1. UNCHANGED <<dataVars, rowCount, pc>> /\ TypeOK' /\ OneConnection' /\ DialsLeft'
    BY <1>2, <1>0 DEF OtherClaims, dataVars, IInv, TypeOK, OneConnection, DialsLeft
  <2> QED BY <2>1, KeepIInv
<1>3. CASE Dial
  <2>1. UNCHANGED <<dataVars, rowCount, batches, errors, closed, cancelled>> /\ pc = "dial"
    BY <1>3 DEF Dial, dataVars, Env, blockVars
  <2>2. open = 0 /\ current = None /\ dials \in 0..MaxDials /\ dials < MaxDials
    BY <2>1, Constants DEF IInv, TypeOK, OneConnection, HandMatchesPc, DialsLeft
  <2>3. pc' \in {"dial", "top"} /\ open' \in Nat /\ next' \in 0..Nodes
    BY <1>3, <1>0, <2>2 DEF Dial, MissesNode
  <2>4. OneConnection'
    BY <1>3, <2>2, <2>3 DEF Dial, MissesNode, OneConnection
  <2>5. dials' \in 0..MaxDials /\ DialsLeft'
    BY <1>3, <2>2, Constants DEF Dial, MissesNode, DialsLeft
  <2>6. TypeOK'
    BY <2>1, <2>3, <2>5 DEF IInv, TypeOK, dataVars
  <2> QED BY <2>1, <2>2, <2>3, <2>4, <2>5, <2>6, KeepIInv DEF Quiet
<1>4. CASE DialFails
  <2>1. UNCHANGED <<dataVars, rowCount, batches, closed, cancelled>> /\ pc = "dial"
    BY <1>4 DEF DialFails, dataVars, Env, blockVars
  <2>2. open = 0 /\ current = None /\ dials \in 0..MaxDials /\ dials < MaxDials
    BY <2>1, Constants DEF IInv, TypeOK, OneConnection, HandMatchesPc, DialsLeft
  <2>3. pc' \in {"start", "dial", "top", "stopped"} /\ open' = 0 /\ next' = next
    BY <1>4, <2>1, <2>2 DEF DialFails, MissesNode
  <2>4. dials' \in 0..MaxDials /\ DialsLeft'
    BY <1>4, <2>2, Constants DEF DialFails, MissesNode, DialsLeft
  <2>7. errors' \in Nat
    BY <1>4 DEF DialFails, IInv, TypeOK
  <2>5. TypeOK'
    BY <2>1, <2>3, <2>4, <2>7, <1>0 DEF IInv, TypeOK, dataVars
  <2>6. OneConnection'
    BY <2>3 DEF OneConnection
  <2> QED BY <2>1, <2>2, <2>3, <2>4, <2>5, <2>6, KeepIInv DEF Quiet
<1>5. CASE Top
  <2>1. UNCHANGED <<dataVars, rowCount, batches, errors, closed, cancelled>> /\ pc = "top"
    BY <1>5 DEF Top, dataVars, Env, blockVars
  <2>2. pc' \in {"stopped", "receive"} /\ open' \in Nat /\ next' = next /\ dials' \in 0..MaxDials
    BY <1>5, Constants DEF Top, CloseClient, clientVars, IInv, TypeOK
  <2>3. OneConnection'
    BY <1>5, <2>2 DEF Top, CloseClient, clientVars, IInv, OneConnection
  <2>4. TypeOK'
    BY <2>1, <2>2 DEF IInv, TypeOK, dataVars
  <2>5. current = None
    BY <2>1 DEF IInv, HandMatchesPc
  <2> QED BY <2>1, <2>2, <2>3, <2>4, <2>5, KeepIInv DEF Quiet, DialsLeft
<1>6. CASE Fails
  <2>1. UNCHANGED <<dataVars, rowCount, batches, closed, cancelled, clientVars>>
    BY <1>6 DEF Fails, dataVars, Env, blockVars
  <2>2. pc' \in {"abort", "leftover"} /\ errors' \in Nat
    BY <1>6 DEF Fails, IInv, TypeOK
  <2>3. TypeOK'
    BY <2>1, <2>2 DEF IInv, TypeOK, dataVars, clientVars
  <2>4. OneConnection'
    BY <1>6, <2>1, <2>2 DEF Fails, clientVars, IInv, OneConnection
  <2> QED BY <2>1, <2>2, <2>3, <2>4, KeepIInv DEF DialsLeft
<1>7. CASE Start
  <2>1. UNCHANGED <<dataVars, rowCount, batches, errors, closed, cancelled, clientVars>> /\ pc = "start"
    BY <1>7 DEF Start, dataVars, Env, blockVars
  <2>2. pc' \in {"stopped", "probe", "dial"}
    BY <1>7 DEF Start
  <2>3. TypeOK'
    BY <2>1, <2>2 DEF IInv, TypeOK, dataVars, clientVars
  <2>4. OneConnection' /\ DialsLeft' /\ current = None
    BY <2>1, <2>2 DEF clientVars, IInv, OneConnection, DialsLeft, HandMatchesPc
  <2> QED BY <2>1, <2>2, <2>3, <2>4, KeepIInv DEF Quiet
<1> QED BY <1>1, <1>2, <1>3, <1>4, <1>5, <1>6, <1>7

\* The probe of a restart: the queue has ended, is empty, or loses a block.
LEMMA ProbeIInv == ASSUME IInv, Probe PROVE IInv'
<1>0. /\ pc = "probe" /\ current = None /\ ~swapped /\ dials < MaxDials /\ open = 0
      /\ UNCHANGED <<closed, size, produced, cancelled, free, content, input, current, swapped,
                     next, dials, open, rowCount, sent, lost, batches, errors>>
  BY DEF Probe, Env, blockVars, clientVars, IInv, TypeOK, HandMatchesPc, Exchange, DialsLeft, OneConnection
<1>1. CASE queue = <<>>
  <2>1. UNCHANGED <<dataVars, rowCount>> /\ pc' \in {"stopped", "dial"}
    BY <1>0, <1>1 DEF Probe, dataVars
  <2>2. TypeOK' /\ OneConnection' /\ DialsLeft'
    BY <1>0, <2>1 DEF IInv, TypeOK, OneConnection, DialsLeft, dataVars
  <2> QED BY <1>0, <2>1, <2>2, KeepIInv DEF Quiet
<1>2. CASE queue # <<>>
  <2> DEFINE h == Head(queue)
  <2>1. pc' = "dial" /\ queue' = Tail(queue) /\ discarded' = discarded \cup {content[h]}
    BY <1>2 DEF Probe
  <2>2. /\ queue' \in Seq(Blocks) /\ h \in Blocks
        /\ QueueSet = QueueSet' \cup {h} /\ QueueSet \subseteq Blocks
    BY <1>2, <2>1, QueueSetChanges DEF IInv, TypeOK
  <2>3. OneHolder'
    <3>1. Len(queue') = Len(queue) - 1 /\ Len(queue) \in Nat \ {0}
      BY <1>2, <2>1 DEF IInv, TypeOK
    <3>2. \A i \in 1..Len(queue') : queue'[i] = queue[i + 1] /\ i + 1 \in 1..Len(queue)
      BY <1>2, <2>1, <3>1 DEF IInv, TypeOK
    <3>3. \A i, j \in 1..Len(queue') : queue'[i] = queue'[j] => i = j
      BY <3>1, <3>2 DEF IInv, OneHolder
    <3> QED BY <1>0, <2>2, <3>3 DEF IInv, OneHolder
  <2>4. content[h] \in Data
    BY <2>2 DEF IInv, Waiting, Full, TypeOK, Data
  <2> HIDE DEF h
  <2>5. TypeOK'
    BY <1>0, <2>1, <2>2, <2>4 DEF IInv, TypeOK
  <2>6. Full' \subseteq Full /\ QueueSet' \subseteq QueueSet
    BY <1>0, <2>2 DEF Full
  <2>7. Waiting' /\ Exchange'
    BY <1>0, <2>6 DEF IInv, Waiting, Exchange
  <2>8. EncodedOnce'
    BY <1>0, <2>1, <2>2 DEF IInv, EncodedOnce
  <2>9. HandMatchesPc' /\ DialsLeft' /\ BatchBound' /\ OneConnection'
    BY <1>0, <2>1 DEF IInv, HandMatchesPc, DialsLeft, BatchBound, OneConnection
  <2> QED BY <2>3, <2>5, <2>7, <2>8, <2>9 DEF IInv
<1> QED BY <1>1, <1>2

LEMMA ProduceIInv == ASSUME IInv, NEW b \in Blocks, Produce(b) PROVE IInv'
<1>1. BlockInv' /\ InputRows' = InputRows /\ content'[current] = content[current]
  BY ProduceMove
<1>2. UNCHANGED <<closed, input, current, swapped, rowCount, sent, lost, discarded, batches,
                  errors, next, dials, open, cancelled, pc>>
  BY DEF Produce, clientVars
<1>3. produced' \in 0..MaxData /\ produced + 1 \in Data /\ b \in Columns
  BY Constants DEF Produce, IInv, TypeOK, Data, Columns
<1>4. content' \in [Columns -> 0..MaxData] /\ free' \in SUBSET Blocks /\ queue' \in Seq(Blocks)
  BY <1>3, QueueSetChanges DEF Produce, IInv, TypeOK
<1>8. size' \in [Data -> Nat]
  BY <1>3, Constants DEF Produce, IInv, TypeOK
<1>5. TypeOK'
  BY <1>2, <1>3, <1>4, <1>8 DEF IInv, TypeOK
<1>6. HandMatchesPc' /\ DialsLeft'
  BY <1>1, <1>2 DEF IInv, HandMatchesPc, DialsLeft
<1>7. BatchBound' /\ OneConnection'
  BY <1>1, <1>2 DEF IInv, BatchBound, OneConnection
<1> QED BY <1>1, <1>5, <1>6, <1>7 DEF IInv, BlockInv

\* The first block of a query, or none any more.
LEMMA ReceiveIInv == ASSUME IInv, Receive PROVE IInv'
<1>0. current = None /\ ~swapped /\ pc = "receive"
  BY DEF Receive, IInv, HandMatchesPc, Exchange
<1>1. CASE queue # <<>> /\ current' = Head(queue)
  <2>1. /\ queue' = Tail(queue) /\ swapped' = FALSE /\ rowCount' = 0
        /\ pc' \in {"abort", "oninput", "encode"}
        /\ pc' = IF open = 0 THEN "abort" ELSE IF InputRows = 0 THEN "oninput" ELSE "encode"
        /\ UNCHANGED <<closed, size, produced, cancelled, next, dials, open, free, content,
                       input, sent, lost, discarded, batches, errors>>
    <3>1. queue \in Seq(Blocks) /\ Head(queue) \in Blocks
      BY <1>1, QueueSetChanges DEF IInv, TypeOK
    <3>2. current' # current
      BY <1>0, <1>1, <3>1
    <3> QED BY <1>1, <3>2 DEF Receive, Env, clientVars
  <2>2. /\ OneHolder' /\ Waiting' /\ EncodedOnce'
        /\ current' \in Blocks /\ queue' \in Seq(Blocks) /\ sent[content[current']] = 0
    BY <1>0, <1>1, <2>1, TakeMove
  <2>3. Exchange'
    BY <1>0, <2>1 DEF IInv, Exchange
  <2>4. InputRows = 0
    BY <1>0 DEF IInv, Exchange, Waiting, InputRows, Columns
  <2>5. TypeOK'
    BY <2>1, <2>2 DEF IInv, TypeOK
  <2>6. HandMatchesPc' /\ DialsLeft'
    BY <2>1, <2>2, <2>4 DEF HandMatchesPc, DialsLeft
  <2>7. BatchBound' /\ OneConnection'
    BY <1>0, <2>1 DEF IInv, BatchBound, OneConnection
  <2> QED BY <2>2, <2>3, <2>5, <2>6, <2>7 DEF IInv
<1>2. CASE ~(queue # <<>> /\ current' = Head(queue))
  <2>1. pc' = "stopped" /\ open' = 0 /\ dials' = 0 /\ next' = next /\ UNCHANGED <<dataVars, rowCount>>
    BY <1>2 DEF Receive, CloseClient, dataVars, Env
  <2>2. UNCHANGED <<closed, cancelled, batches, errors>>
    BY DEF Receive, Env
  <2>3. TypeOK' /\ OneConnection' /\ DialsLeft'
    BY <2>1, <2>2, Constants DEF IInv, TypeOK, OneConnection, DialsLeft, dataVars
  <2> QED BY <1>0, <2>1, <2>3, KeepIInv DEF Quiet
<1> QED BY <1>1, <1>2

\* The block whose rows ch-go has written goes back.
LEMMA OnInputIInv == ASSUME IInv, OnInput PROVE IInv'
<1>0. /\ pc = "oninput" /\ current # None /\ current \in Blocks
      /\ pc' = IF BatchFull(rowCount) THEN "eof" ELSE "next"
      /\ UNCHANGED <<closed, size, produced, cancelled, next, dials, open, queue, rowCount,
                     sent, lost, discarded, batches, errors>>
  BY DEF OnInput, Env, clientVars, IInv, HandMatchesPc, TypeOK
<1>1. CASE swapped
  <2>1. ReturnBlock /\ sent[content[current]] = 1
    BY <1>0, <1>1 DEF OnInput, IInv, HandMatchesPc
  <2>2. /\ BlockInv' /\ free' \in SUBSET Blocks /\ content' \in [Columns -> 0..MaxData]
        /\ input' \in [Columns -> Columns]
    BY <1>0, <2>1, ReturnMove
  <2>3. current' = None /\ swapped' = FALSE
    BY <2>1 DEF ReturnBlock
  <2>4. TypeOK'
    BY <1>0, <2>2, <2>3 DEF IInv, TypeOK
  <2>5. HandMatchesPc'
    BY <1>0, <2>3, Constants DEF IInv, TypeOK, HandMatchesPc, BatchFull
  <2>6. BatchBound' /\ OneConnection' /\ DialsLeft'
    BY <1>0, <2>3 DEF IInv, BatchBound, OneConnection, DialsLeft
  <2> QED BY <2>2, <2>4, <2>5, <2>6 DEF IInv, BlockInv
<1>2. CASE ~swapped
  <2>1. content' = content
    BY <1>2 DEF OnInput, IInv, TypeOK, Waiting
  <2>2. UNCHANGED <<free, input, current, swapped>>
    BY <1>2 DEF OnInput
  <2>3. BlockInv' /\ UNCHANGED <<QueueSet, Full, InputRows>>
    BY <1>0, <2>1, <2>2, KeepMove DEF dataVars
  <2>4. rowCount = 0 /\ pc' = "next" /\ sent[content[current]] = 0
    BY <1>0, <1>2, Constants DEF IInv, HandMatchesPc, BatchFull
  <2>5. TypeOK'
    BY <1>0, <2>1, <2>2, <2>4 DEF IInv, TypeOK
  <2>6. HandMatchesPc' /\ DialsLeft'
    BY <1>0, <1>2, <2>1, <2>2, <2>4, Constants DEF HandMatchesPc, DialsLeft
  <2>7. BatchBound' /\ OneConnection'
    BY <1>0, <1>2, <2>2, <2>4 DEF IInv, BatchBound, OneConnection
  <2> QED BY <2>3, <2>5, <2>6, <2>7 DEF IInv, BlockInv
<1> QED BY <1>1, <1>2

\* The next block is swapped in, unless the input ends.
LEMMA OnInputNextIInv == ASSUME IInv, OnInputNext PROVE IInv'
<1>0. /\ pc = "next" /\ ~swapped /\ rowCount <= BatchSize /\ rowCount \in Nat
      /\ UNCHANGED <<closed, size, produced, cancelled, next, dials, open, free, content,
                     sent, lost, discarded, batches, errors>>
  BY DEF OnInputNext, Env, clientVars, IInv, HandMatchesPc, TypeOK
<1>1. ASSUME NEW b \in Blocks, Load(b), OneHolder', Waiting', EncodedOnce',
             queue' \in Seq(Blocks), sent[content[b]] = 0
      PROVE  IInv'
  <2>1. current' = b /\ swapped' = TRUE /\ pc' = "encode"
    BY <1>1 DEF Load
  <2>2. /\ Exchange' /\ input' \in [Columns -> Columns]
        /\ content[input[b]] = content[b] /\ input'[Placeholder] = b
    BY <1>0, <1>1, LoadMove
  <2>3. b \in Full' /\ b # None
    BY <2>1 DEF Full
  <2>4. content[b] \in 1..produced /\ content[b] \in Data /\ size[content[b]] \in Nat
    BY <1>0, <1>1, <2>3 DEF Waiting, IInv, TypeOK, Data
  <2>5. rowCount' = rowCount + size[content[b]] /\ rowCount' \in Nat
    BY <1>0, <1>1, <2>2, <2>4 DEF Load
  <2>6. InputRows' = size[content[b]]
    BY <1>0, <2>2, <2>4 DEF InputRows
  <2>7. TypeOK'
    BY <1>0, <1>1, <2>1, <2>2, <2>5 DEF IInv, TypeOK
  <2>8. HandMatchesPc' /\ DialsLeft'
    BY <1>0, <1>1, <2>1, <2>3 DEF HandMatchesPc, DialsLeft
  <2>9. BatchBound'
    BY <1>0, <2>4, <2>5, <2>6, Constants DEF BatchBound
  <2>10. OneConnection'
    BY <1>0, <2>1 DEF IInv, OneConnection
  <2> QED BY <1>1, <2>2, <2>7, <2>8, <2>9, <2>10 DEF IInv
<1>2. CASE current # None /\ Load(current) /\ UNCHANGED queue
  <2>1. current \in Blocks /\ sent[content[current]] = 0 /\ queue' \in Seq(Blocks) /\ current' = current
    BY <1>0, <1>2 DEF IInv, TypeOK, HandMatchesPc, Load
  <2>2. OneHolder' /\ Waiting' /\ EncodedOnce'
    BY <1>0, <1>2, <2>1 DEF IInv, OneHolder, Waiting, EncodedOnce, QueueSet, Full
  <2> QED BY <1>1, <1>2, <2>1, <2>2
<1>3. CASE current = None /\ queue # <<>> /\ Load(Head(queue)) /\ queue' = Tail(queue)
  <2>1. current' = Head(queue)
    BY <1>3 DEF Load
  <2>2. /\ OneHolder' /\ Waiting' /\ EncodedOnce'
        /\ current' \in Blocks /\ queue' \in Seq(Blocks) /\ sent[content[current']] = 0
    BY <1>0, <1>3, <2>1, TakeMove
  <2> QED BY <1>1, <1>3, <2>1, <2>2
<1>4. CASE /\ current = None /\ pc' = "eof"
           /\ UNCHANGED <<queue, current, swapped, input, rowCount>>
  <2>1. UNCHANGED <<dataVars, rowCount>> /\ TypeOK' /\ OneConnection' /\ DialsLeft'
    BY <1>0, <1>4 DEF dataVars, IInv, TypeOK, OneConnection, DialsLeft
  <2> QED BY <1>4, <2>1, KeepIInv DEF Quiet
<1> QED BY <1>2, <1>3, <1>4 DEF OnInputNext

LEMMA EncodeIInv == ASSUME IInv, Encode \/ EncodeTail PROVE IInv'
<1>1. ASSUME NEW after, EncodeThen(after),
             <<pc, after>> \in {<<"encode", "oninput">>, <<"eof", "done">>}
      PROVE  IInv'
  <2>1. /\ BlockInv' /\ sent' \in [Data -> Nat]
        /\ pc = "encode" => sent'[content[current]] = 1
    BY <1>1, EncodeMove
  <2>2. /\ UNCHANGED <<closed, size, produced, cancelled, next, dials, open, free, content, input,
                       current, swapped, queue, rowCount, lost, discarded, batches, errors>>
        /\ pc' = after
    BY <1>1 DEF EncodeThen, Env, clientVars, blockVars
  <2>3. TypeOK'
    BY <1>1, <2>1, <2>2 DEF IInv, TypeOK
  <2>4. HandMatchesPc' /\ DialsLeft'
    BY <1>1, <2>1, <2>2 DEF IInv, HandMatchesPc, DialsLeft
  <2>5. InputRows' = InputRows
    BY <2>2 DEF InputRows
  <2>6. BatchBound' /\ OneConnection'
    BY <1>1, <2>2, <2>5 DEF IInv, BatchBound, OneConnection
  <2> QED BY <2>1, <2>3, <2>4, <2>6 DEF IInv, BlockInv
<1>2. CASE Encode
  <2>1. EncodeThen("oninput") /\ pc = "encode"
    BY <1>2 DEF Encode
  <2> QED BY <1>1, <2>1
<1>3. CASE EncodeTail
  <2>1. EncodeThen("done") /\ pc = "eof"
    BY <1>3 DEF EncodeTail
  <2> QED BY <1>1, <2>1
<1> QED BY <1>2, <1>3

\* After the query: a block still in hand goes back, encoded or given up.
LEMMA LeftoverMove ==
    ASSUME IInv, ReturnLeftover, UNCHANGED <<queue, sent, produced, size, discarded>>
    PROVE  /\ BlockInv' /\ free' \in SUBSET Blocks /\ content' \in [Columns -> 0..MaxData]
           /\ input' \in [Columns -> Columns] /\ lost' \in SUBSET Data
           /\ swapped => current # None
           /\ current' = None /\ swapped' = FALSE
<1>0. swapped => current # None
  BY DEF IInv, Exchange
<1>1. CASE current = None
  <2>1. UNCHANGED dataVars /\ swapped = FALSE
    BY <1>1, <1>0 DEF ReturnLeftover, Unsent, blockVars, dataVars, IInv, TypeOK
  <2> QED BY <1>0, <1>1, <2>1, KeepMove DEF dataVars, IInv, TypeOK
<1>2. CASE current # None
  <2>1. ReturnBlock /\ lost' = lost \cup Unsent
    BY <1>2 DEF ReturnLeftover
  <2>2. current \in Blocks /\ current \in Full
    BY <1>2 DEF IInv, TypeOK, Full
  <2>3. content[input[IF swapped THEN Placeholder ELSE current]] = content[current]
    BY <2>2 DEF IInv, Exchange, Columns
  <2>4. content[current] \in Data /\ sent[content[current]] \in {0, 1}
    <3>1. content[current] \in Data
      BY <2>2, Constants DEF IInv, Waiting, TypeOK, Data
    <3>2. sent[content[current]] \in Nat /\ sent[content[current]] <= 1
      BY <3>1 DEF IInv, TypeOK, Waiting
    <3> QED BY <3>1, <3>2
  <2>5. Unsent \subseteq Data /\ (sent[content[current]] = 0 => content[current] \in Unsent)
    BY <1>2, <2>3, <2>4 DEF Unsent
  <2>6. lost' \in SUBSET Data
    BY <2>1, <2>5 DEF IInv, TypeOK
  <2>7. sent[content[current]] = 1 \/ content[current] \in lost'
    BY <2>1, <2>4, <2>5
  <2> QED BY <1>0, <1>2, <2>1, <2>6, <2>7, ReturnMove DEF ReturnBlock
<1> QED BY <1>1, <1>2

LEMMA LeftoverIInv == ASSUME IInv, Abort \/ Finish PROVE IInv'
<1>1. /\ ReturnLeftover /\ pc \in {"abort", "done", "leftover"}
      /\ UNCHANGED <<closed, size, produced, cancelled, queue, rowCount, sent, discarded, errors>>
  BY DEF Abort, Finish, Env
<1>2. /\ BlockInv' /\ free' \in SUBSET Blocks /\ content' \in [Columns -> 0..MaxData]
      /\ input' \in [Columns -> Columns] /\ lost' \in SUBSET Data
      /\ current' = None /\ swapped' = FALSE
  BY <1>1, LeftoverMove
<1>3. \/ pc' = "start" /\ open' = 0 /\ dials' = 0 /\ next' = next
      \/ pc' = "top" /\ UNCHANGED <<open, dials, next>>
  BY DEF Abort, Finish, CloseClient, clientVars
<1>4. batches' \in Nat
  BY DEF Abort, Finish, IInv, TypeOK
<1>5. TypeOK'
  <2>1. /\ next' \in 0..Nodes /\ dials' \in 0..MaxDials /\ open' \in Nat
        /\ pc' \in {"start", "top"}
    BY <1>3, Constants DEF IInv, TypeOK
  <2> QED BY <1>1, <1>2, <1>4, <2>1 DEF IInv, TypeOK
<1>6. HandMatchesPc' /\ DialsLeft'
  BY <1>2, <1>3, Constants DEF HandMatchesPc, DialsLeft
<1>7. BatchBound' /\ OneConnection'
  BY <1>1, <1>2, <1>3 DEF IInv, BatchBound, OneConnection
<1> QED BY <1>2, <1>5, <1>6, <1>7 DEF IInv, BlockInv
-----------------------------------------------------------------------------
LEMMA NextIInv == IInv /\ [Next]_vars => IInv'
<1> SUFFICES ASSUME IInv, [Next]_vars PROVE IInv'
  OBVIOUS
<1>1. CASE UNCHANGED vars
  <2>1. UNCHANGED <<dataVars, rowCount, pc>> /\ TypeOK' /\ OneConnection' /\ DialsLeft'
    BY <1>1 DEF vars, clientVars, dataVars, IInv, TypeOK, OneConnection, DialsLeft
  <2> QED BY <2>1, KeepIInv
<1>2. CASE \E b \in Blocks : Produce(b)
  BY <1>2, ProduceIInv
<1>3. CASE CloseQueue \/ Cancel \/ OtherClaims \/ Start \/ Dial \/ DialFails \/ Top \/ Fails \/ Stopped
  BY <1>3, QuietIInv
<1>4. CASE Receive
  BY <1>4, ReceiveIInv
<1>5. CASE OnInput
  BY <1>5, OnInputIInv
<1>6. CASE OnInputNext
  BY <1>6, OnInputNextIInv
<1>7. CASE Encode \/ EncodeTail
  BY <1>7, EncodeIInv
<1>8. CASE Abort \/ Finish
  BY <1>8, LeftoverIInv
<1>9. CASE Probe
  BY <1>9, ProbeIInv
<1> QED BY <1>1, <1>2, <1>3, <1>4, <1>5, <1>6, <1>7, <1>8, <1>9 DEF Next, Run

LEMMA InvariantHolds == Spec => []IInv
BY InitIInv, NextIInv, PTL DEF Spec

\* worker.go OnInput and Run: for any pool, batch size, retirement period and
\* pattern of failures, a block in the pool or the queue has its own columns in
\* its input; swapInput is undone on every path.
THEOREM ColumnsReturned == Spec => []OwnColumns
<1>1. IInv => OwnColumns
  <2> SUFFICES ASSUME IInv PROVE OwnColumns
    OBVIOUS
  <2>1. free \cup QueueSet \subseteq Columns /\ current \notin free \cup QueueSet
    BY QueueSetChanges DEF IInv, TypeOK, OneHolder, Columns
  <2>2. Placeholder \notin free \cup QueueSet
    BY QueueSetChanges DEF IInv, TypeOK
  <2> QED BY <2>1, <2>2 DEF IInv, Exchange, OwnColumns
<1> QED BY <1>1, InvariantHolds, PTL

\* worker.go OnInput, ch-go's prefetch and tail write, scheduler.go runWorker: no
\* rows are encoded twice and none are skipped, other than those an error path
\* gives up and those of a block the probe of a restart drops.
THEOREM EncodedAtMostOnce == Spec => []EncodedOnce
BY InvariantHolds, PTL DEF IInv

\* worker.go OnInput: "Row count may exceed maximum, but not by more than one
\* block", whatever the sizes of the blocks.
THEOREM BatchesBounded == Spec => []BatchBound
BY InvariantHolds, PTL DEF IInv

\* buildClient and Run: at most one connection of a worker is open, and none
\* between two runs, for any list of nodes and any number of dials.
THEOREM ConnectionsClosed == Spec => []OneConnection
BY InvariantHolds, PTL DEF IInv

\* worker.go, the state of Run: for every set of blocks and nodes and all limits,
\* the row count, the dials and the open connections stay in their ranges.
THEOREM TypeCorrect == Spec => []TypeOK
BY InvariantHolds, PTL DEF IInv
=============================================================================
