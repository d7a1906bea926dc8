----------------------------- MODULE DiskReplay -----------------------------
(***************************************************************************)
(* Replay of data files: disk/scheduler.go hands files to reader threads,  *)
(* re-shares the speed limit whenever a reader comes or goes, and          *)
(* block/timeshift.go moves the timestamps of every block so that the data *)
(* set starts at program start and each loop follows the one before.       *)
(*                                                                         *)
(* Blocks and the queue behind the readers belong to Pipeline; here a send *)
(* always succeeds unless the context is cancelled.                        *)
(***************************************************************************)
EXTENDS Integers, Sequences, FiniteSets

CONSTANTS
    Workers,       \* diskCfg.Threads reader threads
    Dir,           \* what the walk finds: [path, suffix, blocks], a block is [first, last]
    Configs,       \* settings to consider: [loop, shift], diskCfg.Loop and .ShiftTimestamp
    Total,         \* diskCfg.MiBytesPerSecondLimit, in bytes
    ProgramStart,  \* ReplayTimeKeeper.programStart
    ReportCap,     \* capacity of latestTimestampReport (100 in the code)
    Half,          \* a Duration is a two's complement integer in -Half..Half-1
    MaxLoop        \* bound: the generator stops offering files after this loop

Zero == 0                        \* time.Time{}: further than Half from any data
NoReader == -1                   \* w.speedRd == nil
NoFile == [index |-> 0, loop |-> 0]

ASSUME ReplayAssumption ==
    /\ Workers # {} /\ IsFiniteSet(Workers)
    /\ Total \in Nat /\ ReportCap \in Nat \ {0} /\ MaxLoop \in Nat
    /\ Half \in Nat \ {0} /\ ProgramStart \in Nat /\ ProgramStart > 2 * Half
    /\ IsFiniteSet(Dir) /\ \A e, f \in Dir : e.path = f.path => e = f
    /\ \A e \in Dir : /\ e.path \in Int /\ e.blocks \in Seq([first : Nat, last : Nat])
                     /\ \A i \in DOMAIN e.blocks :
                          Half < e.blocks[i].first /\ e.blocks[i].first =< e.blocks[i].last
\* A Duration reaches from any block of the data to any other (290 years).
ASSUME SpanAssumption ==
    \A e, f \in Dir : \A i \in DOMAIN e.blocks : \A j \in DOMAIN f.blocks :
        e.blocks[i].first - f.blocks[j].first < Half

VARIABLES
    cfg,        \* the settings of this execution
    sched,      \* "start", "running", "stopping" (cancelTimeCtx called), "stopped"
    gen,        \* generateFiles: next file to offer, its loop, channel closed
    cancelled,  \* ctx.Done() is closed
    pc, file, pos,          \* runWorker and worker.Run, file in hand, blocks read of it
    tset, shifted,          \* w.timestampSet, the snapshot's loop offset
    limit, pending, speedRd,\* w.bytesPerSecondLimit, its value read by buildReader, the reader's limit
    workers,                \* s.workers, the registered readers
    missed,                 \* history: who was in buildReader at the last rebalance
    datasetStart, ready,    \* the first timestamp, datasetStartReady is closed
    reports, datasetEnd,    \* latestTimestampReport, the newest timestamp so far
    keeper                  \* ReplayTimeKeeper.Run is running

schedVars == <<cfg, sched, gen, cancelled>>
readerVars == <<pc, file, pos, tset, shifted>>
speedVars == <<limit, pending, speedRd, workers, missed>>
timeVars == <<datasetStart, ready, reports, datasetEnd, keeper>>
vars == <<schedVars, readerVars, speedVars, timeVars>>

-----------------------------------------------------------------------------
(* Durations and times. *)

\* time.Duration multiplication wraps, Time.Sub saturates.
Wrap(d) == ((d + Half) % (2 * Half)) - Half
Sub(t, u) == IF t - u < -Half THEN -Half ELSE IF t - u >= Half THEN Half - 1 ELSE t - u

\* getDataFiles: the data files of the folder in the order of their paths.
DataEntries == {e \in Dir : e.suffix \in {".native", ".native.zst"}}
dataFiles == CHOOSE s \in [1 .. Cardinality(DataEntries) -> DataEntries] :
                 \A i, j \in DOMAIN s : i < j => s[i].path < s[j].path

Blocks(w) == dataFiles[file[w].index + 1].blocks
Current(w) == Blocks(w)[pos[w]]          \* the block reader w has in hand

\* Snapshot(loopIndex).loopOffset and ReplayTimeSnapshot.ShiftTimestamp.
LoopOffset(loop) == Wrap(loop * Sub(datasetEnd, datasetStart))
ShiftedTime(w, t) == ProgramStart + shifted[w] + Sub(t, datasetStart)

-----------------------------------------------------------------------------
(* Identifiers. An id is a sequence of bytes; MutateIDs changes the trace,  *)
(* span, parent and profile ids of every row the same way.                  *)

\* A hex digit is moved on within the hex alphabet, any other byte is added to.
Digits == 48 .. 57
Letters == 97 .. 102
shiftHexByte(b, n) ==
    LET val == IF b \in Digits THEN b - 48 ELSE b - 87
        moved == (val + n) % 16
    IN  IF b \notin Digits \cup Letters THEN (b + n) % 256
        ELSE IF moved < 10 THEN 48 + moved ELSE 87 + moved

\* Mutant: every byte is shifted by the lowest digit of the loop.
shiftColStrLastByte_SameDigit(id, loop) ==
    [i \in DOMAIN id |-> IF Len(id) - i < 3 THEN shiftHexByte(id[i], loop % 16) ELSE id[i]]

\* The last three bytes (idShiftBytes) take the hex digits of the loop, lowest last.
shiftColStrLastByte(id, loop) ==
    [i \in DOMAIN id |-> IF Len(id) - i < 3 THEN shiftHexByte(id[i], (loop \div 16 ^ (Len(id) - i)) % 16)
                         ELSE id[i]]
MutateIDs(id, loop) == IF loop = 0 THEN id ELSE shiftColStrLastByte(id, loop)

-----------------------------------------------------------------------------
TypeOK ==
    /\ sched \in {"start", "running", "stopping", "stopped"}
    /\ gen \in [next : 0 .. Len(dataFiles), loop : 0 .. MaxLoop + 1, closed : BOOLEAN]
    /\ cancelled \in BOOLEAN /\ ready \in BOOLEAN /\ keeper \in BOOLEAN
    /\ pc \in [Workers -> {"idle", "new", "register", "rebalance", "open", "install",
                           "loop", "earliest", "latest", "shift", "send",
                           "unregister", "rebalance2", "exited"}]
    /\ \A w \in Workers : file[w].index \in 0 .. Len(dataFiles) /\ file[w].loop \in 0 .. MaxLoop
    /\ pos \in [Workers -> Nat] /\ tset \in [Workers -> BOOLEAN]
    /\ shifted \in [Workers -> -Half .. Half - 1]
    /\ limit \in [Workers -> 0 .. Total] /\ pending \in [Workers -> 0 .. Total]
    /\ speedRd \in [Workers -> {NoReader} \cup 0 .. Total]
    /\ workers \subseteq Workers /\ missed \subseteq Workers
    /\ Len(reports) =< ReportCap

Init ==
    /\ cfg \in Configs
    /\ sched = "start" /\ cancelled = FALSE
    /\ gen = [next |-> 0, loop |-> 0, closed |-> FALSE]
    /\ pc = [w \in Workers |-> "idle"]
    /\ file = [w \in Workers |-> NoFile]
    /\ pos = [w \in Workers |-> 0]
    /\ tset = [w \in Workers |-> FALSE]
    /\ shifted = [w \in Workers |-> 0]
    /\ limit = [w \in Workers |-> 0]
    /\ pending = [w \in Workers |-> 0]
    /\ speedRd = [w \in Workers |-> NoReader]
    /\ workers = {} /\ missed = {}
    /\ datasetStart = Zero /\ datasetEnd = Zero
    /\ ready = FALSE /\ reports = <<>> /\ keeper = FALSE

Goto(w, l) == pc' = [pc EXCEPT ![w] = l]
At(w, l) == pc[w] = l /\ sched = "running"

-----------------------------------------------------------------------------
(* Scheduler.Run *)

\* The folder is listed, the generator, the readers and the time keeper start;
\* an error or an empty folder ends the scheduler at once.
Run ==
    /\ sched = "start"
    /\ \/ sched' = "stopped" /\ keeper' = FALSE
       \/ dataFiles # <<>> /\ sched' = "running" /\ keeper' = TRUE
    /\ UNCHANGED <<cfg, gen, cancelled, readerVars, speedVars, datasetStart, ready, reports, datasetEnd>>

\* wg.Wait returns when every reader has left; then the time keeper is cancelled.
RunWait ==
    /\ sched = "running"
    /\ \A w \in Workers : pc[w] = "exited"
    /\ sched' = "stopping"
    /\ UNCHANGED <<cfg, gen, cancelled, readerVars, speedVars, timeVars>>

RunReturn ==
    /\ sched = "stopping" /\ ~keeper
    /\ sched' = "stopped"
    /\ UNCHANGED <<cfg, gen, cancelled, readerVars, speedVars, timeVars>>

Cancel ==
    /\ ~cancelled /\ cancelled' = TRUE
    /\ UNCHANGED <<cfg, sched, gen, readerVars, speedVars, timeVars>>

\* generateFiles: what follows the file just offered. The end of the list ends
\* the channel, or starts the next loop.
Advance ==
    IF gen.next + 1 < Len(dataFiles) THEN [gen EXCEPT !.next = @ + 1]
    ELSE IF cfg.loop THEN [gen EXCEPT !.next = 0, !.loop = @ + 1]
    ELSE [gen EXCEPT !.next = @ + 1, !.closed = TRUE]

GenerateCancelled ==
    /\ sched # "start" /\ cancelled /\ ~gen.closed
    /\ gen' = [gen EXCEPT !.closed = TRUE]
    /\ UNCHANGED <<cfg, sched, cancelled, readerVars, speedVars, timeVars>>

-----------------------------------------------------------------------------
(* Scheduler.runWorker and the speed limit *)

\* The unbuffered channel hands the generator's file to an idle reader. Both
\* sides select on ctx.Done too, so this may happen after a cancellation.
Take(w) ==
    /\ At(w, "idle") /\ ~gen.closed /\ gen.loop =< MaxLoop
    /\ file' = [file EXCEPT ![w] = [index |-> gen.next, loop |-> gen.loop]]
    /\ gen' = Advance
    /\ Goto(w, "new")
    /\ UNCHANGED <<cfg, sched, cancelled, pos, tset, shifted, speedVars, timeVars>>

RunWorkerReturn(w) ==
    /\ At(w, "idle") /\ (cancelled \/ gen.closed)
    /\ Goto(w, "exited")
    /\ UNCHANGED <<schedVars, file, pos, tset, shifted, speedVars, timeVars>>

\* newWorker with getNewWorkerSpeed(): a fresh worker object for the file.
NewWorker(w) ==
    /\ At(w, "new")
    /\ limit' = [limit EXCEPT ![w] = Total \div (Cardinality(workers) + 1)]
    /\ Goto(w, "register")
    /\ UNCHANGED <<schedVars, file, pos, tset, shifted, pending, speedRd, workers, missed, timeVars>>

Register(w) ==
    /\ At(w, "register")
    /\ workers' = workers \cup {w}
    /\ Goto(w, "rebalance")
    /\ UNCHANGED <<schedVars, file, pos, tset, shifted, limit, pending, speedRd, missed, timeVars>>

\* The map held the last reference to the worker object: its fields go with it.
Unregister(w) ==
    /\ At(w, "unregister")
    /\ workers' = workers \ {w}
    /\ limit' = [limit EXCEPT ![w] = 0]
    /\ speedRd' = [speedRd EXCEPT ![w] = NoReader]
    /\ missed' = missed \ {w}
    /\ pos' = [pos EXCEPT ![w] = 0]
    /\ tset' = [tset EXCEPT ![w] = FALSE]
    /\ file' = [file EXCEPT ![w] = NoFile]
    /\ Goto(w, "rebalance2")
    /\ UNCHANGED <<schedVars, shifted, pending, timeVars>>

Share(n) == Total \div n

\* Mutant: the limit is stored and the running reader is not reset.
SetLimits_StoresOnly ==
    /\ limit' = [w \in Workers |-> IF w \in workers THEN Share(Cardinality(workers)) ELSE limit[w]]
    /\ UNCHANGED speedRd

\* rebalanceSpeed and UpdateSpeedLimit of every registered reader: the share
\* of each, and the reset of the readers that exist already.
SetLimits ==
    IF workers = {} THEN UNCHANGED <<limit, speedRd>>
    ELSE LET perWorker == Share(Cardinality(workers)) IN
         /\ limit' = [w \in Workers |-> IF w \in workers THEN perWorker ELSE limit[w]]
         /\ speedRd' = [w \in Workers |-> IF w \in workers /\ speedRd[w] # NoReader
                                          THEN perWorker ELSE speedRd[w]]

RebalanceSpeed(w) ==
    /\ \/ At(w, "rebalance") /\ Goto(w, "open")
       \/ At(w, "rebalance2") /\ Goto(w, "idle")
    /\ SetLimits
    /\ missed' = {v \in workers : pc[v] = "install"}
    /\ UNCHANGED <<schedVars, file, pos, tset, shifted, pending, workers, timeVars>>
-----------------------------------------------------------------------------
(* worker.Run, buildReader and decodeBlock *)

\* buildReader opens the file (and the zstd reader) and reads the worker's
\* limit; a failure ends the file.
BuildReader(w) ==
    /\ At(w, "open")
    /\ \/ pending' = [pending EXCEPT ![w] = limit[w]] /\ Goto(w, "install")
       \/ UNCHANGED pending /\ Goto(w, "unregister")
    /\ UNCHANGED <<schedVars, file, pos, tset, shifted, limit, speedRd, workers, missed, timeVars>>

\* The reader built with that limit becomes w.speedRd, without a lock.
InstallReader(w) ==
    /\ At(w, "install")
    /\ speedRd' = [speedRd EXCEPT ![w] = pending[w]]
    /\ pending' = [pending EXCEPT ![w] = 0]
    /\ Goto(w, "loop")
    /\ UNCHANGED <<schedVars, file, pos, tset, shifted, limit, workers, missed, timeVars>>

\* The loop head looks at the context; DecodeRawBlock gives the next block, or
\* end of file, or an error, both of which end the file.
DecodeBlock(w) ==
    /\ At(w, "loop")
    /\ \/ Goto(w, "unregister") /\ UNCHANGED pos
       \/ /\ ~cancelled /\ pos[w] < Len(Blocks(w))
          /\ pos' = [pos EXCEPT ![w] = @ + 1]
          /\ Goto(w, IF file[w].loop # 0 THEN "shift"
                     ELSE IF file[w].index = 0 /\ ~tset[w] THEN "earliest" ELSE "latest")
    /\ UNCHANGED <<schedVars, file, tset, shifted, speedVars, timeVars>>

\* Mutant: the channel datasetStartReady is not closed.
ReportEarliestTimestamp_NotReady(w) ==
    /\ At(w, "earliest")
    /\ IF datasetStart = Zero THEN datasetStart' = Current(w).first ELSE UNCHANGED datasetStart
    /\ tset' = [tset EXCEPT ![w] = TRUE]
    /\ Goto(w, "latest")
    /\ UNCHANGED <<schedVars, file, pos, shifted, speedVars, ready, reports, datasetEnd, keeper>>

ReportEarliestTimestamp(w) ==
    /\ At(w, "earliest")
    /\ IF datasetStart = Zero
       THEN datasetStart' = Current(w).first /\ ready' = TRUE
       ELSE UNCHANGED <<datasetStart, ready>>
    /\ tset' = [tset EXCEPT ![w] = TRUE]
    /\ Goto(w, "latest")
    /\ UNCHANGED <<schedVars, file, pos, shifted, speedVars, reports, datasetEnd, keeper>>

\* The report is dropped when the time keeper is a whole channel behind.
ReportLatestTimestamp(w) ==
    /\ At(w, "latest")
    /\ reports' = IF Len(reports) < ReportCap THEN Append(reports, Current(w).last) ELSE reports
    /\ Goto(w, "shift")
    /\ UNCHANGED <<schedVars, file, pos, tset, shifted, speedVars, datasetStart, ready, datasetEnd, keeper>>

\* Mutant: the offset of the loop after this one.
Shift_NextLoop(w) ==
    /\ At(w, "shift")
    /\ IF cfg.shift = "all"
       THEN ready /\ shifted' = [shifted EXCEPT ![w] = LoopOffset(file[w].loop + 1)]
       ELSE UNCHANGED shifted
    /\ Goto(w, "send")
    /\ UNCHANGED <<schedVars, file, pos, tset, speedVars, timeVars>>

\* shift_timestamp "all" takes a snapshot, which waits for datasetStartReady
\* and for nothing else; the other modes look at the clock only.
Shift(w) ==
    /\ At(w, "shift")
    /\ IF cfg.shift = "all"
       THEN ready /\ shifted' = [shifted EXCEPT ![w] = LoopOffset(file[w].loop)]
       ELSE UNCHANGED shifted
    /\ Goto(w, "send")
    /\ UNCHANGED <<schedVars, file, pos, tset, speedVars, timeVars>>

\* The block is sent (or lost to ctx.Done) and the loop goes on.
Send(w) ==
    /\ At(w, "send")
    /\ shifted' = [shifted EXCEPT ![w] = 0]
    /\ Goto(w, "loop")
    /\ UNCHANGED <<schedVars, file, pos, tset, speedVars, timeVars>>

-----------------------------------------------------------------------------
(* ReplayTimeKeeper.Run *)

KeeperReceive ==
    /\ keeper /\ reports # <<>>
    /\ datasetEnd' = IF Head(reports) > datasetEnd THEN Head(reports) ELSE datasetEnd
    /\ reports' = Tail(reports)
    /\ UNCHANGED <<schedVars, readerVars, speedVars, datasetStart, ready, keeper>>
\* timeCtx is a child of ctx: the keeper leaves on either cancellation.
KeeperStop ==
    /\ keeper /\ (cancelled \/ sched = "stopping")
    /\ keeper' = FALSE
    /\ UNCHANGED <<schedVars, readerVars, speedVars, datasetStart, ready, reports, datasetEnd>>

-----------------------------------------------------------------------------
\* File 0 of loop 0, the only one that reports the first timestamp, has been
\* left before its first block: every reader in Snapshot waits for ever.
FirstFileLost ==
    /\ ~ready
    /\ gen.next > 0 \/ gen.loop > 0 \/ gen.closed
    /\ ~ \E w \in Workers : /\ pc[w] \notin {"idle", "unregister", "rebalance2", "exited"}
                            /\ file[w].index = 0 /\ file[w].loop = 0

\* Nothing is left to do: the scheduler has returned, or it waits for readers
\* that wait in Snapshot.
Finished ==
    \/ sched = "stopped"
    \/ FirstFileLost /\ \A w \in Workers : pc[w] \in {"exited", "shift"}
Rest == Finished /\ cancelled /\ UNCHANGED vars

Reader(w) ==
    \/ Take(w) \/ RunWorkerReturn(w) \/ NewWorker(w) \/ Register(w) \/ Unregister(w)
    \/ RebalanceSpeed(w) \/ BuildReader(w) \/ InstallReader(w) \/ DecodeBlock(w)
    \/ ReportEarliestTimestamp(w) \/ ReportLatestTimestamp(w) \/ Shift(w) \/ Send(w)
Keeper == KeeperReceive \/ KeeperStop
Scheduler == Run \/ RunWait \/ RunReturn

Next == Scheduler \/ Cancel \/ GenerateCancelled \/ Keeper \/ Rest \/ \E w \in Workers : Reader(w)

Spec == Init /\ [][Next]_vars
\* Goroutines are scheduled: the generator, the keeper, the scheduler and each
\* reader take their next step when they can. Nothing obliges a user to cancel.
FairSpec ==
    /\ Spec
    /\ WF_vars(Scheduler) /\ WF_vars(GenerateCancelled) /\ WF_vars(Keeper)
    /\ \A w \in Workers : WF_vars(Reader(w))

-----------------------------------------------------------------------------
(* Properties *)

\* No reader is between registering or deregistering and the rebalance after it.
Settled == \A w \in Workers : pc[w] \notin {"rebalance", "rebalance2"}
Shares == {Total \div n : n \in 1 .. Cardinality(Workers)}

\* scheduler.go:150-178, disk/worker.go:80-85. Registration, deregistration and
\* rebalancing take the lock one after the other. Whenever no reader is between
\* two of them, every registered reader has its share of the configured limit
\* stored, and a reader that runs is limited to that share, however arrivals and
\* departures were interleaved. The one exception is a reader that the last
\* rebalance found inside buildReader, its old limit read and w.speedRd not yet
\* set (line 150): it runs at the share of an earlier number of readers.
SharesAgree ==
    Settled => \A w \in workers :
        LET share == Total \div Cardinality(workers) IN
        /\ limit[w] = share
        /\ \/ speedRd[w] \in {NoReader, share}
           \/ w \in missed /\ speedRd[w] \in Shares

\* timeshift.go:81-104. A block of the first loop keeps its distance from the
\* first timestamp of file 0 whenever it is shifted. A block of a later loop is
\* moved by that many times a span the data set really has, or by what the
\* multiplication makes of the zero time if no block's end was recorded yet.
LoopsFollow ==
    \A w \in Workers : (cfg.shift = "all" /\ At(w, "send")) =>
        LET loop == file[w].loop
            spans == {Sub(e, datasetStart) : e \in {Zero} \cup
                        UNION {{f.blocks[i].last : i \in DOMAIN f.blocks} : f \in Dir}}
        IN  /\ datasetStart = dataFiles[1].blocks[1].first
            /\ IF loop = 0 THEN ShiftedTime(w, Current(w).first)
                                   = ProgramStart + Current(w).first - datasetStart
               ELSE \E d \in spans : shifted[w] = Wrap(loop * d)

\* scheduler.go:123-148, timeshift.go:82. Once the files have run out or the
\* context is cancelled the scheduler returns, except when the first file ended
\* before its first block: Snapshot then waits with no context.
ReplayEnds == (cancelled \/ gen.closed) ~> (sched = "stopped" \/ FirstFileLost)

\* columns.go:36-75, disk/worker.go:203 ("3 hex characters gives 16^3 = 4096
\* distinct loop values"). Ids in lower or upper case keep their joins: within
\* the loop of a block that is sent different ids stay different, so a span finds
\* its parent and a log its trace. A row's id differs from then on in as many
\* loops as its last three bytes can count, and repeats after that; an empty id
\* stays empty.
Alphabets == {Digits \cup Letters, Digits \cup 65 .. 70}
IdSets(hex) == {{<<a>> : a \in hex}, {<<a, b, 57, 48>> : a, b \in hex}, {<<48, a, b>> : a, b \in hex}}
LoopsCounted(id) == 16 ^ (IF Len(id) < 3 THEN Len(id) ELSE 3)
IdsDistinct == [loop \in 0 .. MaxLoop |->
    /\ \A hex \in Alphabets : \A ids \in IdSets(hex) :
         Cardinality({MutateIDs(id, loop) : id \in ids}) = Cardinality(ids)
    /\ \A id \in {<<>>, <<102>>, <<48, 57>>, <<97, 48, 102>>, <<65, 70, 48, 57>>} :
         /\ Cardinality({MutateIDs(id, loop + later) : later \in 0 .. LoopsCounted(id) - 1}) = LoopsCounted(id)
         /\ id \in [DOMAIN id -> Digits \cup Letters] =>
               MutateIDs(id, loop + LoopsCounted(id)) = MutateIDs(id, loop)]
IdsPerLoop == \A w \in Workers : At(w, "send") => IdsDistinct[file[w].loop]

\* The disk settings say that the replay keeps the original timings with "the
\* first event time being the program start time": no event of a data set that
\* is in order is given a time before it, in any loop.
NotBeforeProgramStart ==
    \A w \in Workers : (cfg.shift = "all" /\ At(w, "send")) =>
        ShiftedTime(w, Current(w).first) >= ProgramStart
=============================================================================
