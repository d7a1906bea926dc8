---------------------------- MODULE SpeedReader ----------------------------
(***************************************************************************)
(* disk/speedreader.go: the limiter around one reader of a data file. A    *)
(* read asks how many bytes it may take, from what is left of the current  *)
(* limit over a one-second sliding window and from a bucket of burst       *)
(* tokens; an optimizer moves the current limit around its target, and a   *)
(* rebalance replaces target, window and bucket while a read is under way. *)
(*                                                                         *)
(* Time is a number of ticks, kept as ages; the float arithmetic is done   *)
(* in whole bytes, rates rounded down.                                     *)
(***************************************************************************)
EXTENDS Integers, FiniteSets, FiniteSetsExt

CONSTANTS
    Second,       \* ticks in windowSize
    Capacity,     \* windowCapacity, slots of the ring
    Targets,      \* the limits a rebalance can set, in bytes per second
    BurstDivisor, \* burst capacity is target / BurstDivisor (DefaultBurstFactor 0.01)
    Requests,     \* lengths of p
    MinChunk      \* minChunkSize

ASSUME LimiterAssumption ==
    /\ Second \in Nat \ {0} /\ Capacity \in Nat \ {0} /\ BurstDivisor \in Nat \ {0}
    /\ Targets \subseteq Nat \ {0} /\ \E t \in Targets : \A u \in Targets : u =< t
    /\ Requests \subseteq Nat \ {0} /\ MinChunk \in Nat

VARIABLES
    target, currentLimit,         \* targetBytesPerSec, currentLimit
    burstTokens, fillAge,         \* bucket, time since lastTokenFill
    entries, head, tail, count, totalBytes,   \* the sliding window, a ring
    pc, requested, readSize,      \* the read under way
    detached,                     \* its window has been replaced since it was loaded
    open                          \* exit is not closed: the optimizer runs

window == <<entries, head, tail, count, totalBytes>>
limiter == <<target, currentLimit>>
bucket == <<burstTokens, fillAge>>
call == <<pc, requested, readSize, detached>>
vars == <<limiter, bucket, window, call, open>>

Slots == 0 .. Capacity - 1
Ages == 0 .. Second + 1          \* anything older than the window is as old
Empty == [age |-> 0, bytes |-> 0]
Low(t) == (8 * t) \div 10
High(t) == (12 * t) \div 10
BurstCapacity == target \div BurstDivisor
Minimum(a, b) == IF a < b THEN a ELSE b

-----------------------------------------------------------------------------
(* SlidingWindow *)

\* The live slots, from head on, and the bytes they hold, entry by entry.
Live(h, n) == {(h + i) % Capacity : i \in 0 .. n - 1}
BytesFrom(e, h, n) ==
    LET sum[i \in Nat] == IF i = 0 THEN 0 ELSE sum[i - 1] + e[(h + i - 1) % Capacity].bytes
    IN  sum[n]

\* cleanOldEntries: how many entries at the head are older than the window.
Old == IF \E i \in 0 .. count - 1 : entries[(head + i) % Capacity].age =< Second
       THEN Min({i \in 0 .. count - 1 : entries[(head + i) % Capacity].age =< Second})
       ELSE count

\* The window once n entries have been taken from the head.
Dropped(n) ==
    [entries |-> [s \in Slots |-> IF s \in Live(head, n) THEN Empty ELSE entries[s]],
     head |-> (head + n) % Capacity, count |-> count - n,
     totalBytes |-> totalBytes - BytesFrom(entries, head, n)]
Cleaned == Dropped(Old)

\* Mutant: the bytes of an evicted entry stay in the total.
Add_KeepsEvicted(n) ==
    LET c == Dropped(IF Old = 0 /\ count = Capacity THEN 1 ELSE Old) IN
    /\ entries' = [c.entries EXCEPT ![tail] = [age |-> 0, bytes |-> n]]
    /\ head' = c.head
    /\ tail' = (tail + 1) % Capacity
    /\ count' = c.count + 1
    /\ totalBytes' = (IF Old = 0 THEN totalBytes ELSE c.totalBytes) + n

\* Add cleans, makes room by dropping the oldest entry of a full ring, appends.
Add(n) ==
    LET c == Dropped(IF Old = 0 /\ count = Capacity THEN 1 ELSE Old) IN
    /\ entries' = [c.entries EXCEPT ![tail] = [age |-> 0, bytes |-> n]]
    /\ head' = c.head
    /\ tail' = (tail + 1) % Capacity
    /\ count' = c.count + 1
    /\ totalBytes' = c.totalBytes + n

\* GetRate over a cleaned window c: bytes per second since its oldest entry.
Rate(c) == IF c.count = 0 \/ c.entries[c.head].age = 0 THEN 0
           ELSE (c.totalBytes * Second) \div c.entries[c.head].age

NewWindow ==
    /\ entries' = [s \in Slots |-> Empty]
    /\ head' = 0 /\ tail' = 0 /\ count' = 0 /\ totalBytes' = 0

-----------------------------------------------------------------------------
(* The token bucket and the limit *)

\* Mutant: the bucket has no limit.
Refilled_Unbounded == burstTokens + (currentLimit * fillAge) \div Second

Refilled == Minimum(burstTokens + (currentLimit * fillAge) \div Second, BurstCapacity)

\* calculateAllowedBytes: what a call gets, and the tokens it pays with.
Headroom(c) == currentLimit - Rate(c)
Allowed(c) == IF Rate(c) < currentLimit THEN Minimum(requested, Headroom(c) + Refilled)
              ELSE Minimum(requested, Refilled)
Paid(c) == IF Rate(c) >= currentLimit THEN Allowed(c)
           ELSE IF Allowed(c) > Headroom(c) THEN Allowed(c) - Headroom(c) ELSE 0

\* The clock is finer than a call: a read never sees the time of the one before.
ClockMoved == \A s \in Live(head, count) : entries[s].age > 0

CalculateAllowedBytes ==
    /\ ClockMoved
    /\ LET c == Cleaned IN
       /\ readSize' = Allowed(c)
       /\ burstTokens' = Refilled - Paid(c)
       /\ entries' = c.entries /\ head' = c.head /\ count' = c.count
       /\ totalBytes' = c.totalBytes
    /\ fillAge' = 0
    /\ UNCHANGED tail

-----------------------------------------------------------------------------
Init ==
    /\ target \in Targets /\ currentLimit = target
    /\ burstTokens = BurstCapacity /\ fillAge = 0
    /\ entries = [s \in Slots |-> Empty] /\ head = 0 /\ tail = 0 /\ count = 0 /\ totalBytes = 0
    /\ pc = "idle" /\ requested = 0 /\ readSize = 0
    /\ detached = FALSE /\ open = TRUE

TypeOK ==
    /\ target \in Targets /\ currentLimit \in Nat
    /\ burstTokens \in Nat /\ fillAge \in Ages
    /\ entries \in [Slots -> [age : Ages, bytes : Nat]]
    /\ head \in Slots /\ tail \in Slots /\ count \in 0 .. Capacity /\ totalBytes \in Nat
    /\ pc \in {"idle", "first", "again", "chunk", "read", "add"}
    /\ requested \in Requests \cup {0} /\ readSize \in Nat
    /\ detached \in BOOLEAN /\ open \in BOOLEAN

\* SpeedLimitedReader.Read(p): a first answer; a second one if it was zero and
\* the rate is over the limit (after a sleep); another one if it is a small
\* piece of a large request.
Begin ==
    /\ pc = "idle" /\ open
    /\ \E n \in Requests : requested' = n
    /\ pc' = "first"
    /\ UNCHANGED <<limiter, bucket, window, readSize, detached, open>>

Small(n) == n < MinChunk /\ requested >= MinChunk
After(n) == IF Small(n) THEN "chunk" ELSE "read"

First ==
    /\ pc = "first"
    /\ CalculateAllowedBytes
    /\ pc' = IF readSize' = 0 /\ Rate(Cleaned) >= currentLimit THEN "again" ELSE After(readSize')
    /\ UNCHANGED <<limiter, requested, detached, open>>

Again ==
    /\ pc = "again"
    /\ CalculateAllowedBytes
    /\ pc' = After(readSize')
    /\ UNCHANGED <<limiter, requested, detached, open>>

Chunk ==
    /\ pc = "chunk"
    /\ CalculateAllowedBytes
    /\ pc' = "read"
    /\ UNCHANGED <<limiter, requested, detached, open>>

\* The wrapped reader returns some of the bytes asked for; none end the call.
UnderlyingRead ==
    /\ pc = "read"
    /\ \E n \in 0 .. readSize :
         /\ readSize' = n
         /\ pc' = IF n > 0 THEN "add" ELSE "idle"
    /\ requested' = 0
    /\ UNCHANGED <<limiter, bucket, window, detached, open>>

\* slr.window is loaded without the lock: a Reset in between leaves the bytes
\* in the window that was replaced.
Count ==
    /\ pc = "add"
    /\ IF detached THEN UNCHANGED window ELSE Add(readSize)
    /\ pc' = "idle" /\ readSize' = 0 /\ detached' = FALSE
    /\ UNCHANGED <<limiter, bucket, requested, open>>

\* Mutant: the current limit survives a new target.
Reset_KeepsLimit ==
    /\ \E t \in Targets : target' = t /\ burstTokens' = t \div BurstDivisor
    /\ fillAge' = 0
    /\ NewWindow
    /\ detached' = (pc = "add")
    /\ UNCHANGED <<currentLimit, pc, requested, readSize, open>>

\* UpdateSpeedLimit of a rebalance.
Reset ==
    /\ \E t \in Targets : target' = t /\ currentLimit' = t /\ burstTokens' = t \div BurstDivisor
    /\ fillAge' = 0
    /\ NewWindow
    /\ detached' = (pc = "add")
    /\ UNCHANGED <<pc, requested, readSize, open>>

\* optimizeLimit: a gradient step towards the target, clamped around it. Where
\* the step ends inside the clamp is left open. It also cleans the window.
OptimizeLimit ==
    /\ open
    /\ currentLimit' \in Low(target) .. High(target)
    /\ LET c == Cleaned IN
         /\ entries' = c.entries /\ head' = c.head /\ count' = c.count
         /\ totalBytes' = c.totalBytes
    /\ UNCHANGED <<target, bucket, tail, call, open>>

\* The deferred cleanup of worker.Run, after the last read.
Close ==
    /\ pc = "idle" /\ open /\ open' = FALSE
    /\ UNCHANGED <<limiter, bucket, window, call>>

Tick ==
    /\ fillAge' = Minimum(fillAge + 1, Second + 1)
    /\ entries' = [s \in Slots |-> IF s \in Live(head, count)
                                   THEN [entries[s] EXCEPT !.age = Minimum(@ + 1, Second + 1)]
                                   ELSE entries[s]]
    /\ UNCHANGED <<limiter, burstTokens, head, tail, count, totalBytes, call, open>>

Next ==
    \/ Begin \/ First \/ Again \/ Chunk \/ UnderlyingRead \/ Count
    \/ Reset \/ OptimizeLimit \/ Close \/ Tick

Spec == Init /\ [][Next]_vars

-----------------------------------------------------------------------------
(* Properties *)

\* speedreader.go:241-286. Whatever was cleaned, evicted from a full ring or
\* reset, the running total is the sum of the live entries, the live entries are
\* the slots from head to tail, and they are in the order of their times.
WindowConsistent ==
    /\ totalBytes = BytesFrom(entries, head, count)
    /\ tail = (head + count) % Capacity
    /\ \A i \in 1 .. count - 1 :
         entries[(head + i - 1) % Capacity].age >= entries[(head + i) % Capacity].age

\* speedreader.go:140-230. A rebalance, the optimizer and reads interleave; the
\* current limit stays within a fifth of the target that is in force, and the
\* bucket is never overdrawn nor fuller than that target's burst.
LimitNearTarget ==
    /\ currentLimit \in Low(target) .. High(target)
    /\ burstTokens \in 0 .. BurstCapacity

\* speedreader.go:106-171. The limit over one second. Even when an answer given
\* before a rebalance is counted after it, a window never holds more than the
\* highest limit, taken as headroom, and what came through the bucket: at most
\* a burst for each read, and in all at most a second's refill and two bursts,
\* one the first of these reads was given and one saved up while it was slow.
WindowBounded ==
    LET t == Max(Targets)
        burst == t \div BurstDivisor
    IN  totalBytes =< High(t) + Minimum(count * burst, 2 * burst + High(t))
=============================================================================
