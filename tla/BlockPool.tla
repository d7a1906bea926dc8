----------------------------- MODULE BlockPool -----------------------------
(***************************************************************************)
(* The recycling pool of src/internal/block/pool.go.  The buffered channel *)
(* p.pool is the sequence pool; the map p.uses is the function uses, whose *)
(* domain is the set of keys present.  Release runs as the goroutine that  *)
(* calls it, in the steps its two critical sections and the channel send   *)
(* allow others to interleave with:                                        *)
(*                                                                         *)
(*   "idle" -ReleaseCount-> "send"                          block kept     *)
(*          -ReleaseCount-> "create" -Create-> "register"   block retired  *)
(*                          -Register-> "send" -PoolSend-> "idle"          *)
(*                                                                         *)
(* A block the pool has handed out is in out until some goroutine releases *)
(* it: blocks travel between goroutines through the insert queue.          *)
(***************************************************************************)
EXTENDS Naturals, Sequences, FiniteSets

CONSTANTS
    Blocks,       \* addresses SharedColumns objects can have
    Goroutines,   \* goroutines that call Release
    PoolSize,     \* NewBlockPool's poolSize, the channel's capacity
    RetireAfter,  \* NewBlockPool's retireAfter; 0 disables retirement
    MaxRetired,   \* bound: no Acquire once this many blocks were retired
    NoBlock       \* "this goroutine is not releasing a block"

ASSUME BlockPoolAssumption ==
    /\ PoolSize \in Nat \ {0}
    /\ RetireAfter \in Nat
    /\ MaxRetired \in Nat
    /\ IsFiniteSet(Goroutines)
    /\ NoBlock \notin Blocks

VARIABLES
    pool,          \* p.pool
    uses,          \* p.uses
    totalRetired,  \* p.totalRetired
    out,           \* blocks acquired and not yet passed to Release
    pc,            \* per goroutine: where in Release it is
    cols           \* per goroutine: Release's local variable cols

vars == <<pool, uses, totalRetired, out, pc, cols>>

Releasing == {g \in Goroutines : pc[g] # "idle"}

\* Objects something still refers to: an allocation returns none of these.
Live == {pool[i] : i \in 1..Len(pool)} \cup out \cup DOMAIN uses
            \cup {cols[g] : g \in Releasing}

\* delete(p.uses, cols) and p.uses[cols] = 0.
Untrack(f, b) == [x \in DOMAIN f \ {b} |-> f[x]]
Track(f, b) == [x \in DOMAIN f \cup {b} |-> IF x = b THEN 0 ELSE f[x]]
-----------------------------------------------------------------------------
\* NewBlockPool: poolSize fresh blocks, each with zero uses.
Init ==
    /\ pool \in [1..PoolSize -> Blocks]
    /\ \A i, j \in 1..PoolSize : pool[i] = pool[j] => i = j
    /\ uses = [b \in {pool[i] : i \in 1..PoolSize} |-> 0]
    /\ totalRetired = 0
    /\ out = {}
    /\ pc = [g \in Goroutines |-> "idle"]
    /\ cols = [g \in Goroutines |-> NoBlock]

\* Acquire: receive from the channel; waits while it is empty.
Acquire ==
    /\ totalRetired < MaxRetired \/ RetireAfter = 0
    /\ pool # <<>>
    /\ pool' = Tail(pool)
    /\ out' = out \cup {Head(pool)}
    /\ UNCHANGED <<uses, totalRetired, pc, cols>>

\* Release: if p.uses[cols] >= p.retireAfter.
WornOut(used) == used >= RetireAfter

\* Release up to the first Unlock: count the use; retire a worn-out block.
ReleaseCount(g, b) ==
    LET used == uses[b] + 1 IN
    /\ pc[g] = "idle"
    /\ b \in out
    /\ out' = out \ {b}
    /\ cols' = [cols EXCEPT ![g] = b]
    /\ \/ /\ RetireAfter > 0 /\ WornOut(used)
          /\ uses' = Untrack(uses, b)
          /\ pc' = [pc EXCEPT ![g] = "create"]
       \/ /\ RetireAfter > 0 => ~WornOut(used)
          /\ uses' = IF RetireAfter > 0 THEN [uses EXCEPT ![b] = used] ELSE uses
          /\ pc' = [pc EXCEPT ![g] = "send"]
    /\ UNCHANGED <<pool, totalRetired>>

CreateFrom(g, candidates, next) ==
    /\ pc[g] = "create"
    /\ totalRetired' = totalRetired + 1
    /\ \E fresh \in candidates : cols' = [cols EXCEPT ![g] = fresh]
    /\ pc' = [pc EXCEPT ![g] = next]
    /\ UNCHANGED <<pool, uses, out>>

\* Mutants: a constructor that hands out one shared instance; the retired block
\* is never replaced.
Create_Shared(g) == CreateFrom(g, Blocks, "register")
Create_Dropped(g) == CreateFrom(g, Blocks \ Live, "idle")

\* Between the critical sections: count the retirement, allocate a block.
Create(g) == CreateFrom(g, Blocks \ Live, "register")

\* Mutant: the replacement enters the channel here and again in the last send.
Register_Sends(g) ==
    /\ pc[g] = "register"
    /\ uses' = Track(uses, cols[g])
    /\ pool' = Append(pool, cols[g])
    /\ pc' = [pc EXCEPT ![g] = "send"]
    /\ UNCHANGED <<totalRetired, out, cols>>

\* The second critical section.
Register(g) ==
    /\ pc[g] = "register"
    /\ uses' = Track(uses, cols[g])
    /\ pc' = [pc EXCEPT ![g] = "send"]
    /\ UNCHANGED <<pool, totalRetired, out, cols>>

\* Release's last statement, p.pool <- cols: waits while the channel is full.
PoolSend(g) ==
    /\ pc[g] = "send"
    /\ Len(pool) < PoolSize
    /\ pool' = Append(pool, cols[g])
    /\ pc' = [pc EXCEPT ![g] = "idle"]
    /\ cols' = [cols EXCEPT ![g] = NoBlock]
    /\ UNCHANGED <<uses, totalRetired, out>>

\* The users stopped at the bound MaxRetired and returned everything.
Quiescent ==
    /\ RetireAfter > 0 /\ totalRetired >= MaxRetired
    /\ out = {} /\ Releasing = {}
    /\ UNCHANGED vars

Next ==
    \/ Acquire
    \/ \E g \in Goroutines : \/ \E b \in out : ReleaseCount(g, b)
                             \/ Create(g)
                             \/ Register(g)
                             \/ PoolSend(g)
    \/ Quiescent

Spec == Init /\ [][Next]_vars
-----------------------------------------------------------------------------
TypeOK ==
    /\ pool \in Seq(Blocks)
    /\ \E S \in SUBSET Blocks : uses \in [S -> Nat]
    /\ totalRetired \in Nat
    /\ out \in SUBSET Blocks
    /\ pc \in [Goroutines -> {"idle", "create", "register", "send"}]
    /\ cols \in [Goroutines -> Blocks \cup {NoBlock}]

(***************************************************************************)
(* A block is in one place: the free channel, a user's hands, or one call  *)
(* of Release.  Two owners of one block would decode into columns that are *)
(* being inserted.  (pool.go Acquire, Release)                             *)
(***************************************************************************)
OneOwner ==
    /\ \A i, j \in 1..Len(pool) : pool[i] = pool[j] => i = j
    /\ \A i \in 1..Len(pool) : pool[i] \notin out
    /\ \A g \in Releasing : /\ cols[g] \notin out
                            /\ \A i \in 1..Len(pool) : pool[i] # cols[g]
    /\ \A g, h \in Releasing : cols[g] = cols[h] => g = h

(***************************************************************************)
(* The final send of Release always finds room, although the channel is    *)
(* only as large as the pool: OnInput calls Release between two packets of *)
(* an open INSERT and must not wait there.  (pool.go, p.pool <- cols)      *)
(***************************************************************************)
ReleaseNeverBlocks == \A g \in Goroutines : pc[g] = "send" => Len(pool) < PoolSize

\* The abstract pool, with the blocks inside Release still counted as lent.
Abstract == INSTANCE BoundedPool
                WITH free <- Len(pool),
                     lent <- Cardinality(out) + Cardinality(Releasing)

(***************************************************************************)
(* Users see a pool of PoolSize blocks whose Acquire and Release each move *)
(* one block, whatever retirement does inside (block.go Pool).             *)
(***************************************************************************)
ImplementsBoundedPool == Abstract!Spec
=============================================================================
