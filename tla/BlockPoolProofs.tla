-------------------------- MODULE BlockPoolProofs --------------------------
(***************************************************************************)
(* Proofs about BlockPool for any set of blocks, any number of releasing   *)
(* goroutines, any pool size and any retirement limit.                     *)
(*                                                                         *)
(* That the channel has room for a Release (ReleaseNeverBlocks) and that   *)
(* the pool implements BoundedPool both come down to FixedSize, a count of *)
(* blocks.  The count changes by one and not by none only because a block  *)
(* is in one place at a time, so FixedSize is inductive together with      *)
(* OneOwner, and OneOwner because an allocation returns an object nothing  *)
(* refers to.                                                              *)
(***************************************************************************)
EXTENDS BlockPool, FiniteSetTheorems, SequenceTheorems, TLAPS

\* A goroutine inside Release holds a block.
HoldsBlock == \A g \in Goroutines : pc[g] # "idle" => cols[g] \in Blocks

\* Retirement inside Release never changes how many blocks there are.
FixedSize ==
    /\ IsFiniteSet(out)
    /\ Len(pool) + Cardinality(out) + Cardinality(Releasing) = PoolSize

IInv == TypeOK /\ HoldsBlock /\ OneOwner /\ FixedSize

USE BlockPoolAssumption
-----------------------------------------------------------------------------
\* The goroutines inside Release are finitely many.
LEMMA ReleasingFinite == IsFiniteSet(Releasing) /\ Cardinality(Releasing) \in Nat
BY FS_Subset, FS_CardinalityType DEF Releasing

\* A goroutine that enters Release joins Releasing, one that returns leaves it.
LEMMA ReleasingChanges ==
    ASSUME NEW g \in Goroutines, NEW l, TypeOK,
           pc' = [pc EXCEPT ![g] = l]
    PROVE  /\ pc[g] = "idle" /\ l # "idle" => Releasing' = Releasing \cup {g}
           /\ pc[g] # "idle" /\ l = "idle" => Releasing' = Releasing \ {g}
           /\ pc[g] # "idle" /\ l # "idle" => Releasing' = Releasing
BY DEF Releasing, TypeOK

\* NewBlockPool establishes the invariant.
LEMMA InitIInv == Init => IInv
<1> SUFFICES ASSUME Init PROVE IInv
  OBVIOUS
<1>1. pool \in Seq(Blocks) /\ Len(pool) = PoolSize
  BY DEF Init
<1>2. TypeOK
  <2>1. uses \in [{pool[i] : i \in 1..PoolSize} -> Nat]
    BY DEF Init
  <2>2. {pool[i] : i \in 1..PoolSize} \in SUBSET Blocks
    BY DEF Init
  <2> QED BY <1>1, <2>1, <2>2 DEF Init, TypeOK
<1>3. HoldsBlock
  BY DEF Init, HoldsBlock
<1>4. Releasing = {}
  BY DEF Init, Releasing
<1>5. OneOwner
  BY <1>1, <1>4 DEF Init, OneOwner
<1>6. FixedSize
  BY <1>1, <1>4, FS_EmptySet DEF Init, FixedSize
<1> QED BY <1>2, <1>3, <1>5, <1>6 DEF IInv

\* Acquire moves one block from the channel to its user.
LEMMA AcquireIInv == IInv /\ Acquire => IInv'
<1> SUFFICES ASSUME IInv, Acquire PROVE IInv'
  OBVIOUS
<1> DEFINE h == Head(pool)
<1>1. /\ pool \in Seq(Blocks) /\ pool # <<>>
      /\ pool' = Tail(pool) /\ out' = out \cup {h}
      /\ pc' = pc /\ cols' = cols /\ uses' = uses /\ totalRetired' = totalRetired
  BY DEF IInv, TypeOK, Acquire
<1>2. /\ h \in Blocks /\ h = pool[1] /\ Len(pool) \in Nat \ {0}
      /\ Tail(pool) \in Seq(Blocks)
      /\ Len(Tail(pool)) = Len(pool) - 1
      /\ \A i \in 1..Len(Tail(pool)) : Tail(pool)[i] = pool[i + 1]
  BY <1>1, HeadTailProperties, EmptySeq
<1>3. TypeOK'
  BY <1>1, <1>2 DEF IInv, TypeOK
<1>4. HoldsBlock'
  BY <1>1 DEF IInv, HoldsBlock
<1>5. Releasing' = Releasing
  BY <1>1 DEF Releasing
<1>6. \A i \in 1..Len(pool') : i + 1 \in 1..Len(pool) /\ i + 1 # 1 /\ pool'[i] = pool[i + 1]
  BY <1>1, <1>2
<1>7. OneOwner'
  <2>1. \A i, j \in 1..Len(pool') : pool'[i] = pool'[j] => i = j
    BY <1>2, <1>6 DEF IInv, OneOwner
  <2>2. \A i \in 1..Len(pool') : pool'[i] \notin out'
    <3> SUFFICES ASSUME NEW i \in 1..Len(pool') PROVE pool[i + 1] \notin out \cup {h}
      BY <1>1, <1>6
    <3>1. 1 \in 1..Len(pool)
      BY <1>2
    <3> QED BY <3>1, <1>2, <1>6 DEF IInv, OneOwner
  <2>3. \A g \in Releasing : cols[g] \notin out'
    <3>1. 1 \in 1..Len(pool)
      BY <1>2
    <3> QED BY <3>1, <1>1, <1>2 DEF IInv, OneOwner
  <2>4. \A g \in Releasing : \A i \in 1..Len(pool') : pool'[i] # cols[g]
    BY <1>6 DEF IInv, OneOwner
  <2> QED BY <2>1, <2>2, <2>3, <2>4, <1>1, <1>5 DEF IInv, OneOwner
<1>8. FixedSize'
  <2>1. h \notin out
    <3>1. 1 \in 1..Len(pool)
      BY <1>2
    <3> QED BY <3>1, <1>2 DEF IInv, OneOwner
  <2>2. IsFiniteSet(out') /\ Cardinality(out') = Cardinality(out) + 1
    BY <1>1, <2>1, FS_AddElement DEF IInv, FixedSize
  <2>3. Cardinality(out) \in Nat
    BY FS_CardinalityType DEF IInv, FixedSize
  <2> QED BY <1>1, <1>2, <1>5, <2>2, <2>3, ReleasingFinite DEF IInv, FixedSize
<1> QED BY <1>3, <1>4, <1>7, <1>8 DEF IInv

\* The first critical section of Release takes a block from its user.
LEMMA ReleaseCountIInv ==
    ASSUME NEW g \in Goroutines, NEW b \in out, IInv, ReleaseCount(g, b)
    PROVE  IInv'
<1>1. /\ pc[g] = "idle" /\ b \in Blocks
      /\ pool' = pool /\ out' = out \ {b} /\ totalRetired' = totalRetired
      /\ cols' = [cols EXCEPT ![g] = b]
  BY DEF ReleaseCount, IInv, TypeOK
<1>2. PICK l \in {"create", "send"} : pc' = [pc EXCEPT ![g] = l]
  BY DEF ReleaseCount
<1>3. PICK S \in SUBSET Blocks : uses \in [S -> Nat]
  BY DEF IInv, TypeOK
<1>4. \E T \in SUBSET Blocks : uses' \in [T -> Nat]
  <2>1. CASE uses' = Untrack(uses, b)
    <3>1. uses' \in [S \ {b} -> Nat]
      BY <2>1, <1>3 DEF Untrack
    <3> QED BY <3>1
  <2>2. CASE uses' = uses
    BY <2>2, <1>3
  <2>3. CASE uses' = [uses EXCEPT ![b] = uses[b] + 1]
    <3>1. uses' \in [S -> Nat]
      <4>1. CASE b \in S
        BY <4>1, <2>3, <1>3
      <4>2. CASE b \notin S
        BY <4>2, <2>3, <1>3
      <4> QED BY <4>1, <4>2
    <3> QED BY <3>1
  <2> QED BY <2>1, <2>2, <2>3 DEF ReleaseCount
<1>5. TypeOK'
  <2>1. cols' \in [Goroutines -> Blocks \cup {NoBlock}]
    BY <1>1 DEF IInv, TypeOK
  <2>2. pc' \in [Goroutines -> {"idle", "create", "register", "send"}]
    BY <1>2 DEF IInv, TypeOK
  <2> QED BY <1>1, <1>4, <2>1, <2>2 DEF IInv, TypeOK
<1>6. HoldsBlock'
  BY <1>1, <1>2 DEF IInv, HoldsBlock, TypeOK
<1>7. Releasing' = Releasing \cup {g} /\ g \notin Releasing
  BY <1>1, <1>2, ReleasingChanges DEF IInv, Releasing
<1>8. OneOwner'
  <2>1. \A h \in Releasing : cols'[h] = cols[h] /\ cols[h] # b
    BY <1>1, <1>7 DEF IInv, TypeOK, OneOwner, Releasing
  <2>2. cols'[g] = b
    BY <1>1 DEF IInv, TypeOK
  <2> QED BY <1>1, <1>7, <2>1, <2>2 DEF IInv, OneOwner
<1>9. FixedSize'
  <2>1. IsFiniteSet(out') /\ Cardinality(out') = Cardinality(out) - 1
    BY <1>1, FS_RemoveElement DEF IInv, FixedSize
  <2>2. Cardinality(Releasing') = Cardinality(Releasing) + 1
    BY <1>7, ReleasingFinite, FS_AddElement
  <2>3. Cardinality(out) \in Nat /\ Len(pool) \in Nat
    BY FS_CardinalityType DEF IInv, FixedSize, TypeOK
  <2> QED BY <1>1, <2>1, <2>2, <2>3, ReleasingFinite DEF IInv, FixedSize
<1> QED BY <1>5, <1>6, <1>8, <1>9 DEF IInv

\* The replacement is an object nothing refers to.
LEMMA CreateIInv ==
    ASSUME NEW g \in Goroutines, IInv, Create(g)
    PROVE  IInv'
<1>1. PICK fresh \in Blocks \ Live : cols' = [cols EXCEPT ![g] = fresh]
  BY DEF Create, CreateFrom
<1>2. /\ pc[g] = "create" /\ pc' = [pc EXCEPT ![g] = "register"]
      /\ totalRetired' = totalRetired + 1
      /\ pool' = pool /\ uses' = uses /\ out' = out
  BY DEF Create, CreateFrom
<1>3. TypeOK'
  BY <1>1, <1>2 DEF IInv, TypeOK
<1>4. HoldsBlock'
  BY <1>1, <1>2 DEF IInv, HoldsBlock, TypeOK
<1>5. Releasing' = Releasing /\ g \in Releasing
  BY <1>2, ReleasingChanges DEF IInv, Releasing
<1>6. OneOwner'
  <2>1. \A i \in 1..Len(pool) : pool[i] # fresh
    BY DEF Live
  <2>2. fresh \notin out /\ \A h \in Releasing : cols[h] # fresh
    BY DEF Live
  <2>3. \A h \in Releasing : cols'[h] = IF h = g THEN fresh ELSE cols[h]
    BY <1>1 DEF IInv, TypeOK, Releasing
  <2> QED BY <1>2, <1>5, <2>1, <2>2, <2>3 DEF IInv, OneOwner
<1>7. FixedSize'
  BY <1>2, <1>5 DEF IInv, FixedSize
<1> QED BY <1>3, <1>4, <1>6, <1>7 DEF IInv

\* The second critical section moves no block.
LEMMA RegisterIInv ==
    ASSUME NEW g \in Goroutines, IInv, Register(g)
    PROVE  IInv'
<1>1. /\ pc[g] = "register" /\ pc' = [pc EXCEPT ![g] = "send"]
      /\ uses' = Track(uses, cols[g])
      /\ pool' = pool /\ out' = out /\ cols' = cols /\ totalRetired' = totalRetired
  BY DEF Register
<1>2. PICK S \in SUBSET Blocks : uses \in [S -> Nat]
  BY DEF IInv, TypeOK
<1>3. TypeOK'
  <2>1. S \cup {cols[g]} \in SUBSET Blocks
    BY <1>1 DEF IInv, HoldsBlock
  <2>2. uses' \in [S \cup {cols[g]} -> Nat]
    BY <1>1, <1>2 DEF Track
  <2>3. pc' \in [Goroutines -> {"idle", "create", "register", "send"}]
    BY <1>1 DEF IInv, TypeOK
  <2> QED BY <1>1, <2>1, <2>2, <2>3 DEF IInv, TypeOK
<1>4. HoldsBlock'
  BY <1>1 DEF IInv, HoldsBlock, TypeOK
<1>5. Releasing' = Releasing
  BY <1>1 DEF IInv, TypeOK, Releasing
<1>6. OneOwner' /\ FixedSize'
  BY <1>1, <1>5 DEF IInv, OneOwner, FixedSize
<1> QED BY <1>3, <1>4, <1>6 DEF IInv

\* The send at the end of Release puts the goroutine's block into the channel.
LEMMA PoolSendIInv ==
    ASSUME NEW g \in Goroutines, IInv, PoolSend(g)
    PROVE  IInv'
<1>1. /\ pc[g] = "send" /\ pc' = [pc EXCEPT ![g] = "idle"]
      /\ pool' = Append(pool, cols[g]) /\ cols' = [cols EXCEPT ![g] = NoBlock]
      /\ uses' = uses /\ out' = out /\ totalRetired' = totalRetired
  BY DEF PoolSend
<1>2. cols[g] \in Blocks /\ pool \in Seq(Blocks) /\ Len(pool) \in Nat
  BY <1>1 DEF IInv, HoldsBlock, TypeOK
<1>3. /\ pool' \in Seq(Blocks) /\ Len(pool') = Len(pool) + 1
      /\ \A i \in 1..Len(pool) : pool'[i] = pool[i]
      /\ pool'[Len(pool) + 1] = cols[g]
  BY <1>1, <1>2, AppendProperties
<1>4. TypeOK'
  BY <1>1, <1>3 DEF IInv, TypeOK
<1>5. HoldsBlock'
  BY <1>1 DEF IInv, HoldsBlock, TypeOK
<1>6. Releasing' = Releasing \ {g} /\ g \in Releasing
  BY <1>1, ReleasingChanges DEF IInv, Releasing
<1>7. OneOwner'
  <2>1. \A i \in 1..Len(pool') : i \in 1..Len(pool) \/ i = Len(pool) + 1
    BY <1>2, <1>3
  <2>2. \A i \in 1..Len(pool) : pool[i] # cols[g]
    BY <1>6 DEF IInv, OneOwner
  <2>3. \A i, j \in 1..Len(pool') : pool'[i] = pool'[j] => i = j
    BY <1>3, <2>1, <2>2 DEF IInv, OneOwner
  <2>4. \A i \in 1..Len(pool') : pool'[i] \notin out'
    BY <1>1, <1>3, <1>6, <2>1 DEF IInv, OneOwner
  <2>5. \A h \in Releasing' : cols'[h] = cols[h] /\ h \in Releasing /\ cols[h] # cols[g]
    BY <1>1, <1>6 DEF IInv, TypeOK, OneOwner, Releasing
  <2>6. \A h \in Releasing' : \A i \in 1..Len(pool') : pool'[i] # cols'[h]
    BY <1>3, <2>1, <2>5 DEF IInv, OneOwner
  <2> QED BY <1>1, <2>3, <2>4, <2>5, <2>6 DEF IInv, OneOwner
<1>8. FixedSize'
  <2>1. Cardinality(Releasing') = Cardinality(Releasing) - 1
    BY <1>6, ReleasingFinite, FS_RemoveElement
  <2>2. Cardinality(out) \in Nat
    BY FS_CardinalityType DEF IInv, FixedSize
  <2> QED BY <1>1, <1>2, <1>3, <2>1, <2>2, ReleasingFinite DEF IInv, FixedSize
<1> QED BY <1>4, <1>5, <1>7, <1>8 DEF IInv

\* Every step of the pool keeps the invariant.
LEMMA NextIInv == IInv /\ [Next]_vars => IInv'
<1> SUFFICES ASSUME IInv, [Next]_vars PROVE IInv'
  OBVIOUS
<1>1. CASE Acquire
  BY <1>1, AcquireIInv
<1>2. ASSUME NEW g \in Goroutines, NEW b \in out, ReleaseCount(g, b) PROVE IInv'
  BY <1>2, ReleaseCountIInv
<1>3. ASSUME NEW g \in Goroutines, Create(g) PROVE IInv'
  BY <1>3, CreateIInv
<1>4. ASSUME NEW g \in Goroutines, Register(g) PROVE IInv'
  BY <1>4, RegisterIInv
<1>5. ASSUME NEW g \in Goroutines, PoolSend(g) PROVE IInv'
  BY <1>5, PoolSendIInv
<1>6. CASE UNCHANGED vars
  BY <1>6 DEF vars, IInv, TypeOK, HoldsBlock, OneOwner, FixedSize, Releasing
<1>7. Quiescent => UNCHANGED vars
  BY DEF Quiescent
<1> QED BY <1>1, <1>2, <1>3, <1>4, <1>5, <1>6, <1>7 DEF Next

\* The invariant holds in every state of the pool.
LEMMA InvariantHolds == Spec => []IInv
BY InitIInv, NextIInv, PTL DEF Spec

(***************************************************************************)
(* pool.go keeps its types and never gives a block two owners.             *)
(***************************************************************************)
THEOREM TypeAndOwnership == Spec => [](TypeOK /\ OneOwner)
<1>1. IInv => TypeOK /\ OneOwner
  BY DEF IInv
<1> QED BY <1>1, InvariantHolds, PTL

(***************************************************************************)
(* The send that ends Release (pool.go p.pool <- cols) always finds room.  *)
(***************************************************************************)
THEOREM ReleaseIsNonBlocking == Spec => []ReleaseNeverBlocks
<1>1. IInv => ReleaseNeverBlocks
  <2> SUFFICES ASSUME IInv, NEW g \in Goroutines, pc[g] = "send"
               PROVE  Len(pool) < PoolSize
    BY DEF ReleaseNeverBlocks
  <2>1. Releasing # {}
    BY DEF Releasing
  <2>2. Cardinality(Releasing) \in Nat \ {0}
    BY <2>1, ReleasingFinite, FS_EmptySet
  <2>3. Cardinality(out) \in Nat /\ Len(pool) \in Nat
    BY FS_CardinalityType DEF IInv, FixedSize, TypeOK
  <2> QED BY <2>2, <2>3 DEF IInv, FixedSize
<1> QED BY <1>1, InvariantHolds, PTL

\* The channel's length and the lent blocks are numbers that add up.
LEMMA Counts ==
    ASSUME IInv
    PROVE  /\ Len(pool) \in Nat /\ Cardinality(out) \in Nat
           /\ Cardinality(Releasing) \in Nat /\ IsFiniteSet(out)
BY ReleasingFinite, FS_CardinalityType DEF IInv, FixedSize, TypeOK

\* Each step of BlockPool is a step of BoundedPool, or changes neither count.
LEMMA StepSimulation ==
    ASSUME IInv, [Next]_vars
    PROVE  [Abstract!Next]_(Abstract!poolVars)
<1> USE DEF Abstract!Next, Abstract!Acquire, Abstract!Release, Abstract!poolVars
<1>0. /\ Len(pool) \in Nat /\ Cardinality(out) \in Nat
      /\ Cardinality(Releasing) \in Nat /\ IsFiniteSet(out)
  BY Counts
<1>1. CASE Acquire
  <2>1. pool \in Seq(Blocks) /\ pool # <<>> /\ pool' = Tail(pool)
    BY <1>1 DEF Acquire, IInv, TypeOK
  <2>2. Len(pool) > 0 /\ Len(pool') = Len(pool) - 1 /\ Head(pool) = pool[1]
    BY <2>1, HeadTailProperties, EmptySeq
  <2>3. Head(pool) \notin out
    BY <1>0, <2>2 DEF IInv, OneOwner
  <2>4. Cardinality(out') = Cardinality(out) + 1
    BY <1>0, <1>1, <2>3, FS_AddElement DEF Acquire
  <2>5. Releasing' = Releasing
    BY <1>1 DEF Acquire, Releasing
  <2> QED BY <1>0, <2>2, <2>4, <2>5
<1>2. ASSUME NEW g \in Goroutines, NEW b \in out, ReleaseCount(g, b)
      PROVE  UNCHANGED Abstract!poolVars
  <2>1. pool' = pool /\ out' = out \ {b}
    BY <1>2 DEF ReleaseCount
  <2>2. Releasing' = Releasing \cup {g} /\ g \notin Releasing
    BY <1>2 DEF ReleaseCount, IInv, TypeOK, Releasing
  <2>3. Cardinality(out') = Cardinality(out) - 1
    BY <1>0, <2>1, FS_RemoveElement
  <2>4. Cardinality(Releasing') = Cardinality(Releasing) + 1
    BY <2>2, ReleasingFinite, FS_AddElement
  <2> QED BY <1>0, <2>1, <2>3, <2>4
<1>3. ASSUME NEW g \in Goroutines, Create(g) \/ Register(g)
      PROVE  UNCHANGED Abstract!poolVars
  <2>1. Releasing' = Releasing
    BY <1>3 DEF Create, CreateFrom, Register, IInv, TypeOK, Releasing
  <2>2. pool' = pool /\ out' = out
    BY <1>3 DEF Create, CreateFrom, Register
  <2> QED BY <2>1, <2>2
<1>4. ASSUME NEW g \in Goroutines, PoolSend(g)
      PROVE  Abstract!Release
  <2>1. Len(pool') = Len(pool) + 1 /\ out' = out
    BY <1>4, AppendProperties DEF PoolSend, IInv, TypeOK, HoldsBlock
  <2>2. Releasing' = Releasing \ {g} /\ g \in Releasing
    BY <1>4 DEF PoolSend, IInv, TypeOK, Releasing
  <2>3. Cardinality(Releasing') = Cardinality(Releasing) - 1
    BY <2>2, ReleasingFinite, FS_RemoveElement
  <2>4. Cardinality(Releasing) > 0
    BY <1>0, <2>2, ReleasingFinite, FS_EmptySet
  <2> QED BY <1>0, <2>1, <2>3, <2>4
<1>5. CASE UNCHANGED vars
  BY <1>5 DEF vars, Releasing
<1>6. Quiescent => UNCHANGED vars
  BY DEF Quiescent
<1> QED BY <1>1, <1>2, <1>3, <1>4, <1>5, <1>6 DEF Next

(***************************************************************************)
(* The recycling pool of pool.go, retirement and all, behaves to its users *)
(* as the counted pool of block.go that the pipeline is modelled with.     *)
(***************************************************************************)
THEOREM PoolRefinement == Spec => ImplementsBoundedPool
<1>1. Init => Abstract!Init
  <2> SUFFICES ASSUME Init PROVE Abstract!Init
    OBVIOUS
  <2>1. Len(pool) = PoolSize /\ out = {} /\ Releasing = {}
    BY DEF Init, Releasing
  <2> QED BY <2>1, FS_EmptySet DEF Abstract!Init
<1>2. IInv /\ [Next]_vars => [Abstract!Next]_(Abstract!poolVars)
  BY StepSimulation
<1> QED BY <1>1, <1>2, InvariantHolds, PTL DEF Spec, ImplementsBoundedPool, Abstract!Spec
=============================================================================
