---------------------------- MODULE BoundedPool ----------------------------
(***************************************************************************)
(* What block.Pool (src/internal/block/block.go) promises its users when   *)
(* blocks are reused: PoolSize blocks exist, each one is either free or    *)
(* lent, Acquire waits for a free one, and a release makes one free again. *)
(* BlockPool refines this module; Pipeline uses its actions.               *)
(***************************************************************************)
EXTENDS Naturals

CONSTANT PoolSize

VARIABLES free, lent

poolVars == <<free, lent>>

Init ==
    /\ free = PoolSize
    /\ lent = 0

\* pool.go Acquire: blocks while the pool is empty, and takes no context.
Acquire ==
    /\ free > 0
    /\ free' = free - 1
    /\ lent' = lent + 1

\* pool.go Release, as a user sees it.
Release ==
    /\ lent > 0
    /\ free' = free + 1
    /\ lent' = lent - 1

Next == Acquire \/ Release

Spec == Init /\ [][Next]_poolVars
=============================================================================
