---------------------------- MODULE MCBlockPool ----------------------------
(* BlockPool with two releasing goroutines over a pool of three blocks.    *)
EXTENDS BlockPool, TLC

CONSTANTS b1, b2, b3, b4, g1, g2

MCBlocks == {b1, b2, b3, b4}

MCGoroutines == {g1, g2}
=============================================================================
