------------------------------ MODULE MCSpiNor ------------------------------
(* SpiNor on a chip of three pages and three erase blocks, shared by two       *)
(* goroutines.  The addresses and lengths straddle the edges: before the chip, *)
(* unaligned, across the page boundary, up to the end and past it.             *)
EXTENDS SpiNor

MCAddrs == {-1, 3, 4}
=============================================================================
