----------------------------- MODULE CacheLine ------------------------------
(* One unit of DMA memory as a CPU with a non-coherent data cache sees it.     *)
(* mem is what a bus master reads and writes; cpu is what the CPU reads; held  *)
(* says that the cache holds the line and dirty that it must be written back.  *)
(* A line that is not held has cpu = mem, so uncached memory is simply a line  *)
(* that is never held.  The cache is hardware: the operators say what the      *)
(* driver's DMAOps hooks and its loads and stores do to a line.                *)

LineType(V) == [mem : V, cpu : V, held : BOOLEAN, dirty : BOOLEAN]

Coherent(v) == [mem |-> v, cpu |-> v, held |-> FALSE, dirty |-> FALSE]

(* A CPU store: into the cache when the memory is cacheable.                   *)
Store(l, v, cached) ==
  IF cached THEN [l EXCEPT !.cpu = v, !.held = TRUE, !.dirty = TRUE]
            ELSE Coherent(v)

(* A load, or a speculative prefetch, brings the line in.                      *)
Fill(l, cached) == [l EXCEPT !.held = @ \/ cached]

(* DC CVAC: write a dirty line back and keep it.                               *)
Clean(l) == IF l.dirty THEN [l EXCEPT !.mem = l.cpu, !.dirty = FALSE] ELSE l

(* DC CIVAC, or an eviction: write a dirty line back and drop it.              *)
Invalidate(l) == IF l.dirty THEN Coherent(l.cpu) ELSE Coherent(l.mem)

(* A bus master writes memory; a copy in the cache does not follow.            *)
DmaWrite(l, v) == IF l.held THEN [l EXCEPT !.mem = v] ELSE Coherent(v)
=============================================================================
