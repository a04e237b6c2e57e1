--------------------------- MODULE CacheLineProofs ---------------------------
(* What each operator of CacheLine does to the fields of a line, for any set   *)
(* of values.  The proofs about the drivers' DMA memory cite these lemmas and  *)
(* never look into the operators.                                              *)
EXTENDS CacheLine, TLAPS

(* Only a held line can differ from memory or be dirty, and only cacheable     *)
(* memory is ever held.                                                        *)
LineOK(l, cached) ==
  /\ ~l.held => l.cpu = l.mem /\ ~l.dirty
  /\ l.held => cached

(* The fields of a line have the types of their names.                         *)
LEMMA LineFields ==
  ASSUME NEW V, NEW l \in LineType(V)
  PROVE  /\ l.mem \in V /\ l.cpu \in V
         /\ l.held \in BOOLEAN /\ l.dirty \in BOOLEAN
  BY DEF LineType

(* A coherent line is not held: it has one value.                              *)
LEMMA CoherentLine ==
  ASSUME NEW V, NEW v \in V
  PROVE  /\ Coherent(v) \in LineType(V)
         /\ Coherent(v).mem = v /\ Coherent(v).cpu = v
         /\ ~Coherent(v).held /\ ~Coherent(v).dirty
         /\ \A cached : LineOK(Coherent(v), cached)
  BY DEF Coherent, LineType, LineOK

(* A store is seen by the CPU; memory follows at once only if not cacheable.   *)
LEMMA StoreLine ==
  ASSUME NEW V, NEW l \in LineType(V), NEW v \in V, NEW cached \in BOOLEAN
  PROVE  /\ Store(l, v, cached) \in LineType(V)
         /\ Store(l, v, cached).cpu = v
         /\ Store(l, v, cached).mem = IF cached THEN l.mem ELSE v
         /\ Store(l, v, cached).held = cached
         /\ Store(l, v, cached).dirty = cached
         /\ LineOK(Store(l, v, cached), cached)
  BY DEF Store, Coherent, LineType, LineOK

(* A load or a prefetch changes neither value.                                 *)
LEMMA FillLine ==
  ASSUME NEW V, NEW l \in LineType(V), NEW cached \in BOOLEAN
  PROVE  /\ Fill(l, cached) \in LineType(V)
         /\ Fill(l, cached).mem = l.mem /\ Fill(l, cached).cpu = l.cpu
         /\ Fill(l, cached).dirty = l.dirty
         /\ Fill(l, cached).held = (l.held \/ cached)
         /\ LineOK(l, cached) => LineOK(Fill(l, cached), cached)
  BY DEF Fill, LineType, LineOK

(* A clean writes a dirty line back and leaves what the CPU reads.             *)
LEMMA CleanLine ==
  ASSUME NEW V, NEW l \in LineType(V)
  PROVE  /\ Clean(l) \in LineType(V)
         /\ Clean(l).cpu = l.cpu /\ Clean(l).held = l.held /\ ~Clean(l).dirty
         /\ Clean(l).mem = IF l.dirty THEN l.cpu ELSE l.mem
         /\ \A cached : LineOK(l, cached) => LineOK(Clean(l), cached)
  BY DEF Clean, LineType, LineOK

(* An invalidation or an eviction leaves one value: the dirty one if any.      *)
LEMMA InvalidateLine ==
  ASSUME NEW V, NEW l \in LineType(V)
  PROVE  /\ Invalidate(l) \in LineType(V)
         /\ Invalidate(l).mem = IF l.dirty THEN l.cpu ELSE l.mem
         /\ Invalidate(l).cpu = IF l.dirty THEN l.cpu ELSE l.mem
         /\ ~Invalidate(l).held /\ ~Invalidate(l).dirty
         /\ \A cached : LineOK(Invalidate(l), cached)
  BY DEF Invalidate, Coherent, LineType, LineOK

(* A bus master's write reaches memory; a held copy does not follow.           *)
LEMMA DmaWriteLine ==
  ASSUME NEW V, NEW l \in LineType(V), NEW v \in V
  PROVE  /\ DmaWrite(l, v) \in LineType(V)
         /\ DmaWrite(l, v).mem = v
         /\ DmaWrite(l, v).cpu = IF l.held THEN l.cpu ELSE v
         /\ DmaWrite(l, v).held = l.held
         /\ DmaWrite(l, v).dirty = (l.held /\ l.dirty)
         /\ ~l.dirty => ~DmaWrite(l, v).dirty
         /\ \A cached : LineOK(l, cached) => LineOK(DmaWrite(l, v), cached)
  BY DEF DmaWrite, Coherent, LineType, LineOK
=============================================================================
