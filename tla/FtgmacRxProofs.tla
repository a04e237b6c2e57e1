--------------------------- MODULE FtgmacRxProofs ---------------------------
(* Proofs about FtgmacRx, for every ring size, number of frames and set of     *)
(* memories, cached or not.                                                    *)
EXTENDS FtgmacRx, CacheLineProofs

Polling == pc \in {"check", "invalidate", "copy", "release", "clean"}
Wiping == pc \in {"reset", "rings"}

(* When calls and the engine can be where they are: callers poll only after an *)
(* Init that laid out the rings, and without one the engine is off.            *)
Shape ==
  /\ Polling => up
  /\ Wiping => ~up
  /\ ~up /\ pc # "reset" => mac = "off" /\ queue = <<>>
  /\ pc = "rings" => macPtr = 0
  /\ mac = "status" => arrived > 0

Lines == \A i \in Slots : LineOK(desc[i], cached) /\ LineOK(buf[i], cached)

(* The end-of-ring mark is right wherever a buffer's address is.               *)
Whole(d, i) == d.addr => (d.edorr <=> i = Last)

Marks ==
  /\ \A i \in Slots : /\ desc[i].mem.edorr => i = Last
                      /\ desc[i].cpu.edorr => i = Last
                      /\ Whole(desc[i].mem, i)
                      /\ desc[i].dirty => Whole(desc[i].cpu, i)
  /\ mac = "status" => (macLast <=> macPtr = Last)
  /\ up => \A i \in Slots : /\ desc[i].cpu.addr /\ (desc[i].cpu.edorr <=> i = Last)
                            /\ desc[i].mem.addr /\ (desc[i].mem.edorr <=> i = Last)
  /\ Holding => (d0.edorr <=> rxIdx = Last)

(* Only the slot being given back is ever dirty, a clean copy that reads ready *)
(* is what memory holds, and the MAC works on a slot that is free.             *)
Ownership ==
  up =>
    /\ \A i \in Slots :
         /\ desc[i].dirty => i = rxIdx /\ pc = "clean" /\ desc[i].mem.ready
         /\ ~desc[i].dirty /\ desc[i].cpu.ready => desc[i].cpu = desc[i].mem
    /\ Holding => desc[rxIdx].mem.ready
    /\ mac = "status" => ~desc[macPtr].mem.ready

Inv == TypeOK /\ Shape /\ Lines /\ Marks /\ Ownership

-----------------------------------------------------------------------------
(* Types of the state's parts, as the proofs use them.                         *)

(* The ring has a first and a last slot, and the index stays inside it.        *)
LEMMA Ring ==
  /\ RxCount \in Nat \ {0} /\ 0 \in Slots /\ Last \in Slots /\ Slots \subseteq Nat
  /\ \A i \in Slots : NextIdx(i) \in Slots /\ (i # Last => i + 1 \in Slots)
  BY RxAssumption DEF Slots, Last, NextIdx

(* The words of a descriptor.                                                  *)
LEMMA DescFields ==
  ASSUME NEW d \in Desc
  PROVE  /\ d.ready \in BOOLEAN /\ d.status \in Status /\ d.edorr \in BOOLEAN
         /\ d.addr \in BOOLEAN
  BY DEF Desc

(* Both views of a descriptor's line are descriptors.                          *)
LEMMA DescLine ==
  ASSUME NEW l \in LineType(Desc)
  PROVE  /\ l.mem \in Desc /\ l.cpu \in Desc
         /\ l.mem.ready \in BOOLEAN /\ l.mem.edorr \in BOOLEAN /\ l.mem.addr \in BOOLEAN
         /\ l.cpu.ready \in BOOLEAN /\ l.cpu.edorr \in BOOLEAN /\ l.cpu.addr \in BOOLEAN
         /\ l.held \in BOOLEAN /\ l.dirty \in BOOLEAN
  BY LineFields, DescFields

(* Initially the ring is empty and coherent and the MAC is off.                *)
LEMMA InitInv == Init => Inv
<1> SUFFICES ASSUME Init PROVE Inv
  OBVIOUS
<1>1. Cleared \in Desc /\ Blank \in Content
  BY DEF Cleared, Desc, Status, Content
<1>2. \A i \in Slots : desc[i] = Coherent(Cleared) /\ buf[i] = Coherent(Blank)
  BY DEF Init
<1>3. /\ Coherent(Cleared) \in LineType(Desc) /\ LineOK(Coherent(Cleared), cached)
      /\ Coherent(Cleared).mem = Cleared /\ Coherent(Cleared).cpu = Cleared
      /\ ~Coherent(Cleared).dirty
  BY <1>1, CoherentLine
<1>4. Coherent(Blank) \in LineType(Content) /\ LineOK(Coherent(Blank), cached)
  BY <1>1, CoherentLine
<1>5. TypeOK
  <2>1. desc \in [Slots -> LineType(Desc)] /\ buf \in [Slots -> LineType(Content)]
    BY <1>3, <1>4 DEF Init
  <2>2. <<>> \in Seq(Frames) /\ <<>> \in Seq(Content)
    OBVIOUS
  <2>3. cached \in BOOLEAN /\ inits \in 0 .. MaxInits /\ arrived \in 0 .. MaxFrames
    BY RxAssumption DEF Init
  <2> QED
    BY <1>1, <2>1, <2>2, <2>3, Ring DEF Init, TypeOK, PCs
<1>6. Shape /\ Ownership
  BY DEF Init, Shape, Ownership, Holding, Polling, Wiping
<1>7. Lines /\ Marks
  BY <1>2, <1>3, <1>4 DEF Init, Lines, Marks, Whole, Holding, Cleared
<1> QED
  BY <1>5, <1>6, <1>7 DEF Inv

(* A poll begins by looking at memory, not at the cache.                       *)
LEMMA PollBeginInv == Inv /\ PollBegin => Inv'
<1> SUFFICES ASSUME Inv, PollBegin PROVE Inv'
  OBVIOUS
<1> DEFINE l == desc[rxIdx]
           m == Invalidate(l)
<1>1. rxIdx \in Slots /\ l \in LineType(Desc)
  BY DEF Inv, TypeOK
<1>2. /\ m \in LineType(Desc) /\ LineOK(m, cached) /\ ~m.dirty
      /\ m.mem = (IF l.dirty THEN l.cpu ELSE l.mem) /\ m.cpu = m.mem
  BY <1>1, InvalidateLine
<1>3. up /\ ~l.dirty
  BY <1>1 DEF Inv, Ownership, PollBegin
<1>4. /\ desc' = [desc EXCEPT ![rxIdx] = m] /\ pc = "idle" /\ pc' = "check"
      /\ UNCHANGED <<rxIdx, d0, linkOK, up, inits, cached, buf, engine, history>>
  BY DEF PollBegin, Goto
<1> HIDE DEF m
<1>5. TypeOK'
  BY <1>1, <1>2, <1>4 DEF Inv, TypeOK, PCs, engine, history
<1>6. Shape' /\ Lines'
  BY <1>1, <1>2, <1>3, <1>4 DEF Inv, TypeOK, Shape, Lines, Polling, Wiping, engine, history
<1>7. Marks'
  BY <1>1, <1>2, <1>3, <1>4 DEF Inv, TypeOK, Marks, Whole, Holding, Ownership, engine, history
<1>8. Ownership'
  BY <1>1, <1>2, <1>3, <1>4 DEF Inv, TypeOK, Ownership, Holding, engine, history
<1> QED
  BY <1>5, <1>6, <1>7, <1>8 DEF Inv

(* The line is clean here, so a frame read as ready is ready, and d0 has the    *)
(* end-of-ring mark.                                                           *)
LEMMA CheckReadyInv == Inv /\ CheckReady => Inv'
<1> SUFFICES ASSUME Inv, CheckReady PROVE Inv'
  OBVIOUS
<1> DEFINE l == desc[rxIdx]
           m == Fill(l, cached)
<1>1. rxIdx \in Slots /\ l \in LineType(Desc) /\ cached \in BOOLEAN /\ l.cpu \in Desc
  BY LineFields DEF Inv, TypeOK
<1>2. /\ m \in LineType(Desc) /\ LineOK(m, cached)
      /\ m.mem = l.mem /\ m.cpu = l.cpu /\ m.dirty = l.dirty
  BY <1>1, FillLine DEF Inv, Lines
<1>3. /\ up /\ ~l.dirty /\ (l.cpu.ready => l.mem.ready)
      /\ l.cpu.edorr <=> rxIdx = Last
  BY <1>1 DEF Inv, Shape, Polling, Ownership, Marks, CheckReady
<1>4. /\ desc' = [desc EXCEPT ![rxIdx] = m] /\ pc = "check"
      /\ \/ ~l.cpu.ready /\ pc' = "idle" /\ d0' = d0
         \/ l.cpu.ready /\ pc' \in {"invalidate", "release"} /\ d0' = l.cpu
      /\ UNCHANGED <<rxIdx, linkOK, up, inits, cached, buf, engine, history>>
  BY DEF CheckReady, Goto
<1> HIDE DEF m
<1>5. TypeOK'
  BY <1>1, <1>2, <1>4 DEF Inv, TypeOK, PCs, engine, history
<1>6. Shape' /\ Lines'
  BY <1>1, <1>2, <1>4 DEF Inv, TypeOK, Shape, Lines, Polling, Wiping, engine, history
<1>7. Marks'
  BY <1>1, <1>2, <1>3, <1>4 DEF Inv, TypeOK, Marks, Whole, Holding, Ownership, engine, history
<1>8. Ownership'
  BY <1>1, <1>2, <1>3, <1>4 DEF Inv, TypeOK, Ownership, Holding, engine, history
<1> QED
  BY <1>5, <1>6, <1>7, <1>8 DEF Inv

(* The descriptor is given back with the end-of-ring mark that was read.       *)
LEMMA ReleaseInv == Inv /\ Release => Inv'
<1> SUFFICES ASSUME Inv, Release PROVE Inv'
  OBVIOUS
<1> DEFINE l == desc[rxIdx]
           v == [l.cpu EXCEPT !.ready = FALSE, !.status = "good", !.edorr = d0.edorr]
           m == Store(l, v, cached)
<1>1. /\ rxIdx \in Slots /\ l \in LineType(Desc) /\ cached \in BOOLEAN /\ v \in Desc
      /\ ~v.ready /\ v.edorr = d0.edorr /\ v.addr = l.cpu.addr
  <2>1. rxIdx \in Slots /\ l \in LineType(Desc) /\ cached \in BOOLEAN /\ d0 \in Desc
    BY DEF Inv, TypeOK
  <2>2. l.cpu \in Desc
    BY <2>1, LineFields
  <2> QED
    BY <2>1, <2>2 DEF Desc, Status
<1>2. /\ m \in LineType(Desc) /\ LineOK(m, cached) /\ m.cpu = v
      /\ m.mem = (IF cached THEN l.mem ELSE v) /\ m.dirty = cached
  <2> HIDE DEF v
  <2> QED
    BY <1>1, StoreLine
<1>3. /\ up /\ l.mem.ready /\ l.cpu.addr
      /\ d0.edorr <=> rxIdx = Last
  BY <1>1 DEF Inv, Shape, Polling, Ownership, Marks, Holding, Release
<1>4. /\ desc' = [desc EXCEPT ![rxIdx] = m] /\ pc = "release" /\ pc' = "clean"
      /\ UNCHANGED <<rxIdx, d0, linkOK, up, inits, cached, buf, engine, history>>
  BY DEF Release, Goto
<1> HIDE DEF v
<1> HIDE DEF m
<1>5. TypeOK'
  BY <1>1, <1>2, <1>4 DEF Inv, TypeOK, PCs, engine, history
<1>6. Shape' /\ Lines'
  BY <1>1, <1>2, <1>4 DEF Inv, TypeOK, Shape, Lines, Polling, Wiping, engine, history
<1>7. Marks'
  BY <1>1, <1>2, <1>3, <1>4 DEF Inv, TypeOK, Marks, Whole, Holding, Ownership, engine, history
<1>8. Ownership'
  BY <1>1, <1>2, <1>3, <1>4 DEF Inv, TypeOK, Ownership, Holding, engine, history
<1> QED
  BY <1>5, <1>6, <1>7, <1>8 DEF Inv

(* What the CPU wrote becomes what the MAC reads.                              *)
LEMMA CleanDescInv == Inv /\ CleanDesc => Inv'
<1> SUFFICES ASSUME Inv, CleanDesc PROVE Inv'
  OBVIOUS
<1> DEFINE l == desc[rxIdx]
           m == Clean(l)
<1>1. rxIdx \in Slots /\ NextIdx(rxIdx) \in Slots /\ l \in LineType(Desc) /\ Cleared \in Desc
  BY Ring DEF Inv, TypeOK, Cleared, Desc, Status
<1>2. /\ m \in LineType(Desc) /\ LineOK(m, cached) /\ m.cpu = l.cpu /\ ~m.dirty
      /\ m.mem = (IF l.dirty THEN l.cpu ELSE l.mem)
  BY <1>1, CleanLine DEF Inv, Lines
<1>3. up /\ (l.dirty => l.mem.ready)
  BY <1>1 DEF Inv, Shape, Polling, Ownership, CleanDesc
<1>4. /\ desc' = [desc EXCEPT ![rxIdx] = m] /\ pc = "clean" /\ pc' = "idle"
      /\ rxIdx' = NextIdx(rxIdx) /\ d0' = Cleared
      /\ UNCHANGED <<linkOK, up, inits, cached, buf, engine, history>>
  BY DEF CleanDesc
<1> HIDE DEF m
<1>5. TypeOK'
  BY <1>1, <1>2, <1>4 DEF Inv, TypeOK, PCs, engine, history
<1>6. Shape' /\ Lines'
  BY <1>1, <1>2, <1>4 DEF Inv, TypeOK, Shape, Lines, Polling, Wiping, engine, history
<1>7. Marks'
  BY <1>1, <1>2, <1>3, <1>4 DEF Inv, TypeOK, Marks, Whole, Holding, Ownership, engine, history
<1>8. Ownership'
  BY <1>1, <1>2, <1>3, <1>4 DEF Inv, TypeOK, Ownership, Holding, engine, history
<1> QED
  BY <1>5, <1>6, <1>7, <1>8 DEF Inv

(* An eviction writes back at most what the driver has stored.                 *)
LEMMA EvictDescInv == ASSUME NEW i \in Slots PROVE Inv /\ EvictDesc(i) => Inv'
<1> SUFFICES ASSUME Inv, EvictDesc(i) PROVE Inv'
  OBVIOUS
<1> DEFINE l == desc[i]
           m == Invalidate(l)
<1>1. l \in LineType(Desc)
  BY DEF Inv, TypeOK
<1>2. /\ m \in LineType(Desc) /\ LineOK(m, cached) /\ ~m.dirty
      /\ m.mem = (IF l.dirty THEN l.cpu ELSE l.mem) /\ m.cpu = m.mem
  BY <1>1, InvalidateLine
<1>3. l.dirty \in BOOLEAN
  BY <1>1, LineFields
<1>4. desc' = [desc EXCEPT ![i] = m] /\ UNCHANGED <<driver, buf, engine, history>>
  BY DEF EvictDesc
<1> HIDE DEF m
<1>5. TypeOK'
  BY <1>1, <1>2, <1>4 DEF Inv, TypeOK, PCs, driver, engine, history
<1>6. Shape' /\ Lines'
  BY <1>1, <1>2, <1>4 DEF Inv, TypeOK, Shape, Lines, Polling, Wiping, driver, engine, history
<1>7. Marks'
  BY <1>1, <1>2, <1>3, <1>4 DEF Inv, TypeOK, Marks, Whole, Holding, Ownership, driver, engine, history
<1>8. Ownership'
  BY <1>1, <1>2, <1>3, <1>4 DEF Inv, TypeOK, Ownership, Holding, driver, engine, history
<1> QED
  BY <1>5, <1>6, <1>7, <1>8 DEF Inv

(* A prefetch changes no value.                                                *)
LEMMA PrefetchDescInv == ASSUME NEW i \in Slots PROVE Inv /\ PrefetchDesc(i) => Inv'
<1> SUFFICES ASSUME Inv, PrefetchDesc(i) PROVE Inv'
  OBVIOUS
<1> DEFINE l == desc[i]
           m == Fill(l, cached)
<1>1. l \in LineType(Desc) /\ cached \in BOOLEAN
  BY DEF Inv, TypeOK
<1>2. /\ m \in LineType(Desc) /\ LineOK(m, cached)
      /\ m.mem = l.mem /\ m.cpu = l.cpu /\ m.dirty = l.dirty
  BY <1>1, FillLine DEF Inv, Lines
<1>3. l.dirty \in BOOLEAN
  BY <1>1, LineFields
<1>4. desc' = [desc EXCEPT ![i] = m] /\ UNCHANGED <<driver, buf, engine, history>>
  BY DEF PrefetchDesc
<1> HIDE DEF m
<1>5. TypeOK'
  BY <1>1, <1>2, <1>4 DEF Inv, TypeOK, PCs, driver, engine, history
<1>6. Shape' /\ Lines'
  BY <1>1, <1>2, <1>4 DEF Inv, TypeOK, Shape, Lines, Polling, Wiping, driver, engine, history
<1>7. Marks'
  BY <1>1, <1>2, <1>3, <1>4 DEF Inv, TypeOK, Marks, Whole, Holding, Ownership, driver, engine, history
<1>8. Ownership'
  BY <1>1, <1>2, <1>3, <1>4 DEF Inv, TypeOK, Ownership, Holding, driver, engine, history
<1> QED
  BY <1>5, <1>6, <1>7, <1>8 DEF Inv

(* A frame's status is written back into a slot that was free.                 *)
LEMMA MacStatusInv == Inv /\ MacStatus => Inv'
<1> SUFFICES ASSUME Inv, mac = "status", NEW st \in Status, MacStatus,
                    desc' = [desc EXCEPT ![macPtr] =
                               DmaWrite(@, [@.mem EXCEPT !.ready = TRUE, !.status = st,
                                                         !.edorr = macLast])],
                    queue' = IF st = "good" THEN Append(queue, arrived) ELSE queue
             PROVE  Inv'
  BY DEF MacStatus
<1> DEFINE l == desc[macPtr]
           v == [l.mem EXCEPT !.ready = TRUE, !.status = st, !.edorr = macLast]
           m == DmaWrite(l, v)
<1>1. /\ macPtr \in Slots /\ l \in LineType(Desc) /\ v \in Desc
      /\ v.ready /\ v.edorr = macLast /\ v.addr = l.mem.addr
  <2>1. macPtr \in Slots /\ l \in LineType(Desc) /\ macLast \in BOOLEAN
    BY DEF Inv, TypeOK
  <2>2. l.mem \in Desc
    BY <2>1, LineFields
  <2> QED
    BY <2>1, <2>2 DEF Desc
<1>2. /\ m \in LineType(Desc) /\ LineOK(m, cached) /\ m.mem = v
      /\ m.cpu = (IF l.held THEN l.cpu ELSE v) /\ m.dirty = (l.held /\ l.dirty)
      /\ l.dirty \in BOOLEAN
  <2> HIDE DEF v
  <2> QED
    BY <1>1, DmaWriteLine, LineFields DEF Inv, Lines
<1>3. /\ macLast <=> macPtr = Last
      /\ up => ~l.mem.ready /\ ~l.dirty
      /\ up /\ l.held => ~l.cpu.ready
  BY <1>1 DEF Inv, Marks, Ownership
<1>4. /\ desc' = [desc EXCEPT ![macPtr] = m] /\ mac' = "idle"
      /\ macPtr' = (IF macLast THEN 0 ELSE macPtr + 1) /\ macLast' = FALSE
      /\ UNCHANGED <<driver, buf, arrived, out>>
  BY DEF MacStatus
<1>5. macPtr' \in Slots
  BY <1>1, <1>3, <1>4, Ring
<1> HIDE DEF v, m
<1>6. TypeOK'
  <2>1. arrived \in Frames /\ queue \in Seq(Frames)
    BY RxAssumption DEF Inv, TypeOK, Shape, Frames
  <2>2. queue' \in Seq(Frames)
    BY <2>1
  <2> QED
    BY <1>1, <1>2, <1>4, <1>5, <2>2 DEF Inv, TypeOK, driver
<1>7. Shape' /\ Lines'
  <2>1. ~(~up /\ pc # "reset") /\ pc # "rings"
    BY DEF Inv, Shape, Wiping
  <2> QED
    BY <1>1, <1>2, <1>4, <2>1 DEF Inv, TypeOK, Shape, Lines, Polling, Wiping, driver
<1>8. Marks'
  BY <1>1, <1>2, <1>3, <1>4 DEF Inv, TypeOK, Marks, Whole, Holding, driver
<1>9. Ownership'
  BY <1>1, <1>2, <1>3, <1>4 DEF Inv, TypeOK, Ownership, Holding, driver
<1> QED
  BY <1>6, <1>7, <1>8, <1>9 DEF Inv

(* The steps that touch no descriptor: a frame copied or received, the cache's *)
(* moves of a buffer, and Init's reset.                                        *)
LEMMA BuffersInv ==
  Inv /\ (\/ InvalidateBuf \/ CopyFrame \/ MacReceive \/ InitReset
          \/ \E i \in Slots : EvictBuf(i) \/ PrefetchBuf(i)) => Inv'
<1> SUFFICES ASSUME Inv, \/ InvalidateBuf \/ CopyFrame \/ MacReceive \/ InitReset
                         \/ \E i \in Slots : EvictBuf(i) \/ PrefetchBuf(i)
             PROVE  Inv'
  OBVIOUS
<1> USE DEF driver, memory, engine, history, Goto
<1>1. /\ rxIdx \in Slots /\ macPtr \in Slots /\ cached \in BOOLEAN
      /\ \A i \in Slots : buf[i] \in LineType(Content) /\ LineOK(buf[i], cached)
      /\ \A i \in Slots : desc[i] \in LineType(Desc)
  BY DEF Inv, TypeOK, Lines
<1>2. CASE InvalidateBuf
  <2>1. /\ Invalidate(buf[rxIdx]) \in LineType(Content)
        /\ LineOK(Invalidate(buf[rxIdx]), cached)
    BY <1>1, InvalidateLine
  <2>2. TypeOK' /\ Lines'
    BY <1>1, <1>2, <2>1 DEF InvalidateBuf, Inv, TypeOK, PCs, Lines
  <2>3. Shape' /\ Marks' /\ Ownership'
    BY <1>2 DEF InvalidateBuf, Inv, Shape, Marks, Whole, Ownership, Polling, Wiping, Holding
  <2> QED
    BY <2>2, <2>3 DEF Inv
<1>3. CASE CopyFrame
  <2>1. /\ Fill(buf[rxIdx], cached) \in LineType(Content)
        /\ LineOK(Fill(buf[rxIdx], cached), cached)
        /\ buf[rxIdx].cpu \in Content
    <3>1. buf[rxIdx] \in LineType(Content) /\ LineOK(buf[rxIdx], cached)
      BY <1>1
    <3>2. buf[rxIdx].cpu \in Content
      BY <3>1, LineFields
    <3> QED
      BY <1>1, <3>1, <3>2, FillLine
  <2>2. queue' \in Seq(Frames) /\ out' \in Seq(Content)
    <3>1. queue \in Seq(Frames) /\ out \in Seq(Content)
      BY DEF Inv, TypeOK
    <3>2. queue # <<>> => Tail(queue) \in Seq(Frames)
      BY <3>1
    <3>3. queue' \in Seq(Frames)
      BY <1>3, <3>1, <3>2 DEF CopyFrame
    <3>4. out' \in Seq(Content)
      BY <1>3, <2>1, <3>1 DEF CopyFrame
    <3> QED
      BY <3>3, <3>4
  <2>3. TypeOK' /\ Lines'
    BY <1>1, <1>3, <2>1, <2>2 DEF CopyFrame, Inv, TypeOK, PCs, Lines
  <2>4. Shape' /\ Marks' /\ Ownership'
    BY <1>3 DEF CopyFrame, Inv, Shape, Marks, Whole, Ownership, Polling, Wiping, Holding
  <2> QED
    BY <2>3, <2>4 DEF Inv
<1>4. CASE MacReceive
  <2> DEFINE m == DmaWrite(buf[macPtr], arrived')
  <2>1. arrived' \in 0 .. MaxFrames /\ arrived' > 0
    BY <1>4, RxAssumption DEF MacReceive, Inv, TypeOK
  <2>2. arrived' \in Content
    BY <2>1, RxAssumption DEF Content, Frames, Blank
  <2>3. m \in LineType(Content) /\ LineOK(m, cached)
    BY <1>1, <2>2, DmaWriteLine
  <2>4. \/ UNCHANGED <<buf, mac, macLast>>
        \/ /\ ~desc[macPtr].mem.ready /\ desc[macPtr].mem.addr
           /\ buf' = [buf EXCEPT ![macPtr] = m]
           /\ macLast' = desc[macPtr].mem.edorr /\ mac' = "status"
    BY <1>4 DEF MacReceive
  <2> HIDE DEF m
  <2>5. mac = "idle" /\ UNCHANGED <<driver, desc, macPtr, queue, out>>
    BY <1>4 DEF MacReceive
  <2>6. desc[macPtr].mem.edorr \in BOOLEAN
    BY <1>1, DescLine
  <2>7. TypeOK' /\ Lines'
    BY <1>1, <2>1, <2>3, <2>4, <2>5, <2>6 DEF Inv, TypeOK, Lines
  <2>8. Shape' /\ Marks' /\ Ownership'
    BY <1>1, <2>1, <2>4, <2>5
       DEF Inv, Shape, Marks, Whole, Ownership, Polling, Wiping, Holding
  <2> QED
    BY <2>7, <2>8 DEF Inv
<1>5. CASE InitReset
  <2>1. <<>> \in Seq(Frames)
    OBVIOUS
  <2>2. TypeOK' /\ Lines'
    BY <1>5, <2>1, Ring DEF InitReset, Inv, TypeOK, PCs, Lines
  <2>3. Shape' /\ Marks' /\ Ownership'
    BY <1>5 DEF InitReset, Inv, Shape, Marks, Whole, Ownership, Polling, Wiping, Holding
  <2> QED
    BY <2>2, <2>3 DEF Inv
<1>6. CASE \E i \in Slots : EvictBuf(i) \/ PrefetchBuf(i)
  <2>1. PICK i \in Slots : EvictBuf(i) \/ PrefetchBuf(i)
    BY <1>6
  <2>2. /\ Invalidate(buf[i]) \in LineType(Content) /\ LineOK(Invalidate(buf[i]), cached)
        /\ Fill(buf[i], cached) \in LineType(Content) /\ LineOK(Fill(buf[i], cached), cached)
    BY <1>1, InvalidateLine, FillLine
  <2>3. \/ buf' = [buf EXCEPT ![i] = Invalidate(buf[i])]
        \/ buf' = [buf EXCEPT ![i] = Fill(buf[i], cached)]
    BY <2>1 DEF EvictBuf, PrefetchBuf
  <2>4. UNCHANGED <<driver, desc, engine, history>>
    BY <2>1 DEF EvictBuf, PrefetchBuf
  <2>5. TypeOK' /\ Lines'
    BY <2>2, <2>3, <2>4 DEF Inv, TypeOK, Lines
  <2>6. Shape' /\ Marks' /\ Ownership'
    BY <2>4 DEF Inv, Shape, Marks, Whole, Ownership, Polling, Wiping, Holding
  <2> QED
    BY <2>5, <2>6 DEF Inv
<1> QED
  BY <1>2, <1>3, <1>4, <1>5, <1>6

(* Init's clear: every line is stored to, so every slot reads as empty.        *)
LEMMA ClearStored ==
  ASSUME Inv, InitClear, NEW i \in Slots
  PROVE  /\ desc'[i] \in LineType(Desc) /\ LineOK(desc'[i], cached)
         /\ desc'[i].cpu = Cleared /\ desc'[i].dirty = cached
         /\ desc'[i].mem = IF cached THEN desc[i].mem ELSE Cleared
         /\ buf'[i] \in LineType(Content) /\ LineOK(buf'[i], cached)
<1>1. Cleared \in Desc /\ Blank \in Content /\ cached \in BOOLEAN
  BY DEF Cleared, Desc, Status, Content, Inv, TypeOK
<1>2. /\ desc'[i] = Store(desc[i], Cleared, cached) /\ buf'[i] = Store(buf[i], Blank, cached)
      /\ desc[i] \in LineType(Desc) /\ buf[i] \in LineType(Content)
  BY DEF InitClear, Inv, TypeOK
<1> QED
  BY <1>1, <1>2, StoreLine

(* With up false the clear promises nothing but the marks.                     *)
LEMMA InitClearInv == Inv /\ InitClear => Inv'
<1> SUFFICES ASSUME Inv, InitClear PROVE Inv'
  OBVIOUS
<1>1. \A i \in Slots :
        /\ desc'[i] \in LineType(Desc) /\ LineOK(desc'[i], cached)
        /\ desc'[i].cpu = Cleared /\ desc'[i].dirty = cached
        /\ desc'[i].mem = IF cached THEN desc[i].mem ELSE Cleared
        /\ buf'[i] \in LineType(Content) /\ LineOK(buf'[i], cached)
  BY ClearStored
<1>2. /\ pc = "idle" /\ pc' = "reset" /\ ~up' /\ inits < MaxInits /\ inits' = inits + 1
      /\ UNCHANGED <<rxIdx, d0, linkOK, cached, engine, history>>
  BY DEF InitClear
<1>3. TypeOK'
  <2>1. desc' \in [Slots -> LineType(Desc)] /\ buf' \in [Slots -> LineType(Content)]
    BY <1>1 DEF InitClear
  <2>2. inits' \in 0 .. MaxInits
    BY <1>2, RxAssumption DEF Inv, TypeOK
  <2>3. up' \in BOOLEAN
    BY DEF InitClear
  <2> QED
    BY <1>2, <2>1, <2>2, <2>3 DEF Inv, TypeOK, PCs, engine, history
<1>4. Shape' /\ Ownership'
  BY <1>2 DEF Inv, Shape, Ownership, Polling, Wiping, Holding, engine, history
<1>5. Lines' /\ Marks'
  BY <1>1, <1>2 DEF Inv, Lines, Marks, Whole, Holding, Cleared, engine
<1> QED
  BY <1>3, <1>4, <1>5 DEF Inv

(* Init's rings: what the CPU saw of a slot is now in memory, with its buffer's *)
(* address and the end-of-ring mark.                                           *)
LEMMA RingsWritten ==
  ASSUME Inv, InitRings, NEW i \in Slots
  PROVE  /\ desc'[i] \in LineType(Desc) /\ LineOK(desc'[i], cached) /\ ~desc'[i].dirty
         /\ desc'[i].mem = desc'[i].cpu /\ desc'[i].cpu.ready = desc[i].cpu.ready
         /\ desc'[i].cpu.addr /\ (desc'[i].cpu.edorr <=> i = Last)
         /\ buf'[i] \in LineType(Content) /\ LineOK(buf'[i], cached) /\ ~buf'[i].dirty
<1> DEFINE v == [desc[i].cpu EXCEPT !.addr = TRUE, !.edorr = @ \/ i = Last]
           s == Store(desc[i], v, cached)
<1>1. /\ desc[i] \in LineType(Desc) /\ cached \in BOOLEAN /\ (desc[i].cpu.edorr => i = Last)
      /\ buf[i] \in LineType(Content) /\ LineOK(buf[i], cached)
  BY DEF Inv, TypeOK, Lines, Marks
<1>2. desc'[i] = Clean(s) /\ buf'[i] = Clean(buf[i])
  BY DEF InitRings
<1>3. v \in Desc /\ v.addr /\ (v.edorr <=> i = Last) /\ v.ready = desc[i].cpu.ready
  <2>1. desc[i].cpu \in Desc /\ desc[i].cpu.edorr \in BOOLEAN
    BY <1>1, DescLine
  <2> QED
    BY <1>1, <2>1 DEF Desc
<1> HIDE DEF v
<1>4. /\ s \in LineType(Desc) /\ LineOK(s, cached) /\ s.cpu = v
      /\ s.mem = (IF cached THEN desc[i].mem ELSE v) /\ s.dirty = cached
  BY <1>1, <1>3, StoreLine
<1> HIDE DEF s
<1>5. /\ Clean(s) \in LineType(Desc) /\ LineOK(Clean(s), cached) /\ ~Clean(s).dirty
      /\ Clean(s).cpu = v /\ Clean(s).mem = v
  BY <1>1, <1>4, CleanLine
<1>6. /\ Clean(buf[i]) \in LineType(Content) /\ LineOK(Clean(buf[i]), cached)
      /\ ~Clean(buf[i]).dirty
  BY <1>1, CleanLine
<1> QED
  BY <1>2, <1>3, <1>5, <1>6

(* After the rings every line is clean and whole, so callers may poll.         *)
LEMMA InitRingsInv == Inv /\ InitRings => Inv'
<1> SUFFICES ASSUME Inv, InitRings PROVE Inv'
  OBVIOUS
<1>1. \A i \in Slots :
        /\ desc'[i] \in LineType(Desc) /\ LineOK(desc'[i], cached) /\ ~desc'[i].dirty
        /\ desc'[i].mem = desc'[i].cpu
        /\ desc'[i].cpu.addr /\ (desc'[i].cpu.edorr <=> i = Last)
        /\ buf'[i] \in LineType(Content) /\ LineOK(buf'[i], cached)
  BY RingsWritten
<1>2. /\ pc = "rings" /\ ~up /\ queue = <<>> /\ pc' = "idle" /\ up' = TRUE
      /\ mac' = (IF linkOK THEN "idle" ELSE "off")
      /\ UNCHANGED <<rxIdx, d0, linkOK, inits, cached, macPtr, macLast, history>>
  BY DEF InitRings, Inv, Shape, Wiping
<1>3. TypeOK'
  <2>1. desc' \in [Slots -> LineType(Desc)] /\ buf' \in [Slots -> LineType(Content)]
    BY <1>1 DEF InitRings
  <2> QED
    BY <1>2, <2>1 DEF Inv, TypeOK, PCs, history
<1>4. Shape' /\ Lines'
  BY <1>1, <1>2 DEF Inv, Shape, Lines, Polling, Wiping, history
<1>5. Marks' /\ Ownership'
  BY <1>1, <1>2 DEF Inv, Marks, Whole, Ownership, Holding
<1> QED
  BY <1>3, <1>4, <1>5 DEF Inv

(* SetLink starts a MAC that was off, and only on rings that Init laid out.    *)
LEMMA SetLinkInv == Inv /\ SetLink => Inv'
<1> SUFFICES ASSUME Inv, SetLink PROVE Inv'
  OBVIOUS
<1>1. /\ linkOK' \in BOOLEAN /\ (mac' = mac \/ (up /\ mac' = "idle"))
      /\ UNCHANGED <<pc, rxIdx, d0, up, inits, cached, memory, macPtr, macLast, history>>
  BY DEF SetLink
<1>2. TypeOK'
  BY <1>1 DEF Inv, TypeOK, memory, history
<1>3. Shape' /\ Lines'
  BY <1>1 DEF Inv, Shape, Lines, Polling, Wiping, memory, history
<1>4. Marks' /\ Ownership'
  BY <1>1 DEF Inv, Marks, Whole, Ownership, Holding, memory
<1> QED
  BY <1>2, <1>3, <1>4 DEF Inv

(* Every step preserves the invariant.                                         *)
LEMMA NextInv == Inv /\ [Next]_vars => Inv'
<1> SUFFICES ASSUME Inv, [Next]_vars PROVE Inv'
  OBVIOUS
<1>1. CASE Poll
  BY <1>1, PollBeginInv, CheckReadyInv, ReleaseInv, CleanDescInv, BuffersInv DEF Poll
<1>2. CASE InitClear \/ Reinit \/ SetLink
  BY <1>2, InitClearInv, InitRingsInv, SetLinkInv, BuffersInv DEF Reinit
<1>3. CASE MacReceive \/ MacStatus
  BY <1>3, MacStatusInv, BuffersInv
<1>4. CASE Cache
  BY <1>4, EvictDescInv, PrefetchDescInv, BuffersInv DEF Cache
<1>5. CASE UNCHANGED vars
  BY <1>5 DEF Inv, TypeOK, Shape, Lines, Marks, Whole, Ownership, Holding, Polling,
              Wiping, vars, driver, memory, engine, history
<1> QED
  BY <1>1, <1>2, <1>3, <1>4, <1>5 DEF Next

(* The inductive invariant holds of every state.                               *)
THEOREM InvHolds == Spec => []Inv
<1>1. Init => Inv
  BY InitInv
<1>2. Inv /\ [Next]_vars => Inv'
  BY NextInv
<1> QED
  BY <1>1, <1>2, PTL DEF Spec

(* Every state is well typed: neither driver nor MAC runs off the ring.        *)
THEOREM TypeCorrect == Spec => []TypeOK
<1>1. Inv => TypeOK
  BY DEF Inv
<1> QED
  BY <1>1, InvHolds, PTL

(* From the moment EthPoll has seen a frame until it gives its descriptor back *)
(* the MAC stays out of both, also when Init is called with a frame coming in. *)
THEOREM NothingOverwritten == Spec => []NoOverwrite
<1>1. Inv => NoOverwrite
  BY DEF Inv, Shape, Polling, Ownership, Holding, NoOverwrite
<1> QED
  BY <1>1, InvHolds, PTL

(* The end-of-ring mark and the buffer addresses survive every release.        *)
THEOREM RingStaysIntact == Spec => []RingIntact
<1>1. ASSUME Inv PROVE RingIntact
  <2>1. \A i \in Slots : desc[i].cpu.edorr \in BOOLEAN
    BY <1>1, DescLine DEF Inv, TypeOK
  <2> QED
    BY <1>1, <2>1 DEF Inv, Marks, RingIntact
<1> QED
  BY <1>1, InvHolds, PTL

-----------------------------------------------------------------------------
(* The frames in the ring.  Base is the first slot not given back; Pending     *)
(* slots hold a good frame that EthPoll has not copied.                        *)
Base == IF pc = "clean" THEN NextIdx(rxIdx) ELSE rxIdx
Dist(b, i) == IF i >= b THEN i - b ELSE (i - b) + RxCount
Full(i) == IF desc[i].dirty THEN desc[i].cpu.ready ELSE desc[i].mem.ready
Pending(i) == Full(i) /\ desc[i].mem.status = "good" /\ ~(i = rxIdx /\ pc = "release")

(* The slots that are full are the used slots from Base on, up to the MAC's    *)
(* position.                                                                   *)
Window(used) ==
  /\ macPtr = IF Base + used < RxCount THEN Base + used ELSE (Base + used) - RxCount
  /\ \A i \in Slots : Full(i) <=> Dist(Base, i) < used

(* pos gives the distance of each queued frame's slot: in the queue's order,   *)
(* the pending slots and no others, each with its frame in the buffer.         *)
Places(used, pos) ==
  /\ \A k \in 1 .. Len(queue) : pos[k] + (Len(queue) - k) < used
  /\ \A j, k \in 1 .. Len(queue) : j < k => pos[j] < pos[k]
  /\ \A i \in Slots : Pending(i) <=> \E k \in 1 .. Len(queue) : pos[k] = Dist(Base, i)
  /\ \A i \in Slots, k \in 1 .. Len(queue) : pos[k] = Dist(Base, i) => buf[i].mem = queue[k]

Queued ==
  up => \E used \in 0 .. RxCount :
          /\ Window(used)
          /\ \E pos \in [1 .. Len(queue) -> 0 .. RxCount] : Places(used, pos)

(* The buffers: what EthPoll copies is what memory holds, and the frame coming *)
(* in is in its buffer.                                                        *)
Buffers ==
  /\ up => \A i \in Slots : ~buf[i].dirty
  /\ pc \in {"invalidate", "copy"} => desc[rxIdx].mem.status = "good"
  /\ pc = "copy" => buf[rxIdx].cpu = buf[rxIdx].mem
  /\ mac = "status" => buf[macPtr].mem = arrived

(* The driver stores nothing but free descriptors, and with no frame arriving  *)
(* between Init's clear and its reset the ring is empty until Init succeeds.   *)
Empty ==
  /\ Wiping => mac # "status" /\ rxIdx \in ReinitAt
  /\ \A i \in Slots : desc[i].dirty => ~desc[i].cpu.ready
  /\ ~up => \A i \in Slots : /\ ~desc[i].cpu.ready
                             /\ ~desc[i].dirty => ~desc[i].mem.ready

RingInv == Queued /\ Buffers /\ Empty

(* Distances along the ring, from the slot the driver gives back next.         *)
LEMMA Distances ==
  ASSUME NEW b \in Slots
  PROVE  /\ \A i \in Slots : /\ Dist(b, i) \in 0 .. Last
                             /\ Dist(b, i) = 0 <=> i = b
                             /\ Dist(NextIdx(b), i) = IF i = b THEN Last ELSE Dist(b, i) - 1
         /\ \A i, j \in Slots : Dist(b, i) = Dist(b, j) => i = j
  BY RxAssumption DEF Slots, Last, Dist, NextIdx

(* The slot at a given distance.                                               *)
LEMMA SlotAt ==
  ASSUME NEW b \in Slots, NEW n \in 0 .. Last, NEW p,
         p = IF b + n < RxCount THEN b + n ELSE (b + n) - RxCount
  PROVE  /\ p \in Slots /\ Dist(b, p) = n
         /\ (IF p = Last THEN 0 ELSE p + 1)
              = IF b + (n + 1) < RxCount THEN b + (n + 1) ELSE (b + (n + 1)) - RxCount
  BY RxAssumption DEF Slots, Last, Dist

(* Base is a slot.                                                             *)
LEMMA BaseSlot == Inv => Base \in Slots
  BY Ring DEF Inv, TypeOK, Base

(* A step that moves neither end of the window, and keeps what its slots hold, *)
(* keeps the frames where they are.                                            *)
LEMMA QueuedKept ==
  ASSUME Queued, up' => up, Base' = Base, macPtr' = macPtr, queue' = queue,
         \A i \in Slots : (Full(i)' <=> Full(i)) /\ (Pending(i)' <=> Pending(i)),
         \A i \in Slots : Pending(i) => buf'[i].mem = buf[i].mem
  PROVE  Queued'
<1> SUFFICES ASSUME up' PROVE Queued'
  BY DEF Queued
<1>1. PICK used \in 0 .. RxCount :
        Window(used) /\ \E pos \in [1 .. Len(queue) -> 0 .. RxCount] : Places(used, pos)
  BY DEF Queued
<1>2. PICK pos \in [1 .. Len(queue) -> 0 .. RxCount] : Places(used, pos)
  BY <1>1
<1>3. \A i \in Slots : Dist(Base, i)' = Dist(Base, i)
  BY DEF Dist
<1> HIDE DEF Base, Dist, Full, Pending
<1>4. Window(used)'
  BY <1>1, <1>3 DEF Window
<1>5. Places(used, pos)'
  BY <1>2, <1>3 DEF Places
<1> QED
  BY <1>4, <1>5 DEF Queued

(* Initially there is no ring.                                                 *)
LEMMA InitRing == Init => RingInv
<1> SUFFICES ASSUME Init PROVE RingInv
  OBVIOUS
<1>1. Cleared \in Desc /\ ~Cleared.ready
  BY DEF Cleared, Desc, Status
<1>2. \A i \in Slots : /\ desc[i].cpu = Cleared /\ desc[i].mem = Cleared
                       /\ ~desc[i].dirty
  BY <1>1, CoherentLine DEF Init
<1> QED
  BY <1>1, <1>2 DEF Init, RingInv, Queued, Buffers, Empty, Wiping

(* Steps of Poll and of the cache that leave a descriptor's words as they are  *)
(* and move no index: the window and the frames stay.                          *)
LEMMA SameWords ==
  ASSUME Inv, RingInv, pc # "clean", pc' # "clean", pc # "release" \/ pc' = "release",
         pc' = "release" /\ pc # "release" => desc[rxIdx].mem.status # "good",
         UNCHANGED <<rxIdx, up, macPtr, queue>>,
         \A i \in Slots : /\ desc'[i].mem = desc[i].mem /\ desc'[i].dirty = desc[i].dirty
                          /\ desc[i].dirty => desc'[i].cpu = desc[i].cpu
                          /\ buf'[i].mem = buf[i].mem
  PROVE  Queued'
<1>1. Base' = Base
  BY DEF Base
<1>2. \A i \in Slots : (Full(i)' <=> Full(i)) /\ (Pending(i)' <=> Pending(i))
  BY DEF Full, Pending
<1> QED
  BY <1>1, <1>2, QueuedKept DEF RingInv

(* The steps of EthPoll up to its copy, none of which changes a word.          *)
LEMMA LookRing ==
  Inv /\ Inv' /\ RingInv /\ (PollBegin \/ CheckReady \/ InvalidateBuf) => RingInv'
<1> SUFFICES ASSUME Inv, Inv', RingInv, PollBegin \/ CheckReady \/ InvalidateBuf
             PROVE  RingInv'
  OBVIOUS
<1> USE DEF driver, memory, engine, history, Goto
<1>1. /\ rxIdx \in Slots /\ macPtr \in Slots /\ cached \in BOOLEAN
      /\ \A i \in Slots : /\ desc[i] \in LineType(Desc) /\ LineOK(desc[i], cached)
                          /\ buf[i] \in LineType(Content)
      /\ desc \in [Slots -> LineType(Desc)] /\ buf \in [Slots -> LineType(Content)]
  BY DEF Inv, TypeOK, Lines
<1>2. up /\ pc \in {"idle", "check", "invalidate"} /\ pc' \in {"idle", "check", "invalidate", "copy", "release"}
  BY DEF PollBegin, CheckReady, InvalidateBuf, Inv, Shape, Polling
<1>3. \A i \in Slots : ~desc[i].dirty /\ ~buf[i].dirty /\ (desc[i].cpu.ready => desc[i].cpu = desc[i].mem)
  BY <1>2 DEF Inv, Ownership, RingInv, Buffers
<1>4. UNCHANGED <<rxIdx, up, macPtr, queue, mac, arrived>>
  BY DEF PollBegin, CheckReady, InvalidateBuf
<1>5. \A i \in Slots : desc'[i].mem = desc[i].mem /\ desc'[i].dirty = desc[i].dirty
  <2>1. CASE PollBegin
    <3>1. Invalidate(desc[rxIdx]).mem = desc[rxIdx].mem /\ ~Invalidate(desc[rxIdx]).dirty
      BY <1>1, <1>3, InvalidateLine
    <3>2. desc[rxIdx].dirty \in BOOLEAN /\ Invalidate(desc[rxIdx]).dirty \in BOOLEAN
      BY <1>1, InvalidateLine, LineFields
    <3>3. desc' = [desc EXCEPT ![rxIdx] = Invalidate(desc[rxIdx])]
      BY <2>1 DEF PollBegin
    <3> QED
      BY <1>1, <1>3, <3>1, <3>2, <3>3
  <2>2. CASE CheckReady
    BY <1>1, <2>2, FillLine DEF CheckReady
  <2>3. CASE InvalidateBuf
    BY <2>3 DEF InvalidateBuf
  <2> QED
    BY <2>1, <2>2, <2>3
<1>6. \A i \in Slots : buf'[i].mem = buf[i].mem /\ ~buf'[i].dirty
  <2>1. /\ Invalidate(buf[rxIdx]).mem = buf[rxIdx].mem /\ ~Invalidate(buf[rxIdx]).dirty
    BY <1>1, <1>3, InvalidateLine
  <2> QED
    BY <1>1, <1>3, <2>1 DEF PollBegin, CheckReady, InvalidateBuf
<1>7. Queued'
  <2>1. pc' = "release" => desc[rxIdx].mem.status # "good"
    BY <1>1, <1>2, <1>3 DEF PollBegin, CheckReady, InvalidateBuf
  <2> QED
    BY <1>2, <1>3, <1>4, <1>5, <1>6, <2>1, SameWords
<1>8. Buffers'
  <2>1. pc' \in {"invalidate", "copy"} => desc[rxIdx].mem.status = "good"
    BY <1>1, <1>2, <1>3 DEF PollBegin, CheckReady, InvalidateBuf, RingInv, Buffers
  <2>2. pc' = "copy" => buf'[rxIdx].cpu = buf'[rxIdx].mem
    BY <1>1, <1>2, InvalidateLine DEF PollBegin, CheckReady, InvalidateBuf
  <2> QED
    BY <1>1, <1>4, <1>5, <1>6, <2>1, <2>2 DEF RingInv, Buffers
<1>9. Empty'
  BY <1>2, <1>3, <1>4, <1>5 DEF RingInv, Empty, Wiping
<1> QED
  BY <1>7, <1>8, <1>9 DEF RingInv

(* The cache moves lines, never frames: a dirty descriptor is one that reads   *)
(* as free, in the cache and, once written back, in memory.                    *)
LEMMA CacheRing == Inv /\ Inv' /\ RingInv /\ Cache => RingInv'
<1> SUFFICES ASSUME Inv, Inv', RingInv, NEW i \in Slots,
                    EvictDesc(i) \/ EvictBuf(i) \/ PrefetchDesc(i) \/ PrefetchBuf(i)
             PROVE  RingInv'
  BY DEF Cache
<1>1. /\ rxIdx \in Slots /\ macPtr \in Slots /\ cached \in BOOLEAN
      /\ \A j \in Slots : /\ desc[j] \in LineType(Desc) /\ LineOK(desc[j], cached)
                          /\ buf[j] \in LineType(Content)
                          /\ desc[j].dirty \in BOOLEAN /\ buf[j].dirty \in BOOLEAN
      /\ desc \in [Slots -> LineType(Desc)] /\ buf \in [Slots -> LineType(Content)]
  BY LineFields DEF Inv, TypeOK, Lines
<1>2. UNCHANGED <<pc, rxIdx, up, macPtr, queue, mac, arrived>>
  BY DEF EvictDesc, EvictBuf, PrefetchDesc, PrefetchBuf, driver, memory, engine, history
<1>3. \A j \in Slots : /\ desc[j].dirty => ~desc[j].cpu.ready
                       /\ desc'[j].dirty => desc[j].dirty
                       /\ ~desc[j].dirty => desc'[j].mem = desc[j].mem
                       /\ desc'[j].dirty => /\ desc'[j].cpu = desc[j].cpu
                                            /\ desc'[j].mem = desc[j].mem
                       /\ desc[j].dirty /\ ~desc'[j].dirty => desc'[j].mem = desc[j].cpu
                       /\ desc'[j].cpu \in {desc[j].cpu, desc'[j].mem}
  <2>1. CASE EvictDesc(i)
    <3>1. desc' = [desc EXCEPT ![i] = Invalidate(desc[i])]
      BY <2>1 DEF EvictDesc
    <3>2. /\ ~Invalidate(desc[i]).dirty
          /\ Invalidate(desc[i]).mem = (IF desc[i].dirty THEN desc[i].cpu ELSE desc[i].mem)
          /\ Invalidate(desc[i]).cpu = Invalidate(desc[i]).mem
      BY <1>1, InvalidateLine
    <3> QED
      BY <1>1, <3>1, <3>2 DEF RingInv, Empty
  <2>2. CASE PrefetchDesc(i)
    <3>1. desc' = [desc EXCEPT ![i] = Fill(desc[i], cached)]
      BY <2>2 DEF PrefetchDesc
    <3>2. /\ Fill(desc[i], cached).dirty = desc[i].dirty
          /\ Fill(desc[i], cached).mem = desc[i].mem /\ Fill(desc[i], cached).cpu = desc[i].cpu
      BY <1>1, FillLine
    <3> QED
      BY <1>1, <3>1, <3>2 DEF RingInv, Empty
  <2>3. CASE EvictBuf(i) \/ PrefetchBuf(i)
    BY <2>3 DEF EvictBuf, PrefetchBuf, RingInv, Empty
  <2> QED
    BY <2>1, <2>2, <2>3
<1>4. \A j \in Slots : ~buf[j].dirty => /\ buf'[j].mem = buf[j].mem /\ ~buf'[j].dirty
                                        /\ buf[j].cpu = buf[j].mem => buf'[j].cpu = buf'[j].mem
  <2>1. CASE EvictBuf(i)
    <3>1. buf' = [buf EXCEPT ![i] = Invalidate(buf[i])]
      BY <2>1 DEF EvictBuf
    <3>2. /\ ~Invalidate(buf[i]).dirty
          /\ Invalidate(buf[i]).mem = (IF buf[i].dirty THEN buf[i].cpu ELSE buf[i].mem)
          /\ Invalidate(buf[i]).cpu = Invalidate(buf[i]).mem
      BY <1>1, InvalidateLine
    <3> QED
      BY <1>1, <3>1, <3>2
  <2>2. CASE PrefetchBuf(i)
    <3>1. buf' = [buf EXCEPT ![i] = Fill(buf[i], cached)]
      BY <2>2 DEF PrefetchBuf
    <3>2. /\ Fill(buf[i], cached).dirty = buf[i].dirty
          /\ Fill(buf[i], cached).mem = buf[i].mem /\ Fill(buf[i], cached).cpu = buf[i].cpu
      BY <1>1, FillLine
    <3> QED
      BY <1>1, <3>1, <3>2
  <2>3. CASE EvictDesc(i) \/ PrefetchDesc(i)
    BY <2>3 DEF EvictDesc, PrefetchDesc
  <2> QED
    BY <2>1, <2>2, <2>3
<1>5. Queued'
  <2> SUFFICES ASSUME up PROVE Queued'
    BY <1>2 DEF Queued
  <2>1. Base' = Base
    BY <1>2 DEF Base
  <2>2. \A j \in Slots : (Full(j)' <=> Full(j)) /\ (Pending(j)' <=> Pending(j))
    BY <1>1, <1>2, <1>3 DEF Full, Pending
  <2>3. \A j \in Slots : buf'[j].mem = buf[j].mem
    BY <1>4 DEF RingInv, Buffers
  <2> QED
    BY <1>2, <2>1, <2>2, <2>3, QueuedKept DEF RingInv
<1>6. Buffers'
  <2>1. up => \A j \in Slots : ~buf[j].dirty /\ buf'[j].mem = buf[j].mem /\ ~buf'[j].dirty
    BY <1>4 DEF RingInv, Buffers
  <2>2. pc \in {"invalidate", "copy"} => up /\ ~desc[rxIdx].dirty
    BY <1>1 DEF Inv, Shape, Polling, Ownership
  <2>3. mac = "status" => up
    BY DEF Inv, Shape, RingInv, Empty, Wiping
  <2> QED
    BY <1>1, <1>2, <1>3, <1>4, <2>1, <2>2, <2>3 DEF RingInv, Buffers
<1>7. Empty'
  BY <1>2, <1>3 DEF RingInv, Empty, Wiping
<1> QED
  BY <1>5, <1>6, <1>7 DEF RingInv

(* The frame EthPoll copies is the first of the queue, and its slot stays full *)
(* until it is given back.                                                     *)
LEMMA CopyRing ==
  Inv /\ Inv' /\ RingInv /\ CopyFrame
    => RingInv' /\ queue # <<>> /\ buf[rxIdx].cpu = Head(queue)
<1> SUFFICES ASSUME Inv, Inv', RingInv, CopyFrame
             PROVE  RingInv' /\ queue # <<>> /\ buf[rxIdx].cpu = Head(queue)
  OBVIOUS
<1>1. /\ rxIdx \in Slots /\ macPtr \in Slots /\ cached \in BOOLEAN /\ queue \in Seq(Frames)
      /\ \A i \in Slots : buf[i] \in LineType(Content)
      /\ buf \in [Slots -> LineType(Content)]
  BY DEF Inv, TypeOK
<1>2. /\ pc = "copy" /\ pc' = "release" /\ up
      /\ UNCHANGED <<rxIdx, up, desc, mac, macPtr, arrived>>
      /\ queue' = (IF queue = <<>> THEN queue ELSE Tail(queue))
      /\ buf' = [buf EXCEPT ![rxIdx] = Fill(buf[rxIdx], cached)]
  BY DEF CopyFrame, Goto, Inv, Shape, Polling, engine
<1>3. \A i \in Slots : buf'[i].mem = buf[i].mem /\ buf'[i].dirty = buf[i].dirty
  <2>1. /\ Fill(buf[rxIdx], cached).mem = buf[rxIdx].mem
        /\ Fill(buf[rxIdx], cached).dirty = buf[rxIdx].dirty
    BY <1>1, FillLine
  <2> QED
    BY <1>1, <1>2, <2>1
<1>4. Base = rxIdx /\ Base' = rxIdx /\ Pending(rxIdx)
  BY <1>1, <1>2 DEF Base, Pending, Full, Inv, Ownership, Holding, RingInv, Buffers
<1>5. \A i \in Slots : /\ Full(i)' <=> Full(i)
                       /\ Pending(i)' <=> Pending(i) /\ i # rxIdx
  BY <1>2 DEF Full, Pending
<1>6. PICK used \in 0 .. RxCount, pos \in [1 .. Len(queue) -> 0 .. RxCount] :
        Window(used) /\ Places(used, pos)
  BY <1>2 DEF RingInv, Queued
<1>7. /\ \A i \in Slots : Dist(Base, i) \in 0 .. Last /\ (Dist(Base, i) = 0 <=> i = rxIdx)
      /\ Last \in Nat
  BY <1>1, <1>4, Distances, Ring DEF Last
<1> HIDE DEF Full, Pending, Base, Dist
<1>8. /\ 1 \in 1 .. Len(queue) /\ pos[1] = 0 /\ buf[rxIdx].mem = queue[1]
      /\ \A k \in 1 .. Len(queue) : k # 1 => pos[k] # 0
  <2>1. PICK k \in 1 .. Len(queue) : pos[k] = 0
    BY <1>1, <1>4, <1>6, <1>7 DEF Places
  <2>2. \A j \in 1 .. Len(queue) : pos[j] \in Nat /\ j \in Nat
    BY <1>6, RxAssumption
  <2>3. \A i, j \in 1 .. Len(queue) : i < j => pos[i] < pos[j]
    BY <1>6 DEF Places
  <2>4. Len(queue) \in Nat
    BY <1>1
  <2>5. k = 1
    BY <2>1, <2>2, <2>3, <2>4
  <2>6. \A j \in 1 .. Len(queue) : j # 1 => pos[j] # 0
    BY <2>1, <2>2, <2>3, <2>4, <2>5
  <2>7. buf[rxIdx].mem = queue[1]
    BY <1>1, <1>6, <1>7, <2>1, <2>5 DEF Places
  <2> QED
    BY <2>1, <2>5, <2>6, <2>7
<1>9. queue # <<>> /\ Head(queue) = queue[1] /\ queue' = Tail(queue)
  BY <1>1, <1>2, <1>8
<1>10. /\ Len(queue') = Len(queue) - 1 /\ Len(queue') \in Nat
       /\ \A k \in 1 .. Len(queue') : queue'[k] = queue[k + 1] /\ k + 1 \in 1 .. Len(queue)
  BY <1>1, <1>9
<1>11. PICK qos \in [1 .. Len(queue') -> 0 .. RxCount] :
         \A k \in 1 .. Len(queue') : qos[k] = pos[k + 1]
  <2>1. [k \in 1 .. Len(queue') |-> pos[k + 1]] \in [1 .. Len(queue') -> 0 .. RxCount]
    BY <1>6, <1>10
  <2> QED
    BY <2>1
<1>12. \A i \in Slots : Dist(Base, i)' = Dist(Base, i)
  BY <1>4 DEF Dist
<1>13. Window(used)'
  BY <1>2, <1>4, <1>5, <1>6, <1>12 DEF Window
<1>14. Places(used, qos)'
  <2>1. /\ \A k \in 1 .. Len(queue) : pos[k] + (Len(queue) - k) < used /\ pos[k] \in Nat
        /\ \A j, k \in 1 .. Len(queue) : j < k => pos[j] < pos[k]
        /\ \A i \in Slots : Pending(i) <=> \E k \in 1 .. Len(queue) : pos[k] = Dist(Base, i)
        /\ \A i \in Slots, k \in 1 .. Len(queue) :
             pos[k] = Dist(Base, i) => buf[i].mem = queue[k]
    <3>1. \A k \in 1 .. Len(queue) : pos[k] \in Nat
      BY <1>6, RxAssumption
    <3> QED
      BY <1>6, <3>1 DEF Places
  <2>2. Len(queue) \in Nat
    BY <1>1
  <2>3. \A k \in 1 .. Len(queue') : qos[k] + (Len(queue') - k) < used
    <3> TAKE k \in 1 .. Len(queue')
    <3>1. pos[k + 1] + (Len(queue) - (k + 1)) < used /\ pos[k + 1] \in Nat
      BY <1>10, <2>1
    <3>2. qos[k] = pos[k + 1]
      BY <1>11
    <3> HIDE DEF Places
    <3> QED
      BY <1>6, <1>10, <2>2, <3>1, <3>2
  <2>4. \A j, k \in 1 .. Len(queue') : j < k => qos[j] < qos[k]
    <3> TAKE j, k \in 1 .. Len(queue')
    <3>1. j < k => pos[j + 1] < pos[k + 1]
      BY <1>10, <2>1
    <3> QED
      BY <1>11, <3>1
  <2>5. \A i \in Slots : Pending(i)' <=> \E k \in 1 .. Len(queue') : qos[k] = Dist(Base, i)
    <3> TAKE i \in Slots
    <3>1. ASSUME Pending(i), i # rxIdx
          PROVE  \E k \in 1 .. Len(queue') : qos[k] = Dist(Base, i)
      <4>1. PICK k \in 1 .. Len(queue) : pos[k] = Dist(Base, i)
        BY <2>1, <3>1
      <4>2. k # 1 /\ k - 1 \in 1 .. Len(queue')
        BY <1>7, <1>8, <1>10, <2>2, <3>1, <4>1
      <4>3. qos[k - 1] = pos[k]
        BY <1>11, <4>2, <2>2
      <4> QED
        BY <4>1, <4>2, <4>3
    <3>2. ASSUME NEW k \in 1 .. Len(queue'), qos[k] = Dist(Base, i)
          PROVE  Pending(i) /\ i # rxIdx
      <4>1. k + 1 \in 1 .. Len(queue) /\ pos[k + 1] = Dist(Base, i) /\ k + 1 # 1
        BY <1>10, <1>11, <3>2
      <4> QED
        BY <1>7, <1>8, <2>1, <4>1
    <3> QED
      BY <1>5, <3>1, <3>2
  <2>6. \A i \in Slots, k \in 1 .. Len(queue') :
          qos[k] = Dist(Base, i) => buf'[i].mem = queue'[k]
    BY <1>3, <1>10, <1>11, <2>1
  <2> QED
    BY <1>12, <2>3, <2>4, <2>5, <2>6 DEF Places
<1>15. Queued'
  BY <1>11, <1>13, <1>14 DEF Queued
<1>16. Buffers'
  BY <1>1, <1>2, <1>3 DEF RingInv, Buffers
<1>17. Empty'
  BY <1>2 DEF RingInv, Empty, Wiping
<1>18. buf[rxIdx].cpu = Head(queue)
  BY <1>2, <1>8, <1>9 DEF RingInv, Buffers
<1> QED
  BY <1>9, <1>15, <1>16, <1>17, <1>18 DEF RingInv

(* Giving a descriptor back takes its slot off the window's front: what is     *)
(* left of the queue is one slot nearer.                                       *)
LEMMA ReleaseRing == Inv /\ Inv' /\ RingInv /\ Release => RingInv'
<1> SUFFICES ASSUME Inv, Inv', RingInv, Release PROVE RingInv'
  OBVIOUS
<1> DEFINE l == desc[rxIdx]
           v == [l.cpu EXCEPT !.ready = FALSE, !.status = "good", !.edorr = d0.edorr]
           m == Store(l, v, cached)
<1>1. /\ rxIdx \in Slots /\ cached \in BOOLEAN /\ desc \in [Slots -> LineType(Desc)]
      /\ l \in LineType(Desc) /\ l.cpu \in Desc /\ d0 \in Desc
      /\ RxCount \in Nat /\ Last = RxCount - 1 /\ queue \in Seq(Frames)
  BY LineFields, RxAssumption DEF Inv, TypeOK, Last
<1>2. v \in Desc /\ ~v.ready
  BY <1>1 DEF Desc, Status
<1>3. /\ pc = "release" /\ pc' = "clean" /\ up /\ desc' = [desc EXCEPT ![rxIdx] = m]
      /\ UNCHANGED <<rxIdx, up, buf, mac, macPtr, arrived, queue>>
  BY DEF Release, Goto, Inv, Shape, Polling, engine, history
<1> HIDE DEF v
<1>4. /\ m.cpu = v /\ m.mem = (IF cached THEN l.mem ELSE v) /\ m.dirty = cached
  BY <1>1, <1>2, StoreLine
<1> HIDE DEF m
<1>5. Base = rxIdx /\ Base' = NextIdx(rxIdx)
  BY <1>3 DEF Base, NextIdx
<1>6. Full(rxIdx) /\ ~Pending(rxIdx)
  BY <1>1, <1>3 DEF Full, Pending, Inv, Ownership, Holding
<1>7. \A i \in Slots : /\ Full(i)' <=> Full(i) /\ i # rxIdx
                       /\ Pending(i)' <=> Pending(i)
  <2>1. ~Full(rxIdx)'
    BY <1>1, <1>2, <1>3, <1>4 DEF Full
  <2>2. ~Pending(rxIdx)'
    BY <2>1 DEF Pending
  <2>3. \A i \in Slots : i # rxIdx => /\ Full(i)' <=> Full(i)
                                      /\ Pending(i)' <=> Pending(i)
    BY <1>1, <1>3 DEF Full, Pending
  <2>4. \A i \in Slots : i = rxIdx => (Full(i)' <=> FALSE) /\ (Pending(i)' <=> FALSE)
    BY <1>3, <2>1, <2>2 DEF Full, Pending
  <2> QED
    BY <1>6, <2>3, <2>4
<1>8. PICK used \in 0 .. RxCount, pos \in [1 .. Len(queue) -> 0 .. RxCount] :
        Window(used) /\ Places(used, pos)
  BY <1>3 DEF RingInv, Queued
<1>9. /\ \A i \in Slots : /\ Dist(Base, i) \in 0 .. Last /\ (Dist(Base, i) = 0 <=> i = rxIdx)
                          /\ Dist(Base, i)' = IF i = rxIdx THEN Last ELSE Dist(Base, i) - 1
  <2>1. \A i \in Slots : Dist(Base, i)' = Dist(NextIdx(rxIdx), i)
    BY <1>5 DEF Dist
  <2> QED
    BY <1>1, <1>5, <2>1, Distances
<1>10. used \in 1 .. RxCount /\ used - 1 \in 0 .. RxCount
  BY <1>1, <1>6, <1>8, <1>9 DEF Window
<1>11. Window(used - 1)'
  <2>1. macPtr' = IF Base' + (used - 1) < RxCount THEN Base' + (used - 1)
                                                  ELSE (Base' + (used - 1)) - RxCount
    BY <1>1, <1>3, <1>5, <1>8, <1>10 DEF Window, NextIdx, Slots
  <2>2. \A i \in Slots : Full(i)' <=> Dist(Base, i)' < used - 1
    <3> HIDE DEF Full, Dist, Base
    <3>1. \A i \in Slots : Full(i) <=> Dist(Base, i) < used
      BY <1>8 DEF Window
    <3> QED
      BY <1>1, <1>7, <1>9, <1>10, <3>1
  <2> HIDE DEF Base, Dist, Full
  <2> QED
    BY <2>1, <2>2 DEF Window
<1> HIDE DEF Base, Dist, Full, Pending
<1>12. /\ \A k \in 1 .. Len(queue) : pos[k] + (Len(queue) - k) < used
       /\ \A j, k \in 1 .. Len(queue) : j < k => pos[j] < pos[k]
       /\ \A i \in Slots : Pending(i) <=> \E k \in 1 .. Len(queue) : pos[k] = Dist(Base, i)
       /\ \A i \in Slots, k \in 1 .. Len(queue) :
            pos[k] = Dist(Base, i) => buf[i].mem = queue[k]
  BY <1>8 DEF Places
<1>13. Len(queue) \in Nat
  BY <1>1
<1>14. \A k \in 1 .. Len(queue) : pos[k] \in 1 .. Last
  <2> TAKE k \in 1 .. Len(queue)
  <2>1. pos[k] \in 0 .. RxCount /\ pos[k] # 0
    BY <1>1, <1>6, <1>8, <1>9, <1>12
  <2>2. pos[k] + (Len(queue) - k) < used
    BY <1>12
  <2> QED
    BY <1>1, <1>8, <1>13, <2>1, <2>2
<1>15. PICK qos \in [1 .. Len(queue) -> 0 .. RxCount] :
         \A k \in 1 .. Len(queue) : qos[k] = pos[k] - 1
  <2>1. [k \in 1 .. Len(queue) |-> pos[k] - 1] \in [1 .. Len(queue) -> 0 .. RxCount]
    BY <1>1, <1>14
  <2> QED
    BY <2>1
<1>16. Places(used - 1, qos)'
  <2>1. \A k \in 1 .. Len(queue) : qos[k] + (Len(queue) - k) < used - 1
    <3> TAKE k \in 1 .. Len(queue)
    <3>1. pos[k] + (Len(queue) - k) < used /\ pos[k] \in 1 .. Last /\ qos[k] = pos[k] - 1
      BY <1>12, <1>14, <1>15
    <3> QED
      BY <1>1, <1>8, <1>13, <3>1
  <2>2. \A j, k \in 1 .. Len(queue) : j < k => qos[j] < qos[k]
    BY <1>1, <1>12, <1>14, <1>15
  <2>3. \A i \in Slots, k \in 1 .. Len(queue) :
          qos[k] = Dist(Base, i)' <=> pos[k] = Dist(Base, i)
    <3> TAKE i \in Slots, k \in 1 .. Len(queue)
    <3>1. pos[k] \in 1 .. Last /\ qos[k] = pos[k] - 1
      BY <1>14, <1>15
    <3>2. /\ Dist(Base, i) \in 0 .. Last /\ (Dist(Base, i) = 0 <=> i = rxIdx)
          /\ Dist(Base, i)' = IF i = rxIdx THEN Last ELSE Dist(Base, i) - 1
      BY <1>9
    <3> QED
      BY <1>1, <3>1, <3>2
  <2>4. \A i \in Slots : Pending(i)' <=> \E k \in 1 .. Len(queue) : qos[k] = Dist(Base, i)'
    BY <1>7, <1>12, <2>3
  <2>5. \A i \in Slots, k \in 1 .. Len(queue) :
          qos[k] = Dist(Base, i)' => buf[i].mem = queue[k]
    BY <1>12, <2>3
  <2> QED
    BY <1>3, <2>1, <2>2, <2>4, <2>5 DEF Places
<1>17. Queued'
  BY <1>3, <1>10, <1>11, <1>15, <1>16 DEF Queued
<1>18. Buffers'
  BY <1>3 DEF RingInv, Buffers
<1>19. Empty'
  BY <1>1, <1>2, <1>3, <1>4 DEF RingInv, Empty, Wiping
<1> QED
  BY <1>17, <1>18, <1>19 DEF RingInv

(* The release reaches memory; the window has already moved.                   *)
LEMMA CleanDescRing == Inv /\ Inv' /\ RingInv /\ CleanDesc => RingInv'
<1> SUFFICES ASSUME Inv, Inv', RingInv, CleanDesc PROVE RingInv'
  OBVIOUS
<1> DEFINE l == desc[rxIdx]
           m == Clean(l)
<1>1. /\ rxIdx \in Slots /\ l \in LineType(Desc) /\ desc \in [Slots -> LineType(Desc)]
      /\ l.dirty \in BOOLEAN /\ LineOK(l, cached)
  BY LineFields DEF Inv, TypeOK, Lines
<1>2. m.cpu = l.cpu /\ ~m.dirty /\ m.mem = (IF l.dirty THEN l.cpu ELSE l.mem)
  BY <1>1, CleanLine
<1>3. /\ pc = "clean" /\ pc' = "idle" /\ up /\ desc' = [desc EXCEPT ![rxIdx] = m]
      /\ rxIdx' = NextIdx(rxIdx)
      /\ UNCHANGED <<up, buf, mac, macPtr, arrived, queue>>
  BY DEF CleanDesc, Inv, Shape, Polling, engine, history
<1> HIDE DEF m
<1>4. Base' = Base
  BY <1>3 DEF Base
<1>5. l.dirty => ~l.cpu.ready
  BY <1>1 DEF RingInv, Empty
<1>6. \A i \in Slots : Full(i)' <=> Full(i)
  BY <1>1, <1>2, <1>3, <1>5 DEF Full
<1>7. \A i \in Slots : Pending(i)' <=> Pending(i)
  BY <1>1, <1>2, <1>3, <1>5 DEF Full, Pending
<1>8. Queued'
  BY <1>3, <1>4, <1>6, <1>7, QueuedKept DEF RingInv
<1>9. Buffers'
  <2>1. mac = "status" => macPtr' = macPtr
    BY <1>3
  <2> QED
    BY <1>3, <2>1 DEF RingInv, Buffers
<1>10. Empty'
  BY <1>1, <1>2, <1>3 DEF RingInv, Empty, Wiping
<1> QED
  BY <1>8, <1>9, <1>10 DEF RingInv

(* A frame comes in where the window ends, into a buffer that holds none.      *)
LEMMA MacReceiveRing ==
  QuietInit /\ Inv /\ Inv' /\ RingInv /\ MacReceive => RingInv'
<1> SUFFICES ASSUME QuietInit, Inv, Inv', RingInv, MacReceive PROVE RingInv'
  OBVIOUS
<1>1. up /\ pc # "reset" /\ ~Wiping
  BY DEF MacReceive, Inv, Shape, Wiping
<1>2. /\ rxIdx \in Slots /\ macPtr \in Slots /\ buf \in [Slots -> LineType(Content)]
      /\ \A i \in Slots : desc[i] \in LineType(Desc)
  BY DEF Inv, TypeOK
<1>3. /\ mac = "idle" /\ UNCHANGED <<pc, rxIdx, up, desc, macPtr, queue>>
      /\ \/ UNCHANGED <<buf, mac>> 
         \/ /\ ~desc[macPtr].mem.ready /\ mac' = "status"
            /\ buf' = [buf EXCEPT ![macPtr] = DmaWrite(buf[macPtr], arrived')]
  BY DEF MacReceive, driver
<1>4. CASE UNCHANGED <<buf, mac>>
  <2>1. Base' = Base /\ \A i \in Slots : (Full(i)' <=> Full(i)) /\ (Pending(i)' <=> Pending(i))
    BY <1>3 DEF Base, Full, Pending
  <2>2. Queued'
    BY <1>3, <1>4, <2>1, QueuedKept DEF RingInv
  <2> QED
    BY <1>3, <1>4, <2>2 DEF RingInv, Buffers, Empty, Wiping
<1>5. CASE /\ ~desc[macPtr].mem.ready /\ mac' = "status"
           /\ buf' = [buf EXCEPT ![macPtr] = DmaWrite(buf[macPtr], arrived')]
  <2> DEFINE m == DmaWrite(buf[macPtr], arrived')
  <2>1. /\ buf[macPtr] \in LineType(Content) /\ arrived' \in Content /\ arrived' \in Frames
    <3>1. arrived' = arrived + 1 /\ arrived < MaxFrames /\ arrived \in 0 .. MaxFrames
      BY DEF MacReceive, Inv, TypeOK
    <3> QED
      BY <1>2, <3>1, RxAssumption DEF Content, Frames
  <2>2. m.mem = arrived' /\ m.dirty = (buf[macPtr].held /\ buf[macPtr].dirty)
    BY <2>1, DmaWriteLine
  <2>3. ~m.dirty
    BY <1>1, <1>2, <2>2 DEF RingInv, Buffers
  <2> HIDE DEF m
  <2>4. \A i \in Slots : /\ buf'[i] = IF i = macPtr THEN m ELSE buf[i]
    BY <1>2, <1>5 DEF m
  <2>5. ~Full(macPtr)
    BY <1>1, <1>2, <1>5 DEF Full, Inv, Ownership
  <2>6. pc = "copy" => rxIdx # macPtr
    BY <1>1, <1>5 DEF Inv, Ownership, Holding
  <2>7. Base' = Base /\ \A i \in Slots : (Full(i)' <=> Full(i)) /\ (Pending(i)' <=> Pending(i))
    BY <1>3 DEF Base, Full, Pending
  <2>8. \A i \in Slots : Pending(i) => buf'[i].mem = buf[i].mem
    BY <2>4, <2>5 DEF Pending
  <2>9. Queued'
    BY <1>3, <2>7, <2>8, QueuedKept DEF RingInv
  <2>10. Buffers'
    <3>1. /\ \A i \in Slots : ~buf'[i].dirty
          /\ \A i \in Slots : i = macPtr => buf'[i].mem = arrived'
      BY <1>1, <2>2, <2>3, <2>4 DEF RingInv, Buffers
    <3>2. pc = "copy" => buf'[rxIdx].cpu = buf'[rxIdx].mem
      BY <1>2, <2>4, <2>6 DEF RingInv, Buffers
    <3> QED
      BY <1>2, <1>3, <3>1, <3>2 DEF RingInv, Buffers
  <2>11. Empty'
    BY <1>1, <1>3 DEF RingInv, Empty, Wiping
  <2> QED
    BY <2>9, <2>10, <2>11 DEF RingInv
<1> QED
  BY <1>3, <1>4, <1>5

(* Init's clear leaves no descriptor the cache or memory will show as full.    *)
LEMMA InitClearRing == QuietInit /\ Inv /\ Inv' /\ InitClear => RingInv'
<1> SUFFICES ASSUME QuietInit, Inv, Inv', InitClear PROVE RingInv'
  OBVIOUS
<1>1. \A i \in Slots : /\ desc'[i].cpu = Cleared /\ desc'[i].dirty = cached
                       /\ desc'[i].mem = IF cached THEN desc[i].mem ELSE Cleared
  BY ClearStored
<1>2. /\ pc' = "reset" /\ ~up' /\ mac # "status" /\ mac' = mac /\ rxIdx' = rxIdx
      /\ rxIdx \in ReinitAt /\ ~Cleared.ready
  BY DEF InitClear, engine, Cleared
<1> QED
  BY <1>1, <1>2 DEF RingInv, Queued, Buffers, Empty, Wiping

(* The reset stops the MAC.                                                    *)
LEMMA InitResetRing == Inv /\ Inv' /\ RingInv /\ InitReset => RingInv'
<1> SUFFICES ASSUME Inv, Inv', RingInv, InitReset PROVE RingInv'
  OBVIOUS
<1>1. /\ pc = "reset" /\ pc' \in {"rings", "idle"} /\ ~up /\ up' = up /\ mac' = "off"
      /\ UNCHANGED <<rxIdx, desc, buf>>
  BY DEF InitReset, Goto, memory, Inv, Shape, Wiping
<1> QED
  BY <1>1 DEF RingInv, Queued, Buffers, Empty, Wiping

(* The driver's index and the MAC's agree after Init because it was called     *)
(* with the driver at slot 0.                                                  *)
LEMMA InitRingsRing ==
  ReinitAt \subseteq {0} /\ Inv /\ Inv' /\ RingInv /\ InitRings => RingInv'
<1> SUFFICES ASSUME ReinitAt \subseteq {0}, Inv, Inv', RingInv, InitRings PROVE RingInv'
  OBVIOUS
<1>1. \A i \in Slots : /\ ~desc'[i].dirty /\ desc'[i].mem = desc'[i].cpu
                       /\ desc'[i].cpu.ready = desc[i].cpu.ready /\ ~buf'[i].dirty
  BY RingsWritten
<1>2. /\ pc = "rings" /\ pc' = "idle" /\ ~up /\ macPtr' = 0 /\ rxIdx' = 0
      /\ queue' = <<>> /\ mac' # "status" /\ RxCount \in Nat \ {0}
  BY RxAssumption DEF InitRings, Inv, Shape, RingInv, Empty, Wiping, history
<1>3. \A i \in Slots : ~desc'[i].mem.ready /\ ~desc'[i].cpu.ready
  BY <1>1, <1>2 DEF RingInv, Empty
<1>4. Queued'
  <2>1. Base' = 0 /\ \A i \in Slots : ~Full(i)' /\ ~Pending(i)' /\ Dist(Base, i)' \in Nat
    <3>1. Base' = 0
      BY <1>2 DEF Base
    <3>2. \A i \in Slots : ~Full(i)' /\ ~Pending(i)'
      BY <1>1, <1>3 DEF Full, Pending
    <3>3. \A i \in Slots : Dist(Base, i)' \in Nat
      BY <1>2, <3>1 DEF Dist, Slots
    <3> QED
      BY <3>1, <3>2, <3>3
  <2>2. Window(0)'
    <3>1. macPtr' = IF Base' + 0 < RxCount THEN Base' + 0 ELSE (Base' + 0) - RxCount
      BY <1>2, <2>1
    <3> HIDE DEF Base, Dist, Full
    <3>2. \A i \in Slots : Full(i)' <=> Dist(Base, i)' < 0
      BY <2>1
    <3> QED
      BY <3>1, <3>2 DEF Window
  <2>3. PICK pos \in [1 .. Len(queue') -> 0 .. RxCount] : TRUE
    <3>1. [k \in 1 .. Len(queue') |-> 0] \in [1 .. Len(queue') -> 0 .. RxCount]
      BY <1>2
    <3> QED
      BY <3>1
  <2>4. Places(0, pos)'
    <3>1. Len(queue') = 0 /\ 1 .. 0 = {}
      BY <1>2
    <3> QED
      BY <2>1, <3>1 DEF Places
  <2>5. 0 \in 0 .. RxCount
    BY <1>2
  <2> QED
    BY <2>2, <2>3, <2>4, <2>5 DEF Queued
<1>5. Buffers' /\ Empty'
  BY <1>1, <1>2, <1>3 DEF Buffers, Empty, Wiping
<1> QED
  BY <1>4, <1>5 DEF RingInv

(* SetLink touches no descriptor, buffer or index.                             *)
LEMMA SetLinkRing == Inv /\ RingInv /\ SetLink => RingInv'
<1> SUFFICES ASSUME Inv, RingInv, SetLink PROVE RingInv'
  OBVIOUS
<1>1. /\ mac' = "status" => mac = "status"
      /\ UNCHANGED <<pc, rxIdx, up, desc, buf, macPtr, arrived, queue>>
  BY DEF SetLink, memory, history
<1>2. Queued'
  BY <1>1 DEF RingInv, Queued, Window, Places, Base, Dist, Full, Pending
<1>3. Buffers' /\ Empty'
  BY <1>1 DEF RingInv, Buffers, Empty, Wiping
<1> QED
  BY <1>2, <1>3 DEF RingInv

(* A status written back makes the window one slot longer, and a good frame    *)
(* the last of the queue.                                                      *)
LEMMA MacStatusRing ==
  Inv /\ Inv' /\ RingInv /\ MacStatus
    => /\ RingInv'
       /\ queue' # queue => queue' = Append(queue, arrived) /\ Len(queue) < RxCount
<1> SUFFICES ASSUME Inv, Inv', RingInv, mac = "status", NEW st \in Status, MacStatus,
                    desc' = [desc EXCEPT ![macPtr] =
                               DmaWrite(@, [@.mem EXCEPT !.ready = TRUE, !.status = st,
                                                         !.edorr = macLast])],
                    queue' = IF st = "good" THEN Append(queue, arrived) ELSE queue
             PROVE  /\ RingInv'
                    /\ queue' # queue => queue' = Append(queue, arrived) /\ Len(queue) < RxCount
  BY DEF MacStatus
<1> DEFINE l == desc[macPtr]
           v == [l.mem EXCEPT !.ready = TRUE, !.status = st, !.edorr = macLast]
           m == DmaWrite(l, v)
<1>1. /\ rxIdx \in Slots /\ macPtr \in Slots /\ desc \in [Slots -> LineType(Desc)]
      /\ l \in LineType(Desc) /\ l.mem \in Desc /\ macLast \in BOOLEAN
      /\ RxCount \in Nat /\ Last = RxCount - 1 /\ queue \in Seq(Frames)
  BY LineFields, RxAssumption DEF Inv, TypeOK, Last
<1>2. v \in Desc /\ v.ready /\ v.status = st
  BY <1>1 DEF Desc
<1>3. up /\ pc # "reset"
  BY DEF Inv, Shape, RingInv, Empty, Wiping
<1>4. /\ desc' = [desc EXCEPT ![macPtr] = m] /\ mac' = "idle"
      /\ macPtr' = (IF macPtr = Last THEN 0 ELSE macPtr + 1)
      /\ UNCHANGED <<pc, rxIdx, up, buf, arrived>>
  BY DEF MacStatus, driver, Inv, Marks
<1> HIDE DEF v
<1>5. m.mem = v /\ m.dirty = (l.held /\ l.dirty) /\ ~l.dirty /\ ~l.mem.ready
  BY <1>1, <1>2, <1>3, DmaWriteLine DEF Inv, Ownership
<1> HIDE DEF m
<1>6. /\ ~Full(macPtr) /\ ~Pending(macPtr) /\ (pc = "release" => rxIdx # macPtr)
  BY <1>1, <1>3, <1>5 DEF Full, Pending, Inv, Ownership, Holding
<1>7. \A i \in Slots : /\ Full(i)' <=> Full(i) \/ i = macPtr
                       /\ Pending(i)' <=> Pending(i) \/ (i = macPtr /\ st = "good")
  <2>1. \A i \in Slots : i # macPtr => /\ Full(i)' <=> Full(i)
                                       /\ Pending(i)' <=> Pending(i)
    BY <1>1, <1>4 DEF Full, Pending
  <2>2. \A i \in Slots : i = macPtr => Full(i)' /\ (Pending(i)' <=> st = "good")
    BY <1>1, <1>2, <1>4, <1>5, <1>6 DEF Full, Pending
  <2> QED
    BY <1>6, <2>1, <2>2
<1>8. Base \in Slots /\ Base' = Base /\ \A i \in Slots : Dist(Base, i)' = Dist(Base, i)
  BY <1>4, BaseSlot DEF Base, Dist
<1>9. \A i, j \in Slots : /\ Dist(Base, i) \in 0 .. Last
                          /\ Dist(Base, i) = Dist(Base, j) => i = j
  BY <1>8, Distances
<1>10. PICK used \in 0 .. RxCount, pos \in [1 .. Len(queue) -> 0 .. RxCount] :
         Window(used) /\ Places(used, pos)
  BY <1>3 DEF RingInv, Queued
<1> HIDE DEF Base, Dist, Full, Pending
<1>11. used \in 0 .. Last /\ used + 1 \in 0 .. RxCount
  <2>1. ~(Dist(Base, macPtr) < used)
    BY <1>1, <1>6, <1>10 DEF Window
  <2> QED
    BY <1>1, <1>9, <1>10, <2>1
<1>12. /\ macPtr = IF Base + used < RxCount THEN Base + used ELSE (Base + used) - RxCount
       /\ \A i \in Slots : Full(i) <=> Dist(Base, i) < used
  BY <1>10 DEF Window
<1>13. /\ Dist(Base, macPtr) = used
       /\ macPtr' = IF Base + (used + 1) < RxCount THEN Base + (used + 1)
                                                   ELSE (Base + (used + 1)) - RxCount
  BY <1>4, <1>8, <1>11, <1>12, SlotAt
<1>14. Window(used + 1)'
  <2>1. \A i \in Slots : Full(i)' <=> Dist(Base, i) < used + 1
    <3> TAKE i \in Slots
    <3>1. Dist(Base, i) = used <=> i = macPtr
      BY <1>1, <1>9, <1>13
    <3>2. (Full(i)' <=> Full(i) \/ i = macPtr) /\ (Full(i) <=> Dist(Base, i) < used)
      BY <1>7, <1>12
    <3>3. Dist(Base, i) \in Nat /\ used \in Nat
      BY <1>1, <1>9, <1>11
    <3>4. Dist(Base, i) < used + 1 <=> Dist(Base, i) < used \/ Dist(Base, i) = used
      BY <3>3
    <3> QED
      BY <3>1, <3>2, <3>4
  <2> QED
    BY <1>8, <1>13, <2>1 DEF Window
<1>15. /\ \A k \in 1 .. Len(queue) : pos[k] + (Len(queue) - k) < used
       /\ \A j, k \in 1 .. Len(queue) : j < k => pos[j] < pos[k]
       /\ \A i \in Slots : Pending(i) <=> \E k \in 1 .. Len(queue) : pos[k] = Dist(Base, i)
       /\ \A i \in Slots, k \in 1 .. Len(queue) :
            pos[k] = Dist(Base, i) => buf[i].mem = queue[k]
  BY <1>10 DEF Places
<1>16. Len(queue) \in Nat /\ \A k \in 1 .. Len(queue) : k \in Nat /\ pos[k] \in Nat /\ pos[k] < used
  <2>1. Len(queue) \in Nat
    BY <1>1
  <2>2. ASSUME NEW k \in 1 .. Len(queue) PROVE k \in Nat /\ pos[k] \in Nat /\ pos[k] < used
    <3>1. pos[k] \in 0 .. RxCount /\ pos[k] + (Len(queue) - k) < used
      BY <1>10, <1>15
    <3> QED
      BY <1>1, <1>11, <2>1, <2>2, <3>1
  <2> QED
    BY <2>1, <2>2
<1>17. Len(queue) < RxCount
  <2>1. CASE Len(queue) = 0
    BY <1>1, <1>11, <2>1
  <2>2. CASE Len(queue) # 0
    <3>1. 1 \in 1 .. Len(queue)
      BY <1>16, <2>2
    <3>2. pos[1] + (Len(queue) - 1) < used /\ pos[1] \in Nat
      BY <1>15, <1>16, <3>1
    <3> QED
      BY <1>1, <1>11, <1>16, <3>2
  <2> QED
    BY <2>1, <2>2
<1>18. \E qos \in [1 .. Len(queue') -> 0 .. RxCount] : Places(used + 1, qos)'
  <2>1. CASE st # "good"
    <3>1. queue' = queue
      BY <2>1
    <3>2. \A k \in 1 .. Len(queue) : pos[k] + (Len(queue) - k) < used + 1
      <4> TAKE k \in 1 .. Len(queue)
      <4>1. pos[k] + (Len(queue) - k) < used
        BY <1>15
      <4> QED
        BY <1>11, <1>16, <4>1
    <3>3. Places(used + 1, pos)'
      BY <1>4, <1>7, <1>8, <1>15, <2>1, <3>1, <3>2 DEF Places
    <3> QED
      BY <1>10, <3>1, <3>3
  <2>2. CASE st = "good"
    <3>1. arrived \in Frames
      BY RxAssumption DEF Inv, TypeOK, Shape, Frames
    <3>2. /\ queue' = Append(queue, arrived) /\ Len(queue') = Len(queue) + 1
          /\ \A k \in 1 .. Len(queue) : queue'[k] = queue[k]
          /\ queue'[Len(queue) + 1] = arrived
      BY <1>1, <2>2, <3>1
    <3>3. PICK qos \in [1 .. Len(queue') -> 0 .. RxCount] :
            /\ \A k \in 1 .. Len(queue) : qos[k] = pos[k]
            /\ qos[Len(queue) + 1] = used
      <4> DEFINE f == [k \in 1 .. Len(queue') |-> IF k <= Len(queue) THEN pos[k] ELSE used]
      <4>1. f \in [1 .. Len(queue') -> 0 .. RxCount]
        BY <1>10, <1>16, <3>2
      <4>2. /\ \A k \in 1 .. Len(queue) : f[k] = pos[k]
            /\ f[Len(queue) + 1] = used
        BY <1>16, <3>2
      <4> QED
        BY <4>1, <4>2
    <3>4. \A k \in 1 .. Len(queue') : k \in 1 .. Len(queue) \/ k = Len(queue) + 1
      BY <1>16, <3>2
    <3>5. \A k \in 1 .. Len(queue') : qos[k] + (Len(queue') - k) < used + 1
      <4> TAKE k \in 1 .. Len(queue')
      <4>1. CASE k \in 1 .. Len(queue)
        <5>1. pos[k] + (Len(queue) - k) < used /\ qos[k] = pos[k]
          BY <1>15, <3>3, <4>1
        <5> QED
          BY <1>11, <1>16, <3>2, <4>1, <5>1
      <4>2. CASE k = Len(queue) + 1
        BY <1>11, <1>16, <3>2, <3>3, <4>2
      <4> QED
        BY <3>4, <4>1, <4>2
    <3>6. \A j, k \in 1 .. Len(queue') : j < k => qos[j] < qos[k]
      <4> SUFFICES ASSUME NEW j \in 1 .. Len(queue'), NEW k \in 1 .. Len(queue'), j < k
                   PROVE  qos[j] < qos[k]
        OBVIOUS
      <4>1. j \in 1 .. Len(queue) /\ qos[j] = pos[j]
        BY <1>16, <3>2, <3>3, <3>4
      <4> QED
        BY <1>15, <1>16, <3>3, <3>4, <4>1
    <3>7. \A i \in Slots : Pending(i)' <=> \E k \in 1 .. Len(queue') : qos[k] = Dist(Base, i)
      <4> TAKE i \in Slots
      <4>1. Dist(Base, i) = used <=> i = macPtr
        BY <1>1, <1>9, <1>13
      <4>2. Pending(i) <=> \E k \in 1 .. Len(queue) : qos[k] = Dist(Base, i)
        BY <1>15, <3>3
      <4>3. Len(queue) + 1 \in 1 .. Len(queue') /\ 1 .. Len(queue) \subseteq 1 .. Len(queue')
        BY <1>16, <3>2
      <4> QED
        BY <1>7, <2>2, <3>3, <3>4, <4>1, <4>2, <4>3
    <3>8. \A i \in Slots, k \in 1 .. Len(queue') :
            qos[k] = Dist(Base, i) => buf[i].mem = queue'[k]
      <4> SUFFICES ASSUME NEW i \in Slots, NEW k \in 1 .. Len(queue'), qos[k] = Dist(Base, i)
                   PROVE  buf[i].mem = queue'[k]
        OBVIOUS
      <4>1. CASE k \in 1 .. Len(queue)
        BY <1>15, <3>2, <3>3, <4>1
      <4>2. CASE k = Len(queue) + 1
        <5>1. i = macPtr
          BY <1>1, <1>9, <1>13, <3>3, <4>2
        <5> QED
          BY <3>2, <4>2, <5>1 DEF RingInv, Buffers
      <4> QED
        BY <3>4, <4>1, <4>2
    <3>9. Places(used + 1, qos)'
      BY <1>4, <1>8, <3>5, <3>6, <3>7, <3>8 DEF Places
    <3> QED
      BY <3>9
  <2> QED
    BY <2>1, <2>2
<1>19. Queued'
  BY <1>11, <1>14, <1>18 DEF Queued
<1>20. Buffers'
  <2>1. pc \in {"invalidate", "copy"} => rxIdx # macPtr
    BY <1>3, <1>5 DEF Inv, Ownership, Holding
  <2>2. pc \in {"invalidate", "copy"} => desc'[rxIdx] = desc[rxIdx]
    BY <1>1, <1>4, <2>1
  <2> QED
    BY <1>4, <2>2 DEF RingInv, Buffers
<1>21. Empty'
  <2>1. \A i \in Slots : desc'[i].dirty => desc'[i] = desc[i]
    BY <1>1, <1>4, <1>5
  <2> QED
    BY <1>3, <1>4, <2>1 DEF RingInv, Empty, Wiping
<1> QED
  BY <1>17, <1>19, <1>20, <1>21 DEF RingInv

(* Every step keeps the ring's invariant.                                      *)
LEMMA NextRing ==
  QuietInit /\ ReinitAt \subseteq {0} /\ Inv /\ Inv' /\ RingInv /\ [Next]_vars => RingInv'
<1> SUFFICES ASSUME QuietInit, ReinitAt \subseteq {0}, Inv, Inv', RingInv, [Next]_vars
             PROVE  RingInv'
  OBVIOUS
<1>1. CASE Poll
  BY <1>1, LookRing, CopyRing, ReleaseRing, CleanDescRing DEF Poll
<1>2. CASE InitClear \/ Reinit \/ SetLink
  BY <1>2, InitClearRing, InitResetRing, InitRingsRing, SetLinkRing DEF Reinit
<1>3. CASE MacReceive \/ MacStatus
  BY <1>3, MacReceiveRing, MacStatusRing
<1>4. CASE Cache
  BY <1>4, CacheRing
<1>5. CASE UNCHANGED vars
  BY <1>5 DEF RingInv, Queued, Window, Places, Base, Dist, Full, Pending, Buffers, Empty,
              Wiping, vars, driver, memory, engine, history
<1> QED
  BY <1>1, <1>2, <1>3, <1>4, <1>5 DEF Next

(* Every step is a step of FrameQueue: a good frame's status accepts it, the   *)
(* copy delivers the first one with its own bytes, the reset flushes.          *)
LEMMA StepRefines ==
  Inv /\ RingInv /\ Inv' /\ [Next]_vars => [Fifo!Next]_<<queue, out, TRUE>>
<1> SUFFICES ASSUME Inv, RingInv, Inv', [Next]_vars
             PROVE  [Fifo!Next]_<<queue, out, TRUE>>
  OBVIOUS
<1> USE DEF driver, memory, engine, history, Goto
<1>1. CASE MacStatus
  <2>1. arrived \in Frames
    BY <1>1, RxAssumption DEF MacStatus, Inv, TypeOK, Shape, Frames
  <2>2. out' = out
    BY <1>1 DEF MacStatus
  <2> QED
    BY <1>1, <2>1, <2>2, MacStatusRing DEF Fifo!Next, Fifo!Accept
<1>2. CASE CopyFrame
  <2>1. queue # <<>> /\ buf[rxIdx].cpu = Head(queue)
    BY <1>2, CopyRing
  <2>2. queue' = Tail(queue) /\ out' = Append(out, buf[rxIdx].cpu)
    BY <1>2, <2>1 DEF CopyFrame
  <2>3. buf[rxIdx].cpu \in Frames \cup {Blank}
    BY LineFields DEF Inv, TypeOK, Content
  <2> QED
    BY <2>1, <2>2, <2>3 DEF Fifo!Next, Fifo!Deliver
<1>3. CASE InitReset
  BY <1>3 DEF InitReset, Fifo!Next, Fifo!Flush
<1>4. \/ MacStatus \/ CopyFrame \/ InitReset \/ UNCHANGED <<queue, out>>
  <2>1. CASE Poll
    BY <2>1 DEF Poll, PollBegin, CheckReady, InvalidateBuf, Release, CleanDesc
  <2>2. CASE InitClear \/ Reinit \/ SetLink
    BY <2>2 DEF InitClear, Reinit, InitRings, SetLink
  <2>3. CASE MacReceive
    BY <2>3 DEF MacReceive
  <2>4. CASE Cache
    BY <2>4 DEF Cache, EvictDesc, EvictBuf, PrefetchDesc, PrefetchBuf
  <2>5. CASE UNCHANGED vars
    BY <2>5 DEF vars
  <2> QED
    BY <2>1, <2>2, <2>3, <2>4, <2>5 DEF Next
<1> QED
  BY <1>1, <1>2, <1>3, <1>4

(* Receiving is a FIFO of at most RxCount frames, each delivered once with its *)
(* own bytes in cached memory too, if Init is called with the driver at slot 0 *)
(* and no frame arrives between its clear and its reset (ftgmac100.go Init).   *)
THEOREM RingIsFifo == ASSUME ReinitAt \subseteq {0}, QuietInit PROVE Spec => FifoSpec
<1>1. Init => Inv /\ RingInv
  BY InitInv, InitRing
<1>2. (Inv /\ RingInv) /\ [Next]_vars => (Inv /\ RingInv)'
  BY NextInv, NextRing
<1>3. Init => Fifo!Init
  BY DEF Init, Fifo!Init
<1>4. (Inv /\ RingInv) /\ (Inv /\ RingInv)' /\ [Next]_vars
        => [Fifo!Next]_<<queue, out, TRUE>>
  BY StepRefines
<1> QED
  BY <1>1, <1>2, <1>3, <1>4, PTL DEF Spec, FifoSpec, Fifo!Spec
=============================================================================
