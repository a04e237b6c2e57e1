--------------------------- MODULE FtgmacTxProofs ---------------------------
(* Proofs about FtgmacTx, for every ring size, number of frames and set of    *)
(* memories, cached or not.                                                   *)
EXTENDS FtgmacTx, CacheLineProofs

Sending == pc \in {"check", "copy", "addr", "own", "cleanDesc", "cleanBuf", "demand"}
Wiping == pc \in {"reset", "rings"}
Working == mac \in {"dma", "release"}

(* When calls and the engine can be where they are: callers send only after an *)
(* Init that returned nil, and without one the engine has nothing to do.      *)
Shape ==
  /\ Sending => up
  /\ Wiping => ~up
  /\ pc = "check" => frame < MaxFrames
  /\ pc \in {"copy", "addr", "own"} => frame > 0
  /\ ~up /\ pc # "reset" => mac \in {"off", "idle"} /\ ~kick /\ queue = <<>>
  /\ pc = "rings" => mac = "off" /\ macPtr = 0

Lines == \A i \in Slots : LineOK(desc[i], cached) /\ LineOK(buf[i], cached)

(* Wherever OWN is set, the descriptor it belongs to is whole.                *)
Whole(d, i) == d.own => d.addr /\ (d.edotr <=> i = Last)

Marks ==
  /\ \A i \in Slots : /\ desc[i].mem.edotr => i = Last
                      /\ desc[i].cpu.edotr => i = Last
                      /\ Whole(desc[i].mem, i)
                      /\ desc[i].dirty => Whole(desc[i].cpu, i)
  /\ Working => fetched.addr /\ (fetched.edotr <=> macPtr = Last)
  /\ up => \A i \in Slots : /\ desc[i].cpu.edotr <=> i = Last
                            /\ desc[i].mem.edotr <=> i = Last

(* Until Init has succeeded the CPU's view of the ring is empty, and so is    *)
(* memory's but for lines Init's clear has yet to overwrite.                  *)
Empty == ~up => \A i \in Slots : /\ ~desc[i].cpu.own
                                 /\ ~desc[i].dirty => ~desc[i].mem.own

(* Only the slot being filled is ever dirty, a clean copy with OWN clear means *)
(* that OWN is clear, and the MAC works on a descriptor it owns.              *)
Ownership ==
  up =>
    /\ \A i \in Slots :
         /\ desc[i].dirty => /\ i = txIdx /\ pc \in {"own", "cleanDesc"}
                             /\ ~desc[i].mem.own
         /\ ~desc[i].dirty /\ desc[i].mem.own => desc[i].cpu.own
    /\ Filling => ~desc[txIdx].mem.own /\ ~desc[txIdx].cpu.own
    /\ pc = "own" => desc[txIdx].cpu.addr /\ (~desc[txIdx].dirty => desc[txIdx].mem.addr)
    /\ pc = "cleanDesc" /\ desc[txIdx].dirty => desc[txIdx].cpu.own
    /\ Working => desc[macPtr].mem.own

Inv == TypeOK /\ Shape /\ Lines /\ Marks /\ Empty /\ Ownership

-----------------------------------------------------------------------------
(* Types of the state's parts, as the proofs use them.                        *)

(* The ring has a first and a last slot, and the index stays inside it.       *)
LEMMA Ring ==
  /\ TxCount \in Nat \ {0} /\ 0 \in Slots /\ Last \in Slots /\ Slots \subseteq Nat
  /\ \A i \in Slots : NextIdx(i) \in Slots /\ (i # Last => i + 1 \in Slots)
  BY TxAssumption DEF Slots, Last, NextIdx

(* The words of a descriptor.                                                 *)
LEMMA DescFields ==
  ASSUME NEW d \in Desc
  PROVE  d.own \in BOOLEAN /\ d.edotr \in BOOLEAN /\ d.addr \in BOOLEAN
  BY DEF Desc

(* Both views of a descriptor's line are descriptors.                         *)
LEMMA DescLine ==
  ASSUME NEW l \in LineType(Desc)
  PROVE  /\ l.mem \in Desc /\ l.cpu \in Desc
         /\ l.mem.own \in BOOLEAN /\ l.mem.edotr \in BOOLEAN /\ l.mem.addr \in BOOLEAN
         /\ l.cpu.own \in BOOLEAN /\ l.cpu.edotr \in BOOLEAN /\ l.cpu.addr \in BOOLEAN
         /\ l.held \in BOOLEAN /\ l.dirty \in BOOLEAN
  BY LineFields, DescFields

(* Initially the ring is empty and coherent and the MAC is off.               *)
LEMMA InitInv == Init => Inv
<1> SUFFICES ASSUME Init PROVE Inv
  OBVIOUS
<1>1. Cleared \in Desc /\ Blank \in Content
  BY DEF Cleared, Desc, Content
<1>2. \A i \in Slots : desc[i] = Coherent(Cleared) /\ buf[i] = Coherent(Blank)
  BY DEF Init
<1>3. /\ Coherent(Cleared) \in LineType(Desc) /\ LineOK(Coherent(Cleared), cached)
      /\ Coherent(Cleared).mem = Cleared /\ Coherent(Cleared).cpu = Cleared
      /\ ~Coherent(Cleared).dirty
  BY <1>1, CoherentLine
<1>4. Coherent(Blank) \in LineType(Content) /\ LineOK(Coherent(Blank), cached)
  BY <1>1, CoherentLine
<1>5. TypeOK
  <2>1. desc \in [Slots -> LineType(Desc)] /\ buf \in [Slots -> LineType(Content)]
    BY <1>3, <1>4 DEF Init
  <2>2. <<>> \in Seq(Frames) /\ <<>> \in Seq(Content)
    OBVIOUS
  <2>3. cached \in BOOLEAN /\ inits \in 0 .. MaxInits /\ frame \in 0 .. MaxFrames
    BY TxAssumption DEF Init
  <2> QED
    BY <1>1, <2>1, <2>2, <2>3, Ring DEF Init, TypeOK, PCs
<1>6. Shape /\ Empty /\ Ownership
  BY <1>2, <1>3 DEF Init, Shape, Empty, Ownership, Sending, Wiping, Working, Cleared
<1>7. Lines /\ Marks
  BY <1>2, <1>3, <1>4 DEF Init, Lines, Marks, Whole, Working, Cleared
<1> QED
  BY <1>5, <1>6, <1>7 DEF Inv

(* A call that begins looks at memory, not at the cache.                      *)
LEMMA SendBeginInv == Inv /\ SendBegin => Inv'
<1> SUFFICES ASSUME Inv, SendBegin PROVE Inv'
  OBVIOUS
<1> DEFINE l == desc[txIdx]
           m == Invalidate(l)
<1>1. txIdx \in Slots /\ l \in LineType(Desc) /\ (l.dirty => l.mem.own \in BOOLEAN)
  BY DescLine DEF Inv, TypeOK
<1>2. /\ m \in LineType(Desc) /\ LineOK(m, cached) /\ ~m.dirty /\ m.mem = m.cpu
      /\ m.mem = IF l.dirty THEN l.cpu ELSE l.mem
  BY <1>1, InvalidateLine
<1>3. ~l.dirty
  BY <1>1 DEF Inv, Ownership, SendBegin
<1>4. /\ desc' = [desc EXCEPT ![txIdx] = m]
      /\ pc = "idle" /\ up /\ frame < MaxFrames /\ pc' = "check"
      /\ UNCHANGED <<txIdx, linkOK, up, inits, cached, buf, engine, history>>
  BY DEF SendBegin, Goto
<1> HIDE DEF m
<1>5. TypeOK'
  BY <1>1, <1>2, <1>4 DEF Inv, TypeOK, PCs, engine, history
<1>6. Shape' /\ Empty'
  BY <1>4 DEF Inv, Shape, Empty, Sending, Wiping, engine, history
<1>7. Lines'
  BY <1>1, <1>2, <1>4 DEF Inv, TypeOK, Lines
<1>8. Marks'
  BY <1>1, <1>2, <1>3, <1>4 DEF Inv, TypeOK, Marks, Whole, Working, engine
<1>9. Ownership'
  BY <1>1, <1>2, <1>3, <1>4 DEF Inv, TypeOK, Ownership, Working, Filling, engine
<1> QED
  BY <1>5, <1>6, <1>7, <1>8, <1>9 DEF Inv

(* The line is clean here, so OWN read as clear is clear.                     *)
LEMMA CheckOwnInv == Inv /\ CheckOwn => Inv'
<1> SUFFICES ASSUME Inv, CheckOwn PROVE Inv'
  OBVIOUS
<1> DEFINE l == desc[txIdx]
           m == Fill(l, cached)
<1>1. txIdx \in Slots /\ l \in LineType(Desc) /\ cached \in BOOLEAN
  BY DEF Inv, TypeOK
<1>2. /\ m \in LineType(Desc) /\ LineOK(m, cached)
      /\ m.mem = l.mem /\ m.cpu = l.cpu /\ m.dirty = l.dirty
  BY <1>1, FillLine DEF Inv, Lines
<1>3. up /\ ~l.dirty
  BY <1>1 DEF Inv, Shape, Sending, Ownership, CheckOwn
<1>4. /\ desc' = [desc EXCEPT ![txIdx] = m] /\ pc = "check"
      /\ \/ l.cpu.own /\ pc' = "idle" /\ frame' = frame
         \/ ~l.cpu.own /\ pc' = "copy" /\ frame' = frame + 1
      /\ UNCHANGED <<txIdx, linkOK, up, inits, cached, buf, engine, queue, wire>>
  BY DEF CheckOwn, Goto
<1>10. frame < MaxFrames /\ frame + 1 \in 0 .. MaxFrames /\ frame + 1 > 0
  BY <1>4, TxAssumption DEF Inv, Shape, TypeOK
<1> HIDE DEF m
<1>5. TypeOK'
  BY <1>1, <1>2, <1>4, <1>10 DEF Inv, TypeOK, PCs, engine
<1>6. Shape' /\ Empty'
  BY <1>1, <1>2, <1>4, <1>10 DEF Inv, Shape, Empty, Sending, Wiping, engine
<1>7. Lines'
  BY <1>1, <1>2, <1>4 DEF Inv, TypeOK, Lines
<1>8. Marks'
  BY <1>1, <1>2, <1>3, <1>4 DEF Inv, TypeOK, Marks, Whole, Working, Ownership, Shape, Sending, engine
<1>9. Ownership'
  BY <1>1, <1>2, <1>3, <1>4 DEF Inv, TypeOK, Ownership, Shape, Sending, Working, Filling, engine
<1> QED
  BY <1>5, <1>6, <1>7, <1>8, <1>9 DEF Inv

(* The buffer's address is stored; OWN and EDOTR stay as they are.            *)
LEMMA PutAddrInv == Inv /\ PutAddr => Inv'
<1> SUFFICES ASSUME Inv, PutAddr PROVE Inv'
  OBVIOUS
<1> DEFINE l == desc[txIdx]
           v == [l.cpu EXCEPT !.addr = TRUE]
           m == Store(l, v, cached)
<1>1. /\ txIdx \in Slots /\ l \in LineType(Desc) /\ cached \in BOOLEAN /\ v \in Desc
      /\ v.own = l.cpu.own /\ v.edotr = l.cpu.edotr /\ v.addr
  <2>1. txIdx \in Slots /\ l \in LineType(Desc) /\ cached \in BOOLEAN
    BY DEF Inv, TypeOK
  <2>2. l.cpu \in Desc
    BY <2>1, LineFields
  <2> QED
    BY <2>1, <2>2 DEF Desc
<1>2. /\ m \in LineType(Desc) /\ LineOK(m, cached) /\ m.cpu = v
      /\ m.mem = (IF cached THEN l.mem ELSE v) /\ m.dirty = cached
  <2> HIDE DEF v
  <2> QED
    BY <1>1, StoreLine
<1>3. up /\ ~l.mem.own /\ ~l.cpu.own
  BY <1>1 DEF Inv, Shape, Sending, Ownership, Filling, PutAddr
<1>4. /\ desc' = [desc EXCEPT ![txIdx] = m] /\ pc = "addr" /\ pc' = "own"
      /\ UNCHANGED <<txIdx, linkOK, up, inits, cached, buf, engine, history>>
  BY DEF PutAddr, StoreDesc, Goto
<1> HIDE DEF v
<1> HIDE DEF m
<1>5. TypeOK'
  BY <1>1, <1>2, <1>4 DEF Inv, TypeOK, PCs, engine, history
<1>6. Shape' /\ Empty'
  BY <1>1, <1>2, <1>4 DEF Inv, Shape, Empty, Sending, Wiping, engine, history
<1>7. Lines'
  BY <1>1, <1>2, <1>4 DEF Inv, TypeOK, Lines
<1>8. Marks'
  BY <1>1, <1>2, <1>3, <1>4 DEF Inv, TypeOK, Marks, Whole, Working, Ownership, Shape, Sending, engine, history
<1>9. Ownership'
  BY <1>1, <1>2, <1>3, <1>4 DEF Inv, TypeOK, Ownership, Shape, Sending, Working, Filling, engine, history
<1> QED
  BY <1>5, <1>6, <1>7, <1>8, <1>9 DEF Inv

(* OWN is set in a descriptor that is whole.                                  *)
LEMMA PutOwnInv == Inv /\ PutOwn => Inv'
<1> SUFFICES ASSUME Inv, PutOwn PROVE Inv'
  OBVIOUS
<1> DEFINE l == desc[txIdx]
           v == [l.cpu EXCEPT !.own = TRUE]
           m == Store(l, v, cached)
<1>1. /\ txIdx \in Slots /\ l \in LineType(Desc) /\ cached \in BOOLEAN /\ v \in Desc
      /\ v.own /\ v.edotr = l.cpu.edotr /\ v.addr = l.cpu.addr
  <2>1. txIdx \in Slots /\ l \in LineType(Desc) /\ cached \in BOOLEAN
    BY DEF Inv, TypeOK
  <2>2. l.cpu \in Desc
    BY <2>1, LineFields
  <2> QED
    BY <2>1, <2>2 DEF Desc
<1>2. /\ m \in LineType(Desc) /\ LineOK(m, cached) /\ m.cpu = v
      /\ m.mem = (IF cached THEN l.mem ELSE v) /\ m.dirty = cached
  <2> HIDE DEF v
  <2> QED
    BY <1>1, StoreLine
<1>3. up /\ ~l.mem.own /\ ~l.cpu.own /\ l.cpu.addr
  BY <1>1 DEF Inv, Shape, Sending, Ownership, Filling, PutOwn
<1>4. /\ desc' = [desc EXCEPT ![txIdx] = m] /\ pc = "own" /\ pc' = "cleanDesc"
      /\ queue' = Append(queue, frame)
      /\ UNCHANGED <<txIdx, linkOK, up, inits, cached, buf, engine, frame, wire>>
  BY DEF PutOwn, StoreDesc, Goto
<1>10. queue' \in Seq(Frames)
  <2>1. frame \in Frames /\ queue \in Seq(Frames)
    BY <1>4, TxAssumption DEF Inv, TypeOK, Shape, Frames
  <2> QED
    BY <1>4, <2>1
<1> HIDE DEF v
<1> HIDE DEF m
<1>5. TypeOK'
  BY <1>1, <1>2, <1>4, <1>10 DEF Inv, TypeOK, PCs, engine
<1>6. Shape' /\ Empty'
  BY <1>1, <1>2, <1>4 DEF Inv, Shape, Empty, Sending, Wiping, engine
<1>7. Lines'
  BY <1>1, <1>2, <1>4 DEF Inv, TypeOK, Lines
<1>8. Marks'
  BY <1>1, <1>2, <1>3, <1>4 DEF Inv, TypeOK, Marks, Whole, Working, Ownership, Shape, Sending, engine
<1>9. Ownership'
  BY <1>1, <1>2, <1>3, <1>4 DEF Inv, TypeOK, Ownership, Shape, Sending, Working, Filling, engine
<1> QED
  BY <1>5, <1>6, <1>7, <1>8, <1>9 DEF Inv

(* What the CPU wrote becomes what the MAC reads.                             *)
LEMMA CleanDescInv == Inv /\ CleanDesc => Inv'
<1> SUFFICES ASSUME Inv, CleanDesc PROVE Inv'
  OBVIOUS
<1> DEFINE l == desc[txIdx]
           m == Clean(l)
<1>1. txIdx \in Slots /\ l \in LineType(Desc)
  BY DEF Inv, TypeOK
<1>2. /\ m \in LineType(Desc) /\ LineOK(m, cached) /\ m.cpu = l.cpu /\ ~m.dirty
      /\ m.mem = (IF l.dirty THEN l.cpu ELSE l.mem)
  BY <1>1, CleanLine DEF Inv, Lines
<1>3. up /\ (l.dirty => ~l.mem.own /\ l.cpu.own)
  BY <1>1 DEF Inv, Shape, Sending, Ownership, Filling, CleanDesc
<1>4. /\ desc' = [desc EXCEPT ![txIdx] = m] /\ pc = "cleanDesc" /\ pc' = "cleanBuf"
      /\ UNCHANGED <<txIdx, linkOK, up, inits, cached, buf, engine, history>>
  BY DEF CleanDesc, Goto
<1> HIDE DEF m
<1>5. TypeOK'
  BY <1>1, <1>2, <1>4 DEF Inv, TypeOK, PCs, engine, history
<1>6. Shape' /\ Empty'
  BY <1>1, <1>2, <1>4 DEF Inv, Shape, Empty, Sending, Wiping, engine, history
<1>7. Lines'
  BY <1>1, <1>2, <1>4 DEF Inv, TypeOK, Lines
<1>8. Marks'
  BY <1>1, <1>2, <1>3, <1>4 DEF Inv, TypeOK, Marks, Whole, Working, Ownership, Shape, Sending, engine, history
<1>9. Ownership'
  BY <1>1, <1>2, <1>3, <1>4 DEF Inv, TypeOK, Ownership, Shape, Sending, Working, Filling, engine, history
<1> QED
  BY <1>5, <1>6, <1>7, <1>8, <1>9 DEF Inv

(* The frame goes into the buffer: no descriptor changes.                     *)
LEMMA CopyFrameInv == Inv /\ CopyFrame => Inv'
<1> SUFFICES ASSUME Inv, CopyFrame PROVE Inv'
  OBVIOUS
<1> DEFINE l == buf[txIdx]
           m == Store(l, frame, cached)
<1>1. /\ txIdx \in Slots /\ l \in LineType(Content) /\ cached \in BOOLEAN
      /\ frame \in Content
  <2>1. frame \in 0 .. MaxFrames /\ MaxFrames \in Nat
    BY TxAssumption DEF Inv, TypeOK
  <2>2. frame \in Content
    BY <2>1 DEF Content, Frames, Blank
  <2> QED
    BY <2>2 DEF Inv, TypeOK
<1>2. m \in LineType(Content) /\ LineOK(m, cached)
  BY <1>1, StoreLine
<1>3. /\ buf' = [buf EXCEPT ![txIdx] = m] /\ pc = "copy" /\ pc' = "addr"
      /\ UNCHANGED <<txIdx, linkOK, up, inits, cached, desc, engine, history>>
  BY DEF CopyFrame, Goto
<1> HIDE DEF m
<1>4. TypeOK'
  BY <1>1, <1>2, <1>3 DEF Inv, TypeOK, PCs, engine, history
<1>5. Lines'
  BY <1>1, <1>2, <1>3 DEF Inv, TypeOK, Lines
<1>6. Shape' /\ Marks' /\ Empty' /\ Ownership'
  BY <1>1, <1>3 DEF Inv, Shape, Marks, Whole, Empty, Ownership, Filling, Sending, Wiping,
                  Working, engine, history
<1> QED
  BY <1>4, <1>5, <1>6 DEF Inv

(* The buffer's line is written back.                                         *)
LEMMA CleanBufInv == Inv /\ CleanBuf => Inv'
<1> SUFFICES ASSUME Inv, CleanBuf PROVE Inv'
  OBVIOUS
<1> DEFINE l == buf[txIdx]
           m == Clean(l)
<1>1. txIdx \in Slots /\ l \in LineType(Content)
  BY DEF Inv, TypeOK
<1>2. m \in LineType(Content) /\ LineOK(m, cached)
  BY <1>1, CleanLine DEF Inv, Lines
<1>3. /\ buf' = [buf EXCEPT ![txIdx] = m] /\ pc = "cleanBuf" /\ pc' = "demand"
      /\ UNCHANGED <<txIdx, linkOK, up, inits, cached, desc, engine, history>>
  BY DEF CleanBuf, Goto
<1> HIDE DEF m
<1>4. TypeOK'
  BY <1>1, <1>2, <1>3 DEF Inv, TypeOK, PCs, engine, history
<1>5. Lines'
  BY <1>1, <1>2, <1>3 DEF Inv, TypeOK, Lines
<1>6. Shape' /\ Marks' /\ Empty' /\ Ownership'
  BY <1>1, <1>3 DEF Inv, Shape, Marks, Whole, Empty, Ownership, Filling, Sending, Wiping,
                  Working, engine, history
<1> QED
  BY <1>4, <1>5, <1>6 DEF Inv

(* The steps that touch neither descriptors nor buffers: the driver's index   *)
(* and link mode, and the engine's registers.                                 *)
LEMMA RegistersInv ==
  Inv /\ (PollDemand \/ SetLink \/ InitReset \/ MacPoll \/ MacFetch \/ MacSend) => Inv'
<1> SUFFICES ASSUME Inv, PollDemand \/ SetLink \/ InitReset \/ MacPoll \/ MacFetch \/ MacSend
             PROVE  Inv'
  OBVIOUS
<1> USE DEF memory, engine, history, driver
<1>1. UNCHANGED <<desc, buf, cached>>
  BY DEF PollDemand, SetLink, InitReset, MacPoll, MacFetch, MacSend, Goto
<1>2. Lines'
  BY <1>1 DEF Inv, Lines
<1>3. CASE PollDemand
  <2>1. up /\ NextIdx(txIdx) \in Slots
    BY <1>3, Ring DEF Inv, Shape, Sending, TypeOK, PollDemand
  <2>2. TypeOK'
    BY <1>3, <2>1 DEF Inv, TypeOK, PCs, PollDemand
  <2>3. Shape' /\ Marks' /\ Empty'
    BY <1>3, <2>1 DEF Inv, Shape, Marks, Whole, Empty, Sending, Wiping, Working, PollDemand
  <2>4. Ownership'
    BY <1>3, <2>1 DEF Inv, Ownership, Filling, Working, PollDemand
  <2> QED
    BY <1>2, <2>2, <2>3, <2>4 DEF Inv
<1>4. CASE SetLink
  <2>1. TypeOK'
    BY <1>4 DEF Inv, TypeOK, SetLink
  <2>2. mac' = mac \/ (mac = "off" /\ mac' = "idle")
    BY <1>4 DEF SetLink
  <2>3. Shape' /\ Marks' /\ Empty' /\ Ownership'
    BY <1>4, <2>2 DEF Inv, Shape, Marks, Whole, Empty, Ownership, Filling, Sending, Wiping,
                      Working, SetLink
  <2> QED
    BY <1>2, <2>1, <2>3 DEF Inv
<1>5. CASE InitReset
  <2>1. Cleared \in Desc /\ <<>> \in Seq(Frames)
    BY DEF Cleared, Desc
  <2>2. TypeOK'
    BY <1>5, <2>1, Ring DEF Inv, TypeOK, PCs, InitReset, Goto
  <2>3. Shape' /\ Marks' /\ Empty' /\ Ownership'
    BY <1>5 DEF Inv, Shape, Marks, Whole, Empty, Ownership, Filling, Sending, Wiping,
                Working, InitReset, Goto
  <2> QED
    BY <1>2, <2>2, <2>3 DEF Inv
<1>6. CASE MacPoll
  <2>1. TypeOK'
    BY <1>6 DEF Inv, TypeOK, MacPoll
  <2>2. Shape' /\ Marks' /\ Empty' /\ Ownership'
    BY <1>6 DEF Inv, Shape, Marks, Whole, Empty, Ownership, Filling, Sending, Wiping,
                Working, MacPoll
  <2> QED
    BY <1>2, <2>1, <2>2 DEF Inv
<1>7. CASE MacFetch
  <2>1. macPtr \in Slots /\ desc[macPtr].mem \in Desc
    BY DescLine DEF Inv, TypeOK
  <2>2. TypeOK'
    BY <1>7, <2>1 DEF Inv, TypeOK, MacFetch
  <2>3. Shape' /\ Marks' /\ Empty' /\ Ownership'
    BY <1>7, <2>1 DEF Inv, Shape, Marks, Whole, Empty, Ownership, Filling, Sending, Wiping,
                      Working, MacFetch
  <2> QED
    BY <1>2, <2>2, <2>3 DEF Inv
<1>8. CASE MacSend
  <2>1. buf[macPtr].mem \in Content
    BY LineFields DEF Inv, TypeOK
  <2>2. queue' \in Seq(Frames) /\ wire' \in Seq(Content)
    BY <1>8, <2>1 DEF Inv, TypeOK, MacSend
  <2>3. TypeOK'
    BY <1>8, <2>2 DEF Inv, TypeOK, MacSend
  <2>4. Shape' /\ Marks' /\ Empty' /\ Ownership'
    BY <1>8 DEF Inv, Shape, Marks, Whole, Empty, Ownership, Filling, Sending, Wiping,
                Working, MacSend
  <2> QED
    BY <1>2, <2>3, <2>4 DEF Inv
<1> QED
  BY <1>3, <1>4, <1>5, <1>6, <1>7, <1>8

(* OWN is given back with the end-of-ring mark as it was read.                *)
LEMMA MacReleaseInv == Inv /\ MacRelease => Inv'
<1> SUFFICES ASSUME Inv, MacRelease PROVE Inv'
  OBVIOUS
<1> DEFINE l == desc[macPtr]
           v == [l.mem EXCEPT !.own = FALSE, !.edotr = fetched.edotr]
           m == DmaWrite(l, v)
<1>1. /\ macPtr \in Slots /\ l \in LineType(Desc) /\ v \in Desc
      /\ ~v.own /\ v.edotr = fetched.edotr
  <2>1. macPtr \in Slots /\ l \in LineType(Desc) /\ fetched \in Desc
    BY DEF Inv, TypeOK
  <2>2. l.mem \in Desc
    BY <2>1, LineFields
  <2> QED
    BY <2>1, <2>2 DEF Desc
<1>2. /\ m \in LineType(Desc) /\ LineOK(m, cached) /\ m.mem = v
      /\ m.cpu = (IF l.held THEN l.cpu ELSE v) /\ m.dirty = (l.held /\ l.dirty)
      /\ l.dirty \in BOOLEAN
  <2> HIDE DEF v
  <2> QED
    BY <1>1, DmaWriteLine, LineFields DEF Inv, Lines
<1>3. fetched.edotr <=> macPtr = Last
  BY DEF MacRelease, Inv, Marks, Working
<1>4. up => l.mem.own /\ ~l.dirty
  BY <1>1 DEF MacRelease, Inv, Ownership, Working
<1>5. /\ desc' = [desc EXCEPT ![macPtr] = m] /\ mac = "release" /\ mac' = "fetch"
      /\ macPtr' = (IF fetched.edotr THEN 0 ELSE macPtr + 1) /\ fetched' = Cleared
      /\ UNCHANGED <<driver, buf, kick, history>>
  BY DEF MacRelease
<1>6. macPtr' \in Slots /\ Cleared \in Desc
  BY <1>1, <1>3, <1>5, Ring DEF Cleared, Desc
<1> HIDE DEF v, m
<1>7. TypeOK'
  BY <1>1, <1>2, <1>5, <1>6 DEF Inv, TypeOK, driver, history
<1>8. Shape' /\ Lines'
  BY <1>1, <1>2, <1>5 DEF Inv, TypeOK, Shape, Lines, Sending, Wiping, driver, history
<1>9. Marks'
  BY <1>1, <1>2, <1>3, <1>5 DEF Inv, TypeOK, Marks, Whole, Working, driver
<1>10. Empty'
  BY <1>1, <1>2, <1>5 DEF Inv, TypeOK, Empty, driver
<1>11. Ownership'
  BY <1>1, <1>2, <1>4, <1>5 DEF Inv, TypeOK, Ownership, Filling, Working, driver
<1> QED
  BY <1>7, <1>8, <1>9, <1>10, <1>11 DEF Inv

(* Init's clear: every line is stored to, so every slot reads as free.        *)
LEMMA InitClearInv == Inv /\ InitClear => Inv'
<1> SUFFICES ASSUME Inv, InitClear PROVE Inv'
  OBVIOUS
<1>1. Cleared \in Desc /\ Blank \in Content /\ cached \in BOOLEAN
  BY DEF Cleared, Desc, Content, Inv, TypeOK
<1>2. ASSUME NEW i \in Slots
      PROVE  /\ desc'[i] \in LineType(Desc) /\ LineOK(desc'[i], cached)
             /\ desc'[i].cpu = Cleared /\ desc'[i].dirty = cached
             /\ desc'[i].mem = IF cached THEN desc[i].mem ELSE Cleared
             /\ buf'[i] \in LineType(Content) /\ LineOK(buf'[i], cached)
  <2>1. /\ desc'[i] = Store(desc[i], Cleared, cached) /\ buf'[i] = Store(buf[i], Blank, cached)
        /\ desc[i] \in LineType(Desc) /\ buf[i] \in LineType(Content)
    BY DEF InitClear, Inv, TypeOK
  <2> QED
    BY <1>1, <2>1, StoreLine
<1>3. /\ pc = "idle" /\ pc' = "reset" /\ ~up' /\ inits < MaxInits /\ inits' = inits + 1
      /\ UNCHANGED <<txIdx, linkOK, cached, engine, history>>
  BY DEF InitClear
<1>4. TypeOK'
  <2>1. desc' \in [Slots -> LineType(Desc)] /\ buf' \in [Slots -> LineType(Content)]
    BY <1>2 DEF InitClear
  <2>2. inits' \in 0 .. MaxInits
    BY <1>3, TxAssumption DEF Inv, TypeOK
  <2>3. up' \in BOOLEAN
    BY DEF InitClear
  <2> QED
    BY <1>3, <2>1, <2>2, <2>3 DEF Inv, TypeOK, PCs, engine, history
<1>5. Shape' /\ Ownership'
  BY <1>3 DEF Inv, Shape, Ownership, Sending, Wiping, engine, history
<1>6. Lines' /\ Empty'
  BY <1>2, <1>3 DEF Lines, Empty, Cleared
<1>7. Marks'
  BY <1>2, <1>3 DEF Inv, Marks, Whole, Working, Cleared, engine
<1> QED
  BY <1>4, <1>5, <1>6, <1>7 DEF Inv

(* Init's rings: every slot is free and written back, the last ends the ring. *)
LEMMA RingsWritten ==
  ASSUME Inv, InitRings, NEW i \in Slots
  PROVE  /\ desc'[i] \in LineType(Desc) /\ LineOK(desc'[i], cached) /\ ~desc'[i].dirty
         /\ ~desc'[i].mem.own /\ ~desc'[i].cpu.own
         /\ desc'[i].mem.edotr <=> i = Last
         /\ desc'[i].cpu.edotr <=> i = Last
         /\ buf'[i] \in LineType(Content) /\ LineOK(buf'[i], cached)
<1> DEFINE v == [desc[i].cpu EXCEPT !.edotr = TRUE]
           s == IF i = Last THEN Store(desc[i], v, cached) ELSE desc[i]
<1>1. pc = "rings" /\ ~up /\ cached \in BOOLEAN
  BY DEF InitRings, Inv, Shape, Wiping, TypeOK
<1>2. /\ desc[i] \in LineType(Desc) /\ LineOK(desc[i], cached) /\ ~desc[i].cpu.own
      /\ (~desc[i].dirty => ~desc[i].mem.own)
      /\ desc[i].cpu.edotr => i = Last
      /\ desc[i].mem.edotr => i = Last
      /\ buf[i] \in LineType(Content) /\ LineOK(buf[i], cached)
  BY <1>1 DEF Inv, TypeOK, Lines, Empty, Marks
<1>3. desc'[i] = Clean(s) /\ buf'[i] = Clean(buf[i])
  BY DEF InitRings
<1>4. v \in Desc /\ v.edotr /\ v.own = desc[i].cpu.own
  <2>1. desc[i].cpu \in Desc
    BY <1>2, LineFields
  <2> QED
    BY <2>1 DEF Desc
<1> HIDE DEF v
<1>5. /\ s \in LineType(Desc) /\ LineOK(s, cached) /\ ~s.cpu.own
      /\ (s.cpu.edotr <=> i = Last)
      /\ ~s.dirty => ~s.mem.own /\ (s.mem.edotr <=> i = Last)
  <2>1. CASE i = Last
    BY <1>1, <1>2, <1>4, <2>1, StoreLine
  <2>2. CASE i # Last
    BY <1>2, <2>2
  <2> QED
    BY <2>1, <2>2
<1> HIDE DEF s
<1> QED
  BY <1>2, <1>3, <1>5, CleanLine

(* Init's last step: the invariant holds again, with the ring up or not.      *)
LEMMA InitRingsInv == Inv /\ InitRings => Inv'
<1> SUFFICES ASSUME Inv, InitRings PROVE Inv'
  OBVIOUS
<1>1. pc = "rings" /\ ~up /\ cached \in BOOLEAN
  BY DEF InitRings, Inv, Shape, Wiping, TypeOK
<1>2. \A i \in Slots :
        /\ desc'[i] \in LineType(Desc) /\ LineOK(desc'[i], cached) /\ ~desc'[i].dirty
        /\ ~desc'[i].mem.own /\ ~desc'[i].cpu.own
        /\ desc'[i].mem.edotr <=> i = Last
        /\ desc'[i].cpu.edotr <=> i = Last
        /\ buf'[i] \in LineType(Content) /\ LineOK(buf'[i], cached)
  BY RingsWritten
<1>3. /\ pc' = "idle" /\ up' = linkOK /\ mac' = (IF linkOK THEN "idle" ELSE "off")
      /\ UNCHANGED <<txIdx, linkOK, inits, cached, macPtr, fetched, kick, history>>
  BY DEF InitRings
<1>4. TypeOK'
  <2>1. desc' \in [Slots -> LineType(Desc)] /\ buf' \in [Slots -> LineType(Content)]
    BY <1>2 DEF InitRings
  <2> QED
    BY <1>3, <2>1 DEF Inv, TypeOK, PCs, history
<1>5. Shape'
  BY <1>1, <1>3 DEF Inv, Shape, Sending, Wiping, history
<1>6. Lines' /\ Empty' /\ Marks' /\ Ownership'
  BY <1>2, <1>3 DEF Lines, Empty, Marks, Whole, Ownership, Filling, Working
<1> QED
  BY <1>4, <1>5, <1>6 DEF Inv

(* An eviction writes back at most what the driver has stored.                *)
LEMMA EvictDescInv == ASSUME NEW i \in Slots PROVE Inv /\ EvictDesc(i) => Inv'
<1> SUFFICES ASSUME Inv, EvictDesc(i) PROVE Inv'
  OBVIOUS
<1> DEFINE l == desc[i]
           m == Invalidate(l)
<1>1. l \in LineType(Desc) /\ cached \in BOOLEAN
  BY DEF Inv, TypeOK
<1>2. /\ m \in LineType(Desc) /\ LineOK(m, cached)
      /\ m.mem = (IF l.dirty THEN l.cpu ELSE l.mem) /\ m.cpu = m.mem /\ ~m.dirty
  BY <1>1, InvalidateLine
<1>3. /\ desc' = [desc EXCEPT ![i] = m]
      /\ UNCHANGED <<driver, buf, engine, history>>
  BY DEF EvictDesc
<1> HIDE DEF m
<1>4. TypeOK' /\ Shape'
  BY <1>1, <1>2, <1>3 DEF Inv, TypeOK, Shape, Sending, Wiping, driver, engine, history
<1>5. Lines' /\ Empty'
  BY <1>1, <1>2, <1>3 DEF Inv, TypeOK, Lines, Empty, driver
<1>6. Marks'
  BY <1>1, <1>2, <1>3 DEF Inv, TypeOK, Marks, Whole, Working, driver, engine
<1>7. Ownership'
  BY <1>1, <1>2, <1>3 DEF Inv, TypeOK, Ownership, Filling, Working, Marks, Whole, driver, engine
<1> QED
  BY <1>4, <1>5, <1>6, <1>7 DEF Inv

(* A prefetch changes no value.                                               *)
LEMMA PrefetchDescInv == ASSUME NEW i \in Slots PROVE Inv /\ PrefetchDesc(i) => Inv'
<1> SUFFICES ASSUME Inv, PrefetchDesc(i) PROVE Inv'
  OBVIOUS
<1> DEFINE l == desc[i]
           m == Fill(l, cached)
<1>1. l \in LineType(Desc) /\ cached \in BOOLEAN
  BY DEF Inv, TypeOK
<1>2. /\ m \in LineType(Desc) /\ LineOK(m, cached)
      /\ m.mem = l.mem /\ m.cpu = l.cpu /\ m.dirty = l.dirty
  BY <1>1, FillLine DEF Inv, Lines
<1>3. /\ desc' = [desc EXCEPT ![i] = m]
      /\ UNCHANGED <<driver, buf, engine, history>>
  BY DEF PrefetchDesc
<1> HIDE DEF m
<1>4. TypeOK' /\ Shape'
  BY <1>1, <1>2, <1>3 DEF Inv, TypeOK, Shape, Sending, Wiping, driver, engine, history
<1>5. Lines' /\ Empty'
  BY <1>1, <1>2, <1>3 DEF Inv, TypeOK, Lines, Empty, driver
<1>6. Marks'
  BY <1>1, <1>2, <1>3 DEF Inv, TypeOK, Marks, Whole, Working, driver, engine
<1>7. Ownership'
  BY <1>1, <1>2, <1>3 DEF Inv, TypeOK, Ownership, Filling, Working, Marks, Whole, driver, engine
<1> QED
  BY <1>4, <1>5, <1>6, <1>7 DEF Inv

(* An eviction of a buffer's line.                                            *)
LEMMA EvictBufInv == ASSUME NEW i \in Slots PROVE Inv /\ EvictBuf(i) => Inv'
<1> SUFFICES ASSUME Inv, EvictBuf(i) PROVE Inv'
  OBVIOUS
<1>1. Invalidate(buf[i]) \in LineType(Content) /\ LineOK(Invalidate(buf[i]), cached)
  BY InvalidateLine DEF Inv, TypeOK
<1>2. /\ buf' = [buf EXCEPT ![i] = Invalidate(buf[i])]
      /\ UNCHANGED <<driver, desc, engine, history>>
  BY DEF EvictBuf
<1>3. TypeOK' /\ Lines'
  BY <1>1, <1>2 DEF Inv, TypeOK, Lines, driver, engine, history
<1>4. Shape' /\ Marks' /\ Empty' /\ Ownership'
  BY <1>2 DEF Inv, Shape, Marks, Whole, Empty, Ownership, Filling, Sending, Wiping,
              Working, driver, engine, history
<1> QED
  BY <1>3, <1>4 DEF Inv

(* Every step preserves the invariant.                                        *)
LEMMA NextInv == Inv /\ [Next]_vars => Inv'
<1> SUFFICES ASSUME Inv, [Next]_vars PROVE Inv'
  OBVIOUS
<1>1. CASE Send
  BY <1>1, SendBeginInv, CheckOwnInv, CopyFrameInv, PutAddrInv, PutOwnInv, CleanDescInv,
     CleanBufInv, RegistersInv DEF Send
<1>2. CASE InitClear \/ Reinit \/ SetLink
  BY <1>2, InitClearInv, InitRingsInv, RegistersInv DEF Reinit
<1>3. CASE Engine
  BY <1>3, MacReleaseInv, RegistersInv DEF Engine
<1>4. CASE Cache
  BY <1>4, EvictDescInv, EvictBufInv, PrefetchDescInv DEF Cache
<1>5. CASE UNCHANGED vars
  BY <1>5 DEF Inv, TypeOK, Shape, Lines, Marks, Whole, Empty, Ownership, Filling, Sending,
              Wiping, Working, vars, driver, memory, engine, history
<1> QED
  BY <1>1, <1>2, <1>3, <1>4, <1>5 DEF Next

(* The inductive invariant holds of every state.                              *)
THEOREM InvHolds == Spec => []Inv
<1>1. Init => Inv
  BY InitInv
<1>2. Inv /\ [Next]_vars => Inv'
  BY NextInv
<1> QED
  BY <1>1, <1>2, PTL DEF Spec

(* Every state is well typed: neither driver nor MAC runs off the ring.       *)
THEOREM TypeCorrect == Spec => []TypeOK
<1>1. Inv => TypeOK
  BY DEF Inv
<1> QED
  BY <1>1, InvHolds, PTL

(* While SendOffsetEthFrame fills a slot the MAC neither owns it nor works on *)
(* it, whatever the cache keeps, drops or prefetches.                         *)
THEOREM OwnersExclude == Spec => []OneOwner
<1>1. Inv => OneOwner
  BY DEF Inv, Shape, Sending, Ownership, Working, Filling, OneOwner
<1> QED
  BY <1>1, InvHolds, PTL

(* The MAC acts on whole descriptors only, and the ring keeps its end.        *)
THEOREM DescriptorsWhole == Spec => []DescriptorWhole
<1>1. ASSUME Inv PROVE DescriptorWhole
  <2>1. \A i \in Slots : desc[i].cpu.edotr \in BOOLEAN
    BY <1>1, DescLine DEF Inv, TypeOK
  <2>2. mac = "dma" => fetched.addr
    BY <1>1 DEF Inv, Marks, Working
  <2>3. up => \A i \in Slots : desc[i].cpu.edotr = (i = Last)
    BY <1>1, <2>1 DEF Inv, Marks
  <2> QED
    BY <2>2, <2>3 DEF DescriptorWhole
<1> QED
  BY <1>1, InvHolds, PTL

-----------------------------------------------------------------------------
(* Positions in the ring.  Held is the slot whose frame has left and that the *)
(* MAC has not given back; Producer is where the next frame goes.             *)
Held == IF mac = "release" THEN 1 ELSE 0
Count == Len(queue) + Held
Producer == IF pc \in {"cleanDesc", "cleanBuf", "demand"} THEN NextIdx(txIdx) ELSE txIdx
Dist(m, i) == IF i >= m THEN i - m ELSE (i - m) + TxCount
Own(i) == IF desc[i].dirty THEN desc[i].cpu.own ELSE desc[i].mem.own

(* The slots that are owned are the Count slots from macPtr on, up to the     *)
(* driver's position, and hold the queue's frames in its order.               *)
Window ==
  up =>
    /\ Count <= TxCount
    /\ Producer = IF macPtr + Count < TxCount THEN macPtr + Count
                                              ELSE (macPtr + Count) - TxCount
    /\ \A i \in Slots : Own(i) <=> Dist(macPtr, i) < Count
    /\ ~cached =>
         /\ \A i \in Slots : Held <= Dist(macPtr, i) /\ Dist(macPtr, i) < Count
                               => buf[i].mem = queue[(Dist(macPtr, i) - Held) + 1]
         /\ pc \in {"addr", "own"} => buf[txIdx].mem = frame

(* While Init has cleared the ring and not yet stopped the MAC, what the MAC  *)
(* may still find owned is some of what the queue holds.                      *)
Draining ==
  /\ Wiping => txIdx \in ReinitAt
  /\ mac = "dma" => queue # <<>>
  /\ pc = "reset" /\ (Working \/ mac = "fetch" \/ kick) =>
       \A i \in Slots : desc[i].mem.own => Dist(macPtr, i) < Count

RingInv == Window /\ Draining

(* Initially there is no window and nothing to drain.                         *)
LEMMA InitRing == Init => RingInv
  BY DEF Init, RingInv, Window, Draining, Wiping, Working

(* The window stands while nobody gains or loses a slot, the driver's position *)
(* and the queue stay, and uncached buffers keep their frames.                *)
LEMMA WindowKept ==
  ASSUME Window, up' => up, Producer' = Producer, Held' = Held,
         queue' = queue, macPtr' = macPtr, cached' = cached,
         \A i \in Slots : Own(i)' <=> Own(i),
         ~cached => \A i \in Slots : buf'[i].mem = buf[i].mem,
         pc' \in {"addr", "own"} => pc \in {"addr", "own"} /\ frame' = frame /\ txIdx' = txIdx,
         txIdx \in Slots
  PROVE  Window'
<1> SUFFICES ASSUME up' PROVE Window'
  BY DEF Window
<1>1. up /\ Count' = Count
  BY DEF Count
<1>2. \A i \in Slots : Dist(macPtr, i)' = Dist(macPtr, i)
  BY DEF Dist
<1>3. /\ Count <= TxCount
      /\ Producer = IF macPtr + Count < TxCount THEN macPtr + Count
                                                ELSE (macPtr + Count) - TxCount
      /\ \A i \in Slots : Own(i) <=> Dist(macPtr, i) < Count
  BY <1>1 DEF Window
<1>4. ~cached' => \A i \in Slots : (Held' <= Dist(macPtr, i)' /\ Dist(macPtr, i)' < Count')
                     => buf'[i].mem = queue'[(Dist(macPtr, i)' - Held') + 1]
  BY <1>1, <1>2 DEF Window
<1>5. ~cached' => (pc' \in {"addr", "own"} => buf'[txIdx'].mem = frame')
  BY <1>1 DEF Window
<1> HIDE DEF Count, Held, Producer, Own, Dist
<1> QED
  BY <1>1, <1>2, <1>3, <1>4, <1>5 DEF Window

(* What the driver's steps of a Send leave to the MAC.                        *)
LEMMA DrainingUp ==
  ASSUME Draining, Inv', up', mac' = mac, queue' # <<>> \/ queue' = queue
  PROVE  Draining'
  BY DEF Draining, Inv, Shape, Wiping

(* The steps of a Send before its frame is accepted.                          *)
LEMMA FillRing ==
  Inv /\ Inv' /\ RingInv /\ (SendBegin \/ CheckOwn \/ CopyFrame \/ PutAddr) => RingInv'
<1> SUFFICES ASSUME Inv, Inv', RingInv, SendBegin \/ CheckOwn \/ CopyFrame \/ PutAddr
             PROVE  RingInv'
  OBVIOUS
<1> USE DEF engine, history
<1>1. /\ up /\ up' = up /\ UNCHANGED <<txIdx, cached, mac, macPtr, queue>>
      /\ pc \in {"idle", "check", "copy", "addr"} /\ pc' \in {"idle", "check", "copy", "addr", "own"}
  BY DEF Inv, Shape, Sending, SendBegin, CheckOwn, CopyFrame, PutAddr, Goto
<1>2. Draining'
  BY <1>1, DrainingUp DEF RingInv
<1>3. Producer' = Producer /\ Held' = Held
  BY <1>1 DEF Producer, Held
<1>4. txIdx \in Slots /\ cached \in BOOLEAN
  BY DEF Inv, TypeOK
<1>5. CASE SendBegin \/ CheckOwn \/ PutAddr
  <2>1. /\ UNCHANGED buf
        /\ pc' \in {"addr", "own"} => pc \in {"addr", "own"} /\ frame' = frame
    BY <1>5 DEF SendBegin, CheckOwn, PutAddr, Goto
  <2> DEFINE l == desc[txIdx]
             v == [l.cpu EXCEPT !.addr = TRUE]
             w == IF SendBegin THEN Invalidate(l)
                  ELSE IF CheckOwn THEN Fill(l, cached) ELSE Store(l, v, cached)
             own(m) == IF m.dirty THEN m.cpu.own ELSE m.mem.own
  <2>2. l \in LineType(Desc) /\ v \in Desc /\ v.own = l.cpu.own
    <3>1. l \in LineType(Desc)
      BY <1>4 DEF Inv, TypeOK
    <3>2. l.cpu \in Desc
      BY <3>1, LineFields
    <3> QED
      BY <3>1, <3>2 DEF Desc
  <2>3. l.dirty \in BOOLEAN /\ (SendBegin \/ CheckOwn => ~l.dirty)
        /\ (PutAddr => ~l.mem.own /\ ~l.cpu.own)
    BY <1>1, <1>4, <2>2, LineFields
       DEF Inv, Ownership, Filling, SendBegin, CheckOwn, PutAddr
  <2>4. desc' = [desc EXCEPT ![txIdx] = w]
    BY <1>5 DEF SendBegin, CheckOwn, PutAddr, StoreDesc
  <2>5. own(w) <=> own(l)
    <3> HIDE DEF v
    <3>1. CASE SendBegin
      BY <2>2, <2>3, <3>1, InvalidateLine
    <3>2. CASE CheckOwn /\ ~SendBegin
      BY <1>4, <2>2, <2>3, <3>2, FillLine
    <3>3. CASE PutAddr /\ ~CheckOwn /\ ~SendBegin
      BY <1>4, <2>2, <2>3, <3>3, StoreLine
    <3> QED
      BY <1>5, <3>1, <3>2, <3>3
  <2> HIDE DEF w
  <2>6. \A i \in Slots : Own(i)' <=> Own(i)
    BY <1>4, <2>4, <2>5 DEF Own, Inv, TypeOK
  <2> QED
    BY <1>1, <1>2, <1>3, <1>4, <2>1, <2>6, WindowKept DEF RingInv
<1>6. CASE CopyFrame
  <2> DEFINE m == Store(buf[txIdx], frame, cached)
  <2>1. /\ buf' = [buf EXCEPT ![txIdx] = m] /\ UNCHANGED <<desc, frame>>
        /\ pc = "copy"
    BY <1>6 DEF CopyFrame, Goto
  <2>2. ~cached => m.mem = frame
    BY DEF Store, Coherent
  <2> HIDE DEF m
  <2>3. /\ Count' = Count /\ \A i \in Slots : Dist(macPtr, i)' = Dist(macPtr, i)
        /\ \A i \in Slots : Own(i)' <=> Own(i)
    BY <1>1, <1>3, <2>1 DEF Count, Dist, Own
  <2>4. ~Own(txIdx)
    BY <1>1, <1>4, <2>1 DEF Own, Inv, Ownership, Filling
  <2>5. /\ Count <= TxCount
        /\ Producer = IF macPtr + Count < TxCount THEN macPtr + Count
                                                  ELSE (macPtr + Count) - TxCount
        /\ \A i \in Slots : Own(i) <=> Dist(macPtr, i) < Count
        /\ ~cached => \A i \in Slots : Held <= Dist(macPtr, i) /\ Dist(macPtr, i) < Count
                        => buf[i].mem = queue[(Dist(macPtr, i) - Held) + 1]
    BY <1>1 DEF RingInv, Window
  <2>6. \A i \in Slots : Dist(macPtr, i) < Count => buf'[i] = buf[i]
    BY <2>1, <2>4, <2>5 DEF Inv, TypeOK
  <2>7. ~cached => buf'[txIdx].mem = frame
    BY <1>4, <2>1, <2>2 DEF Inv, TypeOK
  <2> HIDE DEF Count, Dist, Own, Producer, Held
  <2>8. Window'
    BY <1>1, <1>3, <2>1, <2>3, <2>5, <2>6, <2>7 DEF Window
  <2> QED
    BY <1>2, <2>8 DEF RingInv
<1> QED
  BY <1>5, <1>6

(* A frame is accepted: its slot joins the window at the driver's end.  There *)
(* is room, for the slot was not owned.                                       *)
LEMMA PutOwnRing == Inv /\ Inv' /\ RingInv /\ PutOwn => RingInv' /\ Len(queue) < TxCount
<1> SUFFICES ASSUME Inv, Inv', RingInv, PutOwn PROVE RingInv' /\ Len(queue) < TxCount
  OBVIOUS
<1> DEFINE l == desc[txIdx]
           v == [l.cpu EXCEPT !.own = TRUE]
           m == Store(l, v, cached)
<1>1. /\ up /\ up' = up /\ UNCHANGED <<txIdx, cached, mac, macPtr, buf, frame>>
      /\ pc = "own" /\ pc' = "cleanDesc" /\ queue' = Append(queue, frame)
      /\ desc' = [desc EXCEPT ![txIdx] = m]
  BY DEF Inv, Shape, Sending, PutOwn, StoreDesc, Goto, engine
<1>2. /\ txIdx \in Slots /\ macPtr \in Slots /\ l \in LineType(Desc) /\ cached \in BOOLEAN
      /\ v \in Desc /\ v.own /\ queue \in Seq(Frames) /\ frame \in Frames
  <2>1. /\ txIdx \in Slots /\ macPtr \in Slots /\ l \in LineType(Desc) /\ cached \in BOOLEAN
        /\ queue \in Seq(Frames)
    BY DEF Inv, TypeOK
  <2>2. l.cpu \in Desc
    BY <2>1, LineFields
  <2>3. v \in Desc /\ v.own
    BY <2>2 DEF Desc
  <2>4. frame \in Frames
    BY <1>1, TxAssumption DEF Inv, TypeOK, Shape, Frames
  <2> QED
    BY <2>1, <2>3, <2>4
<1>3. m.cpu.own /\ (m.dirty \/ m.mem.own)
  <2> HIDE DEF v
  <2> QED
    BY <1>2, StoreLine
<1> HIDE DEF v, m
<1>4. ~Own(txIdx)
  BY <1>1, <1>2 DEF Own, Inv, Ownership, Filling
<1>5. \A i \in Slots : Own(i)' <=> (Own(i) \/ i = txIdx)
  BY <1>1, <1>2, <1>3 DEF Own, Inv, TypeOK
<1>6. /\ Len(queue) \in Nat /\ Len(queue') = Len(queue) + 1
      /\ queue'[Len(queue) + 1] = frame
      /\ \A k \in 1 .. Len(queue) : queue'[k] = queue[k]
  BY <1>1, <1>2
<1>7. /\ Held' = Held /\ Held \in {0, 1} /\ Producer = txIdx /\ Producer' = NextIdx(txIdx)
      /\ Count = Len(queue) + Held /\ Count' = Count + 1
      /\ \A i \in Slots : Dist(macPtr, i)' = Dist(macPtr, i)
  BY <1>1, <1>6 DEF Held, Producer, Count, Dist, NextIdx, Last
<1>8. /\ Count <= TxCount
      /\ txIdx = IF macPtr + Count < TxCount THEN macPtr + Count ELSE (macPtr + Count) - TxCount
      /\ \A i \in Slots : Own(i) <=> Dist(macPtr, i) < Count
      /\ ~cached =>
           /\ \A i \in Slots : Held <= Dist(macPtr, i) /\ Dist(macPtr, i) < Count
                                 => buf[i].mem = queue[(Dist(macPtr, i) - Held) + 1]
           /\ buf[txIdx].mem = frame
  BY <1>1, <1>7 DEF RingInv, Window
<1> HIDE DEF Count, Held, Own
<1>9. TxCount \in Nat \ {0} /\ \A i \in Slots : i \in 0 .. TxCount - 1
  BY Ring DEF Slots
<1>10. Count \in Nat /\ Count < TxCount /\ Dist(macPtr, txIdx) = Count
  BY <1>2, <1>4, <1>6, <1>7, <1>8, <1>9 DEF Dist
<1>11. \A i \in Slots : i # txIdx => Dist(macPtr, i) # Count
  BY <1>2, <1>8, <1>9, <1>10 DEF Dist
<1>12. \A i \in Slots : Dist(macPtr, i) \in Nat
  BY <1>2, <1>9 DEF Dist
<1>13. /\ Count' <= TxCount
       /\ \A i \in Slots : Own(i)' <=> Dist(macPtr, i)' < Count'
  BY <1>5, <1>7, <1>8, <1>9, <1>10, <1>11, <1>12
<1>14. Producer' = IF macPtr + Count' < TxCount THEN macPtr + Count'
                                                ELSE (macPtr + Count') - TxCount
  BY <1>2, <1>7, <1>8, <1>9, <1>10 DEF NextIdx, Last
<1>15. ASSUME ~cached, NEW i \in Slots, Held <= Dist(macPtr, i), Dist(macPtr, i) < Count'
       PROVE  buf'[i].mem = queue'[(Dist(macPtr, i) - Held) + 1]
  <2>1. CASE i = txIdx
    BY <1>1, <1>6, <1>7, <1>8, <1>10, <1>15, <2>1
  <2>2. CASE i # txIdx
    <3>1. Dist(macPtr, i) < Count
      BY <1>7, <1>10, <1>11, <1>12, <1>15, <2>2
    <3>2. (Dist(macPtr, i) - Held) + 1 \in 1 .. Len(queue)
      BY <1>6, <1>7, <1>12, <1>15, <3>1
    <3> QED
      BY <1>1, <1>6, <1>8, <1>15, <3>1, <3>2
  <2> QED
    BY <2>1, <2>2
<1>16. Window'
  <2>1. ~cached' =>
          /\ \A i \in Slots : Held' <= Dist(macPtr, i)' /\ Dist(macPtr, i)' < Count'
                => buf'[i].mem = queue'[(Dist(macPtr, i)' - Held') + 1]
          /\ pc' \notin {"addr", "own"}
    BY <1>1, <1>7, <1>15
  <2>2. macPtr' = macPtr
    BY <1>1
  <2> HIDE DEF Dist, Producer
  <2> QED
    BY <1>13, <1>14, <2>1, <2>2 DEF Window
<1>17. Draining'
  <2>1. queue' # <<>>
    BY <1>6, <1>1, <1>2
  <2> QED
    BY <1>1, <2>1, DrainingUp DEF RingInv
<1> QED
  BY <1>6, <1>7, <1>9, <1>10, <1>16, <1>17 DEF RingInv

(* The cleans and the poll demand move the driver on, nobody's slot.          *)
LEMMA PublishRing ==
  Inv /\ Inv' /\ RingInv /\ (CleanDesc \/ CleanBuf \/ PollDemand) => RingInv'
<1> SUFFICES ASSUME Inv, Inv', RingInv, CleanDesc \/ CleanBuf \/ PollDemand PROVE RingInv'
  OBVIOUS
<1> USE DEF engine, history, memory
<1>1. /\ up /\ up' = up /\ UNCHANGED <<cached, mac, macPtr, queue, frame>>
      /\ pc \in {"cleanDesc", "cleanBuf", "demand"} /\ pc' \in {"cleanBuf", "demand", "idle"}
  BY DEF Inv, Shape, Sending, CleanDesc, CleanBuf, PollDemand, Goto
<1>2. Draining'
  BY <1>1, DrainingUp DEF RingInv
<1>3. Producer' = Producer /\ Held' = Held
  BY <1>1 DEF Producer, Held, CleanDesc, CleanBuf, PollDemand, Goto
<1>4. txIdx \in Slots /\ cached \in BOOLEAN
  BY DEF Inv, TypeOK
<1>5. \A i \in Slots : Own(i)' <=> Own(i)
  <2>1. CASE CleanDesc
    <3>1. desc[txIdx] \in LineType(Desc) /\ desc' = [desc EXCEPT ![txIdx] = Clean(desc[txIdx])]
      BY <1>4, <2>1 DEF CleanDesc, Inv, TypeOK
    <3> QED
      BY <1>4, <3>1, CleanLine DEF Own, Inv, TypeOK
  <2>2. CASE CleanBuf \/ PollDemand
    BY <2>2 DEF Own, CleanBuf, PollDemand
  <2> QED
    BY <2>1, <2>2
<1>6. ~cached => \A i \in Slots : buf'[i].mem = buf[i].mem
  <2>1. CASE CleanBuf
    <3>1. buf[txIdx] \in LineType(Content) /\ buf' = [buf EXCEPT ![txIdx] = Clean(buf[txIdx])]
      BY <1>4, <2>1 DEF CleanBuf, Inv, TypeOK
    <3>2. ~cached => ~buf[txIdx].dirty
      BY <1>4 DEF Inv, Lines, LineOK
    <3> QED
      BY <1>4, <3>1, <3>2, CleanLine DEF Inv, TypeOK
  <2>2. CASE CleanDesc \/ PollDemand
    BY <2>2 DEF CleanDesc, PollDemand
  <2> QED
    BY <2>1, <2>2
<1> QED
  BY <1>1, <1>2, <1>3, <1>4, <1>5, <1>6, WindowKept DEF RingInv

(* A descriptor that the MAC finds owned holds a frame of the queue.          *)
LEMMA OwnedIsQueued ==
  ASSUME Inv, RingInv, mac = "fetch", desc[macPtr].mem.own
  PROVE  queue # <<>>
<1>1. macPtr \in Slots /\ macPtr \in Nat /\ queue \in Seq(Frames) /\ mac \notin {"off", "idle"}
  BY Ring DEF Inv, TypeOK
<1>2. Dist(macPtr, macPtr) = 0 /\ Held = 0 /\ Count = Len(queue)
  BY <1>1 DEF Dist, Held, Count
<1>3. CASE up
  <2>1. Own(macPtr)
    BY <1>1, <1>3 DEF Own, Inv, Ownership
  <2>2. 0 < Count
    BY <1>1, <1>2, <1>3, <2>1 DEF RingInv, Window
  <2> QED
    BY <1>1, <1>2, <2>2
<1>4. CASE ~up
  <2>1. pc = "reset"
    BY <1>1, <1>4 DEF Inv, Shape
  <2>2. 0 < Count
    BY <1>1, <1>2, <2>1 DEF RingInv, Draining
  <2> QED
    BY <1>1, <1>2, <2>2
<1> QED
  BY <1>3, <1>4

(* The link mode, a poll demand taken and a look at a descriptor.             *)
LEMMA LookRing ==
  Inv /\ Inv' /\ RingInv /\ (SetLink \/ MacPoll \/ MacFetch) => RingInv'
<1> SUFFICES ASSUME Inv, Inv', RingInv, SetLink \/ MacPoll \/ MacFetch PROVE RingInv'
  OBVIOUS
<1> USE DEF engine, history, memory, driver
<1>1. UNCHANGED <<pc, txIdx, up, cached, desc, buf, macPtr, queue, frame>>
  BY DEF SetLink, MacPoll, MacFetch
<1>2. (mac # "release" /\ mac' # "release") \/ mac' = mac
  BY DEF SetLink, MacPoll, MacFetch
<1>3. Producer' = Producer /\ Held' = Held /\ \A i \in Slots : Own(i)' <=> Own(i)
  BY <1>1, <1>2 DEF Producer, Held, Own
<1>4. txIdx \in Slots
  BY DEF Inv, TypeOK
<1>5. Window'
  BY <1>1, <1>3, <1>4, WindowKept DEF RingInv
<1>6. mac' = "dma" => queue' # <<>>
  BY <1>1, OwnedIsQueued DEF RingInv, Draining, SetLink, MacPoll, MacFetch
<1>7. (Working \/ mac = "fetch" \/ kick)' => Working \/ mac = "fetch" \/ kick
  BY DEF Working, SetLink, MacPoll, MacFetch
<1>8. Count' = Count /\ \A i \in Slots : Dist(macPtr, i)' = Dist(macPtr, i)
  BY <1>1, <1>3 DEF Count, Dist
<1>9. Draining'
  BY <1>1, <1>6, <1>7, <1>8 DEF RingInv, Draining, Wiping
<1> QED
  BY <1>5, <1>9 DEF RingInv

(* A frame goes out: its slot stays in the window until it is given back.     *)
LEMMA MacSendRing ==
  Inv /\ Inv' /\ RingInv /\ MacSend =>
    /\ RingInv'
    /\ queue # <<>>
    /\ ~cached /\ pc # "reset" => buf[macPtr].mem = Head(queue)
<1> SUFFICES ASSUME Inv, Inv', RingInv, MacSend
             PROVE  /\ RingInv'
                    /\ queue # <<>>
                    /\ ~cached /\ pc # "reset" => buf[macPtr].mem = Head(queue)
  OBVIOUS
<1>1. /\ queue # <<>> /\ queue' = Tail(queue) /\ mac = "dma" /\ mac' = "release"
      /\ UNCHANGED <<pc, txIdx, up, cached, desc, buf, macPtr, frame>>
  BY DEF RingInv, Draining, MacSend, driver, memory
<1>2. /\ macPtr \in Slots /\ queue \in Seq(Frames) /\ txIdx \in Slots
      /\ Len(queue) \in Nat \ {0} /\ Len(queue') = Len(queue) - 1
      /\ \A k \in 1 .. Len(queue) - 1 : queue'[k] = queue[k + 1]
      /\ Head(queue) = queue[1]
  BY <1>1 DEF Inv, TypeOK
<1>3. /\ Held = 0 /\ Held' = 1 /\ Count = Len(queue) /\ Count' = Count
      /\ Producer' = Producer
      /\ \A i \in Slots : Dist(macPtr, i)' = Dist(macPtr, i) /\ (Own(i)' <=> Own(i))
  BY <1>1, <1>2 DEF Held, Count, Producer, Dist, Own
<1>4. Dist(macPtr, macPtr) = 0 /\ \A i \in Slots : Dist(macPtr, i) \in Nat
  BY <1>2, Ring DEF Dist, Slots
<1>5. ASSUME up
      PROVE  /\ Count <= TxCount
             /\ Producer = IF macPtr + Count < TxCount THEN macPtr + Count
                                                       ELSE (macPtr + Count) - TxCount
             /\ \A i \in Slots : Own(i) <=> Dist(macPtr, i) < Count
             /\ ~cached =>
                  /\ \A i \in Slots : Held <= Dist(macPtr, i) /\ Dist(macPtr, i) < Count
                                        => buf[i].mem = queue[(Dist(macPtr, i) - Held) + 1]
                  /\ pc \in {"addr", "own"} => buf[txIdx].mem = frame
  BY <1>5 DEF RingInv, Window
<1> HIDE DEF Count, Held
<1>6. ASSUME up, ~cached, NEW i \in Slots, 1 <= Dist(macPtr, i), Dist(macPtr, i) < Count
      PROVE  buf[i].mem = queue'[(Dist(macPtr, i) - 1) + 1]
  <2>1. /\ buf[i].mem = queue[Dist(macPtr, i) + 1]
        /\ Dist(macPtr, i) \in 1 .. Len(queue) - 1
    BY <1>2, <1>3, <1>4, <1>5, <1>6
  <2>2. (Dist(macPtr, i) - 1) + 1 = Dist(macPtr, i)
    BY <2>1
  <2> QED
    BY <1>2, <2>1, <2>2
<1>7. Window'
  <2>1. up' /\ ~cached' =>
          /\ \A i \in Slots : Held' <= Dist(macPtr, i)' /\ Dist(macPtr, i)' < Count'
                => buf'[i].mem = queue'[(Dist(macPtr, i)' - Held') + 1]
          /\ pc' \in {"addr", "own"} => buf'[txIdx'].mem = frame'
    BY <1>1, <1>3, <1>5, <1>6
  <2>2. up' => /\ Count' <= TxCount
               /\ Producer' = IF macPtr' + Count' < TxCount THEN macPtr' + Count'
                                                            ELSE (macPtr' + Count') - TxCount
               /\ \A i \in Slots : Own(i)' <=> Dist(macPtr, i)' < Count'
    BY <1>1, <1>3, <1>5
  <2> QED
    BY <2>1, <2>2 DEF Window
<1>8. Draining'
  BY <1>1, <1>3 DEF RingInv, Draining, Wiping, Working
<1>9. ~cached /\ pc # "reset" => buf[macPtr].mem = Head(queue)
  <2> SUFFICES ASSUME ~cached, pc # "reset" PROVE buf[macPtr].mem = Head(queue)
    OBVIOUS
  <2>1. up
    BY <1>1 DEF Inv, Shape
  <2>2. buf[macPtr].mem = queue[(0 - 0) + 1]
    BY <1>2, <1>3, <1>4, <1>5, <2>1
  <2> QED
    BY <1>2, <2>2
<1> QED
  BY <1>1, <1>7, <1>8, <1>9 DEF RingInv

(* A slot is given back: the window's other end moves on.                     *)
LEMMA MacReleaseRing == Inv /\ Inv' /\ RingInv /\ MacRelease => RingInv'
<1> SUFFICES ASSUME Inv, Inv', RingInv, MacRelease PROVE RingInv'
  OBVIOUS
<1> DEFINE l == desc[macPtr]
           v == [l.mem EXCEPT !.own = FALSE, !.edotr = fetched.edotr]
           m == DmaWrite(l, v)
<1>1. /\ desc' = [desc EXCEPT ![macPtr] = m] /\ mac = "release" /\ mac' = "fetch"
      /\ macPtr' = (IF fetched.edotr THEN 0 ELSE macPtr + 1)
      /\ UNCHANGED <<pc, txIdx, up, cached, buf, queue, frame, kick>>
  BY DEF MacRelease, driver, history
<1>2. /\ macPtr \in Slots /\ txIdx \in Slots /\ l \in LineType(Desc) /\ l.dirty \in BOOLEAN
      /\ v \in Desc /\ ~v.own /\ queue \in Seq(Frames) /\ Len(queue) \in Nat
  <2>1. /\ macPtr \in Slots /\ txIdx \in Slots /\ l \in LineType(Desc) /\ fetched \in Desc
        /\ queue \in Seq(Frames)
    BY DEF Inv, TypeOK
  <2>2. l.mem \in Desc /\ l.dirty \in BOOLEAN
    BY <2>1, LineFields
  <2>3. v \in Desc /\ ~v.own
    BY <2>1, <2>2 DEF Desc
  <2> QED
    BY <2>1, <2>2, <2>3
<1>3. ~m.mem.own /\ (~l.dirty => ~m.dirty)
  <2> HIDE DEF v
  <2> QED
    BY <1>2, DmaWriteLine
<1> HIDE DEF v, m
<1>4. macPtr' = IF macPtr = Last THEN 0 ELSE macPtr + 1
  BY <1>1 DEF Inv, Marks, Working
<1>5. /\ TxCount \in Nat \ {0} /\ macPtr \in 0 .. TxCount - 1
      /\ \A i \in Slots : i \in 0 .. TxCount - 1
  BY <1>2, Ring DEF Slots
<1>6. /\ Held = 1 /\ Held' = 0 /\ Count = Len(queue) + 1 /\ Count' = Count - 1
      /\ Count \in Nat /\ Producer' = Producer
  BY <1>1, <1>2 DEF Held, Count, Producer
<1>7. \A i \in Slots : /\ Dist(macPtr, i) \in 0 .. TxCount - 1
                       /\ i # macPtr => /\ Dist(macPtr, i)' = Dist(macPtr, i) - 1
                                        /\ Dist(macPtr, i) > 0
                       /\ i = macPtr => /\ Dist(macPtr, i)' = TxCount - 1
                                        /\ Dist(macPtr, i) = 0
  BY <1>4, <1>5 DEF Dist, Last
<1> HIDE DEF Count, Held, Dist
<1>8. /\ \A i \in Slots : i # macPtr => desc'[i] = desc[i]
      /\ desc'[macPtr] = m
  BY <1>1, <1>2 DEF Inv, TypeOK
<1>9. Draining'
  <2>1. ASSUME pc' = "reset", NEW i \in Slots, desc'[i].mem.own
        PROVE  Dist(macPtr, i)' < Count'
    <3>1. i # macPtr
      BY <1>3, <1>8, <2>1
    <3>2. Dist(macPtr, i) < Count
      BY <1>1, <1>8, <2>1, <3>1 DEF RingInv, Draining, Working
    <3> QED
      BY <1>5, <1>6, <1>7, <3>1, <3>2
  <2> QED
    BY <1>1, <2>1 DEF RingInv, Draining, Wiping
<1>10. Window'
  <2> SUFFICES ASSUME up' PROVE Window'
    BY DEF Window
  <2>1. /\ Count <= TxCount
        /\ Producer = IF macPtr + Count < TxCount THEN macPtr + Count
                                                  ELSE (macPtr + Count) - TxCount
        /\ \A i \in Slots : Own(i) <=> Dist(macPtr, i) < Count
        /\ ~cached =>
             /\ \A i \in Slots : 1 <= Dist(macPtr, i) /\ Dist(macPtr, i) < Count
                                   => buf[i].mem = queue[(Dist(macPtr, i) - 1) + 1]
             /\ pc \in {"addr", "own"} => buf[txIdx].mem = frame
    BY <1>1, <1>6 DEF RingInv, Window
  <2>2. ~l.dirty
    BY <1>1, <1>2 DEF Inv, Ownership, Working
  <2>3. \A i \in Slots : IF i = macPtr THEN ~Own(i)' ELSE Own(i)' <=> Own(i)
    BY <1>2, <1>3, <1>8, <2>2 DEF Own
  <2>4. Count' <= TxCount
    BY <1>5, <1>6, <2>1
  <2>5. Producer' = IF macPtr' + Count' < TxCount THEN macPtr' + Count'
                                                  ELSE (macPtr' + Count') - TxCount
    <3>1. CASE macPtr = Last
      BY <1>4, <1>5, <1>6, <2>1, <3>1 DEF Last
    <3>2. CASE macPtr # Last
      BY <1>4, <1>5, <1>6, <2>1, <3>2 DEF Last
    <3> QED
      BY <3>1, <3>2
  <2>6. ASSUME NEW i \in Slots
        PROVE  Own(i)' <=> Dist(macPtr, i)' < Count'
    <3>1. CASE i = macPtr
      BY <1>5, <1>6, <1>7, <2>1, <2>3, <3>1
    <3>2. CASE i # macPtr
      BY <1>5, <1>6, <1>7, <2>1, <2>3, <3>2
    <3> QED
      BY <3>1, <3>2
  <2>7. ASSUME ~cached', NEW i \in Slots, Held' <= Dist(macPtr, i)', Dist(macPtr, i)' < Count'
        PROVE  buf'[i].mem = queue'[(Dist(macPtr, i)' - Held') + 1]
    <3>1. i # macPtr
      BY <1>5, <1>6, <1>7, <2>1, <2>7
    <3>2. 1 <= Dist(macPtr, i) /\ Dist(macPtr, i) < Count
      BY <1>5, <1>6, <1>7, <2>7, <3>1
    <3>3. (Dist(macPtr, i)' - Held') + 1 = (Dist(macPtr, i) - 1) + 1
      BY <1>6, <1>7, <3>1
    <3> QED
      BY <1>1, <2>1, <2>7, <3>2, <3>3
  <2>8. ~cached' /\ pc' \in {"addr", "own"} => buf'[txIdx'].mem = frame'
    BY <1>1, <2>1
  <2> QED
    BY <2>4, <2>5, <2>6, <2>7, <2>8 DEF Window
<1> QED
  BY <1>9, <1>10 DEF RingInv

(* Init's clear takes the ring down while the MAC may still be at work.       *)
LEMMA InitClearRing == Inv /\ Inv' /\ RingInv /\ InitClear => RingInv'
<1> SUFFICES ASSUME Inv, Inv', RingInv, InitClear PROVE RingInv'
  OBVIOUS
<1>1. /\ pc = "idle" /\ pc' = "reset" /\ ~up' /\ txIdx \in ReinitAt
      /\ UNCHANGED <<txIdx, cached, mac, macPtr, kick, queue>>
  BY DEF InitClear, engine, history
<1>2. \A i \in Slots : desc'[i].mem.own => desc[i].mem.own
  <2> SUFFICES ASSUME NEW i \in Slots PROVE desc'[i].mem.own => desc[i].mem.own
    OBVIOUS
  <2>1. /\ desc'[i] = Store(desc[i], Cleared, cached) /\ desc[i] \in LineType(Desc)
        /\ Cleared \in Desc /\ ~Cleared.own /\ cached \in BOOLEAN
    BY DEF InitClear, Inv, TypeOK, Cleared, Desc
  <2> HIDE DEF Cleared
  <2> QED
    BY <2>1, StoreLine
<1>3. Count' = Count /\ \A i \in Slots : Dist(macPtr, i)' = Dist(macPtr, i)
  BY <1>1 DEF Count, Held, Dist
<1>4. up => \A i \in Slots : desc[i].mem.own => Dist(macPtr, i) < Count
  <2> SUFFICES ASSUME up, NEW i \in Slots, desc[i].mem.own PROVE Dist(macPtr, i) < Count
    OBVIOUS
  <2>1. Own(i)
    BY DEF Own, Inv, Ownership
  <2> QED
    BY <2>1 DEF RingInv, Window
<1>5. ~up => ~(Working \/ mac = "fetch" \/ kick)
  BY <1>1 DEF Inv, Shape, Working
<1>6. Draining'
  BY <1>1, <1>2, <1>3, <1>4, <1>5 DEF RingInv, Draining, Wiping, Working
<1> QED
  BY <1>1, <1>6 DEF RingInv, Window

(* Init's reset empties queue and engine.                                     *)
LEMMA InitResetRing == Inv /\ Inv' /\ RingInv /\ InitReset => RingInv'
  BY DEF InitReset, Goto, Inv, Shape, Wiping, RingInv, Window, Draining

(* Init starts the MAC at slot 0: with the driver there too the empty window  *)
(* is in its place.                                                           *)
LEMMA InitRingsRing ==
  ReinitAt \subseteq {0} /\ Inv /\ Inv' /\ RingInv /\ InitRings => RingInv'
<1> SUFFICES ASSUME ReinitAt \subseteq {0}, Inv, Inv', RingInv, InitRings PROVE RingInv'
  OBVIOUS
<1>1. /\ pc = "rings" /\ ~up /\ pc' = "idle" /\ mac' \in {"idle", "off"}
      /\ UNCHANGED <<txIdx, cached, macPtr, queue>>
  BY DEF InitRings, Inv, Shape, Wiping, history
<1>2. txIdx' = 0 /\ macPtr' = 0 /\ queue' = <<>>
  BY <1>1 DEF RingInv, Draining, Wiping, Inv, Shape
<1>3. Held' = 0 /\ Count' = 0 /\ Producer' = 0
  BY <1>1, <1>2 DEF Held, Count, Producer
<1>4. \A i \in Slots : ~Own(i)'
  BY RingsWritten DEF Own
<1>5. TxCount \in Nat \ {0} /\ \A i \in Slots : i \in 0 .. TxCount - 1
  BY Ring DEF Slots
<1>6. \A i \in Slots : ~(Dist(macPtr, i)' < 0)
  BY <1>2, <1>5 DEF Dist
<1> HIDE DEF Held, Count, Producer, Dist, Own
<1>7. Window'
  BY <1>1, <1>2, <1>3, <1>4, <1>5, <1>6 DEF Window
<1>8. Draining'
  BY <1>1 DEF Draining, Wiping
<1> QED
  BY <1>7, <1>8 DEF RingInv

(* The cache moves lines, never owners or uncached frames.                    *)
LEMMA CacheRing == Inv /\ Inv' /\ RingInv /\ Cache => RingInv'
<1> SUFFICES ASSUME Inv, Inv', RingInv,
                    NEW i \in Slots, EvictDesc(i) \/ EvictBuf(i) \/ PrefetchDesc(i)
             PROVE  RingInv'
  BY DEF Cache
<1>1. UNCHANGED <<pc, txIdx, up, cached, mac, macPtr, kick, queue, frame>>
  BY DEF EvictDesc, EvictBuf, PrefetchDesc, driver, engine, history
<1>2. /\ desc[i] \in LineType(Desc) /\ buf[i] \in LineType(Content) /\ cached \in BOOLEAN
      /\ desc[i].dirty \in BOOLEAN /\ txIdx \in Slots
  BY LineFields DEF Inv, TypeOK
<1>3. Producer' = Producer /\ Held' = Held /\ Count' = Count
      /\ \A j \in Slots : Dist(macPtr, j)' = Dist(macPtr, j)
  BY <1>1 DEF Producer, Held, Count, Dist
<1>4. /\ \A j \in Slots : Own(j)' <=> Own(j)
      /\ ~up => \A j \in Slots : desc'[j].mem.own => desc[j].mem.own
  <2>1. CASE EvictDesc(i)
    <3>1. desc' = [desc EXCEPT ![i] = Invalidate(desc[i])]
      BY <2>1 DEF EvictDesc
    <3>2. ~up => ~desc[i].cpu.own
      BY DEF Inv, Empty
    <3> QED
      BY <1>2, <3>1, <3>2, InvalidateLine DEF Own, Inv, TypeOK
  <2>2. CASE PrefetchDesc(i)
    <3>1. desc' = [desc EXCEPT ![i] = Fill(desc[i], cached)]
      BY <2>2 DEF PrefetchDesc
    <3>2. /\ Fill(desc[i], cached).mem = desc[i].mem
          /\ Fill(desc[i], cached).cpu = desc[i].cpu
          /\ Fill(desc[i], cached).dirty = desc[i].dirty
      BY <1>2, FillLine
    <3> QED
      BY <3>1, <3>2 DEF Own, Inv, TypeOK
  <2>3. CASE EvictBuf(i)
    BY <2>3 DEF EvictBuf, Own
  <2> QED
    BY <2>1, <2>2, <2>3
<1>5. ~cached => UNCHANGED buf
  BY <1>2 DEF EvictDesc, EvictBuf, PrefetchDesc, Inv, Lines, LineOK
<1>6. Window'
  BY <1>1, <1>2, <1>3, <1>4, <1>5, WindowKept DEF RingInv
<1>7. Draining'
  BY <1>1, <1>3, <1>4 DEF RingInv, Draining, Wiping, Working, Inv, Shape
<1> QED
  BY <1>6, <1>7 DEF RingInv

(* Every step preserves the ring's order.                                     *)
LEMMA NextRing == ReinitAt \subseteq {0} /\ Inv /\ Inv' /\ RingInv /\ [Next]_vars => RingInv'
<1> SUFFICES ASSUME ReinitAt \subseteq {0}, Inv, Inv', RingInv, [Next]_vars PROVE RingInv'
  OBVIOUS
<1>1. CASE Send
  BY <1>1, FillRing, PutOwnRing, PublishRing DEF Send
<1>2. CASE InitClear \/ Reinit \/ SetLink
  BY <1>2, InitClearRing, InitResetRing, InitRingsRing, LookRing DEF Reinit
<1>3. CASE Engine
  BY <1>3, LookRing, MacSendRing, MacReleaseRing DEF Engine
<1>4. CASE Cache
  BY <1>4, CacheRing
<1>5. CASE UNCHANGED vars
  BY <1>5 DEF RingInv, Window, Draining, Producer, Held, Count, Dist, Own, Wiping, Working,
              vars, driver, memory, engine, history
<1> QED
  BY <1>1, <1>2, <1>3, <1>4, <1>5 DEF Next

-----------------------------------------------------------------------------
(* Every step of the driver, the MAC and the cache is a step of FrameQueue.   *)

(* From a state of the invariant every step maps to a step of FrameQueue or   *)
(* to none: a frame is queued, sent or dropped as the abstract queue would.   *)
LEMMA StepRefines ==
  Inv /\ RingInv /\ Inv' /\ [Next]_vars
    => [Fifo!Next]_<<queue, wire, ~cached /\ pc # "reset">>
<1> SUFFICES ASSUME Inv, RingInv, Inv', [Next]_vars
             PROVE  [Fifo!Next]_<<queue, wire, ~cached /\ pc # "reset">>
  OBVIOUS
<1> DEFINE exact == ~cached /\ pc # "reset"
<1>1. exact' \in BOOLEAN
  OBVIOUS
<1>2. CASE PutOwn
  <2>1. Len(queue) < TxCount
    BY <1>2, PutOwnRing
  <2>2. frame \in Frames
    BY <1>2, TxAssumption DEF Inv, TypeOK, Shape, Frames, PutOwn
  <2>3. queue' = Append(queue, frame) /\ wire' = wire /\ (exact' <=> exact)
    BY <1>2 DEF PutOwn, Goto
  <2> QED
    BY <2>1, <2>2, <2>3 DEF Fifo!Next, Fifo!Accept
<1>3. CASE MacSend
  <2>1. queue # <<>> /\ (exact => buf[macPtr].mem = Head(queue))
    BY <1>3, MacSendRing
  <2>2. /\ queue' = Tail(queue) /\ wire' = Append(wire, buf[macPtr].mem)
        /\ exact' <=> exact
    BY <1>3, <2>1 DEF MacSend, driver
  <2>3. buf[macPtr].mem \in Frames \cup {Blank}
    BY LineFields DEF Inv, TypeOK, Content
  <2> QED
    BY <2>1, <2>2, <2>3 DEF Fifo!Next, Fifo!Deliver
<1>4. CASE InitClear
  BY <1>1, <1>4 DEF InitClear, history, Fifo!Next, Fifo!Disturb
<1>5. CASE InitReset
  BY <1>1, <1>5 DEF InitReset, Fifo!Next, Fifo!Flush
<1>6. CASE /\ UNCHANGED <<queue, wire, cached>>
           /\ pc = "reset" <=> pc' = "reset"
  BY <1>6
<1>7. \/ PutOwn \/ MacSend \/ InitClear \/ InitReset
      \/ UNCHANGED <<queue, wire, cached>> /\ (pc = "reset" <=> pc' = "reset")
  <2> USE DEF driver, memory, engine, history, Goto
  <2>1. CASE Send
    BY <2>1 DEF Send, SendBegin, CheckOwn, CopyFrame, PutAddr, CleanDesc, CleanBuf, PollDemand
  <2>2. CASE InitClear \/ Reinit \/ SetLink
    BY <2>2 DEF Reinit, InitRings, SetLink
  <2>3. CASE Engine
    BY <2>3 DEF Engine, MacPoll, MacFetch, MacRelease
  <2>4. CASE Cache
    BY <2>4 DEF Cache, EvictDesc, EvictBuf, PrefetchDesc
  <2>5. CASE UNCHANGED vars
    BY <2>5 DEF vars
  <2> QED
    BY <2>1, <2>2, <2>3, <2>4, <2>5 DEF Next
<1> QED
  BY <1>2, <1>3, <1>4, <1>5, <1>6, <1>7

(* The ring is a FIFO of at most TxCount frames, exact in uncached memory, if *)
(* Init is only called with the driver at slot 0: it resets the MAC's position *)
(* and not the driver's (ftgmac100.go Init and SendOffsetEthFrame).           *)
THEOREM RingIsFifo == ASSUME ReinitAt \subseteq {0} PROVE Spec => FifoSpec
<1>1. Init => Inv /\ RingInv
  BY InitInv, InitRing
<1>2. (Inv /\ RingInv) /\ [Next]_vars => (Inv /\ RingInv)'
  BY NextInv, NextRing
<1>3. Init => Fifo!Init
  BY DEF Init, Fifo!Init
<1>4. (Inv /\ RingInv) /\ (Inv /\ RingInv)' /\ [Next]_vars
        => [Fifo!Next]_<<queue, wire, ~cached /\ pc # "reset">>
  BY StepRefines
<1> QED
  BY <1>1, <1>2, <1>3, <1>4, PTL DEF Spec, FifoSpec, Fifo!Spec
=============================================================================
