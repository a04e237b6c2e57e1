--------------------------- MODULE EhciXferProofs ---------------------------
(* Proofs about EhciXfer, for every set of arenas, buffer length, number of    *)
(* transfers and set of memories, cached or not.                               *)
EXTENDS EhciXfer, CacheLineProofs

(* Where the call is: its buffers are allocated, its qTDs are in memory, its   *)
(* queue head is, it is over as far as the device can tell.                    *)
Busy == pc \notin {"idle", "return"}
Built == Busy /\ pc \notin {"build", "cleanTD"}
Waited == pc \in {"dump", "snapshot", "disable", "residual", "invalidate", "copy", "free"}

(* The token ControlIn builds for a stage.                                     *)
Asked(s) == [st |-> "active", rest |-> IF s = "data" THEN len ELSE 0]

Lines == /\ \A s \in Stages : LineOK(td[s], cached)
         /\ LineOK(qh, cached) /\ LineOK(dn, cached)

Heap == /\ Busy => arena \in Arenas /\ alloc = {arena} /\ xfer > 0
        /\ ~Busy => arena = NoArena /\ alloc = {}

(* What a call has stored, and what of it can still be in the cache only.      *)
Stored ==
  /\ ~Busy \/ pc = "build" => \A s \in Stages : td[s].mem = ZeroToken /\ ~td[s].dirty
  /\ pc = "cleanTD" => \A s \in Stages : /\ td[s].cpu = Asked(s)
                                         /\ ~td[s].dirty => td[s].mem = Asked(s)
  /\ Built => \A s \in Stages : ~td[s].dirty /\ td[s].cpu \in {Asked(s), td[s].mem}
  /\ qh.dirty => pc = "cleanQH" /\ qh.cpu = "setup" /\ qh.mem = "zero"
  /\ qh.mem = "zero" <=> \/ ~Busy \/ pc \in {"build", "cleanTD", "buildQH"}
                         \/ pc = "cleanQH" /\ qh.dirty
  /\ ~dn.dirty /\ (~Busy => dn.mem = Zeroed)

(* How far the controller is: the queue head's overlay tells which tokens it   *)
(* has written back, and which bytes it has put in the buffer.                 *)
Walked ==
  /\ Built => \A s \in Stages : td[s].mem.st # "zero"
  /\ Built /\ qh.mem \in {"zero", "setup"} => \A s \in Stages : td[s].mem = Asked(s)
  /\ qh.mem = "data" => td["data"].mem = Asked("data")
  /\ qh.mem \in {"data", "status"} => td["status"].mem = Asked("status")
  /\ Busy => (td["status"].mem.st \in Over <=> qh.mem = "done")
  /\ Busy => \A s \in Stages : td[s].mem.st = "halted" <=> stalled = s
  /\ Busy => (stalled # "none" <=> qh.mem = "halted")
  /\ Busy => /\ sent <= len
             /\ \/ dn.mem = Zeroed /\ sent = 0
                \/ dn.mem = [by |-> xfer, n |-> sent]
  /\ qh.mem \in {"status", "done"} => /\ td["data"].mem.rest = len - sent
                                      /\ dn.mem = [by |-> xfer, n |-> sent]

(* What the call knows of it.                                                  *)
Result ==
  /\ ~Waited /\ pc # "return" => err = "nil"
  /\ Waited => err # "nodma"
  /\ Waited /\ err = "nil" => qh.mem = "done"
  /\ pc \in {"residual", "invalidate", "copy"} => err = "nil"
  /\ pc \in {"idle", "build"} => sent = 0 /\ stalled = "none" /\ ~expired
  /\ pc = "invalidate" => got = sent
  /\ pc = "copy" => got = sent /\ dn.cpu = dn.mem
  /\ pc = "free" /\ err = "nil" => got = sent /\ (sent > 0 => data = dn.mem)
  /\ pc = "return" /\ err = "nil" => /\ got = sent /\ stalled = "none"
                                     /\ sent > 0 => data = [by |-> xfer, n |-> sent]

(* The stage that failed is in the snapshot.                                   *)
Seen ==
  /\ stallSeen # "none" => stalled = stallSeen
  /\ pc = "snapshot" /\ stallSeen # "none" => td[stallSeen].cpu.st = "halted"
  /\ pc \in {"disable", "residual", "invalidate", "copy", "free", "return"}
       /\ stallSeen # "none" => dbg[stallSeen] = "halted"

Inv == TypeOK /\ Lines /\ Heap /\ Stored /\ Walked /\ Result /\ Seen

-----------------------------------------------------------------------------
(* The schedule is enabled only for the call's own arena, and runs only for it *)
(* when it stops at once; what the call waits for in vain the device caused.   *)
Schedule ==
  /\ ase => pc \in {"poll", "look", "dump", "snapshot", "disable"}
  /\ pc \in {"enable", "poll", "look", "dump", "snapshot", "disable"} => list = arena
  /\ atOnce /\ ass =>
       /\ pc \in {"poll", "look", "dump", "snapshot", "disable", "residual", "free"}
       /\ cur = arena
Blame ==
  /\ nak \/ stalled # "none" \/ err = "halted" => trouble
  /\ td["status"].mem.st = "recovered" => trouble
  /\ atOnce /\ (expired \/ err = "timeout") => trouble

StopInv == Schedule /\ Blame

-----------------------------------------------------------------------------
(* Types of the state's parts, as the proofs use them.                         *)
Places == Stages \cup {"zero", "done", "halted"}

(* What a call builds has its type: no stage asks for more than the buffer.    *)
LEMMA AskedType ==
  ASSUME TypeOK
  PROVE  /\ \A s \in Stages : Asked(s) \in Token /\ Asked(s).st = "active"
         /\ Asked("data").rest = len
         /\ ZeroToken \in Token /\ Zeroed \in Bytes
         /\ "zero" \in Places /\ "setup" \in Places
  BY XferAssumption DEF TypeOK, Asked, Token, States, ZeroToken, Zeroed, Bytes, Places, Stages

(* The words of a token and of the buffer.                                     *)
LEMMA Words ==
  /\ \A t \in Token : t.st \in States /\ t.rest \in 0 .. MaxLen
  /\ \A b \in Bytes : b.by \in 0 .. MaxXfers /\ b.n \in 0 .. MaxLen
  BY DEF Token, Bytes

(* The lines of memory have their types.                                       *)
LEMMA LineTypes ==
  ASSUME TypeOK
  PROVE  /\ \A s \in Stages : /\ td[s] \in LineType(Token)
                              /\ td[s].mem \in Token /\ td[s].cpu \in Token
                              /\ td[s].held \in BOOLEAN /\ td[s].dirty \in BOOLEAN
         /\ qh \in LineType(Places) /\ qh.mem \in Places /\ qh.cpu \in Places
         /\ qh.held \in BOOLEAN /\ qh.dirty \in BOOLEAN
         /\ dn \in LineType(Bytes) /\ dn.mem \in Bytes /\ dn.cpu \in Bytes
         /\ dn.held \in BOOLEAN /\ dn.dirty \in BOOLEAN
         /\ cached \in BOOLEAN /\ len \in 0 .. MaxLen
<1>1. \A s \in Stages : td[s] \in LineType(Token)
  BY DEF TypeOK
<1>2. qh \in LineType(Places) /\ dn \in LineType(Bytes)
  BY DEF TypeOK, Places
<1> QED
  BY <1>1, <1>2, LineFields DEF TypeOK

(* Initially, and again after every Free, memory is zero.                      *)
LEMMA NewLines ==
  /\ Coherent("zero") \in LineType(Places) /\ Coherent("zero").mem = "zero"
  /\ ~Coherent("zero").dirty
  /\ Coherent(ZeroToken) \in LineType(Token) /\ Coherent(ZeroToken).mem = ZeroToken
  /\ ~Coherent(ZeroToken).dirty
  /\ Coherent(Zeroed) \in LineType(Bytes) /\ Coherent(Zeroed).mem = Zeroed
  /\ ~Coherent(Zeroed).dirty
  /\ \A c : /\ LineOK(Coherent("zero"), c) /\ LineOK(Coherent(ZeroToken), c)
            /\ LineOK(Coherent(Zeroed), c)
<1>1. "zero" \in Places /\ ZeroToken \in Token /\ Zeroed \in Bytes
  BY XferAssumption DEF Places, ZeroToken, Token, States, Zeroed, Bytes
<1> QED
  BY <1>1, CoherentLine

(* Initially no call has begun.                                                *)
LEMMA InitInv == Init => Inv
<1> SUFFICES ASSUME Init PROVE Inv
  OBVIOUS
<1> USE DEF Init
<1>1. TypeOK
  <2>1. /\ td \in [Stages -> LineType(Token)] /\ dn \in LineType(Bytes)
        /\ qh \in LineType(Stages \cup {"zero", "done", "halted"})
    BY NewLines DEF Places
  <2>2. data \in Bytes /\ dbg \in [Stages -> States]
    BY XferAssumption DEF Zeroed, Bytes, NoDebug, States
  <2>3. cached \in BOOLEAN /\ atOnce \in BOOLEAN /\ xfer \in 0 .. MaxXfers /\ 0 \in 0 .. MaxLen
    BY XferAssumption
  <2> QED
    BY <2>1, <2>2, <2>3 DEF TypeOK, PCs
<1>2. Lines
  BY NewLines DEF Lines
<1>3. Heap /\ Stored
  BY NewLines DEF Heap, Stored, Busy, Built
<1>4. Walked
  BY NewLines DEF Walked, Built, Busy
<1>5. Result /\ Seen
  BY DEF Result, Seen, Waited
<1> QED
  BY <1>1, <1>2, <1>3, <1>4, <1>5 DEF Inv

-----------------------------------------------------------------------------
(* Each step preserves the invariant.                                          *)

(* The steps that touch no memory: a register written or a schedule that       *)
(* starts or stops, the device's moods, and the time.                          *)
LEMMA RegistersInv ==
  Inv /\ (\/ SetDMA \/ SetListAddr \/ EnableAsync \/ DisableAsync \/ DeadlinePasses
          \/ StartSchedule \/ StopSchedule \/ DeviceNaks \/ DeviceWakes) => Inv'
<1> SUFFICES ASSUME Inv, \/ SetDMA \/ SetListAddr \/ EnableAsync \/ DisableAsync
                         \/ DeadlinePasses \/ StartSchedule \/ StopSchedule
                         \/ DeviceNaks \/ DeviceWakes
             PROVE  Inv'
  OBVIOUS
<1> USE DEF SetDMA, SetListAddr, EnableAsync, DisableAsync, DeadlinePasses, StartSchedule,
            StopSchedule, DeviceNaks, DeviceWakes, Goto, call, outcome, memory, heap, hc,
            device, driverSide
<1>1. /\ UNCHANGED <<memory, heap, outcome, xfer, len, sent, stalled, stallSeen>>
      /\ \/ pc' = pc
         \/ pc = "list" /\ pc' = "enable"
         \/ pc = "enable" /\ pc' = "poll"
         \/ pc = "disable" /\ pc' = (IF err = "nil" THEN "residual" ELSE "free")
      /\ expired' = expired \/ pc \in {"poll", "look"}
  OBVIOUS
<1>2. TypeOK'
  <2>1. /\ dma' \in BOOLEAN /\ expired' \in BOOLEAN /\ ase' \in BOOLEAN /\ ass' \in BOOLEAN
        /\ nak' \in BOOLEAN /\ trouble' \in BOOLEAN
        /\ list' \in {list, arena} /\ cur' \in {cur, list, NoArena}
    BY DEF Inv, TypeOK
  <2>2. pc' \in PCs
    BY <1>1 DEF Inv, TypeOK, PCs
  <2> QED
    BY <1>1, <2>1, <2>2 DEF Inv, TypeOK
<1>3. Lines' /\ Heap'
  BY <1>1 DEF Inv, Lines, Heap, Busy
<1>4. Stored'
  <2>1. /\ Busy' <=> Busy
        /\ Built' <=> Built
        /\ pc' \in {"build", "cleanTD", "buildQH", "cleanQH"} <=> pc \in {"build", "cleanTD", "buildQH", "cleanQH"}
        /\ pc' \in {"build", "cleanTD", "buildQH", "cleanQH"} => pc' = pc
    BY <1>1 DEF Busy, Built
  <2> QED
    BY <1>1, <2>1 DEF Inv, Stored, Asked
<1>5. Walked'
  BY <1>1 DEF Inv, Walked, Busy, Built, Asked
<1>6. Result' /\ Seen'
  BY <1>1 DEF Inv, Result, Seen, Waited
<1> QED
  BY <1>2, <1>3, <1>4, <1>5, <1>6 DEF Inv

(* A call begins with zeroed buffers of its own, or not at all.                *)
LEMMA BeginInv == Inv /\ Begin => Inv'
<1> SUFFICES ASSUME Inv, Begin PROVE Inv'
  OBVIOUS
<1>1. /\ pc = "idle" /\ xfer < MaxXfers /\ xfer' = xfer + 1 /\ len' \in Lens
      /\ UNCHANGED <<dma, expired, got, data, dbg, memory, cached, atOnce, hc, device, stallSeen>>
      /\ \/ /\ err' = "nodma" /\ pc' = "return" /\ UNCHANGED <<arena, alloc>>
         \/ /\ err' = err /\ pc' = "build" /\ arena' \in Arenas \ alloc
            /\ alloc' = alloc \cup {arena'}
  BY DEF Begin, Goto
<1>2. /\ qh.mem = "zero" /\ arena = NoArena /\ alloc = {} /\ err = "nil"
      /\ sent = 0 /\ stalled = "none" /\ ~expired /\ stallSeen = "none"
      /\ dn.mem = Zeroed
      /\ \A s \in Stages : td[s].mem = ZeroToken /\ ~td[s].dirty
  BY <1>1 DEF Inv, Heap, Stored, Result, Seen, Waited, Busy
<1> USE DEF memory, hc, device
<1>3. TypeOK'
  <2>1. xfer' \in 0 .. MaxXfers /\ len' \in 0 .. MaxLen
    BY <1>1, XferAssumption DEF Inv, TypeOK
  <2>2. arena' \in Arenas \cup {NoArena} /\ alloc' \subseteq Arenas
    BY <1>1, <1>2
  <2>3. pc' \in PCs /\ err' \in {"nil", "nodma"}
    BY <1>1, <1>2 DEF PCs
  <2> QED
    BY <1>1, <2>1, <2>2, <2>3 DEF Inv, TypeOK
<1>4. Lines'
  BY <1>1 DEF Inv, Lines
<1>5. Heap'
  <2>1. xfer' > 0
    BY <1>1 DEF Inv, TypeOK
  <2> QED
    BY <1>1, <1>2, <2>1 DEF Heap, Busy
<1>6. Stored'
  BY <1>1, <1>2 DEF Inv, Stored, Busy, Built
<1>7. Walked'
  <2>1. sent' <= len'
    BY <1>1, <1>2, XferAssumption DEF Inv, TypeOK
  <2> QED
    BY <1>1, <1>2, <2>1 DEF Walked, Busy, Built, ZeroToken, Stages, Over
<1>8. Result' /\ Seen'
  BY <1>1, <1>2 DEF Result, Seen, Waited
<1> QED
  BY <1>3, <1>4, <1>5, <1>6, <1>7, <1>8 DEF Inv

(* The qTDs are stored: what the controller is asked for is what the CPU sees. *)
LEMMA BuildQTDsInv == Inv /\ BuildQTDs => Inv'
<1> SUFFICES ASSUME Inv, BuildQTDs PROVE Inv'
  OBVIOUS
<1>1. /\ pc = "build" /\ pc' = "cleanTD"
      /\ td' = [s \in Stages |-> Store(td[s], Asked(s), cached)]
      /\ UNCHANGED <<call, expired, outcome, qh, dn, heap, hc, device, stallSeen>>
  BY DEF BuildQTDs, Goto, Asked
<1>2. \A s \in Stages :
        /\ td'[s] \in LineType(Token) /\ LineOK(td'[s], cached)
        /\ td'[s].cpu = Asked(s) /\ td'[s].dirty = cached
        /\ td'[s].mem = IF cached THEN td[s].mem ELSE Asked(s)
  <2> TAKE s \in Stages
  <2>1. td[s] \in LineType(Token) /\ Asked(s) \in Token /\ cached \in BOOLEAN
    BY AskedType, LineTypes DEF Inv
  <2>2. td'[s] = Store(td[s], Asked(s), cached)
    BY <1>1
  <2> QED
    BY <2>1, <2>2, StoreLine
<1>3. qh.mem = "zero" /\ sent = 0 /\ stalled = "none" /\ ~expired
      /\ \A s \in Stages : td[s].mem = ZeroToken
  BY <1>1 DEF Inv, Stored, Result
<1>4. \A s \in Stages : td'[s].mem.st \in {"zero", "active"}
  <2>1. \A s \in Stages : Asked(s).st = "active" /\ ZeroToken.st = "zero"
    BY AskedType DEF Inv, ZeroToken
  <2> QED
    BY <1>2, <1>3, <2>1
<1> USE DEF call, outcome, heap, hc, device
<1>5. TypeOK'
  <2>1. td' \in [Stages -> LineType(Token)]
    BY <1>1, <1>2
  <2> QED
    BY <1>1, <2>1 DEF Inv, TypeOK, PCs
<1>6. Lines' /\ Heap'
  BY <1>1, <1>2 DEF Inv, Lines, Heap, Busy
<1>7. Stored'
  BY <1>1, <1>2 DEF Inv, Stored, Busy, Built, Asked
<1>8. Walked'
  <2>1. ~Built' /\ Busy /\ "status" \in Stages
    BY <1>1 DEF Busy, Built, Stages
  <2>2. \A s \in Stages : stalled # s
    BY <1>3 DEF Stages
  <2> QED
    BY <1>1, <1>3, <1>4, <2>1, <2>2 DEF Inv, Walked, Over
<1>9. Result' /\ Seen'
  BY <1>1 DEF Inv, Result, Seen, Waited
<1> QED
  BY <1>5, <1>6, <1>7, <1>8, <1>9 DEF Inv

(* Cleaned, they are what the controller will fetch.                           *)
LEMMA CleanQTDsInv == Inv /\ CleanQTDs => Inv'
<1> SUFFICES ASSUME Inv, CleanQTDs PROVE Inv'
  OBVIOUS
<1>1. /\ pc = "cleanTD" /\ pc' = "buildQH" /\ td' = [s \in Stages |-> Clean(td[s])]
      /\ UNCHANGED <<call, expired, outcome, qh, dn, heap, hc, device, stallSeen>>
  BY DEF CleanQTDs, Goto
<1>2. \A s \in Stages :
        /\ td'[s] \in LineType(Token) /\ LineOK(td'[s], cached) /\ ~td'[s].dirty
        /\ td'[s].cpu = Asked(s) /\ td'[s].mem = Asked(s)
  <2> TAKE s \in Stages
  <2>1. td[s] \in LineType(Token) /\ LineOK(td[s], cached)
    BY LineTypes DEF Inv, Lines
  <2>2. td[s].cpu = Asked(s) /\ (~td[s].dirty => td[s].mem = Asked(s))
    BY <1>1 DEF Inv, Stored
  <2>3. td'[s] = Clean(td[s])
    BY <1>1
  <2> QED
    BY <2>1, <2>2, <2>3, CleanLine
<1>3. qh.mem = "zero" /\ stalled = "none"
  BY <1>1 DEF Inv, Stored, Walked, Busy
<1> USE DEF call, outcome, heap, hc, device
<1>4. TypeOK'
  <2>1. td' \in [Stages -> LineType(Token)]
    BY <1>1, <1>2
  <2> QED
    BY <1>1, <2>1 DEF Inv, TypeOK, PCs
<1>5. Lines' /\ Heap'
  BY <1>1, <1>2 DEF Inv, Lines, Heap, Busy
<1>6. Stored'
  BY <1>1, <1>2 DEF Inv, Stored, Busy, Built, Asked
<1>7. Walked'
  BY <1>1, <1>2, <1>3 DEF Inv, Walked, Busy, Built, Asked, Stages, Over
<1>8. Result' /\ Seen'
  BY <1>1 DEF Inv, Result, Seen, Waited
<1> QED
  BY <1>4, <1>5, <1>6, <1>7, <1>8 DEF Inv

(* The queue head, stored and cleaned, points at the SETUP stage.              *)
LEMMA QueueHeadInv == Inv /\ (BuildQH \/ CleanQH) => Inv'
<1> SUFFICES ASSUME Inv, BuildQH \/ CleanQH PROVE Inv'
  OBVIOUS
<1>1. /\ UNCHANGED <<call, expired, outcome, td, dn, heap, hc, device, stallSeen>>
      /\ pc \in {"buildQH", "cleanQH"} /\ pc' \in {"cleanQH", "list"}
  BY DEF BuildQH, CleanQH, Goto
<1>2. qh \in LineType(Places) /\ qh.dirty \in BOOLEAN /\ cached \in BOOLEAN /\ "setup" \in Places
      /\ LineOK(qh, cached)
  BY LineTypes, AskedType DEF Inv, Lines
<1>3. qh' \in LineType(Places) /\ LineOK(qh', cached)
  BY <1>2, StoreLine, CleanLine DEF BuildQH, CleanQH
<1> USE DEF call, outcome, heap, hc, device
<1>4. TypeOK'
  BY <1>1, <1>3 DEF Inv, TypeOK, PCs, Places
<1>5. Lines' /\ Heap'
  BY <1>1, <1>3 DEF Inv, Lines, Heap, Busy
<1>6. Result' /\ Seen'
  BY <1>1 DEF Inv, Result, Seen, Waited
<1>7. CASE BuildQH
  <2>1. /\ pc = "buildQH" /\ pc' = "cleanQH" /\ qh.mem = "zero"
        /\ qh'.cpu = "setup" /\ qh'.mem = (IF cached THEN "zero" ELSE "setup") /\ qh'.dirty = cached
    BY <1>2, <1>7, StoreLine DEF BuildQH, Goto, Inv, Stored
  <2>2. Stored'
    BY <1>1, <1>2, <2>1 DEF Inv, Stored, Busy, Built, Asked
  <2>3. Walked'
    BY <1>1, <2>1 DEF Inv, Walked, Busy, Built, Asked
  <2> QED
    BY <1>4, <1>5, <1>6, <2>2, <2>3 DEF Inv
<1>8. CASE CleanQH
  <2>1. /\ pc = "cleanQH" /\ pc' = "list" /\ ~qh'.dirty
        /\ qh'.mem = IF qh.dirty THEN "setup" ELSE qh.mem
        /\ qh.dirty => qh.mem = "zero"
        /\ ~qh.dirty => qh.mem # "zero"
    BY <1>2, <1>8, CleanLine DEF CleanQH, Goto, Inv, Stored, Busy
  <2>2. Stored'
    BY <1>1, <2>1 DEF Inv, Stored, Busy, Built, Asked
  <2>3. Walked'
    BY <1>1, <2>1 DEF Inv, Walked, Busy, Built, Asked
  <2> QED
    BY <1>4, <1>5, <1>6, <2>2, <2>3 DEF Inv
<1> QED
  BY <1>7, <1>8

(* waitQTD drops its copy of the STATUS token and reads it again; the cache's  *)
(* moves of clean lines do no more than that.  A copy the CPU holds is never   *)
(* older than the token as it was built.                                       *)
LEMMA LineMovesInv ==
  ASSUME Inv, NEW s \in Stages, NEW m,
         m \in {Invalidate(td[s]), Fill(td[s], cached)},
         td' = [td EXCEPT ![s] = m],
         pc' = pc \/ (pc = "poll" /\ pc' = "look"),
         UNCHANGED <<call, expired, outcome, qh, dn, heap, hc, device, stallSeen>>
  PROVE  Inv'
<1> USE DEF call, outcome, heap, hc, device
<1>1. /\ td[s] \in LineType(Token) /\ td[s].dirty \in BOOLEAN /\ cached \in BOOLEAN
      /\ LineOK(td[s], cached) /\ td \in [Stages -> LineType(Token)]
  BY LineTypes DEF Inv, Lines, TypeOK
<1>2. /\ m \in LineType(Token) /\ LineOK(m, cached)
      /\ m.dirty => td[s].dirty /\ m.mem = td[s].mem
      /\ m.mem # td[s].mem => td[s].dirty /\ ~m.dirty
      /\ td[s].dirty /\ ~m.dirty => m.mem = td[s].cpu
      /\ m.cpu # td[s].cpu => ~td[s].dirty /\ m.cpu = m.mem
  <2> DEFINE i == Invalidate(td[s])
             f == Fill(td[s], cached)
  <2>1. /\ i \in LineType(Token) /\ LineOK(i, cached) /\ ~i.dirty
        /\ i.mem = (IF td[s].dirty THEN td[s].cpu ELSE td[s].mem) /\ i.cpu = i.mem
    BY <1>1, InvalidateLine
  <2>2. /\ f \in LineType(Token) /\ LineOK(f, cached) /\ f.dirty = td[s].dirty
        /\ f.mem = td[s].mem /\ f.cpu = td[s].cpu
    BY <1>1, FillLine
  <2>3. m = i \/ m = f
    OBVIOUS
  <2> HIDE DEF i, f
  <2>4. CASE m = i
    BY <1>1, <2>1, <2>4
  <2>5. CASE m = f
    BY <1>1, <2>2, <2>5
  <2> QED
    BY <2>3, <2>4, <2>5
<1>3. \A t \in Stages : td'[t] = IF t = s THEN m ELSE td[t]
  BY <1>1
<1>4. /\ Busy' <=> Busy
      /\ Built' <=> Built
      /\ Waited' <=> Waited
      /\ \A l \in PCs : l \notin {"poll", "look"} => (pc' = l <=> pc = l)
  BY DEF Busy, Built, Waited
<1>5. TypeOK'
  <2>1. td' \in [Stages -> LineType(Token)] /\ pc' \in PCs
    BY <1>1, <1>2 DEF Inv, TypeOK, PCs
  <2> QED
    BY <2>1 DEF Inv, TypeOK
<1>6. Lines' /\ Heap'
  BY <1>2, <1>3, <1>4 DEF Inv, Lines, Heap
<1>7. pc = "cleanTD" \/ ~td[s].dirty
  BY <1>1 DEF Inv, Stored, Busy, Built
<1>8. Stored'
  <2>1. ~Busy' \/ pc' = "build" => \A t \in Stages : td'[t].mem = ZeroToken /\ ~td'[t].dirty
    BY <1>2, <1>3, <1>4 DEF Inv, Stored
  <2>2. pc' = "cleanTD" => \A t \in Stages : /\ td'[t].cpu = Asked(t)'
                                             /\ ~td'[t].dirty => td'[t].mem = Asked(t)'
    BY <1>2, <1>3 DEF Inv, Stored, Asked
  <2>3. Built' => \A t \in Stages : ~td'[t].dirty /\ td'[t].cpu \in {Asked(t)', td'[t].mem}
    BY <1>2, <1>3, <1>4 DEF Inv, Stored, Asked
  <2>4. /\ qh.dirty => pc' = "cleanQH" /\ qh.cpu = "setup" /\ qh.mem = "zero"
        /\ qh.mem = "zero" <=> \/ ~Busy' \/ pc' \in {"build", "cleanTD", "buildQH"}
                               \/ pc' = "cleanQH" /\ qh.dirty
        /\ ~dn.dirty /\ (~Busy' => dn.mem = Zeroed)
    BY <1>4 DEF Inv, Stored
  <2> QED
    BY <2>1, <2>2, <2>3, <2>4 DEF Stored
<1>9. ASSUME ~td[s].dirty PROVE \A t \in Stages : td'[t].mem = td[t].mem
  BY <1>2, <1>3, <1>9
<1>10. Walked'
  <2>1. CASE ~td[s].dirty
    BY <1>4, <1>9, <2>1 DEF Inv, Walked, Asked, Stages
  <2>2. CASE td[s].dirty
    <3>1. pc = "cleanTD" /\ pc' = pc /\ qh.mem = "zero" /\ ~Built /\ Busy
      BY <1>7, <2>2 DEF Inv, Stored, Busy, Built
    <3>2. td'[s].mem = td[s].mem \/ td'[s].mem.st = "active"
      BY <1>2, <1>3, <3>1, AskedType DEF Inv, Stored
    <3>3. \A t \in Stages : td[t].mem.st \notin Over \/ t # "status"
      BY <3>1 DEF Inv, Walked
    <3>4. stalled = "none" /\ \A t \in Stages : td[t].mem.st # "halted"
      BY <3>1 DEF Inv, Walked, Stages
    <3>5. \A t \in Stages : /\ td'[t].mem.st # "halted"
                            /\ t = "status" => td'[t].mem.st \notin Over
      BY <1>3, <3>2, <3>3, <3>4 DEF Over
    <3> QED
      BY <1>4, <3>1, <3>4, <3>5 DEF Inv, Walked, Stages
  <2> QED
    BY <2>1, <2>2
<1>11. Result' /\ Seen'
  <2>1. Result'
    BY DEF Inv, Result, Waited
  <2>2. pc = "snapshot" /\ stallSeen # "none" => td'[stallSeen].cpu.st = "halted"
    <3> SUFFICES ASSUME pc = "snapshot", stallSeen # "none"
                 PROVE  td'[stallSeen].cpu.st = "halted"
      OBVIOUS
    <3>1. stallSeen \in Stages /\ stalled = stallSeen /\ td[stallSeen].cpu.st = "halted"
      BY DEF Inv, TypeOK, Seen
    <3>2. td[stallSeen].mem.st = "halted" /\ ~td[s].dirty
      BY <1>7, <3>1 DEF Inv, Walked, Busy
    <3> QED
      BY <1>2, <1>3, <3>1, <3>2
  <2>3. Seen'
    BY <2>2 DEF Inv, Seen
  <2> QED
    BY <2>1, <2>3
<1> QED
  BY <1>5, <1>6, <1>8, <1>10, <1>11 DEF Inv

(* waitQTD begins each look by dropping its copy of the STATUS token.          *)
LEMMA PollInvalidateInv == Inv /\ PollInvalidate => Inv'
<1> SUFFICES ASSUME Inv, PollInvalidate PROVE Inv'
  OBVIOUS
<1>1. "status" \in Stages
  BY DEF Stages
<1>2. /\ td' = [td EXCEPT !["status"] = Invalidate(td["status"])]
      /\ pc = "poll" /\ pc' = "look"
      /\ UNCHANGED <<call, expired, outcome, qh, dn, heap, hc, device, stallSeen>>
  BY DEF PollInvalidate, Goto
<1> QED
  BY <1>1, <1>2, LineMovesInv

(* The cache may move any line at any time.                                    *)
LEMMA CacheMovesInv == Inv /\ CacheMoves => Inv'
<1> SUFFICES ASSUME Inv, CacheMoves PROVE Inv'
  OBVIOUS
<1> USE DEF driverSide
<1>1. /\ qh \in LineType(Places) /\ LineOK(qh, cached) /\ dn \in LineType(Bytes)
      /\ LineOK(dn, cached) /\ cached \in BOOLEAN /\ dn.dirty \in BOOLEAN
  BY LineTypes DEF Inv, Lines
<1>2. UNCHANGED <<pc, call, expired, outcome, heap, hc, device, stallSeen>>
  BY DEF CacheMoves, hc
<1>3. ASSUME NEW s \in Stages, NEW m \in Moved(td[s]), td' = [td EXCEPT ![s] = m],
             UNCHANGED <<qh, dn>>
      PROVE  Inv'
  BY <1>2, <1>3, LineMovesInv DEF Moved
<1>4. ASSUME qh.dirty, qh' = Invalidate(qh), UNCHANGED <<td, dn>>
      PROVE  Inv'
  <2>1. /\ pc = "cleanQH" /\ qh.mem = "zero" /\ ~qh'.dirty /\ qh'.mem = "setup"
        /\ qh' \in LineType(Places) /\ LineOK(qh', cached)
    BY <1>1, <1>4, InvalidateLine DEF Inv, Stored
  <2> USE DEF call, outcome, heap, hc, device
  <2>2. TypeOK'
    BY <1>2, <1>4, <2>1 DEF Inv, TypeOK, Places
  <2>3. Lines' /\ Heap'
    BY <1>2, <1>4, <2>1 DEF Inv, Lines, Heap, Busy
  <2>4. Stored'
    BY <1>2, <1>4, <2>1 DEF Inv, Stored, Busy, Built, Asked
  <2>5. Walked'
    BY <1>2, <1>4, <2>1 DEF Inv, Walked, Busy, Built, Asked
  <2>6. Result' /\ Seen'
    BY <1>2, <1>4, <2>1 DEF Inv, Result, Seen, Waited
  <2> QED
    BY <2>2, <2>3, <2>4, <2>5, <2>6 DEF Inv
<1>5. ASSUME dn' \in Moved(dn), UNCHANGED <<qh, td>>
      PROVE  Inv'
  <2> DEFINE i == Invalidate(dn)
             f == Fill(dn, cached)
  <2>1. /\ i \in LineType(Bytes) /\ LineOK(i, cached) /\ ~i.dirty
        /\ i.mem = (IF dn.dirty THEN dn.cpu ELSE dn.mem) /\ i.cpu = i.mem
    BY <1>1, InvalidateLine
  <2>2. /\ f \in LineType(Bytes) /\ LineOK(f, cached) /\ f.dirty = dn.dirty
        /\ f.mem = dn.mem /\ f.cpu = dn.cpu
    BY <1>1, FillLine
  <2>3. dn' = i \/ dn' = f
    BY <1>5 DEF Moved
  <2> HIDE DEF i, f
  <2>4. /\ dn' \in LineType(Bytes) /\ LineOK(dn', cached) /\ ~dn'.dirty
        /\ dn'.mem = dn.mem /\ dn'.cpu \in {dn.cpu, dn.mem}
    BY <1>1, <2>1, <2>2, <2>3 DEF Inv, Stored
  <2> USE DEF call, outcome, heap, hc, device
  <2>5. TypeOK'
    BY <1>2, <1>5, <2>4 DEF Inv, TypeOK
  <2>6. Lines' /\ Heap'
    BY <1>2, <1>5, <2>4 DEF Inv, Lines, Heap, Busy
  <2>7. Stored'
    BY <1>2, <1>5, <2>4 DEF Inv, Stored, Busy, Built, Asked
  <2>8. Walked'
    BY <1>2, <1>5, <2>4 DEF Inv, Walked, Busy, Built, Asked
  <2>9. Result' /\ Seen'
    BY <1>2, <1>5, <2>4 DEF Inv, Result, Seen, Waited
  <2> QED
    BY <2>5, <2>6, <2>7, <2>8, <2>9 DEF Inv
<1> QED
  BY <1>3, <1>4, <1>5 DEF CacheMoves

(* The look: a STATUS token that reads neither active nor halted is done, and  *)
(* a stage that has failed by now is what stallSeen keeps.                     *)
LEMMA LookInv == Inv /\ Look => Inv'
<1> SUFFICES ASSUME Inv, Look PROVE Inv'
  OBVIOUS
<1> DEFINE l == td["status"]
           m == Fill(l, cached)
<1>1. /\ pc = "look" /\ stallSeen' = stalled /\ td' = [td EXCEPT !["status"] = m]
      /\ UNCHANGED <<call, expired, got, data, dbg, qh, dn, heap, hc, device>>
      /\ \/ l.cpu.st \in {"halted", "recovered"} /\ err' = "halted" /\ pc' = "dump"
         \/ l.cpu.st = "active" /\ expired /\ err' = "timeout" /\ pc' = "dump"
         \/ l.cpu.st = "active" /\ ~expired /\ err' = err /\ pc' = "poll"
         \/ l.cpu.st \notin {"halted", "recovered", "active"} /\ err' = err /\ pc' = "dump"
  BY DEF Look, Goto
<1>2. /\ "status" \in Stages /\ l \in LineType(Token) /\ LineOK(l, cached)
      /\ cached \in BOOLEAN /\ td \in [Stages -> LineType(Token)]
  BY LineTypes DEF Inv, Lines, Stages, TypeOK
<1>3. /\ m \in LineType(Token) /\ LineOK(m, cached) /\ m.mem = l.mem /\ m.cpu = l.cpu
      /\ m.dirty = l.dirty
  BY <1>2, FillLine
<1> HIDE DEF m
<1>4. \A s \in Stages : /\ td'[s].mem = td[s].mem /\ td'[s].cpu = td[s].cpu
                        /\ td'[s].dirty = td[s].dirty /\ LineOK(td'[s], cached)
  BY <1>1, <1>2, <1>3 DEF Inv, Lines
<1>5. err = "nil" /\ Built /\ Busy /\ pc' \in {"poll", "dump"}
  BY <1>1 DEF Inv, Result, Waited, Built, Busy
<1>6. l.cpu.st \notin {"halted", "recovered", "active"} => qh.mem = "done"
  <2> SUFFICES ASSUME l.cpu.st \notin {"halted", "recovered", "active"} PROVE qh.mem = "done"
    OBVIOUS
  <2>1. l.cpu = l.mem /\ l.mem.st # "zero"
    BY <1>2, <1>5, AskedType DEF Inv, Stored, Walked
  <2>2. l.mem.st \in Over \cup {"zero", "active", "halted"}
    BY <1>2, LineTypes, Words DEF Inv, States
  <2> QED
    BY <1>5, <2>1, <2>2 DEF Inv, Walked
<1> USE DEF call, outcome, heap, hc, device
<1>7. TypeOK'
  <2>1. td' \in [Stages -> LineType(Token)] /\ pc' \in PCs
    BY <1>1, <1>2, <1>3 DEF PCs
  <2> QED
    BY <1>1, <1>5, <2>1 DEF Inv, TypeOK
<1>8. Lines' /\ Heap'
  BY <1>1, <1>4, <1>5 DEF Inv, Lines, Heap, Busy
<1>9. Stored'
  BY <1>1, <1>4, <1>5 DEF Inv, Stored, Busy, Built, Asked
<1>10. Walked'
  BY <1>1, <1>4, <1>5 DEF Inv, Walked, Busy, Built, Asked, Stages
<1>11. Result' /\ Seen'
  BY <1>1, <1>5, <1>6 DEF Inv, Result, Seen, Waited
<1> QED
  BY <1>7, <1>8, <1>9, <1>10, <1>11 DEF Inv

(* Before the snapshot the CPU drops all it holds of queue head and qTDs.      *)
LEMMA DumpInvalidateInv == Inv /\ DumpInvalidate => Inv'
<1> SUFFICES ASSUME Inv, DumpInvalidate PROVE Inv'
  OBVIOUS
<1>1. /\ pc = "dump" /\ pc' = "snapshot" /\ qh' = Invalidate(qh)
      /\ td' = [s \in Stages |-> Invalidate(td[s])]
      /\ UNCHANGED <<call, expired, outcome, dn, heap, hc, device, stallSeen>>
  BY DEF DumpInvalidate, Goto
<1>2. \A s \in Stages : /\ td'[s] \in LineType(Token) /\ LineOK(td'[s], cached)
                        /\ ~td'[s].dirty /\ td'[s].mem = td[s].mem /\ td'[s].cpu = td[s].mem
  <2> TAKE s \in Stages
  <2>1. td[s] \in LineType(Token) /\ ~td[s].dirty
    BY <1>1, LineTypes DEF Inv, Stored, Busy, Built
  <2>2. td'[s] = Invalidate(td[s])
    BY <1>1
  <2> QED
    BY <2>1, <2>2, InvalidateLine
<1>3. qh' \in LineType(Places) /\ LineOK(qh', cached) /\ ~qh'.dirty /\ qh'.mem = qh.mem
  <2>1. qh \in LineType(Places) /\ ~qh.dirty
    BY <1>1, LineTypes DEF Inv, Stored
  <2> QED
    BY <1>1, <2>1, InvalidateLine
<1> USE DEF call, outcome, heap, hc, device
<1>4. TypeOK'
  <2>1. td' \in [Stages -> LineType(Token)]
    BY <1>1, <1>2
  <2> QED
    BY <1>1, <1>3, <2>1 DEF Inv, TypeOK, PCs, Places
<1>5. Lines' /\ Heap'
  BY <1>1, <1>2, <1>3 DEF Inv, Lines, Heap, Busy
<1>6. Stored'
  BY <1>1, <1>2, <1>3 DEF Inv, Stored, Busy, Built, Asked
<1>7. Walked'
  BY <1>1, <1>2, <1>3 DEF Inv, Walked, Busy, Built, Asked, Stages, Over
<1>8. Result'
  BY <1>1, <1>3 DEF Inv, Result, Waited
<1>9. Seen'
  <2>1. stallSeen # "none" => stalled = stallSeen /\ stallSeen \in Stages
    BY DEF Inv, TypeOK, Seen
  <2>2. stallSeen # "none" => td'[stallSeen].cpu.st = "halted"
    BY <1>1, <1>2, <2>1 DEF Inv, Walked, Busy
  <2> QED
    BY <1>1, <2>1, <2>2 DEF Seen
<1> QED
  BY <1>4, <1>5, <1>6, <1>7, <1>8, <1>9 DEF Inv

(* The snapshot has what the CPU then reads.                                   *)
LEMMA SnapshotInv == Inv /\ Snapshot => Inv'
<1> SUFFICES ASSUME Inv, Snapshot PROVE Inv'
  OBVIOUS
<1>1. /\ pc = "snapshot" /\ pc' = "disable" /\ dbg' = [s \in Stages |-> td[s].cpu.st]
      /\ td' = [s \in Stages |-> Fill(td[s], cached)]
      /\ UNCHANGED <<call, expired, err, got, data, qh, dn, heap, hc, device, stallSeen>>
  BY DEF Snapshot, Goto
<1>2. \A s \in Stages : /\ td'[s] \in LineType(Token) /\ LineOK(td'[s], cached)
                        /\ td'[s].mem = td[s].mem /\ td'[s].cpu = td[s].cpu
                        /\ ~td'[s].dirty
  <2> TAKE s \in Stages
  <2>1. td[s] \in LineType(Token) /\ LineOK(td[s], cached) /\ ~td[s].dirty /\ cached \in BOOLEAN
    BY <1>1, LineTypes DEF Inv, Lines, Stored, Busy, Built
  <2>2. td'[s] = Fill(td[s], cached)
    BY <1>1
  <2> QED
    BY <2>1, <2>2, FillLine
<1> USE DEF call, outcome, heap, hc, device
<1>3. TypeOK'
  <2>1. td' \in [Stages -> LineType(Token)]
    BY <1>1, <1>2
  <2>2. dbg' \in [Stages -> States]
    BY <1>1, LineTypes, Words DEF Inv
  <2> QED
    BY <1>1, <2>1, <2>2 DEF Inv, TypeOK, PCs
<1>4. Lines' /\ Heap'
  BY <1>1, <1>2 DEF Inv, Lines, Heap, Busy
<1>5. Stored'
  BY <1>1, <1>2 DEF Inv, Stored, Busy, Built, Asked
<1>6. Walked'
  BY <1>1, <1>2 DEF Inv, Walked, Busy, Built, Asked, Stages
<1>7. Result'
  BY <1>1 DEF Inv, Result, Waited
<1>8. Seen'
  <2>1. stallSeen # "none" => stallSeen \in Stages /\ dbg'[stallSeen] = "halted"
    BY <1>1 DEF Inv, TypeOK, Seen
  <2> QED
    BY <1>1, <2>1 DEF Inv, Seen
<1> QED
  BY <1>3, <1>4, <1>5, <1>6, <1>7, <1>8 DEF Inv

(* On success the controller is done, so the residual is that of all the bytes *)
(* the device sent.                                                            *)
LEMMA ReadResidualInv == Inv /\ ReadResidual => Inv'
<1> SUFFICES ASSUME Inv, ReadResidual PROVE Inv'
  OBVIOUS
<1> DEFINE l == td["data"]
           i == Invalidate(l)
           m == Fill(i, cached)
<1>1. /\ pc = "residual" /\ td' = [td EXCEPT !["data"] = m] /\ got' = len - i.cpu.rest
      /\ pc' = (IF got' > 0 THEN "invalidate" ELSE "free")
      /\ UNCHANGED <<call, expired, err, data, dbg, qh, dn, heap, hc, device, stallSeen>>
  BY DEF ReadResidual, Goto
<1>2. /\ "data" \in Stages /\ l \in LineType(Token) /\ cached \in BOOLEAN /\ ~l.dirty
      /\ td \in [Stages -> LineType(Token)]
  BY <1>1, LineTypes DEF Inv, Stages, TypeOK, Stored, Built, Busy
<1>3. /\ i \in LineType(Token) /\ LineOK(i, cached) /\ ~i.dirty
      /\ i.mem = l.mem /\ i.cpu = l.mem
  BY <1>2, InvalidateLine
<1> HIDE DEF i
<1>4. /\ m \in LineType(Token) /\ LineOK(m, cached) /\ m.mem = l.mem /\ m.cpu = l.mem
      /\ ~m.dirty
  BY <1>2, <1>3, FillLine
<1> HIDE DEF m
<1>5. \A s \in Stages : /\ td'[s].mem = td[s].mem /\ td'[s].cpu \in {td[s].cpu, td[s].mem}
                        /\ ~td'[s].dirty /\ LineOK(td'[s], cached)
  BY <1>1, <1>2, <1>4 DEF Inv, Lines, Stored, Busy, Built
<1>6. err = "nil" /\ qh.mem = "done" /\ got' = sent /\ sent \in 0 .. MaxLen
  <2>1. err = "nil" /\ qh.mem = "done" /\ l.mem.rest = len - sent
    BY <1>1 DEF Inv, Result, Waited, Walked
  <2>2. len \in Nat /\ sent \in 0 .. MaxLen
    BY XferAssumption DEF Inv, TypeOK
  <2> QED
    BY <1>1, <1>3, <2>1, <2>2
<1> USE DEF call, outcome, heap, hc, device
<1>7. TypeOK'
  <2>1. td' \in [Stages -> LineType(Token)] /\ pc' \in PCs
    BY <1>1, <1>2, <1>4 DEF PCs
  <2> QED
    BY <1>1, <1>6, <2>1 DEF Inv, TypeOK
<1>8. Lines' /\ Heap'
  BY <1>1, <1>5 DEF Inv, Lines, Heap, Busy
<1>9. Stored'
  BY <1>1, <1>5 DEF Inv, Stored, Busy, Built, Asked
<1>10. Walked'
  BY <1>1, <1>5 DEF Inv, Walked, Busy, Built, Asked, Stages
<1>11. Result'
  <2>1. sent > 0 \/ sent = 0
    BY <1>6, XferAssumption
  <2> QED
    BY <1>1, <1>6, <2>1 DEF Inv, Result, Waited
<1>12. Seen'
  BY <1>1 DEF Inv, Seen
<1> QED
  BY <1>7, <1>8, <1>9, <1>10, <1>11, <1>12 DEF Inv

(* The bytes are read from memory, not from a stale line, and handed over.     *)
LEMMA DataInv == Inv /\ (InvalidateData \/ CopyData) => Inv'
<1> SUFFICES ASSUME Inv, InvalidateData \/ CopyData PROVE Inv'
  OBVIOUS
<1>1. /\ UNCHANGED <<call, expired, err, got, dbg, qh, td, heap, hc, device, stallSeen>>
      /\ \/ pc = "invalidate" /\ pc' = "copy" /\ dn' = Invalidate(dn) /\ data' = data
         \/ pc = "copy" /\ pc' = "free" /\ dn' = Fill(dn, cached) /\ data' = dn.cpu
  BY DEF InvalidateData, CopyData, Goto, outcome
<1>2. dn \in LineType(Bytes) /\ dn.cpu \in Bytes /\ ~dn.dirty /\ cached \in BOOLEAN
      /\ LineOK(dn, cached)
  BY LineTypes DEF Inv, Stored, Lines
<1>3. /\ dn' \in LineType(Bytes) /\ LineOK(dn', cached) /\ ~dn'.dirty /\ dn'.mem = dn.mem
      /\ pc = "invalidate" => dn'.cpu = dn.mem
  BY <1>1, <1>2, InvalidateLine, FillLine
<1>4. err = "nil" /\ qh.mem = "done" /\ got = sent /\ (pc = "copy" => dn.cpu = dn.mem)
  BY <1>1 DEF Inv, Result, Waited
<1> USE DEF call, outcome, heap, hc, device
<1>5. TypeOK'
  BY <1>1, <1>2, <1>3 DEF Inv, TypeOK, PCs
<1>6. Lines' /\ Heap'
  BY <1>1, <1>3 DEF Inv, Lines, Heap, Busy
<1>7. Stored'
  BY <1>1, <1>3 DEF Inv, Stored, Busy, Built, Asked
<1>8. Walked'
  BY <1>1, <1>3 DEF Inv, Walked, Busy, Built, Asked
<1>9. Result' /\ Seen'
  BY <1>1, <1>3, <1>4 DEF Inv, Result, Seen, Waited
<1> QED
  BY <1>5, <1>6, <1>7, <1>8, <1>9 DEF Inv

(* The buffers go back to the caller's backend.                                *)
LEMMA FreeInv == Inv /\ Free => Inv'
<1> SUFFICES ASSUME Inv, Free PROVE Inv'
  OBVIOUS
<1>1. /\ pc = "free" /\ pc' = "return" /\ alloc' = alloc \ {arena} /\ arena' = NoArena
      /\ qh' = Coherent("zero") /\ dn' = Coherent(Zeroed)
      /\ td' = [s \in Stages |-> Coherent(ZeroToken)]
      /\ UNCHANGED <<call, expired, outcome, cached, atOnce, hc, device, stallSeen>>
  BY DEF Free, NewMemory, Goto
<1>2. alloc = {arena}
  BY <1>1 DEF Inv, Heap, Busy
<1>3. err = "nil" => /\ got = sent /\ stalled = "none"
                     /\ sent > 0 => data = [by |-> xfer, n |-> sent]
  <2>1. err = "nil" => qh.mem = "done" /\ got = sent /\ (sent > 0 => data = dn.mem)
    BY <1>1 DEF Inv, Result, Waited
  <2> QED
    BY <1>1, <2>1 DEF Inv, Walked, Busy
<1> USE DEF call, outcome, hc, device
<1>4. TypeOK'
  <2>1. td' \in [Stages -> LineType(Token)]
    BY <1>1, NewLines
  <2> QED
    BY <1>1, <1>2, <2>1, NewLines DEF Inv, TypeOK, PCs, Places
<1>5. Lines' /\ Heap'
  BY <1>1, <1>2, NewLines DEF Inv, Lines, Heap, Busy
<1>6. Stored'
  BY <1>1, NewLines DEF Inv, Stored, Busy, Built
<1>7. Walked'
  BY <1>1, NewLines DEF Walked, Busy, Built
<1>8. Result' /\ Seen'
  BY <1>1, <1>3 DEF Inv, Result, Seen, Waited
<1> QED
  BY <1>4, <1>5, <1>6, <1>7, <1>8 DEF Inv

(* The call is over and the next starts afresh.                                *)
LEMMA ReturnInv == Inv /\ Return => Inv'
<1> SUFFICES ASSUME Inv, Return PROVE Inv'
  OBVIOUS
<1>1. /\ pc = "return" /\ pc' = "idle" /\ len' = 0
      /\ UNCHANGED <<dma, xfer, memory, heap, hc, nak>>
      /\ dbg' = NoDebug /\ expired' = FALSE /\ err' = "nil" /\ got' = 0 /\ data' = Zeroed
      /\ trouble' = nak /\ stalled' = "none" /\ stallSeen' = "none" /\ sent' = 0
  BY DEF Return, NewCall, Goto
<1>2. qh.mem = "zero"
  BY <1>1 DEF Inv, Stored, Busy
<1> USE DEF memory, heap, hc
<1>3. TypeOK'
  <2>1. data' \in Bytes /\ 0 \in 0 .. MaxLen /\ dbg' \in [Stages -> States]
    BY <1>1, XferAssumption DEF Zeroed, Bytes, NoDebug, States
  <2> QED
    BY <1>1, <2>1 DEF Inv, TypeOK, PCs
<1>4. Lines' /\ Heap'
  BY <1>1 DEF Inv, Lines, Heap, Busy
<1>5. Stored'
  BY <1>1 DEF Inv, Stored, Busy, Built
<1>6. Walked'
  BY <1>1, <1>2 DEF Walked, Busy, Built
<1>7. Result' /\ Seen'
  BY <1>1 DEF Result, Seen, Waited
<1> QED
  BY <1>3, <1>4, <1>5, <1>6, <1>7 DEF Inv

(* While the controller is at a stage, that stage's token is as it was built,  *)
(* nothing has failed, and a call that has waited has not seen it done.        *)
LEMMA AtStage ==
  ASSUME Inv, NEW s \in Stages, At(s)
  PROVE  /\ Built /\ Busy /\ qh.mem = s /\ ~qh.dirty /\ td[s].mem = Asked(s)
         /\ ~td[s].dirty /\ td[s].cpu = Asked(s)
         /\ stalled = "none" /\ stallSeen = "none"
         /\ Waited => err # "nil" /\ err # "nodma"
         /\ pc \notin {"idle", "build", "residual", "invalidate", "copy", "return"}
<1>1. qh.mem = s /\ s \in {"setup", "data", "status"}
  BY DEF At, Stages
<1>2. Busy /\ ~qh.dirty /\ pc \notin {"build", "cleanTD", "buildQH"}
  BY <1>1 DEF Inv, Stored
<1>3. Built
  BY <1>2 DEF Built
<1>4. td[s].mem = Asked(s)
  BY <1>1, <1>3 DEF Inv, Walked
<1>5. stalled = "none" /\ stallSeen = "none"
  BY <1>1, <1>2 DEF Inv, Walked, Seen
<1>6. Waited => err # "nil" /\ err # "nodma"
  BY <1>1 DEF Inv, Result
<1>7. pc \notin {"residual", "invalidate", "copy"}
  BY <1>6 DEF Inv, Result, Waited
<1> QED
  BY <1>1, <1>2, <1>3, <1>4, <1>5, <1>6, <1>7 DEF Inv, Stored, Busy

(* The device's bytes go into the buffer.                                      *)
LEMMA ReceiveInv == Inv /\ Receive => Inv'
<1> SUFFICES ASSUME Inv, Receive PROVE Inv'
  OBVIOUS
<1>1. PICK k \in 0 .. td["data"].mem.rest :
        sent' = k /\ dn' = DmaWrite(dn, [by |-> xfer, n |-> k])
  BY DEF Receive
<1>2. /\ At("data") /\ "data" \in Stages
      /\ UNCHANGED <<driverSide, ass, cur, qh, td, nak, trouble, stalled>>
  BY DEF Receive, Stages
<1>3. /\ Built /\ Busy /\ qh.mem = "data" /\ td["data"].mem = Asked("data")
      /\ stalled = "none" /\ stallSeen = "none" /\ (Waited => err # "nil" /\ err # "nodma")
      /\ pc \notin {"idle", "build", "residual", "invalidate", "copy", "return"}
  BY <1>2, AtStage
<1>4. k \in 0 .. len /\ k \in 0 .. MaxLen /\ k <= len
  <2>1. td["data"].mem.rest = len
    BY <1>3, AskedType DEF Inv
  <2>2. len \in 0 .. MaxLen
    BY DEF Inv, TypeOK
  <2> QED
    BY <2>1, <2>2, XferAssumption
<1>5. [by |-> xfer, n |-> k] \in Bytes
  BY <1>4 DEF Inv, TypeOK, Bytes
<1>6. dn' \in LineType(Bytes) /\ LineOK(dn', cached) /\ ~dn'.dirty
      /\ dn'.mem = [by |-> xfer, n |-> k]
  <2>1. dn \in LineType(Bytes) /\ LineOK(dn, cached) /\ ~dn.dirty
    BY LineTypes DEF Inv, Lines, Stored
  <2> QED
    BY <1>1, <1>5, <2>1, DmaWriteLine
<1> USE DEF driverSide, call, outcome, heap, hc, device
<1>7. TypeOK'
  BY <1>1, <1>2, <1>4, <1>6 DEF Inv, TypeOK
<1>8. Lines' /\ Heap'
  BY <1>2, <1>6 DEF Inv, Lines, Heap, Busy
<1>9. Stored'
  BY <1>2, <1>3, <1>6 DEF Inv, Stored, Busy, Built, Asked
<1>10. Walked'
  BY <1>1, <1>2, <1>3, <1>4, <1>6 DEF Inv, Walked, Busy, Built, Asked
<1>11. Result' /\ Seen'
  BY <1>2, <1>3 DEF Inv, Result, Seen, Waited
<1> QED
  BY <1>7, <1>8, <1>9, <1>10, <1>11 DEF Inv

(* A stage retired: its token is written back and the overlay goes on.         *)
LEMMA RetireInv == ASSUME NEW s \in Stages PROVE Inv /\ Retire(s) => Inv'
<1> SUFFICES ASSUME Inv, Retire(s) PROVE Inv'
  OBVIOUS
<1>0. PICK st \in Over :
        td' = [td EXCEPT ![s] =
                DmaWrite(@, [st |-> st,
                             rest |-> IF s = "data" THEN @.mem.rest - sent ELSE 0])]
  BY DEF Retire
<1> DEFINE v == [st |-> st, rest |-> IF s = "data" THEN td[s].mem.rest - sent ELSE 0]
           m == DmaWrite(td[s], v)
<1>1. /\ At(s) /\ (s = "data" => dn.mem.by = xfer)
      /\ td' = [td EXCEPT ![s] = m] /\ qh' = DmaWrite(qh, After(s))
      /\ trouble' \in BOOLEAN
      /\ UNCHANGED <<driverSide, ass, cur, dn, nak, stalled, sent>>
  <2>1. /\ At(s) /\ (s = "data" => dn.mem.by = xfer) /\ qh' = DmaWrite(qh, After(s))
        /\ \E x \in Over : trouble' = (trouble \/ x = "recovered")
        /\ UNCHANGED <<driverSide, ass, cur, dn, nak, stalled, sent>>
    BY DEF Retire
  <2>2. trouble \in BOOLEAN
    BY DEF Inv, TypeOK
  <2> QED
    BY <1>0, <2>1, <2>2
<1>2. /\ Built /\ Busy /\ qh.mem = s /\ ~qh.dirty /\ td[s].mem = Asked(s)
      /\ ~td[s].dirty /\ td[s].cpu = Asked(s)
      /\ stalled = "none" /\ stallSeen = "none" /\ (Waited => err # "nil" /\ err # "nodma")
      /\ pc \notin {"idle", "build", "residual", "invalidate", "copy", "return"}
  BY <1>1, AtStage
<1>3. /\ sent \in 0 .. len /\ len \in 0 .. MaxLen
      /\ s = "data" => dn.mem = [by |-> xfer, n |-> sent]
  <2>1. sent \in 0 .. MaxLen /\ len \in 0 .. MaxLen /\ xfer > 0 /\ sent <= len
    BY <1>2 DEF Inv, TypeOK, Heap, Walked
  <2>2. dn.mem = Zeroed => dn.mem.by # xfer
    BY <2>1 DEF Zeroed
  <2> QED
    BY <1>1, <1>2, <2>1, <2>2, XferAssumption DEF Inv, Walked
<1>4. /\ v \in Token /\ v.st \in Over /\ (s = "data" => v.rest = len - sent)
      /\ After(s) \in Places
      /\ s = "setup" => After(s) = "data"
      /\ s = "data" => After(s) = "status"
      /\ s = "status" => After(s) = "done"
  <2>1. s = "data" => td[s].mem.rest = len
    BY <1>2, AskedType DEF Inv
  <2>2. v \in Token /\ v.st \in Over /\ (s = "data" => v.rest = len - sent)
    BY <1>3, <2>1, XferAssumption DEF Token, States
  <2> QED
    BY <2>2 DEF After, Places, Stages
<1> HIDE DEF v
<1>5. /\ m \in LineType(Token) /\ LineOK(m, cached) /\ ~m.dirty /\ m.mem = v
      /\ m.cpu \in {Asked(s), v}
  <2>1. td[s] \in LineType(Token) /\ LineOK(td[s], cached)
    BY LineTypes DEF Inv, Lines
  <2> QED
    BY <1>2, <1>4, <2>1, DmaWriteLine
<1> HIDE DEF m
<1>6. /\ qh' \in LineType(Places) /\ LineOK(qh', cached) /\ ~qh'.dirty /\ qh'.mem = After(s)
  <2>1. qh \in LineType(Places) /\ LineOK(qh, cached)
    BY LineTypes DEF Inv, Lines
  <2> QED
    BY <1>1, <1>2, <1>4, <2>1, DmaWriteLine
<1>7. /\ td \in [Stages -> LineType(Token)]
      /\ \A t \in Stages : td'[t] = IF t = s THEN m ELSE td[t]
  BY <1>1 DEF Inv, TypeOK
<1> USE DEF driverSide, call, outcome, heap, hc, device
<1>8. TypeOK'
  <2>1. td' \in [Stages -> LineType(Token)]
    BY <1>1, <1>5, <1>7
  <2> QED
    BY <1>1, <1>6, <2>1 DEF Inv, TypeOK, Places
<1>9. Lines' /\ Heap'
  BY <1>1, <1>5, <1>6, <1>7 DEF Inv, Lines, Heap, Busy
<1>10. Stored'
  BY <1>1, <1>2, <1>4, <1>5, <1>6, <1>7 DEF Inv, Stored, Busy, Built, Asked, Stages
<1>11. Walked'
  <2>1. /\ Built' /\ Built /\ Busy' /\ Busy
        /\ UNCHANGED <<dn, sent, stalled, len, xfer>>
    BY <1>1, <1>2 DEF Busy, Built
  <2>2. \A t \in Stages : /\ t = s => td'[t].mem = v
                          /\ t # s => td'[t].mem = td[t].mem
    BY <1>5, <1>7
  <2>3. v.st \in Over /\ v.st \notin {"zero", "active", "halted"}
    BY <1>4 DEF Over
  <2>4. /\ \A t \in Stages : td'[t].mem.st # "zero"
        /\ \A t \in Stages : td'[t].mem.st # "halted"
    BY <1>2, <2>1, <2>2, <2>3 DEF Inv, Walked, Stages
  <2>5. td'["status"].mem.st \in Over <=> s = "status"
    BY <1>2, <2>1, <2>2, <2>3 DEF Inv, Walked, Stages
  <2>6. /\ s = "setup" => td'["data"].mem = Asked("data")
        /\ s \in {"setup", "data"} => td'["status"].mem = Asked("status")
    BY <1>2, <2>1, <2>2 DEF Inv, Walked, Stages
  <2>7. s \in {"data", "status"} => /\ td'["data"].mem.rest = len - sent
                                    /\ dn.mem = [by |-> xfer, n |-> sent]
    BY <1>2, <1>3, <1>4, <2>1, <2>2 DEF Inv, Walked, Stages
  <2>8. qh'.mem = After(s) /\ s \in {"setup", "data", "status"}
    BY <1>6 DEF Stages
  <2>9. stalled = "none" /\ \A t \in Stages : stalled # t
    BY <1>2 DEF Stages
  <2>10. /\ sent <= len
         /\ \/ dn.mem = Zeroed /\ sent = 0
            \/ dn.mem = [by |-> xfer, n |-> sent]
    BY <2>1 DEF Inv, Walked
  <2> QED
    BY <1>4, <2>1, <2>4, <2>5, <2>6, <2>7, <2>8, <2>9, <2>10 DEF Walked, Asked
<1>12. Result' /\ Seen'
  BY <1>1, <1>2 DEF Inv, Result, Seen, Waited
<1> QED
  BY <1>8, <1>9, <1>10, <1>11, <1>12 DEF Inv

(* A stage failed: the token says so, and the overlay stays there.             *)
LEMMA HaltInv == ASSUME NEW s \in Stages PROVE Inv /\ Halt(s) => Inv'
<1> SUFFICES ASSUME Inv, Halt(s) PROVE Inv'
  OBVIOUS
<1> DEFINE v == [td[s].mem EXCEPT !.st = "halted"]
           m == DmaWrite(td[s], v)
<1>1. /\ At(s) /\ td' = [td EXCEPT ![s] = m] /\ qh' = DmaWrite(qh, "halted")
      /\ stalled' = s /\ trouble' = TRUE
      /\ UNCHANGED <<driverSide, ass, cur, dn, nak, sent>>
  BY DEF Halt
<1>2. /\ Built /\ Busy /\ qh.mem = s /\ ~qh.dirty /\ td[s].mem = Asked(s)
      /\ ~td[s].dirty /\ td[s].cpu = Asked(s)
      /\ stalled = "none" /\ stallSeen = "none" /\ (Waited => err # "nil" /\ err # "nodma")
      /\ pc \notin {"idle", "build", "residual", "invalidate", "copy", "return"}
  BY <1>1, AtStage
<1>3. v \in Token /\ v.st = "halted" /\ "halted" \in Places
  <2>1. Asked(s) \in Token
    BY AskedType DEF Inv
  <2> QED
    BY <1>2, <2>1 DEF Token, States, Places
<1> HIDE DEF v
<1>4. /\ m \in LineType(Token) /\ LineOK(m, cached) /\ ~m.dirty /\ m.mem = v
      /\ m.cpu \in {Asked(s), v}
  <2>1. td[s] \in LineType(Token) /\ LineOK(td[s], cached)
    BY LineTypes DEF Inv, Lines
  <2> QED
    BY <1>2, <1>3, <2>1, DmaWriteLine
<1> HIDE DEF m
<1>5. /\ qh' \in LineType(Places) /\ LineOK(qh', cached) /\ ~qh'.dirty /\ qh'.mem = "halted"
  <2>1. qh \in LineType(Places) /\ LineOK(qh, cached)
    BY LineTypes DEF Inv, Lines
  <2> QED
    BY <1>1, <1>2, <1>3, <2>1, DmaWriteLine
<1>6. /\ td \in [Stages -> LineType(Token)]
      /\ \A t \in Stages : td'[t] = IF t = s THEN m ELSE td[t]
  BY <1>1 DEF Inv, TypeOK
<1> USE DEF driverSide, call, outcome, heap, hc
<1>7. TypeOK'
  <2>1. td' \in [Stages -> LineType(Token)]
    BY <1>1, <1>4, <1>6
  <2> QED
    BY <1>1, <1>5, <2>1 DEF Inv, TypeOK, Places
<1>8. Lines' /\ Heap'
  BY <1>1, <1>4, <1>5, <1>6 DEF Inv, Lines, Heap, Busy
<1>9. Stored'
  BY <1>1, <1>2, <1>3, <1>4, <1>5, <1>6 DEF Inv, Stored, Busy, Built, Asked, Stages
<1>10. Walked'
  BY <1>1, <1>2, <1>3, <1>4, <1>5, <1>6 DEF Inv, Walked, Busy, Built, Asked, Stages, Over
<1>11. Result' /\ Seen'
  BY <1>1, <1>2 DEF Inv, Result, Seen, Waited
<1> QED
  BY <1>7, <1>8, <1>9, <1>10, <1>11 DEF Inv

-----------------------------------------------------------------------------
(* The invariant holds, and so does what it implies.                           *)

(* A step that changes nothing keeps it.                                       *)
LEMMA StutterInv == Inv /\ UNCHANGED vars => Inv'
<1> SUFFICES ASSUME Inv, UNCHANGED vars PROVE Inv'
  OBVIOUS
<1> USE DEF vars, call, outcome, memory, heap, hc, device
<1>1. TypeOK' /\ Lines' /\ Heap'
  BY DEF Inv, TypeOK, Lines, Heap, Busy
<1>2. Stored' /\ Walked'
  BY DEF Inv, Stored, Walked, Busy, Built, Asked
<1>3. Result' /\ Seen'
  BY DEF Inv, Result, Seen, Waited
<1> QED
  BY <1>1, <1>2, <1>3 DEF Inv

(* Every step of the driver, the controller, the device and the cache keeps it. *)
LEMMA NextInv == Inv /\ [Next]_vars => Inv'
<1> SUFFICES ASSUME Inv, [Next]_vars PROVE Inv'
  OBVIOUS
<1>1. CASE SetDMA \/ SetListAddr \/ EnableAsync \/ DisableAsync \/ DeadlinePasses
           \/ StartSchedule \/ StopSchedule \/ DeviceNaks \/ DeviceWakes
  BY <1>1, RegistersInv
<1>2. CASE Begin \/ BuildQTDs \/ CleanQTDs
  BY <1>2, BeginInv, BuildQTDsInv, CleanQTDsInv
<1>3. CASE BuildQH \/ CleanQH
  BY <1>3, QueueHeadInv
<1>4. CASE PollInvalidate \/ Look \/ DumpInvalidate \/ Snapshot
  BY <1>4, PollInvalidateInv, LookInv, DumpInvalidateInv, SnapshotInv
<1>5. CASE ReadResidual \/ InvalidateData \/ CopyData \/ Free \/ Return
  BY <1>5, ReadResidualInv, DataInv, FreeInv, ReturnInv
<1>6. CASE Receive \/ \E s \in Stages : Retire(s) \/ Halt(s)
  BY <1>6, ReceiveInv, RetireInv, HaltInv
<1>7. CASE CacheMoves
  BY <1>7, CacheMovesInv
<1>8. CASE UNCHANGED vars
  BY <1>8, StutterInv
<1> QED
  BY <1>1, <1>2, <1>3, <1>4, <1>5, <1>6, <1>7, <1>8 DEF Next, ControlIn, Controller

(* The inductive invariant of the transfer layer, whether or not the           *)
(* controller stops as soon as it is told to.                                  *)
THEOREM InvHolds == Spec => []Inv
<1> QED
  BY InitInv, NextInv, PTL DEF Spec

(* Type correctness: no stage of ControlIn asks for more than its buffer holds *)
(* and no residual exceeds what was asked for (xfer.go:248-250 and :295-298).     *)
THEOREM TypeCorrect == Spec => []TypeOK
<1>1. Inv => TypeOK
  BY DEF Inv
<1> QED
  BY <1>1, InvHolds, PTL

(* When ControlIn returns nil (xfer.go:290-306) the device has completed this  *)
(* transfer, and the caller has exactly the bytes it sent.                     *)
THEOREM SuccessHolds == Spec => []SuccessIsTrue
<1>1. Inv => SuccessIsTrue
  BY DEF Inv, Result, SuccessIsTrue
<1> QED
  BY <1>1, InvHolds, PTL

(* The snapshot of the qTDs (xfer.go:265-285) names the stage that had failed  *)
(* when waitQTD last looked, also when the failure is reported as a timeout.   *)
THEOREM RootCauseHolds == Spec => []RootCause
<1>1. Inv => RootCause
  BY DEF Inv, Seen, RootCause
<1> QED
  BY <1>1, InvHolds, PTL

-----------------------------------------------------------------------------
(* The schedule, and what a call fails of.                                     *)

(* Initially no schedule runs and nothing has gone wrong.                      *)
LEMMA InitStop == Init => StopInv
<1> SUFFICES ASSUME Init PROVE StopInv
  OBVIOUS
<1>1. td["status"].mem.st = "zero"
  BY NewLines DEF Init, Stages, ZeroToken
<1> QED
  BY <1>1 DEF Init, StopInv, Schedule, Blame

(* The schedule is enabled only between the two writes of USBCMD, and runs     *)
(* only until the first step after the second if it stops at once.             *)
LEMMA ScheduleNext ==
  ASSUME Schedule, [Next]_vars
  PROVE  Schedule'
<1> USE DEF Schedule, driverSide, hc, heap
<1>1. CASE SetDMA \/ Begin \/ BuildQTDs \/ CleanQTDs \/ BuildQH \/ CleanQH \/ SetListAddr
           \/ EnableAsync
  BY <1>1 DEF SetDMA, Begin, BuildQTDs, CleanQTDs, BuildQH, CleanQH, SetListAddr,
              EnableAsync, Goto
<1>2. CASE PollInvalidate \/ Look \/ DumpInvalidate \/ Snapshot \/ DisableAsync
  <2>1. CASE Look
    <3>1. pc = "look" /\ pc' \in {"poll", "dump"} /\ UNCHANGED <<heap, hc>>
      BY <2>1 DEF Look, Goto
    <3> QED
      BY <3>1
  <2> QED
    BY <1>2, <2>1 DEF PollInvalidate, DumpInvalidate, Snapshot, DisableAsync, Goto
<1>3. CASE ReadResidual \/ Free
  <2>1. ~ase /\ ~(atOnce /\ ass) /\ UNCHANGED <<atOnce, hc>>
    BY <1>3 DEF ReadResidual, Free, Stopped
  <2>2. pc' \in {"invalidate", "free", "return"}
    BY <1>3 DEF ReadResidual, Free, Goto
  <2> QED
    BY <2>1, <2>2
<1>4. CASE InvalidateData \/ CopyData \/ Return
  BY <1>4 DEF InvalidateData, CopyData, Return, Goto
<1>5. CASE StartSchedule \/ StopSchedule
  BY <1>5 DEF StartSchedule, StopSchedule
<1>6. CASE DeadlinePasses \/ Receive \/ DeviceNaks \/ DeviceWakes \/ CacheMoves
  <2>1. UNCHANGED <<pc, arena, atOnce, ase, list, ass, cur>>
    BY <1>6 DEF DeadlinePasses, Receive, DeviceNaks, DeviceWakes, CacheMoves
  <2> QED
    BY <2>1
<1>7. ASSUME NEW s \in Stages, Retire(s) \/ Halt(s) PROVE Schedule'
  BY <1>7 DEF Retire, Halt
<1>8. CASE UNCHANGED vars
  BY <1>8 DEF vars
<1> QED
  BY <1>1, <1>2, <1>3, <1>4, <1>5, <1>6, <1>7, <1>8 DEF Next, ControlIn, Controller

(* A deadline that passes is the device's doing: a controller that still walks *)
(* the call's arena has an active token to work on, or has halted on one, or   *)
(* has retired the last.                                                       *)
LEMMA DeadlineBlames == ASSUME Inv, StopInv, atOnce, DeadlinePasses PROVE trouble
<1>1. pc \in {"poll", "look"} /\ Built /\ Busy
      /\ (trouble \/ (~Working /\ td["status"].mem.st \notin Over))
  BY DEF DeadlinePasses, Built, Busy
<1>2. SUFFICES ASSUME ~Working, td["status"].mem.st \notin Over, ~trouble PROVE FALSE
  BY <1>1
<1>3. ass /\ cur = arena /\ ~nak /\ stalled = "none"
  BY <1>2 DEF Working, StopInv, Schedule, Blame
<1>4. qh.mem \in Stages
  <2>1. qh.mem # "zero" /\ qh.mem # "halted" /\ qh.mem # "done"
    BY <1>1, <1>2, <1>3 DEF Inv, Stored, Walked
  <2> QED
    BY <2>1, LineTypes DEF Inv, Places
<1>5. td[qh.mem].mem = Asked(qh.mem)
  BY <1>1, <1>4 DEF Inv, Walked, Stages
<1> QED
  BY <1>2, <1>3, <1>4, <1>5 DEF Working, Asked

(* A STATUS token with an error bit got it from the device in this call.       *)
LEMMA HaltedBlames ==
  ASSUME Inv, StopInv, pc = "look", td["status"].cpu.st \in {"halted", "recovered"}
  PROVE  trouble
<1>1. Built /\ Busy /\ "status" \in Stages
  BY DEF Built, Busy, Stages
<1>2. td["status"].cpu = td["status"].mem
  BY <1>1 DEF Inv, Stored, Asked
<1>3. stalled = "status" \/ td["status"].mem.st = "recovered"
  BY <1>1, <1>2 DEF Inv, Walked
<1> QED
  BY <1>3 DEF StopInv, Blame

(* What the CPU and its cache write to a STATUS token has no error bit.        *)
LEMMA NoErrorWritten ==
  ASSUME Inv, NEW l \in {Invalidate(td["status"]), Fill(td["status"], cached),
                         Clean(td["status"])},
         l.mem.st = "recovered"
  PROVE  td["status"].mem.st = "recovered"
<1>1. /\ "status" \in Stages /\ td["status"] \in LineType(Token) /\ cached \in BOOLEAN
      /\ td["status"].dirty \in BOOLEAN
  BY LineTypes DEF Inv, Stages
<1>2. l.mem = IF td["status"].dirty /\ l # Fill(td["status"], cached)
              THEN td["status"].cpu ELSE td["status"].mem
  BY <1>1, InvalidateLine, FillLine, CleanLine
<1>3. td["status"].dirty => td["status"].cpu = Asked("status")
  BY <1>1 DEF Inv, Stored, Busy, Built
<1> QED
  BY <1>2, <1>3 DEF Asked

(* Only the retirement of the STATUS stage leaves an error bit of a repeated   *)
(* transaction in its token.                                                   *)
LEMMA RecoveredOnce ==
  ASSUME Inv, [Next]_vars, ~Retire("status"), td'["status"].mem.st = "recovered"
  PROVE  td["status"].mem.st = "recovered"
<1> USE DEF memory, driverSide
<1>1. "status" \in Stages /\ td \in [Stages -> LineType(Token)]
  BY DEF Inv, TypeOK, Stages
<1>2. CASE UNCHANGED td
  BY <1>2
<1>3. CASE BuildQTDs
  <2>1. td'["status"] = Store(td["status"], Asked("status"), cached)
    BY <1>1, <1>3 DEF BuildQTDs, Asked
  <2>2. td["status"] \in LineType(Token) /\ Asked("status") \in Token /\ cached \in BOOLEAN
        /\ Asked("status").st = "active"
    BY <1>1, AskedType, LineTypes DEF Inv
  <2> QED
    BY <2>1, <2>2, StoreLine
<1>4. CASE CleanQTDs \/ PollInvalidate \/ DumpInvalidate \/ Look \/ Snapshot
  <2>1. td'["status"] \in {Invalidate(td["status"]), Fill(td["status"], cached),
                           Clean(td["status"])}
    BY <1>1, <1>4 DEF CleanQTDs, PollInvalidate, DumpInvalidate, Look, Snapshot
  <2> QED
    BY <2>1, NoErrorWritten
<1>5. CASE ReadResidual
  BY <1>1, <1>5 DEF ReadResidual
<1>6. CASE Free
  <2>1. td'["status"] = Coherent(ZeroToken)
    BY <1>1, <1>6 DEF Free, NewMemory
  <2> QED
    BY <2>1, NewLines DEF ZeroToken
<1>7. CASE CacheMoves
  <2>1. \/ UNCHANGED td
        \/ \E s \in Stages : \E m \in Moved(td[s]) : td' = [td EXCEPT ![s] = m]
    BY <1>7 DEF CacheMoves
  <2>2. \/ td'["status"] = td["status"]
        \/ td'["status"] \in {Invalidate(td["status"]), Fill(td["status"], cached)}
    BY <1>1, <2>1 DEF Moved
  <2> QED
    BY <2>2, NoErrorWritten
<1>8. ASSUME NEW s \in Stages, Retire(s) PROVE td'["status"] = td["status"]
  BY <1>1, <1>8 DEF Retire
<1>9. ASSUME NEW s \in Stages, Halt(s) PROVE td["status"].mem.st = "recovered"
  <2>1. /\ td[s] \in LineType(Token) /\ [td[s].mem EXCEPT !.st = "halted"].st = "halted"
        /\ [td[s].mem EXCEPT !.st = "halted"] \in Token
        /\ td'[s] = DmaWrite(td[s], [td[s].mem EXCEPT !.st = "halted"])
    <3>1. td[s] \in LineType(Token) /\ td[s].mem \in Token
      BY LineTypes DEF Inv
    <3> QED
      BY <1>1, <1>9, <3>1 DEF Halt, Token, States
  <2> DEFINE h == [td[s].mem EXCEPT !.st = "halted"]
  <2>2. td'[s].mem.st = "halted"
    <3>1. td[s] \in LineType(Token) /\ h \in Token /\ h.st = "halted" /\ td'[s] = DmaWrite(td[s], h)
      BY <2>1
    <3> HIDE DEF h
    <3> QED
      BY <3>1, DmaWriteLine
  <2>3. s # "status" => td'["status"] = td["status"]
    BY <1>1, <1>9 DEF Halt
  <2> QED
    BY <2>2, <2>3
<1>10. CASE \/ SetDMA \/ Begin \/ BuildQH \/ CleanQH \/ SetListAddr \/ EnableAsync \/ DisableAsync
            \/ InvalidateData \/ CopyData \/ Return \/ DeadlinePasses \/ StartSchedule
            \/ StopSchedule \/ Receive \/ DeviceNaks \/ DeviceWakes
  <2>1. UNCHANGED td
    BY <1>10 DEF SetDMA, Begin, BuildQH, CleanQH, SetListAddr, EnableAsync, DisableAsync,
         InvalidateData, CopyData, Return, DeadlinePasses, StartSchedule, StopSchedule,
         Receive, DeviceNaks, DeviceWakes
  <2> QED
    BY <1>2, <2>1
<1>11. CASE UNCHANGED vars
  BY <1>2, <1>11 DEF vars
<1> QED
  BY <1>3, <1>4, <1>5, <1>6, <1>7, <1>8, <1>9, <1>10, <1>11 DEF Next, ControlIn, Controller

(* No step blames the device for nothing.                                      *)
LEMMA BlameNext ==
  ASSUME Inv, StopInv, [Next]_vars
  PROVE  Blame'
<1> USE DEF call, outcome, device, driverSide, heap
<1>1. CASE SetDMA \/ BuildQTDs \/ CleanQTDs \/ BuildQH \/ CleanQH \/ SetListAddr \/ EnableAsync
  <2>1. UNCHANGED <<nak, stalled, trouble, expired, err, atOnce>> /\ ~Retire("status")
    BY <1>1 DEF SetDMA, BuildQTDs, CleanQTDs, BuildQH, CleanQH, SetListAddr, EnableAsync,
                Retire, Goto
  <2> QED
    BY <2>1, RecoveredOnce DEF StopInv, Blame
<1>2. CASE Begin
  BY <1>2 DEF StopInv, Blame, Begin, memory
<1>3. CASE Look
  <2>1. UNCHANGED <<nak, stalled, trouble, expired, atOnce>>
    BY <1>3 DEF Look
  <2>2. \/ err' = "halted" /\ td["status"].cpu.st \in {"halted", "recovered"}
        \/ err' = "timeout" /\ expired
        \/ err' = err
    BY <1>3 DEF Look
  <2>3. trouble \/ err' = err \/ (err' = "timeout" /\ ~atOnce)
    BY <1>3, <2>2, HaltedBlames DEF Look, StopInv, Blame
  <2>4. ~Retire("status")
    BY <1>3 DEF Look, Retire, Goto
  <2> QED
    BY <2>1, <2>3, <2>4, RecoveredOnce DEF StopInv, Blame
<1>4. CASE PollInvalidate \/ DumpInvalidate \/ Snapshot \/ DisableAsync \/ ReadResidual
           \/ InvalidateData \/ CopyData \/ Free
  <2>1. UNCHANGED <<nak, stalled, trouble, expired, err, atOnce>> /\ ~Retire("status")
    BY <1>4 DEF PollInvalidate, DumpInvalidate, Snapshot, DisableAsync, ReadResidual,
                InvalidateData, CopyData, Free, Retire, Goto
  <2> QED
    BY <2>1, RecoveredOnce DEF StopInv, Blame
<1>5. CASE Return
  <2>1. td'["status"].mem.st = "zero"
    BY <1>5 DEF Return, Inv, Stored, Busy, Stages, ZeroToken, memory
  <2> QED
    BY <1>5, <2>1 DEF Blame, Return, NewCall
<1>6. CASE DeadlinePasses
  <2>1. atOnce => trouble
    BY <1>6, DeadlineBlames
  <2>2. UNCHANGED <<trouble, nak, stalled, err, td, atOnce>>
    BY <1>6 DEF DeadlinePasses, memory
  <2> QED
    BY <2>1, <2>2 DEF StopInv, Blame
<1>7. ASSUME NEW s \in Stages, Retire(s) PROVE Blame'
  <2>1. UNCHANGED <<nak, stalled, expired, err, atOnce>>
    BY <1>7 DEF Retire
  <2>2. PICK st \in Over :
          /\ td' = [td EXCEPT ![s] =
                     DmaWrite(@, [st |-> st,
                                  rest |-> IF s = "data" THEN @.mem.rest - sent ELSE 0])]
          /\ trouble' = (trouble \/ st = "recovered")
    BY <1>7 DEF Retire
  <2>3. td'["status"].mem.st = "recovered" => trouble'
    <3>1. CASE s = "status"
      <4> DEFINE v == [st |-> st, rest |-> 0]
      <4>1. td["status"] \in LineType(Token) /\ v \in Token /\ v.st = st
        <5>1. 0 \in 0 .. MaxLen /\ st \in States
          BY XferAssumption DEF States
        <5>2. td["status"] \in LineType(Token)
          BY <3>1, LineTypes DEF Inv
        <5> QED
          BY <5>1, <5>2 DEF Token
      <4>2. td'["status"] = DmaWrite(td["status"], v)
        BY <2>2, <3>1 DEF Inv, TypeOK
      <4> HIDE DEF v
      <4>3. td'["status"].mem.st = st
        BY <4>1, <4>2, DmaWriteLine
      <4> QED
        BY <2>2, <4>3
    <3>2. CASE s # "status"
      BY <2>2, <3>2 DEF Inv, TypeOK, StopInv, Blame, Stages
    <3> QED
      BY <3>1, <3>2
  <2> QED
    BY <2>1, <2>2, <2>3 DEF StopInv, Blame
<1>8. CASE StartSchedule \/ StopSchedule \/ Receive \/ CacheMoves \/ DeviceWakes
  <2>1. UNCHANGED <<stalled, trouble, expired, err, atOnce>> /\ (nak' => nak)
    BY <1>8 DEF StartSchedule, StopSchedule, Receive, CacheMoves, DeviceWakes
  <2>2. CASE Retire("status")
    BY <1>7, <2>2 DEF Stages
  <2>3. CASE ~Retire("status")
    BY <2>1, <2>3, RecoveredOnce DEF StopInv, Blame
  <2> QED
    BY <2>2, <2>3
<1>9. ASSUME NEW s \in Stages, Halt(s) PROVE Blame'
  BY <1>9 DEF Blame, Halt
<1>10. CASE DeviceNaks
  BY <1>10 DEF Blame, DeviceNaks
<1>11. CASE UNCHANGED vars
  BY <1>11 DEF StopInv, Blame, vars, memory
<1> QED
  BY <1>1, <1>2, <1>3, <1>4, <1>5, <1>6, <1>7, <1>8, <1>9, <1>10, <1>11
     DEF Next, ControlIn, Controller

(* The two parts together, on top of the invariant.                            *)
LEMMA StopHolds == Spec => [](Inv /\ StopInv)
<1>1. Init => Inv /\ StopInv
  BY InitInv, InitStop
<1>2. Inv /\ StopInv /\ [Next]_vars => (Inv /\ StopInv)'
  BY NextInv, ScheduleNext, BlameNext DEF StopInv
<1> QED
  BY <1>1, <1>2, PTL DEF Spec

(* However late the controller takes a stop, the schedule is enabled only      *)
(* while the call owns the memory that ASYNCLISTADDR names: every way out of   *)
(* ControlIn clears the enable bit before its Frees (xfer.go:234-237, :287).   *)
THEOREM ScheduleIsOwnedHolds == Spec => []ScheduleIsOwned
<1>1. Inv /\ StopInv => ScheduleIsOwned
  BY DEF Inv, Heap, Busy, StopInv, Schedule, ScheduleIsOwned
<1> QED
  BY <1>1, StopHolds, PTL

(* ControlIn reports a failure only when the device was late or failed, or an  *)
(* error was recovered from: every descriptor it needs has reached memory, and *)
(* every token the controller wrote back is read from memory (xfer.go:248-263).*)
(* Of a timeout that holds when the schedule stops at once.                    *)
THEOREM FailuresAreRealHolds == Spec => []FailuresAreReal
<1>1. StopInv => FailuresAreReal
  BY DEF StopInv, Blame, FailuresAreReal
<1> QED
  BY <1>1, StopHolds, PTL
=============================================================================
