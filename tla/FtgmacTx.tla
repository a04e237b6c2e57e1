------------------------------ MODULE FtgmacTx ------------------------------
(* The transmit half of hal/ftgmac100: SendOffsetEthFrame, Init and SetLink on *)
(* the driver's side, the MAC's DMA engine on the other, and between them the  *)
(* descriptor ring and buffers in memory that may be cached.  Every store,     *)
(* cache operation and register write that the MAC could tell apart is a step. *)
EXTENDS CacheLine, Naturals, Sequences

CONSTANTS TxCount,    \* txCount: descriptors in the ring
          MaxFrames,  \* bound: frames accepted in a behaviour
          MaxInits,   \* bound: Init calls in a behaviour
          Caching,    \* subset of BOOLEAN: is the DMA memory cacheable
          ReinitAt    \* values of txIdx at which the caller calls Init

ASSUME TxAssumption ==
  /\ TxCount \in Nat \ {0}
  /\ MaxFrames \in Nat
  /\ MaxInits \in Nat
  /\ Caching \subseteq BOOLEAN
  /\ ReinitAt \subseteq Nat

VARIABLES
  pc,      \* the driver's next step, "idle" between calls
  txIdx,   \* d.txIdx
  linkOK,  \* d.Link is a mode maccr accepts
  up,      \* Init's last call returned nil (callers send only then)
  inits,   \* number of Init calls
  cached,  \* the DMA memory is cacheable and the DMAOps hooks are set
  desc,    \* TX descriptors, one cache line each
  buf,     \* TX buffers
  mac,     \* the DMA engine: off, idle, or its next step
  macPtr,  \* the descriptor it is at
  fetched, \* the descriptor words it latched
  kick,    \* a poll demand it has not answered yet
  frame,   \* history: the number of the frame last handed to Send
  queue,   \* history: frames accepted and not yet sent
  wire     \* history: what went out

driver == <<pc, txIdx, linkOK, up, inits, cached>>
memory == <<desc, buf>>
engine == <<mac, macPtr, fetched, kick>>
history == <<frame, queue, wire>>
vars == <<driver, memory, engine, history>>

Slots == 0 .. TxCount - 1
Last == TxCount - 1
Blank == 0                       \* a cleared buffer
Frames == 1 .. MaxFrames
Content == Frames \cup {Blank}

(* TXDES0.OWN and EDOTR, and whether TXDES2/3 hold the buffer's address.       *)
Desc == [own : BOOLEAN, edotr : BOOLEAN, addr : BOOLEAN]
Cleared == [own |-> FALSE, edotr |-> FALSE, addr |-> FALSE]

(* Mutant: the index does not wrap.                                            *)
NextIdxUnwrapped(i) == i + 1

NextIdx(i) == IF i = Last THEN 0 ELSE i + 1

Init ==
  /\ pc = "idle" /\ txIdx = 0 /\ linkOK = TRUE /\ up = FALSE /\ inits = 0
  /\ cached \in Caching
  /\ desc = [i \in Slots |-> Coherent(Cleared)]
  /\ buf = [i \in Slots |-> Coherent(Blank)]
  /\ mac = "off" /\ macPtr = 0 /\ fetched = Cleared /\ kick = FALSE
  /\ frame = 0 /\ queue = <<>> /\ wire = <<>>

Goto(l) == pc' = l /\ UNCHANGED <<txIdx, linkOK, up, inits, cached>>

StoreDesc(v) == desc' = [desc EXCEPT ![txIdx] = Store(@, v, cached)]

-----------------------------------------------------------------------------
(* SendOffsetEthFrame, with a frame of legal length.                           *)

(* Mutant: the descriptor is not invalidated before it is read.                *)
SendBeginStale ==
  /\ pc = "idle" /\ up /\ frame < MaxFrames
  /\ Goto("check")
  /\ UNCHANGED <<memory, engine, history>>

SendBegin ==
  /\ pc = "idle" /\ up /\ frame < MaxFrames
  /\ desc' = [desc EXCEPT ![txIdx] = Invalidate(@)]
  /\ Goto("check")
  /\ UNCHANGED <<buf, engine, history>>

(* Mutant: OWN is not looked at.                                               *)
CheckNothing ==
  /\ pc = "check"
  /\ desc' = [desc EXCEPT ![txIdx] = Fill(@, cached)]
  /\ Goto("copy") /\ frame' = frame + 1
  /\ UNCHANGED <<buf, engine, queue, wire>>

(* ErrTXBusy when the MAC still owns the descriptor.                           *)
CheckOwn ==
  /\ pc = "check"
  /\ desc' = [desc EXCEPT ![txIdx] = Fill(@, cached)]
  /\ IF desc[txIdx].cpu.own
     THEN Goto("idle") /\ UNCHANGED frame
     ELSE Goto("copy") /\ frame' = frame + 1
  /\ UNCHANGED <<buf, engine, queue, wire>>

CopyFrame ==
  /\ pc = "copy"
  /\ buf' = [buf EXCEPT ![txIdx] = Store(@, frame, cached)]
  /\ Goto("addr")
  /\ UNCHANGED <<desc, engine, history>>

PutAddr ==
  /\ pc = "addr"
  /\ StoreDesc([desc[txIdx].cpu EXCEPT !.addr = TRUE])
  /\ Goto("own")
  /\ UNCHANGED <<buf, engine, history>>

(* Mutant: TXDES0 is written without the end-of-ring mark.                     *)
PutOwnOnly ==
  /\ pc = "own"
  /\ StoreDesc([desc[txIdx].cpu EXCEPT !.own = TRUE, !.edotr = FALSE])
  /\ queue' = Append(queue, frame)
  /\ Goto("cleanDesc")
  /\ UNCHANGED <<buf, engine, frame, wire>>

(* OWN is stored last, EDOTR is kept: the frame now belongs to the MAC.        *)
PutOwn ==
  /\ pc = "own"
  /\ StoreDesc([desc[txIdx].cpu EXCEPT !.own = TRUE])
  /\ queue' = Append(queue, frame)
  /\ Goto("cleanDesc")
  /\ UNCHANGED <<buf, engine, frame, wire>>

CleanDesc ==
  /\ pc = "cleanDesc"
  /\ desc' = [desc EXCEPT ![txIdx] = Clean(@)]
  /\ Goto("cleanBuf")
  /\ UNCHANGED <<buf, engine, history>>

CleanBuf ==
  /\ pc = "cleanBuf"
  /\ buf' = [buf EXCEPT ![txIdx] = Clean(@)]
  /\ Goto("demand")
  /\ UNCHANGED <<desc, engine, history>>

(* Mutant: no poll demand.                                                     *)
NoPollDemand ==
  /\ pc = "demand"
  /\ txIdx' = NextIdx(txIdx)
  /\ pc' = "idle"
  /\ UNCHANGED <<linkOK, up, inits, cached, memory, engine, history>>

(* The poll demand, and txIdx moves on.                                        *)
PollDemand ==
  /\ pc = "demand"
  /\ kick' = TRUE
  /\ txIdx' = NextIdx(txIdx)
  /\ pc' = "idle"
  /\ UNCHANGED <<linkOK, up, inits, cached, memory, mac, macPtr, fetched, history>>

-----------------------------------------------------------------------------
(* Init: clear(d.dma), then reset, then rings, registers, caches and MACCR.    *)

InitClear ==
  /\ pc = "idle" /\ inits < MaxInits /\ txIdx \in ReinitAt
  /\ desc' = [i \in Slots |-> Store(desc[i], Cleared, cached)]
  /\ buf' = [i \in Slots |-> Store(buf[i], Blank, cached)]
  /\ inits' = inits + 1
  /\ up' = FALSE
  /\ pc' = "reset"
  /\ UNCHANGED <<txIdx, linkOK, cached, engine, history>>

(* Mutant: the ring base registers are not rewritten after the reset.          *)
InitResetKeepsRing ==
  /\ pc = "reset"
  /\ mac' = "off" /\ fetched' = Cleared /\ kick' = FALSE
  /\ queue' = <<>>
  /\ Goto("rings") \/ Goto("idle")
  /\ UNCHANGED <<memory, macPtr, frame, wire>>

(* reset stops the MAC; when SW_RST never clears, Init returns ErrReset.       *)
InitReset ==
  /\ pc = "reset"
  /\ mac' = "off" /\ macPtr' = 0 /\ fetched' = Cleared /\ kick' = FALSE
  /\ queue' = <<>>
  /\ Goto("rings") \/ Goto("idle")
  /\ UNCHANGED <<memory, frame, wire>>

(* The last descriptor ends the ring, the whole area is cleaned, and MACCR     *)
(* starts the MAC unless maccr rejects d.Link.  txIdx keeps its value.         *)
InitRings ==
  /\ pc = "rings"
  /\ desc' = [i \in Slots |->
                Clean(IF i = Last
                      THEN Store(desc[i], [desc[i].cpu EXCEPT !.edotr = TRUE], cached)
                      ELSE desc[i])]
  /\ buf' = [i \in Slots |-> Clean(buf[i])]
  /\ mac' = IF linkOK THEN "idle" ELSE "off"
  /\ up' = linkOK
  /\ pc' = "idle"
  /\ UNCHANGED <<txIdx, linkOK, inits, cached, macPtr, fetched, kick, history>>

(* SetLink stores the mode before it validates it.                             *)
SetLink ==
  /\ pc = "idle"
  /\ linkOK' \in BOOLEAN
  /\ mac' = IF linkOK' /\ mac = "off" THEN "idle" ELSE mac
  /\ UNCHANGED <<pc, txIdx, up, inits, cached, memory, macPtr, fetched, kick, history>>

-----------------------------------------------------------------------------
(* The MAC's transmit DMA engine, as the driver relies on it.                  *)

MacPoll ==
  /\ mac = "idle" /\ kick
  /\ mac' = "fetch" /\ kick' = FALSE
  /\ UNCHANGED <<driver, memory, macPtr, fetched, history>>

MacFetch ==
  /\ mac = "fetch"
  /\ IF desc[macPtr].mem.own
     THEN mac' = "dma" /\ fetched' = desc[macPtr].mem
     ELSE mac' = "idle" /\ UNCHANGED fetched
  /\ UNCHANGED <<driver, memory, macPtr, kick, history>>

MacSend ==
  /\ mac = "dma"
  /\ wire' = Append(wire, buf[macPtr].mem)
  /\ queue' = IF queue = <<>> THEN queue ELSE Tail(queue)
  /\ mac' = "release"
  /\ UNCHANGED <<driver, memory, macPtr, fetched, kick, frame>>

(* OWN is given back, and EDOTR tells where the next descriptor is.            *)
MacRelease ==
  /\ mac = "release"
  /\ desc' = [desc EXCEPT ![macPtr] =
                DmaWrite(@, [@.mem EXCEPT !.own = FALSE, !.edotr = fetched.edotr])]
  /\ macPtr' = IF fetched.edotr THEN 0 ELSE macPtr + 1
  /\ fetched' = Cleared
  /\ mac' = "fetch"
  /\ UNCHANGED <<driver, buf, kick, history>>

(* The cache may drop a line, writing it back, or bring one in, at any time.   *)
EvictDesc(i) ==
  /\ desc[i].held
  /\ desc' = [desc EXCEPT ![i] = Invalidate(@)]
  /\ UNCHANGED <<driver, buf, engine, history>>

EvictBuf(i) ==
  /\ buf[i].held
  /\ buf' = [buf EXCEPT ![i] = Invalidate(@)]
  /\ UNCHANGED <<driver, desc, engine, history>>

PrefetchDesc(i) ==
  /\ cached /\ ~desc[i].held
  /\ desc' = [desc EXCEPT ![i] = Fill(@, cached)]
  /\ UNCHANGED <<driver, buf, engine, history>>

-----------------------------------------------------------------------------
Send ==
  \/ SendBegin \/ CheckOwn \/ CopyFrame \/ PutAddr \/ PutOwn
  \/ CleanDesc \/ CleanBuf \/ PollDemand

Reinit == InitReset \/ InitRings

Engine == MacPoll \/ MacFetch \/ MacSend \/ MacRelease

Cache == \E i \in Slots : EvictDesc(i) \/ EvictBuf(i) \/ PrefetchDesc(i)

Next == Send \/ InitClear \/ Reinit \/ SetLink \/ Engine \/ Cache

Spec == Init /\ [][Next]_vars

(* The caller's goroutine runs, and retries a busy ring; the MAC serves its    *)
(* ring.  The cache owes nothing, and nobody need ever call Init or SetLink.   *)
Fairness == WF_vars(Send) /\ WF_vars(Reinit) /\ WF_vars(Engine)

FairSpec == Spec /\ Fairness

-----------------------------------------------------------------------------
(* Properties.                                                                 *)

PCs == {"idle", "check", "copy", "addr", "own", "cleanDesc", "cleanBuf",
        "demand", "reset", "rings"}

(* Type invariant: in particular neither the driver nor the MAC runs off the   *)
(* ring.                                                                       *)
TypeOK ==
  /\ pc \in PCs /\ txIdx \in Slots
  /\ linkOK \in BOOLEAN /\ up \in BOOLEAN /\ cached \in BOOLEAN
  /\ inits \in 0 .. MaxInits
  /\ desc \in [Slots -> LineType(Desc)]
  /\ buf \in [Slots -> LineType(Content)]
  /\ mac \in {"off", "idle", "fetch", "dma", "release"}
  /\ macPtr \in Slots /\ fetched \in Desc /\ kick \in BOOLEAN
  /\ frame \in 0 .. MaxFrames
  /\ queue \in Seq(Frames) /\ wire \in Seq(Content)

(* While SendOffsetEthFrame fills a slot, the MAC neither owns it nor is at    *)
(* work on it: whatever the cache kept or dropped, OWN read as clear is clear. *)
Filling == pc \in {"copy", "addr", "own"}

OneOwner ==
  Filling => /\ ~desc[txIdx].mem.own
             /\ ~(mac \in {"dma", "release"} /\ macPtr = txIdx)

(* The MAC never acts on a half-written descriptor, and the end-of-ring mark   *)
(* put there by Init survives every Send, release and eviction.                *)
DescriptorWhole ==
  /\ mac = "dma" => fetched.addr
  /\ up => \A i \in Slots : desc[i].cpu.edotr = (i = Last)

(* The ring is a FIFO of at most TxCount frames.  Its content is exact unless  *)
(* the memory is cached or Init has just wiped the buffers.                    *)
Fifo == INSTANCE FrameQueue
          WITH Capacity <- TxCount, out <- wire, exact <- ~cached /\ pc # "reset"
FifoSpec == Fifo!Spec

(* ftgmac100.go:90-91: buffers are cleaned before the MAC reads them, so what  *)
(* goes out is the accepted frame also in cached memory.                       *)
SentAsAccepted ==
  [][wire' # wire => wire'[Len(wire')] = Head(queue)]_vars

(* Every accepted frame leaves the queue: no poll demand is lost between the   *)
(* MAC's last look at a descriptor and its going idle.                         *)
QueueDrains == \A f \in Frames : (\E k \in DOMAIN queue : queue[k] = f)
                                   ~> ~ \E k \in DOMAIN queue : queue[k] = f

(* ErrTXBusy ends: a caller that retries gets every frame accepted, because a  *)
(* stale OWN bit is never read for ever.                                       *)
BusyEnds == up ~> frame = MaxFrames \/ ~up
=============================================================================
