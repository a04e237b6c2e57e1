------------------------------ MODULE FtgmacRx ------------------------------
(* The receive half of hal/ftgmac100: EthPoll, Init and SetLink on the driver's *)
(* side, the MAC's receive DMA on the other, and between them the RX           *)
(* descriptors and buffers in memory that may be cached, with a cache that     *)
(* fetches and evicts lines when it likes.                                     *)
EXTENDS CacheLine, Naturals, Sequences

CONSTANTS RxCount,    \* rxCount: descriptors in the ring
          MaxFrames,  \* bound: frames that arrive in a behaviour
          MaxInits,   \* bound: Init calls in a behaviour
          Caching,    \* subset of BOOLEAN: is the DMA memory cacheable
          ReinitAt,   \* values of rxIdx at which the caller calls Init
          QuietInit   \* no frame arrives between Init's clear and its reset

ASSUME RxAssumption ==
  /\ RxCount \in Nat \ {0}
  /\ MaxFrames \in Nat
  /\ MaxInits \in Nat
  /\ Caching \subseteq BOOLEAN
  /\ ReinitAt \subseteq Nat
  /\ QuietInit \in BOOLEAN

VARIABLES
  pc,       \* the driver's next step, "idle" between calls
  rxIdx,    \* d.rxIdx
  d0,       \* EthPoll's copy of the descriptor's first word
  linkOK,   \* d.Link is a mode maccr accepts
  up,       \* Init's last call has laid out the rings (callers poll only then)
  inits,    \* number of Init calls
  cached,   \* the DMA memory is cacheable and the DMAOps hooks are set
  desc,     \* RX descriptors, one cache line each
  buf,      \* RX buffers
  mac,      \* the DMA engine: off, idle, or writing a frame's status
  macPtr,   \* the descriptor it is at
  macLast,  \* EDORR as it read it there
  arrived,  \* history: frames seen on the wire
  queue,    \* history: good frames in the ring, not yet delivered
  out       \* history: what EthPoll returned

driver == <<pc, rxIdx, d0, linkOK, up, inits, cached>>
memory == <<desc, buf>>
engine == <<mac, macPtr, macLast>>
history == <<arrived, queue, out>>
vars == <<driver, memory, engine, history>>

Slots == 0 .. RxCount - 1
Last == RxCount - 1
Blank == 0
Frames == 1 .. MaxFrames
Content == Frames \cup {Blank}

(* RXDES0: ready, the error bits or a length above bufSize, and EDORR; whether *)
(* RXDES2/3 hold the buffer's address.                                         *)
Status == {"good", "error", "big"}
Desc == [ready : BOOLEAN, status : Status, edorr : BOOLEAN, addr : BOOLEAN]
Cleared == [ready |-> FALSE, status |-> "good", edorr |-> FALSE, addr |-> FALSE]

(* Mutant: the index does not wrap.                                            *)
NextIdxUnwrapped(i) == i + 1

NextIdx(i) == IF i = Last THEN 0 ELSE i + 1

Init ==
  /\ pc = "idle" /\ rxIdx = 0 /\ d0 = Cleared /\ linkOK \in BOOLEAN /\ up = FALSE /\ inits = 0
  /\ cached \in Caching
  /\ desc = [i \in Slots |-> Coherent(Cleared)]
  /\ buf = [i \in Slots |-> Coherent(Blank)]
  /\ mac = "off" /\ macPtr = 0 /\ macLast = FALSE
  /\ arrived = 0 /\ queue = <<>> /\ out = <<>>

Goto(l) == pc' = l /\ UNCHANGED <<rxIdx, linkOK, up, inits, cached>>

-----------------------------------------------------------------------------
(* EthPoll.                                                                    *)

(* Mutant: the descriptor is not invalidated before it is read.                *)
PollBeginStale ==
  /\ pc = "idle" /\ up
  /\ Goto("check") /\ UNCHANGED d0
  /\ UNCHANGED <<memory, engine, history>>

PollBegin ==
  /\ pc = "idle" /\ up
  /\ desc' = [desc EXCEPT ![rxIdx] = Invalidate(@)]
  /\ Goto("check") /\ UNCHANGED d0
  /\ UNCHANGED <<buf, engine, history>>

(* Mutant: a bad frame is skipped without giving its descriptor back.          *)
CheckReadyLeaks ==
  /\ pc = "check"
  /\ desc' = [desc EXCEPT ![rxIdx] = Fill(@, cached)]
  /\ IF desc[rxIdx].cpu.ready /\ desc[rxIdx].cpu.status = "good"
     THEN Goto("invalidate") /\ d0' = desc[rxIdx].cpu
     ELSE Goto("idle") /\ UNCHANGED d0
  /\ UNCHANGED <<buf, engine, history>>

(* Not ready: nothing received.  A frame with errors or too long is released   *)
(* without looking at its buffer, like every frame from here on.               *)
CheckReady ==
  /\ pc = "check"
  /\ desc' = [desc EXCEPT ![rxIdx] = Fill(@, cached)]
  /\ LET d == desc[rxIdx].cpu
     IN  IF ~d.ready
         THEN Goto("idle") /\ UNCHANGED d0
         ELSE /\ d0' = d
              /\ Goto(IF d.status = "good" THEN "invalidate" ELSE "release")
  /\ UNCHANGED <<buf, engine, history>>

(* Mutants: the buffer is read through stale lines; the descriptor is given    *)
(* back before the buffer is copied.                                           *)
KeepStaleBuf ==
  /\ pc = "invalidate"
  /\ Goto("copy") /\ UNCHANGED d0
  /\ UNCHANGED <<memory, engine, history>>

ReleaseEarly ==
  /\ pc = "invalidate"
  /\ buf' = [buf EXCEPT ![rxIdx] = Invalidate(@)]
  /\ desc' = [desc EXCEPT ![rxIdx] =
                Clean(Store(@, [@.cpu EXCEPT !.ready = FALSE], cached))]
  /\ Goto("copy") /\ UNCHANGED d0
  /\ UNCHANGED <<engine, history>>

InvalidateBuf ==
  /\ pc = "invalidate"
  /\ buf' = [buf EXCEPT ![rxIdx] = Invalidate(@)]
  /\ Goto("copy") /\ UNCHANGED d0
  /\ UNCHANGED <<desc, engine, history>>

CopyFrame ==
  /\ pc = "copy"
  /\ buf' = [buf EXCEPT ![rxIdx] = Fill(@, cached)]
  /\ out' = Append(out, buf[rxIdx].cpu)
  /\ queue' = IF queue = <<>> THEN queue ELSE Tail(queue)
  /\ Goto("release") /\ UNCHANGED d0
  /\ UNCHANGED <<desc, engine, arrived>>

(* Mutant: the first word is cleared, end-of-ring mark and all.                *)
ReleaseAll ==
  /\ pc = "release"
  /\ desc' = [desc EXCEPT ![rxIdx] =
                Store(@, [@.cpu EXCEPT !.ready = FALSE, !.status = "good",
                                       !.edorr = FALSE], cached)]
  /\ Goto("clean") /\ UNCHANGED d0
  /\ UNCHANGED <<buf, engine, history>>

(* The deferred release: only EDORR survives in the first word.                *)
Release ==
  /\ pc = "release"
  /\ desc' = [desc EXCEPT ![rxIdx] =
                Store(@, [@.cpu EXCEPT !.ready = FALSE, !.status = "good",
                                       !.edorr = d0.edorr], cached)]
  /\ Goto("clean") /\ UNCHANGED d0
  /\ UNCHANGED <<buf, engine, history>>

CleanDesc ==
  /\ pc = "clean"
  /\ desc' = [desc EXCEPT ![rxIdx] = Clean(@)]
  /\ rxIdx' = NextIdx(rxIdx)
  /\ d0' = Cleared
  /\ pc' = "idle"
  /\ UNCHANGED <<linkOK, up, inits, cached, buf, engine, history>>

-----------------------------------------------------------------------------
(* Init: clear(d.dma), then reset, then rings, registers, caches and MACCR.    *)

InitClear ==
  /\ pc = "idle" /\ inits < MaxInits /\ rxIdx \in ReinitAt
  /\ QuietInit => mac # "status"
  /\ desc' = [i \in Slots |-> Store(desc[i], Cleared, cached)]
  /\ buf' = [i \in Slots |-> Store(buf[i], Blank, cached)]
  /\ inits' = inits + 1
  /\ up' = FALSE
  /\ pc' = "reset"
  /\ UNCHANGED <<rxIdx, d0, linkOK, cached, engine, history>>

(* reset stops the MAC; when SW_RST never clears, Init returns ErrReset.       *)
InitReset ==
  /\ pc = "reset"
  /\ mac' = "off" /\ macPtr' = 0 /\ macLast' = FALSE
  /\ queue' = <<>>
  /\ Goto("rings") \/ Goto("idle")
  /\ UNCHANGED <<d0, memory, arrived, out>>

(* Buffer addresses and the end-of-ring mark are stored, the whole area is     *)
(* cleaned, and MACCR starts the MAC unless maccr rejects d.Link.              *)
InitRings ==
  /\ pc = "rings"
  /\ desc' = [i \in Slots |->
                Clean(Store(desc[i], [desc[i].cpu EXCEPT !.addr = TRUE,
                                                         !.edorr = @ \/ i = Last],
                            cached))]
  /\ buf' = [i \in Slots |-> Clean(buf[i])]
  /\ mac' = IF linkOK THEN "idle" ELSE "off"
  /\ up' = TRUE
  /\ pc' = "idle"
  /\ UNCHANGED <<rxIdx, d0, linkOK, inits, cached, macPtr, macLast, history>>

(* SetLink stores the mode before it validates it, and starts a MAC that Init  *)
(* could not start.  Without Init's ring registers the MAC is not at this ring.*)
SetLink ==
  /\ pc = "idle"
  /\ linkOK' \in BOOLEAN
  /\ mac' = IF linkOK' /\ up /\ mac = "off" THEN "idle" ELSE mac
  /\ UNCHANGED <<pc, rxIdx, d0, up, inits, cached, memory, macPtr, macLast, history>>

-----------------------------------------------------------------------------
(* The MAC's receive DMA engine, as the driver relies on it.                   *)

(* A frame arrives: into the buffer of a free descriptor, or it is lost.       *)
MacReceive ==
  /\ mac = "idle" /\ arrived < MaxFrames
  /\ QuietInit => pc # "reset"
  /\ arrived' = arrived + 1
  /\ IF desc[macPtr].mem.ready \/ ~desc[macPtr].mem.addr
     THEN UNCHANGED <<buf, mac, macLast>>
     ELSE /\ buf' = [buf EXCEPT ![macPtr] = DmaWrite(@, arrived')]
          /\ macLast' = desc[macPtr].mem.edorr
          /\ mac' = "status"
  /\ UNCHANGED <<driver, desc, macPtr, queue, out>>

(* Its status is written back, and EDORR tells where the next descriptor is.   *)
MacStatus ==
  /\ mac = "status"
  /\ \E s \in Status :
       /\ desc' = [desc EXCEPT ![macPtr] =
                     DmaWrite(@, [@.mem EXCEPT !.ready = TRUE, !.status = s,
                                              !.edorr = macLast])]
       /\ queue' = IF s = "good" THEN Append(queue, arrived) ELSE queue
  /\ macPtr' = IF macLast THEN 0 ELSE macPtr + 1
  /\ macLast' = FALSE
  /\ mac' = "idle"
  /\ UNCHANGED <<driver, buf, arrived, out>>

(* The cache may drop a line, writing it back, or bring one in, at any time.   *)
EvictDesc(i) ==
  /\ desc[i].held
  /\ desc' = [desc EXCEPT ![i] = Invalidate(@)]
  /\ UNCHANGED <<driver, buf, engine, history>>

EvictBuf(i) ==
  /\ buf[i].held
  /\ buf' = [buf EXCEPT ![i] = Invalidate(@)]
  /\ UNCHANGED <<driver, desc, engine, history>>

PrefetchDesc(i) ==
  /\ cached /\ ~desc[i].held
  /\ desc' = [desc EXCEPT ![i] = Fill(@, cached)]
  /\ UNCHANGED <<driver, buf, engine, history>>

PrefetchBuf(i) ==
  /\ cached /\ ~buf[i].held
  /\ buf' = [buf EXCEPT ![i] = Fill(@, cached)]
  /\ UNCHANGED <<driver, desc, engine, history>>

-----------------------------------------------------------------------------
Poll ==
  \/ PollBegin \/ CheckReady \/ InvalidateBuf \/ CopyFrame \/ Release \/ CleanDesc

Reinit == InitReset \/ InitRings

Cache == \E i \in Slots : \/ EvictDesc(i) \/ EvictBuf(i)
                          \/ PrefetchDesc(i) \/ PrefetchBuf(i)

Next == Poll \/ InitClear \/ Reinit \/ SetLink \/ MacReceive \/ MacStatus \/ Cache

Spec == Init /\ [][Next]_vars

(* The caller keeps polling and the MAC completes what it began.  Frames need  *)
(* not arrive, and the cache owes nothing.                                     *)
Fairness == WF_vars(Poll) /\ WF_vars(Reinit) /\ WF_vars(MacStatus)

FairSpec == Spec /\ Fairness

-----------------------------------------------------------------------------
(* Properties.                                                                 *)

PCs == {"idle", "check", "invalidate", "copy", "release", "clean", "reset", "rings"}

(* Type invariant: in particular neither the driver nor the MAC runs off the   *)
(* ring.                                                                       *)
TypeOK ==
  /\ pc \in PCs /\ rxIdx \in Slots /\ d0 \in Desc
  /\ linkOK \in BOOLEAN /\ up \in BOOLEAN /\ cached \in BOOLEAN /\ inits \in 0 .. MaxInits
  /\ desc \in [Slots -> LineType(Desc)]
  /\ buf \in [Slots -> LineType(Content)]
  /\ mac \in {"off", "idle", "status"} /\ macPtr \in Slots /\ macLast \in BOOLEAN
  /\ arrived \in 0 .. MaxFrames
  /\ queue \in Seq(Frames) /\ out \in Seq(Content)

(* From the moment EthPoll has seen a frame until it gives the descriptor back *)
(* the MAC does not write into that frame's buffer or descriptor.              *)
Holding == pc \in {"invalidate", "copy", "release"}

NoOverwrite ==
  Holding => desc[rxIdx].mem.ready /\ ~(mac = "status" /\ macPtr = rxIdx)

(* The end-of-ring mark and the buffer addresses survive every release: the    *)
(* first word keeps only EDORR.                                                *)
RingIntact ==
  up => \A i \in Slots : /\ desc[i].cpu.edorr = (i = Last)
                         /\ desc[i].cpu.addr

(* Good frames come out in the order the MAC stored them, each once, with      *)
(* their own bytes, never a stale cache line; the ring holds RxCount at most.  *)
Fifo == INSTANCE FrameQueue WITH Capacity <- RxCount, exact <- TRUE
FifoSpec == Fifo!Spec

(* Every good frame in the ring is delivered.                                  *)
QueueDrains == \A f \in Frames : (\E k \in DOMAIN queue : queue[k] = f)
                                   ~> ~ \E k \in DOMAIN queue : queue[k] = f

(* A descriptor the MAC waits for is given back, also when its frame was bad:  *)
(* errors and over-long frames do not wear the ring out.                       *)
RingFrees == desc[macPtr].mem.ready ~> ~desc[macPtr].mem.ready \/ ~up
=============================================================================
