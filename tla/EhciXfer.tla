------------------------------ MODULE EhciXfer ------------------------------
(* hal/usb/ehci/xfer.go: ControlIn and waitQTD on the driver's side, the EHCI  *)
(* controller walking the asynchronous schedule on the other, and between them *)
(* one queue head, three transfer descriptors (SETUP, DATA, STATUS) and a data *)
(* buffer, in memory that may be cached and that the caller's DMA backend      *)
(* hands out and takes back.  The four buffers of one transfer are allocated   *)
(* and freed together: they are one arena.                                     *)
EXTENDS CacheLine, Naturals

CONSTANTS Arenas,       \* places the DMA backend can allocate from
          NoArena,
          MaxLen,       \* bound: the data buffer's length
          Lens,         \* lengths callers ask for
          MaxXfers,     \* bound: transfers in a behaviour
          Caching,      \* subset of BOOLEAN: is the DMA memory cacheable
          Stopping      \* subset of BOOLEAN: does the schedule stop at once

ASSUME XferAssumption ==
  /\ NoArena \notin Arenas
  /\ MaxLen \in Nat /\ MaxXfers \in Nat
  /\ Lens \subseteq 0 .. MaxLen
  /\ Caching \subseteq BOOLEAN
  /\ Stopping \subseteq BOOLEAN

VARIABLES
  pc,       \* the driver's next step, "idle" between calls
  dma,      \* SetDMA was called
  xfer,     \* number of the control transfer
  len,      \* len(data)
  expired,  \* waitQTD's deadline has passed
  err,      \* what waitQTD, and then ControlIn, returns
  got,      \* bytes received
  data,     \* the caller's buffer
  dbg,      \* c.dbg: the state of the three qTDs
  arena,    \* this transfer's buffers
  alloc,    \* arenas the backend has handed out
  cached,   \* the DMA memory is cacheable
  atOnce,   \* the schedule has stopped by the step after the write to USBCMD
  qh,       \* queue head: the stage its overlay is at
  td,       \* the qTDs' tokens, one cache line each
  dn,       \* the data buffer
  ase,      \* USBCMD: async schedule enable
  list,     \* ASYNCLISTADDR
  ass,      \* USBSTS: async schedule status
  cur,      \* the arena the controller walks
  nak,      \* the device answers NAK
  trouble,  \* history: the device was late or failed in this transfer
  stalled,  \* history: the stage that failed
  stallSeen,\* history: the same, when waitQTD last looked
  sent      \* history: bytes the device sent in this transfer

call == <<dma, xfer, len>>
outcome == <<err, got, data, dbg>>
memory == <<qh, td, dn>>
heap == <<arena, alloc, cached, atOnce>>
hc == <<ase, list, ass, cur>>
device == <<nak, trouble, stalled, sent>>
vars == <<pc, call, expired, outcome, memory, heap, hc, device, stallSeen>>

Stages == {"setup", "data", "status"}
After(s) == CASE s = "setup" -> "data" [] s = "data" -> "status" [] s = "status" -> "done"

(* A token: status bits and total bytes still to transfer.  "recovered" is a   *)
(* stage that is done and whose token keeps the error bit of a transaction     *)
(* that was repeated.                                                          *)
Over == {"done", "recovered"}
States == Over \cup {"zero", "active", "halted"}
Token == [st : States, rest : 0 .. MaxLen]
ZeroToken == [st |-> "zero", rest |-> 0]

(* The data buffer: which transfer's bytes, and how many of them.              *)
Bytes == [by : 0 .. MaxXfers, n : 0 .. MaxLen]
Zeroed == [by |-> 0, n |-> 0]

NoDebug == [s \in Stages |-> "zero"]

Init ==
  /\ pc = "idle" /\ dma = FALSE /\ xfer = 0 /\ len = 0 /\ expired = FALSE
  /\ err = "nil" /\ got = 0 /\ data = Zeroed /\ dbg = NoDebug
  /\ arena = NoArena /\ alloc = {} /\ cached \in Caching /\ atOnce \in Stopping
  /\ qh = Coherent("zero") /\ td = [s \in Stages |-> Coherent(ZeroToken)]
  /\ dn = Coherent(Zeroed)
  /\ ase = FALSE /\ list = NoArena /\ ass = FALSE /\ cur = NoArena
  /\ nak = FALSE /\ trouble = FALSE /\ stalled = "none" /\ sent = 0
  /\ stallSeen = "none"

Goto(l) == pc' = l

SetDMA ==
  /\ pc = "idle" /\ ~dma
  /\ dma' = TRUE
  /\ UNCHANGED <<pc, xfer, len, expired, outcome, memory, heap, hc, device, stallSeen>>

-----------------------------------------------------------------------------
(* ControlIn: the schedule is built.                                           *)

(* Alloc's buffers are zero and coherent; the results of a call are its caller's. *)
NewMemory ==
  /\ qh' = Coherent("zero") /\ dn' = Coherent(Zeroed)
  /\ td' = [s \in Stages |-> Coherent(ZeroToken)]

NewCall ==
  /\ expired' = FALSE /\ err' = "nil" /\ got' = 0 /\ data' = Zeroed
  /\ trouble' = nak /\ stalled' = "none" /\ stallSeen' = "none" /\ sent' = 0

(* ErrNoDMA, or the buffers are allocated, zeroed.                             *)
Begin ==
  /\ pc = "idle" /\ xfer < MaxXfers
  /\ xfer' = xfer + 1
  /\ len' \in Lens
  /\ IF ~dma
     THEN err' = "nodma" /\ Goto("return") /\ UNCHANGED <<arena, alloc>>
     ELSE /\ UNCHANGED err /\ Goto("build")
          /\ \E a \in Arenas \ alloc : arena' = a /\ alloc' = alloc \cup {a}
  /\ UNCHANGED <<dma, expired, got, data, dbg, memory, cached, atOnce, hc, device, stallSeen>>

(* Mutant: the DATA stage is one byte longer than the buffer.                  *)
BuildLong ==
  /\ pc = "build"
  /\ td' = [s \in Stages |->
              Store(td[s], [st |-> "active",
                            rest |-> IF s = "data" THEN len + 1 ELSE 0], cached)]
  /\ Goto("cleanTD")
  /\ UNCHANGED <<call, expired, outcome, qh, dn, heap, hc, device, stallSeen>>

BuildQTDs ==
  /\ pc = "build"
  /\ td' = [s \in Stages |->
              Store(td[s], [st |-> "active",
                            rest |-> IF s = "data" THEN len ELSE 0], cached)]
  /\ Goto("cleanTD")
  /\ UNCHANGED <<call, expired, outcome, qh, dn, heap, hc, device, stallSeen>>

(* Mutant: the descriptors stay in the cache.                                  *)
KeepQTDs ==
  /\ pc = "cleanTD"
  /\ Goto("buildQH")
  /\ UNCHANGED <<call, expired, outcome, memory, heap, hc, device, stallSeen>>

CleanQTDs ==
  /\ pc = "cleanTD"
  /\ td' = [s \in Stages |-> Clean(td[s])]
  /\ Goto("buildQH")
  /\ UNCHANGED <<call, expired, outcome, qh, dn, heap, hc, device, stallSeen>>

BuildQH ==
  /\ pc = "buildQH"
  /\ qh' = Store(qh, "setup", cached)
  /\ Goto("cleanQH")
  /\ UNCHANGED <<call, expired, outcome, td, dn, heap, hc, device, stallSeen>>

CleanQH ==
  /\ pc = "cleanQH"
  /\ qh' = Clean(qh)
  /\ Goto("list")
  /\ UNCHANGED <<call, expired, outcome, td, dn, heap, hc, device, stallSeen>>

SetListAddr ==
  /\ pc = "list"
  /\ list' = arena
  /\ Goto("enable")
  /\ UNCHANGED <<call, expired, outcome, memory, heap, ase, ass, cur, device, stallSeen>>

EnableAsync ==
  /\ pc = "enable"
  /\ ase' = TRUE
  /\ Goto("poll")
  /\ UNCHANGED <<call, expired, outcome, memory, heap, list, ass, cur, device, stallSeen>>

-----------------------------------------------------------------------------
(* waitQTD on the STATUS descriptor.                                           *)

PollInvalidate ==
  /\ pc = "poll"
  /\ td' = [td EXCEPT !["status"] = Invalidate(@)]
  /\ Goto("look")
  /\ UNCHANGED <<call, expired, outcome, qh, dn, heap, hc, device, stallSeen>>

(* Mutant: the deadline is not looked at.                                      *)
LookForEver ==
  /\ pc = "look"
  /\ td' = [td EXCEPT !["status"] = Fill(@, cached)]
  /\ stallSeen' = stalled
  /\ CASE td["status"].cpu.st \in {"halted", "recovered"} -> err' = "halted" /\ Goto("dump")
       [] td["status"].cpu.st = "active" -> UNCHANGED err /\ Goto("poll")
       [] OTHER -> UNCHANGED err /\ Goto("dump")
  /\ UNCHANGED <<call, expired, got, data, dbg, qh, dn, heap, hc, device>>

Look ==
  /\ pc = "look"
  /\ td' = [td EXCEPT !["status"] = Fill(@, cached)]
  /\ stallSeen' = stalled
  /\ CASE td["status"].cpu.st \in {"halted", "recovered"} -> err' = "halted" /\ Goto("dump")
       [] td["status"].cpu.st = "active" /\ expired -> err' = "timeout" /\ Goto("dump")
       [] td["status"].cpu.st = "active" /\ ~expired -> UNCHANGED err /\ Goto("poll")
       [] OTHER -> UNCHANGED err /\ Goto("dump")
  /\ UNCHANGED <<call, expired, got, data, dbg, qh, dn, heap, hc, device>>

-----------------------------------------------------------------------------
(* ControlIn: the snapshot, the teardown and the result.                       *)

(* Mutant: only the queue head is invalidated before the snapshot.             *)
DumpInvalidateQH ==
  /\ pc = "dump"
  /\ qh' = Invalidate(qh)
  /\ Goto("snapshot")
  /\ UNCHANGED <<call, expired, outcome, td, dn, heap, hc, device, stallSeen>>

DumpInvalidate ==
  /\ pc = "dump"
  /\ qh' = Invalidate(qh)
  /\ td' = [s \in Stages |-> Invalidate(td[s])]
  /\ Goto("snapshot")
  /\ UNCHANGED <<call, expired, outcome, dn, heap, hc, device, stallSeen>>

Snapshot ==
  /\ pc = "snapshot"
  /\ dbg' = [s \in Stages |-> td[s].cpu.st]
  /\ td' = [s \in Stages |-> Fill(td[s], cached)]
  /\ Goto("disable")
  /\ UNCHANGED <<call, expired, err, got, data, qh, dn, heap, hc, device, stallSeen>>

(* Mutant: an error returns before the schedule is stopped.                    *)
DisableOnSuccess ==
  /\ pc = "disable"
  /\ ase' = (err # "nil")
  /\ Goto(IF err = "nil" THEN "residual" ELSE "free")
  /\ UNCHANGED <<call, expired, outcome, memory, heap, list, ass, cur, device, stallSeen>>

DisableAsync ==
  /\ pc = "disable"
  /\ ase' = FALSE
  /\ Goto(IF err = "nil" THEN "residual" ELSE "free")
  /\ UNCHANGED <<call, expired, outcome, memory, heap, list, ass, cur, device, stallSeen>>

(* The driver does not look at USBSTS.  On a controller that stops at once the *)
(* write has taken effect before the driver's next step.                       *)
Stopped == atOnce /\ ~ase => ~ass

ReadResidual ==
  /\ pc = "residual" /\ Stopped
  /\ LET l == Invalidate(td["data"])
     IN  /\ td' = [td EXCEPT !["data"] = Fill(l, cached)]
         /\ got' = len - l.cpu.rest
  /\ Goto(IF got' > 0 THEN "invalidate" ELSE "free")
  /\ UNCHANGED <<call, expired, err, data, dbg, qh, dn, heap, hc, device, stallSeen>>

(* Mutant: the buffer is read through stale lines.                             *)
KeepStaleData ==
  /\ pc = "invalidate"
  /\ Goto("copy")
  /\ UNCHANGED <<call, expired, outcome, memory, heap, hc, device, stallSeen>>

InvalidateData ==
  /\ pc = "invalidate"
  /\ dn' = Invalidate(dn)
  /\ Goto("copy")
  /\ UNCHANGED <<call, expired, outcome, qh, td, heap, hc, device, stallSeen>>

CopyData ==
  /\ pc = "copy"
  /\ data' = dn.cpu
  /\ dn' = Fill(dn, cached)
  /\ Goto("free")
  /\ UNCHANGED <<call, expired, err, got, dbg, qh, td, heap, hc, device, stallSeen>>

(* The deferred Frees.  What happens in freed memory is not followed.          *)
Free ==
  /\ pc = "free" /\ Stopped
  /\ alloc' = alloc \ {arena} /\ arena' = NoArena
  /\ NewMemory
  /\ Goto("return")
  /\ UNCHANGED <<call, expired, outcome, cached, atOnce, hc, device, stallSeen>>

(* c.dbg outlives the call; what Debug returns later is not followed.          *)
Return ==
  /\ pc = "return"
  /\ NewCall
  /\ len' = 0 /\ dbg' = NoDebug
  /\ Goto("idle")
  /\ UNCHANGED <<dma, xfer, memory, heap, hc, nak>>

(* A second passes: the controller has done what it can, or the device was     *)
(* late or failed.                                                             *)
Working ==
  \/ ~ass
  \/ /\ cur = arena /\ ~nak
     /\ qh.mem \in Stages /\ td[qh.mem].mem.st = "active"

DeadlinePasses ==
  /\ pc \in {"poll", "look"} /\ ~expired
  /\ trouble \/ (~Working /\ td["status"].mem.st \notin Over)
  /\ expired' = TRUE
  /\ UNCHANGED <<pc, call, outcome, memory, heap, hc, device, stallSeen>>

-----------------------------------------------------------------------------
(* The controller and the device, as the driver relies on them.                *)

driverSide == <<pc, call, expired, outcome, heap, ase, list, stallSeen>>

StartSchedule ==
  /\ ase /\ ~ass
  /\ ass' = TRUE /\ cur' = list
  /\ UNCHANGED <<driverSide, memory, device>>

StopSchedule ==
  /\ ~ase /\ ass
  /\ ass' = FALSE /\ cur' = NoArena
  /\ UNCHANGED <<driverSide, memory, device>>

At(s) == /\ ass /\ cur = arena /\ ~nak
         /\ qh.mem = s /\ td[s].mem.st = "active"

(* DATA: bytes are written first, possibly fewer than asked for.               *)
Receive ==
  /\ At("data") /\ sent = 0 /\ dn.mem.by # xfer
  /\ \E k \in 0 .. td["data"].mem.rest :
       sent' = k /\ dn' = DmaWrite(dn, [by |-> xfer, n |-> k])
  /\ UNCHANGED <<driverSide, ass, cur, qh, td, nak, trouble, stalled>>

(* A stage is over, perhaps after errors on the bus: its token is written back *)
(* and the next qTD fetched.                                                   *)
Retire(s) ==
  /\ At(s) /\ (s = "data" => dn.mem.by = xfer)
  /\ \E st \in Over :
       /\ td' = [td EXCEPT ![s] =
                   DmaWrite(@, [st |-> st,
                                rest |-> IF s = "data" THEN @.mem.rest - sent ELSE 0])]
       /\ trouble' = (trouble \/ st = "recovered")
  /\ qh' = DmaWrite(qh, After(s))
  /\ UNCHANGED <<driverSide, ass, cur, dn, nak, stalled, sent>>

(* The device stalls, or errors use up the retry counter.                      *)
Halt(s) ==
  /\ At(s)
  /\ td' = [td EXCEPT ![s] = DmaWrite(@, [@.mem EXCEPT !.st = "halted"])]
  /\ qh' = DmaWrite(qh, "halted")
  /\ stalled' = s /\ trouble' = TRUE
  /\ UNCHANGED <<driverSide, ass, cur, dn, nak, sent>>

DeviceNaks ==
  /\ ~nak
  /\ nak' = TRUE /\ trouble' = TRUE
  /\ UNCHANGED <<driverSide, ass, cur, memory, stalled, sent>>

DeviceWakes ==
  /\ nak
  /\ nak' = FALSE
  /\ UNCHANGED <<driverSide, ass, cur, memory, trouble, stalled, sent>>

(* The cache may drop a line, writing it back, or bring one in, at any time.   *)
(* The queue head's line only matters while it is dirty: the results do not    *)
(* depend on what the CPU reads there.                                         *)
Moved(l) == {m \in {Invalidate(l), Fill(l, cached)} : m # l}

CacheMoves ==
  /\ alloc # {}
  /\ \/ \E s \in Stages : \E m \in Moved(td[s]) :
          td' = [td EXCEPT ![s] = m] /\ UNCHANGED <<qh, dn>>
     \/ qh.dirty /\ qh' = Invalidate(qh) /\ UNCHANGED <<td, dn>>
     \/ dn' \in Moved(dn) /\ UNCHANGED <<qh, td>>
  /\ UNCHANGED <<driverSide, ass, cur, device>>

-----------------------------------------------------------------------------
ControlIn ==
  \/ BuildQTDs \/ CleanQTDs \/ BuildQH \/ CleanQH \/ SetListAddr \/ EnableAsync
  \/ PollInvalidate \/ Look
  \/ DumpInvalidate \/ Snapshot \/ DisableAsync
  \/ ReadResidual \/ InvalidateData \/ CopyData \/ Free \/ Return

Controller ==
  \/ StartSchedule \/ StopSchedule \/ Receive
  \/ \E s \in Stages : Retire(s) \/ Halt(s)

Next ==
  \/ SetDMA \/ Begin \/ ControlIn \/ DeadlinePasses
  \/ Controller \/ DeviceNaks \/ DeviceWakes \/ CacheMoves

Spec == Init /\ [][Next]_vars

(* The caller's goroutine runs, the controller works on a device that answers, *)
(* and time passes.  The device and the cache owe nothing.                     *)
Fairness == WF_vars(ControlIn) /\ WF_vars(Controller) /\ WF_vars(DeadlinePasses)

FairSpec == Spec /\ Fairness

-----------------------------------------------------------------------------
(* Properties.                                                                 *)

PCs == {"idle", "build", "cleanTD", "buildQH", "cleanQH", "list", "enable", "poll",
        "look", "dump", "snapshot", "disable", "residual", "invalidate", "copy",
        "free", "return"}

(* Type invariant: in particular no stage asks for more than the buffer holds  *)
(* and the residual never exceeds what was asked for.                          *)
TypeOK ==
  /\ pc \in PCs /\ dma \in BOOLEAN /\ xfer \in 0 .. MaxXfers /\ len \in 0 .. MaxLen
  /\ expired \in BOOLEAN /\ err \in {"nil", "nodma", "halted", "timeout"}
  /\ got \in 0 .. MaxLen /\ data \in Bytes /\ dbg \in [Stages -> States]
  /\ arena \in Arenas \cup {NoArena} /\ alloc \subseteq Arenas
  /\ cached \in BOOLEAN /\ atOnce \in BOOLEAN
  /\ qh \in LineType(Stages \cup {"zero", "done", "halted"})
  /\ td \in [Stages -> LineType(Token)] /\ dn \in LineType(Bytes)
  /\ ase \in BOOLEAN /\ list \in Arenas \cup {NoArena}
  /\ ass \in BOOLEAN /\ cur \in Arenas \cup {NoArena}
  /\ nak \in BOOLEAN /\ trouble \in BOOLEAN /\ sent \in 0 .. MaxLen
  /\ stalled \in Stages \cup {"none"} /\ stallSeen \in Stages \cup {"none"}

(* The schedule is enabled only on memory that the call under way owns, on     *)
(* every way out of ControlIn: however late the controller takes a stop, it    *)
(* never starts on memory that was given back.                                 *)
ScheduleIsOwned == ase => list = arena /\ arena \in alloc

(* xfer.go:28-30 and :287: the controller walks only memory that ControlIn     *)
(* still owns, whether the transfer ended well, failed or timed out.  That is  *)
(* not so when the schedule stops later than the memory is freed.              *)
NoDmaAfterFree == ass => cur \in alloc

(* A nil error means that the device completed this transfer, and the caller   *)
(* has exactly the bytes it sent: not an earlier transfer's, not the cleared   *)
(* buffer's, and no more than arrived.                                         *)
SuccessIsTrue ==
  pc = "return" /\ err = "nil" =>
    /\ got = sent
    /\ sent > 0 => data = [by |-> xfer, n |-> sent]
    /\ stalled = "none"

(* A transfer fails only if the device was late or failed, or errors on the    *)
(* bus were recovered from: no completion is missed because of a descriptor or *)
(* token that stayed in a cache.  A schedule that stops late may still walk    *)
(* the last transfer's memory, and cause a timeout.                            *)
FailuresAreReal ==
  pc = "return" /\ (err = "halted" \/ (err = "timeout" /\ atOnce)) => trouble

(* xfer.go:265-266: the snapshot tells which stage failed.  That matters, for  *)
(* a failed SETUP or DATA stage is reported as a timeout.                      *)
RootCause ==
  (pc = "return" /\ err \in {"halted", "timeout"} /\ stallSeen # "none")
    => dbg[stallSeen] = "halted"

(* Every transfer returns, also with a device that never answers.              *)
EveryCallReturns == pc # "idle" ~> pc = "idle"
=============================================================================
