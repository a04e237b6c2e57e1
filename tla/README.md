# TLA+ models of aspeed-go

`aspeed-go` is a bare-metal hardware abstraction layer for the application cores
of ASPEED SoCs. There is no operating system under it: every driver talks to a
piece of hardware that runs at its own pace, over registers, flash windows and
memory that a second bus master reads and writes. What can go wrong is therefore
in the *interplay*: the order of stores that a DMA engine can see, a command sent
to a chip that is still busy, a timeout whose cause completes later, two
goroutines or two drivers on one register. These modules model that interplay.
They are checked with TLC on small instances. For every value of the constants,
TLAPS proves the safety properties of the flash driver, of both Ethernet rings
and that each of them implements a FIFO, of the EHCI transfer layer and root
port, of the PHY driver over MDIO, of the OTP, AUX and video drivers, of the
segment registers and of the drawing calls.

## The system

| part | state it keeps | operations | with whom it interacts |
|------|----------------|------------|------------------------|
| `hal/spi` | per chip select: control register, window | `Init`, `Device`, `Command`, `ReadWindow` | SPI controller; called by `spinor` |
| `hal/spi/segment.go` | none | `SegmentDecode`, `SegmentEncode` | `spi.Init` |
| `hal/spinor` | geometry, mutex | `Init`, `ReadID`, `ReadAt`, `WriteAt`, `EraseBlock` | many goroutines; the flash chip through `spi` |
| `hal/ftgmac100` | `txIdx`, `rxIdx`, link, DMA area | `Init`, `SetLink`, `SendOffsetEthFrame`, `EthPoll` | the MAC's DMA engine through descriptor rings, the data cache through `DMAOps` |
| `hal/usb/ehci` (xfer) | DMA backend, debug snapshot | `ControlIn`, `waitQTD`, `GetDeviceDescriptor` | EHCI asynchronous schedule, DMA allocator, cache |
| `hal/usb/ehci` (bring-up) | capability length | `InitSteps`, `PollConnect`, `ResetPort`, `Status` | SCU1, PORTSC, sibling vHub PHY |
| `hal/usb/vhub` | port record | `InitSteps`, `Connect`, `Disconnect`, `AckISR`, `PollBusEvents` | SCU0, shared PHY, the USB host |
| `hal/ast2700net` | none | `EnableMAC0RGMII` | SCU1 |
| `hal/mdio`, `hal/an8801r` | PHY page register (in the PHY) | `Read`, `Write`; `InitRGMIIID`, `WaitLink`, `ApplyLinkSpeed`, `InitLEDs` | MDIO controller, PHY |
| `hal/otp` | ECC flag | `Init`, `ReadWord(s)`, `ProgramWord(s)` | OTP command engine |
| `hal/videoengine` | none | `Configure`, `DetectMode`, `CaptureFrame`, waits | capture engine, interrupt status |
| `hal/aspeedgfx` | none | CRT and clock set-up, DP AUX, `ReadEDID`, `SelectMode`, `CRT1CLKParam` | SCU0, SCU1, DP MCU, AUX engine |
| `hal/edid` | none | parser | `aspeedgfx.SelectMode` |
| `hal/framebuffer` | buffer view | `SetPixel`, `FillRect`, lines | scanout memory |
| `hal/uart`, `hal/flash`, `hal/gpio`, `hal/timer` | none | polling transmit; an interface; empty | - |
| `reg` | none | volatile loads, stores, read-modify-write | everything |

Only `spinor.NOR` has a lock. Everything else relies on its caller for exclusion
and on the order of its own stores for correctness against the hardware.

**What makes each part correct.** *spinor/spi*: a result tells the truth about
the flash, nothing outside the addressed range ever changes, calls exclude each
other, every call returns. *ftgmac100*: one owner per descriptor, whole
descriptors, frames leave in order with their own bytes, nothing is stuck.
*ehci xfer*: the controller is never pointed at memory that was given back, the
error tells which stage failed. *ehci port*: a write to PORTSC changes only what it means to.
*Bring-up sequences*: a trace whose steps are all OK tells the truth, whoever
locks the SCU again in the middle. *otp, video, AUX, mdio*: an answer belongs to
the question that was asked last. *an8801r*: a failed paged access changes
nothing it was not asked to. *Pure code*: decode after encode is the identity, a
clipped rectangle is an intersection, the mode is the best one the display has,
a
clock divider exists for each clock that R and N can reach, and is near it.

`PROJECT.json` lists the hazards one by one, at the line where each bites, with
the properties that cover it or the reason why none does.

## Modules

| module | models |
|--------|--------|
| `NorChip` | the flash chip, as the driver relies on it (external) |
| `SpiNor` | `hal/spinor` over `hal/spi`: goroutines, mutex, bus, chip |
| `SpiNorProofs` | the inductive invariant of `SpiNor` and the theorems |
| `CacheLine`, `CacheLineProofs` | a line of DMA memory with its copy in a non-coherent cache (external); what its operations keep |
| `FrameQueue` | the abstract specification of either half of `hal/ftgmac100` |
| `FtgmacTx`, `FtgmacTxProofs` | the transmit ring; its theorems |
| `FtgmacRx`, `FtgmacRxProofs` | the receive ring; its theorems |
| `EhciXfer`, `EhciXferProofs` | `ControlIn` with the EHCI controller, the device and the allocator; its theorems |
| `EhciPort` | `PollConnect` and `ResetPort` on the root port's PORTSC |
| `PhyBus`, `PhyBusProofs` | `hal/an8801r` over `hal/mdio`: the controller and the PHY; its theorems |
| `Otp` | `hal/otp` and its command engine |
| `DpAux` | `ReadEDID` over DisplayPort AUX |
| `Video` | `hal/videoengine` and its capture and compression units |
| `BringupPrograms` | the bring-up calls of `vhub`, `ehci`, `ast2700net` and `aspeedgfx` as programs of register accesses |
| `Bringup`, `BringupProofs` | these programs on the SCUs they share, and the hardware behind them; its theorems |
| `Segment` | the SPI decoding registers; what they can hold |
| `Framebuffer` | the drawing calls as sets of bytes; clipping |
| `Edid`, `Modes` | the EDID parser; mode selection and clock divider (`Modes` extends `Edid`) |
| `MCSpiNor`, `MCFtgmacTx`, `MCFtgmacRx`, `MCEhciXfer`, `MCDpAux` | instances for TLC |
| `Devices` | `EhciPort`, `Otp`, `DpAux` and `Video` as instances with variables of their own, and the inputs of `Segment`, `Framebuffer` and `Modes`; `on` names the one a behaviour is about |
| `DeviceProofs` | the theorems of everything in `Devices` |
| `MCDevices` | `Devices` with `PhyBus` and `Bringup` in one run, and the inputs |

### SpiNor

One variable per piece of driver state: `mu` is `NOR.mu`, `ctl` the CE control
register, `chip` the flash; the rest are the locals of each goroutine's call
(`n` is `written`, `saved` is `Command`'s `saved`, `expired` says whether the
deadline of `waitReady` lies in the past). `Enter` is the range check before the
lock, `Lock` the lock with the first statement behind it. A `Command` is three
steps, `AssertCE`, `Clock`, `RestoreCE`, and each caller of `Command` has its own
step for what it does with the reply: `SentWREN`, `CheckLatch`, `StartPolling`,
`PollReady`, `PollAgain`, `PollTimeout`, `GotID`. `ReadByte` is one byte of the
window, so that anything may happen between two bytes. `Return` is the deferred
unlock. The chip finishes an operation in its own time (`ChipFinish`), or never.

A flash cell is the set of byte patterns ANDed into it since its last erase: that
is all the properties can tell apart, and it keeps a page program that wraps or
overlaps visible. `clean` and `cause` are history: was the chip idle when this
call took the mutex, and whose operation is the chip working on.

`EraseAligned`, `InRange` and `Chunk` are the code's own arithmetic. The models'
integers are unbounded. In the code `addr+int64(size)` could overflow for an
address near 2^63; `addr` values that large are not in the model.

### FtgmacTx and FtgmacRx

The driver's side is cut where another bus master can tell the difference: the
invalidate before a descriptor is read (`SendBegin`, `PollBegin`), the test of
OWN or READY, each group of stores, each clean, the doorbell. `Init` is three
steps: the wipe of the DMA area (`InitClear`), the reset (`InitReset`, which may
time out), and the rings, registers, cache clean and MACCR together
(`InitRings`: the MAC is off, so nobody watches the order). `up` says that the last
`Init` has got that far, and callers send and poll only then. `SetLink` writes
MACCR: on a MAC that runs it changes speed and duplex only, one that is off (on
the receive side, because `maccr` did not know `d.Link`) it starts. The MAC's engine
polls, fetches a descriptor, sends the buffer and writes the descriptor back as
separate steps; the receive engine stores the frame, then its status.

Memory is a function from slots to `CacheLine`s. With cacheable memory the cache
may evict or prefetch any line at any moment (`EvictDesc`, `PrefetchBuf`, ...);
without it a line is never held and the same actions describe plain memory. A
frame is its number, the content of a wiped buffer is `Blank`. The length field,
the padding to 60 bytes and the truncation to the caller's buffer are left out:
no property is about them. Initial states are the memory as the allocator gives
it, before the first `Init`.

`FrameQueue` is what either half promises: a bounded queue, frames leave in
order and once, with their own bytes while `exact` holds, until a restart drops
them. `FifoSpec` in both modules is `FrameQueue!Spec` under the mapping given by
the history variable `queue`; on the transmit side `exact` is given up for
cached memory and for the time between Init's wipe and its reset, for the
reasons the two violation runs show.

### EhciXfer

`pc` walks `ControlIn` and `waitQTD` store by store, as far as the controller or
the cache can tell: `BuildQTDs`, `CleanQTDs`, `BuildQH`, `CleanQH`,
`SetListAddr`, `EnableAsync`, the poll (`PollInvalidate`, `Look`), the snapshot
(`DumpInvalidate`, `Snapshot`), `DisableAsync`, and after a nil error
`ReadResidual`, `InvalidateData`, `CopyData`; then the deferred `Free`. The
controller has its own view of the schedule: it starts and stops after the enable
bit changes (`StartSchedule`, `StopSchedule`, `ass` is `USBSTS`), fetches the
descriptor its queue head is at, and writes data before the token. The device may
NAK for any time, send less than asked for, or stall at any stage.

The four buffers of a transfer come and go together and are one *arena*; the
SETUP packet's own buffer is folded into the SETUP descriptor (both are cleaned
before the queue head is linked). A token is its status and the bytes left; a
data buffer is whose bytes it holds and how many. A stage may end with an error
bit in its token although it is done (`recovered`: the transaction was repeated):
`qtdErrMask` counts it as a failure, so a transfer that is complete and whose
STATUS token has the bit is reported as `ErrHalted`, although `waitQTD`'s comment
speaks of a descriptor that halts. `dbg` is the snapshot of the call under way; a
call that starts has none. One caller at a time:
`Controller` has no lock and its methods share `c.dbg` and `ASYNCLISTADDR`.
`Alloc`'s zeroed buffers are taken to be coherent, a condition on the backend:
`ControlIn` never cleans the data buffer itself. A length above 4096, more than
the buffer it allocates, is not in the model.

EHCI lets the controller take its time over a cleared enable bit, and `ControlIn`
does not wait. `atOnce` says whether this controller stops by the driver's next
step; it is a variable, and `Stopping` says which kinds a run has.
`ScheduleIsOwned` is what the code does achieve on either kind: the enable bit is
set only while the list address is on memory of the call under way, on every way
out. `NoDmaAfterFree`, that the *walk* has ended too, is what it does not
(`ehci_free`).

`SuccessIsTrue` and `FailuresAreReal` are the two halves of the error's meaning:
nil says that the device completed *this* transfer and these are its bytes, an
error says that the device was late or failed, never that a line stayed in the
cache. The one exception is in the statement: on a controller that stops late a
timeout may also come from the schedule still being at the last transfer's memory. `RootCause` is about the snapshot: `waitQTD` looks at the STATUS
descriptor only, so a SETUP or DATA stage that stalls is reported as a timeout,
and the snapshot is the only place that names it.

### EhciPort

Each access of PORTSC is a step, and between a read and the write made from it
the user may plug and unplug and the port may fail. `WritePort` is what the
register does with a write: change bits are acknowledged by a 1, Port Enable can
only be turned off, PR stays set for a while after its release. `after` is
`ResetResult.After`. `ResetPort` is called with a device connected, as its
comment asks. The 50 ms for which PR is held are enough for a high-speed
handshake, and a released reset ends before the 300 ms of `Settle` do: both are
guards, named in the module.

### PhyBus

A PHY call is a *program*: a sequence of accesses (`buckWrite`, `buckModify`, a
Clause 45 access, the polls of `reset` and `WaitLink`, ...), each a sequence of
MDIO operations with what is done with each outcome (`then`: most errors end the
call, the polls go on). `Fire`, `Poll` and `Data` are `Bus.op` and
`Bus.data`. A poll of 1000 reads that is used up is a step that finds FIRE still
set: the operation stays in flight, ends later (`Finish`), or is dropped by the
next one. The PHY has its page register, the latches of the paged access, and a
few registers with a read path (`Readable`); the others can only be written, so
their writes are collected in `commits`. Standard registers are on every page,
0x10 and up are paged. A register is the set of its bits.

`BuckExact` allows a failed call to have done a part of its work, never anything
else: a read-modify-write that is given up on in the middle leaves the page at
4, and the calls that follow must still be exact. `WaitLink` chooses its link
partner when it begins and the cable may go to another one while it runs
(`MaxFlaps`).

### Otp

`Issue` is one command with its registers, `waitComplete` the end of its poll.
A controller that is still busy with an abandoned command ignores the new one or
drops the old. A word is two bytes of 0 or 1, programming can only set, a program
of several words may set some of them and then fail. `Size` is the address of
the strap that `Init` reads. The code writes no count register and never clears
WDATA (`otp.go:126-134`), so a program of two words, or of none, is issued with
the words of an earlier one still staged. The model takes the controller to burn
the words staged for this call only. That is an assumption: if the controller
burns all of WDATA, `OtpReportsAreTrue` is false for every short program.

`ready` is history: an `Init` succeeded that had found the controller idle. An
`Init` behind a command that was given up on may take that command's word for
the strap, and then every later command runs in the wrong ECC mode; until
`ready`, `OtpReportsAreTrue` says nothing of the mode.

### DpAux

One step per AUX transaction: `Fire`, then `Answer` or `GiveUp` (the spin budget
is used up, the transaction is not cancelled). `Reply` is what each caller does
with the status. The engine's done and timeout interrupts are latched, which is
how a late one meets the next transaction. `clean` says that the engine was
quiet when `ReadEDID` began, the condition for `EdidIsWhole`; a transaction that
ends late after a failed call is what it excludes. With `DeferWrites` the sink
may also defer a write, see `aux_defer`. A chunk is its number, `Retries` stands
for 64, a sink that NACKs is not in the model.

### Video

The call in progress is its number, so that a frame or a geometry tells for
which call it was made. Triggers are taken by an idle unit only; they and
force-idle clear themselves. A compression that was triggered with its capture
is busy from the trigger on and starts when the capture is done. An error ends
what the units were doing. `CaptureFrame` copies nothing and returns `dst[:n]`:
`dst` is taken to be the buffer that `Configure` gave the compression unit
(`Bytes`). `quiet` says that a call found the engine idle; `ResultIsFresh` promises
nothing of calls that did not. It has one more exception, and it is the
code's: `CaptureFrame` waits for the *capture* interrupt, then only for the busy
bits, so an error of the compression in between is not noticed and is left
pending (`late`).

### Bringup

Each call is a program of register accesses in the order of the source
(`BringupPrograms`), which `Bringup` runs;
`SetBits32`, `ClearBits32` and `MaskWrite32` are a load and a store. The
packages' accesses interleave, each package runs one call at a time (two
concurrent `InitSteps` of vHub ports would lose updates of `USB_MULTI_CTRL`; the
package gives no such promise and no caller does it). A write to a locked SCU is
lost, so is one to a unit whose clock is stopped or whose reset is held, and such
a unit reads as its reset value. `dead` are units that never clock. A reset
clears its unit's registers, except the CRT's: the source says so
(`aspeedgfx.go:190`). The DP scratch registers (0x900, 0x910) are not protected.

A step of a trace is an access with the bits it wants to see (`Want`); the
read-back is merged with the write before it. `OK` is `Step.OK`. Left out: steps
that write nothing (the HCHalted check, CAPLENGTH, delays), and the case of a
port without power control. A register value that belongs to a display mode is
`{mode}`. `Odd` is a mode whose pixel clock cannot be made: `ConfigureCRTOnly`
then returns false with the CRT in reset and its clock stopped.

`TraceIsTrue` is about what the code can know: when every step was OK, the port
is up, and it stays up while other ports and packages are brought up.
`UntracedWork` is about the calls that do not look: they are right when no other
package's call met theirs. It would be false without that condition: a re-lock
in the middle makes `EnableMAC0RGMII`'s writes vanish. `screen` is what the
completed display calls promise; a call that met another package's promises
nothing. The attempt to prove `UntracedWork` found an error of the model here:
`screen` once counted a call that had met another, as long as the next one had
not. With `MaxMet` 2 there is no room for what follows, with 3 the property was
false.

### Segment, Framebuffer, Edid, Modes

Operators with the source's names. A segment register is its two fields, in
their resolution of 64 KiB. A drawing call is the set of (offset, byte) pairs it
writes; `ClipExact` compares it with `SetPixel` on each pixel of the rectangle.
`Edid` parses sequences of 128 bytes and `Encode` (external: it is the VESA
layout) builds them from a display's description; `BestModeIsRead` says that the
mode chosen from the bytes is the one to choose from the description.
`Framebuffer`'s integers are unbounded: in the code a rectangle whose `x+w` is no
`int` is clipped otherwise, and the model says nothing of it.

`ClockIsNear` and `ClockIsClosest` compare the divider with other pairs R, N. The
doc comment says that the search finds the closest clock. It compares whole
kilohertz and stops at the first pair that is 0 off, so another pair may be
closer: `ClockIsClosest` is false (`clock_closest`), and what holds is
`ClockIsNear`, closer by less than 2 kHz. That bound is needed: 266665 kHz from
800 MHz becomes 2/3 of 400 MHz, 1.67 kHz off, while 43689/65534 is 0.37 kHz off.
At the size of `devices` 13335 is such a clock.

## Runs

| run | question | bounds |
|-----|----------|--------|
| `nor_flash` | is everything `SpiNor` states true | 2 goroutines; 6 cells, pages and erase blocks of 2; addresses -1, 3, 4; lengths 1 and 3; one data pattern |
| `nor_retry` (violation) | does a report hold with no condition on the chip | 1 goroutine, same chip |
| `tx_ring` | is everything `FtgmacTx` states true | ring of 2, 4 frames, 2 `Init`s at ring position 0, cached and uncached |
| `tx_stale` (violation) | is the buffer clean before the MAC reads it | ring of 2, 3 frames, cached |
| `tx_reinit` (violation) | may `Init` be called at any ring position | ring of 2, 3 frames, positions 0 and 1, uncached |
| `rx_ring` | is everything `FtgmacRx` states true | ring of 2, 4 frames, 2 `Init`s at ring position 0, quiet wipe, cached and uncached |
| `rx_phantom` (violation) | may a frame arrive while `Init` wipes the ring | ring of 2, 3 frames, uncached |
| `ehci_xfer` | is everything `EhciXfer` states true but `NoDmaAfterFree` | 2 transfers, one arena (so the second gets the first's memory), length 1 with 0 or 1 bytes sent, cached and uncached, stopping at once and late |
| `ehci_free` (violation) | may the controller stop in its own time | 1 transfer, uncached, stopping late |
| `devices` | is everything the one-device modules, `Bringup` and the pure modules state true but `ClockIsClosest` | per device 3 calls (`MaxCalls`), of the PHY 2 (`MaxPhyCalls`); `MaxFlaps` 1, `MaxPlugs` 3, OTP `Size` 3, AUX `Retries` 2, frame `Sizes` 1 and 3 with `Room` for 2, `CrtClkRNMax` 40; bring-up: all four vHub ports, EHCI, MAC, display with modes 5, 21 and `Odd`, `MaxBringups` 3, of which the first `MaxMet` 2 may overlap, three sets of dead units |
| `clock_closest` (violation) | is the divider the closest, as its comment says | the clocks of `devices`, `CrtClkRNMax` 1000, nothing else moves |
| `aux_defer` (violation) | does `ReadEDID` honour a deferred write | 2 calls, `Retries` 2, `DeferWrites` |

**Why these bounds are enough to be interesting.** In `nor_flash` the addresses
are illegal (-1), unaligned (3: a write of 3 starts in the middle of a page and
crosses into the next), aligned, last-in-chip, and past the end (4 with length
3). Two goroutines suffice for every pairwise interleaving of a write, an erase,
a read and an identification, including a call on a chip that an earlier,
timed-out call left busy. In the ring runs two slots make the ring fill, wrap and
be reused with four frames, and driver and MAC meet on the same descriptor.
In `devices` the second call is the one that meets what the first left behind: a
command in flight, a latched interrupt, a page register at 4; a third can meet
what two different calls left, as a video call the source buffer of the first
and the interrupt of the second. A
behaviour is about one device (`on`), so the run's size is the sum of the
devices' and not their product. The inputs of the pure modules lie on, next to
and beyond every boundary of the code (unit and window ends, screen edges, zero
and negative sizes, clocks of 0, too slow, of the mode table and too fast).
`CrtClkRNMax` stands for 65535: the largest R and N the search tries. Of the
bring-ups two suffice for every pairwise meeting, A1 and A0 share a PHY, as do B1 and B0,
and three in a row reach a screen that shows a mode (`ConfigureCRT`,
`SetMode`, `Enable`). Every port, the EHCI and its PHY is dead in one of the
sets of `DeadSets`, alone on its PHY or with one of another package; the
theorems are about any sets.

**Bounds and environment assumptions, by name.** `MaxFrames` and `MaxInits` cap
counters. `ReinitAt = {0}` restricts `Init` to a ring at position 0 and
`QuietInit` excludes frames between the wipe and the reset: both are conditions
under which the code is right, and `tx_reinit` and `rx_phantom` show what happens
without them. Callers send and poll only after an `Init` that laid out the rings (`up`).
The ring runs stop at their frame bound, so deadlock is not checked there;
`nor_flash` and `nor_retry` check it. `ehci_xfer` and `ehci_free` stop at
`MaxXfers`. `Stopping` says which controllers `EhciXfer` is checked on: `TRUE` is
one whose schedule has stopped by the driver's next step after the enable bit is
cleared, `FALSE` one that stops when it likes, as EHCI allows.
`devices` stops at its numbers of calls, so deadlock is not checked there.

### What the violation runs show

- `nor_retry`: a program or erase times out, the chip goes on. The retry's
  `writeEnable` finds WEL set (it belongs to the running operation), the chip
  ignores the new command, `waitReady` sees the *old* operation end, and the call
  reports success. `ReportedIsDone` is the same statement for calls that found
  the chip idle, and holds.
- `tx_stale`: `ftgmac100.go:218-219` clean the descriptor before the buffer. A
  MAC that is still draining the ring needs no doorbell to find OWN.
- `tx_reinit`: `Init` restarts the MAC at descriptor 0 but keeps `txIdx`.
- `rx_phantom`: `Init` wipes the descriptors while the MAC is still running; the
  status of a frame in flight lands in a wiped descriptor and is delivered after
  the restart.
- `ehci_free`: `ControlIn` clears the schedule's enable bit and frees its memory
  without waiting for the status bit, so the controller still holds the queue
  head's address when the allocator gets the memory back.
- `aux_defer`: `readEDIDBlock` looks at the reply status of its chunk reads only.
  A sink that defers the write of the DDC offset leaves its pointer where the
  last read left it; the EDID that is returned, with no error, starts there.
- `clock_closest`: VGA's 25175 kHz from 1000 MHz. At N = 854, R = 43 is less than
  1 kHz off, which is 0 in whole kilohertz, and the search stops; 36/715 is closer.
  N below 1000 is inside the register's 16 bits, so the code does the same.

## Fairness

`SpiNor`: weak fairness of each goroutine's own step (a runnable goroutine runs),
strong fairness of `Lock` (Go's mutex hands over to a waiter that starves), weak
fairness of time passing a deadline. *Nothing* is assumed of the chip, so
`EveryCallReturns` holds for one that hangs.

`FtgmacTx`, `FtgmacRx`: weak fairness of the driver's call in progress, of
`Init`'s remaining steps, and of the MAC's engine. The caller is assumed to keep
sending or polling: that is what the API requires (`EthPoll` is the only way to
receive, and `ErrTXBusy` is answered by a retry). The cache, the wire and callers
of `Init` and `SetLink` owe nothing. `QueueDrains` uses the MAC's fairness: it says that no
wake-up is lost between driver and engine, not that the engine is reliable.

`EhciXfer`: weak fairness of the call in progress, of the controller and of time
passing the deadline; none of the device or the cache. `DeadlinePasses` needs a
controller that has nothing left to do or a device that was late or failed: the
deadline of one second is long for an idle bus, and `FailuresAreReal` would say
nothing without this.

## Proofs

### The flash driver

`SpiNorProofs` proves, for any number of goroutines, any geometry and any
arguments, from `GeometryAssumption` (sizes are positive) and
`CallerAssumption` (addresses are integers, lengths naturals, `NoProc` is not a
goroutine):

| theorem | states |
|---------|--------|
| `InvHolds` | the inductive invariant |
| `TypeCorrect` | `TypeOK` |
| `BusIsExclusive` | `BusExclusive` |
| `ReportsAreTrue` | `ReportedIsDone` |
| `FailuresAreTimeouts` | `OnlyTimeoutFails` |
| `ChangesAreContained` | `OnlyTargetChanges` |
| `ReadsAreFlash` | `ReadSeesFlash` |

`Inv` has five parts. `TypeOK` and `BusExclusive` are properties themselves.
`Shape` says what a call in progress looks like at each `pc`: which stages go
with which operation, that a call past the range check is valid, that a write
that is on the bus has bytes left. `Tracks` is the heart: it says, for a call
that found the chip idle, what the driver may conclude about the chip at each
stage - idle before the command, latch set after WREN, working on exactly this
command or finished with it while polling, and the first `n` bytes in flash.
It is needed because `ReportedIsDone` speaks of the end of a call only and is
not preserved by any single step. `Contained` ties the operation in progress to
the call that caused it, also after that call timed out. `ReadsAreFlash` adds
`Reads`: the bytes read so far are the flash contents *now*, which is preserved
because an idle chip stays idle while a reader holds the mutex.

The page arithmetic is the other half: `ProgramCellsExact` (a program that ends
inside its page touches exactly the addressed cells) and `ChunkFits` (`WriteAt`'s
chunks end inside their page) give `IssuedExact`, from which containment follows.

### The Ethernet rings

From `TxAssumption` and `RxAssumption` (a ring has at least one slot, the bounds
are naturals, `Caching` is a set of Booleans, ...), for rings of any size, any
number of frames and of calls of `Init`, with and without a cache:

| theorem | states | under |
|---------|--------|-------|
| `FtgmacTxProofs!InvHolds`, `TypeCorrect` | the inductive invariant, `TypeOK` | |
| `FtgmacTxProofs!OwnersExclude` | `OneOwner` | |
| `FtgmacTxProofs!DescriptorsWhole` | `DescriptorWhole` | |
| `FtgmacTxProofs!RingIsFifo` | `FifoSpec`: the ring implements `FrameQueue` | `ReinitAt \subseteq {0}` |
| `FtgmacRxProofs!InvHolds`, `TypeCorrect` | the inductive invariant, `TypeOK` | |
| `FtgmacRxProofs!NothingOverwritten` | `NoOverwrite` | |
| `FtgmacRxProofs!RingStaysIntact` | `RingIntact` | |
| `FtgmacRxProofs!RingIsFifo` | `FifoSpec` | `ReinitAt \subseteq {0}`, `QuietInit` |

`CacheLineProofs` says once what a store, a fill, a clean, an invalidate and a
DMA write make of a line's two views; every step's proof rests on it.

`Inv` of either half has the same parts. `Shape` says which `pc` goes with which
state of the engine, `Lines` that uncached memory has one view. `Marks` is why
the engine never walks off the ring: wherever OWN is set (on the receive side,
wherever the buffer's address is), in memory or in a dirty line that the cache
may write back by itself, the end-of-ring mark is right. `Ownership` is why
driver and engine exclude each other. No property mentions it, and none is
inductive without it: the only line that is ever dirty is the slot the driver is
filling or giving back; a clean copy that gives the driver the slot (OWN clear,
or ready) is not older than memory; and a MAC that is past its fetch owns the
descriptor it works on. On the transmit side `Empty` says that until `Init` has
succeeded nothing that survives its wipe is owned. None of this needs a
condition on when `Init` is called: ownership is safe at any ring position, what
breaks without `ReinitAt \subseteq {0}` is the order of frames.

The refinement is proved step by step (`StepRefines`) from `Inv` and a second
invariant, `RingInv`, that says where the queue is in the ring. Transmit:
`Window` - the owned slots are those from the MAC's position up to the driver's,
in ring order, as many as the queue is long (and one more between sending and
giving back); without a cache they hold the queue's frames in its order.
`Draining` is for the time between `Init`'s wipe and its reset, when the MAC may
still send some of what was queued. Receive: `Queued` - there is an increasing
sequence of positions, one for each queued frame, and the slots at them are the
full ones with a good status that have not been copied. A sequence of positions
is needed because bad frames take slots too. `Buffers` says that what `EthPoll`
copies is what the MAC stored, after the invalidate and not before. The two
hypotheses are needed: `tx_reinit` and `rx_phantom` are runs without them.

### The EHCI transfer layer

From `XferAssumption`, for any arenas, lengths and numbers of transfers, with and
without a cache:

| theorem | states | under |
|---------|--------|-------|
| `InvHolds`, `TypeCorrect` | the inductive invariant, `TypeOK` | |
| `SuccessHolds` | `SuccessIsTrue` | |
| `RootCauseHolds` | `RootCause` | |
| `ScheduleIsOwnedHolds` | `ScheduleIsOwned` | |
| `FailuresAreRealHolds` | `FailuresAreReal` | |

`Inv` assumes nothing of when the controller stops. `Stored` says at each `pc`
which descriptors are in memory already; `Walked` reads the controller's progress
off the queue head's overlay: STATUS is done exactly when the overlay is, a
halted stage is the one that stalled, and from STATUS on the residual and the
buffer are what the device sent. `Result` carries that to the return value:
past the poll a nil error means that the transfer is done in *memory*, not in a
cached copy. `Seen` follows a stall into the snapshot. `StopInv` adds two
conjuncts, for controllers of either kind. `Schedule`: the enable bit is set only
between `EnableAsync` and `DisableAsync`, with the list at the arena of the call
in progress, and a controller that stops at once runs for no other arena.
`Blame`: a halt or a recovered error has a cause in the device, and on a
controller that stops at once a deadline that is missed has one too.
`NoDmaAfterFree` is no theorem: `ehci_free` shows why.

### One-device drivers

`DeviceProofs` has one inductive invariant per driver, for any number of calls
and any disturbance. From `Bounds` (`MaxCalls`, `MaxPlugs` and `Size` are
naturals, `Retries` is at least 1; nothing is assumed of Video's parameters):

| theorem | states | under |
|---------|--------|-------|
| `PortInvHolds`, `PortTypes` | the root port's invariant, its `TypeOK` | |
| `SwapsAreSeen` | `SwapIsSeen` | |
| `StableStaysEnabled` | `StableIsEnabled` | |
| `OtpInvHolds`, `OtpReports` | the OTP invariant, `OtpReportsAreTrue` | |
| `AuxInvHolds`, `EdidsAreWhole` | the AUX invariant, `EdidIsWhole` | `~DeferWrites` |
| `VideoInvHolds`, `ResultsAreFresh` | the video invariant, `ResultIsFresh` | |
| `TypesHold` | `TypesOK`, for the four drivers side by side | |

*Root port*: `PortEnabled` follows Port Enable through the read that the release
of PR writes back; with `QuietWrite`, a write that carries no change bit loses
none. *OTP*: `OtpOurs` says that for a call that found the controller idle the
command in flight is its own, in its ECC mode, and that each fuse is as it was or
as asked; `OtpProgress` and `OtpReport` say how much of the answer has been
collected and that it is what the fuses hold. The attempt to prove it found an
error of the model: `ready` was once set by any successful `Init`, and an
`Init` that meets an abandoned command may read that command's word. It is now
set as described above. *AUX*: `AuxOurs` ties the sink's pointer to the number of
chunks read, across deferred reads; the hypothesis is the one that `aux_defer`
drops. `AuxFits`, which needs neither a quiet engine nor that hypothesis, bounds
the buffers for `TypesHold`. *Video*: `EngineIsOurs` says of a call that found the engine idle that
whatever the units are doing is for this call; `FrameIsOurs` is the frame's
way through capture and compression, with the late error as its exception.

### The PHY driver

`PhyBusProofs`, from `PhyAssumption` (the bounds are naturals, either end
advertises sets of link modes), for any number of calls and of cable changes:

| theorem | states |
|---------|--------|
| `TypesHold`, `PhyTypeCorrect` | the types with those of the controller's and the PHY's registers; `TypeOK` |
| `BuckHolds` | the inductive invariant of the register accesses |
| `PhyBuckExact` | `BuckExact` |
| `PhyLinkWasCommon` | `LinkWasCommon` |

The programs come first. `GoodPrograms` says of every call that each of its
accesses is of one of five kinds (a write, a modification, the write on page one,
a Clause 45 access, one of the standard registers), that no access clears a bit
that an earlier one of the call set, and that what they set and change together
is what `WriteOnly` and `ReadBack` promise of the call. What follows never looks
at a program again, only at kinds.

`BuckInv` says of a call that found the controller idle where it is: the accesses
before this one have taken effect and no other has (`DoneBefore`), or this one
too once its last store has ended (`DoneThis`). `pos` is the next operation whose
effect the PHY has not seen; up to it, the page and the latches are set up for
*this* access (`Stored`, `Fetched`), and what a modification has read is the
register as the earlier accesses left it. No property mentions page or latches
and none is inductive without them: at the call's start the page may be anything,
for a call that was given up on leaves it at 4. `InFlight` says that the
controller holds this operation, or a read that a poll gave up on. `Returned` is
the part that makes late completions safe: the operation still in flight after a
failed call is `Harmless`, if it ends now it commits nothing that the call was
not asked for. `LinkInv` follows the four words that `WaitLink` compares
(`Negotiating`): each of the partner's two is that of some partner that was there
during the call, and if there was one only, a speed that was passed over was not
common.

### Bring-up

`BringupProofs`, from `BringupAssumption` (`Ports` are ports of the tables,
`Modes` are naturals, `MaxMet` of `MaxBringups` calls may overlap, `DeadSets` are
any sets of the units), for any number of calls, any display modes and whichever
units do not clock:

| theorem | states |
|---------|--------|
| `BringupTypeCorrect` | `BringupTypeOK` |
| `TracesAreTrue` | `TraceIsTrue` |
| `WorkIsDone` | `UntracedWork` |

The argument is in four layers. *Who writes what*: `Owns` gives each register one
package that writes it, and `Fits` says which access a package may make of a
shared one: `RstB`, which the display may only release, and `Clk0`, where it
stops a clock of its own. `ProgramsFit` shows that every program keeps to this, by
the shape of the programs and not by their length. *What an access does*
(`Effects`, `Writes`): which registers it may change, and to what, in any state of
keys, clocks and resets. *What the others leave alone* (`OthersKeep`,
`SharedKeep`): from the two, an access of one package keeps what the invariant of
another says (`VhubOther`, `EhciOther`, `NetOther`, `GfxOther`). The key is the
exception, which is why a call that looks at nothing is right only when it met
nobody. *What the package's own access adds* (`VhubAdvances`, `EhciAdvances`,
`CrtAdvances`, ...): one lemma per program.

The inductive invariants say how far a call has come. `VhubDone(p, n)` is what
the first n - 1 accesses of a port's `InitSteps` have achieved *if every one was
OK*; it needs no key, for an access that was lost is read back and not OK. Beyond
the call, `VhubInv` keeps the ports that were reported OK up, with one exception
that is needed: while `InitSteps` of the port with the same PHY are under way that
PHY may be in reset again, and is up again when they report OK. `VhubLoaded` is
for the time between a load and its store: what is written back must still hold
the bits that others rely on. `EhciInv` is the same for the host controller,
with the bit that `HCReset` clears by itself. `NetInv` and `GfxInv` speak of
calls that are alone; they hold the key between unlock and lock. `GfxInv` also
says what the display shows *during* a call (`ScreenInv`): `SetMode` keeps the
clocks, `Enable` keeps clocks and timing, the others set it up anew.

### Segments, clipping, clocks

In `DeviceProofs` as well:

| theorem | states |
|---------|--------|
| `RoundTrip` | `Segment`'s round trip, for all starts and sizes |
| `OneUnitDisables` | the exception `Representable` makes for one AST2600 unit is needed |
| `FillRectClips` | `FillRect` is exact for every valid framebuffer, rectangle and colour |
| `SegmentsRoundTrip` | `SegmentRoundTrip`, for every input with integer start and size |
| `DrawingClips` | `ClipExact`, `HLine`, `VLine` and `Fill` included, for every valid framebuffer |
| `ClocksAreNear` | `ClockIsNear`, for every clock and width of the fields |

None needs an assumption on constants, but that `CrtClkRNMax` is a natural. `RoundTrip`
rests on what the field masks keep of an address inside the window
(`Decoded2600`, `Decoded2700`); `FillRectClips` on the arithmetic of one axis
(what `Start` and `Extent` leave is the intersection of the extent with the
screen), used twice, and on the stride bounding a row's bytes. `Valid` is its
hypothesis: a stride smaller than a row, which `New` does not refuse, would let
a pixel's bytes reach into the next row and past the buffer. `ClocksAreNear`
rests on R being the nearest for its N (`Rounded`), on what whole kilohertz lose
of an error (`WholeError`), and on an N that is skipped being too small for any R
(`Nearer`).

### Only model-checked

- Liveness, which is out of the prover's reach: `EveryCallReturns`, `QueueDrains`,
  `BusyEnds`, `RingFrees`.
- `BestModeIsRead`: `Parse` and `SelectMode` fold over sequences, and induction
  over data is out of reach as well.

## Not modelled

- `vhub`: `AckISR`, `PollBusEvents`, `Status` and the decoders of their bits.
- `aspeedgfx`: the VBlank interrupt, `WaitDPReady` (a poll), `ReadDPMCUIMEM` and
  `Status` (diagnostics), `AddressRegister`. CTRL1 holds VBlank's write-1-to-clear
  status next to the enable bit, and `Enable`, `Disable` and `SetMode` write back
  what they read, so they acknowledge a pending VBlank.
- `videoengine`: `EnableInterrupts`, `DisableInterrupts`, the buffer layout.
- `spi.Init`'s register writes; `SetupPacket` and the register dump of the EHCI
  transfer layer.
- UART transmit (two polling loops), `hal/flash` (an interface), the empty `gpio`
  and `timer` packages, the CI pipeline.

## Plan

What is left, in this order.

1. The VBlank interrupt against the read-modify-writes of CTRL1, and the vHub's
   interrupt status, in a module of their own.
2. Drawing calls on integers of the code's width.
